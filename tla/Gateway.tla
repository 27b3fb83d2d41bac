------------------------------- MODULE Gateway -------------------------------
(***************************************************************************)
(* Concurrent requests of one gateway (gateway/http.go) that share its     *)
(* HealthTracker (gateway/health.go): the order in which candidate routes  *)
(* are tried, the attempts, the response bytes, and the failures           *)
(* remembered.  A request is one Handler.ServeHTTP goroutine:              *)
(*                                                                         *)
(*   idle     not here yet            request  in Client.Request           *)
(*   order    in orderByHealth        read     in WriteEvents              *)
(*   try      at the top of the loop  done     returned                    *)
(*                                                                         *)
(* Every lock of HealthTracker.mu is a step of its own.  The providers and *)
(* the downstream clients are the nondeterminism of the actions.           *)
(***************************************************************************)
EXTENDS Naturals, Sequences, FiniteSets, SequencesExt

CONSTANTS Requests,     \* the requests the gateway serves
          Routes,       \* the candidates, by routeKey, as the router ranks them
          Cooldown,     \* HealthTracker.cooldown
          Limits,       \* the values Handler.MaxAttempts may have; 0 is no limit
          MaxTime,      \* bound on the clock
          None

RouteKeys == Range(Routes)

ASSUME GatewayAssumption ==
  /\ Routes \in Seq(RouteKeys) /\ Routes # <<>>
  /\ IsInjective(Routes)
  /\ Cooldown \in Nat /\ Limits \subseteq Nat /\ MaxTime \in Nat

VARIABLES limit,     \* Handler.MaxAttempts
          now,       \* the clock
          failures,  \* HealthTracker.failures: a time, or None
          pc,        \* where each request is
          streams,   \* Request.Stream
          asOf,      \* the time orderByHealth took
          ahead,     \* the routes it has yet to look at
          queue,     \* the healthy ones; then all the routes yet to try
          late,      \* the unhealthy ones
          tried,     \* the routes tried, in order
          wrote,     \* trackingResponseWriter.wrote
          final,     \* whether an attempt failed in a way that is not retried
          outcome    \* none, answered, error, or cut: a response without its end

healthVars == <<limit, now, failures>>
planVars == <<streams, asOf, ahead, queue, late, tried>>
vars == <<pc, wrote, final, outcome, healthVars, planVars>>

Init ==
  /\ limit \in Limits
  /\ now = 0
  /\ failures = [k \in RouteKeys |-> None]
  /\ pc = [h \in Requests |-> "idle"]
  /\ streams = [h \in Requests |-> FALSE]
  /\ asOf = [h \in Requests |-> 0]
  /\ ahead = [h \in Requests |-> <<>>]
  /\ queue = [h \in Requests |-> <<>>]
  /\ late = [h \in Requests |-> <<>>]
  /\ tried = [h \in Requests |-> <<>>]
  /\ wrote = [h \in Requests |-> FALSE]
  /\ final = [h \in Requests |-> FALSE]
  /\ outcome = [h \in Requests |-> "none"]

GoTo(h, place) == pc' = [pc EXCEPT ![h] = place]

\* The route of the attempt that h is on.
Current(h) == Last(tried[h])

-----------------------------------------------------------------------------
\* HealthTracker
MarkFailure(h) ==
  failures' = IF Cooldown = 0 THEN failures ELSE [failures EXCEPT ![Current(h)] = now]

MarkSuccess(h) == failures' = [failures EXCEPT ![Current(h)] = None]

\* For a caller that took its time at t; failures may be newer than that.
Unhealthy(k, t) == failures[k] # None /\ t < failures[k] + Cooldown

-----------------------------------------------------------------------------
\* ServeHTTP: the request is decoded, and the router has candidates for it.
Arrive(h) ==
  /\ pc[h] = "idle"
  /\ \E s \in BOOLEAN : streams' = [streams EXCEPT ![h] = s]
  /\ asOf' = [asOf EXCEPT ![h] = now]
  /\ IF Len(Routes) < 2 \/ Cooldown = 0
     THEN queue' = [queue EXCEPT ![h] = Routes] /\ ahead' = ahead /\ GoTo(h, "try")
     ELSE ahead' = [ahead EXCEPT ![h] = Routes] /\ queue' = queue /\ GoTo(h, "order")
  /\ UNCHANGED <<late, tried, wrote, final, outcome, healthVars>>

\* It is not decoded, or no route matches: WriteError.
Refuse(h) ==
  /\ pc[h] = "idle"
  /\ outcome' = [outcome EXCEPT ![h] = "error"]
  /\ wrote' = [wrote EXCEPT ![h] = TRUE]
  /\ GoTo(h, "done")
  /\ UNCHANGED <<final, healthVars, planVars>>

\* orderByHealth asks about the next route; a failure that has expired is forgotten.
Order(h) ==
  /\ pc[h] = "order" /\ ahead[h] # <<>>
  /\ LET k == Head(ahead[h]) IN
       IF Unhealthy(k, asOf[h])
       THEN /\ late' = [late EXCEPT ![h] = Append(@, k)]
            /\ UNCHANGED <<queue, failures>>
       ELSE /\ queue' = [queue EXCEPT ![h] = Append(@, k)]
            /\ failures' = [failures EXCEPT ![k] = None]
            /\ UNCHANGED late
  /\ ahead' = [ahead EXCEPT ![h] = Tail(@)]
  /\ UNCHANGED <<limit, now, pc, streams, asOf, tried, wrote, final, outcome>>

\* Bug: the unhealthy routes are not tried at all.
OrderedHealthyOnly(h) ==
  /\ pc[h] = "order" /\ ahead[h] = <<>>
  /\ GoTo(h, "try")
  /\ UNCHANGED <<wrote, final, outcome, healthVars, planVars>>

\* Bug: the unhealthy routes come first.
OrderedUnhealthyFirst(h) ==
  /\ pc[h] = "order" /\ ahead[h] = <<>>
  /\ queue' = [queue EXCEPT ![h] = late[h] \o @]
  /\ GoTo(h, "try")
  /\ UNCHANGED <<streams, asOf, ahead, late, tried, wrote, final, outcome, healthVars>>

\* The routes in the order they are tried in.
Ordered(h) ==
  /\ pc[h] = "order" /\ ahead[h] = <<>>
  /\ queue' = [queue EXCEPT ![h] = @ \o late[h]]
  /\ GoTo(h, "try")
  /\ UNCHANGED <<streams, asOf, ahead, late, tried, wrote, final, outcome, healthVars>>

-----------------------------------------------------------------------------
ReachedMaxAttempts(h) == limit > 0 /\ Len(tried[h]) >= limit

Exhausted(h) == final[h] \/ queue[h] = <<>> \/ ReachedMaxAttempts(h)

\* The next route is attempted: native model, provider client, Client.Request.
Try(h) ==
  /\ pc[h] = "try" /\ ~Exhausted(h)
  /\ tried' = [tried EXCEPT ![h] = Append(@, Head(queue[h]))]
  /\ queue' = [queue EXCEPT ![h] = Tail(@)]
  /\ GoTo(h, "request")
  /\ UNCHANGED <<streams, asOf, ahead, late, wrote, final, outcome, healthVars>>

\* No route is left to try: WriteError of the joined failures.
GiveUp(h) ==
  /\ pc[h] = "try" /\ Exhausted(h)
  /\ wrote' = [wrote EXCEPT ![h] = TRUE]
  /\ outcome' = [outcome EXCEPT ![h] = "error"]
  /\ GoTo(h, "done")
  /\ UNCHANGED <<final, healthVars, planVars>>

\* Client.Request fails, in a way that routeattempt.Retryable says to go on from, or
\* not: a rejected request (400, 422), an unsupported field.
RequestFails(h) ==
  /\ pc[h] = "request"
  /\ MarkFailure(h)
  /\ \E retryable \in BOOLEAN : final' = [final EXCEPT ![h] = ~retryable]
  /\ GoTo(h, "try")
  /\ UNCHANGED <<limit, now, wrote, outcome, planVars>>

\* It returns events.  WriteEvents of a stream writes its header before the first.
RequestOpens(h) ==
  /\ pc[h] = "request"
  /\ wrote' = [wrote EXCEPT ![h] = streams[h]]
  /\ GoTo(h, "read")
  /\ UNCHANGED <<final, outcome, healthVars, planVars>>

\* Bug: the next route is tried whatever was written.
WriteFailsRetries(h) ==
  /\ pc[h] = "read"
  /\ MarkFailure(h)
  /\ \E retryable \in BOOLEAN : final' = [final EXCEPT ![h] = ~retryable]
  /\ GoTo(h, "try")
  /\ UNCHANGED <<limit, now, wrote, outcome, planVars>>

\* WriteEvents fails: an ErrorEvent arrived, or the client left.
WriteFails(h) ==
  /\ pc[h] = "read"
  /\ MarkFailure(h)
  /\ IF wrote[h]
     THEN /\ outcome' = [outcome EXCEPT ![h] = "cut"]
          /\ GoTo(h, "done")
          /\ UNCHANGED final
     ELSE /\ \E retryable \in BOOLEAN : final' = [final EXCEPT ![h] = ~retryable]
          /\ GoTo(h, "try")
          /\ UNCHANGED outcome
  /\ UNCHANGED <<limit, now, wrote, planVars>>

\* The events end and the response is written, or cannot be written to its end.
WriteEnds(h) ==
  /\ pc[h] = "read"
  /\ wrote' = [wrote EXCEPT ![h] = TRUE]
  /\ \/ /\ MarkSuccess(h)
        /\ outcome' = [outcome EXCEPT ![h] = "answered"]
     \/ /\ MarkFailure(h)
        /\ outcome' = [outcome EXCEPT ![h] = "cut"]
  /\ GoTo(h, "done")
  /\ UNCHANGED <<limit, now, final, planVars>>

-----------------------------------------------------------------------------
Tick ==
  /\ now < MaxTime
  /\ now' = now + 1
  /\ UNCHANGED <<limit, failures, pc, wrote, final, outcome, planVars>>

Serve(h) ==
  \/ Arrive(h) \/ Refuse(h) \/ Order(h) \/ Ordered(h) \/ Try(h) \/ GiveUp(h)
  \/ RequestFails(h) \/ RequestOpens(h) \/ WriteFails(h) \/ WriteEnds(h)

Terminated == (\A h \in Requests : pc[h] = "done") /\ UNCHANGED vars

Next ==
  \/ \E h \in Requests : Serve(h)
  \/ Tick
  \/ Terminated

Spec == Init /\ [][Next]_vars
-----------------------------------------------------------------------------
TypeOK ==
  /\ limit \in Limits
  /\ now \in 0..MaxTime
  /\ failures \in [RouteKeys -> 0..MaxTime \cup {None}]
  /\ pc \in [Requests -> {"idle", "order", "try", "request", "read", "done"}]
  /\ streams \in [Requests -> BOOLEAN]
  /\ asOf \in [Requests -> 0..MaxTime]
  /\ ahead \in [Requests -> Seq(RouteKeys)]
  /\ queue \in [Requests -> Seq(RouteKeys)]
  /\ late \in [Requests -> Seq(RouteKeys)]
  /\ tried \in [Requests -> Seq(RouteKeys)]
  /\ wrote \in [Requests -> BOOLEAN]
  /\ final \in [Requests -> BOOLEAN]
  /\ outcome \in [Requests -> {"none", "answered", "error", "cut"}]

\* Once a byte of a response is written, no other route is tried for its request.
NoFallbackAfterBytes ==
  [][\A h \in Requests : wrote[h] => tried'[h] = tried[h]]_vars

\* A request is answered with an error only when every candidate was tried once, as
\* far as the limit on attempts allows, or a failure was one not to retry; whatever
\* the tracker says, and whoever else changes it meanwhile, none is left out.
NoCandidateLeftOut ==
  \A h \in Requests :
    /\ IsInjective(tried[h])
    /\ pc[h] = "done" /\ outcome[h] = "error" /\ tried[h] # <<>> =>
         \/ final[h]
         \/ Range(tried[h]) = RouteKeys
         \/ Len(tried[h]) = limit

\* A candidate is tried after a lower-ranked one only when orderByHealth found it
\* unhealthy, and the other healthy.
RankingKeptUnlessFailed ==
  \A h \in Requests : \A i, j \in 1..Len(tried[h]) :
    LET rank(k) == SelectInSeq(Routes, LAMBDA x : x = k) IN
    i < j /\ rank(tried[h][i]) > rank(tried[h][j]) =>
      /\ Contains(late[h], tried[h][j])
      /\ ~Contains(late[h], tried[h][i])

=============================================================================
