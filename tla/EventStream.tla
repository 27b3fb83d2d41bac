---------------------------- MODULE EventStream -----------------------------
(***************************************************************************)
(* The goroutines between a provider's transport and the consumer of its   *)
(* events.  A chain is a sequence of stages, each a goroutine that sends   *)
(* on an unbuffered channel the next one receives from:                    *)
(*                                                                         *)
(*   read     readStream of a provider client: the head of every chain     *)
(*   adapt    AdaptedClient.stream (providers/anthropic/messages)          *)
(*   process  processEventStream (adapterconfig/runtime.go)                *)
(*   route    prependRouteEvent (muxclient)                                *)
(*                                                                         *)
(* and the consumer is unified.Collect or an endpoint's writeStream, which *)
(* leave their loops alike.  All of them share one context.  A rendezvous  *)
(* on a channel is one step of both sides; where a select has more than    *)
(* one case ready, Go takes any of them.                                   *)
(***************************************************************************)
EXTENDS Naturals, Sequences, SequencesExt

CONSTANTS Chains,     \* the chains of stages requests go through
          Deliveries  \* what transports deliver before their EOF: kinds of event

StageKind == {"read", "adapt", "process", "route"}

ASSUME StreamAssumption ==
  /\ \A c \in Chains : /\ c \in Seq(StageKind) /\ c # <<>> /\ Head(c) = "read"
                       /\ \A i \in 1..Len(c)-1 : c[i] # "route"
  /\ \A d \in Deliveries : d \in Seq({"data", "meta", "error"}) /\ d # <<>>

VARIABLES chain,     \* the request's chain
          provided,  \* what its transport delivers: deltas of one block, metadata, errors
          ctxDone,   \* whether its context has ended
          next,      \* the next of them to be read
          out,       \* what each stage has yet to send before it receives again
          last,      \* whether it returns when that is sent
          held,      \* what its processors have buffered
          ended,     \* whether it has returned, and its channel is closed
          routed,    \* prependRouteEvent's routeEventSent
          got,       \* the events the consumer received
          outcome    \* how it returned: none (it has not), ok, error or ctx

stageVars == <<out, last, held, ended, routed>>
vars == <<chain, provided, ctxDone, next, stageVars, got, outcome>>

Stages == 1..Len(chain)
Bottom == Len(chain)

\* ProviderExecutionEvent is meta; an event of the provider has its place in n.
Event(kind, n) == [kind |-> kind, n |-> n]
FromProvider(n) == Event(provided[n], n)
Warning == Event("warning", 0)
Route == Event("route", 0)
Failed == Event("error", 0)

Init ==
  /\ chain \in Chains
  /\ provided \in Deliveries
  /\ ctxDone = FALSE
  /\ next = 1
  /\ \E warns \in SUBSET {i \in Stages : chain[i] \in {"read", "adapt"}} :
       out = [i \in Stages |-> IF i \in warns THEN <<Warning>> ELSE <<>>]
  /\ last = [i \in Stages |-> FALSE]
  /\ held = [i \in Stages |-> <<>>]
  /\ ended = [i \in Stages |-> FALSE]
  /\ routed = FALSE
  /\ got = <<>>
  /\ outcome = "none"

Sending(i) == ~ended[i] /\ out[i] # <<>>
Receiving(i) == ~ended[i] /\ out[i] = <<>>

\* What stage i still has to do after a step: send evs and, if final, return.
Does(i, evs, final) ==
  /\ out' = [out EXCEPT ![i] = evs]
  /\ last' = [last EXCEPT ![i] = final]
  /\ ended' = [ended EXCEPT ![i] = final /\ evs = <<>>]

-----------------------------------------------------------------------------
\* The head of the chain: ByteStream.Recv and the provider's decoder.  The Responses
\* client returns behind its CompletedEvent, the others read up to EOF.
ReadEvent ==
  /\ Receiving(1) /\ next <= Len(provided)
  /\ \E completed \in {FALSE, next = Len(provided)} :
       Does(1, <<FromProvider(next)>>, completed)
  /\ next' = next + 1
  /\ UNCHANGED <<chain, provided, ctxDone, held, routed, got, outcome>>

ReadEnds ==
  /\ Receiving(1) /\ next > Len(provided)
  /\ Does(1, <<>>, TRUE)
  /\ UNCHANGED <<chain, provided, ctxDone, next, held, routed, got, outcome>>

\* Recv fails, be it with ctx.Err(), or the decoder does.
ReadFails ==
  /\ Receiving(1)
  /\ Does(1, <<Failed>>, TRUE)
  /\ UNCHANGED <<chain, provided, ctxDone, next, held, routed, got, outcome>>

-----------------------------------------------------------------------------
\* The other stages.  What one makes of an event it receives: what it is to send,
\* what it holds back, and whether it returns then.
Made(evs, kept, final) == [out |-> evs, held |-> kept, last |-> final]

\* Bug: what a processor held is let go behind the event that ends the holding.
ProcessedReordered(i, ev) ==
  {Made(<<ev>> \o held[i], <<>>, FALSE), Made(<<Failed>>, <<>>, TRUE)}
    \cup {Made(<<>>, Append(held[i], x), FALSE) : x \in {ev} \cap [kind : {"data"}, n : Nat]}

\* Chain.Push, after the decoder in adapt: processors let an event through behind
\* what they held, hold a delta back, or fail.
Processed(i, ev) ==
  {Made(Append(held[i], ev), <<>>, FALSE), Made(<<Failed>>, <<>>, TRUE)}
    \cup {Made(<<>>, Append(held[i], x), FALSE) : x \in {ev} \cap [kind : {"data"}, n : Nat]}

\* Metadata that comes first is folded into the route event.
Routed(ev) ==
  IF routed THEN <<ev>> ELSE IF ev.kind = "meta" THEN <<Route>> ELSE <<Route, ev>>

Results(i, ev) ==
  IF chain[i] = "route" THEN {Made(Routed(ev), <<>>, FALSE)} ELSE Processed(i, ev)

\* Stage i sends to stage i + 1.
Transfer(i) ==
  /\ i \in Stages \ {Bottom} /\ Sending(i) /\ Receiving(i + 1)
  /\ \E r \in Results(i + 1, Head(out[i])) :
       /\ out' = [out EXCEPT ![i] = Tail(@), ![i + 1] = r.out]
       /\ last' = [last EXCEPT ![i + 1] = r.last]
       /\ held' = [held EXCEPT ![i + 1] = r.held]
  /\ ended' = [ended EXCEPT ![i] = last[i] /\ Tail(out[i]) = <<>>]
  /\ routed' = (routed \/ chain[i + 1] = "route")
  /\ UNCHANGED <<chain, provided, ctxDone, next, got, outcome>>

\* Bug: at the end of its input a stage returns with what it holds.
InputEndsUnflushed(i) ==
  /\ i \in Stages \ {1} /\ Receiving(i) /\ ended[i - 1]
  /\ IF chain[i] = "route" /\ ~routed THEN Does(i, <<Route>>, TRUE) ELSE Does(i, <<>>, TRUE)
  /\ held' = [held EXCEPT ![i] = <<>>]
  /\ routed' = (routed \/ chain[i] = "route")
  /\ UNCHANGED <<chain, provided, ctxDone, next, got, outcome>>

\* Its input channel is closed: Chain.Close, which may fail, or the route event.
InputEnds(i) ==
  /\ i \in Stages \ {1} /\ Receiving(i) /\ ended[i - 1]
  /\ IF chain[i] = "route"
     THEN Does(i, IF routed THEN <<>> ELSE <<Route>>, TRUE)
     ELSE Does(i, held[i], TRUE) \/ Does(i, <<Failed>>, TRUE)
  /\ held' = [held EXCEPT ![i] = <<>>]
  /\ routed' = (routed \/ chain[i] = "route")
  /\ UNCHANGED <<chain, provided, ctxDone, next, got, outcome>>

\* The context has ended while it receives: fail(ctx.Err()), or a plain return.
Interrupted(i) ==
  /\ i \in Stages \ {1} /\ Receiving(i) /\ ctxDone
  /\ Does(i, IF chain[i] = "route" THEN <<>> ELSE <<Failed>>, TRUE)
  /\ held' = [held EXCEPT ![i] = <<>>]
  /\ UNCHANGED <<chain, provided, ctxDone, next, routed, got, outcome>>

\* Bug: an error is sent without a look at the context (as pipeline.Transform does).
SendInterruptedUnlessError(i) ==
  /\ i \in Stages /\ Sending(i) /\ ctxDone /\ ~last[i]
  /\ Does(i, <<>>, TRUE)
  /\ held' = [held EXCEPT ![i] = <<>>]
  /\ UNCHANGED <<chain, provided, ctxDone, next, routed, got, outcome>>

\* It has ended while it sends, an error included.
SendInterrupted(i) ==
  /\ i \in Stages /\ Sending(i) /\ ctxDone
  /\ Does(i, <<>>, TRUE)
  /\ held' = [held EXCEPT ![i] = <<>>]
  /\ UNCHANGED <<chain, provided, ctxDone, next, routed, got, outcome>>

-----------------------------------------------------------------------------
\* The consumer receives; an ErrorEvent makes it return, as does a write that fails.
Consume ==
  /\ outcome = "none" /\ Sending(Bottom)
  /\ LET ev == Head(out[Bottom]) IN
       /\ got' = Append(got, ev)
       /\ outcome' \in {"error"} \cup (IF ev.kind = "error" THEN {} ELSE {"none"})
  /\ out' = [out EXCEPT ![Bottom] = Tail(@)]
  /\ ended' = [ended EXCEPT ![Bottom] = last[Bottom] /\ Tail(out[Bottom]) = <<>>]
  /\ UNCHANGED <<chain, provided, ctxDone, next, last, held, routed>>

\* Its channel is closed: the response is complete.
ConsumeEnd ==
  /\ outcome = "none" /\ ended[Bottom]
  /\ outcome' \in {"ok", "error"}
  /\ UNCHANGED <<chain, provided, ctxDone, next, stageVars, got>>

ConsumeInterrupted ==
  /\ outcome = "none" /\ ctxDone
  /\ outcome' = "ctx"
  /\ UNCHANGED <<chain, provided, ctxDone, next, stageVars, got>>

\* The caller, a deadline or net/http ends the context.
Cancel ==
  /\ ~ctxDone
  /\ ctxDone' = TRUE
  /\ UNCHANGED <<chain, provided, next, stageVars, got, outcome>>

-----------------------------------------------------------------------------
Read == ReadEvent \/ ReadEnds \/ ReadFails
Relay(i) == Transfer(i) \/ InputEnds(i) \/ Interrupted(i) \/ SendInterrupted(i)
Consumer == Consume \/ ConsumeEnd \/ ConsumeInterrupted

Terminated == ctxDone /\ (\A i \in Stages : ended[i]) /\ outcome # "none" /\ UNCHANGED vars

Next ==
  \/ Read \/ Consumer \/ Cancel
  \/ \E i \in Stages : Relay(i)
  \/ Terminated

\* Goroutines that can run do, and the transport delivers, ends or fails.
MaxStages == 4

FairSpec ==
  /\ Init /\ [][Next]_vars
  /\ WF_vars(Read)
  /\ WF_vars(Consumer)
  /\ \A i \in 1..MaxStages : WF_vars(i \in Stages /\ Relay(i))
-----------------------------------------------------------------------------
EventType == [kind : {"data", "meta", "error", "warning", "route"}, n : 0..Len(provided)]

TypeOK ==
  /\ chain \in Chains
  /\ provided \in Deliveries
  /\ ctxDone \in BOOLEAN
  /\ next \in 1..Len(provided) + 1
  /\ out \in [Stages -> Seq(EventType)]
  /\ last \in [Stages -> BOOLEAN]
  /\ held \in [Stages -> Seq(EventType)]
  /\ ended \in [Stages -> BOOLEAN]
  /\ routed \in BOOLEAN
  /\ got \in Seq(EventType)
  /\ outcome \in {"none", "ok", "error", "ctx"}

\* Metadata that comes first may have been folded into the route event.
Folded(n) == n = 1 /\ provided[1] = "meta" /\ got # <<>> /\ got[1] = Route

\* However the stages interleave, buffer, fail or are cancelled, the consumer gets
\* the provider's events in order, without a gap or a repetition; behind a mux client
\* the route event first, and once, whether the metadata came with it, before or late.
DeliveredInOrder ==
  /\ \A k \in 1..Len(got) : got[k].n # 0 =>
       /\ got[k] = FromProvider(got[k].n)
       /\ \A j \in 1..k-1 : got[j].n < got[k].n
       /\ \A n \in 1..got[k].n - 1 : Folded(n) \/ \E j \in 1..k-1 : got[j].n = n
  /\ "route" \in {chain[i] : i \in Stages} =>
       \A k \in 1..Len(got) : got[k] = Route <=> k = 1

\* While the context lasts, a failure of any stage reaches the consumer: a stream that
\* ends as a success was delivered to its last event, and leaves no goroutine behind.
NoFailureSwallowed ==
  outcome = "ok" /\ ~ctxDone =>
    /\ \A n \in 1..Len(provided) : Folded(n) \/ \E k \in 1..Len(got) : got[k].n = n
    /\ \A i \in Stages : ended[i]

\* The consumer always returns; and once the context ends every goroutine of the chain
\* does too, whether or not anybody still reads from it.
EveryoneReturns ==
  /\ <>(outcome # "none")
  /\ ctxDone ~> \A i \in Stages : ended[i]

=============================================================================
