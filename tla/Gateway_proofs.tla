--------------------------- MODULE Gateway_proofs ---------------------------
(***************************************************************************)
(* Theorems about Gateway.  What one request does to another is only the   *)
(* change of failures, now and limit, which none of these facts depends    *)
(* on: the invariant has a part for each request, and a step of a request  *)
(* leaves the parts of the others as they are.                             *)
(***************************************************************************)
EXTENDS Gateway, TLAPS

-----------------------------------------------------------------------------
\* Sequences without repetitions: what append, tail and concatenation make of them.
LEMMA AppendPicks ==
  ASSUME NEW S, NEW s \in Seq(S), NEW x \in S, IsInjective(s), x \notin Range(s)
  PROVE  /\ Append(s, x) \in Seq(S)
         /\ IsInjective(Append(s, x))
         /\ Range(Append(s, x)) = Range(s) \cup {x}
<1>1. /\ Append(s, x) \in Seq(S) /\ Len(Append(s, x)) = Len(s) + 1 /\ Len(s) \in Nat
      /\ \A i \in 1..Len(s) : Append(s, x)[i] = s[i]
      /\ Append(s, x)[Len(s) + 1] = x
  OBVIOUS
<1>2. DOMAIN s = 1..Len(s) /\ DOMAIN Append(s, x) = 1..(Len(s) + 1)
  BY <1>1
<1>3. IsInjective(Append(s, x))
  BY <1>1, <1>2 DEF IsInjective, Range
<1>4. Range(Append(s, x)) = Range(s) \cup {x}
  <2>1. \A i \in 1..(Len(s) + 1) : i \in 1..Len(s) \/ i = Len(s) + 1
    BY <1>1
  <2>2. QED  BY <1>1, <1>2, <2>1 DEF Range
<1>5. QED  BY <1>1, <1>3, <1>4

LEMMA TailDrops ==
  ASSUME NEW S, NEW s \in Seq(S), s # <<>>, IsInjective(s)
  PROVE  /\ Head(s) \in S /\ Tail(s) \in Seq(S)
         /\ IsInjective(Tail(s))
         /\ Range(s) = Range(Tail(s)) \cup {Head(s)}
         /\ Head(s) \in Range(s) /\ Head(s) \notin Range(Tail(s))
<1>1. /\ Head(s) \in S /\ Tail(s) \in Seq(S) /\ Len(s) \in Nat \ {0}
      /\ Len(Tail(s)) = Len(s) - 1 /\ Head(s) = s[1]
      /\ \A i \in 1..Len(Tail(s)) : Tail(s)[i] = s[i + 1]
  OBVIOUS
<1>2. DOMAIN s = 1..Len(s) /\ DOMAIN Tail(s) = 1..Len(Tail(s))
  BY <1>1
<1>3. IsInjective(Tail(s))
  BY <1>1, <1>2 DEF IsInjective
<1>4. Head(s) \in Range(s) /\ Head(s) \notin Range(Tail(s))
  BY <1>1, <1>2 DEF IsInjective, Range
<1>5. Range(s) = Range(Tail(s)) \cup {Head(s)}
  <2>1. \A i \in 1..Len(s) : i = 1 \/ (i - 1 \in 1..Len(Tail(s)) /\ Tail(s)[i - 1] = s[i])
    BY <1>1
  <2>2. ASSUME NEW y \in Range(s) PROVE y \in Range(Tail(s)) \cup {Head(s)}
    <3>1. PICK i \in 1..Len(s) : s[i] = y  BY <1>2 DEF Range
    <3>2. i = 1 => y = Head(s)  BY <1>1, <3>1
    <3>3. i # 1 => y \in Range(Tail(s))  BY <1>2, <2>1, <3>1 DEF Range
    <3>4. QED  BY <3>2, <3>3
  <2>3. ASSUME NEW y \in Range(Tail(s)) PROVE y \in Range(s)
    <3>1. PICK i \in 1..Len(Tail(s)) : Tail(s)[i] = y  BY <1>2 DEF Range
    <3>2. i + 1 \in 1..Len(s) /\ s[i + 1] = y  BY <1>1, <3>1
    <3>3. QED  BY <1>2, <3>2 DEF Range
  <2>4. QED  BY <1>4, <2>2, <2>3
<1>6. QED  BY <1>1, <1>3, <1>4, <1>5

LEMMA ConcatJoins ==
  ASSUME NEW S, NEW s \in Seq(S), NEW t \in Seq(S), IsInjective(s), IsInjective(t),
         Range(s) \cap Range(t) = {}
  PROVE  /\ s \o t \in Seq(S)
         /\ IsInjective(s \o t)
         /\ Range(s \o t) = Range(s) \cup Range(t)
<1>1. /\ s \o t \in Seq(S) /\ Len(s \o t) = Len(s) + Len(t)
      /\ Len(s) \in Nat /\ Len(t) \in Nat
      /\ \A i \in 1..Len(s) : (s \o t)[i] = s[i]
      /\ \A i \in 1..Len(t) : (s \o t)[Len(s) + i] = t[i]
  OBVIOUS
<1>2. /\ DOMAIN s = 1..Len(s) /\ DOMAIN t = 1..Len(t)
      /\ DOMAIN (s \o t) = 1..(Len(s) + Len(t))
  BY <1>1
<1>3. \A i \in 1..(Len(s) + Len(t)) :
        \/ i \in 1..Len(s) /\ (s \o t)[i] = s[i] /\ s[i] \in Range(s)
        \/ /\ i - Len(s) \in 1..Len(t) /\ (s \o t)[i] = t[i - Len(s)]
           /\ t[i - Len(s)] \in Range(t)
  <2>1. \A i \in 1..(Len(s) + Len(t)) :
          i \in 1..Len(s) \/ (i - Len(s) \in 1..Len(t) /\ (s \o t)[i] = t[i - Len(s)])
    BY <1>1
  <2>2. (\A i \in 1..Len(s) : s[i] \in Range(s)) /\ \A i \in 1..Len(t) : t[i] \in Range(t)
    BY <1>2 DEF Range
  <2>3. QED  BY <1>1, <2>1, <2>2
<1>4. Range(s \o t) = Range(s) \cup Range(t)
  <2>1. ASSUME NEW y \in Range(s \o t) PROVE y \in Range(s) \cup Range(t)
    <3>1. PICK i \in 1..(Len(s) + Len(t)) : (s \o t)[i] = y  BY <1>2 DEF Range
    <3>2. QED  BY <1>3, <3>1
  <2>2. ASSUME NEW y \in Range(s) PROVE y \in Range(s \o t)
    <3>1. PICK i \in 1..Len(s) : s[i] = y  BY <1>2 DEF Range
    <3>2. i \in 1..(Len(s) + Len(t)) /\ (s \o t)[i] = y  BY <1>1, <3>1
    <3>3. QED  BY <1>2, <3>2 DEF Range
  <2>3. ASSUME NEW y \in Range(t) PROVE y \in Range(s \o t)
    <3>1. PICK i \in 1..Len(t) : t[i] = y  BY <1>2 DEF Range
    <3>2. Len(s) + i \in 1..(Len(s) + Len(t)) /\ (s \o t)[Len(s) + i] = y  BY <1>1, <3>1
    <3>3. QED  BY <1>2, <3>2 DEF Range
  <2>4. QED  BY <2>1, <2>2, <2>3
<1>5. ASSUME NEW i \in 1..(Len(s) + Len(t)), NEW j \in 1..(Len(s) + Len(t)),
             (s \o t)[i] = (s \o t)[j]
      PROVE  i = j
  <2>1. CASE i \in 1..Len(s) /\ j \in 1..Len(s)
    BY <1>1, <1>2, <1>5, <2>1 DEF IsInjective
  <2>2. CASE i \notin 1..Len(s) /\ j \notin 1..Len(s)
    <3>1. /\ i - Len(s) \in 1..Len(t) /\ j - Len(s) \in 1..Len(t)
          /\ t[i - Len(s)] = t[j - Len(s)]
      BY <1>3, <1>5, <2>2
    <3>2. i - Len(s) = j - Len(s)  BY <1>2, <3>1 DEF IsInjective
    <3>3. QED  BY <1>1, <3>2
  <2>3. CASE (i \in 1..Len(s)) # (j \in 1..Len(s))
    <3>1. \/ (s \o t)[i] \in Range(s) /\ (s \o t)[j] \in Range(t)
          \/ (s \o t)[j] \in Range(s) /\ (s \o t)[i] \in Range(t)
      BY <1>1, <1>3, <2>3
    <3>2. QED  BY <1>5, <3>1
  <2>4. QED  BY <2>1, <2>2, <2>3
<1>6. IsInjective(s \o t)
  BY <1>2, <1>5 DEF IsInjective
<1>7. QED  BY <1>1, <1>4, <1>6

LEMMA EmptyFacts ==
  /\ IsInjective(<<>>) /\ Range(<<>>) = {}
  /\ \A S : \A s \in Seq(S) : Range(s) \subseteq S /\ (Range(s) = {} => s = <<>>)
<1>1. IsInjective(<<>>) /\ Range(<<>>) = {}
  BY DEF IsInjective, Range
<1>2. ASSUME NEW S, NEW s \in Seq(S) PROVE Range(s) \subseteq S /\ (Range(s) = {} => s = <<>>)
  <2>1. DOMAIN s = 1..Len(s) /\ Len(s) \in Nat /\ \A i \in 1..Len(s) : s[i] \in S
    OBVIOUS
  <2>2. Range(s) \subseteq S
    BY <2>1 DEF Range
  <2>3. s # <<>> => s[1] \in Range(s)
    BY <2>1 DEF Range
  <2>4. QED  BY <2>2, <2>3
<1>3. QED  BY <1>1, <1>2

-----------------------------------------------------------------------------
\* Where the candidates of a request are: while they are ordered, in ahead, queue and
\* late; from then on tried, or still in queue.  Each is in one place, and there once.
Places(h) ==
  /\ IsInjective(tried[h])
  /\ pc[h] = "idle" =>
       ahead[h] = <<>> /\ queue[h] = <<>> /\ late[h] = <<>> /\ tried[h] = <<>>
  /\ pc[h] = "order" =>
       /\ tried[h] = <<>>
       /\ IsInjective(ahead[h]) /\ IsInjective(queue[h]) /\ IsInjective(late[h])
       /\ Range(ahead[h]) \cap Range(queue[h]) = {}
       /\ Range(ahead[h]) \cap Range(late[h]) = {}
       /\ Range(queue[h]) \cap Range(late[h]) = {}
       /\ Range(ahead[h]) \cup Range(queue[h]) \cup Range(late[h]) = RouteKeys
  /\ pc[h] \in {"try", "request", "read"} =>
       /\ IsInjective(queue[h])
       /\ Range(tried[h]) \cap Range(queue[h]) = {}
       /\ Range(tried[h]) \cup Range(queue[h]) = RouteKeys

WithinLimit(h) == limit > 0 => Len(tried[h]) <= limit

\* A request that has written is never back at the top of the loop.
WrittenIsLast(h) == wrote[h] => pc[h] \in {"read", "done"}

AnsweredWhenExhausted(h) ==
  pc[h] = "done" /\ outcome[h] = "error" /\ tried[h] # <<>> =>
    final[h] \/ Range(tried[h]) = RouteKeys \/ Len(tried[h]) = limit

RequestOK(h) ==
  Places(h) /\ WithinLimit(h) /\ WrittenIsLast(h) /\ AnsweredWhenExhausted(h)

IInv == TypeOK /\ \A h \in Requests : RequestOK(h)

-----------------------------------------------------------------------------
USE GatewayAssumption

LEMMA InitHolds == Init => IInv
<1> SUFFICES ASSUME Init PROVE IInv  OBVIOUS
<1>1. TypeOK
  BY DEF Init, TypeOK
<1>2. ASSUME NEW h \in Requests PROVE RequestOK(h)
  BY EmptyFacts
  DEF Init, RequestOK, Places, WithinLimit, WrittenIsLast, AnsweredWhenExhausted
<1>3. QED  BY <1>1, <1>2 DEF IInv

LEMMA TypeStep == TypeOK /\ [Next]_vars => TypeOK'
<1> SUFFICES ASSUME TypeOK, [Next]_vars PROVE TypeOK'  OBVIOUS
<1> USE DEF TypeOK, GoTo, healthVars, planVars
<1>1. ASSUME NEW h \in Requests, Arrive(h) PROVE TypeOK'
  <2>1. streams' \in [Requests -> BOOLEAN] /\ asOf' \in [Requests -> 0..MaxTime]
    BY <1>1 DEF Arrive
  <2>2. queue' \in [Requests -> Seq(RouteKeys)] /\ ahead' \in [Requests -> Seq(RouteKeys)]
    <3>1. CASE Len(Routes) < 2 \/ Cooldown = 0
      <4>1. queue' = [queue EXCEPT ![h] = Routes] /\ ahead' = ahead
        BY <1>1, <3>1 DEF Arrive
      <4>2. QED  BY <4>1
    <3>2. CASE ~(Len(Routes) < 2 \/ Cooldown = 0)
      <4>1. ahead' = [ahead EXCEPT ![h] = Routes] /\ queue' = queue
        BY <1>1, <3>2 DEF Arrive
      <4>2. QED  BY <4>1
    <3>3. QED  BY <3>1, <3>2
  <2>3. pc' \in [Requests -> {"idle", "order", "try", "request", "read", "done"}]
    BY <1>1 DEF Arrive
  <2>4. UNCHANGED <<late, tried, wrote, final, outcome, limit, now, failures>>
    BY <1>1 DEF Arrive
  <2>5. QED  BY <2>1, <2>2, <2>3, <2>4
<1>2. ASSUME NEW h \in Requests, Refuse(h) PROVE TypeOK'
  BY <1>2 DEF Refuse
<1>3. ASSUME NEW h \in Requests, Order(h) PROVE TypeOK'
  <2>1. Head(ahead[h]) \in RouteKeys /\ Tail(ahead[h]) \in Seq(RouteKeys)
    BY <1>3 DEF Order
  <2>2. late' \in [Requests -> Seq(RouteKeys)] /\ queue' \in [Requests -> Seq(RouteKeys)]
    <3>1. CASE Unhealthy(Head(ahead[h]), asOf[h])
      <4>1. late' = [late EXCEPT ![h] = Append(@, Head(ahead[h]))] /\ queue' = queue
        BY <1>3, <3>1 DEF Order
      <4>2. QED  BY <2>1, <4>1
    <3>2. CASE ~Unhealthy(Head(ahead[h]), asOf[h])
      <4>1. queue' = [queue EXCEPT ![h] = Append(@, Head(ahead[h]))] /\ late' = late
        BY <1>3, <3>2 DEF Order
      <4>2. QED  BY <2>1, <4>1
    <3>3. QED  BY <3>1, <3>2
  <2>3. failures' \in [RouteKeys -> 0..MaxTime \cup {None}]
    BY <1>3, <2>1 DEF Order
  <2>4. ahead' \in [Requests -> Seq(RouteKeys)]
    BY <1>3, <2>1 DEF Order
  <2>5. UNCHANGED <<limit, now, pc, streams, asOf, tried, wrote, final, outcome>>
    BY <1>3 DEF Order
  <2>6. QED  BY <2>2, <2>3, <2>4, <2>5
<1>4. ASSUME NEW h \in Requests, Ordered(h) PROVE TypeOK'
  BY <1>4 DEF Ordered
<1>5. ASSUME NEW h \in Requests, Try(h) PROVE TypeOK'
  <2>1. Head(queue[h]) \in RouteKeys /\ Tail(queue[h]) \in Seq(RouteKeys)
    BY <1>5 DEF Try, Exhausted
  <2>2. QED  BY <1>5, <2>1 DEF Try
<1>6. ASSUME NEW h \in Requests, GiveUp(h) PROVE TypeOK'
  BY <1>6 DEF GiveUp
<1>7. ASSUME NEW h \in Requests, RequestFails(h) PROVE TypeOK'
  BY <1>7 DEF RequestFails, MarkFailure
<1>8. ASSUME NEW h \in Requests, RequestOpens(h) PROVE TypeOK'
  BY <1>8 DEF RequestOpens
<1>9. ASSUME NEW h \in Requests, WriteFails(h) PROVE TypeOK'
  BY <1>9 DEF WriteFails, MarkFailure
<1>10. ASSUME NEW h \in Requests, WriteEnds(h) PROVE TypeOK'
  BY <1>10 DEF WriteEnds, MarkFailure, MarkSuccess
<1>11. CASE Tick
  BY <1>11 DEF Tick
<1>12. CASE UNCHANGED vars
  BY <1>12 DEF vars
<1>13. QED
  BY <1>1, <1>2, <1>3, <1>4, <1>5, <1>6, <1>7, <1>8, <1>9, <1>10, <1>11, <1>12
  DEF Next, Serve, Terminated

-----------------------------------------------------------------------------
\* A step of a request touches none of another's variables, and the clock none at all.
LEMMA OthersStand ==
  ASSUME TypeOK, NEW h \in Requests, NEW g \in Requests, g # h, Serve(g)
  PROVE  UNCHANGED <<limit, pc[h], ahead[h], queue[h], late[h], tried[h], wrote[h],
                     final[h], outcome[h]>>
<1> USE DEF TypeOK, GoTo, healthVars, planVars
<1>1. CASE Arrive(g)  BY <1>1 DEF Arrive
<1>2. CASE Refuse(g)  BY <1>2 DEF Refuse
<1>3. CASE Order(g)  BY <1>3 DEF Order
<1>4. CASE Ordered(g) \/ Try(g) \/ GiveUp(g)  BY <1>4 DEF Ordered, Try, GiveUp
<1>5. CASE RequestFails(g) \/ RequestOpens(g)  BY <1>5 DEF RequestFails, RequestOpens
<1>6. CASE WriteFails(g) \/ WriteEnds(g)  BY <1>6 DEF WriteFails, WriteEnds
<1>7. QED  BY <1>1, <1>2, <1>3, <1>4, <1>5, <1>6 DEF Serve

LEMMA RequestStep ==
  ASSUME TypeOK, NEW h \in Requests, RequestOK(h), [Next]_vars
  PROVE  RequestOK(h)'
<1> USE DEF TypeOK, GoTo, healthVars, planVars, RequestOK
<1>0. /\ {ahead[h], queue[h], late[h], tried[h]} \subseteq Seq(RouteKeys)
      /\ limit \in Nat /\ \A s \in Seq(RouteKeys) : Len(s) \in Nat
  OBVIOUS
<1> DEFINE Rest == WithinLimit(h)' /\ WrittenIsLast(h)' /\ AnsweredWhenExhausted(h)'
<1>1. ASSUME Arrive(h) PROVE RequestOK(h)'
  <2>1. Places(h)'
    <3>1. Range(Routes) = RouteKeys  BY DEF RouteKeys
    <3>2. CASE Len(Routes) < 2 \/ Cooldown = 0
      BY <1>1, <3>1, <3>2, EmptyFacts DEF Arrive, Places
    <3>3. CASE ~(Len(Routes) < 2 \/ Cooldown = 0)
      BY <1>1, <3>1, <3>3, EmptyFacts DEF Arrive, Places
    <3>4. QED  BY <3>2, <3>3
  <2>2. Rest
    BY <1>1 DEF Arrive, WithinLimit, WrittenIsLast, AnsweredWhenExhausted
  <2>3. QED  BY <2>1, <2>2
<1>2. ASSUME Refuse(h) PROVE RequestOK(h)'
  BY <1>2 DEF Refuse, Places, WithinLimit, WrittenIsLast, AnsweredWhenExhausted
<1>3. ASSUME Order(h) PROVE RequestOK(h)'
  <2> DEFINE k == Head(ahead[h])
  <2>1. /\ k \in RouteKeys
        /\ IsInjective(Tail(ahead[h])) /\ k \notin Range(Tail(ahead[h]))
        /\ Range(ahead[h]) = Range(Tail(ahead[h])) \cup {k}
        /\ ahead'[h] = Tail(ahead[h]) /\ pc'[h] = "order" /\ tried'[h] = <<>>
    BY <1>3, TailDrops DEF Order, Places
  <2>2. k \notin Range(queue[h]) /\ k \notin Range(late[h])
    BY <1>3, <2>1 DEF Order, Places
  <2>3. /\ IsInjective(queue[h]) /\ IsInjective(late[h]) /\ IsInjective(<<>>)
        /\ Range(ahead[h]) \cap Range(queue[h]) = {}
        /\ Range(ahead[h]) \cap Range(late[h]) = {}
        /\ Range(queue[h]) \cap Range(late[h]) = {}
        /\ Range(ahead[h]) \cup Range(queue[h]) \cup Range(late[h]) = RouteKeys
    BY <1>3, EmptyFacts DEF Order, Places
  <2>4. CASE Unhealthy(k, asOf[h])
    <3>1. /\ IsInjective(late'[h]) /\ Range(late'[h]) = Range(late[h]) \cup {k}
          /\ queue'[h] = queue[h]
      <4>1. late'[h] = Append(late[h], k) /\ queue'[h] = queue[h]
        BY <1>3, <2>4 DEF Order
      <4>2. late[h] \in Seq(RouteKeys) /\ IsInjective(late[h])
        BY <1>0, <1>3 DEF Order, Places
      <4>3. QED  BY <2>1, <2>2, <4>1, <4>2, AppendPicks
    <3>2. Places(h)'
      BY <1>3, <2>1, <2>2, <3>1, <2>3 DEF Places
    <3>3. QED
      BY <1>3, <3>2 DEF Order, WithinLimit, WrittenIsLast, AnsweredWhenExhausted
  <2>5. CASE ~Unhealthy(k, asOf[h])
    <3>1. /\ IsInjective(queue'[h]) /\ Range(queue'[h]) = Range(queue[h]) \cup {k}
          /\ late'[h] = late[h]
      <4>1. queue'[h] = Append(queue[h], k) /\ late'[h] = late[h]
        BY <1>3, <2>5 DEF Order
      <4>2. queue[h] \in Seq(RouteKeys) /\ IsInjective(queue[h])
        BY <1>0, <1>3 DEF Order, Places
      <4>3. QED  BY <2>1, <2>2, <4>1, <4>2, AppendPicks
    <3>2. Places(h)'
      BY <1>3, <2>1, <2>2, <3>1, <2>3 DEF Places
    <3>3. QED
      BY <1>3, <3>2 DEF Order, WithinLimit, WrittenIsLast, AnsweredWhenExhausted
  <2>6. QED  BY <2>4, <2>5
<1>4. ASSUME Ordered(h) PROVE RequestOK(h)'
  <2>1. /\ queue'[h] = queue[h] \o late[h] /\ pc'[h] = "try"
        /\ tried'[h] = <<>> /\ tried[h] = <<>> /\ Range(ahead[h]) = {}
    BY <1>4, EmptyFacts DEF Ordered, Places
  <2>2. IsInjective(queue'[h]) /\ Range(queue'[h]) = RouteKeys
    <3>1. /\ queue[h] \in Seq(RouteKeys) /\ late[h] \in Seq(RouteKeys)
          /\ IsInjective(queue[h]) /\ IsInjective(late[h])
          /\ Range(queue[h]) \cap Range(late[h]) = {}
          /\ Range(queue[h]) \cup Range(late[h]) = RouteKeys
      BY <1>0, <1>4, <2>1 DEF Ordered, Places
    <3>2. /\ IsInjective(queue[h] \o late[h])
          /\ Range(queue[h] \o late[h]) = Range(queue[h]) \cup Range(late[h])
      BY <3>1, ConcatJoins
    <3>3. QED  BY <2>1, <3>1, <3>2
  <2>3. Places(h)'
    BY <2>1, <2>2, EmptyFacts DEF Places
  <2>4. QED
    BY <1>4, <2>3 DEF Ordered, WithinLimit, WrittenIsLast, AnsweredWhenExhausted
<1>5. ASSUME Try(h) PROVE RequestOK(h)'
  <2> DEFINE k == Head(queue[h])
  <2>1. /\ k \in RouteKeys /\ queue'[h] = Tail(queue[h])
        /\ IsInjective(queue'[h]) /\ k \notin Range(queue'[h])
        /\ Range(queue[h]) = Range(queue'[h]) \cup {k}
    BY <1>5, TailDrops DEF Try, Exhausted, Places
  <2>2. k \notin Range(tried[h]) /\ tried'[h] = Append(tried[h], k) /\ pc'[h] = "request"
    BY <1>5, <2>1 DEF Try, Places
  <2>3. IsInjective(tried'[h]) /\ Range(tried'[h]) = Range(tried[h]) \cup {k}
    BY <2>1, <2>2, AppendPicks DEF Places
  <2>4. Places(h)'
    BY <1>5, <2>1, <2>2, <2>3 DEF Try, Places
  <2>5. WithinLimit(h)'
    BY <1>5, <2>2 DEF Try, Exhausted, ReachedMaxAttempts, WithinLimit
  <2>6. WrittenIsLast(h)' /\ AnsweredWhenExhausted(h)'
    BY <1>5 DEF Try, WrittenIsLast, AnsweredWhenExhausted
  <2>7. QED  BY <2>4, <2>5, <2>6
<1>6. ASSUME GiveUp(h) PROVE RequestOK(h)'
  <2>1. final[h] \/ Range(tried[h]) = RouteKeys \/ Len(tried[h]) = limit
    <3>1. CASE queue[h] = <<>>
      <4>1. Range(tried[h]) \cup Range(queue[h]) = RouteKeys
        BY <1>6 DEF GiveUp, Places
      <4>2. Range(queue[h]) = {}
        BY <3>1, EmptyFacts
      <4>3. QED  BY <4>1, <4>2
    <3>2. CASE ReachedMaxAttempts(h)
      BY <1>0, <3>2 DEF ReachedMaxAttempts, WithinLimit
    <3>3. QED  BY <1>6, <3>1, <3>2 DEF GiveUp, Exhausted
  <2>2. AnsweredWhenExhausted(h)'
    BY <1>6, <2>1 DEF GiveUp, AnsweredWhenExhausted
  <2>3. Places(h)' /\ WithinLimit(h)' /\ WrittenIsLast(h)'
    BY <1>6 DEF GiveUp, Places, WithinLimit, WrittenIsLast
  <2>4. QED  BY <2>2, <2>3
<1>7. ASSUME RequestFails(h) \/ RequestOpens(h) \/ WriteFails(h) \/ WriteEnds(h)
      PROVE  RequestOK(h)'
  BY <1>7 DEF RequestFails, RequestOpens, WriteFails, WriteEnds, Places, WithinLimit,
              WrittenIsLast, AnsweredWhenExhausted
<1>8. ASSUME UNCHANGED <<limit, pc[h], ahead[h], queue[h], late[h], tried[h], wrote[h],
                         final[h], outcome[h]>>
      PROVE  RequestOK(h)'
  BY <1>8 DEF Places, WithinLimit, WrittenIsLast, AnsweredWhenExhausted
<1>9. CASE Tick \/ UNCHANGED vars
  BY <1>8, <1>9 DEF Tick, vars
<1>10. ASSUME NEW g \in Requests, Serve(g) PROVE RequestOK(h)'
  <2>1. CASE g = h
    BY <1>1, <1>2, <1>3, <1>4, <1>5, <1>6, <1>7, <1>10, <2>1 DEF Serve
  <2>2. CASE g # h
    BY <1>8, <1>10, <2>2, OthersStand
  <2>3. QED  BY <2>1, <2>2
<1>11. QED  BY <1>9, <1>10 DEF Next, Terminated

LEMMA Inductive == Spec => []IInv
<1>1. IInv /\ [Next]_vars => IInv'
  BY TypeStep, RequestStep DEF IInv
<1>2. QED  BY InitHolds, <1>1, PTL DEF Spec

-----------------------------------------------------------------------------
\* Every request is in one of its places, whatever others do to the tracker meanwhile.
THEOREM TypeCorrect == Spec => []TypeOK
<1>1. IInv => TypeOK  BY DEF IInv
<1>2. QED  BY <1>1, Inductive, PTL

\* orderByHealth and the loop of ServeHTTP leave no candidate out and try none twice.
THEOREM CandidatesSafe == Spec => []NoCandidateLeftOut
<1>1. IInv => NoCandidateLeftOut
  BY DEF IInv, RequestOK, Places, AnsweredWhenExhausted, NoCandidateLeftOut
<1>2. QED  BY <1>1, Inductive, PTL

\* The loop never goes on once WriteEvents has written: only Try changes what was tried,
\* and a request that has written is past it.
THEOREM FallbackSafe == Spec => NoFallbackAfterBytes
<1>1. ASSUME IInv, [Next]_vars, NEW h \in Requests, wrote[h] PROVE tried'[h] = tried[h]
  <2>1. pc[h] # "try"
    BY <1>1 DEF IInv, RequestOK, WrittenIsLast
  <2>2. ASSUME NEW g \in Requests, Serve(g) PROVE tried'[h] = tried[h]
    <3>1. CASE g # h
      BY <1>1, <2>2, <3>1, OthersStand DEF IInv
    <3>2. CASE g = h
      BY <2>1, <2>2, <3>2 DEF Serve, Arrive, Refuse, Order, Ordered, Try, GiveUp,
         RequestFails, RequestOpens, WriteFails, WriteEnds, planVars
    <3>3. QED  BY <3>1, <3>2
  <2>3. CASE Tick \/ UNCHANGED vars
    BY <2>3 DEF Tick, vars, planVars
  <2>4. QED  BY <1>1, <2>2, <2>3 DEF Next, Terminated
<1>2. IInv /\ [Next]_vars => [\A h \in Requests : wrote[h] => tried'[h] = tried[h]]_vars
  BY <1>1
<1>3. QED  BY <1>2, Inductive, PTL DEF Spec, NoFallbackAfterBytes

-----------------------------------------------------------------------------
\* The rank of a candidate, and what it says of the sequences it is dealt out over.
Rank(k) == SelectInSeq(Routes, LAMBDA x : x = k)

Ascending(s) == \A i, j \in 1..Len(s) : i < j => Rank(s[i]) < Rank(s[j])
Below(s, t) == \A i \in 1..Len(s), j \in 1..Len(t) : Rank(s[i]) < Rank(t[j])

\* b was put behind a though it ranks higher, only because it was unhealthy and a was not.
Excused(h, a, b) == Rank(a) > Rank(b) => b \in Range(late[h]) /\ a \notin Range(late[h])
Planned(h, s) == \A i, j \in 1..Len(s) : i < j => Excused(h, s[i], s[j])

Ranked(h) ==
  /\ pc[h] = "order" =>
       /\ Ascending(ahead[h]) /\ Ascending(queue[h]) /\ Ascending(late[h])
       /\ Below(queue[h], ahead[h]) /\ Below(late[h], ahead[h])
  /\ Planned(h, tried[h])
  /\ pc[h] \in {"try", "request", "read"} =>
       /\ Planned(h, queue[h])
       /\ \A i \in 1..Len(tried[h]), j \in 1..Len(queue[h]) : Excused(h, tried[h][i], queue[h][j])

LEMMA RankIsPlace == \A i \in 1..Len(Routes) : Rank(Routes[i]) = i
<1>1. SUFFICES ASSUME NEW i \in 1..Len(Routes) PROVE Rank(Routes[i]) = i
  OBVIOUS
<1>2. Len(Routes) \in Nat /\ DOMAIN Routes = 1..Len(Routes)
  OBVIOUS
<1>3. {j \in 1..Len(Routes) : Routes[j] = Routes[i]} = {i}
  BY <1>2 DEF IsInjective
<1>4. Min({i}) = i
  BY <1>2 DEF Min
<1>5. Rank(Routes[i]) = IF {i} # {} THEN Min({i}) ELSE 0
  BY <1>3 DEF Rank, SelectInSeq
<1>6. QED  BY <1>4, <1>5

LEMMA RanksAreNumbers ==
  ASSUME NEW s \in Seq(RouteKeys)
  PROVE  \A i \in 1..Len(s) : s[i] \in Range(s) /\ Rank(s[i]) \in Nat
<1>1. \A k \in RouteKeys : Rank(k) \in Nat
  <2>1. \A k \in RouteKeys : \E i \in 1..Len(Routes) : k = Routes[i]
    BY DEF RouteKeys, Range
  <2>2. ASSUME NEW i \in 1..Len(Routes) PROVE Rank(Routes[i]) \in Nat
    <3>1. Rank(Routes[i]) = i
      BY RankIsPlace
    <3>2. i \in Nat
      OBVIOUS
    <3>3. QED  BY <3>1, <3>2
  <2>3. QED  BY <2>1, <2>2
<1>2. QED  BY <1>1 DEF Range

LEMMA RankedStep ==
  ASSUME TypeOK, NEW h \in Requests, RequestOK(h), Ranked(h), [Next]_vars
  PROVE  Ranked(h)'
<1> USE DEF TypeOK, GoTo, healthVars, planVars
<1>0. {ahead[h], queue[h], late[h], tried[h]} \subseteq Seq(RouteKeys)
  OBVIOUS
<1>1. ASSUME Arrive(h) PROVE Ranked(h)'
  <2>1. /\ late'[h] = <<>> /\ tried'[h] = <<>> /\ late[h] = <<>>
        /\ queue[h] = <<>> /\ ahead[h] = <<>>
        /\ \/ pc'[h] = "order" /\ ahead'[h] = Routes /\ queue'[h] = <<>>
           \/ pc'[h] = "try" /\ queue'[h] = Routes
    BY <1>1 DEF Arrive, RequestOK, Places
  <2>2. Ascending(Routes)
    BY RankIsPlace DEF Ascending
  <2>3. Planned(h, Routes)'
    BY RankIsPlace DEF Planned, Excused
  <2>4. QED
    BY <2>1, <2>2, <2>3 DEF Ranked, Ascending, Below, Planned
<1>2. ASSUME Order(h) PROVE Ranked(h)'
  <2> DEFINE k == Head(ahead[h])
  <2>1. /\ pc[h] = "order" /\ pc'[h] = "order" /\ tried'[h] = tried[h] /\ tried[h] = <<>>
        /\ ahead'[h] = Tail(ahead[h])
        /\ \/ queue'[h] = queue[h] /\ late'[h] = Append(late[h], k)
           \/ queue'[h] = Append(queue[h], k) /\ late'[h] = late[h]
    BY <1>2 DEF Order, RequestOK, Places
  <2>2. /\ k = ahead[h][1] /\ Len(ahead[h]) \in Nat /\ Len(ahead[h]) > 0
        /\ Len(Tail(ahead[h])) = Len(ahead[h]) - 1
        /\ \A i \in 1..Len(Tail(ahead[h])) :
             Tail(ahead[h])[i] = ahead[h][i + 1] /\ i + 1 \in 1..Len(ahead[h])
    BY <1>2 DEF Order
  <2>3. /\ Ascending(ahead[h]) /\ Ascending(queue[h]) /\ Ascending(late[h])
        /\ Below(queue[h], ahead[h]) /\ Below(late[h], ahead[h])
    BY <2>1 DEF Ranked
  <2>4. ASSUME NEW s \in Seq(RouteKeys), Ascending(s), Below(s, ahead[h])
        PROVE  /\ Ascending(Append(s, k)) /\ Below(Append(s, k), Tail(ahead[h]))
               /\ Below(s, Tail(ahead[h]))
    <3>1. /\ Len(s) \in Nat /\ Len(Append(s, k)) = Len(s) + 1 /\ Append(s, k)[Len(s) + 1] = k
          /\ \A i \in 1..Len(s) : Append(s, k)[i] = s[i]
      OBVIOUS
    <3>2. \A i \in 1..(Len(s) + 1) : i \in 1..Len(s) \/ i = Len(s) + 1
      BY <3>1
    <3>3. Ascending(Append(s, k))
      BY <2>2, <2>4, <3>1, <3>2 DEF Ascending, Below
    <3>4. Below(Append(s, k), Tail(ahead[h]))
      <4>1. SUFFICES ASSUME NEW i \in 1..Len(Append(s, k)), NEW j \in 1..Len(Tail(ahead[h]))
                     PROVE  Rank(Append(s, k)[i]) < Rank(Tail(ahead[h])[j])
        BY DEF Below
      <4>2. Tail(ahead[h])[j] = ahead[h][j + 1] /\ j + 1 \in 1..Len(ahead[h]) /\ 1 < j + 1
        BY <2>2
      <4>3. CASE i \in 1..Len(s)
        BY <2>4, <3>1, <4>2, <4>3 DEF Below
      <4>4. CASE i = Len(s) + 1
        BY <2>2, <2>3, <3>1, <4>2, <4>4 DEF Ascending
      <4>5. QED  BY <3>1, <3>2, <4>3, <4>4
    <3>5. Below(s, Tail(ahead[h]))
      BY <2>2, <2>4 DEF Below
    <3>6. QED  BY <3>3, <3>4, <3>5
  <2>5. Ascending(Tail(ahead[h]))
    BY <2>2, <2>3 DEF Ascending
  <2>6. Planned(h, tried[h])'
    BY <2>1 DEF Planned
  <2>7. QED
    BY <1>0, <2>1, <2>3, <2>4, <2>5, <2>6 DEF Ranked, Ascending, Below
<1>3. ASSUME Ordered(h) PROVE Ranked(h)'
  <2> DEFINE q == queue[h]  l == late[h]  n == Len(queue[h])
  <2>1. /\ pc[h] = "order" /\ pc'[h] = "try" /\ tried'[h] = <<>>
        /\ late'[h] = l /\ queue'[h] = q \o l
        /\ Range(q) \cap Range(l) = {}
        /\ q \in Seq(RouteKeys) /\ l \in Seq(RouteKeys)
    BY <1>3 DEF Ordered, RequestOK, Places
  <2>2. Ascending(q) /\ Ascending(l)
    BY <2>1 DEF Ranked
  <2>3. /\ n \in Nat /\ Len(l) \in Nat /\ Len(q \o l) = n + Len(l)
        /\ \A i \in 1..n : (q \o l)[i] = q[i]
        /\ \A i \in 1..Len(l) : (q \o l)[n + i] = l[i]
    BY <2>1
  <2>4. /\ \A i \in 1..n : q[i] \in Range(q) /\ Rank(q[i]) \in Nat
        /\ \A i \in 1..Len(l) : l[i] \in Range(l) /\ Rank(l[i]) \in Nat
    BY <2>1, RanksAreNumbers
  <2>5. ASSUME NEW i \in 1..Len(q \o l), NEW j \in 1..Len(q \o l), i < j
        PROVE  Excused(h, (q \o l)[i], (q \o l)[j])
    <3>1. CASE j \in 1..n
      <4>1. i \in 1..n  BY <2>3, <2>5, <3>1
      <4>2. Rank(q[i]) < Rank(q[j]) /\ Rank(q[i]) \in Nat /\ Rank(q[j]) \in Nat
        BY <2>2, <2>4, <2>5, <3>1, <4>1 DEF Ascending
      <4>3. QED  BY <2>3, <3>1, <4>1, <4>2 DEF Excused
    <3>2. CASE i \in 1..n /\ j \notin 1..n
      <4>1. j - n \in 1..Len(l) /\ n + (j - n) = j  BY <2>3, <2>5, <3>2
      <4>2. (q \o l)[i] \in Range(q) /\ (q \o l)[j] \in Range(l)
        BY <2>3, <2>4, <3>2, <4>1
      <4>3. QED  BY <2>1, <4>2 DEF Excused
    <3>3. CASE i \notin 1..n
      <4>1. /\ i - n \in 1..Len(l) /\ n + (i - n) = i
            /\ j - n \in 1..Len(l) /\ n + (j - n) = j /\ i - n < j - n
        BY <2>3, <2>5, <3>3
      <4>2. /\ Rank(l[i - n]) < Rank(l[j - n])
            /\ Rank(l[i - n]) \in Nat /\ Rank(l[j - n]) \in Nat
        BY <2>2, <2>4, <4>1 DEF Ascending
      <4>3. QED  BY <2>3, <4>1, <4>2 DEF Excused
    <3>4. QED  BY <3>1, <3>2, <3>3
  <2>6. Planned(h, queue[h])' /\ Planned(h, tried[h])'
    BY <2>1, <2>5 DEF Planned, Excused
  <2>7. QED  BY <2>1, <2>6 DEF Ranked
<1>4. ASSUME Try(h) PROVE Ranked(h)'
  <2> DEFINE k == Head(queue[h])  t == tried[h]  q == queue[h]
  <2>1. /\ pc[h] = "try" /\ pc'[h] = "request" /\ late'[h] = late[h]
        /\ tried'[h] = Append(t, k) /\ queue'[h] = Tail(q) /\ q # <<>>
        /\ t \in Seq(RouteKeys) /\ q \in Seq(RouteKeys)
    BY <1>4 DEF Try, Exhausted
  <2>2. /\ k = q[1] /\ Len(q) \in Nat /\ 1 \in 1..Len(q)
        /\ Len(Tail(q)) = Len(q) - 1
        /\ \A i \in 1..Len(Tail(q)) : Tail(q)[i] = q[i + 1] /\ i + 1 \in 1..Len(q)
    BY <2>1
  <2>3. /\ Len(t) \in Nat /\ Len(Append(t, k)) = Len(t) + 1 /\ Append(t, k)[Len(t) + 1] = k
        /\ \A i \in 1..Len(t) : Append(t, k)[i] = t[i]
    BY <2>1
  <2>4. \A i \in 1..Len(Append(t, k)) : i \in 1..Len(t) \/ i = Len(t) + 1
    <3>1. \A n \in Nat : \A i \in 1..(n + 1) : i \in 1..n \/ i = n + 1
      OBVIOUS
    <3>2. QED  BY <2>3, <3>1
  <2>5. /\ Planned(h, t) /\ Planned(h, q)
        /\ \A i \in 1..Len(t), j \in 1..Len(q) : Excused(h, t[i], q[j])
    BY <2>1 DEF Ranked
  <2>6. ASSUME NEW i \in 1..Len(Append(t, k)), NEW j \in 1..Len(Append(t, k)), i < j
        PROVE  Excused(h, Append(t, k)[i], Append(t, k)[j])
    <3>1. i \in 1..Len(t)  BY <2>3, <2>4, <2>6
    <3>2. CASE j \in 1..Len(t)  BY <2>3, <2>5, <2>6, <3>1, <3>2 DEF Planned
    <3>3. CASE j = Len(t) + 1  BY <2>2, <2>3, <2>5, <3>1, <3>3
    <3>4. QED  BY <2>4, <3>2, <3>3
  <2>7. ASSUME NEW i \in 1..Len(Tail(q)), NEW j \in 1..Len(Tail(q)), i < j
        PROVE  Excused(h, Tail(q)[i], Tail(q)[j])
    BY <2>2, <2>5, <2>7 DEF Planned
  <2>8. ASSUME NEW i \in 1..Len(Append(t, k)), NEW j \in 1..Len(Tail(q))
        PROVE  Excused(h, Append(t, k)[i], Tail(q)[j])
    <3>1. CASE i \in 1..Len(t)  BY <2>2, <2>3, <2>5, <3>1
    <3>2. CASE i = Len(t) + 1
      <4>1. 1 < j + 1  OBVIOUS
      <4>2. QED  BY <2>2, <2>3, <2>5, <3>2, <4>1 DEF Planned
    <3>3. QED  BY <2>4, <3>1, <3>2
  <2>9. /\ Planned(h, tried[h])' /\ Planned(h, queue[h])'
        /\ \A i \in 1..Len(tried'[h]), j \in 1..Len(queue'[h]) :
             Excused(h, tried[h][i], queue[h][j])'
    BY <2>1, <2>6, <2>7, <2>8 DEF Planned, Excused
  <2>10. QED  BY <2>1, <2>9 DEF Ranked
<1>5. ASSUME UNCHANGED <<queue[h], late[h], tried[h], ahead[h]>>,
             \/ pc'[h] = pc[h]
             \/ pc[h] \in {"try", "request", "read"} /\ pc'[h] \in {"try", "request", "read"}
             \/ pc'[h] = "done"
      PROVE  Ranked(h)'
  BY <1>5 DEF Ranked, Planned, Excused, Ascending, Below
<1>6. ASSUME Refuse(h) \/ GiveUp(h) \/ RequestFails(h) \/ RequestOpens(h) \/ WriteFails(h) \/ WriteEnds(h)
      PROVE  Ranked(h)'
  BY <1>5, <1>6 DEF Refuse, GiveUp, RequestFails, RequestOpens, WriteFails, WriteEnds
<1>7. CASE Tick \/ UNCHANGED vars
  BY <1>5, <1>7 DEF Tick, vars
<1>8. ASSUME NEW g \in Requests, Serve(g) PROVE Ranked(h)'
  <2>1. CASE g = h
    BY <1>1, <1>2, <1>3, <1>4, <1>6, <1>8, <2>1 DEF Serve
  <2>2. CASE g # h
    BY <1>5, <1>8, <2>2, OthersStand
  <2>3. QED  BY <2>1, <2>2
<1>9. QED  BY <1>7, <1>8 DEF Next, Terminated

\* A lower-ranked candidate is tried first only for the health of the two: the passes of
\* orderByHealth keep the router's order within the healthy and within the unhealthy.
THEOREM RankingSafe == Spec => []RankingKeptUnlessFailed
<1> DEFINE RInv == IInv /\ \A h \in Requests : Ranked(h)
<1>1. Init => RInv
  <2>1. Init => \A h \in Requests : Ranked(h)
    BY DEF Init, Ranked, Planned
  <2>2. QED  BY <2>1, InitHolds
<1>2. RInv /\ [Next]_vars => RInv'
  <2>1. IInv /\ [Next]_vars => IInv'
    BY TypeStep, RequestStep DEF IInv
  <2>2. QED  BY <2>1, RankedStep DEF IInv
<1>3. RInv => RankingKeptUnlessFailed
  <2>1. SUFFICES ASSUME RInv, NEW h \in Requests,
                        NEW i \in 1..Len(tried[h]), NEW j \in 1..Len(tried[h]), i < j,
                        Rank(tried[h][i]) > Rank(tried[h][j])
                 PROVE  Contains(late[h], tried[h][j]) /\ ~Contains(late[h], tried[h][i])
    BY DEF RankingKeptUnlessFailed, Rank
  <2>2. tried[h][j] \in Range(late[h]) /\ tried[h][i] \notin Range(late[h])
    BY <2>1 DEF Ranked, Planned, Excused
  <2>3. late[h] \in Seq(RouteKeys)
    BY <2>1 DEF IInv, TypeOK
  <2>4. Contains(late[h], tried[h][j])
    BY <2>2 DEF Contains, Range
  <2>5. ~Contains(late[h], tried[h][i])
    BY <2>2, <2>3 DEF Contains, Range
  <2>6. QED  BY <2>4, <2>5
<1>4. QED  BY <1>1, <1>2, <1>3, PTL DEF Spec
=============================================================================
