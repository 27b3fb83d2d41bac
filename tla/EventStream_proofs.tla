------------------------- MODULE EventStream_proofs ---------------------------
(***************************************************************************)
(* The consumer of a chain of stages, however long it is and whatever its  *)
(* transport delivers: every event of the provider is in one place, a      *)
(* place nearer to the consumer has the earlier ones, and a stage that     *)
(* loses some lets none that is later through.                             *)
(***************************************************************************)
EXTENDS EventStream, TLAPS

\* The provider's events in a sequence, and with a stage.
Ns(s) == {s[k].n : k \in 1..Len(s)} \ {0}
At(i) == Ns(out[i]) \cup Ns(held[i])

\* An event of p, or one that a stage adds.
Known(ev, p) ==
  ev \in {Warning, Route, Failed} \/ (ev.n \in 1..Len(p) /\ ev = Event(p[ev.n], ev.n))

Events == [kind : {"data", "meta", "error", "warning", "route"}, n : Nat]

Sorted(s, p) ==
  /\ \A k \in 1..Len(s) : Known(s[k], p)
  /\ \A j, k \in 1..Len(s) : j < k /\ s[k].n # 0 => s[j].n < s[k].n

\* A stage holds events back only while it waits for more, and sends on what it
\* has before it returns; the head of the chain and a mux client hold none back.
Finishing ==
  \A i \in Stages :
    /\ out[i] # <<>> => held[i] = <<>>
    /\ last[i] => out[i] # <<>> \/ ended[i]
    /\ ended[i] => last[i] /\ out[i] = <<>> /\ held[i] = <<>>
    /\ i = 1 \/ chain[i] = "route" => held[i] = <<>>

AllSorted ==
  /\ Sorted(got, provided)
  /\ \A i \in Stages : Sorted(out[i], provided) /\ Sorted(held[i], provided)

InOrder ==
  /\ \A n \in Ns(got) : n < next /\ \A i \in Stages : \A m \in At(i) : n < m
  /\ \A i \in Stages : \A m \in At(i) : m < next
  /\ \A i, j \in Stages : i < j => \A m \in At(i), n \in At(j) : n < m

\* Event n is with stage i, or has gone on from it and was not lost.
Ahead(n, i) ==
  \/ n \in Ns(got)
  \/ n = 1 /\ provided[1] = "meta" /\ routed
  \/ \E j \in Stages : i <= j /\ n \in At(j)

\* What comes behind a lost event is behind a stage that takes no more.
NoGap ==
  /\ \A i \in Stages : \A m \in At(i) :
       (\A j \in Stages : i < j => ~last[j]) => \A n \in 1..m-1 : Ahead(n, i)
  /\ (\A j \in Stages : ~last[j]) => \A n \in 1..next-1 : Ahead(n, 1)

Delivered ==
  \A k \in 1..Len(got), n \in Nat \ {0} : n < got[k].n => Folded(n) \/ n \in Ns(got)

RouteFirst ==
  /\ \A i \in Stages : chain[i] # "route" =>
       (\A k \in 1..Len(out[i]) : out[i][k] # Route) /\ (\A k \in 1..Len(held[i]) : held[i][k] # Route)
  /\ routed => chain[Bottom] = "route"
  /\ chain[Bottom] = "route" =>
       IF routed
       THEN /\ \A k \in 1..Len(got) : got[k] = Route <=> k = 1
            /\ \A k \in 1..Len(out[Bottom]) : out[Bottom][k] = Route <=> k = 1 /\ got = <<>>
            /\ got = <<>> => out[Bottom] # <<>> \/ ended[Bottom]
            /\ got = <<>> /\ ~ctxDone => out[Bottom] # <<>>
       ELSE got = <<>> /\ out[Bottom] = <<>>

\* A failure is on its way to the consumer from stage i or below it.
Pending(i) == \E j \in Stages : i <= j /\ \E k \in 1..Len(out[j]) : out[j][k] = Failed

\* While the context lasts, only a failure makes a stage return before its input ends,
\* or lose anything.
Alarmed ==
  ~ctxDone /\ outcome = "none" =>
    /\ \A j \in Stages : last[j] /\ ~Pending(j) =>
         /\ next = Len(provided) + 1
         /\ \A i \in 1..j-1 : ended[i]
    /\ ~Pending(1) => \A n \in 1..next-1 : Ahead(n, 1)

Types ==
  /\ chain \in Chains /\ provided \in Deliveries
  /\ ctxDone \in BOOLEAN /\ routed \in BOOLEAN
  /\ next \in 1..Len(provided) + 1
  /\ out \in [Stages -> Seq(Events)] /\ held \in [Stages -> Seq(Events)]
  /\ last \in [Stages -> BOOLEAN] /\ ended \in [Stages -> BOOLEAN]
  /\ got \in Seq(Events)
  /\ outcome \in {"none", "ok", "error", "ctx"}

IInv == Types /\ Finishing /\ AllSorted /\ InOrder /\ NoGap /\ Delivered /\ RouteFirst /\ Alarmed /\ NoFailureSwallowed

-----------------------------------------------------------------------------
LEMMA Shapes ==
  ASSUME Types
  PROVE  /\ Len(chain) \in Nat \ {0} /\ Len(provided) \in Nat \ {0}
         /\ 1 \in Stages /\ Bottom \in Stages /\ chain[1] # "route"
         /\ \A i \in Stages : chain[i] = "route" => i = Bottom
         /\ provided \in Seq({"data", "meta", "error"})
         /\ \A n \in 1..Len(provided) : FromProvider(n) \in Events
         /\ {Warning, Route, Failed} \subseteq Events
BY StreamAssumption DEF Types, Stages, Bottom, Events, FromProvider, Event, Warning, Route,
   Failed

LEMMA KnownFacts ==
  ASSUME NEW p \in Seq({"data", "meta", "error"}), NEW ev, Known(ev, p)
  PROVE  /\ ev \in Events
         /\ ev.kind \in {"data", "meta"} => ev.n \in 1..Len(p) /\ ev.kind = p[ev.n]
         /\ ev.n # 0 => ev \notin {Warning, Route, Failed} /\ ev = Event(p[ev.n], ev.n)
BY DEF Known, Events, Event, Warning, Route, Failed

LEMMA ShortSorted ==
  ASSUME NEW p \in Seq({"data", "meta", "error"})
  PROVE  /\ Sorted(<<>>, p) /\ Ns(<<>>) = {}
         /\ \A ev \in Events : Known(ev, p) =>
              /\ Sorted(<<ev>>, p) /\ Ns(<<ev>>) = {ev.n} \ {0}
              /\ Sorted(<<Route, ev>>, p) /\ Ns(<<Route, ev>>) = {ev.n} \ {0}
BY DEF Sorted, Ns, Known, Events, Event, Warning, Route, Failed

LEMMA SequenceFacts ==
  ASSUME NEW S, NEW s \in Seq(S), NEW e \in S
  PROVE  /\ Len(s) \in Nat /\ \A k \in 1..Len(s) : s[k] \in S
         /\ s # <<>> => /\ Len(s) # 0 /\ Head(s) = s[1] /\ Tail(s) \in Seq(S)
                        /\ Len(Tail(s)) = Len(s) - 1
                        /\ \A k \in 1..Len(s) - 1 : Tail(s)[k] = s[k + 1]
         /\ Append(s, e) \in Seq(S) /\ Len(Append(s, e)) = Len(s) + 1
         /\ \A k \in 1..Len(s) : Append(s, e)[k] = s[k]
         /\ Append(s, e)[Len(s) + 1] = e
OBVIOUS

LEMMA TailSorted ==
  ASSUME NEW p \in Seq({"data", "meta", "error"}), NEW s \in Seq(Events), s # <<>>, Sorted(s, p)
  PROVE  /\ Tail(s) \in Seq(Events) /\ Sorted(Tail(s), p)
         /\ Head(s) \in Events /\ Known(Head(s), p)
         /\ Ns(Tail(s)) = Ns(s) \ {Head(s).n}
         /\ Head(s).n # 0 => Head(s).n \in Ns(s) /\ \A m \in Ns(Tail(s)) : Head(s).n < m
<1>1. /\ Len(s) \in Nat \ {0} /\ Head(s) = s[1] /\ Tail(s) \in Seq(Events)
      /\ Len(Tail(s)) = Len(s) - 1 /\ \A k \in 1..Len(s) - 1 : Tail(s)[k] = s[k + 1]
      /\ \A k \in 1..Len(s) : s[k] \in Events /\ s[k].n \in Nat
  <2>1. \A ev \in Events : ev.n \in Nat
    BY DEF Events
  <2> QED
    BY <2>1, SequenceFacts
<1>2. Sorted(Tail(s), p)
  BY <1>1 DEF Sorted
<1>3. \A k \in 2..Len(s) : s[k].n # 0 => s[1].n < s[k].n
  BY <1>1 DEF Sorted
<1>4. Ns(Tail(s)) = {s[k].n : k \in 2..Len(s)} \ {0}
  <2>1. \A m \in Ns(Tail(s)) : m \in {s[k].n : k \in 2..Len(s)} \ {0}
    BY <1>1 DEF Ns
  <2>2. ASSUME NEW k \in 2..Len(s), s[k].n # 0
        PROVE  s[k].n \in Ns(Tail(s))
    <3>1. k - 1 \in 1..Len(Tail(s)) /\ Tail(s)[k - 1] = s[k]
      BY <1>1
    <3> QED
      BY <3>1, <2>2 DEF Ns
  <2> QED
    BY <2>1, <2>2
<1>5. Ns(s) = ({s[1].n} \cup {s[k].n : k \in 2..Len(s)}) \ {0}
  BY <1>1 DEF Ns
<1> QED
  BY <1>1, <1>2, <1>3, <1>4, <1>5 DEF Sorted

LEMMA AppendSorted ==
  ASSUME NEW p \in Seq({"data", "meta", "error"}), NEW s \in Seq(Events), Sorted(s, p),
         NEW ev \in Events, Known(ev, p), ev.n # 0 => \A m \in Ns(s) : m < ev.n
  PROVE  /\ Append(s, ev) \in Seq(Events) /\ Sorted(Append(s, ev), p)
         /\ Ns(Append(s, ev)) = Ns(s) \cup ({ev.n} \ {0})
<1>1. /\ Append(s, ev) \in Seq(Events) /\ Len(Append(s, ev)) = Len(s) + 1
      /\ Len(s) \in Nat
      /\ \A k \in 1..Len(s) : Append(s, ev)[k] = s[k]
      /\ Append(s, ev)[Len(s) + 1] = ev
      /\ \A k \in 1..Len(s) : s[k].n \in Nat
      /\ ev.n \in Nat
  <2>1. \A e \in Events : e.n \in Nat
    BY DEF Events
  <2> QED
    BY <2>1, SequenceFacts
<1>2. Ns(Append(s, ev)) = Ns(s) \cup ({ev.n} \ {0})
  BY <1>1 DEF Ns
<1>3. ev.n # 0 => \A k \in 1..Len(s) : s[k].n < ev.n
  BY <1>1 DEF Ns
<1>4. Sorted(Append(s, ev), p)
  BY <1>1, <1>3 DEF Sorted
<1> QED
  BY <1>1, <1>2, <1>4

-----------------------------------------------------------------------------
(***************************************************************************)
(* What a step does to the places of the events, and that this keeps them  *)
(* in order and without gaps.                                              *)
(***************************************************************************)
Elsewhere(S) == \A j \in Stages \ S : At(j)' = At(j) /\ last'[j] = last[j]
Same == UNCHANGED <<chain, provided>>

\* Stage i has done all but, perhaps, send what it has.
Quits(i) ==
  /\ At(i)' \in {At(i), {}} /\ last'[i] /\ Elsewhere({i})
  /\ Same /\ UNCHANGED <<next, got>> /\ (routed => routed')

Fetches ==
  /\ At(1) = {} /\ At(1)' = {next} /\ ~last[1] /\ Elsewhere({1})
  /\ next' = next + 1
  /\ Same /\ UNCHANGED <<routed, got>>

\* Stage i sends event n (0: one that is not the provider's) to the next stage, which
\* keeps it, loses it and all that it has, or folds it into the route event.
Takes(i, n) == n # 0 => n \in At(i) /\ \A m \in At(i) : m # n => n < m
Hands(i, n) ==
  /\ i + 1 \in Stages /\ ~last[i + 1] /\ Takes(i, n)
  /\ At(i)' = At(i) \ {n} /\ last'[i] = last[i] /\ Elsewhere({i, i + 1})
  /\ \/ /\ At(i + 1)' = At(i + 1) \cup ({n} \ {0}) /\ last'[i + 1] = last[i + 1]
        /\ (routed => routed')
     \/ /\ At(i + 1)' = {} /\ last'[i + 1]
        /\ (routed => routed')
     \/ /\ At(i + 1)' = {} /\ last'[i + 1] = last[i + 1] /\ i + 1 = Bottom
        /\ At(i + 1) = {} /\ got = <<>> /\ ~routed
        /\ routed' /\ n # 0 /\ provided[n] = "meta"
  /\ Same /\ UNCHANGED <<next, got>>

Eats(n) ==
  /\ Takes(Bottom, n)
  /\ At(Bottom)' = At(Bottom) \ {n} /\ last'[Bottom] = last[Bottom] /\ Elsewhere({Bottom})
  /\ Ns(got)' = Ns(got) \cup ({n} \ {0})
  /\ Same /\ UNCHANGED <<next, routed>>

LEMMA Places ==
  ASSUME Types
  PROVE  /\ Ns(got) \subseteq Nat \ {0}
         /\ \A i \in Stages : At(i) \subseteq Nat \ {0}
<1>1. \A s \in Seq(Events) : Ns(s) \subseteq Nat \ {0}
  <2>1. \A s \in Seq(Events) : \A k \in 1..Len(s) : s[k] \in Events
    OBVIOUS
  <2> QED
    BY <2>1 DEF Ns, Events
<1> QED
  BY <1>1 DEF At, Types

LEMMA QuitsOrder ==
  ASSUME Types, InOrder, NEW i \in Stages, Quits(i)
  PROVE  InOrder'
BY DEF InOrder, Quits, Same, Elsewhere, Stages

LEMMA FetchesOrder ==
  ASSUME Types, InOrder, Fetches
  PROVE  InOrder'
<1>1. next \in Nat /\ Stages' = Stages /\ Stages \subseteq Nat /\ Ns(got)' = Ns(got)
  BY Shapes DEF Types, Fetches, Same, Stages, Ns
<1>2. \A j \in Stages : \A m \in At(j)' : IF j = 1 THEN m = next ELSE m \in At(j)
  BY DEF Fetches, Elsewhere
<1>3. \A j \in Stages : At(j) \subseteq Nat /\ Ns(got) \subseteq Nat
  BY Places
<1>4. next' = next + 1 /\ 1 \in Stages /\ \A j \in Stages : 1 <= j
  BY Shapes DEF Fetches, Stages
<1>5. \A j \in Stages : \A m \in At(j)' : m < next' /\ \A n \in Ns(got) : n < m
  BY <1>1, <1>2, <1>3, <1>4 DEF InOrder
<1>6. \A j, k \in Stages : j < k => \A m \in At(j)', n \in At(k)' : n < m
  BY <1>1, <1>2, <1>3, <1>4 DEF InOrder
<1>7. \A n \in Ns(got) : n < next'
  BY <1>1, <1>3, <1>4 DEF InOrder
<1> QED
  BY <1>1, <1>5, <1>6, <1>7 DEF InOrder

LEMMA HandsOrder ==
  ASSUME Types, InOrder, NEW i \in Stages, NEW n \in Nat, Hands(i, n)
  PROVE  InOrder'
BY Places DEF InOrder, Hands, Takes, Same, Elsewhere, Stages

LEMMA EatsOrder ==
  ASSUME Types, InOrder, NEW n \in Nat, Eats(n)
  PROVE  InOrder'
BY Places, Shapes DEF InOrder, Eats, Takes, Same, Elsewhere, Stages, Bottom

LEMMA QuitsGap ==
  ASSUME Types, NoGap, NEW i \in Stages, Quits(i)
  PROVE  NoGap'
<1>1. /\ last'[i] /\ Stages' = Stages /\ Stages \subseteq Nat
      /\ \A j \in Stages : j # i => At(j)' = At(j) /\ last'[j] = last[j]
      /\ At(i)' # {} => At(i)' = At(i)
  BY DEF Quits, Elsewhere, Same, Stages
<1>2. ASSUME NEW l \in Stages, NEW m \in At(l)', i <= l, NEW n \in 1..m-1, Ahead(n, l)
      PROVE  Ahead(n, l)'
  BY <1>1, <1>2 DEF Ahead, Quits, Same
<1>3. ASSUME NEW l \in Stages, NEW m \in At(l)', \A j \in Stages : l < j => ~last'[j],
             NEW n \in 1..m-1
      PROVE  Ahead(n, l)'
  <2>1. i <= l
    BY <1>1, <1>3
  <2>2. m \in At(l)
    BY <1>1, <1>3
  <2>3. \A j \in Stages : l < j => ~last[j]
    BY <2>1, <1>1, <1>3
  <2>4. Ahead(n, l)
    BY <2>2, <2>3 DEF NoGap
  <2> QED
    BY <2>1, <2>4, <1>2, <1>3
<1> QED
  BY <1>1, <1>3 DEF NoGap

LEMMA FetchesGap ==
  ASSUME Types, NoGap, Fetches
  PROVE  NoGap'
<1>1. /\ Stages' = Stages /\ 1 \in Stages /\ \A j \in Stages : j \in Nat /\ 1 <= j
      /\ \A j \in Stages : j # 1 => At(j)' = At(j) /\ last'[j] = last[j]
      /\ At(1) = {} /\ At(1)' = {next} /\ ~last[1] /\ next \in Nat /\ next' = next + 1
  BY Shapes DEF Fetches, Elsewhere, Same, Stages, Types
<1>2. ASSUME NEW l \in Stages, NEW n, Ahead(n, l)
      PROVE  Ahead(n, l)'
  BY <1>1, <1>2 DEF Ahead, Fetches, Same
<1>3. (\A j \in Stages : 1 < j => ~last'[j]) => \A n \in 1..next-1 : Ahead(n, 1)'
  BY <1>1, <1>2 DEF NoGap
<1>4. \A n : n = next => Ahead(n, 1)'
  BY <1>1 DEF Ahead
<1>5. ASSUME NEW l \in Stages, NEW m \in At(l)', \A j \in Stages : l < j => ~last'[j],
             NEW n \in 1..m-1
      PROVE  Ahead(n, l)'
  <2>1. CASE l = 1
    BY <2>1, <1>1, <1>3, <1>5
  <2>2. CASE l # 1
    <3>1. m \in At(l) /\ \A j \in Stages : l < j => ~last[j]
      BY <2>2, <1>1, <1>5
    <3> QED
      BY <3>1, <1>2 DEF NoGap
  <2> QED
    BY <2>1, <2>2
<1>6. (\A j \in Stages : ~last'[j]) => \A n \in 1..next'-1 : Ahead(n, 1)'
  BY <1>1, <1>3, <1>4
<1> QED
  BY <1>1, <1>5, <1>6 DEF NoGap

\* Whatever was ahead still is, unless the stage that n goes to loses it.
LEMMA HandsAhead ==
  ASSUME Types, NoGap, NEW i \in Stages, NEW n \in Nat, Hands(i, n),
         NEW l \in Stages, NEW k \in Nat, Ahead(k, l), last'[i + 1] = last[i + 1] \/ i + 1 < l
  PROVE  Ahead(k, l)'
<1>1. /\ Stages' = Stages /\ i + 1 \in Stages /\ i \in Nat
      /\ \A j \in Stages : j \in Nat /\ 1 <= j /\ (j \notin {i, i + 1} => At(j)' = At(j))
      /\ ~last[i + 1] /\ At(i)' = At(i) \ {n} /\ Takes(i, n)
      /\ routed => routed'
      /\ Ns(got)' = Ns(got) /\ provided' = provided
  BY DEF Hands, Elsewhere, Same, Stages, Ns
<1>2. \A j \in Stages : At(j) \subseteq Nat \ {0}
  BY Places
<1> DEFINE Kept == At(i + 1)' = At(i + 1) \cup ({n} \ {0})
           Fold == /\ At(i + 1)' = {} /\ At(i + 1) = {} /\ i + 1 = Bottom
                   /\ n # 0 /\ provided[n] = "meta" /\ got = <<>> /\ ~routed /\ routed'
<1>3. i + 1 < l \/ Kept \/ Fold
  BY <1>1 DEF Hands
<1>4. ASSUME Fold PROVE n = 1
  <2>1. \A j \in Stages : i < j => j = i + 1
    BY <1>1, <1>4 DEF Stages, Bottom
  <2>2. n # 1 => Ahead(1, i)
    BY <2>1, <1>1, <1>2, <1>4 DEF NoGap, Takes
  <2>3. ~Ahead(1, i) \/ 1 \in At(i)
    BY <2>1, <1>1, <1>4 DEF Ahead, Ns
  <2> QED
    BY <2>2, <2>3, <1>1, <1>2, <1>4 DEF Takes
<1>5. CASE i + 1 < l
  BY <1>5, <1>1 DEF Ahead
<1>6. CASE Kept
  BY <1>6, <1>1, <1>2 DEF Ahead
<1>7. CASE Fold
  BY <1>7, <1>1, <1>4 DEF Ahead
<1> QED
  BY <1>3, <1>5, <1>6, <1>7

LEMMA HandsGap ==
  ASSUME Types, NoGap, NEW i \in Stages, NEW n \in Nat, Hands(i, n)
  PROVE  NoGap'
<1>1. /\ Stages' = Stages /\ i + 1 \in Stages /\ i \in Nat
      /\ \A j \in Stages : j \in Nat /\ 1 <= j /\ (j \notin {i, i + 1} => At(j)' = At(j))
      /\ \A j \in Stages : j # i + 1 => last'[j] = last[j]
      /\ ~last[i + 1] /\ At(i)' = At(i) \ {n} /\ Takes(i, n)
      /\ routed => routed'
      /\ next' = next /\ Ns(got)' = Ns(got) /\ provided' = provided
  BY DEF Hands, Elsewhere, Same, Stages, Ns
<1>2. \A j \in Stages : At(j) \subseteq Nat \ {0}
  BY Places
<1>3. \/ At(i + 1)' \subseteq At(i + 1) \cup ({n} \ {0}) /\ last'[i + 1] = last[i + 1]
      \/ At(i + 1)' = {} /\ last'[i + 1]
  BY DEF Hands
<1>4. ASSUME NEW l \in Stages, NEW m \in At(l)', \A j \in Stages : l < j => ~last'[j],
             NEW k \in 1..m-1
      PROVE  Ahead(k, l)'
  <2>1. CASE l = i + 1 /\ m \notin At(l)
    <3>1. last'[i + 1] = last[i + 1] /\ m = n /\ n # 0
      BY <2>1, <1>3, <1>4
    <3>2. \A j \in Stages : i < j => ~last[j]
      BY <2>1, <1>1, <1>4
    <3>3. Ahead(k, i) /\ k \notin At(i)
      BY <3>1, <3>2, <1>1, <1>2, <1>4 DEF NoGap, Takes
    <3>4. Ahead(k, i + 1)
      BY <3>3, <1>1 DEF Ahead
    <3> QED
      BY <3>1, <3>4, <2>1, <1>1, HandsAhead
  <2>2. CASE m \in At(l)
    <3>1. last'[i + 1] = last[i + 1] \/ i + 1 < l
      BY <2>2, <1>1, <1>3, <1>4
    <3>2. \A j \in Stages : l < j => ~last[j]
      BY <1>1, <1>4
    <3>3. Ahead(k, l) /\ k \in Nat
      BY <3>2, <2>2, <1>2 DEF NoGap
    <3> QED
      BY <3>1, <3>3, HandsAhead
  <2> QED
    BY <2>1, <2>2, <1>1, <1>4
<1>5. ASSUME \A j \in Stages : ~last'[j], NEW k \in 1..next-1
      PROVE  Ahead(k, 1)'
  <2>1. last'[i + 1] = last[i + 1] /\ \A j \in Stages : ~last[j]
    BY <1>1, <1>3, <1>5
  <2>2. Ahead(k, 1) /\ 1 \in Stages /\ k \in Nat
    BY <2>1, Shapes DEF NoGap, Types
  <2> QED
    BY <2>1, <2>2, HandsAhead
<1> QED
  BY <1>1, <1>4, <1>5 DEF NoGap

LEMMA EatsGap ==
  ASSUME Types, NoGap, NEW n \in Nat, Eats(n)
  PROVE  NoGap' /\ \A l \in Stages, k \in Nat : Ahead(k, l) => Ahead(k, l)'
<1>1. /\ Stages' = Stages /\ Bottom \in Stages
      /\ \A j \in Stages : last'[j] = last[j] /\ At(j)' \subseteq At(j)
      /\ \A j \in Stages : \A k \in At(j) : k \notin At(j)' => k = n
      /\ n # 0 => n \in Ns(got)'
      /\ Ns(got) \subseteq Ns(got)' /\ next' = next
      /\ \A j \in Stages : At(j) \subseteq Nat \ {0}
  BY Shapes, Places DEF Eats, Elsewhere, Same, Stages, Bottom
<1>2. ASSUME NEW l \in Stages, NEW k, Ahead(k, l)
      PROVE  Ahead(k, l)'
  BY <1>1, <1>2 DEF Ahead, Eats, Same
<1> QED
  BY <1>1, <1>2, Shapes DEF NoGap

-----------------------------------------------------------------------------
(***************************************************************************)
(* Stage i returns, or is to once it has sent evs: because its input has   *)
(* ended, it has failed, or the context has ended.                         *)
(***************************************************************************)
InputOver(i) == IF i = 1 THEN next > Len(provided) ELSE ended[i - 1]

Quit(i, evs) ==
  /\ i \in Stages /\ ~ended[i]
  /\ out' = [out EXCEPT ![i] = evs] /\ last' = [last EXCEPT ![i] = TRUE]
  /\ ended' = [ended EXCEPT ![i] = (evs = <<>>)] /\ held' = [held EXCEPT ![i] = <<>>]
  /\ \/ evs = <<>> /\ ctxDone
     \/ evs = <<Failed>> /\ chain[i] # "route"
     \/ evs = held[i] /\ out[i] = <<>> /\ InputOver(i)
     \/ evs = <<Route>> /\ out[i] = <<>> /\ InputOver(i) /\ chain[i] = "route" /\ ~routed
  /\ routed' = (routed \/ (chain[i] = "route" /\ evs = <<Route>>))
  /\ UNCHANGED <<chain, provided, ctxDone, next, got, outcome>>

LEMMA QuitSteps ==
  ASSUME IInv, NEW i \in Stages,
         (i = 1 /\ (ReadEnds \/ ReadFails)) \/ InputEnds(i) \/ Interrupted(i) \/ SendInterrupted(i)
  PROVE  \E evs : Quit(i, evs)
<1> USE Shapes DEF IInv, Types, Finishing, Quit, InputOver, Does, Receiving, Sending
<1>1. CASE i = 1 /\ ReadEnds
  <2>1. Quit(i, <<>>)
    BY <1>1 DEF ReadEnds
  <2> QED
    BY <2>1
<1>2. CASE i = 1 /\ ReadFails
  <2>1. Quit(i, <<Failed>>)
    BY <1>2 DEF ReadFails
  <2> QED
    BY <2>1
<1>3. CASE InputEnds(i)
  <2>1. CASE chain[i] = "route"
    <3>1. Quit(i, IF routed THEN <<>> ELSE <<Route>>)
      BY <2>1, <1>3 DEF InputEnds
    <3> QED
      BY <3>1
  <2>2. CASE chain[i] # "route"
    <3>1. Quit(i, held[i]) \/ Quit(i, <<Failed>>)
      BY <2>2, <1>3 DEF InputEnds
    <3> QED
      BY <3>1
  <2> QED
    BY <2>1, <2>2
<1>4. CASE Interrupted(i)
  <2>1. Quit(i, IF chain[i] = "route" THEN <<>> ELSE <<Failed>>)
    BY <1>4 DEF Interrupted
  <2> QED
    BY <2>1
<1>5. CASE SendInterrupted(i)
  <2>1. Quit(i, <<>>)
    BY <1>5 DEF SendInterrupted
  <2> QED
    BY <2>1
<1> QED
  BY <1>1, <1>2, <1>3, <1>4, <1>5

LEMMA Single ==
  /\ <<Route>> # <<>> /\ <<Failed>> # <<>> /\ <<Route>> # <<Failed>>
  /\ Len(<<Route>>) = 1 /\ <<Route>>[1] = Route
  /\ Len(<<Failed>>) = 1 /\ <<Failed>>[1] = Failed
  /\ Route # Failed /\ Route.n = 0 /\ Failed.n = 0 /\ Failed.kind = "error"
  /\ Ns(<<>>) = {} /\ Ns(<<Failed>>) = {} /\ Ns(<<Route>>) = {}
BY DEF Ns, Failed, Route, Event

LEMMA QuitTypes ==
  ASSUME IInv, NEW i, NEW evs, Quit(i, evs)
  PROVE  /\ Types' /\ Finishing' /\ AllSorted' /\ Quits(i)
         /\ i \in Stages /\ Stages' = Stages /\ Bottom' = Bottom
<1>1. /\ i \in Stages /\ Stages' = Stages /\ Bottom' = Bottom
      /\ evs \in {<<>>, <<Failed>>, held[i], <<Route>>}
  BY DEF Quit, Stages, Bottom
<1>2. evs \in Seq(Events) /\ Sorted(evs, provided) /\ Ns(evs) \in {{}, Ns(held[i])}
  <2>1. Known(Failed, provided) /\ Known(Route, provided)
    BY DEF Known
  <2>2. Failed \in Events /\ Route \in Events /\ provided \in Seq({"data", "meta", "error"})
    BY Shapes DEF IInv
  <2>4. Sorted(<<>>, provided) /\ Sorted(<<Failed>>, provided) /\ Sorted(<<Route>>, provided)
    BY <2>1, <2>2, ShortSorted
  <2>5. <<>> \in Seq(Events) /\ <<Failed>> \in Seq(Events) /\ <<Route>> \in Seq(Events)
    BY <2>2
  <2>3. held[i] \in Seq(Events) /\ Sorted(held[i], provided)
    BY <1>1 DEF IInv, Types, AllSorted
  <2> QED
    BY <1>1, <2>3, <2>4, <2>5, Single
<1>3. Types'
  <2>1. out' \in [Stages -> Seq(Events)] /\ held' \in [Stages -> Seq(Events)]
    BY <1>1, <1>2 DEF IInv, Types, Quit
  <2>2. last' \in [Stages -> BOOLEAN] /\ ended' \in [Stages -> BOOLEAN] /\ routed' \in BOOLEAN
    BY <1>1 DEF IInv, Types, Quit
  <2> QED
    BY <1>1, <2>1, <2>2 DEF IInv, Types, Quit
<1>4. Finishing'
  BY <1>1 DEF IInv, Types, Finishing, Quit
<1>5. AllSorted'
  BY <1>1, <1>2, ShortSorted, Shapes DEF IInv, Types, AllSorted, Quit
<1>6. Quits(i)
  <2>1. At(i)' = Ns(evs)
    BY <1>1, Shapes, ShortSorted DEF At, Quit, IInv, Types
  <2>2. evs = held[i] /\ out[i] = <<>> => At(i) = Ns(evs)
    BY Shapes, ShortSorted DEF At, IInv
  <2>3. Ns(evs) = {} \/ (evs = held[i] /\ out[i] = <<>>)
    BY Single DEF Quit
  <2>4. Elsewhere({i})
    BY <1>1 DEF Elsewhere, At, Quit, IInv, Types
  <2> QED
    BY <1>1, <2>1, <2>2, <2>3, <2>4 DEF Quits, Same, Quit, IInv, Types
<1> QED
  BY <1>1, <1>3, <1>4, <1>5, <1>6

LEMMA QuitRoute ==
  ASSUME IInv, NEW i, NEW evs, Quit(i, evs)
  PROVE  RouteFirst'
<1>1. /\ i \in Stages /\ Stages' = Stages /\ Bottom' = Bottom /\ Bottom \in Stages
      /\ out' = [out EXCEPT ![i] = evs] /\ held' = [held EXCEPT ![i] = <<>>]
      /\ out \in [Stages -> Seq(Events)] /\ held \in [Stages -> Seq(Events)]
      /\ chain' = chain /\ got' = got /\ ctxDone' = ctxDone
      /\ chain[i] = "route" => i = Bottom /\ held[i] = <<>>
  BY Shapes DEF Quit, Stages, Bottom, IInv, Types, Finishing
<1>2. CASE chain[i] # "route"
  <2>1. (\A k \in 1..Len(evs) : evs[k] # Route) /\ (routed' <=> routed)
    <3>1. evs = <<>> \/ evs = <<Failed>> \/ evs = held[i]
      BY <1>2 DEF Quit
    <3>2. \A k \in 1..Len(held[i]) : held[i][k] # Route
      BY <1>1, <1>2 DEF IInv, RouteFirst
    <3>3. \A k \in 1..Len(evs) : evs[k] # Route
      BY <3>1, <3>2, Single
    <3> QED
      BY <3>3, <1>2 DEF Quit
  <2>2. chain[Bottom] = "route" => out'[Bottom] = out[Bottom] /\ ended'[Bottom] = ended[Bottom]
    BY <1>1, <1>2 DEF Quit, IInv, Types
  <2> QED
    BY <1>1, <1>2, <2>1, <2>2 DEF IInv, RouteFirst
<1>3. CASE chain[i] = "route"
  <2>1. \A j \in Stages : chain[j] # "route" => out'[j] = out[j] /\ held'[j] = held[j]
    BY <1>1, <1>3
  <2>2. evs = <<>> \/ evs = <<Route>>
    BY <1>1, <1>3 DEF Quit
  <2>3. evs = <<Route>> => ~routed /\ got = <<>> /\ routed'
    BY <1>1, <1>3, Single DEF Quit, IInv, RouteFirst
  <2>4. evs = <<>> => routed' = routed /\ ended'[Bottom] /\ (ctxDone \/ out[Bottom] = <<>>)
    BY <1>1, <1>3, Single DEF Quit, IInv, Types
  <2> QED
    BY Single, <1>1, <1>3, <2>1, <2>2, <2>3, <2>4 DEF IInv, RouteFirst
<1> QED
  BY <1>2, <1>3

LEMMA PendingKept ==
  ASSUME NEW j, Stages' = Stages,
         \A l \in Stages, k \in Nat : j <= l /\ k \in 1..Len(out[l]) /\ out[l][k] = Failed =>
           \E m \in Stages : j <= m /\ \E n \in 1..Len(out'[m]) : out'[m][n] = Failed
  PROVE  Pending(j) => Pending(j)'
BY DEF Pending

LEMMA QuitAlarmed ==
  ASSUME IInv, NEW i, NEW evs, Quit(i, evs)
  PROVE  Alarmed'
<1> SUFFICES ASSUME ~ctxDone, outcome = "none"
             PROVE  /\ \A j \in Stages : last'[j] /\ ~Pending(j)' =>
                         /\ next = Len(provided) + 1
                         /\ \A k \in 1..j-1 : ended'[k]
                    /\ ~Pending(1)' => \A n \in 1..next-1 : Ahead(n, 1)'
  BY QuitTypes DEF Alarmed, Quit
<1>1. /\ i \in Stages /\ Stages' = Stages /\ Stages \subseteq Nat /\ 1 \in Stages
      /\ \A j \in Stages : 1 <= j /\ (\A k \in 1..j-1 : k \in Stages)
      /\ out' = [out EXCEPT ![i] = evs] /\ out \in [Stages -> Seq(Events)]
      /\ \A j \in Stages : j # i => last'[j] = last[j] /\ out'[j] = out[j]
      /\ \A j \in Stages : ended[j] => ended'[j] /\ last[j] /\ out[j] = <<>>
  BY QuitTypes, Shapes DEF Quit, IInv, Types, Stages, Finishing
<1>2. CASE evs = <<Failed>>
  <2>1. \A j \in Stages : j <= i => Pending(j)'
    <3>1. out'[i] = <<Failed>>
      BY <1>1, <1>2
    <3>2. \E k \in 1..Len(out'[i]) : out'[i][k] = Failed
      BY <3>1, Single
    <3> QED
      BY <3>2, <1>1 DEF Pending
  <2>2. \A j \in Stages : i < j => last'[j] = last[j] /\ (Pending(j) => Pending(j)')
    BY <1>1, PendingKept
  <2>3. ASSUME NEW j \in Stages, last'[j], ~Pending(j)'
        PROVE  next = Len(provided) + 1 /\ \A k \in 1..j-1 : ended'[k]
    <3>1. i < j /\ last[j] /\ ~Pending(j)
      BY <2>1, <2>2, <2>3, <1>1
    <3> QED
      BY <3>1, <1>1 DEF IInv, Alarmed
  <2> QED
    BY <2>1, <2>3, <1>1
<1>3. CASE evs # <<Failed>>
  <2>1. out[i] = <<>> /\ InputOver(i)
    BY <1>3 DEF Quit
  <2>2. \A j \in Stages : Pending(j) => Pending(j)'
    <3>1. \A l \in Stages, k \in Nat : k \in 1..Len(out[l]) => out'[l] = out[l]
      BY <2>1, <1>1
    <3> QED
      BY <3>1, <1>1, PendingKept
  <2>3. ASSUME i # 1, ~Pending(i)
        PROVE  next = Len(provided) + 1 /\ \A k \in 1..i-1 : ended[k]
    <3>1. i - 1 \in Stages /\ ended[i - 1]
      BY <2>1, <2>3, <1>1 DEF InputOver, Stages
    <3>2. last[i - 1] /\ ~Pending(i - 1)
      BY <3>1, <2>3, <1>1 DEF Pending
    <3> QED
      BY <3>1, <3>2 DEF IInv, Alarmed, Stages
  <2>4. i = 1 => next = Len(provided) + 1
    BY <2>1, Shapes DEF InputOver, IInv, Types
  <2>5. \A j \in Stages : last'[j] /\ ~Pending(j)' =>
          next = Len(provided) + 1 /\ \A k \in 1..j-1 : ended'[k]
    <3>1. \A j \in Stages : last[j] /\ ~Pending(j) =>
            next = Len(provided) + 1 /\ \A k \in 1..j-1 : ended[k]
      BY DEF IInv, Alarmed
    <3>2. ASSUME NEW j \in Stages, ~Pending(j), last'[j]
          PROVE  next = Len(provided) + 1 /\ \A k \in 1..j-1 : ended[k]
      <4>1. CASE j # i
        BY <4>1, <3>1, <3>2, <1>1
      <4>2. CASE j = i /\ i = 1
        BY <4>2, <2>4
      <4>3. CASE j = i /\ i # 1
        BY <4>3, <3>2, <2>3
      <4> QED
        BY <4>1, <4>2, <4>3
    <3>3. \A j \in Stages : \A k \in 1..j-1 : ended[k] => ended'[k]
      BY <1>1
    <3> QED
      BY <3>2, <3>3, <2>2
  <2>6. \A n \in 1..next-1 : Ahead(n, 1) => Ahead(n, 1)'
    <3>1. At(i) = Ns(held[i])
      BY <2>1, Single DEF At
    <3>2. evs = held[i] \/ (evs = <<Route>> /\ held[i] = <<>>)
      BY <1>1, <1>3 DEF Quit, IInv, Finishing
    <3>3. At(i)' = Ns(evs)
      BY <1>1, Single DEF Quit, At, IInv, Types
    <3>4. \A j \in Stages : At(j)' = At(j)
      BY <3>1, <3>2, <3>3, Single, QuitTypes DEF Quits, Elsewhere
    <3> QED
      BY <3>4, <1>1 DEF Ahead, Quit
  <2> QED
    BY <2>2, <2>5, <2>6, <1>1 DEF IInv, Alarmed
<1> QED
  BY <1>2, <1>3

LEMMA QuitStep ==
  ASSUME IInv, NEW i, NEW evs, Quit(i, evs)
  PROVE  IInv'
<1>1. InOrder' /\ NoGap'
  BY QuitTypes, QuitsOrder, QuitsGap DEF IInv
<1>2. Delivered'
  BY DEF Quit, IInv, Delivered, Folded, Ns
<1>3. NoFailureSwallowed'
  <2>1. ~(outcome = "ok" /\ ~ctxDone)
    BY DEF Quit, IInv, NoFailureSwallowed
  <2> QED
    BY <2>1 DEF Quit, NoFailureSwallowed
<1> QED
  BY <1>1, <1>2, <1>3, QuitTypes, QuitRoute, QuitAlarmed DEF IInv

-----------------------------------------------------------------------------
LEMMA ReadStep ==
  ASSUME IInv, ReadEvent
  PROVE  IInv'
<1>1. PICK completed \in {FALSE, next = Len(provided)} : Does(1, <<FromProvider(next)>>, completed)
  BY DEF ReadEvent
<1> DEFINE ev == FromProvider(next)
<1>2. /\ ev \in Events /\ Known(ev, provided) /\ ev.n = next /\ next # 0 /\ ev # Failed /\ ev # Route
      /\ next \in Nat /\ next <= Len(provided) /\ provided \in Seq({"data", "meta", "error"})
  BY Shapes DEF IInv, Types, ReadEvent, FromProvider, Known, Event, Failed, Route
<1>3. /\ Stages' = Stages /\ Bottom' = Bottom /\ 1 \in Stages /\ chain[1] # "route"
      /\ ~ended[1] /\ ~last[1] /\ out[1] = <<>> /\ held[1] = <<>>
      /\ out' = [out EXCEPT ![1] = <<ev>>] /\ last' = [last EXCEPT ![1] = completed]
      /\ ended' = [ended EXCEPT ![1] = FALSE]
      /\ UNCHANGED <<chain, provided, ctxDone, held, routed, got, outcome>> /\ next' = next + 1
  BY <1>1, Shapes DEF ReadEvent, Receiving, Does, Stages, Bottom, IInv, Finishing
<1>4. Types'
  <2>1. <<ev>> \in Seq(Events)
    BY <1>2
  <2>2. out' \in [Stages -> Seq(Events)] /\ next' \in 1..Len(provided) + 1
    BY <1>2, <1>3, <2>1 DEF IInv, Types
  <2>3. last' \in [Stages -> BOOLEAN] /\ ended' \in [Stages -> BOOLEAN]
    BY <1>1, <1>3 DEF IInv, Types
  <2> QED
    BY <1>3, <2>2, <2>3 DEF IInv, Types
<1>5. Finishing'
  BY <1>2, <1>3 DEF IInv, Types, Finishing
<1>6. AllSorted'
  BY <1>2, <1>3, ShortSorted DEF IInv, Types, AllSorted
<1>7. Fetches
  <2>1. At(1) = {} /\ At(1)' = {next}
    BY <1>2, <1>3, ShortSorted DEF At, IInv, Types
  <2>2. Elsewhere({1})
    BY <1>3 DEF Elsewhere, At, IInv, Types
  <2> QED
    BY <2>1, <2>2, <1>3 DEF Fetches, Same
<1>8. InOrder' /\ NoGap'
  BY <1>7, FetchesOrder, FetchesGap DEF IInv
<1>9. Delivered'
  BY <1>3 DEF IInv, Delivered, Folded, Ns
<1>10. RouteFirst'
  BY <1>2, <1>3 DEF IInv, Types, RouteFirst
<1>11. Alarmed'
  <2> SUFFICES ASSUME ~ctxDone, outcome = "none"
               PROVE  /\ \A j \in Stages : last'[j] /\ ~Pending(j)' =>
                           /\ next' = Len(provided) + 1
                           /\ \A k \in 1..j-1 : ended'[k]
                      /\ ~Pending(1)' => \A n \in 1..next'-1 : Ahead(n, 1)'
    BY <1>3 DEF Alarmed
  <2>1. \A j \in Stages : Pending(j) => Pending(j)'
    BY <1>3 DEF Pending, IInv, Types
  <2>2. \A j \in Stages \ {1} : last[j] => Pending(j)
    BY <1>3 DEF IInv, Alarmed, Stages
  <2>3. \A j \in Stages : last'[j] /\ ~Pending(j)' =>
          next' = Len(provided) + 1 /\ \A k \in 1..j-1 : ended'[k]
    <3>1. \A j \in Stages \ {1} : last'[j] = last[j]
      BY <1>3 DEF IInv, Types
    <3>2. last'[1] => next' = Len(provided) + 1
      BY <1>1, <1>2, <1>3 DEF IInv, Types
    <3> QED
      BY <3>1, <3>2, <2>1, <2>2, <1>3
  <2>4. \A n \in 1..next-1 : Ahead(n, 1) => Ahead(n, 1)'
    BY <1>3, <1>7 DEF Ahead, Fetches, Elsewhere
  <2>5. \A n : n = next => Ahead(n, 1)'
    BY <1>3, <1>7 DEF Ahead, Fetches
  <2> QED
    BY <2>1, <2>3, <2>4, <2>5, <1>2, <1>3 DEF IInv, Alarmed
<1>12. NoFailureSwallowed'
  BY <1>3 DEF IInv, NoFailureSwallowed
<1> QED
  BY <1>4, <1>5, <1>6, <1>8, <1>9, <1>10, <1>11, <1>12 DEF IInv

-----------------------------------------------------------------------------
\* The event that stage i sends, and what the places of others say of it.
LEMMA Sent ==
  ASSUME IInv, NEW i \in Stages, out[i] # <<>>
  PROVE  /\ Head(out[i]) \in Events /\ Known(Head(out[i]), provided)
         /\ Tail(out[i]) \in Seq(Events) /\ Sorted(Tail(out[i]), provided)
         /\ Head(out[i]) = out[i][1] /\ 1 \in 1..Len(out[i])
         /\ held[i] = <<>> /\ Ns(Tail(out[i])) = At(i) \ {Head(out[i]).n}
         /\ Takes(i, Head(out[i]).n)
         /\ \A k \in 1..Len(out[i]) :
              k = 1 \/ (k - 1 \in 1..Len(Tail(out[i])) /\ Tail(out[i])[k - 1] = out[i][k])
         /\ \A k \in 1..Len(Tail(out[i])) :
              k + 1 \in 1..Len(out[i]) /\ Tail(out[i])[k] = out[i][k + 1]
<1> DEFINE s == out[i]
<1>1. s \in Seq(Events) /\ s # <<>> /\ Sorted(s, provided) /\ held[i] = <<>> /\ Ns(held[i]) = {}
  BY Single DEF IInv, Types, AllSorted, Finishing
<1>2. provided \in Seq({"data", "meta", "error"})
  BY Shapes DEF IInv
<1>3. At(i) = Ns(s)
  BY <1>1 DEF At
<1>4. /\ Head(s) \in Events /\ Known(Head(s), provided)
      /\ Tail(s) \in Seq(Events) /\ Sorted(Tail(s), provided)
      /\ Ns(Tail(s)) = Ns(s) \ {Head(s).n}
      /\ Head(s).n # 0 => Head(s).n \in Ns(s) /\ \A m \in Ns(Tail(s)) : Head(s).n < m
  BY <1>1, <1>2, TailSorted
<1>5. /\ Head(s) = s[1] /\ Len(s) \in Nat \ {0} /\ Len(Tail(s)) = Len(s) - 1
      /\ \A k \in 1..Len(s) - 1 : Tail(s)[k] = s[k + 1]
  BY <1>1
<1>6. Takes(i, Head(s).n)
  BY <1>3, <1>4 DEF Takes
<1> HIDE DEF s
<1>7. \A k \in 1..Len(s) : k = 1 \/ (k - 1 \in 1..Len(Tail(s)) /\ Tail(s)[k - 1] = s[k])
  BY <1>5
<1>8. \A k \in 1..Len(Tail(s)) : k + 1 \in 1..Len(s) /\ Tail(s)[k] = s[k + 1]
  BY <1>5
<1> QED
  BY <1>1, <1>3, <1>4, <1>5, <1>6, <1>7, <1>8 DEF s

LEMMA Receipt ==
  ASSUME IInv, NEW i \in Stages, i + 1 \in Stages, out[i] # <<>>, Receiving(i + 1),
         NEW r \in Results(i + 1, Head(out[i]))
  PROVE  LET n == Head(out[i]).n
         IN
         /\ r.out \in Seq(Events) /\ Sorted(r.out, provided)
         /\ r.held \in Seq(Events) /\ Sorted(r.held, provided)
         /\ r.last \in BOOLEAN /\ (r.last => r.out = <<Failed>>)
         /\ r.out # <<>> => r.held = <<>>
         /\ \/ r.last /\ Ns(r.out) \cup Ns(r.held) = {}
            \/ ~r.last /\ Ns(r.out) \cup Ns(r.held) = At(i + 1) \cup ({n} \ {0})
            \/ /\ ~r.last /\ Ns(r.out) \cup Ns(r.held) = {}
               /\ At(i + 1) = {} /\ n # 0 /\ provided[n] = "meta"
               /\ chain[i + 1] = "route" /\ ~routed
         /\ Head(out[i]) = Failed => \E k \in 1..Len(r.out) : r.out[k] = Failed
         /\ chain[i + 1] # "route" =>
              /\ \A k \in 1..Len(r.out) : r.out[k] # Route
              /\ \A k \in 1..Len(r.held) : r.held[k] # Route
         /\ chain[i + 1] = "route" =>
              /\ r.held = <<>> /\ ~r.last /\ r.out # <<>>
              /\ \A k \in 1..Len(r.out) : r.out[k] = Route <=> k = 1 /\ ~routed
<1> DEFINE ev == Head(out[i])
           h == held[i + 1]
<1>1. /\ ev \in Events /\ Known(ev, provided) /\ ev = out[i][1] /\ 1 \in 1..Len(out[i])
      /\ Takes(i, ev.n) /\ ev.n \in Nat /\ provided \in Seq({"data", "meta", "error"})
      /\ chain[i] # "route" /\ i < i + 1 /\ ev # Route
  <2>1. chain[i] # "route" /\ i < i + 1 /\ provided \in Seq({"data", "meta", "error"})
    BY Shapes DEF IInv, Stages, Bottom
  <2>2. ev \in Events /\ Known(ev, provided) /\ ev = out[i][1] /\ 1 \in 1..Len(out[i]) /\ Takes(i, ev.n)
    BY Sent
  <2>3. ev.n \in Nat
    BY <2>2 DEF Events
  <2> QED
    BY <2>1, <2>2, <2>3 DEF IInv, RouteFirst
<1>2. /\ h \in Seq(Events) /\ Sorted(h, provided) /\ out[i + 1] = <<>> /\ At(i + 1) = Ns(h)
      /\ chain[i + 1] = "route" => h = <<>>
      /\ chain[i + 1] # "route" => \A k \in 1..Len(h) : h[k] # Route
  BY Single DEF Receiving, At, IInv, Types, AllSorted, Finishing, RouteFirst
<1>3. /\ Append(h, ev) \in Seq(Events) /\ Sorted(Append(h, ev), provided)
      /\ Ns(Append(h, ev)) = Ns(h) \cup ({ev.n} \ {0})
  <2>1. ev.n # 0 => \A m \in Ns(h) : m < ev.n
    BY <1>1, <1>2 DEF IInv, InOrder, Takes
  <2> QED
    BY <2>1, <1>1, <1>2, AppendSorted
<1>4. /\ Len(Append(h, ev)) = Len(h) + 1 /\ Len(h) \in Nat /\ Append(h, ev)[Len(h) + 1] = ev
      /\ \A k \in 1..Len(h) : Append(h, ev)[k] = h[k]
      /\ Append(h, ev) # <<>>
  <2> HIDE DEF ev, h
  <2>1. Append(h, ev) \in Seq(Events) /\ Len(Append(h, ev)) = Len(h) + 1 /\ Len(h) \in Nat
    BY <1>1, <1>2, SequenceFacts
  <2> QED
    BY <2>1, <1>1, <1>2, SequenceFacts
<1> HIDE DEF ev, h
<1>5. CASE chain[i + 1] = "route"
  <2>1. r = Made(Routed(ev), <<>>, FALSE) /\ h = <<>>
    BY <1>2, <1>5 DEF Results, ev
  <2>2. /\ Sorted(<<>>, provided) /\ Ns(<<>>) = {}
        /\ Sorted(<<ev>>, provided) /\ Ns(<<ev>>) = {ev.n} \ {0}
        /\ Sorted(<<Route, ev>>, provided) /\ Ns(<<Route, ev>>) = {ev.n} \ {0}
        /\ <<ev>> \in Seq(Events) /\ <<Route, ev>> \in Seq(Events)
        /\ Sorted(<<Route>>, provided) /\ Ns(<<Route>>) = {} /\ <<Route>> \in Seq(Events)
    <3>1. Route \in Events /\ Known(Route, provided) /\ Route.n = 0
      BY Shapes, Single DEF IInv, Known
    <3>2. /\ Sorted(<<>>, provided) /\ Ns(<<>>) = {}
          /\ Sorted(<<ev>>, provided) /\ Ns(<<ev>>) = {ev.n} \ {0}
          /\ Sorted(<<Route, ev>>, provided) /\ Ns(<<Route, ev>>) = {ev.n} \ {0}
      BY <1>1, ShortSorted
    <3>3. Sorted(<<Route>>, provided)
      BY <3>1, <1>1, ShortSorted
    <3>4. <<ev>> \in Seq(Events) /\ <<Route, ev>> \in Seq(Events) /\ <<Route>> \in Seq(Events)
      BY <3>1, <1>1
    <3> QED
      BY <3>2, <3>3, <3>4, Single
  <2>3. CASE routed
    <3>1. r = Made(<<ev>>, <<>>, FALSE)
      BY <2>1, <2>3 DEF Routed
    <3> QED
      BY <3>1, <2>1, <2>2, <2>3, <1>1, <1>2, <1>5, Single DEF Made, ev
  <2>4. CASE ~routed /\ ev.kind = "meta"
    <3>1. r = Made(<<Route>>, <<>>, FALSE)
      BY <2>1, <2>4 DEF Routed
    <3>2. ev.n # 0 /\ provided[ev.n] = "meta" /\ ev # Failed
      BY <2>4, <1>1, KnownFacts, Single
    <3> QED
      BY <3>1, <3>2, <2>1, <2>2, <2>4, <1>1, <1>2, <1>5, Single DEF Made, ev
  <2>5. CASE ~routed /\ ev.kind # "meta"
    <3>1. r = Made(<<Route, ev>>, <<>>, FALSE)
      BY <2>1, <2>5 DEF Routed
    <3> QED
      BY <3>1, <2>1, <2>2, <2>5, <1>1, <1>2, <1>5, Single DEF Made, ev
  <2> QED
    BY <2>3, <2>4, <2>5
<1>6. CASE chain[i + 1] # "route"
  <2>1. \/ r = Made(Append(h, ev), <<>>, FALSE)
        \/ r = Made(<<Failed>>, <<>>, TRUE)
        \/ r = Made(<<>>, Append(h, ev), FALSE) /\ ev.kind = "data"
    BY <1>6 DEF Results, Processed, ev, h
  <2>2. /\ Sorted(<<>>, provided) /\ Ns(<<>>) = {} /\ Sorted(<<Failed>>, provided)
        /\ <<Failed>> \in Seq(Events)
    <3>1. Failed \in Events /\ Known(Failed, provided)
      BY Shapes DEF IInv, Known
    <3>2. Sorted(<<>>, provided) /\ Ns(<<>>) = {} /\ Sorted(<<Failed>>, provided)
      BY <3>1, <1>1, ShortSorted
    <3> QED
      BY <3>1, <3>2
  <2>3. CASE r = Made(Append(h, ev), <<>>, FALSE)
    <3>1. r.out = Append(h, ev) /\ r.held = <<>> /\ r.last = FALSE
      BY <2>3 DEF Made
    <3>2. \E k \in 1..Len(r.out) : r.out[k] = ev
      BY <3>1, <1>4
    <3>3. \A k \in 1..Len(r.out) : r.out[k] # Route
      BY <3>1, <1>1, <1>2, <1>4, <1>6
    <3>4. Ns(r.out) \cup Ns(r.held) = At(i + 1) \cup ({ev.n} \ {0})
      BY <3>1, <2>2, <1>2, <1>3
    <3>5. r.out \in Seq(Events) /\ Sorted(r.out, provided) /\ r.held \in Seq(Events) /\ Sorted(r.held, provided)
      BY <3>1, <2>2, <1>3
    <3>6. \A k \in 1..Len(r.held) : r.held[k] # Route
      BY <3>1
    <3> QED
      BY <3>1, <3>2, <3>3, <3>4, <3>5, <3>6, <1>6 DEF ev
  <2>4. CASE r = Made(<<Failed>>, <<>>, TRUE)
    BY <2>2, <2>4, <1>1, <1>6, Single DEF Made, ev
  <2>5. CASE r = Made(<<>>, Append(h, ev), FALSE) /\ ev.kind = "data"
    <3>1. r.out = <<>> /\ r.held = Append(h, ev) /\ r.last = FALSE /\ ev # Failed
      BY <2>5, Single DEF Made
    <3>2. \A k \in 1..Len(r.held) : r.held[k] # Route
      BY <3>1, <1>1, <1>2, <1>4, <1>6
    <3>4. Ns(r.out) \cup Ns(r.held) = At(i + 1) \cup ({ev.n} \ {0})
      BY <3>1, <2>2, <1>2, <1>3
    <3>5. r.out \in Seq(Events) /\ Sorted(r.out, provided) /\ r.held \in Seq(Events) /\ Sorted(r.held, provided)
      BY <3>1, <2>2, <1>3
    <3>6. \A k \in 1..Len(r.out) : r.out[k] # Route
      BY <3>1
    <3> QED
      BY <3>1, <3>2, <3>4, <3>5, <3>6, <1>6 DEF ev
  <2> QED
    BY <2>1, <2>3, <2>4, <2>5
<1> QED
  BY <1>5, <1>6
LEMMA TransferStep ==
  ASSUME IInv, NEW i \in Stages, Transfer(i)
  PROVE  IInv'
<1> DEFINE s == out[i]
           n == Head(s).n
<1>1. PICK r \in Results(i + 1, Head(s)) :
        /\ out' = [out EXCEPT ![i] = Tail(s), ![i + 1] = r.out]
        /\ last' = [last EXCEPT ![i + 1] = r.last]
        /\ held' = [held EXCEPT ![i + 1] = r.held]
  BY DEF Transfer, s
<1>2. /\ i + 1 \in Stages /\ i \in Nat /\ 1 <= i /\ Stages' = Stages /\ Bottom' = Bottom
      /\ Stages \subseteq Nat /\ Bottom \in Stages /\ i # Bottom /\ chain[i] # "route"
      /\ chain[i + 1] = "route" => i + 1 = Bottom
      /\ \A j \in Stages : j <= Bottom /\ (\A k \in 1..j-1 : k \in Stages)
      /\ s # <<>> /\ ~ended[i] /\ Receiving(i + 1)
      /\ out[i + 1] = <<>> /\ ~ended[i + 1] /\ ~last[i + 1]
      /\ ended' = [ended EXCEPT ![i] = last[i] /\ Tail(s) = <<>>]
      /\ routed' = (routed \/ chain[i + 1] = "route")
      /\ UNCHANGED <<chain, provided, ctxDone, next, got, outcome>>
      /\ provided \in Seq({"data", "meta", "error"})
  BY Shapes DEF IInv, Types, Finishing, Transfer, Sending, Receiving, Stages, Bottom, s
<1>3. /\ Tail(s) \in Seq(Events) /\ Sorted(Tail(s), provided) /\ held[i] = <<>>
      /\ Ns(Tail(s)) = At(i) \ {n} /\ Takes(i, n) /\ n \in Nat
  BY <1>2, Sent DEF Events, s
<1>4. /\ r.out \in Seq(Events) /\ Sorted(r.out, provided)
      /\ r.held \in Seq(Events) /\ Sorted(r.held, provided)
      /\ r.last \in BOOLEAN /\ (r.last => r.out = <<Failed>>)
      /\ r.out # <<>> => r.held = <<>>
  BY <1>2, Receipt DEF s
<1>5. \/ r.last /\ Ns(r.out) \cup Ns(r.held) = {}
      \/ ~r.last /\ Ns(r.out) \cup Ns(r.held) = At(i + 1) \cup ({n} \ {0})
      \/ /\ ~r.last /\ Ns(r.out) \cup Ns(r.held) = {}
         /\ At(i + 1) = {} /\ n # 0 /\ provided[n] = "meta"
         /\ chain[i + 1] = "route" /\ ~routed
  BY <1>2, Receipt DEF s
<1>6. Head(s) = Failed => \E k \in 1..Len(r.out) : r.out[k] = Failed
  BY <1>2, Receipt DEF s
<1>7. /\ chain[i + 1] # "route" =>
           /\ \A k \in 1..Len(r.out) : r.out[k] # Route
           /\ \A k \in 1..Len(r.held) : r.held[k] # Route
      /\ chain[i + 1] = "route" =>
           /\ r.held = <<>> /\ ~r.last /\ r.out # <<>>
           /\ \A k \in 1..Len(r.out) : r.out[k] = Route <=> k = 1 /\ ~routed
  BY <1>2, Receipt DEF s
<1>8. \A k \in 1..Len(s) : k = 1 \/ (k - 1 \in 1..Len(Tail(s)) /\ Tail(s)[k - 1] = s[k])
  BY <1>2, Sent DEF s
<1>9. /\ \A k \in 1..Len(Tail(s)) : k + 1 \in 1..Len(s) /\ Tail(s)[k] = s[k + 1]
      /\ Head(s) = s[1]
  BY <1>2, Sent DEF s
<1> HIDE DEF n
<1>10. /\ out \in [Stages -> Seq(Events)] /\ held \in [Stages -> Seq(Events)]
       /\ last \in [Stages -> BOOLEAN] /\ ended \in [Stages -> BOOLEAN]
  BY DEF IInv, Types
<1>11. /\ out'[i] = Tail(s) /\ out'[i + 1] = r.out
       /\ \A j \in Stages : j \notin {i, i + 1} => out'[j] = out[j]
       /\ held'[i] = <<>> /\ held'[i + 1] = r.held
       /\ \A j \in Stages : j # i + 1 => held'[j] = held[j] /\ last'[j] = last[j]
       /\ last'[i + 1] = r.last
       /\ \A j \in Stages : j # i => ended'[j] = ended[j]
       /\ ended'[i] <=> last[i] /\ Tail(s) = <<>>
  BY <1>1, <1>2, <1>3, <1>10
<1> HIDE DEF s
<1>12. Types'
  <2>1. out' \in [Stages -> Seq(Events)] /\ held' \in [Stages -> Seq(Events)]
    BY <1>1, <1>2, <1>3, <1>4, <1>10
  <2>2. last' \in [Stages -> BOOLEAN] /\ ended' \in [Stages -> BOOLEAN] /\ routed' \in BOOLEAN
    BY <1>1, <1>2, <1>4, <1>10 DEF IInv, Types
  <2> QED
    BY <2>1, <2>2, <1>2 DEF IInv, Types
<1>13. Finishing'
  <2> DEFINE Tidy(j) ==
        /\ out[j] # <<>> => held[j] = <<>>
        /\ last[j] => out[j] # <<>> \/ ended[j]
        /\ ended[j] => last[j] /\ out[j] = <<>> /\ held[j] = <<>>
        /\ j = 1 \/ chain[j] = "route" => held[j] = <<>>
  <2>1. \A j \in Stages : Tidy(j)
    BY DEF IInv, Finishing
  <2>2. ASSUME NEW j \in Stages, j \notin {i, i + 1}
        PROVE  Tidy(j)'
    BY <2>1, <2>2, <1>2, <1>11
  <2>3. Tidy(i)'
    <3>1. out'[i] # <<>> => held'[i] = <<>>
      BY <1>11
    <3>2. (last'[i] => out'[i] # <<>> \/ ended'[i]) /\ (ended'[i] => last'[i] /\ out'[i] = <<>>)
      <4>1. last'[i] = last[i] /\ out'[i] = Tail(s) /\ (ended'[i] <=> last[i] /\ Tail(s) = <<>>)
        BY <1>2, <1>11
      <4> QED
        BY <4>1
    <3>3. held'[i] = <<>>
      BY <1>11
    <3> QED
      BY <3>2, <3>3
  <2>4. Tidy(i + 1)'
    BY <1>2, <1>4, <1>7, <1>11, Single
  <2>5. \A j \in Stages : Tidy(j)'
    BY <2>2, <2>3, <2>4
  <2> QED
    BY <2>5, <1>2 DEF Finishing
<1>14. AllSorted'
  BY <1>2, <1>3, <1>4, <1>11, ShortSorted DEF IInv, AllSorted
<1>15. Hands(i, n)
  <2>1. At(i)' = At(i) \ {n} /\ At(i + 1)' = Ns(r.out) \cup Ns(r.held)
    BY <1>2, <1>3, <1>11, Single DEF At
  <2>2. Elsewhere({i, i + 1})
    BY <1>2, <1>11 DEF Elsewhere, At
  <2>3. ASSUME chain[i + 1] = "route", ~routed
        PROVE  got = <<>> /\ i + 1 = Bottom /\ routed'
    <3>1. i + 1 = Bottom /\ routed'
      BY <2>3, <1>2
    <3>2. chain[Bottom] = "route" /\ ~routed => got = <<>>
      BY DEF IInv, RouteFirst
    <3> QED
      BY <2>3, <3>1, <3>2
  <2>4. /\ last'[i] = last[i] /\ (routed => routed')
        /\ r.last => last'[i + 1]
        /\ ~r.last => last'[i + 1] = last[i + 1]
    <3>1. last[i + 1] \in BOOLEAN /\ r.last \in BOOLEAN /\ i # i + 1
      BY <1>2, <1>4, <1>10
    <3>2. last'[i + 1] = r.last /\ ~last[i + 1] /\ last'[i] = last[i] /\ (routed => routed')
      BY <3>1, <1>2, <1>11
    <3>3. ~r.last => r.last = last[i + 1]
      BY <3>1, <3>2
    <3> QED
      BY <3>2, <3>3
  <2>5. \/ At(i + 1)' = At(i + 1) \cup ({n} \ {0}) /\ last'[i + 1] = last[i + 1]
        \/ At(i + 1)' = {} /\ last'[i + 1]
        \/ /\ At(i + 1)' = {} /\ last'[i + 1] = last[i + 1] /\ i + 1 = Bottom
           /\ At(i + 1) = {} /\ got = <<>> /\ ~routed
           /\ routed' /\ n # 0 /\ provided[n] = "meta"
    BY <1>4, <1>5, <2>1, <2>3, <2>4
  <2> QED
    BY <2>1, <2>2, <2>4, <2>5, <1>2, <1>3 DEF Hands, Same
<1>16. InOrder' /\ NoGap'
  BY <1>3, <1>15, HandsOrder, HandsGap DEF IInv
<1>17. Delivered'
  BY <1>2 DEF IInv, Delivered, Folded, Ns
<1>18. RouteFirst'
  <2>1. \A j \in Stages : chain[j] # "route" =>
          (\A k \in 1..Len(out'[j]) : out'[j][k] # Route) /\ (\A k \in 1..Len(held'[j]) : held'[j][k] # Route)
    <3>1. \A j \in Stages : chain[j] # "route" =>
            (\A k \in 1..Len(out[j]) : out[j][k] # Route) /\ (\A k \in 1..Len(held[j]) : held[j][k] # Route)
      BY DEF IInv, RouteFirst
    <3>2. \A k \in 1..Len(s) : s[k] # Route
      BY <3>1, <1>2 DEF s
    <3>3. \A k \in 1..Len(Tail(s)) : Tail(s)[k] # Route
      BY <3>2, <1>9
    <3>4. out'[i] = Tail(s) /\ held'[i] = <<>> /\ Len(<<>>) = 0
      BY <1>11
    <3>5. (\A k \in 1..Len(out'[i]) : out'[i][k] # Route) /\ (\A k \in 1..Len(held'[i]) : held'[i][k] # Route)
      BY <3>3, <3>4
    <3>6. ASSUME NEW j \in Stages, chain[j] # "route"
          PROVE  (\A k \in 1..Len(out'[j]) : out'[j][k] # Route) /\ (\A k \in 1..Len(held'[j]) : held'[j][k] # Route)
      <4>1. CASE j = i
        BY <4>1, <3>5
      <4>2. CASE j = i + 1
        <5>1. out'[j] = r.out /\ held'[j] = r.held
          BY <4>2, <1>11
        <5> QED
          BY <5>1, <4>2, <3>6, <1>7
      <4>3. CASE j \notin {i, i + 1}
        <5>1. out'[j] = out[j] /\ held'[j] = held[j]
          BY <4>3, <1>11
        <5> QED
          BY <5>1, <3>6, <3>1
      <4> QED
        BY <4>1, <4>2, <4>3
    <3> QED
      BY <3>6
  <2>2. CASE chain[Bottom] # "route"
    BY <2>1, <2>2, <1>2 DEF IInv, RouteFirst
  <2>3. CASE chain[Bottom] = "route" /\ i + 1 # Bottom
    <3>1. out'[Bottom] = out[Bottom] /\ ended'[Bottom] = ended[Bottom] /\ routed' = routed
      BY <2>3, <1>2, <1>11 DEF IInv, Types
    <3>2. IF routed
          THEN /\ \A k \in 1..Len(got) : got[k] = Route <=> k = 1
               /\ \A k \in 1..Len(out[Bottom]) : out[Bottom][k] = Route <=> k = 1 /\ got = <<>>
               /\ got = <<>> => out[Bottom] # <<>> \/ ended[Bottom]
               /\ got = <<>> /\ ~ctxDone => out[Bottom] # <<>>
          ELSE got = <<>> /\ out[Bottom] = <<>>
      BY <2>3 DEF IInv, RouteFirst
    <3> QED
      BY <2>1, <2>3, <3>1, <3>2, <1>2 DEF RouteFirst
  <2>4. CASE chain[Bottom] = "route" /\ i + 1 = Bottom
    <3>1. routed' /\ out'[Bottom] = r.out /\ r.out # <<>>
      BY <2>4, <1>2, <1>7, <1>11
    <3>2. (routed => got # <<>> \/ ctxDone) /\ (~routed => got = <<>>)
      BY <2>4, <1>2 DEF IInv, RouteFirst
    <3>3. routed => got # <<>>
      BY <2>4, <1>2 DEF IInv, RouteFirst
    <3>4. \A k \in 1..Len(r.out) : r.out[k] = Route <=> k = 1 /\ got = <<>>
      BY <3>2, <3>3, <1>7, <2>4
    <3>5. \A k \in 1..Len(got) : got[k] = Route <=> k = 1
      BY <3>2, <2>4 DEF IInv, Types, RouteFirst
    <3> QED
      BY <2>1, <2>4, <3>1, <3>4, <3>5, <1>2 DEF IInv, RouteFirst
  <2> QED
    BY <2>2, <2>3, <2>4
<1>19. Alarmed'
  <2> SUFFICES ASSUME ~ctxDone, outcome = "none"
               PROVE  /\ \A j \in Stages : last'[j] /\ ~Pending(j)' =>
                           /\ next = Len(provided) + 1
                           /\ \A k \in 1..j-1 : ended'[k]
                      /\ ~Pending(1)' => \A m \in 1..next-1 : Ahead(m, 1)'
    BY <1>2 DEF Alarmed
  <2>1. CASE r.last
    <3>1. \A j \in Stages : j <= i + 1 => Pending(j)'
      BY <2>1, <1>2, <1>4, <1>11, Single DEF Pending
    <3>2. ASSUME NEW j \in Stages, i + 1 < j, Pending(j)
          PROVE  Pending(j)'
      BY <3>2, <1>2, <1>11 DEF Pending
    <3>3. ASSUME NEW j \in Stages, last'[j], ~Pending(j)'
          PROVE  next = Len(provided) + 1 /\ \A k \in 1..j-1 : ended'[k]
      <4>0. i + 1 < j
        BY <3>1, <3>3, <1>2
      <4>1. i + 1 < j /\ last[j] /\ ~Pending(j)
        BY <4>0, <3>2, <3>3, <1>2, <1>11
      <4>2. i \in 1..j-1 /\ ended[i]
        BY <4>1, <1>2 DEF IInv, Alarmed
      <4> QED
        BY <4>2, <1>2
    <3> QED
      BY <3>1, <3>3, <1>2
  <2>2. CASE ~r.last
    <3>1. \A j \in Stages : last'[j] = last[j]
      <4>1. last[i + 1] \in BOOLEAN /\ ~last[i + 1] /\ r.last \in BOOLEAN
        BY <1>2, <1>4, <1>10
      <4>2. r.last = last[i + 1]
        BY <4>1, <2>2
      <4> QED
        BY <4>2, <1>11
    <3>2. ASSUME NEW j \in Stages, Pending(j)
          PROVE  Pending(j)'
      <4>1. PICK l \in Stages : j <= l /\ \E k \in 1..Len(out[l]) : out[l][k] = Failed
        BY <3>2 DEF Pending
      <4>2. PICK k \in 1..Len(out[l]) : out[l][k] = Failed
        BY <4>1
      <4>3. CASE l = i
        <5>1. CASE k = 1
          <6>1. \E m \in 1..Len(out'[i + 1]) : out'[i + 1][m] = Failed
            <7>1. Head(s) = Failed
              BY <4>2, <4>3, <5>1, <1>9 DEF s
            <7>2. out'[i + 1] = r.out
              BY <1>11
            <7> QED
              BY <7>1, <7>2, <1>6
          <6>2. j <= i + 1
            BY <4>1, <4>3, <1>2
          <6> QED
            BY <6>1, <6>2, <1>2 DEF Pending
        <5>2. CASE k # 1
          <6>1. \E m \in 1..Len(Tail(s)) : Tail(s)[m] = Failed
            BY <4>2, <4>3, <5>2, <1>8 DEF s
          <6>2. \E m \in 1..Len(out'[i]) : out'[i][m] = Failed
            BY <6>1, <1>11
          <6> QED
            BY <6>2, <4>1, <4>3, <1>2 DEF Pending
        <5> QED
          BY <5>1, <5>2
      <4>4. CASE l # i
        <5>1. l # i + 1
          BY <4>2, <1>2
        <5> QED
          BY <4>1, <4>4, <5>1, <1>2, <1>11 DEF Pending
      <4> QED
        BY <4>3, <4>4
    <3>3. \A j \in Stages : ended[j] => ended'[j]
      BY <1>2, <1>11
    <3>4. ASSUME ~Pending(1)', NEW m \in 1..next-1
          PROVE  Ahead(m, 1)'
      <4>1. Ahead(m, 1) /\ 1 \in Stages /\ m \in Nat
        BY <3>2, <3>4, Shapes DEF IInv, Alarmed, Types
      <4> QED
        BY <4>1, <3>1, <1>2, <1>3, <1>15, HandsAhead DEF IInv
    <3>5. ASSUME NEW j \in Stages, last'[j], ~Pending(j)'
          PROVE  next = Len(provided) + 1 /\ \A k \in 1..j-1 : ended'[k]
      <4>1. next = Len(provided) + 1 /\ \A k \in 1..j-1 : ended[k]
        BY <3>1, <3>2, <3>5 DEF IInv, Alarmed
      <4> QED
        BY <4>1, <3>3, <1>2
    <3> QED
      BY <3>4, <3>5
  <2> QED
    BY <2>1, <2>2, <1>4
<1>20. NoFailureSwallowed'
  <2>1. ~(outcome = "ok" /\ ~ctxDone)
    BY <1>2 DEF IInv, NoFailureSwallowed
  <2> QED
    BY <2>1, <1>2 DEF NoFailureSwallowed
<1> QED
  BY <1>12, <1>13, <1>14, <1>16, <1>17, <1>18, <1>19, <1>20 DEF IInv


LEMMA ConsumeStep ==
  ASSUME IInv, Consume
  PROVE  IInv'
<1> DEFINE s == out[Bottom]
           ev == Head(s)
<1>1. /\ Bottom \in Stages /\ Stages' = Stages /\ Bottom' = Bottom /\ Bottom \in Nat
      /\ \A j \in Stages : j \in Nat /\ j <= Bottom
      /\ \A j \in Stages : chain[j] = "route" => j = Bottom
      /\ s # <<>> /\ ~ended[Bottom] /\ outcome = "none"
      /\ got' = Append(got, ev) /\ out' = [out EXCEPT ![Bottom] = Tail(s)]
      /\ ended' = [ended EXCEPT ![Bottom] = last[Bottom] /\ Tail(s) = <<>>]
      /\ outcome' \in {"none", "error"} /\ (outcome' = "none" => ev.kind # "error")
      /\ UNCHANGED <<chain, provided, ctxDone, next, last, held, routed>>
      /\ provided \in Seq({"data", "meta", "error"})
  BY Shapes DEF IInv, Consume, Sending, Stages, Bottom
<1>2. /\ ev \in Events /\ Known(ev, provided) /\ ev.n \in Nat
      /\ Tail(s) \in Seq(Events) /\ Sorted(Tail(s), provided)
      /\ held[Bottom] = <<>> /\ Ns(Tail(s)) = At(Bottom) \ {ev.n} /\ Takes(Bottom, ev.n)
  BY <1>1, Sent DEF Events
<1>3. /\ ev = s[1] /\ 1 \in 1..Len(s)
      /\ \A k \in 1..Len(s) : k = 1 \/ (k - 1 \in 1..Len(Tail(s)) /\ Tail(s)[k - 1] = s[k])
      /\ \A k \in 1..Len(Tail(s)) : k + 1 \in 1..Len(s) /\ Tail(s)[k] = s[k + 1]
  BY <1>1, Sent
<1>4. /\ got' \in Seq(Events) /\ Sorted(got', provided) /\ Ns(got)' = Ns(got) \cup ({ev.n} \ {0})
  <2>1. ev.n # 0 => \A m \in Ns(got) : m < ev.n
    BY <1>1, <1>2 DEF IInv, InOrder, Takes
  <2>2. /\ Append(got, ev) \in Seq(Events) /\ Sorted(Append(got, ev), provided)
        /\ Ns(Append(got, ev)) = Ns(got) \cup ({ev.n} \ {0})
    BY <2>1, <1>1, <1>2, AppendSorted DEF IInv, Types, AllSorted
  <2>3. Ns(got)' = Ns(Append(got, ev))
    BY <1>1 DEF Ns
  <2> QED
    BY <2>2, <2>3, <1>1
<1> HIDE DEF ev
<1>5. /\ Len(got) \in Nat /\ Len(got') = Len(got) + 1 /\ got'[Len(got) + 1] = ev
      /\ \A k \in 1..Len(got) : got'[k] = got[k]
      /\ got' # <<>> /\ (got # <<>> => 1 \in 1..Len(got)) /\ (got = <<>> => Len(got) = 0)
  <2>1. got \in Seq(Events)
    BY DEF IInv, Types
  <2>2. /\ Len(got) \in Nat /\ Len(got') = Len(got) + 1 /\ got'[Len(got) + 1] = ev
        /\ \A k \in 1..Len(got) : got'[k] = got[k]
    BY <2>1, <1>1, <1>2, SequenceFacts
  <2> QED
    BY <2>1, <2>2, <1>1
<1>6. /\ out \in [Stages -> Seq(Events)] /\ ended \in [Stages -> BOOLEAN] /\ last \in [Stages -> BOOLEAN]
      /\ out'[Bottom] = Tail(s) /\ (ended'[Bottom] <=> last[Bottom] /\ Tail(s) = <<>>)
      /\ \A j \in Stages : j # Bottom => out'[j] = out[j] /\ ended'[j] = ended[j]
  BY <1>1 DEF IInv, Types
<1> HIDE DEF s
<1>7. Types'
  <2>1. out' \in [Stages -> Seq(Events)] /\ ended' \in [Stages -> BOOLEAN]
    BY <1>1, <1>2, <1>6
  <2> QED
    BY <2>1, <1>1, <1>4 DEF IInv, Types
<1>8. Finishing'
  <2>1. last[Bottom] => Tail(s) # <<>> \/ ended'[Bottom]
    BY <1>6
  <2> QED
    BY <2>1, <1>1, <1>2, <1>6 DEF IInv, Finishing
<1>9. AllSorted'
  BY <1>1, <1>2, <1>4, <1>6 DEF IInv, AllSorted
<1>10. Eats(ev.n)
  <2>1. At(Bottom)' = At(Bottom) \ {ev.n}
    BY <1>1, <1>2, <1>6, Single DEF At
  <2>2. Elsewhere({Bottom})
    BY <1>1, <1>6 DEF Elsewhere, At
  <2> QED
    BY <2>1, <2>2, <1>1, <1>2, <1>4 DEF Eats, Same
<1>11. /\ InOrder' /\ NoGap' /\ \A l \in Stages, k \in Nat : Ahead(k, l) => Ahead(k, l)'
  BY <1>2, <1>10, EatsOrder, EatsGap DEF IInv
<1>12. chain[Bottom] = "route" => routed /\ (ev = Route <=> got = <<>>)
       /\ \A k \in 1..Len(got) : got[k] = Route <=> k = 1
  <2> SUFFICES ASSUME chain[Bottom] = "route"
               PROVE  routed /\ (ev = Route <=> got = <<>>)
                      /\ \A k \in 1..Len(got) : got[k] = Route <=> k = 1
    OBVIOUS
  <2>1. routed
    BY <1>1 DEF IInv, RouteFirst, s
  <2>2. \A k \in 1..Len(s) : s[k] = Route <=> k = 1 /\ got = <<>>
    BY <2>1 DEF IInv, RouteFirst, s
  <2>3. \A k \in 1..Len(got) : got[k] = Route <=> k = 1
    BY <2>1 DEF IInv, RouteFirst
  <2> QED
    BY <2>1, <2>2, <2>3, <1>3
<1>13. Delivered'
  <2> SUFFICES ASSUME NEW k \in 1..Len(got'), NEW m \in Nat \ {0}, m < got'[k].n
               PROVE  Folded(m)' \/ m \in Ns(got)'
    BY DEF Delivered
  <2>1. Folded(m) => Folded(m)'
    BY <1>1, <1>5 DEF Folded
  <2>2. CASE k <= Len(got)
    BY <2>1, <2>2, <1>4, <1>5 DEF IInv, Delivered
  <2>3. CASE k = Len(got) + 1
    <3>1. m < ev.n /\ ev.n \in At(Bottom) /\ m \notin At(Bottom)
      BY <2>3, <1>2, <1>5 DEF Takes
    <3>2. Ahead(m, Bottom)
      <4>1. (\A j \in Stages : Bottom < j => ~last[j]) /\ m \in 1..ev.n-1
        BY <3>1, <1>1, <1>2
      <4> QED
        BY <4>1, <3>1, <1>1 DEF IInv, NoGap
    <3>3. m \in Ns(got) \/ (m = 1 /\ provided[1] = "meta" /\ routed)
      BY <3>1, <3>2, <1>1 DEF Ahead
    <3>4. CASE m = 1 /\ provided[1] = "meta" /\ routed
      <4>1. chain[Bottom] = "route" /\ ev # Route
        BY <3>1, <3>4, Single DEF IInv, RouteFirst
      <4>2. got # <<>> /\ got[1] = Route
        BY <4>1, <1>5, <1>12
      <4> QED
        BY <4>2, <3>4, <2>1 DEF Folded
    <3> QED
      BY <3>3, <3>4, <1>4
  <2> QED
    BY <2>2, <2>3, <1>5
<1>14. RouteFirst'
  <2>1. \A j \in Stages : chain[j] # "route" =>
          (\A k \in 1..Len(out[j]) : out[j][k] # Route) /\ (\A k \in 1..Len(held[j]) : held[j][k] # Route)
    BY DEF IInv, RouteFirst
  <2>2. CASE chain[Bottom] # "route"
    <3>1. \A k \in 1..Len(s) : s[k] # Route
      BY <2>1, <2>2, <1>1 DEF s
    <3>2. \A k \in 1..Len(Tail(s)) : Tail(s)[k] # Route
      BY <3>1, <1>3
    <3>3. \A j \in Stages : out'[j] = out[j] \/ out'[j] = Tail(s)
      BY <1>6
    <3>4. ~routed
      BY <2>2 DEF IInv, RouteFirst
    <3> QED
      BY <3>2, <3>3, <3>4, <2>1, <2>2, <1>1 DEF RouteFirst
  <2>3. CASE chain[Bottom] = "route"
    <3>1. \A k \in 1..Len(got') : got'[k] = Route <=> k = 1
      BY <2>3, <1>5, <1>12
    <3>2. \A k \in 1..Len(s) : s[k] = Route => k = 1
      BY <2>3, <1>12 DEF IInv, RouteFirst, s
    <3>3. \A k \in 1..Len(Tail(s)) : Tail(s)[k] # Route
      BY <3>2, <1>3
    <3>4. \A j \in Stages : chain[j] # "route" => out'[j] = out[j]
      BY <2>3, <1>6
    <3>5. /\ routed' /\ got' # <<>> /\ chain' = chain /\ out'[Bottom] = Tail(s)
          /\ Stages' = Stages /\ Bottom' = Bottom /\ held' = held
      BY <2>3, <1>1, <1>5, <1>6, <1>12
    <3>6. \A k \in 1..Len(out'[Bottom]) : out'[Bottom][k] = Route <=> k = 1 /\ got' = <<>>
      BY <3>3, <3>5
    <3>7. \A j \in Stages : chain[j] # "route" =>
            (\A k \in 1..Len(out'[j]) : out'[j][k] # Route) /\ (\A k \in 1..Len(held[j]) : held[j][k] # Route)
      BY <3>4, <2>1
    <3> QED
      BY <3>1, <3>5, <3>6, <3>7, <2>3 DEF RouteFirst
  <2> QED
    BY <2>2, <2>3
<1>15. Alarmed'
  <2> SUFFICES ASSUME ~ctxDone, outcome' = "none"
               PROVE  /\ \A j \in Stages : last[j] /\ ~Pending(j)' =>
                           /\ next = Len(provided) + 1
                           /\ \A k \in 1..j-1 : ended'[k]
                      /\ ~Pending(1)' => \A m \in 1..next-1 : Ahead(m, 1)'
    BY <1>1 DEF Alarmed
  <2>1. ev # Failed
    BY <1>1, Single
  <2>2. ASSUME NEW j \in Stages, Pending(j)
        PROVE  Pending(j)'
    <3>1. PICK l \in Stages : j <= l /\ \E k \in 1..Len(out[l]) : out[l][k] = Failed
      BY <2>2 DEF Pending
    <3>2. PICK k \in 1..Len(out[l]) : out[l][k] = Failed
      BY <3>1
    <3>3. CASE l = Bottom
      <4>1. \E m \in 1..Len(Tail(s)) : Tail(s)[m] = Failed
        BY <3>2, <3>3, <2>1, <1>3 DEF s
      <4>2. \E m \in 1..Len(out'[l]) : out'[l][m] = Failed
        BY <4>1, <3>3, <1>6
      <4> QED
        BY <4>2, <3>1, <1>1 DEF Pending
    <3>4. CASE l # Bottom
      <4>1. out'[l] = out[l]
        BY <3>4, <1>6
      <4> QED
        BY <4>1, <3>1, <1>1 DEF Pending
    <3> QED
      BY <3>3, <3>4
  <2>3. \A j \in Stages : ended[j] => ended'[j]
    BY <1>1, <1>6
  <2>4. ASSUME ~Pending(1)', NEW m \in 1..next-1
        PROVE  Ahead(m, 1)'
    <3>1. Ahead(m, 1) /\ 1 \in Stages /\ m \in Nat
      BY <2>2, <2>4, <1>1, Shapes DEF IInv, Alarmed, Types
    <3> QED
      BY <3>1, <1>11
  <2>5. ASSUME NEW j \in Stages, last[j], ~Pending(j)'
        PROVE  next = Len(provided) + 1 /\ \A k \in 1..j-1 : ended'[k]
    <3>1. next = Len(provided) + 1 /\ \A k \in 1..j-1 : ended[k]
      BY <2>2, <2>5, <1>1 DEF IInv, Alarmed
    <3>2. \A k \in 1..j-1 : k \in Stages
      BY <1>1 DEF Stages
    <3> QED
      BY <3>1, <3>2, <2>3
  <2> QED
    BY <2>4, <2>5
<1>16. NoFailureSwallowed'
  BY <1>1 DEF NoFailureSwallowed
<1> QED
  BY <1>7, <1>8, <1>9, <1>11, <1>13, <1>14, <1>15, <1>16 DEF IInv

-----------------------------------------------------------------------------
\* A step that leaves the events where they are.
LEMMA OutsideStep ==
  ASSUME IInv, UNCHANGED <<chain, provided, next, stageVars, got>>,
         ctxDone' \in BOOLEAN, ctxDone => ctxDone',
         outcome' \in {"none", "ok", "error", "ctx"}, outcome' = "none" => outcome = "none",
         NoFailureSwallowed'
  PROVE  IInv'
<1> USE DEF IInv, stageVars
<1>1. Types' /\ Finishing' /\ AllSorted'
  BY DEF Types, Finishing, AllSorted, Stages
<1>2. InOrder' /\ NoGap'
  BY DEF InOrder, NoGap, Ahead, At, Ns, Stages
<1>3. Delivered'
  BY DEF Delivered, Folded, Ns
<1>4. RouteFirst'
  BY DEF RouteFirst, Stages, Bottom
<1>5. Alarmed'
  BY DEF Alarmed, Pending, Ahead, At, Ns, Stages
<1> QED
  BY <1>1, <1>2, <1>3, <1>4, <1>5

LEMMA EndStep ==
  ASSUME IInv, ConsumeEnd
  PROVE  IInv'
<1>1. /\ outcome = "none" /\ ended[Bottom] /\ outcome' \in {"ok", "error"}
      /\ UNCHANGED <<chain, provided, ctxDone, next, stageVars, got>>
      /\ Bottom \in Stages /\ 1 \in Stages
      /\ \A j \in Stages : j \in Nat /\ j <= Bottom /\ (j = Bottom \/ j \in 1..Bottom-1)
  BY Shapes DEF IInv, ConsumeEnd, Stages, Bottom
<1>2. CASE ~ctxDone
  <2>1. /\ \A j \in Stages : ended[j] => last[j] /\ out[j] = <<>> /\ held[j] = <<>>
        /\ ~Pending(Bottom)
    BY <1>1 DEF IInv, Finishing, Pending
  <2>2. next = Len(provided) + 1 /\ \A j \in Stages : ended[j]
    BY <2>1, <1>1, <1>2 DEF IInv, Alarmed
  <2>3. ~Pending(1) /\ \A j \in Stages : At(j) = {}
    BY <2>1, <2>2, Single DEF Pending, At
  <2>4. ASSUME NEW n \in 1..Len(provided)
        PROVE  Folded(n) \/ \E k \in 1..Len(got) : got[k].n = n
    <3>1. Ahead(n, 1)
      BY <2>2, <2>3, <2>4, <1>1, <1>2, Shapes DEF IInv, Alarmed
    <3>2. CASE n \in Ns(got)
      BY <3>2 DEF Ns
    <3>3. CASE n = 1 /\ provided[1] = "meta" /\ routed
      <4>1. chain[Bottom] = "route"
        BY <3>3 DEF IInv, RouteFirst
      <4>2. got # <<>>
        BY <4>1, <3>3, <2>1, <2>2, <1>1, <1>2 DEF IInv, RouteFirst
      <4>3. \A k \in 1..Len(got) : got[k] = Route <=> k = 1
        BY <4>1, <3>3 DEF IInv, RouteFirst
      <4>4. 1 \in 1..Len(got)
        BY <4>2 DEF IInv, Types
      <4> QED
        BY <4>2, <4>3, <4>4, <3>3 DEF Folded
    <3> QED
      BY <3>1, <3>2, <3>3, <2>3 DEF Ahead
  <2>5. NoFailureSwallowed'
    BY <2>2, <2>4, <1>1 DEF NoFailureSwallowed, Folded, Stages, stageVars
  <2> QED
    BY <2>5, <1>1, OutsideStep DEF IInv, Types
<1>3. CASE ctxDone
  <2>1. NoFailureSwallowed'
    BY <1>1, <1>3 DEF NoFailureSwallowed
  <2> QED
    BY <2>1, <1>1, OutsideStep DEF IInv, Types
<1> QED
  BY <1>2, <1>3

LEMMA OtherSteps ==
  ASSUME IInv, ConsumeInterrupted \/ Cancel \/ UNCHANGED vars
  PROVE  IInv'
<1>1. CASE ConsumeInterrupted
  <2>1. NoFailureSwallowed'
    BY <1>1 DEF ConsumeInterrupted, NoFailureSwallowed
  <2> QED
    BY <2>1, <1>1, OutsideStep DEF ConsumeInterrupted, IInv, Types
<1>2. CASE Cancel
  <2>1. NoFailureSwallowed'
    BY <1>2 DEF Cancel, NoFailureSwallowed
  <2> QED
    BY <2>1, <1>2, OutsideStep DEF Cancel, IInv, Types
<1>3. CASE UNCHANGED vars
  <2>1. NoFailureSwallowed'
    BY <1>3 DEF vars, stageVars, IInv, NoFailureSwallowed, Folded, Stages
  <2> QED
    BY <2>1, <1>3, OutsideStep DEF vars, IInv, Types
<1> QED
  BY <1>1, <1>2, <1>3

LEMMA InitIInv ==
  ASSUME Init
  PROVE  IInv
<1> USE DEF Init
<1>1. /\ \A i \in Stages : out[i] \in {<<>>, <<Warning>>} /\ held[i] = <<>> /\ ~last[i] /\ ~ended[i]
      /\ \A i \in Stages : chain[i] = "route" => out[i] = <<>>
  OBVIOUS
<1>2. Types
  <2>1. Warning \in Events
    BY DEF Warning, Event, Events
  <2>2. <<Warning>> \in Seq(Events) /\ <<>> \in Seq(Events)
    BY <2>1
  <2>3. out \in [Stages -> Seq(Events)]
    BY <2>2
  <2>4. provided \in Seq({"data", "meta", "error"}) /\ next \in 1..Len(provided) + 1
    BY StreamAssumption
  <2> QED
    BY <2>2, <2>3, <2>4 DEF Types
<1>3. /\ Len(<<>>) = 0 /\ Len(<<Warning>>) = 1 /\ <<Warning>>[1] = Warning
      /\ Warning.n = 0 /\ Warning # Route /\ <<Warning>> # <<>>
  BY DEF Warning, Route, Event
<1>4. Ns(<<>>) = {} /\ Ns(<<Warning>>) = {}
  BY <1>3 DEF Ns
<1>5. Finishing
  BY <1>1, <1>3 DEF Finishing
<1>6. AllSorted
  <2>1. \A s : s \in {<<>>, <<Warning>>} => Sorted(s, provided)
    BY <1>3 DEF Sorted, Known
  <2> QED
    BY <2>1, <1>1 DEF AllSorted
<1>7. \A i \in Stages : At(i) = {}
  BY <1>1, <1>4 DEF At
<1>8. InOrder /\ NoGap
  BY <1>4, <1>7 DEF InOrder, NoGap
<1>9. Delivered
  BY <1>3 DEF Delivered
<1>10. RouteFirst
  BY <1>1, <1>2, <1>3, Shapes DEF RouteFirst
<1>11. Alarmed /\ NoFailureSwallowed
  BY <1>1 DEF Alarmed, NoFailureSwallowed
<1> QED
  BY <1>2, <1>5, <1>6, <1>8, <1>9, <1>10, <1>11 DEF IInv

LEMMA StepIInv ==
  ASSUME IInv, Next
  PROVE  IInv'
<1>1. CASE ReadEvent
  BY <1>1, ReadStep
<1>2. CASE ReadEnds \/ ReadFails
  BY <1>2, QuitSteps, QuitStep, Shapes DEF IInv
<1>3. ASSUME NEW i \in Stages, Transfer(i)
      PROVE  IInv'
  BY <1>3, TransferStep
<1>4. ASSUME NEW i \in Stages, InputEnds(i) \/ Interrupted(i) \/ SendInterrupted(i)
      PROVE  IInv'
  BY <1>4, QuitSteps, QuitStep
<1>5. CASE Consumer
  BY <1>5, ConsumeStep, EndStep, OtherSteps DEF Consumer
<1>6. CASE Cancel \/ Terminated
  BY <1>6, OtherSteps DEF Terminated
<1> QED
  BY <1>1, <1>2, <1>3, <1>4, <1>5, <1>6 DEF Next, Read, Relay

-----------------------------------------------------------------------------
(***************************************************************************)
(* Every chain of stages that a request goes through, whatever its         *)
(* transport delivers, keeps to the places the events have in it.          *)
(***************************************************************************)
THEOREM StreamInvariant == FairSpec => []IInv
<1>1. Init => IInv
  BY InitIInv
<1>2. IInv /\ [Next]_vars => IInv'
  BY StepIInv, OtherSteps
<1> QED
  BY <1>1, <1>2, PTL DEF FairSpec

(***************************************************************************)
(* The consumer receives the provider's events in order, each once and     *)
(* none left out, and behind a mux client the route event first.           *)
(***************************************************************************)
THEOREM InOrderSafe == FairSpec => []DeliveredInOrder
<1>1. ASSUME IInv
      PROVE  DeliveredInOrder
  <2>1. ASSUME NEW k \in 1..Len(got), got[k].n # 0
        PROVE  /\ got[k] = FromProvider(got[k].n)
               /\ \A j \in 1..k-1 : got[j].n < got[k].n
               /\ \A n \in 1..got[k].n - 1 : Folded(n) \/ \E j \in 1..k-1 : got[j].n = n
    <3>1. /\ \A j \in 1..Len(got) : Known(got[j], provided)
          /\ \A j, m \in 1..Len(got) : j < m /\ got[m].n # 0 => got[j].n < got[m].n
          /\ provided \in Seq({"data", "meta", "error"})
      BY <1>1, Shapes DEF IInv, AllSorted, Sorted
    <3>2. \A j \in 1..Len(got) : got[j].n \in Nat
      <4>1. \A j \in 1..Len(got) : got[j] \in Events
        BY <1>1 DEF IInv, Types
      <4> QED
        BY <4>1 DEF Events
    <3>3. got[k] = FromProvider(got[k].n)
      BY <2>1, <3>1, KnownFacts DEF FromProvider
    <3>4. \A j \in 1..k-1 : got[j].n < got[k].n
      BY <2>1, <3>1
    <3>5. ASSUME NEW n \in 1..got[k].n - 1, ~Folded(n)
          PROVE  \E j \in 1..k-1 : got[j].n = n
      <4>1. PICK j \in 1..Len(got) : got[j].n = n
        BY <1>1, <3>2, <3>5 DEF IInv, Delivered, Ns
      <4>2. j < k
        BY <4>1, <3>1, <3>2, <3>5
      <4> QED
        BY <4>1, <4>2
    <3> QED
      BY <3>3, <3>4, <3>5
  <2>2. ASSUME NEW i \in Stages, chain[i] = "route"
        PROVE  \A k \in 1..Len(got) : got[k] = Route <=> k = 1
    <3>1. chain[Bottom] = "route"
      BY <1>1, <2>2, Shapes DEF IInv
    <3>2. routed => \A k \in 1..Len(got) : got[k] = Route <=> k = 1
      BY <3>1, <1>1 DEF IInv, RouteFirst
    <3>3. ~routed => got = <<>>
      BY <3>1, <1>1 DEF IInv, RouteFirst
    <3> QED
      BY <3>2, <3>3
  <2> QED
    BY <2>1, <2>2 DEF DeliveredInOrder
<1> QED
  BY <1>1, StreamInvariant, PTL

(***************************************************************************)
(* A stream that ends as a success while its context lasts was delivered   *)
(* to the last event, and all goroutines of its chain have returned.       *)
(***************************************************************************)
THEOREM FailuresReach == FairSpec => []NoFailureSwallowed
<1>1. IInv => NoFailureSwallowed
  BY DEF IInv
<1> QED
  BY <1>1, StreamInvariant, PTL

=============================================================================
