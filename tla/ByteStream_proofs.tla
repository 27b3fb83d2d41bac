-------------------------- MODULE ByteStream_proofs ---------------------------
(***************************************************************************)
(* The retries of an attempt to open a stream, whatever the durations; the *)
(* messages of a WebSocket, whatever the server sends and however often    *)
(* Recv is interrupted; and the frames of a body, whatever bytes it has.   *)
(***************************************************************************)
EXTENDS ByteStream, FiniteSetTheorems, TLAPS, WellFoundedInduction

\* The loop of RetryTransport.Open: how many attempts there were, and what it keeps.
Smaller(a, b) == IF a < b THEN a ELSE b

Retried ==
  /\ offered
  /\ Retries <= MaxRetries + 1
  /\ \A i \in 1..Retries : i < Retries \/ pc \in {"open", "backoff"} => failures[i].retryable
  /\ pc \in {"open", "backoff"} => backoff = Smaller(Doubled[attempt], MaxBackoff)
  /\ pc = "open" => Retries = attempt
  /\ pc = "backoff" =>
       /\ Retries = attempt + 1 /\ attempt < MaxRetries
       /\ delay = RetryDelay(failures[Retries].after, backoff)

\* The places of the texts, where they are: with the caller, in readCh, with the pump.
Texts == {i \in 1..Len(sent) : sent[i] = "text"}
Got == {got[k] : k \in 1..Len(got)}
TextsOf(reads) == {reads[k].n : k \in {j \in 1..Len(reads) : reads[j].kind = "text"}}
InHand == IF inHand.kind = "text" THEN {inHand.n} ELSE {}
Taken == Len(sent) + 1 - Len(wire)

OfSent(read) == IsMessage(read) => read.n \in 1..Len(sent) /\ sent[read.n] = read.kind

\* The wire is the rest of what is sent, and the end.
WireIsRest ==
  /\ \A i \in 1..Len(wire) - 1 : wire[i] = sent[Taken + i]
  /\ wire # <<>> => wire[Len(wire)] \in {"normal", "abnormal"}

\* The pump ends behind an error, which it has read at the end of the wire or after Close.
PumpEnds ==
  /\ OfSent(inHand) /\ \A k \in 1..Len(readCh) : OfSent(readCh[k])
  /\ \A k \in 1..Len(readCh) : IsMessage(readCh[k]) \/ (k = Len(readCh) /\ pump = "ended")
  /\ pump # "send" => inHand = NoRead
  /\ pump = "send" => inHand.kind # "none"
  /\ inHand.kind = "broken" => done
  /\ inHand.kind \in {"normal", "abnormal"} \/ pump = "ended" => wire = <<>> \/ done

\* A text is behind the ones that are nearer to the caller, ...
TextsSorted ==
  /\ Got \subseteq Texts
  /\ \A j, k \in 1..Len(got) : j < k => got[j] < got[k]
  /\ \A j, k \in 1..Len(readCh) :
       j < k /\ readCh[j].kind = "text" /\ readCh[k].kind = "text" => readCh[j].n < readCh[k].n
  /\ \A n \in Got, m \in TextsOf(readCh) : n < m
  /\ \A n \in Got \cup TextsOf(readCh), m \in InHand : n < m
  /\ \A n \in Got \cup TextsOf(readCh) \cup InHand : n <= Taken

\* ... and none before it is missing.
NoTextMissing ==
  /\ \A i \in Texts, n \in Got : i < n => i \in Got
  /\ \A i \in Texts, n \in TextsOf(readCh) : i < n => i \in Got \cup TextsOf(readCh)
  /\ pump # "ended" \/ ~done => \A i \in Texts : i <= Taken => i \in Got \cup TextsOf(readCh) \cup InHand
  /\ result = "eof" => done \/ Texts \subseteq Got

Ordered == kind = "ws" => WireIsRest /\ PumpEnds /\ TextsSorted /\ NoTextMissing

-----------------------------------------------------------------------------
LEMMA LeastNumber ==
  ASSUME NEW T \in SUBSET Nat, T # {}
  PROVE  \E x \in T : \A y \in T : x <= y
<1>1. IsWellFoundedOn(OpToRel(<, Nat), Nat)
  BY NatLessThanWellFounded
<1>2. PICK x \in T : \A y \in T : ~ (<<y, x>> \in OpToRel(<, Nat))
  BY <1>1, WFMin
<1>3. \A y \in T : ~ (<<y, x>> \in {ss \in Nat \X Nat : ss[1] < ss[2]})
  BY <1>2, Zenon DEF OpToRel
<1>4. \A y \in T : ~ (y < x)
  <2>1. TAKE y \in T
  <2> DEFINE p == <<y, x>>
  <2>2. p \in Nat \X Nat /\ p[1] = y /\ p[2] = x
    OBVIOUS
  <2>3. p \notin {ss \in Nat \X Nat : ss[1] < ss[2]}
    BY <1>3
  <2> HIDE DEF p
  <2> QED
    BY <2>2, <2>3
<1> QED
  BY <1>4

LEMMA Induction ==
  ASSUME NEW T \in SUBSET Nat, 0 \in T, \A n \in T : n + 1 \in T
  PROVE  T = Nat
<1>1. SUFFICES ASSUME Nat \ T # {} PROVE FALSE
  OBVIOUS
<1>2. PICK x \in Nat \ T : \A y \in Nat \ T : x <= y
  BY <1>1, LeastNumber
<1>3. x # 0 /\ x - 1 \in Nat /\ x - 1 \in T
  BY <1>2
<1> QED
  BY <1>2, <1>3

-----------------------------------------------------------------------------
\* The first k + 1 values of Doubled.
Doubles(f, k) == f = [i \in 0..k |-> IF i = 0 THEN InitialBackoff ELSE 2 * f[i - 1]]

LEMMA DoublesAgree ==
  ASSUME NEW k \in Nat, NEW m \in Nat, NEW f, NEW g, Doubles(f, k), Doubles(g, m)
  PROVE  \A i \in 0..k : i <= m => f[i] = g[i]
<1> DEFINE T == {i \in Nat : i <= k /\ i <= m => f[i] = g[i]}
<1>1. 0 \in T
  BY DEF Doubles
<1>2. ASSUME NEW i \in T PROVE i + 1 \in T
  BY DEF Doubles
<1> HIDE DEF T
<1>3. T = Nat
  BY <1>1, <1>2, Induction DEF T
<1> QED
  BY <1>3 DEF T

LEMMA DoublesExist == \A k \in Nat : \E f : Doubles(f, k)
<1> DEFINE T == {k \in Nat : \E f : Doubles(f, k)}
<1>1. 0 \in T
  <2>1. Doubles([i \in 0..0 |-> InitialBackoff], 0)
    BY DEF Doubles
  <2> QED
    BY <2>1
<1>2. ASSUME NEW k \in T PROVE k + 1 \in T
  <2>1. PICK f : Doubles(f, k)
    OBVIOUS
  <2> DEFINE g == [i \in 0..(k + 1) |-> IF i = 0 THEN InitialBackoff ELSE 2 * f[i - 1]]
  <2>2. \A i \in 0..k : g[i] = f[i]
    BY <2>1 DEF Doubles
  <2>3. \A i \in 0..(k + 1) : g[i] = IF i = 0 THEN InitialBackoff ELSE 2 * g[i - 1]
    <3>1. k \in Nat
      OBVIOUS
    <3>2. TAKE i \in 0..(k + 1)
    <3>3. i # 0 => i - 1 \in 0..k
      BY <3>1
    <3>4. g[i] = IF i = 0 THEN InitialBackoff ELSE 2 * f[i - 1]
      OBVIOUS
    <3> HIDE DEF g
    <3> QED
      BY <3>3, <3>4, <2>2
  <2>4. Doubles(g, k + 1)
    BY <2>3 DEF Doubles
  <2> QED
    BY <2>4
<1> HIDE DEF T
<1>3. T = Nat
  BY <1>1, <1>2, Induction DEF T
<1> QED
  BY <1>3 DEF T

LEMMA DoubledIs ==
  \A n \in Nat : Doubled[n] = IF n = 0 THEN InitialBackoff ELSE 2 * Doubled[n - 1]
<1> DEFINE F(k) == CHOOSE f : Doubles(f, k)
           D == [n \in Nat |-> F(n)[n]]
<1>1. \A k \in Nat : Doubles(F(k), k)
  BY DoublesExist
<1> HIDE DEF F
<1>2. \A n \in Nat : D[n] = IF n = 0 THEN InitialBackoff ELSE 2 * D[n - 1]
  <2> TAKE n \in Nat
  <2>1. CASE n = 0
    BY <2>1, <1>1 DEF Doubles
  <2>2. CASE n # 0
    <3>1. F(n)[n] = 2 * F(n)[n - 1]
      BY <1>1, <2>2 DEF Doubles
    <3>2. F(n)[n - 1] = F(n - 1)[n - 1]
      BY <1>1, <2>2, DoublesAgree
    <3> QED
      BY <3>1, <3>2, <2>2
  <2> QED
    BY <2>1, <2>2
<1>3. D = [n \in Nat |-> IF n = 0 THEN InitialBackoff ELSE 2 * D[n - 1]]
  BY <1>2
<1>4. Doubled = [n \in Nat |-> IF n = 0 THEN InitialBackoff ELSE 2 * Doubled[n - 1]]
  BY <1>3 DEF Doubled
<1> QED
  BY <1>4

LEMMA DoubledNat == \A n \in Nat : Doubled[n] \in Nat
<1> DEFINE T == {n \in Nat : Doubled[n] \in Nat}
<1>1. 0 \in T
  BY DoubledIs, StreamConfig
<1>2. ASSUME NEW n \in T PROVE n + 1 \in T
  BY DoubledIs
<1> HIDE DEF T
<1>3. T = Nat
  BY <1>1, <1>2, Induction DEF T
<1> QED
  BY <1>3 DEF T

-----------------------------------------------------------------------------
LEMMA Remainder ==
  ASSUME NEW m \in Nat \ {0}
  PROVE  /\ \A n \in Int : n % m \in 0..(m - 1)
         /\ \A n \in 0..(m - 1) : n % m = n
OBVIOUS

LEMMA WrappedIs ==
  /\ \A n \in Int : Wrapped(n) \in -(MaxDuration + 1)..MaxDuration
  /\ \A n \in 0..MaxDuration : Wrapped(n) = n
<1> DEFINE m == 2 * (MaxDuration + 1)
<1>1. m \in Nat \ {0} /\ MaxDuration \in Nat
  BY StreamConfig
<1> HIDE DEF m
<1>2. \A n \in Int : Wrapped(n) = ((n + MaxDuration + 1) % m) - (MaxDuration + 1)
  BY DEF Wrapped, m
<1>3. ASSUME NEW n \in Int PROVE Wrapped(n) \in -(MaxDuration + 1)..MaxDuration
  <2> DEFINE q == (n + MaxDuration + 1) % m
  <2>1. q \in 0..(m - 1) /\ Wrapped(n) = q - (MaxDuration + 1)
    BY <1>1, <1>2, Remainder
  <2> HIDE DEF q
  <2> QED
    BY <2>1, <1>1 DEF m
<1>4. ASSUME NEW n \in 0..MaxDuration PROVE Wrapped(n) = n
  <2> DEFINE q == (n + MaxDuration + 1) % m
  <2>1. n \in Int /\ n + MaxDuration + 1 \in 0..(m - 1)
    BY <1>1 DEF m
  <2>2. q = n + MaxDuration + 1 /\ Wrapped(n) = q - (MaxDuration + 1)
    BY <2>1, <1>1, <1>2, Remainder
  <2> HIDE DEF q
  <2> QED
    BY <2>1, <2>2, <1>1
<1> QED
  BY <1>3, <1>4

LEMMA DelayIs ==
  ASSUME NEW seconds \in RetryAfters, NEW b \in 1..MaxBackoff
  PROVE  /\ RetryDelay(seconds, b) \in 1..MaxDuration
         /\ seconds * Second \in 1..MaxDuration => RetryDelay(seconds, b) = seconds * Second
         /\ seconds * Second = 0 => RetryDelay(seconds, b) = b
<1> DEFINE asked == seconds * Second
<1>1. asked \in Nat /\ MaxDuration \in Nat /\ b \in 1..MaxDuration
  BY StreamConfig
<1>2. RetryDelay(seconds, b) = IF Wrapped(asked) > 0 THEN Wrapped(asked) ELSE b
  BY DEF RetryDelay, RetryAfter
<1> HIDE DEF asked
<1>3. Wrapped(asked) \in -(MaxDuration + 1)..MaxDuration
      /\ (asked \in 0..MaxDuration => Wrapped(asked) = asked)
  BY <1>1, WrappedIs
<1>4. /\ RetryDelay(seconds, b) \in 1..MaxDuration
      /\ asked \in 1..MaxDuration => RetryDelay(seconds, b) = asked
      /\ asked = 0 => RetryDelay(seconds, b) = b
  BY <1>1, <1>2, <1>3
<1> QED
  BY <1>4 DEF asked
-----------------------------------------------------------------------------
Readers == [line : Nat, block : Seq(Nat), cr : BOOLEAN, end : {"none", "eof", "failed"}]
Cuts == [reader : Readers, frames : Seq(Frames)]

LEMMA LineEndTyped ==
  ASSUME NEW r \in Readers
  PROVE  EndLine(r) \in Cuts
<1>1. r.line \in Nat /\ r.block \in Seq(Nat)
  BY DEF Readers
<1>2. Append(r.block, r.line) \in Seq(Nat)
  BY <1>1
<1>3. [r EXCEPT !.line = 0, !.block = Append(@, r.line)] \in Readers
  <2> DEFINE grown == Append(r.block, r.line)
  <2>1. grown \in Seq(Nat)
    BY <1>2
  <2>2. [r EXCEPT !.line = 0, !.block = Append(@, r.line)] = [r EXCEPT !.line = 0, !.block = grown]
    OBVIOUS
  <2> HIDE DEF grown
  <2>3. [r EXCEPT !.line = 0, !.block = grown] \in Readers
    BY <2>1 DEF Readers
  <2> QED
    BY <2>2, <2>3
<1>4. [r EXCEPT !.block = <<>>] \in Readers
  <2>1. \A b \in Seq(Nat) : [r EXCEPT !.block = b] \in Readers
    BY DEF Readers
  <2>2. <<>> \in Seq(Nat)
    OBVIOUS
  <2> QED
    BY <2>1, <2>2
<1>5. <<r.block>> \in Seq(Frames) /\ <<>> \in Seq(Frames)
  BY <1>1 DEF Frames
<1> QED
  BY <1>3, <1>4, <1>5 DEF EndLine, Cut, Cuts

LEMMA FedTyped ==
  ASSUME TypeOK, NEW b \in {"x", "CR", "LF"}
  PROVE  Fed(b) \in Cuts
<1>1. reader \in Readers /\ <<>> \in Seq(Frames)
  BY DEF TypeOK, Readers
<1>2. \A r \in Readers : [r EXCEPT !.line = @ + 1] \in Readers /\ [r EXCEPT !.line = 0] \in Readers
  BY DEF Readers
<1>3. \A r \in Readers : [r EXCEPT !.cr = TRUE] \in Readers /\ [r EXCEPT !.cr = FALSE] \in Readers
  BY DEF Readers
<1>4. FedSSE(reader, b) \in Cuts
  <2> DEFINE before == IF reader.cr THEN EndLine([reader EXCEPT !.cr = FALSE]) ELSE Cut(reader, <<>>)
  <2>1. before \in Cuts
    BY <1>1, <1>3, LineEndTyped DEF Cuts, Cut
  <2>2. before.reader \in Readers /\ before.frames \in Seq(Frames)
    BY <2>1 DEF Cuts
  <2>3. EndLine(before.reader) \in Cuts
    BY <2>2, LineEndTyped
  <2>4. /\ Cut([before.reader EXCEPT !.cr = TRUE], before.frames) \in Cuts
        /\ Cut([before.reader EXCEPT !.line = @ + 1], before.frames) \in Cuts
    BY <2>2, <1>2, <1>3 DEF Cut, Cuts
  <2>5. FedSSE(reader, b) \in {before, EndLine(before.reader),
                               Cut([before.reader EXCEPT !.cr = TRUE], before.frames),
                               Cut([before.reader EXCEPT !.line = @ + 1], before.frames)}
    BY DEF FedSSE
  <2> QED
    BY <2>1, <2>3, <2>4, <2>5
<1>5. FedNDJSON(reader, b) \in Cuts
  <2>1. <<reader.line>> \in Frames
    BY <1>1 DEF Readers, Frames
  <2>2. <<<<reader.line>>>> \in Seq(Frames)
    BY <2>1
  <2> QED
    BY <2>2, <1>1, <1>2 DEF FedNDJSON, Cut, Cuts
<1>6. FedRaw(reader, b) \in Cuts
  BY <1>1, <1>2 DEF FedRaw, Cut, Cuts
<1> QED
  BY <1>4, <1>5, <1>6 DEF Fed

LEMMA FlushedTyped ==
  ASSUME TypeOK
  PROVE  Flushed \in Seq(Frames) /\ FlushedByFailure \in Seq(Frames)
<1>1. reader \in Readers /\ <<>> \in Seq(Frames)
  BY DEF TypeOK, Readers
<1> DEFINE ended == IF reader.cr THEN EndLine(reader) ELSE Cut(reader, <<>>)
           r == ended.reader
           n == Len(r.block)
<1>2. ended \in Cuts /\ EndLine(reader) \in Cuts
  BY <1>1, LineEndTyped DEF Cuts, Cut
<1>3. ended.reader \in Readers /\ ended.frames \in Seq(Frames) /\ EndLine(reader).frames \in Seq(Frames)
  BY <1>2 DEF Cuts
<1>4. r.block \in Seq(Nat) /\ r.line \in Nat
  BY <1>3 DEF Readers
<1>5. n > 0 => [r.block EXCEPT ![n] = @ + r.line] \in Frames
  <2>1. \A s \in Seq(Nat), x \in Nat : Len(s) > 0 => [s EXCEPT ![Len(s)] = @ + x] \in Seq(Nat)
    OBVIOUS
  <2> QED
    BY <2>1, <1>4 DEF Frames
<1>6. n > 0 => <<[r.block EXCEPT ![n] = @ + r.line]>> \in Seq(Frames)
  BY <1>5
<1>7. <<r.line>> \in Frames /\ <<reader.line>> \in Frames
  BY <1>1, <1>4 DEF Frames, Readers
<1>8. <<<<r.line>>>> \in Seq(Frames) /\ <<<<reader.line>>>> \in Seq(Frames)
  BY <1>7
<1>9. Flushed \in {ended.frames, <<<<r.line>>>>, <<>>}
         \cup (IF n > 0 THEN {<<[r.block EXCEPT ![n] = @ + r.line]>>} ELSE {})
  BY DEF Flushed
<1>10. FlushedByFailure \in Seq(Frames)
  BY <1>1, <1>3, <1>8 DEF FlushedByFailure
<1> HIDE DEF n, r, ended
<1>11. Flushed \in Seq(Frames)
  BY <1>1, <1>3, <1>6, <1>8, <1>9
<1> QED
  BY <1>10, <1>11

LEMMA NewReaders ==
  \A end \in {"eof", "failed"} : [NewReader EXCEPT !.end = end] \in Readers
<1>1. <<>> \in Seq(Nat) /\ 0 \in Nat
  OBVIOUS
<1> QED
  BY <1>1 DEF NewReader, Readers

\* What the pump is to send has the place of the message in sent, or the one behind them.
LEMMA Numbered ==
  ASSUME TypeOK, wire # <<>>, Head(wire) # "ping"
  PROVE  [kind |-> Head(wire), n |-> Len(sent) + 2 - Len(wire)] \in Reads
BY DEF TypeOK, Reads

LEMMA TailFacts ==
  ASSUME NEW S, NEW s \in Seq(S), s # <<>>
  PROVE  Tail(s) \in Seq(S) /\ (Tail(s) = <<>> <=> Len(s) = 1)
<1>1. Tail(s) \in Seq(S) /\ Len(Tail(s)) = Len(s) - 1 /\ Len(s) \in Nat
  OBVIOUS
<1>2. \A t \in Seq(S) : t = <<>> <=> Len(t) = 0
  OBVIOUS
<1> DEFINE t == Tail(s)
<1>3. t \in Seq(S) /\ Len(t) = Len(s) - 1 /\ Len(s) \in Nat
  BY <1>1
<1> HIDE DEF t
<1>4. t = <<>> <=> Len(s) = 1
  BY <1>2, <1>3
<1> QED
  BY <1>3, <1>4 DEF t

LEMMA ElementFacts ==
  ASSUME NEW S, NEW s \in Seq(S), NEW k \in 1..Len(s)
  PROVE  s[k] \in S
OBVIOUS

LEMMA SequenceFacts ==
  ASSUME NEW S, NEW s \in Seq(S), NEW e \in S
  PROVE  /\ Len(s) \in Nat /\ \A k \in 1..Len(s) : s[k] \in S
         /\ s # <<>> => /\ Len(s) # 0 /\ Head(s) = s[1] /\ Tail(s) \in Seq(S)
                        /\ Len(Tail(s)) = Len(s) - 1
                        /\ \A k \in 1..Len(s) - 1 : Tail(s)[k] = s[k + 1]
         /\ Append(s, e) \in Seq(S) /\ Len(Append(s, e)) = Len(s) + 1
         /\ \A k \in 1..Len(s) : Append(s, e)[k] = s[k]
         /\ Append(s, e)[Len(s) + 1] = e
OBVIOUS

-----------------------------------------------------------------------------
LEMMA TypesInit == Init => TypeOK
<1> SUFFICES ASSUME Init PROVE TypeOK
  OBVIOUS
<1>1. /\ kind \in Kinds /\ ctxDone \in BOOLEAN /\ done \in BOOLEAN /\ offered \in BOOLEAN
      /\ pc \in {"open", "backoff", "recv", "idle", "failed"}
      /\ result \in {"none", "frame", "eof", "error", "ctx"}
      /\ format \in {"sse", "ndjson", "raw"}
      /\ pump \in {"read", "send", "ended"} /\ pongs \in Nat
  BY DEF Init
<1>2. attempt \in 0..MaxRetries /\ delay \in 0..MaxDuration /\ backoff \in 1..MaxBackoff
  BY StreamConfig DEF Init
<1>3. got \in IF kind = "ws" THEN Seq(Nat) ELSE Seq(Frames)
  BY DEF Init
<1>4. /\ failures \in Seq([after : RetryAfters, retryable : BOOLEAN])
      /\ bytes \in Seq({"x", "CR", "LF"}) /\ readCh \in Seq(Reads)
  BY DEF Init
<1>5. /\ reader \in [line : Nat, block : Seq(Nat), cr : BOOLEAN, end : {"none", "eof", "failed"}]
      /\ inHand \in Reads
  <2>1. <<>> \in Seq(Nat) /\ 0 \in Nat
    OBVIOUS
  <2>2. NewReader \in [line : Nat, block : Seq(Nat), cr : BOOLEAN, end : {"none", "eof", "failed"}]
    BY <2>1 DEF NewReader
  <2>3. reader = NewReader /\ inHand = NoRead
    BY DEF Init
  <2>4. NoRead \in Reads
    BY DEF NoRead, Reads
  <2> QED
    BY <2>2, <2>3, <2>4
<1>6. sent \in Seq({"text", "binary", "ping"})
  <2>1. sent \in Messages \/ sent = <<>>
    BY DEF Init
  <2>2. Messages \subseteq Seq({"text", "binary", "ping"})
    BY StreamConfig
  <2>3. <<>> \in Seq({"text", "binary", "ping"})
    OBVIOUS
  <2> QED
    BY <2>1, <2>2, <2>3
<1>7. wire \in Seq({"text", "binary", "ping", "normal", "abnormal"})
  <2>1. sent \in Seq({"text", "binary", "ping", "normal", "abnormal"})
    BY <1>6
  <2> QED
    BY <2>1 DEF Init
<1>8. Len(readCh) <= Buffer /\ Len(wire) <= Len(sent) + 1
  <2>1. Len(readCh) = 0 /\ Len(wire) = Len(sent) + 1 /\ Len(sent) \in Nat
    BY <1>6 DEF Init
  <2> QED
    BY <2>1, StreamConfig
<1> QED
  BY <1>1, <1>2, <1>3, <1>4, <1>5, <1>6, <1>7, <1>8 DEF TypeOK


LEMMA Kinded ==
  ASSUME TypeOK
  PROVE  /\ kind \in {"http", "ws"}
         /\ kind = "http" => got \in Seq(Frames)
         /\ kind = "ws" => got \in Seq(Nat)
BY StreamConfig DEF TypeOK

LEMMA TypesNext == TypeOK /\ Retried /\ [Next]_vars => TypeOK'
<1> SUFFICES ASSUME TypeOK, Retried, [Next]_vars PROVE TypeOK'
  OBVIOUS
<1> USE DEF Returns
<1>1. CASE UNCHANGED vars
  BY <1>1 DEF TypeOK, vars, openVars, httpVars, wsVars
<1>2. CASE OpenSucceeds
  <2>1. attempt' \in 0..MaxRetries /\ backoff' \in 1..MaxBackoff /\ delay' \in 0..MaxDuration
    BY <1>2, StreamConfig DEF OpenSucceeds
  <2> QED
    BY <1>2, <2>1 DEF TypeOK, OpenSucceeds, Replay, httpVars, wsVars
<1>3. CASE TryAgain
  <2>1. attempt' \in 0..MaxRetries
    BY <1>3, StreamConfig DEF TypeOK, Retried, TryAgain
  <2>2. backoff' \in 1..MaxBackoff
    <3>1. backoff \in 1..MaxBackoff
      BY DEF TypeOK
    <3>2. backoff' = IF backoff * 2 > MaxBackoff THEN MaxBackoff ELSE backoff * 2
      BY <1>3 DEF TryAgain
    <3> QED
      BY <3>1, <3>2, StreamConfig
  <2> QED
    BY <1>3, <2>1, <2>2 DEF TypeOK, TryAgain, httpVars, wsVars
<1>4. CASE BackoffInterrupted
  BY <1>4 DEF TypeOK, BackoffInterrupted, openVars, httpVars, wsVars
<1>5. ASSUME NEW seconds \in RetryAfters, NEW retryable \in BOOLEAN, OpenFails(seconds, retryable)
      PROVE  TypeOK'
  <2>1. failures' \in Seq([after : RetryAfters, retryable : BOOLEAN])
    BY <1>5 DEF TypeOK, OpenFails
  <2>2. RetryDelay(seconds, backoff) \in 0..MaxDuration
    BY DelayIs DEF TypeOK
  <2>3. delay' \in 0..MaxDuration
    BY <1>5, <2>2 DEF TypeOK, OpenFails
  <2> QED
    BY <1>5, <2>1, <2>3 DEF TypeOK, OpenFails, Replay, httpVars, wsVars
<1>6. CASE CallRecv
  BY <1>6 DEF TypeOK, CallRecv, openVars, httpVars, wsVars
<1>7. ASSUME NEW b \in {"x", "CR", "LF"}, ReadByte(b) PROVE TypeOK'
  <2>1. Fed(b).reader \in Readers /\ Fed(b).frames \in Seq(Frames)
    BY FedTyped DEF Cuts
  <2>2. got' \in Seq(Frames) /\ kind' = "http" /\ reader' \in Readers
    BY <1>7, <2>1, Kinded DEF ReadByte, Delivers
  <2>3. bytes' \in Seq({"x", "CR", "LF"})
    BY <1>7 DEF TypeOK, ReadByte
  <2>4. pc' \in {pc, "idle"} /\ result' \in {result, "frame"}
    BY <1>7 DEF ReadByte, Delivers
  <2> QED
    BY <1>7, <2>2, <2>3, <2>4 DEF TypeOK, Readers, ReadByte, openVars, wsVars
<1>8. CASE ReadEnd
  <2>1. got' \in Seq(Frames) /\ kind' = "http"
    BY <1>8, FlushedTyped, Kinded DEF ReadEnd, Delivers
  <2>2. reader' \in Readers
    BY <1>8, NewReaders DEF ReadEnd
  <2>3. pc' \in {pc, "idle"} /\ result' \in {result, "frame"}
    BY <1>8 DEF ReadEnd, Delivers
  <2> QED
    BY <1>8, <2>1, <2>2, <2>3 DEF TypeOK, Readers, ReadEnd, openVars, wsVars
<1>9. CASE ReadFails
  <2>1. got' \in Seq(Frames) /\ kind' = "http"
    BY <1>9, FlushedTyped, Kinded DEF ReadFails, Delivers
  <2>2. reader' \in Readers
    BY <1>9, NewReaders DEF ReadFails
  <2>3. pc' \in {pc, "idle"} /\ result' \in {result, "frame"}
    BY <1>9 DEF ReadFails, Delivers
  <2> QED
    BY <1>9, <2>1, <2>2, <2>3 DEF TypeOK, Readers, ReadFails, openVars, wsVars
<1>10. CASE ReadAtEnd
  BY <1>10 DEF TypeOK, ReadAtEnd, openVars, httpVars, wsVars
<1>11. CASE PumpPongs
  <2>1. wire' \in Seq({"text", "binary", "ping", "normal", "abnormal"}) /\ Len(wire') <= Len(sent) + 1
    BY <1>11, SequenceFacts DEF TypeOK, PumpPongs
  <2> QED
    BY <1>11, <2>1 DEF TypeOK, PumpPongs, openVars, httpVars
<1>12. CASE PumpReads
  <2>1. wire' \in Seq({"text", "binary", "ping", "normal", "abnormal"}) /\ Len(wire') <= Len(sent) + 1
    BY <1>12, SequenceFacts DEF TypeOK, PumpReads
  <2>2. inHand' \in Reads
    BY <1>12, Numbered DEF PumpReads
  <2> QED
    BY <1>12, <2>1, <2>2 DEF TypeOK, PumpReads, openVars, httpVars
<1>13. CASE PumpBreaks
  BY <1>13 DEF TypeOK, PumpBreaks, Reads, openVars, httpVars
<1>14. CASE PumpSends
  <2>1. readCh' \in Seq(Reads) /\ Len(readCh') <= Buffer
    BY <1>14, StreamConfig DEF TypeOK, PumpSends
  <2>2. inHand' \in Reads
    BY <1>14 DEF PumpSends, NoRead, Reads
  <2> QED
    BY <1>14, <2>1, <2>2 DEF TypeOK, PumpSends, openVars, httpVars
<1>15. CASE PumpStops
  BY <1>15 DEF TypeOK, PumpStops, NoRead, Reads, openVars, httpVars
<1>16. CASE RecvTakes
  <2>1. /\ readCh' \in Seq(Reads) /\ Len(readCh') <= Buffer
        /\ Head(readCh) \in Reads /\ Head(readCh).n \in Nat
    <3>1. readCh' \in Seq(Reads) /\ Len(readCh') = Len(readCh) - 1 /\ Head(readCh) \in Reads
      BY <1>16 DEF TypeOK, RecvTakes
    <3> QED
      BY <3>1, StreamConfig DEF TypeOK, Reads
  <2>2. kind = "ws" /\ got' \in Seq(Nat)
    BY <1>16, <2>1, Kinded DEF RecvTakes
  <2>3. pc' = "idle" /\ result' \in {"frame", "eof", "error"}
    BY <1>16 DEF RecvTakes
  <2> QED
    BY <1>16, <2>1, <2>2, <2>3 DEF TypeOK, RecvTakes, openVars, httpVars
<1>17. CASE RecvAfterEnd
  BY <1>17 DEF TypeOK, RecvAfterEnd, openVars, httpVars, wsVars
<1>18. CASE RecvInterrupted
  BY <1>18 DEF TypeOK, RecvInterrupted, openVars, httpVars, wsVars
<1>19. CASE Close
  <2>1. done' \in BOOLEAN
    BY <1>19 DEF Close
  <2> QED
    BY <1>19, <2>1 DEF TypeOK, Close, openVars, httpVars
<1>20. CASE ContextEnds
  <2>1. ctxDone' \in BOOLEAN
    BY <1>20 DEF ContextEnds
  <2> QED
    BY <1>20, <2>1 DEF TypeOK, ContextEnds, openVars, httpVars, wsVars
<1>21. CASE NextTurn
  <2>1. ctxDone' \in BOOLEAN
    BY <1>21 DEF NextTurn
  <2> QED
    BY <1>21, <2>1 DEF TypeOK, NextTurn, openVars, httpVars, wsVars
<1> QED
  BY <1>1, <1>2, <1>3, <1>4, <1>5, <1>6, <1>7, <1>8, <1>9, <1>10, <1>11, <1>12, <1>13, <1>14, <1>15,
     <1>16, <1>17, <1>18, <1>19, <1>20, <1>21 DEF Next, Open, RecvHTTP, Pump, RecvWS

-----------------------------------------------------------------------------
LEMMA RetriedInit == Init => Retried
BY StreamConfig, DoubledIs DEF Init, Retried, Retries, Smaller

\* What is not about an attempt to open changes nothing that Retried looks at.
LEMMA AfterOpening ==
  ASSUME Retried, UNCHANGED openVars, pc' \in {"idle", "recv", "failed"} \/ pc' = pc
  PROVE  Retried'
BY DEF Retried, Retries, openVars

LEMMA RetriedNext == TypeOK /\ Retried /\ [Next]_vars => Retried'
<1> SUFFICES ASSUME TypeOK, Retried, [Next]_vars PROVE Retried'
  OBVIOUS
<1>1. CASE OpenSucceeds
  BY <1>1, StreamConfig DEF OpenSucceeds, Replay, Retried, Retries
<1>2. CASE TryAgain
  <2>1. attempt \in Nat /\ attempt + 1 \in 1..MaxRetries
    BY <1>2, StreamConfig DEF TypeOK, TryAgain, Retried
  <2>4. Doubled[attempt + 1] = 2 * Doubled[attempt]
    BY <2>1, DoubledIs
  <2>2. Doubled[attempt] \in Nat
    BY DoubledNat DEF TypeOK
  <2>3. backoff' = Smaller(Doubled[attempt + 1], MaxBackoff)
    BY <1>2, <2>1, <2>2, <2>4, StreamConfig DEF TryAgain, Retried, Smaller
  <2> QED
    BY <1>2, <2>1, <2>3 DEF TypeOK, TryAgain, Retried, Retries
<1>3. CASE BackoffInterrupted
  BY <1>3, AfterOpening DEF BackoffInterrupted
<1>4. ASSUME NEW seconds \in RetryAfters, NEW retryable \in BOOLEAN, OpenFails(seconds, retryable)
      PROVE  Retried'
  <2> DEFINE failure == [after |-> seconds, retryable |-> retryable]
  <2>1. /\ Len(failures') = Len(failures) + 1 /\ Len(failures) \in Nat
        /\ \A i \in 1..Len(failures) : failures'[i] = failures[i]
        /\ failures'[Len(failures) + 1] = failure
    BY <1>4 DEF TypeOK, OpenFails
  <2>2. /\ \A i \in 1..Len(failures) : failures[i].retryable
        /\ Len(failures) = attempt /\ backoff = Smaller(Doubled[attempt], MaxBackoff)
        /\ attempt' = attempt /\ backoff' = backoff /\ offered' /\ offered
    BY <1>4 DEF OpenFails, Replay, Retried, Retries
  <2>3. pc' \in {"failed", "backoff"}
        /\ (pc' = "backoff" => attempt # MaxRetries /\ retryable /\ delay' = RetryDelay(seconds, backoff))
    BY <1>4 DEF OpenFails
  <2> QED
    BY <2>1, <2>2, <2>3, StreamConfig DEF TypeOK, Retried, Retries
<1>5. CASE ~Open
  <2>1. UNCHANGED openVars /\ (pc' \in {"idle", "recv"} \/ pc' = pc)
    BY <1>5 DEF Next, vars, CallRecv, RecvHTTP, ReadByte, ReadEnd, ReadFails, ReadAtEnd, Delivers, Returns,
       Pump, PumpPongs, PumpReads, PumpBreaks, PumpSends, PumpStops, RecvWS, RecvTakes, RecvAfterEnd,
       RecvInterrupted, Close, ContextEnds, NextTurn, openVars
  <2> QED
    BY <2>1, AfterOpening
<1> QED
  BY <1>1, <1>2, <1>3, <1>4, <1>5 DEF Open

\* The types hold in every state of the byte stream.
THEOREM TypesCorrect == Spec => []TypeOK
<1>1. Init => TypeOK /\ Retried
  BY TypesInit, RetriedInit
<1>2. TypeOK /\ Retried /\ [Next]_vars => TypeOK' /\ Retried'
  BY TypesNext, RetriedNext
<1> QED
  BY <1>1, <1>2, PTL DEF Spec

\* Opening gives up after MaxRetries further attempts, tries again only what may be tried
\* again, sends the whole body each time, and waits what was asked for, if a Duration can
\* hold that, and else the backoff, whatever the durations are and wherever they wrap
\* (retry.go:58-104, http.go:149-164).
THEOREM RetriesCorrect == Spec => []RetriesAsAsked
<1>1. Init => TypeOK /\ Retried
  BY TypesInit, RetriedInit
<1>2. TypeOK /\ Retried /\ [Next]_vars => TypeOK' /\ Retried'
  BY TypesNext, RetriedNext
<1>3. TypeOK /\ Retried => RetriesAsAsked
  <2> SUFFICES ASSUME TypeOK, Retried PROVE RetriesAsAsked
    OBVIOUS
  <2>1. /\ Retries <= MaxRetries + 1 /\ offered
        /\ \A i \in 1..Retries : i < Retries \/ pc \in {"open", "backoff"} => failures[i].retryable
    BY DEF Retried
  <2>2. ASSUME pc = "backoff"
        PROVE  LET asked == failures[Retries].after * Second
                   doubled == Doubled[Retries - 1]
               IN  /\ asked \in 1..MaxDuration => delay = asked
                   /\ asked = 0 => delay = IF doubled < MaxBackoff THEN doubled ELSE MaxBackoff
                   /\ delay > 0
    <3>1. attempt \in Nat
      BY StreamConfig DEF TypeOK
    <3>4. /\ Retries \in Nat \ {0} /\ Retries - 1 = attempt
          /\ delay = RetryDelay(failures[Retries].after, backoff)
          /\ backoff = Smaller(Doubled[attempt], MaxBackoff)
      BY <2>2, <3>1 DEF Retried
    <3>2. failures[Retries].after \in RetryAfters /\ backoff \in 1..MaxBackoff
      <4>1. failures[Retries] \in [after : RetryAfters, retryable : BOOLEAN]
        <5>1. failures \in Seq([after : RetryAfters, retryable : BOOLEAN])
          BY DEF TypeOK
        <5>2. Retries \in 1..Len(failures)
          BY <3>4 DEF Retries
        <5> QED
          BY <5>1, <5>2, ElementFacts
      <4> QED
        BY <4>1 DEF TypeOK
    <3>3. /\ delay \in 1..MaxDuration
          /\ failures[Retries].after * Second \in 1..MaxDuration => delay = failures[Retries].after * Second
          /\ failures[Retries].after * Second = 0 => delay = backoff
      BY <3>4, <3>2, DelayIs
    <3> QED
      BY <3>4, <3>3 DEF Smaller
  <2> QED
    BY <2>1, <2>2 DEF RetriesAsAsked
<1> QED
  BY <1>1, <1>2, <1>3, PTL DEF Spec
-----------------------------------------------------------------------------
LEMMA TextsAppended ==
  ASSUME NEW reads \in Seq(Reads), NEW read \in Reads
  PROVE  TextsOf(Append(reads, read)) = TextsOf(reads) \cup (IF read.kind = "text" THEN {read.n} ELSE {})
<1>1. /\ Len(Append(reads, read)) = Len(reads) + 1 /\ Len(reads) \in Nat
      /\ \A k \in 1..Len(reads) : Append(reads, read)[k] = reads[k]
      /\ Append(reads, read)[Len(reads) + 1] = read
  OBVIOUS
<1> QED
  BY <1>1 DEF TextsOf

LEMMA TextsTail ==
  ASSUME NEW reads \in Seq(Reads), reads # <<>>
  PROVE  /\ Len(Tail(reads)) = Len(reads) - 1 /\ Len(reads) \in Nat \ {0} /\ Head(reads) = reads[1]
         /\ \A k \in 1..Len(reads) - 1 : Tail(reads)[k] = reads[k + 1]
         /\ TextsOf(reads) = TextsOf(Tail(reads)) \cup (IF reads[1].kind = "text" THEN {reads[1].n} ELSE {})
<1>1. /\ Len(Tail(reads)) = Len(reads) - 1 /\ Len(reads) \in Nat \ {0} /\ Head(reads) = reads[1]
      /\ \A k \in 1..Len(reads) - 1 : Tail(reads)[k] = reads[k + 1]
  OBVIOUS
<1>2. \A n \in TextsOf(Tail(reads)) : n \in TextsOf(reads)
  BY <1>1 DEF TextsOf
<1>3. ASSUME NEW k \in 2..Len(reads), reads[k].kind = "text"
      PROVE  reads[k].n \in TextsOf(Tail(reads))
  <2>1. k - 1 \in 1..Len(Tail(reads)) /\ Tail(reads)[k - 1] = reads[k]
    BY <1>1
  <2> QED
    BY <2>1, <1>3 DEF TextsOf
<1>4. \A n \in TextsOf(reads) : n \in TextsOf(Tail(reads)) \cup (IF reads[1].kind = "text" THEN {reads[1].n} ELSE {})
  BY <1>1, <1>3 DEF TextsOf
<1>5. reads[1].kind = "text" => reads[1].n \in TextsOf(reads)
  BY <1>1 DEF TextsOf
<1> QED
  BY <1>1, <1>2, <1>4, <1>5

LEMMA Numbers ==
  ASSUME TypeOK, kind = "ws"
  PROVE  /\ Len(sent) \in Nat /\ Len(wire) \in Nat /\ Len(readCh) \in Nat /\ Len(got) \in Nat /\ Taken \in Nat
         /\ \A k \in 1..Len(got) : got[k] \in Nat
         /\ \A k \in 1..Len(readCh) : readCh[k] \in Reads /\ readCh[k].n \in Nat
         /\ inHand.n \in Nat /\ Got \in SUBSET Nat /\ TextsOf(readCh) \in SUBSET Nat /\ InHand \in SUBSET Nat
<1>1. got \in Seq(Nat)
  BY Kinded
<1>2. Len(sent) \in Nat /\ Len(wire) \in Nat /\ Len(readCh) \in Nat /\ Len(got) \in Nat
      /\ Len(wire) <= Len(sent) + 1
  BY <1>1 DEF TypeOK
<1>3. \A k \in 1..Len(readCh) : readCh[k] \in Reads
  BY DEF TypeOK
<1>4. \A read \in Reads : read.n \in Nat
  BY DEF Reads
<1>5. inHand.n \in Nat
  BY <1>4 DEF TypeOK
<1>6. \A k \in 1..Len(got) : got[k] \in Nat
  BY <1>1
<1> QED
  BY <1>2, <1>3, <1>4, <1>5, <1>6 DEF Taken, Got, TextsOf, InHand

\* The message at the head of the wire.
LEMMA NextOnWire ==
  ASSUME TypeOK, kind = "ws", WireIsRest, wire # <<>>
  PROVE  /\ Len(Tail(wire)) = Len(wire) - 1 /\ Len(wire) \in Nat \ {0}
         /\ \A i \in 1..Len(wire) - 1 : Tail(wire)[i] = wire[i + 1]
         /\ Taken + 1 \in 1..Len(sent) + 1
         /\ IF Len(wire) = 1 THEN Head(wire) \in {"normal", "abnormal"} /\ Taken + 1 = Len(sent) + 1
            ELSE Taken + 1 \in 1..Len(sent) /\ sent[Taken + 1] = Head(wire) /\ Head(wire) \in {"text", "binary", "ping"}
<1>1. /\ Len(Tail(wire)) = Len(wire) - 1 /\ Len(wire) \in Nat \ {0} /\ Head(wire) = wire[1]
      /\ \A i \in 1..Len(wire) - 1 : Tail(wire)[i] = wire[i + 1]
  BY DEF TypeOK
<1>2. Taken \in Nat /\ Len(sent) \in Nat
  BY Numbers
<1>3. Len(wire) # 1 => wire[1] = sent[Taken + 1] /\ Taken + 1 \in 1..Len(sent)
  BY <1>1, <1>2 DEF WireIsRest, Taken
<1>4. \A i \in 1..Len(sent) : sent[i] \in {"text", "binary", "ping"}
  BY DEF TypeOK
<1>5. Len(wire) = 1 => wire[1] \in {"normal", "abnormal"} /\ Taken + 1 = Len(sent) + 1
  BY <1>1, <1>2 DEF WireIsRest, Taken
<1> QED
  BY <1>1, <1>2, <1>3, <1>4, <1>5 DEF Taken

LEMMA WireTaken ==
  ASSUME TypeOK, kind = "ws", WireIsRest, wire # <<>>, wire' = Tail(wire), UNCHANGED sent
  PROVE  WireIsRest' /\ Taken' = Taken + 1 /\ (Len(wire) = 1 <=> wire' = <<>>)
<1>1. /\ Len(wire') = Len(wire) - 1 /\ Len(wire) \in Nat \ {0}
      /\ \A i \in 1..Len(wire) - 1 : wire'[i] = wire[i + 1]
      /\ Taken \in Nat /\ Len(sent) \in Nat
  BY NextOnWire, Numbers
<1>2. Taken' = Taken + 1
  BY <1>1 DEF Taken
<1>3. Len(wire) = 1 <=> wire' = <<>>
  <2>1. wire \in Seq({"text", "binary", "ping", "normal", "abnormal"})
    BY DEF TypeOK
  <2> QED
    BY <2>1, TailFacts
<1>4. ASSUME NEW i \in 1..Len(wire') - 1 PROVE wire'[i] = sent[Taken' + i]
  <2>1. i + 1 \in 1..Len(wire) - 1 /\ wire'[i] = wire[i + 1] /\ Taken' + i = Taken + (i + 1)
    BY <1>1, <1>2
  <2> QED
    BY <2>1 DEF WireIsRest
<1>5. wire' # <<>> => wire'[Len(wire')] = wire[Len(wire)] /\ wire[Len(wire)] \in {"normal", "abnormal"}
  BY <1>1, <1>3 DEF WireIsRest
<1> QED
  BY <1>2, <1>3, <1>4, <1>5 DEF WireIsRest

\* What neither the texts nor the pump see.
LEMMA OrderedElsewhere ==
  ASSUME Ordered, UNCHANGED <<kind, sent, wire, pump, inHand, readCh, got>>,
         result' \in {result, "ctx"} \/ result' = "error", done => done'
  PROVE  Ordered'
<1> SUFFICES ASSUME kind = "ws" PROVE WireIsRest' /\ PumpEnds' /\ TextsSorted' /\ NoTextMissing'
  BY DEF Ordered
<1>1. WireIsRest /\ PumpEnds /\ TextsSorted /\ NoTextMissing
  BY DEF Ordered
<1>2. /\ Texts' = Texts /\ Got' = Got /\ TextsOf(readCh') = TextsOf(readCh) /\ InHand' = InHand
      /\ Taken' = Taken
  BY DEF Texts, Got, TextsOf, InHand, Taken
<1>3. WireIsRest'
  BY <1>1, <1>2 DEF WireIsRest
<1>4. PumpEnds'
  BY <1>1 DEF PumpEnds, OfSent, NoRead
<1>5. TextsSorted'
  BY <1>1, <1>2 DEF TextsSorted
<1>6. NoTextMissing'
  BY <1>1, <1>2 DEF NoTextMissing
<1> QED
  BY <1>3, <1>4, <1>5, <1>6

LEMMA OrderedInit == Init => Ordered
<1> SUFFICES ASSUME Init, kind = "ws" PROVE WireIsRest /\ PumpEnds /\ TextsSorted /\ NoTextMissing
  BY DEF Ordered
<1>1. TypeOK
  BY TypesInit
<1>2. PICK end \in {"normal", "abnormal"} : wire = Append(sent, end)
  BY DEF Init
<1>3. /\ Len(wire) = Len(sent) + 1 /\ Len(sent) \in Nat /\ wire[Len(wire)] = end
      /\ \A i \in 1..Len(sent) : wire[i] = sent[i]
  BY <1>1, <1>2 DEF TypeOK
<1>4. Taken = 0 /\ Got = {} /\ TextsOf(readCh) = {} /\ InHand = {} /\ Len(readCh) = 0 /\ Len(got) = 0
  BY <1>3 DEF Init, Taken, Got, TextsOf, InHand, NoRead
<1>5. WireIsRest
  BY <1>3, <1>4 DEF WireIsRest
<1>6. PumpEnds
  BY <1>4 DEF Init, PumpEnds, OfSent, IsMessage, NoRead
<1>7. TextsSorted
  BY <1>4 DEF TextsSorted
<1>8. NoTextMissing
  BY <1>4 DEF NoTextMissing, Texts, Init
<1> QED
  BY <1>5, <1>6, <1>7, <1>8

LEMMA OrderedPump ==
  ASSUME TypeOK, Ordered, kind = "ws", Pump
  PROVE  Ordered'
<1>0. WireIsRest /\ PumpEnds /\ TextsSorted /\ NoTextMissing
  BY DEF Ordered
<1>1. /\ UNCHANGED <<kind, got, result, sent, done>>
      /\ Texts' = Texts /\ Got' = Got
  BY DEF Pump, PumpPongs, PumpReads, PumpBreaks, PumpSends, PumpStops, Texts, Got
<1>2. SUFFICES WireIsRest' /\ PumpEnds' /\ TextsSorted' /\ NoTextMissing'
  BY DEF Ordered
<1>3. CASE PumpPongs
  <2>1. WireIsRest' /\ Taken' = Taken + 1 /\ sent[Taken + 1] = "ping" /\ wire # <<>> /\ Taken \in Nat
    BY <1>0, <1>1, <1>3, WireTaken, NextOnWire, Numbers DEF PumpPongs
  <2>2. TextsOf(readCh') = TextsOf(readCh) /\ InHand' = InHand /\ UNCHANGED <<pump, inHand, readCh>>
    BY <1>3 DEF PumpPongs, InHand
  <2>3. PumpEnds'
    BY <1>0, <1>1, <2>1, <2>2, <1>3 DEF PumpEnds, PumpPongs, OfSent, NoRead
  <2>4. TextsSorted'
    BY <1>0, <1>1, <2>1, <2>2, Numbers DEF TextsSorted
  <2>5. \A i \in Texts : i <= Taken + 1 => i <= Taken
    BY <2>1 DEF Texts
  <2>6. NoTextMissing'
    BY <1>0, <1>1, <2>1, <2>2, <2>5, <1>3 DEF NoTextMissing, PumpPongs
  <2> QED
    BY <2>1, <2>3, <2>4, <2>6
<1>4. CASE PumpReads
  <2>1. /\ WireIsRest' /\ Taken' = Taken + 1 /\ wire # <<>> /\ Taken \in Nat /\ Taken + 1 \in 1..Len(sent) + 1
        /\ Len(wire) = 1 <=> wire' = <<>>
        /\ Len(wire) = 1 => Head(wire) \in {"normal", "abnormal"} /\ Taken = Len(sent)
        /\ Len(wire) # 1 => Taken + 1 \in 1..Len(sent) /\ sent[Taken + 1] = Head(wire)
                            /\ Head(wire) \in {"text", "binary"}
    <3>1. wire # <<>> /\ wire' = Tail(wire) /\ Head(wire) # "ping"
      BY <1>4 DEF PumpReads
    <3>2. WireIsRest' /\ Taken' = Taken + 1 /\ (Len(wire) = 1 <=> wire' = <<>>)
      BY <1>0, <1>1, <3>1, WireTaken
    <3>3. /\ Taken + 1 \in 1..Len(sent) + 1
          /\ IF Len(wire) = 1 THEN Head(wire) \in {"normal", "abnormal"} /\ Taken + 1 = Len(sent) + 1
             ELSE Taken + 1 \in 1..Len(sent) /\ sent[Taken + 1] = Head(wire) /\ Head(wire) \in {"text", "binary", "ping"}
      BY <1>0, <1>1, <3>1, NextOnWire
    <3>4. Taken \in Nat /\ Len(sent) \in Nat
      BY <1>0, Numbers
    <3> QED
      BY <3>1, <3>2, <3>3, <3>4
  <2>2. /\ inHand'.kind = Head(wire) /\ inHand'.n = Taken + 1
        /\ pump = "read" /\ pump' = "send" /\ readCh' = readCh /\ InHand = {}
    BY <1>0, <1>4, Numbers DEF PumpReads, Taken, PumpEnds, InHand, NoRead
  <2>3. PumpEnds'
    BY <1>0, <1>1, <2>1, <2>2 DEF PumpEnds, OfSent, IsMessage
  <2>4. TextsOf(readCh') = TextsOf(readCh) /\ InHand' = (IF Head(wire) = "text" THEN {Taken + 1} ELSE {})
    BY <2>2 DEF InHand
  <2>5. TextsSorted'
    BY <1>0, <1>1, <2>1, <2>2, <2>4, Numbers DEF TextsSorted
  <2>6. \A i \in Texts : i <= Taken + 1 => i <= Taken \/ i \in InHand'
    BY <2>1, <2>4 DEF Texts
  <2>7. NoTextMissing'
    BY <1>0, <1>1, <2>1, <2>2, <2>4, <2>6 DEF NoTextMissing
  <2> QED
    BY <2>1, <2>3, <2>5, <2>7
<1>5. CASE PumpBreaks
  <2>1. /\ inHand'.kind = "broken" /\ done /\ pump = "read" /\ pump' = "send" /\ UNCHANGED <<wire, readCh>>
        /\ inHand = NoRead
    BY <1>0, <1>5 DEF PumpBreaks, PumpEnds
  <2>2. InHand = {} /\ InHand' = {} /\ Taken' = Taken /\ TextsOf(readCh') = TextsOf(readCh)
    BY <2>1, <1>1 DEF InHand, NoRead, Taken
  <2>3. WireIsRest'
    BY <1>0, <1>1, <2>1, <2>2 DEF WireIsRest
  <2>4. PumpEnds'
    BY <1>0, <1>1, <2>1 DEF PumpEnds, OfSent, IsMessage
  <2>5. TextsSorted'
    BY <1>0, <1>1, <2>1, <2>2 DEF TextsSorted
  <2>6. NoTextMissing'
    BY <1>0, <1>1, <2>1, <2>2 DEF NoTextMissing
  <2> QED
    BY <2>3, <2>4, <2>5, <2>6
<1>6. CASE PumpSends
  <2>1. /\ readCh' = Append(readCh, inHand) /\ inHand' = NoRead /\ UNCHANGED <<wire>> /\ pump = "send"
        /\ pump' = IF IsMessage(inHand) THEN "read" ELSE "ended"
    BY <1>6 DEF PumpSends
  <2>2. /\ Len(readCh') = Len(readCh) + 1 /\ Len(readCh) \in Nat /\ readCh'[Len(readCh) + 1] = inHand
        /\ \A k \in 1..Len(readCh) : readCh'[k] = readCh[k]
    BY <2>1, SequenceFacts DEF TypeOK
  <2>3. TextsOf(readCh') = TextsOf(readCh) \cup InHand /\ InHand' = {} /\ Taken' = Taken
    BY <2>1, <1>1, TextsAppended DEF TypeOK, InHand, NoRead, Taken
  <2>4. \A k \in 1..Len(readCh) : IsMessage(readCh[k])
    BY <1>0, <2>1 DEF PumpEnds
  <2>5. WireIsRest'
    BY <1>0, <1>1, <2>1, <2>3 DEF WireIsRest
  <2>6. PumpEnds'
    <3>1. OfSent(inHand)' /\ \A k \in 1..Len(readCh') : OfSent(readCh[k])'
      BY <1>0, <1>1, <2>1, <2>2 DEF PumpEnds, OfSent, NoRead, IsMessage
    <3>2. \A k \in 1..Len(readCh') : IsMessage(readCh'[k]) \/ (k = Len(readCh') /\ pump' = "ended")
      BY <2>1, <2>2, <2>4
    <3>3. ~IsMessage(inHand) => inHand.kind \in {"normal", "abnormal", "broken"}
      BY <1>0, <2>1 DEF PumpEnds, IsMessage, TypeOK, Reads
    <3>4. pump' = "ended" => wire' = <<>> \/ done'
      BY <1>0, <1>1, <2>1, <3>3 DEF PumpEnds
    <3> QED
      BY <1>0, <1>1, <2>1, <3>1, <3>2, <3>4 DEF PumpEnds, NoRead, IsMessage
  <2>7. TextsSorted'
    <3>1. \A j, k \in 1..Len(readCh') :
            j < k /\ readCh'[j].kind = "text" /\ readCh'[k].kind = "text" => readCh'[j].n < readCh'[k].n
      <4> SUFFICES ASSUME NEW j \in 1..Len(readCh'), NEW k \in 1..Len(readCh'), j < k,
                          readCh'[j].kind = "text", readCh'[k].kind = "text"
                   PROVE  readCh'[j].n < readCh'[k].n
        OBVIOUS
      <4>1. j \in 1..Len(readCh) /\ readCh[j].kind = "text" /\ readCh'[j] = readCh[j]
        BY <2>2
      <4>2. readCh[j].n \in TextsOf(readCh)
        BY <4>1 DEF TextsOf
      <4>3. CASE k = Len(readCh) + 1
        BY <4>1, <4>2, <4>3, <2>2, <1>0 DEF TextsSorted, InHand
      <4>4. CASE k \in 1..Len(readCh)
        BY <4>1, <4>4, <2>2, <1>0 DEF TextsSorted
      <4> QED
        BY <4>3, <4>4, <2>2
    <3> QED
      BY <1>0, <1>1, <2>3, <3>1 DEF TextsSorted
  <2>8. NoTextMissing'
    <3>1. ASSUME NEW i \in Texts, NEW n \in InHand, i < n PROVE i \in Got \cup TextsOf(readCh)
      <4>1. i <= Taken
        BY <1>0, <3>1, Numbers DEF TextsSorted, Texts
      <4> QED
        BY <1>0, <2>1, <3>1, <4>1, Numbers DEF NoTextMissing, InHand
    <3> QED
      BY <1>0, <1>1, <2>1, <2>3, <3>1 DEF NoTextMissing
  <2> QED
    BY <2>5, <2>6, <2>7, <2>8
<1>7. CASE PumpStops
  <2>1. done /\ pump' = "ended" /\ inHand' = NoRead /\ UNCHANGED <<wire, readCh>> /\ pump = "send"
    BY <1>7 DEF PumpStops
  <2>2. InHand' = {} /\ Taken' = Taken /\ TextsOf(readCh') = TextsOf(readCh)
    BY <2>1, <1>1 DEF InHand, NoRead, Taken
  <2>3. WireIsRest'
    BY <1>0, <1>1, <2>1, <2>2 DEF WireIsRest
  <2>4. PumpEnds'
    BY <1>0, <1>1, <2>1 DEF PumpEnds, OfSent, IsMessage, NoRead
  <2>5. TextsSorted'
    BY <1>0, <1>1, <2>1, <2>2 DEF TextsSorted
  <2>6. NoTextMissing'
    BY <1>0, <1>1, <2>1, <2>2 DEF NoTextMissing
  <2> QED
    BY <2>3, <2>4, <2>5, <2>6
<1> QED
  BY <1>3, <1>4, <1>5, <1>6, <1>7 DEF Pump

LEMMA OrderedTakes ==
  ASSUME TypeOK, Ordered, RecvTakes
  PROVE  Ordered'
<1> DEFINE read == readCh[1]
<1>0. kind = "ws" /\ WireIsRest /\ PumpEnds /\ TextsSorted /\ NoTextMissing /\ readCh # <<>>
  BY DEF Ordered, RecvTakes
<1>1. /\ UNCHANGED <<kind, sent, wire, pump, inHand, done>>
      /\ Texts' = Texts /\ InHand' = InHand /\ Taken' = Taken
  BY DEF RecvTakes, Texts, InHand, Taken
<1>2. SUFFICES WireIsRest' /\ PumpEnds' /\ TextsSorted' /\ NoTextMissing'
  BY DEF Ordered
<1>3. /\ readCh' = Tail(readCh) /\ Len(readCh') = Len(readCh) - 1 /\ Len(readCh) \in Nat \ {0}
      /\ Head(readCh) = read /\ \A k \in 1..Len(readCh) - 1 : readCh'[k] = readCh[k + 1]
      /\ TextsOf(readCh) = TextsOf(readCh') \cup (IF read.kind = "text" THEN {read.n} ELSE {})
  BY <1>0, TextsTail DEF TypeOK, RecvTakes
<1>11. /\ Len(readCh') = Len(readCh) - 1 /\ Len(readCh) \in Nat
       /\ \A k \in 1..Len(readCh) - 1 : readCh'[k] = readCh[k + 1]
  BY <1>3
<1>4. /\ got' = IF read.kind = "text" THEN Append(got, read.n) ELSE got
      /\ result' = CASE read.kind = "text" -> "frame" [] read.kind = "normal" -> "eof" [] OTHER -> "error"
  BY <1>3 DEF RecvTakes, Returns
<1>5. /\ read \in Reads /\ read.n \in Nat /\ got \in Seq(Nat)
      /\ \A n \in TextsOf(readCh') : n \in Nat
  <2>1. read \in Reads /\ read.n \in Nat
    BY <1>0, <1>11, <1>3, Numbers
  <2>2. got \in Seq(Nat)
    BY <1>0, Kinded
  <2>3. \A n \in TextsOf(readCh) : n \in Nat
    BY <1>0, Numbers
  <2> QED
    BY <2>1, <2>2, <2>3, <1>3
<1>6. \A n \in TextsOf(readCh') : read.kind = "text" => read.n < n
  <2> SUFFICES ASSUME NEW k \in 1..Len(readCh'), readCh'[k].kind = "text", read.kind = "text"
               PROVE  read.n < readCh'[k].n
    BY DEF TextsOf
  <2>1. k + 1 \in 1..Len(readCh) /\ readCh'[k] = readCh[k + 1] /\ 1 \in 1..Len(readCh)
    BY <1>3
  <2> QED
    BY <2>1, <1>0 DEF TextsSorted
<1> HIDE DEF read
<1>7. WireIsRest'
  BY <1>0, <1>1 DEF WireIsRest
<1>8. PumpEnds'
  <2>1. ASSUME NEW k \in 1..Len(readCh')
        PROVE  OfSent(readCh[k])' /\ (IsMessage(readCh'[k]) \/ (k = Len(readCh') /\ pump' = "ended"))
    <3>1. k + 1 \in 1..Len(readCh) /\ readCh'[k] = readCh[k + 1] /\ (k + 1 = Len(readCh) => k = Len(readCh'))
      BY <1>11
    <3>2. OfSent(readCh[k + 1]) /\ (IsMessage(readCh[k + 1]) \/ (k + 1 = Len(readCh) /\ pump = "ended"))
      <4>1. \A i \in 1..Len(readCh) :
              OfSent(readCh[i]) /\ (IsMessage(readCh[i]) \/ (i = Len(readCh) /\ pump = "ended"))
        BY <1>0 DEF PumpEnds
      <4> QED
        BY <4>1, <3>1
    <3> QED
      BY <3>1, <3>2, <1>1 DEF OfSent, IsMessage
  <2>2. OfSent(inHand)'
    BY <1>0, <1>1 DEF PumpEnds, OfSent
  <2> QED
    BY <1>0, <1>1, <2>1, <2>2 DEF PumpEnds, NoRead
<1>9. CASE read.kind = "text"
  <2>1. /\ Len(got') = Len(got) + 1 /\ Len(got) \in Nat /\ got'[Len(got) + 1] = read.n
        /\ \A k \in 1..Len(got) : got'[k] = got[k]
    BY <1>4, <1>5, <1>9
  <2>2. Got' = Got \cup {read.n}
    BY <2>1 DEF Got
  <2>3. read.n \in Texts /\ read.n \in TextsOf(readCh)
    <3>1. OfSent(read) /\ IsMessage(read)
      <4>1. \A k \in 1..Len(readCh) : OfSent(readCh[k])
        BY <1>0 DEF PumpEnds
      <4>2. OfSent(readCh[1])
        BY <4>1, <1>3
      <4> QED
        BY <4>2, <1>9 DEF IsMessage, read
    <3> QED
      BY <3>1, <1>3, <1>9 DEF OfSent, Texts
  <2>4. TextsSorted'
    <3>1. \A j, k \in 1..Len(got') : j < k => got'[j] < got'[k]
      <4>1. \A j \in 1..Len(got) : got[j] < read.n
        BY <1>0, <2>3 DEF TextsSorted, Got
      <4> QED
        BY <4>1, <2>1, <1>0 DEF TextsSorted
    <3>2. \A j, k \in 1..Len(readCh') :
            j < k /\ readCh'[j].kind = "text" /\ readCh'[k].kind = "text" => readCh'[j].n < readCh'[k].n
      BY <1>0, <1>3 DEF TextsSorted
    <3> QED
      BY <1>0, <1>1, <1>3, <1>6, <1>9, <2>2, <2>3, <3>1, <3>2 DEF TextsSorted
  <2>5. NoTextMissing'
    <3>1. ASSUME NEW i \in Texts, i < read.n PROVE i \in Got
      <4>1. i \in Got \cup TextsOf(readCh)
        BY <1>0, <2>3, <3>1 DEF NoTextMissing
      <4>2. i \notin TextsOf(readCh') /\ i # read.n
        BY <1>5, <1>6, <1>9, <3>1 DEF Texts
      <4> QED
        BY <4>1, <4>2, <1>3
    <3>2. Got' \cup TextsOf(readCh') = Got \cup TextsOf(readCh)
      BY <2>2, <1>3, <1>9
    <3>3. result' = "frame"
      BY <1>4, <1>9
    <3> QED
      BY <1>0, <1>1, <1>3, <2>2, <3>1, <3>2, <3>3 DEF NoTextMissing
  <2> QED
    BY <1>7, <1>8, <2>4, <2>5
<1>10. CASE read.kind # "text"
  <2>1. got' = got /\ Got' = Got /\ TextsOf(readCh') = TextsOf(readCh)
    BY <1>3, <1>4, <1>10 DEF Got
  <2>2. \A j, k \in 1..Len(readCh') :
          j < k /\ readCh'[j].kind = "text" /\ readCh'[k].kind = "text" => readCh'[j].n < readCh'[k].n
    BY <1>0, <1>3 DEF TextsSorted
  <2>3. TextsSorted'
    BY <1>0, <1>1, <2>1, <2>2 DEF TextsSorted
  <2>4. result' = "eof" => done \/ Texts \subseteq Got
    <3> SUFFICES ASSUME result' = "eof", ~done PROVE Texts \subseteq Got
      OBVIOUS
    <3>1. read.kind = "normal"
      BY <1>4, <1>10, Zenon
    <3>2. Len(readCh) = 1 /\ pump = "ended"
      <4>1. ~IsMessage(readCh[1]) /\ 1 \in 1..Len(readCh)
        BY <1>3, <3>1 DEF IsMessage, read
      <4>2. \A k \in 1..Len(readCh) : IsMessage(readCh[k]) \/ (k = Len(readCh) /\ pump = "ended")
        BY <1>0 DEF PumpEnds
      <4> QED
        BY <4>1, <4>2
    <3>3. TextsOf(readCh) = {}
      <4>1. Len(readCh') = 0
        BY <3>2, <1>3
      <4>2. TextsOf(readCh') = {}
        BY <4>1 DEF TextsOf
      <4> QED
        BY <4>2, <2>1
    <3>4. wire = <<>> /\ InHand = {}
      BY <1>0, <3>2 DEF PumpEnds, InHand, NoRead
    <3>5. \A i \in Texts : i <= Taken
      BY <3>4, Numbers, <1>0 DEF Taken, Texts
    <3> QED
      BY <1>0, <3>2, <3>3, <3>4, <3>5 DEF NoTextMissing
  <2>5. NoTextMissing'
    BY <1>0, <1>1, <2>1, <2>4 DEF NoTextMissing
  <2> QED
    BY <1>7, <1>8, <2>3, <2>5
<1> QED
  BY <1>9, <1>10

LEMMA OrderedNext == TypeOK /\ Ordered /\ [Next]_vars => Ordered'
<1> SUFFICES ASSUME TypeOK, Ordered, [Next]_vars PROVE Ordered'
  OBVIOUS
<1>1. kind' = kind
  BY DEF Next, vars, Open, OpenSucceeds, OpenFails, TryAgain, BackoffInterrupted, CallRecv, RecvHTTP, ReadByte,
     ReadEnd, ReadFails, ReadAtEnd, Pump, PumpPongs, PumpReads, PumpBreaks, PumpSends, PumpStops, RecvWS,
     RecvTakes, RecvAfterEnd, RecvInterrupted, Close, ContextEnds, NextTurn
<1>2. CASE kind # "ws"
  BY <1>1, <1>2 DEF Ordered
<1>3. CASE Pump /\ kind = "ws"
  BY <1>3, OrderedPump
<1>4. CASE RecvTakes
  BY <1>4, OrderedTakes
<1>5. CASE RecvAfterEnd /\ kind = "ws"
  <2>1. /\ readCh = <<>> /\ pump = "ended" /\ result' = "eof"
        /\ UNCHANGED <<kind, sent, wire, pump, inHand, readCh, got, done>>
    BY <1>5 DEF RecvAfterEnd, Returns, wsVars
  <2>2. WireIsRest /\ PumpEnds /\ TextsSorted /\ NoTextMissing
    BY <1>5 DEF Ordered
  <2>3. /\ Texts' = Texts /\ Got' = Got /\ TextsOf(readCh') = TextsOf(readCh) /\ InHand' = InHand
        /\ Taken' = Taken
    BY <2>1 DEF Texts, Got, TextsOf, InHand, Taken
  <2>4. ~done => Texts \subseteq Got
    <3> SUFFICES ASSUME ~done PROVE Texts \subseteq Got
      OBVIOUS
    <3>1. TextsOf(readCh) = {} /\ InHand = {} /\ wire = <<>>
      BY <2>1, <2>2 DEF TextsOf, InHand, PumpEnds, NoRead
    <3>2. \A i \in Texts : i <= Taken
      BY <3>1, <1>5, Numbers DEF Taken, Texts
    <3> QED
      BY <2>2, <3>1, <3>2 DEF NoTextMissing
  <2>5. WireIsRest'
    BY <2>1, <2>2, <2>3 DEF WireIsRest
  <2>6. PumpEnds'
    BY <2>1, <2>2 DEF PumpEnds, OfSent, NoRead
  <2>7. TextsSorted'
    BY <2>1, <2>2, <2>3 DEF TextsSorted
  <2>8. NoTextMissing'
    BY <2>1, <2>2, <2>3, <2>4 DEF NoTextMissing
  <2> QED
    BY <2>5, <2>6, <2>7, <2>8 DEF Ordered
<1>6. CASE ~Pump /\ ~RecvTakes /\ ~RecvAfterEnd /\ kind = "ws"
  <2>1. UNCHANGED <<sent, wire, pump, inHand, readCh>> /\ (done => done')
    <3>1. UNCHANGED wsVars \/ Close
      BY <1>6 DEF Next, vars, Open, OpenSucceeds, OpenFails, TryAgain, BackoffInterrupted, CallRecv, RecvHTTP,
         ReadByte, ReadEnd, ReadFails, ReadAtEnd, RecvWS, RecvInterrupted, ContextEnds, NextTurn
    <3> QED
      BY <3>1 DEF Close, wsVars
  <2>2. got' = got
    BY <1>6 DEF Next, vars, Open, OpenSucceeds, OpenFails, TryAgain, BackoffInterrupted, CallRecv, RecvHTTP,
       ReadByte, ReadEnd, ReadFails, ReadAtEnd, RecvWS, RecvInterrupted, Close, ContextEnds, NextTurn
  <2>3. result' \in {result, "ctx"} \/ result' = "error"
    BY <1>6 DEF Next, vars, Open, OpenSucceeds, OpenFails, TryAgain, BackoffInterrupted, CallRecv, RecvHTTP,
       ReadByte, ReadEnd, ReadFails, ReadAtEnd, RecvWS, RecvInterrupted, Close, ContextEnds, NextTurn, Returns
  <2> QED
    BY <1>1, <2>1, <2>2, <2>3, OrderedElsewhere
<1> QED
  BY <1>2, <1>3, <1>4, <1>5, <1>6

\* The text messages of a WebSocket come in the order in which they were sent and none is
\* left out, whatever the server sends, however small readCh is and however often Recv is
\* interrupted; unless the stream was closed here, io.EOF comes after all of them
\* (websocket.go:160-185, 216-240).
THEOREM MessagesCorrect == Spec => []MessagesInOrder
<1>1. Init => TypeOK /\ Retried /\ Ordered
  BY TypesInit, RetriedInit, OrderedInit
<1>2. TypeOK /\ Retried /\ Ordered /\ [Next]_vars => TypeOK' /\ Retried' /\ Ordered'
  BY TypesNext, RetriedNext, OrderedNext
<1>3. Ordered => MessagesInOrder
  BY DEF Ordered, TextsSorted, NoTextMissing, MessagesInOrder, Texts, Got
<1> QED
  BY <1>1, <1>2, <1>3, PTL DEF Spec

-----------------------------------------------------------------------------
\* Appending changes nothing of what was there.
LEMMA AppendFacts ==
  ASSUME NEW S, NEW s \in Seq(S), NEW e \in S
  PROVE  /\ Len(s) \in Nat /\ DOMAIN s = 1..Len(s)
         /\ Append(s, e) \in Seq(S) /\ Len(Append(s, e)) = Len(s) + 1
         /\ DOMAIN Append(s, e) = 1..(Len(s) + 1)
         /\ \A i \in 1..Len(s) : Append(s, e)[i] = s[i]
         /\ Append(s, e)[Len(s) + 1] = e
OBVIOUS

\* A new greatest number comes last.
LEMMA AscendingGrows ==
  ASSUME NEW S \in SUBSET Nat, IsFiniteSet(S), NEW n \in Nat, \A i \in S : i < n
  PROVE  /\ IsFiniteSet(S \cup {n})
         /\ Cardinality(S) \in Nat /\ Cardinality(S \cup {n}) = Cardinality(S) + 1
         /\ DOMAIN Ascending(S) = 1..Cardinality(S)
         /\ DOMAIN Ascending(S \cup {n}) = 1..(Cardinality(S) + 1)
         /\ \A k \in 1..Cardinality(S) : Ascending(S \cup {n})[k] = Ascending(S)[k]
         /\ Ascending(S \cup {n})[Cardinality(S) + 1] = n
<1> DEFINE T == S \cup {n}
           UpTo(U, i) == {j \in U : j <= i}
           At(U, k) == {i \in U : Cardinality(UpTo(U, i)) = k}
           c == Cardinality(S)
<1>1. /\ IsFiniteSet(T) /\ c \in Nat /\ Cardinality(T) = c + 1
  BY FS_AddElement, FS_CardinalityType
<1>0. T \in SUBSET Nat /\ n \in T /\ n \notin S /\ S \subseteq T /\ \A i \in T : i \in S \/ i = n
  OBVIOUS
<1>5. /\ Ascending(S) = [k \in 1..c |-> CHOOSE i \in At(S, k) : TRUE]
      /\ Ascending(T) = [k \in 1..Cardinality(T) |-> CHOOSE i \in At(T, k) : TRUE]
  BY DEF Ascending
<1>2. \A i \in S : UpTo(T, i) = UpTo(S, i)
  OBVIOUS
<1> HIDE DEF T
<1>3. UpTo(T, n) = T
  <2>1. \A i \in T : i <= n
    BY <1>0
  <2> QED
    BY <2>1
<1>4. \A i \in S : Cardinality(UpTo(S, i)) \in Nat /\ Cardinality(UpTo(S, i)) <= c
  BY FS_Subset, FS_CardinalityType
<1> HIDE DEF c, UpTo
<1>6. ASSUME NEW k \in 1..c PROVE At(T, k) = At(S, k)
  <2>1. k # c + 1
    BY <1>1
  <2>2. Cardinality(UpTo(T, n)) = c + 1
    BY <1>1, <1>3
  <2> QED
    BY <1>0, <1>2, <2>1, <2>2
<1>7. At(T, c + 1) = {n}
  <2>1. \A i \in S : Cardinality(UpTo(T, i)) # c + 1
    BY <1>1, <1>2, <1>4
  <2>2. Cardinality(UpTo(T, n)) = c + 1
    BY <1>1, <1>3
  <2> QED
    BY <1>0, <2>1, <2>2
<1> HIDE DEF At
<1>8. \A k \in 1..c : Ascending(T)[k] = Ascending(S)[k]
  <2> TAKE k \in 1..c
  <2>1. k \in 1..(c + 1) /\ Cardinality(T) = c + 1
    BY <1>1
  <2>2. Ascending(T)[k] = CHOOSE i \in At(T, k) : TRUE
    BY <1>5, <2>1
  <2>3. Ascending(S)[k] = CHOOSE i \in At(S, k) : TRUE
    BY <1>5
  <2> QED
    BY <1>6, <2>2, <2>3
<1>9. Ascending(T)[c + 1] = n
  <2>1. c + 1 \in 1..(c + 1) /\ Cardinality(T) = c + 1
    BY <1>1
  <2>2. Ascending(T)[c + 1] = CHOOSE i \in At(T, c + 1) : TRUE
    BY <1>5, <2>1
  <2>3. (CHOOSE i \in {n} : TRUE) = n
    OBVIOUS
  <2> QED
    BY <1>7, <2>2, <2>3
<1> QED
  BY <1>1, <1>5, <1>8, <1>9 DEF c, T

LEMMA AscendingNone == Ascending({}) = <<>> /\ Cardinality({}) = 0
BY FS_EmptySet DEF Ascending

\* Two sequences with the same elements are the same.
LEMMA SameElements ==
  ASSUME NEW S, NEW s \in Seq(S), NEW t \in Seq(S), Len(s) = Len(t),
         \A i \in 1..Len(s) : s[i] = t[i]
  PROVE  s = t
<1>1. \A u \in Seq(S) : u = [i \in 1..Len(u) |-> u[i]]
  OBVIOUS
<1> QED
  BY <1>1

LEMMA ArrayIsSequence ==
  ASSUME NEW S, NEW n \in Nat, NEW f \in [1..n -> S]
  PROVE  f \in Seq(S) /\ Len(f) = n
OBVIOUS

LEMMA SeqMonotone ==
  ASSUME NEW S, NEW T, S \subseteq T, NEW s \in Seq(S)
  PROVE  s \in Seq(T)
OBVIOUS

\* As sequences.
LEMMA AscendingAppends ==
  ASSUME NEW S \in SUBSET Nat, IsFiniteSet(S), NEW n \in Nat, \A i \in S : i < n,
         Ascending(S) \in Seq(S)
  PROVE  /\ Ascending(S \cup {n}) = Append(Ascending(S), n)
         /\ Ascending(S \cup {n}) \in Seq(S \cup {n}) /\ IsFiniteSet(S \cup {n})
<1> DEFINE a == Ascending(S)
           T == S \cup {n}
           c == Cardinality(S)
           G(k) == CHOOSE i \in {j \in T : Cardinality({l \in T : l <= j}) = k} : TRUE
<1>1. /\ c \in Nat /\ Cardinality(T) = c + 1 /\ DOMAIN a = 1..c /\ IsFiniteSet(T)
      /\ \A k \in 1..c : Ascending(T)[k] = a[k]
      /\ Ascending(T)[c + 1] = n
  BY AscendingGrows
<1>2. Ascending(T) = [k \in 1..Cardinality(T) |-> G(k)]
  BY DEF Ascending
<1>3. Len(a) = c
  BY <1>1
<1>7. a \in Seq(S) /\ a \in Seq(T) /\ n \in T
  <2>1. \A f \in Seq(S) : f \in Seq(T)
    OBVIOUS
  <2> QED
    BY <2>1
<1>0. \A i \in S : i \in T
  OBVIOUS
<1> HIDE DEF a, T, c, G
<1>4. \A k \in 1..c : a[k] \in T
  <2> TAKE k \in 1..c
  <2>1. k \in 1..Len(a) /\ a \in Seq(T)
    BY <1>3, <1>7
  <2> QED
    BY <2>1, ElementFacts
<1>5. Ascending(T) \in [1..(c + 1) -> T]
  <2>1. Ascending(T) = [k \in 1..(c + 1) |-> G(k)]
    BY <1>1, <1>2
  <2>2. ASSUME NEW k \in 1..(c + 1) PROVE Ascending(T)[k] \in T
    <3>1. c \in Nat
      BY <1>1
    <3>2. k \in 1..c \/ k = c + 1
      BY <3>1
    <3> QED
      BY <3>2, <1>1, <1>4, <1>7
  <2> QED
    BY <2>1, <2>2
<1>6. Ascending(T) \in Seq(T) /\ Len(Ascending(T)) = c + 1
  BY <1>1, <1>5, ArrayIsSequence
<1>8. Ascending(T) = Append(a, n)
  <2>1. Append(a, n) \in Seq(T) /\ Len(Append(a, n)) = c + 1
    BY <1>3, <1>7, AppendFacts
  <2>2. \A i \in 1..(c + 1) : Ascending(T)[i] = Append(a, n)[i]
    BY <1>1, <1>3, <1>7, AppendFacts
  <2> QED
    BY <1>6, <2>1, <2>2, SameElements
<1> QED
  BY <1>1, <1>6, <1>8 DEF a, T

-----------------------------------------------------------------------------
Bytes == {"x", "CR", "LF"}

\* The bytes of a line from i to j.
Count(body, i, j) == Cardinality({l \in i..j : body[l] = "x"})

LEMMA CountFacts ==
  ASSUME NEW body \in Seq(Bytes), NEW b \in Bytes, NEW i \in Nat \ {0}
  PROVE  /\ \A j \in Nat : Count(body, i, j) \in Nat
         /\ \A j \in Nat : j < i => Count(body, i, j) = 0
         /\ \A j \in 0..Len(body) : Count(Append(body, b), i, j) = Count(body, i, j)
         /\ i <= Len(body) + 1 =>
              Count(Append(body, b), i, Len(body) + 1) = Count(body, i, Len(body)) + IF b = "x" THEN 1 ELSE 0
<1> DEFINE X(s, j) == {l \in i..j : s[l] = "x"}
           longer == Append(body, b)
           n == Len(body)
<1>0. /\ n \in Nat /\ \A l \in 1..n : longer[l] = body[l]
      /\ longer[n + 1] = b
  BY AppendFacts
<1> HIDE DEF longer, n
<1>1. ASSUME NEW s, NEW j \in Nat PROVE IsFiniteSet(X(s, j)) /\ Cardinality(X(s, j)) \in Nat
  <2>1. IsFiniteSet(i..j) /\ X(s, j) \in SUBSET (i..j)
    BY FS_Interval
  <2> QED
    BY <2>1, FS_Subset, FS_CardinalityType
<1>2. ASSUME NEW j \in Nat, j < i PROVE Cardinality(X(body, j)) = 0
  <2>1. X(body, j) = {}
    BY <1>2
  <2> QED
    BY <2>1, FS_EmptySet
<1>3. ASSUME NEW j \in 0..n PROVE X(longer, j) = X(body, j)
  BY <1>0
<1>4. ASSUME i <= n + 1 PROVE Cardinality(X(longer, n + 1)) = Cardinality(X(body, n)) + IF b = "x" THEN 1 ELSE 0
  <2>1. X(longer, n + 1) = X(body, n) \cup IF b = "x" THEN {n + 1} ELSE {}
    <3>1. \A l : l \in i..(n + 1) <=> l \in i..n \/ l = n + 1
      BY <1>4, <1>0
    <3>2. \A l \in i..n : longer[l] = body[l]
      BY <1>0
    <3> QED
      BY <3>1, <3>2, <1>0
  <2>2. n + 1 \notin X(body, n)
    BY <1>0
  <2>3. CASE b = "x"
    <3>1. X(longer, n + 1) = X(body, n) \cup {n + 1}
      BY <2>1, <2>3
    <3>2. IsFiniteSet(X(body, n)) /\ Cardinality(X(body, n)) \in Nat
      BY <1>0, <1>1
    <3> HIDE DEF X
    <3> QED
      BY <2>2, <2>3, <3>1, <3>2, FS_AddElement
  <2>4. CASE b # "x"
    <3>1. X(longer, n + 1) = X(body, n)
      BY <2>1, <2>4
    <3>2. Cardinality(X(body, n)) \in Nat
      BY <1>0, <1>1
    <3> HIDE DEF X
    <3> QED
      BY <2>4, <3>1, <3>2
  <2> QED
    BY <2>3, <2>4
<1> QED
  BY <1>1, <1>2, <1>3, <1>4 DEF Count, longer, n

\* The lines that are ended, and what there is of the next one.
Ends(fmt, body) == Ascending(LineEnds(fmt, body))
From(fmt, body, k) == IF k = 1 THEN 1 ELSE Ends(fmt, body)[k - 1] + 1
Whole(fmt, body) == [k \in 1..Len(Ends(fmt, body)) |-> Count(body, From(fmt, body, k), Ends(fmt, body)[k] - 1)]
Rest(fmt, body) == Count(body, From(fmt, body, Len(Ends(fmt, body)) + 1), Len(body))

Endable(fmt, body) == Ends(fmt, body) \in Seq(LineEnds(fmt, body))

LEMMA LineEndsFacts ==
  ASSUME NEW fmt, NEW body \in Seq(Bytes)
  PROVE  /\ LineEnds(fmt, body) \in SUBSET (1..Len(body)) /\ LineEnds(fmt, body) \in SUBSET Nat
         /\ IsFiniteSet(LineEnds(fmt, body))
<1>1. DOMAIN body = 1..Len(body) /\ Len(body) \in Nat
  OBVIOUS
<1>2. LineEnds(fmt, body) \in SUBSET (1..Len(body))
  BY <1>1 DEF LineEnds
<1>3. IsFiniteSet(1..Len(body)) /\ 1..Len(body) \subseteq Nat
  BY <1>1, FS_Interval
<1> QED
  BY <1>2, <1>3, FS_Subset

LEMMA FromFacts ==
  ASSUME NEW fmt, NEW body \in Seq(Bytes), Endable(fmt, body)
  PROVE  /\ Len(Ends(fmt, body)) \in Nat
         /\ \A k \in 1..Len(Ends(fmt, body)) : Ends(fmt, body)[k] \in 1..Len(body)
         /\ \A k \in 1..(Len(Ends(fmt, body)) + 1) : From(fmt, body, k) \in 1..(Len(body) + 1)
<1> DEFINE e == Ends(fmt, body)
<1>1. e \in Seq(LineEnds(fmt, body)) /\ LineEnds(fmt, body) \in SUBSET (1..Len(body)) /\ Len(body) \in Nat
  BY LineEndsFacts DEF Endable
<1> HIDE DEF e
<1>2. Len(e) \in Nat /\ \A k \in 1..Len(e) : e[k] \in 1..Len(body)
  BY <1>1, ElementFacts
<1>3. \A k \in 1..(Len(e) + 1) : (IF k = 1 THEN 1 ELSE e[k - 1] + 1) \in 1..(Len(body) + 1)
  <2> TAKE k \in 1..(Len(e) + 1)
  <2>1. k # 1 => k - 1 \in 1..Len(e)
    BY <1>2
  <2> QED
    BY <1>1, <1>2, <2>1
<1> QED
  BY <1>2, <1>3 DEF e, From

LEMMA LinesFacts ==
  ASSUME NEW fmt, NEW body \in Seq(Bytes), Endable(fmt, body)
  PROVE  /\ Whole(fmt, body) \in Seq(Nat) /\ Rest(fmt, body) \in Nat
         /\ Len(Whole(fmt, body)) = Len(Ends(fmt, body))
         /\ Lines(fmt, body) = Append(Whole(fmt, body), Rest(fmt, body))
<1> DEFINE e == Ends(fmt, body)
           m == Len(e)
           n == Len(body)
           w == Whole(fmt, body)
           ends == Append(e, n + 1)
<1>1. /\ m \in Nat /\ n \in Nat
      /\ \A k \in 1..m : e[k] \in 1..n
      /\ \A k \in 1..(m + 1) : From(fmt, body, k) \in 1..(n + 1)
  BY FromFacts
<1>2. e \in Seq(Nat)
  <2>1. LineEnds(fmt, body) \in SUBSET Nat /\ e \in Seq(LineEnds(fmt, body))
    BY LineEndsFacts DEF Endable
  <2> QED
    BY <2>1, SeqMonotone
<1>3. /\ w = [k \in 1..m |-> Count(body, From(fmt, body, k), e[k] - 1)]
      /\ Rest(fmt, body) = Count(body, From(fmt, body, m + 1), n)
  BY DEF Whole, Rest
<1>4. Lines(fmt, body) = [k \in DOMAIN ends |-> Count(body, IF k = 1 THEN 1 ELSE ends[k - 1] + 1, ends[k] - 1)]
  BY DEF Lines, Count, Ends
<1> HIDE DEF e, m, n, w
<1>5. /\ DOMAIN ends = 1..(m + 1) /\ ends[m + 1] = n + 1
      /\ \A k \in 1..m : ends[k] = e[k]
  BY <1>1, <1>2, AppendFacts DEF m
<1>6. \A k \in 1..(m + 1) : (IF k = 1 THEN 1 ELSE ends[k - 1] + 1) = From(fmt, body, k)
  <2> TAKE k \in 1..(m + 1)
  <2>1. k # 1 => k - 1 \in 1..m
    BY <1>1
  <2> QED
    BY <1>5, <2>1 DEF From, e
<1>7. \A k \in 1..m : Count(body, From(fmt, body, k), e[k] - 1) \in Nat
  <2> TAKE k \in 1..m
  <2>1. e[k] - 1 \in Nat /\ From(fmt, body, k) \in Nat \ {0}
    BY <1>1
  <2> QED
    BY <2>1, CountFacts DEF Bytes
<1>8. w \in Seq(Nat) /\ Len(w) = m
  BY <1>1, <1>3, <1>7, ArrayIsSequence
<1>9. Rest(fmt, body) \in Nat
  <2>1. From(fmt, body, m + 1) \in Nat \ {0}
    BY <1>1
  <2> QED
    BY <1>1, <1>3, <2>1, CountFacts DEF Bytes
<1> HIDE DEF ends
<1>10. Lines(fmt, body) \in [1..(m + 1) -> Nat]
  <2>1. ASSUME NEW k \in 1..(m + 1)
        PROVE  Count(body, From(fmt, body, k), ends[k] - 1) \in Nat
    <3>1. ends[k] - 1 \in Nat /\ From(fmt, body, k) \in Nat \ {0}
      BY <1>1, <1>5
    <3> QED
      BY <3>1, CountFacts DEF Bytes
  <2> QED
    BY <1>4, <1>5, <1>6, <2>1
<1>11. \A k \in 1..(m + 1) : Lines(fmt, body)[k] = Append(w, Rest(fmt, body))[k]
  <2> TAKE k \in 1..(m + 1)
  <2>1. Lines(fmt, body)[k] = Count(body, From(fmt, body, k), ends[k] - 1)
    BY <1>4, <1>5, <1>6
  <2>0. /\ Append(w, Rest(fmt, body))[m + 1] = Rest(fmt, body)
        /\ \A l \in 1..m : Append(w, Rest(fmt, body))[l] = w[l]
    BY <1>8, <1>9, AppendFacts
  <2>2. CASE k = m + 1
    <3>1. ends[k] - 1 = n
      BY <1>1, <1>5, <2>2
    <3> QED
      BY <2>0, <2>1, <2>2, <3>1, <1>3
  <2>3. CASE k \in 1..m
    <3>1. w[k] = Count(body, From(fmt, body, k), e[k] - 1) /\ ends[k] = e[k]
      BY <2>3, <1>3, <1>5
    <3> QED
      BY <2>0, <2>1, <2>3, <3>1
  <2>4. m \in Nat
    BY <1>1
  <2>5. k = m + 1 \/ k \in 1..m
    BY <2>4
  <2> QED
    BY <2>2, <2>3, <2>5
<1>12. Lines(fmt, body) \in Seq(Nat) /\ Len(Lines(fmt, body)) = m + 1
  BY <1>1, <1>10, ArrayIsSequence
<1>13. Append(w, Rest(fmt, body)) \in Seq(Nat) /\ Len(Append(w, Rest(fmt, body))) = m + 1
  BY <1>8, <1>9, AppendFacts
<1> QED
  BY <1>8, <1>9, <1>11, <1>12, <1>13, SameElements DEF w, m, e

\* A byte that ends no line.
LEMMA LineGoesOn ==
  ASSUME NEW fmt, NEW body \in Seq(Bytes), NEW b \in Bytes, Endable(fmt, body),
         LineEnds(fmt, Append(body, b)) = LineEnds(fmt, body)
  PROVE  /\ Endable(fmt, Append(body, b))
         /\ Whole(fmt, Append(body, b)) = Whole(fmt, body)
         /\ Rest(fmt, Append(body, b)) = Rest(fmt, body) + IF b = "x" THEN 1 ELSE 0
<1> DEFINE longer == Append(body, b)
           m == Len(Ends(fmt, body))
           n == Len(body)
<1>1. Ends(fmt, longer) = Ends(fmt, body)
  BY DEF Ends
<1>2. \A k : From(fmt, longer, k) = From(fmt, body, k)
  BY <1>1 DEF From
<1>3. /\ m \in Nat /\ n \in Nat
      /\ \A k \in 1..m : Ends(fmt, body)[k] \in 1..n
      /\ \A k \in 1..(m + 1) : From(fmt, body, k) \in 1..(n + 1)
  BY FromFacts
<1>4. Len(longer) = n + 1
  BY AppendFacts
<1>5. /\ Whole(fmt, longer) = [k \in 1..m |-> Count(longer, From(fmt, body, k), Ends(fmt, body)[k] - 1)]
      /\ Rest(fmt, longer) = Count(longer, From(fmt, body, m + 1), n + 1)
  BY <1>1, <1>2, <1>4 DEF Whole, Rest
<1>6. /\ Whole(fmt, body) = [k \in 1..m |-> Count(body, From(fmt, body, k), Ends(fmt, body)[k] - 1)]
      /\ Rest(fmt, body) = Count(body, From(fmt, body, m + 1), n)
  BY DEF Whole, Rest
<1>7. ASSUME NEW k \in 1..m
      PROVE  Count(longer, From(fmt, body, k), Ends(fmt, body)[k] - 1)
             = Count(body, From(fmt, body, k), Ends(fmt, body)[k] - 1)
  <2>1. From(fmt, body, k) \in Nat \ {0} /\ Ends(fmt, body)[k] - 1 \in 0..n
    BY <1>3
  <2> QED
    BY <2>1, CountFacts
<1>8. Count(longer, From(fmt, body, m + 1), n + 1)
      = Count(body, From(fmt, body, m + 1), n) + IF b = "x" THEN 1 ELSE 0
  <2>1. From(fmt, body, m + 1) \in Nat \ {0} /\ From(fmt, body, m + 1) <= n + 1
    BY <1>3
  <2> QED
    BY <2>1, CountFacts
<1>9. Endable(fmt, longer)
  BY <1>1 DEF Endable
<1> QED
  BY <1>5, <1>6, <1>7, <1>8, <1>9

\* A byte that ends one.
LEMMA LineEndsHere ==
  ASSUME NEW fmt, NEW body \in Seq(Bytes), NEW b \in Bytes, Endable(fmt, body), b # "x",
         LineEnds(fmt, Append(body, b)) = LineEnds(fmt, body) \cup {Len(body) + 1}
  PROVE  /\ Endable(fmt, Append(body, b))
         /\ Whole(fmt, Append(body, b)) = Append(Whole(fmt, body), Rest(fmt, body))
         /\ Rest(fmt, Append(body, b)) = 0
<1> DEFINE longer == Append(body, b)
           e == Ends(fmt, body)
           m == Len(e)
           n == Len(body)
           w == Whole(fmt, body)
<1>1. /\ m \in Nat /\ n \in Nat
      /\ \A k \in 1..m : e[k] \in 1..n
      /\ \A k \in 1..(m + 1) : From(fmt, body, k) \in 1..(n + 1)
  BY FromFacts
<1>2. Ends(fmt, longer) = Append(e, n + 1) /\ Endable(fmt, longer)
  <2>1. /\ LineEnds(fmt, body) \in SUBSET (1..n) /\ LineEnds(fmt, body) \in SUBSET Nat
        /\ IsFiniteSet(LineEnds(fmt, body)) /\ Ascending(LineEnds(fmt, body)) \in Seq(LineEnds(fmt, body))
    BY LineEndsFacts DEF Endable, Ends
  <2>2. n + 1 \in Nat /\ \A i \in LineEnds(fmt, body) : i < n + 1
    BY <2>1, <1>1
  <2> HIDE DEF n
  <2> QED
    BY <2>1, <2>2, AscendingAppends DEF Ends, Endable, n
<1>3. /\ \A k \in 1..m : Append(e, n + 1)[k] = e[k]
      /\ Append(e, n + 1)[m + 1] = n + 1 /\ Len(Append(e, n + 1)) = m + 1
  <2>1. e \in Seq(Nat)
    BY LineEndsFacts, SeqMonotone DEF Endable
  <2> HIDE DEF e
  <2> QED
    BY <2>1, <1>1, AppendFacts
<1>4. Len(longer) = n + 1
  BY AppendFacts
<1>5. \A k \in 1..(m + 1) : From(fmt, longer, k) = From(fmt, body, k)
  <2> TAKE k \in 1..(m + 1)
  <2>1. k # 1 => k - 1 \in 1..m
    BY <1>1
  <2> QED
    BY <1>2, <1>3, <2>1 DEF From
<1>6. From(fmt, longer, m + 2) = n + 2
  <2>1. m + 2 # 1 /\ (m + 2) - 1 = m + 1 /\ (n + 1) + 1 = n + 2
    BY <1>1
  <2>2. From(fmt, longer, m + 2) = IF m + 2 = 1 THEN 1 ELSE Append(e, n + 1)[(m + 2) - 1] + 1
    BY <1>2 DEF From
  <2> QED
    BY <2>1, <2>2, <1>3
<1>7. /\ Whole(fmt, longer) = [k \in 1..(m + 1) |-> Count(longer, From(fmt, longer, k), Append(e, n + 1)[k] - 1)]
      /\ Rest(fmt, longer) = Count(longer, From(fmt, longer, (m + 1) + 1), n + 1)
  BY <1>2, <1>3, <1>4 DEF Whole, Rest
<1>8. /\ w = [k \in 1..m |-> Count(body, From(fmt, body, k), e[k] - 1)]
      /\ Rest(fmt, body) = Count(body, From(fmt, body, m + 1), n)
  BY DEF Whole, Rest
<1>13. w \in Seq(Nat) /\ Len(w) = m /\ Rest(fmt, body) \in Nat
  BY LinesFacts
<1>9. Rest(fmt, longer) = 0
  <2>1. (m + 1) + 1 = m + 2 /\ n + 2 \in Nat \ {0} /\ n + 1 \in Nat /\ n + 1 < n + 2
    BY <1>1
  <2>2. longer \in Seq(Bytes)
    BY AppendFacts
  <2> HIDE DEF longer
  <2>3. Count(longer, n + 2, n + 1) = 0
    BY <2>1, <2>2, CountFacts
  <2> QED
    BY <2>1, <2>3, <1>6, <1>7
<1> HIDE DEF w, e, m, n
<1>10. ASSUME NEW k \in 1..(m + 1) PROVE Whole(fmt, longer)[k] = Append(w, Rest(fmt, body))[k]
  <2>0. /\ Append(w, Rest(fmt, body))[m + 1] = Rest(fmt, body)
        /\ \A l \in 1..m : Append(w, Rest(fmt, body))[l] = w[l]
    BY <1>13, AppendFacts
  <2>1. Whole(fmt, longer)[k] = Count(longer, From(fmt, body, k), Append(e, n + 1)[k] - 1)
    BY <1>5, <1>7
  <2>2. CASE k = m + 1
    <3>1. Append(e, n + 1)[k] - 1 = n
      BY <1>1, <1>3, <2>2
    <3>2. From(fmt, body, k) \in Nat \ {0} /\ n \in 0..n
      BY <1>1
    <3>3. Count(longer, From(fmt, body, k), n) = Count(body, From(fmt, body, k), n)
      BY <3>2, CountFacts DEF n
    <3> QED
      BY <2>0, <2>1, <2>2, <3>1, <3>3, <1>8
  <2>3. CASE k \in 1..m
    <3>1. From(fmt, body, k) \in Nat \ {0} /\ e[k] - 1 \in 0..n
      BY <1>1, <2>3
    <3>2. Count(longer, From(fmt, body, k), e[k] - 1) = Count(body, From(fmt, body, k), e[k] - 1)
      BY <3>1, CountFacts DEF n
    <3> QED
      BY <2>0, <2>1, <2>3, <3>2, <1>3, <1>8
  <2>4. m \in Nat
    BY <1>1
  <2>5. k = m + 1 \/ k \in 1..m
    BY <2>4
  <2> QED
    BY <2>2, <2>3, <2>5
<1>11. Whole(fmt, longer) \in Seq(Nat) /\ Len(Whole(fmt, longer)) = m + 1
  <2>1. longer \in Seq(Bytes)
    BY AppendFacts
  <2> QED
    BY <2>1, <1>2, <1>3, LinesFacts
<1>12. Append(w, Rest(fmt, body)) \in Seq(Nat) /\ Len(Append(w, Rest(fmt, body))) = m + 1
  BY <1>13, AppendFacts
<1> QED
  BY <1>2, <1>9, <1>10, <1>11, <1>12, SameElements DEF w

-----------------------------------------------------------------------------
\* Which bytes end a line.
EndsLine(fmt, body, b) ==
  \/ b = "LF" /\ ~(fmt = "sse" /\ body # <<>> /\ body[Len(body)] = "CR")
  \/ b = "CR" /\ fmt = "sse"

LEMMA LineEndsOfAppend ==
  ASSUME NEW fmt, NEW body \in Seq(Bytes), NEW b \in Bytes
  PROVE  LineEnds(fmt, Append(body, b)) =
           LineEnds(fmt, body) \cup IF EndsLine(fmt, body, b) THEN {Len(body) + 1} ELSE {}
<1> DEFINE longer == Append(body, b)
           n == Len(body)
           Is(s, i) == /\ s[i] = "LF" \/ (fmt = "sse" /\ s[i] = "CR")
                       /\ ~(fmt = "sse" /\ i > 1 /\ s[i - 1] = "CR" /\ s[i] = "LF")
<1>1. /\ n \in Nat /\ DOMAIN body = 1..n /\ DOMAIN longer = 1..(n + 1)
      /\ \A i \in 1..n : longer[i] = body[i]
      /\ longer[n + 1] = b
      /\ body # <<>> <=> n > 0
  BY AppendFacts
<1>2. /\ LineEnds(fmt, body) = {i \in 1..n : Is(body, i)}
      /\ LineEnds(fmt, longer) = {i \in 1..(n + 1) : Is(longer, i)}
  BY <1>1 DEF LineEnds
<1> HIDE DEF longer, n
<1>3. \A i \in 1..n : Is(longer, i) <=> Is(body, i)
  <2> TAKE i \in 1..n
  <2>1. i > 1 => i - 1 \in 1..n
    BY <1>1
  <2> QED
    BY <1>1, <2>1
<1>4. Is(longer, n + 1) <=> EndsLine(fmt, body, b)
  <2>1. n + 1 > 1 <=> n > 0
    BY <1>1
  <2>2. n > 0 => n \in 1..n /\ (n + 1) - 1 = n
    BY <1>1
  <2> QED
    BY <1>1, <2>1, <2>2 DEF EndsLine, n
<1> HIDE DEF Is
<1>5. 1..(n + 1) = (1..n) \cup {n + 1}
  BY <1>1
<1> QED
  BY <1>2, <1>3, <1>4, <1>5 DEF longer, n

-----------------------------------------------------------------------------
\* The reader of SSE after the lines that are whole: the frames that are over, and the block.
Begun(lines, block) == {i \in Starts(lines) : i < Len(lines) - Len(block) + 1}

Splits(lines, frames, block) ==
  LET s == Len(lines) - Len(block) + 1
  IN /\ s \in Nat \ {0}
     /\ \A k \in 1..Len(block) : block[k] = lines[s - 1 + k] /\ block[k] > 0
     /\ s = 1 \/ lines[s - 1] = 0
     /\ Ascending(Begun(lines, block)) \in Seq(Begun(lines, block))
     /\ frames = [k \in DOMAIN Ascending(Begun(lines, block)) |-> RunAt(lines, Ascending(Begun(lines, block))[k])]
     /\ \A i \in Begun(lines, block) : \E e \in RunEnds(lines, i) : e < Len(lines)

\* A run that is over stays as it is.
LEMMA RunStays ==
  ASSUME NEW lines \in Seq(Nat), NEW n \in Nat, NEW i \in 1..Len(lines),
         NEW e \in RunEnds(lines, i), e < Len(lines)
  PROVE  /\ RunEnds(Append(lines, n), i) = {e}
         /\ RunAt(Append(lines, n), i) = RunAt(lines, i)
<1> DEFINE longer == Append(lines, n)
<1>1. /\ Len(lines) \in Nat /\ Len(longer) = Len(lines) + 1 /\ longer \in Seq(Nat)
      /\ \A k \in 1..Len(lines) : longer[k] = lines[k]
  BY AppendFacts
<1>2. /\ e \in i..Len(lines) /\ lines[e + 1] = 0 /\ \A k \in i..e : lines[k] > 0
      /\ e + 1 \in i..Len(lines)
  BY DEF RunEnds
<1> HIDE DEF longer
<1>0. \A k \in i..(e + 1) : longer[k] = lines[k]
  <2> TAKE k \in i..(e + 1)
  <2>1. k \in 1..Len(lines)
    <3>1. i \in Nat /\ e \in Nat /\ Len(lines) \in Nat /\ 1 <= i /\ e + 1 <= Len(lines)
      BY <1>1, <1>2
    <3> QED
      BY <3>1
  <2> QED
    BY <1>1, <2>1
<1>3. RunEnds(lines, i) = {e}
  <2>1. ASSUME NEW d \in RunEnds(lines, i) PROVE d = e
    <3>1. d \in i..Len(lines) /\ (\A k \in i..d : lines[k] > 0) /\ (d = Len(lines) \/ lines[d + 1] = 0)
      BY DEF RunEnds
    <3>2. ~(d > e)
      <4>1. d > e => e + 1 \in i..d
        BY <3>1, <1>2
      <4> QED
        BY <4>1, <3>1, <1>2
    <3>3. ~(d < e)
      <4>1. d < e => d + 1 \in i..e /\ d # Len(lines)
        BY <3>1, <1>2
      <4> QED
        BY <4>1, <3>1, <1>2
    <3> QED
      BY <3>1, <3>2, <3>3, <1>2
  <2> QED
    BY <2>1
<1>4. RunEnds(longer, i) = {e}
  <2>0. longer[e + 1] = 0 /\ \A k \in i..e : longer[k] > 0
    <3>1. e + 1 \in i..(e + 1) /\ \A k \in i..e : k \in i..(e + 1)
      BY <1>2
    <3> QED
      BY <1>0, <1>2, <3>1
  <2>1. e \in RunEnds(longer, i)
    <3>1. e \in i..Len(longer)
      BY <1>1, <1>2
    <3> QED
      BY <2>0, <3>1 DEF RunEnds
  <2>2. ASSUME NEW d \in RunEnds(longer, i) PROVE d = e
    <3>1. d \in i..Len(longer) /\ (\A k \in i..d : longer[k] > 0) /\ (d = Len(longer) \/ longer[d + 1] = 0)
      BY DEF RunEnds
    <3>2. ~(d > e)
      <4>1. d > e => e + 1 \in i..d
        BY <3>1, <1>2, <1>1
      <4> QED
        BY <4>1, <3>1, <2>0
    <3>3. ~(d < e)
      <4>1. d < e => d + 1 \in i..e /\ d # Len(longer)
        BY <3>1, <1>2, <1>1
      <4> QED
        BY <4>1, <3>1, <2>0
    <3> QED
      BY <3>1, <3>2, <3>3, <1>2, <1>1
  <2> QED
    BY <2>1, <2>2
<1>5. RunAt(lines, i) = SubSeq(lines, i, e) /\ RunAt(longer, i) = SubSeq(longer, i, e)
  <2>1. (CHOOSE d \in {e} : TRUE) = e
    OBVIOUS
  <2> QED
    BY <2>1, <1>3, <1>4 DEF RunAt
<1>6. SubSeq(longer, i, e) = SubSeq(lines, i, e)
  <2>1. \A k \in i..e : longer[k] = lines[k]
    <3>1. \A k \in i..e : k \in i..(e + 1)
      BY <1>2
    <3> QED
      BY <1>0, <3>1
  <2> QED
    BY <2>1, <1>1, <1>2
<1> QED
  BY <1>4, <1>5, <1>6 DEF longer

\* The run that an empty line ends.
LEMMA RunCloses ==
  ASSUME NEW lines \in Seq(Nat), NEW block \in Seq(Nat), NEW s \in 1..Len(lines),
         s = Len(lines) - Len(block) + 1,
         \A k \in 1..Len(block) : block[k] = lines[s - 1 + k] /\ block[k] > 0
  PROVE  /\ RunEnds(Append(lines, 0), s) = {Len(lines)}
         /\ RunAt(Append(lines, 0), s) = block
<1> DEFINE longer == Append(lines, 0)
           n == Len(lines)
<1>1. /\ n \in Nat /\ Len(longer) = n + 1 /\ longer \in Seq(Nat)
      /\ \A k \in 1..n : longer[k] = lines[k]
      /\ longer[n + 1] = 0
  BY AppendFacts
<1>2. Len(block) \in Nat /\ n = s - 1 + Len(block)
  BY <1>1
<1> HIDE DEF longer, n
<1>3. \A k \in s..n : longer[k] > 0 /\ longer[k] = block[k - s + 1]
  <2> TAKE k \in s..n
  <2>1. k - s + 1 \in 1..Len(block) /\ s - 1 + (k - s + 1) = k /\ k \in 1..n
    BY <1>1, <1>2
  <2> QED
    BY <2>1, <1>1
<1>4. n \in RunEnds(longer, s)
  <2>1. n \in s..Len(longer)
    BY <1>1 DEF n
  <2> QED
    BY <2>1, <1>1, <1>3 DEF RunEnds
<1>5. ASSUME NEW d \in RunEnds(longer, s) PROVE d = n
  <2>1. d \in s..(n + 1) /\ (\A k \in s..d : longer[k] > 0) /\ (d = n + 1 \/ longer[d + 1] = 0)
    BY <1>1 DEF RunEnds
  <2>2. d # n + 1
    BY <2>1, <1>1
  <2>3. d \in Nat /\ d <= n /\ (d < n => d + 1 \in s..n)
    BY <2>1, <2>2, <1>1
  <2>4. d < n => longer[d + 1] > 0
    BY <2>3, <1>3
  <2>5. d < n => longer[d + 1] = 0
    BY <2>1, <2>2
  <2> QED
    BY ONLY <2>3, <2>4, <2>5, <1>1
<1>6. RunEnds(longer, s) = {n}
  BY <1>4, <1>5
<1>7. RunAt(longer, s) = SubSeq(longer, s, n)
  <2>1. (CHOOSE d \in {n} : TRUE) = n
    OBVIOUS
  <2> QED
    BY <2>1, <1>6 DEF RunAt
<1>8. SubSeq(longer, s, n) = block
  <2>1. /\ SubSeq(longer, s, n) \in Seq(Nat) /\ Len(SubSeq(longer, s, n)) = Len(block)
        /\ \A k \in 1..Len(block) : SubSeq(longer, s, n)[k] = longer[s + k - 1]
    BY <1>1, <1>2
  <2>2. \A k \in 1..Len(block) : longer[s + k - 1] = block[k]
    <3> TAKE k \in 1..Len(block)
    <3>1. s + k - 1 \in s..n /\ (s + k - 1) - s + 1 = k
      BY <1>1, <1>2
    <3> QED
      BY <3>1, <1>3
  <2> QED
    BY <2>1, <2>2, SameElements
<1> QED
  BY <1>6, <1>7, <1>8 DEF longer, n

LEMMA StartsFacts ==
  ASSUME NEW lines \in Seq(Nat)
  PROVE  /\ Starts(lines) \in SUBSET (1..Len(lines)) /\ Starts(lines) \in SUBSET Nat
         /\ IsFiniteSet(Starts(lines))
         /\ \A n \in Nat : \A i \in 1..Len(lines) : i \in Starts(Append(lines, n)) <=> i \in Starts(lines)
         /\ \A n \in Nat : \A i \in Starts(Append(lines, n)) : i \in 1..Len(lines) \/ (i = Len(lines) + 1 /\ n > 0)
         /\ \A i \in Starts(lines) : lines[i] > 0 /\ (i = 1 \/ lines[i - 1] = 0)
         /\ \A i \in 1..Len(lines) : lines[i] > 0 /\ (i = 1 \/ lines[i - 1] = 0) => i \in Starts(lines)
<1>1. Len(lines) \in Nat /\ DOMAIN lines = 1..Len(lines)
  OBVIOUS
<1>2. Starts(lines) \in SUBSET (1..Len(lines))
  BY <1>1 DEF Starts
<1>3. IsFiniteSet(1..Len(lines)) /\ 1..Len(lines) \subseteq Nat
  BY <1>1, FS_Interval
<1>4. ASSUME NEW n \in Nat, NEW i \in 1..Len(lines)
      PROVE  i \in Starts(Append(lines, n)) <=> i \in Starts(lines)
  <2>1. /\ DOMAIN Append(lines, n) = 1..(Len(lines) + 1)
        /\ \A k \in 1..Len(lines) : Append(lines, n)[k] = lines[k]
    BY AppendFacts
  <2>2. i # 1 => i - 1 \in 1..Len(lines)
    BY <1>1
  <2>3. i \in 1..(Len(lines) + 1)
    BY <1>1
  <2> QED
    BY <1>1, <2>1, <2>2, <2>3 DEF Starts
<1>5. ASSUME NEW n \in Nat, NEW i \in Starts(Append(lines, n))
      PROVE  i \in 1..Len(lines) \/ (i = Len(lines) + 1 /\ n > 0)
  <2>1. /\ DOMAIN Append(lines, n) = 1..(Len(lines) + 1)
        /\ Append(lines, n)[Len(lines) + 1] = n
    BY AppendFacts
  <2>2. i \in 1..(Len(lines) + 1) /\ Append(lines, n)[i] > 0
    BY <2>1 DEF Starts
  <2>3. i \in 1..Len(lines) \/ i = Len(lines) + 1
    BY <1>1, <2>2
  <2> QED
    BY <2>1, <2>2, <2>3
<1>6. \A i \in Starts(lines) : lines[i] > 0 /\ (i = 1 \/ lines[i - 1] = 0)
  BY DEF Starts
<1>7. \A i \in 1..Len(lines) : lines[i] > 0 /\ (i = 1 \/ lines[i - 1] = 0) => i \in Starts(lines)
  BY <1>1 DEF Starts
<1> QED
  BY <1>2, <1>3, <1>4, <1>5, <1>6, <1>7, FS_Subset

\* A line that is not empty joins the block.
LEMMA LineJoins ==
  ASSUME NEW lines \in Seq(Nat), NEW block \in Seq(Nat), NEW frames, NEW n \in Nat, n > 0,
         Splits(lines, frames, block)
  PROVE  Splits(Append(lines, n), frames, Append(block, n))
<1> DEFINE longer == Append(lines, n)
           grown == Append(block, n)
           s == Len(lines) - Len(block) + 1
           B == Begun(lines, block)
<1>1. /\ Len(lines) \in Nat /\ Len(longer) = Len(lines) + 1 /\ longer \in Seq(Nat)
      /\ \A k \in 1..Len(lines) : longer[k] = lines[k]
      /\ longer[Len(lines) + 1] = n
  BY AppendFacts
<1>2. /\ Len(block) \in Nat /\ Len(grown) = Len(block) + 1
      /\ \A k \in 1..Len(block) : grown[k] = block[k]
      /\ grown[Len(block) + 1] = n
  BY AppendFacts
<1>3. /\ s \in Nat \ {0}
      /\ \A k \in 1..Len(block) : block[k] = lines[s - 1 + k] /\ block[k] > 0
      /\ s = 1 \/ lines[s - 1] = 0
      /\ Ascending(B) \in Seq(B)
      /\ frames = [k \in DOMAIN Ascending(B) |-> RunAt(lines, Ascending(B)[k])]
      /\ \A i \in B : \E e \in RunEnds(lines, i) : e < Len(lines)
  BY DEF Splits
<1> HIDE DEF longer, grown
<1>4. Len(longer) - Len(grown) + 1 = s
  BY <1>1, <1>2
<1>5. Begun(longer, grown) = B
  <2>1. B = {i \in Starts(lines) : i < s} /\ Begun(longer, grown) = {i \in Starts(longer) : i < s}
    BY <1>4 DEF Begun
  <2>2. \A i \in 1..Len(lines) : i \in Starts(longer) <=> i \in Starts(lines)
    BY StartsFacts DEF longer
  <2>3. \A i \in Starts(longer) : i < s => i \in 1..Len(lines)
    <3>1. \A i \in Starts(longer) : i \in 1..Len(lines) \/ i = Len(lines) + 1
      BY StartsFacts DEF longer
    <3>2. ~(Len(lines) + 1 < s)
      BY <1>1, <1>2
    <3> QED
      BY <3>1, <3>2
  <2>4. Starts(lines) \subseteq 1..Len(lines)
    BY StartsFacts
  <2> HIDE DEF B, s
  <2> QED
    BY <2>1, <2>2, <2>3, <2>4
<1>6. ASSUME NEW i \in B
      PROVE  RunAt(longer, i) = RunAt(lines, i) /\ \E e \in RunEnds(longer, i) : e < Len(longer)
  <2>1. PICK e \in RunEnds(lines, i) : e < Len(lines)
    BY <1>3
  <2>2. i \in 1..Len(lines)
    BY StartsFacts DEF Begun
  <2>3. RunEnds(longer, i) = {e} /\ RunAt(longer, i) = RunAt(lines, i)
    BY <2>1, <2>2, RunStays DEF longer
  <2>4. e \in Nat
    BY <2>2 DEF RunEnds
  <2> QED
    BY <2>1, <2>3, <2>4, <1>1
<1>7. frames = [k \in DOMAIN Ascending(B) |-> RunAt(longer, Ascending(B)[k])]
  <2>1. \A k \in DOMAIN Ascending(B) : Ascending(B)[k] \in B
    BY <1>3, ElementFacts
  <2> QED
    BY <2>1, <1>3, <1>6
<1>8. \A k \in 1..Len(grown) : grown[k] = longer[s - 1 + k] /\ grown[k] > 0
  <2> TAKE k \in 1..Len(grown)
  <2>1. CASE k \in 1..Len(block)
    <3>1. s - 1 + k \in 1..Len(lines)
      BY <2>1, <1>1, <1>2, <1>3
    <3>2. longer[s - 1 + k] = lines[s - 1 + k]
      BY <3>1, <1>1
    <3>3. block[k] = lines[s - 1 + k] /\ block[k] > 0 /\ grown[k] = block[k]
      BY <2>1, <1>2, <1>3
    <3> QED
      BY <3>2, <3>3
  <2>2. CASE k = Len(block) + 1
    <3>1. s - 1 + k = Len(lines) + 1
      BY <2>2, <1>1, <1>2
    <3> QED
      BY <3>1, <2>2, <1>1, <1>2
  <2> QED
    BY <2>1, <2>2, <1>2
<1>9. s = 1 \/ longer[s - 1] = 0
  <2>1. s # 1 => s - 1 \in 1..Len(lines)
    BY <1>1, <1>2, <1>3
  <2> QED
    BY <2>1, <1>1, <1>3
<1> HIDE DEF B
<1> QED
  BY <1>3, <1>4, <1>5, <1>6, <1>7, <1>8, <1>9 DEF Splits, longer, grown

\* An empty line behind a block makes a frame of it; behind none, it makes no difference.
LEMMA LineCloses ==
  ASSUME NEW lines \in Seq(Nat), NEW block \in Seq(Nat), NEW frames \in Seq(Seq(Nat)),
         Splits(lines, frames, block)
  PROVE  Splits(Append(lines, 0), IF block = <<>> THEN frames ELSE Append(frames, block), <<>>)
<1> DEFINE longer == Append(lines, 0)
           s == Len(lines) - Len(block) + 1
           B == Begun(lines, block)
           C == Begun(longer, <<>>)
<1>1. /\ Len(lines) \in Nat /\ Len(longer) = Len(lines) + 1 /\ longer \in Seq(Nat)
      /\ \A k \in 1..Len(lines) : longer[k] = lines[k]
      /\ longer[Len(lines) + 1] = 0
  BY AppendFacts
<1>2. Len(block) \in Nat /\ (block = <<>> <=> Len(block) = 0)
  OBVIOUS
<1>3. /\ s \in Nat \ {0}
      /\ \A k \in 1..Len(block) : block[k] = lines[s - 1 + k] /\ block[k] > 0
      /\ s = 1 \/ lines[s - 1] = 0
      /\ Ascending(B) \in Seq(B)
      /\ frames = [k \in DOMAIN Ascending(B) |-> RunAt(lines, Ascending(B)[k])]
      /\ \A i \in B : \E e \in RunEnds(lines, i) : e < Len(lines)
  BY DEF Splits
<1>4. Len(<<>>) = 0
  OBVIOUS
<1>5. B = {i \in Starts(lines) : i < s} /\ C = {i \in Starts(longer) : i < Len(lines) + 2}
  <2>1. Len(longer) - Len(<<>>) + 1 = Len(lines) + 2
    BY <1>1, <1>4
  <2> QED
    BY <2>1 DEF Begun
<1> HIDE DEF longer
<1>6. C = Starts(lines)
  <2>1. \A i \in 1..Len(lines) : i \in Starts(longer) <=> i \in Starts(lines)
    BY StartsFacts DEF longer
  <2>2. \A i \in Starts(longer) : i \in 1..Len(lines)
    BY StartsFacts DEF longer
  <2>3. Starts(lines) \subseteq 1..Len(lines)
    BY StartsFacts
  <2>4. \A i \in 1..Len(lines) : i < Len(lines) + 2
    BY <1>1
  <2> HIDE DEF C
  <2> QED
    BY <1>5, <2>1, <2>2, <2>3, <2>4
<1>7. ASSUME NEW i \in B
      PROVE  RunAt(longer, i) = RunAt(lines, i) /\ \E e \in RunEnds(longer, i) : e < Len(longer)
  <2>1. PICK e \in RunEnds(lines, i) : e < Len(lines)
    BY <1>3
  <2>2. i \in 1..Len(lines)
    BY StartsFacts DEF Begun
  <2>3. RunEnds(longer, i) = {e} /\ RunAt(longer, i) = RunAt(lines, i)
    BY <2>1, <2>2, RunStays DEF longer
  <2>4. e \in Nat
    BY <2>2 DEF RunEnds
  <2> QED
    BY <2>1, <2>3, <2>4, <1>1
<1>8. frames = [k \in DOMAIN Ascending(B) |-> RunAt(longer, Ascending(B)[k])]
  <2>1. \A k \in DOMAIN Ascending(B) : Ascending(B)[k] \in B
    BY <1>3, ElementFacts
  <2> QED
    BY <2>1, <1>3, <1>7
<1>9. \A i \in Starts(lines) : i < s \/ (i = s /\ block # <<>>)
  <2> TAKE i \in Starts(lines)
  <2>1. i \in 1..Len(lines) /\ (i = 1 \/ lines[i - 1] = 0)
    BY StartsFacts
  <2>0. s = Len(lines) - Len(block) + 1 /\ s \in Nat \ {0}
    BY <1>3
  <2>4. \A k \in 1..Len(block) : lines[s - 1 + k] > 0
    BY <1>3
  <2> HIDE DEF s
  <2>2. ASSUME i > s PROVE FALSE
    <3>0. Len(lines) \in Nat /\ Len(block) \in Nat /\ i \in 1..Len(lines)
      BY <2>1, <1>1, <1>2
    <3>1. i - s \in 1..Len(block) /\ s - 1 + (i - s) = i - 1 /\ i # 1
      BY <2>0, <2>2, <3>0
    <3>2. lines[i - 1] > 0
      BY <3>1, <2>4
    <3>3. lines[i - 1] = 0
      BY <2>1, <3>1
    <3> QED
      BY <3>2, <3>3
  <2>3. i = s => block # <<>>
    BY <2>0, <2>1, <1>1, <1>2
  <2>5. i \in Nat /\ s \in Nat
    BY <2>0, <2>1
  <2> QED
    BY <2>2, <2>3, <2>5
<1>10. ASSUME block = <<>> PROVE Splits(longer, frames, <<>>)
  <2>1. C = B
    BY <1>5, <1>6, <1>9, <1>10
  <2>2. /\ Len(longer) - Len(<<>>) + 1 = Len(lines) + 2
        /\ Len(lines) + 2 \in Nat \ {0} /\ (Len(lines) + 2) - 1 = Len(lines) + 1
    BY <1>1, <1>4
  <2>3. 1..Len(<<>>) = {}
    BY <1>4
  <2> HIDE DEF B, s
  <2> QED
    BY <1>1, <1>3, <1>7, <1>8, <2>1, <2>2, <2>3 DEF Splits
<1>11. ASSUME block # <<>> PROVE Splits(longer, Append(frames, block), <<>>)
  <2>1. s \in 1..Len(lines)
    BY <1>1, <1>2, <1>3, <1>11
  <2>2. RunEnds(longer, s) = {Len(lines)} /\ RunAt(longer, s) = block
    BY <2>1, <1>3, RunCloses DEF longer
  <2>3. s \in Starts(lines)
    <3>1. 1 \in 1..Len(block) /\ s - 1 + 1 = s
      BY <1>2, <1>3, <1>11
    <3>2. lines[s] > 0 /\ (s = 1 \/ lines[s - 1] = 0)
      BY <3>1, <1>3
    <3> HIDE DEF s
    <3> QED
      BY <3>2, <2>1, StartsFacts
  <2>4. C = B \cup {s}
    BY <1>5, <1>6, <1>9, <2>3
  <2>5. Ascending(C) = Append(Ascending(B), s) /\ Ascending(C) \in Seq(C)
    <3>1. B \in SUBSET Nat /\ IsFiniteSet(B) /\ \A i \in B : i < s
      BY <1>5, StartsFacts, FS_Subset
    <3> HIDE DEF B, s, C
    <3>2. s \in Nat
      BY <2>1
    <3> QED
      BY <3>1, <3>2, <2>4, <1>3, AscendingAppends
  <2>6. Append(frames, block) = [k \in DOMAIN Ascending(C) |-> RunAt(longer, Ascending(C)[k])]
    <3> DEFINE a == Ascending(B)
               m == Len(a)
    <3> HIDE DEF B, s, C
    <3>1. /\ m \in Nat /\ DOMAIN Ascending(C) = 1..(m + 1)
          /\ \A k \in 1..m : Ascending(C)[k] = a[k]
          /\ Ascending(C)[m + 1] = s
      <4>1. a \in Seq(Nat) /\ s \in Nat
        <5>1. B \subseteq Nat
          BY StartsFacts DEF B, Begun
        <5> QED
          BY <5>1, <1>3, <2>1, SeqMonotone
      <4> HIDE DEF a
      <4> QED
        BY <4>1, <2>5, AppendFacts DEF a
    <3>2. DOMAIN frames = 1..m /\ Len(frames) = m
      <4>1. DOMAIN a = 1..m
        BY <1>3
      <4> QED
        BY <4>1, <1>8, <3>1
    <3> HIDE DEF a, m
    <3>3. /\ \A k \in 1..m : Append(frames, block)[k] = frames[k]
          /\ Append(frames, block)[m + 1] = block
          /\ Append(frames, block) = [k \in 1..(m + 1) |-> Append(frames, block)[k]]
      <4>1. Append(frames, block) \in Seq(Seq(Nat)) /\ Len(Append(frames, block)) = m + 1
        BY <3>2, AppendFacts
      <4>2. \A t \in Seq(Seq(Nat)) : t = [k \in 1..Len(t) |-> t[k]]
        OBVIOUS
      <4>3. Append(frames, block) = [k \in 1..(m + 1) |-> Append(frames, block)[k]]
        BY <4>1, <4>2
      <4> QED
        BY <4>3, <3>2, AppendFacts
    <3>4. \A k \in 1..(m + 1) : Append(frames, block)[k] = RunAt(longer, Ascending(C)[k])
      <4> TAKE k \in 1..(m + 1)
      <4>1. k \in 1..m \/ k = m + 1
        BY <3>1
      <4>2. \A l \in 1..m : frames[l] = RunAt(longer, a[l])
        BY <1>8, <3>2 DEF a
      <4> QED
        BY <4>1, <4>2, <3>1, <3>3, <2>2
    <3> QED
      BY <3>1, <3>3, <3>4
  <2>7. \A i \in C : \E e \in RunEnds(longer, i) : e < Len(longer)
    <3>1. Len(lines) < Len(longer)
      BY <1>1
    <3> HIDE DEF B, s, C
    <3> QED
      BY <2>2, <2>4, <1>7, <3>1
  <2>8. /\ Len(longer) - Len(<<>>) + 1 = Len(lines) + 2
        /\ Len(lines) + 2 \in Nat \ {0} /\ (Len(lines) + 2) - 1 = Len(lines) + 1
    BY <1>1, <1>4
  <2>9. 1..Len(<<>>) = {}
    BY <1>4
  <2> HIDE DEF B, s
  <2> QED
    BY <1>1, <2>5, <2>6, <2>7, <2>8, <2>9 DEF Splits
<1> QED
  BY <1>10, <1>11 DEF longer

-----------------------------------------------------------------------------
\* The frames of NDJSON: the lines that are not empty.
Full(lines) == {i \in DOMAIN lines : lines[i] > 0}
FullLines(lines) == [k \in DOMAIN Ascending(Full(lines)) |-> <<lines[Ascending(Full(lines))[k]]>>]
Fills(lines, frames) == Ascending(Full(lines)) \in Seq(Full(lines)) /\ frames = FullLines(lines)

LEMMA LineFills ==
  ASSUME NEW lines \in Seq(Nat), NEW frames \in Seq(Seq(Nat)), NEW n \in Nat, Fills(lines, frames)
  PROVE  Fills(Append(lines, n), IF n = 0 THEN frames ELSE Append(frames, <<n>>))
<1> DEFINE longer == Append(lines, n)
           F == Full(lines)
           a == Ascending(F)
           m == Len(a)
           l == Len(lines)
<1>1. /\ l \in Nat /\ DOMAIN lines = 1..l /\ DOMAIN longer = 1..(l + 1)
      /\ \A k \in 1..l : longer[k] = lines[k]
      /\ longer[l + 1] = n
  BY AppendFacts
<1>2. a \in Seq(F) /\ frames = [k \in DOMAIN a |-> <<lines[a[k]]>>]
  BY DEF Fills, FullLines
<1>3. F \in SUBSET (1..l) /\ F \in SUBSET Nat /\ IsFiniteSet(F)
  <2>1. F \in SUBSET (1..l)
    BY <1>1 DEF Full
  <2>2. IsFiniteSet(1..l) /\ 1..l \subseteq Nat
    BY <1>1, FS_Interval
  <2> HIDE DEF F, l
  <2> QED
    BY <2>1, <2>2, FS_Subset
<1>4. Full(longer) = F \cup IF n = 0 THEN {} ELSE {l + 1}
  <2>1. F = {i \in 1..l : lines[i] > 0} /\ Full(longer) = {i \in 1..(l + 1) : longer[i] > 0}
    BY <1>1 DEF Full
  <2>2. 1..(l + 1) = (1..l) \cup {l + 1}
    BY <1>1
  <2> HIDE DEF F, longer, l
  <2> QED
    BY <1>1, <2>1, <2>2
<1>5. /\ m \in Nat /\ DOMAIN a = 1..m /\ \A k \in 1..m : a[k] \in F
      /\ DOMAIN frames = 1..m /\ Len(frames) = m
  <2> HIDE DEF a, F
  <2>1. m \in Nat /\ DOMAIN a = 1..m /\ \A k \in 1..m : a[k] \in F
    BY <1>2, ElementFacts
  <2>2. DOMAIN frames = 1..m
    BY <1>2, <2>1
  <2> QED
    BY <2>1, <2>2
<1> HIDE DEF longer, F, a, m, l
<1>6. \A k \in 1..m : frames[k] = <<longer[a[k]]>>
  BY <1>1, <1>2, <1>3, <1>5
<1>7. ASSUME n = 0 PROVE Fills(longer, frames)
  <2>1. Full(longer) = F
    BY <1>4, <1>7
  <2>2. frames = [k \in 1..m |-> <<longer[a[k]]>>]
    BY <1>2, <1>5, <1>6
  <2> QED
    BY <1>2, <1>5, <2>1, <2>2 DEF Fills, FullLines, a
<1>8. ASSUME n # 0 PROVE Fills(longer, Append(frames, <<n>>))
  <2>1. Full(longer) = F \cup {l + 1}
    BY <1>4, <1>8
  <2>2. Ascending(Full(longer)) = Append(a, l + 1) /\ Ascending(Full(longer)) \in Seq(Full(longer))
    <3>1. l + 1 \in Nat /\ \A i \in F : i < l + 1
      BY <1>1, <1>3
    <3> QED
      BY <3>1, <2>1, <1>2, <1>3, AscendingAppends DEF a
  <2>3. /\ DOMAIN Append(a, l + 1) = 1..(m + 1)
        /\ \A k \in 1..m : Append(a, l + 1)[k] = a[k]
        /\ Append(a, l + 1)[m + 1] = l + 1
    <3>1. l + 1 \in Nat
      BY <1>1
    <3>2. a \in Seq(Nat)
      BY <1>2, <1>3, SeqMonotone
    <3> QED
      BY <3>1, <3>2, AppendFacts DEF m
  <2>4. /\ \A k \in 1..m : Append(frames, <<n>>)[k] = frames[k]
        /\ Append(frames, <<n>>)[m + 1] = <<n>>
        /\ Append(frames, <<n>>) = [k \in 1..(m + 1) |-> Append(frames, <<n>>)[k]]
    <3>0. <<n>> \in Seq(Nat)
      OBVIOUS
    <3>1. Append(frames, <<n>>) \in Seq(Seq(Nat)) /\ Len(Append(frames, <<n>>)) = m + 1
      BY <3>0, <1>5, AppendFacts
    <3>2. \A t \in Seq(Seq(Nat)) : t = [k \in 1..Len(t) |-> t[k]]
      OBVIOUS
    <3>3. Append(frames, <<n>>) = [k \in 1..(m + 1) |-> Append(frames, <<n>>)[k]]
      BY <3>1, <3>2
    <3> QED
      BY <3>3, <3>0, <1>5, AppendFacts
  <2>5. \A k \in 1..(m + 1) : Append(frames, <<n>>)[k] = <<longer[Append(a, l + 1)[k]]>>
    <3> TAKE k \in 1..(m + 1)
    <3>1. k \in 1..m \/ k = m + 1
      BY <1>5
    <3>2. CASE k \in 1..m
      BY <3>2, <2>3, <2>4, <1>1, <1>6
    <3>3. CASE k = m + 1
      BY <3>3, <2>3, <2>4, <1>1, <1>6
    <3> QED
      BY <3>1, <3>2, <3>3
  <2> DEFINE b == Append(a, l + 1)
             fs == Append(frames, <<n>>)
  <2>6. fs = [k \in DOMAIN b |-> <<longer[b[k]]>>]
    BY <2>3, <2>4, <2>5
  <2> HIDE DEF b, fs
  <2>7. b = Ascending(Full(longer)) /\ b \in Seq(Full(longer))
    BY <2>2 DEF b
  <2> QED
    BY <2>6, <2>7 DEF Fills, FullLines, fs
<1> QED
  BY <1>7, <1>8 DEF longer

LEMMA ConcatFacts ==
  ASSUME NEW S, NEW f \in Seq(S)
  PROVE  /\ f \o <<>> = f /\ <<>> \o f = f /\ <<>> \in Seq(S)
         /\ \A x \in S : f \o <<x>> = Append(f, x) /\ <<x>> \in Seq(S)
         /\ \A g \in Seq(S) : f \o g \in Seq(S)
         /\ \A g, h \in Seq(S) : (f \o g) \o h = f \o (g \o h)
<1>1. f \o <<>> = f /\ <<>> \o f = f /\ <<>> \in Seq(S)
  OBVIOUS
<1>2. \A x \in S : f \o <<x>> = Append(f, x) /\ <<x>> \in Seq(S)
  OBVIOUS
<1>3. \A g \in Seq(S) : f \o g \in Seq(S)
  OBVIOUS
<1>4. \A g, h \in Seq(S) : (f \o g) \o h = f \o (g \o h)
  OBVIOUS
<1> QED
  BY <1>1, <1>2, <1>3, <1>4

\* EndLine, of a reader that is at the end of a line.
LEMMA EndLineFacts ==
  ASSUME NEW r \in Readers, NEW lines \in Seq(Nat), NEW frames \in Seq(Frames),
         Splits(lines, frames, r.block)
  PROVE  /\ Splits(Append(lines, r.line), frames \o EndLine(r).frames, EndLine(r).reader.block)
         /\ EndLine(r).reader.line = 0 /\ EndLine(r).reader.cr = r.cr
<1>1. r.line \in Nat /\ r.block \in Seq(Nat)
  BY DEF Readers
<1>2. CASE r.line > 0
  <2>1. EndLine(r) = Cut([r EXCEPT !.line = 0, !.block = Append(@, r.line)], <<>>)
    BY <1>2 DEF EndLine
  <2>2. /\ EndLine(r).reader.block = Append(r.block, r.line) /\ EndLine(r).frames = <<>>
        /\ EndLine(r).reader.line = 0 /\ EndLine(r).reader.cr = r.cr
    <3> DEFINE grown == Append(r.block, r.line)
               q == [r EXCEPT !.line = 0, !.block = grown]
    <3>1. [r EXCEPT !.line = 0, !.block = Append(@, r.line)] = q
      OBVIOUS
    <3> HIDE DEF grown
    <3>2. q.block = grown /\ q.line = 0 /\ q.cr = r.cr
      BY DEF Readers
    <3> HIDE DEF q
    <3>3. EndLine(r).reader = q /\ EndLine(r).frames = <<>>
      BY <2>1, <3>1 DEF Cut
    <3> QED
      BY <3>2, <3>3 DEF grown
  <2>3. frames \o <<>> = frames
    BY ConcatFacts
  <2> QED
    BY <1>1, <1>2, <2>2, <2>3, LineJoins
<1>3. CASE r.line = 0 /\ r.block = <<>>
  <2>1. EndLine(r) = Cut(r, <<>>)
    BY <1>3 DEF EndLine
  <2>2. EndLine(r).reader = r /\ EndLine(r).frames = <<>>
    BY <2>1 DEF Cut
  <2>3. frames \o <<>> = frames
    BY ConcatFacts
  <2>4. Splits(Append(lines, 0), frames, <<>>)
    BY <1>1, <1>3, LineCloses DEF Frames
  <2> QED
    BY <1>3, <2>2, <2>3, <2>4
<1>4. CASE r.line = 0 /\ r.block # <<>>
  <2>1. EndLine(r) = Cut([r EXCEPT !.block = <<>>], <<r.block>>)
    BY <1>4 DEF EndLine
  <2>2. /\ EndLine(r).reader.block = <<>> /\ EndLine(r).frames = <<r.block>>
        /\ EndLine(r).reader.line = 0 /\ EndLine(r).reader.cr = r.cr
    BY <1>4, <2>1 DEF Cut, Readers
  <2>3. frames \o <<r.block>> = Append(frames, r.block)
    BY <1>1, ConcatFacts DEF Frames
  <2>4. Splits(Append(lines, 0), Append(frames, r.block), <<>>)
    BY <1>1, <1>4, LineCloses DEF Frames
  <2> QED
    BY <1>4, <2>2, <2>3, <2>4
<1> QED
  BY <1>1, <1>2, <1>3, <1>4

\* The reader, once a CR that waits has ended its line.
Settled(r) == IF r.cr THEN EndLine([r EXCEPT !.cr = FALSE]) ELSE Cut(r, <<>>)

\* Between two bytes of SSE: what the reader keeps, and what it returned.
AmidSSE(body, r, frames) ==
  /\ Endable("sse", body)
  /\ r.cr <=> (body # <<>> /\ body[Len(body)] = "CR")
  /\ Settled(r).reader.line = Rest("sse", body)
  /\ Splits(Whole("sse", body), frames \o Settled(r).frames, Settled(r).reader.block)

LEMMA SettledFacts ==
  ASSUME NEW r \in Readers
  PROVE  Settled(r).reader \in Readers /\ Settled(r).frames \in Seq(Frames) /\ Settled(r).reader.cr = FALSE
<1>1. [r EXCEPT !.cr = FALSE] \in Readers /\ <<>> \in Seq(Frames)
  <2>1. [r EXCEPT !.cr = FALSE] \in Readers
    BY DEF Readers
  <2> QED
    BY <2>1
<1>2. EndLine([r EXCEPT !.cr = FALSE]) \in Cuts
  BY <1>1, LineEndTyped
<1>3. r.cr \in BOOLEAN /\ \A q \in Readers : EndLine(q).reader.cr = q.cr
  BY DEF EndLine, Cut, Readers
<1>4. [r EXCEPT !.cr = FALSE].cr = FALSE
  BY DEF Readers
<1> QED
  BY <1>1, <1>2, <1>3, <1>4 DEF Settled, Cut, Cuts

\* One byte more of a line.
LEMMA LineGrows ==
  ASSUME NEW r \in Readers
  PROVE  [r EXCEPT !.line = @ + 1] \in Readers
BY DEF Readers

LEMMA FedSSEFacts ==
  ASSUME NEW body \in Seq(Bytes), NEW b \in Bytes, NEW r \in Readers, NEW frames \in Seq(Frames),
         AmidSSE(body, r, frames)
  PROVE  AmidSSE(Append(body, b), FedSSE(r, b).reader, frames \o FedSSE(r, b).frames)
<1> DEFINE longer == Append(body, b)
           before == Settled(r)
           after == before.reader
           w == Whole("sse", body)
           f == frames \o before.frames
<1>1. /\ after \in Readers /\ before.frames \in Seq(Frames) /\ after.cr = FALSE
      /\ Endable("sse", body) /\ after.line = Rest("sse", body) /\ Splits(w, f, after.block)
      /\ r.cr <=> (body # <<>> /\ body[Len(body)] = "CR")
  BY SettledFacts DEF AmidSSE
<1>2. w \in Seq(Nat) /\ Rest("sse", body) \in Nat
  BY <1>1, LinesFacts
<1>3. f \in Seq(Frames) /\ f \o <<>> = f
  BY <1>1, ConcatFacts
<1>4. longer # <<>> /\ longer[Len(longer)] = b
  BY AppendFacts
<1>5. LineEnds("sse", longer) = LineEnds("sse", body) \cup IF EndsLine("sse", body, b) THEN {Len(body) + 1} ELSE {}
  BY LineEndsOfAppend
<1>6. EndsLine("sse", body, b) <=> b = "CR" \/ (b = "LF" /\ ~r.cr)
  BY <1>1 DEF EndsLine
<1>7. \A q \in Readers : ~q.cr => Settled(q) = Cut(q, <<>>) /\ Settled(q).reader = q /\ Settled(q).frames = <<>>
  BY DEF Settled, Cut
<1>8. FedSSE(r, b) =
        CASE r.cr /\ b = "LF" -> before
          [] b = "CR" -> Cut([after EXCEPT !.cr = TRUE], before.frames)
          [] b = "x" -> Cut([after EXCEPT !.line = @ + 1], before.frames)
          [] OTHER -> EndLine(after)
  BY DEF FedSSE, Settled
<1> HIDE DEF before, w
<1>9. CASE r.cr /\ b = "LF"
  <2>1. FedSSE(r, b) = before
    BY <1>8, <1>9
  <2>2. LineEnds("sse", longer) = LineEnds("sse", body)
    BY <1>5, <1>6, <1>9
  <2>3. /\ Endable("sse", longer) /\ Whole("sse", longer) = w
        /\ Rest("sse", longer) = Rest("sse", body) + 0
    BY <1>1, <1>9, <2>2, LineGoesOn DEF w
  <2>4. Settled(after).reader = after /\ Settled(after).frames = <<>>
    BY <1>1, <1>7
  <2> HIDE DEF after, f, longer
  <2>5. AmidSSE(longer, after, f)
    BY <1>1, <1>2, <1>3, <1>4, <1>9, <2>3, <2>4 DEF AmidSSE
  <2> QED
    BY <2>1, <2>5 DEF longer, after, f
<1>10. CASE b = "CR"
  <2> DEFINE q == [after EXCEPT !.cr = TRUE]
  <2>1. FedSSE(r, b).reader = q /\ FedSSE(r, b).frames = before.frames
    <3>1. FedSSE(r, b) = Cut(q, before.frames)
      BY <1>8, <1>10
    <3> HIDE DEF q
    <3> QED
      BY <3>1 DEF Cut
  <2>2. LineEnds("sse", longer) = LineEnds("sse", body) \cup {Len(body) + 1}
    BY <1>5, <1>6, <1>10
  <2>3. /\ Endable("sse", longer) /\ Whole("sse", longer) = Append(w, after.line)
        /\ Rest("sse", longer) = 0
    BY <1>1, <1>10, <2>2, LineEndsHere DEF w
  <2>4. q.cr = TRUE /\ [q EXCEPT !.cr = FALSE] = after
    BY <1>1 DEF Readers
  <2>5. Settled(q) = EndLine(after)
    BY <2>4 DEF Settled
  <2>6. /\ Splits(Append(w, after.line), f \o EndLine(after).frames, EndLine(after).reader.block)
        /\ EndLine(after).reader.line = 0
    BY <1>1, <1>2, <1>3, EndLineFacts
  <2> HIDE DEF after, f, longer, q
  <2>7. AmidSSE(longer, q, f)
    BY <1>4, <1>10, <2>3, <2>4, <2>5, <2>6 DEF AmidSSE
  <2> QED
    BY <2>1, <2>7 DEF longer, f
<1>11. CASE b = "x"
  <2> DEFINE q == [after EXCEPT !.line = @ + 1]
  <2>1. FedSSE(r, b).reader = q /\ FedSSE(r, b).frames = before.frames
    BY <1>8, <1>11 DEF Cut
  <2>2. LineEnds("sse", longer) = LineEnds("sse", body)
    BY <1>5, <1>6, <1>11
  <2>3. /\ Endable("sse", longer) /\ Whole("sse", longer) = w
        /\ Rest("sse", longer) = Rest("sse", body) + 1
    BY <1>1, <1>11, <2>2, LineGoesOn DEF w
  <2>4. q \in Readers /\ q.cr = FALSE /\ q.line = after.line + 1 /\ q.block = after.block
    <3> HIDE DEF after
    <3>1. q \in Readers
      BY <1>1, LineGrows
    <3>2. q.cr = FALSE /\ q.line = after.line + 1 /\ q.block = after.block
      BY <1>1 DEF Readers
    <3> QED
      BY <3>1, <3>2
  <2>5. Settled(q).reader = q /\ Settled(q).frames = <<>>
    BY <2>4, <1>7
  <2> HIDE DEF after, f, longer, q
  <2>6. AmidSSE(longer, q, f)
    BY <1>1, <1>3, <1>4, <1>11, <2>3, <2>4, <2>5 DEF AmidSSE
  <2> QED
    BY <2>1, <2>6 DEF longer, f
<1>12. CASE b = "LF" /\ ~r.cr
  <2>1. FedSSE(r, b) = EndLine(after) /\ before = Cut(r, <<>>) /\ before.frames = <<>>
    BY <1>8, <1>12, <1>7 DEF before
  <2>2. LineEnds("sse", longer) = LineEnds("sse", body) \cup {Len(body) + 1}
    BY <1>5, <1>6, <1>12
  <2>3. /\ Endable("sse", longer) /\ Whole("sse", longer) = Append(w, after.line)
        /\ Rest("sse", longer) = 0
    BY <1>1, <1>12, <2>2, LineEndsHere DEF w
  <2>4. /\ Splits(Append(w, after.line), f \o EndLine(after).frames, EndLine(after).reader.block)
        /\ EndLine(after).reader.line = 0 /\ EndLine(after).reader.cr = FALSE
    BY <1>1, <1>2, <1>3, EndLineFacts
  <2>5. f = frames
    BY <2>1, ConcatFacts
  <2> DEFINE q == EndLine(after)
  <2>6. q \in Cuts
    BY <1>1, LineEndTyped
  <2>7. q.reader \in Readers /\ q.frames \in Seq(Frames)
    BY <2>6 DEF Cuts
  <2>8. Settled(q.reader).reader = q.reader /\ Settled(q.reader).frames = <<>>
    BY <2>4, <2>7, <1>7
  <2>9. (frames \o q.frames) \o <<>> = frames \o q.frames
    BY <2>7, ConcatFacts
  <2> HIDE DEF after, f, longer, q
  <2>10. AmidSSE(longer, q.reader, frames \o q.frames)
    BY <1>4, <1>12, <2>3, <2>4, <2>5, <2>8, <2>9 DEF AmidSSE, q
  <2> QED
    BY <2>1, <2>10 DEF longer, q
<1> QED
  BY <1>9, <1>10, <1>11, <1>12 DEF Bytes

\* Of NDJSON.
AmidNDJSON(body, r, frames) ==
  /\ Endable("ndjson", body)
  /\ r.cr = FALSE /\ r.block = <<>>
  /\ r.line = Rest("ndjson", body)
  /\ Fills(Whole("ndjson", body), frames)

LEMMA FedNDJSONFacts ==
  ASSUME NEW body \in Seq(Bytes), NEW b \in Bytes, NEW r \in Readers, NEW frames \in Seq(Frames),
         AmidNDJSON(body, r, frames)
  PROVE  AmidNDJSON(Append(body, b), FedNDJSON(r, b).reader, frames \o FedNDJSON(r, b).frames)
<1> DEFINE longer == Append(body, b)
           w == Whole("ndjson", body)
<1>1. /\ Endable("ndjson", body) /\ r.cr = FALSE /\ r.block = <<>>
      /\ r.line = Rest("ndjson", body) /\ Fills(w, frames)
  BY DEF AmidNDJSON
<1>2. w \in Seq(Nat) /\ r.line \in Nat
  BY <1>1, LinesFacts
<1>3. frames \o <<>> = frames /\ frames \o <<<<r.line>>>> = Append(frames, <<r.line>>)
  <2>1. <<r.line>> \in Frames
    BY <1>2 DEF Frames
  <2> QED
    BY <2>1, ConcatFacts
<1>5. LineEnds("ndjson", longer) = LineEnds("ndjson", body) \cup IF EndsLine("ndjson", body, b) THEN {Len(body) + 1} ELSE {}
  BY LineEndsOfAppend
<1>6. EndsLine("ndjson", body, b) <=> b = "LF"
  BY DEF EndsLine
<1> HIDE DEF w
<1>7. CASE b # "LF"
  <2>1. LineEnds("ndjson", longer) = LineEnds("ndjson", body)
    BY <1>5, <1>6, <1>7
  <2>2. /\ Endable("ndjson", longer) /\ Whole("ndjson", longer) = w
        /\ Rest("ndjson", longer) = Rest("ndjson", body) + IF b = "x" THEN 1 ELSE 0
    BY <1>1, <2>1, LineGoesOn DEF w
  <2>3. /\ FedNDJSON(r, b).frames = <<>>
        /\ FedNDJSON(r, b).reader.line = r.line + IF b = "x" THEN 1 ELSE 0
        /\ FedNDJSON(r, b).reader.cr = r.cr /\ FedNDJSON(r, b).reader.block = r.block
    <3>1. FedNDJSON(r, b) = IF b = "x" THEN Cut([r EXCEPT !.line = @ + 1], <<>>) ELSE Cut(r, <<>>)
      BY <1>7 DEF FedNDJSON
    <3> QED
      BY <3>1, <1>2 DEF Cut, Readers
  <2> HIDE DEF longer
  <2>4. AmidNDJSON(longer, FedNDJSON(r, b).reader, frames)
    BY <1>1, <2>2, <2>3 DEF AmidNDJSON
  <2> QED
    BY <2>3, <2>4, <1>3 DEF longer
<1>8. CASE b = "LF"
  <2>1. LineEnds("ndjson", longer) = LineEnds("ndjson", body) \cup {Len(body) + 1}
    BY <1>5, <1>6, <1>8
  <2>2. /\ Endable("ndjson", longer) /\ Whole("ndjson", longer) = Append(w, r.line)
        /\ Rest("ndjson", longer) = 0
    BY <1>1, <1>8, <2>1, LineEndsHere DEF w
  <2>3. /\ FedNDJSON(r, b).frames = IF r.line = 0 THEN <<>> ELSE <<<<r.line>>>>
        /\ FedNDJSON(r, b).reader.line = 0
        /\ FedNDJSON(r, b).reader.cr = r.cr /\ FedNDJSON(r, b).reader.block = r.block
    <3>1. FedNDJSON(r, b) = IF r.line > 0 THEN Cut([r EXCEPT !.line = 0], <<<<r.line>>>>) ELSE Cut(r, <<>>)
      BY <1>8 DEF FedNDJSON
    <3> QED
      BY <3>1, <1>2 DEF Cut, Readers
  <2>4. Fills(Append(w, r.line), IF r.line = 0 THEN frames ELSE Append(frames, <<r.line>>))
    BY <1>1, <1>2, LineFills DEF Frames
  <2>5. frames \o FedNDJSON(r, b).frames = IF r.line = 0 THEN frames ELSE Append(frames, <<r.line>>)
    BY <2>3, <1>3
  <2> HIDE DEF longer
  <2> QED
    BY <1>1, <2>2, <2>3, <2>4, <2>5 DEF AmidNDJSON, longer
<1> QED
  BY <1>7, <1>8

-----------------------------------------------------------------------------
LEMMA PrefixFacts ==
  ASSUME NEW S, NEW f \in Seq(S), NEW g \in Seq(S)
  PROVE  IsPrefix(f, f \o g)
<1>1. /\ f \o g \in Seq(S) /\ Len(f \o g) = Len(f) + Len(g) /\ Len(f) \in Nat /\ Len(g) \in Nat
      /\ \A k \in 1..Len(f) : (f \o g)[k] = f[k]
  OBVIOUS
<1>2. Len(f) <= Len(f \o g)
  BY <1>1
<1>3. SubSeq(f, 1, Len(f)) = SubSeq(f \o g, 1, Len(f))
  BY <1>1, <1>2
<1> QED
  BY <1>2, <1>3 DEF IsPrefix

LEMMA LastOfLines ==
  ASSUME NEW fmt, NEW body \in Seq(Bytes), Endable(fmt, body)
  PROVE  Last(Lines(fmt, body)) = Rest(fmt, body)
<1>1. Whole(fmt, body) \in Seq(Nat) /\ Rest(fmt, body) \in Nat
      /\ Lines(fmt, body) = Append(Whole(fmt, body), Rest(fmt, body))
  BY LinesFacts
<1>2. Len(Lines(fmt, body)) = Len(Whole(fmt, body)) + 1
      /\ Lines(fmt, body)[Len(Whole(fmt, body)) + 1] = Rest(fmt, body)
  BY <1>1, AppendFacts
<1> QED
  BY <1>2 DEF Last

\* The end of a body of SSE whose last line is ended.
LEMMA EndedSSE ==
  ASSUME NEW body \in Seq(Bytes), NEW r \in Readers, NEW frames \in Seq(Frames),
         AmidSSE(body, r, frames), Rest("sse", body) = 0
  PROVE  FramesIn("sse", body) =
           frames \o (Settled(r).frames
                        \o IF Settled(r).reader.block = <<>> THEN <<>> ELSE <<Settled(r).reader.block>>)
<1> DEFINE v == Settled(r)
           b == v.reader.block
           w == Whole("sse", body)
           f == frames \o v.frames
           last == IF b = <<>> THEN <<>> ELSE <<b>>
           lines == Append(w, 0)
<1>1. v.reader \in Readers /\ v.frames \in Seq(Frames) /\ b \in Frames
  BY SettledFacts DEF Readers, Frames
<1>2. Endable("sse", body) /\ Splits(w, f, b)
  BY DEF AmidSSE
<1>3. w \in Seq(Nat) /\ Lines("sse", body) = lines
  BY <1>2, LinesFacts
<1>4. f \in Seq(Frames) /\ last \in Seq(Frames)
  <2>1. f \in Seq(Frames)
    BY <1>1, ConcatFacts
  <2>2. <<>> \in Seq(Frames) /\ <<b>> \in Seq(Frames)
    BY <1>1
  <2> HIDE DEF b, f
  <2> QED
    BY <2>1, <2>2
<1>5. f \o last = IF b = <<>> THEN f ELSE Append(f, b)
  <2> HIDE DEF b, f
  <2>1. CASE b = <<>>
    BY <1>4, <2>1, ConcatFacts
  <2>2. CASE b # <<>>
    BY <1>1, <1>4, <2>2, ConcatFacts
  <2> QED
    BY <2>1, <2>2
<1>6. Splits(lines, f \o last, <<>>)
  <2>1. Splits(Append(w, 0), IF b = <<>> THEN f ELSE Append(f, b), <<>>)
    BY <1>1, <1>2, <1>3, <1>4, LineCloses DEF Frames
  <2> QED
    BY <2>1, <1>5
<1>7. Begun(lines, <<>>) = Starts(lines)
  <2>1. lines \in Seq(Nat) /\ Len(lines) \in Nat /\ Len(<<>>) = 0
    BY <1>3, AppendFacts
  <2> HIDE DEF lines
  <2>2. \A i \in Starts(lines) : i \in 1..Len(lines)
    BY <2>1, StartsFacts
  <2>3. \A i \in 1..Len(lines) : i < Len(lines) - Len(<<>>) + 1
    BY <2>1
  <2> QED
    BY <2>2, <2>3 DEF Begun
<1>8. f \o last = [k \in DOMAIN Ascending(Starts(lines)) |-> RunAt(lines, Ascending(Starts(lines))[k])]
  BY <1>6, <1>7 DEF Splits
<1>9. FramesIn("sse", body) = f \o last
  BY <1>3, <1>8 DEF FramesIn
<1>10. f \o last = frames \o (v.frames \o last)
  <2>1. v.frames \in Seq(Frames) /\ last \in Seq(Frames)
    BY <1>1, <1>4
  <2>2. \A g, h \in Seq(Frames) : (frames \o g) \o h = frames \o (g \o h)
    BY ConcatFacts
  <2> HIDE DEF last, b, v
  <2> QED
    BY <2>1, <2>2 DEF f
<1> QED
  BY <1>9, <1>10

\* And of one of NDJSON.
LEMMA EndedNDJSON ==
  ASSUME NEW body \in Seq(Bytes), NEW r \in Readers, NEW frames \in Seq(Frames),
         AmidNDJSON(body, r, frames)
  PROVE  FramesIn("ndjson", body) = frames \o IF r.line = 0 THEN <<>> ELSE <<<<r.line>>>>
<1> DEFINE w == Whole("ndjson", body)
<1>1. Endable("ndjson", body) /\ r.line = Rest("ndjson", body) /\ Fills(w, frames)
  BY DEF AmidNDJSON
<1>2. w \in Seq(Nat) /\ r.line \in Nat /\ Lines("ndjson", body) = Append(w, r.line)
  BY <1>1, LinesFacts
<1> DEFINE lines == Append(w, r.line)
<1>3. Fills(lines, IF r.line = 0 THEN frames ELSE Append(frames, <<r.line>>))
  BY <1>1, <1>2, LineFills DEF Frames
<1>4. frames \o <<>> = frames /\ frames \o <<<<r.line>>>> = Append(frames, <<r.line>>)
  <2>1. <<r.line>> \in Frames
    BY <1>2 DEF Frames
  <2> QED
    BY <2>1, ConcatFacts
<1> HIDE DEF lines
<1>5. FramesIn("ndjson", body) = FullLines(lines)
  BY <1>2 DEF FramesIn, FullLines, Full, lines
<1> QED
  BY <1>3, <1>4, <1>5 DEF Fills

\* Before Recv and ReadByte: nothing has been read.
LEMMA AmidNothing ==
  /\ AmidSSE(<<>>, NewReader, <<>>)
  /\ AmidNDJSON(<<>>, NewReader, <<>>)
<1>1. /\ DOMAIN <<>> = {} /\ Len(<<>>) = 0 /\ <<>> \in Seq(Bytes) /\ \A S : <<>> \in Seq(S)
  OBVIOUS
<1>2. NewReader.line = 0 /\ NewReader.block = <<>> /\ NewReader.cr = FALSE
  BY DEF NewReader
<1>3. ASSUME NEW fmt PROVE Endable(fmt, <<>>) /\ Whole(fmt, <<>>) = <<>> /\ Rest(fmt, <<>>) = 0
  <2>1. LineEnds(fmt, <<>>) = {}
    BY <1>1 DEF LineEnds
  <2>2. Ends(fmt, <<>>) = <<>>
    BY <2>1, AscendingNone DEF Ends
  <2>3. Endable(fmt, <<>>)
    BY <1>1, <2>2 DEF Endable
  <2>4. Whole(fmt, <<>>) = <<>>
    <3>1. 1..0 = {}
      OBVIOUS
    <3> QED
      BY <1>1, <2>2, <3>1 DEF Whole
  <2>5. Rest(fmt, <<>>) = 0
    <3>1. From(fmt, <<>>, 0 + 1) = 1
      BY DEF From
    <3>2. Count(<<>>, 1, 0) = 0
      <4>1. {i \in 1..0 : <<>>[i] = "x"} = {}
        OBVIOUS
      <4> QED
        BY <4>1, FS_EmptySet DEF Count
    <3> QED
      BY <1>1, <2>2, <3>1, <3>2 DEF Rest
  <2> QED
    BY <2>3, <2>4, <2>5
<1>4. Settled(NewReader).reader = NewReader /\ Settled(NewReader).frames = <<>>
  BY <1>2 DEF Settled, Cut
<1>5. Splits(<<>>, <<>>, <<>>)
  <2>1. Begun(<<>>, <<>>) = {}
    BY <1>1 DEF Begun, Starts
  <2>2. Ascending({}) = <<>>
    BY AscendingNone
  <2>3. [k \in {} |-> RunAt(<<>>, <<>>[k])] = <<>>
    OBVIOUS
  <2>4. 0 - 0 + 1 = 1 /\ 1 \in Nat \ {0} /\ 1..0 = {}
    OBVIOUS
  <2> QED
    BY <1>1, <2>1, <2>2, <2>3, <2>4 DEF Splits
<1>6. Fills(<<>>, <<>>)
  <2>1. Full(<<>>) = {}
    BY <1>1 DEF Full
  <2>2. Ascending({}) = <<>>
    BY AscendingNone
  <2>3. [k \in {} |-> <<<<>>[<<>>[k]]>>] = <<>>
    OBVIOUS
  <2> QED
    BY <1>1, <2>1, <2>2, <2>3 DEF Fills, FullLines
<1>7. <<>> \o <<>> = <<>>
  OBVIOUS
<1> QED
  BY <1>2, <1>3, <1>4, <1>5, <1>6, <1>7 DEF AmidSSE, AmidNDJSON

-----------------------------------------------------------------------------
\* A raw body is one frame, whatever bytes it has.
AmidRaw(body, r, frames) ==
  frames = <<>> /\ r.line = Len(body) /\ r.cr = FALSE /\ r.block = <<>>

Amid(fmt, body, r, frames) ==
  CASE fmt = "sse" -> AmidSSE(body, r, frames)
    [] fmt = "ndjson" -> AmidNDJSON(body, r, frames)
    [] OTHER -> AmidRaw(body, r, frames)

\* Once the body has ended: FramesOfBody.
Past(fmt, body, end, frames) ==
  (fmt = "sse" => Last(Lines(fmt, body)) = 0) =>
    IsPrefix(frames, FramesIn(fmt, body)) /\ (end = "eof" => frames = FramesIn(fmt, body))

\* What Recv has returned, while the body goes on and when it is over.
FramesInv ==
  kind = "http" =>
    /\ reader.end = "none" => Amid(format, bytes, reader, got)
    /\ reader.end # "none" => Past(format, bytes, reader.end, got)
    /\ result = "eof" => reader.end = "eof"

\* A CR that is kept says nothing of the line before it.
LEMMA SameEnd ==
  ASSUME NEW r \in Readers
  PROVE  /\ EndLine([r EXCEPT !.cr = FALSE]).frames = EndLine(r).frames
         /\ EndLine([r EXCEPT !.cr = FALSE]).reader.block = EndLine(r).reader.block
         /\ EndLine([r EXCEPT !.cr = FALSE]).reader.line = EndLine(r).reader.line
<1> DEFINE q == [r EXCEPT !.cr = FALSE]
<1>1. q \in Readers /\ q.line = r.line /\ q.block = r.block
  BY DEF Readers
<1> HIDE DEF q
<1>2. CASE r.line > 0
  BY <1>1, <1>2 DEF EndLine, Cut, Readers
<1>3. CASE ~(r.line > 0) /\ r.block = <<>>
  BY <1>1, <1>3 DEF EndLine, Cut, Readers
<1>4. CASE ~(r.line > 0) /\ r.block # <<>>
  BY <1>1, <1>4 DEF EndLine, Cut, Readers
<1> QED
  BY <1>2, <1>3, <1>4 DEF q

\* The last line is not longer for an unfinished line that has nothing.
LEMMA JoinsNothing ==
  ASSUME NEW s \in Seq(Nat), Len(s) > 0
  PROVE  [s EXCEPT ![Len(s)] = @ + 0] = s
OBVIOUS

LEMMA FlushedSSE ==
  ASSUME TypeOK, format = "sse", Settled(reader).reader.line = 0
  PROVE  /\ FlushedByFailure = Settled(reader).frames
         /\ Flushed = Settled(reader).frames
              \o IF Settled(reader).reader.block = <<>> THEN <<>> ELSE <<Settled(reader).reader.block>>
<1> DEFINE s == Settled(reader)
           ended == IF reader.cr THEN EndLine(reader) ELSE Cut(reader, <<>>)
           r == ended.reader
           last == IF s.reader.block = <<>> THEN <<>> ELSE <<s.reader.block>>
<1>1. reader \in Readers /\ reader.cr \in BOOLEAN
  BY DEF TypeOK, Readers
<1>2. s.reader \in Readers /\ s.frames \in Seq(Frames)
  BY <1>1, SettledFacts
<1>3. ended.frames = s.frames /\ r.block = s.reader.block /\ r.line = 0
  <2>1. CASE reader.cr
    BY <1>1, <2>1, SameEnd DEF Settled
  <2>2. CASE ~reader.cr
    BY <1>1, <2>2 DEF Settled, Cut
  <2> QED
    BY <1>1, <2>1, <2>2
<1>4. FlushedByFailure = s.frames
  BY <1>1, <1>3 DEF FlushedByFailure, Cut
<1>5. r.block \in Seq(Nat)
  BY <1>2, <1>3 DEF Readers
<1>6. Flushed = s.frames \o last
  <2>1. CASE ended.frames # <<>>
    <3>1. s.reader.block = <<>>
      <4>1. reader.cr
        BY <2>1 DEF Cut
      <4>2. EndLine(reader).frames # <<>>
        BY <2>1, <4>1
      <4>3. EndLine(reader).reader.block = <<>>
        BY <1>1, <4>2 DEF EndLine, Cut, Readers
      <4> QED
        BY <1>3, <4>1, <4>3
    <3>2. Flushed = ended.frames
      <4>1. Len(r.block) = 0
        BY <1>3, <3>1
      <4> QED
        BY <1>3, <2>1, <4>1 DEF Flushed
    <3>3. s.frames \o <<>> = s.frames
      BY <1>2, ConcatFacts
    <3> QED
      BY <1>3, <3>1, <3>2, <3>3
  <2>2. CASE ended.frames = <<>> /\ Len(r.block) > 0
    <3>1. Flushed = <<[r.block EXCEPT ![Len(r.block)] = @ + r.line]>>
      BY <1>3, <2>2 DEF Flushed
    <3>2. [r.block EXCEPT ![Len(r.block)] = @ + r.line] = r.block
      <4> HIDE DEF r
      <4> QED
        BY <1>3, <1>5, <2>2, JoinsNothing
    <3>3. <<>> \o <<r.block>> = <<r.block>> /\ r.block # <<>>
      <4> HIDE DEF r
      <4>1. Len(<<>>) = 0
        OBVIOUS
      <4>2. <<r.block>> \in Seq(Seq(Nat))
        BY <1>5
      <4>3. <<>> \o <<r.block>> = <<r.block>>
        BY <4>2, ConcatFacts
      <4> QED
        BY <2>2, <4>1, <4>3
    <3> QED
      BY <1>3, <2>2, <3>1, <3>2, <3>3
  <2>3. CASE ended.frames = <<>> /\ ~(Len(r.block) > 0)
    <3>1. Flushed = <<>>
      BY <1>3, <2>3 DEF Flushed
    <3>2. r.block = <<>>
      <4> HIDE DEF r
      <4> QED
        BY <1>5, <2>3
    <3>3. <<>> \o <<>> = <<>>
      OBVIOUS
    <3> QED
      BY <1>3, <2>3, <3>1, <3>2, <3>3
  <2> QED
    BY <2>1, <2>2, <2>3
<1> QED
  BY <1>4, <1>6

\* The reader does not end while there are bytes.
LEMMA FedGoesOn ==
  ASSUME NEW r \in Readers, NEW b \in Bytes
  PROVE  /\ FedSSE(r, b).reader.end = r.end
         /\ FedNDJSON(r, b).reader.end = r.end
         /\ FedRaw(r, b).reader.end = r.end
<1>1. ASSUME NEW q \in Readers
      PROVE  /\ EndLine(q).reader.end = q.end
             /\ [q EXCEPT !.cr = TRUE].end = q.end /\ [q EXCEPT !.cr = FALSE].end = q.end
             /\ [q EXCEPT !.line = @ + 1].end = q.end /\ [q EXCEPT !.line = 0].end = q.end
             /\ [q EXCEPT !.cr = FALSE] \in Readers /\ EndLine(q).reader \in Readers
  <2>1. EndLine(q).reader.end = q.end
    BY DEF EndLine, Cut, Readers
  <2>2. EndLine(q).reader \in Readers
    BY LineEndTyped DEF Cuts
  <2>3. [q EXCEPT !.cr = FALSE] \in Readers
    BY DEF Readers
  <2> QED
    BY <2>1, <2>2, <2>3 DEF Readers
<1> DEFINE before == IF r.cr THEN EndLine([r EXCEPT !.cr = FALSE]) ELSE Cut(r, <<>>)
<1>2. before.reader \in Readers /\ before.reader.end = r.end
  BY <1>1 DEF Cut
<1>3. FedSSE(r, b) \in {before, EndLine(before.reader),
                        Cut([before.reader EXCEPT !.cr = TRUE], before.frames),
                        Cut([before.reader EXCEPT !.line = @ + 1], before.frames)}
  BY DEF FedSSE
<1> HIDE DEF before
<1>4. FedSSE(r, b).reader.end = r.end
  <2> DEFINE kept == [before.reader EXCEPT !.cr = TRUE]
             grown == [before.reader EXCEPT !.line = @ + 1]
  <2>1. EndLine(before.reader).reader.end = r.end /\ kept.end = r.end /\ grown.end = r.end
    BY <1>1, <1>2
  <2>2. \A x, y : Cut(x, y).reader = x
    BY DEF Cut
  <2>3. FedSSE(r, b) \in {before, EndLine(before.reader), Cut(kept, before.frames), Cut(grown, before.frames)}
    BY <1>3
  <2> HIDE DEF kept, grown
  <2>4. CASE FedSSE(r, b) = before
    BY <1>2, <2>4
  <2>5. CASE FedSSE(r, b) = EndLine(before.reader)
    BY <2>1, <2>5
  <2>6. CASE FedSSE(r, b) = Cut(kept, before.frames)
    BY <2>1, <2>2, <2>6
  <2>7. CASE FedSSE(r, b) = Cut(grown, before.frames)
    BY <2>1, <2>2, <2>7
  <2> QED
    BY <2>4, <2>5, <2>6, <2>7, <2>3
<1>5. FedNDJSON(r, b).reader.end = r.end /\ FedRaw(r, b).reader.end = r.end
  BY <1>1 DEF FedNDJSON, FedRaw, Cut
<1> QED
  BY <1>4, <1>5

LEMMA FramesInit == Init => FramesInv
<1> SUFFICES ASSUME Init PROVE FramesInv
  OBVIOUS
<1>1. bytes = <<>> /\ got = <<>> /\ reader = NewReader /\ result = "none" /\ reader.end = "none"
  BY DEF Init, NewReader
<1>2. AmidRaw(<<>>, NewReader, <<>>)
  <2>1. Len(<<>>) = 0
    OBVIOUS
  <2> QED
    BY <2>1 DEF AmidRaw, NewReader
<1> QED
  BY <1>1, <1>2, AmidNothing DEF FramesInv, Amid

LEMMA FramesRead ==
  ASSUME TypeOK, FramesInv, NEW b \in {"x", "CR", "LF"}, ReadByte(b)
  PROVE  FramesInv'
<1>1. /\ kind = "http" /\ reader.end = "none" /\ bytes' = Append(bytes, b) /\ format' = format
      /\ reader' = Fed(b).reader /\ got' = got \o Fed(b).frames
      /\ result' \in {result, "frame"}
  BY DEF ReadByte, Delivers, Returns
<1>2. Amid(format, bytes, reader, got) /\ result # "eof"
  BY <1>1 DEF FramesInv
<1>3. bytes \in Seq(Bytes) /\ b \in Bytes /\ reader \in Readers /\ got \in Seq(Frames)
  BY <1>1, Kinded DEF TypeOK, Readers, Bytes
<1>4. Amid(format', bytes', reader', got')
  <2>1. CASE format = "sse"
    BY <1>1, <1>2, <1>3, <2>1, FedSSEFacts DEF Amid, Fed
  <2>2. CASE format = "ndjson"
    BY <1>1, <1>2, <1>3, <2>2, FedNDJSONFacts DEF Amid, Fed
  <2>3. CASE format # "sse" /\ format # "ndjson"
    <3>1. AmidRaw(bytes, reader, got)
      BY <1>2, <2>3 DEF Amid
    <3>2. reader' = [reader EXCEPT !.line = @ + 1] /\ got' = got \o <<>>
      BY <1>1, <2>3 DEF Fed, FedRaw, Cut
    <3>3. got' = <<>>
      <4>1. <<>> \o <<>> = <<>>
        OBVIOUS
      <4> QED
        BY <3>1, <3>2, <4>1 DEF AmidRaw
    <3>4. Len(bytes') = Len(bytes) + 1
      BY <1>1, <1>3, AppendFacts
    <3>5. reader'.line = reader.line + 1 /\ reader'.cr = reader.cr /\ reader'.block = reader.block
      BY <1>3, <3>2 DEF Readers
    <3>6. AmidRaw(bytes', reader', got')
      BY <3>1, <3>3, <3>4, <3>5 DEF AmidRaw
    <3> QED
      BY <1>1, <2>3, <3>6 DEF Amid
  <2> QED
    BY <2>1, <2>2, <2>3
<1>5. reader'.end = "none"
  BY <1>1, <1>3, FedGoesOn DEF Fed
<1>6. result' # "eof"
  BY <1>1, <1>2
<1> QED
  BY <1>4, <1>5, <1>6 DEF FramesInv

\* The end of the body, and its failure.
LEMMA FramesEnd ==
  ASSUME TypeOK, FramesInv, kind = "http", reader.end = "none"
  PROVE  /\ Past(format, bytes, "eof", got \o Flushed)
         /\ Past(format, bytes, "failed", got \o FlushedByFailure)
<1>1. Amid(format, bytes, reader, got)
  BY DEF FramesInv
<1>2. bytes \in Seq(Bytes) /\ reader \in Readers /\ got \in Seq(Frames)
  BY Kinded DEF TypeOK, Readers, Bytes
<1>3. Flushed \in Seq(Frames) /\ FlushedByFailure \in Seq(Frames)
  BY FlushedTyped
<1>4. \A f, g \in Seq(Frames) : f \o g \in Seq(Frames) /\ IsPrefix(f, f \o g)
  BY PrefixFacts, ConcatFacts
<1>5. \A f \in Seq(Frames) : f \o <<>> = f /\ IsPrefix(f, f) /\ <<>> \o f = f /\ <<>> \in Seq(Frames)
  <2>1. \A f \in Seq(Frames) : f \o <<>> = f /\ <<>> \o f = f /\ <<>> \in Seq(Frames)
    BY ConcatFacts
  <2> QED
    BY <1>4, <2>1
<1>6. got \o Flushed \in Seq(Frames) /\ got \o FlushedByFailure \in Seq(Frames)
  BY <1>2, <1>3, <1>4
<1>7. ASSUME FramesIn(format, bytes) = got \o Flushed, FlushedByFailure = Flushed \/ FlushedByFailure = <<>>
      PROVE  /\ Past(format, bytes, "eof", got \o Flushed)
             /\ Past(format, bytes, "failed", got \o FlushedByFailure)
  <2>1. IsPrefix(got \o Flushed, FramesIn(format, bytes))
    BY <1>5, <1>6, <1>7
  <2>2. IsPrefix(got \o FlushedByFailure, FramesIn(format, bytes))
    <3>1. got \o <<>> = got /\ IsPrefix(got, got \o Flushed)
      BY <1>2, <1>3, <1>4, <1>5
    <3> QED
      BY <1>7, <2>1, <3>1
  <2> QED
    BY <1>7, <2>1, <2>2 DEF Past
<1>8. CASE format = "sse"
  <2> DEFINE s == Settled(reader)
             last == IF s.reader.block = <<>> THEN <<>> ELSE <<s.reader.block>>
  <2>1. AmidSSE(bytes, reader, got)
    BY <1>1, <1>8 DEF Amid
  <2>2. SUFFICES ASSUME Last(Lines(format, bytes)) = 0
                 PROVE  /\ Past(format, bytes, "eof", got \o Flushed)
                        /\ Past(format, bytes, "failed", got \o FlushedByFailure)
    BY <1>8 DEF Past
  <2>3. Rest("sse", bytes) = 0 /\ s.reader.line = 0
    BY <1>2, <1>8, <2>1, <2>2, LastOfLines DEF AmidSSE
  <2>4. FlushedByFailure = s.frames /\ Flushed = s.frames \o last
    BY <1>8, <2>3, FlushedSSE
  <2>5. FramesIn("sse", bytes) = got \o (s.frames \o last)
    BY <1>2, <2>1, <2>3, EndedSSE
  <2>6. s.frames \in Seq(Frames) /\ last \in Seq(Frames)
    <3>1. s.reader \in Readers /\ s.frames \in Seq(Frames)
      BY <1>2, SettledFacts
    <3>2. s.reader.block \in Frames
      BY <3>1 DEF Readers, Frames
    <3>3. <<s.reader.block>> \in Seq(Frames)
      BY <3>2, ConcatFacts
    <3> QED
      BY <1>5, <1>2, <3>1, <3>3
  <2> HIDE DEF s, last
  <2>7. IsPrefix(got \o Flushed, FramesIn("sse", bytes)) /\ got \o Flushed = FramesIn("sse", bytes)
    BY <1>5, <1>6, <2>4, <2>5
  <2>8. IsPrefix(got \o FlushedByFailure, FramesIn("sse", bytes))
    <3>1. (got \o s.frames) \o last = got \o (s.frames \o last)
      <4>1. \A g, h \in Seq(Frames) : (got \o g) \o h = got \o (g \o h)
        BY <1>2, ConcatFacts
      <4> QED
        BY <2>6, <4>1
    <3>2. IsPrefix(got \o s.frames, (got \o s.frames) \o last)
      BY <1>2, <1>4, <2>6
    <3> QED
      BY <2>4, <2>5, <3>1, <3>2
  <2> QED
    BY <1>8, <2>7, <2>8 DEF Past
<1>9. CASE format = "ndjson"
  <2>1. AmidNDJSON(bytes, reader, got)
    BY <1>1, <1>9 DEF Amid
  <2>2. FramesIn("ndjson", bytes) = got \o IF reader.line = 0 THEN <<>> ELSE <<<<reader.line>>>>
    BY <1>2, <2>1, EndedNDJSON
  <2>3. reader.cr = FALSE /\ reader.block = <<>> /\ Len(<<>>) = 0 /\ reader.line \in Nat
    BY <1>2, <2>1 DEF AmidNDJSON, Readers
  <2>4. Flushed = IF reader.line = 0 THEN <<>> ELSE <<<<reader.line>>>>
    BY <1>9, <2>3 DEF Flushed, Cut
  <2>5. FlushedByFailure = IF reader.line = 0 THEN <<>> ELSE <<<<reader.line>>>>
    BY <1>9, <2>3 DEF FlushedByFailure
  <2> QED
    BY <1>7, <1>9, <2>2, <2>4, <2>5
<1>10. CASE format # "sse" /\ format # "ndjson"
  <2>1. /\ got = <<>> /\ reader.cr = FALSE /\ reader.block = <<>> /\ Len(<<>>) = 0
        /\ reader.line = Len(bytes) /\ format = "raw"
    BY <1>1, <1>10 DEF Amid, AmidRaw, TypeOK
  <2>2. Flushed = <<<<Len(bytes)>>>> /\ FlushedByFailure = <<>>
    BY <2>1 DEF Flushed, FlushedByFailure, Cut
  <2>3. got \o Flushed = Flushed
    BY <1>3, <1>5, <2>1
  <2>4. FramesIn(format, bytes) = <<<<Len(bytes)>>>>
    BY <2>1 DEF FramesIn
  <2> QED
    BY <1>7, <2>2, <2>3, <2>4
<1> QED
  BY <1>8, <1>9, <1>10

LEMMA FramesNext == TypeOK /\ FramesInv /\ [Next]_vars => FramesInv'
<1> SUFFICES ASSUME TypeOK, FramesInv, [Next]_vars PROVE FramesInv'
  OBVIOUS
<1>1. kind' = kind /\ format' = format
  BY DEF Next, vars, Open, OpenSucceeds, OpenFails, TryAgain, BackoffInterrupted, CallRecv, RecvHTTP,
     ReadByte, ReadEnd, ReadFails, ReadAtEnd, Pump, PumpPongs, PumpReads, PumpBreaks, PumpSends, PumpStops,
     RecvWS, RecvTakes, RecvAfterEnd, RecvInterrupted, Close, ContextEnds, NextTurn, openVars, httpVars, wsVars
<1>2. CASE kind # "http"
  BY <1>1, <1>2 DEF FramesInv
<1>3. ASSUME NEW b \in {"x", "CR", "LF"}, ReadByte(b) PROVE FramesInv'
  BY <1>3, FramesRead
<1>4. CASE ReadEnd
  <2>1. /\ kind = "http" /\ reader.end = "none" /\ bytes' = bytes
        /\ reader' = [NewReader EXCEPT !.end = "eof"] /\ got' = got \o Flushed
    BY <1>4 DEF ReadEnd, Delivers
  <2>2. reader'.end = "eof"
    BY <2>1 DEF NewReader
  <2> QED
    BY <1>1, <2>1, <2>2, FramesEnd DEF FramesInv
<1>5. CASE ReadFails
  <2>1. /\ kind = "http" /\ reader.end = "none" /\ bytes' = bytes /\ result' \in {result, "frame"}
        /\ reader' = [NewReader EXCEPT !.end = "failed"] /\ got' = got \o FlushedByFailure
    BY <1>5 DEF ReadFails, Delivers, Returns
  <2>2. reader'.end = "failed"
    BY <2>1 DEF NewReader
  <2>3. result' # "eof"
    BY <2>1 DEF FramesInv
  <2> QED
    BY <1>1, <2>1, <2>2, <2>3, FramesEnd DEF FramesInv
<1>6. CASE ReadAtEnd
  <2>1. /\ reader.end # "none" /\ UNCHANGED <<got, httpVars>>
        /\ result' = IF reader.end = "eof" THEN "eof" ELSE "error"
    BY <1>6 DEF ReadAtEnd, Returns
  <2> QED
    BY <1>1, <2>1 DEF FramesInv, httpVars
<1>7. CASE ~RecvHTTP /\ kind = "http"
  <2>1. UNCHANGED <<got, httpVars>>
    BY <1>7 DEF Next, vars, Open, OpenSucceeds, OpenFails, TryAgain, BackoffInterrupted, CallRecv,
       Pump, PumpPongs, PumpReads, PumpBreaks, PumpSends, PumpStops,
       RecvWS, RecvTakes, RecvAfterEnd, RecvInterrupted, Close, ContextEnds, NextTurn
  <2>2. result' \in {result, "error", "ctx"}
    BY <1>7 DEF Next, vars, Open, OpenSucceeds, OpenFails, TryAgain, BackoffInterrupted, CallRecv,
       Pump, PumpPongs, PumpReads, PumpBreaks, PumpSends, PumpStops,
       RecvWS, RecvTakes, RecvAfterEnd, RecvInterrupted, Close, ContextEnds, NextTurn, Returns
  <2> QED
    BY <1>1, <2>1, <2>2 DEF FramesInv, httpVars
<1> QED
  BY <1>2, <1>3, <1>4, <1>5, <1>6, <1>7 DEF RecvHTTP

\* Recv returns the frames of a body and nothing else, and all of them before io.EOF:
\* however long the body is, whatever mixture of LF, CR and CRLF ends its lines, wherever
\* a CR and its LF are torn apart, and whether the body ends or fails (sse.go:27-66,
\* ndjson.go:23-35, http.go:180-206).
THEOREM FramesCorrect == Spec => []FramesOfBody
<1>1. Init => TypeOK /\ Retried /\ FramesInv
  BY TypesInit, RetriedInit, FramesInit
<1>2. TypeOK /\ Retried /\ FramesInv /\ [Next]_vars => TypeOK' /\ Retried' /\ FramesInv'
  BY TypesNext, RetriedNext, FramesNext
<1>3. FramesInv => FramesOfBody
  BY DEF FramesInv, Past, FramesOfBody
<1> QED
  BY <1>1, <1>2, <1>3, PTL DEF Spec
=============================================================================
