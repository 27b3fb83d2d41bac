------------------------------ MODULE ByteStream -----------------------------
(***************************************************************************)
(* One byte stream of package transport, from Open to Close:               *)
(*                                                                         *)
(*   http  RetryTransport.Open over HTTPByteStreamTransport: attempts, the *)
(*         waits between them, then Recv, which cuts the body into frames  *)
(*   ws    webSocketByteStream: a read pump that answers pings and passes  *)
(*         messages on through a bounded channel, whoever calls Recv       *)
(*                                                                         *)
(* Durations are signed integers that wrap behind MaxDuration; the bytes   *)
(* of a body are "x" (any byte of a line), "CR" and "LF"; a line is the    *)
(* number of bytes it has, and a frame the sequence of its lines.          *)
(***************************************************************************)
EXTENDS Integers, FiniteSets, Sequences, SequencesExt

CONSTANTS Kinds,           \* those of http and ws that are looked at
          MaxRetries, InitialBackoff, MaxBackoff,
          Second,          \* a second as a Duration
          MaxDuration,     \* the largest one: 2^(w-1) - 1, when they have w bits
          RetryAfters,     \* the Retry-After headers services send: seconds, 0 for none
          Buffer,          \* the capacity of readCh
          MaxBytes,        \* bound on a body
          Messages         \* what servers send on a WebSocket: text, binary, ping

ASSUME StreamConfig ==
  /\ Kinds \subseteq {"http", "ws"}
  /\ MaxRetries \in Nat
  /\ MaxDuration \in Nat \ {0}
  /\ InitialBackoff \in Nat \ {0} /\ MaxBackoff \in Nat
  /\ InitialBackoff <= MaxBackoff /\ 2 * MaxBackoff <= MaxDuration
  /\ Second \in 1..MaxDuration /\ RetryAfters \subseteq Nat
  /\ Buffer \in Nat \ {0} /\ MaxBytes \in Nat
  /\ \A m \in Messages : m \in Seq({"text", "binary", "ping"})

VARIABLES kind, ctxDone,
          pc,       \* open, backoff, recv, idle (open, no Recv under way), failed
          got,      \* the frames that Recv returned
          result,   \* what it returned last: none, frame, eof, error or ctx
          attempt, backoff, delay,
          offered,  \* whether each attempt's reader had the whole body to send
          failures, \* how the attempts failed: the Retry-After, and whether retryable
          format,   \* FrameFormat: sse, ndjson, raw
          bytes,    \* the body up to the byte that Recv has read
          reader,   \* what it keeps: the line, the block, a CR that may begin CRLF; its end
          sent,     \* what the server sends on the WebSocket
          wire,     \* the rest of it, and how the connection ends: normal, abnormal
          pump,     \* the read pump: read, send, ended
          inHand,   \* what it is to send on readCh
          readCh,
          pongs,    \* pings answered
          done      \* whether Close was called

openVars == <<attempt, backoff, delay, offered, failures>>
httpVars == <<format, bytes, reader>>
wsVars == <<sent, wire, pump, inHand, readCh, pongs, done>>
vars == <<kind, ctxDone, pc, got, result, openVars, httpVars, wsVars>>

NoRead == [kind |-> "none", n |-> 0]
NewReader == [line |-> 0, block |-> <<>>, cr |-> FALSE, end |-> "none"]

Init ==
  /\ kind \in Kinds
  /\ ctxDone = FALSE
  /\ pc = IF kind = "http" THEN "open" ELSE "idle"
  /\ got = <<>> /\ result = "none"
  /\ attempt = 0 /\ backoff = InitialBackoff /\ delay = 0
  /\ offered = TRUE /\ failures = <<>>
  /\ format \in IF kind = "http" THEN {"sse", "ndjson", "raw"} ELSE {"sse"}
  /\ bytes = <<>> /\ reader = NewReader
  /\ sent \in IF kind = "ws" THEN Messages ELSE {<<>>}
  /\ \E end \in IF kind = "ws" THEN {"normal", "abnormal"} ELSE {"normal"} :
       wire = Append(sent, end)
  /\ pump = IF kind = "ws" THEN "read" ELSE "ended"
  /\ inHand = NoRead /\ readCh = <<>> /\ pongs = 0 /\ done = FALSE

Returns(res) == pc' = "idle" /\ result' = res

-----------------------------------------------------------------------------
\* RetryTransport.Open.  time.Duration(seconds) * time.Second is a Duration.
Wrapped(n) == ((n + MaxDuration + 1) % (2 * (MaxDuration + 1))) - (MaxDuration + 1)

RetryAfter(seconds) == Wrapped(seconds * Second)

RetryDelay(seconds, b) == IF RetryAfter(seconds) > 0 THEN RetryAfter(seconds) ELSE b

\* Bug: the attempts share the request's reader.
ReplayRest == offered' = (attempt = 0)

\* snapshotRequestBody: every attempt has a reader of its own on the body.
Replay == UNCHANGED offered

\* Open returns, and what it counted is gone.
OpenSucceeds ==
  /\ pc = "open" /\ Replay
  /\ pc' = "idle"
  /\ attempt' = 0 /\ backoff' = InitialBackoff /\ delay' = 0 /\ failures' = <<>>
  /\ UNCHANGED <<kind, ctxDone, got, result, httpVars, wsVars>>

\* An answer whose status is retryable or not, or no answer, which is retryable.
OpenFails(seconds, retryable) ==
  /\ pc = "open" /\ Replay
  /\ failures' = Append(failures, [after |-> seconds, retryable |-> retryable])
  /\ IF attempt = MaxRetries \/ ~retryable
     THEN /\ pc' = "failed" /\ result' = "error"
          /\ UNCHANGED delay
     ELSE /\ pc' = "backoff" /\ delay' = RetryDelay(seconds, backoff)
          /\ UNCHANGED result
  /\ UNCHANGED <<kind, ctxDone, got, attempt, backoff, httpVars, wsVars>>

\* The timer, ...
TryAgain ==
  /\ pc = "backoff"
  /\ pc' = "open"
  /\ attempt' = attempt + 1
  /\ backoff' = IF backoff * 2 > MaxBackoff THEN MaxBackoff ELSE backoff * 2
  /\ UNCHANGED <<kind, ctxDone, got, result, delay, offered, failures, httpVars, wsVars>>

\* ... or the end of the context.
BackoffInterrupted ==
  /\ pc = "backoff" /\ ctxDone
  /\ pc' = "failed" /\ result' = "ctx"
  /\ UNCHANGED <<kind, ctxDone, got, openVars, httpVars, wsVars>>

-----------------------------------------------------------------------------
\* Recv, of both kinds of stream, is called again and again, whatever it returned.
CallRecv ==
  /\ pc = "idle"
  /\ IF kind = "http" /\ ctxDone
     THEN Returns("ctx")
     ELSE pc' = "recv" /\ UNCHANGED result
  /\ UNCHANGED <<kind, ctxDone, got, openVars, httpVars, wsVars>>

\* What a reader makes of a byte: what it keeps, and the frame that is complete, if any.
Cut(r, frames) == [reader |-> r, frames |-> frames]

\* SSEReader.Next at the end of a line: an empty one ends the block.
EndLine(r) ==
  IF r.line > 0 THEN Cut([r EXCEPT !.line = 0, !.block = Append(@, r.line)], <<>>)
  ELSE IF r.block = <<>> THEN Cut(r, <<>>)
  ELSE Cut([r EXCEPT !.block = <<>>], <<r.block>>)

\* Bug: the LF of a CRLF ends a line of its own.
FedSSECountingLF(r, b) ==
  CASE b = "x" -> Cut([r EXCEPT !.line = @ + 1], <<>>)
    [] OTHER -> EndLine(r)

\* A CR waits for the next byte: an LF belongs to it, any other byte is left unread.
FedSSE(r, b) ==
  LET before == IF r.cr THEN EndLine([r EXCEPT !.cr = FALSE]) ELSE Cut(r, <<>>)
      after == before.reader
  IN CASE r.cr /\ b = "LF" -> before
       [] b = "CR" -> Cut([after EXCEPT !.cr = TRUE], before.frames)
       [] b = "x" -> Cut([after EXCEPT !.line = @ + 1], before.frames)
       [] OTHER -> EndLine(after)

\* NDJSONReader: lines end with LF; blanks are trimmed and empty lines left out.
FedNDJSON(r, b) ==
  CASE b = "x" -> Cut([r EXCEPT !.line = @ + 1], <<>>)
    [] b = "LF" /\ r.line > 0 -> Cut([r EXCEPT !.line = 0], <<<<r.line>>>>)
    [] OTHER -> Cut(r, <<>>)

FedRaw(r, b) == Cut([r EXCEPT !.line = @ + 1], <<>>)

Fed(b) ==
  CASE format = "sse" -> FedSSE(reader, b)
    [] format = "ndjson" -> FedNDJSON(reader, b)
    [] OTHER -> FedRaw(reader, b)

\* At the end of the body the reader lets go what it has: of SSE, the unfinished line
\* right behind the block's last one, with no line end between.
Flushed ==
  LET ended == IF reader.cr THEN EndLine(reader) ELSE Cut(reader, <<>>)
      r == ended.reader
      n == Len(r.block)
  IN CASE ended.frames # <<>> -> ended.frames
       [] n > 0 -> <<[r.block EXCEPT ![n] = @ + r.line]>>
       [] r.line > 0 \/ format = "raw" -> <<<<r.line>>>>
       [] OTHER -> <<>>

Delivers(frames) ==
  /\ got' = got \o frames
  /\ IF frames = <<>> THEN UNCHANGED <<pc, result>> ELSE Returns("frame")

ReadByte(b) ==
  /\ kind = "http" /\ pc = "recv" /\ reader.end = "none"
  /\ Len(bytes) < MaxBytes
  /\ bytes' = Append(bytes, b)
  /\ reader' = Fed(b).reader
  /\ Delivers(Fed(b).frames)
  /\ UNCHANGED <<kind, ctxDone, format, openVars, wsVars>>

ReadEnd ==
  /\ kind = "http" /\ pc = "recv" /\ reader.end = "none"
  /\ reader' = [NewReader EXCEPT !.end = "eof"]
  /\ Delivers(Flushed)
  /\ UNCHANGED <<kind, ctxDone, format, bytes, openVars, wsVars>>

\* What a reader returns of a body that cannot be read on: a scanner, the line so far.
FlushedByFailure ==
  CASE format = "sse" -> IF reader.cr THEN EndLine(reader).frames ELSE <<>>
    [] format = "ndjson" /\ reader.line > 0 -> <<<<reader.line>>>>
    [] OTHER -> <<>>

\* The body fails: it was cut short or closed, or the context of the request has ended.
ReadFails ==
  /\ kind = "http" /\ pc = "recv" /\ reader.end = "none"
  /\ reader' = [NewReader EXCEPT !.end = "failed"]
  /\ Delivers(FlushedByFailure)
  /\ UNCHANGED <<kind, ctxDone, format, bytes, openVars, wsVars>>

ReadAtEnd ==
  /\ kind = "http" /\ pc = "recv" /\ reader.end # "none"
  /\ Returns(IF reader.end = "eof" THEN "eof" ELSE "error")
  /\ UNCHANGED <<kind, ctxDone, got, openVars, httpVars, wsVars>>

-----------------------------------------------------------------------------
\* readLoop: ReadMessage answers pings on the way to a message or an error, the peer's
\* close included.  Messages are numbered by their place in sent.
PumpPongs ==
  /\ pump = "read" /\ wire # <<>> /\ Head(wire) = "ping"
  /\ wire' = Tail(wire) /\ pongs' = pongs + 1
  /\ UNCHANGED <<kind, ctxDone, pc, got, result, openVars, httpVars, sent, pump, inHand, readCh, done>>

PumpReads ==
  /\ pump = "read" /\ wire # <<>> /\ Head(wire) # "ping"
  /\ inHand' = [kind |-> Head(wire), n |-> Len(sent) + 2 - Len(wire)]
  /\ wire' = Tail(wire) /\ pump' = "send"
  /\ UNCHANGED <<kind, ctxDone, pc, got, result, openVars, httpVars, sent, readCh, pongs, done>>

\* The connection was closed on this side.
PumpBreaks ==
  /\ pump = "read" /\ done
  /\ inHand' = [kind |-> "broken", n |-> 0]
  /\ pump' = "send"
  /\ UNCHANGED <<kind, ctxDone, pc, got, result, openVars, httpVars, sent, wire, readCh, pongs, done>>

IsMessage(read) == read.kind \in {"text", "binary"}

PumpSends ==
  /\ pump = "send" /\ Len(readCh) < Buffer
  /\ readCh' = Append(readCh, inHand)
  /\ pump' = IF IsMessage(inHand) THEN "read" ELSE "ended"
  /\ inHand' = NoRead
  /\ UNCHANGED <<kind, ctxDone, pc, got, result, openVars, httpVars, sent, wire, pongs, done>>

\* Bug: sendRead does not look at done.
PumpNeverStops == pump = "never" /\ UNCHANGED vars

PumpStops ==
  /\ pump = "send" /\ done
  /\ pump' = "ended" /\ inHand' = NoRead
  /\ UNCHANGED <<kind, ctxDone, pc, got, result, openVars, httpVars, sent, wire, readCh, pongs, done>>

\* Bug: Recv hands on what it read before it looks at its context.
RecvDrops ==
  /\ kind = "ws" /\ pc = "recv" /\ ctxDone
  /\ readCh' = IF readCh = <<>> THEN readCh ELSE Tail(readCh)
  /\ Returns("ctx")
  /\ UNCHANGED <<kind, ctxDone, got, openVars, httpVars, sent, wire, pump, inHand, pongs, done>>

RecvInterrupted ==
  /\ kind = "ws" /\ pc = "recv" /\ ctxDone
  /\ Returns("ctx")
  /\ UNCHANGED <<kind, ctxDone, got, openVars, httpVars, wsVars>>

RecvTakes ==
  /\ kind = "ws" /\ pc = "recv" /\ readCh # <<>>
  /\ readCh' = Tail(readCh)
  /\ LET read == Head(readCh)
     IN  /\ got' = IF read.kind = "text" THEN Append(got, read.n) ELSE got
         /\ Returns(CASE read.kind = "text" -> "frame"
                      [] read.kind = "normal" -> "eof"
                      [] OTHER -> "error")
  /\ UNCHANGED <<kind, ctxDone, openVars, httpVars, sent, wire, pump, inHand, pongs, done>>

\* readCh is closed and empty.
RecvAfterEnd ==
  /\ kind = "ws" /\ pc = "recv" /\ readCh = <<>> /\ pump = "ended"
  /\ Returns("eof")
  /\ UNCHANGED <<kind, ctxDone, got, openVars, httpVars, wsVars>>

-----------------------------------------------------------------------------
\* Close, also while Recv is under way.
Close ==
  /\ pc \in {"idle", "recv"} /\ ~done
  /\ done' = TRUE
  /\ UNCHANGED <<kind, ctxDone, pc, got, result, openVars, httpVars, sent, wire, pump, inHand, readCh, pongs>>

ContextEnds ==
  /\ ~ctxDone /\ ctxDone' = TRUE
  /\ UNCHANGED <<kind, pc, got, result, openVars, httpVars, wsVars>>

\* A pooled WebSocket is read for another turn, under that turn's context.
NextTurn ==
  /\ kind = "ws" /\ pc = "idle" /\ ctxDone
  /\ ctxDone' = FALSE
  /\ UNCHANGED <<kind, pc, got, result, openVars, httpVars, wsVars>>

Open ==
  \/ OpenSucceeds \/ TryAgain \/ BackoffInterrupted
  \/ \E seconds \in RetryAfters, retryable \in BOOLEAN : OpenFails(seconds, retryable)

RecvHTTP == (\E b \in {"x", "CR", "LF"} : ReadByte(b)) \/ ReadEnd \/ ReadAtEnd \/ ReadFails

Pump == PumpPongs \/ PumpReads \/ PumpBreaks \/ PumpSends \/ PumpStops

RecvWS == RecvTakes \/ RecvAfterEnd \/ RecvInterrupted

Next == Open \/ CallRecv \/ RecvHTTP \/ Pump \/ RecvWS \/ Close \/ ContextEnds \/ NextTurn

Spec == Init /\ [][Next]_vars

\* Goroutines run, timers fire, and opens and bodies end.
FairSpec ==
  /\ Spec
  /\ WF_vars(Open) /\ WF_vars(ReadEnd \/ ReadAtEnd \/ ReadFails)
  /\ WF_vars(Pump) /\ WF_vars(RecvWS)
-----------------------------------------------------------------------------
Reads == [kind : {"none", "text", "binary", "normal", "abnormal", "broken"}, n : Nat]
Frames == Seq(Nat)

TypeOK ==
  /\ kind \in Kinds /\ ctxDone \in BOOLEAN /\ done \in BOOLEAN /\ offered \in BOOLEAN
  /\ pc \in {"open", "backoff", "recv", "idle", "failed"}
  /\ got \in IF kind = "ws" THEN Seq(Nat) ELSE Seq(Frames)
  /\ result \in {"none", "frame", "eof", "error", "ctx"}
  /\ attempt \in 0..MaxRetries /\ backoff \in 1..MaxBackoff /\ delay \in 0..MaxDuration
  /\ failures \in Seq([after : RetryAfters, retryable : BOOLEAN])
  /\ format \in {"sse", "ndjson", "raw"}
  /\ bytes \in Seq({"x", "CR", "LF"})
  /\ reader \in [line : Nat, block : Seq(Nat), cr : BOOLEAN, end : {"none", "eof", "failed"}]
  /\ sent \in Seq({"text", "binary", "ping"})
  /\ wire \in Seq({"text", "binary", "ping", "normal", "abnormal"}) /\ Len(wire) <= Len(sent) + 1
  /\ pump \in {"read", "send", "ended"}
  /\ inHand \in Reads /\ readCh \in Seq(Reads) /\ Len(readCh) <= Buffer
  /\ pongs \in Nat

Retries == Len(failures)

\* The initial backoff, doubled n times.
Doubled[n \in Nat] == IF n = 0 THEN InitialBackoff ELSE 2 * Doubled[n - 1]

\* Opening gives up after MaxRetries further attempts, tries again only what may be tried
\* again, and sends the whole body each time; it waits what the service asked for, if a
\* Duration can hold that, and else the backoff, doubled for every attempt before and
\* capped (retry.go:58-104, http.go:149-164).
RetriesAsAsked ==
  /\ Retries <= MaxRetries + 1 /\ offered
  /\ \A i \in 1..Retries : i < Retries \/ pc \in {"open", "backoff"} => failures[i].retryable
  /\ pc = "backoff" =>
       LET asked == failures[Retries].after * Second
           doubled == Doubled[Retries - 1]
       IN  /\ asked \in 1..MaxDuration => delay = asked
           /\ asked = 0 => delay = IF doubled < MaxBackoff THEN doubled ELSE MaxBackoff
           /\ delay > 0

\* The numbers of a finite set, the least first.
Ascending(S) ==
  LET At(k) == {i \in S : Cardinality({j \in S : j <= i}) = k}
  IN  [k \in 1..Cardinality(S) |-> CHOOSE i \in At(k) : TRUE]

\* What the bytes of a body say: the lines, whose ends are LF, CR and CRLF (of NDJSON, LF
\* alone), the last one whether or not it is ended.
LineEnds(fmt, body) ==
  {i \in DOMAIN body : body[i] = "LF" \/ (fmt = "sse" /\ body[i] = "CR")}
    \ {i \in DOMAIN body : fmt = "sse" /\ i > 1 /\ body[i - 1] = "CR" /\ body[i] = "LF"}

Lines(fmt, body) ==
  LET ends == Append(Ascending(LineEnds(fmt, body)), Len(body) + 1)
      From(k) == IF k = 1 THEN 1 ELSE ends[k - 1] + 1
  IN  [k \in DOMAIN ends |-> Cardinality({i \in From(k)..(ends[k] - 1) : body[i] = "x"})]

\* The runs of lines that are not empty: where they start and end, and what they are.
Starts(lines) == {i \in DOMAIN lines : lines[i] > 0 /\ (i = 1 \/ lines[i - 1] = 0)}
RunEnds(lines, i) ==
  {e \in i..Len(lines) : (\A k \in i..e : lines[k] > 0) /\ (e = Len(lines) \/ lines[e + 1] = 0)}
RunAt(lines, i) == SubSeq(lines, i, CHOOSE e \in RunEnds(lines, i) : TRUE)

\* A frame of SSE is such a run; of NDJSON, such a line; a raw body is a frame.
FramesIn(fmt, body) ==
  LET lines == Lines(fmt, body)
      runs == Ascending(Starts(lines))
      full == Ascending({i \in DOMAIN lines : lines[i] > 0})
  IN CASE fmt = "sse" -> [k \in DOMAIN runs |-> RunAt(lines, runs[k])]
       [] fmt = "ndjson" -> [k \in DOMAIN full |-> <<lines[full[k]]>>]
       [] OTHER -> <<<<Len(body)>>>>

\* Recv returns the frames of the body, whatever mixture of line ends it has and wherever
\* a CR and its LF are torn apart; all of them when it returns io.EOF.  Of an SSE body that
\* does not end its last line nothing is said: its last two lines may come as one
\* (sse.go:27-66, ndjson.go:23-35, http.go:180-206).
FramesOfBody ==
  kind = "http" /\ reader.end # "none" /\ (format = "sse" => Last(Lines(format, bytes)) = 0) =>
    /\ IsPrefix(got, FramesIn(format, bytes))
    /\ result = "eof" => got = FramesIn(format, bytes)

\* The text messages of a WebSocket come in the order in which they were sent and none is
\* left out, though Recv is interrupted and called again for another turn; unless the
\* stream was closed here, its end comes last (websocket.go:160-185, 216-240).
MessagesInOrder ==
  kind = "ws" =>
    LET Texts == {i \in 1..Len(sent) : sent[i] = "text"}
        Got == {got[k] : k \in 1..Len(got)}
    IN  /\ Got \subseteq Texts
        /\ \A j, k \in 1..Len(got) : j < k => got[j] < got[k]
        /\ \A i \in Texts, n \in Got : i < n => i \in Got
        /\ result = "eof" => done \/ Texts \subseteq Got

\* While the stream is open, pings that at most Buffer unread messages precede are answered, whether or not Recv is
\* called: a pooled connection stays alive between turns.  After Close the read pump ends,
\* though readCh is full and nobody reads it, and so does a Recv under way
\* (websocket.go:160-191, 256-263).
PumpServes ==
  LET early == {i \in DOMAIN sent :
                  /\ sent[i] = "ping"
                  /\ Cardinality({j \in 1..i : sent[j] # "ping"}) <= Buffer}
  IN  /\ kind = "ws" => <>(done \/ pongs >= Cardinality(early))
      /\ kind = "ws" /\ done ~> pump = "ended" /\ pc # "recv"
=============================================================================
