--------------------------- MODULE UnifiedEvents ---------------------------
(***************************************************************************)
(* The events every provider's stream is turned into (unified/event.go)    *)
(* and what Collect makes of them (unified/response.go).                   *)
(*                                                                         *)
(* A text, a reasoning summary or the arguments of a tool call is the      *)
(* sequence of the pieces the provider gave; the empty string is <<>>.  A  *)
(* tool call's ID and name are one number, 0 when both are empty.  A map   *)
(* of Go is a function whose domain is the map's keys.                     *)
(***************************************************************************)
EXTENDS Naturals, FiniteSets, SequencesExt

NoTokens == [new |-> 0, read |-> 0, write |-> 0, out |-> 0, reasoning |-> 0]
InputTotal(t) == t.new + t.read + t.write
OutputTotal(t) == t.out + t.reasoning

MessageStart == [type |-> "message_start"]
MessageDone == [type |-> "message_done"]
BlockStart(i, k, id) == [type |-> "block_start", index |-> i, kind |-> k, id |-> id]
BlockDone(i, k) == [type |-> "block_done", index |-> i, kind |-> k]
\* TextDeltaEvent and ReasoningDeltaEvent; a signature is a piece like any other.
Delta(i, k, t) == [type |-> "delta", index |-> i, kind |-> k, text |-> t]
ToolStart(i, id) == [type |-> "tool_start", index |-> i, id |-> id]
ToolArgs(i, id, t) == [type |-> "tool_args", index |-> i, id |-> id, text |-> t]
ToolDone(i, id, args) == [type |-> "tool_done", index |-> i, id |-> id, args |-> args]
Usage(tokens) == [type |-> "usage", tokens |-> tokens]
Completed(reason) == [type |-> "completed", reason |-> reason]
Error == [type |-> "error"]
\* RawEvent, ProviderExecutionEvent, QuotaUsageEvent: nothing the answer is made of.
Other == [type |-> "other"]

-----------------------------------------------------------------------------
\* The local variables of Collect.  bufs holds the maps texts and reasoning, by kind.
Collector ==
  [bufs |-> <<>>, kinds |-> <<>>, toolIndexes |-> <<>>, toolArgs |-> <<>>,
   content |-> <<>>, toolCalls |-> <<>>, finish |-> "", tokens |-> NoTokens, err |-> FALSE]

FirstNonEmpty(a, b) == IF a # 0 THEN a ELSE b

\* Bug: a block that ends keeps its buffers.
FlushBlockKeeps(c, i) ==
  [c EXCEPT !.content = IF <<"text", i>> \in DOMAIN c.bufs
                          THEN Append(@, [kind |-> "text", text |-> c.bufs[<<"text", i>>]])
                          ELSE @]

\* The content of block i goes into the response if it is of the kind the block has
\* now; all the block's buffers are dropped.
FlushBlock(c, i) ==
  LET b == IF i \in DOMAIN c.kinds /\ <<c.kinds[i], i>> \in DOMAIN c.bufs
             THEN c.bufs[<<c.kinds[i], i>>]
             ELSE <<>>
  IN [c EXCEPT !.content = IF b = <<>> THEN @ ELSE Append(@, [kind |-> c.kinds[i], text |-> b]),
               !.bufs = Restrict(@, {x \in DOMAIN @ : x[2] # i}),
               !.kinds = Restrict(@, DOMAIN @ \ {i})]

OnBlockStart(c, e) ==
  [c EXCEPT !.kinds = (e.index :> e.kind) @@ @,
            !.bufs = IF e.kind \in {"text", "reasoning"}
                       THEN (<<e.kind, e.index>> :> <<>>) @@ @
                       ELSE @]

OnDelta(c, e) ==
  LET key == <<e.kind, e.index>>
  IN IF key \in DOMAIN c.bufs
       THEN [c EXCEPT !.bufs[key] = @ \o e.text]
       ELSE [c EXCEPT !.bufs = (key :> e.text) @@ @,
                      !.kinds = (e.index :> e.kind) @@ @]

OnToolStart(c, e) ==
  [c EXCEPT !.toolCalls = Append(@, [id |-> e.id, args |-> <<>>]),
            !.toolIndexes = (e.index :> Len(c.toolCalls) + 1) @@ @,
            !.toolArgs = (e.index :> <<>>) @@ @]

Buffered(c, i) == IF i \in DOMAIN c.toolArgs THEN c.toolArgs[i] ELSE <<>>

OnToolArgs(c, e) ==
  [c EXCEPT !.toolArgs = (e.index :> Buffered(c, e.index) \o e.text) @@ @]

\* The call's arguments are those of the event or else those of the deltas.
OnToolDone(c, e) ==
  LET known == e.index \in DOMAIN c.toolIndexes
      calls == IF known THEN c.toolCalls ELSE Append(c.toolCalls, [id |-> 0, args |-> <<>>])
      at == IF known THEN c.toolIndexes[e.index] ELSE Len(calls)
      args == IF e.args # <<>> THEN e.args ELSE Buffered(c, e.index)
  IN [c EXCEPT !.toolCalls =
        [calls EXCEPT ![at] = [id |-> FirstNonEmpty(e.id, @.id),
                               args |-> IF args # <<>> THEN args ELSE @.args]]]

\* One event; Collect has returned when err is set.
Collect(c, e) ==
  IF c.err THEN c ELSE
  CASE e.type = "block_start" -> OnBlockStart(c, e)
    [] e.type = "block_done" -> FlushBlock(c, e.index)
    [] e.type = "delta" -> OnDelta(c, e)
    [] e.type = "tool_start" -> OnToolStart(c, e)
    [] e.type = "tool_args" -> OnToolArgs(c, e)
    [] e.type = "tool_done" -> OnToolDone(c, e)
    [] e.type = "usage" -> [c EXCEPT !.tokens = e.tokens]
    [] e.type = "completed" -> [c EXCEPT !.finish = e.reason]
    [] e.type = "error" -> [c EXCEPT !.err = TRUE]
    [] OTHER -> c

\* At the end of the events Collect flushes what is still open, in the order of a map.
CollectEnds(c) ==
  IF c.err THEN {c} ELSE {FoldLeft(FlushBlock, c, order) : order \in SetToSeqs(DOMAIN c.kinds)}
=============================================================================
