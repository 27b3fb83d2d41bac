--------------------------- MODULE ResponsesStream ---------------------------
(***************************************************************************)
(* The stream of the OpenAI Responses API, which Codex, OpenRouter and     *)
(* Bedrock speak too: its frames, how a provider writes an answer in them, *)
(* and the decoder of providers/openai/responses/codec.go.                 *)
(***************************************************************************)
EXTENDS UnifiedEvents

Frame(t) == [t |-> t]
ItemFrame(t, i, item, id, args) == [t |-> t, index |-> i, item |-> item, id |-> id, args |-> args]
TextFrame(t, i, text) == [t |-> t, index |-> i, text |-> text]
DoneFrame(status, usage) == [t |-> "response.completed", status |-> status, usage |-> usage]
\* A frame whose JSON arrives in two.
Torn(f) == <<[t |-> "half", of |-> f], [t |-> "rest", of |-> f]>>

Status(reason) == IF reason = "length" THEN "incomplete" ELSE "completed"
UsageWire(tokens) ==
  [input |-> InputTotal(tokens), cached |-> tokens.read, write |-> tokens.write,
   output |-> OutputTotal(tokens), reasoning |-> tokens.reasoning]

\* What the service streams: items numbered from 0; the arguments of a tool call are
\* given in deltas and again, whole, when the item is done.
Begins == <<Frame("llmadapter.provider_execution"), Frame("response.created")>>
Starts(n, item) ==
  CASE item.kind = "text" ->
         <<ItemFrame("response.output_item.added", n - 1, "message", 0, <<>>),
           TextFrame("response.content_part.added", n - 1, <<>>)>>
    [] item.kind = "tool" -> <<ItemFrame("response.output_item.added", n - 1, "function_call", n, <<>>)>>
    [] item.kind = "reasoning" -> <<ItemFrame("response.output_item.added", n - 1, "reasoning", 0, <<>>)>>
Gives(n, item, t) ==
  <<TextFrame(CASE item.kind = "text" -> "response.output_text.delta"
                [] item.kind = "tool" -> "response.function_call_arguments.delta"
                [] item.kind = "reasoning" -> "response.reasoning_summary_text.delta", n - 1, t)>>
Ends(n, item) ==
  CASE item.kind = "text" ->
         <<TextFrame("response.content_part.done", n - 1, <<>>),
           ItemFrame("response.output_item.done", n - 1, "message", 0, <<>>)>>
    [] item.kind = "tool" ->
         <<ItemFrame("response.function_call_arguments.done", n - 1, "", 0, item.text),
           ItemFrame("response.output_item.done", n - 1, "function_call", n, item.text)>>
    [] item.kind = "reasoning" -> <<TextFrame("response.reasoning_summary_text.done", n - 1, <<>>)>>
Finishes(reason, tokens) == <<DoneFrame(Status(reason), UsageWire(tokens))>>

-----------------------------------------------------------------------------
Decoder ==
  [started |-> FALSE, startedBlock |-> FALSE, blockIndex |-> 0, ids |-> <<>>, args |-> <<>>,
   startedTools |-> {}, completedTools |-> {}, doneTools |-> FALSE, pending |-> <<>>]

Less(a, b) == IF a > b THEN a - b ELSE 0
TokensOf(u) ==
  [new |-> Less(u.input, u.cached + u.write), read |-> u.cached, write |-> u.write,
   out |-> Less(u.output, u.reasoning), reasoning |-> u.reasoning]

FinishReason(status) ==
  CASE status = "completed" -> "stop" [] status = "incomplete" -> "length" [] OTHER -> "unknown"

\* r is the decoder with the events of the frame so far.
Started(d) ==
  [dec |-> [d EXCEPT !.started = TRUE], out |-> IF d.started THEN <<>> ELSE <<MessageStart>>]

StartBlock(r, i) ==
  IF r.dec.startedBlock THEN r
  ELSE [dec |-> [r.dec EXCEPT !.startedBlock = TRUE, !.blockIndex = i],
        out |-> Append(r.out, BlockStart(i, "text", 0))]

EndBlock(r) ==
  IF ~r.dec.startedBlock THEN r
  ELSE [dec |-> [r.dec EXCEPT !.startedBlock = FALSE],
        out |-> Append(r.out, BlockDone(r.dec.blockIndex, "text"))]

Then(r, e) == [r EXCEPT !.out = Append(@, e)]
IdOf(d, i) == IF i \in DOMAIN d.ids THEN d.ids[i] ELSE 0

StartToolCall(d, i, id) ==
  LET known == IF i \in d.completedTools \/ id = 0 THEN d ELSE [d EXCEPT !.ids = (i :> id) @@ @]
  IN IF i \in d.completedTools \cup d.startedTools
       THEN [dec |-> known, out |-> <<>>]
       ELSE [dec |-> [known EXCEPT !.startedTools = @ \cup {i}],
             out |-> <<BlockStart(i, "tool", IdOf(known, i)), ToolStart(i, IdOf(known, i))>>]

\* The arguments of the first of the two frames that bring them.
DoneToolCall(r, i, arguments) ==
  IF i \in r.dec.completedTools THEN r
  ELSE [dec |-> [r.dec EXCEPT !.doneTools = TRUE, !.completedTools = @ \cup {i}, !.startedTools = @ \ {i}],
        out |-> r.out \o <<ToolDone(i, IdOf(r.dec, i), arguments), BlockDone(i, "tool")>>]

\* The usage, the end of the message and then the finish.
Done(d, f) ==
  LET closed == EndBlock(Started(d))
      reason == IF d.doneTools /\ FinishReason(f.status) = "stop" THEN "tool_call" ELSE FinishReason(f.status)
  IN [closed EXCEPT !.out = @ \o (IF f.usage = <<>> THEN <<>> ELSE <<Usage(TokensOf(f.usage))>>)
                              \o <<MessageDone, Completed(reason)>>]

PushWhole(d, f) ==
  CASE f.t = "error" -> [dec |-> d, out |-> <<Error>>]
    [] f.t = "response.created" -> Started(d)
    [] f.t = "response.output_item.added" ->
         IF f.item = "function_call" THEN StartToolCall(d, f.index, f.id) ELSE [dec |-> d, out |-> <<>>]
    [] f.t = "response.output_item.done" ->
         IF f.item = "function_call"
           THEN DoneToolCall(StartToolCall(d, f.index, f.id), f.index, f.args)
           ELSE [dec |-> d, out |-> <<>>]
    [] f.t = "response.function_call_arguments.done" ->
         DoneToolCall([dec |-> d, out |-> <<>>], f.index, f.args)
    [] f.t = "response.content_part.added" -> StartBlock(Started(d), f.index)
    [] f.t = "response.output_text.delta" ->
         Then(StartBlock(Started(d), f.index), Delta(f.index, "text", f.text))
    [] f.t = "response.reasoning_summary_text.delta" ->
         Then(Started(d), Delta(f.index, "reasoning", f.text))
    [] f.t = "response.reasoning_summary_text.done" -> [dec |-> d, out |-> <<>>]
    [] f.t = "response.content_part.done" -> EndBlock([dec |-> d, out |-> <<>>])
    [] f.t \in {"response.done", "response.completed"} -> Done(d, f)
    [] OTHER -> [dec |-> d, out |-> <<Other>>]

\* Bug: the first half of a torn frame is dropped.
PushForgets(d, f) ==
  CASE f.t \in {"half", "rest"} -> [dec |-> d, out |-> <<>>]
    [] OTHER -> PushWhole(d, f)

\* A JSON text that ends early waits for the frame that follows it.
Push(d, f) ==
  CASE f.t = "half" -> [dec |-> [d EXCEPT !.pending = <<f.of>>], out |-> <<>>]
    [] f.t = "rest" -> PushWhole([d EXCEPT !.pending = <<>>], d.pending[1])
    [] OTHER -> PushWhole(d, f)
=============================================================================
