----------------------------- MODULE ChatStream -----------------------------
(***************************************************************************)
(* The stream of the OpenAI Chat Completions API, which OpenRouter and     *)
(* MiniMax speak too: its chunks, how a provider writes an answer in them, *)
(* and the decoder of providers/openai/chatcompletions/codec.go.           *)
(***************************************************************************)
EXTENDS UnifiedEvents

\* Chunks with one choice.  A piece of a tool call carries the ID where the call
\* begins and the call's place among the tool calls.
Chunk(text, calls, finish) ==
  [t |-> "chunk", text |-> text, calls |-> calls, finish |-> finish, usage |-> <<>>]
Call(i, id, args) == [index |-> i, id |-> id, args |-> args]
UsageChunk(usage) == [t |-> "chunk", text |-> <<>>, calls |-> <<>>, finish |-> "", usage |-> usage]
ErrorChunk == [t |-> "error"]
DoneMarker == [t |-> "[DONE]"]

FinishWire(reason) == CASE reason = "tool_call" -> "tool_calls" [] OTHER -> reason
UsageWire(tokens) ==
  [prompt |-> InputTotal(tokens), cached |-> tokens.read,
   completion |-> OutputTotal(tokens), reasoning |-> tokens.reasoning]

\* What the service streams: text, and tool calls that number from 0.
Begins == <<Chunk(<<>>, <<>>, "")>>
Starts(n, item) == IF item.kind = "tool" THEN <<Chunk(<<>>, <<Call(item.index, n, <<>>)>>, "")>> ELSE <<>>
Gives(n, item, t) ==
  IF item.kind = "tool" THEN <<Chunk(<<>>, <<Call(item.index, 0, t)>>, "")>> ELSE <<Chunk(t, <<>>, "")>>
Finishes(reason, tokens) ==
  <<Chunk(<<>>, <<>>, FinishWire(reason)), UsageChunk(UsageWire(tokens)), DoneMarker>>

-----------------------------------------------------------------------------
Decoder == [started |-> FALSE, ids |-> <<>>, args |-> <<>>, tools |-> {}, failed |-> FALSE]

MapFinishReason(f) ==
  CASE f = "stop" -> "stop" [] f = "length" -> "length" [] f = "tool_calls" -> "tool_call" [] OTHER -> "unknown"

Less(a, b) == IF a > b THEN a - b ELSE 0

\* Bug: cached tokens are counted twice.
TokensOfTwice(u) ==
  [NoTokens EXCEPT !.new = u.prompt, !.read = u.cached, !.out = Less(u.completion, u.reasoning),
                   !.reasoning = u.reasoning]

TokensOf(u) ==
  [NoTokens EXCEPT !.new = Less(u.prompt, u.cached), !.read = u.cached,
                   !.out = Less(u.completion, u.reasoning), !.reasoning = u.reasoning]

IdOf(d, i) == IF i \in DOMAIN d.ids THEN d.ids[i] ELSE 0
ArgsOf(d, i) == IF i \in DOMAIN d.args THEN d.args[i] ELSE <<>>

\* One piece of a tool call.
PushCall(r, call) ==
  LET i == call.index
      d == [r.dec EXCEPT !.ids = IF call.id # 0 THEN (i :> call.id) @@ @ ELSE @]
      starts == i \notin d.tools /\ call.id # 0
  IN [dec |-> [d EXCEPT !.tools = IF starts THEN @ \cup {i} ELSE @,
                        !.args = IF call.args # <<>> THEN (i :> ArgsOf(d, i) \o call.args) @@ @ ELSE @],
      out |-> r.out
                \o (IF starts THEN <<BlockStart(i, "tool", call.id), ToolStart(i, call.id)>> ELSE <<>>)
                \o (IF call.args # <<>> THEN <<ToolArgs(i, IdOf(d, i), call.args)>> ELSE <<>>)]

FinishToolCalls(d) ==
  FoldLeft(LAMBDA evs, i : evs \o <<ToolDone(i, IdOf(d, i), ArgsOf(d, i)), BlockDone(i, "tool")>>,
           <<>>, SetToSortSeq(d.tools, <))

\* The text's block 0 ends with the choice.
PushFinish(r, finish) ==
  LET done == FinishToolCalls(r.dec)
      reason == IF done # <<>> /\ finish = "stop" THEN "tool_call" ELSE MapFinishReason(finish)
  IN [dec |-> [r.dec EXCEPT !.tools = {}, !.ids = <<>>, !.args = <<>>],
      out |-> r.out \o done \o <<BlockDone(0, "text"), Completed(reason), MessageDone>>]

PushChunk(d, f) ==
  LET begun == [dec |-> [d EXCEPT !.started = TRUE],
                out |-> (IF d.started THEN <<>> ELSE <<MessageStart, BlockStart(0, "text", 0)>>)
                          \o (IF f.text = <<>> THEN <<>> ELSE <<Delta(0, "text", f.text)>>)]
      called == FoldLeft(PushCall, begun, f.calls)
      ended == IF f.finish = "" THEN called ELSE PushFinish(called, f.finish)
  IN IF f.usage = <<>> THEN ended ELSE [ended EXCEPT !.out = Append(@, Usage(TokensOf(f.usage)))]

Push(d, f) ==
  CASE f.t = "chunk" -> PushChunk(d, f)
    [] f.t = "error" -> [dec |-> d, out |-> <<Error>>]
    [] f.t = "[DONE]" -> [dec |-> d, out |-> <<>>]
=============================================================================
