--------------------------- MODULE MessagesStream ---------------------------
(***************************************************************************)
(* The stream of the Anthropic Messages API: its frames (anthropicwire),   *)
(* how a provider writes an answer in them, and the decoder that turns     *)
(* them into unified events (providers/anthropic/messages/decoder.go),     *)
(* which the Claude, MiniMax, OpenRouter and Bedrock clients share.        *)
(***************************************************************************)
EXTENDS UnifiedEvents

\* Frames.
StartFrame == [t |-> "message_start"]
BlockStartFrame(i, block, id, t) ==
  [t |-> "content_block_start", index |-> i, block |-> block, id |-> id, text |-> t]
BlockDeltaFrame(i, block, t) == [t |-> "content_block_delta", index |-> i, block |-> block, text |-> t]
BlockStopFrame(i) == [t |-> "content_block_stop", index |-> i]
DeltaFrame(stop, usage) == [t |-> "message_delta", stop |-> stop, usage |-> usage]
StopFrame == [t |-> "message_stop"]
PingFrame == [t |-> "ping"]
ErrorFrame == [t |-> "error"]

BlockType(kind) == CASE kind = "text" -> "text" [] kind = "reasoning" -> "thinking" [] kind = "tool" -> "tool_use"
StopReason(reason) == CASE reason = "stop" -> "end_turn" [] reason = "length" -> "max_tokens"
                        [] reason = "tool_call" -> "tool_use" [] OTHER -> reason
UsageWire(tokens) ==
  [input |-> tokens.new, read |-> tokens.read, creation |-> tokens.write, output |-> OutputTotal(tokens)]

\* What the service streams: an answer's items are blocks, numbered from 0.
Begins == <<StartFrame, PingFrame>>
Starts(n, item) == <<BlockStartFrame(n - 1, BlockType(item.kind), n, <<>>)>>
Gives(n, item, t) == <<BlockDeltaFrame(n - 1, BlockType(item.kind), t)>>
Ends(n, item) == <<BlockStopFrame(n - 1)>>
Finishes(reason, tokens) == <<DeltaFrame(StopReason(reason), UsageWire(tokens)), StopFrame>>

-----------------------------------------------------------------------------
Decoder == [types |-> <<>>, ids |-> <<>>, args |-> <<>>, failed |-> FALSE]

MapStopReason(stop) ==
  CASE stop \in {"end_turn", "stop_sequence"} -> "stop"
    [] stop = "max_tokens" -> "length"
    [] stop = "tool_use" -> "tool_call"
    [] OTHER -> "unknown"

TokensOf(u) == [NoTokens EXCEPT !.new = u.input, !.read = u.read, !.write = u.creation, !.out = u.output]

ArgsOf(d, i) == IF i \in DOMAIN d.args THEN d.args[i] ELSE <<>>
IdOf(d, i) == IF i \in DOMAIN d.ids THEN d.ids[i] ELSE 0

ContentBlockStart(d, f) ==
  LET typed == [d EXCEPT !.types = (f.index :> f.block) @@ @]
  IN CASE f.block = "text" -> [dec |-> typed, out |-> <<BlockStart(f.index, "text", 0)>>]
       [] f.block = "thinking" ->
            [dec |-> typed,
             out |-> <<BlockStart(f.index, "reasoning", 0)>>
                       \o (IF f.text = <<>> THEN <<>> ELSE <<Delta(f.index, "reasoning", f.text)>>)]
       [] f.block = "tool_use" ->
            [dec |-> [typed EXCEPT !.ids = (f.index :> f.id) @@ @, !.args = (f.index :> f.text) @@ @],
             out |-> <<BlockStart(f.index, "tool", f.id), ToolStart(f.index, f.id)>>
                       \o (IF f.text = <<>> THEN <<>> ELSE <<ToolArgs(f.index, f.id, f.text)>>)]

ContentBlockDelta(d, f) ==
  CASE f.block = "text" -> [dec |-> d, out |-> <<Delta(f.index, "text", f.text)>>]
    [] f.block = "thinking" -> [dec |-> d, out |-> <<Delta(f.index, "reasoning", f.text)>>]
    [] f.block = "tool_use" ->
         [dec |-> [d EXCEPT !.args = (f.index :> ArgsOf(d, f.index) \o f.text) @@ @],
          out |-> <<ToolArgs(f.index, IdOf(d, f.index), f.text)>>]

\* A block whose type is not known ends as a text.
ContentBlockStop(d, f) ==
  LET type == IF f.index \in DOMAIN d.types THEN d.types[f.index] ELSE "text"
      rest(m) == Restrict(m, DOMAIN m \ {f.index})
      untyped == [d EXCEPT !.types = rest(@)]
  IN CASE type = "tool_use" ->
            [dec |-> [untyped EXCEPT !.ids = rest(@), !.args = rest(@)],
             out |-> <<ToolDone(f.index, IdOf(d, f.index), ArgsOf(d, f.index)), BlockDone(f.index, "tool")>>]
       [] type = "thinking" -> [dec |-> untyped, out |-> <<BlockDone(f.index, "reasoning")>>]
       [] type = "text" -> [dec |-> untyped, out |-> <<BlockDone(f.index, "text")>>]

\* The finish comes before the usage of the same frame.
MessageDelta(d, f) ==
  [dec |-> d,
   out |-> (IF f.stop = "" THEN <<>> ELSE <<Completed(MapStopReason(f.stop))>>)
             \o (IF f.usage = <<>> THEN <<>> ELSE <<Usage(TokensOf(f.usage))>>)]

Push(d, f) ==
  CASE f.t = "message_start" -> [dec |-> d, out |-> <<MessageStart>>]
    [] f.t = "content_block_start" -> ContentBlockStart(d, f)
    [] f.t = "content_block_delta" -> ContentBlockDelta(d, f)
    [] f.t = "content_block_stop" -> ContentBlockStop(d, f)
    [] f.t = "message_delta" -> MessageDelta(d, f)
    [] f.t = "message_stop" -> [dec |-> d, out |-> <<MessageDone>>]
    [] f.t = "ping" -> [dec |-> d, out |-> <<>>]
    [] f.t = "error" -> [dec |-> d, out |-> <<Error>>]

\* A stream that ends inside a tool call is an error.
Close(d) == IF DOMAIN d.args # {} THEN <<Error>> ELSE <<>>
=============================================================================
