--------------------------- MODULE ConverseStream ---------------------------
(***************************************************************************)
(* The stream of Bedrock's Converse API: its events, how the service       *)
(* writes an answer in them, and readStream of                             *)
(* providers/bedrock/converse/client.go.                                   *)
(***************************************************************************)
EXTENDS UnifiedEvents

StartFrame == [t |-> "messageStart"]
BlockStartFrame(i, id) == [t |-> "contentBlockStart", index |-> i, id |-> id]
BlockDeltaFrame(i, kind, t) == [t |-> "contentBlockDelta", index |-> i, kind |-> kind, text |-> t]
BlockStopFrame(i) == [t |-> "contentBlockStop", index |-> i]
StopFrame(reason) == [t |-> "messageStop", reason |-> reason]
MetadataFrame(usage) == [t |-> "metadata", usage |-> usage]
FailedFrame == [t |-> "exception"]

StopWire(reason) ==
  CASE reason = "stop" -> "end_turn" [] reason = "length" -> "max_tokens" [] reason = "tool_call" -> "tool_use"

\* What the service streams: only a tool's block is announced, and the usage comes last.
Begins == <<StartFrame>>
Starts(n, item) == IF item.kind = "tool" THEN <<BlockStartFrame(n - 1, n)>> ELSE <<>>
Gives(n, item, t) == <<BlockDeltaFrame(n - 1, item.kind, t)>>
Ends(n, item) == <<BlockStopFrame(n - 1)>>
Finishes(reason, tokens) == <<StopFrame(StopWire(reason)), MetadataFrame(tokens)>>

-----------------------------------------------------------------------------
Decoder == [started |-> FALSE, blocks |-> <<>>, stop |-> "", over |-> FALSE]

FinishReason(stop) ==
  CASE stop = "end_turn" -> "stop" [] stop = "tool_use" -> "tool_call" [] stop = "max_tokens" -> "length"
    [] stop = "content_filtered" -> "error" [] OTHER -> "unknown"

\* A tool call without arguments has the arguments {}.
NoArguments == <<0>>

TokensOf(u) == [NoTokens EXCEPT !.new = u.new, !.read = u.read, !.write = u.write, !.out = OutputTotal(u)]

EmitStart(d) ==
  [dec |-> [d EXCEPT !.started = TRUE], out |-> IF d.started THEN <<>> ELSE <<MessageStart>>]

OnToolBlock(r, f) ==
  [dec |-> [r.dec EXCEPT !.blocks = (f.index :> [kind |-> "tool", id |-> f.id, args |-> <<>>]) @@ @],
   out |-> Append(r.out, ToolStart(f.index, f.id))]

\* The first delta of a text or of a reasoning announces its block.
OnBlockDelta(r, f) ==
  LET known == f.index \in DOMAIN r.dec.blocks
      block == IF known THEN r.dec.blocks[f.index] ELSE [kind |-> f.kind, id |-> 0, args |-> <<>>]
      args == IF f.kind = "tool" THEN block.args \o f.text ELSE block.args
  IN [dec |-> [r.dec EXCEPT !.blocks = (f.index :> [block EXCEPT !.args = args]) @@ @],
      out |-> r.out
                \o (IF known \/ f.kind = "tool" THEN <<>> ELSE <<BlockStart(f.index, f.kind, 0)>>)
                \o <<IF f.kind = "tool" THEN ToolArgs(f.index, block.id, f.text)
                                        ELSE Delta(f.index, f.kind, f.text)>>]

OnBlockStop(r, f) ==
  IF f.index \notin DOMAIN r.dec.blocks THEN r
  ELSE LET block == r.dec.blocks[f.index]
           args == IF block.args = <<>> THEN NoArguments ELSE block.args
       IN [r EXCEPT !.out = Append(@, IF block.kind = "tool" THEN ToolDone(f.index, block.id, args)
                                                             ELSE BlockDone(f.index, block.kind))]

\* readStream returns behind the metadata.
Push(d, f) ==
  IF d.over THEN [dec |-> d, out |-> <<>>] ELSE
  CASE f.t = "messageStart" -> EmitStart(d)
    [] f.t = "contentBlockStart" -> OnToolBlock(EmitStart(d), f)
    [] f.t = "contentBlockDelta" -> OnBlockDelta(EmitStart(d), f)
    [] f.t = "contentBlockStop" -> OnBlockStop(EmitStart(d), f)
    [] f.t = "messageStop" -> [dec |-> [d EXCEPT !.stop = FinishReason(f.reason)], out |-> <<>>]
    [] f.t = "metadata" ->
         [dec |-> [d EXCEPT !.over = TRUE],
          out |-> <<Usage(TokensOf(f.usage)), MessageDone,
                    Completed(IF d.stop = "" THEN "stop" ELSE d.stop)>>]
    [] f.t = "exception" -> [dec |-> [d EXCEPT !.over = TRUE], out |-> <<Error>>]
=============================================================================
