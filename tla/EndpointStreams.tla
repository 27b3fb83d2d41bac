-------------------------- MODULE EndpointStreams ---------------------------
(***************************************************************************)
(* The three endpoints of the gateway, as writers of an answer: a          *)
(* streamState turns unified events into the frames of the endpoint's API, *)
(* and responseFromUnified turns what Collect made of them into one body   *)
(* (endpoints/anthropicmessages, openaichatcompletions, openairesponses).  *)
(* The frames are those that the decoder for the same API reads.           *)
(***************************************************************************)
EXTENDS UnifiedEvents

Messages == INSTANCE MessagesStream
Chat == INSTANCE ChatStream
Responses == INSTANCE ResponsesStream

\* The three streamStates in one.  startedBlocks is the Anthropic one's map started;
\* args is toolArgs, of the Anthropic and of the Responses one.
StreamState ==
  [startedBlocks |-> {}, startedTools |-> {}, completedTools |-> {}, ids |-> <<>>, args |-> <<>>,
   textStarted |-> FALSE, textDone |-> FALSE, messageEnd |-> FALSE, tokens |-> NoTokens]

ArgsOf(s, i) == IF i \in DOMAIN s.args THEN s.args[i] ELSE <<>>
IdOf(s, i) == IF i \in DOMAIN s.ids THEN s.ids[i] ELSE 0
Wrote(s, frames) == [st |-> s, out |-> frames]
Write(r, frames) == [r EXCEPT !.out = @ \o frames]

-----------------------------------------------------------------------------
\* endpoints/anthropicmessages

\* A block is announced once, whatever kind it is asked for then.
StartBlock(s, i, kind, id) ==
  IF i \in s.startedBlocks THEN Wrote(s, <<>>)
  ELSE Wrote([s EXCEPT !.startedBlocks = @ \cup {i}],
             <<Messages!BlockStartFrame(i, Messages!BlockType(kind), id, <<>>)>>)

StopBlock(r, i) ==
  IF i \notin r.st.startedBlocks THEN r
  ELSE Wrote([r.st EXCEPT !.startedBlocks = @ \ {i}], Append(r.out, Messages!BlockStopFrame(i)))

\* Arguments that were not streamed come when the call is done.
AnthropicToolDone(s, e) ==
  StopBlock(Wrote(s, IF ArgsOf(s, e.index) # <<>> \/ e.args = <<>> THEN <<>>
                     ELSE <<Messages!BlockDeltaFrame(e.index, "tool_use", e.args)>>), e.index)

AnthropicCompleted(s, e) ==
  IF s.messageEnd THEN Wrote(s, <<>>)
  ELSE Wrote([s EXCEPT !.messageEnd = TRUE],
             <<Messages!DeltaFrame(Messages!StopReason(e.reason),
                                   IF InputTotal(s.tokens) + OutputTotal(s.tokens) = 0 THEN <<>>
                                   ELSE Messages!UsageWire(s.tokens)),
               Messages!StopFrame>>)

AnthropicPush(s, e) ==
  CASE e.type = "message_start" -> Wrote(s, <<Messages!StartFrame>>)
    [] e.type = "block_start" -> StartBlock(s, e.index, e.kind, e.id)
    [] e.type = "delta" ->
         Write(StartBlock(s, e.index, e.kind, 0),
               <<Messages!BlockDeltaFrame(e.index, Messages!BlockType(e.kind), e.text)>>)
    [] e.type = "tool_start" -> StartBlock(s, e.index, "tool", e.id)
    [] e.type = "tool_args" ->
         Wrote([s EXCEPT !.args = (e.index :> ArgsOf(s, e.index) \o e.text) @@ @],
               <<Messages!BlockDeltaFrame(e.index, "tool_use", e.text)>>)
    [] e.type = "tool_done" -> AnthropicToolDone(s, e)
    [] e.type = "block_done" -> StopBlock(Wrote(s, <<>>), e.index)
    [] e.type = "usage" -> Wrote([s EXCEPT !.tokens = e.tokens], <<>>)
    [] e.type = "completed" -> AnthropicCompleted(s, e)
    [] OTHER -> Wrote(s, <<>>)

-----------------------------------------------------------------------------
\* endpoints/openaichatcompletions: the chunks of tool calls carry no index, which reads as 0.

ChatPush(s, e) ==
  CASE e.type = "message_start" -> Wrote(s, Chat!Begins)
    [] e.type = "delta" -> Wrote(s, <<Chat!Chunk(IF e.kind = "text" THEN e.text ELSE <<>>, <<>>, "")>>)
    [] e.type = "tool_start" -> Wrote(s, <<Chat!Chunk(<<>>, <<Chat!Call(0, e.id, <<>>)>>, "")>>)
    [] e.type = "tool_args" -> Wrote(s, <<Chat!Chunk(<<>>, <<Chat!Call(0, e.id, e.text)>>, "")>>)
    [] e.type = "completed" -> Wrote(s, <<Chat!Chunk(<<>>, <<>>, Chat!FinishWire(e.reason))>>)
    [] OTHER -> Wrote(s, <<>>)

-----------------------------------------------------------------------------
\* endpoints/openairesponses

\* One text part for the whole answer, at output index 0.
StartTextPart(s) ==
  IF s.textStarted THEN Wrote(s, <<>>)
  ELSE Wrote([s EXCEPT !.textStarted = TRUE],
             <<Responses!ItemFrame("response.output_item.added", 0, "message", 0, <<>>),
               Responses!TextFrame("response.content_part.added", 0, <<>>)>>)

\* Bug: the delta is sent at the index of the provider's block.
ResponsesTextAtIndex(s, e) ==
  Write(StartTextPart(s), <<Responses!TextFrame("response.output_text.delta", e.index, e.text)>>)

ResponsesText(s, e) ==
  Write(StartTextPart(s), <<Responses!TextFrame("response.output_text.delta", 0, e.text)>>)

StartToolCall(s, i, id) ==
  IF i \in s.startedTools THEN Wrote(s, <<>>)
  ELSE LET known == FirstNonEmpty(id, IdOf(s, i))
       IN Wrote([s EXCEPT !.startedTools = @ \cup {i}, !.ids = (i :> known) @@ @],
                <<Responses!ItemFrame("response.output_item.added", i, "function_call", known, <<>>)>>)

\* A call that was never started is not announced either.
DoneToolCall(s, e) ==
  IF e.index \in s.completedTools THEN Wrote(s, <<>>)
  ELSE LET st == StartToolCall(s, e.index, e.id).st
           args == IF ArgsOf(st, e.index) = <<>> THEN e.args ELSE ArgsOf(st, e.index)
       IN Wrote([st EXCEPT !.completedTools = @ \cup {e.index}, !.args = (e.index :> args) @@ @],
                <<Responses!ItemFrame("response.output_item.done", e.index, "function_call",
                                      FirstNonEmpty(e.id, IdOf(st, e.index)), args)>>)

ResponsesUsage(tokens) ==
  [input |-> InputTotal(tokens), cached |-> 0, write |-> 0, output |-> OutputTotal(tokens), reasoning |-> 0]

ResponsesPush(s, e) ==
  CASE e.type = "message_start" -> Wrote(s, <<Responses!Frame("response.created")>>)
    [] e.type = "message_done" ->
         Wrote(s, IF s.textStarted
                    THEN <<Responses!ItemFrame("response.output_item.done", 0, "message", 0, <<>>)>>
                    ELSE <<>>)
    [] e.type = "block_start" ->
         CASE e.kind = "text" -> StartTextPart(s)
           [] e.kind = "tool" -> StartToolCall(s, e.index, e.id)
           [] OTHER -> Wrote(s, <<>>)
    [] e.type = "delta" ->
         IF e.kind = "text" THEN ResponsesText(s, e) ELSE Wrote(s, <<>>)
    [] e.type = "tool_start" -> StartToolCall(s, e.index, e.id)
    [] e.type = "tool_args" ->
         Wrote([s EXCEPT !.args = (e.index :> ArgsOf(s, e.index) \o e.text) @@ @], <<>>)
    [] e.type = "tool_done" -> DoneToolCall(s, e)
    [] e.type = "block_done" ->
         IF e.kind = "text" /\ s.textStarted /\ ~s.textDone
           THEN Wrote([s EXCEPT !.textDone = TRUE],
                      <<Responses!TextFrame("response.content_part.done", 0, <<>>)>>)
           ELSE Wrote(s, <<>>)
    [] e.type = "usage" -> Wrote([s EXCEPT !.tokens = e.tokens], <<>>)
    [] e.type = "completed" ->
         Wrote(s, <<Responses!DoneFrame(Responses!Status(e.reason), ResponsesUsage(s.tokens))>>)
    [] OTHER -> Wrote(s, <<>>)

-----------------------------------------------------------------------------
\* The bodies of answers that are not streamed: responseFromUnified.  Only the
\* Responses endpoint leaves the reasoning out.
TextOf(content, kind) == FoldLeft(LAMBDA t, p : IF p.kind = kind THEN t \o p.text ELSE t, <<>>, content)

Body(ep, resp) ==
  [text |-> TextOf(resp.content, "text"),
   reasoning |-> IF ep = "responses" THEN <<>> ELSE TextOf(resp.content, "reasoning"),
   toolCalls |-> resp.toolCalls,
   stop |-> CASE ep = "messages" -> Messages!StopReason(resp.finish)
              [] ep = "chat" -> Chat!FinishWire(resp.finish)
              [] ep = "responses" -> Responses!Status(resp.finish)]
=============================================================================
