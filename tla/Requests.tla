------------------------------ MODULE Requests -------------------------------
(***************************************************************************)
(* A request before it reaches a provider: unified.Request (unified/       *)
(* request.go), and how the three endpoints of the gateway make one out of *)
(* a body of their API (decodeRequest in endpoints/*/codec.go).            *)
(*                                                                         *)
(* The conversation is made of items; an item has a number, which grows    *)
(* along the conversation, a kind, and call, the number of the tool call a *)
(* result answers.  All other fields are options: opts is a function from  *)
(* the names of those a request has to their values; max and budget are    *)
(* the numbers of max_output_tokens and reasoning.max_tokens, 0 when       *)
(* absent.  dropped and warned are what AddWarning was called for.         *)
(***************************************************************************)
EXTENDS Naturals, FiniteSets, SequencesExt

Contents == {"text", "reasoning", "image_url", "image_base64", "image_file", "document"}

\* The elements of a sequence at some of its places, and the items of some kinds.
Picked(s, places) == FlattenSeq([i \in DOMAIN s |-> IF i \in places THEN <<s[i]>> ELSE <<>>])
Select(items, kinds) == Picked(items, {i \in DOMAIN items : items[i].kind \in kinds})
Ids(items) == {items[i].id : i \in DOMAIN items}

\* unified.Message: content parts, tool calls and tool results are three lists.
Message(role, content, calls, results) ==
  [role |-> role, content |-> content, calls |-> calls, results |-> results]

\* The message of a conversation's items that a caller of the library builds; of an
\* assistant's it is AssistantMessageFromResponse.
MessageOf(role, items) ==
  Message(role, Select(items, Contents), Select(items, {"call"}), Select(items, {"result"}))

\* The extensions of a request, by the group that sets them.
ExtensionFields == {"openrouter", "anthropic", "codex", "store", "prompt_cache_key", "previous"}

-----------------------------------------------------------------------------
\* What an endpoint makes of a message of the body: messages, instructions, and the
\* items it gave up with a warning.
Decoded(messages, instructions, dropped) ==
  [messages |-> messages, instructions |-> instructions, dropped |-> dropped]

\* Bug: the results of tools stay in the message of the user.
DecodeAnthropicMessageWhole(msg) ==
  LET kept == Select(msg.items, {"text", "reasoning", "image_url", "image_base64"})
  IN Decoded(<<Message(msg.role, kept, Select(msg.items, {"call"}), <<>>)>>, <<>>,
             Ids(Select(msg.items, {"image_file", "document"})))

\* endpoints/anthropicmessages: the results get a message of their own, after the rest.
DecodeAnthropicMessage(msg) ==
  LET kept == Select(msg.items, {"text", "reasoning", "image_url", "image_base64"})
      calls == Select(msg.items, {"call"})
      results == Select(msg.items, {"result"})
      rest == IF results # <<>> /\ msg.role = "user" /\ kept = <<>> /\ calls = <<>>
                THEN <<>>
                ELSE <<Message(msg.role, kept, calls, <<>>)>>
  IN Decoded(rest \o IF results # <<>> /\ msg.role = "user"
                       THEN <<Message("tool", <<>>, <<>>, results)>>
                       ELSE <<>>,
             <<>>, Ids(Select(msg.items, {"image_file", "document"})))

\* endpoints/openaichatcompletions: system and developer messages are instructions.
DecodeChatMessage(msg) ==
  LET kept == Select(msg.items, {"text", "image_url"})
      dropped == Ids(Select(msg.items, Contents \ {"text", "image_url"}))
  IN CASE msg.role = "system" -> Decoded(<<>>, kept, dropped)
       [] msg.role = "tool" -> Decoded(<<MessageOf("tool", msg.items)>>, <<>>, dropped)
       [] OTHER -> Decoded(<<Message(msg.role, kept, Select(msg.items, {"call"}), <<>>)>>, <<>>, dropped)

\* endpoints/openairesponses: an item of the input is a message of its own.
DecodeInputItem(msg) ==
  LET item == msg.items[1]
  IN CASE item.kind = "call" -> Decoded(<<Message("assistant", <<>>, <<item>>, <<>>)>>, <<>>, {})
       [] item.kind = "result" -> Decoded(<<Message("tool", <<>>, <<>>, <<item>>)>>, <<>>, {})
       [] item.kind = "reasoning" -> Decoded(<<>>, <<>>, {item.id})
       [] OTHER -> Decoded(<<Message(msg.role, Select(<<item>>, {"text", "image_url", "image_file"}), <<>>, <<>>)>>,
                           <<>>, Ids(Select(<<item>>, {"image_base64", "document"})))

DecodeMessage(ep, msg) ==
  CASE ep = "messages" -> DecodeAnthropicMessage(msg)
    [] ep = "chat" -> DecodeChatMessage(msg)
    [] ep = "responses" -> DecodeInputItem(msg)

\* The messages of the body, one after the other.
DecodeMessages(ep, msgs) ==
  LET d == [i \in DOMAIN msgs |-> DecodeMessage(ep, msgs[i])]
  IN Decoded(FlattenSeq([i \in DOMAIN msgs |-> d[i].messages]),
             FlattenSeq([i \in DOMAIN msgs |-> d[i].instructions]),
             UNION {d[i].dropped : i \in DOMAIN msgs})

\* The options that the type Request of an endpoint has a field for.
WireFields(ep) ==
  CASE ep = "messages" -> {"temperature", "top_p", "top_k", "stop", "tools", "tool_choice", "openrouter"}
    [] ep = "chat" -> {"temperature", "top_p", "stop", "user", "tools", "tool_choice", "format", "openrouter"}
    [] ep = "responses" -> {"temperature", "top_p", "user", "tools", "tool_choice", "format",
                            "previous", "store", "prompt_cache_key", "openrouter"}

\* Values that an endpoint does not know are dropped, and so is a tool that is not a
\* function; but the Anthropic endpoint takes every tool for a function.
Unknown(ep, opts) ==
  {f \in DOMAIN opts : f \in {"tool_choice", "format", "stop"} /\ opts[f] = "unknown"}
    \cup {f \in DOMAIN opts : f = "tools" /\ opts[f] = "server" /\ ep # "messages"}

DecodeOptions(ep, opts) ==
  LET read == Restrict(opts, DOMAIN opts \cap WireFields(ep))
      known == Restrict(read, DOMAIN read \ Unknown(ep, read))
  IN [f \in DOMAIN known |-> IF f = "tools" THEN "function" ELSE known[f]]

\* A request of the Messages API must say max_tokens.
Rejects(ep, body) == ep = "messages" /\ body.max = 0

\* decodeRequest.
DecodeRequest(ep, body) ==
  LET d == DecodeMessages(ep, body.msgs)
      read == DOMAIN body.opts \cap WireFields(ep)
  IN [messages |-> d.messages,
      instructions |-> Select(body.system, {"text", "reasoning"}) \o d.instructions,
      opts |-> DecodeOptions(ep, body.opts),
      max |-> body.max, budget |-> 0,
      dropped |-> d.dropped,
      warned |-> Unknown(ep, Restrict(body.opts, read))]
=============================================================================
