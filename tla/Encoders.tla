------------------------------ MODULE Encoders -------------------------------
(***************************************************************************)
(* A unified request in the API of a provider: the request halves of the   *)
(* codecs for Anthropic Messages, Chat Completions and Responses and of    *)
(* the Bedrock Converse client, with what the clients for OpenRouter,      *)
(* Bedrock Mantle and Codex change about them.  The resolved metadata of a *)
(* model (unified.ResolvedModelMetadata) is the set of mappings it         *)
(* confirms.                                                               *)
(***************************************************************************)
EXTENDS Requests

Providers == {"anthropic", "openrouter_messages", "bedrock_messages", "openai_chat", "openrouter_chat",
              "openai_responses", "openrouter_responses", "bedrock_responses", "codex", "converse", "converse_opus"}

Family(provider) ==
  CASE provider \in {"anthropic", "openrouter_messages", "bedrock_messages"} -> "messages"
    [] provider \in {"openai_chat", "openrouter_chat"} -> "chat"
    [] provider \in {"openai_responses", "openrouter_responses", "bedrock_responses", "codex"} -> "responses"
    [] provider \in {"converse", "converse_opus"} -> "converse"

\* The options that a provider's request has a field for.
ApiFields(provider) ==
  CASE Family(provider) = "chat" -> {"temperature", "top_p", "stop", "user", "tools", "tool_choice", "format", "parallel"}
                                      \cup IF provider = "openrouter_chat" THEN {"openrouter"} ELSE {}
    [] Family(provider) = "responses" -> {"temperature", "top_p", "top_k", "user", "tools", "tool_choice", "format",
                                          "parallel", "effort", "cache", "previous", "store", "prompt_cache_key"}
    [] Family(provider) = "messages" -> {"temperature", "top_p", "top_k", "stop", "tools", "tool_choice", "format",
                                         "effort", "cache", "anthropic"}
    [] Family(provider) = "converse" -> {"temperature", "top_p", "top_k", "stop", "tools", "tool_choice", "effort"}

\* A message of a provider's request, its items in order.
Wire(role, items) == [role |-> role, items |-> items]

Encoded(req) ==
  [refused |-> "", system |-> <<>>, messages |-> <<>>, opts |-> req.opts, max |-> req.max,
   budget |-> 0, dropped |-> {}, warned |-> {}]
\* An UnsupportedFieldError ends a request; after another error the next route is tried.
Refused(req, why) == [Encoded(req) EXCEPT !.refused = why]

\* Options that leave without a word, and those a warning is sent for.
Ignore(r, fields) == [r EXCEPT !.opts = Restrict(@, DOMAIN @ \ fields)]
Warn(r, fields) == [Ignore(r, fields) EXCEPT !.warned = @ \cup (fields \cap DOMAIN r.opts)]
Put(r, field, value) ==
  [r EXCEPT !.opts = [f \in DOMAIN @ \cup {field} |-> IF f = field THEN value ELSE @[f]]]
OptionIs(r, field, values) == field \in DOMAIN r.opts /\ r.opts[field] \in values

\* Content of the kinds an API takes; the rest is dropped, with a warning for each part.
Take(r, items, kinds) == [r EXCEPT !.dropped = @ \cup Ids(Select(items, Contents \ kinds))]

\* A tool that is not a function, an extension that is not valid.
WarnUnusable(r) ==
  Warn(r, {f \in DOMAIN r.opts : \/ f = "tools" /\ r.opts[f] = "server"
                                 \/ f \in ExtensionFields /\ r.opts[f] = "malformed"})

-----------------------------------------------------------------------------
\* providers/openai/chatcompletions

ChatKinds == {"text", "image_url", "image_base64"}

\* Bug: the results of tools are put together in one message.
ChatMessagesJoined(msg) ==
  IF msg.role = "tool" THEN <<Wire("tool", msg.results)>>
  ELSE <<Wire(msg.role, Select(msg.content, ChatKinds) \o msg.calls)>>

\* Each result of a tool is a message.
ChatMessages(msg) ==
  IF msg.role = "tool" /\ msg.results # <<>>
    THEN [i \in DOMAIN msg.results |-> Wire("tool", <<msg.results[i]>>)]
    ELSE <<Wire(msg.role, Select(msg.content, ChatKinds) \o msg.calls)>>

EncodeChat(provider, req) ==
  LET parts == Ignore(Encoded(req), {"top_k", "seed", "effort", "cache"}
                        \cup (ExtensionFields \ IF provider = "openrouter_chat" THEN {"openrouter"} ELSE {}))
      r == WarnUnusable(Warn(parts, {f \in {"format"} : OptionIs(parts, f, {"unknown"})}))
      called == IF \/ OptionIs(r, "tool_choice", {"unknown"})
                   \/ OptionIs(r, "tool_choice", {"none"}) /\ "tools" \notin DOMAIN r.opts
                  THEN Ignore(r, {"tool_choice"}) ELSE r
      parallel == IF "parallel" \in DOMAIN called.opts THEN called ELSE Put(called, "parallel", "no")
      contents == FlattenSeq([i \in DOMAIN req.messages |-> req.messages[i].content])
      system == [i \in DOMAIN req.instructions |-> Wire("system", Select(<<req.instructions[i]>>, {"text"}))]
  IN [Take(Take(parallel, contents, ChatKinds), req.instructions, {"text"})
        EXCEPT !.messages = system \o FlattenSeq([i \in DOMAIN req.messages |-> ChatMessages(req.messages[i])])]

-----------------------------------------------------------------------------
\* providers/openai/responses

ResponsesKinds == {"text", "image_url", "image_base64", "image_file"}

\* A message without content is not sent; calls and results are items beside it.
ResponsesItems(msg) ==
  LET content == Select(msg.content, ResponsesKinds)
  IN (IF content = <<>> THEN <<>> ELSE <<Wire(msg.role, content)>>)
       \o [i \in DOMAIN msg.calls |-> Wire("call", <<msg.calls[i]>>)]
       \o [i \in DOMAIN msg.results |-> Wire("result", <<msg.results[i]>>)]

\* The transport of Codex takes the sampling controls and the limits out of the body.
MutateCodexBody(r) ==
  [Put(Ignore(r, {"temperature", "top_p", "top_k"}), "store", "no") EXCEPT !.max = 0]

\* Bedrock Mantle only knows the automatic choice of tools.
BedrockBodyMutator(r) ==
  IF "tool_choice" \notin DOMAIN r.opts \/ r.opts["tool_choice"] = "auto" THEN r
  ELSE Put(Warn(r, {"tool_choice"}), "tool_choice", "auto")

MutateBody(provider, r) ==
  CASE provider = "codex" -> MutateCodexBody(Warn(r, {"previous"}))
    [] provider = "bedrock_responses" -> BedrockBodyMutator(r)
    [] OTHER -> r

\* A transport refuses extensions for Codex that are not valid.
EncodeResponses(provider, req) ==
  LET own == CASE provider = "openrouter_responses" -> {"openrouter"} [] provider = "codex" -> {"codex"} [] OTHER -> {}
      parts == Ignore(Encoded(req), {"stop", "seed"}
                        \cup (ExtensionFields \ ({"previous", "store", "prompt_cache_key"} \cup own)))
      r == WarnUnusable(Warn(parts, {f \in {"format"} : OptionIs(parts, f, {"unknown"})}))
      known == Ignore(r, {f \in {"cache"} : OptionIs(r, f, {"on", "off"})}
                           \cup {f \in {"tool_choice"} : OptionIs(r, f, {"unknown"})})
      parallel == IF "parallel" \in DOMAIN known.opts THEN known ELSE Put(known, "parallel", "no")
      contents == FlattenSeq([i \in DOMAIN req.messages |-> req.messages[i].content])
      sent == [Take(Take(parallel, contents, ResponsesKinds), req.instructions, {"text"})
                 EXCEPT !.system = Select(req.instructions, {"text"}),
                        !.messages = FlattenSeq([i \in DOMAIN req.messages |-> ResponsesItems(req.messages[i])])]
  IN IF provider = "codex" /\ OptionIs(Encoded(req), "codex", {"malformed"})
       THEN Refused(req, "error")
       ELSE MutateBody(provider, sent)

-----------------------------------------------------------------------------
\* providers/anthropic/messages

HalfOf(n) == n \div 2

\* thinkingBudget.
ThinkingBudget(budget, effort, max) ==
  CASE budget > 0 -> budget
    [] budget = 0 /\ effort = "high" /\ max > 8192 -> 8192
    [] budget = 0 /\ effort = "medium" /\ max > 4096 -> 4096
    [] budget = 0 /\ effort = "max" /\ max > 1024 -> max - 1
    [] OTHER -> IF effort # "low" /\ max > 2048 THEN HalfOf(max) ELSE 1024

\* Bug: a limit that equals the budget is left alone.
EnableThinkingAtLimit(r, budget) ==
  LET raised == IF r.max >= budget THEN r ELSE [r EXCEPT !.max = budget + 1, !.warned = @ \cup {"max"}]
  IN [Put(Warn(Put(raised, "temperature", "one"), {"top_k"}), "thinking", "enabled") EXCEPT !.budget = budget]

\* applyReasoning, with a budget: the limit grows above it, the temperature is 1, and
\* top_k goes.
EnableThinking(r, budget) ==
  LET raised == IF r.max > budget THEN r ELSE [r EXCEPT !.max = budget + 1, !.warned = @ \cup {"max"}]
      hot == IF OptionIs(raised, "temperature", {"one"}) THEN raised
             ELSE [Put(raised, "temperature", "one") EXCEPT !.warned = @ \cup {"temperature"}]
  IN [Put(Warn(hot, {"top_k"}), "thinking", "enabled") EXCEPT !.budget = budget]

Effort(r) == IF "effort" \in DOMAIN r.opts THEN r.opts["effort"] ELSE ""

ApplyReasoning(r, budget, meta) ==
  IF budget = 0 /\ "effort" \notin DOMAIN r.opts THEN r
  ELSE IF budget = 0 /\ "adaptive" \in meta THEN Put(r, "thinking", "adaptive")
  ELSE LET n == ThinkingBudget(budget, Effort(r), r.max)
       IN IF n < 1024 THEN [r EXCEPT !.refused = "unsupported"] ELSE Ignore(EnableThinking(r, n), {"effort"})

\* Bug: a format without a mapping goes without a word.
ApplyResponseFormatQuiet(r, meta) == IF "format" \in meta THEN r ELSE Ignore(r, {"format"})

\* A format needs a mapping; text is what there is without one.
ApplyResponseFormat(r, meta) ==
  CASE OptionIs(r, "format", {"text"}) -> Ignore(r, {"format"})
    [] OptionIs(r, "format", {"json", "json_schema", "unknown"}) /\ "format" \notin meta -> Warn(r, {"format"})
    [] OptionIs(r, "format", {"unknown"}) /\ "format" \in meta -> [r EXCEPT !.refused = "unsupported"]
    [] OTHER -> r

\* bedrockThinkingProcessor.
BedrockThinking(r) ==
  IF OptionIs(r, "thinking", {"enabled"})
    THEN [Put(Put(r, "thinking", "adaptive"), "effort", "high") EXCEPT !.budget = 0]
    ELSE r

MessagesKinds == {"text", "reasoning", "image_url", "image_base64"}

\* encodeMessage, with instructions apart; a message of the system goes there too.
AnthropicMessage(msg) ==
  Wire(IF msg.role = "tool" THEN "user" ELSE msg.role,
       Select(msg.content, MessagesKinds) \o msg.calls \o msg.results)

EncodeMessages(provider, req, meta) ==
  LET own == {"anthropic"} \cup IF provider = "openrouter_messages" THEN {"openrouter"} ELSE {}
      parts == WarnUnusable(Ignore(Encoded(req), {"user", "parallel"} \cup (ExtensionFields \ own)))
      cached == Ignore(parts, {f \in {"cache"} : OptionIs(parts, f, {"off"})})
      r == ApplyResponseFormat(ApplyReasoning(Warn(cached, {"seed"}), req.budget, meta), meta)
      systems == {i \in DOMAIN req.messages : req.messages[i].role = "system"}
      system == Picked(req.messages, systems)
      others == Picked(req.messages, DOMAIN req.messages \ systems)
      contents == FlattenSeq([i \in DOMAIN others |-> others[i].content])
      sent == [Take(r, contents, MessagesKinds)
                 EXCEPT !.system = Select(req.instructions, {"text", "reasoning"})
                                     \o FlattenSeq([i \in DOMAIN system |-> Select(system[i].content, {"text", "reasoning"})]),
                        !.messages = [i \in DOMAIN others |-> AnthropicMessage(others[i])]]
  IN IF req.max = 0 THEN Refused(req, "unsupported")
     ELSE IF OptionIs(r, "tool_choice", {"unknown"}) /\ sent.refused = "" THEN Refused(req, "error")
     ELSE IF provider = "bedrock_messages" THEN BedrockThinking(sent) ELSE sent

-----------------------------------------------------------------------------
\* providers/bedrock/converse

\* What is sent of a message; one with nothing left is not sent.
ConverseMessages(msg) ==
  LET items == CASE msg.role = "user" -> Select(msg.content, {"text"})
                 [] msg.role = "assistant" -> Select(msg.content, {"text", "reasoning"}) \o msg.calls
                 [] msg.role = "tool" -> msg.results
                 [] OTHER -> <<>>
  IN IF items = <<>> THEN <<>>
     ELSE <<Wire(IF msg.role = "tool" THEN "user" ELSE msg.role, items)>>

ReasoningBudget(budget, effort) ==
  CASE budget > 0 -> budget
    [] budget = 0 /\ effort = "low" -> 1024
    [] budget = 0 /\ effort = "high" -> 8192
    [] budget = 0 /\ effort = "max" -> 31999
    [] OTHER -> 4096

ConverseReasoning(provider, r, budget) ==
  IF budget = 0 /\ "effort" \notin DOMAIN r.opts THEN r
  ELSE IF budget = 0 /\ provider = "converse_opus" THEN Put(r, "thinking", "adaptive")
  ELSE [Ignore(Put(r, "thinking", "enabled"), {"effort"}) EXCEPT !.budget = ReasoningBudget(budget, Effort(r))]

\* toolConfiguration: no tools when none may be chosen, and no forced choice with reasoning.
ConverseTools(r, reasons) ==
  IF "tools" \notin DOMAIN r.opts THEN Ignore(r, {"tool_choice"})
  ELSE CASE OptionIs(r, "tool_choice", {"none"}) -> Ignore(r, {"tools", "tool_choice"})
         [] OptionIs(r, "tool_choice", {"tool"}) /\ reasons -> Put(Warn(r, {"tool_choice"}), "tool_choice", "auto")
         [] OptionIs(r, "tool_choice", {"unknown"}) -> Warn(r, {"tool_choice"})
         [] OTHER -> r

EncodeConverse(provider, req) ==
  LET parts == Ignore(WarnUnusable(Ignore(Encoded(req), ExtensionFields)),
                      {"format", "seed", "user", "parallel", "cache"})
      reasons == req.budget > 0 \/ "effort" \in DOMAIN req.opts
      r == ConverseReasoning(provider, ConverseTools(parts, reasons), req.budget)
      contents(role) == FlattenSeq([i \in DOMAIN req.messages |->
                          IF req.messages[i].role = role THEN req.messages[i].content ELSE <<>>])
  IN [Take(Take(Take(Take(r, contents("user"), {"text"}), contents("assistant"), {"text", "reasoning"}),
                contents("system"), {"text"}), req.instructions, {"text"})
        EXCEPT !.system = Select(req.instructions, {"text"}) \o Select(contents("system"), {"text"}),
               !.messages = FlattenSeq([i \in DOMAIN req.messages |-> ConverseMessages(req.messages[i])])]

-----------------------------------------------------------------------------
\* The request that provider gets, given the metadata it sees.
Encode(provider, req, meta) ==
  CASE Family(provider) = "chat" -> EncodeChat(provider, req)
    [] Family(provider) = "responses" -> EncodeResponses(provider, req)
    [] Family(provider) = "messages" -> EncodeMessages(provider, req, meta)
    [] Family(provider) = "converse" -> EncodeConverse(provider, req)
=============================================================================
