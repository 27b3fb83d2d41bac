------------------------------ MODULE MCRouting ------------------------------
(* A catalog in which one model has a name at three services, each with other
   APIs and abilities there, and another is at its creator's only.             *)
EXTENDS Routing

All == Capabilities
Exposed(caps, efforts) == [caps |-> caps, efforts |-> efforts]
MCOfferings ==
  { [service |-> "anthropic", wire |-> "claude-1", names |-> {"sonnet"}, creator |-> "anthropic",
     exposes |-> [messages |-> Exposed(All, {"low", "high"})]],
    [service |-> "openrouter", wire |-> "anthropic-claude", names |-> {"sonnet"}, creator |-> "anthropic",
     exposes |-> [chat |-> Exposed(All \ {"vision"}, {}), responses |-> Exposed(All, {})]],
    [service |-> "bedrock", wire |-> "claude-v1", names |-> {"sonnet"}, creator |-> "anthropic",
     exposes |-> [converse |-> Exposed({"streaming", "tools"}, {"low"})]],
    [service |-> "openai", wire |-> "gpt-1", names |-> {"gpt"}, creator |-> "openai",
     exposes |-> [responses |-> Exposed(All, {"low"}), chat |-> Exposed({"streaming", "tools"}, {})]],
    [service |-> "openai", wire |-> "gpt-chat", names |-> {"mini"}, creator |-> "openai",
     exposes |-> [chat |-> Exposed({"streaming"}, {})]] }

Name(service, rest) == [service |-> service, rest |-> rest]
MCQualified == [n \in {"anthropic/sonnet", "openrouter/sonnet"} |->
  IF n = "anthropic/sonnet" THEN Name("anthropic", "sonnet") ELSE Name("openrouter", "sonnet")]
MCRuntimeIds == [w \in {"claude-v1"} |-> "us.claude-v1"]

Detectable == {"anthropic", "openai_chat", "openai_responses", "bedrock_converse", "openrouter_responses"}
MCDetections == SUBSET Detectable
MCDefaultModels == [t \in Detectable |->
  CASE t = "anthropic" -> "claude-1" [] t = "openai_chat" -> "gpt-chat" [] t = "openai_responses" -> "gpt-1"
    [] t = "bedrock_converse" -> "claude-v1" [] t = "openrouter_responses" -> "anthropic-claude"]

Opts(catalog, dynamic, sources, intents, aliases) ==
  [catalog |-> catalog, dynamic |-> dynamic, sources |-> sources, intents |-> intents, aliases |-> aliases]
Alias(name, service, wire) == [name |-> name, service |-> service, wire |-> wire]
MCOptions ==
  { Opts(FALSE, TRUE, Sources, <<>>, <<>>),
    Opts(TRUE, FALSE, <<"responses">>, <<"openrouter/sonnet", "gpt">>, <<>>),
    Opts(TRUE, TRUE, Sources, <<"sonnet", "mini">>, <<>>),
    Opts(TRUE, TRUE, <<"responses", "messages">>, <<>>, <<Alias("fast", "anthropic", "claude-1"), Alias("claude-1", "openai", "gpt-1")>>),
    Opts(TRUE, TRUE, <<"messages", "chat">>, <<"anthropic/sonnet">>, <<Alias("fast", "openai", "gpt-1"), Alias("fast", "bedrock", "claude-v1")>>) }

Provider(name, type, model, priority, granted, denied) ==
  [name |-> name, type |-> type, model |-> model, explicit |-> FALSE, priority |-> priority,
   granted |-> granted, denied |-> denied]
Two == << Provider("a", "anthropic", "claude-1", 0, {"json"}, {"vision"}),
          Provider("b", "openai_responses", "gpt-1", 5, {}, {}),
          Provider("c", "openai_chat", "", 9, {}, {"tools"}) >>
Converse == << Provider("d", "bedrock_converse", "", 0, {}, {}) >>
MCWritten ==
  { Config(Converse, << Route("chat", "us", "d", "", "", "us.claude-v1", FALSE, 0), Route("chat", "main", "d", "", "sonnet", "claude-v1", FALSE, 0),
                        Route("messages", "main", "d", "", "", "claude-v1", FALSE, 0) >>, <<>>, FALSE),
    Config(Two, << Route("messages", "main", "a", "", "", "", FALSE, 1), Route("messages", "main", "b", "", "gpt", "", FALSE, 1),
                   Route("chat", "", "c", "chat", "", "", FALSE, 0), Route("chat", "main", "a", "", "sonnet", "claude-1", FALSE, 0) >>, <<>>, FALSE),
    Config(Two, << Route("chat", "gpt-1", "b", "", "", "gpt-1", FALSE, 0), Route("messages", "", "b", "", "", "", TRUE, 0),
                   Route("messages", "", "a", "", "", "", TRUE, 0) >>, <<Alias("gpt-1", "anthropic", "claude-1")>>, TRUE),
    Config(Two, << Route("messages", "", "c", "", "", "", TRUE, 0), Route("chat", "main", "c", "", "", "", FALSE, 0) >>, <<>>, FALSE),
    Config(Two, << Route("chat", "main", "a", "", "gpt", "", FALSE, 0) >>, <<>>, FALSE),
    Config(Two, << Route("chat", "main", "a", "chat", "", "", FALSE, 0) >>, <<>>, FALSE) }

Models == {"sonnet", "mini", "gpt", "openrouter/sonnet", "anthropic/sonnet", "fast", "main", "gpt-1", "claude-1", "claude-v1", "us.claude-v1", "us", ""}
Request(source, model, needs, effort) == [source |-> source, model |-> model, needs |-> needs, effort |-> effort]
MCRequests ==
  {Request(s, m, n, "") : s \in Range(Sources) \cup {""}, m \in Models,
                          n \in {{}, {"tools"}, {"vision", "streaming"}, {"json", "tools"}}}
    \cup {Request(s, m, {"reasoning"}, "high") : s \in Range(Sources) \cup {""}, m \in Models}
=============================================================================
