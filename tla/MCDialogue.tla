----------------------------- MODULE MCDialogue ------------------------------
(* A small instance of Dialogue: every caller with every provider, all the   *)
(* conversations of two turns with tools, and each option on its own and     *)
(* those that meet together in a request of one text.                        *)
EXTENDS Dialogue

Route(provider, resolved, builtIn) == [provider |-> provider, resolved |-> resolved, builtIn |-> builtIn]
Callers == {"messages", "chat", "responses", "library"}
Plain(provider) == <<Route(provider, NoMetadata, NoMetadata)>>

Said(by, kinds) == [i \in 1..Len(kinds) |-> [by |-> by, kind |-> kinds[i]]]
TextOnly == {Said("user", <<"text">>)}
AllTurns == {<<>>, Said("user", <<"text">>), Said("user", <<"text", "image_url">>), Said("user", <<"image_file">>),
             Said("user", <<"document", "text">>), Said("user", <<"image_base64">>),
             Said("system", <<"text">>) \o Said("user", <<"text">>)}

MCAnswers == {<<"text">>, <<"call">>, <<"reasoning", "text", "call">>, <<"text", "call", "call">>,
              <<"call", "text">>, <<"call", "text", "call">>}

Ask(opts, max, budget) == [opts |-> opts, max |-> max, budget |-> budget]
Tools == "tools" :> "function"

\* An option by itself.
Singles ==
  {f :> "given" : f \in {"top_p", "top_k", "stop", "user", "seed", "store", "prompt_cache_key", "previous"}}
    \cup {f :> v : f \in {"openrouter", "anthropic", "codex"}, v \in {"given", "malformed"}}
    \cup {"temperature" :> v : v \in {"one", "other"}}
    \cup {"parallel" :> v : v \in {"yes", "no"}}
    \cup {"cache" :> v : v \in {"on", "off", "keyed"}}
    \cup {"format" :> v : v \in {"text", "json", "json_schema", "unknown"}}
    \cup {"tools" :> v : v \in {"function", "server"}}
    \cup {("tool_choice" :> v) @@ t : v \in {"auto", "any", "none", "tool", "unknown"}, t \in {<<>>, Tools}}

\* Options that thinking has to do with.
Thoughtful ==
  {Ask(e @@ t, max, budget) : e \in {"effort" :> v : v \in {"low", "medium", "high", "max"}},
                              t \in {<<>>, [temperature |-> "other", top_k |-> "given"],
                                     [tools |-> "function", tool_choice |-> "tool"]},
                              max \in {0, 1000, 2050, 4100, 9000}, budget \in {0}}
    \cup {Ask(("temperature" :> "one"), max, budget) : max \in {1000, 2048, 4100}, budget \in {1000, 2048}}

OwnOptions(c) == IF c = "library" THEN Singles ELSE {o \in Singles : DOMAIN o \subseteq WireFields(c)}

Talkers == [ep : Callers, routes : {Plain(p) : p \in Providers}, ask : {Ask(Tools, 4100, 0)}, says : {AllTurns}]
Choosers == UNION {[ep : {c}, routes : {Plain(p) : p \in Providers}, ask : {Ask(o, 4100, 0) : o \in OwnOptions(c)},
                    says : {TextOnly}] : c \in Callers}
Thinkers == [ep : {"library"}, routes : {Plain(p) : p \in Providers}
                                         \cup {<<Route("anthropic", {"adaptive"}, NoMetadata)>>},
             ask : Thoughtful, says : {TextOnly}]
\* Several routes, with metadata for some of their models.
Routed == [ep : {"messages", "library"},
           routes : {<<Route("anthropic", {"adaptive", "format"}, NoMetadata), Route("openrouter_messages", NoMetadata, b),
                       Route("openai_chat", NoMetadata, NoMetadata)>> : b \in {NoMetadata, {"format"}}},
           ask : {Ask(Tools @@ o, 4100, 0) : o \in {<<>>, ("format" :> "json"), ("openrouter" :> "given"),
                                                    [effort |-> "high", openrouter |-> "given"]}},
           says : {TextOnly}]
MCClients == Talkers \cup Choosers \cup Thinkers \cup Routed
==============================================================================
