------------------------------- MODULE Catalog -------------------------------
(***************************************************************************)
(* What providers there are and which models they have: the descriptors of *)
(* providerregistry, the catalog of models (the library modeldb, external),*)
(* and the lookups and the narrowing of capabilities that adapterconfig/   *)
(* modeldb.go, adapterconfig/bedrock_runtime.go and modelmeta do with it.  *)
(* Names of models are normalized.                                         *)
(***************************************************************************)
EXTENDS Integers, FiniteSets, SequencesExt

CONSTANTS Offerings,   \* of the catalog: service, wire (the model's id there), names, creator,
                       \* and exposes, from API families to the caps and efforts exposed there
          Qualified,   \* the names of the form service/rest, and these two parts
          RuntimeIds   \* the id that a wire model has in the region that Bedrock runs in

\* The catalog's offerings are found by service and wire model: there is one of each.  No id
\* of a model is empty.
ASSUME CatalogAssumption ==
  /\ \A o, p \in Offerings : o.service = p.service /\ o.wire = p.wire => o = p
  /\ \A o \in Offerings : o.wire # ""
  /\ \A wire \in DOMAIN RuntimeIds : RuntimeIds[wire] # ""

Sources == <<"responses", "chat", "messages">>
Capabilities == {"streaming", "tools", "vision", "json", "schema", "reasoning"}

\* The descriptor of a type of provider.
Family(type) ==
  CASE type \in {"anthropic", "claude", "bedrock_messages", "openrouter_messages", "minimax_messages"} -> "messages"
    [] type \in {"openai_chat", "openrouter_chat", "minimax_chat"} -> "chat"
    [] type \in {"openai_responses", "codex_responses", "bedrock_responses", "openrouter_responses"} -> "responses"
    [] type = "bedrock_converse" -> "converse"

ApiKind(type) ==
  CASE type \in {"anthropic", "claude"} -> "messages"
    [] type = "openai_chat" -> "chat"
    [] type = "openai_responses" -> "responses"
    [] OTHER -> type

DescriptorCapabilities(type) ==
  {"streaming", "tools"}
    \cup (IF type \in {"anthropic", "claude", "openrouter_messages", "openai_chat", "openrouter_chat",
                       "openai_responses", "openrouter_responses"} THEN {"vision"} ELSE {})
    \cup (IF type \in {"openai_chat", "openrouter_chat", "openai_responses", "openrouter_responses"}
            THEN {"json", "schema"} ELSE {})
    \cup (IF type \in {"anthropic", "claude", "openrouter_messages", "minimax_messages", "openai_responses",
                       "codex_responses", "bedrock_responses", "openrouter_responses", "bedrock_converse"}
            THEN {"reasoning"} ELSE {})

\* modelDBServiceIDForProviderType: all the types of a vendor have one service.
ServiceOf(type) ==
  CASE type \in {"anthropic", "claude"} -> "anthropic"
    [] type \in {"openai_chat", "openai_responses"} -> "openai"
    [] type = "codex_responses" -> "codex"
    [] type \in {"bedrock_responses", "bedrock_messages", "bedrock_converse"} -> "bedrock"
    [] type \in {"openrouter_chat", "openrouter_responses", "openrouter_messages"} -> "openrouter"
    [] type \in {"minimax_chat", "minimax_messages"} -> "minimax"

-----------------------------------------------------------------------------
\* The member of a set that has one.
Only(S) == CHOOSE x \in S : TRUE

Offers(service, family, wire) ==
  {o \in Offerings : o.service = service /\ o.wire = wire /\ family \in DOMAIN o.exposes}

\* An alias that the operator configured, the last one first; for an offering with this API.
ConfiguredAlias(aliases, service, family, name) ==
  LET matching == {i \in DOMAIN aliases : /\ aliases[i].name = name /\ aliases[i].service = service
                                          /\ Offers(service, family, aliases[i].wire) # {}}
  IN IF matching = {} THEN {} ELSE Offers(service, family, aliases[Max(matching)].wire)

\* The catalog's own names; the library takes one when there are several.
Named(service, family, name) ==
  LET all == {o \in Offerings : /\ o.service = service /\ family \in DOMAIN o.exposes
                                /\ name \in o.names \cup {o.wire}}
  IN IF all = {} THEN {} ELSE {Only(all)}

ResolvedName(aliases, service, family, name) ==
  IF ConfiguredAlias(aliases, service, family, name) # {}
    THEN ConfiguredAlias(aliases, service, family, name)
    ELSE Named(service, family, name)

\* Bug: a name is looked up whatever API the model is exposed with.
ResolveModelDBItemAnyAPI(aliases, service, family, name) ==
  {o \in Offerings : o.service = service /\ name \in o.names \cup {o.wire}}

\* resolveModelDBItem, a set of at most one: the name, then what is left of it without the
\* service.
ResolveModelDBItem(aliases, service, family, name) ==
  LET whole == ResolvedName(aliases, service, family, name)
      qualified == name \in DOMAIN Qualified /\ Qualified[name].service = service
  IN IF whole = {} /\ qualified THEN ResolvedName(aliases, service, family, Qualified[name].rest) ELSE whole

RequestedService(name) == IF name \in DOMAIN Qualified THEN Qualified[name].service ELSE ""

\* resolveRuntimeNativeModel: Converse calls a model by the id of an inference profile.
NativeModelOf(type, wire) ==
  IF type = "bedrock_converse" /\ wire \in DOMAIN RuntimeIds THEN RuntimeIds[wire] ELSE wire

\* Bug: what the catalog says takes the place of what the API can do.
EnrichCapabilitiesOver(base, service, family, wire) ==
  LET found == Offers(service, family, wire)
  IN IF found = {} THEN base ELSE Only(found).exposes[family].caps

\* EnrichCapabilities: the catalog takes capabilities away and gives none.
EnrichCapabilities(base, service, family, wire) ==
  LET found == Offers(service, family, wire)
  IN IF found = {} THEN base ELSE base \cap Only(found).exposes[family].caps

\* The efforts of a model's metadata; none means all.
EffortsOf(service, family, wire) ==
  LET found == Offers(service, family, wire)
  IN IF found = {} THEN {} ELSE Only(found).exposes[family].efforts

-----------------------------------------------------------------------------
\* The members of a finite set in a strict order of them, the set of its pairs.
Ordered(S, before) ==
  [k \in 1..Cardinality(S) |->
     CHOOSE x \in S : Cardinality({y \in S : <<y, x>> \in before}) = k - 1]

Ascending(S) == Ordered(S, {p \in S \X S : p[1] < p[2]})

\* Pairs of places in the order in which an outer and an inner loop come to them.
Precedes(a, b) == a[1] < b[1] \/ (a[1] = b[1] /\ a[2] < b[2])
InTurn(S) == Ordered(S, {p \in S \X S : Precedes(p[1], p[2])})
=============================================================================
