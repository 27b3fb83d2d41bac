------------------------------- MODULE Configs -------------------------------
(***************************************************************************)
(* A configuration of providers and routes: what AutoMuxClient makes of    *)
(* the credentials it detects (adapterconfig/auto.go), and the defaults    *)
(* and the validation of any configuration (adapterconfig/config.go).      *)
(***************************************************************************)
EXTENDS Catalog

\* List sorts the descriptors by their types.
RegistryOrder ==
  <<"anthropic", "bedrock_converse", "bedrock_messages", "bedrock_responses", "claude", "codex_responses",
    "minimax_chat", "minimax_messages", "openai_chat", "openai_responses", "openrouter_chat",
    "openrouter_messages", "openrouter_responses">>

\* A configuration of one provider of each type for which credentials were found.
AutoProviders(detected, models, opts) ==
  LET found == Ascending({i \in DOMAIN RegistryOrder : RegistryOrder[i] \in detected})
  IN [k \in DOMAIN found |->
       LET type == RegistryOrder[found[k]]
       IN [name |-> type, type |-> type, model |-> models[type], explicit |-> opts.catalog,
           priority |-> 0, granted |-> {}, denied |-> {}]]

Route(source, model, provider, api, dbmodel, native, dynamic, weight) ==
  [source |-> source, model |-> model, provider |-> provider, api |-> api, dbmodel |-> dbmodel,
   native |-> native, dynamic |-> dynamic, weight |-> weight]

DynamicRoute(r) == Route(r.source, "", r.provider, r.api, "", "", TRUE, 1)

PreferredProviderTypes(source) ==
  CASE source = "responses" -> <<"openai_responses", "openrouter_responses", "codex_responses", "bedrock_responses",
                                 "anthropic", "claude", "bedrock_messages", "bedrock_converse",
                                 "openrouter_messages", "minimax_messages">>
    [] source = "chat" -> <<"openai_chat", "openrouter_chat", "minimax_chat", "anthropic", "claude", "bedrock_converse">>
    [] source = "messages" -> <<"anthropic", "claude", "bedrock_messages", "bedrock_converse",
                                "openrouter_messages", "minimax_messages">>
    [] OTHER -> <<>>

\* The places of the preferred types and of the providers of each.
PreferredProviders(providers, source) ==
  LET types == PreferredProviderTypes(source)
  IN {at \in (DOMAIN types) \X (DOMAIN providers) : providers[at[2]].type = types[at[1]]}

\* bestRouteForAPI; a set of at most one.
BestRouteForAPI(providers, source) ==
  LET preferred == PreferredProviders(providers, source)
      same == {i \in DOMAIN providers : ApiKind(providers[i].type) = source}
      first == CHOOSE at \in preferred : \A other \in preferred \ {at} : Precedes(at, other)
      best == providers[IF preferred # {} THEN first[2] ELSE Min(same)]
  IN IF preferred = {} /\ same = {} THEN {}
     ELSE {Route(source, best.model, best.name, ApiKind(best.type), "", best.model, FALSE, 100)}

\* modelDBRouteCandidateRank.
ProviderPreference(type) ==
  CASE type = "claude" -> 0
    [] type = "anthropic" -> 1
    [] type \in {"openai_responses", "openai_chat"} -> 2
    [] type = "codex_responses" -> 3
    [] type \in {"bedrock_responses", "bedrock_messages", "bedrock_converse"} -> 4
    [] type \in {"minimax_messages", "minimax_chat"} -> 5
    [] OTHER -> 50

CandidateRank(requested, service, creator, type) ==
  ProviderPreference(type) +
    CASE requested # "" /\ service = requested -> 0
      [] requested # "" /\ service # requested -> 10100
      [] requested = "" /\ service = creator -> 100
      [] OTHER -> 200

\* modelDBRouteForIntent, likewise: of the providers that have the model, the best.
ModelDBRouteForIntent(providers, aliases, source, intent) ==
  LET Item(p) == ResolveModelDBItem(aliases, ServiceOf(p.type), Family(p.type), intent)
      Rank(p) == CandidateRank(RequestedService(intent), ServiceOf(p.type), Only(Item(p)).creator, p.type)
      having == {at \in PreferredProviders(providers, source) : Item(providers[at[2]]) # {}}
      best == CHOOSE at \in having :
                \A other \in having \ {at} :
                  LET m == Rank(providers[at[2]]) n == Rank(providers[other[2]])
                  IN m < n \/ (m = n /\ Precedes(at, other))
      p == providers[best[2]]
  IN IF having = {} THEN {}
     ELSE {Route(source, intent, p.name, ApiKind(p.type), intent, "", FALSE, 100)}

HasRouteModel(routes, source, model) ==
  \E i \in DOMAIN routes : routes[i].source = source /\ routes[i].model = model

\* autoModelAliasRoutes: for each API, every alias of the operator is a model.
WithAliasRoutes(routes, providers, opts) ==
  LET For(at) == ModelDBRouteForIntent(providers, opts.aliases, opts.sources[at[1]], opts.aliases[at[2]].name)
      added == InTurn({at \in (DOMAIN opts.sources) \X (DOMAIN opts.aliases) :
                 LET source == opts.sources[at[1]]
                     name == opts.aliases[at[2]].name
                 IN /\ opts.catalog /\ name # ""
                    /\ \A i \in DOMAIN opts.sources : i < at[1] => opts.sources[i] # source
                    /\ \A j \in DOMAIN opts.aliases : j < at[2] => opts.aliases[j].name # name
                    /\ ~HasRouteModel(routes, source, name)
                    /\ For(at) # {}})
  IN routes \o [k \in DOMAIN added |-> Only(For(added[k]))]

\* Routes, with a dynamic one for each source API after its first.
WithDynamic(routes, dynamic) ==
  LET First(i) == \A j \in DOMAIN routes : j < i => routes[j].source # routes[i].source
      places == InTurn({at \in (DOMAIN routes) \X {0, 1} : at[2] = 1 => dynamic /\ First(at[1])})
  IN [k \in DOMAIN places |->
        LET r == routes[places[k][1]] IN IF places[k][2] = 0 THEN r ELSE DynamicRoute(r)]

\* autoRoutes: nothing is routed by name without the catalog; for the intents it is given, ...
IntentRoutes(providers, opts) ==
  LET For(at) == ModelDBRouteForIntent(providers, opts.aliases, opts.sources[at[2]], opts.intents[at[1]])
      routed == InTurn({at \in (DOMAIN opts.intents) \X (DOMAIN opts.sources) : opts.catalog /\ For(at) # {}})
  IN [k \in DOMAIN routed |-> Only(For(routed[k]))]

\* ... or else for each API the best provider there is.
DefaultRoutes(providers) ==
  LET routed == Ascending({i \in DOMAIN Sources : BestRouteForAPI(providers, Sources[i]) # {}})
  IN [k \in DOMAIN routed |-> Only(BestRouteForAPI(providers, Sources[routed[k]]))]

AutoRoutes(providers, opts) ==
  LET routed == IF opts.intents # <<>> THEN IntentRoutes(providers, opts) ELSE DefaultRoutes(providers)
  IN WithAliasRoutes(WithDynamic(routed, opts.dynamic), providers, opts)

-----------------------------------------------------------------------------
Config(providers, routes, aliases, catalog) ==
  [providers |-> providers, routes |-> routes, aliases |-> aliases, catalog |-> catalog]

ProviderConfigs ==
  [name : STRING, type : STRING, model : STRING, explicit : BOOLEAN, priority : Int,
   granted : SUBSET Capabilities, denied : SUBSET Capabilities]
RouteConfigs ==
  [source : STRING, model : STRING, provider : STRING, api : STRING, dbmodel : STRING, native : STRING,
   dynamic : BOOLEAN, weight : Int]
AliasConfigs == [name : STRING, service : STRING, wire : STRING]
Configurations ==
  [providers : Seq(ProviderConfigs), routes : Seq(RouteConfigs), aliases : Seq(AliasConfigs), catalog : BOOLEAN]

\* The providers that a route's name and API select; there must be one.
EndpointsOf(cfg, r) ==
  {i \in DOMAIN cfg.providers : /\ cfg.providers[i].name = r.provider
                                /\ r.api \in {"", ApiKind(cfg.providers[i].type)}}
EndpointOf(cfg, r) == cfg.providers[Only(EndpointsOf(cfg, r))]

\* ApplyDefaults: a route that says nothing of its model is for its provider's.
ApplyDefaults(cfg) ==
  [cfg EXCEPT !.routes =
    [i \in DOMAIN cfg.routes |->
      LET r == cfg.routes[i]
      IN IF r.native = "" /\ r.dbmodel = "" /\ ~r.dynamic /\ EndpointsOf(cfg, r) # {}
           THEN [r EXCEPT !.native = cfg.providers[Min(EndpointsOf(cfg, r))].model]
           ELSE r]]

Valid(cfg) ==
  /\ cfg.providers # <<>> /\ cfg.routes # <<>>
  /\ \A i \in DOMAIN cfg.routes :
       LET r == cfg.routes[i]
       IN /\ r.dynamic => r.model = "" /\ r.native = "" /\ r.dbmodel = ""
          /\ \E p \in DOMAIN cfg.providers : EndpointsOf(cfg, r) = {p}

\* ConfigUsesModelDB.
UsesModelDB(cfg) ==
  \/ cfg.catalog \/ cfg.aliases # <<>>
  \/ \E i \in DOMAIN cfg.routes :
       LET r == cfg.routes[i]
       IN r.dbmodel # "" \/ r.native # "" \/ (r.dynamic /\ EndpointOf(cfg, r).explicit)
=============================================================================
