------------------------------- MODULE Routing -------------------------------
(***************************************************************************)
(* From a configuration to the routes of a request: adapterconfig/         *)
(* runtime.go builds the table of routes, router/router.go finds the       *)
(* candidates for a request in it, and adapterconfig/model_resolution.go   *)
(* tells, without a router, where a model would go (what `llmadapter       *)
(* resolve` prints).  A gateway or a mux client is configured once and     *)
(* then asked.                                                             *)
(***************************************************************************)
EXTENDS Configs

CONSTANTS Detections,   \* what credentials there may be: the types of provider
          DefaultModels,\* of each type
          Options,      \* of AutoMuxClient: catalog, dynamic, sources, intents, aliases
          Written,      \* configurations that an operator wrote
          Requests      \* source, model, needs (capabilities) and effort

VARIABLES state,        \* "start", "configured", "serving" or "refused"
          cfg,
          opts,         \* of the detection, NoOptions for a written configuration
          table,        \* the static router's routes
          asked, routed,\* the last request and its candidates, the best first
          inspected     \* and what the resolution of its model says
vars == <<state, cfg, opts, table, asked, routed, inspected>>

AutoOptions ==
  [catalog : BOOLEAN, dynamic : BOOLEAN, sources : Seq(STRING), intents : Seq(STRING), aliases : Seq(AliasConfigs)]

ASSUME RoutingAssumption == Written \subseteq Configurations /\ Options \subseteq AutoOptions

NoOptions == [catalog |-> FALSE, dynamic |-> FALSE, sources |-> <<>>, intents |-> <<>>, aliases |-> <<>>]
NoConfig == Config(<<>>, <<>>, <<>>, FALSE)
NoRequest == [source |-> "", model |-> "", needs |-> {}, effort |-> ""]

-----------------------------------------------------------------------------
EndpointCapabilities(p) == (DescriptorCapabilities(p.type) \cup p.granted) \ p.denied

\* The model that a route's modeldb_model names.
ItemOf(c, r) ==
  LET p == EndpointOf(c, r)
  IN ResolveModelDBItem(c.aliases, ServiceOf(p.type), Family(p.type), r.dbmodel)

\* ResolveRouteModelDBModel fails for a name without a model, or with another native_model.
Resolves(c, r) == r.dbmodel # "" => \E o \in ItemOf(c, r) : r.native \in {"", o.wire}
WireModel(c, r) == IF r.dbmodel # "" THEN Only(ItemOf(c, r)).wire ELSE r.native

\* One of buildRouter's routes.  Without a catalog there is no wire model to look up.
StaticRoute(c, r) ==
  LET p == EndpointOf(c, r)
      wire == WireModel(c, r)
  IN [source |-> r.source, model |-> r.model, dynamic |-> r.dynamic, weight |-> r.weight,
      native |-> IF r.dbmodel # "" THEN NativeModelOf(p.type, wire) ELSE r.native,
      provider |-> p.name, type |-> p.type, priority |-> p.priority,
      caps |-> EnrichCapabilities(EndpointCapabilities(p), ServiceOf(p.type), Family(p.type), wire),
      efforts |-> EffortsOf(ServiceOf(p.type), Family(p.type), wire)]

BuildTable(c) == [i \in DOMAIN c.routes |-> StaticRoute(c, c.routes[i])]

-----------------------------------------------------------------------------
\* The router.
SourceMatches(r, source) == source \in {"", r.source}

\* Bug: a route of any API counts.
HasExactRouteOfAny(routes, req) ==
  \E i \in DOMAIN routes : req.model \in {routes[i].model, routes[i].native}

HasExactRoute(routes, req) ==
  \E i \in DOMAIN routes : SourceMatches(routes[i], req.source) /\ req.model \in {routes[i].model, routes[i].native}

\* dynamicModelResolver, a set of at most one.
DynamicModel(r, aliases, model) ==
  IF model = "" THEN {} ELSE ResolveModelDBItem(aliases, ServiceOf(r.type), Family(r.type), model)

\* A route as it would serve a request: a dynamic one has the capabilities of the model.
ForModel(r, c, model) ==
  IF r.dynamic /\ UsesModelDB(c)
    THEN LET wire == Only(DynamicModel(r, c.aliases, model)).wire
         IN [r EXCEPT !.native = NativeModelOf(r.type, wire),
                      !.caps = EnrichCapabilities(r.caps, ServiceOf(r.type), Family(r.type), wire),
                      !.efforts = EffortsOf(ServiceOf(r.type), Family(r.type), wire)]
    ELSE [r EXCEPT !.native = IF r.native = "" THEN model ELSE r.native]

Unavailable(r, c, model) == r.dynamic /\ UsesModelDB(c) /\ DynamicModel(r, c.aliases, model) = {}

\* capabilityMismatch.
CapabilityMismatch(req, r) ==
  \/ ~(req.needs \subseteq r.caps)
  \/ req.effort # "" /\ r.efforts # {} /\ req.effort \notin r.efforts

SourceRank(source) ==
  CASE source = "messages" -> 0 [] source = "responses" -> 1 [] source = "chat" -> 2 [] OTHER -> 10

\* routeRank: the weight, then for a request of no API the API, then the priority.
RanksBefore(r, s, source) ==
  \/ r.weight > s.weight
  \/ /\ r.weight = s.weight
     /\ LET a == SourceRank(r.source) b == SourceRank(s.source)
        IN IF source = "" /\ a # b THEN a < b ELSE r.priority > s.priority

\* Whether the router hands a request to a route; an exact one keeps all dynamic ones out.
Serves(r, routes, c, req) ==
  /\ ~(HasExactRoute(routes, req) /\ r.dynamic)
  /\ SourceMatches(r, req.source)
  /\ r.model \in {"", req.model}
  /\ ~Unavailable(r, c, req.model)
  /\ ~CapabilityMismatch(req, ForModel(r, c, req.model))

\* StaticRouter.Routes; the sort is stable.
Routes(routes, c, req) ==
  LET serving == {i \in DOMAIN routes : Serves(routes[i], routes, c, req)}
      Before(i, j) == \/ RanksBefore(routes[i], routes[j], req.source)
                      \/ ~RanksBefore(routes[j], routes[i], req.source) /\ i < j
      sorted == Ordered(serving, {p \in serving \X serving : Before(p[1], p[2])})
  IN [k \in DOMAIN sorted |-> ForModel(routes[sorted[k]], c, req.model)]

-----------------------------------------------------------------------------
\* The resolution of a model.
ModelRouteMatch(r, model) ==
  CASE r.model = model -> "public"
    [] r.model # model /\ r.native = model -> "native"
    [] model \notin {r.model, r.native} /\ r.dynamic -> "dynamic"
    [] OTHER -> ""

\* resolveRouteModelForCandidate: whether the catalog has the route's model, ...
Catalogued(c, r) == UsesModelDB(c) /\ (r.dynamic \/ r.dbmodel # "")
FoundFor(c, r, model) ==
  LET p == EndpointOf(c, r)
  IN ResolveModelDBItem(c.aliases, ServiceOf(p.type), Family(p.type), IF r.dynamic THEN model ELSE r.dbmodel)
Resolvable(c, r, model) == Catalogued(c, r) => FoundFor(c, r, model) # {} /\ Resolves(c, r)

\* ... and the candidate, with the priority of the provider.
ResolvedCandidate(c, r, model) ==
  LET p == EndpointOf(c, r)
  IN [matched |-> ModelRouteMatch(r, model), source |-> r.source, provider |-> p.name, type |-> p.type,
      native |-> IF Catalogued(c, r) THEN NativeModelOf(p.type, Only(FoundFor(c, r, model)).wire)
                 ELSE IF r.dynamic THEN model ELSE r.native,
      weight |-> r.weight, priority |-> p.priority]

\* Bug: the dynamic routes stay beside the ones that name the model.
KeepDynamicFallbacks(routes, matching, model) == matching

\* The places of the candidates that are left.
SuppressDynamicFallbacks(routes, matching, model) ==
  LET exact == {i \in matching : ModelRouteMatch(routes[i], model) # "dynamic"}
  IN IF exact = {} THEN matching ELSE exact

\* modelResolutionPriority and what follows it.
ResolutionRank(x) ==
  (CASE x.matched = "public" -> 0 [] x.matched = "native" -> 10000 [] x.matched = "dynamic" -> 20000)
    + SourceRank(x.source) * 1000
    + CASE x.type = "claude" -> 0
        [] x.type = "anthropic" -> 1
        [] x.type \in {"openrouter_messages", "openrouter_chat", "openrouter_responses"} -> 4
        [] OTHER -> 5

\* The place of a type among all types, which are in the order of their names.
TypePlace(type) == Cardinality({i \in DOMAIN RegistryOrder : \A j \in 1..i : RegistryOrder[j] # type})

\* Providers of one type are taken to be in the order of their names.
ResolvesBefore(x, y) ==
  LET r == ResolutionRank(x) s == ResolutionRank(y)
  IN \/ r < s
     \/ r = s /\ x.weight > y.weight
     \/ r = s /\ x.weight = y.weight /\ x.priority > y.priority
     \/ r = s /\ x.weight = y.weight /\ x.priority = y.priority /\ TypePlace(x.type) < TypePlace(y.type)

ResolveModelCandidates(c, model, source) ==
  LET matching == {i \in DOMAIN c.routes : /\ SourceMatches(c.routes[i], source)
                                           /\ ModelRouteMatch(c.routes[i], model) # ""
                                           /\ Resolvable(c, c.routes[i], model)}
      left == SuppressDynamicFallbacks(c.routes, matching, model)
      At(i) == ResolvedCandidate(c, c.routes[i], model)
      Before(i, j) == \/ ResolvesBefore(At(i), At(j))
                      \/ ~ResolvesBefore(At(j), At(i)) /\ i < j
      sorted == Ordered(left, {p \in left \X left : Before(p[1], p[2])})
  IN [k \in DOMAIN sorted |-> At(sorted[k])]

-----------------------------------------------------------------------------
Init ==
  /\ state = "start" /\ cfg = NoConfig /\ opts = NoOptions /\ table = <<>>
  /\ asked = NoRequest /\ routed = <<>> /\ inspected = <<>>

\* AutoMuxClient, up to NewMuxClient.
Detect(types, o) ==
  LET providers == AutoProviders(types, DefaultModels, o)
  IN /\ state = "start"
     /\ state' = "configured" /\ opts' = o
     /\ cfg' = ApplyDefaults(Config(providers, AutoRoutes(providers, o), IF o.catalog THEN o.aliases ELSE <<>>, FALSE))
     /\ UNCHANGED <<table, asked, routed, inspected>>

\* LoadConfig.
Load(c) ==
  /\ state = "start"
  /\ state' = "configured" /\ cfg' = ApplyDefaults(c)
  /\ UNCHANGED <<opts, table, asked, routed, inspected>>

\* Validate and buildRouter: a model that the catalog does not have fails it all.
Build ==
  /\ state = "configured"
  /\ IF Valid(cfg) /\ \A i \in DOMAIN cfg.routes : Resolves(cfg, cfg.routes[i])
       THEN state' = "serving" /\ table' = BuildTable(cfg)
       ELSE state' = "refused" /\ UNCHANGED table
  /\ UNCHANGED <<cfg, opts, asked, routed, inspected>>

\* A request comes; the candidates are found, and what the resolution of its model would say.
\* The router keeps nothing of it: one request is enough.
Ask(req) ==
  /\ state = "serving" /\ asked = NoRequest
  /\ asked' = req
  /\ routed' = Routes(table, cfg, req)
  /\ inspected' = ResolveModelCandidates(cfg, req.model, req.source)
  /\ UNCHANGED <<state, cfg, opts, table>>

Next ==
  \/ \E types \in Detections, o \in Options : Detect(types, o)
  \/ \E c \in Written : Load(c)
  \/ Build
  \/ \E req \in Requests : Ask(req)

Spec == Init /\ [][Next]_vars
-----------------------------------------------------------------------------
\* A request that needs nothing of a model but its name.
Plain == state = "serving" /\ asked.model # "" /\ asked.needs = {} /\ asked.effort = ""

\* The offerings that a candidate may stand for: it has the wire model's id or the one that
\* Bedrock has for it.
Stands(r) == {o \in Offerings : /\ o.service = ServiceOf(r.type) /\ Family(r.type) \in DOMAIN o.exposes
                                /\ r.native \in {o.wire, NativeModelOf(r.type, o.wire)}}

\* What the catalog was asked about: all but the fixed routes that name no model or, as their
\* native one, an id that the catalog does not have.
LookedUp(r) ==
  \/ r.dynamic
  \/ \E j \in DOMAIN table : /\ r = table[j]
                             /\ \/ cfg.routes[j].dbmodel # ""
                                \/ Offers(ServiceOf(r.type), Family(r.type), r.native) # {}

\* A candidate can do all that the request needs, whatever its route's configuration and its
\* model's name: what the API can do with the operator's overrides, less what the catalog says
\* the model cannot do there.  A dynamic route's candidate is a model of the catalog.
\* (routeCapabilities, dynamicModelResolver and capabilityMismatch, whose tests have one route.)
CandidatesServe ==
  \A i \in DOMAIN routed :
    LET r == routed[i]
        p == CHOOSE p \in Range(cfg.providers) : p.name = r.provider /\ p.type = r.type
    IN /\ SourceMatches(r, asked.source)
       /\ asked.needs \subseteq EndpointCapabilities(p)
       /\ UsesModelDB(cfg) /\ LookedUp(r) =>
            \E o \in Stands(r) :
              LET exposed == o.exposes[Family(r.type)]
              IN /\ asked.needs \subseteq exposed.caps
                 /\ asked.effort = "" \/ exposed.efforts = {} \/ asked.effort \in exposed.efforts

\* The providers of the configuration that the caller's API prefers and that have a model of
\* this name: the catalog's, without the service too, or the operator's.
NamesAt(service) ==
  {asked.model} \cup
    (IF asked.model \in DOMAIN Qualified /\ Qualified[asked.model].service = service
       THEN {Qualified[asked.model].rest} ELSE {})
Having ==
  {p \in Range(cfg.providers) :
    /\ p.type \in Range(PreferredProviderTypes(asked.source))
    /\ \E o \in Offerings :
         /\ o.service = ServiceOf(p.type) /\ Family(p.type) \in DOMAIN o.exposes
         /\ \/ NamesAt(o.service) \cap (o.names \cup {o.wire}) # {}
            \/ \E j \in DOMAIN opts.aliases : /\ opts.aliases[j].service = o.service
                                             /\ opts.aliases[j].wire = o.wire
                                             /\ opts.aliases[j].name \in NamesAt(o.service)}

\* Every intent and alias that a detected provider has a model for is routed, to a model that its
\* provider offers over its API; to the service that its name asks for when that has it.  An
\* alias that is the default model of the API is left to that, and each default has a name.
\* (autoRoutes, modelDBRouteForIntent and buildRouter look the name up apart: a route that one
\* finds and the other does not would fail the build, or send a model's name to a provider that
\* does not have it.)
IntentServed ==
  /\ Plain /\ opts.catalog
  /\ asked.source \in Range(opts.sources)
  /\ \/ asked.model \in Range(opts.intents)
     \/ /\ \E j \in DOMAIN opts.aliases : opts.aliases[j].name = asked.model
        /\ \A i \in DOMAIN cfg.routes :
             cfg.routes[i].source = asked.source /\ cfg.routes[i].model = asked.model => cfg.routes[i].dbmodel # ""
  /\ \A i \in DOMAIN table : table[i].model = "" => table[i].dynamic
  /\ Having # {}
  => /\ routed # <<>>
     /\ Stands(routed[1]) # {}
     /\ \E p \in Having : routed[1].provider = p.name /\ routed[1].type = p.type
     /\ asked.model \in DOMAIN Qualified =>
          \A p \in Having : ServiceOf(p.type) = Qualified[asked.model].service =>
                            ServiceOf(routed[1].type) = Qualified[asked.model].service

\* A model that no fixed route of the caller's API names, under its public or its native name, is
\* served by the dynamic routes whose provider has it; without a catalog, by all of them.
\* (hasExactRoute suppresses the dynamic routes of a request.)
DynamicServes ==
  Plain =>
    \A i \in DOMAIN table :
      LET r == table[i]
      IN /\ r.dynamic /\ SourceMatches(r, asked.source)
         /\ UsesModelDB(cfg) => DynamicModel(r, cfg.aliases, asked.model) # {}
         /\ \A j \in DOMAIN table : ~(/\ SourceMatches(table[j], asked.source)
                                      /\ asked.model \in {table[j].model, table[j].native})
         => \E k \in DOMAIN routed : routed[k].provider = r.provider /\ routed[k].dynamic

\* Where the resolution says that a model goes is where the router sends it, to the same
\* providers and the same model of each: for models that the fixed routes know by their public
\* names only, and when each fixed route has one.
\* (The resolver and the router each have their own matching, suppression and lookup.)
InspectionAgrees ==
  /\ Plain
  /\ \A i \in DOMAIN table :
       /\ asked.model \in {table[i].native, cfg.routes[i].native} => table[i].model = asked.model
       /\ table[i].model = "" => table[i].dynamic
  => {<<routed[i].provider, routed[i].type, routed[i].native>> : i \in DOMAIN routed}
       = {<<inspected[i].provider, inspected[i].type,
            IF inspected[i].native = "" THEN asked.model ELSE inspected[i].native>> : i \in DOMAIN inspected}
=============================================================================
