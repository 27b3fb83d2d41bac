---------------------------- MODULE Routing_proofs ----------------------------
(***************************************************************************)
(* The properties of Routing, for every catalog, every detection and every *)
(* configuration: a candidate can do what its request needs, an intent     *)
(* that a detected provider has a model for is served by such a provider,  *)
(* dynamic routes serve what no fixed route names, and the resolution      *)
(* agrees with the router.                                                 *)
(*                                                                         *)
(* First what sorting does to a set (nothing is lost, whatever the order), *)
(* then what the detection makes, what the router and the resolution find  *)
(* in a table, what a name stands for in the catalog; then the invariant   *)
(* RInv, that what the program keeps are those functions of the            *)
(* configuration, and from it the four theorems.                           *)
(***************************************************************************)
EXTENDS Routing, TLAPS, FiniteSetTheorems, NaturalsInduction, WellFoundedInduction

\* Every non-empty set of numbers has a least.
LEMMA LeastNumber ==
  ASSUME NEW T \in SUBSET Nat, T # {}
  PROVE  \E x \in T : \A y \in T : x <= y
<1>1. IsWellFoundedOn(OpToRel(<, Nat), Nat)
  BY NatLessThanWellFounded
<1>2. PICK x \in T : \A y \in T : ~ (<<y, x>> \in OpToRel(<, Nat))
  BY <1>1, WFMin
<1>3. \A y \in T : ~ (<<y, x>> \in {ss \in Nat \X Nat : ss[1] < ss[2]})
  BY <1>2, Zenon DEF OpToRel
<1>4. \A y \in T : ~ (y < x)
  <2>1. TAKE y \in T
  <2> DEFINE p == <<y, x>>
  <2>2. p \in Nat \X Nat /\ p[1] = y /\ p[2] = x
    OBVIOUS
  <2>3. p \notin {ss \in Nat \X Nat : ss[1] < ss[2]}
    BY <1>3
  <2> HIDE DEF p
  <2> QED
    BY <2>2, <2>3
<1> QED
  BY <1>4

\* A set of numbers with a bound has a greatest.
LEMMA GreatestNumber ==
  ASSUME NEW n \in Nat, NEW T \in SUBSET (0..n), T # {}
  PROVE  Max(T) \in T
<1> DEFINE U == {k \in 0..n : n - k \in T}
<1>1. U \in SUBSET Nat /\ U # {}
  <2>1. PICK x \in T : x \in 0..n
    OBVIOUS
  <2>2. n - x \in U
    <3>1. n - x \in 0..n /\ n - (n - x) = x
      BY <2>1
    <3> QED
      BY <3>1
  <2>3. U \in SUBSET Nat
    OBVIOUS
  <2> HIDE DEF U
  <2> QED
    BY <2>2, <2>3
<1>2. PICK u \in U : \A v \in U : u <= v
  <2> HIDE DEF U
  <2> QED
    BY <1>1, LeastNumber
<1> DEFINE x == n - u
<1>3. u \in 0..n /\ x \in T
  BY <1>2
<1>4. \A y \in T : x >= y
  <2> TAKE y \in T
  <2>1. y \in 0..n /\ n - y \in 0..n /\ n - (n - y) = y
    OBVIOUS
  <2>2. n - y \in U
    BY <2>1
  <2> HIDE DEF U
  <2>3. u <= n - y
    BY <1>2, <2>2
  <2> QED
    BY <1>3, <2>1, <2>3
<1> HIDE DEF x
<1> QED
  BY <1>3, <1>4 DEF Max

\* before puts any two members of S in order, and only one way round.
StrictOrder(S, before) ==
  /\ \A x \in S : <<x, x>> \notin before
  /\ \A x, y, z \in S : <<x, y>> \in before /\ <<y, z>> \in before => <<x, z>> \in before
  /\ \A x, y \in S : x = y \/ <<x, y>> \in before \/ <<y, x>> \in before

\* A finite set in order has each of its members at one place.
LEMMA OrderedFacts ==
  ASSUME NEW S, IsFiniteSet(S), NEW before, StrictOrder(S, before)
  PROVE  /\ Cardinality(S) \in Nat
         /\ Ordered(S, before) \in [1..Cardinality(S) -> S]
         /\ \A x \in S : \E k \in 1..Cardinality(S) : Ordered(S, before)[k] = x
<1> DEFINE n == Cardinality(S)
           Below(x) == {y \in S : <<y, x>> \in before}
           rank == [x \in S |-> Cardinality(Below(x)) + 1]
<1>1. n \in Nat
  BY FS_CardinalityType DEF n
<1>2. \A x \in S : Cardinality(Below(x)) \in 0..(n - 1)
  <2> TAKE x \in S
  <2>1. IsFiniteSet(S \ {x}) /\ Cardinality(S \ {x}) = n - 1
    BY FS_RemoveElement
  <2>2. Below(x) \in SUBSET (S \ {x})
    BY DEF StrictOrder
  <2>3. IsFiniteSet(Below(x)) /\ Cardinality(Below(x)) <= n - 1
    <3> DEFINE T == S \ {x}
               B == Below(x)
    <3>1. IsFiniteSet(T) /\ Cardinality(T) = n - 1 /\ B \in SUBSET T
      BY <2>1, <2>2
    <3> HIDE DEF T, B, n
    <3>2. IsFiniteSet(B) /\ Cardinality(B) <= Cardinality(T)
      BY <3>1, FS_Subset
    <3> QED
      BY <3>1, <3>2 DEF B
  <2> QED
    BY <1>1, <2>3, FS_CardinalityType
<1>3. ASSUME NEW x \in S, NEW y \in S, <<x, y>> \in before
      PROVE  Cardinality(Below(x)) < Cardinality(Below(y))
  <2>1. Below(x) \in SUBSET Below(y) /\ Below(x) # Below(y)
    BY <1>3 DEF StrictOrder
  <2>2. IsFiniteSet(Below(y))
    BY FS_Subset
  <2>3. /\ Cardinality(Below(x)) <= Cardinality(Below(y))
        /\ Cardinality(Below(x)) # Cardinality(Below(y))
    BY <2>1, <2>2, FS_Subset
  <2> QED
    BY <1>1, <1>2, <2>3
<1>a. StrictOrder(S, before)
  OBVIOUS
<1> HIDE DEF n, Below
<1>4. \A x, y \in S : Cardinality(Below(x)) = Cardinality(Below(y)) => x = y
  <2> SUFFICES ASSUME NEW x \in S, NEW y \in S, Cardinality(Below(x)) = Cardinality(Below(y)), x # y
               PROVE  FALSE
    OBVIOUS
  <2>1. <<x, y>> \in before \/ <<y, x>> \in before
    BY <1>a DEF StrictOrder
  <2>2. Cardinality(Below(x)) < Cardinality(Below(y)) \/ Cardinality(Below(y)) < Cardinality(Below(x))
    BY <1>3, <2>1
  <2>3. Cardinality(Below(x)) \in Int /\ Cardinality(Below(y)) \in Int
    BY <1>1, <1>2
  <2> QED
    BY <2>2, <2>3
<1>5. rank \in Injection(S, 1..n)
  <2>1. rank \in [S -> 1..n]
    BY <1>1, <1>2
  <2>2. ASSUME NEW x \in S, NEW y \in S, rank[x] = rank[y] PROVE x = y
    <3>1. /\ Cardinality(Below(x)) + 1 = Cardinality(Below(y)) + 1
          /\ Cardinality(Below(x)) \in Int /\ Cardinality(Below(y)) \in Int
      BY <1>1, <1>2, <2>2
    <3>2. Cardinality(Below(x)) = Cardinality(Below(y))
      BY <3>1
    <3> QED
      BY <1>4, <3>2
  <2> QED
    BY <2>1, <2>2 DEF Injection, IsInjective
<1>6. rank \in Surjection(S, 1..n)
  <2>1. IsFiniteSet(1..n) /\ Cardinality(1..n) = n
    BY <1>1, FS_Interval
  <2>2. n = Cardinality(S)
    BY DEF n
  <2> QED
    BY <1>5, <2>1, <2>2, FS_Injection
<1>7. ASSUME NEW k \in 1..n
      PROVE  /\ Ordered(S, before)[k] \in S
             /\ Cardinality(Below(Ordered(S, before)[k])) = k - 1
  <2>1. PICK x \in S : rank[x] = k
    BY <1>6 DEF Surjection
  <2>2. Cardinality(Below(x)) = k - 1
    BY <1>1, <1>2, <2>1
  <2>3. Ordered(S, before)[k] = CHOOSE y \in S : Cardinality(Below(y)) = k - 1
    BY DEF Ordered, n, Below
  <2> QED
    BY <2>2, <2>3
<1>8. \A x \in S : \E k \in 1..n : Ordered(S, before)[k] = x
  <2> TAKE x \in S
  <2> DEFINE k == Cardinality(Below(x)) + 1
  <2>1. k \in 1..n /\ k - 1 = Cardinality(Below(x))
    BY <1>1, <1>2
  <2> HIDE DEF k
  <2>2. Ordered(S, before)[k] = x
    BY <1>4, <1>7, <2>1
  <2> QED
    BY <2>1, <2>2
<1>9. Ordered(S, before) \in [1..n -> S]
  <2> DEFINE At(k) == CHOOSE x \in S : Cardinality(Below(x)) = k - 1
  <2>1. Ordered(S, before) = [k \in 1..n |-> At(k)]
    BY DEF Ordered, n, Below
  <2> HIDE DEF At
  <2>2. \A k \in 1..n : At(k) \in S
    BY <1>7, <2>1
  <2> QED
    BY <2>1, <2>2
<1> QED
  BY <1>1, <1>8, <1>9 DEF n

\* f goes through all the members of S.
Lists(f, S) == f \in Seq(S) /\ \A x \in S : \E k \in DOMAIN f : f[k] = x

\* A list goes through its members only.
LEMMA ListFacts ==
  ASSUME NEW S, NEW f, Lists(f, S)
  PROVE  /\ Len(f) \in Nat /\ DOMAIN f = 1..Len(f)
         /\ \A k \in DOMAIN f : f[k] \in S
         /\ \A x \in S : \E k \in DOMAIN f : f[k] = x
BY DEF Lists

\* A finite set in a strict order of it is the list of its members.
LEMMA OrderedLists ==
  ASSUME NEW S, IsFiniteSet(S), NEW before, StrictOrder(S, before)
  PROVE  Lists(Ordered(S, before), S)
<1> DEFINE n == Cardinality(S)
           f == Ordered(S, before)
<1>1. n \in Nat /\ f \in [1..n -> S] /\ \A x \in S : \E k \in 1..n : f[k] = x
  BY OrderedFacts
<1> HIDE DEF n, f
<1>2. f \in Seq(S) /\ DOMAIN f = 1..n
  BY <1>1
<1> QED
  BY <1>1, <1>2 DEF Lists, f

\* The places of a list are finitely many.
LEMMA InitialFinite ==
  ASSUME NEW n \in Nat
  PROVE  IsFiniteSet(1..n)
BY FS_Interval

\* Numbers in ascending order.
LEMMA AscendingLists ==
  ASSUME NEW S \in SUBSET Int, IsFiniteSet(S)
  PROVE  Lists(Ascending(S), S)
<1> DEFINE before == {p \in S \X S : p[1] < p[2]}
<1>1. \A x, y \in S : <<x, y>> \in before <=> x < y
  <2> TAKE x, y \in S
  <2> DEFINE p == <<x, y>>
  <2>1. p \in S \X S /\ p[1] = x /\ p[2] = y
    OBVIOUS
  <2> HIDE DEF p
  <2>2. p \in before <=> x < y
    BY <2>1
  <2> QED
    BY <2>2 DEF p
<1> HIDE DEF before
<1>2. StrictOrder(S, before)
  BY <1>1 DEF StrictOrder
<1>3. Ascending(S) = Ordered(S, before)
  BY DEF Ascending, before
<1> QED
  BY <1>2, <1>3, OrderedLists

\* A pair and its two parts.
LEMMA PairFacts ==
  ASSUME NEW A, NEW B, NEW x \in A \X B
  PROVE  x = <<x[1], x[2]>> /\ x[1] \in A /\ x[2] \in B
OBVIOUS

\* Places in the order of two loops.
LEMMA InTurnLists ==
  ASSUME NEW A \in SUBSET Int, NEW B \in SUBSET Int, IsFiniteSet(A), IsFiniteSet(B),
         NEW S \in SUBSET (A \X B)
  PROVE  Lists(InTurn(S), S)
<1> DEFINE before == {p \in S \X S : Precedes(p[1], p[2])}
<1>1. \A x, y \in S : <<x, y>> \in before <=> Precedes(x, y)
  <2> TAKE x, y \in S
  <2> DEFINE p == <<x, y>>
  <2>1. p \in S \X S /\ p[1] = x /\ p[2] = y
    OBVIOUS
  <2> HIDE DEF p
  <2>2. p \in before <=> Precedes(x, y)
    BY <2>1
  <2> QED
    BY <2>2 DEF p
<1>2. \A x \in S : x[1] \in Int /\ x[2] \in Int /\ x = <<x[1], x[2]>>
  BY PairFacts
<1>3. \A x \in S : ~Precedes(x, x)
  BY <1>2 DEF Precedes
<1>4. \A x, y, z \in S : Precedes(x, y) /\ Precedes(y, z) => Precedes(x, z)
  <2> SUFFICES ASSUME NEW x \in S, NEW y \in S, NEW z \in S, Precedes(x, y), Precedes(y, z)
               PROVE  Precedes(x, z)
    OBVIOUS
  <2>1. /\ x[1] \in Int /\ x[2] \in Int /\ y[1] \in Int /\ y[2] \in Int /\ z[1] \in Int /\ z[2] \in Int
    BY <1>2
  <2> QED
    BY <2>1 DEF Precedes
<1>5. \A x, y \in S : x = y \/ Precedes(x, y) \/ Precedes(y, x)
  <2> SUFFICES ASSUME NEW x \in S, NEW y \in S, ~Precedes(x, y), ~Precedes(y, x) PROVE x = y
    OBVIOUS
  <2>1. x[1] = y[1] /\ x[2] = y[2]
    BY <1>2 DEF Precedes
  <2> QED
    BY <1>2, <2>1
<1>6. StrictOrder(S, before)
  <2> HIDE DEF before
  <2> QED
    BY <1>1, <1>3, <1>4, <1>5 DEF StrictOrder
<1>7. IsFiniteSet(S)
  BY FS_Product, FS_Subset
<1> HIDE DEF before
<1> QED
  BY <1>6, <1>7, OrderedLists DEF InTurn, before

-----------------------------------------------------------------------------
\* The two kinds of routes that the detection makes, and what follows from a route's kind.
NameRoute(r, source, intent) ==
  \E provider, api : r = Route(source, intent, provider, api, intent, "", FALSE, 100)
DefaultRoute(r, source) ==
  \E model, provider, api, native : r = Route(source, model, provider, api, "", native, FALSE, 100)

\* A route by the catalog's names, and there is at most one for each name and API.
LEMMA ModelDBRouteShape ==
  ASSUME NEW providers, NEW aliases, NEW source, NEW intent,
         NEW r \in ModelDBRouteForIntent(providers, aliases, source, intent)
  PROVE  /\ NameRoute(r, source, intent)
         /\ ModelDBRouteForIntent(providers, aliases, source, intent) = {r}
<1>1. PICK provider, api :
        ModelDBRouteForIntent(providers, aliases, source, intent) =
          {Route(source, intent, provider, api, intent, "", FALSE, 100)}
  BY DEF ModelDBRouteForIntent
<1>2. r = Route(source, intent, provider, api, intent, "", FALSE, 100)
  BY <1>1
<1> QED
  BY <1>1, <1>2 DEF NameRoute

\* The route to the best provider of an API: it names the default model and no catalog model.
LEMMA BestRouteShape ==
  ASSUME NEW providers, NEW source, NEW r \in BestRouteForAPI(providers, source)
  PROVE  DefaultRoute(r, source)
BY DEF BestRouteForAPI, DefaultRoute

\* What a route that the detection makes may be: of a name that the catalog has, ...
ByName(providers, opt, r) ==
  ~r.dynamic /\ r \in ModelDBRouteForIntent(providers, opt.aliases, r.source, r.model)
\* ... the default one of an API, ...
ByDefault(opt, r) == ~r.dynamic /\ opt.intents = <<>> /\ r.dbmodel = ""
\* ... or a dynamic one.
ByRequest(r) == r.dynamic
Weighs(r) == r.dynamic \in BOOLEAN /\ r.weight \in Int

NameRoutes(providers, opt) ==
  UNION {ModelDBRouteForIntent(providers, opt.aliases, source, intent) : source \in STRING, intent \in STRING}
DefaultRouteSet(providers, opt) ==
  IF opt.intents = <<>> THEN UNION {BestRouteForAPI(providers, Sources[i]) : i \in DOMAIN Sources} ELSE {}
FixedRoutes(providers, opt) == NameRoutes(providers, opt) \cup DefaultRouteSet(providers, opt)
AllRoutes(providers, opt) == FixedRoutes(providers, opt) \cup {DynamicRoute(r) : r \in FixedRoutes(providers, opt)}

\* A route by the catalog's names is the one of its source and model, ...
LEMMA NameRouteFacts ==
  ASSUME NEW providers, NEW opt, NEW r \in NameRoutes(providers, opt)
  PROVE  ByName(providers, opt, r) /\ Weighs(r)
<1>1. PICK source \in STRING, intent \in STRING :
        r \in ModelDBRouteForIntent(providers, opt.aliases, source, intent)
  BY DEF NameRoutes
<1>2. NameRoute(r, source, intent)
  BY <1>1, ModelDBRouteShape
<1>3. r.source = source /\ r.model = intent /\ ~r.dynamic /\ r.weight = 100 /\ r.dynamic \in BOOLEAN
  <2>1. PICK provider, api : r = Route(source, intent, provider, api, intent, "", FALSE, 100)
    BY <1>2 DEF NameRoute
  <2> QED
    BY <2>1 DEF Route
<1> QED
  BY <1>1, <1>3 DEF ByName, Weighs

\* ... a default one is made when there are no intents, ...
LEMMA DefaultRouteFacts ==
  ASSUME NEW providers, NEW opt, NEW r \in DefaultRouteSet(providers, opt)
  PROVE  ByDefault(opt, r) /\ Weighs(r)
<1> USE DEF DefaultRouteSet
<1>0. opt.intents = <<>>
  OBVIOUS
<1>1. PICK i \in DOMAIN Sources : r \in BestRouteForAPI(providers, Sources[i])
  OBVIOUS
<1> HIDE DEF DefaultRouteSet
<1>2. DefaultRoute(r, Sources[i])
  BY <1>1, BestRouteShape
<1>3. PICK model, provider, api, native : r = Route(Sources[i], model, provider, api, "", native, FALSE, 100)
  BY <1>2 DEF DefaultRoute
<1>4. r.dbmodel = "" /\ ~r.dynamic
  BY <1>3 DEF Route
<1>5. Weighs(r)
  <2>1. ~r.dynamic /\ r.weight = 100 /\ r.dynamic \in BOOLEAN
    BY <1>3 DEF Route
  <2> QED
    BY <2>1 DEF Weighs
<1>6. ByDefault(opt, r)
  BY <1>0, <1>4, Zenon DEF ByDefault
<1> QED
  BY <1>5, <1>6

\* ... and a dynamic one is dynamic.
LEMMA DynamicRouteFacts ==
  ASSUME NEW r
  PROVE  ByRequest(DynamicRoute(r)) /\ Weighs(DynamicRoute(r))
BY DEF ByRequest, Weighs, DynamicRoute, Route

\* Every route of the detection is one of the three.
LEMMA RouteFacts ==
  ASSUME NEW providers, NEW opt, NEW r \in AllRoutes(providers, opt)
  PROVE  /\ Weighs(r)
         /\ ByName(providers, opt, r) \/ ByDefault(opt, r) \/ ByRequest(r)
<1>1. CASE r \in NameRoutes(providers, opt)
  BY <1>1, NameRouteFacts
<1>2. CASE r \in DefaultRouteSet(providers, opt)
  BY <1>2, DefaultRouteFacts
<1>3. CASE \E q \in FixedRoutes(providers, opt) : r = DynamicRoute(q)
  BY <1>3, DynamicRouteFacts
<1> QED
  BY <1>1, <1>2, <1>3 DEF AllRoutes, FixedRoutes

-----------------------------------------------------------------------------
\* All the places of two lists.
LEMMA PlacesLists ==
  ASSUME NEW s, NEW t, NEW m \in Nat, NEW n \in Nat, DOMAIN s = 1..m, DOMAIN t = 1..n,
         NEW S \in SUBSET ((DOMAIN s) \X (DOMAIN t))
  PROVE  Lists(InTurn(S), S)
<1>1. IsFiniteSet(1..m) /\ IsFiniteSet(1..n)
  BY FS_Interval
<1>2. 1..m \in SUBSET Int /\ 1..n \in SUBSET Int /\ S \in SUBSET ((1..m) \X (1..n))
  OBVIOUS
<1> QED
  BY <1>1, <1>2, InTurnLists

\* For each intent and API with a provider that has the model there is a route.
LEMMA IntentRoutesFacts ==
  ASSUME NEW providers, NEW opt \in AutoOptions
  PROVE  /\ IntentRoutes(providers, opt) \in Seq(NameRoutes(providers, opt))
         /\ \A i \in DOMAIN opt.intents, j \in DOMAIN opt.sources :
              opt.catalog /\ ModelDBRouteForIntent(providers, opt.aliases, opt.sources[j], opt.intents[i]) # {}
              => \E k \in DOMAIN IntentRoutes(providers, opt) :
                   IntentRoutes(providers, opt)[k]
                     \in ModelDBRouteForIntent(providers, opt.aliases, opt.sources[j], opt.intents[i])
<1> DEFINE For(at) == ModelDBRouteForIntent(providers, opt.aliases, opt.sources[at[2]], opt.intents[at[1]])
           S == {at \in (DOMAIN opt.intents) \X (DOMAIN opt.sources) : opt.catalog /\ For(at) # {}}
           places == InTurn(S)
           routes == IntentRoutes(providers, opt)
<1>1. opt.sources \in Seq(STRING) /\ opt.intents \in Seq(STRING)
  BY DEF AutoOptions
<1>2. /\ Len(opt.sources) \in Nat /\ DOMAIN opt.sources = 1..Len(opt.sources)
      /\ Len(opt.intents) \in Nat /\ DOMAIN opt.intents = 1..Len(opt.intents)
      /\ \A j \in DOMAIN opt.sources : opt.sources[j] \in STRING
      /\ \A j \in DOMAIN opt.intents : opt.intents[j] \in STRING
  BY <1>1
<1>3. Lists(places, S)
  <2>1. S \in SUBSET ((DOMAIN opt.intents) \X (DOMAIN opt.sources))
    OBVIOUS
  <2> HIDE DEF S
  <2> QED
    BY <1>2, <2>1, PlacesLists
<1>4. \A at \in S : /\ For(at) # {}
                    /\ opt.sources[at[2]] \in STRING /\ opt.intents[at[1]] \in STRING
  BY <1>2
<1>5. \A at \in S : Only(For(at)) \in For(at) /\ For(at) \in SUBSET NameRoutes(providers, opt)
  <2> TAKE at \in S
  <2>1. For(at) \in SUBSET NameRoutes(providers, opt)
    BY <1>4 DEF NameRoutes
  <2> HIDE DEF For
  <2> QED
    BY <1>4, <2>1 DEF Only
<1>6. routes = [k \in DOMAIN places |-> Only(For(places[k]))]
  BY DEF IntentRoutes
<1>7. ASSUME NEW i \in DOMAIN opt.intents, NEW j \in DOMAIN opt.sources, opt.catalog, For(<<i, j>>) # {}
      PROVE  \E k \in DOMAIN places : Only(For(places[k])) \in For(<<i, j>>)
  <2>1. <<i, j>> \in S
    BY <1>7
  <2> HIDE DEF S, For
  <2>2. PICK k \in DOMAIN places : places[k] = <<i, j>>
    BY <1>3, <2>1, ListFacts
  <2> QED
    BY <1>5, <2>1, <2>2
<1>8. \A i \in DOMAIN opt.intents, j \in DOMAIN opt.sources :
        For(<<i, j>>) = ModelDBRouteForIntent(providers, opt.aliases, opt.sources[j], opt.intents[i])
  OBVIOUS
<1> HIDE DEF S, For, places, routes
<1>9. /\ Len(places) \in Nat /\ DOMAIN places = 1..Len(places) /\ \A k \in DOMAIN places : places[k] \in S
  BY <1>3, ListFacts
<1>10. routes \in Seq(NameRoutes(providers, opt))
  <2>1. \A k \in DOMAIN places : Only(For(places[k])) \in NameRoutes(providers, opt)
    BY <1>5, <1>9
  <2> QED
    BY <1>6, <1>9, <2>1
<1>11. \A i \in DOMAIN opt.intents, j \in DOMAIN opt.sources :
         opt.catalog /\ For(<<i, j>>) # {} => \E k \in DOMAIN routes : routes[k] \in For(<<i, j>>)
  BY <1>6, <1>7
<1> QED
  BY <1>8, <1>10, <1>11 DEF routes

\* Without intents, the default routes.
LEMMA DefaultRoutesFacts ==
  ASSUME NEW providers, NEW opt, opt.intents = <<>>
  PROVE  DefaultRoutes(providers) \in Seq(DefaultRouteSet(providers, opt))
<1> DEFINE Best(i) == BestRouteForAPI(providers, Sources[i])
           S == {i \in DOMAIN Sources : Best(i) # {}}
           places == Ascending(S)
<1>1. DOMAIN Sources = 1..3
  BY DEF Sources
<1>2. Lists(places, S)
  <2>1. S \in SUBSET (1..3)
    BY <1>1
  <2>2. IsFiniteSet(1..3)
    BY InitialFinite
  <2>3. IsFiniteSet(S) /\ S \in SUBSET Int
    BY <2>1, <2>2, FS_Subset
  <2> HIDE DEF S
  <2> QED
    BY <2>3, AscendingLists
<1>3. \A i \in S : Only(Best(i)) \in Best(i)
  <2> HIDE DEF Best
  <2> QED
    BY DEF Only
<1>4. \A i \in S : Best(i) \in SUBSET DefaultRouteSet(providers, opt)
  BY DEF DefaultRouteSet
<1>5. DefaultRoutes(providers) = [k \in DOMAIN places |-> Only(Best(places[k]))]
  BY DEF DefaultRoutes
<1> HIDE DEF S, Best, places
<1>6. /\ Len(places) \in Nat /\ DOMAIN places = 1..Len(places) /\ \A k \in DOMAIN places : places[k] \in S
  BY <1>2, ListFacts
<1>7. \A k \in DOMAIN places : Only(Best(places[k])) \in DefaultRouteSet(providers, opt)
  BY <1>3, <1>4, <1>6
<1> QED
  BY <1>5, <1>6, <1>7

\* All that is in s is in u too.
Keeps(u, s) == \A i \in DOMAIN s : \E k \in DOMAIN u : u[k] = s[i]

\* No route is lost to the dynamic ones beside it.
LEMMA WithDynamicFacts ==
  ASSUME NEW R, NEW routes \in Seq(R), NEW dynamic
  PROVE  /\ WithDynamic(routes, dynamic) \in Seq(R \cup {DynamicRoute(r) : r \in R})
         /\ Keeps(WithDynamic(routes, dynamic), routes)
<1> DEFINE First(i) == \A j \in DOMAIN routes : j < i => routes[j].source # routes[i].source
           S == {at \in (DOMAIN routes) \X {0, 1} : at[2] = 1 => dynamic /\ First(at[1])}
           places == InTurn(S)
           At(at) == IF at[2] = 0 THEN routes[at[1]] ELSE DynamicRoute(routes[at[1]])
           all == WithDynamic(routes, dynamic)
           T == R \cup {DynamicRoute(r) : r \in R}
<1>1. DOMAIN routes = 1..Len(routes) /\ Len(routes) \in Nat /\ \A i \in DOMAIN routes : routes[i] \in R
  OBVIOUS
<1>2. Lists(places, S)
  <2>0. IsFiniteSet({0}) /\ {0, 1} = {0} \cup {1}
    BY FS_Singleton
  <2>1. IsFiniteSet(1..Len(routes)) /\ IsFiniteSet({0, 1})
    <3>1. IsFiniteSet({0, 1})
      BY <2>0, FS_AddElement
    <3> QED
      BY <3>1, <1>1, InitialFinite
  <2>2. S \in SUBSET ((1..Len(routes)) \X {0, 1})
    BY <1>1
  <2>3. 1..Len(routes) \in SUBSET Int /\ {0, 1} \in SUBSET Int
    BY <1>1
  <2> HIDE DEF S
  <2> QED
    BY <2>1, <2>2, <2>3, InTurnLists
<1>3. \A at \in S : at[1] \in DOMAIN routes
  OBVIOUS
<1>4. \A at \in S : At(at) \in T
  BY <1>1, <1>3
<1>5. \A i \in DOMAIN routes : <<i, 0>> \in S /\ At(<<i, 0>>) = routes[i]
  OBVIOUS
<1>6. all = [k \in DOMAIN places |-> At(places[k])]
  BY DEF WithDynamic
<1> HIDE DEF S, At, places, all, T
<1>7. /\ Len(places) \in Nat /\ DOMAIN places = 1..Len(places) /\ \A k \in DOMAIN places : places[k] \in S
      /\ \A at \in S : \E k \in DOMAIN places : places[k] = at
  BY <1>2, ListFacts
<1>8. all \in Seq(T)
  BY <1>4, <1>6, <1>7
<1>9. \A i \in DOMAIN routes : \E k \in DOMAIN all : all[k] = routes[i]
  <2> TAKE i \in DOMAIN routes
  <2>1. PICK k \in DOMAIN places : places[k] = <<i, 0>>
    BY <1>5, <1>7
  <2>2. all[k] = routes[i] /\ k \in DOMAIN all
    BY <1>5, <1>6, <2>1
  <2> QED
    BY <2>2
<1> QED
  BY <1>8, <1>9 DEF all, T, Keeps

\* A list that is joined from two has the members of both.
LEMMA JoinedFacts ==
  ASSUME NEW R, NEW s \in Seq(R), NEW t \in Seq(R)
  PROVE  s \o t \in Seq(R) /\ Keeps(s \o t, s) /\ Keeps(s \o t, t)
<1> DEFINE u == s \o t
<1>1. /\ u \in Seq(R) /\ DOMAIN u = 1..(Len(s) + Len(t)) /\ Len(s) \in Nat /\ Len(t) \in Nat
      /\ DOMAIN s = 1..Len(s) /\ DOMAIN t = 1..Len(t)
  OBVIOUS
<1>2. \A i \in 1..Len(s) : u[i] = s[i]
  OBVIOUS
<1>3. \A i \in 1..Len(t) : u[Len(s) + i] = t[i]
  OBVIOUS
<1> HIDE DEF u
<1>4. Keeps(u, s)
  <2> SUFFICES ASSUME NEW i \in 1..Len(s) PROVE \E k \in DOMAIN u : u[k] = s[i]
    BY <1>1 DEF Keeps
  <2>1. i \in DOMAIN u
    BY <1>1
  <2> QED
    BY <1>2, <2>1
<1>5. Keeps(u, t)
  <2> SUFFICES ASSUME NEW i \in 1..Len(t) PROVE \E k \in DOMAIN u : u[k] = t[i]
    BY <1>1 DEF Keeps
  <2>1. Len(s) + i \in DOMAIN u
    BY <1>1
  <2> QED
    BY <1>3, <2>1
<1> QED
  BY <1>1, <1>4, <1>5 DEF u

\* The first place in a list of something that is in it.
LEMMA FirstPlace ==
  ASSUME NEW P, NEW n \in Nat, NEW i \in 1..n, i \in P
  PROVE  \E k \in 1..n : k \in P /\ \A j \in 1..n : j < k => j \notin P
<1> DEFINE T == {k \in 1..n : k \in P}
<1>1. T \in SUBSET Nat /\ T # {}
  OBVIOUS
<1> HIDE DEF T
<1>2. PICK k \in T : \A j \in T : k <= j
  BY <1>1, LeastNumber
<1>3. k \in 1..n /\ k \in P
  BY DEF T
<1>4. ASSUME NEW j \in 1..n, j < k PROVE j \notin P
  <2>1. j \notin T
    BY <1>2, <1>3, <1>4
  <2> QED
    BY <2>1 DEF T
<1> QED
  BY <1>3, <1>4

\* A model that is routed stays so in a longer list.
LEMMA HasRouteModelFacts ==
  ASSUME NEW s, NEW u, Keeps(u, s), NEW source, NEW model
  PROVE  HasRouteModel(s, source, model) => HasRouteModel(u, source, model)
BY DEF HasRouteModel, Keeps

\* The routes by the catalog's names are those of every source and intent.
LEMMA NameRoutesCover ==
  ASSUME NEW providers, NEW opt, NEW source \in STRING, NEW intent \in STRING
  PROVE  ModelDBRouteForIntent(providers, opt.aliases, source, intent) \subseteq NameRoutes(providers, opt)
BY DEF NameRoutes

\* The alias routes come after the others, and then each alias with a model is routed.
LEMMA WithAliasRoutesFacts ==
  ASSUME NEW providers, NEW opt \in AutoOptions, NEW R, NameRoutes(providers, opt) \subseteq R,
         NEW routes \in Seq(R)
  PROVE  /\ WithAliasRoutes(routes, providers, opt) \in Seq(R)
         /\ Keeps(WithAliasRoutes(routes, providers, opt), routes)
         /\ \A i \in DOMAIN opt.sources, j \in DOMAIN opt.aliases :
              /\ opt.catalog /\ opt.aliases[j].name # ""
              /\ ModelDBRouteForIntent(providers, opt.aliases, opt.sources[i], opt.aliases[j].name) # {}
              => HasRouteModel(WithAliasRoutes(routes, providers, opt), opt.sources[i], opt.aliases[j].name)
<1> DEFINE For(at) == ModelDBRouteForIntent(providers, opt.aliases, opt.sources[at[1]], opt.aliases[at[2]].name)
           Taken(at) == LET source == opt.sources[at[1]]
                            name == opt.aliases[at[2]].name
                        IN /\ opt.catalog /\ name # ""
                           /\ \A i \in DOMAIN opt.sources : i < at[1] => opt.sources[i] # source
                           /\ \A j \in DOMAIN opt.aliases : j < at[2] => opt.aliases[j].name # name
                           /\ ~HasRouteModel(routes, source, name)
                           /\ For(at) # {}
           S == {at \in (DOMAIN opt.sources) \X (DOMAIN opt.aliases) : Taken(at)}
           places == InTurn(S)
           added == [k \in DOMAIN places |-> Only(For(places[k]))]
           all == WithAliasRoutes(routes, providers, opt)
<1>1. opt.sources \in Seq(STRING) /\ opt.aliases \in Seq(AliasConfigs)
  BY DEF AutoOptions
<1>2. /\ Len(opt.sources) \in Nat /\ DOMAIN opt.sources = 1..Len(opt.sources)
      /\ \A j \in DOMAIN opt.sources : opt.sources[j] \in STRING
  BY <1>1
<1>3. /\ Len(opt.aliases) \in Nat /\ DOMAIN opt.aliases = 1..Len(opt.aliases)
      /\ \A j \in DOMAIN opt.aliases : opt.aliases[j].name \in STRING
  <2>1. \A j \in DOMAIN opt.aliases : opt.aliases[j] \in AliasConfigs
    BY <1>1
  <2> QED
    BY <1>1, <2>1 DEF AliasConfigs
<1>4. Lists(places, S)
  <2>1. S \in SUBSET ((DOMAIN opt.sources) \X (DOMAIN opt.aliases))
    OBVIOUS
  <2> HIDE DEF S
  <2> QED
    BY <1>2, <1>3, <2>1, PlacesLists
<1>5. \A at \in S : /\ For(at) # {}
                    /\ opt.sources[at[1]] \in STRING /\ opt.aliases[at[2]].name \in STRING
  BY <1>2, <1>3
<1>6. \A at \in S : Only(For(at)) \in For(at) /\ For(at) \in SUBSET NameRoutes(providers, opt)
  <2> TAKE at \in S
  <2>1. For(at) \in SUBSET NameRoutes(providers, opt)
    BY <1>5, NameRoutesCover
  <2> HIDE DEF For
  <2> QED
    BY <1>5, <2>1 DEF Only
<1>7. all = routes \o added
  BY DEF WithAliasRoutes
<1>8. \A i \in DOMAIN opt.sources, j \in DOMAIN opt.aliases :
        /\ For(<<i, j>>) = ModelDBRouteForIntent(providers, opt.aliases, opt.sources[i], opt.aliases[j].name)
        /\ Taken(<<i, j>>) => <<i, j>> \in S
        /\ Taken(<<i, j>>) <=>
             /\ opt.catalog /\ opt.aliases[j].name # ""
             /\ \A h \in DOMAIN opt.sources : h < i => opt.sources[h] # opt.sources[i]
             /\ \A h \in DOMAIN opt.aliases : h < j => opt.aliases[h].name # opt.aliases[j].name
             /\ ~HasRouteModel(routes, opt.sources[i], opt.aliases[j].name)
             /\ For(<<i, j>>) # {}
  <2> TAKE i \in DOMAIN opt.sources, j \in DOMAIN opt.aliases
  <2> DEFINE at == <<i, j>>
  <2>1. at[1] = i /\ at[2] = j /\ at \in (DOMAIN opt.sources) \X (DOMAIN opt.aliases)
    OBVIOUS
  <2>2. For(at) = ModelDBRouteForIntent(providers, opt.aliases, opt.sources[i], opt.aliases[j].name)
    BY <2>1
  <2>3. Taken(at) => at \in S
    BY <2>1
  <2> HIDE DEF at, For
  <2>4. Taken(at) <=>
          /\ opt.catalog /\ opt.aliases[j].name # ""
          /\ \A h \in DOMAIN opt.sources : h < i => opt.sources[h] # opt.sources[i]
          /\ \A h \in DOMAIN opt.aliases : h < j => opt.aliases[h].name # opt.aliases[j].name
          /\ ~HasRouteModel(routes, opt.sources[i], opt.aliases[j].name)
          /\ For(at) # {}
    BY <2>1
  <2> QED
    BY <2>2, <2>3, <2>4 DEF at
<1> HIDE DEF S, For, Taken, places, all
<1>9. /\ Len(places) \in Nat /\ DOMAIN places = 1..Len(places) /\ \A k \in DOMAIN places : places[k] \in S
      /\ \A at \in S : \E k \in DOMAIN places : places[k] = at
  BY <1>4, ListFacts
<1>10. added \in Seq(R)
  <2>1. \A k \in DOMAIN places : Only(For(places[k])) \in R
    BY <1>6, <1>9
  <2> QED
    BY <1>9, <2>1
<1>11. all \in Seq(R) /\ Keeps(all, routes) /\ Keeps(all, added)
  <2> HIDE DEF added
  <2> QED
    BY <1>7, <1>10, JoinedFacts
<1>12. ASSUME NEW i \in DOMAIN opt.sources, NEW j \in DOMAIN opt.aliases, opt.catalog,
              opt.aliases[j].name # "",
              ModelDBRouteForIntent(providers, opt.aliases, opt.sources[i], opt.aliases[j].name) # {}
       PROVE  HasRouteModel(all, opt.sources[i], opt.aliases[j].name)
  <2> DEFINE source == opt.sources[i]
             name == opt.aliases[j].name
  <2>1. CASE HasRouteModel(routes, source, name)
    BY <1>11, <2>1, HasRouteModelFacts
  <2>2. CASE ~HasRouteModel(routes, source, name)
    <3>1. PICK g \in DOMAIN opt.sources :
            opt.sources[g] = source /\ \A h \in DOMAIN opt.sources : h < g => opt.sources[h] # source
      <4> DEFINE P == {h \in DOMAIN opt.sources : opt.sources[h] = source}
      <4>1. i \in P /\ i \in 1..Len(opt.sources)
        BY <1>2
      <4> HIDE DEF P
      <4>2. PICK k \in 1..Len(opt.sources) : k \in P /\ \A h \in 1..Len(opt.sources) : h < k => h \notin P
        BY <1>2, <4>1, FirstPlace
      <4>3. k \in DOMAIN opt.sources /\ opt.sources[k] = source
        BY <1>2, <4>2 DEF P
      <4>4. \A h \in DOMAIN opt.sources : h < k => opt.sources[h] # source
        BY <1>2, <4>2 DEF P
      <4> QED
        BY <4>3, <4>4
    <3>2. PICK k \in DOMAIN opt.aliases :
            opt.aliases[k].name = name /\ \A h \in DOMAIN opt.aliases : h < k => opt.aliases[h].name # name
      <4> DEFINE P == {h \in DOMAIN opt.aliases : opt.aliases[h].name = name}
      <4>1. j \in P /\ j \in 1..Len(opt.aliases)
        BY <1>3
      <4> HIDE DEF P
      <4>2. \E l \in 1..Len(opt.aliases) : l \in P /\ \A h \in 1..Len(opt.aliases) : h < l => h \notin P
        BY <1>3, <4>1, FirstPlace
      <4> QED
        BY <1>3, <4>2 DEF P
    <3> DEFINE at == <<g, k>>
    <3>3. For(at) = ModelDBRouteForIntent(providers, opt.aliases, source, name)
      BY <1>8, <3>1, <3>2
    <3>4. at \in S
      <4>1. For(at) # {}
        BY <1>12, <3>3
      <4>2. Taken(at)
        BY <1>8, <1>12, <2>2, <3>1, <3>2, <4>1
      <4> QED
        BY <1>8, <4>2
    <3> HIDE DEF at
    <3>5. PICK l \in DOMAIN places : places[l] = at
      BY <1>9, <3>4
    <3>6. added[l] \in For(at) /\ l \in DOMAIN added
      BY <1>6, <3>4, <3>5
    <3> DEFINE r == added[l]
    <3>7. NameRoute(r, source, name)
      BY <3>3, <3>6, ModelDBRouteShape
    <3>8. r.source = source /\ r.model = name
      <4>1. PICK provider, api : r = Route(source, name, provider, api, name, "", FALSE, 100)
        BY <3>7 DEF NameRoute
      <4> HIDE DEF r, source, name
      <4> QED
        BY <4>1 DEF Route
    <3>9. HasRouteModel(added, source, name)
      <4> HIDE DEF added, source, name
      <4> QED
        BY <3>6, <3>8 DEF HasRouteModel
    <3> QED
      BY <1>11, <3>9, HasRouteModelFacts
  <2> QED
    BY <2>1, <2>2
<1> QED
  BY <1>11, <1>12 DEF all

\* What the detection routes.
LEMMA AutoRoutesFacts ==
  ASSUME NEW providers, NEW opt \in AutoOptions
  PROVE  /\ AutoRoutes(providers, opt) \in Seq(AllRoutes(providers, opt))
         /\ \A i \in DOMAIN opt.intents, j \in DOMAIN opt.sources :
              opt.catalog /\ ModelDBRouteForIntent(providers, opt.aliases, opt.sources[j], opt.intents[i]) # {}
              => HasRouteModel(AutoRoutes(providers, opt), opt.sources[j], opt.intents[i])
         /\ \A i \in DOMAIN opt.sources, j \in DOMAIN opt.aliases :
              /\ opt.catalog /\ opt.aliases[j].name # ""
              /\ ModelDBRouteForIntent(providers, opt.aliases, opt.sources[i], opt.aliases[j].name) # {}
              => HasRouteModel(AutoRoutes(providers, opt), opt.sources[i], opt.aliases[j].name)
<1> DEFINE fixed == IF opt.intents # <<>> THEN IntentRoutes(providers, opt) ELSE DefaultRoutes(providers)
           beside == WithDynamic(fixed, opt.dynamic)
           all == AutoRoutes(providers, opt)
<1>1. fixed \in Seq(FixedRoutes(providers, opt))
  <2>1. CASE opt.intents # <<>>
    <3>1. fixed \in Seq(NameRoutes(providers, opt))
      BY <2>1, IntentRoutesFacts
    <3> HIDE DEF fixed
    <3> QED
      BY <3>1 DEF FixedRoutes
  <2>2. CASE opt.intents = <<>>
    <3>1. fixed \in Seq(DefaultRouteSet(providers, opt))
      BY <2>2, DefaultRoutesFacts
    <3> HIDE DEF fixed
    <3> QED
      BY <3>1 DEF FixedRoutes
  <2> QED
    BY <2>1, <2>2
<1>2. \A i \in DOMAIN opt.intents : fixed = IntentRoutes(providers, opt)
  <2>1. opt.intents = <<>> => DOMAIN opt.intents = {}
    OBVIOUS
  <2> QED
    BY <2>1
<1>3. all = WithAliasRoutes(beside, providers, opt)
  BY DEF AutoRoutes
<1> HIDE DEF fixed
<1>4. beside \in Seq(AllRoutes(providers, opt)) /\ Keeps(beside, fixed)
  <2>1. beside \in Seq(AllRoutes(providers, opt))
    BY <1>1, WithDynamicFacts DEF AllRoutes
  <2>2. Keeps(beside, fixed)
    BY <1>1, WithDynamicFacts
  <2> QED
    BY <2>1, <2>2
<1> HIDE DEF beside
<1>5. NameRoutes(providers, opt) \subseteq AllRoutes(providers, opt)
  BY DEF AllRoutes, FixedRoutes
<1>6. /\ all \in Seq(AllRoutes(providers, opt)) /\ Keeps(all, beside)
      /\ \A i \in DOMAIN opt.sources, j \in DOMAIN opt.aliases :
           /\ opt.catalog /\ opt.aliases[j].name # ""
           /\ ModelDBRouteForIntent(providers, opt.aliases, opt.sources[i], opt.aliases[j].name) # {}
           => HasRouteModel(all, opt.sources[i], opt.aliases[j].name)
  BY <1>3, <1>4, <1>5, WithAliasRoutesFacts
<1> HIDE DEF all
<1>7. ASSUME NEW i \in DOMAIN opt.intents, NEW j \in DOMAIN opt.sources, opt.catalog,
             ModelDBRouteForIntent(providers, opt.aliases, opt.sources[j], opt.intents[i]) # {}
      PROVE  HasRouteModel(all, opt.sources[j], opt.intents[i])
  <2>1. PICK k \in DOMAIN fixed :
          fixed[k] \in ModelDBRouteForIntent(providers, opt.aliases, opt.sources[j], opt.intents[i])
    BY <1>2, <1>7, IntentRoutesFacts
  <2> DEFINE r == fixed[k]
             source == opt.sources[j]
             intent == opt.intents[i]
  <2>2. NameRoute(r, source, intent)
    BY <2>1, ModelDBRouteShape
  <2>3. r.source = source /\ r.model = intent
    <3>1. PICK provider, api : r = Route(source, intent, provider, api, intent, "", FALSE, 100)
      BY <2>2 DEF NameRoute
    <3> HIDE DEF r, source, intent
    <3> QED
      BY <3>1 DEF Route
  <2>4. HasRouteModel(fixed, source, intent)
    <3> HIDE DEF source, intent
    <3> QED
      BY <2>3 DEF HasRouteModel
  <2> QED
    BY <1>4, <1>6, <2>4, HasRouteModelFacts
<1> QED
  BY <1>6, <1>7 DEF all

-----------------------------------------------------------------------------
\* A list of a stable sort's places.
WeakOrder(S, less) ==
  /\ \A x, y \in S : <<x, y>> \in less => <<y, x>> \notin less
  /\ \A x, y, z \in S : <<x, y>> \notin less /\ <<y, z>> \notin less => <<x, z>> \notin less

\* A ranking in which equals keep their places is a strict order of the places, ...
LEMMA StableOrder ==
  ASSUME NEW S \in SUBSET Int, NEW less, NEW before, WeakOrder(S, less),
         \A x, y \in S : <<x, y>> \in before <=> (<<x, y>> \in less \/ (<<y, x>> \notin less /\ x < y))
  PROVE  StrictOrder(S, before)
<1>1. \A x \in S : <<x, x>> \notin before
  BY DEF WeakOrder
<1>2. ASSUME NEW x \in S, NEW y \in S, x # y PROVE <<x, y>> \in before \/ <<y, x>> \in before
  <2>1. x < y \/ y < x
    BY <1>2
  <2> QED
    BY <2>1 DEF WeakOrder
<1>3. ASSUME NEW x \in S, NEW y \in S, NEW z \in S, <<x, y>> \in before, <<y, z>> \in before
      PROVE  <<x, z>> \in before
  <2> DEFINE xy == <<x, y>> \in less
             yx == <<y, x>> \in less
             yz == <<y, z>> \in less
             zy == <<z, y>> \in less
             xz == <<x, z>> \in less
             zx == <<z, x>> \in less
  <2>1. (xy \/ (~yx /\ x < y)) /\ (yz \/ (~zy /\ y < z))
    BY <1>3
  <2>2. /\ (xy => ~yx) /\ (yz => ~zy) /\ (xz => ~zx)
        /\ (~zy /\ ~yx => ~zx) /\ (~xz /\ ~zy => ~xy) /\ (~yx /\ ~xz => ~yz)
    BY DEF WeakOrder
  <2>3. <<x, z>> \in before <=> (xz \/ (~zx /\ x < z))
    OBVIOUS
  <2>4. x < y /\ y < z => x < z
    OBVIOUS
  <2> HIDE DEF xy, yx, yz, zy, xz, zx
  <2> QED
    BY <2>1, <2>2, <2>3, <2>4
<1> QED
  BY <1>1, <1>2, <1>3 DEF StrictOrder

\* ... so that a stable sort lists each place once.
LEMMA StableLists ==
  ASSUME NEW S \in SUBSET Int, IsFiniteSet(S), NEW less, WeakOrder(S, less),
         NEW before \in SUBSET (S \X S),
         \A x, y \in S : <<x, y>> \in before <=> (<<x, y>> \in less \/ (<<y, x>> \notin less /\ x < y))
  PROVE  Lists(Ordered(S, before), S)
BY StableOrder, OrderedLists

\* The router's and the resolver's ways to compare two routes.
LEMMA SourceRankType ==
  ASSUME NEW source
  PROVE  SourceRank(source) \in Nat
BY DEF SourceRank

\* By weight, then by API, then by priority.
Comes(w, a, p, v, b, q) == w > v \/ (w = v /\ IF a # b THEN a < b ELSE p > q)

\* Three numbers that are compared one after the other rank like one.
LEMMA ComesFacts ==
  ASSUME NEW u \in Int, NEW v \in Int, NEW w \in Int, NEW a \in Int, NEW b \in Int, NEW d \in Int,
         NEW p \in Int, NEW q \in Int, NEW o \in Int
  PROVE  /\ Comes(u, a, p, v, b, q) => ~Comes(v, b, q, u, a, p)
         /\ ~Comes(u, a, p, v, b, q) /\ ~Comes(v, b, q, w, d, o) => ~Comes(u, a, p, w, d, o)
BY DEF Comes

\* routeRank's comparison is asymmetric, and so is what it leaves alike.
LEMMA RanksBeforeFacts ==
  ASSUME NEW r, NEW s, NEW t, NEW source,
         r.weight \in Int, s.weight \in Int, t.weight \in Int,
         r.priority \in Int, s.priority \in Int, t.priority \in Int
  PROVE  /\ RanksBefore(r, s, source) => ~RanksBefore(s, r, source)
         /\ ~RanksBefore(r, s, source) /\ ~RanksBefore(s, t, source) => ~RanksBefore(r, t, source)
<1> DEFINE Rank(x) == SourceRank(x.source)
<1>1. Rank(r) \in Int /\ Rank(s) \in Int /\ Rank(t) \in Int
  BY SourceRankType
<1>2. CASE source = ""
  <2>1. \A x, y : RanksBefore(x, y, source) <=> Comes(x.weight, Rank(x), x.priority, y.weight, Rank(y), y.priority)
    BY <1>2 DEF RanksBefore, Comes
  <2> HIDE DEF Rank
  <2> QED
    BY <1>1, <2>1, ComesFacts
<1>3. CASE source # ""
  <2>1. \A x, y : RanksBefore(x, y, source) <=> Comes(x.weight, 0, x.priority, y.weight, 0, y.priority)
    BY <1>3 DEF RanksBefore, Comes
  <2> QED
    BY <2>1, ComesFacts
<1> QED
  BY <1>2, <1>3

Matched(x) == x.matched \in {"public", "native", "dynamic"}

\* The rank of a match is a number.
LEMMA ResolutionRankType ==
  ASSUME NEW x, Matched(x)
  PROVE  ResolutionRank(x) \in Int
<1>1. SourceRank(x.source) * 1000 \in Int
  BY SourceRankType
<1> QED
  BY <1>1 DEF ResolutionRank, Matched

\* The place of a type is a number.
LEMMA TypePlaceFacts ==
  ASSUME NEW type
  PROVE  TypePlace(type) \in Nat
<1> DEFINE S == {i \in DOMAIN RegistryOrder : \A j \in 1..i : RegistryOrder[j] # type}
           n == 13
<1>1. DOMAIN RegistryOrder = 1..n /\ n \in Nat
  BY DEF RegistryOrder
<1> HIDE DEF n
<1>2. S \in SUBSET (1..n)
  BY <1>1
<1>3. IsFiniteSet(1..n)
  BY <1>1, InitialFinite
<1> HIDE DEF S
<1>4. Cardinality(S) \in Nat
  BY <1>2, <1>3, FS_Subset, FS_CardinalityType
<1> QED
  BY <1>4 DEF TypePlace, S

\* The resolution's comparison is a ranking likewise.
LEMMA ResolvesBeforeFacts ==
  ASSUME NEW x, NEW y, NEW z,
         ResolutionRank(x) \in Int, ResolutionRank(y) \in Int, ResolutionRank(z) \in Int,
         x.weight \in Int, y.weight \in Int, z.weight \in Int,
         x.priority \in Int, y.priority \in Int, z.priority \in Int
  PROVE  /\ ResolvesBefore(x, y) => ~ResolvesBefore(y, x)
         /\ ~ResolvesBefore(x, y) /\ ~ResolvesBefore(y, z) => ~ResolvesBefore(x, z)
<1>1. TypePlace(x.type) \in Nat /\ TypePlace(y.type) \in Nat /\ TypePlace(z.type) \in Nat
  BY TypePlaceFacts
<1> QED
  BY <1>1 DEF ResolvesBefore

\* The candidates of a request are of the routes that serve it, and of all of them.
FromServing(f, routes, c, req) ==
  \A k \in DOMAIN f : \E i \in DOMAIN routes : /\ Serves(routes[i], routes, c, req)
                                              /\ f[k] = ForModel(routes[i], c, req.model)
OfAllServing(f, routes, c, req) ==
  \A i \in DOMAIN routes :
    Serves(routes[i], routes, c, req) => \E k \in DOMAIN f : f[k] = ForModel(routes[i], c, req.model)

\* The sort of Routes neither loses a route that serves the request nor adds another.
LEMMA RoutesFacts ==
  ASSUME NEW routes, NEW n \in Nat, DOMAIN routes = 1..n, NEW c, NEW req,
         \A i \in 1..n : routes[i].weight \in Int /\ routes[i].priority \in Int
  PROVE  /\ \E m \in Nat : DOMAIN Routes(routes, c, req) = 1..m
         /\ FromServing(Routes(routes, c, req), routes, c, req)
         /\ OfAllServing(Routes(routes, c, req), routes, c, req)
<1> DEFINE S == {i \in DOMAIN routes : Serves(routes[i], routes, c, req)}
           Ranks(i, j) == RanksBefore(routes[i], routes[j], req.source)
           Before(i, j) == Ranks(i, j) \/ (~Ranks(j, i) /\ i < j)
           less == {p \in S \X S : Ranks(p[1], p[2])}
           before == {p \in S \X S : Before(p[1], p[2])}
           sorted == Ordered(S, before)
           For(i) == ForModel(routes[i], c, req.model)
           all == Routes(routes, c, req)
<1>1. all = [k \in DOMAIN sorted |-> For(sorted[k])]
  BY DEF Routes
<1>2. S \in SUBSET (1..n) /\ S \in SUBSET Int
  OBVIOUS
<1>3. IsFiniteSet(S)
  BY <1>2, InitialFinite, FS_Subset
<1>4. \A x, y, z \in S : /\ Ranks(x, y) => ~Ranks(y, x)
                         /\ ~Ranks(x, y) /\ ~Ranks(y, z) => ~Ranks(x, z)
  <2> TAKE x, y, z \in S
  <2>1. x \in 1..n /\ y \in 1..n /\ z \in 1..n
    BY <1>2
  <2> QED
    BY <2>1, RanksBeforeFacts
<1>5. \A i \in S : i \in DOMAIN routes /\ Serves(routes[i], routes, c, req)
  OBVIOUS
<1>6. \A i \in DOMAIN routes : Serves(routes[i], routes, c, req) => i \in S
  OBVIOUS
<1> HIDE DEF S, Ranks, For, all
<1>7. \A x, y \in S : /\ <<x, y>> \in less <=> Ranks(x, y)
                      /\ <<x, y>> \in before <=> Before(x, y)
  OBVIOUS
<1>8. before \in SUBSET (S \X S)
  OBVIOUS
<1> HIDE DEF less, before
<1>9. WeakOrder(S, less)
  BY <1>4, <1>7 DEF WeakOrder
<1>10. \A x, y \in S : <<x, y>> \in before <=> (<<x, y>> \in less \/ (<<y, x>> \notin less /\ x < y))
  BY <1>7
<1>11. Lists(sorted, S)
  BY <1>2, <1>3, <1>8, <1>9, <1>10, StableLists
<1> HIDE DEF sorted
<1>12. /\ Len(sorted) \in Nat /\ DOMAIN sorted = 1..Len(sorted) /\ \A k \in DOMAIN sorted : sorted[k] \in S
       /\ \A i \in S : \E k \in DOMAIN sorted : sorted[k] = i
  BY <1>11, ListFacts
<1>13. DOMAIN all = 1..Len(sorted)
  BY <1>1, <1>12
<1>14. \A k \in DOMAIN all : sorted[k] \in S /\ all[k] = For(sorted[k])
  BY <1>1, <1>12
<1>15. \A i \in S : \E k \in DOMAIN all : all[k] = For(i)
  BY <1>1, <1>12
<1>16. \A k \in DOMAIN all : \E i \in DOMAIN routes : Serves(routes[i], routes, c, req) /\ all[k] = For(i)
  BY <1>5, <1>14
<1>17. \A i \in DOMAIN routes : Serves(routes[i], routes, c, req) => \E k \in DOMAIN all : all[k] = For(i)
  BY <1>6, <1>15
<1> QED
  BY <1>12, <1>13, <1>16, <1>17 DEF all, For, FromServing, OfAllServing

\* The places that the resolution of a model goes through.
Matching(c, model, source) ==
  {i \in DOMAIN c.routes : /\ SourceMatches(c.routes[i], source)
                           /\ ModelRouteMatch(c.routes[i], model) # ""
                           /\ Resolvable(c, c.routes[i], model)}
Left(c, model, source) == SuppressDynamicFallbacks(c.routes, Matching(c, model, source), model)

\* A route that matches does so in one of three ways.
LEMMA MatchedFacts ==
  ASSUME NEW r, NEW model, ModelRouteMatch(r, model) # ""
  PROVE  ModelRouteMatch(r, model) \in {"public", "native", "dynamic"}
BY DEF ModelRouteMatch

\* The candidate of a route that matches can be ranked.
LEMMA CandidateFacts ==
  ASSUME NEW c, NEW r, NEW model, ModelRouteMatch(r, model) # "",
         r.weight \in Int, EndpointOf(c, r).priority \in Int
  PROVE  LET x == ResolvedCandidate(c, r, model)
         IN ResolutionRank(x) \in Int /\ x.weight \in Int /\ x.priority \in Int
<1> DEFINE x == ResolvedCandidate(c, r, model)
<1>1. x.matched = ModelRouteMatch(r, model) /\ x.weight = r.weight /\ x.priority = EndpointOf(c, r).priority
  BY DEF ResolvedCandidate
<1> HIDE DEF x
<1>2. Matched(x)
  <2>1. ModelRouteMatch(r, model) \in {"public", "native", "dynamic"}
    BY MatchedFacts
  <2> QED
    BY <1>1, <2>1 DEF Matched
<1>3. ResolutionRank(x) \in Int
  BY <1>2, ResolutionRankType
<1>4. x.weight \in Int /\ x.priority \in Int
  BY <1>1
<1> QED
  BY <1>3, <1>4 DEF x

\* What the resolution gives are the candidates of the places that are left.
LEMMA ResolutionFacts ==
  ASSUME NEW c, NEW n \in Nat, DOMAIN c.routes = 1..n, NEW model, NEW source,
         \A i \in 1..n : c.routes[i].weight \in Int /\ EndpointOf(c, c.routes[i]).priority \in Int
  PROVE  /\ \A k \in DOMAIN ResolveModelCandidates(c, model, source) :
              \E i \in Left(c, model, source) :
                ResolveModelCandidates(c, model, source)[k] = ResolvedCandidate(c, c.routes[i], model)
         /\ \A i \in Left(c, model, source) :
              \E k \in DOMAIN ResolveModelCandidates(c, model, source) :
                ResolveModelCandidates(c, model, source)[k] = ResolvedCandidate(c, c.routes[i], model)
<1> DEFINE S == Left(c, model, source)
           At(i) == ResolvedCandidate(c, c.routes[i], model)
           Ranks(i, j) == ResolvesBefore(At(i), At(j))
           Before(i, j) == Ranks(i, j) \/ (~Ranks(j, i) /\ i < j)
           less == {p \in S \X S : Ranks(p[1], p[2])}
           before == {p \in S \X S : Before(p[1], p[2])}
           sorted == Ordered(S, before)
           all == ResolveModelCandidates(c, model, source)
<1>1. all = [k \in DOMAIN sorted |-> At(sorted[k])]
  BY DEF ResolveModelCandidates, Left, Matching
<1>2. S \in SUBSET (1..n) /\ S \in SUBSET Int /\ \A i \in S : ModelRouteMatch(c.routes[i], model) # ""
  <2>1. Left(c, model, source) \subseteq Matching(c, model, source)
    BY DEF Left, SuppressDynamicFallbacks
  <2> DEFINE Fits(i) == ModelRouteMatch(c.routes[i], model) # ""
  <2>2. Matching(c, model, source) \subseteq 1..n /\ \A i \in Matching(c, model, source) : Fits(i)
    BY DEF Matching
  <2> HIDE DEF Fits
  <2>3. S \in SUBSET (1..n) /\ \A i \in S : Fits(i)
    BY <2>1, <2>2
  <2>4. S \in SUBSET Int
    BY <2>3
  <2> QED
    BY <2>3, <2>4 DEF Fits
<1>3. IsFiniteSet(S)
  BY <1>2, InitialFinite, FS_Subset
<1>4. \A i \in S : ResolutionRank(At(i)) \in Int /\ At(i).weight \in Int /\ At(i).priority \in Int
  <2> TAKE i \in S
  <2> DEFINE r == c.routes[i]
  <2>1. ModelRouteMatch(r, model) # "" /\ r.weight \in Int /\ EndpointOf(c, r).priority \in Int
    BY <1>2
  <2> HIDE DEF r
  <2>2. LET x == ResolvedCandidate(c, r, model)
        IN ResolutionRank(x) \in Int /\ x.weight \in Int /\ x.priority \in Int
    BY <2>1, CandidateFacts
  <2> QED
    BY <2>2 DEF r
<1> HIDE DEF S, At, all
<1>5. \A x, y, z \in S : /\ Ranks(x, y) => ~Ranks(y, x)
                         /\ ~Ranks(x, y) /\ ~Ranks(y, z) => ~Ranks(x, z)
  BY <1>4, ResolvesBeforeFacts
<1> HIDE DEF Ranks
<1>7. \A x, y \in S : /\ <<x, y>> \in less <=> Ranks(x, y)
                      /\ <<x, y>> \in before <=> Before(x, y)
  OBVIOUS
<1>8. before \in SUBSET (S \X S)
  OBVIOUS
<1> HIDE DEF less, before
<1>9. WeakOrder(S, less)
  BY <1>5, <1>7 DEF WeakOrder
<1>10. \A x, y \in S : <<x, y>> \in before <=> (<<x, y>> \in less \/ (<<y, x>> \notin less /\ x < y))
  BY <1>7
<1>11. Lists(sorted, S)
  BY <1>2, <1>3, <1>8, <1>9, <1>10, StableLists
<1> HIDE DEF sorted
<1>12. /\ \A k \in DOMAIN sorted : sorted[k] \in S
       /\ \A i \in S : \E k \in DOMAIN sorted : sorted[k] = i
  BY <1>11, ListFacts
<1>13. \A k \in DOMAIN all : \E i \in S : all[k] = At(i)
  BY <1>1, <1>12
<1>14. \A i \in S : \E k \in DOMAIN all : all[k] = At(i)
  BY <1>1, <1>12
<1> QED
  BY <1>13, <1>14 DEF all, At, S

-----------------------------------------------------------------------------
\* The catalog's lookups.
OfferedAt(o, service, family) == o \in Offerings /\ o.service = service /\ family \in DOMAIN o.exposes

\* The choice from a set with members is one of them.
LEMMA OnlyFacts ==
  ASSUME NEW S, S # {}
  PROVE  Only(S) \in S
BY DEF Only

\* The catalog has one offering for a service and a wire model, ...
LEMMA OffersFacts ==
  ASSUME NEW service, NEW family, NEW o, OfferedAt(o, service, family)
  PROVE  Offers(service, family, o.wire) = {o}
BY CatalogAssumption DEF OfferedAt, Offers

\* ... and what it has is of that service, API and wire model.
LEMMA OfferedFacts ==
  ASSUME NEW service, NEW family, NEW wire, NEW o \in Offers(service, family, wire)
  PROVE  OfferedAt(o, service, family) /\ o.wire = wire
BY DEF OfferedAt, Offers

\* A name is resolved to an offering of the service with the API, ...
LEMMA ResolvedNameFacts ==
  ASSUME NEW aliases, NEW service, NEW family, NEW name, NEW o \in ResolvedName(aliases, service, family, name)
  PROVE  OfferedAt(o, service, family)
<1>1. CASE ConfiguredAlias(aliases, service, family, name) # {}
  <2>1. o \in ConfiguredAlias(aliases, service, family, name)
    BY <1>1 DEF ResolvedName
  <2>2. PICK wire : o \in Offers(service, family, wire)
    BY <2>1 DEF ConfiguredAlias
  <2> QED
    BY <2>2, OfferedFacts
<1>2. CASE ConfiguredAlias(aliases, service, family, name) = {}
  <2> DEFINE all == {p \in Offerings : /\ p.service = service /\ family \in DOMAIN p.exposes
                                       /\ name \in p.names \cup {p.wire}}
  <2>1. o \in Named(service, family, name)
    BY <1>2 DEF ResolvedName
  <2>2. all # {} /\ o = Only(all)
    BY <2>1 DEF Named
  <2>3. o \in all
    <3> HIDE DEF all
    <3> QED
      BY <2>2, OnlyFacts
  <2> QED
    BY <2>3 DEF OfferedAt
<1> QED
  BY <1>1, <1>2

\* ... and so is one with a service before it.
LEMMA ResolvedFacts ==
  ASSUME NEW aliases, NEW service, NEW family, NEW name,
         NEW o \in ResolveModelDBItem(aliases, service, family, name)
  PROVE  OfferedAt(o, service, family)
BY ResolvedNameFacts DEF ResolveModelDBItem

\* Whether an offering has one of the names, its own or the operator's.
Called(o, aliases, names) ==
  \/ names \cap (o.names \cup {o.wire}) # {}
  \/ \E j \in DOMAIN aliases : /\ aliases[j].service = o.service
                               /\ aliases[j].wire = o.wire
                               /\ aliases[j].name \in names

\* A name is resolved when an offering is called so, by the catalog or by the operator.
LEMMA ResolvedNameExists ==
  ASSUME NEW aliases, NEW n \in Nat, DOMAIN aliases = 1..n, NEW service, NEW family, NEW name
  PROVE  ResolvedName(aliases, service, family, name) # {}
         <=> \E o : OfferedAt(o, service, family) /\ Called(o, aliases, {name})
<1> DEFINE matching == {i \in DOMAIN aliases : /\ aliases[i].name = name /\ aliases[i].service = service
                                               /\ Offers(service, family, aliases[i].wire) # {}}
           configured == ConfiguredAlias(aliases, service, family, name)
           all == {o \in Offerings : /\ o.service = service /\ family \in DOMAIN o.exposes
                                     /\ name \in o.names \cup {o.wire}}
<1>1. configured # {} <=> matching # {}
  <2>1. matching = {} => configured = {}
    BY DEF ConfiguredAlias
  <2>2. ASSUME matching # {} PROVE configured # {}
    <3>1. configured = Offers(service, family, aliases[Max(matching)].wire)
      BY <2>2 DEF ConfiguredAlias
    <3>2. matching \in SUBSET (0..n)
      OBVIOUS
    <3>3. Max(matching) \in matching
      <4> HIDE DEF matching
      <4> QED
        BY <2>2, <3>2, GreatestNumber
    <3> QED
      BY <3>1, <3>3
  <2> QED
    BY <2>1, <2>2
<1>2. Named(service, family, name) # {} <=> all # {}
  BY DEF Named
<1>3. matching # {} <=> \E o, j : /\ OfferedAt(o, service, family) /\ j \in DOMAIN aliases
                                  /\ aliases[j].service = o.service /\ aliases[j].wire = o.wire
                                  /\ aliases[j].name \in {name}
  BY DEF OfferedAt, Offers
<1>4. all # {} <=> \E o : OfferedAt(o, service, family) /\ {name} \cap (o.names \cup {o.wire}) # {}
  BY DEF OfferedAt
<1>5. ResolvedName(aliases, service, family, name) # {} <=> (matching # {} \/ all # {})
  BY <1>1, <1>2 DEF ResolvedName
<1> HIDE DEF matching, all
<1> QED
  BY <1>3, <1>4, <1>5 DEF Called

\* The names that a service looks for.
NamesFor(name, service) ==
  {name} \cup
    (IF name \in DOMAIN Qualified /\ Qualified[name].service = service THEN {Qualified[name].rest} ELSE {})

\* To have one of more names is to have one of the first or one of the second.
LEMMA CalledFacts ==
  ASSUME NEW o, NEW aliases, NEW M, NEW N
  PROVE  Called(o, aliases, M \cup N) <=> (Called(o, aliases, M) \/ Called(o, aliases, N))
BY DEF Called

\* A name with a service before it is resolved when an offering has it or the rest of it.
LEMMA ResolvedExists ==
  ASSUME NEW aliases, NEW n \in Nat, DOMAIN aliases = 1..n, NEW service, NEW family, NEW name
  PROVE  ResolveModelDBItem(aliases, service, family, name) # {}
         <=> \E o : OfferedAt(o, service, family) /\ Called(o, aliases, NamesFor(name, service))
<1> DEFINE whole == ResolvedName(aliases, service, family, name)
<1>1. CASE name \in DOMAIN Qualified /\ Qualified[name].service = service
  <2> DEFINE rest == Qualified[name].rest
             part == ResolvedName(aliases, service, family, rest)
  <2>1. ResolveModelDBItem(aliases, service, family, name) # {} <=> (whole # {} \/ part # {})
    BY <1>1 DEF ResolveModelDBItem
  <2>2. NamesFor(name, service) = {name} \cup {rest}
    BY <1>1 DEF NamesFor
  <2>3. part # {} <=> \E o : OfferedAt(o, service, family) /\ Called(o, aliases, {rest})
    BY ResolvedNameExists
  <2>4. whole # {} <=> \E o : OfferedAt(o, service, family) /\ Called(o, aliases, {name})
    BY ResolvedNameExists
  <2>5. \A o : Called(o, aliases, NamesFor(name, service))
               <=> (Called(o, aliases, {name}) \/ Called(o, aliases, {rest}))
    <3> TAKE o
    <3> DEFINE M == {name}
               N == {rest}
    <3>1. NamesFor(name, service) = M \cup N
      BY <2>2
    <3> HIDE DEF M, N
    <3>2. Called(o, aliases, NamesFor(name, service)) <=> (Called(o, aliases, M) \/ Called(o, aliases, N))
      BY <3>1, CalledFacts
    <3> QED
      BY <3>2 DEF M, N
  <2> HIDE DEF rest, part, whole
  <2> QED
    BY <2>1, <2>3, <2>4, <2>5
<1>2. CASE ~(name \in DOMAIN Qualified /\ Qualified[name].service = service)
  <2>1. ResolveModelDBItem(aliases, service, family, name) = whole
    BY <1>2 DEF ResolveModelDBItem
  <2>2. NamesFor(name, service) = {name}
    BY <1>2 DEF NamesFor
  <2> QED
    BY <2>1, <2>2, ResolvedNameExists
<1> QED
  BY <1>1, <1>2

-----------------------------------------------------------------------------
\* The fields of a route and of a configuration.
IsRoute(r) ==
  r = Route(r.source, r.model, r.provider, r.api, r.dbmodel, r.native, r.dynamic, r.weight)
IsConfig(c) == c = Config(c.providers, c.routes, c.aliases, c.catalog)

\* A route is what Route makes of its fields, ...
LEMMA RouteIsRoute ==
  ASSUME NEW source, NEW model, NEW provider, NEW api, NEW dbmodel, NEW native, NEW dynamic, NEW weight
  PROVE  IsRoute(Route(source, model, provider, api, dbmodel, native, dynamic, weight))
BY DEF IsRoute, Route

\* ... the ones that the detection makes ...
LEMMA AllRoutesAreRoutes ==
  ASSUME NEW providers, NEW opt, NEW r \in AllRoutes(providers, opt)
  PROVE  IsRoute(r)
<1>1. CASE r \in NameRoutes(providers, opt)
  <2>1. PICK source \in STRING, intent \in STRING :
          r \in ModelDBRouteForIntent(providers, opt.aliases, source, intent)
    BY <1>1 DEF NameRoutes
  <2>2. NameRoute(r, source, intent)
    BY <2>1, ModelDBRouteShape
  <2> QED
    BY <2>2, RouteIsRoute DEF NameRoute
<1>2. CASE r \in DefaultRouteSet(providers, opt)
  <2>1. PICK i \in DOMAIN Sources : r \in BestRouteForAPI(providers, Sources[i])
    BY <1>2 DEF DefaultRouteSet
  <2>2. DefaultRoute(r, Sources[i])
    BY <2>1, BestRouteShape
  <2> QED
    BY <2>2, RouteIsRoute DEF DefaultRoute
<1>3. CASE \E q \in FixedRoutes(providers, opt) : r = DynamicRoute(q)
  BY <1>3, RouteIsRoute DEF DynamicRoute
<1> QED
  BY <1>1, <1>2, <1>3 DEF AllRoutes, FixedRoutes

\* ... and the ones that an operator wrote.
LEMMA RouteConfigsAreRoutes ==
  ASSUME NEW r \in RouteConfigs
  PROVE  IsRoute(r) /\ Weighs(r)
BY DEF RouteConfigs, IsRoute, Route, Weighs

\* A configuration is what Config makes of its fields.
LEMMA ConfigurationsAreConfigs ==
  ASSUME NEW c \in Configurations
  PROVE  IsConfig(c)
BY DEF Configurations, IsConfig, Config

\* What the defaults do to a route.
Defaulted(c, r) ==
  IF r.native = "" /\ r.dbmodel = "" /\ ~r.dynamic /\ EndpointsOf(c, r) # {}
    THEN [r EXCEPT !.native = c.providers[Min(EndpointsOf(c, r))].model]
    ELSE r

AlikeButNative(d, r) ==
  /\ d.source = r.source /\ d.model = r.model /\ d.provider = r.provider /\ d.api = r.api
  /\ d.dbmodel = r.dbmodel /\ d.dynamic = r.dynamic /\ d.weight = r.weight

\* The defaults change the native model of a route and nothing else.
LEMMA DefaultedFacts ==
  ASSUME NEW c, NEW r, IsRoute(r)
  PROVE  /\ AlikeButNative(Defaulted(c, r), r)
         /\ r.dbmodel # "" => Defaulted(c, r) = r
<1>1. r.dbmodel # "" => Defaulted(c, r) = r
  BY DEF Defaulted
<1>2. ASSUME NEW native PROVE AlikeButNative([r EXCEPT !.native = native], r)
  <2>1. PICK source, model, provider, api, dbmodel, was, dynamic, weight :
          r = Route(source, model, provider, api, dbmodel, was, dynamic, weight)
    BY DEF IsRoute
  <2> QED
    BY <2>1 DEF AlikeButNative, Route
<1>3. AlikeButNative(r, r)
  BY DEF AlikeButNative
<1>4. Defaulted(c, r) = r \/ \E native : Defaulted(c, r) = [r EXCEPT !.native = native]
  BY DEF Defaulted
<1> QED
  BY <1>1, <1>2, <1>3, <1>4

\* ApplyDefaults changes the routes, each by itself.
LEMMA ApplyDefaultsFacts ==
  ASSUME NEW c, IsConfig(c)
  PROVE  /\ ApplyDefaults(c).providers = c.providers
         /\ ApplyDefaults(c).aliases = c.aliases
         /\ ApplyDefaults(c).routes = [i \in DOMAIN c.routes |-> Defaulted(c, c.routes[i])]
<1> DEFINE routes == [i \in DOMAIN c.routes |-> Defaulted(c, c.routes[i])]
<1>1. ApplyDefaults(c) = [c EXCEPT !.routes = routes]
  BY DEF ApplyDefaults, Defaulted
<1> HIDE DEF routes
<1>2. PICK ps, rs, as, cat : c = Config(ps, rs, as, cat)
  BY DEF IsConfig
<1>3. LET d == [c EXCEPT !.routes = routes]
      IN d.providers = c.providers /\ d.aliases = c.aliases /\ d.routes = routes
  BY <1>2 DEF Config
<1> QED
  BY <1>1, <1>3 DEF routes

-----------------------------------------------------------------------------
\* What holds of every configuration: that it can be gone through and sorted.
Prioritized(providers) == \E n \in Nat : DOMAIN providers = 1..n /\ \A i \in 1..n : providers[i].priority \in Int
Weighed(routes) == \E n \in Nat : DOMAIN routes = 1..n /\ \A i \in 1..n : Weighs(routes[i])
Sortable(c) == Prioritized(c.providers) /\ Weighed(c.routes)

\* The detected providers have a priority each.
LEMMA AutoProvidersFacts ==
  ASSUME NEW detected, NEW models, NEW opt
  PROVE  Prioritized(AutoProviders(detected, models, opt))
<1> DEFINE S == {i \in DOMAIN RegistryOrder : RegistryOrder[i] \in detected}
           found == Ascending(S)
           all == AutoProviders(detected, models, opt)
           n == 13
<1>1. n \in Nat /\ S \in SUBSET (1..n)
  BY DEF RegistryOrder
<1>2. DOMAIN all = DOMAIN found /\ \A k \in DOMAIN found : all[k].priority = 0
  BY DEF AutoProviders
<1> HIDE DEF S, all, n
<1>3. IsFiniteSet(1..n)
  BY <1>1, InitialFinite
<1>4. IsFiniteSet(S) /\ S \in SUBSET Int
  <2>1. S \in SUBSET Int
    BY <1>1
  <2>2. IsFiniteSet(S)
    BY <1>1, <1>3, FS_Subset
  <2> QED
    BY <2>1, <2>2
<1>5. Lists(found, S)
  BY <1>4, AscendingLists
<1> HIDE DEF found
<1>6. Len(found) \in Nat /\ DOMAIN found = 1..Len(found)
  BY <1>5, ListFacts
<1>7. \A k \in DOMAIN found : all[k].priority \in Int
  BY <1>2
<1>8. Prioritized(all)
  BY <1>2, <1>6, <1>7 DEF Prioritized
<1> QED
  BY <1>8 DEF all

\* The defaults leave the weights and the priorities as they are, ...
LEMMA DefaultsSortable ==
  ASSUME NEW c, IsConfig(c), Sortable(c), \A i \in DOMAIN c.routes : IsRoute(c.routes[i])
  PROVE  Sortable(ApplyDefaults(c))
<1> DEFINE d == ApplyDefaults(c)
<1>1. d.providers = c.providers /\ d.routes = [i \in DOMAIN c.routes |-> Defaulted(c, c.routes[i])]
  BY ApplyDefaultsFacts
<1> HIDE DEF d
<1>2. PICK n \in Nat : DOMAIN c.routes = 1..n /\ \A i \in 1..n : Weighs(c.routes[i])
  BY DEF Sortable, Weighed
<1>3. ASSUME NEW i \in 1..n PROVE Weighs(d.routes[i])
  <2> DEFINE r == c.routes[i]
  <2>1. d.routes[i] = Defaulted(c, r) /\ IsRoute(r) /\ Weighs(r)
    BY <1>1, <1>2
  <2> HIDE DEF r
  <2>2. AlikeButNative(d.routes[i], r)
    BY <2>1, DefaultedFacts
  <2> QED
    BY <2>1, <2>2 DEF AlikeButNative, Weighs
<1>4. Weighed(d.routes)
  BY <1>1, <1>2, <1>3 DEF Weighed
<1> QED
  BY <1>1, <1>4 DEF Sortable, d

\* ... which a written configuration has ...
LEMMA WrittenSortable ==
  ASSUME NEW c \in Written
  PROVE  Sortable(ApplyDefaults(c))
<1>1. c \in Configurations
  BY RoutingAssumption
<1>2. IsConfig(c)
  BY <1>1, ConfigurationsAreConfigs
<1>3. c.providers \in Seq(ProviderConfigs) /\ c.routes \in Seq(RouteConfigs)
  BY <1>1 DEF Configurations
<1>4. Prioritized(c.providers)
  <2>1. /\ Len(c.providers) \in Nat /\ DOMAIN c.providers = 1..Len(c.providers)
        /\ \A i \in DOMAIN c.providers : c.providers[i] \in ProviderConfigs
    BY <1>3
  <2>2. \A p \in ProviderConfigs : p.priority \in Int
    BY DEF ProviderConfigs
  <2> QED
    BY <2>1, <2>2 DEF Prioritized
<1>5. /\ Len(c.routes) \in Nat /\ DOMAIN c.routes = 1..Len(c.routes)
      /\ \A i \in DOMAIN c.routes : c.routes[i] \in RouteConfigs
  BY <1>3
<1>6. \A i \in DOMAIN c.routes : IsRoute(c.routes[i]) /\ Weighs(c.routes[i])
  BY <1>5, RouteConfigsAreRoutes
<1>7. Weighed(c.routes)
  BY <1>5, <1>6 DEF Weighed
<1> QED
  BY <1>2, <1>4, <1>6, <1>7, DefaultsSortable DEF Sortable

\* What AutoMuxClient makes, before the defaults.
Made(providers, opt) == Config(providers, AutoRoutes(providers, opt), IF opt.catalog THEN opt.aliases ELSE <<>>, FALSE)

\* The fields of the configuration that the detection makes.
LEMMA MadeFacts ==
  ASSUME NEW providers, NEW opt
  PROVE  /\ IsConfig(Made(providers, opt))
         /\ Made(providers, opt).providers = providers
         /\ Made(providers, opt).routes = AutoRoutes(providers, opt)
         /\ opt.catalog => Made(providers, opt).aliases = opt.aliases
BY DEF IsConfig, Made, Config

\* ... and so has a detected one.
LEMMA MadeSortable ==
  ASSUME NEW providers, Prioritized(providers), NEW opt \in AutoOptions
  PROVE  Sortable(ApplyDefaults(Made(providers, opt)))
<1> DEFINE c == Made(providers, opt)
           R == AllRoutes(providers, opt)
<1>1. IsConfig(c) /\ c.providers = providers /\ c.routes = AutoRoutes(providers, opt)
  BY MadeFacts
<1>2. AutoRoutes(providers, opt) \in Seq(R)
  BY AutoRoutesFacts
<1>3. \A r \in R : IsRoute(r) /\ Weighs(r)
  BY AllRoutesAreRoutes, RouteFacts
<1> HIDE DEF c, R
<1>4. c.routes \in Seq(R)
  BY <1>1, <1>2
<1>5. Len(c.routes) \in Nat /\ DOMAIN c.routes = 1..Len(c.routes) /\ \A i \in DOMAIN c.routes : c.routes[i] \in R
  BY <1>4
<1>6. Weighed(c.routes) /\ \A i \in DOMAIN c.routes : IsRoute(c.routes[i])
  BY <1>3, <1>5 DEF Weighed
<1> QED
  BY <1>1, <1>6, DefaultsSortable DEF Sortable, c

-----------------------------------------------------------------------------
\* The invariant: what the configuration is, what the table has been built from, and what the
\* candidates and the resolution have been found in.
Configured == state # "start" => Sortable(cfg)
Detected ==
  opts.catalog => state # "start" /\ opts \in AutoOptions /\ cfg = ApplyDefaults(Made(cfg.providers, opts))
Built ==
  state = "serving" =>
    /\ Valid(cfg) /\ (\A i \in DOMAIN cfg.routes : Resolves(cfg, cfg.routes[i]))
    /\ table = BuildTable(cfg)
Unasked == asked = NoRequest /\ routed = <<>> /\ inspected = <<>>
Answered ==
  /\ state = "serving"
  /\ routed = Routes(table, cfg, asked)
  /\ inspected = ResolveModelCandidates(cfg, asked.model, asked.source)
RInv == Configured /\ Detected /\ Built /\ (Unasked \/ Answered)

\* The program starts with it, ...
LEMMA RInitially == Init => RInv
<1> SUFFICES ASSUME Init PROVE RInv
  OBVIOUS
<1>1. state = "start" /\ Unasked
  BY DEF Init, Unasked
<1>2. ~opts.catalog
  BY DEF Init, NoOptions
<1> QED
  BY <1>1, <1>2 DEF RInv, Configured, Detected, Built

\* ... every step keeps it, ...
LEMMA RPreserved == RInv /\ [Next]_vars => RInv'
<1> SUFFICES ASSUME RInv, [Next]_vars PROVE RInv'
  OBVIOUS
<1>1. ASSUME NEW types \in Detections, NEW opt \in Options, Detect(types, opt) PROVE RInv'
  <2> DEFINE providers == AutoProviders(types, DefaultModels, opt)
  <2>1. /\ state = "start" /\ state' = "configured" /\ opts' = opt
        /\ UNCHANGED <<table, asked, routed, inspected>>
    BY <1>1 DEF Detect
  <2>2. cfg' = ApplyDefaults(Made(providers, opt))
    BY <1>1 DEF Detect, Made
  <2>3. opt \in AutoOptions /\ Prioritized(providers)
    BY RoutingAssumption, AutoProvidersFacts
  <2> HIDE DEF providers
  <2>4. Sortable(cfg')
    BY <2>2, <2>3, MadeSortable
  <2>5. cfg'.providers = providers
    <3> DEFINE c == Made(providers, opt)
    <3>1. IsConfig(c) /\ c.providers = providers
      BY MadeFacts
    <3> HIDE DEF c
    <3>2. ApplyDefaults(c).providers = c.providers
      BY <3>1, ApplyDefaultsFacts
    <3> QED
      BY <2>2, <3>1, <3>2 DEF c
  <2>6. Detected'
    BY <2>1, <2>2, <2>3, <2>5 DEF Detected
  <2>7. Configured' /\ Built'
    BY <2>1, <2>4 DEF Configured, Built
  <2>8. Unasked'
    BY <2>1 DEF RInv, Unasked, Answered
  <2> QED
    BY <2>6, <2>7, <2>8 DEF RInv
<1>2. ASSUME NEW c \in Written, Load(c) PROVE RInv'
  <2>1. /\ state = "start" /\ state' = "configured" /\ cfg' = ApplyDefaults(c)
        /\ UNCHANGED <<opts, table, asked, routed, inspected>>
    BY <1>2 DEF Load
  <2>2. Sortable(cfg')
    BY <2>1, WrittenSortable
  <2>3. Configured' /\ Built'
    BY <2>1, <2>2 DEF Configured, Built
  <2>4. Unasked'
    BY <2>1 DEF RInv, Unasked, Answered
  <2>5. Detected'
    BY <2>1 DEF RInv, Detected
  <2> QED
    BY <2>3, <2>4, <2>5 DEF RInv
<1>3. CASE Build
  <2>1. state = "configured" /\ state' # "start" /\ UNCHANGED <<cfg, opts, asked, routed, inspected>>
    BY <1>3 DEF Build
  <2>2. Built'
    BY <1>3, <2>1 DEF Build, Built
  <2>3. Configured' /\ Detected'
    BY <2>1 DEF RInv, Configured, Detected
  <2>4. Unasked'
    BY <2>1 DEF RInv, Unasked, Answered
  <2> QED
    BY <2>2, <2>3, <2>4 DEF RInv
<1>4. ASSUME NEW req \in Requests, Ask(req) PROVE RInv'
  <2>1. Answered'
    BY <1>4 DEF Ask, Answered
  <2>2. Configured' /\ Detected' /\ Built'
    BY <1>4 DEF RInv, Ask, Configured, Detected, Built
  <2> QED
    BY <2>1, <2>2 DEF RInv
<1>5. CASE UNCHANGED vars
  BY <1>5 DEF RInv, vars, Configured, Detected, Built, Unasked, Answered
<1> QED
  BY <1>1, <1>2, <1>3, <1>4, <1>5 DEF Next

\* ... and so it always holds.
LEMMA Invariance == Spec => []RInv
BY RInitially, RPreserved, PTL DEF Spec

-----------------------------------------------------------------------------
\* A route of the table, and its candidate.
EntryOf(t, r, p) ==
  /\ t.source = r.source /\ t.model = r.model /\ t.dynamic = r.dynamic /\ t.weight = r.weight
  /\ t.provider = p.name /\ t.type = p.type /\ t.priority = p.priority
CandidateOf(x, t) ==
  /\ x.source = t.source /\ x.model = t.model /\ x.dynamic = t.dynamic
  /\ x.provider = t.provider /\ x.type = t.type

\* A route of the table keeps what its configuration says, ...
LEMMA StaticFacts ==
  ASSUME NEW c, NEW r
  PROVE  EntryOf(StaticRoute(c, r), r, EndpointOf(c, r))
BY DEF StaticRoute, EntryOf

\* ... and a candidate keeps what its route of the table says.
LEMMA ForModelFacts ==
  ASSUME NEW c, NEW r, NEW model
  PROVE  CandidateOf(ForModel(StaticRoute(c, r), c, model), StaticRoute(c, r))
<1> DEFINE t == StaticRoute(c, r)
<1>1. ASSUME NEW native, NEW caps, NEW efforts
      PROVE  /\ CandidateOf([t EXCEPT !.native = native, !.caps = caps, !.efforts = efforts], t)
             /\ CandidateOf([t EXCEPT !.native = native], t)
  BY DEF StaticRoute, CandidateOf
<1> HIDE DEF t
<1>2. \/ \E native, caps, efforts :
           ForModel(t, c, model) = [t EXCEPT !.native = native, !.caps = caps, !.efforts = efforts]
      \/ \E native : ForModel(t, c, model) = [t EXCEPT !.native = native]
  BY DEF ForModel
<1>3. CandidateOf(ForModel(t, c, model), t)
  <2>1. CASE \E native : ForModel(t, c, model) = [t EXCEPT !.native = native]
    <3>1. PICK native : ForModel(t, c, model) = [t EXCEPT !.native = native]
      BY <2>1
    <3>2. CandidateOf([t EXCEPT !.native = native], t)
      BY <1>1
    <3> QED
      BY <3>1, <3>2
  <2>2. CASE \E native, caps, efforts :
               ForModel(t, c, model) = [t EXCEPT !.native = native, !.caps = caps, !.efforts = efforts]
    <3>1. PICK native, caps, efforts :
            ForModel(t, c, model) = [t EXCEPT !.native = native, !.caps = caps, !.efforts = efforts]
      BY <2>2
    <3>2. CandidateOf([t EXCEPT !.native = native, !.caps = caps, !.efforts = efforts], t)
      BY <1>1
    <3> QED
      BY <3>1, <3>2
  <2> QED
    BY <1>2, <2>1, <2>2
<1> QED
  BY <1>3 DEF t

\* A valid configuration has one provider for each route.
LEMMA EndpointFacts ==
  ASSUME NEW c, Valid(c), NEW i \in DOMAIN c.routes
  PROVE  \E p \in DOMAIN c.providers :
           EndpointsOf(c, c.routes[i]) = {p} /\ EndpointOf(c, c.routes[i]) = c.providers[p]
<1>1. PICK p \in DOMAIN c.providers : EndpointsOf(c, c.routes[i]) = {p}
  BY DEF Valid
<1>2. Only({p}) = p
  BY DEF Only
<1> QED
  BY <1>1, <1>2 DEF EndpointOf

\* A table that serves has a route for each of the configuration, with numbers to sort by.
LEMMA TableFacts ==
  ASSUME RInv, state = "serving"
  PROVE  /\ \E n \in Nat : /\ DOMAIN table = 1..n /\ DOMAIN cfg.routes = 1..n
                           /\ \A i \in 1..n : table[i].weight \in Int /\ table[i].priority \in Int
                           /\ \A i \in 1..n : /\ cfg.routes[i].weight \in Int
                                              /\ EndpointOf(cfg, cfg.routes[i]).priority \in Int
         /\ \A i \in DOMAIN table : i \in DOMAIN cfg.routes /\ table[i] = StaticRoute(cfg, cfg.routes[i])
<1>1. Valid(cfg) /\ table = BuildTable(cfg) /\ Sortable(cfg)
  BY DEF RInv, Built, Configured
<1>2. DOMAIN table = DOMAIN cfg.routes /\ \A i \in DOMAIN cfg.routes : table[i] = StaticRoute(cfg, cfg.routes[i])
  BY <1>1 DEF BuildTable
<1>3. PICK n \in Nat : DOMAIN cfg.routes = 1..n /\ \A i \in 1..n : cfg.routes[i].weight \in Int
  BY <1>1 DEF Sortable, Weighed, Weighs
<1>4. \A p \in DOMAIN cfg.providers : cfg.providers[p].priority \in Int
  BY <1>1 DEF Sortable, Prioritized
<1>5. ASSUME NEW i \in 1..n PROVE EndpointOf(cfg, cfg.routes[i]).priority \in Int
  <2>1. PICK p \in DOMAIN cfg.providers : EndpointOf(cfg, cfg.routes[i]) = cfg.providers[p]
    BY <1>1, <1>3, EndpointFacts
  <2> QED
    BY <1>4, <2>1
<1>6. ASSUME NEW i \in 1..n PROVE table[i].weight \in Int /\ table[i].priority \in Int
  <2>1. EntryOf(table[i], cfg.routes[i], EndpointOf(cfg, cfg.routes[i]))
    BY <1>2, <1>3, StaticFacts
  <2> QED
    BY <1>3, <1>5, <2>1 DEF EntryOf
<1> QED
  BY <1>2, <1>3, <1>5, <1>6

\* The answer to a request is a list of the candidates of all the routes that serve it.
LEMMA AnswerFacts ==
  ASSUME RInv, Answered
  PROVE  /\ \E m \in Nat : DOMAIN routed = 1..m
         /\ FromServing(routed, table, cfg, asked)
         /\ OfAllServing(routed, table, cfg, asked)
<1>1. PICK n \in Nat : /\ DOMAIN table = 1..n
                       /\ \A i \in 1..n : table[i].weight \in Int /\ table[i].priority \in Int
  BY TableFacts DEF Answered
<1>2. routed = Routes(table, cfg, asked)
  BY DEF Answered
<1> QED
  BY <1>1, <1>2, RoutesFacts

\* A plain request has been answered, and no capability is missing for it.
LEMMA PlainFacts ==
  ASSUME RInv, Plain
  PROVE  /\ Answered /\ state = "serving" /\ asked.model # ""
         /\ \A x : ~CapabilityMismatch(asked, x)
<1>1. asked.model # "" /\ asked.needs = {} /\ asked.effort = "" /\ state = "serving"
  BY DEF Plain
<1>2. ~Unasked
  <2>1. NoRequest.model = ""
    BY DEF NoRequest
  <2> QED
    BY <1>1, <2>1 DEF Unasked
<1>3. \A x : ~CapabilityMismatch(asked, x)
  BY <1>1 DEF CapabilityMismatch
<1> QED
  BY <1>1, <1>2, <1>3 DEF RInv

\* A dynamic route names no model.
LEMMA DynamicFacts ==
  ASSUME RInv, state = "serving", NEW i \in DOMAIN table, table[i].dynamic
  PROVE  /\ cfg.routes[i].dynamic /\ table[i].model = ""
         /\ cfg.routes[i].model = "" /\ cfg.routes[i].native = "" /\ cfg.routes[i].dbmodel = ""
<1>1. i \in DOMAIN cfg.routes /\ table[i] = StaticRoute(cfg, cfg.routes[i]) /\ Valid(cfg)
  BY TableFacts DEF RInv, Built
<1>2. cfg.routes[i].dynamic /\ table[i].model = cfg.routes[i].model
  <2>1. EntryOf(table[i], cfg.routes[i], EndpointOf(cfg, cfg.routes[i]))
    BY <1>1, StaticFacts
  <2> QED
    BY <2>1 DEF EntryOf
<1> QED
  BY <1>1, <1>2 DEF Valid

\* hasExactRoute suppresses no dynamic route of a model that no fixed route of the API names:
\* each that has the model is among the candidates.
THEOREM DynamicServesEverywhere == Spec => []DynamicServes
<1>1. ASSUME RInv PROVE DynamicServes
  <2> SUFFICES ASSUME Plain, NEW i \in DOMAIN table,
                      table[i].dynamic, SourceMatches(table[i], asked.source),
                      UsesModelDB(cfg) => DynamicModel(table[i], cfg.aliases, asked.model) # {},
                      \A j \in DOMAIN table : ~(/\ SourceMatches(table[j], asked.source)
                                                /\ asked.model \in {table[j].model, table[j].native})
               PROVE  \E k \in DOMAIN routed : routed[k].provider = table[i].provider /\ routed[k].dynamic
    BY DEF DynamicServes
  <2>1. Answered /\ state = "serving" /\ \A x : ~CapabilityMismatch(asked, x)
    BY <1>1, PlainFacts
  <2>2. table[i].model \in {"", asked.model}
    BY <1>1, <2>1, DynamicFacts
  <2>3. ~HasExactRoute(table, asked)
    BY DEF HasExactRoute
  <2>4. ~Unavailable(table[i], cfg, asked.model)
    BY DEF Unavailable
  <2>5. Serves(table[i], table, cfg, asked)
    BY <2>1, <2>2, <2>3, <2>4 DEF Serves
  <2>6. PICK k \in DOMAIN routed : routed[k] = ForModel(table[i], cfg, asked.model)
    BY <1>1, <2>1, <2>5, AnswerFacts DEF OfAllServing
  <2>7. table[i] = StaticRoute(cfg, cfg.routes[i])
    BY <1>1, <2>1, TableFacts
  <2>8. CandidateOf(routed[k], table[i])
    BY <2>6, <2>7, ForModelFacts
  <2> QED
    BY <2>8 DEF CandidateOf
<1> QED
  BY <1>1, Invariance, PTL

-----------------------------------------------------------------------------
\* What the catalog's offering does to the capabilities.
LEMMA EnrichShrinks ==
  ASSUME NEW base, NEW service, NEW family, NEW wire
  PROVE  EnrichCapabilities(base, service, family, wire) \subseteq base
BY DEF EnrichCapabilities

\* What is left of the capabilities is within the offering's, and the efforts are its own.
LEMMA EnrichFacts ==
  ASSUME NEW base, NEW service, NEW family, NEW o, OfferedAt(o, service, family)
  PROVE  /\ EnrichCapabilities(base, service, family, o.wire) \subseteq o.exposes[family].caps
         /\ EffortsOf(service, family, o.wire) = o.exposes[family].efforts
<1>1. Offers(service, family, o.wire) = {o}
  BY OffersFacts
<1>2. Only({o}) = o
  BY DEF Only
<1> QED
  BY <1>1, <1>2 DEF EnrichCapabilities, EffortsOf

\* What a table's route and a candidate take from the catalog.
LEMMA StaticCatalog ==
  ASSUME NEW c, NEW r
  PROVE  LET t == StaticRoute(c, r)
             p == EndpointOf(c, r)
             wire == WireModel(c, r)
         IN /\ t.caps = EnrichCapabilities(EndpointCapabilities(p), ServiceOf(p.type), Family(p.type), wire)
            /\ t.efforts = EffortsOf(ServiceOf(p.type), Family(p.type), wire)
            /\ t.native = IF r.dbmodel # "" THEN NativeModelOf(p.type, wire) ELSE r.native
BY DEF StaticRoute

OrElse(native, model) == IF native = "" THEN model ELSE native

\* A fixed candidate is its route, with the name that was asked for when it has none, ...
LEMMA CandidateFixed ==
  ASSUME NEW c, NEW r, NEW model, ~(StaticRoute(c, r).dynamic /\ UsesModelDB(c))
  PROVE  LET t == StaticRoute(c, r)
             x == ForModel(t, c, model)
         IN x.caps = t.caps /\ x.efforts = t.efforts /\ x.native = OrElse(t.native, model)
<1> DEFINE t == StaticRoute(c, r)
<1>1. \A native : LET x == [t EXCEPT !.native = native]
                  IN x.caps = t.caps /\ x.efforts = t.efforts /\ x.native = native
  BY DEF StaticRoute
<1> HIDE DEF t
<1>2. ForModel(t, c, model) = [t EXCEPT !.native = OrElse(t.native, model)]
  BY DEF ForModel, OrElse, t
<1> QED
  BY <1>1, <1>2 DEF t

\* ... and a dynamic one has what the catalog says of the model that was asked for.
LEMMA CandidateDynamic ==
  ASSUME NEW c, NEW r, NEW model, StaticRoute(c, r).dynamic, UsesModelDB(c)
  PROVE  LET t == StaticRoute(c, r)
             x == ForModel(t, c, model)
             wire == Only(DynamicModel(t, c.aliases, model)).wire
         IN /\ x.caps = EnrichCapabilities(t.caps, ServiceOf(t.type), Family(t.type), wire)
            /\ x.efforts = EffortsOf(ServiceOf(t.type), Family(t.type), wire)
            /\ x.native = NativeModelOf(t.type, wire)
<1> DEFINE t == StaticRoute(c, r)
<1>1. \A native, caps, efforts :
        LET x == [t EXCEPT !.native = native, !.caps = caps, !.efforts = efforts]
        IN x.caps = caps /\ x.efforts = efforts /\ x.native = native
  BY DEF StaticRoute
<1> HIDE DEF t
<1> DEFINE wire == Only(DynamicModel(t, c.aliases, model)).wire
<1>2. ForModel(t, c, model) = [t EXCEPT !.native = NativeModelOf(t.type, wire),
                                        !.caps = EnrichCapabilities(t.caps, ServiceOf(t.type), Family(t.type), wire),
                                        !.efforts = EffortsOf(ServiceOf(t.type), Family(t.type), wire)]
  BY DEF ForModel, t
<1> HIDE DEF wire
<1> QED
  BY <1>1, <1>2 DEF t, wire

\* A candidate can do no more than the operator's provider.
LEMMA CandidateShrinks ==
  ASSUME NEW c, NEW r, NEW model
  PROVE  ForModel(StaticRoute(c, r), c, model).caps \subseteq EndpointCapabilities(EndpointOf(c, r))
<1> DEFINE t == StaticRoute(c, r)
           x == ForModel(t, c, model)
           base == EndpointCapabilities(EndpointOf(c, r))
<1>1. t.caps \subseteq base
  <2>1. \A service, family, wire : EnrichCapabilities(base, service, family, wire) \subseteq base
    BY EnrichShrinks
  <2> DEFINE p == EndpointOf(c, r)
  <2>2. t.caps = EnrichCapabilities(base, ServiceOf(p.type), Family(p.type), WireModel(c, r))
    BY StaticCatalog
  <2> HIDE DEF base
  <2> QED
    BY <2>1, <2>2
<1>2. x.caps \subseteq t.caps
  <2>1. CASE t.dynamic /\ UsesModelDB(c)
    <3>1. \A service, family, wire : EnrichCapabilities(t.caps, service, family, wire) \subseteq t.caps
      BY EnrichShrinks
    <3>2. \E service, family, wire : x.caps = EnrichCapabilities(t.caps, service, family, wire)
      BY <2>1, CandidateDynamic
    <3> QED
      BY <3>1, <3>2
  <2>2. CASE ~(t.dynamic /\ UsesModelDB(c))
    <3>1. x.caps = t.caps
      BY <2>2, CandidateFixed
    <3> QED
      BY <3>1
  <2> QED
    BY <2>1, <2>2
<1> QED
  BY <1>1, <1>2

\* A provider that a route selects is the only one of its name and type.
LEMMA EndpointAlone ==
  ASSUME NEW c, Valid(c), NEW i \in DOMAIN c.routes
  PROVE  LET p == EndpointOf(c, c.routes[i])
         IN p = CHOOSE q \in Range(c.providers) : q.name = p.name /\ q.type = p.type
<1> DEFINE r == c.routes[i]
           p == EndpointOf(c, r)
           Like == {q \in Range(c.providers) : q.name = p.name /\ q.type = p.type}
<1>1. PICK k \in DOMAIN c.providers : EndpointsOf(c, r) = {k} /\ p = c.providers[k]
  BY EndpointFacts
<1>2. c.providers[k].name = r.provider /\ r.api \in {"", ApiKind(c.providers[k].type)}
  BY <1>1 DEF EndpointsOf
<1> HIDE DEF r, p
<1>3. p \in Range(c.providers)
  BY <1>1 DEF Range
<1>4. ASSUME NEW q \in Range(c.providers), q.name = p.name, q.type = p.type PROVE q = p
  <2>1. PICK l \in DOMAIN c.providers : q = c.providers[l]
    BY DEF Range
  <2>2. l \in EndpointsOf(c, r)
    BY <1>1, <1>2, <1>4, <2>1 DEF EndpointsOf
  <2> QED
    BY <1>1, <2>1, <2>2
<1>5. p = CHOOSE q \in Range(c.providers) : q.name = p.name /\ q.type = p.type
  BY <1>3, <1>4
<1> QED
  BY <1>5 DEF p, r

\* What a request's needs leave of an offering.
Suits(o, req, family) ==
  /\ req.needs \subseteq o.exposes[family].caps
  /\ req.effort = "" \/ o.exposes[family].efforts = {} \/ req.effort \in o.exposes[family].efforts

\* An offering that has what the candidate has suits what the candidate suits.
LEMMA SuitsFacts ==
  ASSUME NEW r, NEW o, NEW family, NEW req, ~CapabilityMismatch(req, r),
         r.caps \subseteq o.exposes[family].caps, r.efforts = o.exposes[family].efforts
  PROVE  Suits(o, req, family)
BY DEF CapabilityMismatch, Suits

\* A candidate stands for an offering whose model it names.
LEMMA StandsFacts ==
  ASSUME NEW r, NEW o, OfferedAt(o, ServiceOf(r.type), Family(r.type)),
         r.native = o.wire \/ r.native = NativeModelOf(r.type, o.wire)
  PROVE  o \in Stands(r)
BY DEF OfferedAt, Stands

\* A dynamic candidate is for a model of the catalog that suits the request.
LEMMA DynamicSuits ==
  ASSUME NEW c, NEW q, NEW req, StaticRoute(c, q).dynamic, UsesModelDB(c),
         ~Unavailable(StaticRoute(c, q), c, req.model),
         ~CapabilityMismatch(req, ForModel(StaticRoute(c, q), c, req.model))
  PROVE  LET r == ForModel(StaticRoute(c, q), c, req.model)
         IN \E o \in Stands(r) : Suits(o, req, Family(r.type))
<1> DEFINE t == StaticRoute(c, q)
           r == ForModel(t, c, req.model)
           o == Only(DynamicModel(t, c.aliases, req.model))
           service == ServiceOf(t.type)
           family == Family(t.type)
<1>1. r.type = t.type
  BY ForModelFacts DEF CandidateOf
<1>2. /\ r.caps = EnrichCapabilities(t.caps, service, family, o.wire)
      /\ r.efforts = EffortsOf(service, family, o.wire)
      /\ r.native = NativeModelOf(t.type, o.wire)
  BY CandidateDynamic
<1>3. o \in DynamicModel(t, c.aliases, req.model)
  BY OnlyFacts DEF Unavailable
<1>4. OfferedAt(o, service, family)
  <2>1. o \in ResolveModelDBItem(c.aliases, service, family, req.model)
    BY <1>3 DEF DynamicModel
  <2> HIDE DEF o, service, family
  <2> QED
    BY <2>1, ResolvedFacts
<1>5. ~CapabilityMismatch(req, r)
  OBVIOUS
<1> HIDE DEF t, r, o
<1>6. r.caps \subseteq o.exposes[family].caps /\ r.efforts = o.exposes[family].efforts
  <2> HIDE DEF service, family
  <2>1. EnrichCapabilities(t.caps, service, family, o.wire) \subseteq o.exposes[family].caps
    BY <1>4, EnrichFacts
  <2>2. EffortsOf(service, family, o.wire) = o.exposes[family].efforts
    BY <1>4, EnrichFacts
  <2> QED
    BY <1>2, <2>1, <2>2
<1>7. o \in Stands(r) /\ Suits(o, req, Family(r.type))
  BY <1>1, <1>2, <1>4, <1>5, <1>6, StandsFacts, SuitsFacts
<1> QED
  BY <1>7 DEF r, t

\* So is a fixed one that has been looked up.
LEMMA FixedSuits ==
  ASSUME NEW c, NEW q, NEW req, Resolves(c, q), ~CapabilityMismatch(req, StaticRoute(c, q)),
         \/ q.dbmodel # ""
         \/ Offers(ServiceOf(StaticRoute(c, q).type), Family(StaticRoute(c, q).type), StaticRoute(c, q).native) # {}
  PROVE  \E o \in Stands(StaticRoute(c, q)) : Suits(o, req, Family(StaticRoute(c, q).type))
<1> DEFINE r == StaticRoute(c, q)
           p == EndpointOf(c, q)
           service == ServiceOf(p.type)
           family == Family(p.type)
           wire == WireModel(c, q)
<1>1. r.type = p.type
  BY StaticFacts DEF EntryOf
<1>2. /\ r.caps = EnrichCapabilities(EndpointCapabilities(p), service, family, wire)
      /\ r.efforts = EffortsOf(service, family, wire)
      /\ r.native = IF q.dbmodel # "" THEN NativeModelOf(p.type, wire) ELSE q.native
  BY StaticCatalog
<1> HIDE DEF r, p
<1>3. PICK o : OfferedAt(o, service, family) /\ o.wire = wire
  <2>1. CASE q.dbmodel # ""
    <3> DEFINE o == Only(ItemOf(c, q))
    <3>1. o \in ItemOf(c, q)
      BY <2>1, OnlyFacts DEF Resolves
    <3>2. o.wire = wire
      BY <2>1 DEF WireModel
    <3>3. o \in ResolveModelDBItem(c.aliases, service, family, q.dbmodel)
      BY <3>1 DEF ItemOf, p
    <3> HIDE DEF o, service, family
    <3>4. OfferedAt(o, service, family)
      BY <3>3, ResolvedFacts
    <3> QED
      BY <3>2, <3>4
  <2>2. CASE q.dbmodel = ""
    <3>1. wire = q.native /\ r.native = q.native
      BY <1>2, <2>2 DEF WireModel
    <3>2. Offers(service, family, wire) # {}
      BY <1>1, <2>2, <3>1 DEF r
    <3>3. PICK o : o \in Offers(service, family, wire)
      BY <3>2
    <3> HIDE DEF service, family, wire
    <3>4. OfferedAt(o, service, family) /\ o.wire = wire
      BY <3>3, OfferedFacts
    <3> QED
      BY <3>4
  <2> QED
    BY <2>1, <2>2
<1>4. r.caps \subseteq o.exposes[family].caps /\ r.efforts = o.exposes[family].efforts
  <2> HIDE DEF service, family, wire
  <2>1. EnrichCapabilities(EndpointCapabilities(p), service, family, o.wire) \subseteq o.exposes[family].caps
    BY <1>3, EnrichFacts
  <2>2. EffortsOf(service, family, o.wire) = o.exposes[family].efforts
    BY <1>3, EnrichFacts
  <2> QED
    BY <1>2, <1>3, <2>1, <2>2
<1>5. r.native = o.wire \/ r.native = NativeModelOf(r.type, o.wire)
  <2>1. CASE q.dbmodel # ""
    BY <1>1, <1>2, <1>3, <2>1
  <2>2. CASE q.dbmodel = ""
    BY <1>2, <1>3, <2>2 DEF WireModel
  <2> QED
    BY <2>1, <2>2
<1>6. ~CapabilityMismatch(req, r)
  BY DEF r
<1>7. o \in Stands(r)
  BY <1>1, <1>3, <1>5, StandsFacts
<1>8. Suits(o, req, Family(r.type))
  BY <1>1, <1>4, <1>6, SuitsFacts
<1> QED
  BY <1>7, <1>8 DEF r

\* No candidate of any request lacks what the request needs, whatever the configuration and the
\* catalog: what capabilityMismatch compares is within what the API, the operator and the
\* catalog's offering of that very model give.
THEOREM AllCandidatesServe == Spec => []CandidatesServe
<1>1. ASSUME RInv PROVE CandidatesServe
  <2> SUFFICES ASSUME NEW i \in DOMAIN routed
               PROVE  LET r == routed[i]
                          p == CHOOSE p \in Range(cfg.providers) : p.name = r.provider /\ p.type = r.type
                      IN /\ SourceMatches(r, asked.source)
                         /\ asked.needs \subseteq EndpointCapabilities(p)
                         /\ UsesModelDB(cfg) /\ LookedUp(r) =>
                              \E o \in Stands(r) : Suits(o, asked, Family(r.type))
    BY DEF CandidatesServe, Suits
  <2>1. Answered /\ state = "serving"
    <3>1. ~Unasked
      <4>1. DOMAIN <<>> = {}
        OBVIOUS
      <4> QED
        BY <4>1 DEF Unasked
    <3> QED
      BY <1>1, <3>1 DEF RInv, Answered
  <2>2. PICK j \in DOMAIN table : /\ Serves(table[j], table, cfg, asked)
                                  /\ routed[i] = ForModel(table[j], cfg, asked.model)
    BY <1>1, <2>1, AnswerFacts DEF FromServing
  <2> DEFINE r == routed[i]
             q == cfg.routes[j]
             t == StaticRoute(cfg, q)
             p == EndpointOf(cfg, q)
  <2>3. j \in DOMAIN cfg.routes /\ table[j] = t /\ Valid(cfg)
    BY <1>1, <2>1, TableFacts DEF RInv, Built
  <2>4. \A h \in DOMAIN table : /\ table[h] = StaticRoute(cfg, cfg.routes[h])
                                /\ Resolves(cfg, cfg.routes[h])
    BY <1>1, <2>1, TableFacts DEF RInv, Built
  <2>5. r = ForModel(t, cfg, asked.model) /\ CandidateOf(r, t) /\ EntryOf(t, q, p)
    BY <2>2, <2>3, ForModelFacts, StaticFacts
  <2>6. /\ SourceMatches(t, asked.source) /\ ~Unavailable(t, cfg, asked.model)
        /\ ~CapabilityMismatch(asked, r)
    BY <2>2, <2>3 DEF Serves
  <2>7. SourceMatches(r, asked.source)
    BY <2>5, <2>6 DEF CandidateOf, SourceMatches
  <2>8. p = CHOOSE x \in Range(cfg.providers) : x.name = r.provider /\ x.type = r.type
    <3>1. p = CHOOSE x \in Range(cfg.providers) : x.name = p.name /\ x.type = p.type
      BY <2>3, EndpointAlone
    <3>2. r.provider = p.name /\ r.type = p.type
      BY <2>5 DEF CandidateOf, EntryOf
    <3> QED
      BY <3>1, <3>2
  <2>9. asked.needs \subseteq EndpointCapabilities(p)
    <3>1. r.caps \subseteq EndpointCapabilities(p)
      BY <2>5, CandidateShrinks
    <3>2. asked.needs \subseteq r.caps
      BY <2>6 DEF CapabilityMismatch
    <3> QED
      BY <3>1, <3>2
  <2>10. ASSUME UsesModelDB(cfg), LookedUp(r) PROVE \E o \in Stands(r) : Suits(o, asked, Family(r.type))
    <3>1. CASE t.dynamic
      BY <2>5, <2>6, <2>10, <3>1, DynamicSuits
    <3>2. CASE ~t.dynamic
      <4>1. PICK h \in DOMAIN table :
              /\ r = table[h]
              /\ \/ cfg.routes[h].dbmodel # ""
                 \/ Offers(ServiceOf(r.type), Family(r.type), r.native) # {}
        BY <2>5, <2>10, <3>2 DEF LookedUp, CandidateOf
      <4>2. r = StaticRoute(cfg, cfg.routes[h]) /\ Resolves(cfg, cfg.routes[h])
        BY <2>4, <4>1
      <4> QED
        BY <2>6, <4>1, <4>2, FixedSuits
    <3> QED
      BY <3>1, <3>2
  <2> QED
    BY <2>7, <2>8, <2>9, <2>10
<1> QED
  BY <1>1, Invariance, PTL

-----------------------------------------------------------------------------
\* The routes that a plain request goes to when the fixed ones know models by their public names
\* only: those that name its model or, when there is none, the dynamic ones that have it.
NamedAt(i) == SourceMatches(table[i], asked.source) /\ table[i].model = asked.model
ReachedAt(i) ==
  SourceMatches(table[i], asked.source) /\ table[i].dynamic /\ ~Unavailable(table[i], cfg, asked.model)
GoesTo(i) == NamedAt(i) \/ (ReachedAt(i) /\ \A j \in DOMAIN table : ~NamedAt(j))
PublicNames ==
  \A i \in DOMAIN table :
    /\ asked.model \in {table[i].native, cfg.routes[i].native} => table[i].model = asked.model
    /\ table[i].model = "" => table[i].dynamic

\* Those are the routes that the router hands it to, ...
LEMMA ServesWhere ==
  ASSUME RInv, Plain, PublicNames, NEW i \in DOMAIN table
  PROVE  Serves(table[i], table, cfg, asked) <=> GoesTo(i)
<1>1. state = "serving" /\ asked.model # "" /\ \A x : ~CapabilityMismatch(asked, x)
  BY PlainFacts
<1>2. HasExactRoute(table, asked) <=> \E j \in DOMAIN table : NamedAt(j)
  BY DEF HasExactRoute, NamedAt, PublicNames
<1>3. table[i].dynamic <=> table[i].model = ""
  BY <1>1, DynamicFacts DEF PublicNames
<1>4. ~table[i].dynamic => ~Unavailable(table[i], cfg, asked.model)
  BY DEF Unavailable
<1> QED
  BY <1>1, <1>2, <1>3, <1>4 DEF Serves, GoesTo, NamedAt, ReachedAt

\* A route that names the model matches it in public, a dynamic one as such, and no other does.
LEMMA MatchOf ==
  ASSUME NEW r, NEW model, r.native = model => r.model = model
  PROVE  /\ r.model = model => ModelRouteMatch(r, model) = "public"
         /\ r.model # model /\ ~r.dynamic => ModelRouteMatch(r, model) = ""
BY DEF ModelRouteMatch

\* And a dynamic one that does not name it matches it as such.
LEMMA DynamicMatch ==
  ASSUME NEW r, NEW model, r.native # model, r.model # model, r.dynamic
  PROVE  ModelRouteMatch(r, model) = "dynamic"
BY DEF ModelRouteMatch

\* What the resolution looks up for a route is what the table and the router look up.
LEMMA FoundWhere ==
  ASSUME RInv, Plain, NEW i \in DOMAIN table
  PROVE  /\ ~cfg.routes[i].dynamic =>
              /\ Catalogued(cfg, cfg.routes[i]) <=> cfg.routes[i].dbmodel # ""
              /\ FoundFor(cfg, cfg.routes[i], asked.model) = ItemOf(cfg, cfg.routes[i])
              /\ Resolvable(cfg, cfg.routes[i], asked.model)
         /\ cfg.routes[i].dynamic =>
              /\ Catalogued(cfg, cfg.routes[i]) <=> UsesModelDB(cfg)
              /\ FoundFor(cfg, cfg.routes[i], asked.model) = DynamicModel(table[i], cfg.aliases, asked.model)
              /\ Resolvable(cfg, cfg.routes[i], asked.model) <=> ~Unavailable(table[i], cfg, asked.model)
<1> DEFINE r == cfg.routes[i]
           found == FoundFor(cfg, r, asked.model)
<1>1. state = "serving" /\ asked.model # ""
  BY PlainFacts
<1>2. i \in DOMAIN cfg.routes /\ table[i] = StaticRoute(cfg, r) /\ Resolves(cfg, r)
  BY <1>1, TableFacts DEF RInv, Built
<1>3. table[i].type = EndpointOf(cfg, r).type /\ (table[i].dynamic <=> r.dynamic)
  BY <1>2, StaticFacts DEF EntryOf
<1>4. ASSUME ~r.dynamic
      PROVE  /\ Catalogued(cfg, r) <=> r.dbmodel # ""
             /\ found = ItemOf(cfg, r)
             /\ Resolvable(cfg, r, asked.model)
  <2>1. r.dbmodel # "" => UsesModelDB(cfg)
    BY <1>2 DEF UsesModelDB
  <2>2. Catalogued(cfg, r) <=> r.dbmodel # ""
    BY <1>4, <2>1 DEF Catalogued
  <2>3. found = ItemOf(cfg, r)
    BY <1>4 DEF FoundFor, ItemOf
  <2>4. r.dbmodel # "" => ItemOf(cfg, r) # {}
    BY <1>2 DEF Resolves
  <2> QED
    BY <1>2, <2>2, <2>3, <2>4 DEF Resolvable
<1>5. ASSUME r.dynamic
      PROVE  /\ Catalogued(cfg, r) <=> UsesModelDB(cfg)
             /\ found = DynamicModel(table[i], cfg.aliases, asked.model)
             /\ Resolvable(cfg, r, asked.model) <=> ~Unavailable(table[i], cfg, asked.model)
  <2>1. Catalogued(cfg, r) <=> UsesModelDB(cfg)
    BY <1>5 DEF Catalogued
  <2>2. found = DynamicModel(table[i], cfg.aliases, asked.model)
    BY <1>1, <1>3, <1>5 DEF FoundFor, DynamicModel
  <2> QED
    BY <1>2, <1>3, <1>5, <2>1, <2>2 DEF Resolvable, Unavailable
<1> QED
  BY <1>4, <1>5

\* ... and those that the resolution finds.
LEMMA LeftWhere ==
  ASSUME RInv, Plain, PublicNames
  PROVE  \A i : i \in Left(cfg, asked.model, asked.source) <=> i \in DOMAIN table /\ GoesTo(i)
<1> DEFINE M == Matching(cfg, asked.model, asked.source)
           L == Left(cfg, asked.model, asked.source)
<1>1. state = "serving" /\ asked.model # ""
  BY PlainFacts
<1>2. DOMAIN cfg.routes = DOMAIN table
  BY <1>1, TableFacts
<1>3. ASSUME NEW i \in DOMAIN table
      PROVE  /\ i \in M <=> (NamedAt(i) \/ ReachedAt(i))
             /\ i \in M => (ModelRouteMatch(cfg.routes[i], asked.model) # "dynamic" <=> NamedAt(i))
  <2> DEFINE r == cfg.routes[i]
  <2>1. EntryOf(table[i], r, EndpointOf(cfg, r))
    BY <1>1, TableFacts, StaticFacts
  <2>2. /\ table[i].model = r.model /\ (table[i].dynamic <=> r.dynamic)
        /\ SourceMatches(table[i], asked.source) <=> SourceMatches(r, asked.source)
    BY <2>1 DEF EntryOf, SourceMatches
  <2>3. r.dynamic => r.model # asked.model
    BY <1>1, <2>2, DynamicFacts
  <2>4. r.native = asked.model => r.model = asked.model
    BY <2>2 DEF PublicNames
  <2>5. i \in M <=> /\ SourceMatches(r, asked.source) /\ ModelRouteMatch(r, asked.model) # ""
                    /\ Resolvable(cfg, r, asked.model)
    BY <1>2 DEF Matching
  <2>6. CASE r.model = asked.model
    <3>1. ModelRouteMatch(r, asked.model) = "public"
      BY <2>4, <2>6, MatchOf
    <3>2. Resolvable(cfg, r, asked.model)
      BY <2>3, <2>6, FoundWhere
    <3>3. ~ReachedAt(i)
      BY <2>2, <2>3, <2>6 DEF ReachedAt
    <3>4. NamedAt(i) <=> SourceMatches(r, asked.source)
      BY <2>2, <2>6 DEF NamedAt
    <3> QED
      BY <2>5, <3>1, <3>2, <3>3, <3>4
  <2>7. CASE r.model # asked.model /\ r.dynamic
    <3>1. ModelRouteMatch(r, asked.model) = "dynamic"
      BY <2>4, <2>7, DynamicMatch
    <3>2. Resolvable(cfg, r, asked.model) <=> ~Unavailable(table[i], cfg, asked.model)
      BY <2>7, FoundWhere
    <3>3. ReachedAt(i) <=> SourceMatches(r, asked.source) /\ Resolvable(cfg, r, asked.model)
      BY <2>2, <2>7, <3>2 DEF ReachedAt
    <3>4. ~NamedAt(i)
      BY <2>2, <2>7 DEF NamedAt
    <3> QED
      BY <2>5, <3>1, <3>3, <3>4
  <2>8. CASE r.model # asked.model /\ ~r.dynamic
    <3>1. ModelRouteMatch(r, asked.model) = ""
      BY <2>4, <2>8, MatchOf
    <3>2. ~NamedAt(i) /\ ~ReachedAt(i)
      BY <2>2, <2>8 DEF NamedAt, ReachedAt
    <3> QED
      BY <2>5, <3>1, <3>2
  <2> QED
    BY <2>6, <2>7, <2>8
<1>4. M \subseteq DOMAIN table
  BY <1>2 DEF Matching
<1> HIDE DEF M
<1>5. LET exact == {i \in M : ModelRouteMatch(cfg.routes[i], asked.model) # "dynamic"}
      IN L = IF exact = {} THEN M ELSE exact
  BY DEF Left, SuppressDynamicFallbacks, M
<1> QED
  BY <1>3, <1>4, <1>5 DEF GoesTo

\* A candidate and a resolution that say the same, and what a resolution takes from its route.
SameAs(x, y) ==
  /\ x.provider = y.provider /\ x.type = y.type
  /\ x.native = IF y.native = "" THEN asked.model ELSE y.native

\* The fields of a resolution.
LEMMA ResolvedCandidateFacts ==
  ASSUME NEW c, NEW r, NEW model
  PROVE  LET y == ResolvedCandidate(c, r, model)
             p == EndpointOf(c, r)
         IN /\ y.provider = p.name /\ y.type = p.type
            /\ y.native = IF Catalogued(c, r) THEN NativeModelOf(p.type, Only(FoundFor(c, r, model)).wire)
                          ELSE IF r.dynamic THEN model ELSE r.native
BY DEF ResolvedCandidate

\* An offering has a name to call it by, wherever it runs.
LEMMA NativeModelNamed ==
  ASSUME NEW o \in Offerings, NEW type
  PROVE  NativeModelOf(type, o.wire) # ""
BY CatalogAssumption DEF NativeModelOf

\* Of a route that the request goes to, the router and the resolution make the same.
LEMMA SameCandidate ==
  ASSUME RInv, Plain, PublicNames, NEW i \in DOMAIN table, GoesTo(i)
  PROVE  SameAs(ForModel(table[i], cfg, asked.model), ResolvedCandidate(cfg, cfg.routes[i], asked.model))
<1> DEFINE r == cfg.routes[i]
           t == StaticRoute(cfg, r)
           p == EndpointOf(cfg, r)
           x == ForModel(t, cfg, asked.model)
           y == ResolvedCandidate(cfg, r, asked.model)
           found == FoundFor(cfg, r, asked.model)
<1>1. state = "serving" /\ asked.model # ""
  BY PlainFacts
<1>2. table[i] = t
  BY <1>1, TableFacts
<1>3. CandidateOf(x, t) /\ EntryOf(t, r, p)
  BY ForModelFacts, StaticFacts
<1>4. /\ y.provider = p.name /\ y.type = p.type
      /\ y.native = IF Catalogued(cfg, r) THEN NativeModelOf(p.type, Only(found).wire)
                    ELSE IF r.dynamic THEN asked.model ELSE r.native
  BY ResolvedCandidateFacts
<1>5. /\ t.native = IF r.dbmodel # "" THEN NativeModelOf(p.type, WireModel(cfg, r)) ELSE r.native
  BY StaticCatalog
<1>6. x.provider = y.provider /\ x.type = y.type
  BY <1>3, <1>4 DEF CandidateOf, EntryOf
<1>7. (t.dynamic <=> r.dynamic) /\ t.type = p.type
  BY <1>3 DEF EntryOf
<1>8. x.native = IF y.native = "" THEN asked.model ELSE y.native
  <2>1. CASE ~r.dynamic
    <3>0. ~(t.dynamic /\ UsesModelDB(cfg))
      BY <1>7, <2>1
    <3>1. x.native = OrElse(t.native, asked.model)
      BY <3>0, CandidateFixed
    <3>2. (Catalogued(cfg, r) <=> r.dbmodel # "") /\ found = ItemOf(cfg, r)
      BY <2>1, FoundWhere
    <3>3. y.native = t.native
      BY <1>4, <1>5, <2>1, <3>2 DEF WireModel
    <3> QED
      BY <3>1, <3>3 DEF OrElse
  <2>2. CASE r.dynamic /\ UsesModelDB(cfg)
    <3>1. Catalogued(cfg, r) /\ found = DynamicModel(t, cfg.aliases, asked.model)
      BY <1>2, <2>2, FoundWhere
    <3>2. x.native = NativeModelOf(t.type, Only(DynamicModel(t, cfg.aliases, asked.model)).wire)
      BY <1>7, <2>2, CandidateDynamic
    <3>3. y.native = NativeModelOf(t.type, Only(found).wire)
      BY <1>4, <1>7, <3>1
    <3>4. found # {}
      <4>1. ReachedAt(i)
        BY <1>1, <1>2, <1>7, <2>2, DynamicFacts DEF GoesTo, NamedAt
      <4> QED
        BY <1>2, <1>7, <2>2, <3>1, <4>1 DEF ReachedAt, Unavailable
    <3>5. Only(found) \in Offerings
      <4>1. Only(found) \in ResolveModelDBItem(cfg.aliases, ServiceOf(t.type), Family(t.type), asked.model)
        BY <1>1, <3>1, <3>4, OnlyFacts DEF DynamicModel
      <4> HIDE DEF t, found
      <4>2. \A o, service, family, name :
              o \in ResolveModelDBItem(cfg.aliases, service, family, name) => OfferedAt(o, service, family)
        BY ResolvedFacts
      <4> QED
        BY <4>1, <4>2 DEF OfferedAt
    <3>6. y.native # ""
      BY <3>3, <3>5, NativeModelNamed
    <3> QED
      BY <3>1, <3>2, <3>3, <3>6
  <2>3. CASE r.dynamic /\ ~UsesModelDB(cfg)
    <3>1. t.native = ""
      BY <1>1, <1>2, <1>5, <1>7, <2>3, DynamicFacts
    <3>2. x.native = asked.model
      <4>1. x.native = OrElse(t.native, asked.model)
        BY <2>3, CandidateFixed
      <4> QED
        BY <3>1, <4>1 DEF OrElse
    <3>3. y.native = asked.model
      BY <1>4, <2>3, FoundWhere
    <3> QED
      BY <3>2, <3>3
  <2> QED
    BY <2>1, <2>2, <2>3
<1> QED
  BY <1>2, <1>6, <1>8 DEF SameAs

\* resolveRouteModelForCandidate and suppressDynamicFallbacks send a model where hasExactRoute,
\* dynamicModelResolver and the table do, whatever the routes.
THEOREM InspectionsAgree == Spec => []InspectionAgrees
<1>1. ASSUME RInv PROVE InspectionAgrees
  <2> SUFFICES ASSUME Plain, PublicNames
               PROVE  {<<routed[i].provider, routed[i].type, routed[i].native>> : i \in DOMAIN routed}
                      = {<<inspected[i].provider, inspected[i].type,
                           IF inspected[i].native = "" THEN asked.model ELSE inspected[i].native>> :
                         i \in DOMAIN inspected}
    BY DEF InspectionAgrees, PublicNames
  <2> DEFINE At(i) == ForModel(table[i], cfg, asked.model)
             Said(i) == ResolvedCandidate(cfg, cfg.routes[i], asked.model)
             Goes == {i \in DOMAIN table : GoesTo(i)}
             Shown(x) == <<x.provider, x.type, x.native>>
             Told(y) == <<y.provider, y.type, IF y.native = "" THEN asked.model ELSE y.native>>
  <2>1. Answered /\ state = "serving"
    BY <1>1, PlainFacts
  <2>2. /\ \A k \in DOMAIN routed : \E i \in Goes : routed[k] = At(i)
        /\ \A i \in Goes : \E k \in DOMAIN routed : routed[k] = At(i)
    BY <1>1, <2>1, AnswerFacts, ServesWhere DEF FromServing, OfAllServing
  <2>3. /\ \A k \in DOMAIN inspected : \E i \in Goes : inspected[k] = Said(i)
        /\ \A i \in Goes : \E k \in DOMAIN inspected : inspected[k] = Said(i)
    <3>1. PICK n \in Nat : /\ DOMAIN cfg.routes = 1..n
                           /\ \A i \in 1..n : /\ cfg.routes[i].weight \in Int
                                              /\ EndpointOf(cfg, cfg.routes[i]).priority \in Int
      BY <1>1, <2>1, TableFacts
    <3>2. /\ \A k \in DOMAIN inspected : \E i \in Left(cfg, asked.model, asked.source) : inspected[k] = Said(i)
          /\ \A i \in Left(cfg, asked.model, asked.source) : \E k \in DOMAIN inspected : inspected[k] = Said(i)
      BY <2>1, <3>1, ResolutionFacts DEF Answered
    <3>3. \A i : i \in Left(cfg, asked.model, asked.source) <=> i \in Goes
      BY <1>1, LeftWhere
    <3> QED
      BY <3>2, <3>3
  <2>4. \A i \in Goes : Shown(At(i)) = Told(Said(i))
    BY <1>1, SameCandidate DEF SameAs
  <2> HIDE DEF At, Said, Goes, Shown, Told
  <2>5. {Shown(routed[k]) : k \in DOMAIN routed} = {Shown(At(i)) : i \in Goes}
    BY <2>2
  <2>6. {Told(inspected[k]) : k \in DOMAIN inspected} = {Told(Said(i)) : i \in Goes}
    BY <2>3
  <2>7. {Shown(At(i)) : i \in Goes} = {Told(Said(i)) : i \in Goes}
    BY <2>4
  <2> QED
    BY <2>5, <2>6, <2>7 DEF Shown, Told
<1> QED
  BY <1>1, Invariance, PTL

-----------------------------------------------------------------------------
\* The providers that have a model of a name, by their places in the API's preference and in the
\* configuration, and the first of the best of them.
HasModel(aliases, p, name) == ResolveModelDBItem(aliases, ServiceOf(p.type), Family(p.type), name) # {}
HavingAt(providers, aliases, source, name) ==
  {at \in PreferredProviders(providers, source) : HasModel(aliases, providers[at[2]], name)}
RankOf(aliases, p, name) ==
  CandidateRank(RequestedService(name), ServiceOf(p.type),
                Only(ResolveModelDBItem(aliases, ServiceOf(p.type), Family(p.type), name)).creator, p.type)
\* A place before another by its rank and then by the places.
Ahead(rank, a, b) == rank[a] < rank[b] \/ (rank[a] = rank[b] /\ Precedes(a, b))
BestOf(S, rank) == CHOOSE a \in S : \A b \in S \ {a} : Ahead(rank, a, b)

\* There is a first among the places of the least rank.
LEMMA BestExists ==
  ASSUME NEW S \in SUBSET (Nat \X Nat), S # {}, NEW rank \in [S -> Nat]
  PROVE  BestOf(S, rank) \in S /\ \A b \in S \ {BestOf(S, rank)} : Ahead(rank, BestOf(S, rank), b)
<1> DEFINE R == {rank[a] : a \in S}
<1>1. R \in SUBSET Nat /\ R # {}
  OBVIOUS
<1>2. PICK m \in R : \A n \in R : m <= n
  BY <1>1, LeastNumber
<1> DEFINE M == {a \in S : rank[a] = m}
           F == {a[1] : a \in M}
<1>3. F \in SUBSET Nat /\ F # {}
  BY <1>2
<1>4. PICK f \in F : \A g \in F : f <= g
  BY <1>3, LeastNumber
<1> DEFINE N == {a \in M : a[1] = f}
           G == {a[2] : a \in N}
<1>5. G \in SUBSET Nat /\ G # {}
  BY <1>4
<1>6. PICK g \in G : \A h \in G : g <= h
  BY <1>5, LeastNumber
<1>7. PICK a \in S : rank[a] = m /\ a[1] = f /\ a[2] = g
  BY <1>6
<1>8. ASSUME NEW b \in S \ {a} PROVE Ahead(rank, a, b)
  <2>1. rank[b] \in Nat /\ rank[b] \in R /\ m \in Nat
    BY <1>1
  <2>2. b \in Nat \X Nat /\ a \in Nat \X Nat /\ a # b
    OBVIOUS
  <2>3. m <= rank[b]
    BY <1>2, <2>1
  <2>4. CASE rank[b] = m /\ b[1] = f
    <3>1. b[2] \in G
      BY <2>4
    <3>2. g <= b[2] /\ b[2] # g
      BY <1>6, <1>7, <2>2, <2>4, <3>1
    <3> QED
      BY <1>7, <2>2, <2>4, <3>2 DEF Ahead, Precedes
  <2>5. CASE rank[b] = m /\ b[1] # f
    <3>1. b[1] \in F
      BY <2>5
    <3>2. f <= b[1]
      BY <1>4, <3>1
    <3> QED
      BY <1>7, <2>2, <2>5, <3>2 DEF Ahead, Precedes
  <2>6. CASE rank[b] # m
    BY <1>7, <2>1, <2>3, <2>6 DEF Ahead
  <2> QED
    BY <2>4, <2>5, <2>6
<1> QED
  BY <1>7, <1>8 DEF BestOf

ServiceRank(requested, none, service, creator) ==
  CASE requested # none /\ service = requested -> 0
    [] requested # none /\ service # requested -> 10100
    [] requested = none /\ service = creator -> 100
    [] OTHER -> 200

\* What the service adds to a provider's rank.
LEMMA ServiceRankFacts ==
  ASSUME NEW requested, NEW none, NEW service, NEW creator
  PROVE  /\ ServiceRank(requested, none, service, creator) \in 0..10100
         /\ requested # none /\ service = requested => ServiceRank(requested, none, service, creator) <= 0
         /\ requested # none /\ service # requested => ServiceRank(requested, none, service, creator) >= 10100
BY DEF ServiceRank

\* The rank of a provider of the service that the name asks for is below that of any other.
Low(n) == n <= 50
High(n) == n >= 10100

\* A candidate's rank is its type's and what the service adds.
LEMMA RankParts ==
  ASSUME NEW requested, NEW service, NEW creator, NEW type
  PROVE  CandidateRank(requested, service, creator, type)
           = ProviderPreference(type) + ServiceRank(requested, "", service, creator)
BY DEF CandidateRank, ServiceRank

\* A provider of the service that was asked for ranks at 50 or less, any other at 10100 or more.
LEMMA RankFacts ==
  ASSUME NEW requested, NEW service, NEW creator, NEW type
  PROVE  /\ CandidateRank(requested, service, creator, type) \in Nat
         /\ requested # "" /\ service = requested => Low(CandidateRank(requested, service, creator, type))
         /\ requested # "" /\ service # requested => High(CandidateRank(requested, service, creator, type))
<1> DEFINE p == ProviderPreference(type)
           W(none) == ServiceRank(requested, none, service, creator)
<1>0. \A none : /\ W(none) \in 0..10100
                /\ requested # none /\ service = requested => W(none) <= 0
                /\ requested # none /\ service # requested => W(none) >= 10100
  BY ServiceRankFacts
<1>1. p \in 0..50
  BY DEF ProviderPreference
<1> HIDE DEF p
<1>2. \A none : /\ p + W(none) \in Nat
                /\ requested # none /\ service = requested => Low(p + W(none))
                /\ requested # none /\ service # requested => High(p + W(none))
  <2> TAKE none
  <2> DEFINE w == W(none)
  <2>1. /\ w \in 0..10100
        /\ requested # none /\ service = requested => w <= 0
        /\ requested # none /\ service # requested => w >= 10100
    BY ONLY <1>0
  <2> HIDE DEF w
  <2>2. /\ p + w \in Nat
        /\ requested # none /\ service = requested => Low(p + w)
        /\ requested # none /\ service # requested => High(p + w)
    BY <1>1, <2>1 DEF Low, High
  <2> QED
    BY <2>2 DEF w
<1>3. CandidateRank(requested, service, creator, type) = p + W("")
  BY RankParts DEF p
<1> HIDE DEF W
<1> QED
  BY <1>2, <1>3, Zenon

\* modelDBRouteForIntent routes to the best of the providers that have the model.
LEMMA ModelDBRouteBest ==
  ASSUME NEW providers, NEW aliases, NEW source, NEW name
  PROVE  LET S == HavingAt(providers, aliases, source, name)
             rank == [a \in S |-> RankOf(aliases, providers[a[2]], name)]
             p == providers[BestOf(S, rank)[2]]
         IN ModelDBRouteForIntent(providers, aliases, source, name) =
              IF S = {} THEN {}
              ELSE {Route(source, name, p.name, ApiKind(p.type), name, "", FALSE, 100)}
<1> DEFINE S == HavingAt(providers, aliases, source, name)
           rank == [a \in S |-> RankOf(aliases, providers[a[2]], name)]
           Before(a, b) == LET m == RankOf(aliases, providers[a[2]], name)
                               n == RankOf(aliases, providers[b[2]], name)
                           IN m < n \/ (m = n /\ Precedes(a, b))
           best == CHOOSE a \in S : \A b \in S \ {a} : Before(a, b)
           p == providers[best[2]]
<1>1. ModelDBRouteForIntent(providers, aliases, source, name) =
        IF S = {} THEN {} ELSE {Route(source, name, p.name, ApiKind(p.type), name, "", FALSE, 100)}
  BY Zenon DEF ModelDBRouteForIntent, HavingAt, HasModel, RankOf
<1>2. \A a \in S : (\A b \in S \ {a} : Before(a, b)) <=> (\A b \in S \ {a} : Ahead(rank, a, b))
  BY DEF Ahead
<1>3. best = BestOf(S, rank)
  <2> HIDE DEF S, rank, Before
  <2> QED
    BY <1>2 DEF BestOf
<1> QED
  BY <1>1, <1>3, Zenon

\* The types that an API prefers; none of them has an unnamed service.
Services == {"anthropic", "openai", "codex", "bedrock", "openrouter", "minimax"}
KnownTypes ==
  {"anthropic", "claude", "openai_chat", "openai_responses", "codex_responses", "bedrock_responses",
   "bedrock_messages", "bedrock_converse", "openrouter_chat", "openrouter_responses", "openrouter_messages",
   "minimax_chat", "minimax_messages"}

\* A known type has a service with a name, ...
LEMMA ServiceNamed ==
  ASSUME NEW type \in KnownTypes
  PROVE  ServiceOf(type) # ""
<1>1. ServiceOf(type) \in Services
  BY DEF KnownTypes, ServiceOf, Services
<1>2. "" \notin Services
  BY Zenon DEF Services
<1> QED
  BY <1>1, <1>2

\* ... and the types that an API prefers are known.
LEMMA PreferredTypesFacts ==
  ASSUME NEW source
  PROVE  /\ \E m \in Nat : DOMAIN PreferredProviderTypes(source) = 1..m
         /\ Range(PreferredProviderTypes(source)) \subseteq KnownTypes
<1> DEFINE types == PreferredProviderTypes(source)
<1>1. CASE source = "responses"
  <2>1. types = <<"openai_responses", "openrouter_responses", "codex_responses", "bedrock_responses",
                  "anthropic", "claude", "bedrock_messages", "bedrock_converse",
                  "openrouter_messages", "minimax_messages">>
    BY <1>1 DEF PreferredProviderTypes
  <2> HIDE DEF types
  <2>2. DOMAIN types = 1..10 /\ 10 \in Nat
    BY <2>1
  <2>3. \A k \in 1..10 : types[k] \in KnownTypes
    BY <2>1 DEF KnownTypes
  <2> QED
    BY <2>2, <2>3 DEF Range, types
<1>2. CASE source = "chat"
  <2>1. types = <<"openai_chat", "openrouter_chat", "minimax_chat", "anthropic", "claude", "bedrock_converse">>
    BY <1>2 DEF PreferredProviderTypes
  <2> HIDE DEF types
  <2>2. DOMAIN types = 1..6 /\ 6 \in Nat
    BY <2>1
  <2>3. \A k \in 1..6 : types[k] \in KnownTypes
    BY <2>1 DEF KnownTypes
  <2> QED
    BY <2>2, <2>3 DEF Range, types
<1>3. CASE source = "messages"
  <2>1. types = <<"anthropic", "claude", "bedrock_messages", "bedrock_converse",
                  "openrouter_messages", "minimax_messages">>
    BY <1>3 DEF PreferredProviderTypes
  <2> HIDE DEF types
  <2>2. DOMAIN types = 1..6 /\ 6 \in Nat
    BY <2>1
  <2>3. \A k \in 1..6 : types[k] \in KnownTypes
    BY <2>1 DEF KnownTypes
  <2> QED
    BY <2>2, <2>3 DEF Range, types
<1>4. CASE source \notin {"responses", "chat", "messages"}
  <2>1. types = <<>>
    BY <1>4 DEF PreferredProviderTypes
  <2> HIDE DEF types
  <2>2. DOMAIN types = 1..0 /\ 0 \in Nat
    BY <2>1
  <2>3. 1..0 = {}
    OBVIOUS
  <2> QED
    BY <2>2, <2>3 DEF Range, types
<1> QED
  BY <1>1, <1>2, <1>3, <1>4

\* No API is meant by an empty source.
LEMMA NoPreference == Range(PreferredProviderTypes("")) = {}
<1>1. PreferredProviderTypes("") = <<>>
  BY Zenon DEF PreferredProviderTypes
<1>2. Range(<<>>) = {}
  BY DEF Range
<1> QED
  BY <1>1, <1>2

\* The route is to a provider that has the model, of the service that the name asks for when
\* such a one has it.
AsRequested(providers, S, at, name) ==
  RequestedService(name) # "" =>
    \A b \in S : ServiceOf(providers[b[2]].type) = RequestedService(name) =>
                   ServiceOf(providers[at[2]].type) = RequestedService(name)

\* The route that is made for a name is to such a provider.
LEMMA BestFacts ==
  ASSUME NEW providers, NEW n \in Nat, DOMAIN providers = 1..n, NEW aliases, NEW source, NEW name,
         NEW r \in ModelDBRouteForIntent(providers, aliases, source, name)
  PROVE  \E at \in HavingAt(providers, aliases, source, name) :
           /\ r.provider = providers[at[2]].name /\ r.api = ApiKind(providers[at[2]].type)
           /\ AsRequested(providers, HavingAt(providers, aliases, source, name), at, name)
<1> DEFINE S == HavingAt(providers, aliases, source, name)
           rank == [a \in S |-> RankOf(aliases, providers[a[2]], name)]
           at == BestOf(S, rank)
           p == providers[at[2]]
           requested == RequestedService(name)
<1>1. S # {} /\ r = Route(source, name, p.name, ApiKind(p.type), name, "", FALSE, 100)
  <2>1. ModelDBRouteForIntent(providers, aliases, source, name) =
          IF S = {} THEN {} ELSE {Route(source, name, p.name, ApiKind(p.type), name, "", FALSE, 100)}
    BY ModelDBRouteBest
  <2> HIDE DEF S, p
  <2> QED
    BY <2>1, Zenon
<1>2. r.provider = p.name /\ r.api = ApiKind(p.type)
  <2> HIDE DEF p
  <2> QED
    BY <1>1 DEF Route
<1>3. S \in SUBSET (Nat \X Nat)
  <2>1. PICK m \in Nat : DOMAIN PreferredProviderTypes(source) = 1..m
    BY PreferredTypesFacts
  <2> QED
    BY <2>1 DEF HavingAt, PreferredProviders
<1>4. rank \in [S -> Nat]
  <2>1. \A a \in S : RankOf(aliases, providers[a[2]], name) \in Nat
    BY RankFacts DEF RankOf
  <2> HIDE DEF S
  <2> QED
    BY <2>1
<1>5. at \in S /\ \A b \in S \ {at} : Ahead(rank, at, b)
  <2> HIDE DEF S, rank
  <2> QED
    BY <1>1, <1>3, <1>4, BestExists
<1>6. \A a \in S : /\ requested # "" /\ ServiceOf(providers[a[2]].type) = requested => Low(rank[a])
                   /\ requested # "" /\ ServiceOf(providers[a[2]].type) # requested => High(rank[a])
  BY RankFacts DEF RankOf
<1>7. ASSUME requested # "", NEW b \in S, ServiceOf(providers[b[2]].type) = requested
      PROVE  ServiceOf(p.type) = requested
  <2>1. CASE b = at
    BY <1>7, <2>1
  <2>2. CASE b # at /\ ServiceOf(p.type) # requested
    <3>1. Low(rank[b]) /\ High(rank[at])
      <4> HIDE DEF S, rank, requested, at
      <4> QED
        BY <1>5, <1>6, <1>7, <2>2
    <3>2. Ahead(rank, at, b)
      BY <1>5, <2>2
    <3>3. rank[b] \in Nat /\ rank[at] \in Nat
      <4> HIDE DEF S, rank, at
      <4> QED
        BY <1>4, <1>5
    <3> HIDE DEF rank, at
    <3> QED
      BY <3>1, <3>2, <3>3 DEF Low, High, Ahead
  <2> QED
    BY <2>1, <2>2
<1>8. AsRequested(providers, S, at, name)
  BY <1>7 DEF AsRequested
<1> HIDE DEF S, at, requested
<1> QED
  BY <1>2, <1>5, <1>8 DEF S

\* A name is routed when a provider has its model.
LEMMA RoutedWhenHad ==
  ASSUME NEW providers, NEW aliases, NEW source, NEW name, HavingAt(providers, aliases, source, name) # {}
  PROVE  ModelDBRouteForIntent(providers, aliases, source, name) # {}
<1> DEFINE S == HavingAt(providers, aliases, source, name)
<1>1. \E r : ModelDBRouteForIntent(providers, aliases, source, name) = IF S = {} THEN {} ELSE {r}
  BY ModelDBRouteBest
<1> QED
  BY <1>1

\* A member of a sequence is a member of what it is a sequence of.
LEMMA SeqMember ==
  ASSUME NEW X, NEW s \in Seq(X), NEW k \in DOMAIN s
  PROVE  s[k] \in X
OBVIOUS

\* The configuration that the detection made.
LEMMA DetectedFacts ==
  ASSUME RInv, opts.catalog
  PROVE  /\ opts \in AutoOptions /\ cfg.aliases = opts.aliases
         /\ AutoRoutes(cfg.providers, opts) \in Seq(AllRoutes(cfg.providers, opts))
         /\ cfg.routes = [i \in DOMAIN AutoRoutes(cfg.providers, opts) |->
                           Defaulted(Made(cfg.providers, opts), AutoRoutes(cfg.providers, opts)[i])]
<1> DEFINE c == Made(cfg.providers, opts)
<1>1. opts \in AutoOptions /\ cfg = ApplyDefaults(c)
  BY DEF RInv, Detected
<1>2. IsConfig(c) /\ c.aliases = opts.aliases /\ c.routes = AutoRoutes(cfg.providers, opts)
  BY MadeFacts
<1>3. AutoRoutes(cfg.providers, opts) \in Seq(AllRoutes(cfg.providers, opts))
  BY <1>1, AutoRoutesFacts
<1> HIDE DEF c
<1>4. /\ ApplyDefaults(c).aliases = c.aliases
      /\ ApplyDefaults(c).routes = [i \in DOMAIN c.routes |-> Defaulted(c, c.routes[i])]
  BY <1>2, ApplyDefaultsFacts
<1>5. cfg.aliases = c.aliases /\ cfg.routes = [i \in DOMAIN c.routes |-> Defaulted(c, c.routes[i])]
  BY <1>1, <1>4
<1> QED
  BY <1>1, <1>2, <1>3, <1>5 DEF c

\* The providers that have a model of the request's name are those that the detection finds.
LEMMA HavingFacts ==
  ASSUME RInv, opts.catalog
  PROVE  \A p : p \in Having <=>
           \E at \in HavingAt(cfg.providers, opts.aliases, asked.source, asked.model) : p = cfg.providers[at[2]]
<1> DEFINE types == PreferredProviderTypes(asked.source)
           S == HavingAt(cfg.providers, opts.aliases, asked.source, asked.model)
<1>1. PICK n \in Nat : DOMAIN opts.aliases = 1..n
  BY DetectedFacts DEF AutoOptions
<1>2. \A p : HasModel(opts.aliases, p, asked.model) <=>
               \E o : /\ OfferedAt(o, ServiceOf(p.type), Family(p.type))
                      /\ Called(o, opts.aliases, NamesFor(asked.model, ServiceOf(p.type)))
  BY <1>1, ResolvedExists DEF HasModel
<1>3. \A p : p \in Having <=> /\ p \in Range(cfg.providers) /\ p.type \in Range(types)
                              /\ \E o : /\ OfferedAt(o, ServiceOf(p.type), Family(p.type))
                                        /\ Called(o, opts.aliases, NamesFor(asked.model, ServiceOf(p.type)))
  <2> TAKE p
  <2>1. \A o : OfferedAt(o, ServiceOf(p.type), Family(p.type)) =>
                 NamesAt(o.service) = NamesFor(asked.model, ServiceOf(p.type))
    BY DEF OfferedAt, NamesAt, NamesFor
  <2> QED
    BY <2>1 DEF Having, OfferedAt, Called
<1>4. \A p : p \in Range(cfg.providers) /\ p.type \in Range(types) /\ HasModel(opts.aliases, p, asked.model)
             <=> \E at \in S : p = cfg.providers[at[2]]
  <2> TAKE p
  <2> HIDE DEF types
  <2>1. ASSUME NEW at \in S, p = cfg.providers[at[2]]
        PROVE  p \in Range(cfg.providers) /\ p.type \in Range(types) /\ HasModel(opts.aliases, p, asked.model)
    <3>1. /\ at \in (DOMAIN types) \X (DOMAIN cfg.providers) /\ p.type = types[at[1]]
          /\ HasModel(opts.aliases, p, asked.model)
      BY <2>1 DEF HavingAt, PreferredProviders, types
    <3> QED
      BY <2>1, <3>1 DEF Range
  <2>2. ASSUME p \in Range(cfg.providers), p.type \in Range(types), HasModel(opts.aliases, p, asked.model)
        PROVE  \E at \in S : p = cfg.providers[at[2]]
    <3>1. PICK i \in DOMAIN cfg.providers : p = cfg.providers[i]
      BY <2>2 DEF Range
    <3>2. PICK k \in DOMAIN types : p.type = types[k]
      BY <2>2 DEF Range
    <3> DEFINE at == <<k, i>>
    <3>3. at[1] = k /\ at[2] = i /\ at \in (DOMAIN types) \X (DOMAIN cfg.providers)
      OBVIOUS
    <3> HIDE DEF at
    <3>4. at \in S
      BY <2>2, <3>1, <3>2, <3>3 DEF HavingAt, PreferredProviders, types
    <3> QED
      BY <3>1, <3>3, <3>4
  <2> QED
    BY <2>1, <2>2
<1> QED
  BY <1>2, <1>3, <1>4

\* What the detection routes by name is in the configuration, ...
LEMMA RoutedByName ==
  ASSUME RInv, opts.catalog, asked.model # "", NEW i \in DOMAIN opts.sources, opts.sources[i] = asked.source,
         \/ \E j \in DOMAIN opts.intents : opts.intents[j] = asked.model
         \/ \E j \in DOMAIN opts.aliases : opts.aliases[j].name = asked.model,
         ModelDBRouteForIntent(cfg.providers, opts.aliases, asked.source, asked.model) # {}
  PROVE  \E k \in DOMAIN cfg.routes : cfg.routes[k].source = asked.source /\ cfg.routes[k].model = asked.model
<1> DEFINE A == AutoRoutes(cfg.providers, opts)
           c == Made(cfg.providers, opts)
<1>1. /\ opts \in AutoOptions /\ A \in Seq(AllRoutes(cfg.providers, opts))
      /\ cfg.routes = [k \in DOMAIN A |-> Defaulted(c, A[k])]
  BY DetectedFacts
<1>2. HasRouteModel(A, asked.source, asked.model)
  <2>1. CASE \E j \in DOMAIN opts.intents : opts.intents[j] = asked.model
    <3>1. PICK j \in DOMAIN opts.intents : opts.intents[j] = asked.model
      BY <2>1
    <3>2. HasRouteModel(A, opts.sources[i], opts.intents[j])
      BY <1>1, <3>1, AutoRoutesFacts
    <3> QED
      BY <3>1, <3>2
  <2>2. CASE \E j \in DOMAIN opts.aliases : opts.aliases[j].name = asked.model
    <3>1. PICK j \in DOMAIN opts.aliases : opts.aliases[j].name = asked.model
      BY <2>2
    <3>2. HasRouteModel(A, opts.sources[i], opts.aliases[j].name)
      BY <1>1, <3>1, AutoRoutesFacts
    <3> QED
      BY <3>1, <3>2
  <2> QED
    BY <2>1, <2>2
<1>3. PICK k \in DOMAIN A : A[k].source = asked.source /\ A[k].model = asked.model
  BY <1>2 DEF HasRouteModel
<1>4. A[k] \in AllRoutes(cfg.providers, opts)
  <2> HIDE DEF A
  <2> QED
    BY <1>1, <1>3, SeqMember
<1> HIDE DEF A, c
<1>5. AlikeButNative(Defaulted(c, A[k]), A[k])
  BY <1>4, AllRoutesAreRoutes, DefaultedFacts
<1> QED
  BY <1>1, <1>3, <1>5 DEF AlikeButNative

\* ... and it is what modelDBRouteForIntent says, when it is not the default model of the API.
LEMMA NamedRoute ==
  ASSUME RInv, opts.catalog, state = "serving", asked.model # "", NEW k \in DOMAIN cfg.routes,
         cfg.routes[k].source = asked.source, cfg.routes[k].model = asked.model,
         opts.intents # <<>> \/ cfg.routes[k].dbmodel # ""
  PROVE  /\ cfg.routes[k] \in ModelDBRouteForIntent(cfg.providers, opts.aliases, asked.source, asked.model)
         /\ ~cfg.routes[k].dynamic /\ cfg.routes[k].dbmodel # ""
<1> DEFINE A == AutoRoutes(cfg.providers, opts)
           c == Made(cfg.providers, opts)
           r == A[k]
           d == cfg.routes[k]
<1>1. /\ A \in Seq(AllRoutes(cfg.providers, opts))
      /\ cfg.routes = [h \in DOMAIN A |-> Defaulted(c, A[h])]
  BY DetectedFacts
<1>2. r \in AllRoutes(cfg.providers, opts) /\ d = Defaulted(c, r)
  <2> HIDE DEF A, c
  <2>1. k \in DOMAIN A /\ d = Defaulted(c, r)
    BY <1>1
  <2> QED
    BY <1>1, <2>1, SeqMember
<1>3. d.dynamic => d.model = ""
  BY DEF RInv, Built, Valid
<1> HIDE DEF c, r, d
<1>4. AlikeButNative(d, r) /\ (r.dbmodel # "" => d = r)
  BY <1>2, AllRoutesAreRoutes, DefaultedFacts
<1>5. ~d.dynamic
  BY <1>3 DEF d
<1>6. ByName(cfg.providers, opts, r)
  <2>1. ~ByRequest(r)
    BY <1>4, <1>5 DEF AlikeButNative, ByRequest
  <2>2. ~ByDefault(opts, r)
    BY <1>4 DEF AlikeButNative, ByDefault, d
  <2> QED
    BY <1>2, <2>1, <2>2, RouteFacts
<1>7. r \in ModelDBRouteForIntent(cfg.providers, opts.aliases, asked.source, asked.model)
  BY <1>4, <1>6 DEF ByName, AlikeButNative, d
<1>8. r.dbmodel = asked.model
  <2>1. NameRoute(r, asked.source, asked.model)
    BY <1>7, ModelDBRouteShape
  <2>2. PICK provider, api : r = Route(asked.source, asked.model, provider, api, asked.model, "", FALSE, 100)
    BY <2>1 DEF NameRoute
  <2> QED
    BY <2>2 DEF Route
<1>9. d = r
  BY <1>4, <1>8
<1> QED
  BY <1>5, <1>7, <1>8, <1>9 DEF d

\* A candidate of a route by name stands for the model, as its route does.
LEMMA CandidateStands ==
  ASSUME NEW c, NEW q, NEW model, ~StaticRoute(c, q).dynamic, Stands(StaticRoute(c, q)) # {}
  PROVE  Stands(ForModel(StaticRoute(c, q), c, model)) # {}
<1> DEFINE t == StaticRoute(c, q)
           x == ForModel(t, c, model)
<1>1. x.type = t.type /\ x.native = OrElse(t.native, model)
  BY ForModelFacts, CandidateFixed DEF CandidateOf
<1>2. PICK o : o \in Stands(t)
  OBVIOUS
<1>3. o \in Offerings /\ t.native \in {o.wire, NativeModelOf(t.type, o.wire)}
  BY <1>2 DEF Stands
<1>4. t.native # ""
  BY <1>3, CatalogAssumption, NativeModelNamed
<1> HIDE DEF x, t
<1>5. x.native = t.native
  BY <1>1, <1>4 DEF OrElse
<1>6. Stands(x) = Stands(t)
  BY <1>1, <1>5 DEF Stands
<1> QED
  BY <1>2, <1>6 DEF x, t

\* A route by the catalog's names that names a model and serves a plain request, under a table
\* with such a route.
LEMMA ServedByName ==
  ASSUME RInv, Plain, asked.source # "", NEW i \in DOMAIN table,
         \A k \in DOMAIN table : table[k].model = "" => table[k].dynamic,
         NEW h \in DOMAIN table, table[h].source = asked.source, table[h].model = asked.model
  PROVE  /\ Serves(table[i], table, cfg, asked) => table[i].source = asked.source /\ table[i].model = asked.model
         /\ ~table[h].dynamic => Serves(table[h], table, cfg, asked)
<1>1. state = "serving" /\ asked.model # "" /\ \A x : ~CapabilityMismatch(asked, x)
  BY PlainFacts
<1>2. HasExactRoute(table, asked)
  BY DEF HasExactRoute, SourceMatches
<1>3. ASSUME Serves(table[i], table, cfg, asked) PROVE table[i].source = asked.source /\ table[i].model = asked.model
  <2>1. /\ ~table[i].dynamic /\ asked.source \in {"", table[i].source} /\ table[i].model \in {"", asked.model}
    BY <1>2, <1>3 DEF Serves, SourceMatches
  <2>2. table[i].model # ""
    BY <2>1
  <2> QED
    BY <2>1, <2>2
<1>4. ASSUME ~table[h].dynamic PROVE Serves(table[h], table, cfg, asked)
  <2>1. ~Unavailable(table[h], cfg, asked.model)
    BY <1>4 DEF Unavailable
  <2>2. SourceMatches(table[h], asked.source)
    BY DEF SourceMatches
  <2> QED
    BY <1>1, <1>4, <2>1, <2>2 DEF Serves
<1> QED
  BY <1>3, <1>4

\* Every intent and alias that a detected provider has a model for is served by such a provider,
\* of the service that the name asks for when there is one: autoRoutes' lookup, the table's and
\* the router's come to the same offering of the catalog.
THEOREM IntentsServed == Spec => []IntentServed
<1>1. ASSUME RInv PROVE IntentServed
  <2> DEFINE Theirs(k) == cfg.routes[k].source = asked.source /\ cfg.routes[k].model = asked.model
             N == ModelDBRouteForIntent(cfg.providers, opts.aliases, asked.source, asked.model)
             S == HavingAt(cfg.providers, opts.aliases, asked.source, asked.model)
             requested == RequestedService(asked.model)
  <2>0. SUFFICES
          ASSUME Plain, opts.catalog, asked.source \in Range(opts.sources),
                 \/ asked.model \in Range(opts.intents)
                 \/ /\ \E j \in DOMAIN opts.aliases : opts.aliases[j].name = asked.model
                    /\ \A k \in DOMAIN cfg.routes : Theirs(k) => cfg.routes[k].dbmodel # "",
                 \A k \in DOMAIN table : table[k].model = "" => table[k].dynamic,
                 Having # {}
          PROVE  /\ routed # <<>>
                 /\ Stands(routed[1]) # {}
                 /\ \E p \in Having : routed[1].provider = p.name /\ routed[1].type = p.type
                 /\ asked.model \in DOMAIN Qualified =>
                      \A p \in Having : ServiceOf(p.type) = Qualified[asked.model].service =>
                                        ServiceOf(routed[1].type) = Qualified[asked.model].service
    BY DEF IntentServed
  <2>1. Answered /\ state = "serving" /\ asked.model # ""
    BY <1>1, <2>0, PlainFacts
  <2>2. Valid(cfg) /\ \A k \in DOMAIN cfg.routes : Resolves(cfg, cfg.routes[k])
    BY <1>1, <2>1 DEF RInv, Built
  <2>3. asked.source # ""
    <3>1. PICK p : p \in Having
      BY <2>0
    <3>2. p.type \in Range(PreferredProviderTypes(asked.source))
      BY <3>1 DEF Having
    <3> QED
      BY <3>2, NoPreference
  <2>4. N # {}
    <3>1. S # {}
      BY <1>1, <2>0, HavingFacts
    <3> QED
      BY <3>1, RoutedWhenHad
  <2>5. \E k \in DOMAIN cfg.routes : Theirs(k)
    <3>1. PICK i \in DOMAIN opts.sources : opts.sources[i] = asked.source
      BY <2>0 DEF Range
    <3>2. \/ \E j \in DOMAIN opts.intents : opts.intents[j] = asked.model
          \/ \E j \in DOMAIN opts.aliases : opts.aliases[j].name = asked.model
      BY <2>0 DEF Range
    <3> QED
      BY <1>1, <2>0, <2>1, <2>4, <3>1, <3>2, RoutedByName
  <2>6. \A k \in DOMAIN cfg.routes :
          Theirs(k) => cfg.routes[k] \in N /\ ~cfg.routes[k].dynamic /\ cfg.routes[k].dbmodel # ""
    <3> TAKE k \in DOMAIN cfg.routes
    <3>1. ASSUME Theirs(k) PROVE opts.intents # <<>> \/ cfg.routes[k].dbmodel # ""
      <4>1. Range(<<>>) = {}
        BY DEF Range
      <4>2. asked.model \in Range(opts.intents) => opts.intents # <<>>
        BY <4>1
      <4> QED
        BY <2>0, <3>1, <4>2
    <3> QED
      BY <1>1, <2>0, <2>1, <3>1, NamedRoute
  <2>7. PICK h \in DOMAIN cfg.routes : Theirs(h)
    BY <2>5
  <2>8. \A k \in DOMAIN table : /\ k \in DOMAIN cfg.routes /\ table[k] = StaticRoute(cfg, cfg.routes[k])
                                /\ EntryOf(table[k], cfg.routes[k], EndpointOf(cfg, cfg.routes[k]))
    BY <1>1, <2>1, TableFacts, StaticFacts
  <2>9. h \in DOMAIN table /\ table[h].source = asked.source /\ table[h].model = asked.model /\ ~table[h].dynamic
    <3>1. h \in DOMAIN table
      BY <1>1, <2>1, <2>7, TableFacts
    <3> QED
      BY <2>6, <2>7, <2>8, <3>1 DEF EntryOf
  <2>10. routed # <<>> /\ 1 \in DOMAIN routed
    <3>1. Serves(table[h], table, cfg, asked)
      BY <1>1, <2>0, <2>3, <2>9, ServedByName
    <3>2. DOMAIN routed # {}
      BY <1>1, <2>1, <2>9, <3>1, AnswerFacts DEF OfAllServing
    <3>3. PICK m \in Nat : DOMAIN routed = 1..m
      BY <1>1, <2>1, AnswerFacts
    <3>4. 1..m # {} => 1 \in 1..m
      OBVIOUS
    <3>5. DOMAIN <<>> = {}
      OBVIOUS
    <3> QED
      BY <3>2, <3>3, <3>4, <3>5, Zenon
  <2>11. PICK i \in DOMAIN table : /\ Serves(table[i], table, cfg, asked)
                                   /\ routed[1] = ForModel(table[i], cfg, asked.model)
    BY <1>1, <2>1, <2>10, AnswerFacts DEF FromServing
  <2> DEFINE q == cfg.routes[i]
             t == StaticRoute(cfg, q)
             p == EndpointOf(cfg, q)
  <2>12. i \in DOMAIN cfg.routes /\ table[i] = t /\ EntryOf(t, q, p)
    BY <2>8, <2>11
  <2>13. Theirs(i)
    <3>1. table[i].source = asked.source /\ table[i].model = asked.model
      BY <1>1, <2>0, <2>3, <2>9, <2>11, ServedByName
    <3> QED
      BY <2>12, <3>1 DEF EntryOf
  <2>14. q \in N /\ ~t.dynamic /\ q.dbmodel # ""
    BY <2>6, <2>12, <2>13 DEF EntryOf
  <2>15. PICK at \in S : /\ q.provider = cfg.providers[at[2]].name /\ q.api = ApiKind(cfg.providers[at[2]].type)
                         /\ AsRequested(cfg.providers, S, at, asked.model)
    <3>1. PICK n \in Nat : DOMAIN cfg.providers = 1..n
      BY <1>1, <2>1 DEF RInv, Configured, Sortable, Prioritized
    <3>2. q \in N
      BY <2>14
    <3> HIDE DEF q
    <3> QED
      BY <3>1, <3>2, BestFacts
  <2>16. p = cfg.providers[at[2]]
    <3>1. PICK k \in DOMAIN cfg.providers : EndpointsOf(cfg, q) = {k} /\ p = cfg.providers[k]
      BY <2>2, <2>12, EndpointFacts
    <3>2. at[2] \in DOMAIN cfg.providers
      BY DEF HavingAt, PreferredProviders
    <3>3. at[2] \in EndpointsOf(cfg, q)
      BY <2>15, <3>2 DEF EndpointsOf
    <3> QED
      BY <3>1, <3>3
  <2>17. p \in Having
    BY <1>1, <2>0, <2>16, HavingFacts
  <2>18. routed[1].provider = p.name /\ routed[1].type = p.type
    <3>1. CandidateOf(routed[1], t)
      BY <2>11, <2>12, ForModelFacts
    <3> QED
      BY <2>12, <3>1 DEF CandidateOf, EntryOf
  <2>19. Stands(routed[1]) # {}
    <3>1. ~CapabilityMismatch(asked, t)
      BY <1>1, <2>0, PlainFacts
    <3>2. Stands(t) # {}
      BY <2>2, <2>12, <2>14, <3>1, FixedSuits
    <3> QED
      BY <2>11, <2>12, <2>14, <3>2, CandidateStands
  <2>20. ASSUME asked.model \in DOMAIN Qualified, NEW x \in Having, ServiceOf(x.type) = Qualified[asked.model].service
         PROVE  ServiceOf(p.type) = Qualified[asked.model].service
    <3>1. requested = Qualified[asked.model].service
      BY <2>20 DEF RequestedService
    <3>2. requested # ""
      <4>1. x.type \in KnownTypes
        BY PreferredTypesFacts DEF Having
      <4> QED
        BY <2>20, <3>1, <4>1, ServiceNamed
    <3>3. PICK b \in S : x = cfg.providers[b[2]]
      BY <1>1, <2>0, HavingFacts
    <3> QED
      BY <2>15, <2>16, <2>20, <3>1, <3>2, <3>3 DEF AsRequested
  <2> QED
    BY <2>10, <2>17, <2>18, <2>19, <2>20
<1> QED
  BY <1>1, Invariance, PTL
=============================================================================
