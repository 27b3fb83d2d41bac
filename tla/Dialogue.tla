------------------------------ MODULE Dialogue -------------------------------
(***************************************************************************)
(* A conversation that a client has with models through this library, turn *)
(* by turn.  Each turn the client writes the whole conversation into a     *)
(* request, in the API of an endpoint of the gateway or, a caller of the   *)
(* mux client, as a unified.Request; the endpoint decodes it; and the      *)
(* routes for it are tried one after the other, each in the API of its     *)
(* provider, until one takes the request and answers                       *)
(* (internal/routeattempt, muxclient/muxclient.go, gateway/http.go).       *)
(*                                                                         *)
(* A Go map is shared by all the copies of the struct that holds it: the   *)
(* extensions of a request are, unless they are nil.                       *)
(***************************************************************************)
EXTENDS Encoders

CONSTANTS Clients,     \* ep: the endpoint it calls (messages, chat, responses) or library; routes:
                       \* each with its provider, resolved and builtIn metadata; ask: the options
                       \* of its requests; says: what its user may say, kinds of items
          Answers,     \* what a model may answer
          MaxTurns     \* bound: requests

NoMetadata == {"none"}
Metadatas == {NoMetadata} \cup SUBSET {"adaptive", "format"}

\* Limits are not negative, thinking is never an option of the client's own, and a tool is a
\* function or one that runs at the provider.
ASSUME ClientsAsk ==
  \A c \in Clients :
    /\ c.ep \in {"messages", "chat", "responses", "library"}
    /\ c.routes \in Seq([provider : Providers, resolved : Metadatas, builtIn : Metadatas])
    /\ c.ask.max \in Nat /\ c.ask.budget \in Nat
    /\ "thinking" \notin DOMAIN c.ask.opts
    /\ "tools" \in DOMAIN c.ask.opts => c.ask.opts["tools"] \in {"function", "server"}

\* A user says any content, and a model answers with what there is a form for. A system says
\* texts: of other content in its messages, encodeSystemContentParts of the Messages codec
\* sends nothing, without a word.
ASSUME ClientsSay ==
  /\ \A c \in Clients : \A said \in c.says :
       /\ said \in Seq([by : {"user", "system"}, kind : Contents])
       /\ \A i \in DOMAIN said : said[i].by = "system" => said[i].kind = "text"
  /\ \A kinds \in Answers : kinds \in Seq({"text", "reasoning", "call"})

VARIABLES client,
          history,     \* the conversation's items, each with who it is by
          turn,        \* requests so far
          phase,       \* talk, asking, decoded, sent, over
          body,        \* the request as the client wrote it
          req,         \* as the endpoint decoded it
          metadata,    \* the metadata in the extensions of req
          attempt,     \* the route tried, 0 before the first
          used,        \* the metadata that its provider saw
          sent         \* the request it got

conversation == <<client, history, turn>>
forwarded == <<metadata, attempt, used, sent>>
vars == <<conversation, phase, body, req, forwarded>>

ep == client.ep
routes == client.routes

Item(n, by, kind, call) == [id |-> n, by |-> by, kind |-> kind, call |-> call]
Unanswered ==
  Picked(history, {i \in DOMAIN history : /\ history[i].kind = "call"
                                          /\ \A j \in DOMAIN history : history[j].call # history[i].id})

\* The kinds of content that there is a form for in each caller's API.
Writable(c) ==
  CASE c = "messages" -> Contents
    [] c = "chat" -> {"text", "image_url", "document"}
    [] c = "responses" -> {"text", "image_url", "image_file", "document"}
    [] c = "library" -> Contents \ {"document"}

\* The parts of an answer that a client gets to see, and so can replay.
Shown(c) == {"text", "call"} \cup (IF c \in {"messages", "library"} THEN {"reasoning"} ELSE {})

-----------------------------------------------------------------------------
\* How a client writes its conversation: items of one message are next to each other.
Side(by) == IF by = "tool" THEN "user" ELSE by
Together(c, a, b) ==
  CASE c = "messages" -> Side(a.by) = Side(b.by)
    [] c = "chat" -> a.by = b.by /\ a.by # "tool" /\ a.by # "system"
    [] c = "responses" -> FALSE
    [] c = "library" -> a.by = b.by

\* The places where a message begins, and where the one ends that begins at i.
Begins(c, items) == {i \in DOMAIN items : i = 1 \/ ~Together(c, items[i - 1], items[i])}
Ends(c, items, i) ==
  {e \in i..Len(items) : /\ \A k \in (i + 1)..e : k \notin Begins(c, items)
                         /\ e = Len(items) \/ e + 1 \in Begins(c, items)}
GroupAt(c, items, i) ==
  [role |-> IF c = "messages" THEN Side(items[i].by) ELSE items[i].by,
   items |-> SubSeq(items, i, CHOOSE e \in Ends(c, items, i) : TRUE)]

Grouped(c, items) == Picked([i \in DOMAIN items |-> GroupAt(c, items, i)], Begins(c, items))

BySystem(items) == Picked(items, {i \in DOMAIN items : items[i].by = "system"})
ByOthers(items) == Picked(items, {i \in DOMAIN items : items[i].by # "system"})

\* The Messages API has its system content apart.
Written(c, ask, items) ==
  [opts |-> ask.opts, max |-> ask.max, budget |-> ask.budget,
   system |-> IF c = "messages" THEN BySystem(items) ELSE <<>>,
   msgs |-> Grouped(c, IF c = "messages" THEN ByOthers(items) ELSE items)]

\* A caller of the library has no endpoint.
AsUnified(b) ==
  [messages |-> [i \in DOMAIN b.msgs |-> MessageOf(b.msgs[i].role, b.msgs[i].items)],
   instructions |-> <<>>, opts |-> b.opts, max |-> b.max, budget |-> b.budget,
   dropped |-> {}, warned |-> {}]

\* Whether the request's extensions are a map.
\* Bug: every request gets a map.
HasExtensionsAlways(r) == TRUE

HasExtensions(r) == DOMAIN r.opts \cap ExtensionFields # {}

NoBody == [opts |-> <<>>, max |-> 0, budget |-> 0, system |-> <<>>, msgs |-> <<>>]
NoRequest == AsUnified(NoBody)
NotSent == Refused(NoRequest, "not sent")

Init ==
  /\ client \in Clients
  /\ history = <<>> /\ turn = 0 /\ phase = "talk"
  /\ body = NoBody /\ req = NoRequest /\ metadata = NoMetadata
  /\ attempt = 0 /\ used = NoMetadata /\ sent = NotSent

\* The client has the results of its tools, the user says something, and the client
\* writes the request.
Say(said) ==
  /\ phase = "talk" /\ turn < MaxTurns
  /\ \A i \in DOMAIN said : said[i].kind \in Writable(ep)
  /\ said = <<>> => Unanswered # <<>>
  /\ LET calls == Unanswered
         n == Len(history)
         m == n + Len(calls)
         results == [i \in DOMAIN calls |-> Item(n + i, "tool", "result", calls[i].id)]
     IN history' = history \o results \o [i \in DOMAIN said |-> Item(m + i, said[i].by, said[i].kind, 0)]
  /\ body' = Written(ep, client.ask, history')
  /\ turn' = turn + 1
  /\ phase' = "asking"
  /\ UNCHANGED <<client, req, forwarded>>

\* A handler of the gateway decodes what the client wrote; the mux client has it as it is,
\* and with it the extensions of its last request.
Decode ==
  /\ phase = "asking"
  /\ IF ep # "library" /\ Rejects(ep, body)
       THEN req' = NoRequest /\ phase' = "over"
       ELSE /\ req' = IF ep = "library" THEN AsUnified(body) ELSE DecodeRequest(ep, body)
            /\ phase' = "decoded"
  /\ metadata' = IF ep = "library" /\ HasExtensions(req) THEN metadata ELSE NoMetadata
  /\ attempt' = 0 /\ used' = NoMetadata /\ sent' = NotSent
  /\ UNCHANGED <<conversation, body>>

\* RequestForRoute, and the metadata that the client attaches when the request has none.
MetadataFor(route) ==
  IF route.resolved # NoMetadata THEN route.resolved ELSE metadata
MetadataSeen(route) ==
  IF MetadataFor(route) = NoMetadata /\ Family(route.provider) = "messages"
    THEN route.builtIn
    ELSE MetadataFor(route)

\* The next route is tried.
Attempt ==
  /\ phase = "decoded" /\ attempt < Len(routes)
  /\ LET route == routes[attempt + 1]
         seen == MetadataSeen(route)
         wire == Encode(route.provider, req, seen \ NoMetadata)
     IN /\ attempt' = attempt + 1
        /\ used' = seen
        /\ sent' = wire
        /\ metadata' = IF HasExtensions(req) THEN seen ELSE metadata
        /\ phase' = CASE wire.refused = "unsupported" -> "over"
                      [] wire.refused = "error" -> "decoded"
                      [] OTHER -> "sent"
  /\ UNCHANGED <<conversation, body, req>>

\* All routes were tried, or as many as are allowed, or there is no fallback.
GiveUp ==
  /\ phase = "decoded" /\ attempt > 0
  /\ phase' = "over"
  /\ UNCHANGED <<conversation, body, req, forwarded>>

\* The provider fails before it answers: the next route, unless the request is at fault
\* (a status of 400 or 422).
Fail ==
  /\ phase = "sent"
  /\ phase' \in {"decoded", "over"}
  /\ UNCHANGED <<conversation, body, req, forwarded>>

\* The provider answers, with at least a text or a call; the client keeps what it is shown.
Answer(kinds) ==
  /\ phase = "sent" /\ turn < MaxTurns
  /\ "tools" \notin DOMAIN sent.opts => \A i \in DOMAIN kinds : kinds[i] # "call"
  /\ LET shown == Picked(kinds, {i \in DOMAIN kinds : kinds[i] \in Shown(ep)})
         n == Len(history)
     IN history' = history \o [i \in DOMAIN shown |-> Item(n + i, "assistant", shown[i], 0)]
  /\ phase' = "talk"
  /\ UNCHANGED <<client, turn, body, req, metadata, attempt, used, sent>>

Next ==
  \/ \E said \in client.says : Say(said)
  \/ Decode
  \/ Attempt
  \/ GiveUp
  \/ Fail
  \/ \E kinds \in Answers : Answer(kinds)
  \/ phase = "over" /\ UNCHANGED vars
  \/ phase = "sent" /\ turn = MaxTurns /\ UNCHANGED vars

Spec == Init /\ [][Next]_vars

-----------------------------------------------------------------------------
\* What the provider of a request that was sent got.
Provider == routes[attempt].provider
Arrived == sent.system \o FlattenSeq([i \in DOMAIN sent.messages |-> sent.messages[i].items])
GivenUp == req.dropped \cup sent.dropped

TypeOK ==
  /\ client \in Clients /\ turn \in 0..MaxTurns
  /\ phase \in {"talk", "asking", "decoded", "sent", "over"}
  /\ attempt \in 0..Len(routes)
  /\ metadata \cup used \subseteq {"none", "adaptive", "format"}
  /\ \A i \in DOMAIN history : history[i].id = i /\ history[i].call < i

\* An item may come before another of its message that was said earlier when it is content
\* and the other a call or a result: unified.Message has them in different lists.
MayPass(x, y) ==
  /\ x.kind \in Contents /\ y.kind \notin Contents
  /\ \A i \in y.id..x.id : Side(history[i].by) = Side(x.by) \/ history[i].by = "system"

\* Whatever a client said, saw or did in its conversation reaches the provider once, or the
\* request carries a warning that says it was dropped; and what is not the system's keeps
\* its order, but for content that a message has beside its calls or results
\* (decodeMessage and encodeMessage of all the codecs: two translations, no test of both).
ConversationKept ==
  phase = "sent" =>
    /\ \A i \in DOMAIN history :
         Cardinality({j \in DOMAIN Arrived : Arrived[j].id = i}) = IF i \in GivenUp THEN 0 ELSE 1
    /\ \A j, k \in DOMAIN Arrived :
         j < k /\ Arrived[j].id > Arrived[k].id
           => \/ "system" \in {Arrived[j].by, Arrived[k].by}
              \/ MayPass(Arrived[j], Arrived[k])

\* Providers read neighbours of these roles as one message.
Merged == [messages |-> {"user", "assistant"}, chat |-> {"tool"}, responses |-> {"call", "result"}, converse |-> {}]
Runs(family, messages) ==
  FoldLeft(LAMBDA rs, m :
             IF rs # <<>> /\ Last(rs).role = m.role /\ m.role \in Merged[family]
               THEN [rs EXCEPT ![Len(rs)].items = @ \o m.items]
               ELSE Append(rs, m),
           <<>>, messages)

\* Shapes that no encoder makes up for: calls or results of one turn that the endpoint has in
\* messages of their own, what a model says after a call where the endpoint has it so, and a
\* user's words beside results at the Messages endpoint.
Apart ==
  LET parallel == \E i \in 2..Len(history) : history[i-1].kind = "result" /\ history[i].kind = "result"
      continued == \E i \in 2..Len(history) : /\ history[i-1].kind = "call"
                                             /\ history[i].by = "assistant" /\ history[i].kind # "call"
  IN \/ parallel /\ ep = "responses" /\ Family(Provider) \in {"chat", "converse"}
     \/ parallel /\ ep = "chat" /\ Family(Provider) = "converse"
     \/ continued /\ ep = "responses" /\ Family(Provider) # "messages"
     \/ ep = "messages" /\ \E i, j \in DOMAIN history : i < j /\ history[i].by = "tool" /\ history[j].by = "user"
                              /\ \A k \in i..j : history[k].by # "assistant"

\* Every provider wants the results of a message's tool calls, all of them and no others,
\* at the start of what follows it, and Chat Completions a message for each: the encoders
\* give them that, whichever endpoint took the conversation apart (encodeMessage in
\* providers/*/codec.go, buildRequest in converse/request.go).
ResultsFollowCalls ==
  phase = "sent" /\ ~Apart =>
    LET runs == Runs(Family(Provider), sent.messages)
    IN /\ Family(Provider) = "chat" =>
            \A i \in DOMAIN sent.messages : sent.messages[i].role = "tool" => Len(sent.messages[i].items) = 1
       /\ \A i \in DOMAIN runs :
         LET calls == {x.id : x \in {runs[i].items[j] : j \in {n \in DOMAIN runs[i].items : runs[i].items[n].kind = "call"}}}
             next == IF i < Len(runs) THEN runs[i + 1].items ELSE <<>>
             n == Cardinality(calls)
         IN calls # {} => /\ Len(next) >= n
                          /\ {next[j].call : j \in 1..n} = calls

\* What may change on the way without a word: a mode that says what there is without it,
\* tools nobody may call, and what Codex does not take.
Immaterial(f, v) ==
  \/ f = "format" /\ v = "text"
  \/ f = "cache" /\ v \in {"off"} \cup IF Family(Provider) = "responses" THEN {"on"} ELSE {}
  \/ f = "effort" /\ "thinking" \in DOMAIN sent.opts
  \/ f = "tool_choice" /\ ("tools" \notin DOMAIN sent.opts \/ v = "unknown")
  \/ f = "tools" /\ (OptionIs(body, "tool_choice", {"none"}) \/ ep = "messages")
  \/ Provider = "codex" /\ f \in {"temperature", "top_p", "top_k", "store"}

\* An option that the client's API and the provider's API both have is sent as it was
\* asked for, or a warning names it (AddWarning in the codecs).
OptionsAccounted ==
  phase = "sent" =>
    \A f \in DOMAIN body.opts :
      (f \in ApiFields(Provider) /\ (ep = "library" \/ f \in WireFields(ep)))
        => \/ f \in DOMAIN sent.opts /\ sent.opts[f] = body.opts[f]
           \/ f \in req.warned \cup sent.warned
           \/ Immaterial(f, body.opts[f])

\* Whatever a client asks for, what a Messages API gets of thinking is what it takes: a
\* budget of 1024 tokens or more and below max_tokens, a temperature of one and no top_k
\* (applyReasoning and thinkingBudget in providers/anthropic/messages/codec.go).
ThinkingFits ==
  phase = "sent" /\ Family(Provider) = "messages" /\ OptionIs(sent, "thinking", {"enabled"})
    => /\ sent.budget >= 1024 /\ sent.budget < sent.max
       /\ OptionIs(sent, "temperature", {"one"})
       /\ "top_k" \notin DOMAIN sent.opts

OwnMetadata(route) ==
  {route.resolved} \cup
    IF route.resolved = NoMetadata /\ Family(route.provider) = "messages" THEN {route.builtIn} ELSE {}

\* A request without extensions goes to each of its routes with the metadata of that
\* route's model, not of one tried before (RequestForRoute).
PlainMetadataOfRoute ==
  phase = "sent" /\ DOMAIN body.opts \cap ExtensionFields = {} => used \in OwnMetadata(routes[attempt])
=============================================================================
