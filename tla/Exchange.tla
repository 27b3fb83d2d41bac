------------------------------ MODULE Exchange -------------------------------
(***************************************************************************)
(* One answer on its way through the gateway.  A provider streams it in    *)
(* the frames of its API; the client's decoder turns them into unified     *)
(* events, which a chain of processors may rewrite; then Collect and the   *)
(* endpoint's streamState consume the same events (a request that is       *)
(* streamed has the second, one that is not the first).  What the endpoint *)
(* streams is read by a client that is this library again: the decoder for *)
(* the endpoint's API, and Collect.                                        *)
(***************************************************************************)
EXTENDS EndpointStreams

CONSTANTS APIs,       \* APIs of providers: messages, chat, responses, converse
          Endpoints,  \* endpoints of the gateway: messages, chat, responses
          Chains,     \* kinds of processors an AdaptedClient has, in order
          MaxItems,   \* bound: items of an answer
          MaxPieces,  \* bound: pieces of an item
          Tokens,     \* token counts a provider reports
          MaxBytes    \* of the TextCoalescer

ASSUME MaxBytesAssumption == MaxBytes \in Nat \ {0}

Converse == INSTANCE ConverseStream
Pipeline == INSTANCE Processors

VARIABLES api, ep,    \* the provider's API and the endpoint's
          kinds,      \* the kinds of processors between decoder and consumers
          given,      \* the items the provider has given: kind, index and text
          open,       \* those that can still grow
          ended,      \* "" or how the provider ended: a finish reason, failed, cut
          tokens,     \* the usage it reported
          dec, procs, \* the client's decoder and its processors
          got,        \* Collect, at the end of the client's events
          st,         \* the endpoint's streamState
          writing,    \* whether its writeStream has not returned
          down,       \* the decoder of the client downstream
          seen,       \* Collect, at the end of its events
          over        \* whether all of it has ended

provider == <<given, open, ended, tokens>>
route == <<api, ep, kinds>>
consumers == <<dec, procs, got, st, writing, down, seen>>
vars == <<route, provider, consumers, over>>

DecoderOf(a) ==
  CASE a = "messages" -> Messages!Decoder [] a = "chat" -> Chat!Decoder
    [] a = "responses" -> Responses!Decoder [] a = "converse" -> Converse!Decoder

Decode(a, d, f) ==
  CASE a = "messages" -> Messages!Push(d, f) [] a = "chat" -> Chat!Push(d, f)
    [] a = "responses" -> Responses!Push(d, f) [] a = "converse" -> Converse!Push(d, f)

\* The frames through the decoder.
DecodeAll(a, d, frames) ==
  FoldLeft(LAMBDA r, f : LET p == Decode(a, r.dec, f) IN [dec |-> p.dec, out |-> r.out \o p.out],
           [dec |-> d, out |-> <<>>], frames)

\* What the decoder still says at the end of its input.
DecoderEnds(a, d) == IF a = "messages" THEN Messages!Close(d) ELSE <<>>

EndpointPush(s, e) ==
  CASE ep = "messages" -> AnthropicPush(s, e) [] ep = "chat" -> ChatPush(s, e) [] ep = "responses" -> ResponsesPush(s, e)

\* writeStream: an error event makes it return, before it writes anything more.
WriteStream(evs) ==
  FoldLeft(LAMBDA r, e : IF ~r.writing \/ e.type = "error"
                           THEN [r EXCEPT !.writing = FALSE]
                           ELSE LET p == EndpointPush(r.st, e)
                                IN [r EXCEPT !.st = p.st, !.out = @ \o p.out],
           [st |-> st, writing |-> writing, out |-> <<>>], evs)

\* The events reach both consumers; what the second writes reaches the client downstream.
Deliver(evs) ==
  LET w == WriteStream(evs)
      d == DecodeAll(ep, down, w.out)
  IN /\ got' = FoldLeft(Collect, got, evs)
     /\ st' = w.st
     /\ writing' = w.writing
     /\ down' = d.dec
     /\ seen' = FoldLeft(Collect, seen, d.out)

\* Frames of the provider; those of the Responses API can be torn in two.
Feed(frames) ==
  \E torn \in {0} \cup (IF api = "responses" THEN DOMAIN frames ELSE {}) :
    LET arrived == IF torn = 0 THEN frames
                   ELSE SubSeq(frames, 1, torn - 1) \o Responses!Torn(frames[torn])
                          \o SubSeq(frames, torn + 1, Len(frames))
        d == DecodeAll(api, dec, arrived)
        p == Pipeline!PushThrough(procs, d.out, 1)
    IN /\ dec' = d.dec
       /\ procs' = p.procs
       /\ Deliver(p.out)

-----------------------------------------------------------------------------
\* The provider, in the frames of its API.  A chat completion has one text, before the
\* tool calls, and its items grow until it finishes.
ItemKinds == IF api = "chat" THEN {"text", "tool"} ELSE {"text", "reasoning", "tool"}
OfKind(kind) == {n \in DOMAIN given : given[n].kind = kind}
HasTool == OfKind("tool") # {}

Begins == CASE api = "messages" -> Messages!Begins [] api = "chat" -> Chat!Begins
            [] api = "responses" -> Responses!Begins [] api = "converse" -> Converse!Begins
Starts(n, item) ==
  CASE api = "messages" -> Messages!Starts(n, item) [] api = "chat" -> Chat!Starts(n, item)
    [] api = "responses" -> Responses!Starts(n, item) [] api = "converse" -> Converse!Starts(n, item)
Gives(n, item, t) ==
  CASE api = "messages" -> Messages!Gives(n, item, t) [] api = "chat" -> Chat!Gives(n, item, t)
    [] api = "responses" -> Responses!Gives(n, item, t) [] api = "converse" -> Converse!Gives(n, item, t)
Ends(n, item) ==
  CASE api = "messages" -> Messages!Ends(n, item) [] api = "responses" -> Responses!Ends(n, item)
    [] api = "converse" -> Converse!Ends(n, item)
Finishes(reason, u) ==
  CASE api = "messages" -> Messages!Finishes(reason, u) [] api = "chat" -> Chat!Finishes(reason, u)
    [] api = "responses" -> Responses!Finishes(reason, u) [] api = "converse" -> Converse!Finishes(reason, u)
Fails == CASE api = "messages" -> Messages!ErrorFrame [] api = "chat" -> Chat!ErrorChunk
           [] api = "responses" -> Responses!Frame("error") [] api = "converse" -> Converse!FailedFrame

Init ==
  /\ api \in APIs
  /\ ep \in Endpoints
  /\ kinds \in IF api = "messages" THEN Chains ELSE {<<>>}
  /\ given = <<>> /\ open = {} /\ ended = "" /\ tokens = NoTokens
  /\ dec = DecoderOf(api)
  /\ procs = [i \in DOMAIN kinds |-> Pipeline!New(kinds[i])]
  /\ got = Collector
  /\ st = StreamState
  /\ writing = TRUE
  /\ down = DecoderOf(ep)
  /\ seen = Collector
  /\ over = FALSE

StartItem(kind) ==
  /\ ended = "" /\ Len(given) < MaxItems /\ kind \in ItemKinds
  /\ api = "chat" => kind = "tool" \/ given = <<>>
  /\ api # "chat" => open = {}
  /\ LET n == Len(given) + 1
         item == [kind |-> kind, text |-> <<>>,
                  index |-> IF api = "chat" THEN Cardinality(OfKind("tool")) ELSE n - 1]
     IN /\ given' = Append(given, item)
        /\ open' = (open \ OfKind("text")) \cup {n}
        /\ Feed((IF given = <<>> THEN Begins ELSE <<>>) \o Starts(n, item))
  /\ UNCHANGED <<route, ended, tokens, over>>

Give(n) ==
  /\ ended = "" /\ n \in open /\ Len(given[n].text) < MaxPieces
  /\ LET piece == <<10 * n + Len(given[n].text)>>
     IN /\ given' = [given EXCEPT ![n].text = @ \o piece]
        /\ Feed(Gives(n, given[n], piece))
  /\ UNCHANGED <<route, open, ended, tokens, over>>

EndItem(n) ==
  /\ ended = "" /\ api # "chat" /\ n \in open
  /\ open' = open \ {n}
  /\ Feed(Ends(n, given[n]))
  /\ UNCHANGED <<route, given, ended, tokens, over>>

Finish(reason) ==
  /\ ended = "" /\ given # <<>> /\ (api # "chat" => open = {})
  /\ reason = "tool_call" => HasTool
  /\ reason = "stop" /\ HasTool => api \in {"chat", "responses"}
  /\ \E u \in Tokens : tokens' = u /\ Feed(Finishes(reason, u))
  /\ ended' = reason
  /\ open' = {}
  /\ UNCHANGED <<route, given, over>>

Fail ==
  /\ ended = "" /\ given # <<>>
  /\ ended' = "failed"
  /\ open' = {}
  /\ Feed(<<Fails>>)
  /\ UNCHANGED <<route, given, tokens, over>>

\* The connection ends before the answer does.
Cut ==
  /\ ended = "" /\ given # <<>>
  /\ ended' = "cut"
  /\ open' = {}
  /\ UNCHANGED <<route, given, tokens, consumers, over>>

\* EOF: the decoder's and the processors' last events, and the end of both collections.
Close ==
  /\ ended # "" /\ ~over
  /\ over' = TRUE
  /\ LET p == Pipeline!PushThrough(procs, DecoderEnds(api, dec), 1)
         failed == DecoderEnds(api, dec) # <<>>
         evs == p.out \o (IF failed THEN <<>> ELSE Pipeline!CloseChain(p.procs).out)
         w == WriteStream(evs)
         d == DecodeAll(ep, down, w.out)
         last == d.out \o DecoderEnds(ep, d.dec)
     IN /\ got' \in CollectEnds(FoldLeft(Collect, got, evs))
        /\ seen' \in CollectEnds(FoldLeft(Collect, seen, last))
        /\ st' = w.st
     /\ writing' = FALSE
  /\ UNCHANGED <<route, provider, dec, procs, down>>

Next ==
  \/ \E kind \in {"text", "reasoning", "tool"} : StartItem(kind)
  \/ \E n \in 1..MaxItems : Give(n)
  \/ \E n \in 1..MaxItems : EndItem(n)
  \/ \E reason \in {"stop", "length", "tool_call"} : Finish(reason)
  \/ Fail
  \/ Cut
  \/ Close
  \/ over /\ UNCHANGED vars

Spec == Init /\ [][Next]_vars

-----------------------------------------------------------------------------
Reasons == {"stop", "length", "tool_call"}
Answered == over /\ ended \in Reasons
Concat(seqs) == FoldLeft(LAMBDA t, s : t \o s, <<>>, seqs)

\* The answer's parts: what was given, less what was empty.
Parts(hidden) ==
  SelectSeq([n \in DOMAIN given |-> [kind |-> given[n].kind, text |-> given[n].text]],
            LAMBDA p : p.kind # "tool" /\ p.kind \notin hidden /\ p.text # <<>>)
Hidden == IF \E i \in DOMAIN kinds : kinds[i] = "filter" THEN {"reasoning"} ELSE {}
TextOnly(parts) == SelectSeq(parts, LAMBDA p : p.kind = "text")

GivenCalls ==
  LET noArgs == IF api = "converse" THEN Converse!NoArguments ELSE <<>>
      calls == [n \in DOMAIN given |-> [id |-> n, args |-> IF given[n].text = <<>> THEN noArgs ELSE given[n].text]]
  IN SelectSeq(calls, LAMBDA c : given[c.id].kind = "tool")

TypeOK ==
  /\ open \subseteq DOMAIN given
  /\ ended \in Reasons \cup {"", "failed", "cut"}
  /\ got.finish \in Reasons \cup {"", "unknown", "error"}
  /\ DOMAIN got.bufs \subseteq {"text", "reasoning"} \X Nat
  /\ \A i \in DOMAIN got.toolIndexes : got.toolIndexes[i] \in DOMAIN got.toolCalls

\* Each tool call of an answer is collected once, in order, with its own arguments, whatever
\* pieces of other items come between.  So is each text and each summary of reasoning, unless
\* a tool call of a chat completion shares the text's index; and an answer that breaks off is
\* one's beginning.  (The decoders' state by index, the processors' buffers and Collect.)
MixedChat == api = "chat" /\ HasTool /\ OfKind("text") # {}
CollectedWhole ==
  /\ Answered => got.toolCalls = GivenCalls
  /\ Answered /\ ~MixedChat =>
       /\ TextOnly(got.content) = TextOnly(Parts({}))
       /\ api # "responses" => got.content = Parts(Hidden)
  /\ over /\ ~Answered =>
       IsPrefix(TextOf(got.content, "text"), Concat([i \in DOMAIN TextOnly(Parts({})) |-> TextOnly(Parts({}))[i].text]))

\* Where the endpoint streams tool calls, and where it streams text beside them.
RelaysCalls ==
  \/ ep = "messages" /\ api # "chat"
  \/ ep = "responses"
  \/ ep = "chat" /\ api \in {"messages", "chat"} /\ Cardinality(OfKind("tool")) < 2
RelaysText == HasTool => ep = "messages" /\ api # "chat"

\* The client downstream reads, of what is streamed to it, the calls and the text that the
\* body which is not streamed would hold: two code paths of each endpoint, tested apart.
StreamedAsBody ==
  /\ Answered /\ RelaysCalls => seen.toolCalls = Body(ep, got).toolCalls
  /\ Answered /\ RelaysText => TextOf(seen.content, "text") = Body(ep, got).text

\* It takes an answer for finished just when the provider finished it.  (What a
\* CompletionInjector makes up is unknown to all but the Responses endpoint.)
Injects == \E i \in DOMAIN kinds : kinds[i] = "inject"
FinishRelayed ==
  over =>
    /\ Answered => got.finish \in Reasons /\ (ended # "stop" => got.finish = ended)
    /\ Answered /\ RelaysCalls => seen.finish = got.finish
    /\ ~Answered /\ ~Injects => seen.finish = "" /\ got.finish = ""
    /\ ~Answered /\ ep # "responses" => seen.finish \in {"", "unknown"}

\* The tokens counted are those the provider reported.
UsageAddsUp ==
  Answered => /\ InputTotal(got.tokens) = InputTotal(tokens)
              /\ OutputTotal(got.tokens) = OutputTotal(tokens)
=============================================================================
