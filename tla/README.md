# TLA+ models of llmadapter

Models, model checks and proofs for this repository: a Go library, a gateway and a command
line that translate between LLM APIs (Anthropic Messages, OpenAI Chat Completions, OpenAI
Responses and its Codex variant, Bedrock) and route requests among providers. File and line
references are to the repository's source. `PROJECT.json` holds the same information for
tools: the components, the runs, the lines each definition models, the mutants that each
property detects, the hazards and the findings.

    tlc -workers 2 -config codex_turn.cfg MCCodexSession     # one run
    tlapm CodexSession_proofs.tla                            # the proofs of one module

## The system

A caller (a library user, or a gateway handler for a downstream HTTP client) makes a
`unified.Request`. The **gateway** or the **mux client** asks the **router** for ranked
candidate routes and tries them in order. A route's **provider client** encodes the request,
opens a **transport** (HTTP/SSE under retries, or a pooled WebSocket), and starts a goroutine
that decodes frames into `unified.Event`s on an unbuffered channel. The events pass through a
chain of further goroutines (event processors, pricing, the mux client's route event) to the
consumer: `unified.Collect`, or an **endpoint codec** that writes the downstream response.
Nothing is shared between requests but the WebSocket sessions, the continuation state, the
health tracker and the authentication tokens; these, and the channels, are where the hard
behaviours are.

| Component | State | Operations | Hard behaviours | What makes it correct |
| --- | --- | --- | --- | --- |
| Shared WebSocket session (`providers/openai/internal/responsesws`) | a mutex, the pooled stream and its session ID | `Acquire`, `OpenOrWrite`, `CloseLocked` | the lock is held from open to close of a stream, by a goroutine other than the one that took it; waiters ignore their context | one turn at a time per connection; no connection forgotten; the lock given back on every path |
| Codex client (`providers/openai/codex/client.go`) | per turn: wrappers of wrappers of a stream, with closures over the session's unlock | `Open`, `Recv`, staged recovery, `Close` | a WebSocket that closes before output is replayed on a fresh one, then over HTTP/SSE; any step of the recovery may fail | output from one attempt; failed turns leave nothing behind; every call ends and lets the next one in |
| Codex continuation (`codex/session.go`) | a map from session and branch to the last completed turn | `prepare`, `commitResponse`, `setTurnState`, `invalidate` | decided before the session is acquired, applied after | what a continued turn leaves out of its input, the service has |
| OpenAI Responses client (`providers/openai/responses`) | as above, without continuation | `Request`, `openWebSocket`, `readStream` | a stream is pooled again whether or not it was read to its end; auto mode falls back to HTTP/SSE | a caller sees its own response; the lock is given back |
| Gateway (`gateway`, `internal/routeattempt`) | a health tracker shared by all requests; per request: the routes, the failures, whether bytes were written | `ServeHTTP`, `orderByHealth`, `MarkFailure`, `MarkSuccess` | requests change the tracker between each other's reads; attempts fail before or after bytes are written | no candidate left out or tried twice; no second route after the first byte |
| Mux client (`muxclient`) | none between requests | `Request`, `prependRouteEvent` | the goroutine relays one channel to another under a context | the route event comes once, before the events; the goroutine ends |
| WebSocket stream (`transport/websocket.go`) | a read pump with a channel of 32, write and close locks | `Write`, `Recv`, `Close` | the pump answers pings only while it is not blocked | pings answered on idle connections; frames in order; the pump ends |
| Retry and HTTP transports (`transport/retry.go`, `http.go`, `sse.go`, `ndjson.go`) | the attempt, the backoff; the line and the frame under way | `Open`, `Recv` | Retry-After against backoff against the context; a CRLF torn apart | at most `MaxRetries + 1` opens, each with the whole body; the frames the body has |
| Event pipeline (`pipeline`, `adapterconfig/runtime.go`, `anthropic/messages/adapted.go`) | buffered text, the channel pair | `Chain.Push`, `Chain.Close`, `Transform`, `processEventStream` | an error or an end of the context in one goroutine of a chain | nothing lost, repeated or reordered; every goroutine ends |
| Decoders (`responses/codec.go`, `chatcompletions/codec.go`, `messages/decoder.go`, `converse/client.go`) | started and completed tool calls, pending JSON | `push`, `done` | any order of frames | each block and tool call opened once and closed once |
| Codecs of requests (`providers/*/codec.go`, `converse/request.go`, `endpoints/*`) | none; a map of extensions shared by the attempts of a request | decode, encode, `RequestForRoute` | two translations in a row, written apart | no part of a conversation and no option disappears without a warning |
| `unified.Collect`, endpoint codecs (`endpoints/*`) | the open blocks, the stream state | `Collect`, `writeStream`, `WriteError` | an error event before or after the header | what is streamed and what is collected agree |
| Router (`router`, `adapterconfig/runtime.go`, `model_resolution.go`) | the table of routes, fixed at start | `Routes`; resolution without a router | exact against dynamic routes, what a catalog says of a model, aliases | a candidate can do what is asked; router and resolution agree |
| OAuth and Codex tokens (`messages/oauth.go`, `codex/auth.go`, `bedrock/.../mantleauth`) | a token in memory and in a file shared by processes | `Token`, `refresh`, `Save` | refresh tokens are spent by use; crash between refresh and save | the file never holds a spent refresh token for good |
| Configuration (`adapterconfig`, `modelmeta`, `providerregistry`) | a catalog and aliases, fixed at start | resolution of models and use cases | overlays that shadow each other | deterministic choice |
| Compatibility, conformance, pricing, diagnostics, `cmd` | none, or a report | evaluation, printing | - | - |

## Modules

| Module | Models |
| --- | --- |
| `ResponsesWs` | the shared WebSocket session, as operators for its clients to build steps from |
| `Continuation` | what the Codex client remembers of a conversation and how it decides (pure operators) |
| `CodexSession` | concurrent turns on one Codex client; EXTENDS `ResponsesWs`, INSTANCEs `Continuation` |
| `ConnLease` | abstract specification: what a pool of connections promises; `CodexSession` implements it |
| `ResponsesClient` | concurrent calls of one Responses client, with the frames on its connections; EXTENDS `ResponsesWs` |
| `ByteStream` | one stream of bytes: opening with retries, SSE, NDJSON and raw framing, and the WebSocket's read pump |
| `Tokens` | the credentials of Claude, Codex and Bedrock in several processes, or several calls, at once |
| `Gateway` | concurrent requests of one gateway and its health tracker |
| `EventStream` | the goroutines between one request's transport and the consumer of its events |
| `UnifiedEvents` | unified events and `Collect` (pure operators) |
| `MessagesStream`, `ChatStream`, `ResponsesStream`, `ConverseStream` | the frames of a provider's API, how an answer is written in them, and the decoder (pure operators) |
| `Processors` | the coalescer, the filter and the injector, and the chain of them (pure operators) |
| `EndpointStreams` | what each endpoint writes of unified events, streamed and not (pure operators) |
| `Exchange` | one answer from provider to client: composes the five rows above |
| `Requests` | unified requests, and how the endpoints decode them (pure operators) |
| `Encoders` | how the providers' clients encode them (pure operators) |
| `Dialogue` | a conversation of several turns over several routes: composes `Requests` and `Encoders` with `internal/routeattempt` |
| `Catalog` | providers, their models and what those can do (pure operators) |
| `Configs` | auto-detection, defaults and validation of a configuration (pure operators) |
| `Routing` | from a configuration to the routes of a request, by the router and by the resolution: composes `Catalog` and `Configs` |
| `MC*` | the constants of the runs |
| `CodexSession_proofs`, `ResponsesClient_proofs`, `Gateway_proofs`, `EventStream_proofs`, `ByteStream_proofs`, `Tokens_proofs`, `Dialogue_proofs`, `Routing_proofs` | theorems about the module they are named after (`CodexSession_proofs`: also that `CodexSession` implements `ConnLease`) |

### ResponsesWs

`lock` is `Session.mu` and names the call that holds it; `pool` is `sessionID` and `stream`;
`conns` is the client's end of every connection there ever was. `OpenOrWrite` has four
outcomes, each an operator: `ReuseStream`, `WriteFails` (the pooled stream refuses the frame:
it is closed and no dial is tried), `DialStream` and `DialFails`. The whole of `OpenOrWrite`
is one step: the lock is held throughout and nobody else reads or writes `pool`. `Unlock` is
the closure that `Acquire` returns: a `sync.Once`, so only its first call counts.

### CodexSession

A call is one goroutine at a time (`Open` runs in the caller's, the rest in `readStream`'s),
and `pc` is the place it has reached; the table at the top of the module lists them. Between
two steps of a call any other call may step. The steps are cut where the code blocks or where
another goroutine can see a difference: `Prepare` (the continuation decision, under the
manager's own mutex), `Acquire` (may block), one step per outcome of `OpenOrWrite`, one per
frame, one per stage of recovery, one per kind of `Close`. Connections and responses are named
after the call and the attempt that made them, so a name identifies what came from where:
`shown` is what the caller has been sent, by attempt, and `context` is the service's side: the
input it has been given to answer, which is what a `previous_response_id` stands for.

Request bodies are records of a profile, the input items and the rest; hashes are the hashed
things themselves, so equality of hashes is equality. The prefix test of `prepare` and the
trimming of `withPreviousResponseID` are operators of `Continuation`.

### ResponsesClient

As `CodexSession`, but the frames are modelled: `todo` is what the service has been asked on a
connection, `inbox` what it has sent and nobody has read. Both stay with the connection when
it goes back to the pool, which is the point. `ended` records how a stream ended (`left`: it
was abandoned between two `Recv`s) and `seen` whose responses the caller was shown.

### Gateway

A request is one `ServeHTTP` goroutine. Every lock of `HealthTracker.mu` is a step: one per
route that `orderByHealth` asks about (with the time it took at its start, so failures may be
newer than its clock), one per `MarkFailure` and `MarkSuccess`. Attempts end in any way; the
model keeps only what the loop branches on: retryable or not, and whether bytes were written
before.

### EventStream

A chain of one to four goroutines on unbuffered channels, under one context: `read` is
`readStream` of the clients, `adapt` is `AdaptedClient.stream`, `process` is
`processEventStream`, `route` is `prependRouteEvent`. `out[i]` is what stage `i` has yet to
send before it receives again; a rendezvous on a channel (`Transfer`, `Consume`) is a step of
both sides. A `select` with several cases ready is a disjunction: a stage that sends, an error
included, may give up for the end of its context (`SendInterrupted`), and one that receives
may see that end first (`Interrupted`) or an event or the closed channel. `Processed` is what
`Chain.Push` and `TextCoalescer` do to the deltas of one block: let through, hold back, fail.
`Collect` and `writeStream` leave their loops alike and are one consumer.

### ByteStream

`kind` chooses between `RetryTransport` over HTTP and a WebSocket. An attempt to open fails in
any way, and `backoff` and `delay` are the loop's variables; `delay` is computed as the code
computes it, in signed integers of which `MaxDuration` is the greatest, so a `Retry-After` can
wrap. Then `Recv` reads
the body a byte at a time and cuts it; a body is made of `x`, `CR` and `LF`, and every body of
up to `MaxBytes` of them is tried. The reference definition of the frames (`Lines`, `FramesIn`)
looks at the whole body at once: where lines end, and where runs of lines that are not empty
start and end, each as a set of places, taken in order (`Ascending`). On a WebSocket the pump and whoever calls `Recv` step apart:
`pump` is where it stands, `inHand` what it is to send, `readCh` the bounded channel. A `Recv`
under a context that ends leaves the message for the next turn (`NextTurn`).

### Tokens

`store` chooses whose holders these are. A step of a holder is one system call or one answer
of the service: the temporary file is created, written and renamed (`claude`), or the file
truncated and written (`codex`); saves fail and processes stop between them. `current` is the refresh
token that the service accepts, `lost` says that an answer never reached a file. For `aws`
there is no file: the holders are calls that presign without the lock and store what they made.

### UnifiedEvents to Exchange

A text is the sequence of its pieces and a usage a record of numbers. An action of `Exchange`
is the provider's: it starts an item, gives a piece, ends an item, or ends the answer for a
reason, by failing or by breaking off; the pieces of several items may interleave where the
API allows it. With it goes all that follows on it: the frame is decoded (the decoder's state
is `dec`), its events pass the chain (`procs`), `Collect` takes them (`got`), the endpoint's
stream state makes frames of them (`st`), and a client that is this library again decodes and
collects those (`seen`). `Body` is what the same endpoint writes from `Collect`'s result when
nothing is streamed. `MaxBytes` is the coalescer's limit, in pieces.

### Requests, Encoders, Dialogue

An item of a conversation is who said it, its kind, its number, and for a result the call it
answers. An option is a name and a value from the few that the code tells apart. `Requests`
has `unified.Request` and what an endpoint makes of a body; `Encoders` what each client makes
of a request: `sent` is what goes out, with the warnings. `Dialogue` has a client say something,
an endpoint decode the history, and the routes tried in turn; `metadata` is the extension map
that the attempts share, a Go map and so one for all copies of the request.

### Catalog, Configs, Routing

A configuration comes from detected credentials with options (`AutoMuxClient`), or is written.
`Routing` builds the table as `buildRouter` does, and then every request of `Requests` is asked
of `Routes` and, for its model and API, of the resolution. `table`, `routed` and `inspected` are
what came out of each. The catalog (the library `modeldb`) is external: a few offerings of each
kind that the code tells apart. Every sort of the code is an order and a sequence that has it
(`Ordered`, `InTurn`, `Ascending`), without a sorting function: the places of a set's members are
how many come before each. Providers of one type are detected in the order of their names
(`TypePlace`). `CatalogAssumption` says of a catalog what its keys make true: a service offers
one model under one wire name, and no model has an empty one. `RoutingAssumption` says that the
configurations and options tried are ones there can be.

## Runs

Passing runs; TLC explores every state of each.

| Run | Instance | Shows |
| --- | --- | --- |
| `codex_session` | 3 calls at once on two branches of a session and on another session | the lock covers each turn on every path; no socket leaks; the continuation map holds completed turns of its own branch; the whole input is answered |
| `codex_turn` | 2 calls on a session and without one, two models, frames created/reasoning/text, turn states | text from one attempt; a failed turn leaves neither connection nor continuation; `ConnLease` is implemented |
| `codex_live` | 2 calls, two sessions, both interaction modes, error frames, fairness | every call ends, those that wait for the session too |
| `responses_session` | 2 calls on two sessions and without one, auto mode, garbled and error frames, fairness | the lock, no stray connections; frames of another call only after one that left in the middle, and never across sessions; waiters are served |
| `byte_stream` | retries up to 3, Durations of 6 bits, bodies of up to 6 bytes in three formats, four WebSockets, fairness | what is waited and how often it is tried; the frames of the body; messages in order; pings answered and the pump's end |
| `tokens` | 2 processes on one file, or 2 calls of a provider; 3 refreshes, clock to 5 | the file is whole; the accepted refresh token is stored; nothing is cached too long; refused only if overtaken |
| `gateway_fallback` | 2 requests, 3 routes, cooldown 2 of 4 clock values, limits none and 2 | no candidate skipped or repeated, rank kept but for failures, no fallback after bytes |
| `stream_relay` | chains of one to four stages, with and without warnings; metadata first, between, and an error event among what the transport delivers; fairness | order without gaps; the route event; no failure taken for success; goroutines end with the context; the consumer returns |
| `exchange` | four APIs, three endpoints, three chains of processors, answers of up to 3 items of up to 2 pieces | collected whole; what is streamed reads like the body; reasons to finish and usage kept |
| `dialogue` | every caller with every provider; two turns with tools; each option on its own, those that meet together; two routes | conversation and options kept or warned of; results after their calls; thinking within its limits; metadata of its own route |
| `routing` | every set of five kinds of credentials under four sets of options, and five written configurations; 11 models | candidates serve; intents and aliases are routed; dynamic routes serve the rest; the resolution agrees |

One run is expected to be violated; it is the finding of `PROJECT.json`, with the sentence it
contradicts.

| Run | What TLC finds |
| --- | --- |
| `codex_discard` | a call decides to continue, waits, and continues a response that the call before it discarded |

Properties are stated for what the code does promise. Where one excepts a case
(`MixedChat`, `RelaysCalls`, `RelaysText` of `Exchange`; `Apart`, `Immaterial` of `Dialogue`;
an SSE body whose last line is not ended in `ByteStream`; routes without a model in `Routing`)
the exception is an oddity of the code, and listed below.

### Bounds

In `CodexSession` three calls are enough for a holder, a waiter and one that decided in
between; the races of interest involve two calls on the same branch and one that intervenes
from elsewhere. Calls are not reused, so a behaviour has at most three turns: two turns make a
continuation and the third finds it. A call dials at most two connections by the code (its turn
and one replay). `MaxInFlight` limits concurrency where a run is about a sequence. In
`ResponsesClient`, `MaxBuffered` bounds the frames unread on a connection: one is enough to be
left behind, and the service refills it. In `Gateway` the clock runs to `MaxTime`; a failure
expires within it and another outlives it. In `EventStream`, `MaxStages` is the longest chain
that fairness is stated for: an Anthropic route with pricing behind a mux client has the four
stages; two metadata events and two deltas are enough for a stage to hold one while another
passes. In `ByteStream`, six bytes hold two frames of a line each with a CRLF between them, or
a frame of two lines; a `readCh` of two is full with three messages, and there are four; of
`MCRetryAfters` two wrap, one to a negative and one to a positive delay. In `Tokens`, `Life`
and `Skew` are the least that tell an expired token from one about to expire; with three
refreshes each of two holders is overtaken once and overtakes once; `MaxTime` lets tokens
expire twice. In `Exchange`, three items let two be open while a third passes, and two pieces
let them interleave. In `Dialogue` the second turn is the first to contain what a provider
answered. Symmetry is over calls, requests or holders, whose names no definition distinguishes;
of the runs with liveness properties none uses it.

### Fairness

`WF` of a call's own steps: goroutines that can run, run. `SF` of `Acquire`: `sync.Mutex` hands
the lock to a waiter that has waited for more than a millisecond, so a waiter that finds the
lock free again and again is served. The end of a turn (`RecvCompleted`, `RecvClosed` or
`RecvFails`, weakly fair together; `RecvFails`, strongly fair, in `FairSpec` of
`ResponsesClient`) is not the code's doing: it says that a silent service is eventually cut off
by the network or the caller's context. In `EventStream` each goroutine is weakly fair, and the
transport delivers, ends or fails in the end, by the same assumption. In `ByteStream` the pump,
a `Recv` under way and the loop of `Open` are, and bodies end; nobody has to call `Recv` for
`PumpServes`. No fairness is assumed of callers, of the service's choice of frames, or of HTTP
opens succeeding.

## Proofs

`CodexSession_proofs`, for all sets of calls, sessions, keys and
bodies, under the named assumptions of the modules
(`WsAssumption`, `CodexAssumption`: `None` is none of the values, bodies are finite sequences).

* `TypeCorrect`, `SessionSafe`, `NoLeaks`: `TypeOK`, `SessionDiscipline` and
  `NoLeakedConnection` together are inductive once the fact is added that a call past
  `Prepare` has a key of `Keys` and, on the WebSocket, a session (`IInv` of
  `CodexSession_proofs`). `SessionDiscipline` alone is not: that `CloseLocked` closes the
  connection a turn reads needs the pool to be the turn's, and that `Dial` may close what is
  pooled needs that nobody else reads it, which is the lock's part. The proof has a lemma per
  part (`TypeStep`, `CallsStep`, `DisciplineStep`, `LeakStep`) with one case per action.
* `RemembersSafe`: from `IInv` and `LastIdIsOwn`: a stream's last response ID, if any, is its
  own call's and attempt's. A commit is by a call that holds the lock, has completed, and
  whose attempt no longer changes.
* `TextSafe`: `TextIsOfAttempt` says that text which was shown is of the call's present attempt,
  and that a call which showed some is past recovery: its stream has `started`, and a replay
  begins an attempt only where that is not so.
* `AnswersSafe`: `ContextsWhole` says that a decision to continue is one to continue a turn that
  is over, whose input is a prefix of this one's (from `RemembersCompletedTurns`; the turn may be
  forgotten since, but what was decided stays true), and that every context the service has holds
  all that the caller wrote. `SentWhole` is the step: what `withPreviousResponseID` leaves out is
  the prefix that was answered and items of the assistant. It rests on lemmas about sequences of
  any length, by induction: `CallersItemsConcat`, `DropLeadingFacts`, `TrimmedFacts`.
* `FailuresForget`: an action property from the same invariant: the pooled connection is the
  one the turn reads, so closing the session closes it.
* `ImplementsLease`: the refinement of `ConnLease`. `LeaseViewHolds` derives from `IInv` what
  the mapping shows: at most one connection is open, it is the pooled one, and its only
  possible reader holds the lock. Each action then changes at most two connections, and one
  lemma for each kind of change (`DialStep`, `PooledStep`, `DropStep`, `QuietStep`) maps it to
  `Take`, `Replace`, `Finish`, `GiveBack`, `Drop` or a stutter.

`ResponsesClient_proofs`, from `WsAssumption` and `ResponsesAssumption`:

* `TypeCorrect`, `LockSafe`, `ConnectionsSafe`: `LockInv` adds to the properties what a call's
  place says of its connection (`CallOK`), that a stream reads what is pooled until it fails
  (`ReadsPooled`), and that what is pooled is open. `NoStrayConnection` alone is not inductive:
  that `Close` may leave a connection open needs the pool to hold it.
* `SessionsApart`: `OwnerInv`: the calls that share a connection have one session, and what is
  on a connection, or was read from it, answers calls that used it.
* `OthersSafe`: `CleanInv`: on a connection nobody left in the middle, only the reader's own
  response is under way, its last frame is the last, and a pooled connection nobody reads has
  nothing more to say. The calls that did leave are excepted throughout, by `Clean`.

`Gateway_proofs`, from `GatewayAssumption` (the candidates are a non-empty sequence without
repetitions):

* `TypeCorrect`, `CandidatesSafe`, `FallbackSafe`: `RequestOK`: while they are ordered, the
  candidates are dealt out over `ahead`, `queue` and `late`, each in one place and there once;
  afterwards over `tried` and `queue`. Nothing in it depends on the tracker, which is why the
  steps of other requests cannot disturb it. Three lemmas say what append, tail and
  concatenation make of sequences without repetitions.
* `RankingSafe`: `Ranked`: the passes of `orderByHealth` deal out the candidates in the
  router's order, to `queue` and to `late`, so both ascend and what is still `ahead` ranks
  lower; from then on every pair in `tried` and `queue` is in order or `Excused` by `late`.

`Tokens_proofs`, from `TokensAssumption` and `NoneIsNoFile`, for any number of holders:

* `TypeCorrect`, `CredentialsSafe`, `StoredSafe`, `CachedSafe`, `RefusedSafe`: with a service
  that rotates, a holder that has the accepted refresh token in hand is alone with it
  (`Alone`): neither the file nor another holder has it, until it is stored or lost. That one
  token is what serialises the writers of the one temporary file, which no lock does; without
  `Alone`, `CredentialsWhole` is not inductive.

`EventStream_proofs`, from `StreamAssumption` alone, for chains of any length and deliveries of
any kind:

* `StreamInvariant`: `IInv`: every event of the provider is in one place (to be read, with one
  stage, received, folded or lost), a place nearer to the consumer has the earlier ones
  (`InOrder`, `AllSorted`), and whatever lies behind a lost event lies behind a stage that
  takes no more (`NoGap`). `RouteFirst` says where the route event is, and `Alarmed` that, while
  the context lasts, only a failure on its way down makes a stage return early.
* `InOrderSafe`, `FailuresReach`: the two safety properties of `stream_relay`, from it. The
  twelve actions come down to four kinds of change to the places (`Fetches`, `Hands`, `Eats`,
  `Quits`), and there is a lemma for each kind and each part; that a stage gives up, however
  it comes to, is one kind of step (`Quit`).

`ByteStream_proofs`, from `StreamConfig` (a `Retry-After` and a backoff are durations, the doubled
backoff is one too, messages are finite sequences):

* `TypesCorrect`: every variable's type, the readers' states for every byte included.
* `RetriesCorrect`: `Retried`: there is one failure for each attempt so far, all but the last of
  them retryable, `backoff` is the first one doubled as often, up to `MaxBackoff`, and a `delay`
  is what the last failure asks for, if that did not wrap, or `backoff`. `Doubled` is a recursive
  function; what it computes is by induction (`DoublesExist`, `DoubledIs`).
* `MessagesCorrect`: `Ordered`: what is on the wire is the rest of what is sent (`WireIsRest`); a
  text is with the caller, in `readCh`, with the pump or still to be read, the nearer the earlier
  (`TextsSorted`), and none is missing before one that was delivered, nor, until the pump has
  ended, before one that it has read (`NoTextMissing`). That a `Recv` under an ended context takes
  nothing is where it would break. The steps of the pump and those of `Recv` have a lemma each.

* `FramesCorrect`: `FramesInv`: between two bytes, what `Recv` returned and what the reader keeps
  are what the bytes so far say. Of SSE (`AmidSSE`): a CR is kept just when the last byte is one;
  with the line that it ends settled (`Settled`), `line` is the bytes after the last line end, and
  the whole lines split (`Splits`) into the frames returned and, behind an empty line, those in
  `block`, which no empty line has closed. Of NDJSON (`AmidNDJSON`): the lines that are not empty
  fill the frames (`Fills`). `FramesOfBody` is not inductive: it speaks only of the end. That
  another byte keeps this is `FedSSEFacts` and `FedNDJSONFacts`; they rest on what one more byte
  does to the line ends of a body (`LineEndsOfAppend`: an LF behind a CR adds none), to its lines
  (`LineGoesOn`, `LineEndsHere`), and one more line to the runs of lines (`LineJoins`,
  `LineCloses`, `LineFills`), and on `AscendingGrows`: a new greatest number comes last.

`Dialogue_proofs`, from `ClientsAsk` and, for `ConversationSafe`, `ClientsSay`: clients speak one of the four ways; limits and budgets are
numbers, with 0 for none (nothing in the code rejects a negative one; it is left out of the model);
`thinking` is not an option of a client's own (`unified.Request` has no such field: a budget or an
effort is what it has, and the encoders make the rest of it); tools are functions or server tools:

* `OptionsCorrect`, `ThinkingCorrect`, `MetadataCorrect`: for any set of clients, options and
  routes. One lemma for each encoder (`MessagesFacts`, `ChatFacts`, `ResponsesFacts`,
  `ConverseFacts`) says what becomes of each option on the way, made from a lemma for each helper;
  what ignoring and warning have in common is `Thinner`: some options leave, those that leave
  without being in a given set are warned of, the rest stay as they were. `DecodedFacts` is the
  endpoints' part. The invariant `Routed` ties a request that was sent to what was asked: `body`
  is the client's, `req` its decoding, `sent` the encoding for the route at hand, and without
  extensions no route's metadata is left in the map that the attempts share.

* `ConversationSafe`: for conversations of any length. The invariant `Conversing` adds to `Routed`
  that `body` is written from the conversation so far (`BodyWritten`) and that its items are
  numbered as they came and of kinds their speakers have (`Told`); `ConversationKept` speaks only
  of a request that was sent and is not inductive. The work is one argument through four
  translations, all stated with two notions: what a sequence has (`Members`) and that each two of
  its places are related (`Paired`). A client's messages have its items, each earlier than the
  next (`GroupedFacts`, `Earlier`). What an endpoint makes of them has every item that it does not
  name as dropped, each two in an order that is allowed (`Carries`, `Allowed`): a message's three
  lists move content before calls and results and nothing else, since within a message such a pair
  may pass (`PassFacts`), and messages never pass each other (`AnthropicDecodes`, `ChatDecodes`,
  `InputDecodes`; `ConversationDecoded`). The body of every provider again has all but what it
  names (`Delivers`; `ChatBody`, `ResponsesBody`, `AnthropicBody`, `ConverseBody`), and what the
  encoders do to options leaves it alone (`Steady`). That `Allowed` relates no item to itself makes
  "once" of it. Filters and concatenations are `Picked` and `FlattenSeq`, which `FlattenFacts`
  and `PickedFacts` describe in the two notions.

  `ClientsSay`: users say content, models answer with texts, reasoning and calls, and a system says
  texts. The last is needed: `encodeSystemContentParts` (`providers/anthropic/messages/codec.go:368`)
  leaves out an image in a message of the system without a warning, where the other codecs warn.

`Routing_proofs`, from `CatalogAssumption` and `RoutingAssumption`, for every catalog, detection
and configuration:

* `AllCandidatesServe`, `DynamicServesEverywhere`, `InspectionsAgree`, `IntentsServed`. The
  invariant `RInv` says that the program's state is what the configuration makes of it: a detected
  one has the shape that detection gives it (`Detected`; a written one is one of `Written`,
  `Configured`), `table` is its table (`Built`), and `routed` and `inspected` are its answers
  (`Unasked`, `Answered`). The properties say nothing of how a table came about and so are not
  inductive. The steps are short; the work is what the functions of a configuration do. A sequence
  in an order has the members of its set, whatever the order, so sorting loses no candidate
  (`AllCandidatesServe` needs no more of it). A candidate comes from a fixed route or a dynamic
  one, and each filter leaves what it says (`CandidatesServe`, `DynamicServes`). The resolution's
  two functions and the router's agree row by row (`InspectionAgrees`). For `IntentServed`, what
  detection writes for a name, what the table finds of it and what the router takes are the same
  offering: the first of its service, or of all, in an order of which the lemmas need only that
  it has a first.

Induction: the library's rules take an operator as a parameter, which no installed prover can
instantiate; `LeastNumber` and `Induction` state it for a set of numbers instead, and a recursive
function is shown to exist and unfolded with that. Out of reach are `SelectSeq`, the folds and the
sorting functions of the community modules, whose definitions the provers see as recursive
operators or not at all; `ByteStream`, `Catalog`, `Configs` and `Routing` say what those would by
sets and orders, `Requests`, `Encoders` and `Dialogue` with `FlattenSeq`, which is a recursive
function.

Only model-checked: the properties of `Exchange`, where two ways to go through data of any length
are compared, step by step and at once; `ResultsFollowCalls` of `Dialogue`, which speaks of a fold;
and liveness (`TurnsEnd`, `WaitersServed`, `PumpServes`,
`EveryoneReturns`).

## Met while modelling

Places where the models, being written from the code, differ from what a document, a comment or
another part of the code leads one to expect. No run is kept for these.

Responses and Codex:

* An error frame becomes an `ErrorEvent` and `readStream` goes on to `Recv`
  (`responses/client.go:145`): the channel is not closed behind it, as `DESIGN.md:1326` has it,
  until the context or the connection ends. `WaitersServed` assumes that one of them does.
* `docs/ARCHITECTURE.md:135` "keeps that WebSocket open per session so backend affinity is
  connection-scoped": there is one WebSocket per client (`responsesws/session.go:41-43`). Another
  session's turn closes it, the continuation survives, and its `previous_response_id` is sent on
  a new connection.
* `docs/ARCHITECTURE.md:141` "If the WebSocket fails after output has started, llmadapter returns
  the stream error instead of retrying": reasoning deltas do not count as output
  (`codex/client.go:786-790, 857-863`), so a caller may see the reasoning of two attempts. The
  text is of one (`TextSafe`).
* `DESIGN.md:1332`: `Close` is to release the WebSocket. A half-read connection stays pooled
  (`responses/websocket.go:199-206`, `client.go:166-173`) and the next call
  reads the rest: `OthersFramesOnlyOfLeftCalls`.
* `PLAN.md:1283` "cancelled context returns ctx.Err()": `Collect`'s select may take the closed
  channel first and return a beginning as a whole (`unified/response.go:66-74`); hence `~ctxDone`
  in `NoFailureSwallowed`.

Gateway:

* An error after the header ends the downstream response with nothing written of it
  (`gateway/http.go:60`, against `docs/ARCHITECTURE.md:262`): outcome `cut`.
* `MarkFailure` blames the route whatever the failure, the downstream client's own departure
  included (`gateway/http.go:52`).

Events (`Exchange`):

* In a chat completion the text and the first tool call share index 0, and `Collect` loses the
  text (`chatcompletions/codec.go:293`): `MixedChat`.
* The Responses and Converse decoders emit `MessageDone` before `Completed`
  (`responses/codec.go:533`, `converse/client.go:197`; `DESIGN.md:1002` has it the other way). The
  chat and Messages decoders emit `Completed` before `Usage`, so the Messages and Responses
  endpoints stream no usage from them.
* Chat provider to Messages endpoint: a tool at index 0 is never announced. The chat endpoint
  writes all calls at index 0, and no arguments from Converse or Responses. With a chat provider
  the Responses endpoint sends its message's `output_item.done` after `response.done`.
* The `CompletionInjector`'s "unknown", and "content_filtered", become "completed" at the
  Responses endpoint (`openairesponses/codec.go:350-357`).
* `response.incomplete` is decoded as a `RawEvent`; reasoning deltas of Responses have no block;
  a Converse stream that ends without metadata has no `Completed`; a metadata frame between two
  halves of a torn JSON frame drops the first half (`responses/codec.go:300-312`).

Requests (`Dialogue`):

* `RequestForRoute` (`internal/routeattempt/routeattempt.go:30`) writes the first route's metadata
  into the caller's extension map when there is one; its test ("original request mutated",
  `routeattempt_test.go:85`) has a request without. `PlainMetadataOfRoute` is about those without.
* Dropped without a warning, against `docs/PROVIDER_DEVELOPMENT.md:126`: stop and seed at Responses
  (`responses/codec.go:31`), top_k, seed, effort and cache at chat, user and parallel calls at
  Messages, format, seed, user, parallel calls and cache at Converse, several options at Codex,
  which also forces `store` off. `ApiFields` of `Encoders` says which a client takes.
* Endpoints' decode warnings are never read by the gateway, and its writers ignore
  `WarningEvent`s.
* The Messages endpoint takes server tools for functions, and puts a user's text before the tool
  results beside it; the Responses endpoint makes each call a message of its own, and so what a model
  said after a call stands between the call and its result; parallel results from the chat endpoint
  become consecutive user messages at Converse: `Apart`.
* A message that only had a dropped image is sent empty. Bedrock's Messages turns any enabled
  thinking into adaptive effort "high". Converse checks no reasoning budget against max_tokens.
  `thinkingBudget` does not grow with the effort. `MappingModeStrict` is set by tests only.

Routing:

* `hasExactRoute` (`router/router.go:184`) counts a fixed route's native model and suppresses the
  dynamic routes, while `Routes` matches public names only: a model that is named natively gets no
  route. `modelRouteMatch` (`model_resolution.go:171`) reads the route before it is resolved, so
  `llmadapter resolve` shows a dynamic one. `docs/ARCHITECTURE.md:153` says that both "use the same
  catalog-backed route/native-model decision". `InspectionAgrees` excepts these names.
* `docs/CONFIGURATION.md` ranks by weight, priority, source preference; `routeRank` has the source
  before the priority (`router.go:227-250`), and the resolver ranks in another way still.
* A fixed route without a model, of a provider without one, is not narrowed by the catalog; nor is
  a native name with a region's prefix. Aliases are normalized in auto routes while requests are
  matched exactly. `applyExposureCapabilities` sets prompt caching whatever the base says.

Bytes and tokens:

* `SSEReader` joins a last line that is not ended to the one before (`sse.go:34-39`); NDJSON hands
  out a truncated last line when a body fails; a negative `MaxRetries` makes `Open` return neither
  stream nor error (`retry.go:59-85`).
* A `Retry-After` wraps in a `time.Duration` (`http.go:149-164`); when it wraps to a positive one,
  that is waited: `RetriesAsAsked` says `asked \in 1..MaxDuration`.
* With a service that does not rotate refresh tokens, two processes that share `<path>.tmp` can
  rename a truncated file into place; `CredentialsWhole` is about one that does. A `Save` that
  fails after a rotation loses the token: `lost`.

## Not modelled

Contents of frames and bodies beyond what the code branches on, JSON, header names, logging.
`RateLimitedTransport` (`ratelimit.go:14-21`: a wait on an external limiter), decompression, and
the reading of an HTTP error's body (`http.go:71-132`). The login flows, the headers of Claude Code
and of Codex. Citations, file parts, and extensions that no codec reads. Prices. Use-case selection
and the inspection of a configuration. Pricing clients and `pipeline.Transform`, which has no
caller. The components marked `not_modelled` in `PROJECT.json` (command line and proxy, server
wiring, compatibility reports, diagnostics, quota headers, test fakes), each with its reason there.

## Plan

Left, in this order:

1. `ResultsFollowCalls` of `Dialogue` by the way of `ConversationKept`, with runs of messages in
   place of the fold; then the properties of `Exchange`.
2. `Gateway` composed with `ResponsesClient`, for an attempt that outlives its failure and keeps
   the session that the next attempt waits for; the mux client's fallback with it.
3. The goroutine that `requestScopedPricingClient` leaves behind, and `pipeline.Transform`, as
   further stages of `EventStream`.
4. Use-case selection and compatibility evidence on top of `Routing`.
5. That the chain of `EventStream` refines a single relay of any length.
