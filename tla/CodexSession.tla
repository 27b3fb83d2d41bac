---------------------------- MODULE CodexSession -----------------------------
(***************************************************************************)
(* Concurrent turns on one Codex client (providers/openai/codex/client.go) *)
(* from codexTransport.Open to the Close of the stream it returned: the    *)
(* continuation decision, the shared WebSocket session, the frames of the  *)
(* turn, the staged recovery (fresh WebSocket, then HTTP/SSE) and the      *)
(* commit.  A call is one goroutine; pc names the place it has reached:    *)
(*                                                                         *)
(*   idle    not made yet          stream  reading its WebSocket           *)
(*   wait    blocked in Acquire    recover in recoverPreStart/recoverHTTP  *)
(*   open    first OpenOrWrite     closing Recv failed, Close is next      *)
(*   lost    errCodexWebSocketSessionLost, the replay is next              *)
(*   http    opening HTTP/SSE      sse     reading it                      *)
(*   done    over                                                          *)
(*                                                                         *)
(* The attempts of a turn are 1 (its first WebSocket), 2 (the replay on a  *)
(* fresh one) and 3 (HTTP/SSE); a response is named <<call, attempt>>.     *)
(* The network and the service are the nondeterminism of the actions: any  *)
(* dial, write or read may fail, and any frame may come next.              *)
(***************************************************************************)
EXTENDS ResponsesWs, Sequences, SequencesExt, FiniteSets

CONSTANTS Keys,            \* continuationKeys: [session, branch]; session may be None
          Bodies,          \* request bodies (see Continuation)
          Assistant,       \* the input items of role "assistant"
          Modes,           \* the interaction modes callers use
          Frames,          \* the kinds of frame a response may hold
          SendsTurnState,  \* whether responses carry a turn-state header
          MaxInFlight      \* how many calls the callers keep in flight

INSTANCE Continuation

NoKey     == [session |-> None, branch |-> None]
Attempts  == 1..3
Responses == Requests \X Attempts
FrameKinds == {"created", "reasoning", "text", "error"}

ASSUME CodexAssumption ==
  /\ \A k \in Keys : k.session \in Sessions \cup {None}
  /\ \A b \in Bodies : b.input \in Seq(Range(b.input))
  /\ None \notin Bodies \cup Responses
  /\ Modes \subseteq {"session", "one_shot"}
  /\ Frames \subseteq FrameKinds
  /\ SendsTurnState \in BOOLEAN
  /\ MaxInFlight \in Nat

VARIABLES pc,         \* where each call is
          key,        \* its session and branch
          body,       \* its request body, after mutateCodexBody
          decision,   \* its continuationDecision
          attempt,    \* the attempt it is on (0: none opened)
          conn,       \* the WebSocket it reads or last read, or None
          stage,      \* codexRecoveryStage
          started,    \* codexFallbackByteStream.started
          completed,  \* sseWrappedByteStream.completed of the active stream
          lastId,     \* sseWrappedByteStream.lastResponseID of the active stream
          shown,      \* what the caller was sent: {<<attempt, kind of output>>}
          states,     \* continuationManager.states
          context     \* the service's side: the input it answers in each turn

turnVars == <<attempt, conn, stage, started, completed, lastId, shown, context>>
askVars  == <<key, body, decision>>
vars     == <<pc, states, turnVars, askVars, wsVars>>

Session(r) == key[r].session

-----------------------------------------------------------------------------
\* The continuationManager's methods, on call r's session and branch.
\* Bug: the state is keyed by session only.
UpdateAllBranches(r, state) ==
  states' = [k \in Keys |-> IF k.session = Session(r) THEN state ELSE states[k]]

Update(r, state) == states' = IF Session(r) = None THEN states
                              ELSE [states EXCEPT ![key[r]] = state]

Invalidate(r) == Update(r, NoState)

TurnStateOf(name) == IF SendsTurnState THEN name ELSE None

Commit(r, id) == Update(r, Committed(states[key[r]], body[r], id))

\* Bug: the connection is closed, the continuation is kept.
FailKeepsContinuation(r) == CloseLocked /\ UNCHANGED states

\* failWebSocketSession
FailWebSocketSession(r) == CloseLocked /\ Invalidate(r)

\* The input that attempt a of call r asks the service to answer.
SentContext(r, a) ==
  IF a = 1 /\ decision[r].prev # None
  THEN context[decision[r].prev[1]] \o Trimmed(body[r].input, decision[r].start)
  ELSE body[r].input

\* A stream is at hand: its wrapper is built, its handshake header read.  base is
\* the continuation state the handshake's turn state is recorded in.
BeginStream(r, c, a, next, base) ==
  /\ attempt' = [attempt EXCEPT ![r] = a]
  /\ conn' = [conn EXCEPT ![r] = c]
  /\ stage' = [stage EXCEPT ![r] = next]
  /\ started' = [started EXCEPT ![r] = FALSE]
  /\ completed' = [completed EXCEPT ![r] = FALSE]
  /\ lastId' = [lastId EXCEPT ![r] = None]
  /\ context' = [context EXCEPT ![r] = SentContext(r, a)]
  /\ pc' = [pc EXCEPT ![r] = "stream"]
  /\ Update(r, WithTurnState(base, TurnStateOf(c)))
  /\ UNCHANGED <<shown, askVars>>

GoTo(r, place) == pc' = [pc EXCEPT ![r] = place]

\* The call is over: its stream and what its closures captured are garbage.
Finished(r) ==
  /\ GoTo(r, "done")
  /\ decision' = [decision EXCEPT ![r] = NoDecision]
  /\ stage' = [stage EXCEPT ![r] = "fresh"]
  /\ started' = [started EXCEPT ![r] = FALSE]
  /\ lastId' = [lastId EXCEPT ![r] = None]
  /\ UNCHANGED <<key, body, attempt, conn, completed, shown, context>>

InFlight == {r \in Requests : pc[r] \notin {"idle", "done"}}

-----------------------------------------------------------------------------
Init ==
  /\ WsInit
  /\ pc = [r \in Requests |-> "idle"]
  /\ key = [r \in Requests |-> NoKey]
  /\ body = [r \in Requests |-> None]
  /\ decision = [r \in Requests |-> NoDecision]
  /\ attempt = [r \in Requests |-> 0]
  /\ conn = [r \in Requests |-> None]
  /\ stage = [r \in Requests |-> "fresh"]
  /\ started = [r \in Requests |-> FALSE]
  /\ completed = [r \in Requests |-> FALSE]
  /\ lastId = [r \in Requests |-> None]
  /\ shown = [r \in Requests |-> {}]
  /\ states = [k \in Keys |-> NoState]
  /\ context = [r \in Requests |-> <<>>]

UsesWebSocket(mode, session) == mode = "session" /\ session # None

\* Open, up to the choice of transport.  The continuation is decided here, before
\* the session is acquired.
Prepare(r) ==
  /\ pc[r] = "idle"
  /\ Cardinality(InFlight) < MaxInFlight
  /\ \E k \in Keys, b \in Bodies, mode \in Modes :
       /\ key' = [key EXCEPT ![r] = k]
       /\ body' = [body EXCEPT ![r] = b]
       /\ decision' = [decision EXCEPT ![r] =
                         IF k.session = None THEN NoDecision ELSE Decide(states[k], b)]
       /\ GoTo(r, IF UsesWebSocket(mode, k.session) THEN "wait" ELSE "http")
  /\ UNCHANGED <<states, turnVars, wsVars>>

Acquire(r) ==
  /\ pc[r] = "wait"
  /\ AcquireLock(r)
  /\ GoTo(r, "open")
  /\ UNCHANGED <<pool, conns, states, turnVars, askVars>>

\* The first OpenOrWrite: the pooled connection takes the turn,
OpenReused(r) ==
  /\ pc[r] = "open"
  /\ ReuseStream(Session(r))
  /\ BeginStream(r, pool.conn, 1, "fresh", states[key[r]])
  /\ UNCHANGED lock

\* or a new one does,
OpenDialled(r) ==
  /\ pc[r] = "open"
  /\ DialStream(Session(r), <<r, 1>>)
  /\ BeginStream(r, <<r, 1>>, 1, "fresh", states[key[r]])
  /\ UNCHANGED lock

\* or neither does: errCodexWebSocketSessionLost.
OpenLost(r) ==
  /\ pc[r] = "open"
  /\ WriteFails(Session(r)) \/ DialFails(Session(r))
  /\ GoTo(r, "lost")
  /\ UNCHANGED <<lock, states, turnVars, askVars>>

\* The replay of a lost session, then recoverHTTP: no fresh WebSocket is left to try.
ReplayLost(r) ==
  /\ pc[r] = "lost"
  /\ Dial(Session(r), <<r, 2>>)
  /\ BeginStream(r, <<r, 2>>, 2, "http", NoState)
  /\ UNCHANGED lock

\* The replay cannot be dialled either: unlock, then plain HTTP/SSE.
ReplayLostFails(r) ==
  /\ pc[r] = "lost"
  /\ CloseLocked
  /\ Invalidate(r)
  /\ Unlock(r)
  /\ GoTo(r, "http")
  /\ UNCHANGED <<turnVars, askVars>>

-----------------------------------------------------------------------------
Reading(r) ==
  /\ pc[r] \in {"stream", "sse"} /\ ~completed[r]
  /\ <<attempt[r], "error">> \notin shown[r]

Show(r, kind) == shown' = [shown EXCEPT ![r] = @ \cup {<<attempt[r], kind>>}]

\* A frame that names the response and shows nothing (response.created).
RecvCreated(r) ==
  /\ "created" \in Frames
  /\ pc[r] = "stream" /\ Reading(r)
  /\ lastId' = [lastId EXCEPT ![r] = <<r, attempt[r]>>]
  /\ UNCHANGED <<pc, attempt, conn, stage, started, completed, shown, context,
                 states, askVars, wsVars>>

\* A frame that shows output and is not a commit frame: a reasoning delta.  Recv
\* buffers it, and returns it at the top of its loop although nothing has started.
RecvReasoning(r) ==
  /\ "reasoning" \in Frames
  /\ Reading(r)
  /\ Show(r, "reasoning")
  /\ UNCHANGED <<pc, attempt, conn, stage, started, completed, lastId, context,
                 states, askVars, wsVars>>

\* Bug: a text delta is not a commit frame.
RecvTextUncommitted(r) ==
  /\ "text" \in Frames
  /\ Reading(r)
  /\ Show(r, "text")
  /\ UNCHANGED <<pc, attempt, conn, stage, started, completed, lastId, context,
                 states, askVars, wsVars>>

\* A commit frame: a text or arguments delta.
RecvText(r) ==
  /\ "text" \in Frames
  /\ Reading(r)
  /\ started' = [started EXCEPT ![r] = TRUE]
  /\ Show(r, "text")
  /\ UNCHANGED <<pc, attempt, conn, stage, completed, lastId, context,
                 states, askVars, wsVars>>

\* A service error (error, response.failed): shown, and the reader reads on.
RecvError(r) ==
  /\ "error" \in Frames
  /\ Reading(r)
  /\ Show(r, "error")
  /\ UNCHANGED <<pc, attempt, conn, stage, started, completed, lastId, context,
                 states, askVars, wsVars>>

\* The end of the response, with its ID or without (response.done).
RecvCompleted(r) ==
  /\ pc[r] = "stream" /\ Reading(r)
  /\ \E id \in {<<r, attempt[r]>>, lastId[r]} : lastId' = [lastId EXCEPT ![r] = id]
  /\ started' = [started EXCEPT ![r] = TRUE]
  /\ completed' = [completed EXCEPT ![r] = TRUE]
  /\ UNCHANGED <<pc, attempt, conn, stage, shown, context, states, askVars, wsVars>>

\* The WebSocket closes: the wrapper fails the session, and the fallback stream
\* recovers when nothing has started.
RecvClosed(r) ==
  /\ pc[r] = "stream" /\ ~completed[r]
  /\ FailWebSocketSession(r)
  /\ GoTo(r, IF started[r] THEN "closing" ELSE "recover")
  /\ UNCHANGED <<lock, turnVars, askVars>>

\* Recv fails in any other way: the context ends, the connection is reset.
RecvFails(r) ==
  /\ pc[r] = "stream" /\ ~completed[r]
  /\ FailWebSocketSession(r)
  /\ GoTo(r, "closing")
  /\ UNCHANGED <<lock, turnVars, askVars>>

-----------------------------------------------------------------------------
\* codexRecoveryFreshWebSocket
RecoverFresh(r) ==
  /\ pc[r] = "recover" /\ stage[r] = "fresh"
  /\ Dial(Session(r), <<r, 2>>)
  /\ BeginStream(r, <<r, 2>>, 2, "http", NoState)
  /\ UNCHANGED lock

RecoverFreshFails(r) ==
  /\ pc[r] = "recover" /\ stage[r] = "fresh"
  /\ CloseLocked
  /\ Invalidate(r)
  /\ stage' = [stage EXCEPT ![r] = "http"]
  /\ UNCHANGED <<pc, lock, attempt, conn, started, completed, lastId, shown, context,
                 askVars>>

\* Bug: recovery goes on to HTTP/SSE with the session still locked.
RecoverHTTPKeepsLock(r) ==
  /\ pc[r] = "recover" /\ stage[r] = "http"
  /\ CloseLocked
  /\ stage' = [stage EXCEPT ![r] = "done"]
  /\ GoTo(r, "http")
  /\ UNCHANGED <<lock, states, attempt, conn, started, completed, lastId, shown,
                 context, askVars>>

\* codexRecoveryHTTPSSE, and recoverHTTP: the session is closed and let go first.
RecoverHTTP(r) ==
  /\ pc[r] = "recover" /\ stage[r] = "http"
  /\ CloseLocked
  /\ Unlock(r)
  /\ stage' = [stage EXCEPT ![r] = "done"]
  /\ GoTo(r, "http")
  /\ UNCHANGED <<states, attempt, conn, started, completed, lastId, shown, context,
                 askVars>>

\* openHTTPWithHeader, and the plain HTTP/SSE open at the end of Open.
OpenHTTP(r) ==
  /\ pc[r] = "http"
  /\ attempt' = [attempt EXCEPT ![r] = 3]
  /\ started' = [started EXCEPT ![r] = TRUE]
  /\ completed' = [completed EXCEPT ![r] = FALSE]
  /\ lastId' = [lastId EXCEPT ![r] = None]
  /\ context' = [context EXCEPT ![r] = SentContext(r, 3)]
  /\ Update(r, WithTurnState(states[key[r]], TurnStateOf(<<r, 3>>)))
  /\ GoTo(r, "sse")
  /\ UNCHANGED <<conn, stage, shown, askVars, wsVars>>

OpenHTTPFails(r) ==
  /\ pc[r] = "http"
  /\ Finished(r)
  /\ UNCHANGED <<states, wsVars>>

-----------------------------------------------------------------------------
\* Close of a turn the service completed: commit, unlock, keep the connection.
CloseCompleted(r) ==
  /\ pc[r] = "stream" /\ completed[r]
  /\ Commit(r, lastId[r])
  /\ Unlock(r)
  /\ Finished(r)
  /\ UNCHANGED <<pool, conns>>

\* Bug: a turn left half read hands its connection back.
CloseAbandonedKeepsOpen(r) ==
  /\ pc[r] = "stream" /\ ~completed[r]
  /\ Unlock(r)
  /\ Finished(r)
  /\ UNCHANGED <<pool, conns, states>>

\* Close of a turn the caller leaves before its end.
CloseAbandoned(r) ==
  /\ pc[r] = "stream" /\ ~completed[r]
  /\ FailWebSocketSession(r)
  /\ Unlock(r)
  /\ Finished(r)

\* Close after Recv failed, which has failed the session already.
CloseFailed(r) ==
  /\ pc[r] = "closing"
  /\ Unlock(r)
  /\ Finished(r)
  /\ UNCHANGED <<pool, conns, states>>

\* Close of the HTTP/SSE stream, at its end or before: its wrapper reads no JSON
\* off the SSE frames, and has nothing to commit, fail or unlock.
CloseHTTP(r) ==
  /\ pc[r] = "sse"
  /\ Finished(r)
  /\ UNCHANGED <<states, wsVars>>

-----------------------------------------------------------------------------
Open(r) ==
  \/ Prepare(r) \/ Acquire(r)
  \/ OpenReused(r) \/ OpenDialled(r) \/ OpenLost(r)
  \/ ReplayLost(r) \/ ReplayLostFails(r)

Recv(r) ==
  \/ RecvCreated(r) \/ RecvReasoning(r) \/ RecvText(r) \/ RecvError(r)
  \/ RecvCompleted(r) \/ RecvClosed(r) \/ RecvFails(r)

Recover(r) ==
  \/ RecoverFresh(r) \/ RecoverFreshFails(r) \/ RecoverHTTP(r)
  \/ OpenHTTP(r) \/ OpenHTTPFails(r)

Close(r) ==
  \/ CloseCompleted(r) \/ CloseAbandoned(r) \/ CloseFailed(r) \/ CloseHTTP(r)

Terminated == (\A r \in Requests : pc[r] = "done") /\ UNCHANGED vars

Next ==
  \/ \E r \in Requests : Open(r) \/ Recv(r) \/ Recover(r) \/ Close(r)
  \/ Terminated

Spec == Init /\ [][Next]_vars

\* A call that runs keeps running, sync.Mutex serves its waiters (starvation mode),
\* and a turn ends: its response completes, or its connection or context does.
FairSpec ==
  /\ Spec
  /\ \A r \in Requests :
       /\ SF_vars(Acquire(r))
       /\ WF_vars(OpenReused(r) \/ OpenDialled(r) \/ OpenLost(r))
       /\ WF_vars(ReplayLost(r) \/ ReplayLostFails(r))
       /\ WF_vars(RecvCompleted(r) \/ RecvClosed(r) \/ RecvFails(r))
       /\ WF_vars(Recover(r))
       /\ WF_vars(CloseCompleted(r) \/ CloseFailed(r) \/ CloseHTTP(r))
-----------------------------------------------------------------------------
Holding == {"open", "lost", "stream", "recover", "closing"}

States == [body : Bodies \cup {None}, id : Responses \cup {None},
           turn : Responses \cup {None}]

TypeOK ==
  /\ WsTypeOK
  /\ pc \in [Requests -> Holding \cup {"idle", "wait", "http", "sse", "done"}]
  /\ key \in [Requests -> Keys \cup {NoKey}]
  /\ body \in [Requests -> Bodies \cup {None}]
  /\ decision \in [Requests -> [prev : Responses \cup {None}, start : Nat,
                                turn : Responses \cup {None}]]
  /\ attempt \in [Requests -> 0..3]
  /\ conn \in [Requests -> Conns \cup {None}]
  /\ stage \in [Requests -> {"fresh", "http", "done"}]
  /\ started \in [Requests -> BOOLEAN]
  /\ completed \in [Requests -> BOOLEAN]
  /\ lastId \in [Requests -> Responses \cup {None}]
  /\ shown \in [Requests -> SUBSET (Attempts \X {"reasoning", "text", "error"})]
  /\ states \in [Keys -> States]

\* Session.mu covers a turn from Acquire to its unlock, on every path through
\* recovery, fallback and Close, and the pool only ever holds the connection of
\* the turn that has it, or of nobody's.
SessionDiscipline ==
  /\ \A r \in Requests : lock = r <=> pc[r] \in Holding
  /\ \A r \in Requests : pc[r] = "stream" =>
       pool = [session |-> Session(r), conn |-> conn[r]]
  /\ \A r \in Requests : pc[r] \in {"lost", "recover", "closing"} => pool = NoStream

\* Every connection this client still has open is the pooled one: no way out of a
\* turn forgets a socket.
NoLeakedConnection == \A c \in Conns : conns[c] = "open" <=> pool.conn = c

\* What the client remembers of a conversation is a turn of that conversation whose
\* response the service completed on a WebSocket, with the body it answered.
RemembersCompletedTurns ==
  \A k \in Keys : LET state == states[k] IN
    state.id # None =>
      LET q == state.id[1] IN
        /\ completed[q] /\ pc[q] = "done" /\ state.id[2] = attempt[q]
        /\ key[q] = k
        /\ state.body = body[q]

\* Whatever a turn leaves out of its input because of a previous response, the
\* service has: it answers all the caller wrote, each item once and in order.
AnswersWholeInput ==
  \A r \in Requests : attempt[r] # 0 =>
    CallersItems(context[r]) = CallersItems(body[r].input)

\* Text and tool arguments reach the caller from one attempt only: recovery never
\* repeats a turn that has answered.
TextFromOneAttempt ==
  \A r \in Requests : \A a, b \in Attempts :
    <<a, "text">> \in shown[r] /\ <<b, "text">> \in shown[r] => a = b

\* A WebSocket turn that ends without its response being complete leaves neither a
\* usable connection nor a continuation behind.
Forgets(r) ==
  pc[r] = "stream" /\ pc'[r] # "stream" /\ ~completed[r] =>
    conns'[conn[r]] = "closed" /\ states'[key[r]].id = None

FailedTurnForgets == [][\A r \in Requests : Forgets(r)]_vars

\* Every call that is made ends, one that waits for the session among them.
TurnsEnd == \A r \in Requests : pc[r] # "idle" ~> pc[r] = "done"

-----------------------------------------------------------------------------
\* docs/ARCHITECTURE.md:141: once the continuation state is discarded, the next
\* turns of the conversation replay their history until one of them completes.
DiscardedStaysDiscarded ==
  [][\A r \in Requests :
       pc[r] # "stream" /\ pc'[r] = "stream" /\ attempt'[r] = 1
       /\ states'[key[r]].id = None =>
         decision[r].prev = None]_vars

-----------------------------------------------------------------------------
\* Each connection is a lease of one turn at a time (ConnLease).
Users(c) == {r \in Requests : pc[r] = "stream" /\ conn[r] = c}

LeaseStatus == [c \in Conns |->
  IF conns[c] # "open" THEN conns[c]
  ELSE IF Users(c) = {} THEN "idle"
  ELSE IF \A r \in Users(c) : completed[r] THEN "finished" ELSE "leased"]

Lease == INSTANCE ConnLease
           WITH status <- LeaseStatus, users <- [c \in Conns |-> Users(c)]

LeaseSpec == Lease!Spec
=============================================================================
