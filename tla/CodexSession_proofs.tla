------------------------ MODULE CodexSession_proofs --------------------------
(***************************************************************************)
(* Turns on one Codex client: the lock and the pooled connection, what is   *)
(* remembered of a conversation, what a failed turn leaves behind, what the *)
(* caller is shown, that whatever is continued is answered whole, and that  *)
(* the client keeps its connections as ConnLease promises.                  *)
(***************************************************************************)
EXTENDS CodexSession, TLAPS, WellFoundedInduction

\* What a call has chosen once it is made; a call that asks for the session has a
\* session ID, and one that reads is on some attempt.
CallsWellFormed ==
  \A r \in Requests :
    /\ pc[r] # "idle" => key[r] \in Keys /\ body[r] \in Bodies
    /\ pc[r] \in Holding \cup {"wait"} => Session(r) \in Sessions
    /\ pc[r] \in {"stream", "sse"} => attempt[r] \in Attempts

IInv == TypeOK /\ CallsWellFormed /\ SessionDiscipline /\ NoLeakedConnection

Step(r) == Open(r) \/ Recv(r) \/ Recover(r) \/ Close(r)

LEMMA BodyLength == ASSUME NEW b \in Bodies PROVE Len(b.input) \in Nat
BY CodexAssumption

LEMMA ConnNames ==
  /\ \A r \in Requests : <<r, 1>> \in Conns /\ <<r, 2>> \in Conns
  /\ \A r \in Requests, a \in Attempts : <<r, a>> \in Responses
  /\ Conns \subseteq Responses
  /\ None \notin Conns /\ None \notin Sessions /\ None \notin Requests
BY WsAssumption DEF Conns, Responses, Attempts

LEMMA StateTypes ==
  ASSUME NEW state \in States, NEW c \in Responses
  PROVE  /\ NoState \in States
         /\ WithTurnState(state, TurnStateOf(c)) \in States
         /\ \A b \in Bodies, id \in Responses \cup {None} :
              Committed(state, b, id) \in States
BY DEF States, NoState, WithTurnState, TurnStateOf, Committed

LEMMA DecisionTypes ==
  ASSUME NEW state \in States, NEW b \in Bodies
  PROVE  Decide(state, b) \in [prev : Responses \cup {None}, start : Nat,
                               turn : Responses \cup {None}]
BY BodyLength DEF States, Decide

\* All but the session (WsTypeOK) of what opening a stream assigns.
LEMMA BeginStreamTypes ==
  ASSUME TypeOK, NEW r \in Requests, key[r] \in Keys, Session(r) # None,
         NEW c \in Conns, NEW a \in {1, 2}, NEW next \in {"fresh", "http"},
         NEW base \in States, BeginStream(r, c, a, next, base)
  PROVE  WsTypeOK' => TypeOK'
<1>1. states' \in [Keys -> States]
  BY ConnNames, StateTypes DEF TypeOK, BeginStream, Update
<1> QED
  BY <1>1 DEF TypeOK, BeginStream, Holding, askVars

LEMMA DialTypes ==
  ASSUME WsTypeOK, NEW s \in Sessions, NEW c \in Conns, UNCHANGED lock, Dial(s, c)
  PROVE  WsTypeOK'
BY ConnNames DEF WsTypeOK, Dial, Closed, ConnState, NoStream

LEMMA InitIInv == Init => IInv
<1> SUFFICES ASSUME Init PROVE IInv
  OBVIOUS
<1> USE WsAssumption, CodexAssumption DEF Init
<1>1. TypeOK
  BY DEF WsInit, TypeOK, WsTypeOK, States, ConnState, NoDecision, NoState, Holding
<1>2. CallsWellFormed
  BY DEF CallsWellFormed, Holding
<1>3. SessionDiscipline
  BY DEF SessionDiscipline, WsInit, Holding
<1>4. NoLeakedConnection
  BY DEF NoLeakedConnection, WsInit, NoStream
<1> QED BY <1>1, <1>2, <1>3, <1>4 DEF IInv
\* Every step keeps the types.
LEMMA TypeStep ==
  ASSUME IInv, NEW r \in Requests, Step(r)
  PROVE  TypeOK'
<1> USE ConnNames, StateTypes, DecisionTypes DEF IInv, TypeOK, WsTypeOK,
        CallsWellFormed, Holding, Session, NoStream, ConnState
<1>1. CASE Prepare(r)
  <2>1. decision' \in [Requests -> [prev : Responses \cup {None}, start : Nat,
                                   turn : Responses \cup {None}]]
    BY <1>1, DecisionTypes DEF Prepare, NoDecision
  <2> QED
    BY <1>1, <2>1 DEF Prepare, wsVars, turnVars, GoTo
<1>2. CASE Acquire(r)
  BY <1>2 DEF Acquire, AcquireLock, turnVars, askVars, GoTo
<1>3. CASE OpenReused(r)
  <2>1. pool.conn \in Conns /\ states[key[r]] \in States /\ Session(r) # None
    BY <1>3 DEF OpenReused, Reusable, ReuseStream
  <2> QED
    BY <1>3, <2>1, BeginStreamTypes DEF OpenReused, ReuseStream
<1>4. CASE OpenDialled(r)
  BY <1>4, BeginStreamTypes, DialTypes DEF OpenDialled, DialStream
<1>5. CASE OpenLost(r)
  BY <1>5 DEF OpenLost, Closed, CloseLocked, Reusable, WriteFails, DialFails,
      turnVars, askVars, GoTo
<1>6. CASE ReplayLost(r)
  BY <1>6, BeginStreamTypes, DialTypes DEF ReplayLost
<1>7. CASE ReplayLostFails(r)
  BY <1>7 DEF ReplayLostFails, Unlock, Closed, CloseLocked, turnVars, askVars,
      Update, Invalidate, GoTo
<1>8. CASE RecvCreated(r)
  BY <1>8 DEF RecvCreated, wsVars, askVars, Reading
<1>9. CASE RecvReasoning(r)
  BY <1>9 DEF RecvReasoning, wsVars, askVars, Reading, Show
<1>10. CASE RecvText(r)
  BY <1>10 DEF RecvText, wsVars, askVars, Reading, Show
<1>11. CASE RecvError(r)
  BY <1>11 DEF RecvError, wsVars, askVars, Reading, Show
<1>12. CASE RecvCompleted(r)
  BY <1>12 DEF RecvCompleted, wsVars, askVars, Reading
<1>13. CASE RecvClosed(r)
  BY <1>13 DEF RecvClosed, Closed, CloseLocked, turnVars, askVars, Update,
      Invalidate, FailWebSocketSession, GoTo
<1>14. CASE RecvFails(r)
  BY <1>14 DEF RecvFails, Closed, CloseLocked, turnVars, askVars, Update,
      Invalidate, FailWebSocketSession, GoTo
<1>15. CASE RecoverFresh(r)
  BY <1>15, BeginStreamTypes, DialTypes DEF RecoverFresh
<1>16. CASE RecoverFreshFails(r)
  BY <1>16 DEF RecoverFreshFails, Closed, CloseLocked, askVars, Update,
      Invalidate
<1>17. CASE RecoverHTTP(r)
  BY <1>17 DEF RecoverHTTP, Unlock, Closed, CloseLocked, askVars, GoTo
<1>18. CASE OpenHTTP(r)
  <2>1. states' \in [Keys -> States]
    <3>1. <<r, 3>> \in Responses /\ key[r] \in Keys
      BY <1>18 DEF OpenHTTP, Responses, Attempts
    <3>2. WithTurnState(states[key[r]], TurnStateOf(<<r, 3>>)) \in States
      BY <3>1, StateTypes
    <3> QED
      BY <1>18, <3>2 DEF OpenHTTP, Update
  <2> QED
    BY <1>18, <2>1 DEF OpenHTTP, wsVars, askVars, GoTo
<1>19. CASE OpenHTTPFails(r)
  BY <1>19 DEF OpenHTTPFails, wsVars, NoDecision, GoTo, Finished
<1>20. CASE CloseCompleted(r)
  BY <1>20 DEF CloseCompleted, Unlock, NoDecision, Update, Commit, GoTo,
      Finished
<1>21. CASE CloseAbandoned(r)
  BY <1>21 DEF CloseAbandoned, Unlock, Closed, CloseLocked, NoDecision, Update,
      Invalidate, FailWebSocketSession, GoTo, Finished
<1>22. CASE CloseFailed(r)
  BY <1>22 DEF CloseFailed, Unlock, NoDecision, GoTo, Finished
<1>23. CASE CloseHTTP(r)
  BY <1>23 DEF CloseHTTP, wsVars, NoDecision, GoTo, Finished
<1> QED BY <1>1, <1>2, <1>3, <1>4, <1>5, <1>6, <1>7, <1>8, <1>9, <1>10, <1>11,
          <1>12, <1>13, <1>14, <1>15, <1>16, <1>17, <1>18, <1>19, <1>20, <1>21,
          <1>22, <1>23
             DEF Step, Open, Recv, Recover, Close

\* Only Prepare gives a call its key and body, and it sends none to wait without a
\* session ID.
LEMMA CallsStep ==
  ASSUME IInv, NEW r \in Requests, Step(r)
  PROVE  CallsWellFormed'
<1> USE CodexAssumption DEF IInv, TypeOK, WsTypeOK, CallsWellFormed, Holding,
        Session, Attempts
<1>1. CASE Prepare(r)
  BY <1>1 DEF Prepare, UsesWebSocket, wsVars, NoDecision, turnVars, GoTo
<1>2. CASE \/ Acquire(r) \/ OpenReused(r) \/ OpenDialled(r) \/ OpenLost(r)
          \/ ReplayLost(r) \/ ReplayLostFails(r)
  BY <1>2 DEF Acquire, AcquireLock, turnVars, askVars, GoTo, OpenReused,
      Reusable, ReuseStream, Update, BeginStream, OpenDialled, NoStream, Closed,
      Dial, DialStream, OpenLost, CloseLocked, WriteFails, DialFails,
      ReplayLost, ReplayLostFails, Unlock, Invalidate
<1>3. CASE \/ RecvCreated(r) \/ RecvReasoning(r) \/ RecvText(r)
          \/ RecvError(r) \/ RecvCompleted(r)
  BY <1>3 DEF RecvCreated, wsVars, askVars, Reading, RecvReasoning, Show,
      RecvText, RecvError, RecvCompleted
<1>4. CASE \/ RecvClosed(r) \/ RecvFails(r) \/ RecoverFresh(r) \/ RecoverFreshFails(r) \/ RecoverHTTP(r) \/ OpenHTTP(r)
          \/ OpenHTTPFails(r) \/ CloseCompleted(r) \/ CloseAbandoned(r) \/ CloseFailed(r) \/ CloseHTTP(r)
  BY <1>4 DEF RecvClosed, NoStream, Closed, CloseLocked, turnVars, askVars,
      Update, Invalidate, FailWebSocketSession, GoTo, RecvFails, RecoverFresh,
      Dial, BeginStream, RecoverFreshFails, RecoverHTTP, Unlock, OpenHTTP,
      wsVars, OpenHTTPFails, NoDecision, Finished, CloseCompleted, Commit,
      CloseAbandoned, CloseFailed, CloseHTTP
<1> QED BY <1>1, <1>2, <1>3, <1>4
             DEF Step, Open, Recv, Recover, Close

\* The holder of the lock is the one call that touches the pool, and it lets go of
\* the lock in the step that takes it out of Holding.
LEMMA DisciplineStep ==
  ASSUME IInv, NEW r \in Requests, Step(r)
  PROVE  SessionDiscipline'
<1> USE ConnNames DEF IInv, TypeOK, WsTypeOK, CallsWellFormed, Holding, Session,
        SessionDiscipline, NoStream
<1>1. CASE Prepare(r)
  BY <1>1 DEF Prepare, wsVars, NoDecision, turnVars, GoTo
<1>2. CASE Acquire(r)
  BY <1>2 DEF Acquire, AcquireLock, turnVars, askVars, GoTo
<1>3. CASE OpenReused(r)
  BY <1>3 DEF OpenReused, Reusable, ReuseStream, askVars, Update, BeginStream
<1>4. CASE OpenDialled(r)
  BY <1>4 DEF OpenDialled, Closed, Reusable, Dial, DialStream, askVars, Update,
      BeginStream
<1>5. CASE OpenLost(r)
  BY <1>5 DEF OpenLost, Closed, CloseLocked, Reusable, WriteFails, DialFails,
      turnVars, askVars, GoTo
<1>6. CASE ReplayLost(r)
  BY <1>6 DEF ReplayLost, Closed, Dial, askVars, Update, BeginStream
<1>7. CASE ReplayLostFails(r)
  BY <1>7 DEF ReplayLostFails, Unlock, Closed, CloseLocked, turnVars, askVars,
      Update, Invalidate, GoTo
<1>8. CASE \/ RecvCreated(r) \/ RecvReasoning(r) \/ RecvText(r)
          \/ RecvError(r) \/ RecvCompleted(r)
  BY <1>8 DEF RecvCreated, wsVars, askVars, Reading, RecvReasoning, Show,
      RecvText, RecvError, RecvCompleted
<1>9. CASE RecvClosed(r)
  BY <1>9 DEF RecvClosed, Closed, CloseLocked, turnVars, askVars, Update,
      Invalidate, FailWebSocketSession, GoTo
<1>10. CASE RecvFails(r)
  BY <1>10 DEF RecvFails, Closed, CloseLocked, turnVars, askVars, Update,
      Invalidate, FailWebSocketSession, GoTo
<1>11. CASE RecoverFresh(r)
  BY <1>11 DEF RecoverFresh, Closed, Dial, askVars, Update, BeginStream
<1>12. CASE RecoverFreshFails(r)
  BY <1>12 DEF RecoverFreshFails, Closed, CloseLocked, askVars, Update,
      Invalidate
<1>13. CASE RecoverHTTP(r)
  BY <1>13 DEF RecoverHTTP, Unlock, Closed, CloseLocked, askVars, GoTo
<1>14. CASE OpenHTTP(r)
  BY <1>14 DEF OpenHTTP, wsVars, askVars, Update, GoTo
<1>15. CASE OpenHTTPFails(r)
  BY <1>15 DEF OpenHTTPFails, wsVars, NoDecision, GoTo, Finished
<1>16. CASE CloseCompleted(r)
  BY <1>16 DEF CloseCompleted, Unlock, NoDecision, Update, Commit, GoTo,
      Finished
<1>17. CASE CloseAbandoned(r)
  BY <1>17 DEF CloseAbandoned, Unlock, Closed, CloseLocked, NoDecision, Update,
      Invalidate, FailWebSocketSession, GoTo, Finished
<1>18. CASE CloseFailed(r)
  BY <1>18 DEF CloseFailed, Unlock, NoDecision, GoTo, Finished
<1>19. CASE CloseHTTP(r)
  BY <1>19 DEF CloseHTTP, wsVars, NoDecision, GoTo, Finished
<1> QED BY <1>1, <1>2, <1>3, <1>4, <1>5, <1>6, <1>7, <1>8, <1>9, <1>10, <1>11,
          <1>12, <1>13, <1>14, <1>15, <1>16, <1>17, <1>18, <1>19
             DEF Step, Open, Recv, Recover, Close

\* A connection is opened in the step that pools it and closed in the step that
\* takes it out of the pool.
LEMMA LeakStep ==
  ASSUME IInv, NEW r \in Requests, Step(r)
  PROVE  NoLeakedConnection'
<1> USE ConnNames DEF IInv, TypeOK, WsTypeOK, CallsWellFormed, Holding, Session,
        NoLeakedConnection, NoStream, ConnState
<1>1. CASE Prepare(r) \/ Acquire(r)
  BY <1>1 DEF Prepare, wsVars, NoDecision, turnVars, GoTo, Acquire, AcquireLock,
      askVars
<1>2. CASE OpenReused(r)
  BY <1>2 DEF OpenReused, Reusable, ReuseStream, askVars, Update, BeginStream
<1>3. CASE OpenDialled(r)
  BY <1>3 DEF OpenDialled, Closed, Reusable, Dial, DialStream, askVars, Update,
      BeginStream
<1>4. CASE OpenLost(r)
  BY <1>4 DEF OpenLost, Closed, CloseLocked, Reusable, WriteFails, DialFails,
      turnVars, askVars, GoTo
<1>5. CASE ReplayLost(r)
  BY <1>5 DEF ReplayLost, Closed, Dial, askVars, Update, BeginStream
<1>6. CASE ReplayLostFails(r)
  BY <1>6 DEF ReplayLostFails, Unlock, Closed, CloseLocked, turnVars, askVars,
      Update, Invalidate, GoTo
<1>7. CASE \/ RecvCreated(r) \/ RecvReasoning(r) \/ RecvText(r)
          \/ RecvError(r) \/ RecvCompleted(r)
  BY <1>7 DEF RecvCreated, wsVars, askVars, Reading, RecvReasoning, Show,
      RecvText, RecvError, RecvCompleted
<1>8. CASE RecvClosed(r) \/ RecvFails(r)
  BY <1>8 DEF RecvClosed, Closed, CloseLocked, turnVars, askVars, Update,
      Invalidate, FailWebSocketSession, GoTo, RecvFails
<1>9. CASE RecoverFresh(r)
  BY <1>9 DEF RecoverFresh, Closed, Dial, askVars, Update, BeginStream
<1>10. CASE RecoverFreshFails(r) \/ RecoverHTTP(r)
  BY <1>10 DEF RecoverFreshFails, Closed, CloseLocked, askVars, Update,
      Invalidate, RecoverHTTP, Unlock, GoTo
<1>11. CASE OpenHTTP(r) \/ OpenHTTPFails(r) \/ CloseHTTP(r)
  BY <1>11 DEF OpenHTTP, wsVars, askVars, Update, GoTo, OpenHTTPFails,
      NoDecision, Finished, CloseHTTP
<1>12. CASE CloseCompleted(r) \/ CloseFailed(r)
  BY <1>12 DEF CloseCompleted, Unlock, NoDecision, Update, Commit, GoTo,
      Finished, CloseFailed
<1>13. CASE CloseAbandoned(r)
  BY <1>13 DEF CloseAbandoned, Unlock, Closed, CloseLocked, NoDecision, Update,
      Invalidate, FailWebSocketSession, GoTo, Finished
<1> QED BY <1>1, <1>2, <1>3, <1>4, <1>5, <1>6, <1>7, <1>8, <1>9, <1>10, <1>11,
          <1>12, <1>13
             DEF Step, Open, Recv, Recover, Close


LEMMA StutterStep ==
  ASSUME IInv, UNCHANGED vars
  PROVE  IInv'
BY DEF vars, turnVars, askVars, wsVars, IInv, TypeOK, WsTypeOK, CallsWellFormed,
       SessionDiscipline, NoLeakedConnection, Session

LEMMA StepIInv == IInv /\ [Next]_vars => IInv'
<1> SUFFICES ASSUME IInv, [Next]_vars PROVE IInv'
  OBVIOUS
<1>1. ASSUME NEW r \in Requests, Step(r) PROVE IInv'
  BY <1>1, TypeStep, CallsStep, DisciplineStep, LeakStep DEF IInv
<1>2. CASE Terminated \/ UNCHANGED vars
  BY <1>2, StutterStep DEF Terminated
<1> QED
  BY <1>1, <1>2 DEF Next, Step

\* The inductive invariant holds of every reachable state.
THEOREM Invariance == Spec => []IInv
BY InitIInv, StepIInv, PTL DEF Spec

\* Every variable keeps its type.
THEOREM TypeCorrect == Spec => []TypeOK
BY Invariance, PTL DEF IInv

\* Session.mu and the pooled connection belong to the turn that is under way.
THEOREM SessionSafe == Spec => []SessionDiscipline
BY Invariance, PTL DEF IInv

\* The client never loses track of a connection it has open.
THEOREM NoLeaks == Spec => []NoLeakedConnection
BY Invariance, PTL DEF IInv

-----------------------------------------------------------------------------
LastIdIsOwn ==
  \A r \in Requests : pc[r] = "stream" /\ lastId[r] # None =>
    lastId[r] = <<r, attempt[r]>>

\* An active stream only ever reads the ID of its own response.
LEMMA LastIdStep ==
  ASSUME IInv, LastIdIsOwn, NEW r \in Requests, Step(r)
  PROVE  LastIdIsOwn'
<1> USE DEF IInv, TypeOK, LastIdIsOwn
<1>1. CASE Prepare(r)
  BY <1>1 DEF Prepare, wsVars, NoDecision, turnVars, GoTo
<1>2. CASE Acquire(r) \/ OpenLost(r) \/ ReplayLostFails(r)
  BY <1>2 DEF Acquire, AcquireLock, turnVars, askVars, GoTo, OpenLost, NoStream,
      Closed, CloseLocked, Reusable, WriteFails, DialFails, Session,
      ReplayLostFails, Unlock, Update, Invalidate
<1>3. CASE OpenReused(r)
  BY <1>3 DEF OpenReused, Reusable, ReuseStream, askVars, Session, Update,
      BeginStream
<1>4. CASE OpenDialled(r)
  BY <1>4 DEF OpenDialled, NoStream, Closed, Reusable, Dial, DialStream,
      askVars, Session, Update, BeginStream
<1>5. CASE ReplayLost(r) \/ RecoverFresh(r)
  BY <1>5 DEF ReplayLost, NoStream, Closed, Dial, askVars, Session, Update,
      BeginStream, RecoverFresh
<1>6. CASE \/ RecvCreated(r) \/ RecvReasoning(r) \/ RecvText(r)
          \/ RecvError(r) \/ RecvCompleted(r)
  BY <1>6 DEF RecvCreated, wsVars, askVars, Reading, RecvReasoning, Show,
      RecvText, RecvError, RecvCompleted
<1>7. CASE \/ RecvClosed(r) \/ RecvFails(r) \/ RecoverFreshFails(r)
          \/ RecoverHTTP(r)
  BY <1>7 DEF RecvClosed, NoStream, Closed, CloseLocked, turnVars, askVars,
      Session, Update, Invalidate, FailWebSocketSession, GoTo, RecvFails,
      RecoverFreshFails, RecoverHTTP, Unlock
<1>8. CASE OpenHTTP(r) \/ OpenHTTPFails(r)
  BY <1>8 DEF OpenHTTP, wsVars, askVars, Session, Update, GoTo, OpenHTTPFails,
      NoDecision, Finished
<1>9. CASE \/ CloseCompleted(r) \/ CloseAbandoned(r) \/ CloseFailed(r)
          \/ CloseHTTP(r)
  BY <1>9 DEF CloseCompleted, Unlock, NoDecision, Session, Update, Commit, GoTo,
      Finished, CloseAbandoned, NoStream, Closed, CloseLocked, Invalidate,
      FailWebSocketSession, CloseFailed, CloseHTTP, wsVars
<1> QED BY <1>1, <1>2, <1>3, <1>4, <1>5, <1>6, <1>7, <1>8, <1>9
             DEF Step, Open, Recv, Recover, Close

\* A step of r neither touches another call nor remembers a new turn.
OthersKept(r) ==
  /\ \A q \in Requests \ {r} :
       /\ pc'[q] = pc[q] /\ completed'[q] = completed[q] /\ attempt'[q] = attempt[q]
       /\ key'[q] = key[q] /\ body'[q] = body[q]
  /\ \A k \in Keys : states'[k].id # None =>
       states'[k].id = states[k].id /\ states'[k].body = states[k].body

\* What is remembered of a conversation is dropped or gets a turn state.
LEMMA OthersKeptStep ==
  ASSUME IInv, NEW r \in Requests, Step(r), ~CloseCompleted(r)
  PROVE  OthersKept(r) /\ pc[r] # "done"
<1> USE DEF IInv, TypeOK, CallsWellFormed, OthersKept, States, WithTurnState, NoState
<1>1. CASE Prepare(r)
  BY <1>1 DEF Prepare, wsVars, NoDecision, turnVars, GoTo
<1>2. CASE Acquire(r) \/ OpenLost(r)
  BY <1>2 DEF Acquire, turnVars, askVars, GoTo, OpenLost
<1>3. CASE OpenReused(r)
  BY <1>3 DEF OpenReused, askVars, Update, BeginStream
<1>4. CASE OpenDialled(r)
  BY <1>4 DEF OpenDialled, askVars, Update, BeginStream
<1>5. CASE ReplayLost(r) \/ RecoverFresh(r)
  <2>1. /\ BeginStream(r, <<r, 2>>, 2, "http", NoState)
        /\ pc[r] # "done" /\ UNCHANGED askVars
    BY <1>5 DEF ReplayLost, RecoverFresh, BeginStream
  <2>2. \A k \in Keys : states'[k].id # None => states'[k] = states[k]
    BY <2>1 DEF BeginStream, Update
  <2> QED
    BY <2>1, <2>2 DEF BeginStream, askVars
<1>6. CASE ReplayLostFails(r) \/ RecoverFreshFails(r)
  BY <1>6 DEF ReplayLostFails, turnVars, askVars, Update, Invalidate, GoTo,
      RecoverFreshFails
<1>7. CASE \/ RecvCreated(r) \/ RecvReasoning(r) \/ RecvText(r)
          \/ RecvError(r) \/ RecvCompleted(r)
  <2>1. /\ UNCHANGED <<pc, attempt, states, askVars>> /\ pc[r] \in {"stream", "sse"}
        /\ \/ UNCHANGED completed
           \/ completed' = [completed EXCEPT ![r] = TRUE]
    BY <1>7 DEF RecvCreated, RecvReasoning, RecvText, RecvError, RecvCompleted, Reading
  <2> QED
    BY <2>1 DEF askVars
<1>8. CASE RecvClosed(r) \/ RecvFails(r)
  BY <1>8 DEF RecvClosed, turnVars, askVars, Update, Invalidate,
      FailWebSocketSession, GoTo, RecvFails
<1>9. CASE RecoverHTTP(r)
  BY <1>9 DEF RecoverHTTP, askVars, GoTo
<1>10. CASE OpenHTTP(r)
  BY <1>10 DEF OpenHTTP, wsVars, askVars, Update, GoTo
<1>11. CASE OpenHTTPFails(r)
  BY <1>11 DEF OpenHTTPFails, wsVars, NoDecision, GoTo, Finished
<1>12. CASE CloseAbandoned(r)
  BY <1>12 DEF CloseAbandoned, NoDecision, Update, Invalidate,
      FailWebSocketSession, GoTo, Finished
<1>13. CASE CloseFailed(r) \/ CloseHTTP(r)
  BY <1>13 DEF CloseFailed, NoDecision, GoTo, Finished, CloseHTTP, wsVars
<1> QED BY <1>1, <1>2, <1>3, <1>4, <1>5, <1>6, <1>7, <1>8, <1>9, <1>10, <1>11,
          <1>12, <1>13
             DEF Step, Open, Recv, Recover, Close


\* Or it becomes the turn that ends here.  The turn that is remembered is over, so
\* no step changes it any more.
LEMMA RemembersStep ==
  ASSUME IInv, LastIdIsOwn, RemembersCompletedTurns, NEW r \in Requests, Step(r)
  PROVE  RemembersCompletedTurns'
<1>1. CASE ~CloseCompleted(r)
  <2>1. OthersKept(r) /\ pc[r] # "done"
    BY <1>1, OthersKeptStep
  <2>2. \A k \in Keys : states[k].id # None => states[k].id[1] \in Requests
    BY DEF IInv, TypeOK, States, Responses
  <2> QED
    BY <2>1, <2>2 DEF OthersKept, RemembersCompletedTurns
<1>2. CASE CloseCompleted(r)
  <2>1. \A q \in Requests \ {r} :
          /\ pc'[q] = pc[q] /\ completed'[q] = completed[q] /\ attempt'[q] = attempt[q]
          /\ key'[q] = key[q] /\ body'[q] = body[q]
    BY <1>2 DEF CloseCompleted, Finished, GoTo, IInv, TypeOK
  <2>2. /\ pc'[r] = "done" /\ completed'[r] /\ attempt'[r] = attempt[r]
        /\ key'[r] = key[r] /\ body'[r] = body[r] /\ pc[r] = "stream"
    BY <1>2 DEF CloseCompleted, Finished, GoTo, IInv, TypeOK
  <2>3. \A k \in Keys :
          \/ states'[k] = states[k]
          \/ /\ k = key[r] /\ states'[k].body = body[r]
             /\ states'[k].id = <<r, attempt[r]>>
    BY <1>2 DEF CloseCompleted, Commit, Committed, Update, LastIdIsOwn, IInv, TypeOK
  <2>4. \A k \in Keys : states[k].id # None => states[k].id[1] \in Requests
    BY DEF IInv, TypeOK, States, Responses
  <2> QED
    BY <2>1, <2>2, <2>3, <2>4 DEF RemembersCompletedTurns
<1> QED
  BY <1>1, <1>2

LEMMA RemembersInit == Init => LastIdIsOwn /\ RemembersCompletedTurns
BY DEF Init, LastIdIsOwn, RemembersCompletedTurns, NoState

LEMMA RemembersStutter ==
  ASSUME LastIdIsOwn, RemembersCompletedTurns, UNCHANGED vars
  PROVE  LastIdIsOwn' /\ RemembersCompletedTurns'
BY DEF LastIdIsOwn, RemembersCompletedTurns, vars, turnVars, askVars, wsVars

\* The continuation manager holds completed turns of the right conversation only.
THEOREM RemembersSafe == Spec => []RemembersCompletedTurns
<1>1. IInv /\ LastIdIsOwn /\ RemembersCompletedTurns /\ [Next]_vars
        => LastIdIsOwn' /\ RemembersCompletedTurns'
  <2> SUFFICES ASSUME IInv, LastIdIsOwn, RemembersCompletedTurns, [Next]_vars
               PROVE  LastIdIsOwn' /\ RemembersCompletedTurns'
    OBVIOUS
  <2>1. CASE \E r \in Requests : Step(r)
    BY <2>1, LastIdStep, RemembersStep
  <2>2. CASE Terminated \/ UNCHANGED vars
    BY <2>2, RemembersStutter DEF Terminated
  <2> QED
    BY <2>1, <2>2 DEF Next, Step
<1> QED
  BY RemembersInit, <1>1, Invariance, PTL DEF Spec

-----------------------------------------------------------------------------
\* Only three steps take a turn whose response is not complete off its WebSocket,
\* and all of them fail the session.
LEMMA ForgetsStep ==
  ASSUME IInv, NEW r \in Requests, NEW q \in Requests, Step(q)
  PROVE  Forgets(r)
<1> SUFFICES ASSUME pc[r] = "stream", pc'[r] # "stream", ~completed[r]
             PROVE  conns'[conn[r]] = "closed" /\ states'[key[r]].id = None
  BY DEF Forgets
<1>1. CASE r = q /\ FailWebSocketSession(r)
  <2>1. pool.conn = conn[r] /\ conn[r] \in Conns /\ key[r] \in Keys /\ Session(r) # None
    BY ConnNames DEF IInv, TypeOK, WsTypeOK, NoStream, SessionDiscipline,
                     CallsWellFormed, Holding
  <2> QED
    BY <1>1, <2>1 DEF FailWebSocketSession, CloseLocked, Closed, Invalidate, Update,
                      NoState, IInv, TypeOK
<1>2. r = q /\ FailWebSocketSession(r)
  <2>1. r = q
    BY DEF Step, Open, Recv, Recover, Close, Prepare, Acquire, OpenReused, OpenDialled,
      OpenLost, ReplayLost, ReplayLostFails, RecvCreated, RecvReasoning, RecvText,
      RecvError, RecvCompleted, RecvClosed, RecvFails, RecoverFresh, RecoverFreshFails,
      RecoverHTTP, OpenHTTP, OpenHTTPFails, CloseCompleted, CloseAbandoned,
      CloseFailed, CloseHTTP, BeginStream, GoTo, Finished, IInv, TypeOK
  <2>2. pc'[r] # pc[r] => \/ RecvClosed(r) \/ RecvFails(r) \/ CloseAbandoned(r)
                          \/ pc[r] # "stream" \/ completed[r]
    BY <2>1 DEF Step, Open, Recv, Recover, Close, Prepare, Acquire, OpenReused,
      OpenDialled, OpenLost, ReplayLost, ReplayLostFails, RecvCreated, RecvReasoning,
      RecvText, RecvError, RecvCompleted, RecoverFresh, RecoverFreshFails,
      RecoverHTTP, OpenHTTP, OpenHTTPFails, CloseCompleted, CloseFailed, CloseHTTP
  <2> QED
    BY <2>1, <2>2 DEF RecvClosed, RecvFails, CloseAbandoned
<1> QED
  BY <1>1, <1>2

\* A WebSocket turn that fails leaves neither connection nor continuation behind.
THEOREM FailuresForget == Spec => FailedTurnForgets
<1>1. IInv /\ [Next]_vars => [\A r \in Requests : Forgets(r)]_vars
  BY ForgetsStep DEF Next, Step, Terminated
<1> QED
  BY <1>1, Invariance, PTL DEF Spec, FailedTurnForgets

-----------------------------------------------------------------------------
\* Text that was sent is of the attempt the call is on, and a stream that has sent
\* some counts as started: recovery is no longer open to it.
TextIsOfAttempt ==
  \A r \in Requests, a \in Attempts : <<a, "text">> \in shown[r] =>
    /\ a = attempt[r]
    /\ pc[r] \in {"stream", "sse", "closing", "done"}
    /\ pc[r] \in {"stream", "sse"} => started[r]

\* A call that is to start another attempt has sent no text.
LEMMA TextStep ==
  ASSUME IInv, TextIsOfAttempt, NEW r \in Requests, Step(r)
  PROVE  TextIsOfAttempt'
<1> USE DEF IInv, TypeOK, TextIsOfAttempt
<1>1. CASE Prepare(r) \/ Acquire(r) \/ OpenLost(r) \/ ReplayLostFails(r)
  BY <1>1 DEF Prepare, Acquire, OpenLost, ReplayLostFails, turnVars, GoTo
<1>2. CASE \/ OpenReused(r) \/ OpenDialled(r) \/ ReplayLost(r)
          \/ RecoverFresh(r)
  <2>1. CASE OpenReused(r) \/ OpenDialled(r)
    BY <2>1 DEF OpenReused, OpenDialled, BeginStream
  <2>2. CASE ReplayLost(r)
    BY <2>2 DEF ReplayLost, BeginStream
  <2>3. CASE RecoverFresh(r)
    BY <2>3 DEF RecoverFresh, BeginStream
  <2> QED
    BY <1>2, <2>1, <2>2, <2>3
<1>3. CASE RecvCreated(r) \/ RecvCompleted(r)
  BY <1>3 DEF RecvCreated, RecvCompleted
<1>4. CASE RecvReasoning(r) \/ RecvError(r)
  BY <1>4 DEF RecvReasoning, RecvError, Show
<1>5. CASE RecvText(r)
  BY <1>5 DEF RecvText, Show, Reading
<1>6. CASE RecvClosed(r) \/ RecvFails(r)
  BY <1>6 DEF RecvClosed, RecvFails, turnVars, GoTo
<1>7. CASE RecoverFreshFails(r) \/ RecoverHTTP(r)
  BY <1>7 DEF RecoverFreshFails, RecoverHTTP, GoTo
<1>8. CASE OpenHTTP(r)
  BY <1>8 DEF OpenHTTP, GoTo
<1>9. CASE \/ OpenHTTPFails(r) \/ CloseCompleted(r) \/ CloseAbandoned(r)
          \/ CloseFailed(r) \/ CloseHTTP(r)
  BY <1>9 DEF OpenHTTPFails, CloseCompleted, CloseAbandoned, CloseFailed,
      CloseHTTP, Finished, GoTo
<1> QED BY <1>1, <1>2, <1>3, <1>4, <1>5, <1>6, <1>7, <1>8, <1>9
             DEF Step, Open, Recv, Recover, Close

\* Recovery never repeats a turn that has answered.
THEOREM TextSafe == Spec => []TextFromOneAttempt
<1>1. Init => TextIsOfAttempt
  BY DEF Init, TextIsOfAttempt
<1>2. IInv /\ TextIsOfAttempt /\ [Next]_vars => TextIsOfAttempt'
  <2> SUFFICES ASSUME IInv, TextIsOfAttempt, [Next]_vars
               PROVE  TextIsOfAttempt'
    OBVIOUS
  <2>1. CASE \E r \in Requests : Step(r)
    BY <2>1, TextStep
  <2>2. CASE Terminated \/ UNCHANGED vars
    BY <2>2 DEF Terminated, vars, turnVars, TextIsOfAttempt
  <2> QED
    BY <2>1, <2>2 DEF Next, Step
<1>3. TextIsOfAttempt => TextFromOneAttempt
  BY DEF TextIsOfAttempt, TextFromOneAttempt
<1> QED
  BY <1>1, <1>2, <1>3, Invariance, PTL DEF Spec

-----------------------------------------------------------------------------
(* What the caller wrote of a context, item by item. *)

\* Every non-empty set of numbers has a least.
LEMMA LeastNumber ==
  ASSUME NEW T \in SUBSET Nat, T # {}
  PROVE  \E x \in T : \A y \in T : x <= y
<1>1. IsWellFoundedOn(OpToRel(<, Nat), Nat)
  BY NatLessThanWellFounded
<1>2. PICK x \in T : \A y \in T : ~ (<<y, x>> \in OpToRel(<, Nat))
  BY <1>1, WFMin
<1>3. \A y \in T : ~ (<<y, x>> \in {ss \in Nat \X Nat : ss[1] < ss[2]})
  BY <1>2, Zenon DEF OpToRel
<1>4. \A y \in T : ~ (y < x)
  <2>1. TAKE y \in T
  <2> DEFINE p == <<y, x>>
  <2>2. p \in Nat \X Nat /\ p[1] = y /\ p[2] = x
    OBVIOUS
  <2>3. p \notin {ss \in Nat \X Nat : ss[1] < ss[2]}
    BY <1>3
  <2> HIDE DEF p
  <2> QED
    BY <2>2, <2>3
<1> QED
  BY <1>4

\* Induction over the numbers, for a set of them.
LEMMA Induction ==
  ASSUME NEW T \in SUBSET Nat, 0 \in T, \A n \in T : n + 1 \in T
  PROVE  T = Nat
<1>1. SUFFICES ASSUME Nat \ T # {} PROVE FALSE
  OBVIOUS
<1>2. PICK x \in Nat \ T : \A y \in Nat \ T : x <= y
  BY <1>1, LeastNumber
<1>3. x # 0 /\ x - 1 \in Nat /\ x - 1 \in T
  BY <1>2
<1> QED
  BY <1>2, <1>3

-----------------------------------------------------------------------------
\* The caller's items so far, one item later.
Grown(kept, item) == IF item \in Assistant THEN kept ELSE Append(kept, item)

\* f goes through the first k items of s as CallersItems does.
Keeps(f, s, k) ==
  f = [n \in 0..k |->
         IF n = 0 THEN <<>>
         ELSE IF s[n] \in Assistant THEN f[n - 1] ELSE Append(f[n - 1], s[n])]

\* One item at a time.
LEMMA KeepsSteps ==
  ASSUME NEW f, NEW s, NEW k \in Nat
  PROVE  Keeps(f, s, k) <=>
           /\ f = [n \in 0..k |-> f[n]]
           /\ f[0] = <<>>
           /\ \A n \in 0..k : n + 1 \in 0..k =>
                f[n + 1] = Grown(f[n], s[n + 1])
<1> DEFINE E(n) == IF n = 0 THEN <<>>
                   ELSE IF s[n] \in Assistant THEN f[n - 1] ELSE Append(f[n - 1], s[n])
<1>1. Keeps(f, s, k) <=> f = [n \in 0..k |-> E(n)]
  BY DEF Keeps
<1>2. E(0) = <<>>
  OBVIOUS
<1>3. \A n \in 0..k : n + 1 \in 0..k =>
        E(n + 1) = Grown(f[n], s[n + 1])
  <2> TAKE n \in 0..k
  <2> DEFINE m == n + 1
  <2>1. m # 0 /\ m - 1 = n
    OBVIOUS
  <2> HIDE DEF m
  <2>2. E(m) = Grown(f[n], s[m])
    BY <2>1 DEF Grown
  <2> QED
    BY <2>2 DEF m
<1> HIDE DEF E
<1>4. ASSUME f = [n \in 0..k |-> f[n]], f[0] = <<>>,
             \A n \in 0..k : n + 1 \in 0..k =>
                f[n + 1] = Grown(f[n], s[n + 1])
      PROVE  \A n \in 0..k : f[n] = E(n)
  <2> TAKE n \in 0..k
  <2>1. CASE n = 0
    BY <2>1, <1>2, <1>4
  <2>2. CASE n # 0
    <3>1. n - 1 \in 0..k /\ (n - 1) + 1 = n
      BY <2>2
    <3>2. f[n] = E(n)
      BY <3>1, <1>3, <1>4
    <3> QED
      BY <3>2
  <2> QED
    BY <2>1, <2>2
<1>5. ASSUME f = [n \in 0..k |-> f[n]],  \A n \in 0..k : f[n] = E(n)
      PROVE  f = [n \in 0..k |-> E(n)]
  BY <1>5
<1>6. ASSUME f = [n \in 0..k |-> E(n)]
      PROVE  f = [n \in 0..k |-> f[n]] /\ \A n \in 0..k : f[n] = E(n)
  BY <1>6
<1>7. ASSUME \A n \in 0..k : f[n] = E(n)
      PROVE  \A n \in 0..k : n + 1 \in 0..k =>
                f[n + 1] = Grown(f[n], s[n + 1])
  <2> TAKE n \in 0..k
  <2>1. n + 1 \in 0..k => f[n + 1] = E(n + 1)
    BY <1>7
  <2> QED
    BY <2>1, <1>3
<1>8. (\A n \in 0..k : f[n] = E(n)) => f[0] = <<>>
  BY <1>2
<1> QED
  BY <1>1, <1>4, <1>5, <1>6, <1>7, <1>8

\* f[n] is what the caller wrote of the first n items of s.
Scans(f, s) ==
  /\ f[0] = <<>>
  /\ \A n \in 0..Len(s) : n + 1 \in 0..Len(s) => f[n + 1] = Grown(f[n], s[n + 1])

\* Such a scan there is, however far.
LEMMA KeepsExist == ASSUME NEW s PROVE \A k \in Nat : \E f : Keeps(f, s, k)
<1> DEFINE T == {k \in Nat : \E f : Keeps(f, s, k)}
<1>1. 0 \in T
  <2>1. Keeps([n \in 0..0 |-> <<>>], s, 0)
    BY DEF Keeps
  <2> QED
    BY <2>1
<1>2. ASSUME NEW k \in T PROVE k + 1 \in T
  <2>1. PICK f : Keeps(f, s, k)
    OBVIOUS
  <2> DEFINE last == Grown(f[k], s[k + 1])
             g == [n \in 0..(k + 1) |-> IF n <= k THEN f[n] ELSE last]
  <2>2. k \in Nat
    OBVIOUS
  <2>3. /\ \A n \in 0..k : n + 1 \in 0..k =>
             f[n + 1] = Grown(f[n], s[n + 1])
        /\ f[0] = <<>>
    BY <2>1, <2>2, KeepsSteps
  <2>4. last = Grown(f[k], s[k + 1])
    OBVIOUS
  <2> HIDE DEF last
  <2>5. /\ g = [n \in 0..(k + 1) |-> g[n]] /\ (\A n \in 0..k : g[n] = f[n])
        /\ g[k + 1] = last
    BY <2>2
  <2> HIDE DEF g
  <2>6. ASSUME NEW n \in 0..(k + 1), n + 1 \in 0..(k + 1)
        PROVE  g[n + 1] = Grown(g[n], s[n + 1])
    <3>1. CASE n = k
      BY <3>1, <2>2, <2>4, <2>5
    <3>2. CASE n # k
      <4>1. n \in 0..k /\ n + 1 \in 0..k
        BY <3>2, <2>2, <2>6
      <4> QED
        BY <4>1, <2>3, <2>5
    <3> QED
      BY <3>1, <3>2
  <2>7. g[0] = <<>> /\ k + 1 \in Nat
    BY <2>2, <2>3, <2>5
  <2>8. Keeps(g, s, k + 1)
    BY <2>5, <2>6, <2>7, KeepsSteps
  <2> QED
    BY <2>8
<1> HIDE DEF T
<1>3. T = Nat
  BY <1>1, <1>2, Induction DEF T
<1> QED
  BY <1>3 DEF T

\* CallersItems is what a scan of the whole sequence ends with.
LEMMA CallersItemsScan ==
  ASSUME NEW s, Len(s) \in Nat
  PROVE  \E f : Scans(f, s) /\ CallersItems(s) = f[Len(s)]
<1> DEFINE f == CHOOSE f : Keeps(f, s, Len(s))
<1>1. Keeps(f, s, Len(s))
  BY KeepsExist
<1>2. CallersItems(s) = f[Len(s)]
  BY DEF CallersItems, Keeps
<1> HIDE DEF f
<1>3. Scans(f, s)
  BY <1>1, KeepsSteps DEF Scans
<1> QED
  BY <1>2, <1>3

\* A scan of s comes to sequences over the items of s.
LEMMA ScansTypes ==
  ASSUME NEW X, NEW s \in Seq(X), NEW f, Scans(f, s)
  PROVE  \A n \in 0..Len(s) : f[n] \in Seq(X)
<1>1. Len(s) \in Nat
  OBVIOUS
<1> DEFINE T == {n \in Nat : n <= Len(s) => f[n] \in Seq(X)}
<1>2. 0 \in T
  <2>1. f[0] = <<>> /\ <<>> \in Seq(X)
    BY DEF Scans
  <2> QED
    BY <2>1
<1>3. ASSUME NEW n \in T PROVE n + 1 \in T
  <2>1. SUFFICES ASSUME n + 1 <= Len(s) PROVE f[n + 1] \in Seq(X)
    OBVIOUS
  <2>2. n \in 0..Len(s) /\ n + 1 \in 0..Len(s) /\ f[n] \in Seq(X) /\ s[n + 1] \in X
    BY <1>1, <2>1
  <2>3. f[n + 1] = Grown(f[n], s[n + 1])
    BY <2>2 DEF Scans
  <2> QED
    BY <2>2, <2>3 DEF Grown
<1> HIDE DEF T
<1>4. T = Nat
  BY <1>2, <1>3, Induction DEF T
<1> QED
  BY <1>1, <1>4 DEF T

Joined(s, t) == s \o t

\* Whether an item is kept does not depend on what was kept before it.
LEMMA GrownJoined ==
  ASSUME NEW X, NEW p \in Seq(X), NEW u \in Seq(X), NEW x \in X
  PROVE  Grown(Joined(p, u), x) = Joined(p, Grown(u, x))
<1>1. Append(p \o u, x) = p \o Append(u, x)
  OBVIOUS
<1> QED
  BY <1>1 DEF Grown, Joined

\* What the caller wrote of two contexts, one after the other.
LEMMA CallersItemsConcat ==
  ASSUME NEW X, NEW s \in Seq(X), NEW t \in Seq(X)
  PROVE  CallersItems(s \o t) = CallersItems(s) \o CallersItems(t)
<1> DEFINE st == s \o t
<1>1. /\ st \in Seq(X) /\ Len(st) = Len(s) + Len(t) /\ Len(s) \in Nat /\ Len(t) \in Nat
      /\ \A i \in 1..Len(s) : st[i] = s[i]
      /\ \A i \in 1..Len(t) : st[Len(s) + i] = t[i]
  OBVIOUS
<1> HIDE DEF st
<1>2. PICK f : Scans(f, s) /\ CallersItems(s) = f[Len(s)]
  BY <1>1, CallersItemsScan
<1>3. PICK g : Scans(g, t) /\ CallersItems(t) = g[Len(t)]
  BY <1>1, CallersItemsScan
<1>4. Len(st) \in Nat
  BY <1>1
<1>5. PICK h : Scans(h, st) /\ CallersItems(st) = h[Len(st)]
  BY <1>4, CallersItemsScan
<1>6. \A n \in 0..Len(s) : h[n] = f[n]
  <2> DEFINE T == {n \in Nat : n <= Len(s) => h[n] = f[n]}
  <2>1. 0 \in T
    BY <1>2, <1>5 DEF Scans
  <2>2. ASSUME NEW n \in T PROVE n + 1 \in T
    <3>1. SUFFICES ASSUME n + 1 <= Len(s) PROVE h[n + 1] = f[n + 1]
      OBVIOUS
    <3>2. n \in 0..Len(s) /\ n + 1 \in 0..Len(s) /\ n \in 0..Len(st) /\ n + 1 \in 0..Len(st)
      BY <1>1, <3>1
    <3>3. h[n] = f[n] /\ st[n + 1] = s[n + 1]
      BY <1>1, <3>2
    <3> QED
      BY <1>2, <1>5, <3>2, <3>3 DEF Scans
  <2> HIDE DEF T
  <2>3. T = Nat
    BY <2>1, <2>2, Induction DEF T
  <2> QED
    BY <1>1, <2>3 DEF T
<1>7. \A n \in 0..Len(t) : g[n] \in Seq(X)
  BY <1>3, ScansTypes
<1> DEFINE a == Len(s)
           p == f[a]
<1>8. p \in Seq(X)
  BY <1>1, <1>2, ScansTypes
<1>9. a \in Nat /\ h[a + 0] = p
  BY <1>1, <1>6
<1> HIDE DEF p
<1>10. \A n \in 0..Len(t) : h[a + n] = Joined(p, g[n])
  <2> DEFINE T == {n \in Nat : n <= Len(t) => h[a + n] = Joined(p, g[n])}
  <2>1. 0 \in T
    BY <1>3, <1>8, <1>9 DEF Scans, Joined
  <2>2. ASSUME NEW n \in T PROVE n + 1 \in T
    <3>1. SUFFICES ASSUME n + 1 <= Len(t) PROVE h[a + (n + 1)] = Joined(p, g[n + 1])
      OBVIOUS
    <3>2. /\ n \in 0..Len(t) /\ n + 1 \in 0..Len(t)
          /\ a + n \in 0..Len(st) /\ (a + n) + 1 \in 0..Len(st) /\ a + (n + 1) = (a + n) + 1
      <4>1. n \in Nat /\ Len(st) = a + Len(t) /\ Len(t) \in Nat
        BY <1>1
      <4> HIDE DEF a
      <4> QED
        BY <1>9, <3>1, <4>1
    <3>3. h[a + n] = Joined(p, g[n])
      BY <3>2
    <3>4. st[(a + n) + 1] = t[n + 1]
      <4> DEFINE i == n + 1
      <4>1. i \in 1..Len(t) /\ (a + n) + 1 = a + i
        BY <1>9, <3>2
      <4> HIDE DEF i
      <4>2. st[a + i] = t[i]
        BY <1>1, <4>1
      <4> QED
        BY <4>1, <4>2 DEF i
    <3>5. t[n + 1] \in X /\ g[n] \in Seq(X)
      BY <1>7, <3>2
    <3>6. g[n + 1] = Grown(g[n], t[n + 1])
      BY <1>3, <3>2 DEF Scans
    <3>7. h[(a + n) + 1] = Grown(h[a + n], st[(a + n) + 1])
      BY <1>5, <3>2 DEF Scans
    <3>8. Grown(Joined(p, g[n]), t[n + 1]) = Joined(p, Grown(g[n], t[n + 1]))
      BY <1>8, <3>5, GrownJoined
    <3> QED
      BY <3>2, <3>3, <3>4, <3>6, <3>7, <3>8
  <2> HIDE DEF T
  <2>3. T = Nat
    BY <2>1, <2>2, Induction DEF T
  <2> QED
    <3>1. \A n \in Nat : n <= Len(t) => h[a + n] = Joined(p, g[n])
      BY <2>3 DEF T
    <3> QED
      BY <1>1, <3>1
<1>11. h[Len(st)] = Joined(p, g[Len(t)])
  BY <1>1, <1>10
<1>12. CallersItems(st) = CallersItems(s) \o CallersItems(t)
  BY <1>2, <1>3, <1>5, <1>11 DEF p, Joined
<1> QED
  BY <1>12 DEF st

\* What the caller wrote is of the same items.
LEMMA CallersItemsTypes ==
  ASSUME NEW X, NEW s \in Seq(X)
  PROVE  CallersItems(s) \in Seq(X)
<1>1. Len(s) \in Nat /\ Len(s) \in 0..Len(s)
  OBVIOUS
<1> QED
  BY <1>1, CallersItemsScan, ScansTypes

\* Of a context that is the assistant's alone the caller wrote nothing.
LEMMA CallersItemsNone ==
  ASSUME NEW X, NEW s \in Seq(X), \A i \in 1..Len(s) : s[i] \in Assistant
  PROVE  CallersItems(s) = <<>>
<1>1. Len(s) \in Nat
  OBVIOUS
<1>2. PICK f : Scans(f, s) /\ CallersItems(s) = f[Len(s)]
  BY <1>1, CallersItemsScan
<1> DEFINE T == {n \in Nat : n <= Len(s) => f[n] = <<>>}
<1>3. 0 \in T
  BY <1>2 DEF Scans
<1>4. ASSUME NEW n \in T PROVE n + 1 \in T
  <2>1. SUFFICES ASSUME n + 1 <= Len(s) PROVE f[n + 1] = <<>>
    OBVIOUS
  <2>2. n \in 0..Len(s) /\ n + 1 \in 0..Len(s) /\ f[n] = <<>> /\ s[n + 1] \in Assistant
    BY <1>1, <2>1
  <2> QED
    BY <1>2, <2>2 DEF Scans, Grown
<1> HIDE DEF T
<1>5. T = Nat
  BY <1>3, <1>4, Induction DEF T
<1> QED
  BY <1>1, <1>2, <1>5 DEF T

\* A set of numbers with a bound has a greatest.
LEMMA GreatestNumber ==
  ASSUME NEW n \in Nat, NEW T \in SUBSET (0..n), T # {}
  PROVE  Max(T) \in T
<1> DEFINE U == {k \in 0..n : n - k \in T}
<1>1. U \in SUBSET Nat /\ U # {}
  <2>1. PICK x \in T : x \in 0..n
    OBVIOUS
  <2>2. n - x \in U
    <3>1. n - x \in 0..n /\ n - (n - x) = x
      BY <2>1
    <3> QED
      BY <3>1
  <2>3. U \in SUBSET Nat
    OBVIOUS
  <2> HIDE DEF U
  <2> QED
    BY <2>2, <2>3
<1>2. PICK u \in U : \A v \in U : u <= v
  <2> HIDE DEF U
  <2> QED
    BY <1>1, LeastNumber
<1> DEFINE x == n - u
<1>3. u \in 0..n /\ x \in T
  BY <1>2
<1>4. \A y \in T : x >= y
  <2> TAKE y \in T
  <2>1. y \in 0..n /\ n - y \in 0..n /\ n - (n - y) = y
    OBVIOUS
  <2>2. n - y \in U
    BY <2>1
  <2> HIDE DEF U
  <2>3. u <= n - y
    BY <1>2, <2>2
  <2> QED
    BY <1>3, <2>1, <2>3
<1> HIDE DEF x
<1> QED
  BY <1>3, <1>4 DEF Max

\* A sequence is its beginning and its rest.
LEMMA Halves ==
  ASSUME NEW X, NEW s \in Seq(X), NEW n \in 0..Len(s)
  PROVE  /\ SubSeq(s, 1, n) \in Seq(X) /\ Len(SubSeq(s, 1, n)) = n
         /\ \A i \in 1..n : SubSeq(s, 1, n)[i] = s[i]
         /\ SubSeq(s, n + 1, Len(s)) \in Seq(X)
         /\ SubSeq(s, 1, n) \o SubSeq(s, n + 1, Len(s)) = s
<1>1. Len(s) \in Nat /\ n \in Nat /\ n <= Len(s)
  OBVIOUS
<1>2. SubSeq(s, 1, n) \in Seq(X) /\ SubSeq(s, n + 1, Len(s)) \in Seq(X)
  BY <1>1
<1>3. Len(SubSeq(s, 1, n)) = n /\ \A i \in 1..n : SubSeq(s, 1, n)[i] = s[i]
  BY <1>1
<1>4. SubSeq(s, 1, n) \o SubSeq(s, n + 1, Len(s)) = s
  <2> DEFINE a == SubSeq(s, 1, n)
             b == SubSeq(s, n + 1, Len(s))
  <2>1. Len(b) = Len(s) - n /\ \A i \in 1..(Len(s) - n) : b[i] = s[n + i]
    BY <1>1
  <2>2. a \in Seq(X) /\ b \in Seq(X)
    BY <1>2
  <2>3. Len(a) = n /\ \A i \in 1..n : a[i] = s[i]
    BY <1>3
  <2> HIDE DEF a, b
  <2>4. a \o b \in Seq(X)
    BY <2>2
  <2>5. Len(a \o b) = Len(s)
    <3>1. Len(a \o b) = Len(a) + Len(b)
      BY <2>2
    <3> QED
      BY <1>1, <2>1, <2>3, <3>1
  <2>6. \A i \in 1..Len(s) : (a \o b)[i] = s[i]
    <3> TAKE i \in 1..Len(s)
    <3> DEFINE k == i - n
    <3>1. CASE i <= n
      BY <1>1, <2>1, <2>2, <2>3, <3>1
    <3>2. CASE i > n
      <4>1. k \in 1..(Len(s) - n) /\ i = n + k /\ k \in 1..Len(b)
        BY <1>1, <2>1, <3>2
      <4> HIDE DEF k
      <4>2. (a \o b)[n + k] = b[k]
        BY <1>1, <2>1, <2>2, <2>3, <4>1
      <4>3. b[k] = s[n + k]
        BY <2>1, <4>1
      <4> QED
        BY <4>1, <4>2, <4>3
    <3>3. i <= n \/ i > n
      BY <1>1
    <3> QED
      BY <3>1, <3>2, <3>3
  <2> DEFINE c == a \o b
  <2> HIDE DEF c
  <2>7. Len(c) = Len(s) /\ c \in Seq(X) /\ \A i \in 1..Len(s) : c[i] = s[i]
    BY <2>4, <2>5, <2>6 DEF c
  <2>8. c = s
    BY <2>7
  <2> QED
    BY <2>8 DEF a, b, c
<1> QED
  BY <1>2, <1>3, <1>4

\* Dropping the assistant's items drops nothing of the caller's.
LEMMA DropLeadingFacts ==
  ASSUME NEW X, NEW s \in Seq(X)
  PROVE  /\ DropLeading(s, Assistant) \in Seq(X)
         /\ CallersItems(DropLeading(s, Assistant)) = CallersItems(s)
<1> DEFINE T == {n \in 0..Len(s) : \A i \in 1..n : s[i] \in Assistant}
           m == Max(T)
<1>1. Len(s) \in Nat /\ 0 \in T
  OBVIOUS
<1>2. m \in T
  <2> HIDE DEF T
  <2>1. T \in SUBSET (0..Len(s)) /\ T # {}
    BY <1>1 DEF T
  <2> QED
    BY <1>1, <2>1, GreatestNumber
<1>3. DropLeading(s, Assistant) = SubSeq(s, m + 1, Len(s))
  BY DEF DropLeading
<1>4. m \in 0..Len(s) /\ \A i \in 1..m : s[i] \in Assistant
  BY <1>2
<1> HIDE DEF m
<1> DEFINE front == SubSeq(s, 1, m)
           rest == SubSeq(s, m + 1, Len(s))
<1>5. /\ front \in Seq(X) /\ rest \in Seq(X) /\ front \o rest = s /\ Len(front) = m
      /\ \A i \in 1..Len(front) : front[i] \in Assistant
  BY <1>4, Halves
<1> HIDE DEF front, rest
<1>6. CallersItems(front) = <<>>
  BY <1>5, CallersItemsNone
<1>7. CallersItems(s) = CallersItems(front) \o CallersItems(rest)
  BY <1>5, CallersItemsConcat
<1>8. CallersItems(rest) \in Seq(X)
  BY <1>5, CallersItemsTypes
<1> QED
  BY <1>3, <1>5, <1>6, <1>7, <1>8 DEF rest

\* What is sent after the input that was answered, and what was answered before it,
\* are together all the caller wrote.
LEMMA TrimmedFacts ==
  ASSUME NEW X, NEW s \in Seq(X), NEW before \in Seq(X), NEW input \in Seq(X),
         IsPrefix(before, input), CallersItems(s) = CallersItems(before)
  PROVE  /\ s \o Trimmed(input, Len(before)) \in Seq(X)
         /\ CallersItems(s \o Trimmed(input, Len(before))) = CallersItems(input)
<1> DEFINE n == Len(before)
           rest == SubSeq(input, n + 1, Len(input))
           sent == Trimmed(input, n)
<1>1. /\ n \in Nat /\ n <= Len(input) /\ n \in 0..Len(input)
      /\ SubSeq(before, 1, n) = SubSeq(input, 1, n)
  BY DEF IsPrefix
<1>2. SubSeq(before, 1, n) = before
  OBVIOUS
<1>3. before \o rest = input /\ rest \in Seq(X)
  BY <1>1, <1>2, Halves
<1>4. CallersItems(input) = CallersItems(before) \o CallersItems(rest)
  <2> HIDE DEF rest
  <2> QED
    BY <1>3, CallersItemsConcat
<1>5. sent \in Seq(X) /\ CallersItems(sent) = CallersItems(rest)
  <2>1. CASE n > 0
    <3>1. sent = DropLeading(rest, Assistant)
      BY <1>1, <2>1 DEF Trimmed
    <3> HIDE DEF sent, rest
    <3> QED
      BY <1>3, <3>1, DropLeadingFacts
  <2>2. CASE n = 0
    <3>1. sent = input /\ rest = input
      BY <1>1, <2>2 DEF Trimmed
    <3> QED
      BY <3>1
  <2> QED
    BY <1>1, <2>1, <2>2
<1> HIDE DEF sent, rest
<1>6. s \o sent \in Seq(X)
  BY <1>5
<1>7. CallersItems(s \o sent) = CallersItems(s) \o CallersItems(sent)
  BY <1>5, CallersItemsConcat
<1> QED
  BY <1>4, <1>5, <1>6, <1>7 DEF sent

-----------------------------------------------------------------------------
Items == UNION {Range(b.input) : b \in Bodies}

\* A decision to continue is one to continue a turn that is over, whose input this
\* one extends; the items to leave out are those of that input.
Continued(r) ==
  decision[r].prev # None =>
    LET q == decision[r].prev[1] IN
      /\ q \in Requests /\ pc[q] = "done" /\ attempt[q] # 0
      /\ IsPrefix(body[q].input, body[r].input)
      /\ decision[r].start = Len(body[q].input)

Answered(r) ==
  attempt[r] # 0 =>
    /\ pc[r] # "idle"
    /\ context[r] \in Seq(Items)
    /\ CallersItems(context[r]) = CallersItems(body[r].input)

ContextsWhole ==
  /\ DOMAIN context = Requests
  /\ \A r \in Requests : Continued(r) /\ Answered(r)

\* Inputs are sequences of items.
LEMMA InputTypes == \A b \in Bodies : b.input \in Seq(Items)
<1> SUFFICES ASSUME NEW b \in Bodies PROVE b.input \in Seq(Items)
  OBVIOUS
<1>1. b.input \in Seq(Range(b.input)) /\ Range(b.input) \subseteq Items
  BY CodexAssumption DEF Items
<1> QED
  BY <1>1

\* The service is sent, or has, all that the caller wrote.
LEMMA SentWhole ==
  ASSUME IInv, ContextsWhole, NEW r \in Requests, pc[r] # "idle", NEW a
  PROVE  /\ SentContext(r, a) \in Seq(Items)
         /\ CallersItems(SentContext(r, a)) = CallersItems(body[r].input)
<1>1. body[r].input \in Seq(Items)
  BY InputTypes DEF IInv, CallsWellFormed
<1>2. CASE ~(a = 1 /\ decision[r].prev # None)
  BY <1>1, <1>2 DEF SentContext
<1>3. CASE a = 1 /\ decision[r].prev # None
  <2> DEFINE q == decision[r].prev[1]
             before == body[q].input
             input == body[r].input
             s == context[q]
  <2>1. /\ q \in Requests /\ pc[q] = "done" /\ attempt[q] # 0
        /\ IsPrefix(before, input) /\ decision[r].start = Len(before)
    BY <1>3 DEF ContextsWhole, Continued
  <2>2. before \in Seq(Items) /\ input \in Seq(Items)
    BY <1>1, <2>1, InputTypes DEF IInv, CallsWellFormed
  <2>3. s \in Seq(Items) /\ CallersItems(s) = CallersItems(before)
    BY <2>1 DEF ContextsWhole, Answered
  <2>4. SentContext(r, a) = s \o Trimmed(input, Len(before))
    BY <1>3, <2>1 DEF SentContext
  <2>5. IsPrefix(before, input)
    BY <2>1
  <2> HIDE DEF q, before, input, s
  <2>6. /\ s \o Trimmed(input, Len(before)) \in Seq(Items)
        /\ CallersItems(s \o Trimmed(input, Len(before))) = CallersItems(input)
    BY <2>2, <2>3, <2>5, TrimmedFacts
  <2> QED
    BY <2>4, <2>6 DEF input
<1> QED
  BY <1>2, <1>3

\* What is remembered of a conversation, and continued, was answered.
LEMMA DecideWhole ==
  ASSUME IInv, RemembersCompletedTurns, NEW k \in Keys, NEW b \in Bodies,
         Decide(states[k], b).prev # None
  PROVE  LET q == Decide(states[k], b).prev[1] IN
           /\ q \in Requests /\ pc[q] = "done" /\ attempt[q] # 0
           /\ IsPrefix(body[q].input, b.input)
           /\ Decide(states[k], b).start = Len(body[q].input)
<1> DEFINE state == states[k]
           q == state.id[1]
<1>1. /\ state.id # None /\ IsPrefix(state.body.input, b.input)
      /\ Decide(state, b).prev = state.id
      /\ Decide(state, b).start = IF state.body = None THEN 0 ELSE Len(state.body.input)
  BY DEF Decide, Continues
<1>2. state \in States /\ state.id \in Requests \X Attempts
  BY <1>1 DEF IInv, TypeOK, States, Responses
<1>3. pc[q] = "done" /\ state.id[2] = attempt[q] /\ state.body = body[q]
  BY <1>1 DEF RemembersCompletedTurns
<1>4. q \in Requests /\ attempt[q] # 0
  BY <1>2, <1>3 DEF Attempts
<1>5. body[q] # None
  BY <1>3, <1>4, CodexAssumption DEF IInv, CallsWellFormed
<1> HIDE DEF q, state
<1>6. Decide(state, b).prev[1] = q
  BY <1>1 DEF q
<1> QED
  BY <1>1, <1>3, <1>4, <1>5, <1>6 DEF state

\* A step of r that opens no stream: the inputs and what is asked stay.
Quiet(r) ==
  /\ UNCHANGED <<attempt, context, body>>
  /\ \A q \in Requests \ {r} : pc'[q] = pc[q] /\ decision'[q] = decision[q]
  /\ pc[r] # "done" /\ pc'[r] # "idle"
  /\ decision'[r] = decision[r] \/ decision'[r] = NoDecision

Opens(r) == \E a \in Attempts :
  /\ attempt' = [attempt EXCEPT ![r] = a]
  /\ context' = [context EXCEPT ![r] = SentContext(r, a)]
  /\ UNCHANGED <<body, decision>>
  /\ \A q \in Requests \ {r} : pc'[q] = pc[q]
  /\ pc[r] \notin {"idle", "done"} /\ pc'[r] # "idle"

\* Only Prepare decides; what else assigns a context sends what was decided.
LEMMA QuietOrOpens ==
  ASSUME IInv, NEW r \in Requests, Step(r), ~Prepare(r)
  PROVE  Quiet(r) \/ Opens(r)
<1> USE DEF IInv, TypeOK
<1>1. CASE OpenReused(r) \/ OpenDialled(r)
  <2>1. PICK c, base : BeginStream(r, c, 1, "fresh", base) /\ pc[r] = "open"
    BY <1>1 DEF OpenReused, OpenDialled
  <2> QED
    BY <2>1 DEF BeginStream, Opens, Attempts, askVars
<1>2. CASE ReplayLost(r) \/ RecoverFresh(r)
  <2>1. BeginStream(r, <<r, 2>>, 2, "http", NoState) /\ pc[r] \in {"lost", "recover"}
    BY <1>2 DEF ReplayLost, RecoverFresh
  <2> QED
    BY <2>1 DEF BeginStream, Opens, Attempts, askVars
<1>3. CASE OpenHTTP(r)
  BY <1>3 DEF OpenHTTP, Opens, Attempts, askVars, GoTo
<1>4. CASE Acquire(r) \/ OpenLost(r) \/ ReplayLostFails(r)
  BY <1>4 DEF Acquire, OpenLost, ReplayLostFails, turnVars, askVars, GoTo, Quiet
<1>5. CASE \/ RecvCreated(r) \/ RecvReasoning(r) \/ RecvText(r)
          \/ RecvError(r) \/ RecvCompleted(r)
  <2>1. UNCHANGED <<pc, attempt, context, askVars>> /\ pc[r] \in {"stream", "sse"}
    BY <1>5 DEF RecvCreated, RecvReasoning, RecvText, RecvError, RecvCompleted, Reading
  <2> QED
    BY <2>1 DEF askVars, Quiet
<1>6. CASE RecvClosed(r) \/ RecvFails(r)
  BY <1>6 DEF RecvClosed, RecvFails, turnVars, askVars, GoTo, Quiet
<1>7. CASE RecoverFreshFails(r) \/ RecoverHTTP(r)
  BY <1>7 DEF RecoverFreshFails, RecoverHTTP, askVars, GoTo, Quiet
<1>8. CASE \/ OpenHTTPFails(r) \/ CloseCompleted(r) \/ CloseAbandoned(r)
          \/ CloseFailed(r) \/ CloseHTTP(r)
  <2>1. Finished(r) /\ pc[r] # "done"
    BY <1>8 DEF OpenHTTPFails, CloseCompleted, CloseAbandoned, CloseFailed, CloseHTTP
  <2> QED
    BY <2>1 DEF Finished, GoTo, Quiet
<1> QED
  BY <1>1, <1>2, <1>3, <1>4, <1>5, <1>6, <1>7, <1>8 DEF Step, Open, Recv, Recover, Close

\* A step opens a stream, decides, or does neither.
LEMMA WholeStep ==
  ASSUME IInv, RemembersCompletedTurns, ContextsWhole, NEW r \in Requests, Step(r)
  PROVE  ContextsWhole'
<1>1. CASE Prepare(r)
  <2>1. PICK k \in Keys, b \in Bodies :
          /\ body' = [body EXCEPT ![r] = b]
          /\ decision' = [decision EXCEPT ![r] =
                            IF k.session = None THEN NoDecision ELSE Decide(states[k], b)]
    BY <1>1 DEF Prepare
  <2>2. /\ UNCHANGED <<attempt, context>> /\ pc[r] = "idle"
        /\ \A q \in Requests \ {r} : pc'[q] = pc[q] /\ body'[q] = body[q]
    BY <1>1, <2>1 DEF Prepare, turnVars, GoTo, IInv, TypeOK
  <2>3. attempt[r] = 0
    BY <2>2 DEF ContextsWhole, Answered
  <2>4. ASSUME NEW q \in Requests PROVE Answered(q)'
    BY <2>2, <2>3 DEF ContextsWhole, Answered
  <2>5. ASSUME NEW q \in Requests, q # r PROVE Continued(q)'
    <3>1. decision'[q] = decision[q]
      BY <2>1, <2>5 DEF IInv, TypeOK
    <3> QED
      BY <2>2, <2>5, <3>1 DEF ContextsWhole, Continued
  <2>6. Continued(r)'
    <3>1. SUFFICES ASSUME decision'[r].prev # None PROVE Continued(r)'
      BY DEF Continued
    <3>2. decision'[r] = Decide(states[k], b) /\ body'[r] = b
      BY <2>1, <3>1 DEF IInv, TypeOK, NoDecision
    <3>3. LET q == Decide(states[k], b).prev[1] IN
           /\ q \in Requests /\ pc[q] = "done" /\ attempt[q] # 0
           /\ IsPrefix(body[q].input, b.input)
           /\ Decide(states[k], b).start = Len(body[q].input)
      BY <3>1, <3>2, DecideWhole
    <3> QED
      BY <2>2, <3>2, <3>3 DEF Continued
  <2> QED
    BY <2>2, <2>4, <2>5, <2>6 DEF ContextsWhole
<1>2. CASE Quiet(r)
  BY <1>2 DEF Quiet, ContextsWhole, Continued, Answered, NoDecision
<1>3. CASE Opens(r)
  <2>1. PICK a \in Attempts :
          /\ attempt' = [attempt EXCEPT ![r] = a]
          /\ context' = [context EXCEPT ![r] = SentContext(r, a)]
          /\ UNCHANGED <<body, decision>>
          /\ \A q \in Requests \ {r} : pc'[q] = pc[q]
          /\ pc[r] \notin {"idle", "done"} /\ pc'[r] # "idle"
    BY <1>3 DEF Opens
  <2>2. /\ \A q \in Requests \ {r} : attempt'[q] = attempt[q] /\ context'[q] = context[q]
        /\ DOMAIN context' = Requests
    BY <2>1 DEF IInv, TypeOK, ContextsWhole
  <2>3. \A q \in Requests : Continued(q)'
    BY <2>1, <2>2 DEF ContextsWhole, Continued
  <2>4. \A q \in Requests \ {r} : Answered(q)'
    BY <2>1, <2>2 DEF ContextsWhole, Answered
  <2>5. context'[r] = SentContext(r, a)
    BY <2>1 DEF ContextsWhole
  <2>6. Answered(r)'
    BY <2>1, <2>5, SentWhole DEF Answered
  <2> QED
    BY <2>2, <2>3, <2>4, <2>6 DEF ContextsWhole
<1> QED
  BY <1>1, <1>2, <1>3, QuietOrOpens

\* Whatever a turn leaves out, the service answers all the caller wrote.
THEOREM AnswersSafe == Spec => []AnswersWholeInput
<1>1. Init => ContextsWhole
  <2> SUFFICES ASSUME Init PROVE ContextsWhole
    OBVIOUS
  <2>1. \A r \in Requests : decision[r].prev = None /\ attempt[r] = 0
    BY DEF Init, NoDecision
  <2>2. DOMAIN context = Requests
    BY DEF Init
  <2> QED
    BY <2>1, <2>2 DEF ContextsWhole, Continued, Answered
<1>2. IInv /\ RemembersCompletedTurns /\ ContextsWhole /\ [Next]_vars => ContextsWhole'
  <2> SUFFICES ASSUME IInv, RemembersCompletedTurns, ContextsWhole, [Next]_vars
               PROVE  ContextsWhole'
    OBVIOUS
  <2>1. CASE \E r \in Requests : Step(r)
    BY <2>1, WholeStep
  <2>2. CASE Terminated \/ UNCHANGED vars
    BY <2>2 DEF Terminated, vars, turnVars, askVars, ContextsWhole, Continued, Answered
  <2> QED
    BY <2>1, <2>2 DEF Next, Step
<1>3. ContextsWhole => AnswersWholeInput
  BY DEF ContextsWhole, Answered, AnswersWholeInput
<1> QED
  BY <1>1, <1>2, <1>3, Invariance, RemembersSafe, PTL DEF Spec

-----------------------------------------------------------------------------
\* CodexSession implements ConnLease.  LeaseView says what the refinement mapping comes
\* to in a state of the inductive invariant: nobody reads a connection that is not pooled,
\* and the pooled one idles or is read by the one call that holds the session.  A step is
\* then read off the pool before and after it.
Streaming(r) == pc[r] = "stream"

LeaseView ==
  /\ \A c \in Conns : c # pool.conn => Users(c) = {} /\ LeaseStatus[c] = conns[c]
  /\ pool.conn # None => pool.conn \in Conns
  /\ \A r \in Requests : Streaming(r) =>
       /\ pool.conn # None
       /\ Users(pool.conn) = {r}
       /\ LeaseStatus[pool.conn] = IF completed[r] THEN "finished" ELSE "leased"
  /\ (\A r \in Requests : ~Streaming(r)) /\ pool.conn # None =>
       Users(pool.conn) = {} /\ LeaseStatus[pool.conn] = "idle"

LEMMA LeaseViewHolds == IInv => LeaseView
<1> SUFFICES ASSUME IInv PROVE LeaseView
  OBVIOUS
<1>1. pool.conn # None => pool.conn \in Conns /\ conns[pool.conn] = "open"
  BY DEF IInv, TypeOK, WsTypeOK, NoStream, NoLeakedConnection
<1>2. \A c \in Conns : c # pool.conn => conns[c] # "open"
  BY DEF IInv, NoLeakedConnection
<1>3. \A r \in Requests : Streaming(r) => conn[r] = pool.conn /\ lock = r /\ pool.conn # None
  BY ConnNames DEF IInv, TypeOK, WsTypeOK, NoStream, SessionDiscipline, Streaming,
                   CallsWellFormed, Holding
<1>4. \A c \in Conns : c # pool.conn => Users(c) = {} /\ LeaseStatus[c] = conns[c]
  BY <1>2, <1>3 DEF Users, LeaseStatus, Streaming
<1>5. ASSUME NEW r \in Requests, Streaming(r)
      PROVE  /\ pool.conn # None
             /\ Users(pool.conn) = {r}
             /\ LeaseStatus[pool.conn] = IF completed[r] THEN "finished" ELSE "leased"
  <2>1. Users(pool.conn) = {r}
    BY <1>3, <1>5 DEF Users, Streaming
  <2> QED
    BY <1>1, <1>3, <1>5, <2>1 DEF LeaseStatus, IInv, TypeOK
<1>6. ASSUME \A r \in Requests : ~Streaming(r), pool.conn # None
      PROVE  Users(pool.conn) = {} /\ LeaseStatus[pool.conn] = "idle"
  <2>1. Users(pool.conn) = {}
    BY <1>6 DEF Users, Streaming
  <2> QED
    BY <1>1, <1>6, <2>1 DEF LeaseStatus
<1> QED
  BY <1>1, <1>4, <1>5, <1>6 DEF LeaseView

\* A step that changes the status and the users of one connection,
LEMMA BecomesOne ==
  ASSUME NEW c \in Conns, NEW x, NEW y,
         \A d \in Conns \ {c} : LeaseStatus'[d] = LeaseStatus[d] /\ Users(d)' = Users(d),
         LeaseStatus'[c] = x, Users(c)' = y
  PROVE  Lease!Becomes(Lease!One(c, x), Lease!One(c, y))
BY DEF Lease!Becomes, Lease!One, LeaseStatus

\* of two,
LEMMA BecomesTwo ==
  ASSUME NEW r \in Requests, NEW c \in Conns, NEW e \in Conns, c # e,
         \A d \in Conns \ {c, e} :
           LeaseStatus'[d] = LeaseStatus[d] /\ Users(d)' = Users(d),
         LeaseStatus'[c] = "leased", Users(c)' = {r},
         LeaseStatus'[e] = "closed", Users(e)' = {}
  PROVE  Lease!Becomes([x \in {c, e} |-> IF x = c THEN "leased" ELSE "closed"],
                       [x \in {c, e} |-> IF x = c THEN {r} ELSE {}])
BY DEF Lease!Becomes, LeaseStatus

\* or of none.
LEMMA BecomesNone ==
  ASSUME \A d \in Conns : LeaseStatus'[d] = LeaseStatus[d] /\ Users(d)' = Users(d)
  PROVE  UNCHANGED <<LeaseStatus, [c \in Conns |-> Users(c)]>>
BY DEF LeaseStatus

-----------------------------------------------------------------------------
LeaseStutters == UNCHANGED <<LeaseStatus, [c \in Conns |-> Users(c)]>>

\* The holder of the session is the only call that can be reading a WebSocket.
LEMMA OneStreams ==
  ASSUME IInv, NEW r \in Requests, pc[r] \in Holding, NEW q \in Requests, q # r
  PROVE  ~Streaming(q)
BY DEF IInv, SessionDiscipline, Streaming, Holding

\* Steps that leave the pool and its reader alone.
LEMMA QuietStep ==
  ASSUME IInv, UNCHANGED <<pool, conns, conn>>,
         \A q \in Requests : /\ Streaming(q)' <=> Streaming(q)
                             /\ Streaming(q) => completed'[q] = completed[q]
  PROVE  LeaseStutters
<1>1. \A c \in Conns : Users(c)' = Users(c)
  BY DEF Users, Streaming
<1>2. \A c \in Conns : \A r \in Users(c) : r \in Requests /\ Streaming(r)
  BY DEF Users, Streaming
<1>3. \A c \in Conns : LeaseStatus'[c] = LeaseStatus[c]
  BY <1>1, <1>2 DEF LeaseStatus
<1> QED
  BY <1>1, <1>3, BecomesNone DEF LeaseStutters

\* Closing a session that has no stream does nothing.
LEMMA CloseNothing ==
  ASSUME IInv, pool = NoStream, CloseLocked
  PROVE  UNCHANGED <<pool, conns>>
<1>1. \A c \in Conns : c # None
  BY ConnNames
<1> QED
  BY <1>1 DEF CloseLocked, Closed, NoStream, IInv, TypeOK, WsTypeOK

\* Closing the pooled connection: dropped, if there was one.
LEMMA DropStep ==
  ASSUME IInv, IInv', CloseLocked, \A q \in Requests : ~Streaming(q)'
  PROVE  (\E c \in Conns : Lease!Drop(c)) \/ (pool = NoStream /\ UNCHANGED <<pool, conns>>)
<1>1. CASE pool.conn = None
  BY <1>1, ConnNames, CloseNothing DEF IInv, TypeOK, WsTypeOK
<1>2. CASE pool.conn # None
  <2>1. LeaseView /\ LeaseView'
    BY LeaseViewHolds, PTL
  <2>2. PICK e \in Conns : e = pool.conn
    BY <1>2, <2>1 DEF LeaseView
  <2>3. \A c \in Conns : c # pool'.conn
    BY ConnNames DEF CloseLocked, NoStream
  <2>4. /\ \A d \in Conns \ {e} :
             LeaseStatus'[d] = LeaseStatus[d] /\ Users(d)' = Users(d)
        /\ LeaseStatus'[e] = "closed" /\ Users(e)' = {}
    BY <2>1, <2>2, <2>3 DEF LeaseView, CloseLocked, Closed
  <2>5. LeaseStatus[e] \in {"leased", "finished", "idle"}
    BY <1>2, <2>1, <2>2 DEF LeaseView
  <2> QED
    BY <2>4, <2>5, BecomesOne DEF Lease!Drop
<1> QED
  BY <1>1, <1>2

\* A dialled connection c: leased, in place of the one that was pooled.
LEMMA DialStep ==
  ASSUME IInv, IInv', NEW r \in Requests, NEW c \in Conns, NEW s, s # None,
         Dial(s, c), Streaming(r)', ~completed'[r], \A q \in Requests : ~Streaming(q)
  PROVE  Lease!Next
<1>1. LeaseView /\ LeaseView'
  BY LeaseViewHolds, PTL
<1>2. pool'.conn = c /\ conns[c] = "unused"
  BY DEF Dial
<1>3. c # pool.conn
  BY <1>2 DEF IInv, NoLeakedConnection
<1>4. LeaseStatus[c] = "unused"
  BY <1>1, <1>2, <1>3 DEF LeaseView
<1>5. LeaseStatus'[c] = "leased" /\ Users(c)' = {r}
  BY <1>1, <1>2 DEF LeaseView
<1>6. CASE pool.conn = None
  <2>1. \A d \in Conns \ {c} : LeaseStatus'[d] = LeaseStatus[d] /\ Users(d)' = Users(d)
    BY <1>1, <1>2, <1>6, ConnNames DEF LeaseView, Dial, Closed
  <2> QED
    BY <1>4, <1>5, <2>1, BecomesOne DEF Lease!Next, Lease!Take
<1>7. CASE pool.conn # None
  <2>1. PICK e \in Conns : e = pool.conn
    BY <1>1, <1>7 DEF LeaseView
  <2>2. LeaseStatus[e] = "idle"
    BY <1>1, <1>7, <2>1 DEF LeaseView
  <2>3. LeaseStatus'[e] = "closed" /\ Users(e)' = {}
    BY <1>1, <1>2, <1>3, <2>1 DEF LeaseView, Dial, Closed
  <2>4. \A d \in Conns \ {c, e} : LeaseStatus'[d] = LeaseStatus[d] /\ Users(d)' = Users(d)
    BY <1>1, <1>2, <2>1 DEF LeaseView, Dial, Closed
  <2> QED
    BY <1>3, <1>4, <1>5, <2>1, <2>2, <2>3, <2>4, BecomesTwo DEF Lease!Next, Lease!Replace
<1> QED
  BY <1>6, <1>7

\* A step that keeps the pooled connection and moves its status from one value to
\* the next.
LEMMA PooledStep ==
  ASSUME IInv, IInv', UNCHANGED <<pool, conns>>, NEW e \in Conns, e = pool.conn
  PROVE  Lease!Becomes(Lease!One(e, LeaseStatus'[e]), Lease!One(e, Users(e)'))
<1>1. LeaseView /\ LeaseView'
  BY LeaseViewHolds, PTL
<1>2. \A d \in Conns \ {e} : LeaseStatus'[d] = LeaseStatus[d] /\ Users(d)' = Users(d)
  BY <1>1 DEF LeaseView
<1> QED
  BY <1>2, BecomesOne

LEMMA LeaseStep ==
  ASSUME IInv, IInv', NEW r \in Requests, Step(r)
  PROVE  Lease!Next \/ LeaseStutters
<1> USE DEF Streaming
<1>1. CASE Prepare(r) \/ Acquire(r) \/ OpenHTTP(r) \/ OpenHTTPFails(r) \/ CloseFailed(r)
           \/ CloseHTTP(r)
  BY <1>1, QuietStep DEF Prepare, Acquire, OpenHTTP, OpenHTTPFails, CloseFailed, CloseHTTP,
       GoTo, Finished, turnVars, wsVars, IInv, TypeOK
<1>2. CASE RecvCreated(r) \/ RecvReasoning(r) \/ RecvText(r) \/ RecvError(r)
  BY <1>2, QuietStep DEF RecvCreated, RecvReasoning, RecvText, RecvError, wsVars
<1>3. CASE ReplayLostFails(r) \/ RecoverFreshFails(r) \/ RecoverHTTP(r)
  <2>1. pool = NoStream
    BY <1>3 DEF ReplayLostFails, RecoverFreshFails, RecoverHTTP, IInv, SessionDiscipline
  <2>2. UNCHANGED <<pool, conns>>
    BY <1>3, <2>1, CloseNothing DEF ReplayLostFails, RecoverFreshFails, RecoverHTTP
  <2> QED
    BY <1>3, <2>2, QuietStep DEF ReplayLostFails, RecoverFreshFails, RecoverHTTP, GoTo,
         turnVars, IInv, TypeOK
<1>4. CASE OpenDialled(r) \/ ReplayLost(r) \/ RecoverFresh(r)
  <2>1. \A q \in Requests : ~Streaming(q)
    BY <1>4, OneStreams DEF OpenDialled, ReplayLost, RecoverFresh, Holding
  <2>2. Streaming(r)' /\ ~completed'[r]
    BY <1>4 DEF OpenDialled, ReplayLost, RecoverFresh, BeginStream, IInv, TypeOK
  <2>3. Session(r) # None
    BY <1>4, ConnNames DEF OpenDialled, ReplayLost, RecoverFresh, IInv, CallsWellFormed,
         Holding
  <2>4. \E c \in Conns : Dial(Session(r), c)
    BY <1>4, ConnNames DEF OpenDialled, DialStream, ReplayLost, RecoverFresh
  <2> QED
    BY <2>1, <2>2, <2>3, <2>4, DialStep
<1>5. CASE OpenLost(r)
  <2>1. \A q \in Requests : ~Streaming(q)
    BY <1>5, OneStreams DEF OpenLost, Holding
  <2>2. \A q \in Requests : ~Streaming(q)'
    BY <1>5, <2>1 DEF OpenLost, GoTo, IInv, TypeOK
  <2>3. CloseLocked
    BY <1>5 DEF OpenLost, WriteFails, DialFails
  <2>4. (\E c \in Conns : Lease!Drop(c)) \/ UNCHANGED <<pool, conns>>
    BY <2>2, <2>3, DropStep
  <2>5. UNCHANGED <<pool, conns>> => LeaseStutters
    BY <1>5, <2>1, <2>2, QuietStep DEF OpenLost, turnVars
  <2> QED
    BY <2>4, <2>5 DEF Lease!Next
<1>6. CASE RecvClosed(r) \/ RecvFails(r) \/ CloseAbandoned(r)
  <2>1. \A q \in Requests \ {r} : ~Streaming(q)
    BY <1>6, OneStreams DEF RecvClosed, RecvFails, CloseAbandoned, Holding
  <2>2. \A q \in Requests : ~Streaming(q)'
    BY <1>6, <2>1 DEF RecvClosed, RecvFails, CloseAbandoned, GoTo, Finished, IInv, TypeOK
  <2>3. CloseLocked /\ pool # NoStream
    BY <1>6, ConnNames DEF RecvClosed, RecvFails, CloseAbandoned, FailWebSocketSession,
         IInv, SessionDiscipline, CallsWellFormed, Holding, NoStream
  <2> QED
    BY <2>2, <2>3, DropStep DEF Lease!Next
<1>7. CASE RecvCompleted(r) \/ CloseCompleted(r) \/ OpenReused(r)
  <2>1. LeaseView /\ LeaseView'
    BY LeaseViewHolds, PTL
  <2>2. UNCHANGED <<pool, conns>> /\ pool.conn # None
    BY <1>7, <2>1 DEF RecvCompleted, CloseCompleted, OpenReused, ReuseStream, Reusable,
         LeaseView, wsVars
  <2>3. PICK e \in Conns : e = pool.conn
    BY <2>1, <2>2 DEF LeaseView
  <2>4. \A q \in Requests \ {r} : ~Streaming(q)
    BY <1>7, OneStreams DEF RecvCompleted, CloseCompleted, OpenReused, Holding
  <2>5. Lease!Becomes(Lease!One(e, LeaseStatus'[e]), Lease!One(e, Users(e)'))
    BY <2>2, <2>3, PooledStep
  <2>6. CASE RecvCompleted(r)
    <3>1. Streaming(r) /\ Streaming(r)' /\ ~completed[r] /\ completed'[r]
      BY <2>6 DEF RecvCompleted, Reading, IInv, TypeOK
    <3>2. /\ LeaseStatus[e] = "leased" /\ Users(e) = {r}
          /\ LeaseStatus'[e] = "finished" /\ Users(e)' = {r}
      BY <2>1, <2>2, <2>3, <3>1 DEF LeaseView
    <3> QED
      BY <2>5, <3>2 DEF Lease!Next, Lease!Finish
  <2>7. CASE CloseCompleted(r)
    <3>1. Streaming(r) /\ completed[r] /\ \A q \in Requests : ~Streaming(q)'
      BY <2>4, <2>7 DEF CloseCompleted, Finished, GoTo, IInv, TypeOK
    <3>2. /\ LeaseStatus[e] = "finished"
          /\ LeaseStatus'[e] = "idle" /\ Users(e)' = {}
      BY <2>1, <2>2, <2>3, <3>1 DEF LeaseView
    <3> QED
      BY <2>5, <3>2 DEF Lease!Next, Lease!GiveBack
  <2>8. CASE OpenReused(r)
    <3>1. (\A q \in Requests : ~Streaming(q)) /\ Streaming(r)' /\ ~completed'[r]
      BY <2>4, <2>8 DEF OpenReused, BeginStream, IInv, TypeOK
    <3>2. /\ LeaseStatus[e] = "idle"
          /\ LeaseStatus'[e] = "leased" /\ Users(e)' = {r}
      BY <2>1, <2>2, <2>3, <3>1 DEF LeaseView
    <3> QED
      BY <2>5, <3>2 DEF Lease!Next, Lease!Take
  <2> QED
    BY <1>7, <2>6, <2>7, <2>8
<1> QED
  BY <1>1, <1>2, <1>3, <1>4, <1>5, <1>6, <1>7 DEF Step, Open, Recv, Recover, Close

LEMMA LeaseInit == Init => Lease!Init
BY DEF Init, WsInit, Lease!Init, LeaseStatus, Users

\* The Codex client keeps its connections the way ConnLease promises, for any number
\* of calls, sessions, branches and bodies.
THEOREM ImplementsLease == Spec => LeaseSpec
<1>1. IInv /\ IInv' /\ [Next]_vars => [Lease!Next]_<<LeaseStatus, [c \in Conns |-> Users(c)]>>
  <2> SUFFICES ASSUME IInv, IInv', [Next]_vars PROVE Lease!Next \/ LeaseStutters
    BY DEF LeaseStutters
  <2>1. CASE \E r \in Requests : Step(r)
    BY <2>1, LeaseStep
  <2>2. CASE Terminated \/ UNCHANGED vars
    BY <2>2, QuietStep DEF Terminated, vars, turnVars, wsVars, Streaming
  <2> QED
    BY <2>1, <2>2 DEF Next, Step
<1> QED
  BY LeaseInit, <1>1, Invariance, PTL DEF Spec, LeaseSpec, Lease!Spec, Lease!leaseVars
=============================================================================
