----------------------------- MODULE ResponsesWs -----------------------------
(***************************************************************************)
(* The session shared by the calls of one OpenAI client                    *)
(* (providers/openai/internal/responsesws/session.go): a mutex, and at     *)
(* most one pooled WebSocket with the session ID it was opened for.  The   *)
(* operators below are the steps of the clients that EXTEND this module:   *)
(* each is the whole of a method of Session, in one of its outcomes.       *)
(*                                                                         *)
(* A connection is named after the call and the attempt that dialled it,   *)
(* so no name is ever used for two connections.                            *)
(***************************************************************************)
EXTENDS Naturals

CONSTANTS Requests,   \* the calls made on one client
          Sessions,   \* the session IDs in use
          None        \* Go's nil and "": no holder, stream, session or ID

\* No call dials more than two connections (its turn and one replay).
Conns == Requests \X {1, 2}

ASSUME WsAssumption == None \notin Sessions \cup Requests \cup Conns

VARIABLES lock,    \* the call that holds Session.mu, or None
          pool,    \* Session.sessionID and Session.stream
          conns    \* the client's side of every connection

wsVars == <<lock, pool, conns>>

NoStream == [session |-> None, conn |-> None]

ConnState == {"unused", "open", "closed"}

WsTypeOK ==
  /\ lock \in Requests \cup {None}
  /\ pool \in [session : Sessions, conn : Conns] \cup {NoStream}
  /\ conns \in [Conns -> ConnState]

WsInit ==
  /\ lock = None
  /\ pool = NoStream
  /\ conns = [c \in Conns |-> "unused"]

-----------------------------------------------------------------------------
\* Acquire blocks in mu.Lock: it takes no context, so a cancelled call waits on.
AcquireLock(r) == lock = None /\ lock' = r

\* The closure Acquire returns runs mu.Unlock through a sync.Once: every call
\* of it after the first, and so any call by r once it let go, does nothing.
Unlock(r) == lock' = IF lock = r THEN None ELSE lock

Closed(c) == [x \in Conns |-> IF x = c THEN "closed" ELSE conns[x]]

CloseLocked ==
  /\ pool' = NoStream
  /\ conns' = Closed(pool.conn)

\* Bug: the pooled stream is reused whatever session it was opened for.
ReusableByAny(s) == s # None /\ pool.conn # None

Reusable(s) == s # None /\ pool.conn # None /\ pool.session = s

\* OpenOrWrite, the pooled stream takes the frame: it is returned and stays pooled.
ReuseStream(s) == Reusable(s) /\ UNCHANGED <<pool, conns>>

\* OpenOrWrite, the pooled stream refuses the frame.  No dial is tried.
WriteFails(s) == Reusable(s) /\ CloseLocked

\* OpenOrWrite with nothing to reuse: whatever is pooled is closed, a new
\* connection c is dialled, and it is pooled when the call has a session ID.
\* Bug: the stream of another session is replaced without being closed.
DialKeepsOld(s, c) ==
  /\ conns[c] = "unused"
  /\ pool' = IF s = None THEN NoStream ELSE [session |-> s, conn |-> c]
  /\ conns' = [conns EXCEPT ![c] = "open"]

Dial(s, c) ==
  /\ conns[c] = "unused"
  /\ pool' = IF s = None THEN NoStream ELSE [session |-> s, conn |-> c]
  /\ conns' = [Closed(pool.conn) EXCEPT ![c] = "open"]

DialStream(s, c) == ~Reusable(s) /\ Dial(s, c)

DialFails(s) == ~Reusable(s) /\ CloseLocked
=============================================================================
