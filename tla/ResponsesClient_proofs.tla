----------------------- MODULE ResponsesClient_proofs -----------------------
(***************************************************************************)
(* Theorems about ResponsesClient: that Session.mu covers each stream, that*)
(* no connection is forgotten, and that what is left on a connection stays *)
(* within its session and comes only from calls that left in the middle.   *)
(***************************************************************************)
EXTENDS ResponsesClient, TLAPS

USE WsAssumption, ResponsesAssumption

-----------------------------------------------------------------------------
\* What a call's place says of its other variables.
CallOK(r) ==
  /\ pc[r] \in {"idle", "wait", "open", "http", "sse"} => conn[r] = None /\ ended[r] = "no"
  /\ pc[r] \in {"recv", "send", "closing"} => conn[r] \in Conns
  /\ pc[r] \in {"recv", "send"} => ended[r] = "no"
  /\ pc[r] = "closing" => ended[r] # "no"
  /\ pc[r] = "send" => frame[r] \in Frame
  /\ conn[r] = None => seen[r] = {}

PoolOf(r) ==
  IF session[r] = None THEN NoStream ELSE [session |-> session[r], conn |-> conn[r]]

\* The pool while r reads a stream, and once it has stopped.
ReadsPooled(r) ==
  /\ pc[r] \in {"recv", "send"} => pool = PoolOf(r)
  /\ pc[r] = "closing" =>
       IF ended[r] = "failed"
       THEN pool = NoStream /\ (session[r] # None => conns[conn[r]] = "closed")
       ELSE pool = PoolOf(r)

PooledIsOpen == pool.conn # None => conns[pool.conn] = "open"

\* A connection is used by calls of one session, or by one call.
OneSession ==
  /\ \A a, b \in Requests : conn[a] # None /\ conn[a] = conn[b] => session[a] = session[b]
  /\ \A a \in Requests : conn[a] # None =>
       /\ conns[conn[a]] # "unused"
       /\ pool.conn = conn[a] => pool.session = session[a]

\* What is on a connection, and what was read from it, answers calls that used it.
OwnersUseIt ==
  /\ \A c \in Conns :
       /\ \A i \in 1..Len(todo[c]) : conn[todo[c][i]] = c
       /\ \A i \in 1..Len(inbox[c]) : conn[inbox[c][i].owner] = c
  /\ \A r \in Requests :
       /\ pc[r] = "send" => conn[frame[r].owner] = conn[r]
       /\ \A o \in seen[r] : conn[o] = conn[r]

-----------------------------------------------------------------------------
Final == {"completed", "error"}

\* Nobody left connection c in the middle of a response.
Clean(c) == \A a \in Requests : conn[a] = c => ended[a] # "left"

Silent(c) == todo[c] = <<>> /\ inbox[c] = <<>>

\* Only r's response is under way on c, and its last frame is the last.
OnlyOwn(r, c) ==
  /\ todo[c] = <<>> \/ todo[c] = <<r>>
  /\ \A i \in 1..Len(inbox[c]) :
       /\ inbox[c][i].owner = r
       /\ inbox[c][i].kind \in Final => i = Len(inbox[c]) /\ todo[c] = <<>>

ReadsOwn(r) ==
  /\ pc[r] \in {"recv", "send"} /\ Clean(conn[r]) => OnlyOwn(r, conn[r])
  /\ pc[r] = "send" /\ Clean(conn[r]) =>
       frame[r].owner = r /\ (frame[r].kind \in Final => Silent(conn[r]))
  /\ pc[r] = "closing" /\ ended[r] = "completed" /\ Clean(conn[r]) => Silent(conn[r])

SeenOwn(r) == (\A a \in Requests : ~Left(r, a)) => seen[r] \subseteq {r}

\* A pooled connection that nobody reads has nothing more to say.
IdleIsSilent ==
  (\A r \in Requests : pc[r] \notin {"recv", "send", "closing"}) =>
    (pool.conn # None /\ Clean(pool.conn) => Silent(pool.conn))

-----------------------------------------------------------------------------
LockInv ==
  /\ TypeOK
  /\ \A r \in Requests : CallOK(r) /\ (lock = r <=> pc[r] \in Holding) /\ ReadsPooled(r)
  /\ PooledIsOpen /\ NoStrayConnection

OwnerInv == OneSession /\ OwnersUseIt

CleanInv == IdleIsSilent /\ \A r \in Requests : ReadsOwn(r) /\ SeenOwn(r)

-----------------------------------------------------------------------------
LEMMA NoneIsNone ==
  /\ None \notin Requests /\ None \notin Sessions /\ None \notin Conns
  /\ NoStream.conn = None /\ NoStream.session = None
  /\ \A r \in Requests : <<r, 1>> \in Conns
BY DEF Conns, NoStream

LEMMA TypeStep ==
  ASSUME TypeOK, \A r \in Requests : CallOK(r), [Next]_vars
  PROVE  TypeOK'
<1> USE DEF TypeOK, WsTypeOK, GoTo, callVars, wsVars, Holding, NoStream, ConnState
<1>1. ASSUME NEW r \in Requests, Request(r) \/ Acquire(r) \/ Cancel(r) PROVE TypeOK'
  <2>1. CASE Request(r)  BY <2>1 DEF Request
  <2>2. CASE Acquire(r)  BY <2>2 DEF Acquire, AcquireLock
  <2>3. CASE Cancel(r)  BY <2>3 DEF Cancel
  <2>4. QED  BY <1>1, <2>1, <2>2, <2>3
<1>2. ASSUME NEW r \in Requests, OpenReused(r) PROVE TypeOK'
  BY <1>2 DEF OpenReused, ReuseStream, Reusable, Asked
<1>3. ASSUME NEW r \in Requests, OpenDialled(r) PROVE TypeOK'
  BY <1>3, NoneIsNone DEF OpenDialled, DialStream, Dial, Closed, Asked
<1>4. ASSUME NEW r \in Requests, OpenFails(r) PROVE TypeOK'
  BY <1>4 DEF OpenFails, WriteFails, DialFails, CloseLocked, Closed, Unlock
<1>5. ASSUME NEW r \in Requests, Recv(r) PROVE TypeOK'
  <2>1. conn[r] \in Conns /\ inbox[conn[r]] \in Seq(Frame)
    BY <1>5 DEF Recv, CallOK
  <2>2. Head(inbox[conn[r]]) \in Frame /\ Tail(inbox[conn[r]]) \in Seq(Frame)
    BY <1>5, <2>1 DEF Recv
  <2>3. inbox' \in [Conns -> Seq(Frame)]
    BY <1>5, <2>1, <2>2 DEF Recv
  <2>4. frame' \in [Requests -> Frame \cup {None}]
    BY <1>5, <2>2 DEF Recv
  <2>5. QED  BY <1>5, <2>3, <2>4 DEF Recv
<1>6. ASSUME NEW r \in Requests, RecvFails(r) PROVE TypeOK'
  BY <1>6 DEF RecvFails, CloseLocked, Closed
<1>7. ASSUME NEW r \in Requests, Deliver(r) PROVE TypeOK'
  <2>1. frame[r].owner \in Requests
    BY <1>7 DEF Deliver, CallOK, Frame
  <2>2. QED  BY <1>7, <2>1 DEF Deliver
<1>8. ASSUME NEW r \in Requests, DeliverCancelled(r) PROVE TypeOK'
  BY <1>8 DEF DeliverCancelled
<1>9. ASSUME NEW r \in Requests, Close(r) PROVE TypeOK'
  BY <1>9 DEF Close, Closed, Unlock
<1>10. ASSUME NEW r \in Requests, OpenHTTP(r) \/ EndHTTP(r) PROVE TypeOK'
  <2>1. CASE OpenHTTP(r)  BY <2>1 DEF OpenHTTP
  <2>2. CASE EndHTTP(r)  BY <2>2 DEF EndHTTP
  <2>3. QED  BY <1>10, <2>1, <2>2
<1>11. ASSUME NEW c \in Conns, Serve(c) PROVE TypeOK'
  <2>1. Head(todo[c]) \in Requests /\ Tail(todo[c]) \in Seq(Requests)
    BY <1>11 DEF Serve
  <2>2. PICK kind \in Kinds :
          /\ inbox' = [inbox EXCEPT ![c] = Append(@, [owner |-> Head(todo[c]), kind |-> kind])]
          /\ todo' = [todo EXCEPT ![c] = IF kind \in {"completed", "error"} THEN Tail(@) ELSE @]
    BY <1>11 DEF Serve
  <2>3. [owner |-> Head(todo[c]), kind |-> kind] \in Frame
    BY <2>1, <2>2 DEF Frame
  <2>4. inbox' \in [Conns -> Seq(Frame)] /\ todo' \in [Conns -> Seq(Requests)]
    BY <2>1, <2>2, <2>3
  <2>5. QED  BY <1>11, <2>4 DEF Serve
<1>12. CASE UNCHANGED vars
  BY <1>12 DEF vars
<1>13. QED
  BY <1>1, <1>2, <1>3, <1>4, <1>5, <1>6, <1>7, <1>8, <1>9, <1>10, <1>11, <1>12
  DEF Next, Run, Terminated
\* The parts of LockInv that speak of one call.
Covered(r) == CallOK(r) /\ (lock = r <=> pc[r] \in Holding) /\ ReadsPooled(r)

LEMMA CoveredStep ==
  ASSUME LockInv, [Next]_vars, TypeOK', NEW q \in Requests
  PROVE  Covered(q)'
<1> USE NoneIsNone DEF LockInv, TypeOK, WsTypeOK, GoTo, callVars, wsVars, Holding, Covered,
        CallOK, ReadsPooled, PoolOf
<1>1. ASSUME NEW r \in Requests, Request(r) \/ Acquire(r) \/ Cancel(r) PROVE Covered(q)'
  <2>1. CASE Request(r)  BY <2>1 DEF Request
  <2>2. CASE Acquire(r)  BY <2>2 DEF Acquire, AcquireLock
  <2>3. CASE Cancel(r)  BY <2>3 DEF Cancel
  <2>4. QED  BY <1>1, <2>1, <2>2, <2>3
<1>2. ASSUME NEW r \in Requests, OpenReused(r) PROVE Covered(q)'
  BY <1>2 DEF OpenReused, ReuseStream, Reusable, Asked
<1>3. ASSUME NEW r \in Requests, OpenDialled(r) PROVE Covered(q)'
  <2>1. /\ pool' = IF session[r] = None THEN NoStream
                   ELSE [session |-> session[r], conn |-> <<r, 1>>]
        /\ conn' = [conn EXCEPT ![r] = <<r, 1>>] /\ pc' = [pc EXCEPT ![r] = "recv"]
        /\ pc[r] = "open" /\ UNCHANGED <<lock, session, frame, ended, seen>>
    BY <1>3 DEF OpenDialled, DialStream, Dial, Asked
  <2>2. CASE q = r
    BY <2>1, <2>2
  <2>3. CASE q # r
    BY <2>1, <2>3
  <2>4. QED  BY <2>2, <2>3
<1>4. ASSUME NEW r \in Requests, OpenFails(r) PROVE Covered(q)'
  BY <1>4 DEF OpenFails, WriteFails, DialFails, CloseLocked, Unlock
<1>5. ASSUME NEW r \in Requests, Recv(r) PROVE Covered(q)'
  BY <1>5 DEF Recv
<1>6. ASSUME NEW r \in Requests, RecvFails(r) PROVE Covered(q)'
  BY <1>6 DEF RecvFails, CloseLocked, Closed
<1>7. ASSUME NEW r \in Requests, Deliver(r) PROVE Covered(q)'
  BY <1>7 DEF Deliver
<1>8. ASSUME NEW r \in Requests, DeliverCancelled(r) PROVE Covered(q)'
  BY <1>8 DEF DeliverCancelled
<1>9. ASSUME NEW r \in Requests, Close(r) PROVE Covered(q)'
  BY <1>9 DEF Close, Unlock
<1>10. ASSUME NEW r \in Requests, OpenHTTP(r) \/ EndHTTP(r) PROVE Covered(q)'
  <2>1. CASE OpenHTTP(r)  BY <2>1 DEF OpenHTTP
  <2>2. CASE EndHTTP(r)  BY <2>2 DEF EndHTTP
  <2>3. QED  BY <1>10, <2>1, <2>2
<1>11. ASSUME NEW c \in Conns, Serve(c) PROVE Covered(q)'
  BY <1>11 DEF Serve
<1>12. CASE UNCHANGED vars
  BY <1>12 DEF vars
<1>13. QED
  BY <1>1, <1>2, <1>3, <1>4, <1>5, <1>6, <1>7, <1>8, <1>9, <1>10, <1>11, <1>12
  DEF Next, Run, Terminated
\* What CloseLocked closes was pooled, and what a call without a session closes it read.
LEMMA ConnsStep ==
  ASSUME LockInv, [Next]_vars, TypeOK'
  PROVE  PooledIsOpen' /\ NoStrayConnection'
<1> DEFINE Goal == PooledIsOpen' /\ NoStrayConnection'
<1> USE NoneIsNone DEF LockInv, TypeOK, WsTypeOK, GoTo, callVars, wsVars, Holding,
        CallOK, ReadsPooled, PoolOf, PooledIsOpen, NoStrayConnection
<1>1. ASSUME NEW r \in Requests, Request(r) \/ Cancel(r) \/ OpenHTTP(r) \/ EndHTTP(r)
      PROVE  Goal
  BY <1>1 DEF Request, Cancel, OpenHTTP, EndHTTP
<1>2. ASSUME NEW r \in Requests, Acquire(r) PROVE Goal
  BY <1>2 DEF Acquire, AcquireLock
<1>3. ASSUME NEW r \in Requests, OpenReused(r) PROVE Goal
  BY <1>3 DEF OpenReused, ReuseStream, Reusable, Asked
<1>4. ASSUME NEW r \in Requests, OpenDialled(r) PROVE Goal
  <2>1. /\ pool' = IF session[r] = None THEN NoStream
                   ELSE [session |-> session[r], conn |-> <<r, 1>>]
        /\ conn' = [conn EXCEPT ![r] = <<r, 1>>]
        /\ conns' = [Closed(pool.conn) EXCEPT ![<<r, 1>>] = "open"]
        /\ lock = r /\ lock' = lock /\ conn[r] = None
    BY <1>4 DEF OpenDialled, DialStream, Dial, Asked
  <2>2. conns'[<<r, 1>>] = "open"
    BY <2>1 DEF Closed
  <2>3. ASSUME NEW c \in Conns, conns'[c] = "open" PROVE c = <<r, 1>>
    <3>1. SUFFICES ASSUME c # <<r, 1>> PROVE FALSE  OBVIOUS
    <3>2. DOMAIN Closed(pool.conn) = Conns
          /\ Closed(pool.conn)[c] = IF c = pool.conn THEN "closed" ELSE conns[c]
      BY DEF Closed
    <3>3. conns[c] = "open" /\ pool.conn # c
      BY <2>1, <2>3, <3>1, <3>2
    <3>4. QED  BY <2>1, <3>3
  <2>4. QED  BY <2>1, <2>2, <2>3
<1>5. ASSUME NEW r \in Requests, OpenFails(r) PROVE Goal
  <2>1. pool' = NoStream /\ conns' = Closed(pool.conn) /\ lock = r /\ conn[r] = None
    BY <1>5 DEF OpenFails, WriteFails, DialFails, CloseLocked
  <2>2. \A c \in Conns : conns'[c] # "open"
    BY <2>1 DEF Closed
  <2>3. QED  BY <2>1, <2>2
<1>6. ASSUME NEW r \in Requests, Recv(r) \/ Deliver(r) \/ DeliverCancelled(r) PROVE Goal
  BY <1>6 DEF Recv, Deliver, DeliverCancelled
<1>7. ASSUME NEW r \in Requests, RecvFails(r) PROVE Goal
  <2>1. /\ pool' = NoStream /\ conns' = Closed(pool.conn) /\ UNCHANGED <<lock, conn>>
    BY <1>7 DEF RecvFails, CloseLocked
  <2>2. QED  BY <2>1 DEF Closed
<1>8. ASSUME NEW r \in Requests, Close(r) PROVE Goal
  <2>1. /\ conns' = IF session[r] = None THEN Closed(conn[r]) ELSE conns
        /\ UNCHANGED <<pool, conn, ended, session>> /\ lock = r /\ pc[r] = "closing"
    BY <1>8 DEF Close
  <2>2. ASSUME NEW c \in Conns, conns'[c] = "open" PROVE pool.conn = c
    BY <2>1, <2>2 DEF Closed
  <2>3. PooledIsOpen'
    BY <2>1 DEF Closed
  <2>4. QED  BY <2>1, <2>2, <2>3
<1>9. ASSUME NEW c \in Conns, Serve(c) PROVE Goal
  BY <1>9 DEF Serve
<1>10. CASE UNCHANGED vars
  BY <1>10 DEF vars
<1>11. QED
  BY <1>1, <1>2, <1>3, <1>4, <1>5, <1>6, <1>7, <1>8, <1>9, <1>10
  DEF Next, Run, Terminated
-----------------------------------------------------------------------------
\* A call joins a connection while it holds the session: one of its own session that is
\* pooled, or one nobody had.
LEMMA OneSessionStep ==
  ASSUME LockInv, OneSession, [Next]_vars, TypeOK'
  PROVE  OneSession'
<1> USE NoneIsNone DEF LockInv, TypeOK, WsTypeOK, GoTo, callVars, wsVars, Holding, CallOK,
        OneSession, PooledIsOpen
<1>1. ASSUME NEW r \in Requests, Request(r) PROVE OneSession'
  BY <1>1 DEF Request
<1>2. ASSUME NEW r \in Requests, Acquire(r) \/ Cancel(r) \/ OpenHTTP(r) \/ EndHTTP(r) \/ Recv(r)
                                  \/ Deliver(r) \/ DeliverCancelled(r)
      PROVE  OneSession'
  BY <1>2 DEF Acquire, Cancel, OpenHTTP, EndHTTP, Recv, Deliver, DeliverCancelled
<1>3. ASSUME NEW r \in Requests, OpenReused(r) PROVE OneSession'
  <2>1. /\ pool.conn \in Conns /\ pool.session = session[r] /\ conn[r] = None
        /\ conn' = [conn EXCEPT ![r] = pool.conn]
        /\ UNCHANGED <<pool, conns, session>>
    BY <1>3 DEF OpenReused, ReuseStream, Reusable, Asked
  <2>2. QED  BY <2>1
<1>4. ASSUME NEW r \in Requests, OpenDialled(r) PROVE OneSession'
  <2>1. /\ pool' = IF session[r] = None THEN NoStream
                   ELSE [session |-> session[r], conn |-> <<r, 1>>]
        /\ conn' = [conn EXCEPT ![r] = <<r, 1>>]
        /\ conns[<<r, 1>>] = "unused"
        /\ conns' = [Closed(pool.conn) EXCEPT ![<<r, 1>>] = "open"]
        /\ conn[r] = None /\ UNCHANGED session
        /\ <<r, 1>> \in Conns /\ <<r, 1>> # None
    BY <1>4 DEF OpenDialled, DialStream, Dial, Asked
  <2>2. \A c \in Conns : conns[c] # "unused" => conns'[c] # "unused"
    BY <2>1 DEF Closed
  <2>3. conns'[<<r, 1>>] = "open"
    BY <2>1 DEF Closed
  <2>4. ASSUME NEW a \in Requests, conn[a] = <<r, 1>> PROVE FALSE
    <3>1. conn[a] # None
      BY <2>1, <2>4
    <3>2. conns[conn[a]] # "unused"
      BY <3>1
    <3>3. QED  BY <2>1, <2>4, <3>2
  <2>5. \A a \in Requests : conn'[a] # None => conns'[conn'[a]] # "unused"
    BY <2>1, <2>2, <2>3
  <2>6. \A a, b \in Requests : conn'[a] # None /\ conn'[a] = conn'[b] => session[a] = session[b]
    BY <2>1, <2>4
  <2>7. \A a \in Requests : conn'[a] # None /\ pool'.conn = conn'[a] => pool'.session = session[a]
    BY <2>1, <2>4
  <2>8. session' = session
    BY <2>1
  <2>9. QED  BY <2>5, <2>6, <2>7, <2>8
<1>5. ASSUME NEW r \in Requests, OpenFails(r) \/ RecvFails(r) PROVE OneSession'
  <2>1. pool' = NoStream /\ conns' = Closed(pool.conn) /\ UNCHANGED <<conn, session>>
    BY <1>5 DEF OpenFails, RecvFails, WriteFails, DialFails, CloseLocked
  <2>2. \A c \in Conns : conns[c] # "unused" => conns'[c] # "unused"
    BY <2>1 DEF Closed
  <2>3. QED  BY <2>1, <2>2
<1>6. ASSUME NEW r \in Requests, Close(r) PROVE OneSession'
  <2>1. UNCHANGED <<pool, conn, session>>
    BY <1>6 DEF Close
  <2>2. \A c \in Conns : conns[c] # "unused" => conns'[c] # "unused"
    BY <1>6 DEF Close, Closed
  <2>3. QED  BY <2>1, <2>2
<1>7. ASSUME NEW c \in Conns, Serve(c) PROVE OneSession'
  BY <1>7 DEF Serve
<1>8. CASE UNCHANGED vars
  BY <1>8 DEF vars
<1>9. QED
  BY <1>1, <1>2, <1>3, <1>4, <1>5, <1>6, <1>7, <1>8 DEF Next, Run, Terminated

LEMMA OwnersStep ==
  ASSUME LockInv, OneSession, OwnersUseIt, [Next]_vars, TypeOK'
  PROVE  OwnersUseIt'
<1> USE NoneIsNone DEF LockInv, TypeOK, WsTypeOK, GoTo, callVars, wsVars, Holding, CallOK,
        OwnersUseIt
<1>1. ASSUME NEW r \in Requests, Request(r) \/ Acquire(r) \/ Cancel(r) \/ OpenHTTP(r)
                                  \/ EndHTTP(r) \/ Close(r) \/ OpenFails(r) \/ RecvFails(r)
      PROVE  OwnersUseIt'
  <2>1. UNCHANGED <<todo, inbox, conn, frame, seen>>
    BY <1>1 DEF Request, Acquire, Cancel, OpenHTTP, EndHTTP, Close, OpenFails, RecvFails
  <2>2. \A q \in Requests : pc'[q] = "send" => pc[q] = "send"
    BY <1>1 DEF Request, Acquire, Cancel, OpenHTTP, EndHTTP, Close, OpenFails, RecvFails
  <2>3. QED  BY <2>1, <2>2
<1>2. ASSUME NEW r \in Requests, NEW d \in Conns, conn[r] = None, pc[r] = "open", Asked(r, d)
      PROVE  OwnersUseIt'
  <2>1. \A a \in Requests : conn[a] # None => conn'[a] = conn[a]
    BY <1>2 DEF Asked
  <2>2. ASSUME NEW c \in Conns, NEW i \in 1..Len(todo'[c]) PROVE conn'[todo'[c][i]] = c
    <3>1. CASE c = d
      <4>1. todo'[c] = Append(todo[c], r) /\ todo[c] \in Seq(Requests)
        BY <1>2, <3>1 DEF Asked
      <4>2. CASE i \in 1..Len(todo[c])
        <5>1. todo'[c][i] = todo[c][i] /\ todo[c][i] \in Requests  BY <4>1, <4>2
        <5>2. QED  BY <2>1, <4>2, <5>1
      <4>3. CASE i = Len(todo[c]) + 1
        <5>1. todo'[c][i] = r  BY <4>1, <4>3
        <5>2. QED  BY <1>2, <3>1, <5>1 DEF Asked
      <4>4. QED  BY <4>1, <4>2, <4>3
    <3>2. CASE c # d
      <4>1. todo'[c] = todo[c] /\ todo[c][i] \in Requests /\ i \in 1..Len(todo[c])
        BY <1>2, <3>2 DEF Asked
      <4>2. QED  BY <2>1, <4>1
    <3>3. QED  BY <3>1, <3>2
  <2>3. ASSUME NEW c \in Conns, NEW i \in 1..Len(inbox'[c])
        PROVE  conn'[inbox'[c][i].owner] = c
    <3>1. inbox' = inbox /\ inbox[c] \in Seq(Frame)
      BY <1>2 DEF Asked
    <3>2. i \in 1..Len(inbox[c]) /\ inbox[c][i] \in Frame
      BY <3>1
    <3>3. inbox[c][i].owner \in Requests
      BY <3>2 DEF Frame
    <3>4. QED  BY <2>1, <3>1, <3>2, <3>3
  <2>4. ASSUME NEW q \in Requests
        PROVE  /\ pc'[q] = "send" => conn'[frame'[q].owner] = conn'[q]
               /\ \A o \in seen'[q] : conn'[o] = conn'[q]
    <3>1. CASE q = r
      BY <1>2, <3>1 DEF Asked
    <3>2. CASE q # r
      <4>1. /\ pc'[q] = pc[q] /\ frame'[q] = frame[q] /\ seen'[q] = seen[q] /\ conn'[q] = conn[q]
        BY <1>2, <3>2 DEF Asked
      <4>2. pc[q] = "send" => conn[q] # None /\ frame[q].owner \in Requests
        BY DEF Frame
      <4>3. seen[q] # {} => conn[q] # None
        OBVIOUS
      <4>4. QED  BY <2>1, <4>1, <4>2, <4>3
    <3>3. QED  BY <3>1, <3>2
  <2>5. QED  BY <2>2, <2>3, <2>4
<1>3. ASSUME NEW r \in Requests, OpenReused(r) \/ OpenDialled(r) PROVE OwnersUseIt'
  <2>1. CASE OpenReused(r)
    BY <1>2, <2>1 DEF OpenReused, ReuseStream, Reusable
  <2>2. CASE OpenDialled(r)
    BY <1>2, <2>2 DEF OpenDialled
  <2>3. QED  BY <1>3, <2>1, <2>2
<1>4. ASSUME NEW r \in Requests, Recv(r) PROVE OwnersUseIt'
  <2>1. inbox[conn[r]] \in Seq(Frame) /\ inbox[conn[r]] # <<>> /\ conn[r] \in Conns
    BY <1>4 DEF Recv
  <2>2. \A i \in 1..Len(Tail(inbox[conn[r]])) :
          Tail(inbox[conn[r]])[i] = inbox[conn[r]][i + 1] /\ i + 1 \in 1..Len(inbox[conn[r]])
    BY <2>1
  <2>3. Head(inbox[conn[r]]) = inbox[conn[r]][1] /\ 1 \in 1..Len(inbox[conn[r]])
    BY <2>1
  <2>4. ASSUME NEW c \in Conns, NEW i \in 1..Len(inbox'[c])
        PROVE  conn[inbox'[c][i].owner] = c
    <3>1. CASE c = conn[r]
      BY <1>4, <2>2, <3>1 DEF Recv
    <3>2. CASE c # conn[r]
      BY <1>4, <3>2 DEF Recv
    <3>3. QED  BY <3>1, <3>2
  <2>5. pc'[r] = "send" => frame'[r] = Head(inbox[conn[r]])
    BY <1>4 DEF Recv
  <2>6. QED  BY <1>4, <2>1, <2>3, <2>4, <2>5 DEF Recv
<1>5. ASSUME NEW r \in Requests, Deliver(r) PROVE OwnersUseIt'
  BY <1>5 DEF Deliver
<1>6. ASSUME NEW r \in Requests, DeliverCancelled(r) PROVE OwnersUseIt'
  BY <1>6 DEF DeliverCancelled
<1>7. ASSUME NEW d \in Conns, Serve(d) PROVE OwnersUseIt'
  <2> DEFINE o == Head(todo[d])
  <2>1. todo[d] \in Seq(Requests) /\ todo[d] # <<>> /\ inbox[d] \in Seq(Frame)
    BY <1>7 DEF Serve
  <2>2. PICK kind \in Kinds :
          /\ inbox' = [inbox EXCEPT ![d] = Append(@, [owner |-> o, kind |-> kind])]
          /\ todo' = [todo EXCEPT ![d] = IF kind \in {"completed", "error"} THEN Tail(@) ELSE @]
    BY <1>7 DEF Serve
  <2>3. conn[o] = d
    <3>1. o = todo[d][1] /\ 1 \in 1..Len(todo[d])  BY <2>1
    <3>2. QED  BY <3>1
  <2>4. \A i \in 1..Len(Tail(todo[d])) :
          Tail(todo[d])[i] = todo[d][i + 1] /\ i + 1 \in 1..Len(todo[d])
    BY <2>1
  <2>5. ASSUME NEW c \in Conns, NEW i \in 1..Len(todo'[c]) PROVE conn[todo'[c][i]] = c
    <3>1. CASE c = d  BY <2>1, <2>2, <2>4, <3>1
    <3>2. CASE c # d  BY <2>2, <3>2
    <3>3. QED  BY <3>1, <3>2
  <2>6. ASSUME NEW c \in Conns, NEW i \in 1..Len(inbox'[c]) PROVE conn[inbox'[c][i].owner] = c
    <3>1. CASE c = d
      <4>1. inbox'[d] = Append(inbox[d], [owner |-> o, kind |-> kind])
        BY <2>2
      <4>2. i \in 1..Len(inbox[d]) \/ inbox'[d][i] = [owner |-> o, kind |-> kind]
        BY <2>1, <3>1, <4>1
      <4>3. i \in 1..Len(inbox[d]) => inbox'[d][i] = inbox[d][i]
        BY <2>1, <4>1
      <4>4. QED  BY <2>3, <3>1, <4>2, <4>3
    <3>2. CASE c # d  BY <2>2, <3>2
    <3>3. QED  BY <3>1, <3>2
  <2>7. UNCHANGED <<conn, pc, frame, seen>>
    BY <1>7 DEF Serve
  <2>8. QED  BY <2>5, <2>6, <2>7
<1>8. CASE UNCHANGED vars
  BY <1>8 DEF vars
<1>9. QED
  BY <1>1, <1>3, <1>4, <1>5, <1>6, <1>7, <1>8 DEF Next, Run, Terminated
-----------------------------------------------------------------------------
\* A connection once taken and an end once met are kept.
LEMMA Kept ==
  ASSUME LockInv, [Next]_vars, NEW a \in Requests
  PROVE  /\ conn[a] # None => conn'[a] = conn[a]
         /\ ended[a] # "no" => ended'[a] = ended[a]
<1> USE DEF LockInv, TypeOK, CallOK, GoTo, callVars
<1>1. ASSUME NEW r \in Requests, Request(r) \/ Acquire(r) \/ Cancel(r) \/ OpenHTTP(r)
                                  \/ EndHTTP(r) \/ Close(r) \/ OpenFails(r)
      PROVE  UNCHANGED <<conn, ended>>
  BY <1>1 DEF Request, Acquire, Cancel, OpenHTTP, EndHTTP, Close, OpenFails
<1>2. ASSUME NEW r \in Requests, OpenReused(r) \/ OpenDialled(r)
      PROVE  conn[r] = None /\ ended' = ended /\ (a # r => conn'[a] = conn[a])
  BY <1>2 DEF OpenReused, OpenDialled, Asked
<1>3. ASSUME NEW r \in Requests, Recv(r) \/ RecvFails(r) \/ Deliver(r) \/ DeliverCancelled(r)
      PROVE  ended[r] = "no" /\ conn' = conn /\ (a # r => ended'[a] = ended[a])
  BY <1>3 DEF Recv, RecvFails, Deliver, DeliverCancelled
<1>4. ASSUME NEW c \in Conns, Serve(c) PROVE UNCHANGED <<conn, ended>>
  BY <1>4 DEF Serve
<1>5. QED  BY <1>1, <1>2, <1>3, <1>4 DEF Next, Run, Terminated, vars

LEMMA CleanBack ==
  ASSUME LockInv, [Next]_vars, NEW c \in Conns, Clean(c)'
  PROVE  Clean(c)
BY Kept, NoneIsNone DEF Clean

LEMMA SeenStep ==
  ASSUME LockInv, CleanInv, [Next]_vars, NEW q \in Requests
  PROVE  SeenOwn(q)'
<1> USE DEF LockInv, CleanInv, TypeOK, CallOK
<1>1. CASE seen'[q] = seen[q]
  <2>1. CASE conn[q] = None
    BY <1>1, <2>1 DEF SeenOwn
  <2>2. CASE conn[q] # None
    <3>1. ASSUME NEW a \in Requests, Left(q, a) PROVE Left(q, a)'
      BY <2>2, <3>1, Kept DEF Left
    <3>2. QED  BY <1>1, <3>1 DEF SeenOwn
  <2>3. QED  BY <2>1, <2>2
<1>2. CASE Deliver(q)
  <2>1. /\ seen'[q] = seen[q] \cup {frame[q].owner} /\ conn' = conn /\ conn[q] \in Conns
        /\ ended[q] = "no" /\ pc[q] = "send"
    BY <1>2 DEF Deliver
  <2>2. ASSUME NEW a \in Requests, Left(q, a) PROVE Left(q, a)'
    BY <1>2, <2>1, <2>2, Kept DEF Left
  <2>3. SUFFICES ASSUME \A a \in Requests : ~Left(q, a) PROVE seen'[q] \subseteq {q}
    BY <2>2 DEF SeenOwn
  <2>4. Clean(conn[q])
    BY <2>1, <2>3 DEF Clean, Left
  <2>5. frame[q].owner = q /\ seen[q] \subseteq {q}
    BY <2>1, <2>3, <2>4 DEF ReadsOwn, SeenOwn
  <2>6. QED  BY <2>1, <2>5
<1>3. CASE ~Deliver(q)
  <2>1. ASSUME NEW r \in Requests, Run(r) \/ Cancel(r) PROVE seen'[q] = seen[q]
    <3>1. CASE Deliver(r)
      BY <1>3, <3>1 DEF Deliver
    <3>2. CASE OpenReused(r) \/ OpenDialled(r)
      BY <3>2 DEF OpenReused, OpenDialled, Asked
    <3>3. QED
      BY <2>1, <3>1, <3>2 DEF Run, Request, Acquire, OpenFails, Recv, RecvFails,
         DeliverCancelled, Close, OpenHTTP, EndHTTP, Cancel, callVars
  <2>2. QED  BY <1>1, <2>1 DEF Next, Terminated, vars, Serve, callVars
<1>4. QED  BY <1>2, <1>3

-----------------------------------------------------------------------------
\* What is said on a connection, while a step neither reads from it nor writes to it.
LEMMA QuietStep ==
  ASSUME LockInv, CleanInv, [Next]_vars, NEW q \in Requests,
         UNCHANGED <<todo, inbox, frame>>, pc[q] \in {"recv", "send", "closing"},
         pc'[q] = pc[q], ended'[q] = ended[q]
  PROVE  ReadsOwn(q)'
<1>1. conn'[q] = conn[q] /\ conn[q] \in Conns
  BY Kept, NoneIsNone DEF LockInv, CallOK
<1>2. Clean(conn[q])' => Clean(conn[q])
  BY <1>1, CleanBack
<1>3. ReadsOwn(q)
  BY DEF CleanInv
<1>4. QED  BY <1>1, <1>2, <1>3 DEF ReadsOwn, OnlyOwn, Silent, Clean
\* A call joins a connection that has nothing more to say, if nobody left there.
LEMMA JoinStep ==
  ASSUME LockInv, OneSession, OwnersUseIt, CleanInv, [Next]_vars, NEW r \in Requests,
         OpenReused(r) \/ OpenDialled(r)
  PROVE  ReadsOwn(r)'
<1> USE NoneIsNone DEF LockInv, TypeOK, WsTypeOK, CallOK, Holding, GoTo
<1>1. ASSUME NEW d \in Conns, Asked(r, d), pc[r] = "open", Clean(d) => Silent(d)
      PROVE  ReadsOwn(r)'
  <2>1. /\ conn'[r] = d /\ pc'[r] = "recv" /\ inbox' = inbox
        /\ todo'[d] = Append(todo[d], r)
    BY <1>1 DEF Asked
  <2>2. SUFFICES ASSUME Clean(d)' PROVE OnlyOwn(r, d)'
    BY <2>1 DEF ReadsOwn, Clean
  <2>3. todo[d] = <<>> /\ inbox[d] = <<>>
    BY <1>1, <2>2, CleanBack DEF Silent
  <2>4. QED  BY <2>1, <2>3 DEF OnlyOwn
<1>2. CASE OpenReused(r)
  <2>1. pool.conn \in Conns /\ Asked(r, pool.conn) /\ pc[r] = "open"
    BY <1>2 DEF OpenReused, ReuseStream, Reusable
  <2>2. \A q \in Requests : pc[q] \notin {"recv", "send", "closing"}
    BY <2>1
  <2>3. Clean(pool.conn) => Silent(pool.conn)
    BY <2>1, <2>2 DEF CleanInv, IdleIsSilent
  <2>4. QED  BY <1>1, <2>1, <2>3
<1>3. CASE OpenDialled(r)
  <2> DEFINE d == <<r, 1>>
  <2>1. d \in Conns /\ d # None /\ Asked(r, d) /\ pc[r] = "open" /\ conns[d] = "unused"
    BY <1>3 DEF OpenDialled, DialStream, Dial
  <2>2. ASSUME NEW a \in Requests PROVE conn[a] # d
    <3>1. conn[a] # None => conns[conn[a]] # "unused"
      BY DEF OneSession
    <3>2. QED  BY <2>1, <3>1
  <2>3. todo[d] \in Seq(Requests) /\ inbox[d] \in Seq(Frame)
    BY <2>1
  <2>4. todo[d] = <<>>
    <3>1. SUFFICES ASSUME todo[d] # <<>> PROVE FALSE  OBVIOUS
    <3>2. 1 \in 1..Len(todo[d]) /\ todo[d][1] \in Requests  BY <2>3, <3>1
    <3>3. QED  BY <2>1, <2>2, <3>2 DEF OwnersUseIt
  <2>5. inbox[d] = <<>>
    <3>1. SUFFICES ASSUME inbox[d] # <<>> PROVE FALSE  OBVIOUS
    <3>2. 1 \in 1..Len(inbox[d]) /\ inbox[d][1] \in Frame  BY <2>3, <3>1
    <3>3. inbox[d][1].owner \in Requests  BY <3>2 DEF Frame
    <3>4. QED  BY <2>1, <2>2, <3>2, <3>3 DEF OwnersUseIt
  <2>6. QED  BY <1>1, <2>1, <2>4, <2>5 DEF Silent
<1>4. QED  BY <1>2, <1>3

\* Recv: the frame read is r's own, and if it is the last of its response nothing follows.
LEMMA RecvStep ==
  ASSUME LockInv, CleanInv, [Next]_vars, NEW r \in Requests, Recv(r)
  PROVE  ReadsOwn(r)'
<1> DEFINE d == conn[r]
<1> USE DEF LockInv, TypeOK, CallOK, GoTo, Holding
<1>1. /\ d \in Conns /\ inbox[d] \in Seq(Frame) /\ inbox[d] # <<>>
      /\ conn' = conn /\ todo' = todo /\ inbox'[d] = Tail(inbox[d]) /\ ended[r] = "no"
      /\ pc[r] = "recv"
  BY DEF Recv
<1>2. /\ Head(inbox[d]) = inbox[d][1] /\ 1 \in 1..Len(inbox[d]) /\ Len(inbox[d]) \in Nat
      /\ Len(Tail(inbox[d])) = Len(inbox[d]) - 1
      /\ \A i \in 1..Len(Tail(inbox[d])) :
           Tail(inbox[d])[i] = inbox[d][i + 1] /\ i + 1 \in 1..Len(inbox[d])
  BY <1>1
<1>3. CASE Head(inbox[d]).kind = "garbled"
  <2>1. pc'[r] = "closing" /\ ended'[r] = "left"
    BY <1>3 DEF Recv
  <2>2. QED  BY <2>1 DEF ReadsOwn
<1>4. CASE Head(inbox[d]).kind # "garbled"
  <2>1. pc'[r] = "send" /\ frame'[r] = inbox[d][1] /\ ended' = ended
    BY <1>2, <1>4 DEF Recv
  <2>2. SUFFICES ASSUME Clean(d)'
        PROVE  OnlyOwn(r, d)' /\ frame'[r].owner = r
               /\ (frame'[r].kind \in Final => Silent(d)')
    BY <1>1, <2>1 DEF ReadsOwn, Clean
  <2>3. OnlyOwn(r, d)
    BY <1>1, <2>2, CleanBack DEF CleanInv, ReadsOwn
  <2>4. OnlyOwn(r, d)'
    BY <1>1, <1>2, <2>3 DEF OnlyOwn
  <2>5. frame'[r].owner = r
    BY <1>2, <2>1, <2>3 DEF OnlyOwn
  <2>6. frame'[r].kind \in Final => Silent(d)'
    <3>1. SUFFICES ASSUME frame'[r].kind \in Final PROVE todo'[d] = <<>> /\ inbox'[d] = <<>>
      BY <1>1 DEF Silent
    <3>2. todo[d] = <<>> /\ Len(inbox[d]) = 1
      BY <1>2, <2>1, <2>3, <3>1 DEF OnlyOwn
    <3>3. Tail(inbox[d]) = <<>>
      BY <1>1, <1>2, <3>2
    <3>4. QED  BY <1>1, <3>2, <3>3
  <2>7. QED  BY <2>4, <2>5, <2>6
<1>5. QED  BY <1>3, <1>4

\* The service: while a call reads, what is said belongs to it, and ends with its end.
LEMMA ServeStep ==
  ASSUME LockInv, CleanInv, [Next]_vars, NEW c \in Conns, Serve(c), NEW q \in Requests
  PROVE  ReadsOwn(q)'
<1> DEFINE o == Head(todo[c])
<1> USE DEF LockInv, TypeOK, CallOK, Holding
<1>1. /\ UNCHANGED <<pc, conn, frame, ended>>
      /\ todo[c] \in Seq(Requests) /\ todo[c] # <<>> /\ inbox[c] \in Seq(Frame)
  BY DEF Serve, callVars
<1>2. PICK kind \in Kinds :
        /\ inbox' = [inbox EXCEPT ![c] = Append(@, [owner |-> o, kind |-> kind])]
        /\ todo' = [todo EXCEPT ![c] = IF kind \in {"completed", "error"} THEN Tail(@) ELSE @]
  BY DEF Serve
<1>3. /\ ReadsOwn(q)
      /\ pc[q] \in {"recv", "send", "closing"} => conn[q] \in Conns
  BY DEF CleanInv
<1>4. CASE conn[q] # c
  <2>1. conn[q] \in Conns => todo'[conn[q]] = todo[conn[q]] /\ inbox'[conn[q]] = inbox[conn[q]]
    BY <1>2, <1>4
  <2>2. QED  BY <1>1, <1>3, <2>1 DEF ReadsOwn, OnlyOwn, Silent, Clean
<1>5. CASE conn[q] = c
  <2>1. ~Silent(c)
    BY <1>1 DEF Silent
  <2>2. Clean(c)' <=> Clean(c)
    BY <1>1 DEF Clean
  <2>3. CASE pc[q] \in {"recv", "send"} /\ Clean(c)
    <3>1. OnlyOwn(q, c) /\ (pc[q] = "send" => frame[q].owner = q /\ frame[q].kind \notin Final)
      BY <1>3, <1>5, <2>1, <2>3 DEF ReadsOwn
    <3>2. todo[c] = <<q>> /\ o = q /\ Tail(todo[c]) = <<>>
      <4>1. todo[c] = <<q>>  BY <1>1, <3>1 DEF OnlyOwn
      <4>2. Head(<<q>>) = q /\ Tail(<<q>>) = <<>>  OBVIOUS
      <4>3. QED  BY <4>1, <4>2
    <3>3. /\ inbox'[c] = Append(inbox[c], [owner |-> q, kind |-> kind])
          /\ kind \in Final => todo'[c] = <<>>
          /\ kind \notin Final => todo'[c] = <<q>>
      BY <1>2, <3>2 DEF Final
    <3>4. ASSUME NEW i \in 1..Len(inbox'[c])
          PROVE  /\ inbox'[c][i].owner = q
                 /\ inbox'[c][i].kind \in Final => i = Len(inbox'[c]) /\ todo'[c] = <<>>
      <4>1. CASE i \in 1..Len(inbox[c])
        <5>1. inbox'[c][i] = inbox[c][i]  BY <1>1, <3>3, <4>1
        <5>2. inbox[c][i].owner = q /\ inbox[c][i].kind \notin Final
          BY <1>1, <3>1, <4>1 DEF OnlyOwn
        <5>3. QED  BY <5>1, <5>2
      <4>2. CASE i = Len(inbox[c]) + 1
        <5>1. inbox'[c][i] = [owner |-> q, kind |-> kind] /\ Len(inbox'[c]) = Len(inbox[c]) + 1
          BY <1>1, <3>3, <4>2
        <5>2. QED  BY <3>3, <4>2, <5>1
      <4>3. QED  BY <1>1, <3>3, <4>1, <4>2
    <3>5. OnlyOwn(q, c)'
      BY <3>3, <3>4 DEF OnlyOwn
    <3>6. QED  BY <1>1, <1>5, <2>3, <3>1, <3>5 DEF ReadsOwn
  <2>4. CASE pc[q] = "closing"
    BY <1>1, <1>3, <1>5, <2>1, <2>2, <2>4 DEF ReadsOwn
  <2>5. QED  BY <1>1, <1>5, <2>2, <2>3, <2>4 DEF ReadsOwn
<1>6. QED  BY <1>4, <1>5
LEMMA ReadsStep ==
  ASSUME LockInv, OneSession, OwnersUseIt, CleanInv, [Next]_vars, NEW q \in Requests
  PROVE  ReadsOwn(q)'
<1> USE DEF LockInv, TypeOK, CallOK, Holding, GoTo, callVars
<1>1. ASSUME NEW r \in Requests, Request(r) \/ Acquire(r) \/ Cancel(r) \/ OpenHTTP(r)
                                  \/ EndHTTP(r) \/ OpenFails(r)
      PROVE  ReadsOwn(q)'
  <2>1. UNCHANGED <<todo, inbox, frame, ended>>
    BY <1>1 DEF Request, Acquire, Cancel, OpenHTTP, EndHTTP, OpenFails
  <2>2. pc'[q] \in {"recv", "send", "closing"} => pc'[q] = pc[q]
    BY <1>1 DEF Request, Acquire, Cancel, OpenHTTP, EndHTTP, OpenFails
  <2>3. QED  BY <2>1, <2>2, QuietStep DEF ReadsOwn
<1>2. ASSUME NEW r \in Requests, Run(r), lock = r, r # q PROVE ReadsOwn(q)'
  <2>1. pc[q] \notin Holding
    BY <1>2
  <2>2. pc'[q] = pc[q]
    BY <1>2 DEF Run, Request, Acquire, OpenReused, OpenDialled, Asked, OpenFails, Recv,
       RecvFails, Deliver, DeliverCancelled, Close, OpenHTTP, EndHTTP
  <2>3. QED  BY <2>1, <2>2 DEF ReadsOwn
<1>3. CASE OpenReused(q) \/ OpenDialled(q)
  BY <1>3, JoinStep
<1>4. CASE Recv(q)
  BY <1>4, RecvStep
<1>5. CASE RecvFails(q) \/ Close(q)
  BY <1>5 DEF RecvFails, Close, ReadsOwn
<1>6. CASE Deliver(q) \/ DeliverCancelled(q)
  <2>1. /\ conn' = conn /\ todo' = todo /\ inbox' = inbox /\ conn[q] \in Conns
        /\ pc[q] = "send" /\ ended[q] = "no"
    BY <1>6 DEF Deliver, DeliverCancelled
  <2>2. Clean(conn[q])' => /\ OnlyOwn(q, conn[q]) /\ frame[q].owner = q
                           /\ (frame[q].kind \in Final => Silent(conn[q]))
    BY <2>1, CleanBack DEF CleanInv, ReadsOwn
  <2>3. pc'[q] = "closing" /\ ended'[q] = "completed" => frame[q].kind = "completed"
    <3>1. CASE Deliver(q)
      BY <2>1, <3>1 DEF Deliver
    <3>2. CASE DeliverCancelled(q)
      BY <2>1, <3>2 DEF DeliverCancelled
    <3>3. QED  BY <1>6, <3>1, <3>2
  <2>4. pc'[q] \in {"recv", "closing"}
    BY <1>6 DEF Deliver, DeliverCancelled
  <2>5. QED
    BY <2>1, <2>2, <2>3, <2>4 DEF ReadsOwn, OnlyOwn, Silent, Final, Clean
<1>7. ASSUME NEW r \in Requests, Run(r), pc[r] \in Holding PROVE lock = r
  BY <1>7
<1>8. ASSUME NEW r \in Requests, Run(r), pc[r] \notin Holding
      PROVE  Request(r) \/ Acquire(r) \/ OpenHTTP(r) \/ EndHTTP(r)
  BY <1>8 DEF Run, OpenReused, OpenDialled, OpenFails, Recv, RecvFails, Deliver,
     DeliverCancelled, Close
<1>9. ASSUME NEW r \in Requests, Run(r) PROVE ReadsOwn(q)'
  <2>1. CASE pc[r] \notin Holding
    BY <1>1, <1>8, <1>9, <2>1
  <2>2. CASE pc[r] \in Holding /\ r # q
    BY <1>2, <1>7, <1>9, <2>2
  <2>3. CASE r = q
    BY <1>1, <1>3, <1>4, <1>5, <1>6, <1>9, <2>3 DEF Run
  <2>4. QED  BY <2>1, <2>2, <2>3
<1>10. ASSUME NEW c \in Conns, Serve(c) PROVE ReadsOwn(q)'
  BY <1>10, ServeStep
<1>11. CASE UNCHANGED vars
  <2>1. UNCHANGED <<todo, inbox, frame, ended, pc>>
    BY <1>11 DEF vars
  <2>2. QED  BY <2>1, QuietStep DEF ReadsOwn
<1>12. QED  BY <1>1, <1>9, <1>10, <1>11 DEF Next, Terminated

LEMMA IdleStep ==
  ASSUME LockInv, CleanInv, [Next]_vars
  PROVE  IdleIsSilent'
<1> USE NoneIsNone DEF LockInv, TypeOK, WsTypeOK, CallOK, Holding, GoTo, callVars, wsVars
<1> SUFFICES ASSUME \A r \in Requests : pc'[r] \notin {"recv", "send", "closing"},
                    pool'.conn # None, Clean(pool.conn)', pool' = pool
             PROVE  todo'[pool.conn] = <<>> /\ inbox'[pool.conn] = <<>>
  <2>1. ASSUME pool' # pool, \A r \in Requests : pc'[r] \notin {"recv", "send", "closing"}
        PROVE  pool'.conn = None
    <3>1. ASSUME NEW r \in Requests, OpenFails(r) PROVE pool' = NoStream
      BY <3>1 DEF OpenFails, WriteFails, DialFails, CloseLocked
    <3>2. ASSUME NEW r \in Requests, Run(r) \/ Cancel(r), ~OpenFails(r) PROVE FALSE
      <4>1. pc'[r] \notin {"recv", "send", "closing"} /\ pool' # pool
        BY <2>1
      <4>2. ~OpenDialled(r) /\ ~OpenReused(r)
        BY <4>1 DEF OpenDialled, OpenReused, Asked
      <4>3. ~RecvFails(r)
        BY <4>1 DEF RecvFails
      <4>4. QED
        BY <3>2, <4>1, <4>2, <4>3 DEF Run, Request, Acquire, Recv, Deliver,
           DeliverCancelled, Close, OpenHTTP, EndHTTP, Cancel
    <3>3. QED  BY <2>1, <3>1, <3>2 DEF Next, Terminated, vars, Serve
  <2>2. QED  BY <2>1 DEF IdleIsSilent, Silent, Clean
<1>1. pool.conn \in Conns /\ Clean(pool.conn)
  <2>1. pool.conn \in Conns  BY DEF NoStream
  <2>2. QED  BY <2>1, CleanBack
<1>2. CASE UNCHANGED <<todo, inbox>> /\ \A r \in Requests : pc[r] \notin {"recv", "send", "closing"}
  BY <1>1, <1>2 DEF CleanInv, IdleIsSilent, Silent
<1>3. ASSUME NEW r \in Requests, Close(r) PROVE Silent(pool.conn) /\ UNCHANGED <<todo, inbox>>
  <2>1. /\ pc[r] = "closing" /\ UNCHANGED <<todo, inbox>>
    BY <1>3 DEF Close
  <2>2. pool = PoolOf(r) /\ ended[r] # "failed" /\ session[r] # None
    BY <1>1, <2>1 DEF ReadsPooled, PoolOf
  <2>3. pool.conn = conn[r]
    BY <2>2 DEF PoolOf
  <2>4. ended[r] = "completed"
    BY <1>1, <2>1, <2>2, <2>3 DEF Clean
  <2>5. QED  BY <1>1, <2>1, <2>3, <2>4 DEF CleanInv, ReadsOwn
<1>4. ASSUME NEW c \in Conns, Serve(c) PROVE todo'[pool.conn] = <<>> /\ inbox'[pool.conn] = <<>>
  <2>1. Silent(pool.conn)
    BY <1>1, <1>4 DEF Serve, CleanInv, IdleIsSilent
  <2>2. c # pool.conn
    BY <1>4, <2>1 DEF Serve, Silent
  <2>3. QED  BY <1>1, <1>4, <2>1, <2>2 DEF Serve, Silent
<1>5. ASSUME NEW r \in Requests, Run(r) \/ Cancel(r), ~Close(r)
      PROVE  UNCHANGED <<todo, inbox>> /\ \A q \in Requests : pc[q] \notin {"recv", "send", "closing"}
  <2>1. pc'[r] \notin {"recv", "send", "closing"}
    OBVIOUS
  <2>2. Request(r) \/ Acquire(r) \/ Cancel(r) \/ OpenHTTP(r) \/ EndHTTP(r) \/ OpenFails(r)
    BY <1>5, <2>1 DEF Run, OpenReused, OpenDialled, Asked, Recv, RecvFails, Deliver,
       DeliverCancelled
  <2>3. UNCHANGED <<todo, inbox>> /\ pc[r] \notin {"recv", "send", "closing"}
    BY <2>1, <2>2 DEF Request, Acquire, Cancel, OpenHTTP, EndHTTP, OpenFails
  <2>4. ASSUME NEW q \in Requests PROVE pc[q] \notin {"recv", "send", "closing"}
    <3>1. q # r => pc'[q] = pc[q]
      BY <2>2 DEF Request, Acquire, Cancel, OpenHTTP, EndHTTP, OpenFails
    <3>2. QED  BY <2>3, <3>1
  <2>5. QED  BY <2>3, <2>4
<1>6. CASE UNCHANGED vars
  BY <1>2, <1>6 DEF vars
<1>7. QED  BY <1>2, <1>3, <1>4, <1>5, <1>6 DEF Next, Terminated, Silent
-----------------------------------------------------------------------------
IInv == LockInv /\ OwnerInv /\ CleanInv

LEMMA InitHolds == Init => IInv
<1> SUFFICES ASSUME Init PROVE IInv  OBVIOUS
<1>1. TypeOK
  BY NoneIsNone DEF Init, WsInit, TypeOK, WsTypeOK, ConnState, Frame
<1>2. LockInv
  BY <1>1, NoneIsNone DEF Init, WsInit, LockInv, CallOK, ReadsPooled, Holding, PooledIsOpen,
     NoStrayConnection
<1>3. OwnerInv
  BY DEF Init, WsInit, OwnerInv, OneSession, OwnersUseIt
<1>4. CleanInv
  BY NoneIsNone DEF Init, WsInit, CleanInv, IdleIsSilent, ReadsOwn, SeenOwn
<1>5. QED  BY <1>2, <1>3, <1>4 DEF IInv

LEMMA Inductive == Spec => []IInv
<1>1. ASSUME IInv, [Next]_vars PROVE IInv'
  <2>1. TypeOK'
    BY <1>1, TypeStep DEF IInv, LockInv
  <2>2. LockInv'
    BY <1>1, <2>1, CoveredStep, ConnsStep DEF IInv, LockInv, Covered
  <2>3. OwnerInv'
    BY <1>1, <2>1, OneSessionStep, OwnersStep DEF IInv, OwnerInv
  <2>4. CleanInv'
    BY <1>1, ReadsStep, SeenStep, IdleStep DEF IInv, OwnerInv, CleanInv
  <2>5. QED  BY <2>2, <2>3, <2>4 DEF IInv
<1>2. IInv /\ [Next]_vars => IInv'
  BY <1>1
<1>3. QED  BY InitHolds, <1>2, PTL DEF Spec

\* Every variable keeps its type.
THEOREM TypeCorrect == Spec => []TypeOK
<1>1. IInv => TypeOK  BY DEF IInv, LockInv
<1>2. QED  BY <1>1, Inductive, PTL

\* Session.mu is held by exactly the call between openWebSocket and the end of Close,
\* and what that call reads is what is pooled.
THEOREM LockSafe == Spec => []LockCoversStream
<1>1. IInv => LockCoversStream
  BY DEF IInv, LockInv, ReadsPooled, PoolOf, LockCoversStream
<1>2. QED  BY <1>1, Inductive, PTL

\* No path through openWebSocket, Recv and Close forgets an open connection.
THEOREM ConnectionsSafe == Spec => []NoStrayConnection
<1>1. IInv => NoStrayConnection  BY DEF IInv, LockInv
<1>2. QED  BY <1>1, Inductive, PTL

\* What a caller is shown was asked on a connection of its own session, whoever left
\* what on it: OpenOrWrite reuses a connection for its session only.
THEOREM SessionsApart == Spec => []FramesStayInSession
<1>1. ASSUME IInv, NEW r \in Requests, NEW o \in seen[r] PROVE session[o] = session[r]
  <2>1. o \in Requests /\ conn[o] = conn[r] /\ conn[r] # None
    BY <1>1 DEF IInv, LockInv, TypeOK, CallOK, OwnerInv, OwnersUseIt
  <2>2. QED  BY <1>1, <2>1 DEF IInv, OwnerInv, OneSession
<1>2. IInv => FramesStayInSession
  BY <1>1 DEF FramesStayInSession
<1>3. QED  BY <1>2, Inductive, PTL

\* A caller sees another call's frames only behind a call that left in the middle of its
\* response: every other end of readStream leaves the connection silent, or closed.
THEOREM OthersSafe == Spec => []OthersFramesOnlyOfLeftCalls
<1>1. IInv => OthersFramesOnlyOfLeftCalls
  BY DEF IInv, CleanInv, SeenOwn, OthersFramesOnlyOfLeftCalls
<1>2. QED  BY <1>1, Inductive, PTL
=============================================================================
