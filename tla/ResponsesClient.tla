--------------------------- MODULE ResponsesClient ---------------------------
(***************************************************************************)
(* Concurrent calls of one OpenAI Responses client that may use a          *)
(* WebSocket (providers/openai/responses: Client.Request, openWebSocket,   *)
(* webSocketResponseStream, readStream).  The frames are modelled here:    *)
(* what the service still has to send on a connection stays there when the *)
(* connection goes back to the pool.                                       *)
(*                                                                         *)
(*   idle  not made yet         send     handing a frame's event to the    *)
(*   wait  blocked in Acquire            caller                            *)
(*   open  in OpenOrWrite       closing  readStream returns, Close is next *)
(*   recv  in Recv              http     opening HTTP/SSE                  *)
(*   done  over                 sse      reading HTTP/SSE                  *)
(***************************************************************************)
EXTENDS ResponsesWs, Sequences

CONSTANTS Mode,         \* WebSocketMode: default, auto or enabled
          Kinds,        \* the kinds of frame the service sends
          MaxBuffered   \* bound on the frames a connection holds unread

FrameKind == {"delta", "error", "completed", "garbled"}

ASSUME ResponsesAssumption ==
  /\ Mode \in {"default", "auto", "enabled"}
  /\ Kinds \subseteq FrameKind
  /\ MaxBuffered \in Nat \ {0}

VARIABLES pc,         \* where each call is
          session,    \* its session ID (webSocketSessionID), or None
          conn,       \* its WebSocket, or None
          frame,      \* the frame in its hands, or None
          ctxDone,    \* whether its context has ended
          ended,      \* how its WebSocket stream ended
          seen,       \* whose responses its caller was shown frames of
          todo,       \* the calls the service has yet to answer, per connection
          inbox       \* the frames sent and not read, per connection

callVars == <<session, conn, frame, ended, seen>>
vars == <<pc, ctxDone, todo, inbox, callVars, wsVars>>

Frame == [owner : Requests, kind : FrameKind]

Init ==
  /\ WsInit
  /\ pc = [r \in Requests |-> "idle"]
  /\ session = [r \in Requests |-> None]
  /\ conn = [r \in Requests |-> None]
  /\ frame = [r \in Requests |-> None]
  /\ ctxDone = [r \in Requests |-> FALSE]
  /\ ended = [r \in Requests |-> "no"]
  /\ seen = [r \in Requests |-> {}]
  /\ todo = [c \in Conns |-> <<>>]
  /\ inbox = [c \in Conns |-> <<>>]

GoTo(r, place) == pc' = [pc EXCEPT ![r] = place]

-----------------------------------------------------------------------------
UsesWebSocket(s, previous) ==
  Mode = "enabled" \/ (Mode = "auto" /\ (s # None \/ previous))

\* Request, up to the choice of transport.
Request(r) ==
  /\ pc[r] = "idle"
  /\ \E s \in Sessions \cup {None}, previous \in BOOLEAN :
       /\ session' = [session EXCEPT ![r] = s]
       /\ GoTo(r, IF UsesWebSocket(s, previous) THEN "wait" ELSE "http")
  /\ UNCHANGED <<ctxDone, todo, inbox, conn, frame, ended, seen, wsVars>>

\* The caller gives up, or its deadline passes.
Cancel(r) ==
  /\ pc[r] \notin {"idle", "done"} /\ ~ctxDone[r]
  /\ ctxDone' = [ctxDone EXCEPT ![r] = TRUE]
  /\ UNCHANGED <<pc, todo, inbox, callVars, wsVars>>

Acquire(r) ==
  /\ pc[r] = "wait"
  /\ AcquireLock(r)
  /\ GoTo(r, "open")
  /\ UNCHANGED <<pool, conns, ctxDone, todo, inbox, callVars>>

\* The service has the frame of call r on connection c.
Asked(r, c) ==
  /\ conn' = [conn EXCEPT ![r] = c]
  /\ todo' = [todo EXCEPT ![c] = Append(@, r)]
  /\ GoTo(r, "recv")
  /\ UNCHANGED <<lock, ctxDone, inbox, session, frame, ended, seen>>

OpenReused(r) ==
  /\ pc[r] = "open" /\ ~ctxDone[r]
  /\ ReuseStream(session[r])
  /\ Asked(r, pool.conn)

OpenDialled(r) ==
  /\ pc[r] = "open" /\ ~ctxDone[r]
  /\ DialStream(session[r], <<r, 1>>)
  /\ Asked(r, <<r, 1>>)

\* Bug: openWebSocket returns its error with the session locked.
OpenFailsLocked(r) ==
  /\ pc[r] = "open"
  /\ WriteFails(session[r]) \/ DialFails(session[r])
  /\ GoTo(r, IF Mode = "auto" THEN "http" ELSE "done")
  /\ UNCHANGED <<lock, ctxDone, todo, inbox, callVars>>

\* The open fails; in auto mode the call goes on over HTTP/SSE.  A context that
\* ended while the call waited fails it too, and costs the pooled connection.
OpenFails(r) ==
  /\ pc[r] = "open"
  /\ WriteFails(session[r]) \/ DialFails(session[r])
  /\ Unlock(r)
  /\ GoTo(r, IF Mode = "auto" THEN "http" ELSE "done")
  /\ UNCHANGED <<ctxDone, todo, inbox, callVars>>

-----------------------------------------------------------------------------
\* Recv returns a frame.  A frame the decoder rejects ends readStream.
Recv(r) ==
  /\ pc[r] = "recv"
  /\ inbox[conn[r]] # <<>>
  /\ LET next == Head(inbox[conn[r]])
         bad  == next.kind = "garbled"
     IN  /\ frame' = [frame EXCEPT ![r] = IF bad THEN None ELSE next]
         /\ ended' = [ended EXCEPT ![r] = IF bad THEN "left" ELSE @]
         /\ GoTo(r, IF bad THEN "closing" ELSE "send")
  /\ inbox' = [inbox EXCEPT ![conn[r]] = Tail(@)]
  /\ UNCHANGED <<ctxDone, todo, session, conn, seen, wsVars>>

\* Bug: a failed Recv does not close the session.
RecvFailsKeepsSession(r) ==
  /\ pc[r] = "recv"
  /\ ended' = [ended EXCEPT ![r] = "failed"]
  /\ GoTo(r, "closing")
  /\ UNCHANGED <<ctxDone, todo, inbox, session, conn, frame, seen, wsVars>>

\* Recv fails: the connection ends, or the context does.
RecvFails(r) ==
  /\ pc[r] = "recv"
  /\ CloseLocked
  /\ ended' = [ended EXCEPT ![r] = "failed"]
  /\ GoTo(r, "closing")
  /\ UNCHANGED <<lock, ctxDone, todo, inbox, session, conn, frame, seen>>

\* The caller takes the event.  CompletedEvent ends the stream; ErrorEvent does not.
Deliver(r) ==
  /\ pc[r] = "send"
  /\ seen' = [seen EXCEPT ![r] = @ \cup {frame[r].owner}]
  /\ ended' = [ended EXCEPT ![r] = IF frame[r].kind = "completed" THEN "completed" ELSE @]
  /\ GoTo(r, IF frame[r].kind = "completed" THEN "closing" ELSE "recv")
  /\ frame' = [frame EXCEPT ![r] = None]
  /\ UNCHANGED <<ctxDone, todo, inbox, session, conn, wsVars>>

\* sendEvent sees the end of the context: readStream returns without another Recv.
DeliverCancelled(r) ==
  /\ pc[r] = "send" /\ ctxDone[r]
  /\ ended' = [ended EXCEPT ![r] =
                 IF frame[r] = [owner |-> r, kind |-> "completed"] THEN "completed" ELSE "left"]
  /\ GoTo(r, "closing")
  /\ frame' = [frame EXCEPT ![r] = None]
  /\ UNCHANGED <<ctxDone, todo, inbox, session, conn, seen, wsVars>>

\* Bug: a stream without a session is left open like a pooled one.
CloseLeavesOpen(r) ==
  /\ pc[r] = "closing"
  /\ Unlock(r)
  /\ GoTo(r, "done")
  /\ UNCHANGED <<pool, conns, ctxDone, todo, inbox, callVars>>

\* webSocketResponseStream.Close: a stream with a session stays open.
Close(r) ==
  /\ pc[r] = "closing"
  /\ conns' = IF session[r] = None THEN Closed(conn[r]) ELSE conns
  /\ Unlock(r)
  /\ GoTo(r, "done")
  /\ UNCHANGED <<pool, ctxDone, todo, inbox, callVars>>

-----------------------------------------------------------------------------
OpenHTTP(r) ==
  /\ pc[r] = "http" /\ ~ctxDone[r]
  /\ GoTo(r, "sse")
  /\ UNCHANGED <<ctxDone, todo, inbox, callVars, wsVars>>

\* The HTTP/SSE open fails, or its stream ends.
EndHTTP(r) ==
  /\ pc[r] \in {"http", "sse"}
  /\ GoTo(r, "done")
  /\ UNCHANGED <<ctxDone, todo, inbox, callVars, wsVars>>

\* The service: it answers the calls of a connection in turn, frame by frame.
Serve(c) ==
  /\ conns[c] = "open" /\ todo[c] # <<>> /\ Len(inbox[c]) < MaxBuffered
  /\ \E kind \in Kinds :
       /\ inbox' = [inbox EXCEPT ![c] = Append(@, [owner |-> Head(todo[c]), kind |-> kind])]
       /\ todo' = [todo EXCEPT ![c] = IF kind \in {"completed", "error"} THEN Tail(@) ELSE @]
  /\ UNCHANGED <<pc, ctxDone, callVars, wsVars>>

Run(r) ==
  \/ Request(r) \/ Acquire(r) \/ OpenReused(r) \/ OpenDialled(r) \/ OpenFails(r)
  \/ Recv(r) \/ RecvFails(r) \/ Deliver(r) \/ DeliverCancelled(r) \/ Close(r)
  \/ OpenHTTP(r) \/ EndHTTP(r)

Terminated == (\A r \in Requests : pc[r] = "done") /\ UNCHANGED vars

Next ==
  \/ \E r \in Requests : Run(r) \/ Cancel(r)
  \/ \E c \in Conns : Serve(c)
  \/ Terminated

Spec == Init /\ [][Next]_vars

\* A call that runs keeps running and sync.Mutex serves its waiters; the caller takes
\* its events or ends its context; and a stream that goes on, or stays silent, is
\* ended by the service or by the context.
FairSpec ==
  /\ Spec
  /\ \A r \in Requests :
       /\ SF_vars(Acquire(r))
       /\ WF_vars(OpenReused(r) \/ OpenDialled(r) \/ OpenFails(r))
       /\ WF_vars(Recv(r))
       /\ SF_vars(RecvFails(r))
       /\ WF_vars(Deliver(r) \/ DeliverCancelled(r))
       /\ WF_vars(Close(r))
-----------------------------------------------------------------------------
Holding == {"open", "recv", "send", "closing"}

TypeOK ==
  /\ WsTypeOK
  /\ pc \in [Requests -> Holding \cup {"idle", "wait", "http", "sse", "done"}]
  /\ session \in [Requests -> Sessions \cup {None}]
  /\ conn \in [Requests -> Conns \cup {None}]
  /\ frame \in [Requests -> Frame \cup {None}]
  /\ ctxDone \in [Requests -> BOOLEAN]
  /\ ended \in [Requests -> {"no", "completed", "failed", "left"}]
  /\ seen \in [Requests -> SUBSET Requests]
  /\ todo \in [Conns -> Seq(Requests)]
  /\ inbox \in [Conns -> Seq(Frame)]

\* Session.mu covers each call's use of its connection, whichever way the call ends,
\* and the connection a call with a session reads is the pooled one until Recv fails.
LockCoversStream ==
  /\ \A r \in Requests : lock = r <=> pc[r] \in Holding
  /\ \A r \in Requests : pc[r] \in {"recv", "send"} =>
       pool = IF session[r] = None THEN NoStream
              ELSE [session |-> session[r], conn |-> conn[r]]

\* An open connection is the pooled one, or the one a call without a session reads.
NoStrayConnection ==
  \A c \in Conns : conns[c] = "open" =>
    \/ pool.conn = c
    \/ \E r \in Requests : lock = r /\ conn[r] = c

\* A caller is only ever shown frames of another call's response when a call that
\* used the connection before left between two Recvs: no other way out of readStream
\* leaves frames behind.
Left(r, a) == a # r /\ conn[a] = conn[r] /\ ended[a] = "left"

OthersFramesOnlyOfLeftCalls ==
  \A r \in Requests :
    (\A a \in Requests : ~Left(r, a)) => seen[r] \subseteq {r}

\* Frames never cross sessions, whatever is left behind.
FramesStayInSession ==
  \A r \in Requests : \A o \in seen[r] : session[o] = session[r]

\* A call that waits for the session gets it.
WaitersServed == \A r \in Requests : pc[r] = "wait" ~> pc[r] # "wait"

=============================================================================
