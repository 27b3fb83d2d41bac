------------------------------ MODULE ConnLease ------------------------------
(***************************************************************************)
(* What a client's pool of WebSockets promises, whatever the code that     *)
(* keeps it: a connection serves one turn at a time; it goes back to the   *)
(* pool only once the response of that turn is finished, so a turn never   *)
(* reads what was left of another's; and a closed connection is never used *)
(* again.                                                                  *)
(***************************************************************************)
CONSTANTS Requests, Conns

VARIABLES status,   \* unused, leased, finished, idle or closed
          users     \* the calls that read the connection

leaseVars == <<status, users>>

Init ==
  /\ status = [c \in Conns |-> "unused"]
  /\ users = [c \in Conns |-> {}]

Becomes(changes, reading) ==
  /\ status' = [c \in Conns |-> IF c \in DOMAIN changes THEN changes[c] ELSE status[c]]
  /\ users' = [c \in Conns |-> IF c \in DOMAIN changes THEN reading[c] ELSE users[c]]

One(c, x) == [d \in {c} |-> x]

\* A call takes a new connection, or one that idles in the pool.
Take(r, c) ==
  /\ status[c] \in {"unused", "idle"}
  /\ Becomes(One(c, "leased"), One(c, {r}))

\* A call takes a new connection and closes the idle one.
Replace(r, c, d) ==
  /\ status[c] = "unused" /\ status[d] = "idle"
  /\ Becomes([x \in {c, d} |-> IF x = c THEN "leased" ELSE "closed"],
             [x \in {c, d} |-> IF x = c THEN {r} ELSE {}])

Finish(c) ==
  /\ status[c] = "leased"
  /\ Becomes(One(c, "finished"), One(c, users[c]))

GiveBack(c) ==
  /\ status[c] = "finished"
  /\ Becomes(One(c, "idle"), One(c, {}))

Drop(c) ==
  /\ status[c] \in {"leased", "finished", "idle"}
  /\ Becomes(One(c, "closed"), One(c, {}))

Next ==
  \/ \E r \in Requests, c \in Conns : Take(r, c)
  \/ \E r \in Requests, c, d \in Conns : Replace(r, c, d)
  \/ \E c \in Conns : Finish(c) \/ GiveBack(c) \/ Drop(c)

Spec == Init /\ [][Next]_leaseVars
=============================================================================
