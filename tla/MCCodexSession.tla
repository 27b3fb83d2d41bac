--------------------------- MODULE MCCodexSession ----------------------------
(***************************************************************************)
(* Small instances of CodexSession.                                        *)
(***************************************************************************)
EXTENDS CodexSession, TLC

CONSTANTS r1, r2, r3, sA, sB, mini, full, u1, u2, a1

OneKey == {[session |-> sA, branch |-> "main"]}

\* Two branches of one session, another session, and a call without a session ID.
TwoBranches == OneKey \cup {[session |-> sA, branch |-> "alt"]}
TwoSessions == OneKey \cup {[session |-> sB, branch |-> "main"]}
AllKeys == TwoBranches \cup TwoSessions
WithNoSession == OneKey \cup {[session |-> None, branch |-> "main"]}

Body(profile, input) == [profile |-> profile, input |-> input, rest |-> "tools"]

\* A conversation of two turns: the second replays the first, its answer included.
Conversation == {Body(mini, <<u1>>), Body(mini, <<u1, a1, u2>>)}

\* The same, and its second turn with another model.
TwoModels == Conversation \cup {Body(full, <<u1, a1, u2>>)}

Callers == Permutations({r1, r2, r3})
=============================================================================
