---------------------------- MODULE Continuation -----------------------------
(***************************************************************************)
(* What the Codex client remembers of a conversation, and how it decides   *)
(* to continue one (providers/openai/codex/session.go).  A request body is *)
(* a record: its profile (model and instructions), its input items and the *)
(* rest (tools, tool_choice, ...).  A hash stands for the thing hashed.    *)
(***************************************************************************)
EXTENDS Naturals, Sequences, SequencesExt

CONSTANTS Assistant,   \* the input items whose role is "assistant"
          None         \* Go's zero value of an ID, a body or a turn state

\* The zero continuationState, which is also what a missing map entry reads as.
NoState == [body |-> None, id |-> None, turn |-> None]

\* Bug: the input is not compared with the one that was answered.
ContinuesAnyInput(body, state) ==
  /\ state.id # None
  /\ state.body.profile = body.profile
  /\ state.body # body

\* A request continues a turn when it keeps its profile, extends its input and
\* is not the very same body again (fullBodyHash).
Continues(body, state) ==
  /\ state.id # None
  /\ state.body.profile = body.profile
  /\ IsPrefix(state.body.input, body.input)
  /\ state.body # body

Decide(state, body) ==
  [prev  |-> IF Continues(body, state) THEN state.id ELSE None,
   start |-> IF state.body = None THEN 0 ELSE Len(state.body.input),
   turn  |-> state.turn]

NoDecision == [prev |-> None, start |-> 0, turn |-> None]

\* commitResponse, with the turnState "" that its only caller passes.
Committed(state, body, id) ==
  IF id = None THEN state ELSE [body |-> body, id |-> id, turn |-> state.turn]

WithTurnState(state, turn) ==
  IF turn = None THEN state ELSE [state EXCEPT !.turn = turn]

-----------------------------------------------------------------------------
\* s without the longest prefix of it that lies in S.
DropLeading(s, S) ==
  LET leading == {n \in 0..Len(s) : \A i \in 1..n : s[i] \in S}
  IN  SubSeq(s, Max(leading) + 1, Len(s))

\* withPreviousResponseID: the items sent along with the previous ID.
Trimmed(input, start) ==
  IF start > 0 /\ start <= Len(input)
  THEN DropLeading(SubSeq(input, start + 1, Len(input)), Assistant)
  ELSE input

\* The items of a context that the caller wrote: all but the assistant's.
CallersItems(s) ==
  LET upTo[n \in 0..Len(s)] ==
        IF n = 0 THEN <<>>
        ELSE IF s[n] \in Assistant THEN upTo[n - 1] ELSE Append(upTo[n - 1], s[n])
  IN  upTo[Len(s)]
=============================================================================
