-------------------------- MODULE MCResponsesClient --------------------------
(***************************************************************************)
(* Small instances of ResponsesClient.                                     *)
(***************************************************************************)
EXTENDS ResponsesClient, TLC

CONSTANTS r1, r2, r3

Callers == Permutations({r1, r2, r3})
=============================================================================
