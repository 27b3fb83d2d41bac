------------------------------- MODULE MCTokens -------------------------------
(***************************************************************************)
(* Small instances of Tokens.                                              *)
(***************************************************************************)
EXTENDS Tokens, TLC

CONSTANTS h1, h2, h3

Processes == Permutations({h1, h2, h3})
=============================================================================
