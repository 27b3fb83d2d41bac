------------------------------ MODULE MCGateway ------------------------------
(***************************************************************************)
(* Small instances of Gateway.                                             *)
(***************************************************************************)
EXTENDS Gateway, TLC

CONSTANTS h1, h2, h3, kA, kB, kC

ThreeRoutes == <<kA, kB, kC>>

Clients == Permutations({h1, h2, h3})
=============================================================================
