----------------------------- MODULE MCExchange -----------------------------
(***************************************************************************)
(* A small instance of Exchange.                                           *)
(***************************************************************************)
EXTENDS Exchange

ChainKinds == {<<>>, <<"coalesce", "inject">>, <<"filter", "coalesce">>}

\* A usage with a part of each kind, and one of nothing but output.
TokenCounts == {[new |-> 5, read |-> 2, write |-> 1, out |-> 4, reasoning |-> 3],
                [NoTokens EXCEPT !.out = 1]}
=============================================================================
