--------------------------- MODULE MCEventStream ----------------------------
(***************************************************************************)
(* Small instances of EventStream.                                         *)
(***************************************************************************)
EXTENDS EventStream

\* A bare client; a gateway's route with pricing; an Anthropic client behind a mux.
LongChains == {<<"read">>, <<"read", "process">>, <<"read", "route">>,
               <<"read", "adapt", "process", "route">>}

\* Metadata first and late, and an error event with more behind it.
Deliver == {<<"meta", "data", "meta", "data">>, <<"data", "error", "data">>}
=============================================================================
