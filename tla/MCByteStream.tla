---------------------------- MODULE MCByteStream -----------------------------
(***************************************************************************)
(* ByteStream with Durations of 6 bits, bodies of up to MaxBytes bytes,    *)
(* and WebSockets that carry pings before, between and behind more         *)
(* messages than readCh holds.                                             *)
(***************************************************************************)
EXTENDS ByteStream

\* None, one that a Duration holds, and ones whose product wraps to -28 and to 2.
MCRetryAfters == {0, 2, 12, 22}

MCMessages ==
  { <<>>,
    <<"ping", "text", "ping", "text", "ping">>,
    <<"text", "text", "text", "ping", "text">>,
    <<"text", "binary", "text", "text">> }
=============================================================================
