---------------------------- MODULE MCPgSession ----------------------------
(***************************************************************************)
(* PgSession for TLC: messages around the sizes the code compares with (5, *)
(* 8, 13 and 16 bytes), and headers that are none.                         *)
(***************************************************************************)
EXTENDS PgSession

Msg(k, n) == [kind |-> k, size |-> n]

MCRequests == {Msg("ssl", 8), Msg("startup", 14), Msg("password", 9), Msg("query", 8),
               Msg("parse", 11), Msg("parse", 16), Msg("other", 5)}

\* An error takes the way of a login message.
MCAnswers == {Msg("auth", 6), Msg("data", 5)}

\* Text read as a length is longer than any buffer.
MCGarbage == {Msg("other", 1000), Msg("query", 6)}
=============================================================================
