--------------------------- MODULE MCMySQLSession ---------------------------
(***************************************************************************)
(* MySQLSession for TLC: one message of each kind and two databases.       *)
(***************************************************************************)
EXTENDS MySQLSession

Msg(k, n, d) == [kind |-> k, size |-> n, db |-> d]

MCRequests == {Msg("login", 40, "shop"), Msg("oldlogin", 40, NoDatabase),
               Msg("query", 8, NoDatabase), Msg("db", 9, "bank"),
               Msg("change", 12, "bank"), Msg("noreply", 9, NoDatabase),
               Msg("other", 5, NoDatabase)}
=============================================================================
