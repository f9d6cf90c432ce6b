------------------------------- MODULE MCDbMap -------------------------------
(***************************************************************************)
(* DbMap for TLC: rows, named by strings, and the keys of their objects.   *)
(***************************************************************************)
EXTENDS DbMap, TLC

\* A database and the default.
MCOne == "shop" :> "1,shop" @@ "default" :> "default_mysql"
=============================================================================
