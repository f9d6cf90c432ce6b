------------------------------ MODULE MCAlerts ------------------------------
(***************************************************************************)
(* Alerts for TLC: keys, named by their proxy, and what they are filed     *)
(* under.                                                                  *)
(***************************************************************************)
EXTENDS Alerts, TLC

\* The numbers of the proxies 1 and 257 are the same modulo 256.
MCProxies == "1,shop,p" :> "\\1,shop,p" @@ "257,shop,p" :> "\\1,shop,p"
                 @@ "2,shop,p" :> "\\2,shop,p"
=============================================================================
