----------------------------- MODULE CheckQuery -----------------------------
(***************************************************************************)
(* A query's way through Connection::check_query, with the permissions of  *)
(* DbMap.  The call asks the storage two times whether the user may use    *)
(* the table that the query names: for the level in its log, and at the    *)
(* end for the verdict; a third answer only words a line of the log.  In   *)
(* between it looks at the whitelist and the mode, and may learn.  Nothing *)
(* else of the program runs meanwhile, but the administrator edits tables  *)
(* and grants between any two steps.                                       *)
(*                                                                         *)
(* What the text of a query decides is a constant: see QueryText and       *)
(* Normalization.  What the search for risks finds (SqlParse) changes the  *)
(* log only: no sum of risks refuses a query.                              *)
(***************************************************************************)
EXTENDS DbMap

CONSTANTS Queries,
          Normal,        \* normalizeQuery: the pattern of a query
          Level,         \* block_reason: the level of a query that is permitted or not
          Tokens,        \* the queries for which check_token holds
          Asked,         \* the grant that is asked for: table and command
          Alike          \* pairs of queries that differ in values only

Grants == {Asked[q] : q \in Queries}

Levels == {"WARN", "BLOCKED", "SQL_ERROR"}

ASSUME CheckQueryAssumption ==
    /\ Normal \in [Queries -> Patterns]
    /\ Level \in [Queries -> [BOOLEAN -> Levels]]
    /\ Tokens \subseteq Queries
    /\ Alike \subseteq Queries \X Queries

VARIABLES
    granted,   \* the grants of the user in the storage
    check      \* the call: its step, connection, query, level (Connection::status), the
               \* first and second answer of the storage, and its verdict

checkVars == <<vars, granted, check>>

\* The verdict of a call that is not over is "none".
NoCheck == [step |-> "none", verdict |-> "none"]

CheckInit ==
    /\ Init
    /\ granted \in SUBSET Grants
    /\ check = NoCheck

-----------------------------------------------------------------------------
\* check_user_permiss: false if the storage fails for the first statement, what happens
\* to be returned if it does for the second, false if it does for the third.
Answers(q) == {a \in BOOLEAN : StorageErrors \/ (a <=> Asked[q] \in granted)}

\* question and block_reason.
Start(c, q) ==
    /\ phase = "idle" /\ check.step = "none"
    /\ \E a \in Answers(q) :
         check' = [step |-> "look", conn |-> c, query |-> q, level |-> Level[q][a],
                   first |-> a, second |-> a, verdict |-> "none"]
    /\ UNCHANGED <<vars, granted>>

Finish(verdict, level) ==
    check' = [check EXCEPT !.step = "done", !.verdict = verdict, !.level = level]

Pattern == Normal[check.query]

\* A pattern of the whitelist is allowed before anything else.
LookKnown ==
    /\ check.step = "look"
    /\ Pattern \in Judge(check.conn).exceptions
    /\ Finish("known", check.level)
    /\ UNCHANGED <<vars, granted>>

Look(mode) ==
    /\ check.step = "look"
    /\ Pattern \notin Judge(check.conn).exceptions
    /\ Judge(check.conn).mode = mode

LookBlock ==
    /\ Look("block")
    /\ Finish("new", "BLOCKED")
    /\ UNCHANGED <<vars, granted>>

\* Whether or not the pattern is stored.
LookLearn ==
    /\ \E mode \in Learning : Look(mode)
    /\ Learn(check.conn, Pattern)
    /\ Finish("learned", check.level)
    /\ UNCHANGED granted

LookRisk ==
    /\ Look("risk")
    /\ check' = [check EXCEPT !.step = "privilege"]
    /\ UNCHANGED <<vars, granted>>

\* The second answer decides.
Privilege ==
    /\ check.step = "privilege"
    /\ \E a \in Answers(check.query) :
         check' = [check EXCEPT !.step = "done", !.second = a,
                                !.verdict = IF a THEN "permitted" ELSE "refused",
                                !.level = IF ~a /\ check.query \in Tokens THEN "BLOCKED" ELSE @]
    /\ UNCHANGED <<vars, granted>>

\* The call returns.
Return ==
    /\ check.step = "done"
    /\ check' = NoCheck
    /\ UNCHANGED <<vars, granted>>

-----------------------------------------------------------------------------
\* The reload's statements and the connections' choice of a database: no call is open.
Elsewhere ==
    /\ check.step = "none"
    /\ Reload \/ \E c \in Conns, proxy \in {1, 2}, k \in Keys : UseDatabase(c, proxy, k)
    /\ UNCHANGED <<granted, check>>

\* The tables change, but for the moment a verdict is looked at.
Administrator ==
    /\ check.step # "done"
    /\ \/ \E r \in Rows : EditRow(r) \/ TimePasses(r)
       \/ \E k \in Keys, p \in Patterns : EditWhitelist(k, p)
    /\ UNCHANGED <<granted, check>>

\* A grant is given or taken.
EditGrant(g) ==
    /\ check.step # "done"
    /\ granted' = IF g \in granted THEN granted \ {g} ELSE granted \cup {g}
    /\ UNCHANGED <<vars, check>>

CheckNext ==
    \/ \E c \in Conns, q \in Queries : Start(c, q)
    \/ LookKnown
    \/ LookBlock
    \/ LookLearn
    \/ LookRisk
    \/ Privilege
    \/ Return
    \/ Elsewhere
    \/ Administrator
    \/ \E g \in Grants : EditGrant(g)

CheckSpec == CheckInit /\ [][CheckNext]_checkVars

-----------------------------------------------------------------------------
CheckType ==
    [step : {"look", "privilege", "done"}, conn : Conns, query : Queries, level : Levels,
     first : BOOLEAN, second : BOOLEAN,
     verdict : {"none", "known", "new", "learned", "permitted", "refused"}]

\* Type invariant.
CheckTypeOK ==
    /\ TypeOK
    /\ granted \subseteq Grants
    /\ check \in CheckType \cup {NoCheck}

\* connection.cpp, "automatic block of the new commands": a query is not refused as new if
\* the database has learned one that differs in its values only, whose pattern is still on
\* the list that could be read.
SameQueryIsAllowed ==
    check.verdict = "new" =>
        LET k == conn[check.conn]
        IN  \A q \in Queries :
              <<check.query, q>> \in Alike /\ Normal[q] \in learned[k] => k \in unread

\* A refused query is reported with a level that says so, in every mode, unless the two
\* answers differ: then it may be refused and reported as a warning.
RefusalIsReported ==
    check.verdict \in {"new", "refused"} =>
        check.level \in {"BLOCKED", "SQL_ERROR"} \/ check.first # check.second

\* The steps of DbMap alone.
DbMapSteps == Init /\ [][Next]_vars
=============================================================================
