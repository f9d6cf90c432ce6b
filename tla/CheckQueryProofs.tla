-------------------------- MODULE CheckQueryProofs --------------------------
(***************************************************************************)
(* Proofs about DbMap, CheckQuery and SqlParse.  Of DbMap, for every set   *)
(* of rows, keys and patterns and either storage, with and without its     *)
(* errors: what a database has learned is allowed when it leaves the       *)
(* learning mode.  Of CheckQuery, for every set of queries and grants:     *)
(* judging queries keeps to the steps of DbMap, whose invariant therefore  *)
(* holds while a call is open, and the verdicts follow from it.  Of        *)
(* SqlParse, the parser of the queries, for every set of them and every    *)
(* file of patterns: each value on its stack has an object of its own, and *)
(* a call of a function that the file lists is found.                      *)
(***************************************************************************)
EXTENDS CheckQuery, SqlParse, FiniteSetTheorems, SequenceTheorems, WellFoundedInduction, TLAPS

-----------------------------------------------------------------------------
(* DbMap: the tables, the permission objects and the connections.          *)

\* What has been learned is stored: without it LearnedIsAllowed is not inductive,
\* because FetchRow takes the exceptions from the storage.
LearnedIsStored ==
    \A k \in Keys : \A p \in learned[k] : query[k][p] = "on"

Inv ==
    /\ TypeOK
    /\ LearnedIsStored
    /\ LearnedIsAllowed

-----------------------------------------------------------------------------
LEMMA InitInv == Init => Inv
<1> SUFFICES ASSUME Init PROVE Inv
  OBVIOUS
<1> USE DbMapAssumption DEF Init
<1>1. TypeOK
  <2>1. row \in [Rows -> RowType \cup {None}]
    BY DEF RowType
  <2>2. QED
    BY <2>1 DEF TypeOK, NoRows
<1>2. LearnedIsStored
  BY DEF LearnedIsStored
<1>3. LearnedIsAllowed
  BY DEF LearnedIsAllowed
<1>4. QED
  BY <1>1, <1>2, <1>3 DEF Inv

\* An initialized object keeps its exceptions and takes the row's mode.
LEMMA InitObjectType ==
    ASSUME TypeOK, NEW r \in Rows, snap[r] # None
    PROVE  /\ InitObject(KeyOf[r], r) \in Object
           /\ InitObject(KeyOf[r], r).mode = snap[r].mode
<1>1. KeyOf[r] \in Keys
  BY DEF Keys
<1>2. snap[r] \in RowType
  BY DEF TypeOK
<1>3. Known(KeyOf[r]) \in Object
  <2>1. NewObject \in Object
    BY DEF NewObject, Object, Modes, Timed
  <2>2. objs[KeyOf[r]] \in Object \cup {None}
    BY <1>1 DEF TypeOK
  <2>3. QED
    BY <2>1, <2>2 DEF Known
<1>4. QED
  BY <1>2, <1>3 DEF InitObject, Object, RowType

-----------------------------------------------------------------------------
(* Steps of the reload.                                                    *)

\* Statements that change no object, no whitelist and nothing learned.
LEMMA QuietInv ==
    ASSUME Inv, UNCHANGED <<query, objs, conn, learned, unread>>, TypeOK'
    PROVE  Inv'
BY DEF Inv, LearnedIsStored, LearnedIsAllowed

LEMMA GivesUpInv == ASSUME Inv, GivesUp PROVE Inv'
<1>1. TypeOK'
  BY DEF Inv, TypeOK, GivesUp, tables
<1>2. QED
  BY <1>1, QuietInv DEF GivesUp, tables

LEMMA EndLearningInv ==
    ASSUME Inv, NEW mode, NEW next \in {"learning7", "select"},
           EndLearning(mode, next)
    PROVE  Inv'
<1> DEFINE Ends == [r \in Rows |->
                      IF r \in due /\ row[r] # None /\ row[r].mode = mode
                        THEN [row[r] EXCEPT !.mode = "block"] ELSE row[r]]
<1>1. CASE /\ row' = Ends /\ phase' = next
           /\ UNCHANGED <<due, query, edits, objs, snap, conn, learned, unread>>
  <2>1. \A r \in Rows : Ends[r] \in RowType \cup {None} /\ (row[r] # None => Ends[r] # None)
    <3> TAKE r \in Rows
    <3>1. row[r] \in RowType \cup {None}
      BY DEF Inv, TypeOK
    <3>2. CASE r \in due /\ row[r] # None /\ row[r].mode = mode
      <4>1. [row[r] EXCEPT !.mode = "block"] \in RowType
        BY <3>1, <3>2 DEF RowType, Modes, Timed
      <4>2. QED
        BY <3>2, <4>1, DbMapAssumption
    <3>3. CASE ~ (r \in due /\ row[r] # None /\ row[r].mode = mode)
      BY <3>1, <3>3
    <3>4. QED
      BY <3>2, <3>3
  <2>2. TypeOK'
    BY <1>1, <2>1 DEF Inv, TypeOK
  <2>3. QED
    BY <1>1, <2>2, QuietInv
<1>2. CASE phase' = next /\ UNCHANGED <<tables, objs, snap, conn, learned, unread>>
  <2>1. TypeOK'
    BY <1>2 DEF Inv, TypeOK, tables
  <2>2. QED
    BY <1>2, <2>1, QuietInv DEF tables
<1>3. CASE GivesUp
  BY <1>3, GivesUpInv
<1>4. QED
  BY <1>1, <1>2, <1>3 DEF EndLearning

LEMMA SelectRowsInv ==
    ASSUME Inv, NEW rows \in SUBSET Rows, NEW next \in {"rows", "defaults"},
           SelectRows(rows, next)
    PROVE  Inv'
<1>1. CASE /\ snap' = [r \in Rows |-> IF r \in rows THEN row[r] ELSE None]
           /\ phase' = next
           /\ UNCHANGED <<tables, objs, conn, learned, unread>>
  <2>1. TypeOK'
    BY <1>1 DEF Inv, TypeOK, tables
  <2>2. QED
    BY <1>1, <2>1, QuietInv DEF tables
<1>2. QED
  BY <1>1, GivesUpInv DEF SelectRows

LEMMA ReloadDoneInv == ASSUME Inv, ReloadDone PROVE Inv'
<1>1. TypeOK'
  BY DEF Inv, TypeOK, ReloadDone, tables
<1>2. QED
  BY <1>1, QuietInv DEF ReloadDone, tables

\* The whitelist is read with the mode, or its key is marked as unread.
LEMMA FetchRowInv == ASSUME Inv, NEW r \in Rows, FetchRow(r) PROVE Inv'
<1> DEFINE k == KeyOf[r]
           new == InitObject(k, r)
<1>1. /\ k \in Keys /\ snap[r] # None
      /\ snap' = [snap EXCEPT ![r] = None]
      /\ UNCHANGED <<tables, phase, conn, learned>>
  BY DEF FetchRow, Keys
<1>2. new \in Object
  BY <1>1, InitObjectType DEF Inv
<1> HIDE DEF new
<1>3. CASE /\ objs' = [objs EXCEPT ![k] = [new EXCEPT !.exceptions = Whitelist(k)]]
           /\ unread' = unread \ {k}
  <2>1. [new EXCEPT !.exceptions = Whitelist(k)] \in Object
    BY <1>2 DEF Object, Whitelist
  <2>2. objs'[k].exceptions = Whitelist(k)
    BY <1>1, <1>2, <1>3 DEF Inv, TypeOK, Object
  <2>3. \A j \in Keys : j # k => objs'[j] = objs[j]
    BY <1>3 DEF Inv, TypeOK
  <2>4. TypeOK'
    BY <1>1, <1>3, <2>1, DbMapAssumption DEF Inv, TypeOK, tables
  <2>5. learned[k] \subseteq Whitelist(k)
    BY <1>1 DEF Inv, TypeOK, LearnedIsStored, Whitelist
  <2>6. LearnedIsStored'
    BY <1>1 DEF Inv, LearnedIsStored, tables
  <2>7. LearnedIsAllowed'
    BY <1>1, <1>3, <2>2, <2>3, <2>5 DEF Inv, LearnedIsAllowed
  <2>8. QED
    BY <2>4, <2>6, <2>7 DEF Inv
<1>4. CASE objs' = [objs EXCEPT ![k] = new] /\ unread' = unread \cup {k}
  <2>1. \A j \in Keys : j # k => objs'[j] = objs[j]
    BY <1>4 DEF Inv, TypeOK
  <2>2. TypeOK'
    BY <1>1, <1>2, <1>4, DbMapAssumption DEF Inv, TypeOK, tables
  <2>3. LearnedIsStored'
    BY <1>1 DEF Inv, LearnedIsStored, tables
  <2>4. LearnedIsAllowed'
    BY <1>1, <1>4, <2>1 DEF Inv, LearnedIsAllowed
  <2>5. QED
    BY <2>2, <2>3, <2>4 DEF Inv
<1>5. QED
  BY <1>3, <1>4 DEF FetchRow, new

LEMMA ReloadInv == ASSUME Inv, Reload PROVE Inv'
<1>1. CASE EndLearning3
  BY <1>1, EndLearningInv DEF EndLearning3
<1>2. CASE EndLearning7
  BY <1>2, EndLearningInv DEF EndLearning7
<1>3. CASE Select
  BY <1>3, SelectRowsInv DEF Select
<1>4. CASE SelectDefaults
  BY <1>4, SelectRowsInv DEF SelectDefaults, Defaults
<1>5. CASE \E r \in Rows : FetchRow(r)
  BY <1>5, FetchRowInv
<1>6. CASE ReloadDone
  BY <1>6, ReloadDoneInv
<1>7. QED
  BY <1>1, <1>2, <1>3, <1>4, <1>5, <1>6 DEF Reload

-----------------------------------------------------------------------------
(* Connections, the administrator and the clock.                           *)

LEMMA UseDatabaseInv ==
    ASSUME Inv, NEW c \in Conns, NEW proxy, NEW k \in Keys, UseDatabase(c, proxy, k)
    PROVE  Inv'
<1>1. Find(proxy, k) \in Keys \cup {None}
  BY DEF Find
<1>2. Find(proxy, k) # None => objs[Find(proxy, k)] # None
  BY DEF Find
<1>3. TypeOK'
  BY <1>1, <1>2 DEF Inv, TypeOK, UseDatabase, tables, reload
<1>4. QED
  BY <1>3 DEF Inv, UseDatabase, tables, LearnedIsStored, LearnedIsAllowed

\* Only an object in a learning mode learns, and LearnedIsAllowed speaks of the
\* blocking one.
LEMMA LearnInv ==
    ASSUME Inv, NEW c \in Conns, NEW p \in Patterns, Learn(c, p)
    PROVE  Inv'
<1> DEFINE k == conn[c]
<1>1. k \in Keys \cup {None} /\ (k # None => objs[k] # None)
  BY DEF Inv, TypeOK
<1>2. k # None
  BY DEF Learn, Judge, NewObject, Learning, Timed
<1>3. k \in Keys /\ objs[k].mode # "block"
  BY <1>1, <1>2 DEF Learn, Judge, Learning, Timed
<1> HIDE DEF k
<1>4. AddToWhitelist(k, p) /\ UNCHANGED <<row, due, edits, objs, reload, conn, unread>>
  BY DEF Learn, AddToWhitelist, k
<1>5. /\ query' = query \/ query' = [query EXCEPT ![k][p] = "on"]
      /\ \/ learned' = learned
         \/ learned' = [learned EXCEPT ![k] = @ \cup {p}] /\ query'[k][p] = "on"
  <2>1. CASE query[k][p] = "none" /\ query' = [query EXCEPT ![k][p] = "on"]
             /\ learned' = [learned EXCEPT ![k] = @ \cup {p}]
    <3>1. query'[k][p] = "on"
      BY <1>3, <2>1 DEF Inv, TypeOK
    <3>2. QED
      BY <2>1, <3>1
  <2>2. CASE query[k][p] = "on" /\ learned' = [learned EXCEPT ![k] = @ \cup {p}]
             /\ UNCHANGED query
    BY <2>2
  <2>3. CASE UNCHANGED <<query, learned>>
    BY <2>3
  <2>4. QED
    BY <1>4, <2>1, <2>2, <2>3 DEF AddToWhitelist
<1>6. query' \in [Keys -> [Patterns -> {"none", "off", "on"}]]
  <2>1. query \in [Keys -> [Patterns -> {"none", "off", "on"}]]
    BY DEF Inv, TypeOK
  <2>2. [query[k] EXCEPT ![p] = "on"] \in [Patterns -> {"none", "off", "on"}]
    BY <1>3, <2>1
  <2>3. CASE query' = [query EXCEPT ![k] = [query[k] EXCEPT ![p] = "on"]]
    BY <2>1, <2>2, <2>3
  <2>4. QED
    BY <1>5, <2>1, <2>3
<1>7. learned' \in [Keys -> SUBSET Patterns]
  BY <1>3, <1>5 DEF Inv, TypeOK
<1>8. TypeOK'
  BY <1>4, <1>6, <1>7 DEF Inv, TypeOK, reload
<1>9. LearnedIsStored'
  <2>1. \A j \in Keys, q \in Patterns : query[j][q] = "on" => query'[j][q] = "on"
    BY <1>3, <1>5 DEF Inv, TypeOK
  <2>2. \A j \in Keys : \A q \in learned'[j] :
           q \in learned[j] \/ (j = k /\ q = p /\ query'[k][p] = "on")
    BY <1>3, <1>5 DEF Inv, TypeOK
  <2>3. QED
    BY <1>7, <2>1, <2>2 DEF Inv, TypeOK, LearnedIsStored
<1>10. LearnedIsAllowed'
  <2>1. \A j \in Keys : j # k => learned'[j] = learned[j]
    BY <1>5 DEF Inv, TypeOK
  <2>2. QED
    BY <1>3, <1>4, <2>1 DEF Inv, LearnedIsAllowed
<1>11. QED
  BY <1>8, <1>9, <1>10 DEF Inv

LEMMA EditRowInv == ASSUME Inv, NEW r \in Rows, EditRow(r) PROVE Inv'
<1>1. row' \in [Rows -> RowType \cup {None}]
  BY DEF Inv, TypeOK, EditRow
<1>2. due' \subseteq {s \in Rows : row'[s] # None}
  BY DEF Inv, TypeOK, EditRow
<1>3. edits' \in 0..MaxEdits
  BY DbMapAssumption DEF Inv, TypeOK, EditRow
<1>4. TypeOK'
  BY <1>1, <1>2, <1>3 DEF Inv, TypeOK, EditRow, reload
<1>5. QED
  BY <1>4, QuietInv DEF EditRow

LEMMA EditWhitelistInv ==
    ASSUME Inv, NEW k \in Keys, NEW p \in Patterns, EditWhitelist(k, p)
    PROVE  Inv'
<1>1. PICK new \in {"none", "off", "on"} : query' = [query EXCEPT ![k][p] = new]
  BY DEF EditWhitelist
<1>2. learned' = [learned EXCEPT ![k] = @ \ {p}]
  BY DEF EditWhitelist
<1>3. TypeOK'
  <2>1. query' \in [Keys -> [Patterns -> {"none", "off", "on"}]]
    BY <1>1 DEF Inv, TypeOK
  <2>2. learned' \in [Keys -> SUBSET Patterns]
    BY <1>2 DEF Inv, TypeOK
  <2>3. edits' \in 0..MaxEdits
    BY DbMapAssumption DEF Inv, TypeOK, EditWhitelist
  <2>4. QED
    BY <2>1, <2>2, <2>3 DEF Inv, TypeOK, EditWhitelist, reload
<1>4. \A j \in Keys : learned'[j] \subseteq learned[j]
  BY <1>2 DEF Inv, TypeOK
<1>5. LearnedIsStored'
  <2>1. \A j \in Keys : \A q \in learned'[j] : j # k \/ q # p
    BY <1>2 DEF Inv, TypeOK
  <2>2. \A j \in Keys, q \in Patterns : (j # k \/ q # p) => query'[j][q] = query[j][q]
    BY <1>1 DEF Inv, TypeOK
  <2>3. \A j \in Keys : \A q \in learned'[j] : q \in Patterns
    BY <1>3 DEF TypeOK
  <2>4. \A j \in Keys : \A q \in learned'[j] : query[j][q] = "on"
    BY <1>4 DEF Inv, LearnedIsStored
  <2>5. QED
    BY <2>1, <2>2, <2>3, <2>4 DEF LearnedIsStored
<1>6. LearnedIsAllowed'
  BY <1>4 DEF Inv, LearnedIsAllowed, EditWhitelist
<1>7. QED
  BY <1>3, <1>5, <1>6 DEF Inv

LEMMA TimePassesInv == ASSUME Inv, NEW r \in Rows, TimePasses(r) PROVE Inv'
<1>1. TypeOK'
  BY DEF Inv, TypeOK, TimePasses, reload
<1>2. QED
  BY <1>1, QuietInv DEF TimePasses

LEMMA NextInv == Inv /\ [Next]_vars => Inv'
<1> SUFFICES ASSUME Inv, [Next]_vars PROVE Inv'
  OBVIOUS
<1>1. CASE Reload
  BY <1>1, ReloadInv
<1>2. CASE \E c \in Conns, proxy \in {1, 2}, k \in Keys : UseDatabase(c, proxy, k)
  BY <1>2, UseDatabaseInv
<1>3. CASE \E c \in Conns, p \in Patterns : Learn(c, p)
  BY <1>3, LearnInv
<1>4. CASE \E r \in Rows : EditRow(r)
  BY <1>4, EditRowInv
<1>5. CASE \E k \in Keys, p \in Patterns : EditWhitelist(k, p)
  BY <1>5, EditWhitelistInv
<1>6. CASE \E r \in Rows : TimePasses(r)
  BY <1>6, TimePassesInv
<1>7. CASE UNCHANGED vars
  <2>1. TypeOK'
    BY <1>7 DEF Inv, TypeOK, vars, tables, reload
  <2>2. QED
    BY <1>7, <2>1, QuietInv DEF vars, tables
<1>8. QED
  BY <1>1, <1>2, <1>3, <1>4, <1>5, <1>6, <1>7 DEF Next

LEMMA InvAlways == Spec => []Inv
<1>1. QED
  BY InitInv, NextInv, PTL DEF Spec

-----------------------------------------------------------------------------
\* The tables, the permission objects and the pointers of the connections keep
\* their types: a connection never points to an object that does not exist.
THEOREM TypeCorrect == Spec => []TypeOK
<1>1. Inv => TypeOK
  BY DEF Inv
<1>2. QED
  BY <1>1, InvAlways, PTL

\* In the blocking mode a database allows everything it has learned, however the
\* administrator's edits and the failures of the storage fall between the
\* statements of a reload.
THEOREM LearnedAllowed == Spec => []LearnedIsAllowed
<1>1. Inv => LearnedIsAllowed
  BY DEF Inv
<1>2. QED
  BY <1>1, InvAlways, PTL

-----------------------------------------------------------------------------
(* CheckQuery: the calls of check_query.                                   *)

\* A call that is open has the level of its first answer; one that refused a query as
\* new has looked at permissions that do not change before it returns; one that refused
\* it otherwise has got the answer no.
OpenCall ==
    /\ check.step \in {"look", "privilege"} =>
         check.verdict = "none" /\ check.level = Level[check.query][check.first]
    /\ check.verdict \in {"new", "refused"} => check.step = "done"
    /\ check.verdict = "new" =>
         /\ check.level = "BLOCKED"
         /\ conn[check.conn] # None /\ objs[conn[check.conn]].mode = "block"
         /\ Normal[check.query] \notin objs[conn[check.conn]].exceptions
    /\ check.verdict = "refused" =>
         /\ check.second = FALSE
         /\ check.level \in {"BLOCKED", Level[check.query][check.first]}

CallType == check \in CheckType \cup {NoCheck}

CheckInv == CallType /\ granted \subseteq Grants /\ OpenCall

-----------------------------------------------------------------------------
LEMMA InitCheck == CheckInit => CheckInv
BY DEF CheckInit, CheckInv, CallType, OpenCall, NoCheck

LEMMA StartCheck ==
    ASSUME CheckInv, NEW c \in Conns, NEW q \in Queries, Start(c, q)
    PROVE  CheckInv'
<1>1. PICK a \in BOOLEAN :
        check' = [step |-> "look", conn |-> c, query |-> q, level |-> Level[q][a],
                  first |-> a, second |-> a, verdict |-> "none"]
  BY DEF Start, Answers
<1>2. Level[q][a] \in Levels
  BY CheckQueryAssumption
<1>3. CallType'
  BY <1>1, <1>2 DEF CallType, CheckType
<1>4. OpenCall'
  <2>1. /\ check'.step = "look" /\ check'.verdict = "none"
        /\ check'.level = Level[check'.query][check'.first]
    BY <1>1
  <2>2. QED
    BY <2>1 DEF OpenCall
<1>5. QED
  BY <1>3, <1>4 DEF CheckInv, Start

\* What is true of a record of an open call.
LEMMA OpenIsTyped == ASSUME CallType, check.step # "none" PROVE check \in CheckType
BY DEF CallType, NoCheck

LEMMA KnownCheck == ASSUME CheckInv, LookKnown PROVE CheckInv'
<1>1. check \in CheckType
  BY OpenIsTyped DEF CheckInv, LookKnown
<1>2. check' = [check EXCEPT !.step = "done", !.verdict = "known", !.level = check.level]
  BY DEF LookKnown, Finish
<1>3. CallType' /\ OpenCall'
  BY <1>1, <1>2 DEF CallType, CheckType, OpenCall
<1>4. QED
  BY <1>3 DEF CheckInv, LookKnown

LEMMA BlockCheck == ASSUME CheckInv, LookBlock PROVE CheckInv'
<1>1. check \in CheckType
  BY OpenIsTyped DEF CheckInv, LookBlock, Look
<1>2. check' = [check EXCEPT !.step = "done", !.verdict = "new", !.level = "BLOCKED"]
  BY DEF LookBlock, Finish
<1>3. CallType'
  BY <1>1, <1>2 DEF CallType, CheckType, Levels
<1>4. conn[check.conn] # None
  BY DEF LookBlock, Look, Judge, NewObject
<1>5. /\ objs[conn[check.conn]].mode = "block"
      /\ Normal[check.query] \notin objs[conn[check.conn]].exceptions
  BY <1>4 DEF LookBlock, Look, Judge, Pattern
<1>6. conn' = conn /\ objs' = objs
  BY DEF LookBlock, vars
<1>7. OpenCall'
  BY <1>1, <1>2, <1>4, <1>5, <1>6 DEF OpenCall, CheckType
<1>8. QED
  BY <1>3, <1>7 DEF CheckInv, LookBlock

LEMMA LearnCheck == ASSUME CheckInv, LookLearn PROVE CheckInv'
<1>1. check \in CheckType
  BY OpenIsTyped DEF CheckInv, LookLearn, Look
<1>2. check' = [check EXCEPT !.step = "done", !.verdict = "learned", !.level = check.level]
  BY DEF LookLearn, Finish
<1>3. CallType' /\ OpenCall'
  BY <1>1, <1>2 DEF CallType, CheckType, OpenCall
<1>4. QED
  BY <1>3 DEF CheckInv, LookLearn

LEMMA RiskCheck == ASSUME CheckInv, LookRisk PROVE CheckInv'
<1>1. check \in CheckType /\ check.step = "look"
  BY OpenIsTyped DEF CheckInv, LookRisk, Look
<1>2. check' = [check EXCEPT !.step = "privilege"]
  BY DEF LookRisk
<1>3. CallType' /\ OpenCall'
  BY <1>1, <1>2 DEF CheckInv, CallType, CheckType, OpenCall
<1>4. QED
  BY <1>3 DEF CheckInv, LookRisk

LEMMA PrivilegeCheck == ASSUME CheckInv, Privilege PROVE CheckInv'
<1>1. check \in CheckType /\ check.step = "privilege"
  BY OpenIsTyped DEF CheckInv, Privilege
<1>2. PICK a \in BOOLEAN :
        check' = [check EXCEPT !.step = "done", !.second = a,
                               !.verdict = IF a THEN "permitted" ELSE "refused",
                               !.level = IF ~a /\ check.query \in Tokens THEN "BLOCKED" ELSE @]
  BY DEF Privilege, Answers
<1>3. CallType'
  BY <1>1, <1>2 DEF CallType, CheckType, Levels
<1>4. OpenCall'
  <2>1. check.level = Level[check.query][check.first]
    BY <1>1 DEF CheckInv, OpenCall
  <2>2. /\ check'.step = "done" /\ check'.query = check.query /\ check'.first = check.first
        /\ check'.second = a
        /\ check'.level \in {"BLOCKED", check.level}
        /\ check'.verdict = IF a THEN "permitted" ELSE "refused"
    BY <1>1, <1>2 DEF CheckType
  <2>3. QED
    BY <2>1, <2>2 DEF OpenCall
<1>5. QED
  BY <1>3, <1>4 DEF CheckInv, Privilege

LEMMA ReturnCheck == ASSUME CheckInv, Return PROVE CheckInv'
BY DEF CheckInv, CallType, OpenCall, Return, NoCheck

\* While a verdict is looked at nothing else happens.
LEMMA OtherCheck ==
    ASSUME CheckInv, UNCHANGED check, granted' \subseteq Grants,
           check.step # "done" \/ UNCHANGED <<conn, objs>>
    PROVE  CheckInv'
BY DEF CheckInv, CallType, OpenCall

LEMMA NextCheck == CheckInv /\ [CheckNext]_checkVars => CheckInv'
<1> SUFFICES ASSUME CheckInv, [CheckNext]_checkVars PROVE CheckInv'
  OBVIOUS
<1>1. CASE \E c \in Conns, q \in Queries : Start(c, q)
  BY <1>1, StartCheck
<1>2. CASE LookKnown
  BY <1>2, KnownCheck
<1>3. CASE LookBlock
  BY <1>3, BlockCheck
<1>4. CASE LookLearn
  BY <1>4, LearnCheck
<1>5. CASE LookRisk
  BY <1>5, RiskCheck
<1>6. CASE Privilege
  BY <1>6, PrivilegeCheck
<1>7. CASE Return
  BY <1>7, ReturnCheck
<1>8. CASE Elsewhere
  BY <1>8, OtherCheck DEF Elsewhere, CheckInv
<1>9. CASE Administrator
  BY <1>9, OtherCheck DEF Administrator, CheckInv
<1>10. CASE \E g \in Grants : EditGrant(g)
  <2>1. PICK g \in Grants : EditGrant(g)
    BY <1>10
  <2>2. granted' \subseteq Grants
    BY <2>1 DEF EditGrant, CheckInv
  <2>3. QED
    BY <2>1, <2>2, OtherCheck DEF EditGrant
<1>11. CASE UNCHANGED checkVars
  BY <1>11, OtherCheck DEF checkVars, vars, CheckInv
<1>12. QED
  BY <1>1, <1>2, <1>3, <1>4, <1>5, <1>6, <1>7, <1>8, <1>9, <1>10, <1>11 DEF CheckNext

-----------------------------------------------------------------------------
\* Each step of CheckQuery is a step of DbMap or none.
LEMMA NextImplements ==
    ASSUME CheckInv, [CheckNext]_checkVars PROVE [Next]_vars
<1>1. CASE LookLearn
  <2>1. check \in CheckType
    BY <1>1, OpenIsTyped DEF CheckInv, LookLearn, Look
  <2>2. check.conn \in Conns /\ Normal[check.query] \in Patterns
    BY <2>1, CheckQueryAssumption DEF CheckType
  <2>3. QED
    BY <1>1, <2>2 DEF LookLearn, Pattern, Next
<1>2. CASE Elsewhere
  BY <1>2 DEF Elsewhere, Next
<1>3. CASE Administrator
  BY <1>3 DEF Administrator, Next
<1>4. CASE \E c \in Conns, q \in Queries : Start(c, q)
  BY <1>4 DEF Start
<1>5. CASE LookKnown \/ LookBlock \/ LookRisk \/ Privilege \/ Return
  BY <1>5 DEF LookKnown, LookBlock, LookRisk, Privilege, Return
<1>6. CASE \E g \in Grants : EditGrant(g)
  BY <1>6 DEF EditGrant
<1>7. CASE UNCHANGED checkVars
  BY <1>7 DEF checkVars
<1>8. QED
  BY <1>1, <1>2, <1>3, <1>4, <1>5, <1>6, <1>7 DEF CheckNext

LEMMA CheckInvAlways == CheckSpec => []CheckInv
BY InitCheck, NextCheck, PTL DEF CheckSpec

\* check_query changes tables and permissions only as DbMap says: CheckQuery refines it.
THEOREM ChecksImplement == CheckSpec => DbMapSteps
<1>1. CheckInit => Init
  BY DEF CheckInit
<1>2. CheckInv /\ [CheckNext]_checkVars => [Next]_vars
  BY NextImplements
<1>3. QED
  BY <1>1, <1>2, CheckInvAlways, PTL DEF CheckSpec, DbMapSteps

LEMMA BothInvAlways == CheckSpec => [](Inv /\ CheckInv)
<1>1. DbMapSteps => []Inv
  BY InitInv, NextInv, PTL DEF DbMapSteps
<1>2. QED
  BY <1>1, ChecksImplement, CheckInvAlways, PTL

\* The call, its level and its verdict keep their types, with the tables and objects.
THEOREM CheckTypeCorrect == CheckSpec => []CheckTypeOK
<1>1. Inv /\ CheckInv => CheckTypeOK
  BY DEF Inv, CheckInv, CallType, CheckTypeOK
<1>2. QED
  BY <1>1, BothInvAlways, PTL

\* A database that has left its learning mode allows what the calls of check_query have
\* learned, for every interleaving of calls, edits and statements of a reload.
THEOREM LearnedAllowedInCalls == CheckSpec => []LearnedIsAllowed
<1>1. Inv /\ CheckInv => LearnedIsAllowed
  BY DEF Inv
<1>2. QED
  BY <1>1, BothInvAlways, PTL

\* Queries that differ in values only have one pattern.
AlikeAssumption == \A pair \in Alike : Normal[pair[1]] = Normal[pair[2]]

\* If normalization forgets values, a learned query is not refused as new when only its
\* values change, unless the list could not be read.
THEOREM SameQueryAllowed ==
    ASSUME AlikeAssumption PROVE CheckSpec => []SameQueryIsAllowed
<1>1. Inv /\ CheckInv => SameQueryIsAllowed
  <2> SUFFICES ASSUME Inv, CheckInv, check.verdict = "new",
                      NEW q \in Queries, <<check.query, q>> \in Alike,
                      Normal[q] \in learned[conn[check.conn]]
               PROVE  conn[check.conn] \in unread
    BY DEF SameQueryIsAllowed
  <2>1. Normal[q] = Normal[check.query]
    BY DEF AlikeAssumption
  <2>2. check \in CheckType
    BY DEF CheckInv, CallType, NoCheck
  <2>3. conn[check.conn] \in Keys
    BY <2>2 DEF Inv, TypeOK, CheckInv, OpenCall, CheckType
  <2>4. objs[conn[check.conn]] # None
    BY <2>2 DEF Inv, TypeOK, CheckInv, OpenCall, CheckType
  <2>5. QED
    BY <2>1, <2>3, <2>4 DEF Inv, LearnedIsAllowed, CheckInv, OpenCall
<1>2. QED
  BY <1>1, BothInvAlways, PTL

\* What block_reason says of a query without the privilege.
NoPrivilegeIsBad == \A q \in Queries : Level[q][FALSE] \in {"BLOCKED", "SQL_ERROR"}

\* A refusal is reported as one, if the two answers agree, in every mode.
THEOREM RefusalsReported ==
    ASSUME NoPrivilegeIsBad PROVE CheckSpec => []RefusalIsReported
<1>1. Inv /\ CheckInv => RefusalIsReported
  <2> SUFFICES ASSUME CheckInv, check.verdict \in {"new", "refused"},
                      check.first = check.second
               PROVE  check.level \in {"BLOCKED", "SQL_ERROR"}
    BY DEF RefusalIsReported
  <2>1. check \in CheckType
    BY DEF CheckInv, CallType, NoCheck
  <2>2. CASE check.verdict = "new"
    BY <2>2 DEF CheckInv, OpenCall
  <2>3. CASE check.verdict = "refused"
    BY <2>1, <2>3 DEF CheckInv, OpenCall, NoPrivilegeIsBad, CheckType
  <2>4. QED
    BY <2>2, <2>3
<1>2. QED
  BY <1>1, BothInvAlways, PTL

-----------------------------------------------------------------------------
(* SqlParse: the parser of the queries, which check_query starts.          *)

\* A rule's right-hand side has an expression, or a string, at a place.
HasExpression(rhs, p) == p \in DOMAIN rhs /\ rhs[p] \in Expressions

HasString(rhs, p) == p \in DOMAIN rhs /\ rhs[p] \in Strings

\* The value of a rule's symbol may be the one at a place.
Passes(lhs, rhs, p) ==
    /\ p \in DOMAIN rhs
    /\ lhs \in Expressions => rhs[p] \in Expressions
    /\ lhs \in Strings => rhs[p] \in Strings

\* The symbol of a rule has no value that is used.
NoObject(lhs) == lhs \notin Expressions \cup Strings

NoString(lhs) == lhs \notin Strings

\* An action adds the expression at q to the one at p.
AddsTo(lhs, rhs, p, q) ==
    p # q /\ HasExpression(rhs, p) /\ HasExpression(rhs, q) /\ NoString(lhs)

\* What an action needs of the rule it belongs to.
Fitting(lhs, rhs, action) ==
    \/ action \in {"none", "tautology"} /\ NoObject(lhs)
    \/ action = "1" /\ Passes(lhs, rhs, 1)
    \/ action = "2" /\ Passes(lhs, rhs, 2)
    \/ action = "3" /\ Passes(lhs, rhs, 3)
    \/ action = "function_3" /\ HasString(rhs, 1) /\ Passes(lhs, rhs, 3)
    \/ action = "function_4" /\ HasString(rhs, 1) /\ Passes(lhs, rhs, 4)
    \/ action = "no_value" /\ HasString(rhs, 1) /\ NoObject(lhs)
    \/ action \in {"new", "integer", "no_args"} /\ NoString(lhs)
    \/ action \in {"table_1", "field", "string"} /\ HasString(rhs, 1) /\ NoString(lhs)
    \/ action = "table_3" /\ HasString(rhs, 3) /\ NoString(lhs)
    \/ action = "true" /\ HasExpression(rhs, 1) /\ NoObject(lhs)
    \/ action = "compare_3" /\ HasExpression(rhs, 1) /\ HasExpression(rhs, 3) /\ NoObject(lhs)
    \/ action = "compare_4" /\ HasExpression(rhs, 1) /\ HasExpression(rhs, 4) /\ NoObject(lhs)
    \/ action = "compare_5" /\ HasExpression(rhs, 1) /\ HasExpression(rhs, 5) /\ NoObject(lhs)
    \/ /\ action = "compare_3_5" /\ NoObject(lhs)
       /\ HasExpression(rhs, 1) /\ HasExpression(rhs, 3) /\ HasExpression(rhs, 5)
    \/ action = "add_2" /\ AddsTo(lhs, rhs, 1, 2)
    \/ action = "add_3" /\ AddsTo(lhs, rhs, 1, 3)
    \/ action = "add_4" /\ AddsTo(lhs, rhs, 1, 4)
    \/ action = "case_else" /\ AddsTo(lhs, rhs, 2, 4)
    \/ /\ action = "case_of" /\ NoString(lhs)
       /\ HasExpression(rhs, 2) /\ HasExpression(rhs, 3)
    \/ action = "case_of_else" /\ HasExpression(rhs, 3) /\ AddsTo(lhs, rhs, 2, 5)

\* A right-hand side has the places up to its length.
Counted(s) == Len(s) \in Nat /\ DOMAIN s = 1..Len(s)

\* Each rule of the grammar has the action that it needs.
LEMMA CommandRulesFit == \A r \in CommandRules : Fitting(r.lhs, r.rhs, r.action)
BY DEF CommandRules, Each, Rule, Fitting, HasExpression, HasString, Passes, NoObject, NoString,
       AddsTo, Expressions, Strings

LEMMA TableRulesFit == \A r \in TableRules : Fitting(r.lhs, r.rhs, r.action)
BY DEF TableRules, Each, Rule, Fitting, HasExpression, HasString, Passes, NoObject, NoString,
       AddsTo, Expressions, Strings

LEMMA ClauseRulesFit == \A r \in ClauseRules : Fitting(r.lhs, r.rhs, r.action)
BY DEF ClauseRules, Each, Rule, Fitting, HasExpression, HasString, Passes, NoObject, NoString,
       AddsTo, Expressions, Strings

LEMMA ExpressionRulesFit == \A r \in ExpressionRules : Fitting(r.lhs, r.rhs, r.action)
BY DEF ExpressionRules, Each, Rule, Fitting, HasExpression, HasString, Passes, NoObject, NoString,
       AddsTo, Expressions, Strings, MathOperators

LEMMA FunctionRulesFit == \A r \in FunctionRules : Fitting(r.lhs, r.rhs, r.action)
BY DEF FunctionRules, Each, Rule, Fitting, HasExpression, HasString, Passes, NoObject, NoString,
       AddsTo, Expressions, Strings

LEMMA ConditionRulesFit == \A r \in ConditionRules : Fitting(r.lhs, r.rhs, r.action)
BY DEF ConditionRules, Each, Rule, Fitting, HasExpression, HasString, Passes, NoObject, NoString,
       AddsTo, Expressions, Strings

LEMMA CaseRulesFit == \A r \in CaseRules : Fitting(r.lhs, r.rhs, r.action)
BY DEF CaseRules, Each, Rule, Fitting, HasExpression, HasString, Passes, NoObject, NoString,
       AddsTo, Expressions, Strings

\* The right-hand sides are sequences.
LEMMA CommandRulesAreCounted == \A r \in CommandRules : Counted(r.rhs)
BY DEF CommandRules, Each, Rule, Counted

LEMMA TableRulesAreCounted == \A r \in TableRules : Counted(r.rhs)
BY DEF TableRules, Each, Rule, Counted

LEMMA ClauseRulesAreCounted == \A r \in ClauseRules : Counted(r.rhs)
BY DEF ClauseRules, Each, Rule, Counted

LEMMA ExpressionRulesAreCounted == \A r \in ExpressionRules : Counted(r.rhs)
BY DEF ExpressionRules, Each, Rule, Counted, MathOperators

LEMMA FunctionRulesAreCounted == \A r \in FunctionRules : Counted(r.rhs)
BY DEF FunctionRules, Each, Rule, Counted

LEMMA ConditionRulesAreCounted == \A r \in ConditionRules : Counted(r.rhs)
BY DEF ConditionRules, Each, Rule, Counted

LEMMA CaseRulesAreCounted == \A r \in CaseRules : Counted(r.rhs)
BY DEF CaseRules, Each, Rule, Counted

LEMMA RulesFit == \A r \in Rules : Fitting(r.lhs, r.rhs, r.action) /\ Counted(r.rhs)
BY CommandRulesFit, TableRulesFit, ClauseRulesFit, ExpressionRulesFit, FunctionRulesFit,
   ConditionRulesFit, CaseRulesFit, CommandRulesAreCounted, TableRulesAreCounted,
   ClauseRulesAreCounted, ExpressionRulesAreCounted, FunctionRulesAreCounted,
   ConditionRulesAreCounted, CaseRulesAreCounted
   DEF Rules

-----------------------------------------------------------------------------
(* The memory of the parser's actions.                                     *)

ParserRisks == {"tautology", "empty_pwd", "s_table", "bruteforce"}

IsMemory(m) ==
    /\ DOMAIN m = {"objects", "made", "risk", "value"}
    /\ m.made \in Nat /\ m.value \in 0..m.made
    /\ DOMAIN m.objects \subseteq 1..m.made

\* An object lives, and is of a kind.
IsA(m, o, field) == o \in DOMAIN m.objects /\ field \in DOMAIN m.objects[o]

\* A memory becomes another: all but some objects keep their kind.
Keeps(m, n, gone) ==
    /\ IsMemory(n) /\ m.made <= n.made
    /\ n.risk \subseteq m.risk \cup ParserRisks
    /\ \A o \in DOMAIN m.objects \ gone :
         o \in DOMAIN n.objects /\ DOMAIN n.objects[o] = DOMAIN m.objects[o]

LEMMA KeepsAgain ==
    ASSUME NEW m, IsMemory(m), NEW k, NEW n, NEW A, NEW B, Keeps(m, k, A), Keeps(k, n, B)
    PROVE  Keeps(m, n, A \cup B)
<1>1. m.made <= n.made
  BY DEF Keeps, IsMemory
<1> QED
  BY <1>1 DEF Keeps

\* expression.hpp: what its functions make, keep and delete.
LEMMA NewMakes ==
    ASSUME NEW m, IsMemory(m), NEW object
    PROVE  /\ Keeps(m, New(m, object), {})
           /\ New(m, object).value = m.made + 1 /\ New(m, object).made = m.made + 1
           /\ m.made + 1 \in DOMAIN New(m, object).objects
           /\ New(m, object).objects[m.made + 1] = object
BY DEF New, Keeps, IsMemory

LEMMA NewExpressionMakes ==
    ASSUME NEW m, IsMemory(m)
    PROVE  /\ Keeps(m, NewExpression(m), {}) /\ IsA(NewExpression(m), m.made + 1, "fields")
           /\ NewExpression(m).value = m.made + 1 /\ NewExpression(m).made = m.made + 1
BY NewMakes DEF NewExpression, IsA

LEMMA NewStringMakes ==
    ASSUME NEW m, IsMemory(m), NEW s
    PROVE  /\ Keeps(m, NewString(m, s), {}) /\ IsA(NewString(m, s), m.made + 1, "str_value")
           /\ NewString(m, s).value = m.made + 1 /\ NewString(m, s).made = m.made + 1
BY NewMakes DEF NewString, IsA

LEMMA DeleteKeeps ==
    ASSUME NEW m, IsMemory(m), NEW o
    PROVE  Keeps(m, Delete(m, o), {o}) /\ Delete(m, o).value = m.value
BY DEF Delete, Keeps, IsMemory

LEMMA ValueKeeps ==
    ASSUME NEW m, IsMemory(m), NEW x \in 0..m.made
    PROVE  Keeps(m, [m EXCEPT !.value = x], {}) /\ [m EXCEPT !.value = x].value = x
BY DEF Keeps, IsMemory

\* An object gets other contents of its kind.
LEMMA ContentsKeep ==
    ASSUME NEW m, IsMemory(m), NEW e, NEW object, DOMAIN object = DOMAIN m.objects[e]
    PROVE  LET n == [m EXCEPT !.objects[e] = object]
           IN  Keeps(m, n, {}) /\ n.value = m.value
BY DEF Keeps, IsMemory

LEMMA AddIntegerKeeps ==
    ASSUME NEW m, IsMemory(m), NEW e
    PROVE  Keeps(m, AddInteger(m, e), {}) /\ AddInteger(m, e).value = m.value
BY ContentsKeep DEF AddInteger

LEMMA AddStringKeeps ==
    ASSUME NEW m, IsMemory(m), NEW e, NEW length
    PROVE  Keeps(m, AddString(m, e, length), {}) /\ AddString(m, e, length).value = m.value
<1> DEFINE x == m.objects[e]
           z == [x EXCEPT !.has_const = TRUE,
                          !.const_type = IF @ = "Undef" THEN "String" ELSE @,
                          !.str_length = CASE x.const_type = "Undef" -> length
                                           [] x.const_type = "String" -> @ + length
                                           [] OTHER -> @]
<1>1. AddString(m, e, length) = [m EXCEPT !.objects[e] = z]
  BY DEF AddString
<1>2. DOMAIN z = DOMAIN m.objects[e]
  OBVIOUS
<1> HIDE DEF z
<1> QED
  BY <1>1, <1>2, ContentsKeep

LEMMA AddFieldKeeps ==
    ASSUME NEW m, IsMemory(m), NEW e, NEW s
    PROVE  Keeps(m, AddField(m, e, s), {s}) /\ AddField(m, e, s).value = m.value
<1> DEFINE k == [m EXCEPT !.objects[e].fields = @ \cup {m.objects[s].str_value}]
<1>1. Keeps(m, k, {}) /\ k.value = m.value
  BY DEF Keeps, IsMemory
<1>2. AddField(m, e, s) = Delete(k, s)
  BY DEF AddField
<1> HIDE DEF k
<1>3. Keeps(k, Delete(k, s), {s}) /\ Delete(k, s).value = k.value
  BY <1>1, DeleteKeeps DEF Keeps
<1>4. Keeps(m, Delete(k, s), {} \cup {s})
  BY <1>1, <1>3, KeepsAgain
<1> QED
  BY <1>1, <1>2, <1>3, <1>4

LEMMA AddKeeps ==
    ASSUME NEW m, IsMemory(m), NEW e \in 0..m.made, NEW f
    PROVE  Keeps(m, Add(m, e, f), {f}) /\ Add(m, e, f).value = e
<1> DEFINE x == m.objects[e]
           y == m.objects[f]
           z == [x EXCEPT !.fields = @ \cup y.fields,
                          !.has_const = @ \/ y.has_const,
                          !.str_length = IF y.const_type = "String" /\ y.str_length > @
                                           THEN y.str_length ELSE @]
           k == [m EXCEPT !.value = e, !.objects[e] = z]
<1>1. DOMAIN z = DOMAIN m.objects[e]
  OBVIOUS
<1>2. Add(m, e, f) = Delete(k, f)
  BY DEF Add
<1> HIDE DEF z
<1>3. Keeps(m, k, {}) /\ k.value = e
  BY <1>1 DEF Keeps, IsMemory
<1> HIDE DEF k
<1>4. Keeps(k, Delete(k, f), {f}) /\ Delete(k, f).value = k.value
  BY <1>3, DeleteKeeps DEF Keeps
<1>5. Keeps(m, Delete(k, f), {} \cup {f})
  BY <1>3, <1>4, KeepsAgain
<1> QED
  BY <1>2, <1>3, <1>4, <1>5

\* The callbacks and comparisons only report.
LEMMA FoundKeeps ==
    ASSUME NEW m, IsMemory(m), NEW what \in ParserRisks
    PROVE  /\ Keeps(m, Found(m, what), {}) /\ Found(m, what).value = m.value
           /\ Found(m, what).made = m.made /\ Found(m, what).objects = m.objects
BY DEF Found, Keeps, IsMemory

LEMMA MemoryItself == ASSUME NEW m, IsMemory(m) PROVE Keeps(m, m, {})
BY DEF Keeps, IsMemory

LEMMA FoundIfKeeps ==
    ASSUME NEW m, IsMemory(m), NEW c, NEW what \in ParserRisks
    PROVE  /\ Keeps(m, FoundIf(m, c, what), {}) /\ FoundIf(m, c, what).value = m.value
           /\ FoundIf(m, c, what).made = m.made /\ FoundIf(m, c, what).objects = m.objects
BY FoundKeeps, MemoryItself DEF FoundIf

LEMMA CompareKeeps ==
    ASSUME NEW m, IsMemory(m), NEW e, NEW f
    PROVE  /\ Keeps(m, cmp_fn(m, e, f), {}) /\ cmp_fn(m, e, f).value = m.value
           /\ cmp_fn(m, e, f).made = m.made
BY FoundKeeps, FoundIfKeeps DEF cmp_fn, ParserRisks

LEMMA CallbacksKeep ==
    ASSUME NEW m, IsMemory(m), NEW s
    PROVE  /\ Keeps(m, clb_found_table(m, s), {}) /\ clb_found_table(m, s).value = m.value
           /\ clb_found_table(m, s).made = m.made
           /\ Keeps(m, clb_check_bruteforce_function(m, s), {})
           /\ clb_check_bruteforce_function(m, s).value = m.value
           /\ clb_check_bruteforce_function(m, s).made = m.made
<1>1. "s_table" \in ParserRisks /\ "bruteforce" \in ParserRisks
  BY DEF ParserRisks
<1>2. \A c : /\ Keeps(m, FoundIf(m, c, "s_table"), {}) /\ FoundIf(m, c, "s_table").value = m.value
             /\ FoundIf(m, c, "s_table").made = m.made
             /\ Keeps(m, FoundIf(m, c, "bruteforce"), {})
             /\ FoundIf(m, c, "bruteforce").value = m.value
             /\ FoundIf(m, c, "bruteforce").made = m.made
  BY <1>1, FoundIfKeeps
<1> QED
  BY <1>2, Zenon DEF clb_found_table, clb_check_bruteforce_function

-----------------------------------------------------------------------------
(* The actions of the grammar's rules.                                     *)

\* The values of a right-hand side: each has its object, of its own.
Held(m, v, rhs) ==
    /\ DOMAIN v = DOMAIN rhs
    /\ \A p \in DOMAIN rhs :
         /\ v[p] \in 0..m.made
         /\ rhs[p] \in Expressions => IsA(m, v[p], "fields")
         /\ rhs[p] \in Strings => IsA(m, v[p], "str_value")
    /\ \A p, q \in DOMAIN rhs : p # q /\ v[p] = v[q] => v[p] = NoValue

\* What an action may leave of a memory: the objects that are not those of its right-hand
\* side, and a value for its symbol, which is one of these, a new one, or none.
Leaves(m, n, v, lhs) ==
    /\ Keeps(m, n, {v[p] : p \in DOMAIN v})
    /\ n.value = NoValue \/ n.value > m.made \/ \E p \in DOMAIN v : n.value = v[p]
    /\ lhs \in Expressions => IsA(n, n.value, "fields")
    /\ lhs \in Strings => IsA(n, n.value, "str_value")

LEMMA KindsDiffer == Expressions \cap Strings = {}
BY DEF Expressions, Strings

\* An action without a value.
LEMMA NothingLeft ==
    ASSUME NEW m, NEW n, NEW v, NEW lhs, NoObject(lhs), Keeps(m, n, {}), n.value = NoValue
    PROVE  Leaves(m, n, v, lhs)
BY DEF Leaves, Keeps, NoObject

\* An action whose value is that of a symbol.
LEMMA PassedOn ==
    ASSUME NEW m, NEW n, NEW v, NEW lhs, NEW rhs, NEW p, Held(m, v, rhs), Passes(lhs, rhs, p),
           Keeps(m, n, {}), n.value = v[p]
    PROVE  Leaves(m, n, v, lhs)
<1>1. p \in DOMAIN v
  BY DEF Held, Passes
<1>2. lhs \in Expressions => IsA(n, n.value, "fields")
  BY DEF Held, Passes, IsA, Keeps
<1>3. lhs \in Strings => IsA(n, n.value, "str_value")
  BY DEF Held, Passes, IsA, Keeps
<1> QED
  BY <1>1, <1>2, <1>3 DEF Leaves, Keeps

\* An action whose value is an expression that was made first, and that may use up a value.
LEMMA MadeNew ==
    ASSUME NEW m, IsMemory(m), NEW k, NEW n, NEW v, NEW lhs, NoString(lhs), NEW gone,
           Keeps(m, k, {}), IsA(k, m.made + 1, "fields"), Keeps(k, n, gone),
           gone \subseteq {v[p] : p \in DOMAIN v}, m.made + 1 \notin gone,
           n.value = m.made + 1
    PROVE  Leaves(m, n, v, lhs)
<1>1. Keeps(m, n, {} \cup gone)
  BY KeepsAgain
<1>2. IsA(n, n.value, "fields")
  BY DEF IsA, Keeps
<1>3. n.value > m.made
  BY DEF IsMemory
<1> QED
  BY <1>1, <1>2, <1>3 DEF Leaves, Keeps, NoString

\* An action that adds an expression to another.
LEMMA AddedTo ==
    ASSUME NEW m, IsMemory(m), NEW k, NEW v, NEW lhs, NEW rhs, NEW p, NEW q, Held(m, v, rhs),
           AddsTo(lhs, rhs, p, q), Keeps(m, k, {})
    PROVE  Leaves(m, Add(k, v[p], v[q]), v, lhs)
<1> DEFINE n == Add(k, v[p], v[q])
<1>1. /\ p \in DOMAIN v /\ q \in DOMAIN v /\ v[p] \in 0..m.made
      /\ IsA(m, v[p], "fields") /\ IsA(m, v[q], "fields") /\ NoString(lhs)
  BY DEF AddsTo, HasExpression, Held
<1>2. v[p] # v[q]
  <2>1. v[p] # NoValue
    BY <1>1 DEF IsA, IsMemory, NoValue
  <2> QED
    BY <2>1 DEF AddsTo, HasExpression, Held
<1>3. IsMemory(k) /\ v[p] \in 0..k.made
  BY <1>1 DEF Keeps, IsMemory
<1>4. Keeps(k, n, {v[q]}) /\ n.value = v[p]
  BY <1>3, AddKeeps
<1> HIDE DEF n
<1>5. Keeps(m, n, {} \cup {v[q]})
  BY <1>4, KeepsAgain
<1>6. IsA(n, n.value, "fields")
  BY <1>1, <1>2, <1>4, <1>5 DEF IsA, Keeps
<1>7. Leaves(m, n, v, lhs)
  BY <1>1, <1>4, <1>5, <1>6 DEF Leaves, Keeps, NoString
<1> QED
  BY <1>7 DEF n

\* Two comparisons.
LEMMA CompareTwice ==
    ASSUME NEW m, IsMemory(m), NEW e, NEW f, NEW g
    PROVE  /\ Keeps(m, cmp_fn(cmp_fn(m, e, f), e, g), {})
           /\ cmp_fn(cmp_fn(m, e, f), e, g).value = m.value
<1>1. Keeps(m, cmp_fn(m, e, f), {}) /\ cmp_fn(m, e, f).value = m.value
  BY CompareKeeps
<1> DEFINE k == cmp_fn(m, e, f)
<1> HIDE DEF k
<1>2. Keeps(k, cmp_fn(k, e, g), {}) /\ cmp_fn(k, e, g).value = k.value
  BY <1>1, CompareKeeps DEF k, Keeps
<1>3. Keeps(m, cmp_fn(k, e, g), {} \cup {})
  BY <1>1, <1>2, KeepsAgain DEF k
<1> QED
  BY <1>1, <1>2, <1>3 DEF k

\* An action that reads a string into a new expression, and deletes the string.
LEMMA StringUsed ==
    ASSUME NEW m, IsMemory(m), NEW k, NEW n, NEW v, NEW lhs, NEW rhs, NEW p, Held(m, v, rhs),
           HasString(rhs, p), NoString(lhs), Keeps(NewExpression(m), k, {}),
           k.value = m.made + 1, Keeps(k, n, {v[p]}), n.value = k.value
    PROVE  Leaves(m, n, v, lhs)
<1> DEFINE new == NewExpression(m)
<1>1. Keeps(m, new, {}) /\ IsA(new, m.made + 1, "fields")
  BY NewExpressionMakes
<1> HIDE DEF new
<1>2. Keeps(new, n, {} \cup {v[p]})
  BY <1>1, KeepsAgain DEF Keeps, new
<1>3. v[p] \in {v[i] : i \in DOMAIN v} /\ v[p] \in 0..m.made
  BY DEF Held, HasString
<1>4. m.made + 1 \notin {v[p]}
  BY <1>3 DEF IsMemory
<1> QED
  BY <1>1, <1>2, <1>3, <1>4, MadeNew

\* An action that makes an expression of nothing.
LEMMA NothingUsed ==
    ASSUME NEW m, IsMemory(m), NEW n, NEW v, NEW lhs, NoString(lhs),
           Keeps(NewExpression(m), n, {}), n.value = m.made + 1
    PROVE  Leaves(m, n, v, lhs)
BY NewExpressionMakes, MadeNew

\* The symbols of a rule are expressions and strings in one memory after the other.
LEMMA TableLeaves ==
    ASSUME NEW m, IsMemory(m), NEW v, NEW lhs, NEW rhs, NEW p, Held(m, v, rhs),
           HasString(rhs, p), NoString(lhs)
    PROVE  Leaves(m, AddField(clb_found_table(NewExpression(m), v[p]), m.made + 1, v[p]), v, lhs)
<1> DEFINE new == NewExpression(m)
           k == clb_found_table(new, v[p])
           n == AddField(k, m.made + 1, v[p])
<1>1. IsMemory(new) /\ new.value = m.made + 1
  BY NewExpressionMakes DEF Keeps
<1> HIDE DEF new
<1>2. Keeps(new, k, {}) /\ k.value = m.made + 1
  BY <1>1, CallbacksKeep
<1> HIDE DEF k
<1>3. Keeps(k, n, {v[p]}) /\ n.value = k.value
  BY <1>2, AddFieldKeeps DEF Keeps
<1> HIDE DEF n
<1>4. Leaves(m, n, v, lhs)
  BY <1>2, <1>3, StringUsed DEF new
<1> QED
  BY <1>4 DEF n, k, new

LEMMA FieldLeaves ==
    ASSUME NEW m, IsMemory(m), NEW v, NEW lhs, NEW rhs, Held(m, v, rhs), HasString(rhs, 1),
           NoString(lhs)
    PROVE  /\ Leaves(m, AddString(NewExpression(m), m.made + 1, 4), v, lhs)
           /\ Leaves(m, AddField(NewExpression(m), m.made + 1, v[1]), v, lhs)
<1> DEFINE new == NewExpression(m)
           n == AddString(new, m.made + 1, 4)
           f == AddField(new, m.made + 1, v[1])
<1>1. IsMemory(new) /\ new.value = m.made + 1
  BY NewExpressionMakes DEF Keeps
<1> HIDE DEF new
<1>2. Keeps(new, n, {}) /\ n.value = m.made + 1
  BY <1>1, AddStringKeeps
<1>3. Keeps(new, f, {v[1]}) /\ f.value = new.value
  BY <1>1, AddFieldKeeps
<1> HIDE DEF n, f
<1>4. Leaves(m, n, v, lhs)
  BY <1>2, NothingUsed DEF new
<1>5. Leaves(m, f, v, lhs)
  BY <1>1, <1>3, MemoryItself, StringUsed DEF new
<1> QED
  BY <1>4, <1>5 DEF n, f, new

LEMMA ConstantLeaves ==
    ASSUME NEW m, IsMemory(m), NEW v, NEW lhs, NEW rhs, Held(m, v, rhs), HasString(rhs, 1),
           NoString(lhs), NEW length
    PROVE  Leaves(m, Delete(AddString(NewExpression(m), m.made + 1, length), v[1]), v, lhs)
<1> DEFINE new == NewExpression(m)
           k == AddString(new, m.made + 1, length)
           n == Delete(k, v[1])
<1>1. IsMemory(new) /\ new.value = m.made + 1
  BY NewExpressionMakes DEF Keeps
<1> HIDE DEF new
<1>2. Keeps(new, k, {}) /\ k.value = m.made + 1
  BY <1>1, AddStringKeeps
<1> HIDE DEF k
<1>3. Keeps(k, n, {v[1]}) /\ n.value = k.value
  BY <1>2, DeleteKeeps DEF Keeps
<1> HIDE DEF n
<1>4. Leaves(m, n, v, lhs)
  BY <1>2, <1>3, StringUsed DEF new
<1> QED
  BY <1>4 DEF n, k, new

LEMMA EmptyExpressionLeaves ==
    ASSUME NEW m, IsMemory(m), NEW v, NEW lhs, NoString(lhs)
    PROVE  /\ Leaves(m, NewExpression(m), v, lhs)
           /\ Leaves(m, AddInteger(NewExpression(m), m.made + 1), v, lhs)
           /\ Leaves(m, AddString(NewExpression(m), m.made + 1, 4), v, lhs)
<1> DEFINE new == NewExpression(m)
           i == AddInteger(new, m.made + 1)
           s == AddString(new, m.made + 1, 4)
<1>1. IsMemory(new) /\ new.value = m.made + 1
  BY NewExpressionMakes DEF Keeps
<1> HIDE DEF new
<1>2. Keeps(new, new, {}) /\ Keeps(new, i, {}) /\ Keeps(new, s, {})
  BY <1>1, MemoryItself, AddIntegerKeeps, AddStringKeeps
<1>3. i.value = m.made + 1 /\ s.value = m.made + 1
  BY <1>1, AddIntegerKeeps, AddStringKeeps
<1> HIDE DEF i, s
<1>4. Leaves(m, new, v, lhs) /\ Leaves(m, i, v, lhs) /\ Leaves(m, s, v, lhs)
  BY <1>1, <1>2, <1>3, NothingUsed DEF new
<1> QED
  BY <1>4 DEF i, s, new

\* A function call has the value of its arguments.
LEMMA CallLeaves ==
    ASSUME NEW m, IsMemory(m), NEW v, NEW lhs, NEW rhs, NEW p, Held(m, v, rhs),
           Passes(lhs, rhs, p), NEW s
    PROVE  Leaves(m, [clb_check_bruteforce_function(m, s) EXCEPT !.value = v[p]], v, lhs)
<1> DEFINE k == clb_check_bruteforce_function(m, s)
           n == [k EXCEPT !.value = v[p]]
<1>1. Keeps(m, k, {})
  BY CallbacksKeep
<1> HIDE DEF k
<1>2. v[p] \in 0..m.made /\ m.made <= k.made /\ k.made \in Nat /\ m.made \in Nat
  BY <1>1 DEF Held, Passes, Keeps, IsMemory
<1>3. v[p] \in 0..k.made
  BY <1>2
<1>4. Keeps(k, n, {}) /\ n.value = v[p]
  BY <1>1, <1>3, ValueKeeps DEF Keeps
<1> HIDE DEF n
<1>5. Keeps(m, n, {} \cup {})
  BY <1>1, <1>4, KeepsAgain
<1>6. Leaves(m, n, v, lhs)
  BY <1>4, <1>5, PassedOn
<1> QED
  BY <1>6 DEF n, k

\* Whatever the rule, its action finds its objects, and leaves those of others.
LEMMA ActLeaves ==
    ASSUME NEW m, IsMemory(m), m.value = NoValue, NEW v, NEW lhs, NEW rhs, Held(m, v, rhs),
           NEW action, Fitting(lhs, rhs, action)
    PROVE  Leaves(m, Act(action, v, m), v, lhs)
<1> DEFINE n == Act(action, v, m)
<1> SUFFICES Leaves(m, n, v, lhs)
  OBVIOUS
<1>1. CASE action = "none"
  <2>1. n = m
    BY <1>1 DEF Act
  <2>2. NoObject(lhs)
    BY <1>1 DEF Fitting
  <2> HIDE DEF n
  <2> QED
    BY <2>1, <2>2, NothingLeft, MemoryItself
<1>2. CASE action = "1"
  <2>1. n = [m EXCEPT !.value = v[1]]
    BY <1>2 DEF Act
  <2>2. Passes(lhs, rhs, 1)
    BY <1>2 DEF Fitting
  <2>3. v[1] \in 0..m.made
    BY <2>2 DEF Passes, Held
  <2> HIDE DEF n
  <2> QED
    BY <2>1, <2>2, <2>3, PassedOn, ValueKeeps
<1>3. CASE action = "2"
  <2>1. n = [m EXCEPT !.value = v[2]]
    BY <1>3 DEF Act
  <2>2. Passes(lhs, rhs, 2)
    BY <1>3 DEF Fitting
  <2>3. v[2] \in 0..m.made
    BY <2>2 DEF Passes, Held
  <2> HIDE DEF n
  <2> QED
    BY <2>1, <2>2, <2>3, PassedOn, ValueKeeps
<1>4. CASE action = "3"
  <2>1. n = [m EXCEPT !.value = v[3]]
    BY <1>4 DEF Act
  <2>2. Passes(lhs, rhs, 3)
    BY <1>4 DEF Fitting
  <2>3. v[3] \in 0..m.made
    BY <2>2 DEF Passes, Held
  <2> HIDE DEF n
  <2> QED
    BY <2>1, <2>2, <2>3, PassedOn, ValueKeeps
<1>5. CASE action = "add_2"
  <2>1. n = Add(m, v[1], v[2])
    BY <1>5 DEF Act
  <2>2. AddsTo(lhs, rhs, 1, 2)
    BY <1>5 DEF Fitting
  <2> HIDE DEF n
  <2> QED
    BY <2>1, <2>2, AddedTo, MemoryItself
<1>6. CASE action = "add_3"
  <2>1. n = Add(m, v[1], v[3])
    BY <1>6 DEF Act
  <2>2. AddsTo(lhs, rhs, 1, 3)
    BY <1>6 DEF Fitting
  <2> HIDE DEF n
  <2> QED
    BY <2>1, <2>2, AddedTo, MemoryItself
<1>7. CASE action = "add_4"
  <2>1. n = Add(m, v[1], v[4])
    BY <1>7 DEF Act
  <2>2. AddsTo(lhs, rhs, 1, 4)
    BY <1>7 DEF Fitting
  <2> HIDE DEF n
  <2> QED
    BY <2>1, <2>2, AddedTo, MemoryItself
<1>8. CASE action = "new"
  <2>1. n = NewExpression(m)
    BY <1>8 DEF Act
  <2>2. NoString(lhs)
    BY <1>8 DEF Fitting
  <2> HIDE DEF n
  <2> QED
    BY <2>1, <2>2, EmptyExpressionLeaves
<1>9. CASE action = "integer"
  <2>1. n = AddInteger(NewExpression(m), m.made + 1)
    BY <1>9 DEF Act
  <2>2. NoString(lhs)
    BY <1>9 DEF Fitting
  <2> HIDE DEF n
  <2> QED
    BY <2>1, <2>2, EmptyExpressionLeaves
<1>10. CASE action = "no_args"
  <2>1. n = AddString(NewExpression(m), m.made + 1, 4)
    BY <1>10 DEF Act
  <2>2. NoString(lhs)
    BY <1>10 DEF Fitting
  <2> HIDE DEF n
  <2> QED
    BY <2>1, <2>2, EmptyExpressionLeaves
<1>11. CASE action = "table_1"
  <2>1. n = AddField(clb_found_table(NewExpression(m), v[1]), m.made + 1, v[1])
    BY <1>11 DEF Act
  <2>2. HasString(rhs, 1) /\ NoString(lhs)
    BY <1>11 DEF Fitting
  <2> HIDE DEF n
  <2> QED
    BY <2>1, <2>2, TableLeaves
<1>12. CASE action = "table_3"
  <2>1. n = AddField(clb_found_table(NewExpression(m), v[3]), m.made + 1, v[3])
    BY <1>12 DEF Act
  <2>2. HasString(rhs, 3) /\ NoString(lhs)
    BY <1>12 DEF Fitting
  <2> HIDE DEF n
  <2> QED
    BY <2>1, <2>2, TableLeaves
<1>13. CASE action = "field"
  <2>1. n = IF clb_check_true_constant(m, v[1])
               THEN AddString(NewExpression(m), m.made + 1, 4)
               ELSE AddField(NewExpression(m), m.made + 1, v[1])
    BY <1>13 DEF Act
  <2>2. HasString(rhs, 1) /\ NoString(lhs)
    BY <1>13 DEF Fitting
  <2> HIDE DEF n
  <2> QED
    BY <2>1, <2>2, FieldLeaves
<1>14. CASE action = "string"
  <2>1. n = Delete(AddString(NewExpression(m), m.made + 1, Len(NameOf(m, v[1]))), v[1])
    BY <1>14 DEF Act
  <2>2. HasString(rhs, 1) /\ NoString(lhs)
    BY <1>14 DEF Fitting
  <2> HIDE DEF n
  <2> QED
    BY <2>1, <2>2, ConstantLeaves
<1>15. CASE action = "function_3"
  <2>1. n = [clb_check_bruteforce_function(m, v[1]) EXCEPT !.value = v[3]]
    BY <1>15 DEF Act, Value
  <2>2. Passes(lhs, rhs, 3)
    BY <1>15 DEF Fitting
  <2> HIDE DEF n
  <2> QED
    BY <2>1, <2>2, CallLeaves
<1>16. CASE action = "function_4"
  <2>1. n = [clb_check_bruteforce_function(m, v[1]) EXCEPT !.value = v[4]]
    BY <1>16 DEF Act, Value
  <2>2. Passes(lhs, rhs, 4)
    BY <1>16 DEF Fitting
  <2> HIDE DEF n
  <2> QED
    BY <2>1, <2>2, CallLeaves
<1>17. CASE action = "no_value"
  <2>1. n = [clb_check_bruteforce_function(m, v[1]) EXCEPT !.value = v[1]]
    BY <1>17 DEF Act, Value
  <2>2. Passes(lhs, rhs, 1)
    BY <1>17 DEF Fitting, HasString, NoObject, Passes
  <2> HIDE DEF n
  <2> QED
    BY <2>1, <2>2, CallLeaves
<1>18. CASE action = "true"
  <2>1. n = FoundIf(m, IsTrue(m.objects[v[1]]), "tautology")
    BY <1>18 DEF Act
  <2>2. NoObject(lhs)
    BY <1>18 DEF Fitting
  <2> HIDE DEF n
  <2> QED
    BY <2>1, <2>2, NothingLeft, FoundIfKeeps DEF ParserRisks
<1>19. CASE action = "tautology"
  <2>1. n = Found(m, "tautology")
    BY <1>19 DEF Act
  <2>2. NoObject(lhs)
    BY <1>19 DEF Fitting
  <2> HIDE DEF n
  <2> QED
    BY <2>1, <2>2, NothingLeft, FoundKeeps DEF ParserRisks
<1>20. CASE action = "compare_3"
  <2>1. n = cmp_fn(m, v[1], v[3])
    BY <1>20 DEF Act
  <2>2. NoObject(lhs)
    BY <1>20 DEF Fitting
  <2> HIDE DEF n
  <2> QED
    BY <2>1, <2>2, NothingLeft, CompareKeeps
<1>21. CASE action = "compare_4"
  <2>1. n = cmp_fn(m, v[1], v[4])
    BY <1>21 DEF Act
  <2>2. NoObject(lhs)
    BY <1>21 DEF Fitting
  <2> HIDE DEF n
  <2> QED
    BY <2>1, <2>2, NothingLeft, CompareKeeps
<1>22. CASE action = "compare_5"
  <2>1. n = cmp_fn(m, v[1], v[5])
    BY <1>22 DEF Act
  <2>2. NoObject(lhs)
    BY <1>22 DEF Fitting
  <2> HIDE DEF n
  <2> QED
    BY <2>1, <2>2, NothingLeft, CompareKeeps
<1>23. CASE action = "compare_3_5"
  <2>1. n = cmp_fn(cmp_fn(m, v[1], v[3]), v[1], v[5])
    BY <1>23 DEF Act
  <2>2. NoObject(lhs)
    BY <1>23 DEF Fitting
  <2> HIDE DEF n
  <2> QED
    BY <2>1, <2>2, NothingLeft, CompareTwice
<1>24. CASE action = "case_else"
  <2>1. n = Add(m, v[2], v[4])
    BY <1>24 DEF Act
  <2>2. AddsTo(lhs, rhs, 2, 4)
    BY <1>24 DEF Fitting
  <2> HIDE DEF n
  <2> QED
    BY <2>1, <2>2, AddedTo, MemoryItself
<1>25. CASE action = "case_of"
  <2>1. n = [cmp_fn(m, v[2], v[3]) EXCEPT !.value = v[2]]
    BY <1>25 DEF Act
  <2>2. HasExpression(rhs, 2) /\ NoString(lhs) /\ v[2] \in 0..m.made
    BY <1>25 DEF Fitting, HasExpression, Held
  <2>3. Keeps(m, cmp_fn(m, v[2], v[3]), {}) /\ cmp_fn(m, v[2], v[3]).made = m.made
    BY CompareKeeps
  <2>4. Keeps(cmp_fn(m, v[2], v[3]), n, {}) /\ n.value = v[2]
    BY <2>1, <2>2, <2>3, ValueKeeps DEF Keeps
  <2>5. Keeps(m, n, {} \cup {})
    BY <2>3, <2>4, KeepsAgain
  <2>6. Passes(lhs, rhs, 2)
    BY <2>2 DEF HasExpression, NoString, Passes
  <2> HIDE DEF n
  <2> QED
    BY <2>4, <2>5, <2>6, PassedOn
<1>26. CASE action = "case_of_else"
  <2>1. n = Add(cmp_fn(cmp_fn(m, v[2], v[3]), v[2], v[5]), v[2], v[5])
    BY <1>26 DEF Act
  <2>2. AddsTo(lhs, rhs, 2, 5)
    BY <1>26 DEF Fitting
  <2> HIDE DEF n
  <2> QED
    BY <2>1, <2>2, AddedTo, CompareTwice
<1> QED
  BY <1>1, <1>2, <1>3, <1>4, <1>5, <1>6, <1>7, <1>8, <1>9, <1>10, <1>11, <1>12, <1>13,
     <1>14, <1>15, <1>16, <1>17, <1>18, <1>19, <1>20, <1>21, <1>22, <1>23, <1>24, <1>25,
     <1>26 DEF Fitting

-----------------------------------------------------------------------------
(* Recursion over the places of a text.  The theorems of the library about *)
(* it take an operator: what follows needs only that sets of numbers have  *)
(* a least one.                                                            *)

LEMMA LessIsWellFounded == IsWellFoundedOn({p \in Nat \X Nat : p[1] < p[2]}, Nat)
BY NatLessThanWellFounded DEF OpToRel

\* Induction, for a set of numbers.
LEMMA Inductive ==
    ASSUME NEW S, 0 \in S, \A n \in Nat : n \in S => n + 1 \in S
    PROVE  Nat \subseteq S
<1> DEFINE R == {p \in Nat \X Nat : p[1] < p[2]}
           T == Nat \ S
<1>1. SUFFICES ASSUME T # {} PROVE FALSE
  OBVIOUS
<1>2. \E x \in T : \A y \in T : <<y, x>> \notin R
  <2>1. IsWellFoundedOn(R, Nat) /\ T \subseteq Nat
    BY LessIsWellFounded
  <2> HIDE DEF R, T
  <2> QED
    BY <1>1, <2>1, WFMin
<1>3. PICK x \in T : \A y \in T : <<y, x>> \notin R
  BY <1>2
<1>4. x \in Nat /\ x # 0
  OBVIOUS
<1>5. x - 1 \in Nat /\ <<x - 1, x>> \in R
  BY <1>4
<1>6. x - 1 \in S
  BY <1>3, <1>5
<1>7. x - 1 + 1 = x
  BY <1>4
<1> QED
  BY <1>5, <1>6, <1>7

\* What is computed of each place depends on the later places only.
LooksAhead(G, D, V) ==
    /\ G \in [D -> [[D -> V] -> V]]
    /\ \A d \in D : \A f, g \in [D -> V] :
         (\A e \in D : e > d => f[e] = g[e]) => G[d][f] = G[d][g]

IsComputed(f, G, D, V) == f \in [D -> V] /\ \A d \in D : f[d] = G[d][f]

\* A function over places whose value at each depends on those at later places only exists.
LEMMA RecursionIsDefined ==
    ASSUME NEW a \in Nat, NEW N \in Nat, NEW D, D = a..N, NEW V, V # {},
           NEW G, LooksAhead(G, D, V)
    PROVE  \E f : IsComputed(f, G, D, V)
<1> USE DEF LooksAhead, IsComputed
<1> PICK v \in V : TRUE
  OBVIOUS
<1> DEFINE S == {n \in Nat : \E f \in [D -> V] : \A d \in D : d > N - n => f[d] = G[d][f]}
<1>1. 0 \in S
  <2>1. [d \in D |-> v] \in [D -> V] /\ \A d \in D : ~(d > N - 0)
    OBVIOUS
  <2> QED
    BY <2>1
<1>2. ASSUME NEW n \in Nat, n \in S PROVE n + 1 \in S
  <2>1. PICK f \in [D -> V] : \A d \in D : d > N - n => f[d] = G[d][f]
    BY <1>2
  <2> DEFINE g == [d \in D |-> IF d = N - n THEN G[d][f] ELSE f[d]]
  <2>2. g \in [D -> V]
    <3>1. \A d \in D : G[d][f] \in V
      OBVIOUS
    <3> QED
      BY <3>1
  <2>3. ASSUME NEW d \in D, d > N - (n + 1) PROVE g[d] = G[d][g]
    <3>1. \A e \in D : e > d => f[e] = g[e]
      BY <2>3
    <3>2. G[d][f] = G[d][g]
      <4> HIDE DEF g
      <4> QED
        BY <2>2, <3>1
    <3>3. d = N - n \/ d > N - n
      BY <2>3
    <3>4. g[d] = G[d][f]
      BY <2>1, <3>3
    <3> QED
      BY <3>2, <3>4
  <2> HIDE DEF g
  <2> QED
    BY <2>2, <2>3
<1>3. N + 1 \in S
  <2> HIDE DEF S
  <2> QED
    BY <1>1, <1>2, Inductive
<1>4. PICK f \in [D -> V] : \A d \in D : d > N - (N + 1) => f[d] = G[d][f]
  BY <1>3
<1>5. \A d \in D : d > N - (N + 1)
  OBVIOUS
<1> QED
  BY <1>4, <1>5

\* The value of each place is of a type if those of the later ones are.
IsTypedAhead(f, D, V) ==
    \A d \in D : (\A e \in D : e > d => f[e] \in V) => f[d] \in V

\* Its values are of a type, if each is whose later ones are.
LEMMA RecursionIsTyped ==
    ASSUME NEW a \in Nat, NEW N \in Nat, NEW D, D = a..N, NEW V, NEW f,
           IsTypedAhead(f, D, V)
    PROVE  \A d \in D : f[d] \in V
<1> USE DEF IsTypedAhead
<1> DEFINE S == {n \in Nat : \A d \in a..N : d > N - n => f[d] \in V}
<1>1. 0 \in S
  OBVIOUS
<1>2. ASSUME NEW n \in Nat, n \in S PROVE n + 1 \in S
  <2>1. ASSUME NEW d \in a..N, d > N - (n + 1) PROVE f[d] \in V
    <3>1. \A e \in a..N : e > d => f[e] \in V
      BY <1>2, <2>1
    <3> QED
      BY <3>1
  <2> QED
    BY <2>1
<1>3. N + 1 \in S
  <2> HIDE DEF S
  <2> QED
    BY <1>1, <1>2, Inductive
<1> QED
  BY <1>3

-----------------------------------------------------------------------------
(* The scanner.                                                            *)

ScannerRisks == {"or", "union", "comment", "separator"}

\* The symbols that rules make; all others are tokens.
Heads ==
    {"command", "select_cmd", "insert_cmd", "show_cmd", "delete_cmd", "update_cmd",
     "select_options", "select_opts", "delete_option_list", "delete_table_list", "delete_table",
     "select_exps", "select_exp", "table_references", "table_reference", "join_table", "join_ops",
     "join_types", "join_cond", "table_factor", "simple_table", "alias", "alias_str",
     "where_cond", "group_cond", "groupby_column_list", "sort_order", "having_cond", "order_cond",
     "orderby_column_list", "limit_cond", "procedure_cond", "union_cond", "end_cond", "set_cond",
     "math_op", "math_exp", "field", "table_field", "const_value", "fn", "simple_fn", "fn_args",
     "logical_exp", "logical_operator", "logical_exp_list", "comp_operator", "case_fn",
     "case_cases", "case_case", "cast_fn"}

TokenKind(kind) == kind \notin Heads

LEMMA HeadsCarry == Expressions \cup {"table_field"} \subseteq Heads
BY DEF Expressions, Heads

IsLexeme(x) == TokenKind(x.kind) /\ x.calls \subseteq ScannerRisks

LEMMA LexemeIs ==
    ASSUME NEW kind, TokenKind(kind), NEW string, NEW next, NEW calls, calls \subseteq ScannerRisks
    PROVE  IsLexeme(Lexeme(kind, string, next, calls))
BY DEF IsLexeme, Lexeme

LEMMA NothingIs ==
    ASSUME NEW next, NEW calls, calls \subseteq ScannerRisks PROVE IsLexeme(Nothing(next, calls))
<1>1. TokenKind("none")
  BY DEF TokenKind, Heads
<1> QED
  BY <1>1, LexemeIs DEF Nothing

\* What the rules report.
LEMMA CallsAre == /\ {} \subseteq ScannerRisks /\ {"or"} \subseteq ScannerRisks
                  /\ {"union"} \subseteq ScannerRisks /\ {"comment"} \subseteq ScannerRisks
                  /\ {"separator"} \subseteq ScannerRisks
BY DEF ScannerRisks

LEMMA WordTokenIs == \A w \in DOMAIN WordToken : TokenKind(WordToken[w])
BY DEF WordToken, TokenKind, Heads

LEMMA WordIs == ASSUME NEW s, NEW i PROVE IsLexeme(Word(s, i))
<1>1. TokenKind("STRING")
  BY DEF TokenKind, Heads
<1> QED
  BY <1>1, CallsAre, WordTokenIs, LexemeIs DEF Word

LEMMA NumberIs == ASSUME NEW s, NEW i PROVE IsLexeme(Number(s, i))
<1>1. TokenKind("INTEGER")
  BY DEF TokenKind, Heads
<1> QED
  BY <1>1, CallsAre, LexemeIs, Zenon DEF Number

LEMMA StringIs == ASSUME NEW s, NEW i PROVE IsLexeme(get_q_string(s, i))
<1>1. TokenKind("Q_STRING") /\ TokenKind("DQ_STRING") /\ TokenKind("NAME")
  BY DEF TokenKind, Heads
<1> QED
  BY <1>1, CallsAre, LexemeIs, Zenon DEF get_q_string

LEMMA CommentsAre ==
    ASSUME NEW s, NEW i PROVE IsLexeme(Comment(s, i)) /\ IsLexeme(LineComment(s, i))
BY CallsAre, NothingIs, Zenon DEF Comment, LineComment

LEMMA OperatorIs == ASSUME NEW s, NEW i PROVE IsLexeme(BasicOp(s, i))
<1>1. TokenKind("BASIC_OP")
  BY DEF TokenKind, Heads
<1> QED
  BY <1>1, CallsAre, LexemeIs, Zenon DEF BasicOp

LEMMA DashesAre == ASSUME NEW s, NEW i PROVE IsLexeme(Dashes(s, i))
BY CommentsAre, OperatorIs DEF Dashes

LEMMA SeparatorIs == ASSUME NEW s, NEW i PROVE IsLexeme(Separator(s, i))
<1>1. TokenKind("END")
  BY DEF TokenKind, Heads
<1> QED
  BY <1>1, CallsAre, LexemeIs DEF Separator

LEMMA SignTokensAre == \A t \in SignToken : TokenKind(t.kind)
BY DEF SignToken, TokenKind, Heads

\* Of the signs that fit there is a longest, since they have three symbols at most.
LEMMA SignsAreShort == \A t \in SignToken : Len(t.text) \in 1..3
BY DEF SignToken

LEMMA GreatestOfThree ==
    ASSUME NEW F, F # {}, NEW f \in [F -> 1..3]
    PROVE  \E t \in F : \A u \in F : f[u] <= f[t]
<1>1. CASE \E t \in F : f[t] = 3
  BY <1>1
<1>2. CASE (\A t \in F : f[t] # 3) /\ \E t \in F : f[t] = 2
  BY <1>2
<1>3. CASE \A t \in F : f[t] # 3 /\ f[t] # 2
  BY <1>3
<1> QED
  BY <1>1, <1>2, <1>3

LEMMA SignIs == ASSUME NEW s, NEW i PROVE IsLexeme(Sign(s, i))
<1> DEFINE fits == {t \in SignToken : Starts(s, i, t.text)}
           Longest(t) == \A u \in fits : Len(u.text) <= Len(t.text)
           longest == CHOOSE t \in fits : Longest(t)
           calls == IF longest.text = <<"|", "|">> THEN {"or"} ELSE {}
<1>1. CASE fits = {}
  <2>1. Sign(s, i) = Nothing(i + 1, {})
    BY <1>1, Zenon DEF Sign
  <2> QED
    BY <2>1, CallsAre, NothingIs
<1>2. CASE fits # {}
  <2>1. \A t \in fits : t \in SignToken
    OBVIOUS
  <2>2. \E t \in fits : Longest(t)
    <3> DEFINE f == [t \in fits |-> Len(t.text)]
    <3>1. f \in [fits -> 1..3]
      BY SignsAreShort
    <3>2. \E t \in fits : \A u \in fits : f[u] <= f[t]
      <4> HIDE DEF f, fits
      <4> QED
        BY <1>2, <3>1, GreatestOfThree
    <3> QED
      BY <3>2
  <2>3. longest \in fits
    BY <2>2, Zenon
  <2>4. TokenKind(longest.kind)
    BY <2>1, <2>3, SignTokensAre
  <2>5. Sign(s, i) = Lexeme(longest.kind, <<>>, i + Len(longest.text), calls)
    BY <1>2, Zenon DEF Sign
  <2>6. calls \subseteq ScannerRisks
    BY CallsAre
  <2> HIDE DEF longest, calls
  <2> QED
    BY <2>4, <2>5, <2>6, LexemeIs
<1> QED
  BY <1>1, <1>2

LEMMA yylexIs == ASSUME NEW s, NEW i PROVE IsLexeme(yylex(s, i))
BY WordIs, NumberIs, StringIs, SeparatorIs, CommentsAre, DashesAre, OperatorIs, SignIs, Zenon
   DEF yylex

-----------------------------------------------------------------------------
(* Where the scanner goes on, and what it leaves of a lexeme.              *)

\* The least number of a set is one of it.
LEMMA MinIs ==
    ASSUME NEW T \in SUBSET Nat, T # {}
    PROVE  Min(T) \in T /\ \A y \in T : Min(T) <= y
<1> DEFINE R == {p \in Nat \X Nat : p[1] < p[2]}
<1>1. \E x \in T : \A y \in T : <<y, x>> \notin R
  <2>1. IsWellFoundedOn(R, Nat)
    BY LessIsWellFounded
  <2> HIDE DEF R
  <2> QED
    BY <2>1, WFMin
<1> DEFINE Least(x) == \A y \in T : x <= y
<1>2. \E x \in T : Least(x)
  <2>1. PICK x \in T : \A y \in T : <<y, x>> \notin R
    BY <1>1
  <2>2. ASSUME NEW y \in T PROVE x <= y
    <3>1. <<y, x>> \notin R /\ x \in Nat /\ y \in Nat
      BY <2>1
    <3> QED
      BY <3>1
  <2> QED
    BY <2>2
<1>3. Min(T) = CHOOSE x \in T : Least(x)
  BY Zenon DEF Min
<1> HIDE DEF Least
<1>4. Min(T) \in T /\ Least(Min(T))
  BY <1>2, <1>3, Zenon
<1> QED
  BY <1>4 DEF Least

\* The symbol at a place of a text; outside of it there is none.
LEMMA AtIs ==
    ASSUME NEW s \in Seq(STRING), NEW i \in Int, NEW class, At(s, i) \in class, Nul \notin class
    PROVE  i \in 1..Len(s)
BY DEF At

\* A class of symbols goes to a place of the text, or to its end.
LEMMA AfterIs ==
    ASSUME NEW s \in Seq(STRING), NEW i \in 1..(Len(s) + 1), NEW class
    PROVE  /\ After(s, i, class) \in i..(Len(s) + 1)
           /\ i <= Len(s) /\ s[i] \in class => After(s, i, class) > i
<1> DEFINE T == {j \in i..Len(s) : s[j] \notin class} \cup {Len(s) + 1}
<1>1. T \in SUBSET Nat /\ T # {} /\ T \subseteq i..(Len(s) + 1)
  OBVIOUS
<1>2. After(s, i, class) = Min(T)
  BY Zenon DEF After
<1>3. i <= Len(s) /\ s[i] \in class => i \notin T
  OBVIOUS
<1> HIDE DEF T
<1> DEFINE end == Min(T)
<1>4. end \in T
  BY <1>1, MinIs
<1> HIDE DEF end
<1>5. end \in i..(Len(s) + 1) /\ (i <= Len(s) /\ s[i] \in class => end # i)
  BY <1>1, <1>3, <1>4
<1> QED
  BY <1>2, <1>5 DEF end

\* A lexeme of a text ends behind the place where it begins, one place past the end of the
\* text at most, and has a text of its own.
Advances(s, i, x) ==
    x.next \in (i + 1)..(Len(s) + 2) /\ x.text \in Seq(STRING)

LEMMA LexemeAdvances ==
    ASSUME NEW s, NEW i, NEW kind, NEW string \in Seq(STRING), NEW next \in (i + 1)..(Len(s) + 2),
           NEW calls
    PROVE  Advances(s, i, Lexeme(kind, string, next, calls))
BY DEF Advances, Lexeme

LEMMA NothingAdvances ==
    ASSUME NEW s, NEW i, NEW next \in (i + 1)..(Len(s) + 2), NEW calls
    PROVE  Advances(s, i, Nothing(next, calls))
<1>1. <<>> \in Seq(STRING)
  OBVIOUS
<1> QED
  BY <1>1, LexemeAdvances DEF Nothing

\* What a lexeme keeps is a text.
LEMMA PartIs ==
    ASSUME NEW s \in Seq(STRING), NEW i \in 1..(Len(s) + 1), NEW j \in i..(Len(s) + 1)
    PROVE  SubSeq(s, i, j - 1) \in Seq(STRING)
<1>1. \A k \in i..(j - 1) : s[k] \in STRING
  OBVIOUS
<1> QED
  BY <1>1, SubSeqProperties

LEMMA WordAdvances ==
    ASSUME NEW s \in Seq(STRING), NEW i \in 1..Len(s) PROVE Advances(s, i, Word(s, i))
<1> DEFINE end == After(s, i + 1, WordSymbols \cup {"."})
<1>1. end \in (i + 1)..(Len(s) + 1)
  BY AfterIs
<1> HIDE DEF end
<1>2. SubSeq(s, i, end - 1) \in Seq(STRING) /\ end \in (i + 1)..(Len(s) + 2)
  BY <1>1, PartIs
<1>3. \A kind, calls : Advances(s, i, Lexeme(kind, SubSeq(s, i, end - 1), end, calls))
  BY <1>2, LexemeAdvances
<1> QED
  BY <1>3, Zenon DEF Word, end

LEMMA NumberAdvances ==
    ASSUME NEW s \in Seq(STRING), NEW i \in 1..Len(s), s[i] \in Digits
    PROVE  Advances(s, i, Number(s, i))
<1> DEFINE hex == Starts(s, i, <<"0", "x">>) /\ At(s, i + 2) \in Digits \cup HexLetters
           end == IF hex THEN After(s, i + 2, Digits \cup HexLetters) ELSE After(s, i, Digits)
<1>1. Nul \notin Digits \cup HexLetters
  BY Zenon DEF Nul, Digits, HexLetters
<1>2. end \in (i + 1)..(Len(s) + 1)
  <2>1. CASE hex
    <3>1. i + 2 \in 1..(Len(s) + 1)
      BY <1>1, <2>1, AtIs
    <3>2. After(s, i + 2, Digits \cup HexLetters) \in (i + 2)..(Len(s) + 1)
      BY <3>1, AfterIs
    <3> HIDE DEF hex
    <3> QED
      BY <2>1, <3>2
  <2>2. CASE ~hex
    <3>1. After(s, i, Digits) \in i..(Len(s) + 1) /\ After(s, i, Digits) > i
      BY AfterIs
    <3> HIDE DEF hex
    <3> QED
      BY <2>2, <3>1
  <2> QED
    BY <2>1, <2>2
<1>3. Number(s, i) = Lexeme("INTEGER", <<>>, end, {})
  BY Zenon DEF Number
<1> HIDE DEF end
<1>4. <<>> \in Seq(STRING) /\ end \in (i + 1)..(Len(s) + 2)
  BY <1>2
<1> QED
  BY <1>3, <1>4, LexemeAdvances

LEMMA MarkAdvances ==
    ASSUME NEW s \in Seq(STRING), NEW i \in 1..Len(s), s[i] # Newline
    PROVE  /\ Advances(s, i, Comment(s, i)) /\ Advances(s, i, LineComment(s, i))
           /\ Advances(s, i, Separator(s, i))
<1>1. Advances(s, i, Comment(s, i))
  <2> DEFINE ends == {j \in (i + 2)..(Len(s) - 1) : s[j] = "*" /\ s[j + 1] = "/"}
             T == {j + 2 : j \in ends} \cup {Len(s) + 2}
  <2>1. T \in SUBSET Nat /\ T # {} /\ T \subseteq (i + 1)..(Len(s) + 2)
    OBVIOUS
  <2>2. Comment(s, i) = Nothing(Min(T), {"comment"})
    BY Zenon DEF Comment
  <2> HIDE DEF T
  <2>3. Min(T) \in (i + 1)..(Len(s) + 2)
    BY <2>1, MinIs
  <2> QED
    BY <2>2, <2>3, NothingAdvances
<1>2. Advances(s, i, LineComment(s, i))
  <2> DEFINE T == {j \in i..Len(s) : s[j] = Newline} \cup {Len(s) + 1}
             eol == Min(T)
             end == After(s, eol, {Newline})
  <2>1. T \in SUBSET Nat /\ T # {} /\ T \subseteq (i + 1)..(Len(s) + 1)
    OBVIOUS
  <2>2. LineComment(s, i) = Nothing(end, {"comment"})
    BY Zenon DEF LineComment
  <2> HIDE DEF T
  <2>3. eol \in (i + 1)..(Len(s) + 1)
    BY <2>1, MinIs
  <2> HIDE DEF eol
  <2>4. end \in eol..(Len(s) + 1)
    BY <2>3, AfterIs
  <2> HIDE DEF end
  <2>5. end \in (i + 1)..(Len(s) + 2)
    BY <2>3, <2>4
  <2> QED
    BY <2>2, <2>5, NothingAdvances
<1>3. Advances(s, i, Separator(s, i))
  <2>1. <<>> \in Seq(STRING) /\ i + 1 \in (i + 1)..(Len(s) + 2)
    OBVIOUS
  <2> QED
    BY <2>1, LexemeAdvances DEF Separator
<1> QED
  BY <1>1, <1>2, <1>3

LEMMA OperatorAdvances ==
    ASSUME NEW s \in Seq(STRING), NEW i \in 1..Len(s), s[i] \in OpSigns
    PROVE  Advances(s, i, BasicOp(s, i))
<1> DEFINE end == After(s, i, OpSigns \cup Spaces)
<1>1. end \in i..(Len(s) + 1) /\ end > i
  BY AfterIs
<1>2. BasicOp(s, i) = Lexeme("BASIC_OP", <<>>, end, {})
  BY Zenon DEF BasicOp
<1> HIDE DEF end
<1>3. <<>> \in Seq(STRING) /\ end \in (i + 1)..(Len(s) + 2)
  BY <1>1
<1> QED
  BY <1>2, <1>3, LexemeAdvances

\* The symbols of the signs, of which none is the end of a string.
SignSymbols == {"&", "|", "=", "<", ">", "!", "*", "/", "^", "(", ")", Comma, "."}

LEMMA SignsAreSymbols ==
    Nul \notin SignSymbols
    /\ \A t \in SignToken : \A k \in DOMAIN t.text : t.text[k] \in SignSymbols
<1>1. Nul \notin SignSymbols
  BY Zenon DEF Nul, SignSymbols, Comma
<1>2. \A t \in SignToken : \A k \in DOMAIN t.text : t.text[k] \in SignSymbols
  BY DEF SignToken, SignSymbols
<1> QED
  BY <1>1, <1>2

\* A sign has a symbol or more.
LEMMA SignsHaveLength ==
    \A t \in SignToken : Len(t.text) \in 1..3 /\ Len(t.text) \in DOMAIN t.text
BY DEF SignToken

LEMMA LongestFits ==
    ASSUME NEW fits \in SUBSET SignToken, fits # {}
    PROVE  (CHOOSE t \in fits : \A u \in fits : Len(u.text) <= Len(t.text)) \in fits
<1> DEFINE Longest(t) == \A u \in fits : Len(u.text) <= Len(t.text)
           f == [t \in fits |-> Len(t.text)]
<1>1. f \in [fits -> 1..3]
  BY SignsAreShort
<1>2. \E t \in fits : \A u \in fits : f[u] <= f[t]
  <2> HIDE DEF f
  <2> QED
    BY <1>1, GreatestOfThree
<1>3. \E t \in fits : Longest(t)
  BY <1>2
<1> QED
  BY <1>3, Zenon

LEMMA SignAdvances ==
    ASSUME NEW s \in Seq(STRING), NEW i \in 1..Len(s) PROVE Advances(s, i, Sign(s, i))
<1> DEFINE fits == {t \in SignToken : Starts(s, i, t.text)}
           Longest(t) == \A u \in fits : Len(u.text) <= Len(t.text)
           longest == CHOOSE t \in fits : Longest(t)
           calls == IF longest.text = <<"|", "|">> THEN {"or"} ELSE {}
<1>1. CASE fits = {}
  <2>1. Sign(s, i) = Nothing(i + 1, {})
    BY <1>1, Zenon DEF Sign
  <2>2. i + 1 \in (i + 1)..(Len(s) + 2)
    OBVIOUS
  <2> QED
    BY <2>1, <2>2, NothingAdvances
<1>2. CASE fits # {}
  <2>1. longest \in fits
    <3>1. fits \in SUBSET SignToken
      OBVIOUS
    <3> HIDE DEF fits
    <3> QED
      BY <1>2, <3>1, LongestFits
  <2>2. Sign(s, i) = Lexeme(longest.kind, <<>>, i + Len(longest.text), calls)
    BY <1>2, Zenon DEF Sign
  <2>3. longest \in SignToken /\ Starts(s, i, longest.text)
    BY <2>1
  <2> HIDE DEF longest, calls
  <2> DEFINE l == Len(longest.text)
  <2>4. l \in 1..3 /\ l \in DOMAIN longest.text /\ longest.text[l] \in SignSymbols
    BY <2>3, SignsHaveLength, SignsAreSymbols
  <2>5. At(s, i + l - 1) \in SignSymbols
    BY <2>3, <2>4 DEF Starts
  <2> HIDE DEF l
  <2>6. i + l - 1 \in 1..Len(s)
    BY <2>4, <2>5, SignsAreSymbols, AtIs
  <2>7. <<>> \in Seq(STRING) /\ i + l \in (i + 1)..(Len(s) + 2)
    BY <2>4, <2>6
  <2> QED
    BY <2>2, <2>7, LexemeAdvances DEF l
<1> QED
  BY <1>1, <1>2

\* Where a quoted text ends, closed or not: the recursive definition has a value.
LEMMA StringEndIs ==
    ASSUME NEW s \in Seq(STRING), NEW i \in 1..Len(s)
    PROVE  StringEnd(s, i) \in (i + 1)..(Len(s) + 1)
<1> DEFINE Doubled(j) == s[i] # BackQuote /\ At(s, j + 1) = s[i]
           a == i + 1
           N == Len(s) + 2
           D == a..N
           V == (i + 1)..(Len(s) + 1)
           next(j) == IF s[j] \in {s[i], Escape} THEN j + 2 ELSE j + 1
           Result(j, g) ==
             IF j > Len(s) THEN Len(s) + 1
             ELSE IF s[j] = s[i] /\ ~Doubled(j) THEN j
             ELSE g[next(j)]
           Body(g) == [j \in D |-> Result(j, g)]
           G == [j \in D |-> [g \in [D -> V] |-> Result(j, g)]]
           scan == CHOOSE g : g = Body(g)
<1>1. StringEnd(s, i) = scan[i + 1]
  BY DEF StringEnd
<1>2. i + 1 \in Nat /\ Len(s) + 2 \in Nat /\ Len(s) + 1 \in V /\ i + 1 \in D
  OBVIOUS
<1>3. \A j \in D : next(j) > j /\ (j > Len(s) \/ next(j) \in D)
  OBVIOUS
<1> HIDE DEF next, Doubled
<1>4. G \in [D -> [[D -> V] -> V]]
  <2>1. ASSUME NEW j \in D, NEW g \in [D -> V] PROVE Result(j, g) \in V
    BY <1>2, <1>3
  <2> HIDE DEF D, V, Result
  <2> QED
    BY <2>1
<1>5. ASSUME NEW j \in D, NEW f \in [D -> V], NEW g \in [D -> V],
             \A e \in D : e > j => f[e] = g[e]
      PROVE  G[j][f] = G[j][g]
  <2>1. Result(j, f) = Result(j, g)
    BY <1>3, <1>5
  <2> HIDE DEF Result, D, V
  <2> QED
    BY <2>1
<1>6. \E g : IsComputed(g, G, D, V)
  <2>1. a \in Nat /\ N \in Nat /\ D = a..N /\ V # {}
    BY <1>2
  <2>2. LooksAhead(G, D, V)
    <3> HIDE DEF D, V, G
    <3> QED
      BY <1>4, <1>5 DEF LooksAhead
  <2> HIDE DEF D, V, G, a, N, Result, Body, scan
  <2> QED
    BY <2>1, <2>2, RecursionIsDefined
<1>7. \E g : g = Body(g)
  <2>1. PICK g : IsComputed(g, G, D, V)
    BY <1>6
  <2>2. g \in [D -> V] /\ \A j \in D : g[j] = G[j][g]
    <3> HIDE DEF D, V, G
    <3> QED
      BY <2>1 DEF IsComputed
  <2> HIDE DEF Result, D, V
  <2> QED
    BY <2>2
<1>8. scan = Body(scan)
  <2> HIDE DEF Body
  <2> QED
    BY <1>7, Zenon
<1>9. ASSUME NEW j \in D, \A e \in D : e > j => scan[e] \in V PROVE scan[j] \in V
  <2>1. \A g : (\A e \in D : e > j => g[e] \in V) => Result(j, g) \in V
    BY <1>3
  <2> HIDE DEF Result, D, V, scan
  <2>2. scan[j] = Result(j, scan)
    BY <1>8
  <2> QED
    BY <1>9, <2>1, <2>2
<1>10. \A j \in D : scan[j] \in V
  <2>1. a \in Nat /\ N \in Nat /\ D = a..N
    BY <1>2
  <2>2. IsTypedAhead(scan, D, V)
    <3> HIDE DEF D, V, scan
    <3> QED
      BY <1>9 DEF IsTypedAhead
  <2> HIDE DEF D, V, scan, a, N
  <2> QED
    BY <2>1, <2>2, RecursionIsTyped
<1> HIDE DEF scan, D
<1> QED
  BY <1>1, <1>2, <1>10

LEMMA QuotedAdvances ==
    ASSUME NEW s \in Seq(STRING), NEW i \in 1..Len(s)
    PROVE  Advances(s, i, get_q_string(s, i))
<1> DEFINE end == StringEnd(s, i)
<1>1. end \in (i + 1)..(Len(s) + 1)
  BY StringEndIs
<1> HIDE DEF end
<1>2. SubSeq(s, i + 1, end - 1) \in Seq(STRING) /\ end + 1 \in (i + 1)..(Len(s) + 2)
  BY <1>1, PartIs
<1>3. \A kind : Advances(s, i, Lexeme(kind, SubSeq(s, i + 1, end - 1), end + 1, {}))
  BY <1>2, LexemeAdvances
<1> QED
  BY <1>3, Zenon DEF get_q_string, end

\* A text starts at a place with its first symbol.
LEMMA StartsIs ==
    ASSUME NEW s \in Seq(STRING), NEW i \in 1..Len(s), NEW x, NEW y, Starts(s, i, <<x, y>>)
    PROVE  s[i] = x
<1>1. 1 \in DOMAIN <<x, y>> /\ <<x, y>>[1] = x
  OBVIOUS
<1>2. At(s, i + 1 - 1) = x
  BY <1>1 DEF Starts
<1>3. At(s, i + 1 - 1) = s[i]
  BY DEF At
<1> QED
  BY <1>2, <1>3

LEMMA SignsAreNoNewline ==
    "#" # Newline /\ "/" # Newline /\ "-" # Newline /\ ";" # Newline /\ "-" \in OpSigns
BY Zenon DEF Newline, OpSigns

\* The scanner always goes on: it takes a symbol or more of the query.
LEMMA ScannerAdvances ==
    ASSUME NEW s \in Seq(STRING), NEW i \in 1..Len(s)
    PROVE  Advances(s, i, yylex(s, i))
<1> DEFINE X == Advances(s, i, yylex(s, i))
           Line == Starts(s, i, <<"-", "-">>)
           Block == Starts(s, i, <<"/", "*">>)
           other == ~Starts(s, i, <<"!", "=">>)
           a == s[i] \in Keywords \cup OwnTables \cup Names
           b == s[i] \in Quotes \cup {BackQuote}
           x == s[i]
<1>1. Advances(s, i, Word(s, i)) /\ Advances(s, i, get_q_string(s, i)) /\ Advances(s, i, Sign(s, i))
  BY WordAdvances, QuotedAdvances, SignAdvances
<1>2. x \in Digits => Advances(s, i, Number(s, i))
  BY NumberAdvances
<1>3. x = ";" => Advances(s, i, Separator(s, i))
  BY MarkAdvances, SignsAreNoNewline, Zenon
<1>4. x = "#" => Advances(s, i, LineComment(s, i))
  BY MarkAdvances, SignsAreNoNewline, Zenon
<1>5. Block => Advances(s, i, Comment(s, i))
  BY StartsIs, MarkAdvances, SignsAreNoNewline, Zenon
<1>6. x \in OpSigns => Advances(s, i, BasicOp(s, i))
  BY OperatorAdvances
<1>7. Line => Advances(s, i, Dashes(s, i))
  <2>1. Line => x = "-"
    BY StartsIs, Zenon
  <2> QED
    BY <2>1, MarkAdvances, OperatorAdvances, SignsAreNoNewline, Zenon DEF Dashes
<1> QED
  BY <1>1, <1>2, <1>3, <1>4, <1>5, <1>6, <1>7, Zenon DEF yylex

\* The token at a place of a query, if there is one, and those from a place on.
TokenAt(s, i) == IF yylex(s, i).kind = "none" THEN <<>> ELSE <<yylex(s, i)>>

Rest(s, i, f) == IF i > Len(s) THEN <<>> ELSE TokenAt(s, i) \o f[yylex(s, i).next]

TokensFrom(s) == CHOOSE f : f = [i \in 1..(Len(s) + 2) |-> Rest(s, i, f)]

LexemesOf(s) == {yylex(s, i) : i \in 1..Len(s)}

\* The tokens of a query satisfy their recursive definition.
LEMMA TokensFromIs ==
    ASSUME NEW s \in Seq(STRING)
    PROVE  /\ TokensOf(s) = TokensFrom(s)[1]
           /\ \A i \in 1..(Len(s) + 2) : /\ TokensFrom(s)[i] \in Seq(LexemesOf(s))
                                         /\ TokensFrom(s)[i] = Rest(s, i, TokensFrom(s))
<1> DEFINE N == Len(s) + 2
           D == 1..N
           V == Seq(LexemesOf(s))
           Result(i, f) == Rest(s, i, f)
           Body(f) == [i \in D |-> Result(i, f)]
           G == [i \in D |-> [f \in [D -> V] |-> Result(i, f)]]
           from == CHOOSE f : f = Body(f)
<1>1. TokensOf(s) = from[1] /\ from = TokensFrom(s)
  BY Zenon DEF TokensOf, TokensFrom, Rest, TokenAt
<1>2. 1 \in Nat /\ N \in Nat /\ D = 1..N /\ V # {} /\ <<>> \in V /\ 1 \in D
  <2>1. <<>> \in V
    OBVIOUS
  <2>2. Len(s) \in Nat
    OBVIOUS
  <2> HIDE DEF V
  <2> QED
    BY <2>1, <2>2
<1>3. ASSUME NEW i \in D, i <= Len(s)
      PROVE  yylex(s, i).next \in D /\ yylex(s, i).next > i /\ TokenAt(s, i) \in V
  <2>1. i \in 1..Len(s)
    BY <1>3
  <2>2. yylex(s, i).next \in (i + 1)..N
    BY <2>1, ScannerAdvances DEF Advances
  <2>3. yylex(s, i) \in LexemesOf(s)
    BY <2>1 DEF LexemesOf
  <2> DEFINE x == yylex(s, i)
  <2>4. TokenAt(s, i) \in V
    <3>1. x \in LexemesOf(s) /\ TokenAt(s, i) = IF x.kind = "none" THEN <<>> ELSE <<x>>
      BY <2>3, Zenon DEF TokenAt
    <3> HIDE DEF x
    <3> QED
      BY <3>1
  <2> HIDE DEF x
  <2> QED
    BY <2>1, <2>2, <2>4
<1>4. ASSUME NEW i \in D, NEW f, \A e \in D : e > i => f[e] \in V PROVE Result(i, f) \in V
  <2>1. CASE i <= Len(s)
    <3>1. Result(i, f) = TokenAt(s, i) \o f[yylex(s, i).next]
      BY <2>1 DEF Rest
    <3> DEFINE p == TokenAt(s, i)
               q == f[yylex(s, i).next]
    <3>2. p \in V /\ q \in V
      BY <1>3, <1>4, <2>1
    <3> HIDE DEF p, q, Result
    <3>3. p \o q \in V
      BY <3>2
    <3> QED
      BY <3>1, <3>3 DEF p, q
  <2>2. CASE i > Len(s)
    BY <1>2, <2>2 DEF Rest
  <2> QED
    BY <2>1, <2>2
<1>5. ASSUME NEW i \in D, NEW f \in [D -> V], NEW g \in [D -> V],
             \A e \in D : e > i => f[e] = g[e]
      PROVE  Result(i, f) = Result(i, g)
  BY <1>3, <1>5 DEF Rest
<1>6. \E f : IsComputed(f, G, D, V)
  <2>1. LooksAhead(G, D, V)
    <3>1. ASSUME NEW i \in D, NEW f \in [D -> V] PROVE Result(i, f) \in V
      <4> HIDE DEF D, V, Result
      <4> QED
        BY <1>4
    <3> HIDE DEF D, V, Result
    <3>2. G \in [D -> [[D -> V] -> V]]
      BY <3>1
    <3>3. ASSUME NEW i \in D, NEW f \in [D -> V], NEW g \in [D -> V],
                 \A e \in D : e > i => f[e] = g[e]
          PROVE  G[i][f] = G[i][g]
      BY <1>5, <3>3
    <3> HIDE DEF G
    <3> QED
      BY <3>2, <3>3 DEF LooksAhead
  <2> HIDE DEF D, V, G, N, Result, Body, from
  <2> QED
    BY <1>2, <2>1, RecursionIsDefined
<1>7. \E f : f = Body(f)
  <2>1. PICK f : IsComputed(f, G, D, V)
    BY <1>6
  <2>2. f \in [D -> V] /\ \A i \in D : f[i] = G[i][f]
    <3> HIDE DEF D, V, G
    <3> QED
      BY <2>1 DEF IsComputed
  <2> HIDE DEF Result, D, V
  <2> QED
    BY <2>2
<1>8. from = Body(from)
  <2> HIDE DEF Body
  <2> QED
    BY <1>7, Zenon
<1> HIDE DEF from
<1>9. \A i \in D : from[i] = Result(i, from)
  <2> HIDE DEF Result, D
  <2> QED
    BY <1>8
<1>10. \A i \in D : from[i] \in V
  <2>1. IsTypedAhead(from, D, V)
    <3> HIDE DEF D, V, Result
    <3>1. ASSUME NEW i \in D, \A e \in D : e > i => from[e] \in V PROVE from[i] \in V
      BY <1>4, <1>9, <3>1
    <3> QED
      BY <3>1 DEF IsTypedAhead
  <2> HIDE DEF D, V, N
  <2> QED
    BY <1>2, <2>1, RecursionIsTyped
<1> QED
  BY <1>1, <1>9, <1>10, Zenon

-----------------------------------------------------------------------------
(* The parser's stack.                                                     *)

\* A sequence, whatever it is made of.
IsSequence(s) == \E S : s \in Seq(S)

\* Each value of a stack has its object, of its own.  That no object is numbered that was
\* not made is what makes a new one nobody else's.
Owns(s, m) ==
    /\ IsSequence(s)
    /\ \A i \in DOMAIN s :
         /\ s[i].value \in 0..m.made
         /\ s[i].symbol \in Expressions => IsA(m, s[i].value, "fields")
         /\ s[i].symbol \in Strings => IsA(m, s[i].value, "str_value")
    /\ \A i, j \in DOMAIN s : i # j /\ s[i].value = s[j].value => s[i].value = NoValue

LEMMA Replaced ==
    ASSUME NEW s, IsSequence(s), NEW k \in 0..Len(s), NEW x
    PROVE  LET t == Append(SubSeq(s, 1, k), x)
           IN  /\ IsSequence(t) /\ DOMAIN t = 1..(k + 1)
               /\ t[k + 1] = x /\ \A i \in 1..k : t[i] = s[i]
<1> PICK S : s \in Seq(S)
  BY DEF IsSequence
<1> DEFINE T == S \cup {x}
           b == SubSeq(s, 1, k)
<1>1. s \in Seq(T) /\ Len(s) \in Nat
  OBVIOUS
<1>2. b \in Seq(T) /\ Len(b) = k /\ \A i \in 1..k : b[i] = s[i]
  BY <1>1, SubSeqProperties
<1> HIDE DEF b
<1>3. x \in T
  OBVIOUS
<1> HIDE DEF T
<1>4. Append(b, x) \in Seq(T) /\ Len(Append(b, x)) = k + 1
  BY <1>2, <1>3, AppendProperties
<1>5. DOMAIN Append(b, x) = 1..(k + 1)
  BY <1>4
<1>6. Append(b, x)[k + 1] = x /\ \A i \in 1..k : Append(b, x)[i] = s[i]
  BY <1>2, <1>3, AppendProperties
<1> QED
  BY <1>4, <1>5, <1>6 DEF b, IsSequence

\* A right-hand side on the stack becomes its symbol, with the value its action leaves.
LEMMA ReplacingOwns ==
    ASSUME NEW m, IsMemory(m), NEW n, NEW s, Owns(s, m), NEW k \in 0..Len(s), NEW v,
           DOMAIN v = 1..(Len(s) - k), \A p \in DOMAIN v : v[p] = s[k + p].value,
           NEW lhs, Leaves(m, n, v, lhs)
    PROVE  Owns(Append(SubSeq(s, 1, k), Item(lhs, n.value)), n)
<1> DEFINE x == Item(lhs, n.value)
           t == Append(SubSeq(s, 1, k), x)
<1>1. IsMemory(n) /\ m.made <= n.made /\ n.value \in 0..n.made /\ m.made \in Nat /\ n.made \in Nat
  BY DEF Leaves, Keeps, IsMemory
<1>2. x.symbol = lhs /\ x.value = n.value
  BY DEF Item
<1> HIDE DEF x
<1>3. /\ IsSequence(t) /\ DOMAIN t = 1..(k + 1)
      /\ t[k + 1] = x /\ \A i \in 1..k : t[i] = s[i]
  BY Replaced DEF Owns
<1> HIDE DEF t
<1>4. k \in Nat /\ Len(s) \in Nat /\ DOMAIN s = 1..Len(s)
  BY DEF Owns, IsSequence
<1>5. ASSUME NEW i \in 1..k, NEW p \in DOMAIN v, v[p] = s[i].value
      PROVE  s[i].value = NoValue
  <2>1. k + p \in DOMAIN s /\ i \in DOMAIN s /\ i # k + p /\ v[p] = s[k + p].value
    BY <1>4
  <2> QED
    BY <1>5, <2>1 DEF Owns
<1>6. ASSUME NEW i \in 1..k, s[i].value = n.value PROVE s[i].value = NoValue
  <2>1. s[i].value \in 0..m.made
    BY <1>4 DEF Owns
  <2>2. ~(n.value > m.made)
    BY <1>1, <1>6, <2>1
  <2> QED
    BY <1>5, <1>6, <2>2 DEF Leaves
<1>7. ASSUME NEW i \in 1..k
      PROVE  /\ t[i].value \in 0..n.made
             /\ t[i].symbol \in Expressions => IsA(n, t[i].value, "fields")
             /\ t[i].symbol \in Strings => IsA(n, t[i].value, "str_value")
  <2>1. t[i] = s[i] /\ i \in DOMAIN s
    BY <1>3, <1>4
  <2>2. s[i].value \in 0..n.made
    BY <1>1, <2>1 DEF Owns
  <2>3. ASSUME NEW field, IsA(m, s[i].value, field) PROVE IsA(n, s[i].value, field)
    <3>1. s[i].value # NoValue
      BY <2>3 DEF IsA, IsMemory, NoValue
    <3>2. s[i].value \notin {v[p] : p \in DOMAIN v}
      BY <1>5, <3>1
    <3> QED
      BY <2>3, <3>2 DEF IsA, Leaves, Keeps
  <2> QED
    BY <2>1, <2>2, <2>3 DEF Owns
<1>8. /\ t[k + 1].value \in 0..n.made
      /\ t[k + 1].symbol \in Expressions => IsA(n, t[k + 1].value, "fields")
      /\ t[k + 1].symbol \in Strings => IsA(n, t[k + 1].value, "str_value")
  BY <1>1, <1>2, <1>3 DEF Leaves
<1>9. ASSUME NEW i \in 1..(k + 1), NEW j \in 1..(k + 1), i # j, t[i].value = t[j].value
      PROVE  t[i].value = NoValue
  <2>1. CASE i \in 1..k /\ j \in 1..k
    BY <1>3, <1>4, <1>9, <2>1 DEF Owns
  <2>2. CASE i \in 1..k /\ j = k + 1
    BY <1>2, <1>3, <1>6, <1>9, <2>2
  <2>3. CASE i = k + 1 /\ j \in 1..k
    BY <1>2, <1>3, <1>6, <1>9, <2>3
  <2> QED
    BY <1>4, <1>9, <2>1, <2>2, <2>3
<1>10. \A i \in 1..(k + 1) :
         /\ t[i].value \in 0..n.made
         /\ t[i].symbol \in Expressions => IsA(n, t[i].value, "fields")
         /\ t[i].symbol \in Strings => IsA(n, t[i].value, "str_value")
  BY <1>4, <1>7, <1>8
<1>11. Owns(t, n)
  BY <1>3, <1>9, <1>10 DEF Owns
<1> QED
  BY <1>11 DEF t, x

-----------------------------------------------------------------------------
(* The steps of the parser.                                                *)

LEMMA MemoryIs ==
    /\ Memory.objects = objects /\ Memory.made = made /\ Memory.risk = risk
    /\ Memory.value = NoValue
BY DEF Memory

\* A step whose memory is n, for the parser's variables.
LEMMA MemoryBecomes ==
    ASSUME NEW n, IsMemory(n), objects' = n.objects, made' = n.made
    PROVE  /\ IsMemory(Memory)'
           /\ \A s : Owns(s, n) <=> Owns(s, Memory')
<1>1. Memory' = [objects |-> n.objects, made |-> n.made, risk |-> risk', value |-> NoValue]
  BY DEF Memory
<1> QED
  BY <1>1 DEF IsMemory, Owns, IsA, NoValue

AllRisks == ScannerRisks \cup ParserRisks

\* The types of ValuesAreOwned, apart from the objects.
Typed ==
    /\ text \in Texts
    /\ risk \subseteq AllRisks
    /\ state \in {"parsing", "accepted", "failed", "returned", "crashed"}

ParserInv ==
    /\ Typed
    /\ IsMemory(Memory)
    /\ Owns(stack, Memory)

LEMMA ParserInvOwns == ParserInv => ValuesAreOwned
<1> SUFFICES ASSUME ParserInv PROVE ValuesAreOwned
  OBVIOUS
<1>1. AllRisks = {"or", "union", "comment", "separator", "tautology", "empty_pwd",
                  "s_table", "bruteforce"}
  BY DEF AllRisks, ScannerRisks, ParserRisks
<1>2. StackOwns
  <2>1. \A i \in DOMAIN stack :
          /\ stack[i].symbol \in Expressions => IsA(Memory, stack[i].value, "fields")
          /\ stack[i].symbol \in Strings => IsA(Memory, stack[i].value, "str_value")
    BY DEF ParserInv, Owns
  <2>2. \A i, j \in DOMAIN stack :
          i # j /\ stack[i].value = stack[j].value => stack[i].value = NoValue
    BY DEF ParserInv, Owns
  <2> QED
    BY <2>1, <2>2, MemoryIs DEF StackOwns, IsA
<1> QED
  BY <1>1, <1>2 DEF ParserInv, Typed, ValuesAreOwned

LEMMA EmptyOwns == ASSUME NEW m PROVE Owns(<<>>, m)
<1>1. <<>> \in Seq({}) /\ DOMAIN <<>> = {}
  OBVIOUS
<1> QED
  BY <1>1 DEF Owns, IsSequence

LEMMA ParserStarts == ParseInit => ParserInv
<1> SUFFICES ASSUME ParseInit PROVE ParserInv
  OBVIOUS
<1>1. IsMemory(Memory)
  <2>1. DOMAIN objects = {} /\ made = 0
    BY DEF ParseInit
  <2> QED
    BY <2>1 DEF Memory, IsMemory, NoValue
<1>2. Owns(stack, Memory)
  BY EmptyOwns DEF ParseInit
<1> QED
  BY <1>1, <1>2 DEF ParserInv, Typed, ParseInit

\* A memory that keeps everything is still that of the stack.
LEMMA KeptOwns ==
    ASSUME NEW m, NEW n, NEW s, IsMemory(m), Owns(s, m), Keeps(m, n, {})
    PROVE  Owns(s, n)
<1>1. m.made \in Nat /\ n.made \in Nat /\ m.made <= n.made
  BY DEF Keeps, IsMemory
<1>2. \A i \in DOMAIN s : s[i].value \in 0..n.made
  BY <1>1 DEF Owns
<1>3. \A o, field : IsA(m, o, field) => IsA(n, o, field)
  BY DEF IsA, Keeps
<1> QED
  BY <1>2, <1>3 DEF Owns

\* A token, with a new string or without a value, is pushed onto the stack.
LEMMA PushedOwns ==
    ASSUME NEW m, IsMemory(m), NEW s, Owns(s, m), NEW n, NEW lhs, Leaves(m, n, <<>>, lhs)
    PROVE  Owns(Append(s, Item(lhs, n.value)), n)
<1> DEFINE k == Len(s)
           v == <<>>
<1>1. k \in 0..Len(s) /\ SubSeq(s, 1, k) = s
  BY DEF Owns, IsSequence
<1>2. DOMAIN v = 1..(Len(s) - k) /\ Leaves(m, n, v, lhs)
  BY <1>1
<1>3. \A p \in DOMAIN v : v[p] = s[k + p].value
  OBVIOUS
<1> HIDE DEF k, v
<1>4. Owns(Append(SubSeq(s, 1, k), Item(lhs, n.value)), n)
  BY <1>1, <1>2, <1>3, ReplacingOwns
<1> QED
  BY <1>1, <1>4

\* Only a token with a name or a text is a string, which is a new one.
LEMMA TokenLeaves ==
    ASSUME NEW m, IsMemory(m), m.value = NoValue, NEW x, IsLexeme(x), NEW named,
           named <=> x.kind \in {"STRING", "NAME", "Q_STRING", "DQ_STRING"}
    PROVE  Leaves(m, IF named THEN NewString(m, x.text) ELSE m, <<>>, x.kind)
<1>1. CASE named
  <2> DEFINE n == NewString(m, x.text)
  <2>1. /\ Keeps(m, n, {}) /\ IsA(n, m.made + 1, "str_value") /\ n.value = m.made + 1
    BY NewStringMakes
  <2> HIDE DEF n
  <2>2. x.kind \notin Expressions
    BY HeadsCarry DEF IsLexeme, TokenKind
  <2>3. n.value > m.made
    BY <2>1 DEF IsMemory
  <2>4. Leaves(m, n, <<>>, x.kind)
    BY <2>1, <2>2, <2>3 DEF Leaves, Keeps
  <2> QED
    BY <1>1, <2>4 DEF n
<1>2. CASE ~named
  <2>1. NoObject(x.kind)
    BY <1>2, HeadsCarry DEF NoObject, IsLexeme, TokenKind, Strings
  <2> QED
    BY <1>2, <2>1, NothingLeft, MemoryItself
<1> QED
  BY <1>1, <1>2

LEMMA ShiftInv == ASSUME ParserInv, Shift PROVE ParserInv'
<1> DEFINE x == yylex(text, place)
           named == x.kind \in {"STRING", "NAME", "Q_STRING", "DQ_STRING"}
           m == IF named THEN NewString(Memory, x.text) ELSE Memory
<1>1. /\ text' = text /\ risk' = risk \cup x.calls
      /\ objects' = m.objects /\ made' = m.made
      /\ stack' \in {stack, Append(stack, Item(x.kind, m.value))}
      /\ state' \in {state, "failed", "crashed"}
  BY DEF Shift
<1>2. IsLexeme(x)
  BY yylexIs
<1> HIDE DEF x
<1>3. Leaves(Memory, m, <<>>, x.kind)
  BY <1>2, MemoryIs, TokenLeaves DEF ParserInv
<1> HIDE DEF m
<1>4. Keeps(Memory, m, {}) /\ IsMemory(m)
  BY <1>3 DEF Leaves, Keeps
<1>5. Owns(stack, m) /\ Owns(Append(stack, Item(x.kind, m.value)), m)
  BY <1>3, <1>4, KeptOwns, PushedOwns DEF ParserInv
<1>6. Owns(stack', m)
  BY <1>1, <1>5
<1>7. IsMemory(Memory)' /\ Owns(stack', Memory')
  BY <1>1, <1>4, <1>6, MemoryBecomes
<1>8. Typed'
  BY <1>1, <1>2 DEF ParserInv, Typed, IsLexeme, AllRisks
<1> QED
  BY <1>7, <1>8 DEF ParserInv

\* The top of a sequence, and what is below it.
LEMMA Splitting ==
    ASSUME NEW s, IsSequence(s), NEW c \in Nat, c <= Len(s)
    PROVE  LET k == Len(s) - c
               below == SubSeq(s, 1, k)
               top == SubSeq(s, Len(below) + 1, Len(s))
           IN  /\ k \in 0..Len(s) /\ Len(s) \in Nat /\ k \in Nat
               /\ DOMAIN top = 1..c
               /\ \A p \in 1..c : top[p] = s[k + p] /\ k + p \in DOMAIN s
<1> DEFINE k == Len(s) - c
           below == SubSeq(s, 1, k)
           u == SubSeq(s, k + 1, Len(s))
<1> PICK S : s \in Seq(S)
  BY DEF IsSequence
<1>1. Len(s) \in Nat /\ DOMAIN s = 1..Len(s) /\ \A i \in 1..Len(s) : s[i] \in S
  OBVIOUS
<1>2. k \in 0..Len(s) /\ k \in Nat /\ Len(s) - k = c
  BY <1>1
<1> HIDE DEF k
<1>3. Len(below) = k
  <2>1. \A i \in 1..k : s[i] \in S
    BY <1>1, <1>2
  <2> QED
    BY <1>2, <2>1, SubSeqProperties
<1> HIDE DEF below
<1>4. /\ u \in Seq(S) /\ Len(u) = IF k + 1 <= Len(s) THEN Len(s) - (k + 1) + 1 ELSE 0
      /\ \A i \in 1..(Len(s) - (k + 1) + 1) : u[i] = s[k + 1 + i - 1]
  <2>1. \A i \in (k + 1)..Len(s) : s[i] \in S
    BY <1>1, <1>2
  <2>2. k + 1 \in Int /\ Len(s) \in Int
    BY <1>1, <1>2
  <2> QED
    BY <2>1, <2>2, SubSeqProperties
<1> HIDE DEF u
<1>5. DOMAIN u = 1..c
  <2>1. ASSUME NEW l \in Nat, k \in 0..l, l - k = c
        PROVE  (IF k + 1 <= l THEN l - (k + 1) + 1 ELSE 0) = c
    BY <1>2, <2>1
  <2>2. Len(u) = c
    BY <1>1, <1>2, <1>4, <2>1
  <2> QED
    BY <1>4, <2>2
<1>6. ASSUME NEW p \in 1..c PROVE u[p] = s[k + p] /\ k + p \in DOMAIN s
  <2>1. ASSUME NEW l \in Nat, k \in 0..l, l - k = c
        PROVE  /\ p \in 1..(l - (k + 1) + 1) /\ k + p \in 1..l
               /\ k + 1 + p - 1 = k + p
    BY <1>2, <2>1
  <2>2. /\ p \in 1..(Len(s) - (k + 1) + 1) /\ k + p \in 1..Len(s)
        /\ k + 1 + p - 1 = k + p
    BY <1>1, <1>2, <2>1
  <2>3. u[p] = s[k + 1 + p - 1]
    BY <1>4, <2>2
  <2> QED
    BY <1>1, <2>2, <2>3
<1>7. SubSeq(s, Len(below) + 1, Len(s)) = u
  BY <1>3 DEF u
<1> QED
  BY <1>1, <1>2, <1>5, <1>6, <1>7 DEF k, below

\* A reduction replaces a right-hand side, whose values v are objects of their own, by a symbol.
Replaces(r, k, v) ==
    LET m == Act(r.action, v, Memory)
    IN  /\ DOMAIN v = 1..(Len(stack) - k) /\ DOMAIN v = DOMAIN r.rhs /\ Held(Memory, v, r.rhs)
        /\ \A p \in DOMAIN v : v[p] = stack[k + p].value /\ stack[k + p].symbol = r.rhs[p]
        /\ Fits(SubSeq(stack, 1, k), r.lhs)
        /\ stack' = Append(SubSeq(stack, 1, k), Item(r.lhs, m.value))
        /\ objects' = m.objects /\ made' = m.made /\ risk' = m.risk

LEMMA ReductionReplaces ==
    ASSUME ParserInv, NEW r \in Rules, Reduce(r)
    PROVE  /\ \E k \in 0..Len(stack) : \E v : Replaces(r, k, v)
           /\ UNCHANGED <<text, place, state>> /\ state = "parsing"
<1> DEFINE k == Len(stack) - Len(r.rhs)
           below == SubSeq(stack, 1, k)
           top == SubSeq(stack, Len(below) + 1, Len(stack))
           v == [i \in DOMAIN top |-> top[i].value]
           m == Act(r.action, v, Memory)
<1>1. /\ stack' = Append(below, Item(r.lhs, m.value))
      /\ objects' = m.objects /\ made' = m.made /\ risk' = m.risk
      /\ UNCHANGED <<text, place, state>> /\ state = "parsing" /\ Len(r.rhs) <= Len(stack)
      /\ \A i \in DOMAIN r.rhs : top[i].symbol = r.rhs[i]
      /\ Fits(below, r.lhs)
  BY DEF Reduce
<1>2. Counted(r.rhs)
  BY RulesFit
<1>3. IsSequence(stack) /\ Len(r.rhs) \in Nat
  BY <1>2 DEF ParserInv, Owns, Counted
<1>4. k \in 0..Len(stack) /\ Len(stack) \in Nat /\ k \in Nat
  BY <1>1, <1>3, Splitting
<1>5. Len(stack) - k = Len(r.rhs)
  BY <1>3, <1>4
<1>6. /\ DOMAIN top = 1..Len(r.rhs)
      /\ \A p \in 1..Len(r.rhs) : top[p] = stack[k + p] /\ k + p \in DOMAIN stack
  BY <1>1, <1>3, Splitting
<1>7. /\ DOMAIN v = 1..(Len(stack) - k) /\ DOMAIN v = DOMAIN r.rhs
      /\ \A p \in DOMAIN v : /\ v[p] = stack[k + p].value /\ k + p \in DOMAIN stack
                             /\ stack[k + p].symbol = r.rhs[p]
  BY <1>1, <1>2, <1>5, <1>6 DEF Counted
<1> HIDE DEF top, v
<1>8. Held(Memory, v, r.rhs)
  <2> HIDE DEF k
  <2>1. ASSUME NEW p \in DOMAIN r.rhs, NEW q \in DOMAIN r.rhs, p # q, v[p] = v[q]
        PROVE  v[p] = NoValue
    <3>1. k + p # k + q
      BY <1>2, <1>4, <2>1 DEF Counted
    <3> QED
      BY <1>7, <2>1, <3>1 DEF ParserInv, Owns
  <2>2. ASSUME NEW p \in DOMAIN r.rhs
        PROVE  /\ v[p] \in 0..Memory.made
               /\ r.rhs[p] \in Expressions => IsA(Memory, v[p], "fields")
               /\ r.rhs[p] \in Strings => IsA(Memory, v[p], "str_value")
    BY <1>7 DEF ParserInv, Owns
  <2> QED
    BY <1>7, <2>1, <2>2 DEF Held
<1> HIDE DEF k, m
<1>9. Replaces(r, k, v)
  BY <1>1, <1>7, <1>8 DEF Replaces, m
<1> QED
  BY <1>1, <1>4, <1>9

LEMMA ReduceInv == ASSUME ParserInv, NEW r \in Rules, Reduce(r) PROVE ParserInv'
<1> PICK k \in 0..Len(stack) : \E v : Replaces(r, k, v)
  BY ReductionReplaces
<1> PICK v : Replaces(r, k, v)
  OBVIOUS
<1> DEFINE m == Act(r.action, v, Memory)
<1>1. /\ stack' = Append(SubSeq(stack, 1, k), Item(r.lhs, m.value))
      /\ objects' = m.objects /\ made' = m.made /\ risk' = m.risk
      /\ UNCHANGED <<text, state>>
  BY ReductionReplaces DEF Replaces
<1>2. Leaves(Memory, m, v, r.lhs)
  BY RulesFit, ActLeaves, MemoryIs DEF ParserInv, Replaces
<1> HIDE DEF m
<1>3. Owns(stack', m)
  BY <1>1, <1>2, ReplacingOwns DEF ParserInv, Replaces
<1>4. IsMemory(Memory)' /\ Owns(stack', Memory')
  <2>1. IsMemory(m)
    BY <1>2 DEF Leaves, Keeps
  <2> QED
    BY <1>1, <1>3, <2>1, MemoryBecomes
<1>5. Typed'
  BY <1>1, <1>2, MemoryIs DEF ParserInv, Typed, AllRisks, Leaves, Keeps
<1> QED
  BY <1>4, <1>5 DEF ParserInv

\* The memory does not change.
LEMMA MemoryStays ==
    ASSUME IsMemory(Memory), UNCHANGED <<objects, made>>
    PROVE  IsMemory(Memory)' /\ \A s : Owns(s, Memory) => Owns(s, Memory')
BY MemoryIs, MemoryBecomes

LEMMA EndOfQueryInv == ASSUME ParserInv, EndOfQuery PROVE ParserInv'
<1>1. UNCHANGED <<text, stack, objects, made, risk>> /\ state' \in {"accepted", "failed"}
  BY DEF EndOfQuery
<1> QED
  BY <1>1, MemoryStays DEF ParserInv, Typed

\* What is left is freed.
LEMMA ParseReturnInv == ASSUME ParserInv, ParseReturn PROVE ParserInv'
<1>1. /\ objects' = <<>> /\ stack' = <<>> /\ state' = "returned"
      /\ UNCHANGED <<text, made, risk>>
  BY DEF ParseReturn
<1> DEFINE m == [objects |-> <<>>, made |-> made, risk |-> risk, value |-> NoValue]
<1>2. IsMemory(m)
  BY MemoryIs DEF ParserInv, IsMemory
<1>3. IsMemory(Memory)' /\ Owns(stack', Memory')
  <2>1. objects' = m.objects /\ made' = m.made
    BY <1>1
  <2> HIDE DEF m
  <2> QED
    BY <1>1, <1>2, <2>1, MemoryBecomes, EmptyOwns
<1> QED
  BY <1>1, <1>3 DEF ParserInv, Typed

LEMMA ParserSteps == ParserInv /\ [ParseNext]_parseVars => ParserInv'
<1> SUFFICES ASSUME ParserInv, [ParseNext]_parseVars PROVE ParserInv'
  OBVIOUS
<1>1. CASE Shift
  BY <1>1, ShiftInv
<1>2. CASE \E r \in Rules : Reduce(r)
  BY <1>2, ReduceInv
<1>3. CASE EndOfQuery
  BY <1>3, EndOfQueryInv
<1>4. CASE ParseReturn
  BY <1>4, ParseReturnInv
<1>5. CASE UNCHANGED parseVars
  BY <1>5, MemoryStays DEF parseVars, ParserInv, Typed
<1> QED
  BY <1>1, <1>2, <1>3, <1>4, <1>5 DEF ParseNext

\* Whatever the queries, the patterns and the order of the grammar's reductions: each value
\* of the parser's stack has its object, which no other value shares, so that no action
\* uses or deletes an object that is gone (the deletes of sql.ypp, against expression.hpp).
THEOREM StackOwnsItsObjects == ParseSpec => []ValuesAreOwned
<1>1. ParserInv => ValuesAreOwned
  BY ParserInvOwns
<1> QED
  BY <1>1, ParserStarts, ParserSteps, PTL DEF ParseSpec

-----------------------------------------------------------------------------
(* The calls of functions in a query.                                      *)

\* The symbols whose text may end with a name, ...
Ended ==
    {"field", "command", "select_cmd", "delete_cmd", "update_cmd", "select_exps",
     "table_references", "where_cond", "group_cond", "having_cond", "order_cond", "limit_cond",
     "procedure_cond", "union_cond", "end_cond", "delete_table_list", "set_cond", "delete_table",
     "simple_table", "select_exp", "math_op", "alias", "table_reference", "table_factor",
     "join_table", "join_cond", "logical_exp_list", "math_exp", "alias_str",
     "groupby_column_list", "sort_order", "table_field", "orderby_column_list", "cast_fn",
     "fn_args", "logical_exp", "case_cases", "case_case"}

\* ... and those whose text a brace may begin, with the options, which may be empty.
Opening ==
    {"O_BRACE", "simple_table", "delete_table", "delete_table_list", "table_factor",
     "table_reference", "table_references", "join_table", "math_exp", "math_op", "select_exp",
     "select_exps", "fn_args", "logical_exp", "logical_exp_list", "select_options",
     "delete_option_list"}

\* The actions that look a function up.
CallActions == {"function_3", "function_4", "no_value"}

\* The symbol of a rule may be empty, ends and begins as its right-hand side does.
Closes(lhs, rhs) ==
    /\ lhs \notin {"STRING", "DOT", "O_BRACE"}
    /\ 1 \notin DOMAIN rhs => lhs \in Ended \cup Opening
    /\ \A i \in DOMAIN rhs :
         i + 1 \notin DOMAIN rhs /\ rhs[i] \in Ended \cup {"STRING"} => lhs \in Ended

Opens(lhs, rhs) ==
    rhs # <<>> => 1 \in DOMAIN rhs /\ (rhs[1] \in Opening => lhs \in Opening)

\* A name that a brace follows is that of a call.
Follows(rhs, action) ==
    \A i \in DOMAIN rhs : i + 1 \in DOMAIN rhs =>
         /\ rhs[i] \in Ended => rhs[i + 1] \notin Opening
         /\ rhs[i] = "STRING" => rhs[i + 1] \in {"DOT", "O_BRACE"}
         /\ rhs[i] = "STRING" /\ rhs[i + 1] = "O_BRACE" => i = 1 /\ action \in CallActions

\* The grammar: what a name ends, nothing that a brace begins follows, so a name and a
\* brace meet in the rules of fn and simple_fn only.
LEMMA CommandRulesClose == \A r \in CommandRules : Closes(r.lhs, r.rhs)
BY DEF CommandRules, Each, Rule, Closes, Ended, Opening

LEMMA CommandRulesOpen == \A r \in CommandRules : Opens(r.lhs, r.rhs)
BY DEF CommandRules, Each, Rule, Opens, Opening

LEMMA CommandRulesFollow == \A r \in CommandRules : Follows(r.rhs, r.action)
BY DEF CommandRules, Each, Rule, Follows, Ended, Opening, CallActions

LEMMA TableRulesClose == \A r \in TableRules : Closes(r.lhs, r.rhs)
BY DEF TableRules, Each, Rule, Closes, Ended, Opening

LEMMA TableRulesOpen == \A r \in TableRules : Opens(r.lhs, r.rhs)
BY DEF TableRules, Each, Rule, Opens, Opening

LEMMA TableRulesFollow == \A r \in TableRules : Follows(r.rhs, r.action)
BY DEF TableRules, Each, Rule, Follows, Ended, Opening, CallActions

LEMMA ClauseRulesClose == \A r \in ClauseRules : Closes(r.lhs, r.rhs)
BY DEF ClauseRules, Each, Rule, Closes, Ended, Opening

LEMMA ClauseRulesOpen == \A r \in ClauseRules : Opens(r.lhs, r.rhs)
BY DEF ClauseRules, Each, Rule, Opens, Opening

LEMMA ClauseRulesFollow == \A r \in ClauseRules : Follows(r.rhs, r.action)
BY DEF ClauseRules, Each, Rule, Follows, Ended, Opening, CallActions

LEMMA ExpressionRulesClose == \A r \in ExpressionRules : Closes(r.lhs, r.rhs)
BY DEF ExpressionRules, Each, Rule, Closes, Ended, Opening, MathOperators

LEMMA ExpressionRulesOpen == \A r \in ExpressionRules : Opens(r.lhs, r.rhs)
BY DEF ExpressionRules, Each, Rule, Opens, Opening, MathOperators

LEMMA ExpressionRulesFollow == \A r \in ExpressionRules : Follows(r.rhs, r.action)
BY DEF ExpressionRules, Each, Rule, Follows, Ended, Opening, CallActions, MathOperators

LEMMA FunctionRulesClose == \A r \in FunctionRules : Closes(r.lhs, r.rhs)
BY DEF FunctionRules, Each, Rule, Closes, Ended, Opening

LEMMA FunctionRulesOpen == \A r \in FunctionRules : Opens(r.lhs, r.rhs)
BY DEF FunctionRules, Each, Rule, Opens, Opening

LEMMA FunctionRulesFollow == \A r \in FunctionRules : Follows(r.rhs, r.action)
BY DEF FunctionRules, Each, Rule, Follows, Ended, Opening, CallActions

LEMMA ConditionRulesClose == \A r \in ConditionRules : Closes(r.lhs, r.rhs)
BY DEF ConditionRules, Each, Rule, Closes, Ended, Opening

LEMMA ConditionRulesOpen == \A r \in ConditionRules : Opens(r.lhs, r.rhs)
BY DEF ConditionRules, Each, Rule, Opens, Opening

LEMMA ConditionRulesFollow == \A r \in ConditionRules : Follows(r.rhs, r.action)
BY DEF ConditionRules, Each, Rule, Follows, Ended, Opening, CallActions

LEMMA CaseRulesClose == \A r \in CaseRules : Closes(r.lhs, r.rhs)
BY DEF CaseRules, Each, Rule, Closes, Ended, Opening

LEMMA CaseRulesOpen == \A r \in CaseRules : Opens(r.lhs, r.rhs)
BY DEF CaseRules, Each, Rule, Opens, Opening

LEMMA CaseRulesFollow == \A r \in CaseRules : Follows(r.rhs, r.action)
BY DEF CaseRules, Each, Rule, Follows, Ended, Opening, CallActions

LEMMA RulesAreOrderly ==
    \A r \in Rules : /\ Closes(r.lhs, r.rhs) /\ Opens(r.lhs, r.rhs) /\ Follows(r.rhs, r.action)
                     /\ Counted(r.rhs)
BY CommandRulesClose, TableRulesClose, ClauseRulesClose, ExpressionRulesClose,
   FunctionRulesClose, ConditionRulesClose, CaseRulesClose, CommandRulesOpen, TableRulesOpen,
   ClauseRulesOpen, ExpressionRulesOpen, FunctionRulesOpen, ConditionRulesOpen, CaseRulesOpen,
   CommandRulesFollow, TableRulesFollow, ClauseRulesFollow, ExpressionRulesFollow,
   FunctionRulesFollow, ConditionRulesFollow, CaseRulesFollow, RulesFit DEF Rules

LEMMA SymbolsAre ==
    \A r \in Rules : r.lhs \in Symbols /\ \A i \in DOMAIN r.rhs : r.rhs[i] \in Symbols
<1>1. \A r \in Rules : \A i \in DOMAIN r.rhs : r.rhs[i] \in Range(r.rhs)
  BY DEF Range
<1> QED
  BY <1>1, Zenon DEF Symbols

\* A set of symbols that holds what its texts begin with holds all that they begin with.
LEMMA BeginsStay ==
    ASSUME NEW C, \A r \in Rules : r.lhs \in C /\ r.rhs # <<>> => r.rhs[1] \in C
    PROVE  \A c \in Symbols \cap C : Begins[c] \subseteq Symbols \cap C
<1> DEFINE one == [s \in Symbols |->
                     {s} \cup {Head(r.rhs) : r \in {q \in Rules : q.lhs = s /\ q.rhs # <<>>}}]
           Twice(begins) == [s \in Symbols |-> UNION {begins[t] : t \in begins[s]}]
           Stays(f) == \A c \in Symbols \cap C : f[c] \subseteq Symbols \cap C
<1>1. Stays(one)
  <2>1. ASSUME NEW c \in Symbols \cap C, NEW r \in Rules, r.lhs = c, r.rhs # <<>>
        PROVE  Head(r.rhs) \in Symbols \cap C
    <3>1. Head(r.rhs) = r.rhs[1]
      OBVIOUS
    <3>2. 1 \in DOMAIN r.rhs
      BY <2>1, RulesAreOrderly DEF Opens
    <3> QED
      BY <2>1, <3>1, <3>2, SymbolsAre
  <2>2. \A c \in Symbols \cap C : one[c] \subseteq Symbols \cap C
    <3> HIDE DEF Symbols
    <3> QED
      BY <2>1
  <2> HIDE DEF one
  <2> QED
    BY <2>2
<1>2. ASSUME NEW f, Stays(f) PROVE Stays(Twice(f))
  BY <1>2
<1>3. Begins = Twice(Twice(Twice(one)))
  BY Zenon DEF Begins
<1> HIDE DEF one, Twice
<1>4. Stays(Twice(Twice(Twice(one))))
  <2> HIDE DEF Stays
  <2> QED
    BY <1>1, <1>2
<1> QED
  BY <1>3, <1>4

\* What stands on a symbol follows it in a rule.
LEMMA AboveIs ==
    ASSUME NEW s \in Symbols, NEW x \in Above[s]
    PROVE  \E r \in Rules : \E i \in DOMAIN r.rhs :
             i + 1 \in DOMAIN r.rhs /\ r.rhs[i] = s /\ x \in Begins[r.rhs[i + 1]]
<1>1. Above[s] = UNION {UNION {Begins[r.rhs[i + 1]] :
                                 i \in {j \in 1..(Len(r.rhs) - 1) : r.rhs[j] = s}} : r \in Rules}
  BY Zenon DEF Above
<1>2. PICK r \in Rules : \E i \in {j \in 1..(Len(r.rhs) - 1) : r.rhs[j] = s} :
                           x \in Begins[r.rhs[i + 1]]
  BY <1>1
<1>3. PICK i \in 1..(Len(r.rhs) - 1) : r.rhs[i] = s /\ x \in Begins[r.rhs[i + 1]]
  BY <1>2
<1>4. i \in DOMAIN r.rhs /\ i + 1 \in DOMAIN r.rhs
  <2>1. Counted(r.rhs)
    BY RulesAreOrderly
  <2> QED
    BY <2>1 DEF Counted
<1> QED
  BY <1>3, <1>4

LEMMA CommandIsSymbol == "command" \in Symbols
<1>1. Rule("command", <<>>, "none") \in Rules
  BY DEF Rules, CommandRules, Each
<1>2. Rule("command", <<>>, "none").lhs = "command"
  BY DEF Rule
<1> QED
  BY <1>1, <1>2, SymbolsAre

LEMMA AboveSymbols == \A s \in Symbols : Above[s] \subseteq Symbols
<1> SUFFICES ASSUME NEW s \in Symbols, NEW x \in Above[s] PROVE x \in Symbols
  OBVIOUS
<1>1. PICK r \in Rules : \E i \in DOMAIN r.rhs :
        i + 1 \in DOMAIN r.rhs /\ r.rhs[i] = s /\ x \in Begins[r.rhs[i + 1]]
  BY AboveIs
<1> PICK i \in DOMAIN r.rhs : i + 1 \in DOMAIN r.rhs /\ r.rhs[i] = s /\ x \in Begins[r.rhs[i + 1]]
  BY <1>1
<1>2. r.rhs[i + 1] \in Symbols /\ \A q \in Rules : q.rhs # <<>> => q.rhs[1] \in Symbols
  BY SymbolsAre, RulesAreOrderly DEF Opens
<1>3. Begins[r.rhs[i + 1]] \subseteq Symbols
  BY <1>2, BeginsStay
<1> QED
  BY <1>3

\* Nothing that a brace begins stands on a symbol that a name may end; only a point or a
\* brace stands on a name.
LEMMA AboveEnded ==
    ASSUME NEW s \in Symbols, NEW x \in Above[s]
    PROVE  /\ s \in Ended => x \notin Opening
           /\ s = "STRING" => x \in {"DOT", "O_BRACE"}
<1>1. PICK r \in Rules : \E i \in DOMAIN r.rhs :
        i + 1 \in DOMAIN r.rhs /\ r.rhs[i] = s /\ x \in Begins[r.rhs[i + 1]]
  BY AboveIs
<1> PICK i \in DOMAIN r.rhs : i + 1 \in DOMAIN r.rhs /\ r.rhs[i] = s /\ x \in Begins[r.rhs[i + 1]]
  BY <1>1
<1>2. r.rhs[i + 1] \in Symbols
  BY SymbolsAre
<1>3. CASE s \in Ended
  <2> DEFINE C == Symbols \ Opening
  <2>1. r.rhs[i + 1] \in C
    BY <1>2, <1>3, RulesAreOrderly DEF Follows
  <2>2. \A q \in Rules : q.lhs \in C /\ q.rhs # <<>> => q.rhs[1] \in C
    BY RulesAreOrderly, SymbolsAre DEF Opens
  <2> HIDE DEF C
  <2>3. Begins[r.rhs[i + 1]] \subseteq C
    BY <1>2, <2>1, <2>2, BeginsStay
  <2>4. x \notin Opening
    BY <2>3 DEF C
  <2> QED
    BY <1>3, <2>4 DEF Ended
<1>4. CASE s = "STRING"
  <2> DEFINE C == {"DOT", "O_BRACE"}
  <2>1. r.rhs[i + 1] \in C
    BY <1>4, RulesAreOrderly DEF Follows
  <2>2. \A q \in Rules : q.lhs \notin C
    BY RulesAreOrderly DEF Closes
  <2> HIDE DEF C
  <2>3. Begins[r.rhs[i + 1]] \subseteq C
    BY <1>2, <2>1, <2>2, BeginsStay
  <2>4. x \in C
    BY <2>3
  <2> QED
    BY <1>4, <2>4 DEF C, Ended
<1> QED
  BY <1>3, <1>4

\* What the parser puts on its stack is a symbol of the grammar.
LEMMA FittingSymbol ==
    ASSUME NEW s, IsSequence(s), \A i \in DOMAIN s : s[i].symbol \in Symbols, NEW x, Fits(s, x)
    PROVE  /\ x \in Symbols
           /\ s # <<>> => Len(s) \in DOMAIN s /\ x \in Above[s[Len(s)].symbol]
<1>1. CASE s = <<>>
  <2>1. x \in Begins["command"]
    BY <1>1 DEF Fits
  <2>2. \A q \in Rules : q.rhs # <<>> => q.rhs[1] \in Symbols
    BY SymbolsAre, RulesAreOrderly DEF Opens
  <2>3. Begins["command"] \subseteq Symbols
    BY <2>2, CommandIsSymbol, BeginsStay
  <2> QED
    BY <1>1, <2>1, <2>3
<1>2. CASE s # <<>>
  <2>1. Len(s) \in DOMAIN s /\ Last(s) = s[Len(s)]
    BY <1>2 DEF IsSequence, Last
  <2>2. x \in Above[s[Len(s)].symbol]
    BY <1>2, <2>1 DEF Fits
  <2> QED
    BY <1>2, <2>1, <2>2, AboveSymbols
<1> QED
  BY <1>1, <1>2

-----------------------------------------------------------------------------
(* What an action leaves as it was.                                        *)

MemoryFields == {"objects", "made", "risk", "value"}

\* A memory becomes another: no risk is forgotten, and only some objects may change.
Spares(m, n, used) ==
    /\ DOMAIN n = MemoryFields
    /\ m.risk \subseteq n.risk
    /\ \A o \in DOMAIN m.objects \ used : o \in DOMAIN n.objects /\ n.objects[o] = m.objects[o]

LEMMA SparesAgain ==
    ASSUME NEW m, NEW k, NEW n, NEW used, Spares(m, k, used), Spares(k, n, used)
    PROVE  Spares(m, n, used)
BY DEF Spares

LEMMA SparesItself ==
    ASSUME NEW m, DOMAIN m = MemoryFields, NEW used PROVE Spares(m, m, used)
BY DEF Spares

LEMMA NewSpares ==
    ASSUME NEW m, IsMemory(m), NEW object, NEW used PROVE Spares(m, New(m, object), used)
BY DEF New, Spares, IsMemory, MemoryFields

LEMMA NewExpressionSpares ==
    ASSUME NEW m, IsMemory(m), NEW used PROVE Spares(m, NewExpression(m), used)
BY NewSpares DEF NewExpression

LEMMA NewStringSpares ==
    ASSUME NEW m, IsMemory(m), NEW s, NEW used PROVE Spares(m, NewString(m, s), used)
BY NewSpares DEF NewString

LEMMA DeleteSpares ==
    ASSUME NEW m, DOMAIN m = MemoryFields, NEW used, NEW o \in used
    PROVE  Spares(m, Delete(m, o), used)
BY DEF Delete, Spares, MemoryFields

LEMMA ValueSpares ==
    ASSUME NEW m, DOMAIN m = MemoryFields, NEW used, NEW x
    PROVE  Spares(m, [m EXCEPT !.value = x], used)
BY DEF Spares, MemoryFields

LEMMA ContentsSpare ==
    ASSUME NEW m, DOMAIN m = MemoryFields, NEW used, NEW e \in used, NEW object
    PROVE  Spares(m, [m EXCEPT !.objects[e] = object], used)
BY DEF Spares, MemoryFields

LEMMA AddIntegerSpares ==
    ASSUME NEW m, DOMAIN m = MemoryFields, NEW used, NEW e \in used
    PROVE  Spares(m, AddInteger(m, e), used)
BY DEF AddInteger, Spares, MemoryFields

LEMMA AddStringSpares ==
    ASSUME NEW m, DOMAIN m = MemoryFields, NEW used, NEW e \in used, NEW length
    PROVE  Spares(m, AddString(m, e, length), used)
<1> DEFINE x == m.objects[e]
           z == [x EXCEPT !.has_const = TRUE,
                          !.const_type = IF @ = "Undef" THEN "String" ELSE @,
                          !.str_length = CASE x.const_type = "Undef" -> length
                                           [] x.const_type = "String" -> @ + length
                                           [] OTHER -> @]
<1>1. AddString(m, e, length) = [m EXCEPT !.objects[e] = z]
  BY DEF AddString
<1> HIDE DEF z
<1> QED
  BY <1>1, ContentsSpare

LEMMA AddFieldSpares ==
    ASSUME NEW m, DOMAIN m = MemoryFields, NEW used, NEW e \in used, NEW s \in used
    PROVE  Spares(m, AddField(m, e, s), used)
<1> DEFINE k == [m EXCEPT !.objects[e].fields = @ \cup {m.objects[s].str_value}]
<1>1. Spares(m, k, used) /\ DOMAIN k = MemoryFields
  BY DEF Spares, MemoryFields
<1>2. AddField(m, e, s) = Delete(k, s)
  BY DEF AddField
<1> HIDE DEF k
<1> QED
  BY <1>1, <1>2, DeleteSpares, SparesAgain

LEMMA AddSpares ==
    ASSUME NEW m, DOMAIN m = MemoryFields, NEW used, NEW e \in used, NEW f \in used
    PROVE  Spares(m, Add(m, e, f), used)
<1> DEFINE x == m.objects[e]
           y == m.objects[f]
           z == [x EXCEPT !.fields = @ \cup y.fields,
                          !.has_const = @ \/ y.has_const,
                          !.str_length = IF y.const_type = "String" /\ y.str_length > @
                                           THEN y.str_length ELSE @]
           k == [m EXCEPT !.value = e, !.objects[e] = z]
<1>1. Add(m, e, f) = Delete(k, f)
  BY DEF Add
<1> HIDE DEF z
<1>2. Spares(m, k, used) /\ DOMAIN k = MemoryFields
  BY DEF Spares, MemoryFields
<1> HIDE DEF k
<1> QED
  BY <1>1, <1>2, DeleteSpares, SparesAgain

\* The callbacks and comparisons change no object.
LEMMA FoundSpares ==
    ASSUME NEW m, DOMAIN m = MemoryFields, NEW c, NEW what, NEW used
    PROVE  Spares(m, Found(m, what), used) /\ Spares(m, FoundIf(m, c, what), used)
BY DEF Found, FoundIf, Spares, MemoryFields

LEMMA CompareSpares ==
    ASSUME NEW m, DOMAIN m = MemoryFields, NEW e, NEW f, NEW used
    PROVE  Spares(m, cmp_fn(m, e, f), used)
BY FoundSpares DEF cmp_fn

LEMMA CallbacksSpare ==
    ASSUME NEW m, DOMAIN m = MemoryFields, NEW s, NEW used
    PROVE  /\ Spares(m, clb_found_table(m, s), used)
           /\ Spares(m, clb_check_bruteforce_function(m, s), used)
BY FoundSpares, Zenon DEF clb_found_table, clb_check_bruteforce_function

\* Whatever the rule, its action leaves the objects of others as they are, and forgets no risk.
LEMMA ActSpares ==
    ASSUME NEW m, IsMemory(m), NEW v, NEW lhs, NEW rhs, Held(m, v, rhs), NEW action,
           Fitting(lhs, rhs, action)
    PROVE  Spares(m, Act(action, v, m), {v[p] : p \in DOMAIN v} \cup {m.made + 1})
<1> DEFINE n == Act(action, v, m)
           used == {v[p] : p \in DOMAIN v} \cup {m.made + 1}
           x == m.made + 1
           new == NewExpression(m)
<1> SUFFICES Spares(m, n, used)
  OBVIOUS
<1>1. DOMAIN m = MemoryFields
  BY DEF IsMemory, MemoryFields
<1>2. \A p \in DOMAIN rhs : v[p] \in used
  BY DEF Held
<1>3. x \in used /\ Spares(m, new, used) /\ DOMAIN new = MemoryFields
  BY NewExpressionSpares DEF Spares
<1> HIDE DEF used, new, x
<1>4. CASE action = "none"
  <2>1. n = m
    BY <1>4 DEF Act
  <2> HIDE DEF n
  <2> QED
    BY <1>1, <2>1, SparesItself
<1>5. CASE action = "1"
  <2>1. n = [m EXCEPT !.value = v[1]]
    BY <1>5 DEF Act
  <2> HIDE DEF n
  <2> QED
    BY <1>1, <2>1, ValueSpares
<1>6. CASE action = "2"
  <2>1. n = [m EXCEPT !.value = v[2]]
    BY <1>6 DEF Act
  <2> HIDE DEF n
  <2> QED
    BY <1>1, <2>1, ValueSpares
<1>7. CASE action = "3"
  <2>1. n = [m EXCEPT !.value = v[3]]
    BY <1>7 DEF Act
  <2> HIDE DEF n
  <2> QED
    BY <1>1, <2>1, ValueSpares
<1>8. CASE action = "add_2"
  <2>1. n = Add(m, v[1], v[2])
    BY <1>8 DEF Act
  <2>2. v[1] \in used /\ v[2] \in used
    BY <1>2, <1>8 DEF Fitting, AddsTo, HasExpression
  <2> HIDE DEF n
  <2> QED
    BY <1>1, <2>1, <2>2, AddSpares
<1>9. CASE action = "add_3"
  <2>1. n = Add(m, v[1], v[3])
    BY <1>9 DEF Act
  <2>2. v[1] \in used /\ v[3] \in used
    BY <1>2, <1>9 DEF Fitting, AddsTo, HasExpression
  <2> HIDE DEF n
  <2> QED
    BY <1>1, <2>1, <2>2, AddSpares
<1>10. CASE action = "add_4"
  <2>1. n = Add(m, v[1], v[4])
    BY <1>10 DEF Act
  <2>2. v[1] \in used /\ v[4] \in used
    BY <1>2, <1>10 DEF Fitting, AddsTo, HasExpression
  <2> HIDE DEF n
  <2> QED
    BY <1>1, <2>1, <2>2, AddSpares
<1>11. CASE action = "case_else"
  <2>1. n = Add(m, v[2], v[4])
    BY <1>11 DEF Act
  <2>2. v[2] \in used /\ v[4] \in used
    BY <1>2, <1>11 DEF Fitting, AddsTo, HasExpression
  <2> HIDE DEF n
  <2> QED
    BY <1>1, <2>1, <2>2, AddSpares
<1>12. CASE action = "new"
  <2>1. n = new
    BY <1>12 DEF Act, new
  <2> QED
    BY <1>3, <2>1
<1>13. CASE action = "table_1"
  <2> DEFINE k == clb_found_table(new, v[1])
  <2>1. n = AddField(k, x, v[1])
    BY <1>13 DEF Act, new, x
  <2>2. Spares(new, k, used) /\ DOMAIN k = MemoryFields
    BY <1>3, CallbacksSpare DEF Spares
  <2> HIDE DEF n, k
  <2>3. v[1] \in used
    BY <1>2, <1>13 DEF Fitting, HasString, HasExpression, AddsTo
  <2>4. Spares(k, n, used)
    BY <1>3, <2>1, <2>2, <2>3, AddFieldSpares
  <2> QED
    BY <1>3, <2>2, <2>4, SparesAgain
<1>14. CASE action = "table_3"
  <2> DEFINE k == clb_found_table(new, v[3])
  <2>1. n = AddField(k, x, v[3])
    BY <1>14 DEF Act, new, x
  <2>2. Spares(new, k, used) /\ DOMAIN k = MemoryFields
    BY <1>3, CallbacksSpare DEF Spares
  <2> HIDE DEF n, k
  <2>3. v[3] \in used
    BY <1>2, <1>14 DEF Fitting, HasString, HasExpression, AddsTo
  <2>4. Spares(k, n, used)
    BY <1>3, <2>1, <2>2, <2>3, AddFieldSpares
  <2> QED
    BY <1>3, <2>2, <2>4, SparesAgain
<1>15. CASE action = "field"
  <2>1. n = IF clb_check_true_constant(m, v[1]) THEN AddString(new, x, 4)
            ELSE AddField(new, x, v[1])
    BY <1>15 DEF Act, new, x
  <2>2. v[1] \in used
    BY <1>2, <1>15 DEF Fitting, HasString
  <2> HIDE DEF n
  <2>3. Spares(new, n, used)
    BY <1>3, <2>1, <2>2, AddStringSpares, AddFieldSpares
  <2> QED
    BY <1>3, <2>3, SparesAgain
<1>16. CASE action = "integer"
  <2>1. n = AddInteger(new, x)
    BY <1>16 DEF Act, new, x
  <2> HIDE DEF n
  <2>2. Spares(new, n, used)
    BY <1>3, <2>1, AddIntegerSpares
  <2> QED
    BY <1>3, <2>2, SparesAgain
<1>17. CASE action = "string"
  <2> DEFINE k == AddString(new, x, Len(NameOf(m, v[1])))
  <2>1. n = Delete(k, v[1])
    BY <1>17 DEF Act, new, x
  <2>2. Spares(new, k, used) /\ DOMAIN k = MemoryFields
    BY <1>3, AddStringSpares DEF Spares
  <2> HIDE DEF n, k
  <2>3. v[1] \in used
    BY <1>2, <1>17 DEF Fitting, HasString, HasExpression, AddsTo
  <2>4. Spares(k, n, used)
    BY <1>3, <2>1, <2>2, <2>3, DeleteSpares
  <2> QED
    BY <1>3, <2>2, <2>4, SparesAgain
<1>18. CASE action = "no_args"
  <2>1. n = AddString(new, x, 4)
    BY <1>18 DEF Act, new, x
  <2> HIDE DEF n
  <2>2. Spares(new, n, used)
    BY <1>3, <2>1, AddStringSpares
  <2> QED
    BY <1>3, <2>2, SparesAgain
<1>19. CASE action \in {"function_3", "function_4", "no_value"}
  <2> DEFINE k == clb_check_bruteforce_function(m, v[1])
  <2>1. n = [k EXCEPT !.value = Value(action, v)]
    BY <1>19 DEF Act, new, x
  <2>2. Spares(m, k, used) /\ DOMAIN k = MemoryFields
    BY <1>1, CallbacksSpare DEF Spares
  <2> HIDE DEF n, k
  <2>4. Spares(k, n, used)
    BY <1>3, <2>1, <2>2, ValueSpares
  <2> QED
    BY <1>3, <2>2, <2>4, SparesAgain
<1>20. CASE action = "true"
  <2>1. n = FoundIf(m, IsTrue(m.objects[v[1]]), "tautology")
    BY <1>20 DEF Act
  <2> HIDE DEF n
  <2> QED
    BY <1>1, <2>1, FoundSpares
<1>21. CASE action = "tautology"
  <2>1. n = Found(m, "tautology")
    BY <1>21 DEF Act
  <2> HIDE DEF n
  <2> QED
    BY <1>1, <2>1, FoundSpares
<1>22. CASE action = "compare_3"
  <2>1. n = cmp_fn(m, v[1], v[3])
    BY <1>22 DEF Act
  <2> HIDE DEF n
  <2> QED
    BY <1>1, <2>1, CompareSpares
<1>23. CASE action = "compare_4"
  <2>1. n = cmp_fn(m, v[1], v[4])
    BY <1>23 DEF Act
  <2> HIDE DEF n
  <2> QED
    BY <1>1, <2>1, CompareSpares
<1>24. CASE action = "compare_5"
  <2>1. n = cmp_fn(m, v[1], v[5])
    BY <1>24 DEF Act
  <2> HIDE DEF n
  <2> QED
    BY <1>1, <2>1, CompareSpares
<1>25. CASE action = "compare_3_5"
  <2> DEFINE k == cmp_fn(m, v[1], v[3])
  <2>1. n = cmp_fn(k, v[1], v[5])
    BY <1>25 DEF Act, new, x
  <2>2. Spares(m, k, used) /\ DOMAIN k = MemoryFields
    BY <1>1, CompareSpares DEF Spares
  <2> HIDE DEF n, k
  <2>4. Spares(k, n, used)
    BY <1>3, <2>1, <2>2, CompareSpares
  <2> QED
    BY <1>3, <2>2, <2>4, SparesAgain
<1>26. CASE action = "case_of"
  <2> DEFINE k == cmp_fn(m, v[2], v[3])
  <2>1. n = [k EXCEPT !.value = v[2]]
    BY <1>26 DEF Act, new, x
  <2>2. Spares(m, k, used) /\ DOMAIN k = MemoryFields
    BY <1>1, CompareSpares DEF Spares
  <2> HIDE DEF n, k
  <2>4. Spares(k, n, used)
    BY <1>3, <2>1, <2>2, ValueSpares
  <2> QED
    BY <1>3, <2>2, <2>4, SparesAgain
<1>27. CASE action = "case_of_else"
  <2> DEFINE j == cmp_fn(m, v[2], v[3])
             k == cmp_fn(j, v[2], v[5])
  <2>1. n = Add(k, v[2], v[5])
    BY <1>27 DEF Act
  <2>2. v[2] \in used /\ v[5] \in used
    BY <1>2, <1>27 DEF Fitting, AddsTo, HasExpression
  <2>3. Spares(m, j, used) /\ DOMAIN j = MemoryFields
    BY <1>1, CompareSpares DEF Spares
  <2> HIDE DEF n, j
  <2>4. Spares(j, k, used)
    BY <2>3, CompareSpares
  <2> HIDE DEF k
  <2>7. DOMAIN k = MemoryFields
    BY <2>4 DEF Spares
  <2>5. Spares(k, n, used)
    BY <2>1, <2>2, <2>7, AddSpares
  <2>6. Spares(m, k, used)
    BY <2>3, <2>4, SparesAgain
  <2> QED
    BY <2>5, <2>6, SparesAgain
<1> QED
  BY <1>4, <1>5, <1>6, <1>7, <1>8, <1>9, <1>10, <1>11, <1>12, <1>13, <1>14, <1>15, <1>16, <1>17,
     <1>18, <1>19, <1>20, <1>21, <1>22, <1>23, <1>24, <1>25, <1>26, <1>27 DEF Fitting

-----------------------------------------------------------------------------
(* What becomes of a call of a listed function.                            *)

Called == "bruteforce functions"

\* A name that is listed, in a section that compiles, matches.
LEMMA ListedMatches ==
    ASSUME NEW name \in Seq(STRING), Listed(Called, name)
    PROVE  Match(PatternFile, Called, name)
<1> DEFINE list == Load(PatternFile).list
           lines == Range(list[Called])
<1>1. (\E l \in lines : l.name = name) /\ \A l \in lines : l.compiles
  BY Zenon DEF Listed
<1>2. Called \in Sections
  BY Zenon DEF Called, Sections
<1> HIDE DEF Called
<1>3. \A i \in DOMAIN list[Called] : list[Called][i] \in lines
  BY DEF Range
<1>4. \E i \in DOMAIN list[Called] : list[Called][i].name = name
  BY <1>1 DEF Range
<1>5. list[Called] # <<>>
  <2>1. DOMAIN <<>> = {}
    OBVIOUS
  <2> HIDE DEF list
  <2> QED
    BY <1>4, <2>1
<1>6. Called \in CompilePatterns(list)
  BY <1>1, <1>2, <1>3, <1>5, Zenon DEF CompilePatterns
<1>7. Covers(Called, name, name)
  <2>1. \E i, j \in 0..Len(name) : SubSeq(name, i + 1, j) = name /\ i = 0 /\ j = Len(name)
    <3>1. 0 \in 0..Len(name) /\ Len(name) \in 0..Len(name) /\ SubSeq(name, 0 + 1, Len(name)) = name
      OBVIOUS
    <3> QED
      BY <3>1
  <2> QED
    BY <2>1, Zenon DEF Covers
<1>8. \E i \in DOMAIN list[Called] : Covers(Called, list[Called][i].name, name)
  BY <1>4, <1>7, Zenon
<1> HIDE DEF list
<1> QED
  BY <1>6, <1>8, Zenon DEF Match, list

\* A call of a listed function is found.
LEMMA CallReports ==
    ASSUME NEW m, IsMemory(m), NEW v, NEW action \in CallActions,
           NameOf(m, v[1]) \in Seq(STRING), Listed(Called, NameOf(m, v[1]))
    PROVE  "bruteforce" \in Act(action, v, m).risk
<1> DEFINE k == clb_check_bruteforce_function(m, v[1])
<1>1. Match(PatternFile, Called, NameOf(m, v[1]))
  BY ListedMatches
<1>2. k = FoundIf(m, TRUE, "bruteforce")
  <2>1. Match(PatternFile, Called, NameOf(m, v[1])) = TRUE
    BY <1>1, Zenon DEF Match
  <2> QED
    BY <2>1, Zenon DEF clb_check_bruteforce_function, Called
<1>3. "bruteforce" \in k.risk /\ DOMAIN k = MemoryFields
  BY <1>2 DEF FoundIf, Found, IsMemory, MemoryFields
<1>4. Act(action, v, m) = [k EXCEPT !.value = Value(action, v)]
  BY DEF Act, CallActions
<1> HIDE DEF k
<1> QED
  BY <1>3, <1>4 DEF MemoryFields

\* A token is the name of a function that is listed, and of which the next one makes a call.
IsCall(tokens, i) ==
    /\ tokens[i].kind = "STRING" /\ tokens[i + 1].kind = "O_BRACE"
    /\ Listed(Called, tokens[i].text)

\* A name is on the stack.
Holds(s, m, j, name) ==
    /\ s[j].symbol = "STRING" /\ s[j].value \in DOMAIN m.objects
    /\ m.objects[s[j].value].str_value = name

\* A call of which the name was read last: the brace comes next, and what is on the stack
\* is the name, which alone a brace may follow, or ends with it, and none may.
IsNamed(s, m, name) ==
    Len(s) \in DOMAIN s /\ (Holds(s, m, Len(s), name) \/ s[Len(s)].symbol \in Ended)

\* A call of which more was read: its name and its brace are on the stack, next to each other.
IsOpen(s, m, name) ==
    \E j \in DOMAIN s :
        j + 1 \in DOMAIN s /\ Holds(s, m, j, name) /\ s[j + 1].symbol = "O_BRACE"

\* Of a query's tokens n are read: the calls among them were found, or are on the stack.
Tracked(s, m, n, tokens) ==
    \A i \in 1..(Len(tokens) - 1) :
        i <= n /\ IsCall(tokens, i) =>
            \/ "bruteforce" \in m.risk
            \/ i = n /\ IsNamed(s, m, tokens[i].text)
            \/ i < n /\ IsOpen(s, m, tokens[i].text)

\* On the stack are symbols of the grammar.
OnSymbols(s) == IsSequence(s) /\ \A i \in DOMAIN s : s[i].symbol \in Symbols

\* What is kept of a stack and of a memory keeps a name.
LEMMA HoldsStill ==
    ASSUME NEW s, NEW m, NEW j, NEW name, Holds(s, m, j, name), NEW t, t[j] = s[j],
           NEW k, NEW used, Spares(m, k, used), s[j].value \notin used
    PROVE  Holds(t, k, j, name)
BY DEF Holds, Spares

\* A token is read and pushed onto the stack.
LEMMA TokenTracked ==
    ASSUME NEW s, OnSymbols(s), NEW m, NEW n \in Nat, NEW tokens, Tracked(s, m, n, tokens),
           NEW x, x = tokens[n + 1], Fits(s, x.kind), NEW k, Spares(m, k, {}), NEW y,
           x.kind = "STRING" => y \in DOMAIN k.objects /\ k.objects[y].str_value = x.text
    PROVE  LET t == Append(s, Item(x.kind, y)) IN Tracked(t, k, n + 1, tokens) /\ OnSymbols(t)
<1> DEFINE t == Append(s, Item(x.kind, y))
           l == Len(s)
<1> SUFFICES Tracked(t, k, n + 1, tokens) /\ OnSymbols(t)
  OBVIOUS
<1>1. /\ IsSequence(t) /\ DOMAIN t = 1..(l + 1) /\ Len(t) = l + 1
      /\ DOMAIN s = 1..l /\ l \in Nat
      /\ t[l + 1] = Item(x.kind, y) /\ \A i \in 1..l : t[i] = s[i]
  <2> PICK S : s \in Seq(S)
    BY DEF OnSymbols, IsSequence
  <2>1. l \in 0..Len(s) /\ SubSeq(s, 1, l) = s /\ DOMAIN s = 1..l /\ l \in Nat
    OBVIOUS
  <2>2. /\ IsSequence(t) /\ DOMAIN t = 1..(l + 1)
        /\ t[l + 1] = Item(x.kind, y) /\ \A i \in 1..l : t[i] = s[i]
    <3> DEFINE z == Item(x.kind, y)
    <3> HIDE DEF z
    <3>1. LET u == Append(SubSeq(s, 1, l), z)
          IN  /\ IsSequence(u) /\ DOMAIN u = 1..(l + 1)
              /\ u[l + 1] = z /\ \A i \in 1..l : u[i] = s[i]
      BY <2>1, Replaced DEF OnSymbols
    <3> QED
      BY <2>1, <3>1 DEF z
  <2>3. Len(t) = l + 1
    <3> HIDE DEF t, l
    <3> QED
      BY <2>1, <2>2 DEF IsSequence
  <2> QED
    BY <2>1, <2>2, <2>3
<1>2. Item(x.kind, y).symbol = x.kind /\ Item(x.kind, y).value = y
  BY DEF Item
<1>3. x.kind \in Symbols /\ (s # <<>> => Len(s) \in DOMAIN s /\ x.kind \in Above[s[Len(s)].symbol])
  BY FittingSymbol DEF OnSymbols
<1>4. OnSymbols(t)
  <2> HIDE DEF t
  <2> QED
    BY <1>1, <1>2, <1>3 DEF OnSymbols
<1> HIDE DEF t
<1>5. ASSUME NEW j \in DOMAIN s, NEW name, Holds(s, m, j, name) PROVE Holds(t, k, j, name)
  BY <1>1, <1>5, HoldsStill
<1>6. ASSUME NEW name, IsOpen(s, m, name) PROVE IsOpen(t, k, name)
  <2>1. PICK j \in DOMAIN s :
          j + 1 \in DOMAIN s /\ Holds(s, m, j, name) /\ s[j + 1].symbol = "O_BRACE"
    BY <1>6 DEF IsOpen
  <2>2. j \in DOMAIN t /\ j + 1 \in DOMAIN t /\ t[j + 1] = s[j + 1]
    BY <1>1, <2>1
  <2> QED
    BY <1>5, <2>1, <2>2 DEF IsOpen
\* The brace of a call.
<1>7. ASSUME NEW name, IsNamed(s, m, name), x.kind = "O_BRACE" PROVE IsOpen(t, k, name)
  <2>1. s # <<>> /\ l \in 1..l /\ l + 1 \in DOMAIN t
    <3>1. l \in 1..l
      BY <1>1, <1>7 DEF IsNamed
    <3>2. s # <<>>
      BY <3>1
    <3> QED
      BY <1>1, <3>1, <3>2
  <2>2. s[l].symbol \notin Ended
    <3>1. s[l].symbol \in Symbols /\ x.kind \in Above[s[l].symbol]
      BY <1>1, <1>3, <2>1 DEF OnSymbols
    <3>2. "O_BRACE" \in Opening
      BY DEF Opening
    <3> QED
      BY <1>7, <3>1, <3>2, AboveEnded
  <2>3. Holds(t, k, l, name)
    BY <1>1, <1>5, <1>7, <2>1, <2>2 DEF IsNamed
  <2> QED
    BY <1>1, <1>2, <1>7, <2>1, <2>3 DEF IsOpen
\* The name of a call.
<1>8. x.kind = "STRING" => IsNamed(t, k, x.text)
  <2>1. Len(t) \in DOMAIN t
    BY <1>1
  <2> QED
    BY <1>1, <1>2, <2>1 DEF IsNamed, Holds
<1>9. ASSUME NEW i \in 1..(Len(tokens) - 1), i <= n + 1, IsCall(tokens, i)
      PROVE  \/ "bruteforce" \in k.risk
             \/ i = n + 1 /\ IsNamed(t, k, tokens[i].text)
             \/ i < n + 1 /\ IsOpen(t, k, tokens[i].text)
  <2>1. CASE i = n + 1
    BY <1>8, <1>9, <2>1 DEF IsCall
  <2>2. CASE i = n
    <3>1. x.kind = "O_BRACE"
      BY <1>9, <2>2 DEF IsCall
    <3>2. "bruteforce" \in m.risk \/ IsNamed(s, m, tokens[i].text)
      BY <1>9, <2>2 DEF Tracked
    <3> QED
      BY <1>7, <2>2, <3>1, <3>2 DEF Spares
  <2>3. CASE i < n
    <3>1. "bruteforce" \in m.risk \/ IsOpen(s, m, tokens[i].text)
      BY <1>9, <2>3 DEF Tracked
    <3> QED
      BY <1>6, <2>3, <3>1 DEF Spares
  <2> QED
    BY <1>9, <2>1, <2>2, <2>3
<1>10. Tracked(t, k, n + 1, tokens)
  BY <1>9 DEF Tracked
<1> QED
  BY <1>4, <1>10 DEF t

\* A right-hand side on the stack becomes its symbol.
LEMMA ReductionTracked ==
    ASSUME NEW s, OnSymbols(s), NEW m, IsMemory(m), Owns(s, m),
           NEW n \in Nat, NEW tokens, Tracked(s, m, n, tokens),
           \A i \in 1..(Len(tokens) - 1) : tokens[i].text \in Seq(STRING),
           NEW r \in Rules, NEW k \in 0..Len(s), Fits(SubSeq(s, 1, k), r.lhs), NEW v,
           DOMAIN v = 1..(Len(s) - k), DOMAIN v = DOMAIN r.rhs, Held(m, v, r.rhs),
           \A p \in DOMAIN v : v[p] = s[k + p].value /\ s[k + p].symbol = r.rhs[p]
    PROVE  LET act == Act(r.action, v, m)
               t   == Append(SubSeq(s, 1, k), Item(r.lhs, act.value))
           IN  Tracked(t, act, n, tokens) /\ OnSymbols(t)
<1> DEFINE act == Act(r.action, v, m)
           z == Item(r.lhs, act.value)
           t == Append(SubSeq(s, 1, k), z)
           below == SubSeq(s, 1, k)
           used == {v[p] : p \in DOMAIN v} \cup {m.made + 1}
<1>1. Spares(m, act, used) /\ Closes(r.lhs, r.rhs) /\ Follows(r.rhs, r.action)
  BY RulesFit, RulesAreOrderly, ActSpares
<1>2. z.symbol = r.lhs
  BY DEF Item
<1> HIDE DEF z
<1>3. /\ IsSequence(t) /\ DOMAIN t = 1..(k + 1) /\ Len(t) = k + 1
      /\ DOMAIN s = 1..Len(s) /\ Len(s) \in Nat /\ k \in Nat
      /\ t[k + 1] = z /\ \A i \in 1..k : t[i] = s[i]
  <2>1. /\ IsSequence(t) /\ DOMAIN t = 1..(k + 1)
        /\ t[k + 1] = z /\ \A i \in 1..k : t[i] = s[i]
    BY Replaced DEF OnSymbols
  <2>2. DOMAIN s = 1..Len(s) /\ Len(s) \in Nat
    BY DEF OnSymbols, IsSequence
  <2>3. Len(t) = k + 1
    <3> HIDE DEF t
    <3> QED
      BY <2>1, <2>2 DEF IsSequence
  <2> QED
    BY <2>1, <2>2, <2>3
<1>4. /\ IsSequence(below) /\ Len(below) = k /\ DOMAIN below = 1..k
      /\ \A i \in 1..k : below[i] = s[i]
  <2> PICK S : s \in Seq(S)
    BY DEF OnSymbols, IsSequence
  <2>1. \A i \in 1..k : s[i] \in S
    BY <1>3
  <2>2. below \in Seq(S) /\ Len(below) = k /\ \A i \in 1..k : below[i] = s[i]
    BY <1>3, <2>1, SubSeqProperties
  <2> HIDE DEF below
  <2> QED
    BY <2>2 DEF IsSequence
<1>5. r.lhs \in Symbols /\ (k # 0 => r.lhs \in Above[s[k].symbol] /\ s[k].symbol \in Symbols)
  <2> HIDE DEF below
  <2>1. \A i \in DOMAIN below : below[i].symbol \in Symbols
    BY <1>3, <1>4 DEF OnSymbols
  <2>2. /\ r.lhs \in Symbols
        /\ below # <<>> => Len(below) \in DOMAIN below /\ r.lhs \in Above[below[Len(below)].symbol]
    BY <1>4, <2>1, FittingSymbol DEF below
  <2>3. k # 0 => below # <<>> /\ k \in 1..k /\ k \in DOMAIN s
    BY <1>3, <1>4
  <2> QED
    BY <1>4, <2>2, <2>3 DEF OnSymbols
<1>6. OnSymbols(t)
  <2> HIDE DEF t
  <2> QED
    BY <1>2, <1>3, <1>5 DEF OnSymbols
<1> HIDE DEF t, below, act, used
<1>7. ASSUME NEW j \in 1..k, NEW name, Holds(s, m, j, name) PROVE Holds(t, act, j, name)
  <2>1. j \in DOMAIN s /\ s[j].value \in DOMAIN m.objects
    BY <1>3, <1>7 DEF Holds
  <2>2. s[j].value # NoValue /\ s[j].value # m.made + 1
    BY <2>1 DEF IsMemory, NoValue
  <2>3. ASSUME NEW p \in DOMAIN v PROVE v[p] # s[j].value
    <3>1. k + p \in DOMAIN s /\ j # k + p
      BY <1>3
    <3> QED
      BY <2>1, <2>2, <3>1 DEF Owns
  <2>4. s[j].value \notin used
    BY <2>2, <2>3 DEF used
  <2> QED
    BY <1>1, <1>3, <1>7, <2>4, HoldsStill
\* A name alone is what ends the symbol.
<1>8. ASSUME NEW name, IsNamed(s, m, name) PROVE IsNamed(t, act, name)
  <2>1. s[Len(s)].symbol \in Ended \cup {"STRING"} /\ Len(s) \in 1..Len(s)
    BY <1>3, <1>8 DEF IsNamed, Holds
  <2>2. r.lhs \in Ended
    <3>1. CASE k < Len(s)
      <4> DEFINE p == Len(s) - k
      <4>1. p \in DOMAIN v /\ p + 1 \notin DOMAIN v /\ k + p = Len(s)
        BY <1>3, <3>1
      <4> HIDE DEF p
      <4>2. r.rhs[p] = s[Len(s)].symbol
        BY <4>1
      <4> QED
        BY <1>1, <2>1, <4>1, <4>2 DEF Closes
    <3>2. CASE k = Len(s)
      <4>1. 1 \notin DOMAIN r.rhs /\ k # 0
        BY <1>3, <2>1, <3>2
      <4>2. s[k].symbol # "STRING" \/ r.lhs \in {"DOT", "O_BRACE"}
        BY <1>5, <4>1, AboveEnded
      <4>3. s[k].symbol \in Ended /\ r.lhs \notin Opening
        BY <1>1, <1>5, <2>1, <3>2, <4>1, <4>2, AboveEnded DEF Closes
      <4> QED
        BY <1>1, <4>1, <4>3 DEF Closes
    <3>3. k < Len(s) \/ k = Len(s)
      <4>1. ASSUME NEW l \in Nat, k \in 0..l PROVE k < l \/ k = l
        BY <4>1
      <4> QED
        BY <1>3, <4>1
    <3> QED
      BY <3>1, <3>2, <3>3
  <2>3. Len(t) \in DOMAIN t
    BY <1>3
  <2> QED
    BY <1>2, <1>3, <2>2, <2>3 DEF IsNamed
\* A name and its brace stay, or are the beginning of a call.
<1>9. ASSUME NEW name \in Seq(STRING), Listed(Called, name), IsOpen(s, m, name)
      PROVE  "bruteforce" \in act.risk \/ IsOpen(t, act, name)
  <2>1. PICK j \in DOMAIN s :
          j + 1 \in DOMAIN s /\ Holds(s, m, j, name) /\ s[j + 1].symbol = "O_BRACE"
    BY <1>9 DEF IsOpen
  <2>2. CASE j < k
    <3>1. j \in 1..k /\ j + 1 \in 1..k /\ j \in DOMAIN t /\ j + 1 \in DOMAIN t
      BY <1>3, <2>1, <2>2
    <3> QED
      BY <1>3, <1>7, <2>1, <3>1 DEF IsOpen
  <2>3. CASE j = k
    <3>1. k # 0
      BY <1>3, <2>3
    <3>2. r.lhs \in {"DOT", "O_BRACE"}
      BY <1>5, <2>1, <2>3, <3>1, AboveEnded DEF Holds
    <3> QED
      BY <1>1, <3>2 DEF Closes
  <2>4. CASE j > k
    <3> DEFINE p == j - k
    <3>1. p \in DOMAIN v /\ p + 1 \in DOMAIN v /\ k + p = j /\ k + (p + 1) = j + 1
      <4>1. ASSUME NEW l \in Nat, j \in 1..l, j + 1 \in 1..l
            PROVE  /\ p \in 1..(l - k) /\ p + 1 \in 1..(l - k)
                   /\ k + p = j /\ k + (p + 1) = j + 1
        BY <1>3, <2>4, <4>1
      <4> HIDE DEF p
      <4> QED
        BY <1>3, <2>1, <4>1
    <3> HIDE DEF p
    <3>2. r.rhs[p] = "STRING" /\ r.rhs[p + 1] = "O_BRACE" /\ v[p] = s[j].value
      BY <2>1, <3>1 DEF Holds
    <3>3. p = 1 /\ r.action \in CallActions
      BY <1>1, <3>1, <3>2 DEF Follows
    <3>4. NameOf(m, v[1]) = name
      BY <2>1, <3>2, <3>3 DEF NameOf, Holds
    <3>5. "bruteforce" \in act.risk
      BY <1>9, <3>3, <3>4, CallReports DEF act
    <3> QED
      BY <3>5
  <2> QED
    BY <1>3, <2>2, <2>3, <2>4
<1>10. ASSUME NEW i \in 1..(Len(tokens) - 1), i <= n, IsCall(tokens, i)
       PROVE  \/ "bruteforce" \in act.risk
              \/ i = n /\ IsNamed(t, act, tokens[i].text)
              \/ i < n /\ IsOpen(t, act, tokens[i].text)
  <2>1. \/ "bruteforce" \in m.risk
        \/ i = n /\ IsNamed(s, m, tokens[i].text)
        \/ i < n /\ IsOpen(s, m, tokens[i].text)
    BY <1>10 DEF Tracked
  <2> QED
    BY <1>1, <1>8, <1>9, <1>10, <2>1 DEF IsCall, Spares
<1>11. Tracked(t, act, n, tokens)
  BY <1>10 DEF Tracked
<1> QED
  BY <1>6, <1>11 DEF t, act, z

-----------------------------------------------------------------------------
(* How far a query is read.                                                *)

\* How many tokens are read at a place, and that those from there on are the rest.
Count(s, p) == Len(TokensOf(s)) - Len(TokensFrom(s)[p])

Aligned(s, p) ==
    /\ p \in 1..(Len(s) + 2) /\ Count(s, p) \in Nat
    /\ \A k \in DOMAIN TokensFrom(s)[p] : TokensOf(s)[Count(s, p) + k] = TokensFrom(s)[p][k]

\* A lexeme without a token is skipped, and any other is the next token.
LEMMA ScanAligned ==
    ASSUME NEW s \in Seq(STRING), NEW p \in 1..Len(s), Aligned(s, p)
    PROVE  LET x == yylex(s, p)
           IN  /\ Aligned(s, x.next)
               /\ x.kind = "none" => Count(s, x.next) = Count(s, p)
               /\ x.kind # "none" => /\ Count(s, x.next) = Count(s, p) + 1
                                     /\ TokensOf(s)[Count(s, p) + 1] = x
<1> DEFINE x == yylex(s, p)
           here == TokensFrom(s)[p]
           there == TokensFrom(s)[x.next]
           all == TokensOf(s)
           V == LexemesOf(s)
<1>1. x.next \in 1..(Len(s) + 2)
  BY ScannerAdvances DEF Advances
<1>2. here \in Seq(V) /\ there \in Seq(V) /\ all \in Seq(V)
  <2>1. p \in 1..(Len(s) + 2) /\ 1 \in 1..(Len(s) + 2)
    OBVIOUS
  <2> HIDE DEF V, x
  <2> QED
    BY <1>1, <2>1, TokensFromIs DEF V
<1>3. here = (IF x.kind = "none" THEN <<>> ELSE <<x>>) \o there
  <2>1. p \in 1..(Len(s) + 2) /\ ~(p > Len(s))
    OBVIOUS
  <2>2. here = Rest(s, p, TokensFrom(s))
    BY <2>1, TokensFromIs
  <2> QED
    BY <2>1, <2>2, Zenon DEF Rest, TokenAt
<1>4. x \in V
  BY DEF LexemesOf
<1>5. Count(s, p) = Len(all) - Len(here) /\ Count(s, x.next) = Len(all) - Len(there)
  BY DEF Count
<1>6. /\ Count(s, p) \in Nat
      /\ \A k \in DOMAIN here : all[Count(s, p) + k] = here[k]
  BY DEF Aligned
<1>7. Aligned(s, x.next) <=>
        /\ x.next \in 1..(Len(s) + 2) /\ Count(s, x.next) \in Nat
        /\ \A k \in DOMAIN there : all[Count(s, x.next) + k] = there[k]
  BY DEF Aligned
<1> DEFINE a == Count(s, p)
           b == Count(s, x.next)
<1> HIDE DEF here, there, all, V, x, a, b
<1>8. CASE x.kind = "none"
  <2>1. here = there
    BY <1>2, <1>3, <1>8
  <2> QED
    BY <1>1, <1>5, <1>6, <1>7, <1>8, <2>1 DEF x, all
<1>9. CASE x.kind # "none"
  <2>1. /\ Len(here) = Len(there) + 1 /\ 1 \in DOMAIN here /\ here[1] = x
        /\ \A k \in DOMAIN there : k \in Nat /\ k + 1 \in DOMAIN here /\ here[k + 1] = there[k]
        /\ Len(there) \in Nat /\ Len(all) \in Nat
    BY <1>2, <1>3, <1>4, <1>9
  <2>2. a = Len(all) - Len(here) /\ b = Len(all) - Len(there) /\ a \in Nat
    BY <1>5, <1>6 DEF a, b
  <2>3. b = a + 1 /\ b \in Nat
    BY <2>1, <2>2
  <2>4. all[a + 1] = x
    BY <1>6, <2>1 DEF a
  <2>5. ASSUME NEW k \in DOMAIN there PROVE all[b + k] = there[k]
    <3>1. all[a + (k + 1)] = here[k + 1] /\ k \in Nat
      BY <1>6, <2>1 DEF a
    <3>2. a + (k + 1) = b + k
      <4>1. ASSUME NEW c \in Nat, NEW d \in Nat PROVE c + (d + 1) = (c + 1) + d
        OBVIOUS
      <4> QED
        BY <2>2, <2>3, <3>1, <4>1
    <3> QED
      BY <2>1, <3>1, <3>2
  <2> QED
    BY <1>1, <1>7, <1>9, <2>3, <2>4, <2>5 DEF a, b, x, all
<1> QED
  BY <1>8, <1>9 DEF x

\* At its beginning no token of a query is read, at its end all are.
LEMMA EndsAligned ==
    ASSUME NEW s \in Seq(STRING)
    PROVE  /\ Aligned(s, 1) /\ Count(s, 1) = 0
           /\ \A p \in 1..(Len(s) + 2) : p > Len(s) => Count(s, p) = Len(TokensOf(s))
           /\ TokensOf(s) \in Seq(LexemesOf(s))
           /\ \A i \in DOMAIN TokensOf(s) : TokensOf(s)[i].text \in Seq(STRING)
<1> DEFINE all == TokensOf(s)
           V == LexemesOf(s)
<1>1. all = TokensFrom(s)[1] /\ all \in Seq(V) /\ 1 \in 1..(Len(s) + 2)
  BY TokensFromIs
<1>2. \A x \in V : x.text \in Seq(STRING)
  BY ScannerAdvances DEF LexemesOf, Advances
<1>3. ASSUME NEW p \in 1..(Len(s) + 2), p > Len(s) PROVE Count(s, p) = Len(all)
  <2>1. TokensFrom(s)[p] = <<>>
    BY <1>3, TokensFromIs DEF Rest
  <2> HIDE DEF V
  <2>2. Len(all) \in Nat /\ Len(<<>>) = 0
    BY <1>1
  <2> HIDE DEF all
  <2> QED
    BY <2>1, <2>2 DEF Count, all
<1>4. Count(s, 1) = 0 /\ Aligned(s, 1)
  <2> HIDE DEF V
  <2>1. Len(all) \in Nat /\ Count(s, 1) = Len(all) - Len(all)
    BY <1>1 DEF Count
  <2> HIDE DEF all
  <2>2. Count(s, 1) = 0
    BY <2>1
  <2>3. DOMAIN all = 1..Len(all) /\ \A k \in 1..Len(all) : 0 + k = k
    BY <1>1
  <2> QED
    BY <1>1, <2>2, <2>3 DEF Aligned, all
<1> HIDE DEF V
<1>5. \A i \in DOMAIN all : all[i].text \in Seq(STRING)
  BY <1>1, <1>2
<1> QED
  BY <1>1, <1>3, <1>4, <1>5 DEF V

-----------------------------------------------------------------------------
(* Calls of listed functions are found.                                    *)

\* What the parser has read of the query, and where the calls of listed functions are.
CallsInv ==
    /\ Aligned(text, place)
    /\ OnSymbols(stack)
    /\ state \in {"parsing", "accepted"} =>
         Tracked(stack, Memory, Count(text, place), TokensOf(text))
    /\ state = "accepted" => place > Len(text) /\ Len(stack) = 1

LEMMA TextsAre == Typed => text \in Seq(STRING)
BY SqlParseAssumption DEF Typed

LEMMA CallsStart == ParseInit => CallsInv
<1> SUFFICES ASSUME ParseInit PROVE CallsInv
  OBVIOUS
<1>1. text \in Seq(STRING) /\ place = 1 /\ stack = <<>> /\ state = "parsing"
  BY SqlParseAssumption DEF ParseInit
<1>2. Aligned(text, place) /\ Count(text, place) = 0
  BY <1>1, EndsAligned
<1>3. OnSymbols(stack)
  BY <1>1, EmptyOwns DEF Owns, OnSymbols
<1>4. Tracked(stack, Memory, Count(text, place), TokensOf(text))
  BY <1>2 DEF Tracked
<1> QED
  BY <1>1, <1>2, <1>3, <1>4 DEF CallsInv

\* The names are found in one memory as in another with the same objects and risks.
LEMMA SameTracked ==
    ASSUME NEW s, NEW m, NEW n, NEW tokens, Tracked(s, m, n, tokens), NEW k, Spares(m, k, {})
    PROVE  Tracked(s, k, n, tokens)
<1>1. \A j, name : Holds(s, m, j, name) => Holds(s, k, j, name)
  BY HoldsStill
<1>2. \A name : /\ IsNamed(s, m, name) => IsNamed(s, k, name)
                /\ IsOpen(s, m, name) => IsOpen(s, k, name)
  BY <1>1 DEF IsNamed, IsOpen
<1> QED
  BY <1>2 DEF Tracked, Spares

LEMMA MemoryFieldsAre == DOMAIN Memory = MemoryFields /\ DOMAIN Memory' = MemoryFields
BY DEF Memory, MemoryFields

LEMMA ShiftCalls == ASSUME ParserInv, CallsInv, Shift PROVE CallsInv'
<1> DEFINE x == yylex(text, place)
           named == x.kind \in {"STRING", "NAME", "Q_STRING", "DQ_STRING"}
           m == IF named THEN NewString(Memory, x.text) ELSE Memory
           t == Append(stack, Item(x.kind, m.value))
           n == Count(text, place)
<1>1. /\ state = "parsing" /\ place <= Len(text)
      /\ place' = x.next /\ text' = text /\ risk' = risk \cup x.calls
      /\ objects' = m.objects /\ made' = m.made
      /\ \/ x.kind # "none" /\ Fits(stack, x.kind) /\ stack' = t /\ state' = "parsing"
         \/ state' \in {"failed", "crashed"} /\ stack' = stack
         \/ x.kind = "none" /\ state' = "parsing" /\ stack' = stack
  BY DEF Shift
<1>2. text \in Seq(STRING) /\ place \in 1..Len(text)
  BY <1>1, TextsAre DEF ParserInv, CallsInv, Aligned
<1>3. /\ Aligned(text, place')
      /\ x.kind = "none" => Count(text, place') = n
      /\ x.kind # "none" => Count(text, place') = n + 1 /\ TokensOf(text)[n + 1] = x
  BY <1>1, <1>2, ScanAligned DEF CallsInv
<1>4. /\ Spares(Memory, Memory', {})
      /\ x.kind = "STRING" => /\ m.value \in DOMAIN Memory'.objects
                              /\ Memory'.objects[m.value].str_value = x.text
  <2> HIDE DEF x
  <2>1. IsMemory(Memory) /\ DOMAIN Memory = MemoryFields
    BY MemoryFieldsAre DEF ParserInv
  <2>2. Spares(Memory, m, {})
    BY <2>1, NewStringSpares, SparesItself
  <2>3. x.kind = "STRING" => m.value \in DOMAIN m.objects /\ m.objects[m.value].str_value = x.text
    BY <2>1, NewMakes DEF NewString
  <2> HIDE DEF m
  <2>4. Memory'.objects = m.objects /\ Memory'.risk = Memory.risk \cup x.calls
    BY <1>1 DEF Memory
  <2> QED
    BY <2>2, <2>3, <2>4, MemoryFieldsAre DEF Spares
<1> HIDE DEF x, m
<1>5. n \in Nat /\ Tracked(stack, Memory, n, TokensOf(text)) /\ OnSymbols(stack)
  BY <1>1 DEF CallsInv, Aligned
<1>6. CASE x.kind # "none" /\ Fits(stack, x.kind) /\ stack' = t /\ state' = "parsing"
  <2> HIDE DEF n
  <2>1. Tracked(t, Memory', n + 1, TokensOf(text)) /\ OnSymbols(t)
    BY <1>3, <1>4, <1>5, <1>6, TokenTracked
  <2> QED
    BY <1>1, <1>3, <1>6, <2>1 DEF CallsInv
<1>7. CASE state' \in {"failed", "crashed"} /\ stack' = stack
  BY <1>1, <1>3, <1>5, <1>7 DEF CallsInv
<1>8. CASE x.kind = "none" /\ state' = "parsing" /\ stack' = stack
  <2>1. Tracked(stack, Memory', n, TokensOf(text))
    BY <1>4, <1>5, SameTracked
  <2> QED
    BY <1>1, <1>3, <1>5, <1>8, <2>1 DEF CallsInv
<1> QED
  BY <1>1, <1>6, <1>7, <1>8

LEMMA ReduceCalls == ASSUME ParserInv, CallsInv, NEW r \in Rules, Reduce(r) PROVE CallsInv'
<1> PICK k \in 0..Len(stack) : \E v : Replaces(r, k, v)
  BY ReductionReplaces
<1> PICK v : Replaces(r, k, v)
  OBVIOUS
<1> DEFINE m == Act(r.action, v, Memory)
           n == Count(text, place)
<1>1. /\ stack' = Append(SubSeq(stack, 1, k), Item(r.lhs, m.value))
      /\ objects' = m.objects /\ made' = m.made /\ risk' = m.risk
      /\ UNCHANGED <<text, place, state>> /\ state = "parsing"
  BY ReductionReplaces DEF Replaces
<1>2. /\ n \in Nat /\ Tracked(stack, Memory, n, TokensOf(text)) /\ OnSymbols(stack)
      /\ Aligned(text, place)
  BY <1>1 DEF CallsInv, Aligned
<1>3. \A i \in 1..(Len(TokensOf(text)) - 1) : TokensOf(text)[i].text \in Seq(STRING)
  <2>1. /\ TokensOf(text) \in Seq(LexemesOf(text))
        /\ \A i \in DOMAIN TokensOf(text) : TokensOf(text)[i].text \in Seq(STRING)
    BY TextsAre, EndsAligned DEF ParserInv
  <2> QED
    BY <2>1
<1>4. Tracked(stack', m, n, TokensOf(text)) /\ OnSymbols(stack')
  <2> DEFINE tokens == TokensOf(text)
  <2> HIDE DEF n, tokens
  <2> QED
    BY <1>1, <1>2, <1>3, ReductionTracked DEF ParserInv, Replaces, tokens
<1>5. Spares(m, Memory', {})
  <2> HIDE DEF m
  <2> QED
    BY <1>1, MemoryFieldsAre DEF Spares, Memory
<1> HIDE DEF m, n
<1>6. Tracked(stack', Memory', n, TokensOf(text))
  BY <1>4, <1>5, SameTracked
<1> QED
  BY <1>1, <1>2, <1>4, <1>6 DEF CallsInv, n

\* The memory is as it was, or the parser is done with it.
LEMMA EndCalls == ASSUME CallsInv, EndOfQuery PROVE CallsInv'
<1>1. /\ UNCHANGED <<text, place, stack, objects, made, risk>> /\ state = "parsing"
      /\ place > Len(text)
      /\ \/ state' = "accepted" /\ [i \in DOMAIN stack |-> stack[i].symbol] = <<"command">>
         \/ state' = "failed"
  BY DEF EndOfQuery
<1>2. Memory' = Memory
  BY <1>1 DEF Memory
<1>3. [i \in DOMAIN stack |-> stack[i].symbol] = <<"command">> => Len(stack) = 1
  <2>1. OnSymbols(stack)
    BY DEF CallsInv
  <2>2. DOMAIN <<"command">> = 1..1
    OBVIOUS
  <2>3. ASSUME [i \in DOMAIN stack |-> stack[i].symbol] = <<"command">> PROVE DOMAIN stack = 1..1
    BY <2>2, <2>3
  <2>4. DOMAIN stack = 1..1 => Len(stack) = 1
    BY <2>1 DEF OnSymbols, IsSequence
  <2> QED
    BY <2>3, <2>4
<1> QED
  BY <1>1, <1>2, <1>3 DEF CallsInv

LEMMA ReturnCalls == ASSUME CallsInv, ParseReturn PROVE CallsInv'
<1>1. UNCHANGED <<text, place>> /\ stack' = <<>> /\ state' = "returned"
  BY DEF ParseReturn
<1>2. OnSymbols(<<>>)
  BY EmptyOwns DEF Owns, OnSymbols
<1> QED
  BY <1>1, <1>2 DEF CallsInv

LEMMA CallsSteps == ParserInv /\ CallsInv /\ [ParseNext]_parseVars => CallsInv'
<1> SUFFICES ASSUME ParserInv, CallsInv, [ParseNext]_parseVars PROVE CallsInv'
  OBVIOUS
<1>1. CASE Shift
  BY <1>1, ShiftCalls
<1>2. CASE \E r \in Rules : Reduce(r)
  BY <1>2, ReduceCalls
<1>3. CASE EndOfQuery
  BY <1>3, EndCalls
<1>4. CASE ParseReturn
  BY <1>4, ReturnCalls
<1>5. CASE UNCHANGED parseVars
  BY <1>5 DEF parseVars, CallsInv, Memory
<1> QED
  BY <1>1, <1>2, <1>3, <1>4, <1>5 DEF ParseNext

\* All tokens of a query that is accepted are read, and nothing is left on the stack that a
\* call could wait for.
LEMMA CallsInvFound == ParserInv /\ CallsInv => ListedIsFound
<1> SUFFICES ASSUME ParserInv, CallsInv, state = "accepted",
                    NEW i \in 1..(Len(TokensOf(text)) - 1), IsCall(TokensOf(text), i)
             PROVE  "bruteforce" \in risk
  BY Zenon DEF ListedIsFound, IsCall, Called
<1> DEFINE n == Count(text, place)
<1>1. n = Len(TokensOf(text)) /\ n \in Nat
  BY TextsAre, EndsAligned DEF ParserInv, CallsInv, Aligned
<1> HIDE DEF n
<1>2. i < n /\ i # n /\ i <= n
  BY <1>1
<1>3. Tracked(stack, Memory, n, TokensOf(text)) /\ OnSymbols(stack) /\ Len(stack) = 1
  BY DEF CallsInv, n
<1>4. "bruteforce" \in Memory.risk \/ IsOpen(stack, Memory, TokensOf(text)[i].text)
  BY <1>2, <1>3 DEF Tracked
<1>5. ~IsOpen(stack, Memory, TokensOf(text)[i].text)
  <2>1. DOMAIN stack = 1..1
    BY <1>3 DEF OnSymbols, IsSequence
  <2> QED
    BY <2>1 DEF IsOpen
<1> QED
  BY <1>4, <1>5, MemoryIs

\* clb_check_bruteforce_function, where fn and simple_fn of sql.ypp call it: in whatever
\* order the rules apply, the parser accepts no query with a call of a function that a
\* section which compiles lists without having found it, wherever the call is and whatever
\* its arguments are, and whatever the other sections of the patterns' file are.
THEOREM ListedCallsAreFound == ParseSpec => []ListedIsFound
<1>1. ParserInv /\ CallsInv => ListedIsFound
  BY CallsInvFound
<1>2. ParseInit => ParserInv /\ CallsInv
  BY ParserStarts, CallsStart
<1>3. (ParserInv /\ CallsInv) /\ [ParseNext]_parseVars => (ParserInv /\ CallsInv)'
  BY ParserSteps, CallsSteps
<1> QED
  BY <1>1, <1>2, <1>3, PTL DEF ParseSpec

-----------------------------------------------------------------------------
(* What the symbols of the grammar stand for.                              *)

\* The symbols that may have a condition of the query in them that is in no brace.
Conditional == {"where_cond", "union_cond", "select_cmd", "delete_cmd", "update_cmd", "command"}

\* What may follow the condition: empty, or with a token of its own.
Clauses == {"group_cond", "having_cond", "order_cond", "limit_cond", "procedure_cond",
            "union_cond", "end_cond"}

\* Symbols with a token of their own.
Keyed == {"case_fn", "cast_fn", "select_cmd", "logical_operator"}

\* The symbols that a side of a comparison without a subquery is made of.
Sides == {"math_exp", "field", "fn", "simple_fn", "fn_args", "const_value", "table_field"}

\* The tokens that a comparison without a subquery is made of.
PlainTokens == ExpressionTokens \cup {"EQUAL"}

NameTokens == {"STRING", "NAME"}

NumberTokens == {"INTEGER", "NULLX", "TRUEX", "FALSEX"}

TextTokens == {"Q_STRING", "DQ_STRING"}

\* A right-hand side has a token that is none of those.
Unplain(rhs) == \E j \in DOMAIN rhs : rhs[j] \in Keyed \/ rhs[j] \notin Heads \cup PlainTokens

\* Its braces are at some places only.
NoBrace(rhs, places) == \A j \in DOMAIN rhs \ places : rhs[j] \notin {"O_BRACE", "C_BRACE"}

Braced(rhs, o, c) ==
    {o, c} \subseteq DOMAIN rhs /\ rhs[o] = "O_BRACE" /\ rhs[c] = "C_BRACE" /\ NoBrace(rhs, {o, c})

\* It closes the braces that it opens.
Matched(rhs) ==
    \/ NoBrace(rhs, {})
    \/ Braced(rhs, 1, 3) \/ Braced(rhs, 2, 3) \/ Braced(rhs, 2, 4) \/ Braced(rhs, 2, 6)
    \/ Braced(rhs, 3, 5) \/ Braced(rhs, 4, 6)
    \/ /\ {2, 6, 8, 9} \subseteq DOMAIN rhs /\ NoBrace(rhs, {2, 6, 8, 9})
       /\ rhs[2] = "O_BRACE" /\ rhs[6] = "O_BRACE" /\ rhs[8] = "C_BRACE" /\ rhs[9] = "C_BRACE"

\* A condition is part of a command, and of no other symbol but in braces.
Deepens(lhs, rhs) ==
    lhs \notin Conditional =>
        \A j \in DOMAIN rhs :
            /\ rhs[j] # "WHERE"
            /\ rhs[j] \in Conditional => j - 1 \in DOMAIN rhs /\ rhs[j - 1] = "O_BRACE"

Chains(lhs, rhs) ==
    /\ lhs \in Conditional => NoBrace(rhs, {})
    /\ lhs \in Conditional \ {"where_cond"} =>
         \A j \in DOMAIN rhs :
             /\ rhs[j] # "WHERE"
             /\ rhs[j] \in Conditional => \A i \in DOMAIN rhs : i > j => rhs[i] \in Clauses
    /\ lhs = "where_cond" => rhs \in {<<>>, <<"WHERE", "logical_exp_list">>}

Keyword(lhs, rhs) ==
    /\ lhs \in Heads
    /\ lhs \in Clauses => rhs = <<>> \/ Unplain(rhs)
    /\ lhs \in Keyed => Unplain(rhs)

\* The rules of a side.
SideRule(lhs, rhs, action) ==
    lhs \in Sides =>
        \/ Unplain(rhs)
        \/ lhs = "math_exp" /\ rhs = <<"field">> /\ action = "1"
        \/ lhs = "math_exp" /\ rhs = <<"BASIC_OP", "field">> /\ action = "2"
        \/ /\ lhs = "math_exp" /\ \E o \in MathOperators : rhs = <<"math_exp", o, "field">>
           /\ action = "add_3"
        \/ lhs = "math_exp" /\ rhs = <<"O_BRACE", "math_exp", "C_BRACE">> /\ action = "2"
        \/ lhs = "field" /\ rhs = <<"table_field">> /\ action = "field"
        \/ lhs = "field" /\ rhs = <<"simple_fn">> /\ action = "no_args"
        \/ lhs = "field" /\ rhs \in {<<"const_value">>, <<"fn">>} /\ action = "1"
        \/ lhs = "table_field" /\ (\E n \in NameTokens : rhs = <<n>>) /\ action = "1"
        \/ lhs = "table_field" /\ (\E n, o \in NameTokens : rhs = <<n, "DOT", o>>) /\ action = "3"
        \/ lhs = "const_value" /\ (\E n \in NumberTokens : rhs = <<n>>) /\ action = "integer"
        \/ lhs = "const_value" /\ (\E n \in TextTokens : rhs = <<n>>) /\ action = "string"
        \/ /\ lhs = "fn" /\ rhs = <<"STRING", "O_BRACE", "fn_args", "C_BRACE">>
           /\ action = "function_3"
        \/ lhs = "fn" /\ rhs = <<"CHAR_TYPE", "O_BRACE", "fn_args", "C_BRACE">> /\ action = "3"
        \/ lhs = "simple_fn" /\ rhs = <<"STRING", "O_BRACE", "MULTIPLY", "C_BRACE">>
        \/ /\ lhs = "simple_fn"
           /\ rhs \in {<<n, "O_BRACE", "C_BRACE">> : n \in {"STRING", "CHAR_TYPE"}}
        \/ lhs = "fn_args" /\ rhs = <<"math_exp">> /\ action = "1"
        \/ lhs = "fn_args" /\ rhs = <<"fn_args", "COMMA", "fn_args">> /\ action = "add_3"

\* Those of a comparison.
CompareRule(lhs, rhs, action) ==
    /\ lhs = "comp_operator" => Unplain(rhs) \/ rhs = <<"EQUAL">>
    /\ lhs = "logical_exp_list" => Unplain(rhs) \/ rhs = <<"logical_exp">>
    /\ lhs = "logical_exp" =>
         \/ Unplain(rhs) \/ rhs = <<"math_exp">>
         \/ action = "tautology"
         \/ rhs = <<"O_BRACE", "logical_exp", "C_BRACE">>
         \/ rhs = <<"math_exp", "comp_operator", "math_exp">> /\ action = "compare_3"

\* Each rule of the grammar has the form that is needed.
LEMMA CommandRulesAreKeyed == \A r \in CommandRules : Keyword(r.lhs, r.rhs)
BY DEF CommandRules, Each, Rule, Keyword, Heads, Clauses, Keyed, Unplain, PlainTokens,
       ExpressionTokens, MathOperators

LEMMA TableRulesAreKeyed == \A r \in TableRules : Keyword(r.lhs, r.rhs)
BY DEF TableRules, Each, Rule, Keyword, Heads, Clauses, Keyed, Unplain, PlainTokens,
       ExpressionTokens, MathOperators

LEMMA ClauseRulesAreKeyed == \A r \in ClauseRules : Keyword(r.lhs, r.rhs)
BY DEF ClauseRules, Each, Rule, Keyword, Heads, Clauses, Keyed, Unplain, PlainTokens,
       ExpressionTokens, MathOperators

LEMMA ExpressionRulesAreKeyed == \A r \in ExpressionRules : Keyword(r.lhs, r.rhs)
BY DEF ExpressionRules, Each, Rule, Keyword, Heads, Clauses, Keyed, Unplain, PlainTokens,
       ExpressionTokens, MathOperators

LEMMA FunctionRulesAreKeyed == \A r \in FunctionRules : Keyword(r.lhs, r.rhs)
BY DEF FunctionRules, Each, Rule, Keyword, Heads, Clauses, Keyed, Unplain, PlainTokens,
       ExpressionTokens, MathOperators

LEMMA ConditionRulesAreKeyed == \A r \in ConditionRules : Keyword(r.lhs, r.rhs)
BY DEF ConditionRules, Each, Rule, Keyword, Heads, Clauses, Keyed, Unplain, PlainTokens,
       ExpressionTokens, MathOperators

LEMMA CaseRulesAreKeyed == \A r \in CaseRules : Keyword(r.lhs, r.rhs)
BY DEF CaseRules, Each, Rule, Keyword, Heads, Clauses, Keyed, Unplain, PlainTokens,
       ExpressionTokens, MathOperators

LEMMA CommandRulesMatch == \A r \in CommandRules : Matched(r.rhs)
BY DEF CommandRules, Each, Rule, Matched, Braced, NoBrace

LEMMA TableRulesMatch == \A r \in TableRules : Matched(r.rhs)
BY DEF TableRules, Each, Rule, Matched, Braced, NoBrace

LEMMA ClauseRulesMatch == \A r \in ClauseRules : Matched(r.rhs)
BY DEF ClauseRules, Each, Rule, Matched, Braced, NoBrace

LEMMA ExpressionRulesMatch == \A r \in ExpressionRules : Matched(r.rhs)
BY DEF ExpressionRules, Each, Rule, Matched, Braced, NoBrace, MathOperators

LEMMA FunctionRulesMatch == \A r \in FunctionRules : Matched(r.rhs)
BY DEF FunctionRules, Each, Rule, Matched, Braced, NoBrace

LEMMA ConditionRulesMatch == \A r \in ConditionRules : Matched(r.rhs)
BY DEF ConditionRules, Each, Rule, Matched, Braced, NoBrace

LEMMA CaseRulesMatch == \A r \in CaseRules : Matched(r.rhs)
BY DEF CaseRules, Each, Rule, Matched, Braced, NoBrace

LEMMA CommandRulesNest == \A r \in CommandRules : Deepens(r.lhs, r.rhs) /\ Chains(r.lhs, r.rhs)
BY DEF CommandRules, Each, Rule, Deepens, Chains, Conditional, Clauses, NoBrace

LEMMA TableRulesNest == \A r \in TableRules : Deepens(r.lhs, r.rhs) /\ Chains(r.lhs, r.rhs)
BY DEF TableRules, Each, Rule, Deepens, Chains, Conditional, Clauses, NoBrace

LEMMA ClauseRulesNest == \A r \in ClauseRules : Deepens(r.lhs, r.rhs) /\ Chains(r.lhs, r.rhs)
BY DEF ClauseRules, Each, Rule, Deepens, Chains, Conditional, Clauses, NoBrace

LEMMA ExpressionRulesNest ==
    \A r \in ExpressionRules : Deepens(r.lhs, r.rhs) /\ Chains(r.lhs, r.rhs)
BY DEF ExpressionRules, Each, Rule, Deepens, Chains, Conditional, Clauses, NoBrace, MathOperators

LEMMA FunctionRulesNest == \A r \in FunctionRules : Deepens(r.lhs, r.rhs) /\ Chains(r.lhs, r.rhs)
BY DEF FunctionRules, Each, Rule, Deepens, Chains, Conditional, Clauses, NoBrace

LEMMA ConditionRulesNest == \A r \in ConditionRules : Deepens(r.lhs, r.rhs) /\ Chains(r.lhs, r.rhs)
BY DEF ConditionRules, Each, Rule, Deepens, Chains, Conditional, Clauses, NoBrace

LEMMA CaseRulesNest == \A r \in CaseRules : Deepens(r.lhs, r.rhs) /\ Chains(r.lhs, r.rhs)
BY DEF CaseRules, Each, Rule, Deepens, Chains, Conditional, Clauses, NoBrace

LEMMA OtherRulesMakeNoSides ==
    \A r \in CommandRules \cup TableRules \cup ClauseRules \cup CaseRules :
        r.lhs \notin Sides \cup {"comp_operator", "logical_exp_list", "logical_exp"}
BY DEF CommandRules, TableRules, ClauseRules, CaseRules, Each, Rule, Sides

LEMMA ExpressionRulesMakeSides == \A r \in ExpressionRules : SideRule(r.lhs, r.rhs, r.action)
BY DEF ExpressionRules, Each, Rule, SideRule, Sides, Unplain, Keyed, NameTokens, NumberTokens,
       TextTokens, MathOperators

LEMMA FunctionRulesMakeSides == \A r \in FunctionRules : SideRule(r.lhs, r.rhs, r.action)
BY DEF FunctionRules, Each, Rule, SideRule, Sides, Unplain, Heads, PlainTokens, ExpressionTokens,
       MathOperators

LEMMA ConditionRulesCompare == \A r \in ConditionRules : CompareRule(r.lhs, r.rhs, r.action)
BY DEF ConditionRules, Each, Rule, CompareRule, Unplain, Heads, PlainTokens, ExpressionTokens,
       MathOperators, Keyed

LEMMA SidesAreApart ==
    /\ \A r \in ExpressionRules \cup FunctionRules :
         r.lhs \notin {"comp_operator", "logical_exp_list", "logical_exp"}
    /\ \A r \in ConditionRules : r.lhs \notin Sides
BY DEF ExpressionRules, FunctionRules, ConditionRules, Each, Rule, MathOperators, Sides

-----------------------------------------------------------------------------
(* The braces of a query, and those of a right-hand side.                  *)

\* How a brace changes what is open.
Braces(kind) == CASE kind = "O_BRACE" -> 1 [] kind = "C_BRACE" -> -1 [] OTHER -> 0

OfKind(t, kind, n) == {i \in 1..n : t[i].kind = kind}

LEMMA CountsUp ==
    ASSUME NEW t, NEW kind, NEW n \in Nat
    PROVE  /\ Cardinality(OfKind(t, kind, 0)) = 0 /\ Cardinality(OfKind(t, kind, n)) \in Nat
           /\ Cardinality(OfKind(t, kind, n + 1)) =
                Cardinality(OfKind(t, kind, n)) + (IF t[n + 1].kind = kind THEN 1 ELSE 0)
<1> DEFINE T(k) == OfKind(t, kind, k)
<1> USE DEF OfKind
<1>1. T(0) = {}
  OBVIOUS
<1>2. IsFiniteSet(T(n)) /\ Cardinality(T(n)) \in Nat
  <2>1. IsFiniteSet(1..n) /\ T(n) \subseteq 1..n
    BY FS_Interval
  <2> HIDE DEF T
  <2> QED
    BY <2>1, FS_Subset, FS_CardinalityType
<1>3. T(n + 1) = IF t[n + 1].kind = kind THEN T(n) \cup {n + 1} ELSE T(n)
  OBVIOUS
<1>4. n + 1 \notin T(n)
  OBVIOUS
<1> HIDE DEF T
<1>5. Cardinality(T(n + 1)) = Cardinality(T(n)) + (IF t[n + 1].kind = kind THEN 1 ELSE 0)
  <2>1. Cardinality(T(n) \cup {n + 1}) = Cardinality(T(n)) + 1
    BY <1>2, <1>4, FS_AddElement
  <2> QED
    BY <1>2, <1>3, <2>1
<1>6. Cardinality(T(0)) = 0
  BY <1>1, FS_EmptySet
<1> QED
  BY <1>2, <1>5, <1>6 DEF T

\* What is open behind a token.
LEMMA OpenedIs ==
    ASSUME NEW t, NEW n \in Nat
    PROVE  /\ Opened(t, 0) = 0 /\ Opened(t, n) \in Int
           /\ Opened(t, n + 1) = Opened(t, n) + Braces(t[n + 1].kind)
<1> DEFINE T(kind, k) == OfKind(t, kind, k)
<1>1. /\ Cardinality(T("O_BRACE", 0)) = 0 /\ Cardinality(T("O_BRACE", n)) \in Nat
      /\ Cardinality(T("O_BRACE", n + 1)) =
           Cardinality(T("O_BRACE", n)) + (IF t[n + 1].kind = "O_BRACE" THEN 1 ELSE 0)
  BY CountsUp
<1>2. /\ Cardinality(T("C_BRACE", 0)) = 0 /\ Cardinality(T("C_BRACE", n)) \in Nat
      /\ Cardinality(T("C_BRACE", n + 1)) =
           Cardinality(T("C_BRACE", n)) + (IF t[n + 1].kind = "C_BRACE" THEN 1 ELSE 0)
  BY CountsUp
<1>3. \A k : Opened(t, k) = Cardinality(T("O_BRACE", k)) - Cardinality(T("C_BRACE", k))
  BY DEF Opened, OfKind
<1> HIDE DEF T
<1> QED
  BY <1>1, <1>2, <1>3 DEF Braces

\* The same tokens are behind two places.
SameSpan(t, a, e, k) == \A i \in 1..k : SameToken(t[a + i], t[e + i])

\* They open as many braces.
LEMMA OpenedAlike ==
    ASSUME NEW t, NEW a \in Nat, NEW b \in Nat, NEW l \in Nat, SameSpan(t, a, b, l)
    PROVE  Opened(t, a + l) - Opened(t, a) = Opened(t, b + l) - Opened(t, b)
<1> DEFINE S == {k \in Nat : k <= l =>
                   Opened(t, a + k) - Opened(t, a) = Opened(t, b + k) - Opened(t, b)}
<1>1. 0 \in S
  BY OpenedIs
<1>2. ASSUME NEW k \in Nat, k \in S PROVE k + 1 \in S
  <2>1. SUFFICES ASSUME k + 1 <= l
                 PROVE  Opened(t, a + (k + 1)) - Opened(t, a) =
                          Opened(t, b + (k + 1)) - Opened(t, b)
    OBVIOUS
  <2>2. k <= l /\ k + 1 \in 1..l /\ a + k \in Nat /\ b + k \in Nat
    BY <2>1
  <2>3. Opened(t, a + k) - Opened(t, a) = Opened(t, b + k) - Opened(t, b)
    BY <1>2, <2>2
  <2>4. /\ Opened(t, (a + k) + 1) = Opened(t, a + k) + Braces(t[(a + k) + 1].kind)
        /\ Opened(t, (b + k) + 1) = Opened(t, b + k) + Braces(t[(b + k) + 1].kind)
        /\ Opened(t, a + k) \in Int /\ Opened(t, b + k) \in Int
        /\ Opened(t, a) \in Int /\ Opened(t, b) \in Int
    BY <2>2, OpenedIs
  <2>5. t[a + (k + 1)].kind = t[b + (k + 1)].kind
    BY <2>2 DEF SameSpan, SameToken
  <2>6. (a + k) + 1 = a + (k + 1) /\ (b + k) + 1 = b + (k + 1)
    OBVIOUS
  <2>7. Braces(t[a + (k + 1)].kind) \in Int
    BY DEF Braces
  <2> QED
    BY <2>3, <2>4, <2>5, <2>6, <2>7
<1>3. l \in S
  <2> HIDE DEF S
  <2> QED
    BY <1>1, <1>2, Inductive
<1> QED
  BY <1>3

\* The places between the parts of a text.
Bounds(c, l) == c \in [0..l -> Nat] /\ \A j \in 1..l : c[j - 1] <= c[j]

LEMMA BoundsIncrease ==
    ASSUME NEW l \in Nat, NEW c, Bounds(c, l), NEW i \in 0..l, NEW j \in i..l
    PROVE  c[i] <= c[j]
<1> DEFINE S == {k \in Nat : i + k <= l => c[i] <= c[i + k]}
<1>1. 0 \in S
  BY DEF Bounds
<1>2. ASSUME NEW k \in Nat, k \in S PROVE k + 1 \in S
  <2>1. SUFFICES ASSUME i + (k + 1) <= l PROVE c[i] <= c[i + (k + 1)]
    OBVIOUS
  <2>2. c[i] <= c[i + k] /\ i + (k + 1) \in 1..l /\ (i + (k + 1)) - 1 = i + k
    BY <1>2, <2>1
  <2>3. c[i + k] <= c[i + (k + 1)]
    BY <2>2 DEF Bounds
  <2>4. c[i] \in Nat /\ c[i + k] \in Nat /\ c[i + (k + 1)] \in Nat
    BY <2>1 DEF Bounds
  <2> QED
    BY <2>2, <2>3, <2>4
<1>3. j - i \in S
  <2>1. j - i \in Nat
    OBVIOUS
  <2> HIDE DEF S
  <2> QED
    BY <1>1, <1>2, <2>1, Inductive
<1>4. i + (j - i) = j /\ i + (j - i) <= l
  OBVIOUS
<1> QED
  BY <1>3, <1>4

\* The part that a place is in.
LEMMA BoundsCover ==
    ASSUME NEW l \in Nat, NEW c, Bounds(c, l), NEW w \in (c[0] + 1)..c[l]
    PROVE  \E j \in 1..l : w \in (c[j - 1] + 1)..c[j]
<1> DEFINE T == {j \in 0..l : w <= c[j]}
           j == Min(T)
<1>1. T \in SUBSET Nat /\ l \in T
  OBVIOUS
<1>2. j \in T /\ \A k \in T : j <= k
  <2> HIDE DEF T
  <2> QED
    BY <1>1, MinIs
<1> HIDE DEF j
<1>3. c[0] \in Nat /\ c[l] \in Nat
  BY DEF Bounds
<1>4. j # 0 /\ j \in 1..l
  BY <1>2, <1>3
<1>5. j - 1 \in 0..l /\ j - 1 \notin T
  BY <1>2, <1>4
<1>6. c[j - 1] \in Nat /\ c[j] \in Nat
  BY <1>4, <1>5 DEF Bounds
<1>7. w \in (c[j - 1] + 1)..c[j]
  BY <1>2, <1>3, <1>5, <1>6
<1> QED
  BY <1>4, <1>7

\* How many braces are open within a right-hand side.
Profile(rhs, p) ==
    /\ p \in [0..Len(rhs) -> Nat] /\ p[0] = 0 /\ p[Len(rhs)] = 0
    /\ \A j \in 1..Len(rhs) : p[j] = p[j - 1] + Braces(rhs[j])

LEMMA OneBrace ==
    ASSUME NEW rhs, Counted(rhs), NEW o \in Nat, NEW k \in Nat, o < k, o # 0, Braced(rhs, o, k)
    PROVE  \E p : Profile(rhs, p)
<1> DEFINE l == Len(rhs)
           p == [j \in 0..l |-> IF o <= j /\ j < k THEN 1 ELSE 0]
<1>1. l \in Nat /\ DOMAIN rhs = 1..l /\ o \in 1..l /\ k \in 1..l
  BY DEF Counted, Braced
<1>2. /\ Braces(rhs[o]) = 1 /\ Braces(rhs[k]) = -1
      /\ \A j \in 1..l : j # o /\ j # k => Braces(rhs[j]) = 0
  BY <1>1 DEF Braced, NoBrace, Braces
<1> HIDE DEF l
<1>3. p \in [0..l -> Nat] /\ p[0] = 0 /\ p[l] = 0
  BY <1>1
<1>4. ASSUME NEW j \in 1..l PROVE p[j] = p[j - 1] + Braces(rhs[j])
  <2>1. j - 1 \in 0..l /\ j \in 0..l
    BY <1>1
  <2>2. CASE j = o
    BY <1>1, <1>2, <2>1, <2>2
  <2>3. CASE j = k
    BY <1>1, <1>2, <2>1, <2>3
  <2>4. CASE j # o /\ j # k
    BY <1>1, <1>2, <2>1, <2>4
  <2> QED
    BY <2>2, <2>3, <2>4
<1> QED
  BY <1>3, <1>4 DEF Profile, l

LEMMA TwoBraces ==
    ASSUME NEW rhs, Counted(rhs), {2, 6, 8, 9} \subseteq DOMAIN rhs, NoBrace(rhs, {2, 6, 8, 9}),
           rhs[2] = "O_BRACE", rhs[6] = "O_BRACE", rhs[8] = "C_BRACE", rhs[9] = "C_BRACE"
    PROVE  \E p : Profile(rhs, p)
<1> DEFINE l == Len(rhs)
           p == [j \in 0..l |-> IF j \in {6, 7} THEN 2 ELSE IF j \in 2..8 THEN 1 ELSE 0]
<1>1. l \in Nat /\ DOMAIN rhs = 1..l /\ l >= 9
  BY DEF Counted
<1>2. /\ Braces(rhs[2]) = 1 /\ Braces(rhs[6]) = 1 /\ Braces(rhs[8]) = -1 /\ Braces(rhs[9]) = -1
      /\ \A j \in 1..l : j \notin {2, 6, 8, 9} => Braces(rhs[j]) = 0
  BY <1>1 DEF NoBrace, Braces
<1> HIDE DEF l
<1>3. p \in [0..l -> Nat] /\ p[0] = 0 /\ p[l] = 0
  BY <1>1
<1>4. ASSUME NEW j \in 1..l PROVE p[j] = p[j - 1] + Braces(rhs[j])
  <2>1. j - 1 \in 0..l /\ j \in 0..l
    BY <1>1
  <2>2. CASE j \in {2, 6, 8, 9}
    BY <1>1, <1>2, <2>1, <2>2
  <2>3. CASE j \notin {2, 6, 8, 9}
    BY <1>1, <1>2, <2>1, <2>3
  <2> QED
    BY <2>2, <2>3
<1> QED
  BY <1>3, <1>4 DEF Profile, l

LEMMA MatchedHasProfile ==
    ASSUME NEW rhs, Counted(rhs), Matched(rhs)
    PROVE  \E p : Profile(rhs, p)
<1>1. CASE NoBrace(rhs, {})
  <2> DEFINE p == [j \in 0..Len(rhs) |-> 0]
  <2>1. \A j \in 1..Len(rhs) : Braces(rhs[j]) = 0 /\ j \in 0..Len(rhs) /\ j - 1 \in 0..Len(rhs)
    BY <1>1 DEF NoBrace, Braces, Counted
  <2>2. Profile(rhs, p)
    BY <2>1 DEF Profile, Counted
  <2> QED
    BY <2>2
<1>2. ASSUME NEW o \in Nat, NEW k \in Nat, o < k, o # 0, Braced(rhs, o, k)
      PROVE  \E p : Profile(rhs, p)
  BY <1>2, OneBrace
<1>3. CASE \/ Braced(rhs, 1, 3) \/ Braced(rhs, 2, 3) \/ Braced(rhs, 2, 4) \/ Braced(rhs, 2, 6)
           \/ Braced(rhs, 3, 5) \/ Braced(rhs, 4, 6)
  BY <1>2, <1>3
<1> QED
  BY <1>1, <1>3, TwoBraces DEF Matched

-----------------------------------------------------------------------------
(* The parts of a query that the symbols of a right-hand side stand for.   *)

LEMMA SidesOnly ==
    ASSUME NEW lhs, NEW rhs, NEW action
    PROVE  /\ lhs \notin Sides => SideRule(lhs, rhs, action)
           /\ lhs \notin {"comp_operator", "logical_exp_list", "logical_exp"} =>
                CompareRule(lhs, rhs, action)
BY DEF SideRule, CompareRule

\* What the grammar's rules have in common.
Shaped(lhs, rhs, action) ==
    /\ Keyword(lhs, rhs) /\ Matched(rhs) /\ Deepens(lhs, rhs) /\ Chains(lhs, rhs)
    /\ SideRule(lhs, rhs, action) /\ CompareRule(lhs, rhs, action)

LEMMA RulesAreShaped == \A r \in Rules : Shaped(r.lhs, r.rhs, r.action)
<1>1. ASSUME NEW r \in Rules PROVE Keyword(r.lhs, r.rhs)
  BY CommandRulesAreKeyed, TableRulesAreKeyed, ClauseRulesAreKeyed, ExpressionRulesAreKeyed,
     FunctionRulesAreKeyed, ConditionRulesAreKeyed, CaseRulesAreKeyed DEF Rules
<1>2. ASSUME NEW r \in Rules PROVE Matched(r.rhs)
  BY CommandRulesMatch, TableRulesMatch, ClauseRulesMatch, ExpressionRulesMatch,
     FunctionRulesMatch, ConditionRulesMatch, CaseRulesMatch DEF Rules
<1>3. ASSUME NEW r \in Rules PROVE Deepens(r.lhs, r.rhs) /\ Chains(r.lhs, r.rhs)
  BY CommandRulesNest, TableRulesNest, ClauseRulesNest, ExpressionRulesNest, FunctionRulesNest,
     ConditionRulesNest, CaseRulesNest DEF Rules
<1>4. ASSUME NEW r \in Rules
      PROVE  SideRule(r.lhs, r.rhs, r.action) /\ CompareRule(r.lhs, r.rhs, r.action)
  <2>1. CASE r \in CommandRules \cup TableRules \cup ClauseRules \cup CaseRules
    BY <2>1, OtherRulesMakeNoSides, SidesOnly
  <2>2. CASE r \in ExpressionRules
    BY <2>2, ExpressionRulesMakeSides, SidesAreApart, SidesOnly
  <2>3. CASE r \in FunctionRules
    BY <2>3, FunctionRulesMakeSides, SidesAreApart, SidesOnly
  <2>4. CASE r \in ConditionRules
    BY <2>4, ConditionRulesCompare, SidesAreApart, SidesOnly
  <2> QED
    BY <2>1, <2>2, <2>3, <2>4 DEF Rules
<1> QED
  BY <1>1, <1>2, <1>3, <1>4 DEF Shaped

\* A part of the tokens, behind the first a of them up to the b-th, has none but those of
\* a comparison without a subquery.
Plain(t, a, b) == \A i \in (a + 1)..b : t[i].kind \in PlainTokens

\* It closes the braces that it opens, and no other.
Balanced(t, a, b) ==
    Opened(t, b) = Opened(t, a) /\ \A i \in a..b : Opened(t, i) >= Opened(t, a)

\* Its conditions are in braces.
Deep(t, a, b) ==
    \A i \in (a + 1)..b : t[i].kind = "WHERE" => Opened(t, i) > Opened(t, a)

\* A part may be what a symbol stands for.
Stands(t, s, a, b) ==
    /\ a \in Nat /\ b \in Nat /\ a <= b
    /\ s \notin Heads => b = a + 1 /\ t[b].kind = s
    /\ s \in Heads => Balanced(t, a, b)
    /\ s \in Heads \ Conditional => Deep(t, a, b)
    /\ s \in Clauses => a = b \/ ~Plain(t, a, b)
    /\ s \in Keyed => ~Plain(t, a, b)
    /\ s = "comp_operator" /\ Plain(t, a, b) => b = a + 1 /\ t[b].kind = "EQUAL"

\* The parts that a right-hand side stands for, one behind the other.
Parted(t, rhs, c, l) ==
    Bounds(c, l) /\ \A j \in 1..l : Stands(t, rhs[j], c[j - 1], c[j])

LEMMA HeadsAre ==
    /\ Clauses \subseteq Heads /\ Conditional \subseteq Heads /\ Keyed \subseteq Heads
    /\ Sides \subseteq Heads
    /\ {"O_BRACE", "C_BRACE", "WHERE"} \cap Heads = {}
    /\ {"comp_operator", "logical_exp", "logical_exp_list"} \subseteq Heads
    /\ {"comp_operator", "logical_exp", "logical_exp_list"} \cap
         (Conditional \cup Sides \cup Keyed \cup Clauses) = {}
    /\ Sides \cap (Conditional \cup Keyed \cup Clauses) = {}
BY DEF Clauses, Conditional, Keyed, Heads, Sides

LEMMA Spread ==
    ASSUME NEW t, NEW l \in Nat, NEW c, Bounds(c, l), NEW j \in 1..l
    PROVE  /\ c[0] \in Nat /\ c[j - 1] \in Nat /\ c[j] \in Nat /\ c[l] \in Nat
           /\ c[0] <= c[j - 1] /\ c[j - 1] <= c[j] /\ c[j] <= c[l]
<1>1. 0 \in 0..l /\ j - 1 \in 0..l /\ j \in 0..l /\ l \in j..l /\ j - 1 \in 0..l /\ j \in (j - 1)..l
  OBVIOUS
<1>2. c[0] <= c[j - 1] /\ c[j - 1] <= c[j] /\ c[j] <= c[l]
  BY <1>1, BoundsIncrease
<1> QED
  BY <1>1, <1>2 DEF Bounds

\* What is open behind each part.
LEMMA PartsOpen ==
    ASSUME NEW t, NEW rhs, Counted(rhs), NEW p, Profile(rhs, p), NEW c, Parted(t, rhs, c, Len(rhs))
    PROVE  \A j \in 0..Len(rhs) : Opened(t, c[j]) = Opened(t, c[0]) + p[j]
<1> DEFINE l == Len(rhs)
           S == {k \in Nat : k <= l => Opened(t, c[k]) = Opened(t, c[0]) + p[k]}
<1>1. l \in Nat /\ Opened(t, c[0]) \in Int
  BY OpenedIs DEF Counted, Parted, Bounds
<1>2. 0 \in S
  BY <1>1 DEF Profile
<1>3. ASSUME NEW k \in Nat, k \in S PROVE k + 1 \in S
  <2>1. SUFFICES ASSUME k + 1 <= l PROVE Opened(t, c[k + 1]) = Opened(t, c[0]) + p[k + 1]
    OBVIOUS
  <2>2. k + 1 \in 1..l /\ (k + 1) - 1 = k /\ k \in 0..l /\ k + 1 \in 0..l
    BY <1>1, <2>1
  <2>3. Opened(t, c[k]) = Opened(t, c[0]) + p[k]
    BY <1>3, <2>2
  <2>4. /\ Stands(t, rhs[k + 1], c[k], c[k + 1])
        /\ p[k + 1] = p[k] + Braces(rhs[k + 1]) /\ p[k] \in Nat
    BY <2>2 DEF Parted, Profile
  <2>5. Opened(t, c[k + 1]) = Opened(t, c[k]) + Braces(rhs[k + 1])
    <3>1. CASE rhs[k + 1] \in Heads
      BY <2>4, <3>1, <1>1, <2>3, HeadsAre DEF Stands, Balanced, Braces
    <3>2. CASE rhs[k + 1] \notin Heads
      BY <2>4, <3>2, OpenedIs DEF Stands
    <3> QED
      BY <3>1, <3>2
  <2>6. Braces(rhs[k + 1]) \in Int
    BY DEF Braces
  <2> QED
    BY <1>1, <2>3, <2>4, <2>5, <2>6
<1> HIDE DEF S
<1>4. \A k \in Nat : k \in S
  BY <1>2, <1>3, Inductive
<1> QED
  BY <1>4 DEF S

\* What is open between the parts and in them.
LEMMA PartsBalanced ==
    ASSUME NEW t, NEW rhs, Counted(rhs), NEW p, Profile(rhs, p), NEW c, Parted(t, rhs, c, Len(rhs))
    PROVE  Balanced(t, c[0], c[Len(rhs)])
<1> DEFINE l == Len(rhs)
<1>1. /\ l \in Nat /\ Opened(t, c[0]) \in Int /\ Bounds(c, l) /\ c[0] \in Nat
      /\ 0 \in 0..l /\ l \in 0..l
  BY OpenedIs DEF Counted, Parted, Bounds
<1>2. \A j \in 0..l : Opened(t, c[j]) = Opened(t, c[0]) + p[j]
  BY PartsOpen
<1>3. \A j \in 0..l : p[j] \in Nat
  BY DEF Profile
<1> HIDE DEF l
<1>4. Opened(t, c[l]) = Opened(t, c[0])
  BY <1>1, <1>2 DEF Profile, l
<1>5. ASSUME NEW i \in c[0]..c[l] PROVE Opened(t, i) >= Opened(t, c[0])
  <2>1. CASE i = c[0]
    BY <1>1, <2>1
  <2>2. CASE i # c[0]
    <3>1. i \in (c[0] + 1)..c[l]
      BY <1>1, <2>2
    <3>2. PICK j \in 1..l : i \in (c[j - 1] + 1)..c[j]
      BY <1>1, <3>1, BoundsCover
    <3>3. Stands(t, rhs[j], c[j - 1], c[j])
      BY DEF Parted, l
    <3>4. j \in 0..l /\ j - 1 \in 0..l
      BY <1>1
    <3>5. c[j - 1] \in Nat /\ c[j] \in Nat
      BY <1>1, <3>4 DEF Bounds
    <3>6. CASE rhs[j] \in Heads
      <4>1. i \in c[j - 1]..c[j]
        BY <3>2, <3>5
      <4>2. Opened(t, i) >= Opened(t, c[j - 1])
        BY <3>3, <3>6, <4>1 DEF Stands, Balanced
      <4>3. Opened(t, i) \in Int
        BY <3>5, <4>1, OpenedIs
      <4> QED
        BY <1>1, <1>2, <1>3, <3>4, <4>2, <4>3
    <3>7. CASE rhs[j] \notin Heads
      <4>1. i = c[j]
        BY <3>2, <3>3, <3>5, <3>7 DEF Stands
      <4> QED
        BY <1>1, <1>2, <1>3, <3>4, <4>1
    <3> QED
      BY <3>6, <3>7
  <2> QED
    BY <2>1, <2>2
<1> QED
  BY <1>4, <1>5 DEF Balanced, l

\* A part that is not plain.
LEMMA PlainParts ==
    ASSUME NEW t, NEW l \in Nat, NEW c, Bounds(c, l), Plain(t, c[0], c[l]), NEW j \in 1..l
    PROVE  Plain(t, c[j - 1], c[j])
<1>1. /\ c[0] \in Nat /\ c[j - 1] \in Nat /\ c[j] \in Nat /\ c[l] \in Nat
      /\ c[0] <= c[j - 1] /\ c[j - 1] <= c[j] /\ c[j] <= c[l]
  BY Spread
<1>2. \A i \in (c[j - 1] + 1)..c[j] : i \in (c[0] + 1)..c[l]
  BY <1>1
<1> QED
  BY <1>2 DEF Plain

LEMMA PartsUnplain ==
    ASSUME NEW t, NEW rhs, Counted(rhs), Unplain(rhs), NEW c, Parted(t, rhs, c, Len(rhs))
    PROVE  ~Plain(t, c[0], c[Len(rhs)])
<1> SUFFICES ASSUME Plain(t, c[0], c[Len(rhs)]) PROVE FALSE
  OBVIOUS
<1>1. PICK j \in 1..Len(rhs) : rhs[j] \in Keyed \/ rhs[j] \notin Heads \cup PlainTokens
  BY DEF Unplain, Counted
<1>2. Len(rhs) \in Nat /\ Bounds(c, Len(rhs)) /\ Stands(t, rhs[j], c[j - 1], c[j])
  BY DEF Counted, Parted
<1>3. Plain(t, c[j - 1], c[j])
  BY <1>2, PlainParts
<1>4. CASE rhs[j] \in Keyed
  BY <1>2, <1>3, <1>4 DEF Stands
<1>5. CASE rhs[j] \notin Heads \cup PlainTokens
  <2>1. c[j] \in (c[j - 1] + 1)..c[j] /\ t[c[j]].kind = rhs[j]
    BY <1>2, <1>5 DEF Stands
  <2> QED
    BY <1>3, <1>5, <2>1 DEF Plain
<1> QED
  BY <1>1, <1>4, <1>5

\* The conditions in it are in braces.
LEMMA PartsDeep ==
    ASSUME NEW t, NEW rhs, Counted(rhs), NEW p, Profile(rhs, p), NEW c, Parted(t, rhs, c, Len(rhs)),
           NEW lhs, lhs \notin Conditional, Deepens(lhs, rhs)
    PROVE  Deep(t, c[0], c[Len(rhs)])
<1> DEFINE l == Len(rhs)
<1>2. \A j \in 0..l : Opened(t, c[j]) = Opened(t, c[0]) + p[j]
  BY PartsOpen
<1>3. \A j \in 0..l : p[j] \in Nat
  BY DEF Profile
<1> SUFFICES ASSUME NEW i \in (c[0] + 1)..c[l], t[i].kind = "WHERE"
             PROVE  Opened(t, i) > Opened(t, c[0])
  BY DEF Deep
<1>1. l \in Nat /\ DOMAIN rhs = 1..l /\ Bounds(c, l) /\ c[0] \in Nat /\ Opened(t, c[0]) \in Int
  BY OpenedIs DEF Counted, Parted, Bounds
<1>4. PICK j \in 1..l : i \in (c[j - 1] + 1)..c[j]
  BY <1>1, BoundsCover
<1>5. Stands(t, rhs[j], c[j - 1], c[j])
  BY DEF Parted
<1>6. j \in 0..l /\ j - 1 \in 0..l
  BY <1>1
<1>7. c[j - 1] \in Nat /\ c[j] \in Nat
  BY <1>1, <1>6 DEF Bounds
<1>8. /\ rhs[j] # "WHERE"
      /\ rhs[j] \in Conditional => j - 1 \in 1..l /\ rhs[j - 1] = "O_BRACE"
  BY <1>1 DEF Deepens
<1> HIDE DEF l
<1>12. Opened(t, c[j - 1]) = Opened(t, c[0]) + p[j - 1] /\ p[j - 1] \in Nat
  BY <1>2, <1>3, <1>6
<1>9. CASE rhs[j] \notin Heads
  <2>1. i = c[j] /\ t[c[j]].kind = rhs[j]
    BY <1>4, <1>5, <1>7, <1>9 DEF Stands
  <2> QED
    BY <1>8, <2>1
<1>10. CASE rhs[j] \in Heads \ Conditional
  <2>1. Opened(t, i) > Opened(t, c[j - 1])
    BY <1>4, <1>5, <1>10 DEF Stands, Deep
  <2>2. Opened(t, i) \in Int
    BY <1>4, <1>7, OpenedIs
  <2> QED
    BY <1>1, <1>12, <2>1, <2>2
<1>11. CASE rhs[j] \in Conditional
  <2>1. j - 1 \in 1..l /\ rhs[j - 1] = "O_BRACE"
    BY <1>8, <1>11
  <2>2. (j - 1) - 1 \in 0..l
    BY <1>1, <2>1
  <2>3. p[j - 1] = p[(j - 1) - 1] + 1
    BY <2>1 DEF Profile, Braces, l
  <2>4. p[j - 1] > 0
    BY <1>3, <2>2, <2>3
  <2>5. i \in c[j - 1]..c[j]
    BY <1>4, <1>7
  <2>6. Opened(t, i) >= Opened(t, c[j - 1])
    BY <1>5, <1>11, <2>5, HeadsAre DEF Stands, Balanced
  <2>7. Opened(t, i) \in Int
    BY <1>7, <2>5, OpenedIs
  <2> QED
    BY <1>1, <1>12, <2>4, <2>6, <2>7
<1> QED
  BY <1>9, <1>10, <1>11

\* A symbol stands for the parts of its right-hand side together.
LEMMA StandsAgain ==
    ASSUME NEW t, NEW lhs, NEW rhs, NEW action, Counted(rhs), Shaped(lhs, rhs, action),
           NEW c, Parted(t, rhs, c, Len(rhs))
    PROVE  Stands(t, lhs, c[0], c[Len(rhs)])
<1> DEFINE l == Len(rhs)
           a == c[0]
           b == c[l]
<1>1. PICK p : Profile(rhs, p)
  BY MatchedHasProfile DEF Shaped
<1>2. lhs \in Heads /\ Balanced(t, a, b)
  BY <1>1, PartsBalanced DEF Shaped, Keyword
<1>3. lhs \notin Conditional => Deep(t, a, b)
  BY <1>1, PartsDeep DEF Shaped
<1>4. Unplain(rhs) => ~Plain(t, a, b)
  BY PartsUnplain
<1>5. l \in Nat /\ Bounds(c, l)
  BY DEF Counted, Parted
<1>6. a \in Nat /\ b \in Nat /\ a <= b
  <2>1. 0 \in 0..l /\ l \in 0..l
    BY <1>5
  <2> QED
    BY <1>5, <2>1, BoundsIncrease DEF Bounds
<1>7. rhs = <<>> => a = b
  BY <1>5
<1>8. lhs \in Clauses => a = b \/ ~Plain(t, a, b)
  BY <1>4, <1>7 DEF Shaped, Keyword
<1>9. lhs \in Keyed => ~Plain(t, a, b)
  BY <1>4 DEF Shaped, Keyword
<1>10. ASSUME lhs = "comp_operator", Plain(t, a, b) PROVE b = a + 1 /\ t[b].kind = "EQUAL"
  <2>1. rhs = <<"EQUAL">>
    BY <1>4, <1>10 DEF Shaped, CompareRule
  <2>2. l = 1 /\ rhs[1] = "EQUAL" /\ 1 - 1 = 0
    BY <2>1
  <2>3. Stands(t, "EQUAL", c[0], c[1])
    <3>1. 1 \in 1..l
      BY <2>2
    <3>2. Stands(t, rhs[1], c[1 - 1], c[1])
      BY <3>1 DEF Parted
    <3> QED
      BY <2>2, <3>2
  <2>4. "EQUAL" \notin Heads
    BY DEF Heads
  <2> QED
    BY <2>2, <2>3, <2>4 DEF Stands
<1> HIDE DEF a, b, l
<1>11. Stands(t, lhs, a, b)
  BY <1>2, <1>3, <1>6, <1>8, <1>9, <1>10 DEF Stands
<1> QED
  BY <1>11 DEF a, b, l

-----------------------------------------------------------------------------
(* Conditions that compare an expression with itself.                      *)

\* Whatever is a comparison with itself from a place on was found.
ReportsFrom(risks, t, a, b) ==
    \A e \in Nat : ComparesFrom(t, a, e, b) => "tautology" \in risks

\* So was it from the conditions that are not in braces.
Reports(risks, t, a, b) ==
    \A w \in (a + 1)..b :
        t[w].kind = "WHERE" /\ Opened(t, w) = Opened(t, a) => ReportsFrom(risks, t, w, b)

LEMMA ComparesArePlain ==
    ASSUME NEW t, NEW a \in Nat, NEW e \in Nat, NEW b \in Nat, ComparesFrom(t, a, e, b)
    PROVE  Plain(t, a, b)
<1> SUFFICES ASSUME NEW i \in (a + 1)..b PROVE t[i].kind \in PlainTokens
  BY DEF Plain
<1>1. /\ a < e /\ e <= b /\ t[e].kind = "EQUAL" /\ e - a = b + 1 - e
      /\ \A k \in 1..(b - e) : /\ t[a + k].kind = t[e + k].kind
                               /\ t[a + k].kind \in ExpressionTokens
  BY DEF ComparesFrom, SameToken
<1>2. CASE i < e
  <2>1. i - a \in 1..(b - e) /\ a + (i - a) = i
    BY <1>1, <1>2
  <2> QED
    BY <1>1, <2>1 DEF PlainTokens
<1>3. CASE i = e
  BY <1>1, <1>3 DEF PlainTokens
<1>4. CASE i > e
  <2>1. i - e \in 1..(b - e) /\ e + (i - e) = i
    BY <1>1, <1>4
  <2>2. t[e + (i - e)].kind \in ExpressionTokens
    BY <1>1, <2>1
  <2> QED
    BY <2>1, <2>2 DEF PlainTokens
<1> QED
  BY <1>2, <1>3, <1>4

LEMMA NoBraceOpen ==
    ASSUME NEW t, NEW rhs, Counted(rhs), NoBrace(rhs, {}), NEW c, Parted(t, rhs, c, Len(rhs))
    PROVE  \A j \in 0..Len(rhs) : Opened(t, c[j]) = Opened(t, c[0])
<1> DEFINE p == [j \in 0..Len(rhs) |-> 0]
<1>1. \A j \in 1..Len(rhs) : Braces(rhs[j]) = 0 /\ j \in 0..Len(rhs) /\ j - 1 \in 0..Len(rhs)
  BY DEF NoBrace, Braces, Counted
<1>2. Profile(rhs, p)
  BY <1>1 DEF Profile, Counted
<1>3. \A j \in 0..Len(rhs) : p[j] = 0
  OBVIOUS
<1> HIDE DEF p
<1>4. \A j \in 0..Len(rhs) : Opened(t, c[j]) = Opened(t, c[0]) + p[j]
  BY <1>2, PartsOpen
<1>5. Opened(t, c[0]) \in Int
  BY OpenedIs DEF Parted, Bounds, Counted
<1> QED
  BY <1>3, <1>4, <1>5

\* The clauses behind a condition that ends with a comparison are empty.
LEMMA ClausesEmpty ==
    ASSUME NEW t, NEW rhs, Counted(rhs), NEW c, Parted(t, rhs, c, Len(rhs)),
           NEW j \in 1..Len(rhs), \A i \in DOMAIN rhs : i > j => rhs[i] \in Clauses,
           Plain(t, c[j], c[Len(rhs)])
    PROVE  c[j] = c[Len(rhs)]
<1> DEFINE l == Len(rhs)
           S == {k \in Nat : j + k <= l => c[j + k] = c[j]}
<1>1. l \in Nat /\ DOMAIN rhs = 1..l /\ Bounds(c, l)
  BY DEF Counted, Parted
<1>2. \A i \in 1..l : Stands(t, rhs[i], c[i - 1], c[i])
  BY DEF Parted
<1> HIDE DEF l
<1>3. 0 \in S
  OBVIOUS
<1>4. ASSUME NEW k \in Nat, k \in S PROVE k + 1 \in S
  <2>1. SUFFICES ASSUME j + (k + 1) <= l PROVE c[j + (k + 1)] = c[j]
    OBVIOUS
  <2> DEFINE i == j + (k + 1)
  <2>2. i \in 1..l /\ i > j /\ i - 1 = j + k /\ j + k <= l /\ j \in Nat
    BY <1>1, <2>1 DEF l
  <2>3. rhs[i] \in Clauses /\ Stands(t, rhs[i], c[i - 1], c[i])
    BY <1>1, <1>2, <2>2
  <2>4. c[i - 1] = c[j]
    BY <1>4, <2>2
  <2>5. Plain(t, c[i - 1], c[i])
    <3>1. c[i] <= c[l] /\ c[i] \in Nat /\ c[l] \in Nat /\ c[j] \in Nat
      BY <1>1, <2>2, <2>4, Spread
    <3>2. \A x \in (c[j] + 1)..c[i] : x \in (c[j] + 1)..c[l]
      BY <3>1
    <3> QED
      BY <2>4, <3>2 DEF Plain, l
  <2> QED
    BY <2>3, <2>4, <2>5 DEF Stands
<1>5. l - j \in S
  <2>1. l - j \in Nat
    BY <1>1 DEF l
  <2> HIDE DEF S
  <2> QED
    BY <1>3, <1>4, <2>1, Inductive
<1>6. j + (l - j) = l
  BY <1>1 DEF l
<1> QED
  BY <1>1, <1>5, <1>6 DEF l

LEMMA ConditionReports ==
    ASSUME NEW t, NEW risks, NEW lhs \in Conditional, NEW rhs, Counted(rhs), Chains(lhs, rhs),
           NEW c, Parted(t, rhs, c, Len(rhs)),
           \A j \in DOMAIN rhs :
             /\ rhs[j] \in Conditional => Reports(risks, t, c[j - 1], c[j])
             /\ rhs[j] = "logical_exp_list" => ReportsFrom(risks, t, c[j - 1], c[j])
    PROVE  Reports(risks, t, c[0], c[Len(rhs)])
<1> DEFINE l == Len(rhs)
<1>1. l \in Nat /\ DOMAIN rhs = 1..l /\ Bounds(c, l) /\ c[0] \in Nat
  BY DEF Counted, Parted, Bounds
<1>2. \A j \in 0..l : Opened(t, c[j]) = Opened(t, c[0])
  BY NoBraceOpen DEF Chains
<1>3. \A j \in 1..l : Stands(t, rhs[j], c[j - 1], c[j])
  BY DEF Parted
<1> SUFFICES ASSUME NEW w \in (c[0] + 1)..c[l], t[w].kind = "WHERE", Opened(t, w) = Opened(t, c[0]),
                    NEW e \in Nat, ComparesFrom(t, w, e, c[l])
             PROVE  "tautology" \in risks
  BY DEF Reports, ReportsFrom
<1>4. PICK j \in 1..l : w \in (c[j - 1] + 1)..c[j]
  BY <1>1, BoundsCover
<1>5. /\ j - 1 \in 0..l /\ j \in 0..l /\ c[j - 1] \in Nat /\ c[j] \in Nat /\ c[l] \in Nat
      /\ c[j] <= c[l]
  BY <1>1, Spread
<1>6. Opened(t, c[j - 1]) = Opened(t, c[0]) /\ Opened(t, c[0]) \in Int
  BY <1>1, <1>2, <1>5, OpenedIs
<1> HIDE DEF l
<1>7. rhs[j] \in Heads => rhs[j] \in Conditional
  <2>1. SUFFICES ASSUME rhs[j] \in Heads \ Conditional PROVE FALSE
    OBVIOUS
  <2>2. Opened(t, w) > Opened(t, c[j - 1])
    BY <1>3, <1>4, <2>1 DEF Stands, Deep
  <2> QED
    BY <1>6, <2>2
<1>8. rhs[j] \notin Heads => rhs[j] = "WHERE" /\ w = c[j]
  BY <1>3, <1>4, <1>5 DEF Stands
<1>9. CASE lhs = "where_cond"
  <2>1. rhs = <<"WHERE", "logical_exp_list">>
    <3>1. rhs # <<>>
      BY <1>1
    <3> QED
      BY <1>9, <3>1 DEF Chains
  <2>2. l = 2 /\ rhs[1] = "WHERE" /\ rhs[2] = "logical_exp_list" /\ 2 - 1 = 1
    BY <2>1 DEF l
  <2>3. j = 1
    <3>1. j \in {1, 2}
      BY <2>2
    <3>2. "logical_exp_list" \in Heads /\ "logical_exp_list" \notin Conditional
      BY DEF Heads, Conditional
    <3> QED
      BY <1>7, <2>2, <3>1, <3>2
  <2>4. w = c[1]
    BY <1>8, <2>2, <2>3, HeadsAre
  <2>5. ReportsFrom(risks, t, c[1], c[2])
    BY <1>1, <2>2
  <2> QED
    BY <2>2, <2>4, <2>5 DEF ReportsFrom
<1>10. CASE lhs # "where_cond"
  <2>1. /\ rhs[j] # "WHERE"
        /\ rhs[j] \in Conditional => \A i \in DOMAIN rhs : i > j => rhs[i] \in Clauses
    BY <1>1, <1>10 DEF Chains
  <2>2. rhs[j] \in Conditional
    BY <1>7, <1>8, <2>1
  <2>3. Plain(t, w, c[l])
    BY <1>1, <1>4, <1>5, ComparesArePlain
  <2>4. Plain(t, c[j], c[l])
    <3>1. \A i \in (c[j] + 1)..c[l] : i \in (w + 1)..c[l]
      BY <1>4, <1>5
    <3> QED
      BY <2>3, <3>1 DEF Plain
  <2>5. c[j] = c[l]
    BY <2>1, <2>2, <2>4, ClausesEmpty DEF l
  <2>6. Reports(risks, t, c[j - 1], c[j])
    BY <1>1, <2>2
  <2>7. ReportsFrom(risks, t, w, c[j])
    BY <1>4, <1>6, <2>6 DEF Reports
  <2> QED
    BY <2>5, <2>7 DEF ReportsFrom
<1> QED
  BY <1>9, <1>10

-----------------------------------------------------------------------------
(* What the tokens of an expression say.                                   *)

TrueConstant(name) == Match(PatternFile, "true constants", name)

\* A token of a part that ends with the b-th is a name that no point or brace follows there.
IsName(t, i, b) == t[i].kind \in NameTokens /\ (i < b => t[i + 1].kind \notin {"DOT", "O_BRACE"})

\* It is a value, or the brace of a function without arguments.
IsConst(t, i, b) ==
    \/ t[i].kind \in NumberTokens \cup TextTokens
    \/ t[i].kind = "O_BRACE" /\ i < b /\ t[i + 1].kind \in {"C_BRACE", "MULTIPLY"}

\* The fields of the expression that a part stands for, and whether there is a constant in it.
Fields(t, a, b) ==
    {x \in {t[i].text : i \in (a + 1)..b} :
        \E i \in (a + 1)..b : IsName(t, i, b) /\ ~TrueConstant(t[i].text) /\ x = t[i].text}

HasConst(t, a, b) ==
    \E i \in (a + 1)..b : IsConst(t, i, b) \/ (IsName(t, i, b) /\ TrueConstant(t[i].text))

\* Two parts that are read the same together as each for itself.
Apart(t, k) ==
    /\ t[k].kind \in NameTokens => t[k + 1].kind \notin {"DOT", "O_BRACE"}
    /\ t[k].kind = "O_BRACE" => t[k + 1].kind \notin {"C_BRACE", "MULTIPLY"}

\* What an expression begins and ends with.
Edges(t, a, b) ==
    /\ a < b
    /\ \A i \in (a + 1)..b : t[i].kind # "EQUAL"
    /\ t[a + 1].kind \notin {"C_BRACE", "MULTIPLY"}
    /\ t[b].kind # "O_BRACE"

LEMMA FieldsAre ==
    ASSUME NEW t, NEW a, NEW b, NEW x
    PROVE  x \in Fields(t, a, b) <=>
             \E i \in (a + 1)..b : IsName(t, i, b) /\ ~TrueConstant(t[i].text) /\ x = t[i].text
BY DEF Fields

LEMMA TokenAlone ==
    ASSUME NEW t, NEW a \in Nat, NEW k \in Nat, NEW b \in Nat, a <= k, k <= b,
           a < k /\ k < b => Apart(t, k), NEW i \in (a + 1)..k
    PROVE  (IsName(t, i, b) <=> IsName(t, i, k)) /\ (IsConst(t, i, b) <=> IsConst(t, i, k))
<1>1. NameTokens \cap (NumberTokens \cup TextTokens) = {}
  BY DEF NameTokens, NumberTokens, TextTokens
<1>2. CASE i < k
  <2>1. i < b
    BY <1>2
  <2> QED
    BY <1>2, <2>1 DEF IsName, IsConst
<1>3. CASE i = k
  <2>1. ~(i < k) /\ (i < b <=> k < b) /\ a < k
    BY <1>3
  <2> QED
    BY <1>3, <2>1 DEF IsName, IsConst, Apart
<1> QED
  BY <1>2, <1>3

LEMMA JoinFields ==
    ASSUME NEW t, NEW a \in Nat, NEW k \in Nat, NEW b \in Nat, a <= k, k <= b,
           a < k /\ k < b => Apart(t, k)
    PROVE  /\ Fields(t, a, b) = Fields(t, a, k) \cup Fields(t, k, b)
           /\ HasConst(t, a, b) <=> HasConst(t, a, k) \/ HasConst(t, k, b)
<1>1. \A i \in (a + 1)..k :
        (IsName(t, i, b) <=> IsName(t, i, k)) /\ (IsConst(t, i, b) <=> IsConst(t, i, k))
  BY TokenAlone
<1>2. (a + 1)..b = ((a + 1)..k) \cup ((k + 1)..b)
  OBVIOUS
<1>3. HasConst(t, a, b) <=> HasConst(t, a, k) \/ HasConst(t, k, b)
  BY <1>1, <1>2 DEF HasConst
<1>4. ASSUME NEW x PROVE x \in Fields(t, a, b) <=> x \in Fields(t, a, k) \cup Fields(t, k, b)
  BY <1>1, <1>2, FieldsAre
<1> QED
  BY <1>3, <1>4

\* The name of a function or a table, and a sign, are not part of what an expression says.
LEMMA DropName ==
    ASSUME NEW t, NEW a \in Nat, NEW b \in Nat, a + 1 < b, t[a + 1].kind \in NameTokens,
           t[a + 2].kind \in {"DOT", "O_BRACE"}
    PROVE  /\ Fields(t, a, b) = Fields(t, a + 1, b)
           /\ HasConst(t, a, b) <=> HasConst(t, a + 1, b)
<1>1. ~IsName(t, a + 1, b)
  <2>1. (a + 1) + 1 = a + 2
    OBVIOUS
  <2> QED
    BY <2>1 DEF IsName
<1>2. ~IsConst(t, a + 1, b)
  BY DEF IsConst, NameTokens, NumberTokens, TextTokens
<1>3. (a + 1)..b = {a + 1} \cup (((a + 1) + 1)..b)
  OBVIOUS
<1>4. HasConst(t, a, b) <=> HasConst(t, a + 1, b)
  BY <1>1, <1>2, <1>3 DEF HasConst
<1>5. ASSUME NEW x PROVE x \in Fields(t, a, b) <=> x \in Fields(t, a + 1, b)
  BY <1>1, <1>3, FieldsAre
<1> QED
  BY <1>4, <1>5

Silent == MathOperators \cup {"COMMA", "O_BRACE", "C_BRACE", "DOT", "CHAR_TYPE"}

LEMMA SilentIs ==
    ASSUME NEW t, NEW a \in Nat, t[a + 1].kind \in Silent
    PROVE  Fields(t, a, a + 1) = {} /\ ~HasConst(t, a, a + 1)
<1>1. (a + 1)..(a + 1) = {a + 1} /\ ~(a + 1 < a + 1)
  OBVIOUS
<1>2. t[a + 1].kind \notin NameTokens \cup NumberTokens \cup TextTokens
  BY DEF Silent, NameTokens, NumberTokens, TextTokens, MathOperators
<1>3. ~IsName(t, a + 1, a + 1) /\ ~IsConst(t, a + 1, a + 1)
  BY <1>1, <1>2 DEF IsName, IsConst
<1>4. \A x : x \notin Fields(t, a, a + 1)
  BY <1>1, <1>3, FieldsAre
<1> QED
  BY <1>1, <1>3, <1>4 DEF HasConst

LEMMA ConstantIs ==
    ASSUME NEW t, NEW a \in Nat, t[a + 1].kind \in NumberTokens \cup TextTokens
    PROVE  Fields(t, a, a + 1) = {} /\ HasConst(t, a, a + 1)
<1>1. (a + 1)..(a + 1) = {a + 1} /\ ~(a + 1 < a + 1)
  OBVIOUS
<1>2. t[a + 1].kind \notin NameTokens
  BY DEF NameTokens, NumberTokens, TextTokens
<1>3. ~IsName(t, a + 1, a + 1) /\ IsConst(t, a + 1, a + 1)
  BY <1>1, <1>2 DEF IsName, IsConst
<1>4. \A x : x \notin Fields(t, a, a + 1)
  BY <1>1, <1>3, FieldsAre
<1> QED
  BY <1>1, <1>3, <1>4 DEF HasConst

\* A part with its last token the only name, and no value.
Named(t, a, b) ==
    /\ a < b
    /\ \A i \in (a + 1)..b : (IsName(t, i, b) <=> i = b) /\ ~IsConst(t, i, b)

LEMMA NamedIs ==
    ASSUME NEW t, NEW a \in Nat, NEW b \in Nat, Named(t, a, b)
    PROVE  /\ Fields(t, a, b) = IF TrueConstant(t[b].text) THEN {} ELSE {t[b].text}
           /\ HasConst(t, a, b) <=> TrueConstant(t[b].text)
<1>1. b \in (a + 1)..b
  BY DEF Named
<1>2. HasConst(t, a, b) <=> TrueConstant(t[b].text)
  BY <1>1 DEF Named, HasConst
<1>3. ASSUME NEW x PROVE x \in Fields(t, a, b) <=> ~TrueConstant(t[b].text) /\ x = t[b].text
  BY <1>1, FieldsAre DEF Named
<1> QED
  BY <1>2, <1>3

LEMMA NameNamed ==
    ASSUME NEW t, NEW a \in Nat, t[a + 1].kind \in NameTokens
    PROVE  Named(t, a, a + 1) /\ Edges(t, a, a + 1)
<1>1. (a + 1)..(a + 1) = {a + 1} /\ ~(a + 1 < a + 1) /\ a < a + 1
  OBVIOUS
<1>2. IsName(t, a + 1, a + 1) /\ ~IsConst(t, a + 1, a + 1)
  BY <1>1 DEF IsName, IsConst, NameTokens, NumberTokens, TextTokens
<1> QED
  BY <1>1, <1>2 DEF Named, Edges, NameTokens

LEMMA PathNamed ==
    ASSUME NEW t, NEW a \in Nat, t[a + 1].kind \in NameTokens, t[a + 2].kind = "DOT",
           t[a + 3].kind \in NameTokens
    PROVE  Named(t, a, a + 3) /\ Edges(t, a, a + 3)
<1>1. /\ (a + 1)..(a + 3) = {a + 1, a + 2, a + 3} /\ a < a + 3 /\ (a + 1) + 1 = a + 2
      /\ (a + 2) + 1 = a + 3 /\ ~(a + 3 < a + 3) /\ a + 1 < a + 3 /\ a + 1 # a + 3 /\ a + 2 # a + 3
  OBVIOUS
<1>2. IsName(t, a + 3, a + 3) /\ ~IsName(t, a + 2, a + 3) /\ ~IsName(t, a + 1, a + 3)
  BY <1>1 DEF IsName, NameTokens
<1>3. \A i \in {a + 1, a + 2, a + 3} : ~IsConst(t, i, a + 3)
  BY <1>1 DEF IsConst, NameTokens, NumberTokens, TextTokens
<1>4. Named(t, a, a + 3)
  BY <1>1, <1>2, <1>3 DEF Named
<1>5. Edges(t, a, a + 3)
  BY <1>1 DEF Edges, NameTokens
<1> QED
  BY <1>4, <1>5

Operators == MathOperators \cup {"COMMA"}

LEMMA OperatorsAre ==
    /\ Operators \subseteq Silent
    /\ {"BASIC_OP", "O_BRACE", "C_BRACE", "CHAR_TYPE"} \subseteq Silent
    /\ Operators \cap ({"DOT", "O_BRACE", "C_BRACE", "EQUAL"} \cup NameTokens) = {}
BY DEF Operators, Silent, MathOperators, NameTokens

\* An expression, an operator and an expression.
LEMMA OperationSays ==
    ASSUME NEW t, NEW a \in Nat, NEW k \in Nat, NEW b \in Nat, Edges(t, a, k), Edges(t, k + 1, b),
           t[k + 1].kind \in Operators
    PROVE  /\ Fields(t, a, b) = Fields(t, a, k) \cup Fields(t, k + 1, b)
           /\ HasConst(t, a, b) <=> HasConst(t, a, k) \/ HasConst(t, k + 1, b)
           /\ Edges(t, a, b)
<1>1. a < k /\ k + 1 < b /\ a <= b /\ k < b
  BY DEF Edges
<1>2. Apart(t, k) /\ Apart(t, k + 1)
  BY OperatorsAre DEF Apart, Edges
<1>3. /\ Fields(t, a, b) = Fields(t, a, k) \cup Fields(t, k, b)
      /\ HasConst(t, a, b) <=> HasConst(t, a, k) \/ HasConst(t, k, b)
  BY <1>1, <1>2, JoinFields
<1>4. /\ Fields(t, k, b) = Fields(t, k, k + 1) \cup Fields(t, k + 1, b)
      /\ HasConst(t, k, b) <=> HasConst(t, k, k + 1) \/ HasConst(t, k + 1, b)
  BY <1>1, <1>2, JoinFields
<1>5. Fields(t, k, k + 1) = {} /\ ~HasConst(t, k, k + 1)
  BY OperatorsAre, SilentIs
<1>6. (a + 1)..b = ((a + 1)..k) \cup {k + 1} \cup (((k + 1) + 1)..b)
  BY <1>1
<1>7. Edges(t, a, b)
  BY <1>1, <1>6, OperatorsAre DEF Edges
<1> QED
  BY <1>3, <1>4, <1>5, <1>7

\* An operator and an expression.
LEMMA PrefixSays ==
    ASSUME NEW t, NEW a \in Nat, NEW b \in Nat, Edges(t, a + 1, b), t[a + 1].kind = "BASIC_OP"
    PROVE  /\ Fields(t, a, b) = Fields(t, a + 1, b)
           /\ HasConst(t, a, b) <=> HasConst(t, a + 1, b)
           /\ Edges(t, a, b)
<1>1. a < a + 1 /\ a + 1 < b /\ a <= a + 1 /\ a + 1 <= b /\ a + 1 \in Nat
  BY DEF Edges
<1>2. Apart(t, a + 1)
  BY DEF Apart, NameTokens
<1>3. /\ Fields(t, a, b) = Fields(t, a, a + 1) \cup Fields(t, a + 1, b)
      /\ HasConst(t, a, b) <=> HasConst(t, a, a + 1) \/ HasConst(t, a + 1, b)
  BY <1>1, <1>2, JoinFields
<1>4. Fields(t, a, a + 1) = {} /\ ~HasConst(t, a, a + 1)
  BY OperatorsAre, SilentIs
<1>5. (a + 1)..b = {a + 1} \cup (((a + 1) + 1)..b)
  BY <1>1
<1>6. Edges(t, a, b)
  BY <1>1, <1>5 DEF Edges
<1> QED
  BY <1>3, <1>4, <1>6

\* An expression in braces.
LEMMA BracesSay ==
    ASSUME NEW t, NEW a \in Nat, NEW k \in Nat, Edges(t, a + 1, k), t[a + 1].kind = "O_BRACE",
           t[k + 1].kind = "C_BRACE"
    PROVE  /\ Fields(t, a, k + 1) = Fields(t, a + 1, k)
           /\ HasConst(t, a, k + 1) <=> HasConst(t, a + 1, k)
           /\ Edges(t, a, k + 1)
<1>1. a < a + 1 /\ a + 1 < k /\ k < k + 1 /\ a <= k + 1 /\ a + 1 < k + 1
  BY DEF Edges
<1>2. Apart(t, a + 1) /\ Apart(t, k)
  BY DEF Apart, Edges, NameTokens
<1>3. /\ Fields(t, a, k + 1) = Fields(t, a, a + 1) \cup Fields(t, a + 1, k + 1)
      /\ HasConst(t, a, k + 1) <=> HasConst(t, a, a + 1) \/ HasConst(t, a + 1, k + 1)
  BY <1>1, <1>2, JoinFields
<1>4. /\ Fields(t, a + 1, k + 1) = Fields(t, a + 1, k) \cup Fields(t, k, k + 1)
      /\ HasConst(t, a + 1, k + 1) <=> HasConst(t, a + 1, k) \/ HasConst(t, k, k + 1)
  BY <1>1, <1>2, JoinFields
<1>5. /\ Fields(t, a, a + 1) = {} /\ ~HasConst(t, a, a + 1)
      /\ Fields(t, k, k + 1) = {} /\ ~HasConst(t, k, k + 1)
  BY OperatorsAre, SilentIs
<1>6. (a + 1)..(k + 1) = {a + 1} \cup (((a + 1) + 1)..k) \cup {k + 1}
  BY <1>1
<1>7. Edges(t, a, k + 1)
  BY <1>1, <1>6 DEF Edges
<1> QED
  BY <1>3, <1>4, <1>5, <1>7

\* A function with arguments.
LEMMA CallSays ==
    ASSUME NEW t, NEW a \in Nat, NEW k \in Nat, Edges(t, a + 2, k),
           t[a + 1].kind \in {"STRING", "CHAR_TYPE"}, t[a + 2].kind = "O_BRACE",
           t[k + 1].kind = "C_BRACE"
    PROVE  /\ Fields(t, a, k + 1) = Fields(t, a + 2, k)
           /\ HasConst(t, a, k + 1) <=> HasConst(t, a + 2, k)
           /\ Edges(t, a, k + 1)
<1>1. a < a + 1 /\ a + 2 < k /\ a + 1 < k + 1 /\ a <= k + 1 /\ (a + 1) + 1 = a + 2 /\ a + 1 \in Nat
  BY DEF Edges
<1>2. /\ Fields(t, a + 1, k + 1) = Fields(t, a + 2, k)
      /\ HasConst(t, a + 1, k + 1) <=> HasConst(t, a + 2, k)
      /\ Edges(t, a + 1, k + 1)
  <2> DEFINE d == a + 1
  <2>1. d \in Nat /\ d + 1 = a + 2 /\ Edges(t, d + 1, k) /\ t[d + 1].kind = "O_BRACE"
    BY <1>1
  <2> HIDE DEF d
  <2>2. /\ Fields(t, d, k + 1) = Fields(t, d + 1, k)
        /\ HasConst(t, d, k + 1) <=> HasConst(t, d + 1, k)
        /\ Edges(t, d, k + 1)
    BY <2>1, BracesSay
  <2> QED
    BY <2>1, <2>2 DEF d
<1>3. /\ Fields(t, a, k + 1) = Fields(t, a + 1, k + 1)
      /\ HasConst(t, a, k + 1) <=> HasConst(t, a + 1, k + 1)
  <2>1. CASE t[a + 1].kind = "STRING"
    <3>1. t[a + 1].kind \in NameTokens /\ t[a + 2].kind \in {"DOT", "O_BRACE"}
      BY <2>1 DEF NameTokens
    <3> QED
      BY <1>1, <3>1, DropName
  <2>2. CASE t[a + 1].kind = "CHAR_TYPE"
    <3>1. Apart(t, a + 1)
      BY <2>2 DEF Apart, NameTokens
    <3>2. /\ Fields(t, a, k + 1) = Fields(t, a, a + 1) \cup Fields(t, a + 1, k + 1)
          /\ HasConst(t, a, k + 1) <=> HasConst(t, a, a + 1) \/ HasConst(t, a + 1, k + 1)
      BY <1>1, <3>1, JoinFields
    <3>3. Fields(t, a, a + 1) = {} /\ ~HasConst(t, a, a + 1)
      BY <2>2, OperatorsAre, SilentIs
    <3> QED
      BY <3>2, <3>3
  <2> QED
    BY <2>1, <2>2
<1>4. (a + 1)..(k + 1) = {a + 1} \cup (((a + 1) + 1)..(k + 1))
  BY <1>1
<1>5. Edges(t, a, k + 1)
  BY <1>1, <1>2, <1>4 DEF Edges
<1> QED
  BY <1>2, <1>3, <1>5

\* A function without arguments.
LEMMA EmptyCallSays ==
    ASSUME NEW t, NEW a \in Nat, NEW b \in Nat, t[a + 1].kind \in {"STRING", "CHAR_TYPE"},
           t[a + 2].kind = "O_BRACE", t[b].kind = "C_BRACE",
           b = a + 3 \/ (b = a + 4 /\ t[a + 3].kind = "MULTIPLY")
    PROVE  Fields(t, a, b) = {} /\ HasConst(t, a, b) /\ Edges(t, a, b)
<1>1. /\ (a + 1) + 1 = a + 2 /\ (a + 2) + 1 = a + 3 /\ a < b
      /\ a + 1 \in (a + 1)..b /\ a + 2 \in (a + 1)..b /\ a + 1 < b /\ a + 2 < b
      /\ \A i \in (a + 1)..b : i = a + 1 \/ i = a + 2 \/ i = a + 3 \/ i = b
  OBVIOUS
<1>2. t[a + 3].kind \in {"MULTIPLY", "C_BRACE"}
  OBVIOUS
<1>3. \A i \in (a + 1)..b : ~IsName(t, i, b)
  BY <1>1, <1>2 DEF IsName, NameTokens
<1>4. IsConst(t, a + 2, b)
  BY <1>1, <1>2 DEF IsConst
<1>5. Edges(t, a, b)
  BY <1>1, <1>2 DEF Edges
<1>6. \A x : x \notin Fields(t, a, b)
  BY <1>3, FieldsAre
<1> QED
  BY <1>1, <1>4, <1>5, <1>6 DEF HasConst

-----------------------------------------------------------------------------
(* What the actions make of them.                                          *)

ExpressionParts == {"fields", "has_const", "const_type", "str_length"}

\* A memory has an expression with these fields, and with a constant or not.
Gives(n, e, fields, const) ==
    /\ n.value = e /\ e \in DOMAIN n.objects /\ DOMAIN n.objects[e] = ExpressionParts
    /\ n.objects[e].fields = fields /\ n.objects[e].has_const = const

LEMMA NewGives ==
    ASSUME NEW m, IsMemory(m)
    PROVE  /\ Gives(NewExpression(m), m.made + 1, {}, FALSE)
           /\ DOMAIN NewExpression(m) = MemoryFields
           /\ \A o \in DOMAIN m.objects : /\ NewExpression(m).objects[o] = m.objects[o]
                                          /\ o # m.made + 1 /\ o \in DOMAIN NewExpression(m).objects
BY DEF NewExpression, New, Gives, ExpressionParts, IsMemory, MemoryFields

LEMMA IntegerGives ==
    ASSUME NEW m, DOMAIN m = MemoryFields, NEW e, Gives(m, e, {}, FALSE)
    PROVE  Gives(AddInteger(m, e), e, {}, TRUE)
BY DEF AddInteger, Gives, ExpressionParts, MemoryFields

LEMMA TextGives ==
    ASSUME NEW m, DOMAIN m = MemoryFields, NEW e, Gives(m, e, {}, FALSE), NEW length
    PROVE  /\ Gives(AddString(m, e, length), e, {}, TRUE)
           /\ DOMAIN AddString(m, e, length) = MemoryFields
<1> DEFINE x == m.objects[e]
           z == [x EXCEPT !.has_const = TRUE,
                          !.const_type = IF @ = "Undef" THEN "String" ELSE @,
                          !.str_length = CASE x.const_type = "Undef" -> length
                                           [] x.const_type = "String" -> @ + length
                                           [] OTHER -> @]
<1>1. AddString(m, e, length) = [m EXCEPT !.objects[e] = z]
  BY DEF AddString
<1>2. DOMAIN z = ExpressionParts /\ z.fields = {} /\ z.has_const = TRUE
  BY DEF Gives, ExpressionParts
<1> HIDE DEF z
<1> QED
  BY <1>1, <1>2 DEF Gives, MemoryFields

LEMMA DeletedGives ==
    ASSUME NEW m, DOMAIN m = MemoryFields, NEW e, NEW fields, NEW const, Gives(m, e, fields, const),
           NEW s, s # e
    PROVE  Gives(Delete(m, s), e, fields, const)
BY DEF Delete, Gives, MemoryFields

LEMMA FieldGives ==
    ASSUME NEW m, DOMAIN m = MemoryFields, NEW e, Gives(m, e, {}, FALSE), NEW s, s # e
    PROVE  Gives(AddField(m, e, s), e, {m.objects[s].str_value}, FALSE)
<1> DEFINE k == [m EXCEPT !.objects[e].fields = @ \cup {m.objects[s].str_value}]
<1>1. Gives(k, e, {m.objects[s].str_value}, FALSE) /\ DOMAIN k = MemoryFields
  BY DEF Gives, ExpressionParts, MemoryFields
<1>2. AddField(m, e, s) = Delete(k, s)
  BY DEF AddField
<1> HIDE DEF k
<1> QED
  BY <1>1, <1>2, DeletedGives

LEMMA AddGives ==
    ASSUME NEW m, DOMAIN m = MemoryFields, NEW e \in DOMAIN m.objects, NEW f, f # e,
           DOMAIN m.objects[e] = ExpressionParts
    PROVE  Gives(Add(m, e, f), e, m.objects[e].fields \cup m.objects[f].fields,
                 m.objects[e].has_const \/ m.objects[f].has_const)
<1> DEFINE x == m.objects[e]
           y == m.objects[f]
           z == [x EXCEPT !.fields = @ \cup y.fields,
                          !.has_const = @ \/ y.has_const,
                          !.str_length = IF y.const_type = "String" /\ y.str_length > @
                                           THEN y.str_length ELSE @]
           k == [m EXCEPT !.value = e, !.objects[e] = z]
<1>1. Add(m, e, f) = Delete(k, f)
  BY DEF Add
<1>2. /\ DOMAIN z = ExpressionParts /\ z.fields = x.fields \cup y.fields
      /\ z.has_const = (x.has_const \/ y.has_const)
  BY DEF ExpressionParts
<1> HIDE DEF z
<1>3. /\ k.value = e /\ e \in DOMAIN k.objects /\ k.objects[e] = z /\ DOMAIN k = MemoryFields
  BY DEF MemoryFields
<1> HIDE DEF k
<1>4. Gives(k, e, x.fields \cup y.fields, x.has_const \/ y.has_const)
  BY <1>2, <1>3 DEF Gives
<1>5. Gives(Delete(k, f), e, x.fields \cup y.fields, x.has_const \/ y.has_const)
  <2> DEFINE F == x.fields \cup y.fields
             C == x.has_const \/ y.has_const
  <2> HIDE DEF F, C
  <2>1. Gives(k, e, F, C)
    BY <1>4 DEF F, C
  <2>2. Gives(Delete(k, f), e, F, C)
    BY <1>3, <2>1, DeletedGives
  <2> QED
    BY <2>2 DEF F, C
<1> QED
  BY <1>1, <1>5

\* An object is the expression of a part, or the string of a token.
Says(m, v, t, a, b) ==
    /\ v \in DOMAIN m.objects /\ DOMAIN m.objects[v] = ExpressionParts
    /\ m.objects[v].fields = Fields(t, a, b)
    /\ m.objects[v].has_const \in BOOLEAN
    /\ m.objects[v].has_const = TRUE <=> HasConst(t, a, b)

Writes(m, v, name) == v \in DOMAIN m.objects /\ m.objects[v].str_value = name

\* The value of a side's symbol, for a part without a subquery.
SideMeans(m, t, s, v, a, b) ==
    /\ Edges(t, a, b)
    /\ s = "table_field" => Named(t, a, b) /\ Writes(m, v, t[b].text)
    /\ s = "simple_fn" => Fields(t, a, b) = {} /\ HasConst(t, a, b)
    /\ s \notin {"table_field", "simple_fn"} => Says(m, v, t, a, b)

\* The values of a right-hand side without a subquery.
Understood(m, t, rhs, v, c) ==
    \A j \in DOMAIN rhs :
        /\ j \in Nat /\ c[j - 1] \in Nat /\ c[j] \in Nat
        /\ rhs[j] \notin Heads => c[j] = c[j - 1] + 1 /\ t[c[j]].kind = rhs[j]
        /\ rhs[j] \in Sides => SideMeans(m, t, rhs[j], v[j], c[j - 1], c[j])
        /\ rhs[j] \in NameTokens => Writes(m, v[j], t[c[j]].text)

LEMMA TokensNoHeads ==
    /\ Operators \cap Heads = {} /\ NameTokens \cap Heads = {} /\ NumberTokens \cap Heads = {}
    /\ TextTokens \cap Heads = {} /\ {"O_BRACE", "C_BRACE", "DOT", "CHAR_TYPE"} \cap Heads = {}
    /\ "BASIC_OP" \in Operators /\ "MULTIPLY" \in Operators /\ "COMMA" \in Operators
    /\ MathOperators \subseteq Operators
BY DEF Operators, MathOperators, NameTokens, NumberTokens, TextTokens, Heads

LEMMA SaysStill ==
    ASSUME NEW m, NEW v, NEW t, NEW a, NEW b, Says(m, v, t, a, b), NEW n, NEW w, NEW x, NEW y,
           n.objects = m.objects, w = v,
           Fields(t, x, y) = Fields(t, a, b), HasConst(t, x, y) <=> HasConst(t, a, b)
    PROVE  Says(n, w, t, x, y)
BY DEF Says

LEMMA GivesSays ==
    ASSUME NEW n, NEW e, NEW fields, NEW const \in BOOLEAN, Gives(n, e, fields, const),
           NEW t, NEW a, NEW b, fields = Fields(t, a, b), const = TRUE <=> HasConst(t, a, b)
    PROVE  Says(n, n.value, t, a, b)
BY DEF Gives, Says

\* Two expressions are added.
LEMMA SidesAdded ==
    ASSUME NEW m, IsMemory(m), NEW t, NEW a \in Nat, NEW k \in Nat, NEW b \in Nat,
           NEW e, NEW f, e # f, Says(m, e, t, a, k), Says(m, f, t, k + 1, b),
           Edges(t, a, k), Edges(t, k + 1, b), t[k + 1].kind \in Operators
    PROVE  Says(Add(m, e, f), Add(m, e, f).value, t, a, b) /\ Edges(t, a, b)
<1> DEFINE n == Add(m, e, f)
<1>3. /\ Fields(t, a, b) = Fields(t, a, k) \cup Fields(t, k + 1, b)
      /\ HasConst(t, a, b) <=> HasConst(t, a, k) \/ HasConst(t, k + 1, b)
      /\ Edges(t, a, b)
  BY OperationSays
<1>1. Says(m, e, t, a, k) /\ Says(m, f, t, k + 1, b)
  OBVIOUS
<1>4. Gives(n, e, m.objects[e].fields \cup m.objects[f].fields,
            m.objects[e].has_const \/ m.objects[f].has_const)
  <2>1. DOMAIN m = MemoryFields /\ e \in DOMAIN m.objects /\ DOMAIN m.objects[e] = ExpressionParts
    BY <1>1 DEF Says, IsMemory, MemoryFields
  <2> QED
    BY <2>1, AddGives
<1> HIDE DEF n
<1>5. Says(n, n.value, t, a, b)
  <2> DEFINE F == m.objects[e].fields \cup m.objects[f].fields
             C == m.objects[e].has_const \/ m.objects[f].has_const
  <2>1. F = Fields(t, a, b)
    BY <1>1, <1>3 DEF Says
  <2>2. C \in BOOLEAN /\ (C = TRUE <=> HasConst(t, a, b))
    <3>1. /\ m.objects[e].has_const \in BOOLEAN /\ m.objects[f].has_const \in BOOLEAN
          /\ m.objects[e].has_const = TRUE <=> HasConst(t, a, k)
          /\ m.objects[f].has_const = TRUE <=> HasConst(t, k + 1, b)
      BY <1>1 DEF Says
    <3> QED
      BY <1>3, <3>1
  <2>3. Gives(n, e, F, C)
    BY <1>4
  <2> HIDE DEF F, C
  <2> QED
    BY <2>1, <2>2, <2>3, GivesSays
<1> QED
  BY <1>3, <1>5 DEF n

Others == Sides \ {"table_field", "simple_fn"}

\* math_exp: a field, behind a sign, with an expression in front of it, or in braces.
LEMMA FieldAlone ==
    ASSUME NEW m, IsMemory(m), NEW v, NEW t, NEW c, NEW s \in Others,
           Understood(m, t, <<s>>, v, c),
           NEW n, n = [m EXCEPT !.value = v[1]], NEW lhs \in Others
    PROVE  SideMeans(n, t, lhs, n.value, c[0], c[1])
<1>1. SideMeans(m, t, s, v[1], c[1 - 1], c[1]) /\ 1 - 1 = 0
  BY DEF Understood, Others
<1>2. SideMeans(m, t, s, v[1], c[0], c[1])
  BY <1>1
<1>3. n.objects = m.objects /\ n.value = v[1]
  BY DEF IsMemory
<1> QED
  BY <1>2, <1>3, SaysStill DEF SideMeans, Others

LEMMA FieldSigned ==
    ASSUME NEW m, IsMemory(m), NEW v, NEW t, NEW c, NEW s \in Others,
           Understood(m, t, <<"BASIC_OP", s>>, v, c),
           NEW n, n = [m EXCEPT !.value = v[2]], NEW lhs \in Others
    PROVE  SideMeans(n, t, lhs, n.value, c[0], c[2])
<1>1. /\ SideMeans(m, t, s, v[2], c[2 - 1], c[2]) /\ 2 - 1 = 1 /\ 1 - 1 = 0
      /\ c[1] = c[1 - 1] + 1 /\ t[c[1]].kind = "BASIC_OP" /\ c[1 - 1] \in Nat /\ c[2] \in Nat
  BY TokensNoHeads DEF Understood, Others
<1> DEFINE a == c[0]
           b == c[2]
<1>2. /\ SideMeans(m, t, s, v[2], a + 1, b) /\ t[a + 1].kind = "BASIC_OP"
      /\ a \in Nat /\ b \in Nat
  BY <1>1
<1> HIDE DEF a, b
<1>3. n.objects = m.objects /\ n.value = v[2]
  BY DEF IsMemory
<1>4. /\ Fields(t, a, b) = Fields(t, a + 1, b)
      /\ HasConst(t, a, b) <=> HasConst(t, a + 1, b)
      /\ Edges(t, a, b)
  BY <1>2, PrefixSays DEF SideMeans
<1>5. SideMeans(n, t, lhs, n.value, a, b)
  BY <1>2, <1>3, <1>4, SaysStill DEF SideMeans, Others
<1> QED
  BY <1>5 DEF a, b

LEMMA FieldsAdded ==
    ASSUME NEW m, IsMemory(m), NEW v, NEW t, NEW c, NEW rhs, {1, 2, 3} \subseteq DOMAIN rhs,
           rhs[1] \in Others, rhs[2] \in Operators, rhs[3] \in Others,
           Understood(m, t, rhs, v, c), Held(m, v, rhs),
           NEW n, n = Add(m, v[1], v[3]), NEW lhs \in Others
    PROVE  SideMeans(n, t, lhs, n.value, c[0], c[3])
<1>1. SideMeans(m, t, rhs[1], v[1], c[1 - 1], c[1]) /\ c[1 - 1] \in Nat /\ c[1] \in Nat
  BY DEF Understood, Others
<1>2. SideMeans(m, t, rhs[3], v[3], c[3 - 1], c[3]) /\ c[3] \in Nat
  BY DEF Understood, Others
<1>3. c[2] = c[2 - 1] + 1 /\ t[c[2]].kind = rhs[2]
  BY TokensNoHeads DEF Understood
<1> DEFINE a == c[0]
           k == c[1]
           b == c[3]
<1>4. /\ SideMeans(m, t, rhs[1], v[1], a, k) /\ SideMeans(m, t, rhs[3], v[3], k + 1, b)
      /\ t[k + 1].kind \in Operators /\ a \in Nat /\ k \in Nat /\ b \in Nat
  <2>1. 1 - 1 = 0 /\ 2 - 1 = 1 /\ 3 - 1 = 2
    OBVIOUS
  <2> QED
    BY <1>1, <1>2, <1>3, <2>1
<1>5. v[1] # v[3]
  <2>1. v[1] \in DOMAIN m.objects
    BY <1>1 DEF SideMeans, Says, Others
  <2>2. v[1] # NoValue
    BY <2>1 DEF IsMemory, NoValue
  <2> QED
    BY <2>2 DEF Held
<1>6. Says(n, n.value, t, a, b) /\ Edges(t, a, b)
  <2>1. /\ Says(m, v[1], t, a, k) /\ Says(m, v[3], t, k + 1, b)
        /\ Edges(t, a, k) /\ Edges(t, k + 1, b)
    BY <1>4 DEF SideMeans, Others
  <2> HIDE DEF a, k, b
  <2> QED
    BY <1>4, <1>5, <2>1, SidesAdded
<1> QED
  BY <1>6 DEF SideMeans, Others

LEMMA FieldBraced ==
    ASSUME NEW m, IsMemory(m), NEW v, NEW t, NEW c, NEW rhs, {1, 2, 3} \subseteq DOMAIN rhs,
           rhs[1] = "O_BRACE", rhs[2] \in Others, rhs[3] = "C_BRACE",
           Understood(m, t, rhs, v, c),
           NEW n, n = [m EXCEPT !.value = v[2]], NEW lhs \in Others
    PROVE  SideMeans(n, t, lhs, n.value, c[0], c[3])
<1>1. SideMeans(m, t, rhs[2], v[2], c[2 - 1], c[2]) /\ c[2] \in Nat
  BY DEF Understood, Others
<1>2. c[1] = c[1 - 1] + 1 /\ t[c[1]].kind = "O_BRACE" /\ c[1 - 1] \in Nat
  BY TokensNoHeads DEF Understood
<1>3. c[3] = c[3 - 1] + 1 /\ t[c[3]].kind = "C_BRACE"
  BY TokensNoHeads DEF Understood
<1> DEFINE a == c[0]
           k == c[2]
<1>4. /\ SideMeans(m, t, rhs[2], v[2], a + 1, k) /\ t[a + 1].kind = "O_BRACE"
      /\ t[k + 1].kind = "C_BRACE" /\ a \in Nat /\ k \in Nat /\ c[3] = k + 1
  <2>1. 1 - 1 = 0 /\ 2 - 1 = 1 /\ 3 - 1 = 2
    OBVIOUS
  <2> QED
    BY <1>1, <1>2, <1>3, <2>1
<1> HIDE DEF a, k
<1>5. n.objects = m.objects /\ n.value = v[2]
  BY DEF IsMemory
<1>6. /\ Fields(t, a, k + 1) = Fields(t, a + 1, k)
      /\ HasConst(t, a, k + 1) <=> HasConst(t, a + 1, k)
      /\ Edges(t, a, k + 1)
  BY <1>4, BracesSay DEF SideMeans
<1>7. SideMeans(n, t, lhs, n.value, a, k + 1)
  BY <1>4, <1>5, <1>6, SaysStill DEF SideMeans, Others
<1> QED
  BY <1>4, <1>7 DEF a

\* fn: the value of the arguments, whatever the callback finds.
LEMMA CallAgain ==
    ASSUME NEW m, NEW v, NEW t, NEW c, NEW name \in {"STRING", "CHAR_TYPE"},
           Understood(m, t, <<name, "O_BRACE", "fn_args", "C_BRACE">>, v, c),
           NEW n, n.objects = m.objects, n.value = v[3]
    PROVE  SideMeans(n, t, "fn", n.value, c[0], c[4])
<1>1. /\ SideMeans(m, t, "fn_args", v[3], c[3 - 1], c[3])
      /\ 1 - 1 = 0 /\ 2 - 1 = 1 /\ 3 - 1 = 2 /\ 4 - 1 = 3
      /\ c[1] = c[1 - 1] + 1 /\ t[c[1]].kind = name /\ c[1 - 1] \in Nat /\ c[3] \in Nat
      /\ c[2] = c[2 - 1] + 1 /\ t[c[2]].kind = "O_BRACE"
      /\ c[4] = c[4 - 1] + 1 /\ t[c[4]].kind = "C_BRACE"
  <2>1. name \notin Heads /\ "fn_args" \in Sides
    BY TokensNoHeads DEF NameTokens, Sides
  <2> QED
    BY <2>1, TokensNoHeads DEF Understood
<1> DEFINE a == c[0]
           k == c[3]
<1>2. /\ SideMeans(m, t, "fn_args", v[3], a + 2, k) /\ t[a + 1].kind = name
      /\ t[a + 2].kind = "O_BRACE" /\ t[k + 1].kind = "C_BRACE"
      /\ a \in Nat /\ k \in Nat /\ c[4] = k + 1
  <2>1. c[2] = a + 2 /\ c[1] = a + 1
    BY <1>1
  <2> QED
    BY <1>1, <2>1
<1> HIDE DEF a, k
<1>3. /\ Fields(t, a, k + 1) = Fields(t, a + 2, k)
      /\ HasConst(t, a, k + 1) <=> HasConst(t, a + 2, k)
      /\ Edges(t, a, k + 1)
  BY <1>2, CallSays DEF SideMeans
<1>4. SideMeans(n, t, "fn", n.value, a, k + 1)
  BY <1>2, <1>3, SaysStill DEF SideMeans
<1> QED
  BY <1>2, <1>4 DEF a

\* simple_fn, which has no value.
LEMMA EmptyCallAgain ==
    ASSUME NEW m, NEW v, NEW t, NEW c, NEW n
    PROVE  /\ \A name \in {"STRING", "CHAR_TYPE"} :
                Understood(m, t, <<name, "O_BRACE", "C_BRACE">>, v, c) =>
                    SideMeans(n, t, "simple_fn", n.value, c[0], c[3])
           /\ Understood(m, t, <<"STRING", "O_BRACE", "MULTIPLY", "C_BRACE">>, v, c) =>
                SideMeans(n, t, "simple_fn", n.value, c[0], c[4])
<1>1. ASSUME NEW name \in {"STRING", "CHAR_TYPE"},
             Understood(m, t, <<name, "O_BRACE", "C_BRACE">>, v, c)
      PROVE  SideMeans(n, t, "simple_fn", n.value, c[0], c[3])
  <2>1. /\ c[1] = c[1 - 1] + 1 /\ t[c[1]].kind = name /\ c[1 - 1] \in Nat /\ c[3] \in Nat
        /\ c[2] = c[2 - 1] + 1 /\ t[c[2]].kind = "O_BRACE"
        /\ c[3] = c[3 - 1] + 1 /\ t[c[3]].kind = "C_BRACE"
        /\ 1 - 1 = 0 /\ 2 - 1 = 1 /\ 3 - 1 = 2
    <3>1. name \notin Heads
      BY TokensNoHeads DEF NameTokens
    <3> QED
      BY <1>1, <3>1, TokensNoHeads DEF Understood
  <2> DEFINE a == c[0]
             b == c[3]
  <2>2. c[1] = a + 1 /\ c[2] = a + 2 /\ b = a + 3 /\ a \in Nat
    BY <2>1
  <2>3. t[a + 1].kind = name /\ t[a + 2].kind = "O_BRACE" /\ t[b].kind = "C_BRACE"
    BY <2>1, <2>2
  <2> HIDE DEF a, b
  <2>4. Fields(t, a, b) = {} /\ HasConst(t, a, b) /\ Edges(t, a, b)
    BY <2>2, <2>3, EmptyCallSays
  <2>5. SideMeans(n, t, "simple_fn", n.value, a, b)
    BY <2>4 DEF SideMeans
  <2> QED
    BY <2>5 DEF a, b
<1>2. ASSUME Understood(m, t, <<"STRING", "O_BRACE", "MULTIPLY", "C_BRACE">>, v, c)
      PROVE  SideMeans(n, t, "simple_fn", n.value, c[0], c[4])
  <2>1. /\ c[1] = c[1 - 1] + 1 /\ t[c[1]].kind = "STRING" /\ c[1 - 1] \in Nat /\ c[4] \in Nat
        /\ c[2] = c[2 - 1] + 1 /\ t[c[2]].kind = "O_BRACE"
        /\ c[3] = c[3 - 1] + 1 /\ t[c[3]].kind = "MULTIPLY"
        /\ c[4] = c[4 - 1] + 1 /\ t[c[4]].kind = "C_BRACE"
        /\ 1 - 1 = 0 /\ 2 - 1 = 1 /\ 3 - 1 = 2 /\ 4 - 1 = 3
    <3>1. "STRING" \notin Heads /\ "MULTIPLY" \notin Heads
      BY DEF Heads
    <3> QED
      BY <1>2, <3>1, TokensNoHeads DEF Understood
  <2> DEFINE a == c[0]
             b == c[4]
  <2>2. c[1] = a + 1 /\ c[2] = a + 2 /\ c[3] = a + 3 /\ b = a + 4 /\ a \in Nat
    BY <2>1
  <2>3. /\ t[a + 1].kind = "STRING" /\ t[a + 2].kind = "O_BRACE" /\ t[a + 3].kind = "MULTIPLY"
        /\ t[b].kind = "C_BRACE"
    BY <2>1, <2>2
  <2> HIDE DEF a, b
  <2>4. Fields(t, a, b) = {} /\ HasConst(t, a, b) /\ Edges(t, a, b)
    BY <2>2, <2>3, EmptyCallSays
  <2>5. SideMeans(n, t, "simple_fn", n.value, a, b)
    BY <2>4 DEF SideMeans
  <2> QED
    BY <2>5 DEF a, b
<1> QED
  BY <1>1, <1>2

\* An action that makes an expression for a part.
LEMMA MadeMeans ==
    ASSUME NEW n, NEW e, NEW fields, NEW const \in BOOLEAN, Gives(n, e, fields, const),
           NEW t, NEW a, NEW b, fields = Fields(t, a, b), const = TRUE <=> HasConst(t, a, b),
           Edges(t, a, b), NEW lhs \in Others
    PROVE  SideMeans(n, t, lhs, n.value, a, b)
BY GivesSays DEF SideMeans, Others

\* field: a column, or a name that stands for a constant.
LEMMA ColumnAgain ==
    ASSUME NEW m, IsMemory(m), NEW v, NEW t, NEW c, NEW rhs, {1} \subseteq DOMAIN rhs,
           rhs[1] = "table_field", Understood(m, t, rhs, v, c),
           NEW n, n = Act("field", v, m), NEW lhs \in Others
    PROVE  SideMeans(n, t, lhs, n.value, c[0], c[1])
<1> DEFINE a == c[0]
           b == c[1]
           name == t[b].text
           new == NewExpression(m)
           x == m.made + 1
<1>1. SideMeans(m, t, "table_field", v[1], a, b) /\ a \in Nat /\ b \in Nat
  <2>1. SideMeans(m, t, "table_field", v[1], c[1 - 1], c[1]) /\ c[1 - 1] \in Nat /\ c[1] \in Nat
    BY DEF Understood, Sides
  <2>2. 1 - 1 = 0
    OBVIOUS
  <2> QED
    BY <2>1, <2>2
<1>2. Named(t, a, b) /\ Edges(t, a, b) /\ v[1] \in DOMAIN m.objects
  BY <1>1 DEF SideMeans, Writes
<1>3. m.objects[v[1]].str_value = name
  BY <1>1 DEF SideMeans, Writes
<1> HIDE DEF a, b, name
<1>4. /\ Fields(t, a, b) = IF TrueConstant(name) THEN {} ELSE {name}
      /\ HasConst(t, a, b) <=> TrueConstant(name)
  BY <1>1, <1>2, NamedIs DEF name
<1>5. clb_check_true_constant(m, v[1]) = TrueConstant(name)
  BY <1>3, Zenon DEF clb_check_true_constant, TrueConstant, NameOf
<1>6. n = IF TrueConstant(name) THEN AddString(new, x, 4) ELSE AddField(new, x, v[1])
  BY <1>5 DEF Act
<1>7. /\ Gives(new, x, {}, FALSE) /\ DOMAIN new = MemoryFields
      /\ new.objects[v[1]] = m.objects[v[1]] /\ v[1] # x
  BY <1>2, NewGives
<1> HIDE DEF new, x
<1>8. CASE TrueConstant(name)
  <2>1. Gives(n, x, {}, TRUE)
    BY <1>6, <1>7, <1>8, TextGives
  <2>2. {} = Fields(t, a, b) /\ (TRUE = TRUE <=> HasConst(t, a, b))
    BY <1>4, <1>8
  <2>3. SideMeans(n, t, lhs, n.value, a, b)
    BY <1>2, <2>1, <2>2, MadeMeans
  <2> QED
    BY <2>3 DEF a, b
<1>9. CASE ~TrueConstant(name)
  <2>1. Gives(n, x, {name}, FALSE)
    BY <1>3, <1>6, <1>7, <1>9, FieldGives
  <2>2. {name} = Fields(t, a, b) /\ (FALSE = TRUE <=> HasConst(t, a, b))
    BY <1>4, <1>9
  <2>3. SideMeans(n, t, lhs, n.value, a, b)
    BY <1>2, <2>1, <2>2, MadeMeans
  <2> QED
    BY <2>3 DEF a, b
<1> QED
  BY <1>8, <1>9

\* field: a function without arguments.
LEMMA NoArgumentsAgain ==
    ASSUME NEW m, IsMemory(m), NEW v, NEW t, NEW c, NEW rhs, {1} \subseteq DOMAIN rhs,
           rhs[1] = "simple_fn", Understood(m, t, rhs, v, c),
           NEW n, n = Act("no_args", v, m), NEW lhs \in Others
    PROVE  SideMeans(n, t, lhs, n.value, c[0], c[1])
<1> DEFINE a == c[0]
           b == c[1]
           new == NewExpression(m)
           x == m.made + 1
<1>1. SideMeans(m, t, "simple_fn", v[1], a, b)
  <2>1. SideMeans(m, t, "simple_fn", v[1], c[1 - 1], c[1])
    BY DEF Understood, Sides
  <2>2. 1 - 1 = 0
    OBVIOUS
  <2> QED
    BY <2>1, <2>2
<1> HIDE DEF a, b
<1>2. Fields(t, a, b) = {} /\ HasConst(t, a, b) /\ Edges(t, a, b)
  BY <1>1 DEF SideMeans
<1>3. n = AddString(new, x, 4)
  BY DEF Act
<1>4. Gives(new, x, {}, FALSE) /\ DOMAIN new = MemoryFields
  BY NewGives
<1> HIDE DEF new, x
<1>5. Gives(n, x, {}, TRUE)
  BY <1>3, <1>4, TextGives
<1>6. SideMeans(n, t, lhs, n.value, a, b)
  BY <1>2, <1>5, MadeMeans
<1> QED
  BY <1>6 DEF a, b

\* const_value: a number or a text.
LEMMA ValueAgain ==
    ASSUME NEW m, IsMemory(m), NEW v, NEW t, NEW c, NEW rhs, {1} \subseteq DOMAIN rhs,
           rhs[1] \in NumberTokens \cup TextTokens, Understood(m, t, rhs, v, c),
           NEW n, \/ n = Act("integer", v, m)
                  \/ n = Act("string", v, m) /\ v[1] \in 0..m.made,
           NEW lhs \in Others
    PROVE  SideMeans(n, t, lhs, n.value, c[0], c[1])
<1> DEFINE a == c[0]
           b == c[1]
           new == NewExpression(m)
           x == m.made + 1
<1>1. b = a + 1 /\ t[b].kind \in NumberTokens \cup TextTokens /\ a \in Nat
  <2>1. c[1] = c[1 - 1] + 1 /\ t[c[1]].kind = rhs[1] /\ c[1 - 1] \in Nat
    BY TokensNoHeads DEF Understood
  <2>2. 1 - 1 = 0
    OBVIOUS
  <2> QED
    BY <2>1, <2>2
<1> HIDE DEF a, b
<1>2. Fields(t, a, b) = {} /\ HasConst(t, a, b)
  BY <1>1, ConstantIs
<1>3. Edges(t, a, b)
  <2>1. (a + 1)..b = {b} /\ a < b
    BY <1>1
  <2> QED
    BY <1>1, <2>1 DEF Edges, NumberTokens, TextTokens
<1>4. Gives(new, x, {}, FALSE) /\ DOMAIN new = MemoryFields
  BY NewGives
<1>5. Gives(n, x, {}, TRUE)
  <2>1. CASE n = Act("integer", v, m)
    <3>1. n = AddInteger(new, x)
      BY <2>1 DEF Act
    <3> HIDE DEF new, x
    <3> QED
      BY <1>4, <3>1, IntegerGives
  <2>2. CASE n = Act("string", v, m) /\ v[1] \in 0..m.made
    <3> DEFINE k == AddString(new, x, Len(NameOf(m, v[1])))
    <3>1. n = Delete(k, v[1])
      BY <2>2 DEF Act
    <3>2. v[1] # x
      BY <2>2 DEF IsMemory
    <3> HIDE DEF new, x
    <3>3. Gives(k, x, {}, TRUE) /\ DOMAIN k = MemoryFields
      BY <1>4, TextGives
    <3> HIDE DEF k
    <3> QED
      BY <3>1, <3>2, <3>3, DeletedGives
  <2> QED
    BY <2>1, <2>2
<1> HIDE DEF x
<1>6. SideMeans(n, t, lhs, n.value, a, b)
  BY <1>2, <1>3, <1>5, MadeMeans
<1> QED
  BY <1>6 DEF a, b

\* table_field: a name, or a name with that of its table.
LEMMA NameAgain ==
    ASSUME NEW m, IsMemory(m), NEW v, NEW t, NEW c, NEW rhs, {1} \subseteq DOMAIN rhs,
           rhs[1] \in NameTokens, Understood(m, t, rhs, v, c),
           NEW n, n.objects = m.objects, n.value = v[1]
    PROVE  SideMeans(n, t, "table_field", n.value, c[0], c[1])
<1>1. /\ c[1] = c[1 - 1] + 1 /\ t[c[1]].kind = rhs[1] /\ c[1 - 1] \in Nat
      /\ Writes(m, v[1], t[c[1]].text)
  BY TokensNoHeads DEF Understood
<1> DEFINE a == c[0]
<1>2. c[1] = a + 1 /\ t[a + 1].kind \in NameTokens /\ a \in Nat /\ Writes(m, v[1], t[a + 1].text)
  <2>1. 1 - 1 = 0
    OBVIOUS
  <2> QED
    BY <1>1, <2>1
<1> HIDE DEF a
<1>3. Named(t, a, a + 1) /\ Edges(t, a, a + 1)
  BY <1>2, NameNamed
<1>4. SideMeans(n, t, "table_field", n.value, a, a + 1)
  BY <1>2, <1>3 DEF SideMeans, Writes
<1> QED
  BY <1>2, <1>4 DEF a

LEMMA PathAgain ==
    ASSUME NEW m, IsMemory(m), NEW v, NEW t, NEW c, NEW rhs, {1, 2, 3} \subseteq DOMAIN rhs,
           rhs[1] \in NameTokens, rhs[2] = "DOT", rhs[3] \in NameTokens,
           Understood(m, t, rhs, v, c),
           NEW n, n.objects = m.objects, n.value = v[3]
    PROVE  SideMeans(n, t, "table_field", n.value, c[0], c[3])
<1>1. c[1] = c[1 - 1] + 1 /\ t[c[1]].kind = rhs[1] /\ c[1 - 1] \in Nat
  BY TokensNoHeads DEF Understood
<1>2. c[2] = c[2 - 1] + 1 /\ t[c[2]].kind = "DOT"
  BY TokensNoHeads DEF Understood
<1>3. c[3] = c[3 - 1] + 1 /\ t[c[3]].kind = rhs[3] /\ Writes(m, v[3], t[c[3]].text)
  BY TokensNoHeads DEF Understood
<1> DEFINE a == c[0]
<1>4. c[1] = a + 1 /\ c[2] = a + 2 /\ c[3] = a + 3 /\ a \in Nat
  <2>1. 1 - 1 = 0 /\ 2 - 1 = 1 /\ 3 - 1 = 2
    OBVIOUS
  <2> QED
    BY <1>1, <1>2, <1>3, <2>1
<1>5. /\ t[a + 1].kind \in NameTokens /\ t[a + 2].kind = "DOT" /\ t[a + 3].kind \in NameTokens
      /\ Writes(m, v[3], t[a + 3].text)
  BY <1>1, <1>2, <1>3, <1>4
<1> HIDE DEF a
<1>6. Named(t, a, a + 3) /\ Edges(t, a, a + 3)
  BY <1>4, <1>5, PathNamed
<1>7. SideMeans(n, t, "table_field", n.value, a, a + 3)
  BY <1>5, <1>6 DEF SideMeans, Writes
<1> QED
  BY <1>4, <1>7 DEF a

LEMMA OthersAre ==
    /\ Others = {"math_exp", "field", "fn", "fn_args", "const_value"}
    /\ MathOperators \subseteq Operators /\ "COMMA" \in Operators
BY DEF Others, Sides, Operators, MathOperators

\* What an action makes of a side is what the tokens of the side say.
LEMMA SideAgain ==
    ASSUME NEW m, IsMemory(m), NEW v, NEW lhs \in Sides, NEW rhs, Counted(rhs), NEW action,
           SideRule(lhs, rhs, action), ~Unplain(rhs), Held(m, v, rhs),
           NEW t, NEW c, Understood(m, t, rhs, v, c)
    PROVE  SideMeans(Act(action, v, m), t, lhs, Act(action, v, m).value, c[0], c[Len(rhs)])
<1> DEFINE n == Act(action, v, m)
           l == Len(rhs)
<1> SUFFICES SideMeans(n, t, lhs, n.value, c[0], c[l])
  OBVIOUS
<1>1. /\ action = "1" => n = [m EXCEPT !.value = v[1]]
      /\ action = "2" => n = [m EXCEPT !.value = v[2]]
      /\ action = "3" => n = [m EXCEPT !.value = v[3]]
      /\ action = "add_3" => n = Add(m, v[1], v[3])
      /\ action = "field" => n = Act("field", v, m)
      /\ action = "no_args" => n = Act("no_args", v, m)
      /\ action = "integer" => n = Act("integer", v, m)
      /\ action = "string" => n = Act("string", v, m)
  <2>1. action = "1" => n = [m EXCEPT !.value = v[1]]
    BY DEF Act
  <2>2. action = "2" => n = [m EXCEPT !.value = v[2]]
    BY DEF Act
  <2>3. action = "3" => n = [m EXCEPT !.value = v[3]]
    BY DEF Act
  <2>4. action = "add_3" => n = Add(m, v[1], v[3])
    BY DEF Act
  <2> QED
    BY <2>1, <2>2, <2>3, <2>4
<1>2. action = "function_3" => n.objects = m.objects /\ n.value = v[3]
  <2>1. SUFFICES ASSUME action = "function_3" PROVE n.objects = m.objects /\ n.value = v[3]
    OBVIOUS
  <2> DEFINE k == clb_check_bruteforce_function(m, v[1])
  <2>2. n = [k EXCEPT !.value = v[3]]
    BY <2>1 DEF Act, Value
  <2>3. DOMAIN k = MemoryFields /\ k.objects = m.objects
    <3>1. k = Found(m, "bruteforce") \/ k = m
      BY DEF clb_check_bruteforce_function, FoundIf
    <3>2. DOMAIN m = MemoryFields
      BY DEF IsMemory, MemoryFields
    <3> QED
      BY <3>1, <3>2 DEF Found, MemoryFields
  <2> HIDE DEF k, n
  <2> QED
    BY <2>2, <2>3 DEF MemoryFields
<1>3. /\ action = "1" => n.objects = m.objects /\ n.value = v[1]
      /\ action = "3" => n.objects = m.objects /\ n.value = v[3]
  <2> HIDE DEF n
  <2> QED
    BY <1>1 DEF IsMemory
<1> HIDE DEF n, l
<1>4. CASE /\ lhs = "math_exp" /\ rhs = <<"field">> /\ action = "1"
  <2>1. l = 1
    BY <1>4 DEF l
  <2> QED
    BY <1>1, <1>4, <2>1, OthersAre, FieldAlone
<1>5. CASE lhs = "math_exp" /\ rhs = <<"BASIC_OP", "field">> /\ action = "2"
  <2>1. l = 2
    BY <1>5 DEF l
  <2> QED
    BY <1>1, <1>5, <2>1, OthersAre, FieldSigned
<1>6. CASE /\ lhs = "math_exp" /\ \E o \in MathOperators : rhs = <<"math_exp", o, "field">>
           /\ action = "add_3"
  <2>1. /\ l = 3 /\ {1, 2, 3} \subseteq DOMAIN rhs
        /\ rhs[1] = "math_exp" /\ rhs[2] \in MathOperators /\ rhs[3] = "field"
    BY <1>6 DEF l
  <2> QED
    BY <1>1, <1>6, <2>1, OthersAre, FieldsAdded
<1>7. CASE lhs = "math_exp" /\ rhs = <<"O_BRACE", "math_exp", "C_BRACE">> /\ action = "2"
  <2>1. /\ l = 3 /\ {1, 2, 3} \subseteq DOMAIN rhs
        /\ rhs[1] = "O_BRACE" /\ rhs[2] = "math_exp" /\ rhs[3] = "C_BRACE"
    BY <1>7 DEF l
  <2> QED
    BY <1>1, <1>7, <2>1, OthersAre, FieldBraced
<1>8. CASE lhs = "field" /\ rhs = <<"table_field">> /\ action = "field"
  <2>1. l = 1 /\ {1} \subseteq DOMAIN rhs /\ rhs[1] = "table_field"
    BY <1>8 DEF l
  <2> QED
    BY <1>1, <1>8, <2>1, OthersAre, ColumnAgain
<1>9. CASE lhs = "field" /\ rhs = <<"simple_fn">> /\ action = "no_args"
  <2>1. l = 1 /\ {1} \subseteq DOMAIN rhs /\ rhs[1] = "simple_fn"
    BY <1>9 DEF l
  <2> QED
    BY <1>1, <1>9, <2>1, OthersAre, NoArgumentsAgain
<1>10. CASE lhs = "field" /\ rhs \in {<<"const_value">>, <<"fn">>} /\ action = "1"
  <2>1. l = 1
    BY <1>10 DEF l
  <2>2. PICK s \in {"const_value", "fn"} : rhs = <<s>>
    BY <1>10
  <2>3. Understood(m, t, <<s>>, v, c) /\ s \in Others
    BY <2>2, OthersAre
  <2> QED
    BY <1>1, <1>10, <2>1, <2>3, OthersAre, FieldAlone
<1>11. CASE lhs = "table_field" /\ (\E k \in NameTokens : rhs = <<k>>) /\ action = "1"
  <2>1. l = 1 /\ {1} \subseteq DOMAIN rhs /\ rhs[1] \in NameTokens
    BY <1>11 DEF l
  <2> QED
    BY <1>3, <1>11, <2>1, NameAgain
<1>12. CASE /\ lhs = "table_field" /\ (\E k, o \in NameTokens : rhs = <<k, "DOT", o>>)
            /\ action = "3"
  <2>1. /\ l = 3 /\ {1, 2, 3} \subseteq DOMAIN rhs
        /\ rhs[1] \in NameTokens /\ rhs[2] = "DOT" /\ rhs[3] \in NameTokens
    BY <1>12 DEF l
  <2> QED
    BY <1>3, <1>12, <2>1, PathAgain
<1>13. CASE lhs = "const_value" /\ (\E k \in NumberTokens : rhs = <<k>>) /\ action = "integer"
  <2>1. l = 1 /\ {1} \subseteq DOMAIN rhs /\ rhs[1] \in NumberTokens
    BY <1>13 DEF l
  <2>2. n = Act("integer", v, m)
    BY <1>1, <1>13
  <2> QED
    BY <1>13, <2>1, <2>2, OthersAre, ValueAgain
<1>14. CASE lhs = "const_value" /\ (\E k \in TextTokens : rhs = <<k>>) /\ action = "string"
  <2>1. l = 1 /\ {1} \subseteq DOMAIN rhs /\ rhs[1] \in TextTokens /\ 1 \in DOMAIN rhs
    BY <1>14 DEF l
  <2>2. n = Act("string", v, m) /\ v[1] \in 0..m.made
    BY <1>1, <1>14, <2>1 DEF Held
  <2> QED
    BY <1>14, <2>1, <2>2, OthersAre, ValueAgain
<1>15. CASE /\ lhs = "fn" /\ rhs = <<"STRING", "O_BRACE", "fn_args", "C_BRACE">>
            /\ action = "function_3"
  <2>1. l = 4
    BY <1>15 DEF l
  <2> QED
    BY <1>2, <1>15, <2>1, CallAgain
<1>16. CASE lhs = "fn" /\ rhs = <<"CHAR_TYPE", "O_BRACE", "fn_args", "C_BRACE">> /\ action = "3"
  <2>1. l = 4
    BY <1>16 DEF l
  <2> QED
    BY <1>3, <1>16, <2>1, CallAgain
<1>17. CASE lhs = "simple_fn" /\ rhs = <<"STRING", "O_BRACE", "MULTIPLY", "C_BRACE">>
  <2>1. l = 4
    BY <1>17 DEF l
  <2> QED
    BY <1>17, <2>1, EmptyCallAgain
<1>18. CASE /\ lhs = "simple_fn"
            /\ rhs \in {<<k, "O_BRACE", "C_BRACE">> : k \in {"STRING", "CHAR_TYPE"}}
  <2>1. PICK k \in {"STRING", "CHAR_TYPE"} : rhs = <<k, "O_BRACE", "C_BRACE">>
    BY <1>18
  <2>2. l = 3
    BY <2>1 DEF l
  <2> QED
    BY <1>18, <2>1, <2>2, EmptyCallAgain
<1>19. CASE lhs = "fn_args" /\ rhs = <<"math_exp">> /\ action = "1"
  <2>1. l = 1
    BY <1>19 DEF l
  <2> QED
    BY <1>1, <1>19, <2>1, OthersAre, FieldAlone
<1>20. CASE lhs = "fn_args" /\ rhs = <<"fn_args", "COMMA", "fn_args">> /\ action = "add_3"
  <2>1. /\ l = 3 /\ {1, 2, 3} \subseteq DOMAIN rhs
        /\ rhs[1] = "fn_args" /\ rhs[2] = "COMMA" /\ rhs[3] = "fn_args"
    BY <1>20 DEF l
  <2>2. rhs[1] \in Others /\ rhs[2] \in Operators /\ rhs[3] \in Others /\ lhs \in Others
    BY <1>20, <2>1, OthersAre
  <2>3. n = Add(m, v[1], v[3])
    BY <1>1, <1>20
  <2>4. SideMeans(n, t, lhs, n.value, c[0], c[3])
    BY <2>1, <2>2, <2>3, FieldsAdded
  <2> QED
    BY <2>1, <2>4
<1> QED
  BY <1>4, <1>5, <1>6, <1>7, <1>8, <1>9, <1>10, <1>11, <1>12, <1>13, <1>14, <1>15, <1>16, <1>17,
     <1>18, <1>19, <1>20 DEF SideRule

-----------------------------------------------------------------------------
(* Comparisons of the same tokens.                                         *)

LEMMA SameRoles ==
    ASSUME NEW t, NEW a \in Nat, NEW e \in Nat, NEW k \in Nat, SameSpan(t, a, e, k), NEW i \in 1..k
    PROVE  /\ t[a + i].text = t[e + i].text
           /\ IsName(t, a + i, a + k) <=> IsName(t, e + i, e + k)
           /\ IsConst(t, a + i, a + k) <=> IsConst(t, e + i, e + k)
<1>1. t[a + i].text = t[e + i].text /\ t[a + i].kind = t[e + i].kind
  BY DEF SameSpan, SameToken
<1>2. CASE i < k
  <2>1. i + 1 \in 1..k /\ a + i < a + k /\ e + i < e + k
    BY <1>2
  <2>2. t[a + (i + 1)].kind = t[e + (i + 1)].kind
    BY <2>1 DEF SameSpan, SameToken
  <2>3. t[(a + i) + 1].kind = t[(e + i) + 1].kind
    <3>1. (a + i) + 1 = a + (i + 1) /\ (e + i) + 1 = e + (i + 1)
      OBVIOUS
    <3> QED
      BY <2>2, <3>1
  <2> QED
    BY <1>1, <2>1, <2>3 DEF IsName, IsConst
<1>3. CASE i = k
  <2>1. ~(a + i < a + k) /\ ~(e + i < e + k)
    BY <1>3
  <2> QED
    BY <1>1, <2>1 DEF IsName, IsConst
<1> QED
  BY <1>1, <1>2, <1>3

LEMMA SaysWithin ==
    ASSUME NEW t, NEW a \in Nat, NEW e \in Nat, NEW k \in Nat, SameSpan(t, a, e, k)
    PROVE  /\ Fields(t, a, a + k) \subseteq Fields(t, e, e + k)
           /\ HasConst(t, a, a + k) => HasConst(t, e, e + k)
<1>1. ASSUME NEW p \in (a + 1)..(a + k)
      PROVE  \E q \in (e + 1)..(e + k) :
               /\ t[p].text = t[q].text
               /\ IsName(t, p, a + k) => IsName(t, q, e + k)
               /\ IsConst(t, p, a + k) => IsConst(t, q, e + k)
  <2> DEFINE i == p - a
  <2>1. i \in 1..k /\ a + i = p /\ e + i \in (e + 1)..(e + k)
    OBVIOUS
  <2> HIDE DEF i
  <2>2. /\ t[a + i].text = t[e + i].text
        /\ IsName(t, a + i, a + k) <=> IsName(t, e + i, e + k)
        /\ IsConst(t, a + i, a + k) <=> IsConst(t, e + i, e + k)
    BY <2>1, SameRoles
  <2> QED
    BY <2>1, <2>2
<1>2. ASSUME NEW x \in Fields(t, a, a + k) PROVE x \in Fields(t, e, e + k)
  <2>1. PICK p \in (a + 1)..(a + k) :
          IsName(t, p, a + k) /\ ~TrueConstant(t[p].text) /\ x = t[p].text
    BY FieldsAre
  <2>2. PICK q \in (e + 1)..(e + k) :
          t[p].text = t[q].text /\ (IsName(t, p, a + k) => IsName(t, q, e + k))
    BY <1>1
  <2>3. IsName(t, q, e + k) /\ ~TrueConstant(t[q].text) /\ x = t[q].text
    BY <2>1, <2>2
  <2> QED
    BY <2>3, FieldsAre
<1>3. ASSUME HasConst(t, a, a + k) PROVE HasConst(t, e, e + k)
  <2>1. PICK p \in (a + 1)..(a + k) :
          IsConst(t, p, a + k) \/ (IsName(t, p, a + k) /\ TrueConstant(t[p].text))
    BY <1>3 DEF HasConst
  <2>2. PICK q \in (e + 1)..(e + k) :
          /\ t[p].text = t[q].text
          /\ IsName(t, p, a + k) => IsName(t, q, e + k)
          /\ IsConst(t, p, a + k) => IsConst(t, q, e + k)
    BY <1>1
  <2>3. IsConst(t, q, e + k) \/ (IsName(t, q, e + k) /\ TrueConstant(t[q].text))
    BY <2>1, <2>2
  <2> QED
    BY <2>3 DEF HasConst
<1> QED
  BY <1>2, <1>3

LEMMA SpansAgree ==
    ASSUME NEW t, NEW a \in Nat, NEW e \in Nat, NEW k \in Nat, SameSpan(t, a, e, k)
    PROVE  /\ Fields(t, a, a + k) = Fields(t, e, e + k)
           /\ HasConst(t, a, a + k) <=> HasConst(t, e, e + k)
<1>1. SameSpan(t, e, a, k)
  BY DEF SameSpan, SameToken
<1>2. /\ Fields(t, a, a + k) \subseteq Fields(t, e, e + k)
      /\ HasConst(t, a, a + k) => HasConst(t, e, e + k)
  BY SaysWithin
<1>3. /\ Fields(t, e, e + k) \subseteq Fields(t, a, a + k)
      /\ HasConst(t, e, e + k) => HasConst(t, a, a + k)
  BY <1>1, SaysWithin
<1> QED
  BY <1>2, <1>3

\* cmp_fn finds an expression that is compared with one of the same tokens.
LEMMA EqualsReported ==
    ASSUME NEW m, DOMAIN m = MemoryFields, NEW x, NEW y, NEW t, NEW a, NEW k, NEW e, NEW b,
           Says(m, x, t, a, k), Says(m, y, t, e, b),
           Fields(t, a, k) = Fields(t, e, b), HasConst(t, a, k) <=> HasConst(t, e, b)
    PROVE  "tautology" \in cmp_fn(m, x, y).risk
<1>1. /\ m.objects[x].fields = m.objects[y].fields
      /\ m.objects[x].has_const = m.objects[y].has_const
  BY DEF Says
<1>2. Comp(m.objects[x], m.objects[y])
  BY <1>1 DEF Comp
<1>3. cmp_fn(m, x, y) = Found(m, "tautology")
  BY <1>2 DEF cmp_fn
<1> QED
  BY <1>3 DEF Found, MemoryFields

\* The values of a right-hand side, if no part of it is a subquery.
Meant(m, t, rhs, v, c) == Plain(t, c[0], c[Len(rhs)]) => Understood(m, t, rhs, v, c)

LEMMA ComparisonReports ==
    ASSUME NEW m, IsMemory(m), NEW v, NEW rhs, {1, 2, 3} \subseteq DOMAIN rhs,
           rhs[1] = "math_exp", rhs[2] = "comp_operator", rhs[3] = "math_exp",
           NEW t, NEW c, Bounds(c, 3), Stands(t, "comp_operator", c[1], c[2]),
           Plain(t, c[1], c[2]), Understood(m, t, rhs, v, c),
           NEW e \in Nat, ComparesFrom(t, c[0], e, c[3])
    PROVE  "tautology" \in cmp_fn(m, v[1], v[3]).risk
<1>1. SideMeans(m, t, "math_exp", v[1], c[1 - 1], c[1]) /\ c[1 - 1] \in Nat /\ c[1] \in Nat
  BY DEF Understood, Sides
<1>2. SideMeans(m, t, "math_exp", v[3], c[3 - 1], c[3]) /\ c[3 - 1] \in Nat /\ c[3] \in Nat
  BY DEF Understood, Sides
<1> DEFINE a == c[0]
           k == c[1]
           b == c[3]
<1>3. /\ SideMeans(m, t, "math_exp", v[1], a, k) /\ SideMeans(m, t, "math_exp", v[3], c[2], b)
      /\ a \in Nat /\ k \in Nat /\ b \in Nat
  <2>1. 1 - 1 = 0 /\ 3 - 1 = 2
    OBVIOUS
  <2> QED
    BY <1>1, <1>2, <2>1
<1>4. c[2] = k + 1
  BY DEF Stands
<1>5. /\ a < e /\ e <= b /\ t[e].kind = "EQUAL" /\ e - a = b + 1 - e
      /\ \A i \in 1..(b - e) : SameToken(t[a + i], t[e + i])
  BY DEF ComparesFrom
<1>6. /\ Says(m, v[1], t, a, k) /\ Edges(t, a, k)
      /\ Says(m, v[3], t, k + 1, b) /\ Edges(t, k + 1, b)
  BY <1>3, <1>4 DEF SideMeans
<1> HIDE DEF a, k, b
<1>7. e = k + 1
  <2>1. e \notin (a + 1)..k /\ e \notin ((k + 1) + 1)..b
    BY <1>5, <1>6 DEF Edges
  <2> QED
    BY <1>3, <1>5, <2>1
<1> DEFINE l == b - e
<1>8. l \in Nat /\ k = a + l /\ b = e + l /\ SameSpan(t, a, e, l)
  BY <1>3, <1>5, <1>7 DEF SameSpan
<1> HIDE DEF l
<1>9. /\ Fields(t, a, k) = Fields(t, k + 1, b)
      /\ HasConst(t, a, k) <=> HasConst(t, k + 1, b)
  BY <1>3, <1>7, <1>8, SpansAgree
<1> QED
  BY <1>6, <1>9, EqualsReported DEF IsMemory, MemoryFields

LEMMA BracesHide ==
    ASSUME NEW t, NEW a \in Nat, NEW k \in Nat, t[a + 1].kind = "O_BRACE", Balanced(t, a + 1, k),
           t[k + 1].kind = "C_BRACE", NEW e \in Nat, ComparesFrom(t, a, e, k + 1)
    PROVE  FALSE
<1>1. /\ a < e /\ e <= k + 1 /\ t[e].kind = "EQUAL" /\ Opened(t, e) = Opened(t, a)
  BY DEF ComparesFrom
<1>2. e # a + 1 /\ e # k + 1
  BY <1>1
<1>3. e \in (a + 1)..k
  BY <1>1, <1>2
<1>4. Opened(t, e) >= Opened(t, a + 1)
  BY <1>3 DEF Balanced
<1>5. Opened(t, a + 1) = Opened(t, a) + 1 /\ Opened(t, a) \in Int
  BY OpenedIs DEF Braces
<1> QED
  BY <1>1, <1>4, <1>5

\* A condition that compares an expression with itself is found.
LEMMA CompareReports ==
    ASSUME NEW m, IsMemory(m), NEW v, NEW lhs \in {"logical_exp", "logical_exp_list"},
           NEW rhs, Counted(rhs), NEW action, CompareRule(lhs, rhs, action),
           NEW t, NEW c, Parted(t, rhs, c, Len(rhs)), Meant(m, t, rhs, v, c),
           \A j \in DOMAIN rhs :
             rhs[j] = "logical_exp" => ReportsFrom(m.risk, t, c[j - 1], c[j]),
           NEW n, n = Act(action, v, m), m.risk \subseteq n.risk
    PROVE  ReportsFrom(n.risk, t, c[0], c[Len(rhs)])
<1> DEFINE l == Len(rhs)
           a == c[0]
           b == c[l]
<1> SUFFICES ASSUME NEW e \in Nat, ComparesFrom(t, a, e, b) PROVE "tautology" \in n.risk
  BY DEF ReportsFrom
<1>1. l \in Nat /\ DOMAIN rhs = 1..l /\ Bounds(c, l) /\ a \in Nat /\ b \in Nat
  BY DEF Counted, Parted, Bounds
<1>2. Plain(t, a, b)
  BY <1>1, ComparesArePlain
<1>3. Understood(m, t, rhs, v, c)
  BY <1>2 DEF Meant
<1>4. ~Unplain(rhs)
  BY <1>2, PartsUnplain
<1>5. \A j \in 1..l : Stands(t, rhs[j], c[j - 1], c[j])
  BY DEF Parted
<1>6. 1 - 1 = 0 /\ 2 - 1 = 1 /\ 3 - 1 = 2
  OBVIOUS
<1> HIDE DEF l
<1>7. CASE rhs = <<"logical_exp">>
  <2>1. l = 1 /\ rhs[1] = "logical_exp" /\ 1 \in DOMAIN rhs
    BY <1>7 DEF l
  <2>2. ReportsFrom(m.risk, t, c[1 - 1], c[1])
    BY <2>1
  <2> QED
    BY <1>6, <2>1, <2>2 DEF ReportsFrom
<1>8. CASE rhs = <<"math_exp">>
  <2>1. l = 1 /\ rhs[1] = "math_exp" /\ 1 \in DOMAIN rhs
    BY <1>8 DEF l
  <2>2. SideMeans(m, t, "math_exp", v[1], c[1 - 1], c[1])
    BY <1>3, <2>1 DEF Understood, Sides
  <2>3. Edges(t, a, b)
    BY <1>6, <2>1, <2>2 DEF SideMeans
  <2>4. e \in (a + 1)..b /\ t[e].kind = "EQUAL"
    BY <1>1 DEF ComparesFrom
  <2> QED
    BY <2>3, <2>4 DEF Edges
<1>9. CASE action = "tautology"
  <2>1. n = Found(m, "tautology")
    BY <1>9 DEF Act
  <2> QED
    BY <2>1 DEF Found, IsMemory
<1>10. CASE rhs = <<"O_BRACE", "logical_exp", "C_BRACE">>
  <2>1. /\ l = 3 /\ rhs[1] = "O_BRACE" /\ rhs[2] = "logical_exp" /\ rhs[3] = "C_BRACE"
        /\ 1 \in 1..l /\ 2 \in 1..l /\ 3 \in 1..l
    BY <1>10 DEF l
  <2>2. Stands(t, "O_BRACE", c[1 - 1], c[1])
    BY <1>5, <2>1
  <2>3. Stands(t, "logical_exp", c[2 - 1], c[2])
    BY <1>5, <2>1
  <2>4. Stands(t, "C_BRACE", c[3 - 1], c[3])
    BY <1>5, <2>1
  <2> DEFINE k == c[2]
  <2>5. c[1] = a + 1 /\ t[a + 1].kind = "O_BRACE"
    BY <1>6, <2>2, HeadsAre DEF Stands
  <2>6. Balanced(t, a + 1, k) /\ k \in Nat
    BY <1>6, <2>3, <2>5, HeadsAre DEF Stands
  <2>7. b = k + 1 /\ t[k + 1].kind = "C_BRACE"
    BY <1>6, <2>1, <2>4, HeadsAre DEF Stands
  <2>8. ComparesFrom(t, a, e, k + 1)
    BY <2>7
  <2> HIDE DEF a, b, k
  <2>9. FALSE
    BY <1>1, <2>5, <2>6, <2>7, <2>8, BracesHide
  <2> QED
    BY <2>9
<1>11. CASE rhs = <<"math_exp", "comp_operator", "math_exp">> /\ action = "compare_3"
  <2>1. /\ l = 3 /\ rhs[1] = "math_exp" /\ rhs[2] = "comp_operator" /\ rhs[3] = "math_exp"
        /\ 2 \in 1..l /\ {1, 2, 3} \subseteq DOMAIN rhs
    BY <1>11 DEF l
  <2>2. Stands(t, "comp_operator", c[2 - 1], c[2]) /\ Plain(t, c[2 - 1], c[2])
    BY <1>1, <1>2, <1>5, <2>1, PlainParts
  <2>3. Stands(t, "comp_operator", c[1], c[2]) /\ Plain(t, c[1], c[2])
    BY <1>6, <2>2
  <2>4. n = cmp_fn(m, v[1], v[3])
    BY <1>11 DEF Act
  <2>5. ComparesFrom(t, c[0], e, c[3]) /\ Bounds(c, 3)
    BY <1>1, <2>1
  <2> QED
    BY <1>3, <2>1, <2>3, <2>4, <2>5, ComparisonReports
<1> QED
  BY <1>4, <1>7, <1>8, <1>9, <1>10, <1>11 DEF CompareRule

-----------------------------------------------------------------------------
(* The stack stands for what was read.                                     *)

\* What is known of a symbol with its value, and of the part that it stands for.
Means(m, t, s, v, a, b) ==
    /\ s \in NameTokens => Writes(m, v, t[b].text)
    /\ s \in Sides /\ Plain(t, a, b) => SideMeans(m, t, s, v, a, b)
    /\ s \in {"logical_exp", "logical_exp_list"} => ReportsFrom(m.risk, t, a, b)
    /\ s \in Conditional => Reports(m.risk, t, a, b)

LEMMA ReportsStill ==
    ASSUME NEW risks, NEW more, risks \subseteq more, NEW t, NEW a, NEW b
    PROVE  /\ ReportsFrom(risks, t, a, b) => ReportsFrom(more, t, a, b)
           /\ Reports(risks, t, a, b) => Reports(more, t, a, b)
BY DEF ReportsFrom, Reports

LEMMA MeansStill ==
    ASSUME NEW m, NEW t, NEW s, NEW v, NEW a, NEW b, Means(m, t, s, v, a, b),
           NEW n, NEW used, Spares(m, n, used), v \in DOMAIN m.objects => v \notin used
    PROVE  Means(n, t, s, v, a, b)
<1>1. \A name : Writes(m, v, name) => Writes(n, v, name)
  BY DEF Writes, Spares
<1>2. Says(m, v, t, a, b) => Says(n, v, t, a, b)
  BY DEF Says, Spares
<1>3. SideMeans(m, t, s, v, a, b) => SideMeans(n, t, s, v, a, b)
  BY <1>1, <1>2 DEF SideMeans
<1>4. m.risk \subseteq n.risk
  BY DEF Spares
<1> QED
  BY <1>1, <1>3, <1>4, ReportsStill DEF Means

LEMMA MeantAgain ==
    ASSUME NEW m, NEW v, NEW rhs, Counted(rhs), NEW t, NEW c, Parted(t, rhs, c, Len(rhs)),
           \A j \in 1..Len(rhs) : Means(m, t, rhs[j], v[j], c[j - 1], c[j])
    PROVE  Meant(m, t, rhs, v, c)
<1> SUFFICES ASSUME Plain(t, c[0], c[Len(rhs)]), NEW j \in DOMAIN rhs
             PROVE  /\ j \in Nat /\ c[j - 1] \in Nat /\ c[j] \in Nat
                    /\ rhs[j] \notin Heads => c[j] = c[j - 1] + 1 /\ t[c[j]].kind = rhs[j]
                    /\ rhs[j] \in Sides => SideMeans(m, t, rhs[j], v[j], c[j - 1], c[j])
                    /\ rhs[j] \in NameTokens => Writes(m, v[j], t[c[j]].text)
  BY DEF Meant, Understood
<1>1. /\ Len(rhs) \in Nat /\ j \in 1..Len(rhs) /\ Bounds(c, Len(rhs))
      /\ Stands(t, rhs[j], c[j - 1], c[j]) /\ Means(m, t, rhs[j], v[j], c[j - 1], c[j])
  BY DEF Counted, Parted
<1>2. j \in Nat /\ c[j - 1] \in Nat /\ c[j] \in Nat
  BY <1>1, Spread
<1>3. Plain(t, c[j - 1], c[j])
  BY <1>1, PlainParts
<1> QED
  BY <1>1, <1>2, <1>3 DEF Stands, Means

\* An action keeps the meaning of a symbol.
LEMMA MeansAgain ==
    ASSUME NEW m, IsMemory(m), NEW v, NEW lhs, NEW rhs, Counted(rhs), NEW action,
           Shaped(lhs, rhs, action), Held(m, v, rhs), NEW t, NEW c, Parted(t, rhs, c, Len(rhs)),
           \A j \in 1..Len(rhs) : Means(m, t, rhs[j], v[j], c[j - 1], c[j]),
           NEW n, n = Act(action, v, m), m.risk \subseteq n.risk
    PROVE  Means(n, t, lhs, n.value, c[0], c[Len(rhs)])
<1>1. Meant(m, t, rhs, v, c)
  BY MeantAgain
<1>2. DOMAIN rhs = 1..Len(rhs)
  BY DEF Counted
<1>3. lhs \notin NameTokens
  BY DEF Shaped, Keyword, NameTokens, Heads
<1>4. ASSUME lhs \in Sides, Plain(t, c[0], c[Len(rhs)])
      PROVE  SideMeans(n, t, lhs, n.value, c[0], c[Len(rhs)])
  <2>1. Understood(m, t, rhs, v, c)
    BY <1>1, <1>4 DEF Meant
  <2>2. ~Unplain(rhs)
    BY <1>4, PartsUnplain
  <2>3. SideRule(lhs, rhs, action)
    BY DEF Shaped
  <2> QED
    BY <1>4, <2>1, <2>2, <2>3, SideAgain
<1>5. ASSUME lhs \in {"logical_exp", "logical_exp_list"}
      PROVE  ReportsFrom(n.risk, t, c[0], c[Len(rhs)])
  <2>1. \A j \in DOMAIN rhs : rhs[j] = "logical_exp" => ReportsFrom(m.risk, t, c[j - 1], c[j])
    BY <1>2 DEF Means
  <2>2. CompareRule(lhs, rhs, action)
    BY DEF Shaped
  <2> QED
    BY <1>1, <1>5, <2>1, <2>2, CompareReports
<1>6. ASSUME lhs \in Conditional PROVE Reports(n.risk, t, c[0], c[Len(rhs)])
  <2>1. ASSUME NEW j \in DOMAIN rhs
        PROVE  /\ rhs[j] \in Conditional => Reports(n.risk, t, c[j - 1], c[j])
               /\ rhs[j] = "logical_exp_list" => ReportsFrom(n.risk, t, c[j - 1], c[j])
    <3>1. Means(m, t, rhs[j], v[j], c[j - 1], c[j])
      BY <1>2
    <3> QED
      BY <3>1, ReportsStill DEF Means
  <2>2. Chains(lhs, rhs)
    BY DEF Shaped
  <2> QED
    BY <1>6, <2>1, <2>2, ConditionReports
<1> QED
  BY <1>3, <1>4, <1>5, <1>6 DEF Means

\* A symbol of the stack, and the part of the tokens that it stands for.
Reads(t, m, x, a, b) == Stands(t, x.symbol, a, b) /\ Means(m, t, x.symbol, x.value, a, b)

\* The first symbols of a stack, and the parts from the first token on.
Divides(t, m, s, c, k) ==
    c \in [0..k -> Nat] /\ c[0] = 0 /\ \A i \in 1..k : Reads(t, m, s[i], c[i - 1], c[i])

\* The stack stands for the first n tokens.
Parsed(s, m, t, n) == \E c \in [0..Len(s) -> Nat] : Divides(t, m, s, c, Len(s)) /\ c[Len(s)] = n

LEMMA ReadsStill ==
    ASSUME NEW t, NEW m, NEW x, NEW a, NEW b, Reads(t, m, x, a, b), NEW n, NEW used,
           Spares(m, n, used), x.value \in DOMAIN m.objects => x.value \notin used
    PROVE  Reads(t, n, x, a, b)
BY MeansStill DEF Reads

LEMMA EmptyParsed == ASSUME NEW m, NEW t PROVE Parsed(<<>>, m, t, 0)
<1> DEFINE c == [i \in 0..0 |-> 0]
<1>1. Len(<<>>) = 0 /\ 1..0 = {}
  OBVIOUS
<1>2. c \in [0..0 -> Nat] /\ c[0] = 0
  OBVIOUS
<1> HIDE DEF c
<1> QED
  BY <1>1, <1>2 DEF Parsed, Divides

\* A stack whose last symbol is new.
LEMMA ParsedAgain ==
    ASSUME NEW k \in Nat, NEW n \in Nat, NEW u, NEW m, NEW t, NEW c, Divides(t, m, u, c, k),
           Len(u) = k + 1, Reads(t, m, u[k + 1], c[k], n)
    PROVE  Parsed(u, m, t, n)
<1> DEFINE d == [i \in 0..(k + 1) |-> IF i = k + 1 THEN n ELSE c[i]]
<1>1. /\ c \in [0..k -> Nat] /\ c[0] = 0
      /\ \A i \in 1..k : Reads(t, m, u[i], c[i - 1], c[i])
  BY DEF Divides
<1>2. d \in [0..(k + 1) -> Nat]
  BY <1>1
<1>3. d[0] = 0 /\ d[k + 1] = n
  BY <1>1
<1>4. \A i \in 0..k : d[i] = c[i]
  OBVIOUS
<1> HIDE DEF d
<1>5. ASSUME NEW i \in 1..(k + 1) PROVE Reads(t, m, u[i], d[i - 1], d[i])
  <2>1. CASE i \in 1..k
    <3>1. i \in 0..k /\ i - 1 \in 0..k
      BY <2>1
    <3> QED
      BY <1>1, <1>4, <2>1, <3>1
  <2>2. CASE i = k + 1
    <3>1. i - 1 = k /\ k \in 0..k
      BY <2>2
    <3> QED
      BY <1>3, <1>4, <2>2, <3>1
  <2> QED
    BY <2>1, <2>2
<1> QED
  BY <1>2, <1>3, <1>5 DEF Parsed, Divides

LEMMA TokenParsed ==
    ASSUME NEW s, IsSequence(s), NEW m, NEW t, NEW n \in Nat, Parsed(s, m, t, n),
           NEW x, x = t[n + 1], x.kind \notin Heads, NEW k, Spares(m, k, {}), NEW y,
           x.kind \in NameTokens => Writes(k, y, x.text)
    PROVE  Parsed(Append(s, Item(x.kind, y)), k, t, n + 1)
<1> DEFINE l == Len(s)
           z == Item(x.kind, y)
           u == Append(s, z)
<1>1. z.symbol = x.kind /\ z.value = y
  BY DEF Item
<1> HIDE DEF z
<1>2. l \in Nat /\ Len(u) = l + 1 /\ u[l + 1] = z /\ \A i \in 1..l : u[i] = s[i]
  <2> PICK S : s \in Seq(S)
    BY DEF IsSequence
  <2>1. s \in Seq(S \cup {z}) /\ z \in S \cup {z}
    OBVIOUS
  <2> QED
    BY <2>1, AppendProperties
<1> PICK c \in [0..l -> Nat] : Divides(t, m, s, c, l) /\ c[l] = n
  BY DEF Parsed
<1> HIDE DEF l, u
<1>3. Divides(t, k, u, c, l)
  BY <1>2, ReadsStill DEF Divides
<1>4. Reads(t, k, z, n, n + 1)
  <2>1. Stands(t, z.symbol, n, n + 1)
    BY <1>1, HeadsAre DEF Stands
  <2>2. Means(k, t, z.symbol, z.value, n, n + 1)
    BY <1>1, HeadsAre DEF Means
  <2> QED
    BY <2>1, <2>2 DEF Reads
<1>5. Parsed(u, k, t, n + 1)
  <2>1. Reads(t, k, u[l + 1], c[l], n + 1) /\ n + 1 \in Nat
    BY <1>2, <1>4
  <2> QED
    BY <1>2, <1>3, <2>1, ParsedAgain
<1> QED
  BY <1>5 DEF u, z

LEMMA ReductionParsed ==
    ASSUME NEW s, NEW m, IsMemory(m), m.value = NoValue, Owns(s, m),
           NEW t, NEW n \in Nat, Parsed(s, m, t, n),
           NEW r \in Rules, NEW k \in 0..Len(s), NEW v,
           DOMAIN v = 1..(Len(s) - k), DOMAIN v = DOMAIN r.rhs, Held(m, v, r.rhs),
           \A p \in DOMAIN v : v[p] = s[k + p].value /\ s[k + p].symbol = r.rhs[p]
    PROVE  LET act == Act(r.action, v, m)
           IN  Parsed(Append(SubSeq(s, 1, k), Item(r.lhs, act.value)), act, t, n)
<1> DEFINE act == Act(r.action, v, m)
           z == Item(r.lhs, act.value)
           u == Append(SubSeq(s, 1, k), z)
           l == Len(r.rhs)
           used == {v[p] : p \in DOMAIN v} \cup {m.made + 1}
<1>1. Spares(m, act, used) /\ Shaped(r.lhs, r.rhs, r.action) /\ Counted(r.rhs)
  BY RulesFit, RulesAreShaped, ActSpares DEF Counted
<1>2. z.symbol = r.lhs /\ z.value = act.value
  BY DEF Item
<1> HIDE DEF z
<1>3. IsSequence(s) /\ Len(s) \in Nat /\ DOMAIN s = 1..Len(s) /\ k \in Nat
  BY DEF Owns, IsSequence
<1>4. /\ IsSequence(u) /\ DOMAIN u = 1..(k + 1) /\ Len(u) = k + 1
      /\ u[k + 1] = z /\ \A i \in 1..k : u[i] = s[i]
  <2>1. IsSequence(u) /\ DOMAIN u = 1..(k + 1) /\ u[k + 1] = z /\ \A i \in 1..k : u[i] = s[i]
    BY <1>3, Replaced
  <2>2. Len(u) = k + 1
    <3> HIDE DEF u
    <3> QED
      BY <1>3, <2>1 DEF IsSequence
  <2> QED
    BY <2>1, <2>2
<1>5. l \in Nat /\ Len(s) = k + l /\ DOMAIN r.rhs = 1..l
  <2>1. l \in Nat /\ DOMAIN r.rhs = 1..l /\ 1..l = 1..(Len(s) - k)
    BY <1>1 DEF Counted
  <2>2. ASSUME NEW i \in Nat, NEW j \in Nat, 1..i = 1..j PROVE i = j
    BY <2>2
  <2>3. Len(s) - k \in Nat
    BY <1>3
  <2> HIDE DEF l
  <2>4. l = Len(s) - k
    BY <2>1, <2>2, <2>3
  <2> QED
    BY <1>3, <2>1, <2>4
<1> PICK c \in [0..Len(s) -> Nat] :
      /\ c[0] = 0 /\ c[Len(s)] = n
      /\ \A i \in 1..Len(s) : Reads(t, m, s[i], c[i - 1], c[i])
  BY DEF Parsed, Divides
<1> HIDE DEF act, u, l, used
<1>6. ASSUME NEW i \in 1..k PROVE Reads(t, act, u[i], c[i - 1], c[i])
  <2>1. i \in DOMAIN s /\ Reads(t, m, s[i], c[i - 1], c[i])
    BY <1>3
  <2>2. ASSUME s[i].value \in DOMAIN m.objects PROVE s[i].value \notin used
    <3>1. s[i].value # NoValue /\ s[i].value # m.made + 1
      BY <2>2 DEF IsMemory, NoValue
    <3>2. ASSUME NEW p \in DOMAIN v PROVE v[p] # s[i].value
      <4>1. k + p \in DOMAIN s /\ i # k + p
        BY <1>3
      <4> QED
        BY <2>1, <3>1, <4>1 DEF Owns
    <3> QED
      BY <3>1, <3>2 DEF used
  <2> QED
    BY <1>1, <1>4, <2>1, <2>2, ReadsStill
<1> DEFINE d == [j \in 0..l |-> c[k + j]]
<1>7. /\ d \in [0..l -> Nat] /\ d[0] = c[k] /\ d[l] = n
      /\ \A j \in 1..l : d[j - 1] = c[(k + j) - 1] /\ d[j] = c[k + j] /\ k + j \in 1..Len(s)
  <2>1. \A j \in 0..l : k + j \in 0..Len(s)
    BY <1>3, <1>5
  <2>2. \A j \in 1..l : /\ j \in 0..l /\ j - 1 \in 0..l
                        /\ k + (j - 1) = (k + j) - 1 /\ k + j \in 1..Len(s)
    BY <1>3, <1>5
  <2>3. 0 \in 0..l /\ l \in 0..l /\ k + 0 = k
    BY <1>3, <1>5
  <2> QED
    BY <1>5, <2>1, <2>2, <2>3
<1> HIDE DEF d
<1>8. ASSUME NEW j \in 1..l
      PROVE  /\ Stands(t, r.rhs[j], d[j - 1], d[j])
             /\ Means(m, t, r.rhs[j], v[j], d[j - 1], d[j])
  <2>1. Reads(t, m, s[k + j], c[(k + j) - 1], c[k + j]) /\ j \in DOMAIN v
    BY <1>5, <1>7
  <2> QED
    BY <1>7, <2>1 DEF Reads
<1>9. Parted(t, r.rhs, d, l)
  BY <1>7, <1>8 DEF Parted, Bounds, Stands
<1>10. Stands(t, r.lhs, c[k], n)
  <2>1. Stands(t, r.lhs, d[0], d[l])
    BY <1>1, <1>9, StandsAgain DEF l
  <2> QED
    BY <1>7, <2>1
<1>11. Means(act, t, r.lhs, act.value, c[k], n)
  <2>1. m.risk \subseteq act.risk
    BY <1>1 DEF Spares
  <2>2. Means(act, t, r.lhs, act.value, d[0], d[l])
    BY <1>1, <1>8, <1>9, <2>1, MeansAgain DEF l, act
  <2> QED
    BY <1>7, <2>2
<1>12. Reads(t, act, u[k + 1], c[k], n)
  BY <1>2, <1>4, <1>10, <1>11 DEF Reads
<1>13. Parsed(u, act, t, n)
  <2> DEFINE e == [i \in 0..k |-> c[i]]
  <2>1. \A i \in 0..k : i \in 0..Len(s)
    BY <1>3
  <2>2. e \in [0..k -> Nat] /\ e[0] = 0 /\ e[k] = c[k]
    BY <1>3, <2>1
  <2>3. \A i \in 1..k : e[i - 1] = c[i - 1] /\ e[i] = c[i]
    BY <1>3
  <2> HIDE DEF e
  <2>4. Divides(t, act, u, e, k) /\ Reads(t, act, u[k + 1], e[k], n)
    BY <1>6, <1>12, <2>2, <2>3 DEF Divides
  <2> QED
    BY <1>3, <1>4, <2>4, ParsedAgain
<1> QED
  BY <1>13 DEF u, z, act

-----------------------------------------------------------------------------
(* Expressions that are compared with themselves are found.                *)

\* The parser's stack stands for what was read of the query.
SidesInv ==
    /\ state \in {"parsing", "accepted"} =>
         Parsed(stack, Memory, TokensOf(text), Count(text, place))
    /\ state = "accepted" => stack[1].symbol = "command"

LEMMA SidesStart == ParseInit => SidesInv
<1> SUFFICES ASSUME ParseInit PROVE SidesInv
  OBVIOUS
<1>1. text \in Seq(STRING) /\ place = 1 /\ stack = <<>> /\ state = "parsing"
  BY SqlParseAssumption DEF ParseInit
<1>2. Count(text, place) = 0
  BY <1>1, EndsAligned
<1> QED
  BY <1>1, <1>2, EmptyParsed DEF SidesInv

LEMMA SameParsed ==
    ASSUME NEW s, NEW m, NEW t, NEW n, Parsed(s, m, t, n), NEW k, Spares(m, k, {})
    PROVE  Parsed(s, k, t, n)
BY ReadsStill DEF Parsed, Divides

LEMMA ShiftSides == ASSUME ParserInv, CallsInv, SidesInv, Shift PROVE SidesInv'
<1> DEFINE x == yylex(text, place)
           named == x.kind \in {"STRING", "NAME", "Q_STRING", "DQ_STRING"}
           m == IF named THEN NewString(Memory, x.text) ELSE Memory
           t == Append(stack, Item(x.kind, m.value))
           n == Count(text, place)
<1>1. /\ state = "parsing" /\ place <= Len(text)
      /\ place' = x.next /\ text' = text /\ risk' = risk \cup x.calls
      /\ objects' = m.objects /\ made' = m.made
      /\ \/ x.kind # "none" /\ Fits(stack, x.kind) /\ stack' = t /\ state' = "parsing"
         \/ state' \in {"failed", "crashed"} /\ stack' = stack
         \/ x.kind = "none" /\ state' = "parsing" /\ stack' = stack
  BY DEF Shift
<1>2. text \in Seq(STRING) /\ place \in 1..Len(text)
  BY <1>1, TextsAre DEF ParserInv, CallsInv, Aligned
<1>3. /\ x.kind = "none" => Count(text, place') = n
      /\ x.kind # "none" => Count(text, place') = n + 1 /\ TokensOf(text)[n + 1] = x
  BY <1>1, <1>2, ScanAligned DEF CallsInv
<1>4. x.kind \notin Heads
  BY yylexIs DEF IsLexeme, TokenKind
<1>5. /\ Spares(Memory, Memory', {})
      /\ x.kind \in NameTokens => Writes(Memory', m.value, x.text)
  <2> HIDE DEF x
  <2>1. IsMemory(Memory) /\ DOMAIN Memory = MemoryFields
    BY MemoryFieldsAre DEF ParserInv
  <2>2. Spares(Memory, m, {})
    BY <2>1, NewStringSpares, SparesItself
  <2>3. x.kind \in NameTokens =>
          m.value \in DOMAIN m.objects /\ m.objects[m.value].str_value = x.text
    BY <2>1, NewMakes DEF NewString, NameTokens
  <2> HIDE DEF m
  <2>4. Memory'.objects = m.objects /\ Memory'.risk = Memory.risk \cup x.calls
    BY <1>1 DEF Memory
  <2> QED
    BY <2>2, <2>3, <2>4, MemoryFieldsAre DEF Spares, Writes
<1> HIDE DEF x, m
<1>6. n \in Nat /\ Parsed(stack, Memory, TokensOf(text), n) /\ IsSequence(stack)
  BY <1>1 DEF CallsInv, SidesInv, Aligned, OnSymbols
<1>7. CASE x.kind # "none" /\ Fits(stack, x.kind) /\ stack' = t /\ state' = "parsing"
  <2> HIDE DEF n
  <2>1. Parsed(t, Memory', TokensOf(text), n + 1)
    BY <1>3, <1>4, <1>5, <1>6, <1>7, TokenParsed
  <2> QED
    BY <1>1, <1>3, <1>7, <2>1 DEF SidesInv
<1>8. CASE state' \in {"failed", "crashed"} /\ stack' = stack
  BY <1>8 DEF SidesInv
<1>9. CASE x.kind = "none" /\ state' = "parsing" /\ stack' = stack
  <2>1. Parsed(stack, Memory', TokensOf(text), n)
    BY <1>5, <1>6, SameParsed
  <2> QED
    BY <1>1, <1>3, <1>9, <2>1 DEF SidesInv
<1> QED
  BY <1>1, <1>7, <1>8, <1>9

LEMMA ReduceSides ==
    ASSUME ParserInv, CallsInv, SidesInv, NEW r \in Rules, Reduce(r) PROVE SidesInv'
<1> PICK k \in 0..Len(stack) : \E v : Replaces(r, k, v)
  BY ReductionReplaces
<1> PICK v : Replaces(r, k, v)
  OBVIOUS
<1> DEFINE m == Act(r.action, v, Memory)
           n == Count(text, place)
           tokens == TokensOf(text)
<1>1. /\ stack' = Append(SubSeq(stack, 1, k), Item(r.lhs, m.value))
      /\ objects' = m.objects /\ made' = m.made /\ risk' = m.risk
      /\ UNCHANGED <<text, place, state>> /\ state = "parsing"
  BY ReductionReplaces DEF Replaces
<1>2. n \in Nat /\ Parsed(stack, Memory, tokens, n)
  BY <1>1 DEF CallsInv, SidesInv, Aligned
<1>3. Parsed(stack', m, tokens, n)
  <2> HIDE DEF n, tokens
  <2> QED
    BY <1>1, <1>2, MemoryIs, ReductionParsed DEF ParserInv, Replaces
<1>4. Spares(m, Memory', {})
  <2> HIDE DEF m
  <2> QED
    BY <1>1, MemoryFieldsAre DEF Spares, Memory
<1> HIDE DEF m
<1>5. Parsed(stack', Memory', tokens, n)
  BY <1>3, <1>4, SameParsed
<1> QED
  BY <1>1, <1>5 DEF SidesInv

LEMMA EndSides == ASSUME CallsInv, SidesInv, EndOfQuery PROVE SidesInv'
<1>1. /\ UNCHANGED <<text, place, stack, objects, made, risk>> /\ state = "parsing"
      /\ \/ state' = "accepted" /\ [i \in DOMAIN stack |-> stack[i].symbol] = <<"command">>
         \/ state' = "failed"
  BY DEF EndOfQuery
<1>2. Memory' = Memory
  BY <1>1 DEF Memory
<1>3. ASSUME [i \in DOMAIN stack |-> stack[i].symbol] = <<"command">>
      PROVE  stack[1].symbol = "command"
  <2>1. 1 \in DOMAIN <<"command">> /\ <<"command">>[1] = "command"
    OBVIOUS
  <2> QED
    BY <1>3, <2>1
<1> QED
  BY <1>1, <1>2, <1>3 DEF SidesInv

LEMMA SidesSteps == ParserInv /\ CallsInv /\ SidesInv /\ [ParseNext]_parseVars => SidesInv'
<1> SUFFICES ASSUME ParserInv, CallsInv, SidesInv, [ParseNext]_parseVars PROVE SidesInv'
  OBVIOUS
<1>1. CASE Shift
  BY <1>1, ShiftSides
<1>2. CASE \E r \in Rules : Reduce(r)
  BY <1>2, ReduceSides
<1>3. CASE EndOfQuery
  BY <1>3, EndSides
<1>4. CASE ParseReturn
  BY <1>4 DEF ParseReturn, SidesInv
<1>5. CASE UNCHANGED parseVars
  BY <1>5 DEF parseVars, SidesInv, Memory
<1> QED
  BY <1>1, <1>2, <1>3, <1>4, <1>5 DEF ParseNext

\* A comparison with itself to the end of a query is in no brace.
LEMMA ComparesOpen ==
    ASSUME NEW t, NEW n \in Nat, Balanced(t, 0, n), NEW w \in 1..n, NEW e \in 1..n,
           ComparesFrom(t, w, e, n)
    PROVE  Opened(t, w) = Opened(t, 0)
<1> DEFINE l == n - e
<1>1. /\ w < e /\ e <= n /\ t[e].kind = "EQUAL" /\ e - w = n + 1 - e
      /\ Opened(t, e) = Opened(t, w)
      /\ SameSpan(t, w, e, l)
  BY DEF ComparesFrom, SameSpan
<1>2. l \in Nat /\ e + l = n /\ w + l = e - 1 /\ e - 1 \in Nat /\ (e - 1) + 1 = e
  BY <1>1
<1> HIDE DEF l
<1>3. Opened(t, e - 1) - Opened(t, w) = Opened(t, n) - Opened(t, e)
  <2>1. w \in Nat /\ e \in Nat
    OBVIOUS
  <2>2. Opened(t, w + l) - Opened(t, w) = Opened(t, e + l) - Opened(t, e)
    BY <1>1, <1>2, <2>1, OpenedAlike
  <2> QED
    BY <1>2, <2>2
<1>4. Opened(t, e) = Opened(t, e - 1)
  <2>1. Opened(t, (e - 1) + 1) = Opened(t, e - 1) + Braces(t[(e - 1) + 1].kind)
    BY <1>2, OpenedIs
  <2>2. Braces(t[e].kind) = 0 /\ Opened(t, e - 1) \in Int
    BY <1>1, <1>2, OpenedIs DEF Braces
  <2> QED
    BY <1>2, <2>1, <2>2
<1>5. Opened(t, w) \in Int /\ Opened(t, n) \in Int /\ Opened(t, 0) \in Int
  BY OpenedIs
<1>6. Opened(t, n) = Opened(t, 0)
  BY DEF Balanced
<1> QED
  BY <1>1, <1>3, <1>4, <1>5, <1>6

LEMMA SidesInvFound == ParserInv /\ CallsInv /\ SidesInv => SameSidesAreFound
<1> SUFFICES ASSUME ParserInv, CallsInv, SidesInv, state = "accepted", ComparesEquals
             PROVE  "tautology" \in risk
  BY Zenon DEF SameSidesAreFound
<1> DEFINE t == TokensOf(text)
           n == Len(t)
<1>1. Count(text, place) = n /\ n \in Nat /\ DOMAIN t = 1..n
  BY TextsAre, EndsAligned DEF ParserInv, CallsInv, Aligned
<1>2. PICK w \in DOMAIN t : \E e \in DOMAIN t :
        t[w].kind = "WHERE" /\ ComparesFrom(t, w, e, n)
  BY Zenon DEF ComparesEquals
<1>3. PICK e \in DOMAIN t : t[w].kind = "WHERE" /\ ComparesFrom(t, w, e, n)
  BY <1>2
<1>4. /\ Parsed(stack, Memory, t, n) /\ Len(stack) = 1
      /\ stack[1].symbol = "command"
  BY <1>1 DEF CallsInv, SidesInv
<1> HIDE DEF t, n
<1>5. PICK c \in [0..1 -> Nat] : Divides(t, Memory, stack, c, 1) /\ c[1] = n
  BY <1>4 DEF Parsed
<1>6. Reads(t, Memory, stack[1], 0, n)
  <2>1. Reads(t, Memory, stack[1], c[1 - 1], c[1]) /\ c[0] = 0 /\ 1 - 1 = 0
    BY <1>5 DEF Divides
  <2> QED
    BY <1>5, <2>1
<1>7. Balanced(t, 0, n) /\ Reports(risk, t, 0, n)
  BY <1>4, <1>6, MemoryIs DEF Reads, Stands, Means, Heads, Conditional
<1>8. Opened(t, w) = Opened(t, 0)
  BY <1>1, <1>3, <1>7, ComparesOpen
<1>9. ReportsFrom(risk, t, w, n)
  <2>1. w \in (0 + 1)..n
    BY <1>1
  <2> QED
    BY <1>3, <1>7, <1>8, <2>1 DEF Reports
<1> QED
  BY <1>1, <1>3, <1>9 DEF ReportsFrom

\* cmp_fn of sql.ypp, where logical_exp calls it: in whatever order the rules apply, and
\* whatever is constant in the patterns' file, the parser accepts no query whose condition
\* compares an expression with one of the same tokens without having found it, however the
\* expression is made of fields, values, operators, functions and braces.
THEOREM EqualSidesAreFound == ParseSpec => []SameSidesAreFound
<1>1. ParserInv /\ CallsInv /\ SidesInv => SameSidesAreFound
  BY SidesInvFound
<1>2. ParseInit => ParserInv /\ CallsInv /\ SidesInv
  BY ParserStarts, CallsStart, SidesStart
<1>3. (ParserInv /\ CallsInv /\ SidesInv) /\ [ParseNext]_parseVars
        => (ParserInv /\ CallsInv /\ SidesInv)'
  BY ParserSteps, CallsSteps, SidesSteps
<1> QED
  BY <1>1, <1>2, <1>3, PTL DEF ParseSpec

=============================================================================
