-------------------------------- MODULE DbMap --------------------------------
(***************************************************************************)
(* The permissions of databases and the verdict on a query (src/dbmap.cpp, *)
(* src/dbpermobj.cpp and Connection::check_query).  A row of the table     *)
(* db_perm gives a database its permissions and a mode; the table query is *)
(* its whitelist.  Every few seconds dbmap_reload ends the learning modes  *)
(* whose time is over, and copies the rows and their whitelists into       *)
(* permission objects, which live for ever and which connections point to. *)
(*                                                                         *)
(* The event loop is single-threaded, so no query is judged during a       *)
(* reload, but the administrator edits both tables between any two of its  *)
(* statements.  A statement of the storage is one step; AddToWhitelist's   *)
(* two are taken together, because a row that the administrator adds       *)
(* between them has the same effect before or after.                       *)
(***************************************************************************)
EXTENDS Integers, FiniteSets

CONSTANTS Rows,           \* rows of db_perm
          KeyOf,          \* the key of a row's object: its database, whatever its proxy
          DefaultKey,     \* the key of the row for databases without one
          Perms,          \* bits of the column perms
          Patterns,       \* normalized queries
          Conns,          \* connections
          Storage,        \* the kind of the storage database
          StorageErrors,  \* may its statements fail?
          MaxEdits,       \* bound: edits by the administrator
          None            \* no row, no object

Keys     == {KeyOf[r] : r \in Rows}
Defaults == {r \in Rows : KeyOf[r] = DefaultKey}

\* The modes.  Those based on a risk or a privilege judge queries alike; the
\* learning modes may be for ever, for three or for seven days.
Modes == {"risk", "block", "learning", "learning3", "learning7"}
Timed == {"learning3", "learning7"}
Learning == {"learning"} \cup Timed

RowType == [perms : SUBSET Perms, mode : Modes]

\* A DBPermObj.  The flags for grant and revoke are left out: the first has no bit,
\* the second those of create and drop, and nothing reads them.
Object == [perms : SUBSET Perms, mode : Modes, exceptions : SUBSET Patterns]

ASSUME DbMapAssumption ==
    /\ IsFiniteSet(Rows)
    /\ KeyOf \in [Rows -> Keys]
    /\ Storage \in {"mysql", "pgsql"}
    /\ StorageErrors \in BOOLEAN
    /\ MaxEdits \in Nat
    /\ None \notin RowType \cup Object \cup Keys

VARIABLES
    row,      \* the table db_perm: Rows -> RowType, or None
    due,      \* rows whose time in a learning mode is over
    query,    \* the table query: for each key and pattern "none", "off" or "on"
    objs,     \* dbs: Keys -> a permission object, or None
    phase,    \* "idle", or the reload's next statement
    snap,     \* the rows selected and not fetched yet: Rows -> RowType, or None
    conn,     \* the object a connection points to: a key, or None for default_db
    learned,  \* history: the patterns a learning mode has stored
    unread,   \* history: keys whose whitelist could not be read the last time
    edits     \* edits made so far

tables == <<row, due, query, edits>>
reload == <<phase, snap>>
vars   == <<tables, objs, reload, conn, learned, unread>>

\* The object that the constructor of DBPermObj makes.
NewObject == [perms |-> {}, mode |-> "risk", exceptions |-> {}]

NoRows == [r \in Rows |-> None]

\* LoadWhitelist takes the rows with perm > 0.
Whitelist(k) == {p \in Patterns : query[k][p] = "on"}

-----------------------------------------------------------------------------
Init ==
    /\ row \in [Rows -> [perms : {{}}, mode : Modes] \cup {None}]
    /\ due = {}
    /\ query = [k \in Keys |-> [p \in Patterns |-> "none"]]
    /\ objs = [k \in Keys |-> None]
    /\ phase = "idle"
    /\ snap = NoRows
    /\ conn = [c \in Conns |-> None]
    /\ learned = [k \in Keys |-> {}]
    /\ unread = {}
    /\ edits = 0

-----------------------------------------------------------------------------
\* dbmap_reload.

\* A statement that failed ends the reload.  But on PostgreSQL db_exec reports
\* most errors as success.
GivesUp ==
    /\ StorageErrors
    /\ phase' = "idle"
    /\ UNCHANGED <<tables, objs, snap, conn, learned, unread>>

\* Mutant: the row keeps its mode.
EndLearning_Nothing(mode, next) ==
    /\ phase' = next
    /\ UNCHANGED <<tables, objs, snap, conn, learned, unread>>

\* UPDATE db_perm SET status = 4 of the rows in a mode whose time is over.
EndLearning(mode, next) ==
    \/ /\ row' = [r \in Rows |->
                    IF r \in due /\ row[r] # None /\ row[r].mode = mode
                      THEN [row[r] EXCEPT !.mode = "block"] ELSE row[r]]
       /\ phase' = next
       /\ UNCHANGED <<due, query, edits, objs, snap, conn, learned, unread>>
    \/ /\ StorageErrors /\ Storage = "pgsql"
       /\ phase' = next
       /\ UNCHANGED <<tables, objs, snap, conn, learned, unread>>
    \/ GivesUp

EndLearning3 == phase = "idle" /\ EndLearning("learning3", "learning7")

\* On PostgreSQL the second update names the mode of the first: the rows it is
\* for have been updated already.
EndLearning7 ==
    /\ phase = "learning7"
    /\ EndLearning(IF Storage = "pgsql" THEN "learning3" ELSE "learning7", "select")

SelectRows(rows, next) ==
    \/ /\ snap' = [r \in Rows |-> IF r \in rows THEN row[r] ELSE None]
       /\ phase' = next
       /\ UNCHANGED <<tables, objs, conn, learned, unread>>
    \/ GivesUp

Select         == phase = "select" /\ SelectRows(Rows \ Defaults, "rows")
SelectDefaults == phase = "rows" /\ snap = NoRows /\ SelectRows(Defaults, "defaults")

Known(k) == IF objs[k] = None THEN NewObject ELSE objs[k]

\* Mutant: the mode of an object that is known is not refreshed.
InitObject_KeepsMode(k, r) ==
    IF objs[k] = None THEN [NewObject EXCEPT !.mode = snap[r].mode, !.perms = snap[r].perms]
    ELSE [objs[k] EXCEPT !.perms = @ \cup snap[r].perms]

\* DBPermObj::Init: permissions are only ever added.
InitObject(k, r) ==
    [Known(k) EXCEPT !.mode = snap[r].mode, !.perms = @ \cup snap[r].perms]

\* Mutant: what the object has learned to allow is kept.
FetchRow_AddsOnly(r) ==
    LET k == KeyOf[r]
    IN  /\ phase \in {"rows", "defaults"} /\ snap[r] # None
        /\ snap' = [snap EXCEPT ![r] = None]
        /\ objs' = [objs EXCEPT ![k] =
              [InitObject(k, r) EXCEPT !.exceptions = @ \cup Whitelist(k)]]
        /\ unread' = unread \ {k}
        /\ UNCHANGED <<tables, phase, conn, learned>>

\* A row is fetched: its object is made or known, and initialized; LoadWhitelist
\* replaces its exceptions, or fails unseen.
FetchRow(r) ==
    LET k == KeyOf[r]
        new == InitObject(k, r)
    IN  /\ phase \in {"rows", "defaults"} /\ snap[r] # None
        /\ snap' = [snap EXCEPT ![r] = None]
        /\ \/ /\ objs' = [objs EXCEPT ![k] = [new EXCEPT !.exceptions = Whitelist(k)]]
              /\ unread' = unread \ {k}
           \/ /\ StorageErrors
              /\ objs' = [objs EXCEPT ![k] = new]
              /\ unread' = unread \cup {k}
        /\ UNCHANGED <<tables, phase, conn, learned>>

ReloadDone ==
    /\ phase = "defaults" /\ snap = NoRows
    /\ phase' = "idle"
    /\ UNCHANGED <<tables, objs, snap, conn, learned, unread>>

-----------------------------------------------------------------------------
\* The connections.

\* dbmap_find: objects are kept for proxy 1 only, the others get the default.
Find(proxy, k) ==
    IF proxy = 1 /\ k \in Keys \ {DefaultKey} /\ objs[k] # None THEN k
    ELSE IF DefaultKey \in Keys /\ objs[DefaultKey] # None THEN DefaultKey
    ELSE None

\* A connection names its database, at the login or later.
UseDatabase(c, proxy, k) ==
    /\ phase = "idle"
    /\ conn' = [conn EXCEPT ![c] = Find(proxy, k)]
    /\ UNCHANGED <<tables, objs, reload, learned, unread>>

Judge(c) == IF conn[c] = None THEN NewObject ELSE objs[conn[c]]

\* Mutant: a learned pattern is allowed at once, in the object only.
AddToWhitelist_CacheOnly(k, p) ==
    /\ objs' = [objs EXCEPT ![k].exceptions = @ \cup {p}]
    /\ learned' = [learned EXCEPT ![k] = @ \cup {p}]
    /\ UNCHANGED <<row, due, query, edits>>

\* AddToWhitelist: the pattern is stored unless it has a row already, or storing
\* it fails.  The object's own exceptions follow with the next reload.
AddToWhitelist(k, p) ==
    /\ \/ /\ query[k][p] = "none"
          /\ query' = [query EXCEPT ![k][p] = "on"]
          /\ learned' = [learned EXCEPT ![k] = @ \cup {p}]
       \/ /\ query[k][p] = "on"
          /\ learned' = [learned EXCEPT ![k] = @ \cup {p}]
          /\ UNCHANGED query
       \/ /\ query[k][p] = "off" \/ StorageErrors
          /\ UNCHANGED <<query, learned>>
    /\ UNCHANGED <<row, due, edits, objs>>

\* check_query in a learning mode approves a new query.  In the others nothing
\* changes but the alerts, whatever the verdict.
Learn(c, p) ==
    /\ phase = "idle"
    /\ p \notin Judge(c).exceptions
    /\ Judge(c).mode \in Learning
    /\ AddToWhitelist(conn[c], p)
    /\ UNCHANGED <<reload, conn, unread>>

-----------------------------------------------------------------------------
\* The administrator and the clock.

\* A row is added, changed or deleted.  Its learning time begins anew.
EditRow(r) ==
    /\ edits < MaxEdits
    /\ edits' = edits + 1
    /\ \E new \in RowType \cup {None} :
         /\ new # row[r]
         /\ row' = [row EXCEPT ![r] = new]
    /\ due' = due \ {r}
    /\ UNCHANGED <<query, objs, reload, conn, learned, unread>>

\* A pattern is allowed, switched off or removed.
EditWhitelist(k, p) ==
    /\ edits < MaxEdits
    /\ edits' = edits + 1
    /\ \E new \in {"none", "off", "on"} \ {query[k][p]} :
         query' = [query EXCEPT ![k][p] = new]
    /\ learned' = [learned EXCEPT ![k] = @ \ {p}]
    /\ UNCHANGED <<row, due, objs, reload, conn, unread>>

TimePasses(r) ==
    /\ row[r] # None /\ row[r].mode \in Timed /\ r \notin due
    /\ due' = due \cup {r}
    /\ UNCHANGED <<row, query, edits, objs, reload, conn, learned, unread>>

Reload ==
    \/ EndLearning3
    \/ EndLearning7
    \/ Select
    \/ SelectDefaults
    \/ \E r \in Rows : FetchRow(r)
    \/ ReloadDone

Next ==
    \/ Reload
    \/ \E c \in Conns, proxy \in {1, 2}, k \in Keys : UseDatabase(c, proxy, k)
    \/ \E c \in Conns, p \in Patterns : Learn(c, p)
    \/ \E r \in Rows : EditRow(r)
    \/ \E k \in Keys, p \in Patterns : EditWhitelist(k, p)
    \/ \E r \in Rows : TimePasses(r)

\* The timer starts a reload again and again, its statements follow each other,
\* and days pass.
Fairness == WF_vars(Reload) /\ \A r \in Rows : WF_vars(TimePasses(r))

Spec == Init /\ [][Next]_vars /\ Fairness

-----------------------------------------------------------------------------
\* Type invariant.
TypeOK ==
    /\ row \in [Rows -> RowType \cup {None}]
    /\ due \subseteq {r \in Rows : row[r] # None}
    /\ query \in [Keys -> [Patterns -> {"none", "off", "on"}]]
    /\ objs \in [Keys -> Object \cup {None}]
    /\ phase \in {"idle", "learning7", "select", "rows", "defaults"}
    /\ snap \in [Rows -> RowType \cup {None}]
    /\ conn \in [Conns -> Keys \cup {None}]
    /\ \A c \in Conns : conn[c] # None => objs[conn[c]] # None
    /\ learned \in [Keys -> SUBSET Patterns]
    /\ unread \subseteq Keys
    /\ edits \in 0..MaxEdits

\* A database that leaves its learning mode for the blocking one refuses nothing
\* it has learned, if its whitelist could be read and the administrator has not
\* taken the pattern back: the whitelist is read with the mode, never after it.
LearnedIsAllowed ==
    \A k \in Keys :
        objs[k] # None /\ objs[k].mode = "block" /\ k \notin unread
            => learned[k] \subseteq objs[k].exceptions

\* dbpermobj.hpp, "automatically approve all queries ... for 3 days" (7 days): when
\* its time is over the database stops learning, unless its row is edited or
\* deleted.  (The object of a row deleted in its learning time learns for ever.)
LearningEnds ==
    \A r \in Rows : \A m \in Timed :
        (row[r] # None /\ row[r].mode = m)
            ~> \/ row[r] = None
               \/ objs[KeyOf[r]] # None /\ objs[KeyOf[r]].mode # m /\ row[r].mode # m

\* The mode and the permissions that the administrator gives a database are those
\* its queries are judged by, after a while: edits between the statements of a
\* reload are not lost.
EditTakesEffect ==
    \A r \in Rows : \A m \in Modes : \A p \in Perms :
        (row[r] # None /\ row[r].mode = m /\ p \in row[r].perms)
            ~> \/ row[r] = None \/ row[r].mode # m \/ p \notin row[r].perms
               \/ objs[KeyOf[r]] # None /\ objs[KeyOf[r]].mode = m
                    /\ p \in objs[KeyOf[r]].perms

\* A pattern that the administrator takes off the whitelist is refused again,
\* after a while, as long as the database has its row.
RemovedIsRefused ==
    \A r \in Rows : \A p \in Patterns :
        (row[r] # None /\ query[KeyOf[r]][p] = "off")
            ~> \/ row[r] = None \/ query[KeyOf[r]][p] # "off"
               \/ objs[KeyOf[r]] # None /\ p \notin objs[KeyOf[r]].exceptions
=============================================================================
