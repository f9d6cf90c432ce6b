------------------------------- MODULE Alerts -------------------------------
(***************************************************************************)
(* The alerts that the firewall writes (src/alert.cpp).  A query that is   *)
(* suspicious, or learned, is logged as a row of the table alert, which    *)
(* belongs to a row of alert_group: one for the queries of a pattern on a  *)
(* database of a proxy.  The number of the group comes from the cache      *)
(* agroupmap, or from the table, or the group is added, by statements      *)
(* without a transaction; agroupmap_reload fills the cache anew.           *)
(*                                                                         *)
(* A call of logalert or logwhitelist is a sequence of steps, one for each *)
(* statement.  Nothing else of the program runs in between, but the        *)
(* administrator may delete groups, a statement may fail, and the program  *)
(* may end and be started again at any point.                              *)
(***************************************************************************)
EXTENDS Integers, FiniteSets

CONSTANTS Keys,           \* triples of a proxy, a database and a pattern
          CacheKey,       \* the string agroupmap files a key under: its first
                          \* character is the proxy's number modulo 256
          Storage,        \* the kind of the storage database
          StorageErrors,  \* may its statements fail?
          MaxLogs,        \* bound: calls
          MaxDeletes,     \* bound: groups the administrator deletes
          MaxRestarts,    \* bound: restarts of the program
          None            \* no row

Logs      == 1..MaxLogs
Groups    == 1..MaxLogs      \* agroupid; a call adds one group at most
CacheKeys == {CacheKey[k] : k \in Keys}

\* approved is the status that agroup_update_status sets.
GroupType == [key : Keys, approved : BOOLEAN]

\* Rows of alert.
AlertType == [group : Groups]

\* What a call was asked to log.  learned is that of logwhitelist.
CallType == [key : Keys, learned : BOOLEAN]

ASSUME AlertsAssumption ==
    /\ CacheKey \in [Keys -> CacheKeys]
    /\ Storage \in {"mysql", "pgsql"}
    /\ StorageErrors \in BOOLEAN
    /\ MaxLogs \in Nat /\ MaxDeletes \in Nat /\ MaxRestarts \in Nat
    /\ None \notin GroupType \cup AlertType \cup CallType

VARIABLES
    groups,    \* the table alert_group: Groups -> GroupType, or None
    alerts,    \* the table alert, by the call that inserts: Logs -> AlertType, or None
    cache,     \* agroupmap: CacheKeys -> Groups, or 0
    phase,     \* "idle", or the call's next statement
    id,        \* the call's agroupid
    logs,      \* the calls so far; the last of them may be running
    added,     \* the last number the table alert_group has given out
    asked,     \* history: what each call was asked to log
    calm,      \* history: no statement of the last call failed, its group was not deleted
    gone,      \* history: the groups deleted since the cache was filled
    deletes, restarts

tables == <<groups, alerts, added>>
bounds == <<deletes, restarts>>
vars   == <<tables, cache, phase, id, logs, asked, calm, gone, bounds>>

NoGroup == 0
Key     == asked[logs].key

\* Mutant: the pattern is not compared.
GroupsOf_AnyPattern(k) == {g \in Groups : groups[g] # None}

\* The rows that agroup_get's SELECT finds.
GroupsOf(k) == {g \in Groups : groups[g] # None /\ groups[g].key = k}

-----------------------------------------------------------------------------
Init ==
    /\ groups = [g \in Groups |-> None]
    /\ alerts = [n \in Logs |-> None]
    /\ cache = [c \in CacheKeys |-> NoGroup]
    /\ phase = "idle" /\ id = NoGroup
    /\ logs = 0 /\ added = 0
    /\ asked = [n \in Logs |-> None]
    /\ calm = TRUE
    /\ gone = {}
    /\ deletes = 0 /\ restarts = 0

-----------------------------------------------------------------------------
\* logalert and logwhitelist.

\* A call begins with agroupmap_get.
Log(k, learned) ==
    /\ phase = "idle" /\ logs < MaxLogs
    /\ logs' = logs + 1
    /\ asked' = [asked EXCEPT ![logs'] = [key |-> k, learned |-> learned]]
    /\ id' = cache[CacheKey[k]]
    /\ phase' = IF id' = NoGroup THEN "lookup" ELSE "alert"
    /\ calm' = (id' \notin gone)
    /\ UNCHANGED <<tables, cache, gone, bounds>>

\* A statement fails and the call goes on with the phase next.
Fails(next) ==
    /\ StorageErrors
    /\ phase' = next
    /\ calm' = FALSE
    /\ UNCHANGED <<tables, cache, logs, asked, gone, bounds>>

\* agroup_get: a group, or 0 if there is none or the statement failed.
GroupGet ==
    /\ phase = "lookup"
    /\ \/ /\ GroupsOf(Key) # {}
          /\ id' \in GroupsOf(Key)
          /\ phase' = "alert"
          /\ UNCHANGED <<tables, cache, logs, asked, calm, gone, bounds>>
       \/ /\ GroupsOf(Key) = {}
          /\ phase' = "insert"
          /\ UNCHANGED <<tables, cache, id, logs, asked, calm, gone, bounds>>
       \/ Fails("insert") /\ UNCHANGED id

\* agroup_add: the group is inserted.  A failure ends the call, on PostgreSQL
\* because db_changes finds no result.
GroupInsert ==
    /\ phase = "insert"
    /\ \/ /\ added' = added + 1
          /\ groups' = [groups EXCEPT ![added'] = [key |-> Key, approved |-> FALSE]]
          /\ phase' = "again"
          /\ UNCHANGED <<alerts, cache, id, logs, asked, calm, gone, bounds>>
       \/ Fails("idle") /\ UNCHANGED id

\* Mutant: the call that adds a group ends with it.
GroupAgain_Ends ==
    /\ phase = "again" /\ GroupsOf(Key) # {}
    /\ id' \in GroupsOf(Key)
    /\ cache' = [cache EXCEPT ![CacheKey[Key]] = id']
    /\ phase' = "idle"
    /\ UNCHANGED <<tables, logs, asked, calm, gone, bounds>>

\* Its number is read back and cached, 0 included: to the next call, 0 is no group.
GroupAgain ==
    /\ phase = "again"
    /\ \/ /\ GroupsOf(Key) # {}
          /\ id' \in GroupsOf(Key)
          /\ cache' = [cache EXCEPT ![CacheKey[Key]] = id']
          /\ phase' = "alert"
          /\ UNCHANGED calm
       \/ /\ GroupsOf(Key) = {} \/ StorageErrors
          /\ id' = NoGroup
          /\ cache' = [cache EXCEPT ![CacheKey[Key]] = NoGroup]
          /\ phase' = "idle"
          /\ calm' = FALSE
    /\ UNCHANGED <<tables, logs, asked, gone, bounds>>

\* alert_add.  For PostgreSQL the format has one argument too few (the texts are
\* left out): the query is written to the column userip, and the statement fails
\* when it is too long for that.  Whatever happens, the call goes on.
AlertInsert ==
    /\ phase = "alert"
    /\ \/ /\ alerts' = [alerts EXCEPT ![logs] = [group |-> id]]
          /\ phase' = "update"
          /\ UNCHANGED <<groups, added, cache, id, logs, asked, calm, gone, bounds>>
       \/ /\ Storage = "pgsql"
          /\ phase' = "update"
          /\ calm' = FALSE
          /\ UNCHANGED <<tables, cache, id, logs, asked, gone, bounds>>
       \/ Fails("update") /\ UNCHANGED id

\* agroup_update and agroup_update_status: the time is left out.
GroupUpdate ==
    /\ phase = "update"
    /\ \/ /\ groups' = IF groups[id] # None /\ asked[logs].learned
                         THEN [groups EXCEPT ![id].approved = TRUE] ELSE groups
          /\ phase' = "idle"
          /\ UNCHANGED <<alerts, added, cache, id, logs, asked, calm, gone, bounds>>
       \/ Fails("idle") /\ UNCHANGED id

-----------------------------------------------------------------------------
\* Mutant: groups that are not in the table any more stay in the cache.
Reload_Merges ==
    /\ phase = "idle"
    /\ cache' \in {f \in [CacheKeys -> Groups \cup {NoGroup}] :
                     \A c \in CacheKeys :
                        LET rows == {g \in Groups : groups[g] # None /\ CacheKey[groups[g].key] = c}
                        IN  IF rows = {} THEN f[c] = cache[c] ELSE f[c] \in rows}
    /\ gone' = {}
    /\ UNCHANGED <<tables, phase, id, logs, asked, calm, bounds>>

\* agroupmap_reload: of the groups under one key, the last that is fetched stays.
\* If the query fails, the cache stays.
Reload ==
    /\ phase = "idle"
    /\ cache' \in {f \in [CacheKeys -> Groups \cup {NoGroup}] :
                     \A c \in CacheKeys :
                        LET rows == {g \in Groups : groups[g] # None /\ CacheKey[groups[g].key] = c}
                        IN  IF rows = {} THEN f[c] = NoGroup ELSE f[c] \in rows}
    /\ gone' = {}
    /\ UNCHANGED <<tables, phase, id, logs, asked, calm, bounds>>

\* The program ends, and is started again with an empty cache (agroupmap_init
\* reloads it, but may fail unseen).
Restart ==
    /\ restarts < MaxRestarts
    /\ restarts' = restarts + 1
    /\ cache' = [c \in CacheKeys |-> NoGroup]
    /\ gone' = {}
    /\ phase' = "idle" /\ id' = NoGroup
    /\ calm' = FALSE
    /\ UNCHANGED <<tables, logs, asked, deletes>>

\* The administrator deletes a group.
DeleteGroup(g) ==
    /\ deletes < MaxDeletes
    /\ deletes' = deletes + 1
    /\ groups[g] # None
    /\ groups' = [groups EXCEPT ![g] = None]
    /\ gone' = gone \cup {g}
    /\ calm' = FALSE
    /\ UNCHANGED <<alerts, added, cache, phase, id, logs, asked, restarts>>

Next ==
    \/ \E k \in Keys, learned \in BOOLEAN : Log(k, learned)
    \/ GroupGet
    \/ GroupInsert
    \/ GroupAgain
    \/ AlertInsert
    \/ GroupUpdate
    \/ Reload
    \/ Restart
    \/ \E g \in Groups : DeleteGroup(g)

Spec == Init /\ [][Next]_vars

-----------------------------------------------------------------------------
\* Type invariant.
TypeOK ==
    /\ groups \in [Groups -> GroupType \cup {None}]
    /\ alerts \in [Logs -> AlertType \cup {None}]
    /\ cache \in [CacheKeys -> Groups \cup {NoGroup}]
    /\ phase \in {"idle", "lookup", "insert", "again", "alert", "update"}
    /\ id \in Groups \cup {NoGroup}
    /\ phase \in {"alert", "update"} => id # NoGroup
    /\ logs \in 0..MaxLogs
    /\ phase # "idle" => logs \in Logs /\ asked[logs] # None
    /\ added \in 0..logs
    /\ phase \in {"lookup", "insert"} => added < logs
    /\ asked \in [Logs -> CallType \cup {None}]
    /\ calm \in BOOLEAN
    /\ gone \subseteq Groups
    /\ deletes \in 0..MaxDeletes /\ restarts \in 0..MaxRestarts

\* An alert is filed under a group of its pattern, as far as the cache tells
\* patterns apart, and a group is marked as approved only if a query of its
\* pattern was learned: the number found several statements ago is still that
\* of the same pattern, whatever was deleted meanwhile.
RightGroup ==
    /\ \A n \in Logs :
          alerts[n] # None /\ groups[alerts[n].group] # None
              => CacheKey[asked[n].key] = CacheKey[groups[alerts[n].group].key]
    /\ \A g \in Groups :
          groups[g] # None /\ groups[g].approved
              => \E n \in Logs : /\ asked[n] # None /\ asked[n].learned
                                 /\ CacheKey[asked[n].key] = CacheKey[groups[g].key]

\* A number in the cache is that of a group, or of one deleted since the cache
\* was filled: alerts without a group end with the next reload.
StaleIsRecent ==
    \A c \in CacheKeys :
        cache[c] # NoGroup =>
            \/ cache[c] \in gone
            \/ groups[cache[c]] # None /\ CacheKey[groups[cache[c]].key] = c

\* alert.cpp:201, "first check if we have similar alert in the past": a pattern
\* has one group, through lost caches and restarts.
OneGroup ==
    \A g, h \in Groups :
        groups[g] # None /\ groups[h] # None /\ groups[g].key = groups[h].key => g = h

\* A call that meets no failing statement, no restart and no deleted group leaves
\* its alert, and a group marked as approved if the query was learned.
RecordedWhenCalm ==
    [][phase # "idle" /\ phase' = "idle" /\ calm' =>
          /\ alerts'[logs] # None
          /\ asked[logs].learned => /\ groups'[alerts'[logs].group] # None
                                    /\ groups'[alerts'[logs].group].approved]_vars
=============================================================================
