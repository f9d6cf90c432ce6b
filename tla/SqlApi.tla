------------------------------- MODULE SqlApi -------------------------------
(***************************************************************************)
(* The life of results in the PostgreSQL library (src/lib/sql_api.c).      *)
(* PQexec allocates a result, PQclear frees it.  A db_struct holds the     *)
(* result of db_query until db_cleanup; one global, pgres_temp, holds that *)
(* of db_exec and db_permiss until whoever frees it next, db_cleanup of    *)
(* any db_struct included.  Calls nest: dbmap_reload reads a whitelist,    *)
(* and proxymap_reload updates a row, while each fetches from a db_struct. *)
(*                                                                         *)
(* A call of the library is one step.  The callers are a table: each step  *)
(* has an operation and the steps that may follow, those after a result    *)
(* and those without.  db_backup has no caller, and PQexec has no effect   *)
(* here but its result.                                                    *)
(***************************************************************************)
EXTENDS Integers, Sequences, FiniteSets

CONSTANT Addresses        \* where PQexec may allocate: addresses are used again

NULL == 0
ASSUME SqlApiAssumption == IsFiniteSet(Addresses) /\ NULL \notin Addresses

VARIABLES
    step,        \* the caller's next step
    frames,      \* the db_structs in scope, the innermost last: their pgres
    pgres_temp,  \* the global result
    live,        \* the addresses allocated
    crashed,     \* a result that was freed has been read, or freed again
    dangled,     \* history: db_permiss has left a result that it freed
    kept         \* history: the results, but for pgres_temp, before a timer's round

results == <<frames, pgres_temp, live, crashed, dangled>>
vars    == <<step, results, kept>>

-----------------------------------------------------------------------------
\* The callers: an operation, and the steps after a result and after none.
Do(op, then, else) == [op |-> op, then |-> then, else |-> else]

\* What a callback does after a call of check_query's: any other, or it returns.
Calls == {"privilege", "learn", "group", "alert", "timer"}

ProxymapReload ==
    [timer  |-> Do("query", {"row", "rows"}, {"noRows"}),
     row    |-> Do("read", {"status"}, {}),
     status |-> Do("exec", {"status", "row", "rows"}, {"status", "row", "rows"}),
     rows   |-> Do("cleanup", {"sweep", "learning3"}, {}),
     noRows |-> Do("cleanup", {"learning3"}, {}),
     sweep  |-> Do("exec", {"sweep", "learning3"}, {"sweep", "learning3"})]

\* Both halves, the databases and the defaults, and LoadWhitelist in them.
DbmapReload ==
    [learning3     |-> Do("exec", {"learning7"}, {"learning7", "groups"}),
     learning7     |-> Do("exec", {"dbs"}, {"dbs", "groups"}),
     dbs           |-> Do("query", {"db", "dbsDone"}, {"noDbs"}),
     db            |-> Do("read", {"whitelist"}, {}),
     whitelist     |-> Do("query", {"pattern", "whitelistDone"}, {"whitelistDone"}),
     pattern       |-> Do("read", {"pattern", "whitelistDone"}, {}),
     whitelistDone |-> Do("cleanup", {"db", "dbsDone"}, {}),
     dbsDone       |-> Do("cleanup", {"dbs", "groups"}, {}),
     noDbs         |-> Do("cleanup", {"groups"}, {})]

AgroupmapReload ==
    [groups     |-> Do("query", {"oneGroup", "groupsDone"}, {"groupsDone"}),
     oneGroup   |-> Do("read", {"oneGroup", "groupsDone"}, {}),
     groupsDone |-> Do("cleanup", Calls, {})]

\* The first query's result is never cleaned up.
CheckUserPermiss ==
    [privilege   |-> Do("query", {"tryIt"}, {"noPrivilege"}),
     noPrivilege |-> Do("cleanup", Calls, {}),
     tryIt       |-> Do("exec", {"permiss"}, {"permiss", "forget"}),
     permiss     |-> Do("permiss", {"forget"}, {"forget"}),
     forget      |-> Do("return", Calls, {})]

\* Nor is it when the pattern is new.
AddToWhitelist ==
    [learn     |-> Do("query", {"isKnown", "isNew"}, {"learnDone"}),
     isKnown   |-> Do("read", {"learnDone"}, {}),
     isNew     |-> Do("exec", {"forget"}, {"forget"}),
     learnDone |-> Do("cleanup", Calls, {})]

Logalert ==
    [group     |-> Do("query", {"number", "noGroup"}, {"noGroup"}),
     number    |-> Do("read", {"groupDone"}, {}),
     groupDone |-> Do("cleanup", {"alert"}, {}),
     noGroup   |-> Do("cleanup", {"addGroup"} \cup Calls, {}),
     addGroup  |-> Do("exec", {"added"}, {"added"} \cup Calls),
     added     |-> Do("changes", {"group"} \cup Calls, {}),
     alert     |-> Do("exec", {"alerted"}, {"alerted", "update"}),
     alerted   |-> Do("changes", {"update"}, {}),
     update    |-> Do("exec", {"updated"}, {"updated"} \cup Calls),
     updated   |-> Do("changes", Calls, {})]

\* Each step is in one part.
Parts == {ProxymapReload, DbmapReload, AgroupmapReload, CheckUserPermiss, AddToWhitelist,
          Logalert}

ProgramSteps == UNION {DOMAIN part : part \in Parts}

Program == [s \in ProgramSteps |-> (CHOOSE part \in Parts : s \in DOMAIN part)[s]]

-----------------------------------------------------------------------------
Init ==
    /\ step = "timer"
    /\ frames = <<>>
    /\ pgres_temp = NULL
    /\ live = {}
    /\ crashed = FALSE /\ dangled = FALSE
    /\ kept = {}

\* The step's operation is op, and the program goes on.
Runs(op)  == ~ crashed /\ Program[step].op = op
Goes(steps) ==
    /\ step' \in steps
    /\ kept' = IF step' = "timer" THEN live' \ {pgres_temp'} ELSE kept

Top == frames[Len(frames)]

\* PQclear of some handles.
Bad(handles) == \E i \in DOMAIN handles :
                    /\ handles[i] # NULL
                    /\ handles[i] \notin live \/ \E j \in 1..(i - 1) : handles[j] = handles[i]
Freed(handles) == live \ {handles[i] : i \in DOMAIN handles}

\* db_query: a result, or none if the statement failed or was not executed.
DbQuery ==
    /\ Runs("query")
    /\ \/ \E r \in Addresses \ live :
             /\ frames' = Append(frames, r)
             /\ live' = live \cup {r}
             /\ Goes(Program[step].then)
       \/ /\ frames' = Append(frames, NULL)
          /\ UNCHANGED live
          /\ Goes(Program[step].else)
    /\ UNCHANGED <<pgres_temp, crashed, dangled>>

\* db_fetch_row finds a row and the columns are read.
DbFetchRow ==
    /\ Runs("read")
    /\ Top # NULL
    /\ crashed' = (Top \notin live)
    /\ UNCHANGED <<frames, pgres_temp, live, dangled>>
    /\ Goes(Program[step].then)

\* Mutant: what the last statement left stays.
DbExec_KeepsLast ==
    /\ Runs("exec")
    /\ \/ \E r \in Addresses \ live :
             /\ pgres_temp' = r
             /\ live' = live \cup {r}
             /\ Goes(Program[step].then)
       \/ /\ pgres_temp' = NULL
          /\ UNCHANGED live
          /\ Goes(Program[step].else)
    /\ UNCHANGED <<frames, crashed, dangled>>

\* db_exec frees what the last left.  Most failures are reported as success.
DbExec ==
    /\ Runs("exec")
    /\ crashed' = Bad(<<pgres_temp>>)
    /\ \/ \E r \in Addresses \ Freed(<<pgres_temp>>) :
             /\ pgres_temp' = r
             /\ live' = Freed(<<pgres_temp>>) \cup {r}
             /\ Goes(Program[step].then)
       \/ /\ pgres_temp' = NULL
          /\ live' = Freed(<<pgres_temp>>)
          /\ Goes(Program[step].else)
    /\ UNCHANGED <<frames, dangled>>

\* db_changes reads pgres_temp.
DbChanges ==
    /\ Runs("changes")
    /\ crashed' = (pgres_temp # NULL /\ pgres_temp \notin live)
    /\ UNCHANGED <<frames, pgres_temp, live, dangled>>
    /\ Goes(Program[step].then)

\* Mutant: pgres_temp keeps its value.
DbCleanup_KeepsTemp ==
    /\ Runs("cleanup")
    /\ crashed' = Bad(<<Top, pgres_temp>>)
    /\ live' = Freed(<<Top, pgres_temp>>)
    /\ frames' = SubSeq(frames, 1, Len(frames) - 1)
    /\ UNCHANGED <<pgres_temp, dangled>>
    /\ Goes(Program[step].then)

\* db_cleanup frees the db_struct's result and pgres_temp; its caller returns, or
\* uses the db_struct for a new query.
DbCleanup ==
    /\ Runs("cleanup")
    /\ crashed' = Bad(<<Top, pgres_temp>>)
    /\ live' = Freed(<<Top, pgres_temp>>)
    /\ frames' = SubSeq(frames, 1, Len(frames) - 1)
    /\ pgres_temp' = NULL
    /\ UNCHANGED dangled
    /\ Goes(Program[step].then)


\* db_permiss: the last result is lost; a result without rows, an error's for
\* instance, is freed, but pgres_temp keeps its address.
DbPermiss ==
    /\ Runs("permiss")
    /\ \/ \E r \in Addresses \ live :
             /\ pgres_temp' = r
             /\ \/ live' = live \cup {r} /\ UNCHANGED dangled
                \/ UNCHANGED live /\ dangled' = TRUE
       \/ pgres_temp' = NULL /\ UNCHANGED <<live, dangled>>
    /\ UNCHANGED <<frames, crashed>>
    /\ Goes(Program[step].then)

\* The caller returns and its db_struct goes out of scope as it is.
Return ==
    /\ Runs("return")
    /\ frames' = SubSeq(frames, 1, Len(frames) - 1)
    /\ UNCHANGED <<pgres_temp, live, crashed, dangled>>
    /\ Goes(Program[step].then)

Next == DbQuery \/ DbFetchRow \/ DbExec \/ DbChanges \/ DbCleanup \/ DbPermiss \/ Return

Spec == Init /\ [][Next]_vars

-----------------------------------------------------------------------------
\* Type invariant.
TypeOK ==
    /\ step \in DOMAIN Program
    /\ Len(frames) <= 2
    /\ \A i \in DOMAIN frames : frames[i] \in Addresses \cup {NULL}
    /\ pgres_temp \in Addresses \cup {NULL}
    /\ live \subseteq Addresses
    /\ crashed \in BOOLEAN /\ dangled \in BOOLEAN
    /\ kept \subseteq Addresses

\* Results are neither read nor freed after they were freed, through nested queries
\* and a global that every cleanup frees, as long as every privilege query has rows.
UsedWhileLive == crashed => dangled

\* A round of the timer frees what it has allocated, and nothing else but what
\* pgres_temp held before, whichever of its statements fail.
RoundsRelease ==
    [][step = "groupsDone" /\ ~ dangled => live' = kept]_vars
=============================================================================
