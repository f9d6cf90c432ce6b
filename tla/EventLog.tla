------------------------------ MODULE EventLog ------------------------------
(***************************************************************************)
(* The three logs (src/log.cpp), with the startup and the end of main and  *)
(* its signal handler, which log too (src/main.cpp).  A FILE handle per    *)
(* log is stdout until its file is opened.  Every line first calls         *)
(* log_reload, which looks whether the file was deleted, by hand or by a   *)
(* rotation, and if so closes and opens the logs again.  It looks at one   *)
(* file only, the first that is open in the order log, alert, event, and   *)
(* log_close closes one only; the others are dropped while open.           *)
(*                                                                         *)
(* A call into the C library is a step.  Between any two the signal        *)
(* handler Killer may log a line of its own, with the same handles, and    *)
(* files may be deleted.  Connections take and release descriptors; fopen  *)
(* fails at their limit, and at the startup for other reasons as well.     *)
(***************************************************************************)
EXTENDS Integers, FiniteSets

CONSTANTS Level,        \* cfg->log_level
          Limit,        \* descriptors the process may have for logs and connections
          MaxDeletions, \* bound: files deleted
          MaxSignals    \* bound: signals

Logs == {"log", "alert", "event"}

\* Which context runs a call of log.cpp: the program, or a signal that interrupts it.
Contexts == {"main", "signal"}

\* The levels of the calls that matter below; ErrorType has seven, from 0 to 6.
CRIT == 0
ERR == 1
INFO == 2
DEBUG == 4
STORAGE == 5
Types == 0..6

ASSUME EventLogAssumption ==
    Level \in Nat /\ Limit \in Nat /\ MaxDeletions \in Nat /\ MaxSignals \in Nat

\* A handle is stdout, or the number of the file it was opened on; so is a path,
\* which names the file of that number or none.
Stdout == 0
Absent == 0

VARIABLES
    handle,     \* log_file, file_alert and file_event
    closed,     \* handles that fclose has closed and that still hold the pointer
    dropped,    \* FILEs that are open and that no handle points to
    path,       \* which file is found under the name of each log
    made,       \* how many files have been made under each name
    sockets,    \* descriptors in use for connections
    level,      \* log_level
    pc,         \* where each context is in a call of log.cpp
    target,     \* the log that the call writes to, or "none" for log_close
    stage,      \* where main is
    bRunning,
    gone,       \* history: files deleted since main's call began
    undefined,  \* history: a FILE was used that had been closed
    deletions, signals

files == <<path, made, deletions>>
calls == <<pc, target>>
vars  == <<handle, closed, dropped, sockets, level, stage, bRunning, gone, undefined,
           signals, files, calls>>

Stages == {"config", "log_init", "Log_init", "LogInit", "started", "storage", "patterns",
           "proxies", "running", "stopping", "free", "exit", "exited", "crashed"}

Steps == {"idle", "check", "close", "forget", "alert", "log", "event", "write"}

Open == {h \in Logs : handle[h] # Stdout /\ h \notin closed}

HasDescriptor == Cardinality(Open) + dropped + sockets < Limit

\* Mutant: the log is looked at last.
First_LogLast ==
    CASE handle["event"] # Stdout -> {"event"}
      [] handle["alert"] # Stdout /\ handle["event"] = Stdout -> {"alert"}
      [] handle["log"] # Stdout /\ handle["alert"] = Stdout /\ handle["event"] = Stdout -> {"log"}
      [] OTHER -> {}

\* The file that log_reload looks at and log_close closes, if any is open.
First ==
    CASE handle["log"] # Stdout -> {"log"}
      [] handle["log"] = Stdout /\ handle["alert"] # Stdout -> {"alert"}
      [] handle["log"] = Stdout /\ handle["alert"] = Stdout /\ handle["event"] # Stdout -> {"event"}
      [] OTHER -> {}

\* A handler runs to its end before what it has interrupted.
Runs(c) == (c = "main" /\ pc["signal"] = "idle") \/ c = "signal"

At(c, step) == Runs(c) /\ pc[c] = step

\* A context uses the FILEs of the handles hs.  What it does with one that was closed
\* is undefined: the call fails, or the program ends.
Uses(hs) == undefined' = (undefined \/ hs \cap closed # {})

Crash(hs) ==
    /\ hs \cap closed # {}
    /\ stage' = "crashed"
    /\ pc' = [c \in Contexts |-> "idle"]
    /\ UNCHANGED <<handle, closed, dropped, sockets, level, target, bRunning, gone, signals,
                   files>>

-----------------------------------------------------------------------------
Init ==
    /\ handle = [h \in Logs |-> Stdout]
    /\ closed = {}
    /\ dropped = 0
    /\ path \in [Logs -> {Absent, 1}]
    /\ made = path
    /\ sockets = 0
    /\ level = 3
    /\ pc = [c \in Contexts |-> "idle"]
    /\ target = [c \in Contexts |-> "none"]
    /\ stage = "config"
    /\ bRunning = TRUE
    /\ gone = {}
    /\ undefined = FALSE
    /\ deletions = 0
    /\ signals = 0

-----------------------------------------------------------------------------
\* The calls of log.cpp, step by step.

\* logevent, loghex, log_alert and log_event begin: lines of the log above its
\* level are left out.  (The other two logs have no level.)
Begin(c, h, type) ==
    /\ target' = [target EXCEPT ![c] = h]
    /\ pc' = [pc EXCEPT ![c] = IF h = "log" /\ level < type THEN "idle" ELSE "check"]
    /\ gone' = IF c = "main" THEN {} ELSE gone

\* Mutant: a log that is open is not looked at.
Check_Unseen(c) ==
    /\ At(c, "check") /\ Uses({})
    /\ pc' = [pc EXCEPT ![c] = IF First # {} THEN "write" ELSE "close"]
    /\ UNCHANGED <<handle, closed, dropped, sockets, level, target, stage, bRunning, gone,
                   signals, files>>

\* log_reload: fstat, and the number of links.
Check(c) ==
    /\ At(c, "check") /\ Uses(First)
    /\ \/ /\ pc' = [pc EXCEPT ![c] =
                IF \E h \in First : h \notin closed /\ handle[h] = path[h]
                  THEN "write" ELSE "close"]
          /\ UNCHANGED <<handle, closed, dropped, sockets, level, target, stage, bRunning,
                         gone, signals, files>>
       \/ Crash(First)

\* Mutant: no file is closed.
Close_None(c) ==
    /\ At(c, "close") /\ Uses({})
    /\ pc' = [pc EXCEPT ![c] = "forget"]
    /\ UNCHANGED <<handle, closed, dropped, sockets, level, target, stage, bRunning, gone,
                   signals, files>>

\* log_close: fclose of the first file that is open.
Close(c) ==
    /\ At(c, "close") /\ Uses(First)
    /\ \/ /\ closed' = closed \cup First
          /\ pc' = [pc EXCEPT ![c] = "forget"]
          /\ UNCHANGED <<handle, dropped, sockets, level, target, stage, bRunning, gone,
                         signals, files>>
       \/ Crash(First)

\* Mutant: the handle that was closed is kept.
Forget_NotTheClosed(c) ==
    /\ At(c, "forget")
    /\ handle' = [h \in Logs |-> IF h \in closed THEN handle[h] ELSE Stdout]
    /\ dropped' = dropped + Cardinality(Open)
    /\ pc' = [pc EXCEPT ![c] = IF target[c] = "none" THEN "idle" ELSE "alert"]
    /\ UNCHANGED <<closed, sockets, level, target, stage, bRunning, gone, signals, files, undefined>>

\* The end of log_close: all handles are stdout again, also those not closed.
Forget(c) ==
    /\ At(c, "forget")
    /\ handle' = [h \in Logs |-> Stdout]
    /\ dropped' = dropped + Cardinality(Open)
    /\ closed' = {}
    /\ pc' = [pc EXCEPT ![c] = IF target[c] = "none" THEN "idle" ELSE "alert"]
    /\ UNCHANGED <<sockets, level, target, stage, bRunning, gone, signals, files, undefined>>

\* fopen(..., "a+") and the assignment of its handle.
Fopen(h) ==
    /\ HasDescriptor
    /\ path' = [path EXCEPT ![h] = IF @ = Absent THEN made[h] + 1 ELSE @]
    /\ made' = [made EXCEPT ![h] = IF path[h] = Absent THEN @ + 1 ELSE @]
    /\ handle' = [handle EXCEPT ![h] = path'[h]]
    /\ dropped' = IF h \in Open THEN dropped + 1 ELSE dropped
    /\ closed' = closed \ {h}

\* log_init, LogInit and Log_init in log_reload, their results ignored.
Reopen(c, h, next) ==
    /\ At(c, h)
    /\ level' = Level
    /\ pc' = [pc EXCEPT ![c] = next]
    /\ \/ Fopen(h)
       \/ ~HasDescriptor /\ UNCHANGED <<handle, closed, dropped, path, made>>
    /\ UNCHANGED <<sockets, target, stage, bRunning, gone, deletions, signals, undefined>>

ReopenAll(c) ==
    \/ Reopen(c, "alert", "log")
    \/ Reopen(c, "log", "event")
    \/ Reopen(c, "event", "write")

\* The line is written and flushed; Killer goes on to clear bRunning.
Write(c) ==
    /\ At(c, "write") /\ Uses({target[c]})
    /\ \/ /\ pc' = [pc EXCEPT ![c] = "idle"]
          /\ bRunning' = (bRunning /\ c = "main")
          /\ UNCHANGED <<handle, closed, dropped, sockets, level, target, stage, gone, signals,
                         files>>
       \/ Crash({target[c]})

\* What a context does next in logevent, log_alert, log_event or loghex, which dumps its
\* bytes where the others write their line.
LogStep(c) ==
    \/ Check(c)
    \/ Close(c)
    \/ Forget(c)
    \/ ReopenAll(c)
    \/ Write(c)

-----------------------------------------------------------------------------
\* main, which goes on when no call of its own is under way.
Main(from) == At("main", "idle") /\ stage = from

Log(type, next) ==
    /\ Begin("main", "log", type)
    /\ stage' = next
    /\ UNCHANGED <<handle, closed, dropped, sockets, level, bRunning, signals, files, undefined>>

GoTo(next) ==
    /\ stage' = next
    /\ UNCHANGED <<handle, closed, dropped, sockets, level, bRunning, gone, undefined, signals,
                   files, calls>>

\* GreenSQLConfig::load.  It gives up silently without a file, or over a section; a
\* line that it cannot read is logged, which opens the logs before log_init does.
LoadConfig ==
    /\ Main("config")
    /\ \/ GoTo("log_init")
       \/ GoTo("exited")
       \/ Log(CRIT, "exit")

\* log_init, Log_init or LogInit in main: without the file the program ends.
InitLog(h, from, next) ==
    /\ Main(from)
    /\ level' = Level
    /\ \/ Fopen(h) /\ stage' = next
       \/ stage' = "exited" /\ UNCHANGED <<handle, closed, dropped, path, made>>
    /\ UNCHANGED <<sockets, bRunning, gone, signals, deletions, calls, undefined>>

Started == Main("started") /\ Log(INFO, "storage")

\* GreenSQLConfig::load_db: the library and its functions are looked up, each of which
\* may be missing, and the database is opened.
LoadDb ==
    /\ Main("storage")
    /\ GoTo("patterns") \/ Log(ERR, "exit") \/ Log(STORAGE, "exit")

\* The patterns of MySQL and of PostgreSQL: no file, or a line without a section.
LoadPatterns ==
    /\ Main("patterns")
    /\ GoTo("proxies") \/ Log(CRIT, "exit") \/ Log(DEBUG, "exit")

\* proxymap_init: from now on there are signals and connections.
OpenProxies ==
    /\ Main("proxies")
    /\ GoTo("running") \/ Log(DEBUG, "exit")

\* A callback of the event loop writes to one of the logs.
Callback ==
    /\ Main("running")
    /\ \E h \in Logs : \E type \in Types : (h # "log" => type = CRIT) /\ Begin("main", h, type)
    /\ UNCHANGED <<handle, closed, dropped, sockets, level, stage, bRunning, signals, files, undefined>>

\* A connection takes a descriptor, or gives one back.
Connect ==
    /\ Main("running") /\ HasDescriptor
    /\ sockets' = sockets + 1
    /\ UNCHANGED <<handle, closed, dropped, level, stage, bRunning, gone, signals, files, calls, undefined>>

Disconnect ==
    /\ Main("running") /\ sockets > 0
    /\ sockets' = sockets - 1
    /\ UNCHANGED <<handle, closed, dropped, level, stage, bRunning, gone, signals, files, calls, undefined>>

\* The timer finds bRunning cleared and closes every proxy; the event loop ends.
EndLoop ==
    /\ Main("running") /\ ~bRunning
    /\ stage' = "stopping"
    /\ sockets' = 0
    /\ UNCHANGED <<handle, closed, dropped, level, bRunning, gone, signals, files, calls, undefined>>

\* log_close.
CloseLogs ==
    /\ Main("stopping")
    /\ pc' = [pc EXCEPT !["main"] = "close"]
    /\ target' = [target EXCEPT !["main"] = "none"]
    /\ stage' = "free"
    /\ gone' = {}
    /\ UNCHANGED <<handle, closed, dropped, sockets, level, bRunning, signals, files, undefined>>

\* GreenSQLConfig::free: the destructor logs a line, and so opens the logs again.
FreeConfig == Main("free") /\ Log(DEBUG, "exit")

Exit == Main("exit") /\ GoTo("exited")

Startup ==
    \/ LoadConfig
    \/ InitLog("log", "log_init", "Log_init")
    \/ InitLog("event", "Log_init", "LogInit")
    \/ InitLog("alert", "LogInit", "started")
    \/ Started
    \/ LoadDb
    \/ LoadPatterns
    \/ OpenProxies

Shutdown == EndLoop \/ CloseLogs \/ FreeConfig \/ Exit

-----------------------------------------------------------------------------
\* Killer is called.
Signal ==
    /\ stage \in {"proxies", "running", "stopping", "free", "exit"}
    /\ pc["signal"] = "idle" /\ signals < MaxSignals
    /\ signals' = signals + 1
    /\ Begin("signal", "log", CRIT)
    /\ UNCHANGED <<handle, closed, dropped, sockets, level, stage, bRunning, files, undefined>>

\* The file of a log is deleted (a file that is only renamed keeps its links).
Delete(h) ==
    /\ stage \notin {"exited", "crashed"}
    /\ path[h] # Absent /\ deletions < MaxDeletions
    /\ path' = [path EXCEPT ![h] = Absent]
    /\ gone' = gone \cup {h}
    /\ deletions' = deletions + 1
    /\ UNCHANGED <<handle, closed, dropped, made, sockets, level, stage, bRunning, signals,
                   calls, undefined>>

Next ==
    \/ \E c \in Contexts : LogStep(c)
    \/ Startup
    \/ Callback
    \/ Connect
    \/ Disconnect
    \/ Shutdown
    \/ Signal
    \/ \E h \in Logs : Delete(h)

\* A call that has begun goes on.
Fairness == \A c \in Contexts : WF_vars(LogStep(c))

Spec == Init /\ [][Next]_vars /\ Fairness

-----------------------------------------------------------------------------
\* Type invariant.
TypeOK ==
    /\ handle \in [Logs -> 0..MaxDeletions + 1]
    /\ closed \subseteq {h \in Logs : handle[h] # Stdout}
    /\ dropped \in Nat /\ sockets \in Nat
    /\ path \in [Logs -> 0..MaxDeletions + 1]
    /\ made \in [Logs -> 0..MaxDeletions + 1]
    /\ level \in Nat
    /\ pc \in [Contexts -> Steps]
    /\ target \in [Contexts -> Logs \cup {"none"}]
    /\ stage \in Stages
    /\ bRunning \in BOOLEAN
    /\ gone \subseteq Logs
    /\ undefined \in BOOLEAN
    /\ deletions \in 0..MaxDeletions
    /\ signals \in 0..MaxSignals

\* log.cpp, "log file was not found. reload it": a line of the log goes to the file
\* that has the log's name, unless that was deleted since the call began, or could
\* not be opened for lack of descriptors.
LineIsKept ==
    pc["main"] = "write" /\ target["main"] = "log" /\ "log" \notin gone /\ ~undefined
        => handle["log"] \in {Stdout, path["log"]}

\* However many descriptors the connections and the dropped FILEs take, the alerts
\* never fall back to stdout: a reload closes one file before it opens the alerts'.
AlertsKeepAFile ==
    stage = "running" /\ pc["main"] = "idle" /\ pc["signal"] = "idle" /\ ~undefined
        => handle["alert"] # Stdout

\* main has called log_close, or ends without.
Closing == stage \in {"free", "exit", "exited", "crashed"}

\* A deletion costs the two descriptors that log_close forgets, and so does the end of
\* the program; a signal in the middle of a reload costs the three that it has opened.
FewAreDropped ==
    ~undefined => dropped <= 2 * deletions + 3 * signals + IF Closing THEN 2 ELSE 0

\* No closed FILE is used, unless a signal comes between fclose and the assignment
\* in log_close.
OnlySignalsCrash == undefined \/ stage = "crashed" => signals > 0

\* What can go wrong in log_reload needs somebody else, each time.
ReloadsAreBounded == FewAreDropped /\ OnlySignalsCrash

\* If lines go on being written, a log that was deleted is made again: the handle
\* leaves the deleted file.
DeletedIsReopened ==
    []<><<pc["main"] = "idle" /\ pc'["main"] = "check">>_vars =>
        ((stage = "running" /\ handle["log"] # Stdout /\ handle["log"] # path["log"])
            ~> (handle["log"] \in {Stdout, path["log"]} \/ stage # "running"))
=============================================================================
