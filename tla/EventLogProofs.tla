--------------------------- MODULE EventLogProofs ---------------------------
(***************************************************************************)
(* Proofs about EventLog: types, the file that a line goes to, the file    *)
(* that the alerts keep, who makes a closed file be used, and what the     *)
(* descriptors that are never closed are charged to.                       *)
(***************************************************************************)
EXTENDS EventLog, FiniteSetTheorems, TLAPS

\* The handles of a log name files that were made; a name is that of its last file.
FilesOK ==
    \A h \in Logs :
        /\ path[h] \in {Absent, made[h]}
        /\ handle[h] <= made[h]
        /\ made[h] <= deletions + 1
        /\ path[h] = Absent => made[h] <= deletions

\* LineIsKept, from the moment the call's own reload has begun to open files.
Kept ==
    pc["main"] \in {"alert", "log", "event", "write"} /\ "log" \notin gone =>
        handle["log"] \in {Stdout, path["log"]}

\* Without a signal there is no closed file but the one that is about to be forgotten.
Calm ==
    signals = 0 =>
        /\ ~undefined /\ stage # "crashed" /\ pc["signal"] = "idle"
        /\ closed # {} => pc["main"] = "forget"

Inv == TypeOK /\ FilesOK /\ Kept /\ Calm

-----------------------------------------------------------------------------
LEMMA LogsFinite == \A s \in SUBSET Logs : IsFiniteSet(s) /\ Cardinality(s) \in Nat
<1>1. IsFiniteSet(Logs)
  <2>1. IsFiniteSet({"log"})
    BY FS_Singleton
  <2>2. IsFiniteSet({"log"} \cup {"alert"})
    BY <2>1, FS_AddElement
  <2>3. IsFiniteSet({"log"} \cup {"alert"} \cup {"event"})
    BY <2>2, FS_AddElement
  <2>4. Logs = {"log"} \cup {"alert"} \cup {"event"}
    BY DEF Logs
  <2>5. QED
    BY <2>3, <2>4
<1>2. QED
  BY <1>1, FS_Subset, FS_CardinalityType

LEMMA OpenFinite == Open \subseteq Logs /\ IsFiniteSet(Open) /\ Cardinality(Open) \in Nat
BY LogsFinite DEF Open

LEMMA FirstIsOne ==
    ASSUME TypeOK
    PROVE  /\ First \subseteq {h \in Logs : handle[h] # Stdout}
           /\ First = {} <=> \A h \in Logs : handle[h] = Stdout
           /\ First = {"log"} <=> handle["log"] # Stdout
           /\ First = {} \/ \E h \in Logs : First = {h}
BY DEF TypeOK, First, Logs

\* fopen keeps the types, and what is known of the files.
LEMMA FopenOK ==
    ASSUME TypeOK, FilesOK, NEW h \in Logs, Fopen(h), deletions' = deletions
    PROVE  /\ handle' \in [Logs -> 0..MaxDeletions + 1]
           /\ path' \in [Logs -> 0..MaxDeletions + 1]
           /\ made' \in [Logs -> 0..MaxDeletions + 1]
           /\ closed' \subseteq {g \in Logs : handle'[g] # Stdout}
           /\ dropped' \in Nat
           /\ FilesOK'
           /\ handle'[h] = path'[h] /\ handle'[h] # Stdout
           /\ \A g \in Logs \ {h} : handle'[g] = handle[g] /\ path'[g] = path[g]
<1>1. path[h] \in {Absent, made[h]} /\ handle[h] <= made[h] /\ made[h] <= deletions + 1
      /\ (path[h] = Absent => made[h] <= deletions)
  BY DEF FilesOK
<1>2. path'[h] = made'[h] /\ made'[h] \in 1..deletions + 1 /\ handle'[h] = made'[h]
  BY <1>1 DEF Fopen, TypeOK, Absent
<1>3. \A g \in Logs \ {h} : /\ path'[g] = path[g] /\ made'[g] = made[g]
                            /\ handle'[g] = handle[g]
  BY DEF Fopen, TypeOK
<1>4. deletions \in 0..MaxDeletions /\ MaxDeletions \in Nat
  BY EventLogAssumption DEF TypeOK
<1>5. /\ handle' \in [Logs -> 0..MaxDeletions + 1]
      /\ path' \in [Logs -> 0..MaxDeletions + 1]
      /\ made' \in [Logs -> 0..MaxDeletions + 1]
  <2>1. 1..deletions + 1 \subseteq 0..MaxDeletions + 1
    BY <1>4
  <2>2. path' = [path EXCEPT ![h] = path'[h]] /\ made' = [made EXCEPT ![h] = made'[h]]
        /\ handle' = [handle EXCEPT ![h] = handle'[h]]
    BY DEF Fopen, TypeOK
  <2>3. QED
    BY <1>2, <2>1, <2>2 DEF TypeOK
<1>6. closed' \subseteq {g \in Logs : handle'[g] # Stdout}
  BY <1>2, <1>3 DEF Fopen, TypeOK, Stdout
<1>7. dropped' \in Nat
  BY DEF Fopen, TypeOK
<1>8. FilesOK'
  <2> SUFFICES ASSUME NEW g \in Logs
               PROVE  /\ path'[g] \in {Absent, made'[g]} /\ handle'[g] <= made'[g]
                      /\ made'[g] <= deletions + 1
                      /\ path'[g] = Absent => made'[g] <= deletions
    BY DEF FilesOK
  <2>1. CASE g = h
    BY <1>2, <1>4, <2>1 DEF Absent
  <2>2. CASE g # h
    BY <1>3, <2>2 DEF FilesOK
  <2>3. QED
    BY <2>1, <2>2
<1>9. QED
  BY <1>2, <1>3, <1>5, <1>6, <1>7, <1>8 DEF Stdout

-----------------------------------------------------------------------------
LEMMA InitInv == Init => Inv
<1> SUFFICES ASSUME Init PROVE Inv
  OBVIOUS
<1>1. TypeOK
  <2>1. MaxDeletions \in Nat /\ MaxSignals \in Nat
    BY EventLogAssumption
  <2>2. path \in [Logs -> 0..MaxDeletions + 1] /\ made = path
    BY <2>1 DEF Init, Absent
  <2>3. handle \in [Logs -> 0..MaxDeletions + 1] /\ closed \subseteq {h \in Logs : handle[h] # Stdout}
    BY <2>1 DEF Init, Stdout
  <2>4. pc \in [Contexts -> Steps] /\ target \in [Contexts -> Logs \cup {"none"}]
    BY DEF Init, Steps
  <2>5. QED
    <3>1. dropped \in Nat /\ sockets \in Nat /\ level \in Nat /\ stage \in Stages
      BY DEF Init, Stages
    <3>2. bRunning \in BOOLEAN /\ gone \subseteq Logs /\ undefined \in BOOLEAN
      BY Zenon DEF Init
    <3>3. deletions \in 0..MaxDeletions /\ signals \in 0..MaxSignals
      BY <2>1 DEF Init
    <3>4. QED
      BY <2>2, <2>3, <2>4, <3>1, <3>2, <3>3, Zenon DEF TypeOK
<1>2. FilesOK
  BY DEF Init, FilesOK, Logs, Stdout, Absent
<1>3. Kept /\ Calm
  BY DEF Init, Kept, Calm, Contexts
<1>4. QED
  BY <1>1, <1>2, <1>3 DEF Inv

\* One lemma for each kind of step.

LEMMA CheckInv ==
    ASSUME Inv, NEW c \in Contexts, Check(c) PROVE Inv'
<1>1. TypeOK'
  BY DEF Inv, Check, Crash, Uses, TypeOK, At, Runs, Contexts, Steps, Stages, files, calls
<1>2. FilesOK'
  BY DEF Inv, Check, Crash, FilesOK, files
<1>3. Kept'
  BY FirstIsOne DEF Inv, Check, Crash, Kept, TypeOK, Contexts, files, At, Runs
<1>4. Calm'
  BY DEF Inv, Check, Crash, Uses, Calm, TypeOK, Contexts, files, At, Runs
<1>5. QED
  BY <1>1, <1>2, <1>3, <1>4 DEF Inv

LEMMA CloseInv ==
    ASSUME Inv, NEW c \in Contexts, Close(c) PROVE Inv'
<1>1. TypeOK'
  BY FirstIsOne
     DEF Inv, Close, Crash, Uses, TypeOK, At, Runs, Contexts, Steps, Stages, files, calls
<1>2. FilesOK'
  BY DEF Inv, Close, Crash, FilesOK, files
<1>3. Kept'
  BY DEF Inv, Close, Crash, Kept, TypeOK, Contexts, files, At, Runs
<1>4. Calm'
  BY DEF Inv, Close, Crash, Uses, Calm, TypeOK, Contexts, files, At, Runs
<1>5. QED
  BY <1>1, <1>2, <1>3, <1>4 DEF Inv

LEMMA ForgetInv ==
    ASSUME Inv, NEW c \in Contexts, Forget(c) PROVE Inv'
<1>1. TypeOK'
  BY OpenFinite, EventLogAssumption
     DEF Inv, Forget, TypeOK, At, Runs, Contexts, Steps, Stages, files, Stdout
<1>2. FilesOK'
  BY EventLogAssumption DEF Inv, Forget, FilesOK, TypeOK, files, Stdout
<1>3. Kept'
  BY DEF Inv, Forget, Kept, TypeOK, Contexts, files, Logs
<1>4. Calm'
  BY DEF Inv, Forget, Calm, TypeOK, Contexts, files, At, Runs
<1>5. QED
  BY <1>1, <1>2, <1>3, <1>4 DEF Inv

LEMMA ReopenInv ==
    ASSUME Inv, NEW c \in Contexts,
           NEW h \in Logs, NEW next \in {"log", "event", "write"}, Reopen(c, h, next)
    PROVE  Inv'
<1>1. CASE Fopen(h)
  <2>1. TypeOK'
    BY <1>1, FopenOK, EventLogAssumption DEF Inv, Reopen, TypeOK, Contexts, Steps
  <2>2. FilesOK'
    BY <1>1, FopenOK DEF Inv, Reopen
  <2>3. Kept'
    BY <1>1, FopenOK DEF Inv, Reopen, Kept, TypeOK, Contexts, Logs, At, Runs
  <2>4. Calm'
    BY <1>1 DEF Inv, Reopen, Fopen, Calm, TypeOK, Contexts, At, Runs, Logs
  <2>5. QED
    BY <2>1, <2>2, <2>3, <2>4 DEF Inv
<1>2. CASE UNCHANGED <<handle, closed, dropped, path, made>>
  <2>1. TypeOK'
    BY <1>2, EventLogAssumption DEF Inv, Reopen, TypeOK, Contexts, Steps
  <2>2. FilesOK'
    BY <1>2 DEF Inv, Reopen, FilesOK
  <2>3. Kept'
    BY <1>2 DEF Inv, Reopen, Kept, TypeOK, Contexts, Logs, At, Runs
  <2>4. Calm'
    BY <1>2 DEF Inv, Reopen, Calm, TypeOK, Contexts, At, Runs, Logs
  <2>5. QED
    BY <2>1, <2>2, <2>3, <2>4 DEF Inv
<1>3. QED
  BY <1>1, <1>2 DEF Reopen

LEMMA WriteInv ==
    ASSUME Inv, NEW c \in Contexts, Write(c) PROVE Inv'
<1>1. TypeOK'
  BY DEF Inv, Write, Crash, Uses, TypeOK, At, Runs, Contexts, Steps, Stages, files, calls
<1>2. FilesOK'
  BY DEF Inv, Write, Crash, FilesOK, files
<1>3. Kept'
  BY DEF Inv, Write, Crash, Kept, TypeOK, Contexts, files, At, Runs
<1>4. Calm'
  BY DEF Inv, Write, Crash, Uses, Calm, TypeOK, Contexts, files, At, Runs
<1>5. QED
  BY <1>1, <1>2, <1>3, <1>4 DEF Inv

LEMMA LogStepInv ==
    ASSUME Inv, NEW c \in Contexts, LogStep(c) PROVE Inv'
<1>1. CASE ReopenAll(c)
  BY <1>1, ReopenInv DEF ReopenAll, Logs
<1>2. QED
  BY <1>1, CheckInv, CloseInv, ForgetInv, WriteInv DEF LogStep

\* main, when no call of its own is under way.
LEMMA InitLogInv ==
    ASSUME Inv, NEW h \in Logs, NEW from \in Stages, NEW next \in Stages \ {"crashed"},
           InitLog(h, from, next)
    PROVE  Inv'
<1>1. pc["main"] = "idle" /\ UNCHANGED <<pc, gone, undefined, signals>>
  BY DEF InitLog, Main, At, calls
<1>2. stage' \in Stages \ {"crashed"}
  BY DEF InitLog, Stages
<1>3. Kept' /\ (closed' \subseteq closed => Calm')
  BY <1>1, <1>2 DEF Inv, Kept, Calm
<1>4. CASE Fopen(h)
  <2>1. TypeOK'
    BY <1>2, <1>4, FopenOK, EventLogAssumption DEF Inv, InitLog, TypeOK, calls
  <2>2. FilesOK'
    BY <1>4, FopenOK DEF Inv, InitLog
  <2>3. QED
    BY <1>3, <1>4, <2>1, <2>2 DEF Inv, Fopen
<1>5. CASE UNCHANGED <<handle, closed, dropped, path, made>>
  <2>1. TypeOK'
    BY <1>2, <1>5, EventLogAssumption DEF Inv, InitLog, TypeOK, calls
  <2>2. FilesOK'
    BY <1>5 DEF Inv, InitLog, FilesOK
  <2>3. QED
    BY <1>3, <1>5, <2>1, <2>2 DEF Inv
<1>6. QED
  BY <1>4, <1>5 DEF InitLog

LEMMA GoToInv ==
    ASSUME Inv, NEW next \in Stages \ {"crashed"}, pc["main"] = "idle", GoTo(next) PROVE Inv'
BY DEF Inv, GoTo, TypeOK, FilesOK, Kept, Calm, files, calls

LEMMA LogInv ==
    ASSUME Inv, NEW next \in Stages \ {"crashed"}, NEW type, pc["main"] = "idle", Log(type, next)
    PROVE  Inv'
<1>1. TypeOK'
  BY DEF Inv, Log, Begin, TypeOK, files, Contexts, Steps, Logs
<1>2. QED
  BY <1>1 DEF Inv, Log, Begin, TypeOK, FilesOK, Kept, Calm, files, Contexts

LEMMA StartupInv ==
    ASSUME Inv, Startup PROVE Inv'
<1>1. CASE LoadConfig
  BY <1>1, GoToInv, LogInv DEF LoadConfig, Main, At, Stages
<1>2. CASE \/ InitLog("log", "log_init", "Log_init") \/ InitLog("event", "Log_init", "LogInit")
           \/ InitLog("alert", "LogInit", "started")
  BY <1>2, InitLogInv DEF Logs, Stages
<1>3. CASE Started
  BY <1>3, LogInv DEF Started, Main, At, Stages
<1>4. CASE LoadDb
  BY <1>4, GoToInv, LogInv DEF LoadDb, Main, At, Stages
<1>5. CASE LoadPatterns
  BY <1>5, GoToInv, LogInv DEF LoadPatterns, Main, At, Stages
<1>6. CASE OpenProxies
  BY <1>6, GoToInv, LogInv DEF OpenProxies, Main, At, Stages
<1>7. QED
  BY <1>1, <1>2, <1>3, <1>4, <1>5, <1>6 DEF Startup

LEMMA ShutdownInv ==
    ASSUME Inv, Shutdown PROVE Inv'
<1>1. CASE EndLoop
  BY <1>1 DEF EndLoop, Inv, TypeOK, FilesOK, Kept, Calm, files, calls, Stages
<1>2. CASE CloseLogs
  <2>1. TypeOK'
    BY <1>2 DEF CloseLogs, Inv, TypeOK, files, Stages, Contexts, Steps
  <2>2. QED
    BY <1>2, <2>1 DEF CloseLogs, Main, At, Inv, TypeOK, FilesOK, Kept, Calm, files, Contexts
<1>3. CASE FreeConfig
  BY <1>3, LogInv DEF FreeConfig, Main, At, Stages
<1>4. CASE Exit
  BY <1>4, GoToInv DEF Exit, Main, At, Stages
<1>5. QED
  BY <1>1, <1>2, <1>3, <1>4 DEF Shutdown

LEMMA LoopInv ==
    ASSUME Inv, Callback \/ Connect \/ Disconnect PROVE Inv'
<1>1. CASE Callback
  <2>1. PICK h \in Logs, type \in Types : Begin("main", h, type)
    BY <1>1 DEF Callback
  <2>2. TypeOK'
    BY <1>1, <2>1 DEF Callback, Begin, Inv, TypeOK, files, Contexts, Steps, Logs
  <2>3. QED
    BY <1>1, <2>1, <2>2
       DEF Callback, Main, At, Begin, Inv, TypeOK, FilesOK, Kept, Calm, files, Contexts
<1>2. CASE Connect \/ Disconnect
  BY <1>2 DEF Connect, Disconnect, Inv, TypeOK, FilesOK, Kept, Calm, files, calls
<1>3. QED
  BY <1>1, <1>2

LEMMA SignalInv ==
    ASSUME Inv, Signal PROVE Inv'
<1>1. TypeOK'
  BY EventLogAssumption DEF Signal, Begin, Inv, TypeOK, files, Contexts, Steps, Logs
<1>2. FilesOK' /\ Kept'
  BY DEF Signal, Begin, Inv, TypeOK, FilesOK, Kept, files, Contexts
<1>3. Calm'
  BY DEF Signal, Inv, TypeOK, Calm
<1>4. QED
  BY <1>1, <1>2, <1>3 DEF Inv

LEMMA DeleteInv ==
    ASSUME Inv, NEW h \in Logs, Delete(h) PROVE Inv'
<1>1. TypeOK'
  BY EventLogAssumption DEF Delete, Inv, TypeOK, calls, Absent
<1>2. FilesOK'
  BY EventLogAssumption DEF Delete, Inv, TypeOK, FilesOK, Absent
<1>3. Kept'
  BY DEF Delete, Inv, TypeOK, Kept, calls, Logs
<1>4. Calm'
  BY DEF Delete, Inv, Calm, calls
<1>5. QED
  BY <1>1, <1>2, <1>3, <1>4 DEF Inv

LEMMA NextInv == Inv /\ [Next]_vars => Inv'
<1> SUFFICES ASSUME Inv, [Next]_vars PROVE Inv'
  OBVIOUS
<1>1. CASE UNCHANGED vars
  BY <1>1 DEF vars, files, calls, Inv, TypeOK, FilesOK, Kept, Calm
<1>2. CASE Next
  BY <1>2, LogStepInv, StartupInv, ShutdownInv, LoopInv, SignalInv, DeleteInv DEF Next
<1>3. QED
  BY <1>1, <1>2

THEOREM Invariance == Spec => []Inv
BY InitInv, NextInv, PTL DEF Spec

\* The handles, names and counters of the logs keep their types, and every handle and name
\* is that of a file that was made.
THEOREM TypeCorrect == Spec => []TypeOK
<1>1. Inv => TypeOK
  BY DEF Inv
<1>2. QED
  BY <1>1, Invariance, PTL

\* A line of the log goes to the file that has the log's name, for any number of
\* deletions, signals and descriptors, even when a closed file was used.
THEOREM LinesKept == Spec => []LineIsKept
<1>1. Inv => LineIsKept
  BY DEF Inv, Kept, LineIsKept
<1>2. QED
  BY <1>1, Invariance, PTL

\* While no signal comes no closed file is used.
THEOREM SignalsCrash == Spec => []OnlySignalsCrash
<1>1. Inv => OnlySignalsCrash
  BY DEF Inv, Calm, OnlySignalsCrash, TypeOK
<1>2. QED
  BY <1>1, Invariance, PTL

-----------------------------------------------------------------------------
\* AlertsKeepAFile: the descriptors in use, and who may be about to open the alerts.

Used == Cardinality(Open) + dropped + sockets

Starting == stage \in {"config", "log_init", "Log_init", "LogInit"}
Live     == stage \in {"started", "storage", "patterns", "proxies", "running", "stopping"}

\* While the alerts have no file all handles are stdout, there is a descriptor to spare,
\* and the context that runs next opens the alerts first.
AlertsWait ==
    handle["alert"] = Stdout =>
        /\ \A h \in Logs : handle[h] = Stdout
        /\ Used < Limit
        /\ \/ pc["signal"] = "alert"
           \/ pc["main"] = "alert" /\ pc["signal"] \in {"idle", "check", "close", "forget"}

\* A file that is closed is the first one, and is forgotten next; it has left a
\* descriptor to spare.
ClosedIsFirst ==
    /\ pc["signal"] = "forget" => Used < Limit /\ pc["main"] # "forget"
    /\ pc["main"] = "forget" =>
         Used < Limit /\ closed # {} /\ closed = First /\ pc["signal"] \in {"idle", "check"}
    /\ closed # {} => pc["main"] = "forget" \/ pc["signal"] = "forget"

Budget ==
    /\ Used <= Limit
    /\ \A c \in Contexts : pc[c] # "idle" => target[c] # "none"
    /\ AlertsWait
    /\ ClosedIsFirst

Descriptors ==
    /\ Starting => closed = {} /\ ~undefined /\ \A c \in Contexts : pc[c] = "idle"
    /\ Live /\ ~undefined => Budget

LEMMA UsedType == TypeOK => Used \in Nat /\ Cardinality(Open) \in Nat
BY OpenFinite DEF TypeOK, Used

LEMMA UsedSame ==
    ASSUME UNCHANGED <<handle, closed, dropped, sockets>>
    PROVE  Used' = Used /\ First' = First
BY DEF Used, Open, First

LEMMA FopenUses ==
    ASSUME TypeOK, FilesOK, NEW h \in Logs, Fopen(h), deletions' = deletions,
           sockets' = sockets
    PROVE  Used < Limit /\ Used' <= Used + 1 /\ Used' \in Nat
<1>1. Used < Limit
  BY DEF Fopen, HasDescriptor, Used
<1>2. /\ handle'[h] # Stdout
      /\ \A g \in Logs \ {h} : handle'[g] = handle[g]
  BY FopenOK
<1>3. closed' = closed \ {h}
  BY DEF Fopen
<1>4. Open' = Open \cup {h}
  BY <1>2, <1>3 DEF Open
<1>5. CASE h \in Open
  <2>1. Open' = Open /\ dropped' = dropped + 1
    BY <1>4, <1>5 DEF Fopen
  <2>2. Used' = Used + 1
    BY <2>1, UsedType DEF Used, TypeOK
  <2>3. QED
    BY <1>1, <2>2, UsedType
<1>6. CASE h \notin Open
  <2>1. Cardinality(Open') = Cardinality(Open) + 1
    BY <1>4, <1>6, OpenFinite, FS_AddElement
  <2>2. dropped' = dropped
    BY <1>6 DEF Fopen
  <2>3. Used' = Used + 1
    BY <2>1, <2>2, UsedType DEF Used, TypeOK
  <2>4. QED
    BY <1>1, <2>3, UsedType
<1>7. QED
  BY <1>5, <1>6

LEMMA CloseUses ==
    ASSUME TypeOK, NEW h \in Logs, First = {h}, h \notin closed, closed' = closed \cup {h},
           UNCHANGED <<handle, dropped, sockets>>
    PROVE  Used' < Used /\ Used' \in Int
<1>1. h \in Open
  BY FirstIsOne DEF Open
<1>2. Open' = Open \ {h}
  BY DEF Open
<1>3. Cardinality(Open') = Cardinality(Open) - 1
  BY <1>1, <1>2, OpenFinite, FS_RemoveElement
<1>4. QED
  BY <1>3, UsedType DEF Used, TypeOK

LEMMA ForgetUses ==
    ASSUME TypeOK, handle' = [h \in Logs |-> Stdout], sockets' = sockets,
           dropped' = dropped + Cardinality(Open)
    PROVE  Used' = Used
<1>1. Open' = {}
  BY DEF Open
<1>2. Cardinality(Open') = 0
  BY <1>1, FS_EmptySet
<1>3. QED
  BY <1>2, UsedType DEF Used, TypeOK

-----------------------------------------------------------------------------
LEMMA InitDescriptors == Init => Descriptors
BY DEF Init, Descriptors, Starting, Live, Contexts

LEMMA CheckBudget ==
    ASSUME Inv, Budget, NEW c \in Contexts, Check(c), stage' # "crashed", ~undefined'
    PROVE  Budget'
<1>1. UNCHANGED <<handle, closed, dropped, sockets, target>>
  BY DEF Check, Crash
<1>2. Used' = Used /\ First' = First
  BY <1>1, UsedSame
<1>3. First \cap closed = {}
  BY DEF Check, Uses
<1>4. pc["main"] # "forget"
  <2> SUFFICES ASSUME pc["main"] = "forget" PROVE FALSE
    OBVIOUS
  <2>1. closed # {} /\ closed = First
    BY DEF Budget, ClosedIsFirst
  <2>2. QED
    BY <1>3, <2>1
<1>5. /\ pc[c] = "check" /\ (c = "main" => pc["signal"] = "idle")
      /\ \E s \in {"write", "close"} : pc' = [pc EXCEPT ![c] = s]
      /\ First = {} => pc' = [pc EXCEPT ![c] = "close"]
  BY DEF Check, Crash, At, Runs, Contexts
<1>6. pc \in [Contexts -> Steps] /\ handle \in [Logs -> 0..MaxDeletions + 1]
  BY DEF Inv, TypeOK
<1>7. AlertsWait'
  <2> SUFFICES ASSUME handle["alert"] = Stdout
               PROVE  /\ \A h \in Logs : handle[h] = Stdout
                      /\ Used < Limit
                      /\ \/ pc'["signal"] = "alert"
                         \/ pc'["main"] = "alert" /\ pc'["signal"] \in {"idle", "check", "close", "forget"}
    BY <1>1, <1>2 DEF AlertsWait
  <2>1. (\A h \in Logs : handle[h] = Stdout) /\ Used < Limit
    BY DEF Budget, AlertsWait
  <2>2. First = {}
    BY <2>1, FirstIsOne DEF Inv
  <2>3. QED
    BY <1>5, <1>6, <2>1, <2>2 DEF Budget, AlertsWait, Contexts
<1>8. ClosedIsFirst'
  BY <1>1, <1>2, <1>4, <1>5, <1>6 DEF Budget, ClosedIsFirst, Contexts
<1>9. QED
  BY <1>1, <1>2, <1>5, <1>6, <1>7, <1>8 DEF Budget

LEMMA CloseBudget ==
    ASSUME Inv, Budget, NEW c \in Contexts, Close(c), stage' # "crashed", ~undefined'
    PROVE  Budget'
<1>1. /\ UNCHANGED <<handle, dropped, sockets, target>>
      /\ closed' = closed \cup First /\ pc' = [pc EXCEPT ![c] = "forget"]
      /\ pc[c] = "close" /\ (c = "main" => pc["signal"] = "idle")
  BY DEF Close, Crash, At, Runs, Contexts
<1>2. First \cap closed = {}
  BY DEF Close, Uses
<1>3. pc \in [Contexts -> Steps] /\ TypeOK
  BY DEF Inv, TypeOK
<1>4. closed = {} /\ pc["main"] # "forget"
  BY <1>1 DEF Budget, ClosedIsFirst, Contexts
<1>5. First' = First
  BY <1>1 DEF First
<1>6. Used' < Limit /\ Used' \in Int
  <2>1. CASE First = {}
    <3>1. closed' = closed
      BY <1>1, <2>1
    <3>2. Used' = Used
      BY <1>1, <3>1, UsedSame
    <3>3. handle["alert"] = Stdout
      BY <1>3, <2>1, FirstIsOne DEF Logs
    <3>4. QED
      BY <1>3, <3>2, <3>3, UsedType DEF Budget, AlertsWait
  <2>2. CASE \E h \in Logs : First = {h}
    <3>1. PICK h \in Logs : First = {h}
      BY <2>2
    <3>2. Used' < Used /\ Used' \in Int
      BY <1>1, <1>2, <1>3, <3>1, CloseUses
    <3>3. Used \in Nat /\ Limit \in Nat /\ Used <= Limit
      BY <1>3, UsedType, EventLogAssumption DEF Budget
    <3>4. QED
      BY <3>2, <3>3
  <2>3. QED
    BY <1>3, <2>1, <2>2, FirstIsOne
<1>7. AlertsWait'
  BY <1>1, <1>3, <1>4, <1>6 DEF Budget, AlertsWait, Contexts
<1>8. c = "main" => First # {}
  <2> SUFFICES ASSUME c = "main", First = {} PROVE FALSE
    OBVIOUS
  <2>1. handle["alert"] = Stdout
    BY <1>3, FirstIsOne DEF Logs
  <2>2. QED
    BY <1>1, <2>1 DEF Budget, AlertsWait
<1>9. ClosedIsFirst'
  BY <1>1, <1>3, <1>4, <1>5, <1>6, <1>8 DEF ClosedIsFirst, Contexts
<1>10. Used' <= Limit
  BY <1>6, EventLogAssumption
<1>11. \A d \in Contexts : pc'[d] # "idle" => target'[d] # "none"
  BY <1>1, <1>3 DEF Budget
<1>12. QED
  BY <1>7, <1>9, <1>10, <1>11 DEF Budget

LEMMA ForgetBudget ==
    ASSUME Inv, Budget, NEW c \in Contexts, Forget(c)
    PROVE  Budget'
<1>1. /\ handle' = [h \in Logs |-> Stdout] /\ closed' = {} /\ target' = target
      /\ pc[c] = "forget" /\ (c = "main" => pc["signal"] = "idle")
  BY DEF Forget, At, Runs, Contexts, calls
<1>2. pc' = [pc EXCEPT ![c] = "alert"]
  BY <1>1 DEF Forget, Budget
<1>3. Used' = Used
  BY ForgetUses DEF Forget, Inv
<1>4. Used < Limit
  BY <1>1 DEF Budget, ClosedIsFirst, Contexts
<1>5. pc \in [Contexts -> Steps]
  BY DEF Inv, TypeOK
<1>6. AlertsWait'
  BY <1>1, <1>2, <1>3, <1>4, <1>5 DEF AlertsWait, Contexts
<1>7. ClosedIsFirst'
  BY <1>1, <1>2, <1>3, <1>4, <1>5 DEF Budget, ClosedIsFirst, Contexts
<1>8. QED
  BY <1>1, <1>2, <1>3, <1>5, <1>6, <1>7 DEF Budget

LEMMA ReopenBudget ==
    ASSUME Inv, Budget, NEW c \in Contexts, NEW h \in Logs,
           NEW next \in {"log", "event", "write"}, Reopen(c, h, next)
    PROVE  Budget'
<1>1. /\ pc[c] = h /\ (c = "main" => pc["signal"] = "idle")
      /\ pc' = [pc EXCEPT ![c] = next] /\ UNCHANGED <<target, sockets, deletions>>
  BY DEF Reopen, At, Runs, Contexts
<1>2. pc \in [Contexts -> Steps] /\ TypeOK /\ FilesOK
  BY DEF Inv, TypeOK
<1>3. closed = {} /\ pc["main"] # "forget"
  BY <1>1 DEF Budget, ClosedIsFirst, Contexts, Logs
<1>4. pc'["main"] # "forget" /\ pc'["signal"] # "forget"
  BY <1>1, <1>2, <1>3 DEF Contexts, Logs
<1>5. handle["alert"] = Stdout => h = "alert" /\ Used < Limit
  BY <1>1 DEF Budget, AlertsWait, Contexts, Logs
<1>6. \A d \in Contexts : pc'[d] # "idle" => target'[d] # "none"
  BY <1>1, <1>2 DEF Budget, Logs
<1>7. CASE Fopen(h)
  <2>1. Used' <= Limit
    BY <1>1, <1>2, <1>7, FopenUses, UsedType, EventLogAssumption
  <2>2. handle'["alert"] # Stdout
    BY <1>1, <1>2, <1>5, <1>7, FopenOK DEF Logs
  <2>3. closed' = {}
    BY <1>3, <1>7 DEF Fopen
  <2>4. QED
    BY <1>4, <1>6, <2>1, <2>2, <2>3 DEF Budget, AlertsWait, ClosedIsFirst
<1>8. CASE ~HasDescriptor /\ UNCHANGED <<handle, closed, dropped, path, made>>
  <2>1. Used' = Used
    BY <1>1, <1>8, UsedSame
  <2>2. handle["alert"] # Stdout
    BY <1>5, <1>8 DEF HasDescriptor, Used
  <2>3. QED
    BY <1>3, <1>4, <1>6, <1>8, <2>1, <2>2 DEF Budget, AlertsWait, ClosedIsFirst
<1>9. QED
  BY <1>7, <1>8 DEF Reopen

LEMMA WriteBudget ==
    ASSUME Inv, Budget, NEW c \in Contexts, Write(c), stage' # "crashed"
    PROVE  Budget'
<1>1. /\ UNCHANGED <<handle, closed, dropped, sockets, target>>
      /\ pc' = [pc EXCEPT ![c] = "idle"]
      /\ pc[c] = "write" /\ (c = "main" => pc["signal"] = "idle")
  BY DEF Write, Crash, At, Runs, Contexts
<1>2. pc \in [Contexts -> Steps]
  BY DEF Inv, TypeOK
<1>3. Used' = Used /\ First' = First
  BY <1>1, UsedSame
<1>4. QED
  BY <1>1, <1>2, <1>3 DEF Budget, AlertsWait, ClosedIsFirst, Contexts

LEMMA LogStepDescriptors ==
    ASSUME Inv, Descriptors, NEW c \in Contexts, LogStep(c) PROVE Descriptors'
<1>1. pc[c] # "idle" /\ (stage' = stage \/ stage' = "crashed") /\ (undefined => undefined')
  <2>1. CASE Check(c)
    BY <2>1 DEF Check, Crash, Uses, At
  <2>2. CASE Close(c)
    BY <2>2 DEF Close, Crash, Uses, At
  <2>3. CASE Forget(c)
    BY <2>3 DEF Forget, At
  <2>4. CASE ReopenAll(c)
    BY <2>4 DEF ReopenAll, Reopen, At
  <2>5. CASE Write(c)
    BY <2>5 DEF Write, Crash, Uses, At
  <2>6. QED
    BY <2>1, <2>2, <2>3, <2>4, <2>5 DEF LogStep
<1>2. ~Starting /\ ~Starting'
  BY <1>1 DEF Descriptors, Starting
<1>3. ASSUME Live', ~undefined' PROVE Budget'
  <2>1. stage' # "crashed" /\ Budget
    BY <1>1, <1>3 DEF Descriptors, Live
  <2>2. CASE ReopenAll(c)
    BY <2>1, <2>2, ReopenBudget DEF ReopenAll, Logs
  <2>3. QED
    BY <1>3, <2>1, <2>2, CheckBudget, CloseBudget, ForgetBudget, WriteBudget DEF LogStep
<1>4. QED
  BY <1>2, <1>3 DEF Descriptors

\* Steps that open no file and take no descriptor, while no context is in a call.
LEMMA QuietBudget ==
    ASSUME Inv, Budget, pc["main"] = "idle", pc["signal"] = "idle",
           UNCHANGED <<handle, closed, dropped>>, Used' <= Limit,
           pc' \in [Contexts -> {"idle", "check"}],
           \A c \in Contexts : pc'[c] # "idle" => target'[c] # "none"
    PROVE  Budget'
<1>1. handle["alert"] # Stdout
  BY DEF Budget, AlertsWait
<1>2. closed = {}
  BY DEF Budget, ClosedIsFirst
<1>3. QED
  BY <1>1, <1>2 DEF Budget, AlertsWait, ClosedIsFirst, Contexts

LEMMA LogBudget ==
    ASSUME Inv, Budget, pc["main"] = "idle", pc["signal"] = "idle", NEW h \in Logs, NEW type,
           Begin("main", h, type), UNCHANGED <<handle, closed, dropped, sockets>>
    PROVE  Budget'
<1>1. pc' \in [Contexts -> {"idle", "check"}]
      /\ \A c \in Contexts : pc'[c] # "idle" => target'[c] # "none"
  BY DEF Begin, Inv, TypeOK, Contexts, Logs
<1>2. Used' <= Limit
  BY UsedSame DEF Budget
<1>3. QED
  BY <1>1, <1>2, QuietBudget

LEMMA GoToDescriptors ==
    ASSUME Inv, Descriptors, NEW next, GoTo(next),
           \/ stage = "config" /\ next = "log_init"
           \/ Live /\ next \in {"patterns", "proxies", "running"}
           \/ next = "exited"
    PROVE  Descriptors'
<1>1. Used' = Used /\ First' = First
  BY UsedSame DEF GoTo
<1>2. UNCHANGED <<handle, closed, pc, target, undefined>> /\ stage' = next
  BY DEF GoTo, calls
<1>3. QED
  BY <1>1, <1>2
     DEF Descriptors, Starting, Live, Budget, AlertsWait, ClosedIsFirst

LEMMA LogDescriptors ==
    ASSUME Inv, Descriptors, NEW type, NEW next, Log(type, next),
           pc["main"] = "idle", pc["signal"] = "idle",
           \/ next = "exit"
           \/ Live /\ next = "storage"
    PROVE  Descriptors'
<1>1. stage' = next /\ UNCHANGED <<handle, closed, dropped, sockets, undefined>>
      /\ Begin("main", "log", type)
  BY DEF Log
<1>2. QED
  BY <1>1, LogBudget DEF Descriptors, Starting, Live, Logs

LEMMA InitLogDescriptors ==
    ASSUME Inv, Descriptors, NEW h \in Logs, NEW from, NEW next, InitLog(h, from, next),
           <<h, from, next>> \in {<<"log", "log_init", "Log_init">>,
                                  <<"event", "Log_init", "LogInit">>,
                                  <<"alert", "LogInit", "started">>}
    PROVE  Descriptors'
<1>1. stage = from /\ UNCHANGED <<pc, target, undefined, sockets, deletions>>
  BY DEF InitLog, Main, calls
<1>2. Starting
  BY <1>1 DEF Starting
<1>3. closed = {} /\ ~undefined /\ \A c \in Contexts : pc[c] = "idle"
  BY <1>2 DEF Descriptors
<1>4. CASE Fopen(h) /\ stage' = next
  <2>1. closed' = {}
    BY <1>3, <1>4 DEF Fopen
  <2>2. Used' <= Limit
    BY <1>1, <1>4, FopenUses, UsedType, EventLogAssumption DEF Inv
  <2>3. h = "alert" => handle'["alert"] # Stdout
    BY <1>1, <1>4, FopenOK DEF Inv
  <2>4. next = "started" => h = "alert"
    OBVIOUS
  <2>5. Live' => Budget'
    BY <1>1, <1>3, <1>4, <2>1, <2>2, <2>3, <2>4
       DEF Live, Budget, AlertsWait, ClosedIsFirst, Contexts
  <2>6. QED
    BY <1>1, <1>3, <2>1, <2>5 DEF Descriptors
<1>5. CASE stage' = "exited"
  BY <1>5 DEF Descriptors, Starting, Live
<1>6. QED
  BY <1>4, <1>5 DEF InitLog

LEMMA StartupDescriptors ==
    ASSUME Inv, Descriptors, Startup PROVE Descriptors'
<1>1. CASE LoadConfig
  <2>1. stage = "config" /\ pc["main"] = "idle" /\ pc["signal"] = "idle"
    BY <1>1 DEF LoadConfig, Main, At, Runs
  <2>2. CASE GoTo("log_init")
    BY <2>1, <2>2, GoToDescriptors
  <2>3. CASE GoTo("exited")
    BY <2>3, GoToDescriptors
  <2>4. CASE Log(CRIT, "exit")
    BY <2>1, <2>4, LogDescriptors
  <2>5. QED
    BY <1>1, <2>2, <2>3, <2>4 DEF LoadConfig
<1>2. CASE \/ InitLog("log", "log_init", "Log_init") \/ InitLog("event", "Log_init", "LogInit")
           \/ InitLog("alert", "LogInit", "started")
  BY <1>2, InitLogDescriptors DEF Logs
<1>3. CASE Started \/ LoadDb \/ LoadPatterns \/ OpenProxies
  <2>1. Live /\ pc["main"] = "idle" /\ pc["signal"] = "idle"
    BY <1>3 DEF Started, LoadDb, LoadPatterns, OpenProxies, Main, At, Runs, Live
  <2>2. ASSUME NEW next \in {"patterns", "proxies", "running"}, GoTo(next)
        PROVE  Descriptors'
    BY <2>1, <2>2, GoToDescriptors
  <2>3. ASSUME NEW type, NEW next \in {"storage", "exit"}, Log(type, next)
        PROVE  Descriptors'
    BY <2>1, <2>3, LogDescriptors
  <2>4. QED
    BY <1>3, <2>2, <2>3 DEF Started, LoadDb, LoadPatterns, OpenProxies
<1>4. QED
  BY <1>1, <1>2, <1>3 DEF Startup

LEMMA LoopDescriptors ==
    ASSUME Inv, Descriptors, Callback \/ Connect \/ Disconnect \/ EndLoop PROVE Descriptors'
<1>1. stage = "running" /\ pc["main"] = "idle" /\ pc["signal"] = "idle"
      /\ stage' \in {"running", "stopping"} /\ undefined' = undefined
      /\ UNCHANGED <<handle, closed, dropped>>
  BY DEF Callback, Connect, Disconnect, EndLoop, Main, At, Runs
<1>2. ASSUME ~undefined' PROVE Budget'
  <2>1. Budget
    BY <1>1, <1>2 DEF Descriptors, Live
  <2>2. CASE Callback
    <3>1. PICK h \in Logs, type \in Types : Begin("main", h, type)
      BY <2>2 DEF Callback
    <3>2. sockets' = sockets
      BY <2>2 DEF Callback
    <3>3. QED
      BY <1>1, <2>1, <3>1, <3>2, LogBudget
  <2>3. CASE Connect \/ Disconnect \/ EndLoop
    <3>1. Open' = Open
      BY <1>1 DEF Open
    <3>2. Used' <= Limit
      BY <1>1, <2>1, <2>3, <3>1, OpenFinite, EventLogAssumption
         DEF Connect, Disconnect, EndLoop, HasDescriptor, Used, Budget, Inv, TypeOK
    <3>3. pc' = pc /\ target' = target
      BY <2>3 DEF Connect, Disconnect, EndLoop, calls
    <3>4. pc' \in [Contexts -> {"idle", "check"}]
      BY <1>1, <3>3 DEF Inv, TypeOK, Contexts
    <3>5. QED
      BY <1>1, <2>1, <3>2, <3>3, <3>4, QuietBudget DEF Budget
  <2>4. QED
    BY <2>2, <2>3
<1>3. QED
  BY <1>1, <1>2 DEF Descriptors, Starting, Live

LEMMA SignalDescriptors ==
    ASSUME Inv, Descriptors, Signal PROVE Descriptors'
<1>1. /\ UNCHANGED <<handle, closed, dropped, sockets, stage, undefined>>
      /\ pc["signal"] = "idle" /\ target' = [target EXCEPT !["signal"] = "log"]
      /\ \E s \in {"idle", "check"} : pc' = [pc EXCEPT !["signal"] = s]
      /\ ~Starting
  BY DEF Signal, Begin, Starting
<1>2. Used' = Used /\ First' = First
  BY <1>1, UsedSame
<1>3. Budget => Budget'
  BY <1>1, <1>2 DEF Budget, AlertsWait, ClosedIsFirst, Contexts, Inv, TypeOK
<1>4. QED
  BY <1>1, <1>3 DEF Descriptors, Starting, Live

LEMMA NextDescriptors == Inv /\ Descriptors /\ [Next]_vars => Descriptors'
<1> SUFFICES ASSUME Inv, Descriptors, [Next]_vars PROVE Descriptors'
  OBVIOUS
<1>1. CASE \E c \in Contexts : LogStep(c)
  BY <1>1, LogStepDescriptors
<1>2. CASE Startup
  BY <1>2, StartupDescriptors
<1>3. CASE Callback \/ Connect \/ Disconnect \/ EndLoop
  BY <1>3, LoopDescriptors
<1>4. CASE CloseLogs \/ FreeConfig \/ Exit
  BY <1>4 DEF CloseLogs, FreeConfig, Exit, Log, GoTo, Descriptors, Starting, Live
<1>5. CASE Signal
  BY <1>5, SignalDescriptors
<1>6. CASE (\E h \in Logs : Delete(h)) \/ UNCHANGED vars
  <2>1. UNCHANGED <<handle, closed, dropped, sockets, stage, undefined, pc, target>>
    BY <1>6 DEF Delete, vars, calls
  <2>2. QED
    BY <2>1, UsedSame DEF Descriptors, Starting, Live, Budget, AlertsWait, ClosedIsFirst
<1>7. QED
  BY <1>1, <1>2, <1>3, <1>4, <1>5, <1>6 DEF Next, Shutdown

\* The alerts never fall back to stdout while the program runs, for any number of
\* descriptors, connections, deletions and signals, unless a closed file was used.
THEOREM AlertsKept == Spec => []AlertsKeepAFile
<1>1. Inv /\ Descriptors => AlertsKeepAFile
  BY DEF Descriptors, Live, Budget, AlertsWait, AlertsKeepAFile
<1>2. Spec => [](Inv /\ Descriptors)
  BY InitInv, NextInv, InitDescriptors, NextDescriptors, PTL DEF Spec
<1>3. QED
  BY <1>1, <1>2, PTL

-----------------------------------------------------------------------------
\* FewAreDropped: every FILE that is dropped, or may yet be, is charged to what allows it.

\* Handles whose file was deleted; the next call closes the first of them.
Stale == {h \in Open : handle[h] # path[h]}

\* What log_reload has left to open, at each step.
StillToOpen(step) ==
    CASE step = "alert" -> {"alert", "log", "event"}
      [] step = "log"   -> {"log", "event"}
      [] step = "event" -> {"event"}
      [] OTHER          -> {}

\* The FILEs that a context will drop, from where it is, if nothing else happens: a file
\* that is closed because it was deleted is charged to its deletion.
Loses(c) ==
    CASE pc[c] = "close"  -> IF First \subseteq Stale THEN {} ELSE Open \ First
      [] pc[c] = "forget" -> Open
      [] OTHER            -> Open \cap StillToOpen(pc[c])

\* A signal may leave what it has opened to be dropped by the call that it interrupted.
Owed ==
    IF pc["signal"] = "idle" THEN Cardinality(Loses("main"))
                             ELSE 3 + Cardinality(Loses("signal"))

Allowed == 2 * deletions + 3 * signals + IF Closing THEN 2 ELSE 0

Charged == ~undefined => dropped + 2 * Cardinality(Stale) + Owed <= Allowed

\* main opens each log once.
OpenedOnce ==
    /\ stage \in {"config", "log_init"} => Open = {}
    /\ stage = "Log_init" => Open \subseteq {"log"}
    /\ stage = "LogInit" => Open \subseteq {"log", "event"}

Account == OpenedOnce /\ Charged

\* What log.cpp's steps must not let grow.
Spent(c) == dropped + 2 * Cardinality(Stale) + Cardinality(Loses(c))

LEMMA LogsCount == Cardinality(Logs) = 3
<1>1. Cardinality({"log"}) = 1 /\ IsFiniteSet({"log"})
  BY FS_Singleton
<1>2. Cardinality({"log"} \cup {"alert"}) = 2 /\ IsFiniteSet({"log"} \cup {"alert"})
  BY <1>1, FS_AddElement
<1>3. Cardinality({"log"} \cup {"alert"} \cup {"event"}) = 3
  BY <1>2, FS_AddElement
<1>4. Logs = {"log"} \cup {"alert"} \cup {"event"}
  BY DEF Logs
<1>5. QED
  BY <1>3, <1>4

LEMMA CountOf ==
    ASSUME NEW s \in SUBSET Logs
    PROVE  /\ Cardinality(s) \in 0..3
           /\ \A t \in SUBSET s : Cardinality(t) <= Cardinality(s)
           /\ \A h \in s : Cardinality(s \ {h}) = Cardinality(s) - 1
           /\ \A h \in Logs : Cardinality(s \cup {h}) <= Cardinality(s) + 1
<1>1. IsFiniteSet(s) /\ Cardinality(s) \in Nat /\ IsFiniteSet(Logs)
  BY LogsFinite
<1>2. Cardinality(s) <= 3
  BY <1>1, FS_Subset, LogsCount
<1>3. \A t \in SUBSET s : Cardinality(t) <= Cardinality(s)
  BY <1>1, FS_Subset
<1>4. \A h \in s : Cardinality(s \ {h}) = Cardinality(s) - 1
  BY <1>1, FS_RemoveElement
<1>5. ASSUME NEW h \in Logs PROVE Cardinality(s \cup {h}) <= Cardinality(s) + 1
  <2>1. CASE h \in s
    <3>1. s \cup {h} = s
      BY <2>1
    <3>2. Cardinality(s \cup {h}) = Cardinality(s)
      BY <3>1
    <3>3. QED
      BY <1>1, <3>2
  <2>2. CASE h \notin s
    <3>1. Cardinality(s \cup {h}) = Cardinality(s) + 1
      BY <1>1, <2>2, FS_AddElement
    <3>2. QED
      BY <1>1, <3>1
  <2>3. QED
    BY <2>1, <2>2
<1>6. QED
  BY <1>1, <1>2, <1>3, <1>4, <1>5

LEMMA LosesLogs ==
    /\ Stale \in SUBSET Open /\ Open \in SUBSET Logs
    /\ Stale' \in SUBSET Open' /\ Open' \in SUBSET Logs
    /\ \A c \in Contexts : Loses(c) \in SUBSET Open /\ Loses(c)' \in SUBSET Open'
BY DEF Stale, Loses, Open

LEMMA Counts ==
    /\ Cardinality(Stale) \in 0..3 /\ Cardinality(Stale') \in 0..3
    /\ Cardinality(Open) \in 0..3 /\ Cardinality(Open') \in 0..3
    /\ \A c \in Contexts :
          Cardinality(Loses(c)) \in 0..3 /\ Cardinality(Loses(c)') \in 0..3
<1>1. \A s \in SUBSET Logs : Cardinality(s) \in 0..3
  BY CountOf
<1>2. Stale \in SUBSET Logs /\ Stale' \in SUBSET Logs /\ Open \in SUBSET Logs
      /\ Open' \in SUBSET Logs
  BY LosesLogs
<1>3. \A c \in Contexts : Loses(c) \in SUBSET Logs /\ Loses(c)' \in SUBSET Logs
  BY LosesLogs
<1>4. QED
  BY <1>1, <1>2, <1>3

\* log_close closes one file, and drops two at most.
LEMMA RestIsTwo ==
    ASSUME TypeOK PROVE Cardinality(Open \ First) <= 2
<1>1. CASE First = {}
  <2>1. Open \ First = {}
    BY <1>1, FirstIsOne DEF Open
  <2>2. QED
    BY <2>1, FS_EmptySet
<1>2. CASE \E h \in Logs : First = {h}
  <2>1. PICK h \in Logs : First = {h}
    BY <1>2
  <2>2. Cardinality(Logs \ {h}) = 2
    BY CountOf, LogsCount
  <2>3. Open \ First \subseteq Logs \ {h}
    BY <2>1 DEF Open
  <2>4. QED
    BY <2>2, <2>3, CountOf
<1>3. QED
  BY <1>1, <1>2, FirstIsOne

LEMMA AllowedType == TypeOK => Allowed \in Nat
BY EventLogAssumption DEF TypeOK, Allowed

\* A step of log.cpp that does not end the call.
LEMMA SpentIsCharged ==
    ASSUME TypeOK, TypeOK', Charged, NEW c \in Contexts, Runs(c), pc[c] # "idle",
           NEW s \in Steps \ {"idle"}, pc' = [pc EXCEPT ![c] = s],
           UNCHANGED <<stage, deletions, signals>>, ~undefined,
           dropped' + 2 * Cardinality(Stale') + Cardinality(Loses(c)') <= Spent(c)
    PROVE  Charged'
<1>1. Allowed' = Allowed
  BY DEF Allowed, Closing
<1>2. \E base \in {0, 3} : /\ Owed = base + Cardinality(Loses(c))
                           /\ Owed' = base + Cardinality(Loses(c)')
  <2>0. Cardinality(Loses(c)) \in 0..3 /\ Cardinality(Loses(c)') \in 0..3
    BY Counts
  <2>1. CASE c = "main"
    <3>1. pc["signal"] = "idle" /\ pc'["signal"] = "idle"
      BY <2>1 DEF Runs, TypeOK, Contexts
    <3>2. Owed = Cardinality(Loses(c)) /\ Owed' = Cardinality(Loses(c)')
      BY <2>1, <3>1 DEF Owed
    <3>3. QED
      BY <2>0, <3>2
  <2>2. CASE c = "signal"
    <3>1. pc["signal"] # "idle" /\ pc'["signal"] # "idle"
      BY <2>2 DEF TypeOK, Contexts
    <3>2. Owed = 3 + Cardinality(Loses(c)) /\ Owed' = 3 + Cardinality(Loses(c)')
      BY <2>2, <3>1 DEF Owed
    <3>3. QED
      BY <3>2
  <2>3. QED
    BY <2>1, <2>2 DEF Contexts
<1>3. /\ dropped \in Nat /\ dropped' \in Nat /\ Allowed \in Nat
      /\ Cardinality(Stale) \in Nat /\ Cardinality(Stale') \in Nat
      /\ Cardinality(Loses(c)) \in Nat /\ Cardinality(Loses(c)') \in Nat
  BY AllowedType, Counts DEF TypeOK
<1>4. dropped + 2 * Cardinality(Stale) + Owed <= Allowed
  BY DEF Charged
<1>5. dropped' + 2 * Cardinality(Stale') + Owed' <= Allowed
  BY <1>2, <1>3, <1>4 DEF Spent
<1>6. QED
  BY <1>1, <1>5 DEF Charged

LEMMA CheckCharged ==
    ASSUME Inv, Inv', Charged, NEW c \in Contexts, Check(c) PROVE Charged'
<1> SUFFICES ASSUME ~undefined' PROVE Charged'
  BY DEF Charged
<1>1. /\ First \cap closed = {} /\ ~undefined /\ stage' = stage
      /\ UNCHANGED <<handle, closed, dropped, path, deletions, signals>>
      /\ Runs(c) /\ pc[c] = "check"
  BY DEF Check, Crash, Uses, At, files
<1>2. PICK s \in {"write", "close"} :
        /\ pc' = [pc EXCEPT ![c] = s]
        /\ s = "close" => ~ \E h \in First : h \notin closed /\ handle[h] = path[h]
  BY <1>1 DEF Check, Crash
<1>3. pc \in [Contexts -> Steps] /\ pc'[c] = s
  BY <1>2 DEF Inv, TypeOK
<1>4. Open' = Open /\ Stale' = Stale /\ First' = First
  BY <1>1 DEF Open, Stale, First
<1>5. s = "close" => First \subseteq Stale
  BY <1>1, <1>2, FirstIsOne DEF Inv, Open, Stale
<1>6. Loses(c)' = {}
  BY <1>3, <1>4, <1>5 DEF Loses, StillToOpen
<1>7. Cardinality(Loses(c)') = 0
  BY <1>6, FS_EmptySet
<1>8. dropped' + 2 * Cardinality(Stale') + Cardinality(Loses(c)') <= Spent(c)
  BY <1>1, <1>4, <1>7, Counts DEF Spent, Inv, TypeOK
<1>9. QED
  BY <1>1, <1>2, <1>8, SpentIsCharged DEF Inv, Steps

LEMMA CloseCharged ==
    ASSUME Inv, Inv', Charged, NEW c \in Contexts, Close(c) PROVE Charged'
<1> SUFFICES ASSUME ~undefined' PROVE Charged'
  BY DEF Charged
<1>1. /\ First \cap closed = {} /\ ~undefined /\ stage' = stage
      /\ UNCHANGED <<handle, dropped, path, deletions, signals>>
      /\ closed' = closed \cup First /\ pc' = [pc EXCEPT ![c] = "forget"]
      /\ Runs(c) /\ pc[c] = "close"
  BY DEF Close, Crash, Uses, At, files
<1>2. pc'[c] = "forget"
  BY <1>1 DEF Inv, TypeOK
<1>3. First \subseteq Open
  BY <1>1, FirstIsOne DEF Inv, Open
<1>4. Open' = Open \ First /\ Stale' = Stale \ First
  BY <1>1 DEF Open, Stale
<1>5. Loses(c)' = Open \ First
  BY <1>2, <1>4 DEF Loses
<1>6. dropped' + 2 * Cardinality(Stale') + Cardinality(Loses(c)') <= Spent(c)
  <2>1. CASE First \subseteq Stale /\ First # {}
    <3>1. PICK h \in Logs : First = {h}
      BY <2>1, FirstIsOne DEF Inv
    <3>2. Cardinality(Stale') = Cardinality(Stale) - 1
      BY <1>4, <2>1, <3>1, CountOf, LosesLogs
    <3>3. Cardinality(Loses(c)') <= 2
      BY <1>5, RestIsTwo DEF Inv
    <3>4. QED
      BY <1>1, <3>2, <3>3, Counts DEF Spent, Inv, TypeOK
  <2>2. CASE First = {}
    <3>1. Open = {} /\ Stale' = Stale /\ Loses(c)' = {}
      BY <1>4, <1>5, <2>2, FirstIsOne DEF Inv, Open
    <3>2. Cardinality(Loses(c)') = 0 /\ Cardinality(Stale') = Cardinality(Stale)
      BY <3>1, FS_EmptySet
    <3>3. QED
      BY <1>1, <3>2, Counts DEF Spent, Inv, TypeOK
  <2>3. CASE ~ First \subseteq Stale
    <3>1. Loses(c) = Open \ First
      BY <1>1, <2>3 DEF Loses
    <3>2. Cardinality(Loses(c)') = Cardinality(Loses(c))
      BY <1>5, <3>1
    <3>3. Cardinality(Stale') <= Cardinality(Stale)
      BY <1>4, CountOf, LosesLogs
    <3>4. QED
      BY <1>1, <3>2, <3>3, Counts DEF Spent, Inv, TypeOK
  <2>4. QED
    BY <2>1, <2>2, <2>3
<1>7. QED
  BY <1>1, <1>6, SpentIsCharged DEF Inv, Steps

\* The step that ends a call without anything dropped.
LEMMA EndIsCharged ==
    ASSUME TypeOK, TypeOK', Charged, NEW c \in Contexts, Runs(c), pc[c] # "idle",
           pc' = [pc EXCEPT ![c] = "idle"], UNCHANGED <<stage, deletions, signals>>, ~undefined,
           dropped' + 2 * Cardinality(Stale') <= Spent(c)
    PROVE  Charged'
<1>1. Allowed' = Allowed
  BY DEF Allowed, Closing
<1>2. pc'["signal"] = "idle"
  BY DEF Runs, TypeOK, Contexts
<1>3. Owed' = Cardinality(Loses("main")') /\ Cardinality(Loses("main")') \in 0..3
  BY <1>2, Counts DEF Owed, Contexts
<1>4. Owed' + Cardinality(Loses(c)) <= Owed
  <2>1. CASE c = "main"
    <3>1. Loses("main")' = {}
      BY <2>1 DEF Loses, StillToOpen, TypeOK
    <3>2. Cardinality(Loses("main")') = 0
      BY <3>1, FS_EmptySet
    <3>3. Owed = Cardinality(Loses(c)) /\ Cardinality(Loses(c)) \in 0..3
      BY <2>1, Counts DEF Owed, Runs
    <3>4. QED
      BY <1>3, <3>2, <3>3
  <2>2. CASE c = "signal"
    <3>1. Owed = 3 + Cardinality(Loses(c)) /\ Cardinality(Loses(c)) \in 0..3
      BY <2>2, Counts DEF Owed
    <3>2. QED
      BY <1>3, <3>1
  <2>3. QED
    BY <2>1, <2>2 DEF Contexts
<1>5. /\ dropped \in Nat /\ dropped' \in Nat /\ Allowed \in Nat
      /\ Cardinality(Stale) \in Nat /\ Cardinality(Stale') \in Nat
      /\ Cardinality(Loses(c)) \in Nat /\ Owed \in Nat /\ Owed' \in Nat
  BY AllowedType, Counts DEF TypeOK, Owed, Contexts
<1>6. dropped + 2 * Cardinality(Stale) + Owed <= Allowed
  BY DEF Charged
<1>7. dropped' + 2 * Cardinality(Stale') + Owed' <= Allowed
  BY <1>4, <1>5, <1>6 DEF Spent
<1>8. QED
  BY <1>1, <1>7 DEF Charged

LEMMA ForgetCharged ==
    ASSUME Inv, Inv', Charged, NEW c \in Contexts, Forget(c) PROVE Charged'
<1> SUFFICES ASSUME ~undefined' PROVE Charged'
  BY DEF Charged
<1>1. /\ ~undefined /\ UNCHANGED <<stage, deletions, signals>>
      /\ dropped' = dropped + Cardinality(Open)
      /\ Runs(c) /\ pc[c] = "forget"
  BY DEF Forget, At, files
<1>2. Open' = {} /\ Stale' = {}
  BY DEF Forget, Open, Stale
<1>3. Loses(c) = Open /\ Loses(c)' = {}
  BY <1>1, <1>2, LosesLogs DEF Loses
<1>4. Cardinality(Stale') = 0 /\ Cardinality(Loses(c)') = 0
  BY <1>2, <1>3, FS_EmptySet
<1>5. dropped' + 2 * Cardinality(Stale') + Cardinality(Loses(c)') <= Spent(c)
  BY <1>1, <1>3, <1>4, Counts DEF Spent, Inv, TypeOK
<1>6. CASE pc' = [pc EXCEPT ![c] = "alert"]
  BY <1>1, <1>5, <1>6, SpentIsCharged DEF Inv, Steps
<1>7. CASE pc' = [pc EXCEPT ![c] = "idle"]
  <2>1. dropped' + 2 * Cardinality(Stale') <= Spent(c)
    BY <1>4, <1>5, Counts DEF Inv, TypeOK, Spent
  <2>2. QED
    BY <1>1, <1>7, <2>1, EndIsCharged DEF Inv
<1>8. QED
  BY <1>6, <1>7 DEF Forget

LEMMA WriteCharged ==
    ASSUME Inv, Inv', Charged, NEW c \in Contexts, Write(c) PROVE Charged'
<1> SUFFICES ASSUME ~undefined' PROVE Charged'
  BY DEF Charged
<1>1. /\ ~undefined /\ UNCHANGED <<handle, closed, path, dropped, stage, deletions, signals>>
      /\ pc' = [pc EXCEPT ![c] = "idle"]
      /\ Runs(c) /\ pc[c] = "write"
  BY DEF Write, Crash, Uses, At, files
<1>2. Stale' = Stale
  BY <1>1 DEF Stale, Open
<1>3. dropped' + 2 * Cardinality(Stale') <= Spent(c)
  BY <1>1, <1>2, Counts DEF Spent, Inv, TypeOK
<1>4. QED
  BY <1>1, <1>3, EndIsCharged DEF Inv

\* A file that is opened leaves no stale handle, and drops the FILE that the handle had.
LEMMA FopenDrops ==
    ASSUME Inv, NEW h \in Logs, Fopen(h), deletions' = deletions
    PROVE  /\ Open' = Open \cup {h}
           /\ Stale' = Stale \ {h}
           /\ dropped' = IF h \in Open THEN dropped + 1 ELSE dropped
<1>1. /\ handle'[h] = path'[h] /\ handle'[h] # Stdout
      /\ \A g \in Logs \ {h} : handle'[g] = handle[g] /\ path'[g] = path[g]
  BY FopenOK DEF Inv
<1>2. closed' = closed \ {h}
  BY DEF Fopen
<1>3. QED
  BY <1>1, <1>2 DEF Open, Stale, Fopen

LEMMA ReopenCharged ==
    ASSUME Inv, Inv', Charged, NEW c \in Contexts, NEW h \in Logs,
           NEW next \in {"log", "event", "write"}, Reopen(c, h, next),
           StillToOpen(h) = StillToOpen(next) \cup {h}, h \notin StillToOpen(next)
    PROVE  Charged'
<1> SUFFICES ASSUME ~undefined' PROVE Charged'
  BY DEF Charged
<1>1. /\ ~undefined /\ UNCHANGED <<stage, deletions, signals>>
      /\ pc' = [pc EXCEPT ![c] = next]
      /\ Runs(c) /\ pc[c] = h
  BY DEF Reopen, At
<1>2. pc'[c] = next
  BY <1>1 DEF Inv, TypeOK
<1>3. Loses(c) = Open \cap StillToOpen(h) /\ Loses(c)' = Open' \cap StillToOpen(next)
  BY <1>1, <1>2 DEF Loses, Logs
<1>4. dropped' + 2 * Cardinality(Stale') + Cardinality(Loses(c)') <= Spent(c)
  <2>1. CASE Fopen(h)
    <3>1. Open' = Open \cup {h} /\ Stale' = Stale \ {h}
          /\ dropped' = IF h \in Open THEN dropped + 1 ELSE dropped
      BY <1>1, <2>1, FopenDrops
    <3>2. Loses(c)' = Loses(c) \ {h} /\ (h \in Open => h \in Loses(c))
      BY <1>3, <3>1
    <3>3. Cardinality(Stale') <= Cardinality(Stale)
      BY <3>1, CountOf, LosesLogs
    <3>4. /\ Cardinality(Loses(c)') <= Cardinality(Loses(c))
          /\ h \in Open => Cardinality(Loses(c)') = Cardinality(Loses(c)) - 1
      <4>1. Loses(c) \in SUBSET Logs
        BY LosesLogs
      <4>2. QED
        BY <3>2, <4>1, CountOf
    <3>5. QED
      BY <3>1, <3>3, <3>4, Counts DEF Spent, Inv, TypeOK
  <2>2. CASE UNCHANGED <<handle, closed, dropped, path, made>>
    <3>1. Open' = Open /\ Stale' = Stale
      BY <2>2 DEF Open, Stale
    <3>2. Loses(c)' \subseteq Loses(c) /\ Loses(c) \in SUBSET Logs
      BY <1>3, <3>1, LosesLogs
    <3>3. Cardinality(Loses(c)') <= Cardinality(Loses(c))
      BY <3>2, CountOf
    <3>4. QED
      BY <2>2, <3>1, <3>3, Counts DEF Spent, Inv, TypeOK
  <2>3. QED
    BY <2>1, <2>2 DEF Reopen
<1>5. QED
  BY <1>1, <1>4, SpentIsCharged DEF Inv, Steps, Logs

LEMMA LogStepAccount ==
    ASSUME Inv, Inv', Descriptors, Account, NEW c \in Contexts, LogStep(c) PROVE Account'
<1>1. ASSUME ReopenAll(c) PROVE Charged'
  <2>1. CASE Reopen(c, "alert", "log")
    BY <2>1, ReopenCharged DEF Logs, StillToOpen, Account
  <2>2. CASE Reopen(c, "log", "event")
    BY <2>2, ReopenCharged DEF Logs, StillToOpen, Account
  <2>3. CASE Reopen(c, "event", "write")
    BY <2>3, ReopenCharged DEF Logs, StillToOpen, Account
  <2>4. QED
    BY <1>1, <2>1, <2>2, <2>3 DEF ReopenAll
<1>2. Charged'
  BY <1>1, CheckCharged, CloseCharged, ForgetCharged, WriteCharged DEF LogStep, Account
<1>3. pc[c] # "idle" /\ (stage' = stage \/ stage' = "crashed")
  BY DEF LogStep, Check, Close, Forget, ReopenAll, Reopen, Write, Crash, At
<1>4. OpenedOnce'
  BY <1>3 DEF Descriptors, Starting, OpenedOnce
<1>5. QED
  BY <1>2, <1>4 DEF Account

-----------------------------------------------------------------------------
\* Steps of main that open no file.
LEMMA IdleCharged ==
    ASSUME Inv, Charged, pc["main"] = "idle", pc["signal"] = "idle",
           UNCHANGED <<handle, closed, dropped, path, deletions, signals, undefined>>,
           pc'["signal"] = "idle", pc'["main"] \in {"idle", "check"}, Closing => Closing'
    PROVE  Charged'
<1>1. Stale' = Stale
  BY DEF Stale, Open
<1>2. Loses("main") = {} /\ Loses("main")' = {}
  BY DEF Loses, StillToOpen
<1>3. Owed' = Owed
  BY <1>2 DEF Owed
<1>4. Allowed <= Allowed'
  BY EventLogAssumption DEF Allowed, Inv, TypeOK
<1>5. QED
  <2>1. dropped \in Nat /\ Cardinality(Stale) \in Nat /\ Owed \in Nat
    BY Counts DEF Inv, TypeOK, Owed, Contexts
  <2>2. Allowed \in Nat /\ Allowed' \in Int
    BY AllowedType, EventLogAssumption DEF Inv, TypeOK, Allowed
  <2>3. QED
    BY <1>1, <1>3, <1>4, <2>1, <2>2 DEF Charged

LEMMA GoToAccount ==
    ASSUME Inv, Account, NEW next, GoTo(next), pc["main"] = "idle", pc["signal"] = "idle",
           \/ stage = "config" /\ next = "log_init"
           \/ next \in {"patterns", "proxies", "running"} /\ ~Closing
           \/ next = "exited"
    PROVE  Account'
<1>1. UNCHANGED <<handle, closed, dropped, path, deletions, signals, undefined, pc>>
      /\ stage' = next
  BY DEF GoTo, files, calls
<1>2. Charged'
  BY <1>1, IdleCharged DEF Account, Closing
<1>3. OpenedOnce'
  BY <1>1 DEF Account, OpenedOnce, Open
<1>4. QED
  BY <1>2, <1>3 DEF Account

LEMMA LogAccount ==
    ASSUME Inv, Account, NEW type, NEW next \in {"storage", "exit"}, Log(type, next),
           pc["main"] = "idle", pc["signal"] = "idle", next = "storage" => ~Closing
    PROVE  Account'
<1>1. UNCHANGED <<handle, closed, dropped, path, deletions, signals, undefined>>
      /\ stage' = next
  BY DEF Log, files
<1>2. pc'["signal"] = "idle" /\ pc'["main"] \in {"idle", "check"}
  BY DEF Log, Begin, Inv, TypeOK, Contexts
<1>3. Charged'
  BY <1>1, <1>2, IdleCharged DEF Account, Closing
<1>4. OpenedOnce'
  BY <1>1 DEF OpenedOnce
<1>5. QED
  BY <1>3, <1>4 DEF Account

LEMMA InitLogAccount ==
    ASSUME Inv, Account, NEW h \in Logs, NEW from, NEW next, InitLog(h, from, next),
           <<h, from, next>> \in {<<"log", "log_init", "Log_init">>,
                                  <<"event", "Log_init", "LogInit">>,
                                  <<"alert", "LogInit", "started">>}
    PROVE  Account'
<1>1. /\ pc["main"] = "idle" /\ pc["signal"] = "idle" /\ stage = from
      /\ UNCHANGED <<pc, deletions, signals, undefined>>
  BY DEF InitLog, Main, At, Runs, calls
<1>2. CASE Fopen(h) /\ stage' = next
  <2>1. h \notin Open
    BY <1>1 DEF Account, OpenedOnce
  <2>2. Open' = Open \cup {h} /\ Stale' = Stale \ {h} /\ dropped' = dropped
    BY <1>1, <1>2, <2>1, FopenDrops
  <2>3. OpenedOnce'
    BY <1>1, <1>2, <2>2 DEF Account, OpenedOnce
  <2>4. Cardinality(Stale') <= Cardinality(Stale)
    BY <2>2, CountOf, LosesLogs
  <2>5. Loses("main") = {} /\ Loses("main")' = {}
    BY <1>1 DEF Loses, StillToOpen
  <2>6. Owed' = Owed
    BY <1>1, <2>5 DEF Owed
  <2>7. Allowed' = Allowed
    BY <1>1, <1>2 DEF Allowed, Closing
  <2>8. dropped \in Nat /\ Owed \in Nat /\ Allowed \in Nat
        /\ Cardinality(Stale) \in Nat /\ Cardinality(Stale') \in Nat
    BY Counts, AllowedType DEF Inv, TypeOK, Owed, Contexts
  <2>9. Charged'
    BY <1>1, <2>2, <2>4, <2>6, <2>7, <2>8 DEF Account, Charged
  <2>10. QED
    BY <2>3, <2>9 DEF Account
<1>3. CASE stage' = "exited" /\ UNCHANGED <<handle, closed, dropped, path, made>>
  <2>1. Charged'
    BY <1>1, <1>3, IdleCharged DEF Account, Closing
  <2>2. QED
    BY <1>3, <2>1 DEF Account, OpenedOnce
<1>4. QED
  BY <1>2, <1>3 DEF InitLog

LEMMA StartupAccount ==
    ASSUME Inv, Account, Startup PROVE Account'
<1>1. CASE LoadConfig
  <2>1. stage = "config" /\ pc["main"] = "idle" /\ pc["signal"] = "idle"
    BY <1>1 DEF LoadConfig, Main, At, Runs
  <2>2. CASE GoTo("log_init")
    BY <2>1, <2>2, GoToAccount
  <2>3. CASE GoTo("exited")
    BY <2>1, <2>3, GoToAccount
  <2>4. CASE Log(CRIT, "exit")
    BY <2>1, <2>4, LogAccount
  <2>5. QED
    BY <1>1, <2>2, <2>3, <2>4 DEF LoadConfig
<1>2. CASE \/ InitLog("log", "log_init", "Log_init") \/ InitLog("event", "Log_init", "LogInit")
           \/ InitLog("alert", "LogInit", "started")
  BY <1>2, InitLogAccount DEF Logs
<1>3. CASE Started \/ LoadDb \/ LoadPatterns \/ OpenProxies
  <2>1. ~Closing /\ pc["main"] = "idle" /\ pc["signal"] = "idle"
    BY <1>3 DEF Started, LoadDb, LoadPatterns, OpenProxies, Main, At, Runs, Closing
  <2>2. ASSUME NEW next \in {"patterns", "proxies", "running"}, GoTo(next)
        PROVE  Account'
    BY <2>1, <2>2, GoToAccount
  <2>3. ASSUME NEW type, NEW next \in {"storage", "exit"}, Log(type, next)
        PROVE  Account'
    BY <2>1, <2>3, LogAccount
  <2>4. QED
    BY <1>3, <2>2, <2>3 DEF Started, LoadDb, LoadPatterns, OpenProxies
<1>4. QED
  BY <1>1, <1>2, <1>3 DEF Startup

LEMMA LoopAccount ==
    ASSUME Inv, Account, Callback \/ Connect \/ Disconnect \/ EndLoop PROVE Account'
<1>1. stage = "running" /\ pc["main"] = "idle" /\ pc["signal"] = "idle"
      /\ stage' \in {"running", "stopping"}
      /\ UNCHANGED <<handle, closed, dropped, path, deletions, signals, undefined>>
  BY DEF Callback, Connect, Disconnect, EndLoop, Main, At, Runs, files
<1>2. pc'["signal"] = "idle" /\ pc'["main"] \in {"idle", "check"}
  <2>1. CASE Callback
    BY <1>1, <2>1 DEF Callback, Begin, Inv, TypeOK, Contexts
  <2>2. CASE Connect \/ Disconnect \/ EndLoop
    BY <1>1, <2>2 DEF Connect, Disconnect, EndLoop, calls
  <2>3. QED
    BY <2>1, <2>2
<1>3. Charged'
  BY <1>1, <1>2, IdleCharged DEF Account, Closing
<1>4. QED
  BY <1>1, <1>3 DEF Account, OpenedOnce

\* log_close at the end of the program, whatever its first file is.
LEMMA CloseLogsAccount ==
    ASSUME Inv, Account, CloseLogs PROVE Account'
<1>1. /\ pc["main"] = "idle" /\ pc["signal"] = "idle" /\ stage = "stopping" /\ stage' = "free"
      /\ UNCHANGED <<handle, closed, dropped, path, deletions, signals, undefined>>
      /\ pc' = [pc EXCEPT !["main"] = "close"]
  BY DEF CloseLogs, Main, At, Runs, files
<1>2. pc'["main"] = "close" /\ pc'["signal"] = "idle"
  BY <1>1 DEF Inv, TypeOK, Contexts
<1>3. Open' = Open /\ Stale' = Stale /\ First' = First
  BY <1>1 DEF Open, Stale, First
<1>4. Cardinality(Loses("main")') <= 2
  <2>1. Loses("main")' \in {{}, Open \ First}
    BY <1>2, <1>3 DEF Loses
  <2>2. QED
    BY <2>1, RestIsTwo, FS_EmptySet DEF Inv
<1>5. Owed' <= Owed + 2
  BY <1>1, <1>2, <1>4, Counts DEF Owed, Contexts
<1>6. Allowed' = Allowed + 2
  BY <1>1, EventLogAssumption DEF Allowed, Closing, Inv, TypeOK
<1>7. dropped \in Nat /\ Owed \in Nat /\ Owed' \in Nat /\ Allowed \in Nat
      /\ Cardinality(Stale) \in Nat
  BY Counts, AllowedType DEF Inv, TypeOK, Owed, Contexts
<1>8. Charged'
  BY <1>1, <1>3, <1>5, <1>6, <1>7 DEF Account, Charged
<1>9. QED
  BY <1>1, <1>8 DEF Account, OpenedOnce

\* A signal may leave three files to be dropped.
LEMMA SignalAccount ==
    ASSUME Inv, Account, Signal PROVE Account'
<1>1. /\ UNCHANGED <<handle, closed, dropped, path, deletions, stage, undefined>>
      /\ signals' = signals + 1 /\ pc["signal"] = "idle"
  BY DEF Signal, files
<1>2. pc'["signal"] \in {"idle", "check"} /\ pc'["main"] = pc["main"]
  BY DEF Signal, Begin, Inv, TypeOK, Contexts
<1>3. Open' = Open /\ Stale' = Stale /\ First' = First
  BY <1>1 DEF Open, Stale, First
<1>4. Loses("main")' = Loses("main")
  BY <1>2, <1>3 DEF Loses
<1>5. pc'["signal"] # "idle" => Cardinality(Loses("signal")') = 0
  <2> SUFFICES ASSUME pc'["signal"] = "check" PROVE Cardinality(Loses("signal")') = 0
    BY <1>2
  <2>1. Loses("signal")' = {}
    BY DEF Loses, StillToOpen
  <2>2. QED
    BY <2>1, FS_EmptySet
<1>6. Owed' <= Owed + 3
  BY <1>1, <1>2, <1>4, <1>5, Counts DEF Owed, Contexts
<1>7. Allowed' = Allowed + 3
  BY <1>1, EventLogAssumption DEF Allowed, Closing, Inv, TypeOK
<1>8. dropped \in Nat /\ Owed \in Nat /\ Owed' \in Nat /\ Allowed \in Nat
      /\ Cardinality(Stale) \in Nat
  BY Counts, AllowedType DEF Inv, TypeOK, Owed, Contexts
<1>9. Charged'
  BY <1>1, <1>3, <1>6, <1>7, <1>8 DEF Account, Charged
<1>10. QED
  BY <1>1, <1>3, <1>9 DEF Account, OpenedOnce

\* A deletion makes one handle stale at most.
LEMMA DeleteAccount ==
    ASSUME Inv, Account, NEW h \in Logs, Delete(h) PROVE Account'
<1>1. /\ UNCHANGED <<handle, closed, dropped, signals, stage, undefined, pc>>
      /\ deletions' = deletions + 1 /\ path' = [path EXCEPT ![h] = Absent]
  BY DEF Delete, calls
<1>2. Open' = Open /\ First' = First
  BY <1>1 DEF Open, First
<1>3. Stale \subseteq Stale' /\ Stale' \subseteq Stale \cup {h}
  BY <1>1 DEF Stale, Open, Inv, TypeOK, Stdout, Absent
<1>4. Cardinality(Stale') <= Cardinality(Stale) + 1
  <2>1. Stale \in SUBSET Logs /\ Stale \cup {h} \in SUBSET Logs
    BY LosesLogs
  <2>2. Cardinality(Stale') <= Cardinality(Stale \cup {h})
    BY <1>3, <2>1, CountOf
  <2>3. Cardinality(Stale \cup {h}) <= Cardinality(Stale) + 1
    BY <2>1, CountOf
  <2>4. Cardinality(Stale) \in Int /\ Cardinality(Stale') \in Int
        /\ Cardinality(Stale \cup {h}) \in Int
    BY <2>1, Counts, CountOf
  <2>5. QED
    BY <2>2, <2>3, <2>4
<1>5. \A c \in Contexts : Cardinality(Loses(c)') <= Cardinality(Loses(c))
  <2> SUFFICES ASSUME NEW c \in Contexts
               PROVE  Cardinality(Loses(c)') <= Cardinality(Loses(c))
    OBVIOUS
  <2>1. Loses(c)' \subseteq Loses(c)
    BY <1>1, <1>2, <1>3 DEF Loses
  <2>2. Loses(c) \in SUBSET Logs
    BY LosesLogs
  <2>3. QED
    BY <2>1, <2>2, CountOf
<1>6. Owed' <= Owed
  BY <1>1, <1>5, Counts DEF Owed, Contexts
<1>7. Allowed' = Allowed + 2
  BY <1>1, EventLogAssumption DEF Allowed, Closing, Inv, TypeOK
<1>8. dropped \in Nat /\ Owed \in Nat /\ Owed' \in Nat /\ Allowed \in Nat
      /\ Cardinality(Stale) \in Nat /\ Cardinality(Stale') \in Nat
  BY Counts, AllowedType DEF Inv, TypeOK, Owed, Contexts
<1>9. Charged'
  BY <1>1, <1>4, <1>6, <1>7, <1>8 DEF Account, Charged
<1>10. QED
  BY <1>1, <1>2, <1>9 DEF Account, OpenedOnce

LEMMA InitAccount == Init => Account
<1> SUFFICES ASSUME Init PROVE Account
  OBVIOUS
<1>1. Open = {} /\ Stale = {} /\ Loses("main") = {}
  BY DEF Init, Open, Stale, Loses, Contexts
<1>2. Cardinality(Stale) = 0 /\ Owed = 0
  BY <1>1, FS_EmptySet DEF Init, Owed, Contexts
<1>3. dropped = 0 /\ Allowed = 0
  BY DEF Init, Allowed, Closing
<1>4. QED
  BY <1>1, <1>2, <1>3 DEF Init, Account, Charged, OpenedOnce

LEMMA NextAccount == Inv /\ Inv' /\ Descriptors /\ Account /\ [Next]_vars => Account'
<1> SUFFICES ASSUME Inv, Inv', Descriptors, Account, [Next]_vars PROVE Account'
  OBVIOUS
<1>1. CASE \E c \in Contexts : LogStep(c)
  BY <1>1, LogStepAccount
<1>2. CASE Startup
  BY <1>2, StartupAccount
<1>3. CASE Callback \/ Connect \/ Disconnect \/ EndLoop
  BY <1>3, LoopAccount
<1>4. CASE CloseLogs
  BY <1>4, CloseLogsAccount
<1>5. CASE FreeConfig \/ Exit
  <2>1. pc["main"] = "idle" /\ pc["signal"] = "idle"
    BY <1>5 DEF FreeConfig, Exit, Main, At, Runs
  <2>2. CASE FreeConfig
    BY <2>1, <2>2, LogAccount DEF FreeConfig
  <2>3. CASE Exit
    BY <2>1, <2>3, GoToAccount DEF Exit
  <2>4. QED
    BY <1>5, <2>2, <2>3
<1>6. CASE Signal
  BY <1>6, SignalAccount
<1>7. CASE \E h \in Logs : Delete(h)
  BY <1>7, DeleteAccount
<1>8. CASE UNCHANGED vars
  BY <1>8 DEF vars, files, calls, Account, OpenedOnce, Charged, Open, Stale, Owed, Loses,
              First, Allowed, Closing
<1>9. QED
  BY <1>1, <1>2, <1>3, <1>4, <1>5, <1>6, <1>7, <1>8 DEF Next, Shutdown

\* A deleted file costs two descriptors that nothing closes, a signal in the middle of a
\* reload three, the end of the program two, and nothing else costs any; a closed FILE is
\* used after a signal only.  For any number of deletions, signals and connections.
THEOREM ReloadsBounded == Spec => []ReloadsAreBounded
<1>1. Inv /\ Account => FewAreDropped
  <2> SUFFICES ASSUME Inv, Account, ~undefined PROVE dropped <= Allowed
    BY DEF FewAreDropped, Allowed
  <2>1. dropped + 2 * Cardinality(Stale) + Owed <= Allowed
    BY DEF Account, Charged
  <2>2. dropped \in Nat /\ Owed \in Nat /\ Allowed \in Nat /\ Cardinality(Stale) \in Nat
    BY Counts, AllowedType DEF Inv, TypeOK, Owed, Contexts
  <2>3. QED
    BY <2>1, <2>2
<1>2. Inv => OnlySignalsCrash
  BY DEF Inv, Calm, OnlySignalsCrash, TypeOK
<1>3. Inv /\ Account => ReloadsAreBounded
  BY <1>1, <1>2 DEF ReloadsAreBounded
<1>4. Spec => [](Inv /\ Descriptors)
  BY InitInv, NextInv, InitDescriptors, NextDescriptors, PTL DEF Spec
<1>5. Inv /\ Descriptors /\ Inv' /\ Account /\ [Next]_vars => Account'
  BY NextAccount
<1>6. Spec => [](Inv /\ Account)
  BY <1>4, <1>5, InitAccount, PTL DEF Spec
<1>7. QED
  BY <1>3, <1>6, PTL
=============================================================================
