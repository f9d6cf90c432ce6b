---------------------------- MODULE SqlApiProofs ----------------------------
(***************************************************************************)
(* Proofs about SqlApi, for any number of addresses: the shape of the      *)
(* callers' steps, which results are held, and that none is used after it  *)
(* was freed.                                                              *)
(***************************************************************************)
EXTENDS SqlApi, TLAPS

\* Steps with one db_struct in scope, with two, and with none.
One == {"row", "status", "rows", "noRows", "db", "whitelist", "dbsDone", "noDbs", "oneGroup",
        "groupsDone", "noPrivilege", "tryIt", "permiss", "forget", "isKnown", "isNew",
        "learnDone", "number", "noGroup", "groupDone"}
Two == {"pattern", "whitelistDone"}

Depth(s) == IF s \in Two THEN 2 ELSE IF s \in One THEN 1 ELSE 0

\* The timer's steps.
Round == DOMAIN ProxymapReload \cup DOMAIN DbmapReload \cup DOMAIN AgroupmapReload

\* What is true of a step d: how it changes the number of db_structs, and that only the
\* timer begins a round, in which no result is lost.
Shape(s, d) ==
    LET next == d.then \cup d.else
    IN  /\ next \subseteq ProgramSteps
        /\ d.op \in {"query", "read", "exec", "changes", "cleanup", "permiss", "return"}
        /\ d.op = "query" => \A t \in next : Depth(t) = Depth(s) + 1
        /\ d.op \in {"read", "exec", "changes", "permiss"} => \A t \in next : Depth(t) = Depth(s)
        /\ d.op \in {"cleanup", "return"} => \A t \in next : Depth(s) = Depth(t) + 1
        /\ d.op = "read" => Depth(s) > 0
        /\ s \notin Round \/ d.op \in {"permiss", "return"} => next \cap Round \subseteq {"timer"}

\* The results that a handle points to.
Held == ({pgres_temp} \cup {frames[i] : i \in 1..Len(frames)}) \ {NULL}

\* Each handle that is not null has a result of its own.
Owned ==
    /\ pgres_temp # NULL => pgres_temp \in live
    /\ \A i \in 1..Len(frames) : frames[i] # NULL =>
         /\ frames[i] \in live /\ frames[i] # pgres_temp
         /\ \A j \in 1..Len(frames) : i # j => frames[i] # frames[j]

\* During a round nothing is lost.
NothingLost == step \in Round => live = kept \cup Held /\ kept \cap Held = {}

Inv ==
    /\ TypeOK
    /\ frames \in Seq(Addresses \cup {NULL}) /\ Len(frames) = Depth(step)
    /\ ~dangled => ~crashed /\ Owned /\ NothingLost

-----------------------------------------------------------------------------
LEMMA InParts ==
    /\ \A s \in ProgramSteps : \E part \in Parts : s \in DOMAIN part /\ Program[s] = part[s]
    /\ DOMAIN Program = ProgramSteps
    /\ \A part \in Parts : DOMAIN part \subseteq ProgramSteps
BY DEF Program, ProgramSteps

LEMMA AllSteps ==
    /\ ProgramSteps = DOMAIN ProxymapReload \cup DOMAIN DbmapReload
         \cup DOMAIN AgroupmapReload \cup DOMAIN CheckUserPermiss
         \cup DOMAIN AddToWhitelist \cup DOMAIN Logalert
    /\ Calls \subseteq ProgramSteps /\ Calls \cap Round = {"timer"}
    /\ \A s \in Calls : Depth(s) = 0
<1>1. ProgramSteps = DOMAIN ProxymapReload \cup DOMAIN DbmapReload
        \cup DOMAIN AgroupmapReload \cup DOMAIN CheckUserPermiss
        \cup DOMAIN AddToWhitelist \cup DOMAIN Logalert
  BY DEF ProgramSteps, Parts
<1>2. Calls \subseteq ProgramSteps
  BY <1>1 DEF Calls, ProxymapReload, CheckUserPermiss, AddToWhitelist, Logalert
<1>3. Calls \cap Round = {"timer"}
  BY DEF Calls, Round, ProxymapReload, DbmapReload, AgroupmapReload
<1>4. QED
  BY <1>1, <1>2, <1>3 DEF Calls, Depth, One, Two

LEMMA TimerShape == \A s \in DOMAIN ProxymapReload : Shape(s, ProxymapReload[s])
BY AllSteps DEF ProxymapReload, DbmapReload, AgroupmapReload, Do, Shape,
       Round, Depth, One, Two

LEMMA DbmapShape == \A s \in DOMAIN DbmapReload : Shape(s, DbmapReload[s])
BY AllSteps DEF DbmapReload, ProxymapReload, AgroupmapReload, Do, Shape,
       Round, Depth, One, Two

LEMMA GroupsShape == \A s \in DOMAIN AgroupmapReload : Shape(s, AgroupmapReload[s])
BY AllSteps DEF AgroupmapReload, ProxymapReload, DbmapReload, Do, Shape, Round, Depth, One, Two

LEMMA PermissShape == \A s \in DOMAIN CheckUserPermiss : Shape(s, CheckUserPermiss[s])
BY AllSteps DEF CheckUserPermiss, ProxymapReload, DbmapReload, AgroupmapReload, Do, Shape,
       Round, Depth, One, Two

LEMMA WhitelistShape == \A s \in DOMAIN AddToWhitelist : Shape(s, AddToWhitelist[s])
BY AllSteps DEF AddToWhitelist, CheckUserPermiss, ProxymapReload, DbmapReload, AgroupmapReload,
       Do, Shape, Round, Depth, One, Two

LEMMA AlertShape == \A s \in DOMAIN Logalert : Shape(s, Logalert[s])
<1> SUFFICES ASSUME NEW s \in DOMAIN Logalert PROVE Shape(s, Logalert[s])
  OBVIOUS
<1>1. s \notin Round /\ DOMAIN Logalert \cap Round = {}
  BY DEF Logalert, Round, ProxymapReload, DbmapReload, AgroupmapReload
<1>2. Logalert[s].then \cup Logalert[s].else \subseteq DOMAIN Logalert \cup Calls
  BY DEF Logalert, Do
<1>3. Logalert[s].op \in {"query", "read", "exec", "changes", "cleanup"}
  BY DEF Logalert, Do
<1>4. ASSUME NEW t \in Logalert[s].then \cup Logalert[s].else
      PROVE  /\ Logalert[s].op = "query" => Depth(t) = 1 /\ Depth(s) = 0
             /\ Logalert[s].op = "read" => Depth(t) = 1 /\ Depth(s) = 1
             /\ Logalert[s].op \in {"exec", "changes"} => Depth(t) = 0 /\ Depth(s) = 0
             /\ Logalert[s].op = "cleanup" => Depth(t) = 0 /\ Depth(s) = 1
  <2>1. CASE t \in Calls
    <3>1. Depth(t) = 0
      BY <2>1, AllSteps
    <3>2. s \in {"groupDone", "noGroup", "addGroup", "added", "update", "updated"}
      BY <1>4, <2>1 DEF Logalert, Do, Calls
    <3>3. QED
      BY <3>1, <3>2 DEF Logalert, Do, Depth, One, Two
  <2>2. CASE t \notin Calls
    BY <1>4, <2>2 DEF Logalert, Do, Depth, One, Two
  <2>3. QED
    BY <2>1, <2>2
<1>5. Logalert[s].op = "read" => Depth(s) > 0
  BY DEF Logalert, Do, Depth, One, Two
<1>6. QED
  BY <1>1, <1>2, <1>3, <1>4, <1>5, AllSteps DEF Shape

LEMMA ProgramShape == \A s \in ProgramSteps : Shape(s, Program[s])
<1> SUFFICES ASSUME NEW s \in ProgramSteps PROVE Shape(s, Program[s])
  OBVIOUS
<1>1. PICK part \in Parts : s \in DOMAIN part /\ Program[s] = part[s]
  BY InParts
<1>2. Shape(s, part[s])
  BY <1>1, TimerShape, DbmapShape, GroupsShape, PermissShape, WhitelistShape, AlertShape
     DEF Parts
<1>3. QED
  BY <1>1, <1>2
-----------------------------------------------------------------------------
LEMMA InitInv == Init => Inv
<1> SUFFICES ASSUME Init PROVE Inv
  OBVIOUS
<1>1. "timer" \in ProgramSteps
  BY AllSteps
<1>2. frames \in Seq(Addresses \cup {NULL}) /\ Len(frames) = 0
  BY DEF Init
<1>3. Depth("timer") = 0
  BY DEF Depth, One, Two
<1>4. TypeOK
  <2>1. step \in DOMAIN Program
    BY <1>1, InParts DEF Init
  <2>2. Len(frames) <= 2 /\ \A i \in DOMAIN frames : frames[i] \in Addresses \cup {NULL}
    BY <1>2
  <2>3. QED
    BY <2>1, <2>2 DEF Init, TypeOK
<1>5. Owned /\ NothingLost
  BY <1>2, SqlApiAssumption DEF Init, Owned, NothingLost, Held
<1>6. QED
  BY <1>2, <1>3, <1>4, <1>5 DEF Init, Inv

\* What follows from the shape of the program for a step with the operation op.
LEMMA Follow ==
    ASSUME Inv, NEW op, Runs(op), NEW next, Goes(next),
           next \subseteq Program[step].then \cup Program[step].else
    PROVE  /\ step \in ProgramSteps /\ step' \in ProgramSteps
           /\ op = "query" => Depth(step') = Depth(step) + 1
           /\ op \in {"read", "exec", "changes", "permiss"} => Depth(step') = Depth(step)
           /\ op \in {"cleanup", "return"} => Depth(step) = Depth(step') + 1
           /\ op = "read" => Depth(step) > 0
           /\ (step \notin Round \/ op \in {"permiss", "return"}) /\ step' \in Round =>
                step' = "timer"
           /\ step' # "timer" => kept' = kept
<1>1. step \in ProgramSteps
  BY InParts DEF Inv, TypeOK
<1>2. Shape(step, Program[step]) /\ Program[step].op = op
  BY <1>1, ProgramShape DEF Runs
<1>3. step' \in Program[step].then \cup Program[step].else
  BY DEF Goes
<1>4. QED
  BY <1>1, <1>2, <1>3 DEF Shape, Goes

LEMMA DepthType == \A s : Depth(s) \in 0..2 /\ Depth("timer") = 0
BY DEF Depth, One, Two

\* The types, of whatever a step does to the results.
LEMMA StepTypes ==
    ASSUME Inv, NEW op, Runs(op), NEW next, Goes(next),
           next \subseteq Program[step].then \cup Program[step].else,
           frames' \in Seq(Addresses \cup {NULL}), Len(frames') = Depth(step'),
           pgres_temp' \in Addresses \cup {NULL}, live' \subseteq Addresses,
           crashed' \in BOOLEAN, dangled' \in BOOLEAN
    PROVE  TypeOK'
<1>1. step' \in DOMAIN Program
  BY Follow, InParts
<1>2. kept' \subseteq Addresses
  BY DEF Goes, Inv, TypeOK
<1>3. Len(frames') <= 2
  BY DepthType
<1>4. \A i \in DOMAIN frames' : frames'[i] \in Addresses \cup {NULL}
  OBVIOUS
<1>5. QED
  BY <1>1, <1>2, <1>3, <1>4 DEF TypeOK

\* A new round begins with what is allocated.
LEMMA RoundBegins ==
    ASSUME NEW next, Goes(next), step' = "timer", Owned', Len(frames') = 0,
           live' \subseteq Addresses
    PROVE  NothingLost'
<1>1. kept' = live' \ {pgres_temp'}
  BY DEF Goes
<1>2. Held' = {pgres_temp'} \ {NULL}
  BY DEF Held
<1>3. QED
  BY <1>1, <1>2, SqlApiAssumption DEF NothingLost, Owned

\* A step that is not the timer's and goes on in a round goes on in the same.
LEMMA SameRound ==
    ASSUME Inv, NEW op, Runs(op), NEW next, Goes(next),
           next \subseteq Program[step].then \cup Program[step].else,
           frames' \in Seq(Addresses \cup {NULL}), Len(frames') = Depth(step'),
           live' \subseteq Addresses, Owned', ~dangled,
           step \in Round /\ op \notin {"permiss", "return"} /\ kept' = kept =>
               live' = kept \cup Held' /\ kept \cap Held' = {}
    PROVE  NothingLost'
<1>1. CASE step' = "timer"
  BY <1>1, RoundBegins, DepthType
<1>2. CASE step' # "timer"
  BY <1>2, Follow DEF NothingLost
<1>3. QED
  BY <1>1, <1>2

-----------------------------------------------------------------------------
LEMMA FreedOf ==
    /\ \A a : Freed(<<a>>) = live \ {a}
    /\ \A a, b : Freed(<<a, b>>) = live \ {a, b}
    /\ \A a : Bad(<<a>>) <=> a # NULL /\ a \notin live
    /\ \A a, b : Bad(<<a, b>>) <=> \/ a # NULL /\ a \notin live
                                   \/ b # NULL /\ (b \notin live \/ a = b)
<1>1. \A a, b : DOMAIN <<a>> = {1} /\ DOMAIN <<a, b>> = {1, 2}
  OBVIOUS
<1>2. 1..(1 - 1) = {} /\ 1..(2 - 1) = {1}
  OBVIOUS
<1>3. QED
  BY <1>1, <1>2 DEF Freed, Bad

LEMMA QueryInv == ASSUME Inv, DbQuery PROVE Inv'
<1>1. Runs("query") /\ UNCHANGED <<pgres_temp, crashed, dangled>>
  BY DEF DbQuery
<1>2. PICK r \in Addresses \cup {NULL} :
        /\ r # NULL => r \notin live
        /\ frames' = Append(frames, r)
        /\ live' = (live \cup {r}) \ {NULL}
        /\ Goes(Program[step].then) \/ Goes(Program[step].else)
  <2>1. NULL \notin live
    BY SqlApiAssumption DEF Inv, TypeOK
  <2>2. QED
    BY <2>1, SqlApiAssumption DEF DbQuery
<1>3. PICK next : Goes(next) /\ next \subseteq Program[step].then \cup Program[step].else
  BY <1>2
<1>4. /\ frames' \in Seq(Addresses \cup {NULL}) /\ Len(frames') = Len(frames) + 1
      /\ frames'[Len(frames) + 1] = r
      /\ \A i \in 1..Len(frames) : frames'[i] = frames[i]
  BY <1>2 DEF Inv
<1>5. Len(frames') = Depth(step')
  BY <1>1, <1>3, <1>4, Follow DEF Inv
<1>6. live' \subseteq Addresses
  BY <1>2 DEF Inv, TypeOK
<1>7. TypeOK'
  <2>1. crashed' \in BOOLEAN /\ dangled' \in BOOLEAN /\ pgres_temp' \in Addresses \cup {NULL}
    BY <1>1 DEF Inv, TypeOK
  <2>2. QED
    BY <1>1, <1>3, <1>4, <1>5, <1>6, <2>1, StepTypes
<1>8. ASSUME ~dangled' PROVE ~crashed' /\ Owned' /\ NothingLost'
  <2>1. ~dangled /\ ~crashed' /\ Owned /\ NothingLost
    BY <1>1, <1>8 DEF Inv
  <2>2. Owned'
    BY <1>1, <1>2, <1>4, <2>1 DEF Owned, Inv
  <2>3. Held' = Held \cup ({r} \ {NULL})
    BY <1>1, <1>4 DEF Held, Inv
  <2>4. step \in Round /\ kept' = kept => live' = kept \cup Held' /\ kept \cap Held' = {}
    BY <1>2, <2>1, <2>3, SqlApiAssumption DEF NothingLost, Inv, TypeOK
  <2>5. NothingLost'
    BY <1>1, <1>3, <1>4, <1>5, <1>6, <2>1, <2>2, <2>4, SameRound
  <2>6. QED
    BY <2>1, <2>2, <2>5
<1>9. QED
  BY <1>4, <1>5, <1>7, <1>8 DEF Inv

LEMMA ReadInv == ASSUME Inv, DbFetchRow PROVE Inv'
<1>1. /\ Runs("read") /\ UNCHANGED <<frames, pgres_temp, live, dangled>>
      /\ crashed' = (Top \notin live) /\ Top # NULL
      /\ Goes(Program[step].then)
  BY DEF DbFetchRow
<1>2. Depth(step') = Depth(step) /\ Depth(step) > 0
  BY <1>1, Follow
<1>3. /\ frames' \in Seq(Addresses \cup {NULL}) /\ Len(frames') = Depth(step')
      /\ live' \subseteq Addresses
  BY <1>1, <1>2 DEF Inv, TypeOK
<1>4. TypeOK'
  <2>1. crashed' \in BOOLEAN
    BY <1>1
  <2>2. dangled' \in BOOLEAN /\ pgres_temp' \in Addresses \cup {NULL}
    BY <1>1 DEF Inv, TypeOK
  <2>3. QED
    BY <1>1, <1>3, <2>1, <2>2, StepTypes
<1>5. ASSUME ~dangled' PROVE ~crashed' /\ Owned' /\ NothingLost'
  <2>1. ~dangled /\ Owned /\ NothingLost
    BY <1>1, <1>5 DEF Inv
  <2>2. Owned' /\ Held' = Held
    BY <1>1, <2>1 DEF Owned, Held
  <2>3. Len(frames) \in 1..Len(frames)
    BY <1>2 DEF Inv
  <2>4. ~crashed'
    BY <1>1, <2>1, <2>3 DEF Owned, Top
  <2>5. NothingLost'
    BY <1>1, <1>3, <2>1, <2>2, SameRound DEF NothingLost
  <2>6. QED
    BY <2>2, <2>4, <2>5
<1>6. QED
  BY <1>3, <1>4, <1>5 DEF Inv

LEMMA ExecInv == ASSUME Inv, DbExec PROVE Inv'
<1>1. /\ Runs("exec") /\ UNCHANGED <<frames, dangled>>
      /\ crashed' = Bad(<<pgres_temp>>)
  BY DEF DbExec
<1>2. PICK r \in Addresses \cup {NULL} :
        /\ r # NULL => r \notin live \ {pgres_temp}
        /\ pgres_temp' = r
        /\ live' = ((live \ {pgres_temp}) \cup {r}) \ {NULL}
        /\ Goes(Program[step].then) \/ Goes(Program[step].else)
  <2>1. NULL \notin live
    BY SqlApiAssumption DEF Inv, TypeOK
  <2>2. QED
    BY <2>1, FreedOf, SqlApiAssumption DEF DbExec
<1>3. PICK next : Goes(next) /\ next \subseteq Program[step].then \cup Program[step].else
  BY <1>2
<1>4. /\ frames' \in Seq(Addresses \cup {NULL}) /\ Len(frames') = Depth(step')
      /\ live' \subseteq Addresses
  BY <1>1, <1>2, <1>3, Follow DEF Inv, TypeOK
<1>5. TypeOK'
  <2>1. crashed' \in BOOLEAN
    BY <1>1 DEF Bad
  <2>2. dangled' \in BOOLEAN /\ pgres_temp' \in Addresses \cup {NULL}
    BY <1>1, <1>2 DEF Inv, TypeOK
  <2>3. QED
    BY <1>1, <1>3, <1>4, <2>1, <2>2, StepTypes
<1>6. ASSUME ~dangled' PROVE ~crashed' /\ Owned' /\ NothingLost'
  <2>1. ~dangled /\ Owned /\ NothingLost
    BY <1>1, <1>6 DEF Inv
  <2>2. ~crashed'
    BY <1>1, <2>1, FreedOf DEF Owned
  <2>3. Owned'
    BY <1>1, <1>2, <2>1 DEF Owned
  <2>4. Held' = (Held \ {pgres_temp}) \cup ({r} \ {NULL})
    BY <1>1, <1>2, <2>1 DEF Held, Owned
  <2>5. step \in Round /\ kept' = kept => live' = kept \cup Held' /\ kept \cap Held' = {}
    <3> SUFFICES ASSUME step \in Round
                 PROVE  live' = kept \cup Held' /\ kept \cap Held' = {}
      OBVIOUS
    <3>1. live = kept \cup Held /\ kept \cap Held = {}
      BY <2>1 DEF NothingLost
    <3>2. pgres_temp \notin kept /\ NULL \notin live
      <4>1. NULL \notin live
        BY SqlApiAssumption DEF Inv, TypeOK
      <4>2. pgres_temp # NULL => pgres_temp \in Held
        BY DEF Held
      <4>3. QED
        BY <3>1, <4>1, <4>2
    <3>3. QED
      BY <1>2, <2>4, <3>1, <3>2
  <2>6. NothingLost'
    BY <1>1, <1>3, <1>4, <2>1, <2>3, <2>5, SameRound
  <2>7. QED
    BY <2>2, <2>3, <2>6
<1>7. QED
  BY <1>4, <1>5, <1>6 DEF Inv

LEMMA ChangesInv == ASSUME Inv, DbChanges PROVE Inv'
<1>1. /\ Runs("changes") /\ UNCHANGED <<frames, pgres_temp, live, dangled>>
      /\ crashed' = (pgres_temp # NULL /\ pgres_temp \notin live)
      /\ Goes(Program[step].then)
  BY DEF DbChanges
<1>2. /\ frames' \in Seq(Addresses \cup {NULL}) /\ Len(frames') = Depth(step')
      /\ live' \subseteq Addresses
  BY <1>1, Follow DEF Inv, TypeOK
<1>3. TypeOK'
  <2>1. crashed' \in BOOLEAN
    BY <1>1
  <2>2. dangled' \in BOOLEAN /\ pgres_temp' \in Addresses \cup {NULL}
    BY <1>1 DEF Inv, TypeOK
  <2>3. QED
    BY <1>1, <1>2, <2>1, <2>2, StepTypes
<1>4. ASSUME ~dangled' PROVE ~crashed' /\ Owned' /\ NothingLost'
  <2>1. ~dangled /\ Owned /\ NothingLost
    BY <1>1, <1>4 DEF Inv
  <2>2. Owned' /\ Held' = Held /\ ~crashed'
    BY <1>1, <2>1 DEF Owned, Held
  <2>3. NothingLost'
    BY <1>1, <1>2, <2>1, <2>2, SameRound DEF NothingLost
  <2>4. QED
    BY <2>2, <2>3
<1>5. QED
  BY <1>2, <1>3, <1>4 DEF Inv

\* A db_struct goes out of scope.
LEMMA Popped ==
    ASSUME Inv, NEW op \in {"cleanup", "return"}, Runs(op), Goes(Program[step].then),
           frames' = SubSeq(frames, 1, Len(frames) - 1)
    PROVE  /\ Len(frames) \in Nat /\ Len(frames) > 0 /\ Len(frames') = Len(frames) - 1
           /\ frames' \in Seq(Addresses \cup {NULL}) /\ Len(frames') = Depth(step')
           /\ \A i \in 1..(Len(frames) - 1) : frames'[i] = frames[i]
           /\ Top \in Addresses \cup {NULL}
<1>1. Depth(step) = Depth(step') + 1
  BY Follow
<1>2. Len(frames) \in Nat /\ Len(frames) > 0 /\ Len(frames) - 1 = Depth(step')
  BY <1>1, DepthType DEF Inv
<1>3. /\ Len(frames') = Len(frames) - 1
      /\ frames' \in Seq(Addresses \cup {NULL})
      /\ \A i \in 1..(Len(frames) - 1) : frames'[i] = frames[i]
  BY <1>2 DEF Inv
<1>4. Top \in Addresses \cup {NULL}
  BY <1>2 DEF Inv, Top
<1>5. QED
  BY <1>2, <1>3, <1>4

LEMMA CleanupInv == ASSUME Inv, DbCleanup PROVE Inv'
<1>1. /\ Runs("cleanup") /\ dangled' = dangled /\ pgres_temp' = NULL
      /\ crashed' = Bad(<<Top, pgres_temp>>)
      /\ live' = live \ {Top, pgres_temp}
      /\ frames' = SubSeq(frames, 1, Len(frames) - 1)
      /\ Goes(Program[step].then)
  BY FreedOf DEF DbCleanup
<1>2. /\ Len(frames) \in Nat /\ Len(frames) > 0 /\ Len(frames') = Len(frames) - 1
      /\ frames' \in Seq(Addresses \cup {NULL}) /\ Len(frames') = Depth(step')
      /\ \A i \in 1..(Len(frames) - 1) : frames'[i] = frames[i]
  BY <1>1, Popped
<1>3. live' \subseteq Addresses
  BY <1>1 DEF Inv, TypeOK
<1>4. TypeOK'
  <2>1. crashed' \in BOOLEAN
    BY <1>1 DEF Bad
  <2>2. dangled' \in BOOLEAN /\ pgres_temp' \in Addresses \cup {NULL}
    BY <1>1 DEF Inv, TypeOK
  <2>3. QED
    BY <1>1, <1>2, <1>3, <2>1, <2>2, StepTypes
<1>5. ASSUME ~dangled' PROVE ~crashed' /\ Owned' /\ NothingLost'
  <2>1. ~dangled /\ Owned /\ NothingLost
    BY <1>1, <1>5 DEF Inv
  <2>2. /\ Top # NULL => Top \in live /\ Top # pgres_temp
        /\ \A i \in 1..(Len(frames) - 1) : frames[i] # NULL => frames[i] # Top
    BY <1>2, <2>1 DEF Owned, Top
  <2>3. ~crashed'
    BY <1>1, <2>1, <2>2, FreedOf DEF Owned
  <2>4. Owned'
    <3>1. ASSUME NEW i \in 1..(Len(frames) - 1), frames[i] # NULL
          PROVE  /\ frames[i] \in live /\ frames[i] # pgres_temp /\ frames[i] # Top
                 /\ \A j \in 1..(Len(frames) - 1) : i # j => frames[i] # frames[j]
      BY <1>2, <2>1, <2>2, <3>1 DEF Owned
    <3>2. \A i \in 1..(Len(frames) - 1) : frames[i] # NULL => frames[i] \in live'
      BY <1>1, <3>1
    <3>3. \A i \in 1..Len(frames') : i \in 1..(Len(frames) - 1) /\ frames'[i] = frames[i]
      BY <1>2
    <3>4. QED
      BY <1>1, <3>1, <3>2, <3>3 DEF Owned
  <2>5. Held = Held' \cup ({Top, pgres_temp} \ {NULL}) /\ Held' \cap {Top, pgres_temp} = {}
    <3>1. 1..Len(frames) = 1..(Len(frames) - 1) \cup {Len(frames)}
      BY <1>2
    <3>2. {frames[i] : i \in 1..Len(frames)} = {frames'[i] : i \in 1..Len(frames')} \cup {Top}
      BY <1>2, <3>1 DEF Top
    <3>3. Held' = {frames'[i] : i \in 1..Len(frames')} \ {NULL}
      BY <1>1 DEF Held
    <3>4. \A a \in {frames'[i] : i \in 1..Len(frames')} \ {NULL} : a \notin {Top, pgres_temp}
      BY <1>2, <2>1, <2>2 DEF Owned
    <3>5. QED
      BY <3>2, <3>3, <3>4 DEF Held
  <2>6. step \in Round /\ kept' = kept => live' = kept \cup Held' /\ kept \cap Held' = {}
    <3> SUFFICES ASSUME step \in Round
                 PROVE  live' = kept \cup Held' /\ kept \cap Held' = {}
      OBVIOUS
    <3>1. live = kept \cup Held /\ kept \cap Held = {}
      BY <2>1 DEF NothingLost
    <3>2. NULL \notin live
      BY SqlApiAssumption DEF Inv, TypeOK
    <3>3. kept \cap {Top, pgres_temp} = {}
      BY <2>5, <3>1, <3>2
    <3>4. QED
      BY <1>1, <2>5, <3>1, <3>2, <3>3
  <2>7. NothingLost'
    BY <1>1, <1>2, <1>3, <2>1, <2>4, <2>6, SameRound
  <2>8. QED
    BY <2>3, <2>4, <2>7
<1>6. QED
  BY <1>2, <1>4, <1>5 DEF Inv

LEMMA ReturnInv == ASSUME Inv, Return PROVE Inv'
<1>1. /\ Runs("return") /\ UNCHANGED <<pgres_temp, live, crashed, dangled>>
      /\ frames' = SubSeq(frames, 1, Len(frames) - 1)
      /\ Goes(Program[step].then)
  BY DEF Return
<1>2. /\ Len(frames) \in Nat /\ Len(frames) > 0 /\ Len(frames') = Len(frames) - 1
      /\ frames' \in Seq(Addresses \cup {NULL}) /\ Len(frames') = Depth(step')
      /\ \A i \in 1..(Len(frames) - 1) : frames'[i] = frames[i]
  BY <1>1, Popped
<1>3. live' \subseteq Addresses
  BY <1>1 DEF Inv, TypeOK
<1>4. TypeOK'
  <2>1. crashed' \in BOOLEAN /\ dangled' \in BOOLEAN /\ pgres_temp' \in Addresses \cup {NULL}
    BY <1>1 DEF Inv, TypeOK
  <2>2. QED
    BY <1>1, <1>2, <1>3, <2>1, StepTypes
<1>5. ASSUME ~dangled' PROVE ~crashed' /\ Owned' /\ NothingLost'
  <2>1. ~dangled /\ ~crashed /\ Owned
    BY <1>1, <1>5 DEF Inv
  <2>2. Owned'
    BY <1>1, <1>2, <2>1 DEF Owned
  <2>3. NothingLost'
    BY <1>1, <1>2, <1>3, <2>1, <2>2, SameRound
  <2>4. QED
    BY <1>1, <2>1, <2>2, <2>3
<1>6. QED
  BY <1>2, <1>4, <1>5 DEF Inv

LEMMA PermissInv == ASSUME Inv, DbPermiss PROVE Inv'
<1>1. Runs("permiss") /\ UNCHANGED <<frames, crashed>>
  BY DEF DbPermiss
<1>2. PICK r \in Addresses \cup {NULL} :
        /\ r # NULL => r \notin live
        /\ pgres_temp' = r
        /\ \/ live' = (live \cup {r}) \ {NULL} /\ dangled' = dangled
           \/ live' = live /\ dangled' = TRUE
        /\ Goes(Program[step].then)
  <2>1. NULL \notin live
    BY SqlApiAssumption DEF Inv, TypeOK
  <2>2. CASE pgres_temp' = NULL /\ UNCHANGED <<live, dangled>>
    BY <2>1, <2>2 DEF DbPermiss
  <2>3. ASSUME NEW r \in Addresses \ live, pgres_temp' = r,
               (live' = live \cup {r} /\ UNCHANGED dangled)
                 \/ (UNCHANGED live /\ dangled' = TRUE)
        PROVE  /\ r # NULL => r \notin live
               /\ pgres_temp' = r
               /\ \/ live' = (live \cup {r}) \ {NULL} /\ dangled' = dangled
                  \/ live' = live /\ dangled' = TRUE
    BY <2>1, <2>3, SqlApiAssumption
  <2>4. Goes(Program[step].then)
    BY DEF DbPermiss
  <2>5. QED
    BY <2>2, <2>3, <2>4 DEF DbPermiss
<1>3. /\ frames' \in Seq(Addresses \cup {NULL}) /\ Len(frames') = Depth(step')
      /\ live' \subseteq Addresses
  BY <1>1, <1>2, Follow DEF Inv, TypeOK
<1>4. TypeOK'
  <2>1. crashed' \in BOOLEAN /\ dangled' \in BOOLEAN /\ pgres_temp' \in Addresses \cup {NULL}
    BY <1>1, <1>2 DEF Inv, TypeOK
  <2>2. QED
    BY <1>1, <1>2, <1>3, <2>1, StepTypes
<1>5. ASSUME ~dangled' PROVE ~crashed' /\ Owned' /\ NothingLost'
  <2>1. ~dangled /\ live' = (live \cup {r}) \ {NULL}
    BY <1>2, <1>5
  <2>2. ~crashed /\ Owned
    BY <2>1 DEF Inv
  <2>3. NULL \notin live
    BY SqlApiAssumption DEF Inv, TypeOK
  <2>4. Owned'
    BY <1>1, <1>2, <2>1, <2>2, <2>3 DEF Owned
  <2>5. NothingLost'
    BY <1>1, <1>2, <1>3, <2>1, <2>4, SameRound
  <2>6. QED
    BY <1>1, <2>2, <2>4, <2>5
<1>6. QED
  BY <1>3, <1>4, <1>5 DEF Inv

LEMMA NextInv == Inv /\ [Next]_vars => Inv'
<1> SUFFICES ASSUME Inv, [Next]_vars PROVE Inv'
  OBVIOUS
<1>1. CASE UNCHANGED vars
  BY <1>1 DEF vars, results, Inv, TypeOK, Owned, NothingLost, Held
<1>2. CASE Next
  BY <1>2, QueryInv, ReadInv, ExecInv, ChangesInv, CleanupInv, PermissInv, ReturnInv DEF Next
<1>3. QED
  BY <1>1, <1>2

THEOREM Invariance == Spec => []Inv
BY InitInv, NextInv, PTL DEF Spec

\* The handles, the depth of the callers' nesting and the set of what is allocated keep
\* their types, for any number of addresses.
THEOREM TypeCorrect == Spec => []TypeOK
<1>1. Inv => TypeOK
  BY DEF Inv
<1>2. QED
  BY <1>1, Invariance, PTL

\* No result is read or freed after it was freed as long as every privilege query has rows,
\* however calls nest and whatever addresses PQexec gives out again.
THEOREM UsedWhileLives == Spec => []UsedWhileLive
<1>1. Inv => UsedWhileLive
  BY DEF Inv, UsedWhileLive
<1>2. QED
  BY <1>1, Invariance, PTL

\* A round of the timer frees what it has allocated, and no more than what pgres_temp held
\* before it, for any number of rows and failures.
THEOREM RoundsReleaseAlways == Spec => RoundsRelease
<1> DEFINE Releases == step = "groupsDone" /\ ~ dangled => live' = kept
<1>1. ASSUME Inv, Next PROVE Releases
  <2> SUFFICES ASSUME step = "groupsDone", ~dangled PROVE live' = kept
    OBVIOUS
  <2>1. Program[step].op = "cleanup" /\ step \in Round /\ Depth(step) = 1
    <3>1. step \in DOMAIN AgroupmapReload /\ step \in ProgramSteps
      BY AllSteps DEF AgroupmapReload
    <3>2. PICK part \in Parts : step \in DOMAIN part /\ Program[step] = part[step]
      BY <3>1, InParts
    <3>3. part = AgroupmapReload
      BY <3>2 DEF Parts, ProxymapReload, DbmapReload, AgroupmapReload, CheckUserPermiss,
                  AddToWhitelist, Logalert
    <3>4. QED
      BY <3>2, <3>3 DEF AgroupmapReload, Do, Round, Depth, One, Two
  <2>2. live' = live \ {Top, pgres_temp}
    BY <1>1, <2>1, FreedOf
       DEF Next, DbQuery, DbFetchRow, DbExec, DbChanges, DbCleanup, DbPermiss, Return, Runs
  <2>3. live = kept \cup Held /\ kept \cap Held = {}
    BY <1>1, <2>1 DEF Inv, NothingLost
  <2>4. Len(frames) = 1
    BY <1>1, <2>1 DEF Inv
  <2>5. Held = {pgres_temp, Top} \ {NULL}
    BY <2>4 DEF Held, Top
  <2>6. NULL \notin live
    BY <1>1, SqlApiAssumption DEF Inv, TypeOK
  <2>7. QED
    BY <2>2, <2>3, <2>5, <2>6
<1>2. Inv /\ [Next]_vars => [Releases]_vars
  BY <1>1
<1>3. QED
  BY <1>2, Invariance, PTL DEF Spec, RoundsRelease
=============================================================================
