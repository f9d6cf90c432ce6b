---------------------------- MODULE AlertsProofs ----------------------------
(***************************************************************************)
(* Proofs about Alerts, for every set of keys, every way the cache files   *)
(* them, either storage and any number of calls, deletions and restarts.   *)
(***************************************************************************)
EXTENDS Alerts, TLAPS

\* Numbers are given out once: nothing refers to a group that was never added,
\* and nothing is known of a call that was not made.
NumbersHanded ==
    /\ \A g \in Groups : groups[g] # None => g <= added
    /\ \A n \in Logs : alerts[n] # None => alerts[n].group <= added /\ asked[n] # None
    /\ \A c \in CacheKeys : cache[c] <= added
    /\ id <= added
    /\ \A g \in gone : g <= added /\ groups[g] = None
    /\ \A n \in Logs : n > logs => asked[n] = None /\ alerts[n] = None

\* The group that a call has found is one of its pattern.
FoundIsRight ==
    phase \in {"alert", "update"} /\ groups[id] # None
        => CacheKey[groups[id].key] = CacheKey[Key]

Inv ==
    /\ TypeOK
    /\ NumbersHanded
    /\ FoundIsRight
    /\ RightGroup
    /\ StaleIsRecent

-----------------------------------------------------------------------------
LEMMA InitInv == Init => Inv
<1> SUFFICES ASSUME Init PROVE Inv
  OBVIOUS
<1> USE AlertsAssumption DEF Init, NoGroup
<1>1. TypeOK
  BY DEF TypeOK, NoGroup
<1>2. NumbersHanded
  BY DEF NumbersHanded
<1>3. FoundIsRight /\ RightGroup /\ StaleIsRecent
  BY DEF FoundIsRight, RightGroup, StaleIsRecent
<1>4. QED
  BY <1>1, <1>2, <1>3 DEF Inv

LEMMA CallKnown ==
    ASSUME Inv, phase # "idle"
    PROVE  logs \in Logs /\ asked[logs] \in CallType /\ Key \in Keys
BY DEF Inv, TypeOK, CallType, Key

\* A step that changes no row, no number and nothing cached.
LEMMA QuietInv ==
    ASSUME Inv, UNCHANGED <<tables, cache, id, logs, asked, gone>>, TypeOK',
           phase' \in {"alert", "update"} => phase \in {"alert", "update"}
    PROVE  Inv'
<1>1. NumbersHanded' /\ RightGroup' /\ StaleIsRecent'
  BY DEF Inv, NumbersHanded, RightGroup, StaleIsRecent, tables
<1>2. FoundIsRight'
  BY DEF Inv, FoundIsRight, tables, Key
<1>3. QED
  BY <1>1, <1>2 DEF Inv

LEMMA FailsInv ==
    ASSUME Inv, NEW next, Fails(next), UNCHANGED id,
           \/ phase = "lookup" /\ next = "insert"
           \/ phase = "alert" /\ next = "update"
           \/ next = "idle"
    PROVE  Inv'
<1>1. TypeOK'
  BY DEF Inv, TypeOK, Fails, tables, bounds
<1>2. QED
  BY <1>1, QuietInv DEF Fails

-----------------------------------------------------------------------------
LEMMA LogInv ==
    ASSUME Inv, NEW k \in Keys, NEW learned \in BOOLEAN, Log(k, learned)
    PROVE  Inv'
<1> USE AlertsAssumption DEF Log, tables, bounds
<1>0. logs' \in Logs /\ logs' = logs + 1 /\ CacheKey[k] \in CacheKeys
  BY DEF Inv, TypeOK, Logs, CacheKeys
<1>1. [key |-> k, learned |-> learned] \in CallType
  BY DEF CallType
<1>2. asked'[logs'] = [key |-> k, learned |-> learned] /\ asked[logs'] = None
  BY <1>0 DEF Inv, TypeOK, NumbersHanded
<1>3. TypeOK'
  <2>1. asked' \in [Logs -> CallType \cup {None}] /\ asked'[logs'] # None
    BY <1>0, <1>1, <1>2 DEF Inv, TypeOK
  <2>2. id' \in Groups \cup {NoGroup}
    BY <1>0 DEF Inv, TypeOK
  <2>3. added' \in 0..logs' /\ added' < logs' /\ logs' \in 0..MaxLogs
    BY <1>0 DEF Inv, TypeOK
  <2>4. QED
    BY <1>0, <2>1, <2>2, <2>3 DEF Inv, TypeOK
<1>4. NumbersHanded'
  <2>1. id' <= added'
    BY <1>0 DEF Inv, NumbersHanded
  <2>2. \A n \in Logs : asked[n] # None => asked'[n] # None
    BY <1>0, <1>1, <1>2 DEF Inv, TypeOK
  <2>3. \A n \in Logs : n > logs' => n > logs /\ asked'[n] = asked[n]
    BY <1>0 DEF Inv, TypeOK, Logs
  <2>4. QED
    BY <2>1, <2>2, <2>3 DEF Inv, NumbersHanded
<1>5. FoundIsRight'
  <2>1. CASE id' = NoGroup
    BY <2>1 DEF FoundIsRight
  <2>2. CASE id' # NoGroup
    <3>1. groups[id'] # None => CacheKey[groups[id'].key] = CacheKey[k]
      BY <1>0, <2>2 DEF Inv, StaleIsRecent, NumbersHanded
    <3>2. QED
      BY <1>0, <1>2, <3>1 DEF FoundIsRight, Key
  <2>3. QED
    BY <2>1, <2>2
<1>6. RightGroup'
  <2>1. \A n \in Logs : asked[n] # None => asked'[n] = asked[n]
    BY <1>0, <1>2 DEF Inv, TypeOK
  <2>2. \A n \in Logs : alerts[n] # None => asked[n] # None
    BY DEF Inv, NumbersHanded
  <2>3. QED
    BY <2>1, <2>2 DEF Inv, RightGroup
<1>7. StaleIsRecent'
  BY DEF Inv, StaleIsRecent
<1>8. QED
  BY <1>3, <1>4, <1>5, <1>6, <1>7 DEF Inv

LEMMA GroupGetInv == ASSUME Inv, GroupGet PROVE Inv'
<1>1. CASE /\ phase = "lookup" /\ GroupsOf(Key) # {}
           /\ id' \in GroupsOf(Key)
           /\ phase' = "alert"
           /\ UNCHANGED <<tables, cache, logs, asked, calm, gone, bounds>>
  <2> USE <1>1 DEF tables, bounds
  <2>1. id' \in Groups /\ groups[id'] # None /\ groups[id'].key = Key
    BY DEF GroupsOf
  <2>2. TypeOK'
    BY <2>1 DEF Inv, TypeOK, NoGroup, Groups
  <2>3. NumbersHanded' /\ RightGroup' /\ StaleIsRecent'
    BY <2>1 DEF Inv, NumbersHanded, RightGroup, StaleIsRecent
  <2>4. FoundIsRight'
    BY <2>1 DEF FoundIsRight, Key
  <2>5. QED
    BY <2>2, <2>3, <2>4 DEF Inv
<1>2. CASE /\ phase = "lookup" /\ GroupsOf(Key) = {}
           /\ phase' = "insert"
           /\ UNCHANGED <<tables, cache, id, logs, asked, calm, gone, bounds>>
  <2>1. TypeOK'
    BY <1>2 DEF Inv, TypeOK, tables, bounds
  <2>2. QED
    BY <1>2, <2>1, QuietInv
<1>3. CASE phase = "lookup" /\ Fails("insert") /\ UNCHANGED id
  BY <1>3, FailsInv
<1>4. QED
  BY <1>1, <1>2, <1>3 DEF GroupGet

LEMMA GroupInsertInv == ASSUME Inv, GroupInsert PROVE Inv'
<1>1. CASE /\ phase = "insert"
           /\ added' = added + 1
           /\ groups' = [groups EXCEPT ![added'] = [key |-> Key, approved |-> FALSE]]
           /\ phase' = "again"
           /\ UNCHANGED <<alerts, cache, id, logs, asked, calm, gone, bounds>>
  <2> USE <1>1 DEF bounds
  <2>1. added' \in Groups /\ added' <= logs /\ added \in Nat
    <3>1. added \in 0..logs /\ added < logs /\ logs \in 1..MaxLogs
      BY DEF Inv, TypeOK, Logs
    <3>2. QED
      BY <3>1, AlertsAssumption DEF Groups
  <2>2. [key |-> Key, approved |-> FALSE] \in GroupType
    BY CallKnown DEF GroupType
  <2>3. groups[added'] = None
    BY <2>1 DEF Inv, NumbersHanded
  <2>4. \A g \in Groups : g # added' => groups'[g] = groups[g]
    BY <2>1 DEF Inv, TypeOK
  <2>5. groups'[added'] = [key |-> Key, approved |-> FALSE]
    BY <2>1 DEF Inv, TypeOK
  <2>6. TypeOK'
    BY <2>1, <2>2 DEF Inv, TypeOK
  <2>7. NumbersHanded'
    <3>1. \A g \in Groups : groups'[g] # None => g <= added'
      BY <2>1, <2>4 DEF Inv, NumbersHanded, Groups
    <3>2. /\ \A n \in Logs : alerts[n] # None => alerts[n].group \in Groups
          /\ \A c \in CacheKeys : cache[c] \in Groups \cup {NoGroup}
      BY DEF Inv, TypeOK, AlertType
    <3>3. \A g \in gone : g \in Groups /\ g <= added /\ g # added' /\ groups[g] = None
      BY <2>1 DEF Inv, TypeOK, NumbersHanded, Groups
    <3>4. id \in Groups \cup {NoGroup}
      BY DEF Inv, TypeOK
    <3>5. QED
      BY <2>1, <2>4, <3>1, <3>2, <3>3, <3>4 DEF Inv, NumbersHanded, Groups, NoGroup
  <2>8. FoundIsRight'
    BY DEF FoundIsRight
  <2>9. RightGroup'
    <3>1. \A n \in Logs : alerts[n] # None =>
            alerts[n].group \in Groups /\ alerts[n].group # added'
      BY <2>1 DEF Inv, TypeOK, AlertType, NumbersHanded, Groups
    <3>2. QED
      BY <2>4, <2>5, <3>1 DEF Inv, RightGroup
  <2>10. StaleIsRecent'
    <3>1. \A c \in CacheKeys : cache[c] # NoGroup => cache[c] \in Groups /\ cache[c] # added'
      BY <2>1 DEF Inv, TypeOK, NumbersHanded, Groups
    <3>2. QED
      BY <2>4, <3>1 DEF Inv, StaleIsRecent
  <2>11. QED
    BY <2>6, <2>7, <2>8, <2>9, <2>10 DEF Inv
<1>2. CASE Fails("idle") /\ UNCHANGED id
  BY <1>2, FailsInv
<1>3. QED
  BY <1>1, <1>2 DEF GroupInsert

LEMMA GroupAgainInv == ASSUME Inv, GroupAgain PROVE Inv'
<1> USE AlertsAssumption DEF tables, bounds
<1>0. CacheKey[Key] \in CacheKeys
  BY CallKnown DEF GroupAgain, CacheKeys
<1>1. CASE /\ phase = "again" /\ GroupsOf(Key) # {}
           /\ id' \in GroupsOf(Key)
           /\ cache' = [cache EXCEPT ![CacheKey[Key]] = id']
           /\ phase' = "alert"
           /\ UNCHANGED <<tables, logs, asked, calm, gone, bounds>>
  <2> USE <1>1
  <2>1. id' \in Groups /\ groups[id'] # None /\ groups[id'].key = Key
    BY DEF GroupsOf
  <2>2. cache'[CacheKey[Key]] = id' /\ \A c \in CacheKeys : c # CacheKey[Key] => cache'[c] = cache[c]
    BY <1>0 DEF Inv, TypeOK
  <2>3. TypeOK'
    BY <1>0, <2>1 DEF Inv, TypeOK, NoGroup, Groups
  <2>4. NumbersHanded'
    <3>1. id' <= added
      BY <2>1 DEF Inv, NumbersHanded
    <3>2. QED
      BY <2>2, <3>1 DEF Inv, NumbersHanded
  <2>5. FoundIsRight'
    BY <2>1 DEF FoundIsRight, Key
  <2>6. RightGroup'
    BY DEF Inv, RightGroup
  <2>7. StaleIsRecent'
    BY <2>1, <2>2 DEF Inv, StaleIsRecent
  <2>8. QED
    BY <2>3, <2>4, <2>5, <2>6, <2>7 DEF Inv
<1>2. CASE /\ phase = "again"
           /\ id' = NoGroup
           /\ cache' = [cache EXCEPT ![CacheKey[Key]] = NoGroup]
           /\ phase' = "idle"
           /\ calm' = FALSE
           /\ UNCHANGED <<tables, logs, asked, gone, bounds>>
  <2> USE <1>2
  <2>2. cache'[CacheKey[Key]] = NoGroup /\ \A c \in CacheKeys : c # CacheKey[Key] => cache'[c] = cache[c]
    BY <1>0 DEF Inv, TypeOK
  <2>3. TypeOK'
    BY <1>0 DEF Inv, TypeOK
  <2>4. NumbersHanded'
    <3>1. 0 <= added
      BY DEF Inv, TypeOK
    <3>2. QED
      BY <2>2, <3>1 DEF Inv, NumbersHanded, NoGroup
  <2>5. FoundIsRight' /\ RightGroup'
    BY DEF Inv, RightGroup, FoundIsRight
  <2>6. StaleIsRecent'
    BY <2>2 DEF Inv, StaleIsRecent
  <2>7. QED
    BY <2>3, <2>4, <2>5, <2>6 DEF Inv
<1>3. QED
  BY <1>1, <1>2 DEF GroupAgain

LEMMA AlertInsertInv == ASSUME Inv, AlertInsert PROVE Inv'
<1> DEFINE new == [group |-> id]
<1>1. CASE /\ phase = "alert"
           /\ alerts' = [alerts EXCEPT ![logs] = new]
           /\ phase' = "update"
           /\ UNCHANGED <<groups, added, cache, id, logs, asked, calm, gone, bounds>>
  <2> USE <1>1 DEF bounds
  <2>1. logs \in Logs /\ asked[logs] # None
    BY DEF Inv, TypeOK
  <2>2. new \in AlertType
    BY DEF Inv, TypeOK, AlertType
  <2>3. alerts'[logs] = new /\ \A n \in Logs : n # logs => alerts'[n] = alerts[n]
    BY <2>1 DEF Inv, TypeOK
  <2>4. TypeOK'
    BY <2>1, <2>2 DEF Inv, TypeOK
  <2>5. NumbersHanded'
    <3>1. \A n \in Logs : alerts'[n] # None => alerts'[n].group <= added /\ asked[n] # None
      BY <2>1, <2>3 DEF Inv, NumbersHanded
    <3>2. \A n \in Logs : n > logs => n # logs
      BY <2>1 DEF Logs, Inv, TypeOK
    <3>3. QED
      BY <2>3, <3>1, <3>2 DEF Inv, NumbersHanded
  <2>6. FoundIsRight'
    BY DEF Inv, FoundIsRight, Key
  <2>7. RightGroup'
    <3>1. groups[id] # None => CacheKey[groups[id].key] = CacheKey[asked[logs].key]
      BY DEF Inv, FoundIsRight, Key
    <3>2. QED
      BY <2>3, <3>1 DEF Inv, RightGroup
  <2>8. StaleIsRecent'
    BY DEF Inv, StaleIsRecent
  <2>9. QED
    BY <2>4, <2>5, <2>6, <2>7, <2>8 DEF Inv
<1>2. CASE /\ phase = "alert"
           /\ phase' = "update"
           /\ calm' = FALSE
           /\ UNCHANGED <<tables, cache, id, logs, asked, gone, bounds>>
  <2>1. TypeOK'
    BY <1>2 DEF Inv, TypeOK, tables, bounds
  <2>2. QED
    BY <1>2, <2>1, QuietInv
<1>3. CASE phase = "alert" /\ Fails("update") /\ UNCHANGED id
  BY <1>3, FailsInv
<1>4. QED
  BY <1>1, <1>2, <1>3 DEF AlertInsert

LEMMA GroupUpdateInv == ASSUME Inv, GroupUpdate PROVE Inv'
<1>1. CASE /\ phase = "update"
           /\ groups' = IF groups[id] # None /\ asked[logs].learned
                          THEN [groups EXCEPT ![id].approved = TRUE] ELSE groups
           /\ phase' = "idle"
           /\ UNCHANGED <<alerts, added, cache, id, logs, asked, calm, gone, bounds>>
  <2> USE <1>1 DEF bounds
  <2>1. id \in Groups /\ logs \in Logs /\ asked[logs] # None
    BY DEF Inv, TypeOK
  <2>2. \A g \in Groups : g # id => groups'[g] = groups[g]
    BY <2>1 DEF Inv, TypeOK
  <2>3. groups[id] = None => groups'[id] = None
    BY DEF Inv, TypeOK
  <2>4. groups[id] # None =>
          /\ groups'[id] \in GroupType
          /\ groups'[id].key = groups[id].key
          /\ groups'[id].approved => groups[id].approved \/ asked[logs].learned
    BY <2>1 DEF Inv, TypeOK, GroupType
  <2>5. \A g \in Groups : groups'[g] # None <=> groups[g] # None
    BY <2>2, <2>3, <2>4, AlertsAssumption
  <2>6. \A g \in Groups : groups[g] # None => groups'[g].key = groups[g].key
    BY <2>2, <2>4
  <2>7. TypeOK'
    <3>1. groups' \in [Groups -> GroupType \cup {None}]
      BY <2>1, <2>4 DEF Inv, TypeOK
    <3>2. QED
      BY <3>1 DEF Inv, TypeOK
  <2>8. NumbersHanded'
    BY <2>5 DEF Inv, NumbersHanded, TypeOK
  <2>9. FoundIsRight'
    BY DEF FoundIsRight
  <2>10. RightGroup'
    <3>1. \A n \in Logs : alerts[n] # None => alerts[n].group \in Groups
      BY DEF Inv, TypeOK, AlertType
    <3>2. groups[id] # None => CacheKey[groups[id].key] = CacheKey[asked[logs].key]
      BY DEF Inv, FoundIsRight, Key
    <3>3. ASSUME NEW g \in Groups, groups'[g] # None, groups'[g].approved
          PROVE  \E n \in Logs : /\ asked[n] # None /\ asked[n].learned
                                 /\ CacheKey[asked[n].key] = CacheKey[groups'[g].key]
      <4>1. CASE groups[g].approved
        BY <2>5, <2>6, <3>3, <4>1 DEF Inv, RightGroup
      <4>2. CASE ~ groups[g].approved
        <5>1. g = id /\ asked[logs].learned
          BY <2>2, <2>4, <2>5, <3>3, <4>2
        <5>2. QED
          BY <2>1, <2>5, <2>6, <3>2, <3>3, <5>1
      <4>3. QED
        BY <4>1, <4>2
    <3>4. QED
      BY <2>5, <2>6, <3>1, <3>3 DEF Inv, RightGroup
  <2>11. StaleIsRecent'
    BY <2>5, <2>6 DEF Inv, StaleIsRecent, TypeOK
  <2>12. QED
    BY <2>7, <2>8, <2>9, <2>10, <2>11 DEF Inv
<1>2. CASE phase = "update" /\ Fails("idle") /\ UNCHANGED id
  BY <1>2, FailsInv
<1>3. QED
  BY <1>1, <1>2 DEF GroupUpdate

-----------------------------------------------------------------------------
LEMMA ReloadInv == ASSUME Inv, Reload PROVE Inv'
<1> USE DEF Reload, tables, bounds
<1>1. PICK f \in [CacheKeys -> Groups \cup {NoGroup}] :
        /\ cache' = f
        /\ \A c \in CacheKeys :
             f[c] = NoGroup \/ f[c] \in {g \in Groups : groups[g] # None /\ CacheKey[groups[g].key] = c}
  OBVIOUS
<1>2. TypeOK'
  BY <1>1 DEF Inv, TypeOK
<1>3. NumbersHanded'
  <2>1. added >= 0
    BY DEF Inv, TypeOK
  <2>2. QED
    BY <1>1, <2>1 DEF Inv, NumbersHanded, NoGroup
<1>4. FoundIsRight' /\ RightGroup'
  BY DEF Inv, FoundIsRight, RightGroup
<1>5. StaleIsRecent'
  BY <1>1 DEF StaleIsRecent
<1>6. QED
  BY <1>2, <1>3, <1>4, <1>5 DEF Inv

LEMMA RestartInv == ASSUME Inv, Restart PROVE Inv'
<1> USE DEF Restart, tables
<1>1. TypeOK'
  <2>1. restarts' \in 0..MaxRestarts
    BY AlertsAssumption DEF Inv, TypeOK
  <2>2. QED
    BY <2>1 DEF Inv, TypeOK
<1>2. NumbersHanded'
  <2>1. added >= 0
    BY DEF Inv, TypeOK
  <2>2. QED
    BY <2>1 DEF Inv, NumbersHanded, NoGroup
<1>3. FoundIsRight' /\ RightGroup' /\ StaleIsRecent'
  BY DEF Inv, FoundIsRight, RightGroup, StaleIsRecent
<1>4. QED
  BY <1>1, <1>2, <1>3 DEF Inv

LEMMA DeleteGroupInv == ASSUME Inv, NEW g \in Groups, DeleteGroup(g) PROVE Inv'
<1> USE DEF DeleteGroup
<1>1. groups'[g] = None /\ \A h \in Groups : h # g => groups'[h] = groups[h]
  BY DEF Inv, TypeOK
<1>2. TypeOK'
  <2>1. deletes' \in 0..MaxDeletes
    BY AlertsAssumption DEF Inv, TypeOK
  <2>2. groups' \in [Groups -> GroupType \cup {None}]
    BY DEF Inv, TypeOK
  <2>3. QED
    BY <2>1, <2>2 DEF Inv, TypeOK
<1>3. NumbersHanded'
  <2>1. g <= added /\ gone \subseteq Groups
    BY DEF Inv, TypeOK, NumbersHanded
  <2>2. QED
    BY <1>1, <2>1 DEF Inv, NumbersHanded
<1>4. FoundIsRight'
  BY <1>1 DEF Inv, FoundIsRight, TypeOK, Key
<1>5. RightGroup'
  <2>1. \A n \in Logs : alerts[n] # None => alerts[n].group \in Groups
    BY DEF Inv, TypeOK, AlertType
  <2>2. QED
    BY <1>1, <2>1 DEF Inv, RightGroup
<1>6. StaleIsRecent'
  <2>1. \A c \in CacheKeys : cache[c] # NoGroup => cache[c] \in Groups
    BY DEF Inv, TypeOK
  <2>2. QED
    BY <1>1, <2>1 DEF Inv, StaleIsRecent
<1>7. QED
  BY <1>2, <1>3, <1>4, <1>5, <1>6 DEF Inv

LEMMA NextInv == ASSUME Inv, [Next]_vars PROVE Inv'
<1>1. ASSUME NEW k \in Keys, NEW learned \in BOOLEAN, Log(k, learned) PROVE Inv'
  BY <1>1, LogInv
<1>2. CASE GroupGet
  BY <1>2, GroupGetInv
<1>3. CASE GroupInsert
  BY <1>3, GroupInsertInv
<1>4. CASE GroupAgain
  BY <1>4, GroupAgainInv
<1>5. CASE AlertInsert
  BY <1>5, AlertInsertInv
<1>6. CASE GroupUpdate
  BY <1>6, GroupUpdateInv
<1>7. CASE Reload
  BY <1>7, ReloadInv
<1>8. CASE Restart
  BY <1>8, RestartInv
<1>9. ASSUME NEW g \in Groups, DeleteGroup(g) PROVE Inv'
  BY <1>9, DeleteGroupInv
<1>10. CASE UNCHANGED vars
  <2>1. TypeOK'
    BY <1>10 DEF Inv, TypeOK, vars, tables, bounds
  <2>2. QED
    BY <1>10, <2>1, QuietInv DEF vars
<1>11. QED
  BY <1>1, <1>2, <1>3, <1>4, <1>5, <1>6, <1>7, <1>8, <1>9, <1>10 DEF Next

THEOREM Invariance == Spec => []Inv
<1>1. Init => Inv
  BY InitInv
<1>2. Inv /\ [Next]_vars => Inv'
  BY NextInv
<1>3. QED
  BY <1>1, <1>2, PTL DEF Spec

-----------------------------------------------------------------------------
\* The tables, the cache and a call's variables keep their types; in particular
\* a call never goes on with group 0 (logalert's return after "failed to add").
THEOREM TypeCorrect == Spec => []TypeOK
<1>1. Inv => TypeOK
  BY DEF Inv
<1>2. QED
  BY <1>1, Invariance, PTL

\* Alerts are filed under groups of their pattern, and only groups of learned
\* patterns are approved, whatever fails or is deleted during logalert.
THEOREM RightGroups == Spec => []RightGroup
<1>1. Inv => RightGroup
  BY DEF Inv
<1>2. QED
  BY <1>1, Invariance, PTL

\* agroupmap names no group that was deleted before the last reload.
THEOREM StalesAreRecent == Spec => []StaleIsRecent
<1>1. Inv => StaleIsRecent
  BY DEF Inv
<1>2. QED
  BY <1>1, Invariance, PTL

-----------------------------------------------------------------------------
(* One group for each pattern, with a storage that does not fail.          *)

\* agroup_add inserts only what agroup_get has not found.
InsertIsNew == phase = "insert" => GroupsOf(Key) = {}

OneInv == Inv /\ OneGroup /\ InsertIsNew

LEMMA OneGroupStep ==
    ASSUME StorageErrors = FALSE, OneInv, [Next]_vars
    PROVE  OneGroup' /\ InsertIsNew'
<1> USE DEF OneInv
<1>1. CASE UNCHANGED <<groups, asked, logs, phase>>
  BY <1>1 DEF OneGroup, InsertIsNew, GroupsOf, Key
<1>2. CASE UNCHANGED groups /\ phase' # "insert"
  BY <1>2 DEF OneGroup, InsertIsNew
<1>3. ASSUME NEW k \in Keys, NEW learned \in BOOLEAN, Log(k, learned)
      PROVE  UNCHANGED groups /\ phase' # "insert"
  BY <1>3 DEF Log, tables
<1>4. CASE GroupGet
  BY <1>4 DEF GroupGet, Fails, OneGroup, InsertIsNew, GroupsOf, Key, tables
<1>5. CASE GroupInsert
  <2>1. /\ phase = "insert" /\ phase' = "again"
        /\ added' = added + 1
        /\ groups' = [groups EXCEPT ![added'] = [key |-> Key, approved |-> FALSE]]
    BY <1>5 DEF GroupInsert, Fails
  <2>2. \A g \in Groups : groups[g] # None => groups[g].key # Key
    BY <2>1 DEF InsertIsNew, GroupsOf
  <2>3. \A g \in Groups : /\ g # added' => groups'[g] = groups[g]
                          /\ g = added' => groups'[g].key = Key
    BY <2>1 DEF Inv, TypeOK
  <2>4. OneGroup'
    BY <2>2, <2>3 DEF OneGroup
  <2>5. QED
    BY <2>1, <2>4 DEF InsertIsNew
<1>6. CASE GroupAgain \/ AlertInsert
  BY <1>2, <1>6 DEF GroupAgain, AlertInsert, Fails, tables
<1>7. CASE GroupUpdate
  <2>1. /\ phase = "update" /\ phase' = "idle"
        /\ groups' = IF groups[id] # None /\ asked[logs].learned
                       THEN [groups EXCEPT ![id].approved = TRUE] ELSE groups
    BY <1>7 DEF GroupUpdate, Fails
  <2>2. id \in Groups
    BY <2>1 DEF Inv, TypeOK, NoGroup
  <2>3. ASSUME NEW g \in Groups, groups'[g] # None
        PROVE  groups[g] # None /\ groups'[g].key = groups[g].key
    BY <2>1, <2>2, <2>3, AlertsAssumption DEF Inv, TypeOK, GroupType
  <2>4. QED
    BY <2>1, <2>3 DEF OneGroup, InsertIsNew
<1>8. CASE Reload \/ Restart
  BY <1>2, <1>8 DEF Reload, Restart, OneGroup, InsertIsNew, tables
<1>9. ASSUME NEW g \in Groups, DeleteGroup(g)
      PROVE  OneGroup' /\ InsertIsNew'
  <2>1. \A h \in Groups : groups'[h] # None => groups[h] # None /\ groups'[h] = groups[h]
    BY <1>9 DEF DeleteGroup, Inv, TypeOK
  <2>2. QED
    BY <1>9, <2>1 DEF DeleteGroup, OneGroup, InsertIsNew, GroupsOf, Key
<1>10. QED
  BY <1>1, <1>2, <1>3, <1>4, <1>5, <1>6, <1>7, <1>8, <1>9 DEF Next, vars, tables

\* While no statement fails, no pattern has two groups, through restarts, reloads
\* and deletions at any point of a call.
THEOREM OneGroupEach ==
    ASSUME StorageErrors = FALSE
    PROVE  Spec => []OneGroup
<1>1. Init => OneGroup /\ InsertIsNew
  BY DEF Init, OneGroup, InsertIsNew
<1>2. Inv /\ OneGroup /\ InsertIsNew /\ [Next]_vars => OneGroup' /\ InsertIsNew'
  BY OneGroupStep DEF OneInv
<1>3. QED
  BY <1>1, <1>2, Invariance, PTL DEF Spec

-----------------------------------------------------------------------------
(* What a call that nothing disturbs has done.                             *)

CalmInv ==
    calm =>
      /\ phase \in {"alert", "update"} => groups[id] # None
      /\ phase = "update" => /\ alerts[logs] # None
                             /\ alerts[logs].group = id

Recorded ==
    phase # "idle" /\ phase' = "idle" /\ calm' =>
      /\ alerts'[logs] # None
      /\ asked[logs].learned => /\ groups'[alerts'[logs].group] # None
                                /\ groups'[alerts'[logs].group].approved

LEMMA CalmStep ==
    ASSUME Inv, CalmInv, [Next]_vars
    PROVE  CalmInv' /\ [Recorded]_vars
<1>1. ASSUME NEW k \in Keys, NEW learned \in BOOLEAN, Log(k, learned)
      PROVE  CalmInv' /\ Recorded
  <2>1. CacheKey[k] \in CacheKeys
    BY DEF CacheKeys
  <2>2. phase' = "alert" /\ id' \notin gone => groups[id'] # None
    BY <1>1, <2>1 DEF Log, Inv, StaleIsRecent
  <2>3. QED
    BY <1>1, <2>2 DEF Log, CalmInv, Recorded, tables
<1>2. CASE GroupGet \/ GroupInsert \/ GroupAgain
  BY <1>2 DEF GroupGet, GroupInsert, GroupAgain, Fails, GroupsOf, CalmInv, Recorded, tables
<1>3. CASE AlertInsert
  <2>1. CASE calm'
    <3>1. /\ phase = "alert" /\ phase' = "update" /\ calm
          /\ alerts' = [alerts EXCEPT ![logs] = [group |-> id]]
          /\ UNCHANGED <<groups, id, logs>>
      BY <1>3, <2>1 DEF AlertInsert, Fails, tables
    <3>2. logs \in Logs
      BY <3>1 DEF Inv, TypeOK
    <3>3. alerts'[logs] = [group |-> id] /\ alerts'[logs] \in AlertType
      BY <3>1, <3>2 DEF Inv, TypeOK, AlertType
    <3>4. QED
      BY <3>1, <3>3, AlertsAssumption DEF CalmInv, Recorded
  <2>2. CASE ~ calm'
    BY <2>2 DEF CalmInv, Recorded
  <2>3. QED
    BY <2>1, <2>2
<1>4. CASE GroupUpdate
  <2>1. phase = "update" /\ phase' = "idle" /\ UNCHANGED <<alerts, id, logs>>
    BY <1>4 DEF GroupUpdate, Fails, tables
  <2>2. CalmInv'
    BY <2>1 DEF CalmInv
  <2>3. CASE calm' /\ asked[logs].learned
    <3>1. calm /\ groups' = IF groups[id] # None /\ asked[logs].learned
                              THEN [groups EXCEPT ![id].approved = TRUE] ELSE groups
      BY <1>4, <2>3 DEF GroupUpdate, Fails
    <3>2. id \in Groups /\ groups[id] \in GroupType
      BY <2>1, <3>1 DEF Inv, TypeOK, CalmInv, NoGroup
    <3>3. groups'[id] \in GroupType /\ groups'[id].approved
      BY <2>1, <2>3, <3>1, <3>2 DEF Inv, TypeOK, CalmInv, GroupType
    <3>4. QED
      BY <2>1, <2>2, <3>1, <3>3, AlertsAssumption DEF CalmInv, Recorded
  <2>4. CASE ~ calm' \/ ~ asked[logs].learned
    BY <1>4, <2>1, <2>2, <2>4 DEF GroupUpdate, Fails, CalmInv, Recorded
  <2>5. QED
    BY <2>3, <2>4
<1>5. CASE Reload
  BY <1>5 DEF Reload, CalmInv, Recorded, tables
<1>6. CASE Restart \/ \E g \in Groups : DeleteGroup(g)
  BY <1>6 DEF Restart, DeleteGroup, CalmInv, Recorded
<1>7. CASE UNCHANGED vars
  BY <1>7 DEF vars, tables, CalmInv
<1>8. QED
  BY <1>1, <1>2, <1>3, <1>4, <1>5, <1>6, <1>7 DEF Next

\* A call of logalert or logwhitelist that meets no failing statement, no restart and
\* no deleted group leaves its whole record.
THEOREM CallsRecorded == Spec => RecordedWhenCalm
<1>1. Init => CalmInv
  BY DEF Init, CalmInv
<1>2. Inv /\ CalmInv /\ [Next]_vars => CalmInv' /\ [Recorded]_vars
  BY CalmStep
<1>3. Spec => [][Recorded]_vars
  BY <1>1, <1>2, Invariance, PTL DEF Spec
<1>4. QED
  BY <1>3 DEF RecordedWhenCalm, Recorded
=============================================================================
