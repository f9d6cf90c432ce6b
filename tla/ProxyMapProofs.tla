--------------------------- MODULE ProxyMapProofs ---------------------------
(***************************************************************************)
(* Proofs about ProxyMap, for every set of rows and ports: no event        *)
(* outlives its proxy, a proxy listens where its object says, a reload     *)
(* adopts the selected rows and disturbs nobody else, and, when the        *)
(* storage takes every update, the status column is right.                 *)
(***************************************************************************)
EXTENDS ProxyMap, FiniteSetTheorems, WellFoundedInduction, TLAPS

\* The variables of a reload live as long as the reload, and a row that was
\* fetched and has a proxy is in new_proxies, with the proxy it was selected for.
LocalsScope ==
    /\ phase # "rows" => todo = {}
    /\ phase \notin {"rows", "sweep"} => seen = {} /\ cursor = 0

RowsTaken ==
    phase \in {"rows", "sweep"} =>
        \A id \in Loaded :
            /\ id \in seen => snap[id] # None /\ proxies[id] = snap[id]
            /\ snap[id] # None /\ id \notin todo => id \in seen

Inv ==
    /\ TypeOK
    /\ EventsOwned
    /\ ListenerMatches
    /\ LocalsScope
    /\ RowsTaken

-----------------------------------------------------------------------------
(* Helpers.                                                                *)

LEMMA LeastNat ==
    ASSUME NEW T \in SUBSET Nat, T # {}
    PROVE  \E x \in T : \A y \in T : x <= y
<1> DEFINE R == OpToRel(<, Nat)
<1>1. IsWellFoundedOn(R, Nat)
  BY NatLessThanWellFounded
<1>2. \A x, y \in Nat : <<y, x>> \in R <=> y < x
  <2>1. R = {ss \in Nat \X Nat : ss[1] < ss[2]}
    BY Zenon DEF OpToRel
  <2> HIDE DEF R
  <2>2. QED
    BY <2>1
<1> HIDE DEF R
<1>3. \E x \in T : \A y \in T : ~ (<<y, x>> \in R)
  BY <1>1, WFMin, Zenon
<1>4. PICK x \in T : \A y \in T : ~ (<<y, x>> \in R)
  BY <1>3, Zenon
<1>5. ASSUME NEW y \in T PROVE x <= y
  <2>1. x \in Nat /\ y \in Nat
    OBVIOUS
  <2>2. ~ (y < x)
    BY <1>2, <1>4, <2>1, Zenon
  <2>3. QED
    BY <2>1, <2>2
<1>6. QED
  BY <1>5

\* std::map's iterator: the key it goes to is in the map, or end() is reached.
LEMMA AfterType ==
    ASSUME NEW keys \in SUBSET Nat, NEW id
    PROVE  After(id, keys) \in {0} \cup keys
<1>1. CASE \E k \in keys : k > id
  <2> DEFINE T == {k \in keys : k > id}
  <2>1. \E x \in T : \A y \in T : x <= y
    BY <1>1, LeastNat
  <2>2. \E k \in keys : k > id /\ \A l \in keys : l > id => k <= l
    BY <2>1
  <2>3. QED
    BY <1>1, <2>2 DEF After
<1>2. CASE ~ \E k \in keys : k > id
  BY <1>2 DEF After
<1>3. QED
  BY <1>1, <1>2

LEMMA NoneDistinct ==
    None \notin Ports /\ None \notin Configs /\ None \notin Rows
BY ProxyMapAssumption

LEMMA WithStatusType ==
    ASSUME NEW t \in [Ids -> Rows \cup {None}], NEW ids, NEW s \in 0..3
    PROVE  WithStatus(t, ids, s) \in [Ids -> Rows \cup {None}]
<1>1. ASSUME NEW id \in Ids, t[id] # None
      PROVE  [t[id] EXCEPT !.status = s] \in Rows
  <2>1. t[id] \in Rows
    BY <1>1
  <2>2. QED
    BY <2>1 DEF Rows
<1>2. QED
  BY <1>1 DEF WithStatus

\* Setting a status, successfully or not, changes nothing but the row table.
LEMMA SetStatusType ==
    ASSUME TypeOK, NEW ids, NEW s \in 0..3, SetStatus(ids, s)
    PROVE  row' \in [Ids -> Rows \cup {None}] /\ UNCHANGED <<taken, edits>>
<1>1. row \in [Ids -> Rows \cup {None}]
  BY DEF TypeOK
<1>2. \A done : WithStatus(row, done, s) \in [Ids -> Rows \cup {None}]
  BY <1>1, WithStatusType
<1>3. QED
  BY <1>2 DEF SetStatus

LEMMA CloseEffect ==
    ASSUME TypeOK, NEW ids, Close(ids)
    PROVE  /\ row' \in [Ids -> Rows \cup {None}] /\ UNCHANGED <<taken, edits>>
           /\ listener' \in [Ids -> Ports \cup {None}]
           /\ conns' \in [Ids -> 0..MaxConns]
           /\ \A id \in Ids :
                IF id \in ids THEN listener'[id] = None /\ conns'[id] = 0
                ELSE listener'[id] = listener[id] /\ conns'[id] = conns[id]
<1>1. Reload \in 0..3 /\ SetStatus(ids, Reload)
  BY DEF Reload, Close
<1>2. row' \in [Ids -> Rows \cup {None}] /\ UNCHANGED <<taken, edits>>
  BY <1>1, SetStatusType
<1>3. 0 \in 0..MaxConns
  BY ProxyMapAssumption
<1>4. QED
  BY <1>2, <1>3 DEF Close, TypeOK

LEMMA InitInv == Init => Inv
<1> SUFFICES ASSUME Init PROVE Inv
  OBVIOUS
<1>1. 0 \in 0..MaxConns /\ 0 \in 0..MaxEdits /\ 0 \in 0..ReloadEvery-1
  BY ProxyMapAssumption
<1>2. TypeOK
  BY <1>1 DEF Init, TypeOK, Loaded
<1>3. EventsOwned /\ ListenerMatches /\ LocalsScope /\ RowsTaken
  BY DEF Init, EventsOwned, ListenerMatches, LocalsScope, RowsTaken, Loaded
<1>4. QED
  BY <1>2, <1>3 DEF Inv

-----------------------------------------------------------------------------
(* The steps.                                                              *)

\* q_proxy: a new result, with every selected row still to be fetched.
LEMMA SelectEffect ==
    ASSUME TypeOK, Select
    PROVE  /\ phase' = "rows"
           /\ snap' \in [Ids -> Configs \cup {None}]
           /\ todo' = {id \in Ids : snap'[id] # None}
           /\ UNCHANGED <<seen, nulls, cursor>>
<1>1. \A id \in Ids : row[id] # None => row[id].config \in Configs
  BY DEF TypeOK, Rows
<1>2. QED
  BY <1>1 DEF Select

LEMMA StartReload ==
    ASSUME Inv, Select \/ SelectFails, phase \in {"start", "loop"},
           counter' \in 0..ReloadEvery-1,
           UNCHANGED <<storage, running, booting, timer, proxies, events>>
    PROVE  Inv'
<1>1. UNCHANGED <<row, taken, edits, running, booting, timer, proxies, listener,
                  conns, Loaded>>
  BY DEF storage, events, Loaded
<1>2. CASE Select
  <2>1. /\ phase' = "rows"
        /\ snap' \in [Ids -> Configs \cup {None}]
        /\ todo' = {id \in Ids : snap'[id] # None}
        /\ UNCHANGED <<seen, nulls, cursor>>
    BY <1>2, SelectEffect DEF Inv
  <2>2. TypeOK'
    BY <1>1, <2>1 DEF Inv, TypeOK
  <2>3. (EventsOwned /\ ListenerMatches)'
    BY <1>1 DEF Inv, EventsOwned, ListenerMatches
  <2>4. seen = {} /\ LocalsScope'
    BY <2>1 DEF Inv, LocalsScope
  <2>5. RowsTaken'
    BY <1>1, <2>1, <2>4 DEF RowsTaken, Loaded
  <2>6. QED
    BY <2>2, <2>3, <2>4, <2>5 DEF Inv
<1>3. CASE SelectFails
  <2>1. phase' \in {"exited", "loop"} /\ UNCHANGED <<snap, todo, seen, nulls, cursor>>
    BY <1>3 DEF SelectFails, locals
  <2>2. TypeOK'
    BY <1>1, <2>1 DEF Inv, TypeOK
  <2>3. (EventsOwned /\ ListenerMatches /\ LocalsScope /\ RowsTaken)'
    BY <1>1, <2>1 DEF Inv, EventsOwned, ListenerMatches, LocalsScope, RowsTaken
  <2>4. QED
    BY <2>2, <2>3 DEF Inv
<1>4. QED
  BY <1>2, <1>3

LEMMA TickInv ==
    ASSUME Inv, Tick
    PROVE  Inv'
<1>1. counter' \in 0..ReloadEvery-1
  BY ProxyMapAssumption DEF Inv, TypeOK, Tick
<1>2. /\ phase = "loop"
      /\ UNCHANGED <<storage, running, booting, timer, proxies, events>>
  BY DEF Tick
<1>3. CASE counter' = 0
  BY <1>1, <1>2, <1>3, StartReload DEF Tick
<1>4. CASE counter' # 0
  <2>1. UNCHANGED <<row, taken, edits, running, booting, timer, phase, proxies,
                    listener, conns, snap, todo, seen, nulls, cursor>>
    BY <1>2, <1>4 DEF Tick, storage, events, locals
  <2>2. QED
    BY <1>1, <2>1 DEF Inv, TypeOK, EventsOwned, ListenerMatches, LocalsScope,
                      RowsTaken, Loaded
<1>5. QED
  BY <1>3, <1>4

\* Every proxy is closed and erased.
LEMMA ProxymapCloseInv ==
    ASSUME Inv, ProxymapClose, phase = "loop", phase' \in {"loop", "exited"},
           timer' \in BOOLEAN, UNCHANGED <<running, booting, counter, locals>>
    PROVE  Inv'
<1>1. /\ row' \in [Ids -> Rows \cup {None}] /\ UNCHANGED <<taken, edits>>
      /\ listener' \in [Ids -> Ports \cup {None}]
      /\ conns' \in [Ids -> 0..MaxConns]
      /\ \A id \in Ids :
           IF id \in Loaded THEN listener'[id] = None /\ conns'[id] = 0
           ELSE listener'[id] = listener[id] /\ conns'[id] = conns[id]
  BY CloseEffect DEF ProxymapClose, Inv
<1>2. proxies' = [id \in Ids |-> None] /\ UNCHANGED <<snap, todo, seen, nulls, cursor>>
  BY DEF ProxymapClose, locals
<1>3. seen = {} /\ cursor = 0 /\ todo = {}
  BY DEF Inv, LocalsScope
<1>4. TypeOK'
  BY <1>1, <1>2, <1>3 DEF Inv, TypeOK, Loaded
<1>5. EventsOwned'
  <2>1. \A id \in Ids : listener'[id] = None /\ conns'[id] = 0
    BY <1>1 DEF Inv, EventsOwned, Loaded, TypeOK
  <2>2. QED
    BY <2>1 DEF EventsOwned
<1>6. (ListenerMatches /\ LocalsScope /\ RowsTaken)'
  BY <1>2, <1>3 DEF ListenerMatches, LocalsScope, RowsTaken, Loaded
<1>7. QED
  BY <1>4, <1>5, <1>6 DEF Inv

\* One row: the proxy of id is created or altered, nobody else is touched.
LEMMA NewProxyEffect ==
    ASSUME Inv, NEW id \in todo, NewProxy(id)
    PROVE  /\ row' \in [Ids -> Rows \cup {None}] /\ UNCHANGED <<taken, edits>>
           /\ \/ /\ proxies' = [proxies EXCEPT ![id] = snap[id]]
                 /\ listener' = [listener EXCEPT ![id] = snap[id].port]
                 /\ seen' = seen \cup {id}
              \/ /\ UNCHANGED <<proxies, listener, seen>>
                 /\ proxies[id] = None
<1>1. CASE CanBind(id, snap[id].port)
  <2>1. SetStatus({id}, Good) /\ Good \in 0..3
    BY <1>1 DEF NewProxy, Good
  <2>2. row' \in [Ids -> Rows \cup {None}] /\ UNCHANGED <<taken, edits>>
    BY <2>1, SetStatusType DEF Inv
  <2>3. QED
    BY <1>1, <2>2 DEF NewProxy
<1>2. CASE ~CanBind(id, snap[id].port)
  <2>1. PICK failed, closed \in Stored({id}) :
          row' = WithStatus(WithStatus(row, failed, Failed), closed, Reload)
    BY <1>2 DEF NewProxy
  <2>2. Failed \in 0..3 /\ Reload \in 0..3 /\ row \in [Ids -> Rows \cup {None}]
    BY DEF Failed, Reload, Inv, TypeOK
  <2>3. WithStatus(row, failed, Failed) \in [Ids -> Rows \cup {None}]
    BY <2>2, WithStatusType
  <2>4. row' \in [Ids -> Rows \cup {None}]
    BY <2>1, <2>2, <2>3, WithStatusType
  <2>5. QED
    BY <1>2, <2>4 DEF NewProxy
<1>3. QED
  BY <1>1, <1>2

LEMMA KnownProxyEffect ==
    ASSUME Inv, NEW id \in todo, KnownProxy(id)
    PROVE  /\ row' \in [Ids -> Rows \cup {None}] /\ UNCHANGED <<taken, edits>>
           /\ proxies' = [proxies EXCEPT ![id] = snap[id]]
           /\ seen' = seen \cup {id}
           /\ proxies[id] # None
           /\ \/ listener' = [listener EXCEPT ![id] = snap[id].port]
              \/ listener' = [listener EXCEPT ![id] = None]
              \/ /\ UNCHANGED listener
                 /\ proxies[id].port = snap[id].port
           /\ proxies[id] = snap[id] => UNCHANGED listener
<1>1. CASE Altered(id)
  <2>1. /\ proxies' = [proxies EXCEPT ![id] = snap[id]]
        /\ \/ /\ listener' = [listener EXCEPT ![id] = snap[id].port]
              /\ SetStatus({id}, Good)
           \/ /\ listener' = [listener EXCEPT ![id] = None]
              /\ SetStatus({id}, Failed)
    BY <1>1 DEF KnownProxy, ReInit
  <2>2. Good \in 0..3 /\ Failed \in 0..3
    BY DEF Good, Failed
  <2>3. row' \in [Ids -> Rows \cup {None}] /\ UNCHANGED <<taken, edits>>
    BY <2>1, <2>2, SetStatusType DEF Inv
  <2>4. proxies[id] # snap[id]
    BY <1>1 DEF Altered
  <2>5. QED
    BY <2>1, <2>3, <2>4 DEF KnownProxy
<1>2. CASE ~Altered(id)
  <2>1. /\ proxies' = [proxies EXCEPT ![id] = snap[id]]
        /\ SetStatus({id}, Good) /\ UNCHANGED listener
    BY <1>2 DEF KnownProxy
  <2>2. Good \in 0..3
    BY DEF Good
  <2>3. row' \in [Ids -> Rows \cup {None}] /\ UNCHANGED <<taken, edits>>
    BY <2>1, <2>2, SetStatusType DEF Inv
  <2>4. proxies[id].port = snap[id].port
    BY <1>2 DEF Altered
  <2>5. QED
    BY <2>1, <2>3, <2>4 DEF KnownProxy
<1>3. QED
  BY <1>1, <1>2

LEMMA FetchRowInv ==
    ASSUME Inv, FetchRow
    PROVE  Inv'
<1>1. PICK id \in todo : /\ NewProxy(id) \/ KnownProxy(id)
                         /\ todo' = todo \ {id}
  BY DEF FetchRow
<1>2. /\ phase = "rows"
      /\ UNCHANGED <<running, phase, booting, timer, counter, conns, snap, nulls, cursor>>
  BY DEF FetchRow, process
<1>3. id \in Ids /\ snap[id] # None /\ snap[id] \in Configs /\ snap[id].port \in Ports
  BY DEF Inv, TypeOK, Configs
<1>4. /\ row' \in [Ids -> Rows \cup {None}] /\ UNCHANGED <<taken, edits>>
      /\ \/ /\ proxies' = [proxies EXCEPT ![id] = snap[id]]
            /\ seen' = seen \cup {id}
            /\ \/ listener' = [listener EXCEPT ![id] = snap[id].port]
               \/ listener' = [listener EXCEPT ![id] = None]
               \/ /\ UNCHANGED listener
                  /\ proxies[id] # None
                  /\ proxies[id].port = snap[id].port
         \/ /\ UNCHANGED <<proxies, listener, seen>>
            /\ proxies[id] = None
  BY <1>1, NewProxyEffect, KnownProxyEffect
<1>5. CASE /\ proxies' = [proxies EXCEPT ![id] = snap[id]]
           /\ seen' = seen \cup {id}
           /\ \/ listener' = [listener EXCEPT ![id] = snap[id].port]
              \/ listener' = [listener EXCEPT ![id] = None]
              \/ /\ UNCHANGED listener
                 /\ proxies[id] # None
                 /\ proxies[id].port = snap[id].port
  <2>1. proxies \in [Ids -> Configs \cup {None}] /\ listener \in [Ids -> Ports \cup {None}]
    BY DEF Inv, TypeOK
  <2>2. /\ proxies' \in [Ids -> Configs \cup {None}] /\ proxies'[id] = snap[id]
        /\ \A i \in Ids \ {id} : proxies'[i] = proxies[i]
        /\ Loaded' = Loaded \cup {id}
    BY <1>3, <1>5, <2>1 DEF Loaded
  <2>3. /\ listener' \in [Ids -> Ports \cup {None}]
        /\ \A i \in Ids \ {id} : listener'[i] = listener[i]
    BY <1>3, <1>5, <2>1
  <2>4. listener'[id] # None => listener'[id] = snap[id].port
    <3>1. proxies[id] # None => id \in Loaded
      BY <1>3 DEF Loaded
    <3>2. QED
      BY <1>3, <1>5, <2>1, <3>1 DEF Inv, ListenerMatches
  <2>5. TypeOK'
    BY <1>1, <1>2, <1>4, <1>5, <2>2, <2>3 DEF Inv, TypeOK
  <2>6. EventsOwned'
    BY <1>2, <1>3, <2>2, <2>3 DEF Inv, EventsOwned
  <2>7. ListenerMatches'
    <3>1. SUFFICES ASSUME NEW i \in Loaded', listener'[i] # None
                   PROVE  listener'[i] = proxies'[i].port
      BY Zenon DEF ListenerMatches
    <3>2. CASE i = id
      BY <2>2, <2>4, <3>1, <3>2
    <3>3. CASE i # id
      <4>1. i \in Loaded /\ i \in Ids \ {id}
        BY <2>2, <3>1, <3>3 DEF Loaded
      <4>2. listener[i] # None => listener[i] = proxies[i].port
        BY <4>1, Zenon DEF Inv, ListenerMatches
      <4>3. QED
        BY <2>2, <2>3, <3>1, <4>1, <4>2
    <3>4. QED
      BY <3>2, <3>3
  <2>8. LocalsScope'
    BY <1>2 DEF LocalsScope
  <2>9. RowsTaken'
    <3>1. SUFFICES ASSUME NEW i \in Loaded'
                   PROVE  /\ i \in seen' => snap'[i] # None /\ proxies'[i] = snap'[i]
                          /\ snap'[i] # None /\ i \notin todo' => i \in seen'
      BY Zenon DEF RowsTaken
    <3>2. CASE i = id
      BY <1>2, <1>3, <1>5, <2>2, <3>2
    <3>3. CASE i # id
      <4>1. i \in Loaded /\ i \in Ids \ {id}
        BY <2>2, <3>1, <3>3 DEF Loaded
      <4>2. proxies'[i] = proxies[i] /\ snap'[i] = snap[i]
        BY <1>2, <2>2, <4>1
      <4>3. (i \in seen' <=> i \in seen) /\ (i \in todo' <=> i \in todo)
        BY <1>1, <1>5, <3>3
      <4>4. /\ i \in seen => snap[i] # None /\ proxies[i] = snap[i]
            /\ snap[i] # None /\ i \notin todo => i \in seen
        BY <1>2, <4>1 DEF Inv, RowsTaken
      <4>5. QED
        BY <4>2, <4>3, <4>4
    <3>4. QED
      BY <3>2, <3>3
  <2>10. QED
    BY <2>5, <2>6, <2>7, <2>8, <2>9 DEF Inv
<1>6. CASE UNCHANGED <<proxies, listener, seen>> /\ proxies[id] = None
  <2>1. UNCHANGED Loaded /\ id \notin Loaded
    BY <1>6 DEF Loaded
  <2>2. TypeOK'
    BY <1>1, <1>2, <1>4, <1>6, <2>1 DEF Inv, TypeOK
  <2>3. (EventsOwned /\ ListenerMatches)'
    BY <1>2, <1>6, <2>1 DEF Inv, EventsOwned, ListenerMatches
  <2>4. LocalsScope'
    BY <1>2 DEF LocalsScope
  <2>5. RowsTaken'
    BY <1>1, <1>2, <1>6, <2>1 DEF Inv, RowsTaken
  <2>6. QED
    BY <2>2, <2>3, <2>4, <2>5 DEF Inv
<1>7. QED
  BY <1>4, <1>5, <1>6

LEMMA RowsDoneInv ==
    ASSUME Inv, RowsDone
    PROVE  Inv'
<1>1. /\ phase = "rows" /\ phase' = "sweep" /\ todo = {}
      /\ cursor' = After(0, Loaded)
      /\ UNCHANGED <<row, taken, edits, running, booting, timer, counter, proxies,
                     listener, conns, snap, todo, seen, nulls>>
  BY DEF RowsDone, storage, events
<1>2. UNCHANGED Loaded
  BY <1>1 DEF Loaded
<1>3. cursor' \in {0} \cup Loaded
  BY <1>1, AfterType, ProxyMapAssumption DEF Loaded
<1>4. TypeOK'
  BY <1>1, <1>2, <1>3 DEF Inv, TypeOK
<1>5. (EventsOwned /\ ListenerMatches /\ LocalsScope /\ RowsTaken)'
  BY <1>1, <1>2 DEF Inv, EventsOwned, ListenerMatches, LocalsScope, RowsTaken
<1>6. QED
  BY <1>4, <1>5 DEF Inv

LEMMA StopTickInv ==
    ASSUME Inv, StopTick
    PROVE  Inv'
<1>1. /\ ProxymapClose /\ phase = "loop" /\ phase' \in {"loop", "exited"}
      /\ timer' \in BOOLEAN /\ UNCHANGED <<running, booting, counter, locals>>
  BY DEF StopTick
<1>2. QED
  BY <1>1, ProxymapCloseInv

LEMMA ExitInv ==
    ASSUME Inv, Exit
    PROVE  Inv'
<1>1. /\ ProxymapClose /\ phase = "loop" /\ phase' \in {"loop", "exited"}
      /\ timer' \in BOOLEAN /\ UNCHANGED <<running, booting, counter, locals>>
  BY DEF Exit, Inv, TypeOK
<1>2. QED
  BY <1>1, ProxymapCloseInv

LEMMA BootInv ==
    ASSUME Inv, Boot
    PROVE  Inv'
<1>1. counter' \in 0..ReloadEvery-1
  BY DEF Inv, TypeOK, Boot
<1>2. /\ Select \/ SelectFails
      /\ phase \in {"start", "loop"}
      /\ UNCHANGED <<storage, running, booting, timer, proxies, events>>
  BY DEF Boot
<1>3. QED
  BY <1>1, <1>2, StartReload

\* Erasing the proxy of a row that is not in new_proxies: its events are gone, and
\* what the invariant says of the others is as before.
LEMMA SweepRemovesInv ==
    ASSUME Inv, phase = "sweep", cursor # 0, SweepRemoves(cursor),
           UNCHANGED <<process, snap, todo, seen>>
    PROVE  Inv'
<1>1. UNCHANGED <<running, phase, booting, timer, counter, snap, todo, seen>>
  BY DEF process
<1>2. cursor \in Loaded /\ cursor \in Ids /\ cursor \notin seen
  BY DEF SweepRemoves, Inv, TypeOK, Loaded
<1>3. /\ row' \in [Ids -> Rows \cup {None}] /\ UNCHANGED <<taken, edits>>
      /\ listener' \in [Ids -> Ports \cup {None}]
      /\ conns' \in [Ids -> 0..MaxConns]
      /\ \A id \in Ids :
           IF id \in {cursor} THEN listener'[id] = None /\ conns'[id] = 0
           ELSE listener'[id] = listener[id] /\ conns'[id] = conns[id]
  BY CloseEffect DEF SweepRemoves, Inv
<1>4. /\ proxies' = [proxies EXCEPT ![cursor] = None]
      /\ nulls' = nulls \cup {cursor}
      /\ cursor' \in {0} \cup (Loaded \ {cursor})
  BY DEF SweepRemoves
<1>5. proxies \in [Ids -> Configs \cup {None}]
  BY DEF Inv, TypeOK
<1>6. /\ proxies' \in [Ids -> Configs \cup {None}] /\ proxies'[cursor] = None
      /\ \A i \in Ids \ {cursor} : proxies'[i] = proxies[i]
  BY <1>2, <1>4, <1>5
<1>7. Loaded' = Loaded \ {cursor}
  BY <1>2, <1>6 DEF Loaded
<1>8. TypeOK'
  BY <1>1, <1>2, <1>3, <1>4, <1>6, <1>7 DEF Inv, TypeOK
<1>9. EventsOwned'
  BY <1>2, <1>3, <1>6 DEF Inv, EventsOwned
<1>10. ListenerMatches'
  BY <1>3, <1>6, <1>7 DEF Inv, ListenerMatches, Loaded
<1>11. LocalsScope'
  BY <1>1 DEF Inv, LocalsScope
<1>12. RowsTaken'
  BY <1>1, <1>6, <1>7 DEF Inv, RowsTaken, Loaded
<1>13. QED
  BY <1>8, <1>9, <1>10, <1>11, <1>12 DEF Inv

LEMMA SweepInv ==
    ASSUME Inv, Sweep
    PROVE  Inv'
<1>1. phase = "sweep" /\ cursor # 0 /\ cursor \in Loaded /\ cursor \in Ids
  BY DEF Sweep, Inv, TypeOK, Loaded
<1>2. After(cursor, Loaded) \in {0} \cup Loaded
  BY AfterType, ProxyMapAssumption DEF Loaded
<1>3. CASE SweepKeeps(cursor) /\ UNCHANGED <<process, snap, todo, seen>>
  <2>1. /\ cursor' \in {0} \cup Loaded
        /\ UNCHANGED <<row, taken, edits, running, phase, booting, timer, counter,
                       proxies, listener, conns, snap, todo, seen, nulls, Loaded>>
    BY <1>2, <1>3 DEF SweepKeeps, storage, process, events, Loaded
  <2>2. TypeOK'
    BY <2>1 DEF Inv, TypeOK
  <2>3. (EventsOwned /\ ListenerMatches /\ LocalsScope /\ RowsTaken)'
    BY <1>1, <2>1 DEF Inv, EventsOwned, ListenerMatches, LocalsScope, RowsTaken
  <2>4. QED
    BY <2>2, <2>3 DEF Inv
<1>4. CASE SweepRetires(cursor) /\ UNCHANGED <<process, snap, todo, seen>>
  <2>1. /\ cursor' \in {0} \cup Loaded
        /\ nulls' = nulls \cup {cursor}
        /\ listener' = [listener EXCEPT ![cursor] = None]
        /\ UNCHANGED <<row, taken, edits, running, phase, booting, timer, counter,
                       proxies, conns, snap, todo, seen, Loaded>>
    BY <1>2, <1>4 DEF SweepRetires, storage, process, Loaded
  <2>2. TypeOK'
    BY <1>1, <2>1 DEF Inv, TypeOK
  <2>3. \A id \in Ids : listener'[id] # None => listener'[id] = listener[id]
    BY <1>1, <2>1 DEF Inv, TypeOK
  <2>4. EventsOwned'
    BY <2>1, <2>3 DEF Inv, EventsOwned
  <2>5. ListenerMatches'
    BY <2>1, <2>3 DEF Inv, ListenerMatches, Loaded
  <2>6. (LocalsScope /\ RowsTaken)'
    BY <1>1, <2>1 DEF Inv, LocalsScope, RowsTaken
  <2>7. QED
    BY <2>2, <2>4, <2>5, <2>6 DEF Inv
<1>5. CASE SweepRemoves(cursor) /\ UNCHANGED <<process, snap, todo, seen>>
  BY <1>1, <1>5, SweepRemovesInv
<1>6. CASE SweepCrashes(cursor)
  <2>1. Reload \in 0..3 /\ SetStatus({cursor}, Reload)
    BY <1>6 DEF Reload, SweepCrashes
  <2>2. row' \in [Ids -> Rows \cup {None}] /\ UNCHANGED <<taken, edits>>
    BY <2>1, SetStatusType DEF Inv
  <2>3. /\ phase' = "crashed"
        /\ proxies' = [i \in Ids |-> None]
        /\ listener' = [i \in Ids |-> None]
        /\ conns' = [i \in Ids |-> 0]
        /\ snap' = [i \in Ids |-> None]
        /\ seen' = {} /\ nulls' = {} /\ cursor' = 0
        /\ UNCHANGED <<running, booting, timer, counter, todo>>
    BY <1>6 DEF SweepCrashes, LocalsGone
  <2>4. todo = {} /\ 0 \in 0..MaxConns
    BY <1>1, ProxyMapAssumption DEF Inv, LocalsScope
  <2>5. TypeOK'
    BY <2>2, <2>3, <2>4 DEF Inv, TypeOK
  <2>6. (EventsOwned /\ ListenerMatches /\ LocalsScope /\ RowsTaken)'
    BY <2>3, <2>4 DEF EventsOwned, ListenerMatches, LocalsScope, RowsTaken, Loaded
  <2>7. QED
    BY <2>5, <2>6 DEF Inv
<1>7. QED
  BY <1>3, <1>4, <1>5, <1>6 DEF Sweep

LEMMA SweepDoneInv ==
    ASSUME Inv, SweepDone
    PROVE  Inv'
<1>1. /\ phase = "sweep" /\ phase' \in {"exited", "loop"}
      /\ booting' = FALSE
      /\ snap' = [i \in Ids |-> None]
      /\ seen' = {} /\ nulls' = {} /\ cursor' = 0
      /\ UNCHANGED <<row, taken, edits, running, timer, counter, proxies, listener,
                     conns, todo, Loaded>>
  BY DEF SweepDone, LocalsGone, storage, events, Loaded
<1>2. todo = {}
  BY <1>1 DEF Inv, LocalsScope
<1>3. TypeOK'
  BY <1>1, <1>2 DEF Inv, TypeOK
<1>4. (EventsOwned /\ ListenerMatches /\ LocalsScope /\ RowsTaken)'
  BY <1>1, <1>2 DEF Inv, EventsOwned, ListenerMatches, LocalsScope, RowsTaken
<1>5. QED
  BY <1>3, <1>4 DEF Inv

LEMMA CallbackInv ==
    ASSUME Inv, Callback
    PROVE  Inv'
<1>1. PICK id \in Ids : Accept(id) \/ ConnectionEnds(id) \/ StopCallback(id)
  BY DEF Callback
<1>2. /\ phase = "loop"
      /\ UNCHANGED <<running, phase, booting, timer, counter, proxies, snap, todo, seen,
                     nulls, cursor, Loaded>>
  BY DEF Callback, process, locals, Loaded
<1>3. /\ row' \in [Ids -> Rows \cup {None}] /\ UNCHANGED <<taken, edits>>
      /\ listener' \in [Ids -> Ports \cup {None}]
      /\ conns' \in [Ids -> 0..MaxConns]
      /\ \A i \in Ids :
           /\ listener'[i] # None => listener'[i] = listener[i]
           /\ conns'[i] > 0 => conns[i] > 0 \/ listener[i] # None
  <2>1. CASE Accept(id)
    <3>1. /\ conns' = [conns EXCEPT ![id] = conns[id] + 1]
          /\ listener[id] # None /\ conns[id] < MaxConns
          /\ UNCHANGED <<row, taken, edits, listener>>
      BY <2>1 DEF Accept, storage
    <3>2. conns[id] + 1 \in 0..MaxConns
      BY <3>1, ProxyMapAssumption DEF Inv, TypeOK
    <3>3. QED
      BY <3>1, <3>2 DEF Inv, TypeOK
  <2>2. CASE ConnectionEnds(id)
    <3>1. /\ conns' = [conns EXCEPT ![id] = conns[id] - 1] /\ conns[id] > 0
          /\ UNCHANGED <<row, taken, edits, listener>>
      BY <2>2 DEF ConnectionEnds, storage
    <3>2. conns[id] - 1 \in 0..MaxConns
      BY <3>1, ProxyMapAssumption DEF Inv, TypeOK
    <3>3. QED
      BY <3>1, <3>2 DEF Inv, TypeOK
  <2>3. CASE StopCallback(id)
    <3>1. Close({id})
      BY <2>3 DEF StopCallback
    <3>2. QED
      BY <3>1, CloseEffect DEF Inv
  <2>4. QED
    BY <1>1, <2>1, <2>2, <2>3
<1>4. TypeOK'
  BY <1>2, <1>3 DEF Inv, TypeOK
<1>5. EventsOwned'
  BY <1>2, <1>3 DEF Inv, EventsOwned
<1>6. ListenerMatches'
  BY <1>2, <1>3 DEF Inv, ListenerMatches, Loaded
<1>7. (LocalsScope /\ RowsTaken)'
  BY <1>2 DEF Inv, LocalsScope, RowsTaken
<1>8. QED
  BY <1>4, <1>5, <1>6, <1>7 DEF Inv

LEMMA EnvironmentInv ==
    ASSUME Inv, Killer \/ AdminEdit \/ OtherProgram
    PROVE  Inv'
<1>1. /\ row' \in [Ids -> Rows \cup {None}] /\ taken' \subseteq Ports
      /\ edits' \in 0..MaxEdits /\ running' \in BOOLEAN
      /\ UNCHANGED <<phase, booting, timer, counter, proxies, listener, conns, snap,
                     todo, seen, nulls, cursor, Loaded>>
  <2>1. CASE Killer
    BY <2>1 DEF Killer, Inv, TypeOK, storage, events, locals, Loaded
  <2>2. CASE AdminEdit
    <3>1. PICK id \in Ids, r \in {None} \cup [status : {Reload, Disabled}, config : Configs] :
            row' = [row EXCEPT ![id] = r]
      BY <2>2 DEF AdminEdit
    <3>2. r \in Rows \cup {None}
      BY DEF Rows, Reload, Disabled
    <3>3. row' \in [Ids -> Rows \cup {None}]
      BY <3>1, <3>2 DEF Inv, TypeOK
    <3>4. edits' \in 0..MaxEdits
      BY <2>2, ProxyMapAssumption DEF AdminEdit, Inv, TypeOK
    <3>5. QED
      BY <2>2, <3>3, <3>4 DEF AdminEdit, Inv, TypeOK, process, events, locals, Loaded
  <2>3. CASE OtherProgram
    <3>1. edits' \in 0..MaxEdits
      BY <2>3, ProxyMapAssumption DEF OtherProgram, Inv, TypeOK
    <3>2. taken' \subseteq Ports
      BY <2>3 DEF OtherProgram, Inv, TypeOK
    <3>3. QED
      BY <2>3, <3>1, <3>2 DEF OtherProgram, Inv, TypeOK, process, events, locals, Loaded
  <2>4. QED
    BY <2>1, <2>2, <2>3
<1>2. TypeOK'
  BY <1>1 DEF Inv, TypeOK
<1>3. (EventsOwned /\ ListenerMatches /\ LocalsScope /\ RowsTaken)'
  BY <1>1 DEF Inv, EventsOwned, ListenerMatches, LocalsScope, RowsTaken
<1>4. QED
  BY <1>2, <1>3 DEF Inv

LEMMA NextInv ==
    ASSUME Inv, [Next]_vars
    PROVE  Inv'
<1>1. CASE UNCHANGED vars
  BY <1>1 DEF vars, storage, process, events, locals, Inv, TypeOK, EventsOwned,
              ListenerMatches, LocalsScope, RowsTaken, Loaded
<1>2. CASE Next
  BY <1>2, BootInv, TickInv, StopTickInv, ExitInv, FetchRowInv, RowsDoneInv, SweepInv,
     SweepDoneInv, CallbackInv, EnvironmentInv, Zenon DEF Next
<1>3. QED
  BY <1>1, <1>2

LEMMA Invariance == Spec => []Inv
<1>1. Init => Inv
  BY InitInv
<1>2. Inv /\ [Next]_vars => Inv'
  BY NextInv
<1>3. QED
  BY <1>1, <1>2, PTL DEF Spec

-----------------------------------------------------------------------------
(* What follows.                                                           *)

\* Every variable of the reload and of the event loop keeps its type: the sweep's
\* iterator in particular never holds a key that was erased from the map.
THEOREM TypeCorrect == Spec => []TypeOK
<1>1. Inv => TypeOK
  BY DEF Inv
<1>2. QED
  BY <1>1, Invariance, PTL

\* No event is registered for a proxy that is not in the map: the callbacks'
\* proxy_map[...] (proxymap.cpp:29, 57, 80) always finds an object.
THEOREM EventsAreOwned == Spec => []EventsOwned
<1>1. Inv => EventsOwned
  BY DEF Inv
<1>2. QED
  BY <1>1, Invariance, PTL

\* A registered listener is on the port that its Proxy object records, failed
\* reconfigurations included.
THEOREM ListenersMatch == Spec => []ListenerMatches
<1>1. Inv => ListenerMatches
  BY DEF Inv
<1>2. QED
  BY <1>1, Invariance, PTL

\* The map of proxies and the registered events agree at every step.
THEOREM EventsAgree == Spec => []EventsMatch
BY EventsAreOwned, ListenersMatch, PTL DEF EventsMatch

\* When the sweep runs, the proxies it may remove are exactly those whose row was
\* not selected, and the others have taken over the row.
THEOREM ReloadAdoptsAlways == Spec => []ReloadAdopts
<1>1. Inv => ReloadAdopts
  <2> SUFFICES ASSUME Inv, phase = "sweep", NEW id \in Loaded
               PROVE  /\ id \in seen <=> snap[id] # None
                      /\ id \in seen => proxies[id] = snap[id]
    BY DEF ReloadAdopts
  <2>1. id \notin todo
    BY DEF Inv, LocalsScope
  <2>2. QED
    BY <2>1 DEF Inv, RowsTaken
<1>2. QED
  BY <1>1, Invariance, PTL

LEMMA FetchIsQuiet ==
    ASSUME Inv, FetchRow
    PROVE  Undisturbed
<1>1. PICK id \in todo : NewProxy(id) \/ KnownProxy(id)
  BY DEF FetchRow
<1>2. conns' = conns
  BY DEF FetchRow
<1>3. listener \in [Ids -> Ports \cup {None}] /\ id \in Ids /\ snap[id] # None
  BY DEF Inv, TypeOK
<1>4. ASSUME NEW i \in Loaded, snap[i] = proxies[i]
      PROVE  listener'[i] = listener[i]
  <2>1. i \in Ids /\ proxies[i] # None
    BY DEF Loaded
  <2>2. CASE NewProxy(id)
    <3>1. proxies[id] = None
      BY <2>2 DEF NewProxy
    <3>2. \/ listener' = [listener EXCEPT ![id] = snap[id].port]
          \/ UNCHANGED listener
      BY <2>2, NewProxyEffect
    <3>3. i # id
      BY <2>1, <3>1
    <3>4. QED
      BY <1>3, <2>1, <3>2, <3>3
  <2>3. CASE KnownProxy(id)
    <3>1. /\ \/ listener' = [listener EXCEPT ![id] = snap[id].port]
             \/ listener' = [listener EXCEPT ![id] = None]
             \/ UNCHANGED listener
          /\ proxies[id] = snap[id] => UNCHANGED listener
      BY <2>3, KnownProxyEffect
    <3>2. QED
      BY <1>3, <1>4, <2>1, <3>1
  <2>4. QED
    BY <1>1, <2>2, <2>3
<1>5. QED
  BY <1>2, <1>4 DEF Undisturbed

\* The sweep touches only the proxy at its iterator, whose row was not selected.
LEMMA SweepIsQuiet ==
    ASSUME Inv, Sweep, phase' # "crashed"
    PROVE  Undisturbed
<1>1. SweepKeeps(cursor) \/ SweepRetires(cursor) \/ SweepRemoves(cursor)
  BY DEF Sweep, SweepCrashes
<1>2. phase = "sweep" /\ todo = {} /\ cursor \in Loaded
  BY DEF Sweep, Inv, TypeOK, LocalsScope
<1>3. cursor \notin seen => snap[cursor] = None
  BY <1>2 DEF Inv, RowsTaken
<1>4. proxies[cursor] # None /\ cursor \in Ids
  BY <1>2 DEF Loaded
<1>5. CASE SweepKeeps(cursor)
  BY <1>5 DEF SweepKeeps, events, Undisturbed
<1>6. CASE SweepRetires(cursor)
  <2>1. /\ conns' = conns /\ cursor \notin seen
        /\ listener' = [listener EXCEPT ![cursor] = None]
    BY <1>6 DEF SweepRetires
  <2>2. QED
    BY <1>3, <1>4, <2>1 DEF Undisturbed, Inv, TypeOK, Loaded
<1>7. CASE SweepRemoves(cursor)
  <2>1. Close({cursor}) /\ cursor \notin seen /\ conns[cursor] = 0
    BY <1>7 DEF SweepRemoves
  <2>2. /\ conns' \in [Ids -> 0..MaxConns]
        /\ \A id \in Ids :
             IF id \in {cursor} THEN listener'[id] = None /\ conns'[id] = 0
             ELSE listener'[id] = listener[id] /\ conns'[id] = conns[id]
    BY <2>1, CloseEffect DEF Inv
  <2>3. conns \in [Ids -> 0..MaxConns]
    BY DEF Inv, TypeOK
  <2>4. \A id \in Ids : conns'[id] = conns[id]
    BY <2>1, <2>2
  <2>5. conns' = conns
    BY <2>2, <2>3, <2>4
  <2>6. \A id \in Loaded : snap[id] = proxies[id] => listener'[id] = listener[id]
    BY <1>3, <1>4, <2>1, <2>2 DEF Loaded
  <2>7. QED
    BY <2>5, <2>6 DEF Undisturbed
<1>8. QED
  BY <1>1, <1>5, <1>6, <1>7

\* A reload ends no connection and leaves the listener of every proxy whose row is
\* as the object has it, whatever rows fail, change or disappear around it.
THEOREM ReloadQuiet == Spec => ReloadIsQuiet
<1>1. Inv /\ [Next]_vars => [InReload => Undisturbed]_vars
  <2> SUFFICES ASSUME Inv, Next, InReload
               PROVE  Undisturbed
    OBVIOUS
  <2>1. CASE FetchRow
    BY <2>1, FetchIsQuiet
  <2>2. CASE Sweep
    BY <2>2, SweepIsQuiet DEF InReload
  <2>3. CASE RowsDone \/ SweepDone
    BY <2>3 DEF RowsDone, SweepDone, events, Undisturbed
  <2>4. CASE Killer \/ AdminEdit \/ OtherProgram
    BY <2>4 DEF Killer, AdminEdit, OtherProgram, events, Undisturbed
  <2>5. ~ (Boot \/ Tick \/ StopTick \/ Exit \/ Callback)
    BY DEF InReload, Boot, Tick, StopTick, Exit, Callback
  <2>6. QED
    BY <2>1, <2>2, <2>3, <2>4, <2>5, Zenon DEF Next
<1>2. QED
  BY <1>1, Invariance, PTL DEF Spec, ReloadIsQuiet

-----------------------------------------------------------------------------
(* The status column, when the storage takes every update.                 *)

\* The row id is recorded with status s.
Recorded(id, s) == row[id] # None /\ row[id].status = s

\* A row that is recorded as good, and has no proxy, is one that the reload has still to
\* fetch.
GoodIsFetched ==
    /\ phase = "rows" => \A id \in Ids : Recorded(id, Good) => proxies[id] # None \/ id \in todo
    /\ phase = "sweep" => \A id \in Ids : Recorded(id, Good) => proxies[id] # None

RecordInv == RecordIsTrue /\ GoodIsFetched

LEMMA RecordParts ==
    /\ FailedIsSilent <=> \A id \in Ids : Recorded(id, Failed) => listener[id] = None
    /\ GoodIsLoaded <=> (phase \in {"loop", "exited"} /\ ~booting =>
                           \A id \in Ids : Recorded(id, Good) => proxies[id] # None)
BY DEF FailedIsSilent, GoodIsLoaded, Recorded

\* An update that reaches the storage is recorded, and nothing else changes.
LEMMA SetStatusRecords ==
    ASSUME TypeOK, StorageErrors = FALSE, NEW ids, NEW s \in 0..3, SetStatus(ids, s),
           NEW id \in Ids, NEW t, Recorded(id, t)'
    PROVE  (id \in ids /\ t = s) \/ (id \notin ids /\ Recorded(id, t))
<1>1. row' = WithStatus(row, ids, s)
  BY DEF SetStatus, Stored
<1>2. row[id] # None => row[id] \in Rows
  BY DEF TypeOK
<1>3. row[id] # None =>
        /\ [row[id] EXCEPT !.status = s] \in Rows
        /\ [row[id] EXCEPT !.status = s].status = s
  BY <1>2 DEF Rows
<1>4. row'[id] = IF id \in ids /\ row[id] # None THEN [row[id] EXCEPT !.status = s] ELSE row[id]
  BY <1>1 DEF WithStatus
<1>5. QED
  BY <1>3, <1>4, NoneDistinct DEF Recorded

\* Closing proxies records them as to be reloaded.
LEMMA CloseRecords ==
    ASSUME Inv, StorageErrors = FALSE, FailedIsSilent, NEW ids, Close(ids)
    PROVE  /\ FailedIsSilent'
           /\ \A id \in Ids : Recorded(id, Good)' => id \notin ids /\ Recorded(id, Good)
<1>1. ASSUME NEW id \in Ids, NEW t, Recorded(id, t)'
      PROVE  (id \in ids /\ t = Reload) \/ (id \notin ids /\ Recorded(id, t))
  <2>1. TypeOK /\ SetStatus(ids, Reload) /\ Reload \in 0..3
    BY DEF Close, Reload, Inv
  <2>2. QED
    BY <1>1, <2>1, SetStatusRecords
<1>2. \A id \in Ids : listener'[id] = IF id \in ids THEN None ELSE listener[id]
  BY DEF Close
<1>3. \A id \in Ids : Recorded(id, Failed)' => listener'[id] = None
  BY <1>1, <1>2, RecordParts DEF Reload, Failed
<1>4. FailedIsSilent'
  BY <1>3 DEF FailedIsSilent, Recorded
<1>5. QED
  BY <1>1, <1>4 DEF Reload, Good

\* What is recorded when nothing changes but the table's edits.
LEMMA SameRecords ==
    ASSUME UNCHANGED <<row, listener>>, FailedIsSilent
    PROVE  FailedIsSilent' /\ \A id \in Ids : \A t : Recorded(id, t)' <=> Recorded(id, t)
BY DEF FailedIsSilent, Recorded

\* q_proxy selects every row that is recorded as good.
LEMMA SelectRecords ==
    ASSUME Inv, RecordInv, Select, UNCHANGED <<storage, proxies, events>>
    PROVE  RecordInv'
<1>1. FailedIsSilent'
  BY SameRecords DEF RecordInv, RecordIsTrue, storage, events
<1>2. \A id \in Ids : Recorded(id, Good)' => snap'[id] # None
  BY NoneDistinct DEF Select, Recorded, Good, Disabled, storage, Inv, TypeOK, Rows
<1>3. phase' = "rows" /\ \A id \in Ids : snap'[id] # None => id \in todo'
  BY DEF Select
<1>4. QED
  BY <1>1, <1>2, <1>3 DEF RecordInv, RecordIsTrue, GoodIsLoaded, GoodIsFetched

LEMMA NewProxyRecords ==
    ASSUME Inv, StorageErrors = FALSE, FailedIsSilent, NEW id \in Ids, NewProxy(id),
           snap[id] # None
    PROVE  /\ FailedIsSilent'
           /\ \A i \in Ids : Recorded(i, Good)' =>
                proxies'[i] # None \/ (i # id /\ Recorded(i, Good))
           /\ \A i \in Ids : proxies[i] # None => proxies'[i] # None
<1>1. proxies \in [Ids -> Configs \cup {None}] /\ listener \in [Ids -> Ports \cup {None}]
      /\ snap[id] \in Configs
  BY DEF Inv, TypeOK
<1>2. CASE CanBind(id, snap[id].port)
  <2>1. /\ proxies' = [proxies EXCEPT ![id] = snap[id]]
        /\ listener' = [listener EXCEPT ![id] = snap[id].port]
        /\ SetStatus({id}, Good)
    BY <1>2 DEF NewProxy
  <2>2. ASSUME NEW i \in Ids, NEW t, Recorded(i, t)'
        PROVE  (i = id /\ t = Good) \/ (i # id /\ Recorded(i, t))
    <3>1. TypeOK /\ Good \in 0..3
      BY DEF Good, Inv
    <3>2. (i \in {id} /\ t = Good) \/ (i \notin {id} /\ Recorded(i, t))
      BY <2>1, <2>2, <3>1, SetStatusRecords
    <3>3. QED
      BY <3>2
  <2>3. \A i \in Ids : Recorded(i, Failed)' => listener'[i] = None
    BY <1>1, <2>1, <2>2, RecordParts DEF Good, Failed
  <2>4. QED
    BY <1>1, <2>1, <2>2, <2>3, NoneDistinct DEF FailedIsSilent, Recorded
<1>3. CASE ~CanBind(id, snap[id].port)
  <2>1. /\ UNCHANGED <<proxies, listener>>
        /\ row' = WithStatus(WithStatus(row, {id}, Failed), {id}, Reload)
    BY <1>3 DEF NewProxy, Stored
  <2>2. ASSUME NEW i \in Ids
        PROVE  IF i = id /\ row[id] # None
                 THEN row'[i].status = Reload
                 ELSE row'[i] = row[i]
    <3>1. row[i] # None => row[i] \in Rows
      BY DEF Inv, TypeOK
    <3>2. row[i] # None => [row[i] EXCEPT !.status = Failed] \in Rows
      BY <3>1 DEF Rows, Failed
    <3>3. QED
      BY <2>1, <3>1, <3>2, NoneDistinct DEF WithStatus, Rows
  <2>3. ASSUME NEW i \in Ids, NEW t, Recorded(i, t)', t \in {Good, Failed}
        PROVE  Recorded(i, t) /\ i # id
    BY <2>2, <2>3 DEF Recorded, Reload, Good, Failed
  <2>4. \A i \in Ids : Recorded(i, Failed)' => listener'[i] = None
    BY <2>1, <2>3, RecordParts
  <2>5. QED
    BY <2>1, <2>3, <2>4 DEF FailedIsSilent, Recorded
<1>4. QED
  BY <1>2, <1>3

LEMMA KnownProxyRecords ==
    ASSUME Inv, StorageErrors = FALSE, FailedIsSilent, NEW id \in Ids, KnownProxy(id),
           snap[id] # None
    PROVE  /\ FailedIsSilent'
           /\ \A i \in Ids : Recorded(i, Good)' =>
                proxies'[i] # None \/ (i # id /\ Recorded(i, Good))
           /\ \A i \in Ids : proxies[i] # None => proxies'[i] # None
<1>1. proxies \in [Ids -> Configs \cup {None}] /\ listener \in [Ids -> Ports \cup {None}]
      /\ snap[id] \in Configs
  BY DEF Inv, TypeOK
<1>2. proxies' = [proxies EXCEPT ![id] = snap[id]]
  BY DEF KnownProxy, ReInit
<1>3. PICK s \in {Good, Failed} :
        /\ SetStatus({id}, s)
        /\ s = Failed => listener'[id] = None
        /\ \A i \in Ids : i # id => listener'[i] = listener[i]
  <2>1. CASE Altered(id) /\ CanBind(id, snap[id].port)
    BY <1>1, <2>1 DEF KnownProxy, ReInit, Good, Failed
  <2>2. CASE Altered(id) /\ ~CanBind(id, snap[id].port)
    BY <1>1, <2>2 DEF KnownProxy, ReInit
  <2>3. CASE ~Altered(id)
    BY <2>3 DEF KnownProxy, Good, Failed
  <2>4. QED
    BY <2>1, <2>2, <2>3
<1>4. ASSUME NEW i \in Ids, NEW t, Recorded(i, t)'
      PROVE  (i = id /\ t = s) \/ (i # id /\ Recorded(i, t))
  <2>1. TypeOK /\ s \in 0..3
    BY DEF Good, Failed, Inv
  <2>2. (i \in {id} /\ t = s) \/ (i \notin {id} /\ Recorded(i, t))
    BY <1>3, <1>4, <2>1, SetStatusRecords
  <2>3. QED
    BY <2>2
<1>5. \A i \in Ids : Recorded(i, Failed)' => listener'[i] = None
  BY <1>3, <1>4, RecordParts
<1>6. QED
  BY <1>1, <1>2, <1>4, <1>5, NoneDistinct DEF FailedIsSilent, Recorded

LEMMA FetchRecords ==
    ASSUME Inv, StorageErrors = FALSE, RecordInv, FetchRow
    PROVE  RecordInv'
<1>1. PICK id \in todo : (NewProxy(id) \/ KnownProxy(id)) /\ todo' = todo \ {id}
  BY DEF FetchRow
<1>2. id \in Ids /\ snap[id] # None /\ phase = "rows" /\ phase' = "rows"
  BY DEF FetchRow, Inv, TypeOK, process
<1>3. /\ FailedIsSilent'
      /\ \A i \in Ids : Recorded(i, Good)' => proxies'[i] # None \/ (i # id /\ Recorded(i, Good))
      /\ \A i \in Ids : proxies[i] # None => proxies'[i] # None
  BY <1>1, <1>2, NewProxyRecords, KnownProxyRecords DEF RecordInv, RecordIsTrue
<1>4. \A i \in Ids : Recorded(i, Good)' => proxies'[i] # None \/ i \in todo'
  BY <1>1, <1>2, <1>3 DEF RecordInv, GoodIsFetched
<1>5. QED
  BY <1>2, <1>3, <1>4 DEF RecordInv, RecordIsTrue, GoodIsLoaded, GoodIsFetched

LEMMA SweepRecords ==
    ASSUME Inv, StorageErrors = FALSE, RecordInv, Sweep
    PROVE  RecordInv'
<1>1. phase = "sweep" /\ cursor \in Ids
  BY DEF Sweep, Inv, TypeOK, Loaded
<1>2. CASE SweepKeeps(cursor) /\ UNCHANGED process
  BY <1>1, <1>2, SameRecords
     DEF SweepKeeps, process, storage, events, RecordInv, RecordIsTrue, GoodIsLoaded, GoodIsFetched
<1>3. CASE SweepRetires(cursor) /\ UNCHANGED process
  <2>1. UNCHANGED <<row, proxies, phase, booting>>
        /\ listener' = [listener EXCEPT ![cursor] = None]
    BY <1>3 DEF SweepRetires, storage, process
  <2>2. FailedIsSilent'
    <3>1. \A id \in Ids : listener[id] = None => listener'[id] = None
      BY <2>1 DEF Inv, TypeOK
    <3>2. QED
      BY <2>1, <3>1 DEF RecordInv, RecordIsTrue, FailedIsSilent
  <2>3. QED
    BY <1>1, <2>1, <2>2 DEF RecordInv, RecordIsTrue, GoodIsLoaded, GoodIsFetched, Recorded
<1>4. CASE SweepRemoves(cursor) /\ UNCHANGED process
  <2>1. /\ Close({cursor}) /\ proxies' = [proxies EXCEPT ![cursor] = None]
        /\ UNCHANGED <<phase, booting>>
    BY <1>4 DEF SweepRemoves, process
  <2>2. /\ FailedIsSilent'
        /\ \A id \in Ids : Recorded(id, Good)' => id # cursor /\ Recorded(id, Good)
    BY <2>1, CloseRecords DEF RecordInv, RecordIsTrue
  <2>3. \A id \in Ids : Recorded(id, Good)' => proxies'[id] # None
    BY <1>1, <2>1, <2>2 DEF RecordInv, GoodIsFetched, Inv, TypeOK
  <2>4. QED
    BY <1>1, <2>1, <2>2, <2>3 DEF RecordInv, RecordIsTrue, GoodIsLoaded, GoodIsFetched
<1>5. CASE SweepCrashes(cursor)
  <2>1. phase' = "crashed" /\ listener' = [i \in Ids |-> None]
    BY <1>5 DEF SweepCrashes
  <2>2. QED
    BY <2>1 DEF RecordInv, RecordIsTrue, FailedIsSilent, GoodIsLoaded, GoodIsFetched
<1>6. QED
  BY <1>2, <1>3, <1>4, <1>5 DEF Sweep

LEMMA StopRecords ==
    ASSUME Inv, StorageErrors = FALSE, RecordInv, StopTick \/ Exit
    PROVE  RecordInv'
<1>1. /\ phase = "loop" /\ phase' \in {"loop", "exited"} /\ booting' = booting
      /\ Close(Loaded)
  BY DEF StopTick, Exit, ProxymapClose
<1>2. /\ FailedIsSilent'
      /\ \A id \in Ids : Recorded(id, Good)' => id \notin Loaded /\ Recorded(id, Good)
  BY <1>1, CloseRecords DEF RecordInv, RecordIsTrue
<1>3. ~booting => \A id \in Ids : ~Recorded(id, Good)'
  BY <1>1, <1>2, RecordParts DEF RecordInv, RecordIsTrue, Loaded
<1>4. GoodIsLoaded'
  BY <1>1, <1>3 DEF GoodIsLoaded, Recorded
<1>5. QED
  BY <1>1, <1>2, <1>4 DEF RecordInv, RecordIsTrue, GoodIsFetched

LEMMA CallbackRecords ==
    ASSUME Inv, StorageErrors = FALSE, RecordInv, Callback
    PROVE  RecordInv'
<1>1. phase = "loop" /\ UNCHANGED <<phase, booting, proxies>>
  BY DEF Callback, process
<1>2. PICK id \in Ids : Accept(id) \/ ConnectionEnds(id) \/ StopCallback(id)
  BY DEF Callback
<1>3. FailedIsSilent' /\ \A i \in Ids : Recorded(i, Good)' => Recorded(i, Good)
  <2>1. CASE Accept(id) \/ ConnectionEnds(id)
    BY <2>1, SameRecords DEF Accept, ConnectionEnds, storage, RecordInv, RecordIsTrue
  <2>2. CASE StopCallback(id)
    BY <2>2, CloseRecords DEF StopCallback, RecordInv, RecordIsTrue
  <2>3. QED
    BY <1>2, <2>1, <2>2
<1>4. GoodIsLoaded'
  BY <1>1, <1>3, RecordParts DEF RecordInv, RecordIsTrue, GoodIsLoaded, Recorded
<1>5. QED
  BY <1>1, <1>3, <1>4 DEF RecordInv, RecordIsTrue, GoodIsFetched

\* The administrator records no row as good or failed.
LEMMA EditRecords ==
    ASSUME Inv, RecordInv, AdminEdit
    PROVE  RecordInv'
<1>1. UNCHANGED <<phase, booting, proxies, listener, todo>>
  BY DEF AdminEdit, process, events, locals
<1>2. ASSUME NEW i \in Ids, NEW t \in {Good, Failed}, Recorded(i, t)' PROVE Recorded(i, t)
  <2>1. PICK id \in Ids, r \in {None} \cup [status : {Reload, Disabled}, config : Configs] :
          row' = [row EXCEPT ![id] = r]
    BY DEF AdminEdit
  <2>2. r # None => r.status \notin {Good, Failed}
    BY <2>1 DEF Reload, Disabled, Good, Failed
  <2>3. row \in [Ids -> Rows \cup {None}]
    BY DEF Inv, TypeOK
  <2>4. QED
    BY <1>2, <2>1, <2>2, <2>3 DEF Recorded
<1>3. FailedIsSilent'
  BY <1>1, <1>2, RecordParts DEF RecordInv, RecordIsTrue, FailedIsSilent, Recorded
<1>4. GoodIsLoaded'
  BY <1>1, <1>2, RecordParts DEF RecordInv, RecordIsTrue, GoodIsLoaded, Recorded
<1>5. QED
  BY <1>1, <1>2, <1>3, <1>4 DEF RecordInv, RecordIsTrue, GoodIsFetched

LEMMA NextRecords ==
    ASSUME Inv, StorageErrors = FALSE, RecordInv, [Next]_vars
    PROVE  RecordInv'
<1>1. CASE (Boot \/ Tick) /\ Select
  BY <1>1, SelectRecords DEF Boot, Tick
<1>2. CASE (Boot \/ Tick) /\ ~Select
  <2>1. Tick /\ UNCHANGED <<phase, booting, row, proxies, listener, todo>>
    BY <1>2 DEF Boot, Tick, SelectFails, storage, events, locals
  <2>2. QED
    BY <2>1 DEF RecordInv, RecordIsTrue, FailedIsSilent, GoodIsLoaded, GoodIsFetched, Recorded
<1>3. CASE RowsDone \/ SweepDone \/ Killer \/ OtherProgram \/ UNCHANGED vars
  <2>1. UNCHANGED <<row, proxies, listener, todo>>
    BY <1>3 DEF RowsDone, SweepDone, Killer, OtherProgram, vars, storage, events, locals
  <2>2. \/ UNCHANGED <<phase, booting>>
        \/ phase = "rows" /\ todo = {} /\ phase' = "sweep"
        \/ phase = "sweep" /\ phase' \in {"loop", "exited"}
    BY <1>3 DEF RowsDone, SweepDone, Killer, OtherProgram, vars, process
  <2>3. QED
    BY <2>1, <2>2
       DEF RecordInv, RecordIsTrue, FailedIsSilent, GoodIsLoaded, GoodIsFetched, Recorded
<1>4. QED
  BY <1>1, <1>2, <1>3, FetchRecords, SweepRecords, StopRecords, CallbackRecords, EditRecords
     DEF Next

\* When the storage takes every update, the status column is right as far as it says
\* anything, for any rows, ports and edits between any two steps of a reload.
THEOREM RecordsAreTrue == ASSUME StorageErrors = FALSE PROVE Spec => []RecordIsTrue
<1>1. Init => RecordInv
  BY DEF Init, RecordInv, RecordIsTrue, FailedIsSilent, GoodIsLoaded, GoodIsFetched
<1>2. Inv /\ RecordInv /\ [Next]_vars => RecordInv'
  BY NextRecords
<1>3. RecordInv => RecordIsTrue
  BY DEF RecordInv
<1>4. QED
  BY <1>1, <1>2, <1>3, Invariance, PTL DEF Spec
=============================================================================
