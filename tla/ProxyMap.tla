------------------------------ MODULE ProxyMap ------------------------------
(***************************************************************************)
(* The proxies of the firewall and their life (src/proxymap.cpp, the loop  *)
(* of src/main.cpp, and Proxy::ProxyInit, ReInit, Close and CloseServer).  *)
(* The administrator edits the table "proxy" of the storage database.      *)
(* Every ReloadEvery ticks of the timer the firewall selects its enabled   *)
(* rows, opens and alters proxies one row at a time, then sweeps away the  *)
(* proxies whose row is gone.  Each answer is written back to the row's    *)
(* status.  The event loop is single-threaded, so nothing but signals, the *)
(* administrator and other programs runs between the steps of a reload.    *)
(*                                                                         *)
(* A row's configuration is its port, its protocol and its backend; the    *)
(* frontend address is a constant of the code.  The events registered with *)
(* libevent (listener, conns) are kept apart from the map (proxies), as in *)
(* the code: it is Close that keeps them together.                         *)
(***************************************************************************)
EXTENDS Integers, FiniteSets

CONSTANTS Ids,            \* proxyid
          Ports,          \* frontend_port
          Kinds,          \* dbtype
          Backends,       \* backend_server, backend_ip and backend_port
          ReloadEvery,    \* ticks of the timer from a reload to the next
          StorageErrors,  \* may a query or an update of the storage fail?
          MaxConns,       \* bound: connections of one proxy
          MaxEdits,       \* bound: edits by the administrator and other programs
          None            \* no row, no proxy, no listener

Configs == [port : Ports, kind : Kinds, backend : Backends]

\* The status of a row.
Reload   == 0
Good     == 1
Failed   == 2
Disabled == 3

Rows == [status : 0..3, config : Configs]

ASSUME ProxyMapAssumption ==
    /\ Ids \subseteq Nat \ {0} /\ IsFiniteSet(Ids)
    /\ ReloadEvery \in Nat \ {0}
    /\ StorageErrors \in BOOLEAN
    /\ MaxConns \in Nat /\ MaxEdits \in Nat
    /\ None \notin Ports \cup Configs \cup Rows

VARIABLES
    row,       \* the storage table: Ids -> Rows, or None
    taken,     \* ports other programs listen on
    running,   \* GreenSQLConfig::bRunning
    phase,     \* "start", "rows", "sweep", "loop", "exited" or "crashed"
    booting,   \* the event loop has not been entered yet
    timer,     \* the timer event is registered
    counter,   \* main.cpp's counter of ticks
    proxies,   \* the map: Ids -> the configuration the Proxy object holds, or None
    listener,  \* registered server events: Ids -> port, or None
    conns,     \* registered connections: Ids -> their number
    snap,      \* the result of q_proxy: Ids -> Configs, or None
    todo,      \* its rows not fetched yet
    seen,      \* keys of new_proxies with a Proxy
    nulls,     \* keys of new_proxies that operator[] inserted with NULL
    cursor,    \* the sweep's iterator: a key, or 0 for end()
    edits      \* edits made so far

storage == <<row, taken, edits>>
process == <<running, phase, booting, timer, counter>>
events  == <<listener, conns>>
locals  == <<snap, todo, seen, nulls, cursor>>
vars    == <<storage, process, proxies, events, locals>>

Loaded == {id \in Ids : proxies[id] # None}

-----------------------------------------------------------------------------
\* The storage.

\* The table t after UPDATE proxy set status=s of the rows ids.
WithStatus(t, ids, s) ==
    [id \in Ids |-> IF id \in ids /\ t[id] # None
                      THEN [t[id] EXCEPT !.status = s] ELSE t[id]]

\* Of a number of updates, those that reach the storage: the callers ignore the
\* result of proxymap_set_db_status.
Stored(ids) == IF StorageErrors THEN SUBSET ids ELSE {ids}

SetStatus(ids, s) ==
    /\ \E done \in Stored(ids) : row' = WithStatus(row, done, s)
    /\ UNCHANGED <<taken, edits>>

\* server_socket: bind fails on a port somebody listens on.
CanBind(id, port) ==
    /\ port \notin taken
    /\ \A other \in Ids \ {id} : listener[other] # port

-----------------------------------------------------------------------------
\* Mutant: the listener stays registered.
Close_KeepsListener(ids) ==
    /\ SetStatus(ids, Reload)
    /\ conns' = [id \in Ids |-> IF id \in ids THEN 0 ELSE conns[id]]
    /\ UNCHANGED listener

\* Proxy::Close: the listener and every connection of the ids are closed, and
\* their rows ask to be reloaded.
Close(ids) ==
    /\ SetStatus(ids, Reload)
    /\ listener' = [id \in Ids |-> IF id \in ids THEN None ELSE listener[id]]
    /\ conns' = [id \in Ids |-> IF id \in ids THEN 0 ELSE conns[id]]

\* proxymap_close.
ProxymapClose ==
    /\ Close(Loaded)
    /\ proxies' = [id \in Ids |-> None]

-----------------------------------------------------------------------------
Init ==
    /\ row \in [Ids -> Rows \cup {None}]
    /\ taken = {}
    /\ running = TRUE
    /\ phase = "start"
    /\ booting = TRUE
    /\ timer = TRUE
    /\ counter = 0
    /\ proxies = [id \in Ids |-> None]
    /\ listener = [id \in Ids |-> None]
    /\ conns = [id \in Ids |-> 0]
    /\ snap = [id \in Ids |-> None]
    /\ todo = {} /\ seen = {} /\ nulls = {} /\ cursor = 0
    /\ edits = 0

\* Mutant: only rows that ask to be reloaded are selected.
Select_OnlyReload ==
    /\ phase' = "rows"
    /\ snap' = [id \in Ids |->
                 IF row[id] # None
                   THEN IF row[id].status = Reload THEN row[id].config ELSE None
                   ELSE None]
    /\ todo' = {id \in Ids : snap'[id] # None}
    /\ UNCHANGED <<seen, nulls, cursor>>

\* q_proxy succeeds: the enabled rows, as they are now, are the rows to fetch.
Select ==
    /\ phase' = "rows"
    /\ snap' = [id \in Ids |->
                 IF row[id] # None
                   THEN IF row[id].status # Disabled THEN row[id].config ELSE None
                   ELSE None]
    /\ todo' = {id \in Ids : snap'[id] # None}
    /\ UNCHANGED <<seen, nulls, cursor>>

\* q_proxy fails: the reload gives up, and at boot so does the program, for it
\* has no proxy.
SelectFails ==
    /\ StorageErrors
    /\ phase' = IF booting THEN "exited" ELSE "loop"
    /\ UNCHANGED locals

\* main: the first reload, before the event loop.
Boot ==
    /\ phase = "start"
    /\ Select \/ SelectFails
    /\ UNCHANGED <<storage, running, booting, timer, counter, proxies, events>>

\* clb_timeout while the program is to run on.
Tick ==
    /\ phase = "loop" /\ timer /\ running
    /\ counter' = (counter + 1) % ReloadEvery
    /\ IF counter' = 0
         THEN Select \/ SelectFails
         ELSE UNCHANGED <<phase, locals>>
    /\ UNCHANGED <<storage, running, booting, timer, proxies, events>>

\* clb_timeout after a signal: everything is closed, the timer is not armed again.
StopTick ==
    /\ phase = "loop" /\ timer /\ ~running
    /\ timer' = FALSE
    /\ ProxymapClose
    /\ UNCHANGED <<running, phase, booting, counter, locals>>

\* event_loop returns when no event is registered.
Exit ==
    /\ phase = "loop" /\ ~timer
    /\ \A id \in Ids : listener[id] = None /\ conns[id] = 0
    /\ ProxymapClose
    /\ phase' = "exited"
    /\ UNCHANGED <<running, booting, timer, counter, locals>>

-----------------------------------------------------------------------------
\* One row of the reload.

\* A row without a Proxy: one is created, and dropped again if it cannot listen.
NewProxy(id) ==
    /\ proxies[id] = None
    /\ IF CanBind(id, snap[id].port)
         THEN /\ proxies' = [proxies EXCEPT ![id] = snap[id]]
              /\ listener' = [listener EXCEPT ![id] = snap[id].port]
              /\ seen' = seen \cup {id}
              /\ SetStatus({id}, Good)
         ELSE /\ \E failed, closed \in Stored({id}) :
                   row' = WithStatus(WithStatus(row, failed, Failed), closed, Reload)
              /\ UNCHANGED <<proxies, listener, seen, taken, edits>>

\* Mutant of ProxyReInit: the old server socket is not closed.
ReInit_KeepsSocket(id) ==
    /\ proxies' = [proxies EXCEPT ![id] = snap[id]]
    /\ IF CanBind(id, snap[id].port) /\ listener[id] = None
         THEN /\ listener' = [listener EXCEPT ![id] = snap[id].port]
              /\ SetStatus({id}, Good)
         ELSE /\ UNCHANGED listener
              /\ SetStatus({id}, Failed)

\* ProxyReInit: the old server socket is closed before the new one is bound, and
\* the object takes the new configuration whether or not that succeeds.
ReInit(id) ==
    /\ proxies' = [proxies EXCEPT ![id] = snap[id]]
    /\ IF CanBind(id, snap[id].port)
         THEN /\ listener' = [listener EXCEPT ![id] = snap[id].port]
              /\ SetStatus({id}, Good)
         ELSE /\ listener' = [listener EXCEPT ![id] = None]
              /\ SetStatus({id}, Failed)

\* What ProxyReInit is for: the frontend of the proxy was altered.
Altered(id) == \/ proxies[id].port # snap[id].port
               \/ proxies[id].kind # snap[id].kind

\* Mutant: the proxy is not entered in new_proxies when it was altered.
KnownProxy_AlteredNotSeen(id) ==
    /\ proxies[id] # None
    /\ IF Altered(id)
         THEN ReInit(id) /\ UNCHANGED seen
         ELSE /\ proxies' = [proxies EXCEPT ![id] = snap[id]]
              /\ seen' = seen \cup {id}
              /\ SetStatus({id}, Good)
              /\ UNCHANGED listener

\* A row with a Proxy: the backend is a matter of the object's fields only.
KnownProxy(id) ==
    /\ proxies[id] # None
    /\ seen' = seen \cup {id}
    /\ IF Altered(id)
         THEN ReInit(id)
         ELSE /\ proxies' = [proxies EXCEPT ![id] = snap[id]]
              /\ SetStatus({id}, Good)
              /\ UNCHANGED listener

\* One turn of the loop that fetches rows: the query orders them in no way.
FetchRow ==
    /\ phase = "rows"
    /\ \E id \in todo : /\ NewProxy(id) \/ KnownProxy(id)
                        /\ todo' = todo \ {id}
    /\ UNCHANGED <<process, conns, snap, nulls, cursor>>

-----------------------------------------------------------------------------
\* The sweep over the map.

\* The first key of keys above id, or end().
After(id, keys) ==
    IF \E k \in keys : k > id
      THEN CHOOSE k \in keys : k > id /\ \A l \in keys : l > id => k <= l
      ELSE 0

RowsDone ==
    /\ phase = "rows" /\ todo = {}
    /\ phase' = "sweep"
    /\ cursor' = After(0, Loaded)
    /\ UNCHANGED <<storage, running, booting, timer, counter, proxies, events, snap, todo,
                   seen, nulls>>

\* The sweep's condition: new_proxies grows by the keys looked up in it.
SizesDiffer ==
    Cardinality(seen) + Cardinality(nulls) # Cardinality(Loaded)

SweepKeeps(id) ==
    /\ id \in seen
    /\ cursor' = After(id, Loaded)
    /\ UNCHANGED <<storage, proxies, events, nulls>>

\* Mutants: the listener of a removed proxy with clients is left open; a removed
\* proxy is closed with its clients.
SweepRetires_Nothing(id) ==
    /\ id \notin seen /\ conns[id] > 0
    /\ nulls' = nulls \cup {id}
    /\ cursor' = After(id, Loaded)
    /\ UNCHANGED <<storage, proxies, events>>

SweepRetires_DropsClients(id) ==
    /\ id \notin seen /\ conns[id] > 0
    /\ nulls' = nulls \cup {id}
    /\ cursor' = After(id, Loaded)
    /\ Close({id})
    /\ UNCHANGED proxies

\* A removed proxy with clients: only its listener is closed.
SweepRetires(id) ==
    /\ id \notin seen /\ conns[id] > 0
    /\ nulls' = nulls \cup {id}
    /\ listener' = [listener EXCEPT ![id] = None]
    /\ cursor' = After(id, Loaded)
    /\ UNCHANGED <<storage, proxies, conns>>

\* Mutant: the idle proxy is erased but not closed.
SweepRemoves_NotClosed(id) ==
    /\ id \notin seen /\ conns[id] = 0
    /\ nulls' = nulls \cup {id}
    /\ proxies' = [proxies EXCEPT ![id] = None]
    /\ cursor' \in {0} \cup (Loaded \ {id})
    /\ UNCHANGED <<storage, events>>

\* A removed proxy without clients: it is closed and erased.  The loop then
\* increments the erased iterator, which is undefined: it may find any key, or
\* end() (or, see Sweep, crash).
SweepRemoves(id) ==
    /\ id \notin seen /\ conns[id] = 0
    /\ nulls' = nulls \cup {id}
    /\ Close({id})
    /\ proxies' = [proxies EXCEPT ![id] = None]
    /\ cursor' \in {0} \cup (Loaded \ {id})

\* The variables of a reload that is over.
LocalsGone ==
    /\ snap' = [id \in Ids |-> None]
    /\ seen' = {} /\ nulls' = {} /\ cursor' = 0

\* The same, when incrementing the erased iterator kills the process, and the
\* kernel closes its sockets.
SweepCrashes(id) ==
    /\ id \notin seen /\ conns[id] = 0
    /\ SetStatus({id}, Reload)
    /\ phase' = "crashed"
    /\ proxies' = [i \in Ids |-> None]
    /\ listener' = [i \in Ids |-> None]
    /\ conns' = [i \in Ids |-> 0]
    /\ LocalsGone
    /\ UNCHANGED <<running, booting, timer, counter, todo>>

\* One turn of the loop over the map.
Sweep ==
    /\ phase = "sweep"
    /\ cursor # 0 /\ SizesDiffer
    /\ \/ /\ SweepKeeps(cursor) \/ SweepRetires(cursor) \/ SweepRemoves(cursor)
          /\ UNCHANGED <<process, snap, todo, seen>>
       \/ SweepCrashes(cursor)

\* The reload ends, and its variables with it.  At boot the event loop is
\* entered, unless there is no proxy: then the program exits.
SweepDone ==
    /\ phase = "sweep"
    /\ cursor = 0 \/ ~SizesDiffer
    /\ phase' = IF booting /\ Loaded = {} THEN "exited" ELSE "loop"
    /\ booting' = FALSE
    /\ LocalsGone
    /\ UNCHANGED <<storage, running, timer, counter, proxies, events, todo>>

-----------------------------------------------------------------------------
\* Callbacks of the proxies' events: a stopping program closes their proxy.

\* wrap_Server: a connection is accepted, its events are registered.
Accept(id) ==
    /\ running
    /\ listener[id] # None /\ conns[id] < MaxConns
    /\ conns' = [conns EXCEPT ![id] = @ + 1]
    /\ UNCHANGED <<storage, listener>>

\* wrap_Proxy and wrap_Backend: the relay closes the connection (see Relay).
ConnectionEnds(id) ==
    /\ running
    /\ conns[id] > 0
    /\ conns' = [conns EXCEPT ![id] = @ - 1]
    /\ UNCHANGED <<storage, listener>>

\* Any of the three after a signal.
StopCallback(id) ==
    /\ ~running
    /\ listener[id] # None \/ conns[id] > 0
    /\ Close({id})

Callback ==
    /\ phase = "loop"
    /\ \E id \in Ids : Accept(id) \/ ConnectionEnds(id) \/ StopCallback(id)
    /\ UNCHANGED <<process, proxies, locals>>

-----------------------------------------------------------------------------
\* The environment.

Alive == phase \notin {"exited", "crashed"}

\* Killer, the handler of SIGTERM, SIGINT, SIGHUP and SIGQUIT.
Killer ==
    /\ Alive /\ running
    /\ running' = FALSE
    /\ UNCHANGED <<storage, phase, booting, timer, counter, proxies, events, locals>>

\* The administrator enables, alters, disables or deletes a row.
AdminEdit ==
    /\ edits < MaxEdits /\ edits' = edits + 1
    /\ \E id \in Ids, r \in {None} \cup [status : {Reload, Disabled}, config : Configs] :
         /\ r # row[id]
         /\ row' = [row EXCEPT ![id] = r]
    /\ UNCHANGED <<taken, process, proxies, events, locals>>

\* Another program takes a port, or gives it back.
OtherProgram ==
    /\ edits < MaxEdits /\ edits' = edits + 1
    /\ \E port \in Ports :
         \/ /\ port \notin taken
            /\ \A id \in Ids : listener[id] # port
            /\ taken' = taken \cup {port}
         \/ /\ port \in taken
            /\ taken' = taken \ {port}
    /\ UNCHANGED <<row, process, proxies, events, locals>>

-----------------------------------------------------------------------------
Next ==
    \/ Boot
    \/ Tick
    \/ StopTick
    \/ Exit
    \/ FetchRow
    \/ RowsDone
    \/ Sweep
    \/ SweepDone
    \/ Callback
    \/ Killer
    \/ AdminEdit
    \/ OtherProgram

\* The program runs on, and libevent fires the timer however busy the sockets are.
Fairness ==
    /\ WF_vars(Boot) /\ WF_vars(FetchRow) /\ WF_vars(RowsDone)
    /\ WF_vars(Sweep) /\ WF_vars(SweepDone)
    /\ WF_vars(Tick) /\ WF_vars(StopTick) /\ WF_vars(Exit)

Spec == Init /\ [][Next]_vars /\ Fairness

-----------------------------------------------------------------------------
\* Type invariant.
TypeOK ==
    /\ row \in [Ids -> Rows \cup {None}]
    /\ taken \subseteq Ports
    /\ running \in BOOLEAN /\ booting \in BOOLEAN /\ timer \in BOOLEAN
    /\ phase \in {"start", "rows", "sweep", "loop", "exited", "crashed"}
    /\ counter \in 0..ReloadEvery - 1
    /\ proxies \in [Ids -> Configs \cup {None}]
    /\ listener \in [Ids -> Ports \cup {None}]
    /\ conns \in [Ids -> 0..MaxConns]
    /\ snap \in [Ids -> Configs \cup {None}]
    /\ todo \subseteq {id \in Ids : snap[id] # None}
    /\ seen \subseteq Loaded
    /\ nulls \subseteq Ids
    /\ cursor \in {0} \cup Loaded
    /\ edits \in 0..MaxEdits

\* Each registered event belongs to a proxy in the map: its callback finds the
\* object (wrap_Server and the others look it up with operator[], which would
\* insert a NULL that proxymap_close dereferences), and the sweep can reach it.
EventsOwned ==
    \A id \in Ids : listener[id] # None \/ conns[id] > 0 => proxies[id] # None

\* A proxy listens where its object says, whatever reconfigurations failed: the
\* comparison that decides the next one (proxymap.cpp:198) is with the truth.
ListenerMatches ==
    \A id \in Loaded : listener[id] # None => listener[id] = proxies[id].port

\* The map of proxies and the registered events tell the same story.
EventsMatch == EventsOwned /\ ListenerMatches

\* After the rows are fetched, each proxy with an enabled row has taken it over
\* as it was selected, and no proxy of such a row is up for removal.
ReloadAdopts ==
    phase = "sweep" =>
        \A id \in Loaded : /\ id \in seen <=> snap[id] # None
                           /\ id \in seen => proxies[id] = snap[id]

\* No proxy that is recorded as failed listens (set after the rebind, before the
\* next row; the storage takes every update).
FailedIsSilent ==
    \A id \in Ids :
        row[id] # None => (row[id].status = Failed => listener[id] = None)

\* Once the first reload is over, a row recorded as good has a proxy: in
\* particular no row stays good when the program stops.
GoodIsLoaded ==
    phase \in {"loop", "exited"} /\ ~booting =>
        \A id \in Ids :
            row[id] # None => (row[id].status = Good => proxies[id] # None)

\* The status column tells the truth about the proxies, as far as it says anything.
RecordIsTrue == FailedIsSilent /\ GoodIsLoaded

\* A reload does not disturb who needs no change: it ends no connection, and a
\* proxy whose row is as before keeps its listener, even with removals (and the
\* iterator of the removed proxy) around it.
InReload == phase \in {"rows", "sweep"} /\ phase' # "crashed"

Undisturbed ==
    /\ conns' = conns
    /\ \A id \in Loaded : snap[id] = proxies[id] => listener'[id] = listener[id]

ReloadIsQuiet == [][InReload => Undisturbed]_vars

\* A signal ends the program: no event stays registered that would keep the event
\* loop alive, at whatever point of a reload the signal arrives.
StopEnds == ~running ~> ~Alive

\* A proxy whose row is deleted for good stops listening for good, although one
\* reload may miss it: the sweep ends when the sizes of the two maps coincide.
DeletedCloses ==
    \A id \in Ids : <>[](row[id] = None) => <>[](listener[id] = None)

\* The row id is enabled and nobody else is on its port.
Servable(id) ==
    IF row[id] = None THEN FALSE
    ELSE row[id].status # Disabled /\ CanBind(id, row[id].config.port)

\* A row that stays servable gets a proxy.
EnabledLoads ==
    \A id \in Ids :
        <>[]Servable(id) => <>(proxies[id] # None \/ ~running \/ ~Alive)

=============================================================================
