------------------------------ MODULE Converge ------------------------------
(***************************************************************************)
(* From the watcher's cache to the tables and the state file, over reloads *)
(* and crashes: the end of onServicesChanged and the lifecycle of the app  *)
(* (src/consul.go), the state manager (src/state.go) and the choice of a   *)
(* no-cache matcher (src/compiler.go, src/handler.go).                     *)
(*                                                                         *)
(* Caddy provisions and starts a new app instance before it stops the old  *)
(* one. Each instance has its own watcher, tables and state manager; all   *)
(* of them share one state file. A converge runs in the goroutine of its   *)
(* flush: it may overlap with another one of its instance, and may outlive *)
(* Stop. A step is what happens under one lock, or one access to the file. *)
(*                                                                         *)
(* Watcher is reduced to what a converge can see of it: a cache that is    *)
(* brought up to date by responses, which raise its index, and by full     *)
(* syncs, which do not. The steps of a converge before Compile are in      *)
(* Routes and Connect, the listeners in TCPListeners.                      *)
(***************************************************************************)
EXTENDS Integers

CONSTANTS
    Apps,        \* slots for app instances, numbered
    Flushes,     \* slots for converges, per instance: bounds how many overlap
    Routes,      \* the routes a snapshot may compile to
    NoRoutes,    \* no route at all, one of them
    Contents,    \* what Consul may have: routes, and metadata on no-cache
    FullSync,    \* full_sync_interval > 0
    MaxIndex,    \* bound on Consul's raft index, that is on changes in Consul
    MaxFaults,   \* bound on reloads, crashes and failed saves
    None         \* no file, hash, matcher, snapshot or instance

\* caddy-no-cache-status: absent, empty, not a list of codes, or such a list.
NoCacheSpecs == {"absent", "empty", "invalid", "codes"}

ContentType == [routes : Routes, noCache : NoCacheSpecs]

\* A Consul without routable services.
Nothing == [routes |-> NoRoutes, noCache |-> "absent"]

ASSUME AppsAssumption == Apps \subseteq Nat
ASSUME RoutesAssumption == NoRoutes \in Routes
ASSUME ContentsAssumption == Contents \subseteq ContentType /\ Nothing \in Contents
ASSUME FullSyncAssumption == FullSync \in BOOLEAN
ASSUME BoundsAssumption == MaxIndex \in Nat /\ MaxFaults \in Nat
ASSUME NoneAssumption == None \notin Apps /\ None \notin Contents

VARIABLES
    consul,     \* what Consul has
    index,      \* its raft index
    phase,      \* per instance: absent, provisioned, started or stopped
    serving,    \* the instance whose HTTP handler gets the requests
    wIndex,     \* per instance, the watcher's healthStateIndex
    cache,      \* per instance, the watcher's cache
    pending,    \* per instance, a change waits for its flush
    cpc,        \* where each converge is
    csnap,      \* the snapshot each converge was called with
    mem,        \* per instance, stateManager.state
    httpTable,  \* per instance, the HTTP route table
    tcpTable,   \* per instance, the TCP route table
    file,       \* the state file; None if it cannot be parsed or read
    faults      \* reloads, crashes and failed saves so far

consulVars == <<consul, index>>
appVars == <<phase, serving>>
watchVars == <<wIndex, cache, pending>>
convVars == <<cpc, csnap>>
tableVars == <<httpTable, tcpTable>>
vars == <<consulVars, appVars, watchVars, convVars, mem, tableVars, file, faults>>

-----------------------------------------------------------------------------
(* Routes, and what is left of them in JSON.                                 *)

\* resolveNoCacheMatcher: an invalid list counts as an absent one.
ResolveNoCacheMatcher(spec) ==
    [matcher |-> IF spec = "codes" THEN spec ELSE None, optOut |-> spec = "empty"]

\* The HTTP routes compiled from a snapshot.
Compiled(snap) ==
    [routes |-> snap.routes,
     matcher |-> ResolveNoCacheMatcher(snap.noCache).matcher,
     optOut |-> ResolveNoCacheMatcher(snap.noCache).optOut]

\* JSON leaves the matcher of a route out (json:"-").
JSON(table) == [table EXCEPT !.matcher = None]

\* hashRoutes: SHA-256 of the JSON, taken as free of collisions.
HashRoutes(table) == JSON(table)

\* effectiveNoCacheMatcher of the handler: which matcher a response is held
\* against. "global" is the one of no_cache_status.
EffectiveNoCacheMatcher(table) ==
    CASE table.optOut -> None
      [] ~table.optOut /\ table.matcher # None -> table.matcher
      [] OTHER -> "global"

HTTPTables == [routes : Routes, matcher : {"codes", None}, optOut : BOOLEAN]
EmptyTable == Compiled(Nothing)

States == [hash : HTTPTables \cup {None}, http : HTTPTables, tcp : Routes,
           services : Contents, index : Nat]

ASSUME NoHashAssumption == None \notin HTTPTables

EmptyState ==
    [hash |-> None, http |-> EmptyTable, tcp |-> NoRoutes, services |-> Nothing, index |-> 0]

PhaseStates == {"absent", "provisioned", "started", "stopped"}
ConvergeStates == {"free", "gate", "update", "hash", "state", "save", "write", "tcp"}

-----------------------------------------------------------------------------
Init ==
    /\ consul \in Contents
    /\ index = 1
    /\ phase = [a \in Apps |-> "absent"]
    /\ serving = None
    /\ wIndex = [a \in Apps |-> 0]
    /\ cache = [a \in Apps |-> Nothing]
    /\ pending = [a \in Apps |-> FALSE]
    /\ cpc = [a \in Apps |-> [f \in Flushes |-> "free"]]
    /\ csnap = [a \in Apps |-> [f \in Flushes |-> None]]
    /\ mem = [a \in Apps |-> EmptyState]
    /\ httpTable = [a \in Apps |-> EmptyTable]
    /\ tcpTable = [a \in Apps |-> NoRoutes]
    /\ file = None
    /\ faults = 0

ConsulChange ==
    /\ index < MaxIndex
    /\ consul' \in Contents \ {consul}
    /\ index' = index + 1
    /\ UNCHANGED <<appVars, watchVars, convVars, mem, tableVars, file, faults>>

-----------------------------------------------------------------------------
(* The watcher of instance a.                                                *)

\* A blocking query returns at an index that is new to the watcher; the index and
\* the cache are brought up to date, and a change is queued. A query that was
\* under way at Stop still does so.
WatchResponse(a) ==
    /\ phase[a] \in {"started", "stopped"}
    /\ wIndex[a] # index
    /\ wIndex' = [wIndex EXCEPT ![a] = index]
    /\ cache' = [cache EXCEPT ![a] = consul]
    /\ pending' = [pending EXCEPT ![a] = @ \/ cache[a] # consul]
    /\ UNCHANGED <<consulVars, appVars, convVars, mem, tableVars, file, faults>>

\* fullSync fetches the services it knows again, and queues each of them.
FullSyncTick(a) ==
    /\ FullSync
    /\ phase[a] = "started"
    /\ cache[a] # Nothing
    /\ cache' = [cache EXCEPT ![a] = consul]
    /\ pending' = [pending EXCEPT ![a] = TRUE]
    /\ UNCHANGED <<consulVars, appVars, wIndex, convVars, mem, tableVars, file, faults>>

\* Mutant: the converge starts before the snapshot is taken.
FlushMutant(a, f) ==
    /\ pending[a]
    /\ cpc[a][f] = "free"
    /\ pending' = [pending EXCEPT ![a] = FALSE]
    /\ cpc' = [cpc EXCEPT ![a][f] = "gate"]
    /\ UNCHANGED <<consulVars, appVars, wIndex, cache, csnap, mem, tableVars, file, faults>>

\* The debounce timer fires and flushChanges takes its snapshot.
Flush(a, f) ==
    /\ pending[a]
    /\ cpc[a][f] = "free"
    /\ pending' = [pending EXCEPT ![a] = FALSE]
    /\ csnap' = [csnap EXCEPT ![a][f] = cache[a]]
    /\ cpc' = [cpc EXCEPT ![a][f] = "gate"]
    /\ UNCHANGED <<consulVars, appVars, wIndex, cache, mem, tableVars, file, faults>>

-----------------------------------------------------------------------------
(* onServicesChanged from Compile on: converge f of instance a.              *)

Goto(a, f, label) == cpc' = [cpc EXCEPT ![a][f] = label]

\* stateManager.mu is held while the file is written; every setter waits for it.
MemLocked(a) == \E g \in Flushes : cpc[a][g] = "write"

\* The update of the HTTP table is skipped if the hash is the one in the state.
Gate(a, f) ==
    /\ cpc[a][f] = "gate"
    /\ ~MemLocked(a)
    /\ Goto(a, f, IF HashRoutes(Compiled(csnap[a][f])) = mem[a].hash THEN "state" ELSE "update")
    /\ UNCHANGED <<consulVars, appVars, watchVars, csnap, mem, tableVars, file, faults>>

UpdateHTTP(a, f) ==
    /\ cpc[a][f] = "update"
    /\ httpTable' = [httpTable EXCEPT ![a] = Compiled(csnap[a][f])]
    /\ Goto(a, f, "hash")
    /\ UNCHANGED <<consulVars, appVars, watchVars, csnap, mem, tcpTable, file, faults>>

SetHTTPRouteHash(a, f) ==
    /\ cpc[a][f] = "hash"
    /\ ~MemLocked(a)
    /\ mem' = [mem EXCEPT ![a].hash = HashRoutes(Compiled(csnap[a][f]))]
    /\ Goto(a, f, "state")
    /\ UNCHANGED <<consulVars, appVars, watchVars, csnap, tableVars, file, faults>>

\* Mutant: an empty list of services is not stored.
SetStateMutant(a, f) ==
    /\ cpc[a][f] = "state"
    /\ ~MemLocked(a)
    /\ mem' = [mem EXCEPT ![a] = [@ EXCEPT !.http = Compiled(csnap[a][f]),
                                          !.tcp = csnap[a][f].routes,
                                          !.services = IF csnap[a][f] = Nothing
                                                       THEN @ ELSE csnap[a][f],
                                          !.index = wIndex[a]]]
    /\ Goto(a, f, "save")
    /\ UNCHANGED <<consulVars, appVars, watchVars, csnap, tableVars, file, faults>>

\* The setters that follow, in a row: the routes, the services, and the index
\* the watcher has by now, which may be ahead of the snapshot.
SetState(a, f) ==
    /\ cpc[a][f] = "state"
    /\ ~MemLocked(a)
    /\ mem' = [mem EXCEPT ![a] = [@ EXCEPT !.http = Compiled(csnap[a][f]),
                                          !.tcp = csnap[a][f].routes,
                                          !.services = csnap[a][f],
                                          !.index = wIndex[a]]]
    /\ Goto(a, f, "save")
    /\ UNCHANGED <<consulVars, appVars, watchVars, csnap, tableVars, file, faults>>

\* Save truncates the file,
SaveTruncate(a, f) ==
    /\ cpc[a][f] = "save"
    /\ ~MemLocked(a)
    /\ file' = None
    /\ Goto(a, f, "write")
    /\ UNCHANGED <<consulVars, appVars, watchVars, csnap, mem, tableVars, faults>>

\* and writes it. If the other instance has written in between, the end of its
\* text may remain behind this one.
SaveWrite(a, f) ==
    /\ cpc[a][f] = "write"
    /\ \/ file' = [mem[a] EXCEPT !.http = JSON(@)]
       \/ file # None /\ file' = None
    /\ Goto(a, f, "tcp")
    /\ UNCHANGED <<consulVars, appVars, watchVars, csnap, mem, tableVars, faults>>

\* Save fails before or after it has truncated the file; the converge goes on.
SaveFail(a, f) ==
    /\ cpc[a][f] \in {"save", "write"}
    /\ cpc[a][f] = "save" => ~MemLocked(a)
    /\ faults < MaxFaults
    /\ faults' = faults + 1
    /\ Goto(a, f, "tcp")
    /\ UNCHANGED <<consulVars, appVars, watchVars, csnap, mem, tableVars, file>>

\* The TCP table is replaced in any case, and the converge is done.
UpdateTCP(a, f) ==
    /\ cpc[a][f] = "tcp"
    /\ tcpTable' = [tcpTable EXCEPT ![a] = csnap[a][f].routes]
    /\ csnap' = [csnap EXCEPT ![a][f] = None]
    /\ Goto(a, f, "free")
    /\ UNCHANGED <<consulVars, appVars, watchVars, mem, httpTable, file, faults>>

Step(a, f) ==
    \/ Gate(a, f) \/ UpdateHTTP(a, f) \/ SetHTTPRouteHash(a, f)
    \/ SetState(a, f) \/ SaveTruncate(a, f) \/ SaveWrite(a, f) \/ UpdateTCP(a, f)

-----------------------------------------------------------------------------
(* The lifecycle of instance a.                                              *)

\* Load: without a file that can be parsed the state is empty.
Load == IF file = None THEN EmptyState ELSE file

\* Mutant: the HTTP table waits for the first converge.
ProvisionMutant(a) ==
    /\ phase[a] = "absent"
    /\ \A b \in Apps : phase[b] = "absent" => a <= b
    /\ \A b \in Apps : phase[b] \in {"provisioned", "started"} => b = serving
    /\ serving # None => faults < MaxFaults
    /\ faults' = IF serving = None THEN faults ELSE faults + 1
    /\ phase' = [phase EXCEPT ![a] = "provisioned"]
    /\ mem' = [mem EXCEPT ![a] = Load]
    /\ httpTable' = [httpTable EXCEPT ![a] = EmptyTable]
    /\ tcpTable' = [tcpTable EXCEPT ![a] = Load.tcp]
    /\ UNCHANGED <<consulVars, serving, watchVars, convVars, file>>

\* Provision: the tables start with the routes of the file. Caddy loads one
\* configuration at a time. (The first free slot is as good as any.)
Provision(a) ==
    /\ phase[a] = "absent"
    /\ \A b \in Apps : phase[b] = "absent" => a <= b
    /\ \A b \in Apps : phase[b] \in {"provisioned", "started"} => b = serving
    /\ serving # None => faults < MaxFaults
    /\ faults' = IF serving = None THEN faults ELSE faults + 1
    /\ phase' = [phase EXCEPT ![a] = "provisioned"]
    /\ mem' = [mem EXCEPT ![a] = Load]
    /\ httpTable' = [httpTable EXCEPT ![a] = Load.http]
    /\ tcpTable' = [tcpTable EXCEPT ![a] = Load.tcp]
    /\ UNCHANGED <<consulVars, serving, watchVars, convVars, file>>

\* Mutant: the index is restored without the services.
StartMutant(a) ==
    /\ phase[a] = "provisioned"
    /\ phase' = [phase EXCEPT ![a] = "started"]
    /\ serving' = a
    /\ wIndex' = [wIndex EXCEPT ![a] = mem[a].index]
    /\ UNCHANGED <<consulVars, cache, pending, convVars, mem, tableVars, file, faults>>

\* Start: the watcher resumes from the persisted services and index, if there
\* are any. From now on this instance serves.
Start(a) ==
    /\ phase[a] = "provisioned"
    /\ phase' = [phase EXCEPT ![a] = "started"]
    /\ serving' = a
    /\ LET restore == mem[a].index > 0 /\ mem[a].services # Nothing
       IN  /\ wIndex' = [wIndex EXCEPT ![a] = IF restore THEN mem[a].index ELSE 0]
           /\ cache' = [cache EXCEPT ![a] = IF restore THEN mem[a].services ELSE Nothing]
    /\ UNCHANGED <<consulVars, pending, convVars, mem, tableVars, file, faults>>

\* Stop of the outgoing instance: the debounce timer is stopped, a response or a
\* converge under way is not.
Stop(a) ==
    /\ phase[a] = "started"
    /\ serving # a
    /\ phase' = [phase EXCEPT ![a] = "stopped"]
    /\ pending' = [pending EXCEPT ![a] = FALSE]
    /\ UNCHANGED <<consulVars, serving, wIndex, cache, convVars, mem, tableVars, file,
                   faults>>

\* The reload fails in another module: the new instance is cleaned up before it
\* was started, and the old one goes on.
Abort(a) ==
    /\ phase[a] = "provisioned"
    /\ serving # None
    /\ phase' = [phase EXCEPT ![a] = "stopped"]
    /\ UNCHANGED <<consulVars, serving, watchVars, convVars, mem, tableVars, file, faults>>

\* Nothing refers to a stopped instance any more: its slot is free.
Collect(a) ==
    /\ phase[a] = "stopped"
    /\ ~pending[a] /\ \A f \in Flushes : cpc[a][f] = "free"
    /\ phase' = [phase EXCEPT ![a] = "absent"]
    /\ wIndex' = [wIndex EXCEPT ![a] = 0]
    /\ cache' = [cache EXCEPT ![a] = Nothing]
    /\ mem' = [mem EXCEPT ![a] = EmptyState]
    /\ httpTable' = [httpTable EXCEPT ![a] = EmptyTable]
    /\ tcpTable' = [tcpTable EXCEPT ![a] = NoRoutes]
    /\ UNCHANGED <<consulVars, serving, pending, convVars, file, faults>>

\* The process ends, by a crash or an exit: only the file remains.
Crash ==
    /\ serving # None
    /\ faults < MaxFaults
    /\ faults' = faults + 1
    /\ phase' = [a \in Apps |-> "absent"]
    /\ serving' = None
    /\ wIndex' = [a \in Apps |-> 0]
    /\ cache' = [a \in Apps |-> Nothing]
    /\ pending' = [a \in Apps |-> FALSE]
    /\ cpc' = [a \in Apps |-> [f \in Flushes |-> "free"]]
    /\ csnap' = [a \in Apps |-> [f \in Flushes |-> None]]
    /\ mem' = [a \in Apps |-> EmptyState]
    /\ httpTable' = [a \in Apps |-> EmptyTable]
    /\ tcpTable' = [a \in Apps |-> NoRoutes]
    /\ UNCHANGED <<consulVars, file>>

-----------------------------------------------------------------------------
Next ==
    \/ ConsulChange
    \/ \E a \in Apps :
          \/ WatchResponse(a) \/ FullSyncTick(a)
          \/ \E f \in Flushes : Flush(a, f) \/ Step(a, f) \/ SaveFail(a, f)
          \/ Provision(a) \/ Start(a) \/ Stop(a) \/ Abort(a) \/ Collect(a)
    \/ Crash

Spec == Init /\ [][Next]_vars

(***************************************************************************)
(* Fairness: the goroutines of the serving instance run, its queries       *)
(* return, its ticker ticks and its debounce timer fires; Caddy goes on    *)
(* with a reload. A converge that waits for the mutex of the state gets it *)
(* in the end. Nothing is assumed of Consul, of faults, of the start of    *)
(* the process, or of what an instance that was stopped still does.        *)
(***************************************************************************)
Serving(a) == a = serving

FairSpec ==
    /\ Spec
    /\ WF_vars(\E a \in Apps : Serving(a) /\ WatchResponse(a))
    /\ WF_vars(\E a \in Apps : Serving(a) /\ FullSyncTick(a))
    /\ WF_vars(\E a \in Apps, f \in Flushes : Serving(a) /\ Flush(a, f))
    /\ \A f \in Flushes : SF_vars(\E a \in Apps : Serving(a) /\ Step(a, f))
    /\ WF_vars(\E a \in Apps : Start(a) \/ Stop(a))

-----------------------------------------------------------------------------
(* Properties.                                                               *)

\* Every variable has its type.
TypeOK ==
    /\ consul \in Contents
    /\ index \in Nat
    /\ phase \in [Apps -> PhaseStates]
    /\ serving \in Apps \cup {None}
    /\ wIndex \in [Apps -> Nat]
    /\ cache \in [Apps -> Contents]
    /\ pending \in [Apps -> BOOLEAN]
    /\ cpc \in [Apps -> [Flushes -> ConvergeStates]]
    /\ csnap \in [Apps -> [Flushes -> Contents \cup {None}]]
    /\ \A a \in Apps, f \in Flushes : cpc[a][f] # "free" => csnap[a][f] \in Contents
    /\ mem \in [Apps -> States]
    /\ httpTable \in [Apps -> HTTPTables]
    /\ tcpTable \in [Apps -> Routes]
    /\ file \in States \cup {None}
    /\ faults \in Nat

\* No converge of instance a is under way.
Settled(a) == \A f \in Flushes : cpc[a][f] = "free"

\* Between converges an instance's HTTP table, which is updated only if a hash
\* has changed, and its TCP table, which always is, have the routes of the same
\* snapshot: after converges of any kind, failed saves, reloads and crashes. (It
\* needs one converge at a time.)
TablesAgree == \A a \in Apps : Settled(a) => httpTable[a].routes = tcpTable[a]

\* The state file, if it can be read, is of one converge: hash, HTTP routes, TCP
\* routes and services belong together, whichever instances wrote it, saved late
\* or were cut off. (It needs one converge at a time.)
FileOfOneConverge ==
    file # None =>
        /\ file.hash = file.http
        /\ file.http = JSON(Compiled(file.services))
        /\ file.tcp = file.services.routes

\* Once Consul and Caddy are quiet, the serving instance's tables have Consul's
\* routes and opt-outs, whatever was lost in a crash or a reload: the full sync
\* repairs an index that was saved with older services, and the hash never
\* stands in the way. (It needs one converge at a time.)
TablesConverge ==
    <>[](serving # None =>
            /\ HashRoutes(httpTable[serving]) = HashRoutes(Compiled(consul))
            /\ tcpTable[serving] = consul.routes)

\* While Consul has services the full sync publishes them again and again, so
\* that nothing an earlier converge did to the tables stays for ever.
FullSyncRepairs ==
    <>[](serving # None /\ consul # Nothing =>
            HashRoutes(httpTable[serving]) = HashRoutes(Compiled(consul)))

\* The precedence the README gives for no-cache headers: the service's list if
\* there is one, nothing if its value is empty, else the global list.
DocumentedNoCache(spec) ==
    CASE spec = "codes" -> "codes"
      [] spec = "empty" -> None
      [] OTHER -> "global"

\* Once all is quiet, responses are held against the matcher the README promises.
NoCacheFollowsMetadata ==
    <>[](serving # None =>
            EffectiveNoCacheMatcher(httpTable[serving]) = DocumentedNoCache(consul.noCache))

=============================================================================
