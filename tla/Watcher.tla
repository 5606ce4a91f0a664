------------------------------- MODULE Watcher -------------------------------
(***************************************************************************)
(* The Consul watcher of caddy-consul (src/watcher.go).                    *)
(*                                                                         *)
(* Three goroutines keep a cache of Consul's routable services:            *)
(*   "catalog"  a blocking query on the catalog finds new and removed      *)
(*              services;                                                  *)
(*   "health"   a blocking query on the passing checks of all services     *)
(*              flips Healthy flags, or re-fetches a service;              *)
(*   "sync"     a ticker re-fetches every routable service.                *)
(* Each change is queued in a debounce buffer; the debounce timer starts   *)
(* flushChanges in a goroutine of its own, which takes the buffer, clones  *)
(* the cache and hands the clone to onChange.                              *)
(*                                                                         *)
(* A step is what happens under one lock (mu or debounceMu) or one HTTP    *)
(* call: everything else of another goroutine may come in between.         *)
(***************************************************************************)
EXTENDS Integers, FiniteSets

CONSTANTS
    Services,        \* names of services in Consul
    Instances,       \* service IDs, per service
    Regs,            \* what an instance registers: tags, meta, address, port, weight
    TaggedRegs,      \* the registrations that carry a routing tag
    InstanceStates,  \* the states an instance may have in Consul
    HealthPolicy,    \* "passing", "warning" or "any"
    FullSync,        \* full_sync_interval > 0
    MayStop,         \* whether the app is stopped at some point
    Flushes,         \* slots for flushChanges goroutines: bounds how many overlap
    MaxIndex,        \* bound on Consul's raft index, that is on changes in Consul
    MaxErrors,       \* bound on failing Consul queries
    None             \* no instance, no service, nothing fetched

Status == {"passing", "warning", "critical"}

ASSUME PolicyAssumption == HealthPolicy \in {"passing", "warning", "any"}
ASSUME BoundsAssumption == MaxIndex \in Nat /\ MaxErrors \in Nat
ASSUME FlagsAssumption == FullSync \in BOOLEAN /\ MayStop \in BOOLEAN
ASSUME RegsAssumption == TaggedRegs \subseteq Regs
ASSUME InstanceStatesAssumption ==
    InstanceStates \subseteq [checks : SUBSET Status, node : SUBSET Status, reg : Regs]
ASSUME NoneAssumption == None \notin InstanceStates /\ None \notin Services

VARIABLES
    consul,       \* Consul's state: service -> instance -> state or None
    index,        \* Consul's raft index
    services,     \* w.services: the cache, service -> ServiceState or None
    routable,     \* w.routableServices
    lastPassing,  \* w.lastPassingChecks
    healthIndex,  \* w.healthStateIndex
    pc,           \* where each watching goroutine is
    catResp,      \* the routable names of the catalog response in hand
    healthResp,   \* the passing IDs of the health response in hand
    todo,         \* per goroutine, the names it has still to fetch in this round
    owed,         \* per goroutine, changes made under mu and not yet queued
    target,       \* per goroutine, the service of the fetch under way
    entries,      \* per goroutine, the fetched instances not yet stored
    pending,      \* w.pendingChanges, by service name
    timer,        \* w.debounceTimer is armed
    fpc,          \* where each flushChanges goroutine is
    fsnap,        \* the snapshot each flushChanges goroutine passes to onChange
    stop,         \* "no", "closed" (stopCh closed), "done" (and timer stopped)
    errors,       \* failed queries so far
    published,    \* the snapshot onChange was last called with
    lastSnap      \* history: the last snapshot any flush took

consulVars == <<consul, index>>
cacheVars == <<services, routable, lastPassing, healthIndex>>
respVars == <<catResp, healthResp>>
fetchVars == <<target, entries>>
roundVars == <<todo, owed>>
bufferVars == <<pending, timer>>
flushVars == <<fpc, fsnap, published, lastSnap>>
vars == <<consulVars, cacheVars, pc, respVars, roundVars, fetchVars, bufferVars,
          flushVars, stop, errors>>

Procs == {"catalog", "health", "sync"}
PcStates == {"loop", "query", "response", "queue", "fetch", "store", "enqueue", "exited"}
FlushStates == {"free", "take", "snapshot", "publish"}

ConsulStates == [Services -> [Instances -> InstanceStates \cup {None}]]
CachedInstances == [healthy : BOOLEAN, reg : Regs]
ServiceStates == [Instances -> CachedInstances \cup {None}]
Snapshots == [Services -> ServiceStates \cup {None}]

ASSUME SnapshotsAssumption == None \notin Snapshots

-----------------------------------------------------------------------------
(* What Consul answers, and how the watcher reads it.                        *)

\* hasCaddyRoutingTag: the tags of an instance signal routing.
HasCaddyRoutingTag(inst) == inst.reg \in TaggedRegs

\* The names reconcileServices keeps of a catalog response: the catalog lists a
\* service with the union of its instances' tags.
CurrentRoutable(c) ==
    {s \in Services : \E i \in Instances : c[s][i] # None /\ HasCaddyRoutingTag(c[s][i])}

\* isHealthy: the health policy applied to all checks of an instance, the
\* checks of its node included.
IsHealthy(inst) ==
    LET all == inst.checks \cup inst.node
    IN  \/ HealthPolicy = "any"
        \/ HealthPolicy = "warning" /\ "critical" \notin all
        \/ HealthPolicy = "passing" /\ all \subseteq {"passing"}

\* Consul's passing filter of /v1/health/service.
Listed(inst) == HealthPolicy = "passing" => inst.checks \cup inst.node \subseteq {"passing"}

\* The instances fetchServiceHealth builds from the answer for service s.
Fetched(c, s) ==
    [i \in Instances |->
        IF c[s][i] # None /\ Listed(c[s][i])
        THEN [healthy |-> IsHealthy(c[s][i]), reg |-> c[s][i].reg]
        ELSE None]

\* currentPassing of watchHealthState: the IDs with some passing check of their
\* own; checks of nodes are skipped.
CurrentPassing(c) ==
    [s \in Services |->
        {i \in Instances : c[s][i] # None /\ "passing" \in c[s][i].checks}]

-----------------------------------------------------------------------------
(* Initial states.                                                           *)

NoServices == [s \in Services |-> None]
NoPassing == [s \in Services |-> {}]

\* A watcher without persisted state.
InitFresh ==
    /\ consul \in ConsulStates
    /\ index = 1
    /\ services = NoServices
    /\ routable = {}
    /\ lastPassing = NoPassing
    /\ healthIndex = 0

\* RestoreState: the cache, passing checks and index of an earlier run, taken
\* when Consul was in state old; Consul may have moved on since. Start calls it
\* only when there is a persisted service.
RestoreState(old) ==
    /\ CurrentRoutable(old) # {}
    /\ services = [s \in Services |->
                      IF s \in CurrentRoutable(old) THEN Fetched(old, s) ELSE None]
    /\ routable = CurrentRoutable(old)
    /\ lastPassing = CurrentPassing(old)
    /\ healthIndex = 1
    /\ consul \in ConsulStates
    /\ index = IF consul = old THEN 1 ELSE 2

Init ==
    /\ InitFresh \/ \E old \in ConsulStates : RestoreState(old)
    /\ pc = [p \in Procs |-> "loop"]
    /\ catResp = {}
    /\ healthResp = NoPassing
    /\ todo = [p \in Procs |-> {}]
    /\ owed = [p \in Procs |-> {}]
    /\ target = [p \in Procs |-> None]
    /\ entries = [p \in Procs |-> None]
    /\ pending = {}
    /\ timer = FALSE
    /\ fpc = [f \in Flushes |-> "free"]
    /\ fsnap = [f \in Flushes |-> None]
    /\ stop = "no"
    /\ errors = 0
    /\ published = services
    /\ lastSnap = services

-----------------------------------------------------------------------------
(* Consul: any instance may be registered, deregistered or change state.     *)

ConsulChange ==
    /\ index < MaxIndex
    /\ \E s \in Services, i \in Instances, v \in InstanceStates \cup {None} :
          /\ v # consul[s][i]
          /\ consul' = [consul EXCEPT ![s][i] = v]
    /\ index' = index + 1
    /\ UNCHANGED <<cacheVars, pc, respVars, roundVars, fetchVars, bufferVars, flushVars,
                   stop, errors>>

-----------------------------------------------------------------------------
(* queueChanges: append to the buffer, re-arm the timer. It does not look at *)
(* stopCh.                                                                   *)

\* Mutant: do not re-arm the timer while a flush is under way.
QueueChangesMutant(names) ==
    /\ pending' = pending \cup names
    /\ timer' = (timer \/ \A f \in Flushes : fpc[f] = "free")

QueueChanges(names) ==
    /\ pending' = pending \cup names
    /\ timer' = TRUE

-----------------------------------------------------------------------------
(* The loops of the three goroutines.                                        *)

Goto(p, label) == pc' = [pc EXCEPT ![p] = label]

\* Top of the loop of watchCatalog and watchHealthState, and the stop case of
\* periodicFullSync's select: return once stopCh is closed.
LoopExit(p) ==
    /\ pc[p] = "loop"
    /\ stop # "no" \/ (p = "sync" /\ ~FullSync)
    /\ Goto(p, "exited")
    /\ UNCHANGED <<consulVars, cacheVars, respVars, roundVars, fetchVars, bufferVars,
                   flushVars, stop, errors>>

\* Mutant: the loop does not look at stopCh.
LoopQueryMutant(p) ==
    /\ p \in {"catalog", "health"}
    /\ pc[p] = "loop"
    /\ Goto(p, "query")
    /\ UNCHANGED <<consulVars, cacheVars, respVars, roundVars, fetchVars, bufferVars,
                   flushVars, stop, errors>>

\* Issue the blocking query. It is not cancelled by Stop.
LoopQuery(p) ==
    /\ p \in {"catalog", "health"}
    /\ pc[p] = "loop"
    /\ stop = "no"
    /\ Goto(p, "query")
    /\ UNCHANGED <<consulVars, cacheVars, respVars, roundVars, fetchVars, bufferVars,
                   flushVars, stop, errors>>

\* The query fails; after the backoff the loop starts again.
QueryError(p) ==
    /\ p \in {"catalog", "health"}
    /\ pc[p] = "query"
    /\ errors < MaxErrors
    /\ errors' = errors + 1
    /\ Goto(p, "loop")
    /\ UNCHANGED <<consulVars, cacheVars, respVars, roundVars, fetchVars, bufferVars,
                   flushVars, stop>>

\* The catalog query returns, because of a change or after its wait time: the
\* answer is reconciled either way.
CatalogResponse ==
    /\ pc["catalog"] = "query"
    /\ catResp' = CurrentRoutable(consul)
    /\ Goto("catalog", "response")
    /\ UNCHANGED <<consulVars, cacheVars, healthResp, roundVars, fetchVars, bufferVars,
                   flushVars, stop, errors>>

\* Mutant: a removal is not queued.
ReconcileServicesMutant ==
    /\ pc["catalog"] = "response"
    /\ services' = [s \in Services |-> IF s \in catResp THEN services[s] ELSE None]
    /\ todo' = [todo EXCEPT !["catalog"] = {s \in catResp : services[s] = None}]
    /\ Goto("catalog", "fetch")
    /\ routable' = catResp
    /\ catResp' = {}
    /\ UNCHANGED <<consulVars, lastPassing, healthIndex, healthResp, owed, fetchVars,
                   bufferVars, flushVars, stop, errors>>

\* reconcileServices, under mu: new services are to be fetched, services that
\* are gone leave the cache.
ReconcileServices ==
    /\ pc["catalog"] = "response"
    /\ LET removed == {s \in Services : services[s] # None /\ s \notin catResp}
       IN  /\ services' = [s \in Services |-> IF s \in removed THEN None ELSE services[s]]
           /\ owed' = [owed EXCEPT !["catalog"] = removed]
           /\ Goto("catalog", IF removed = {} THEN "fetch" ELSE "queue")
    /\ todo' = [todo EXCEPT !["catalog"] = {s \in catResp : services[s] = None}]
    /\ routable' = catResp
    /\ catResp' = {}
    /\ UNCHANGED <<consulVars, lastPassing, healthIndex, healthResp, fetchVars, bufferVars,
                   flushVars, stop, errors>>

\* The health query returns at an index the watcher has seen: loop again.
HealthUnchanged ==
    /\ pc["health"] = "query"
    /\ index = healthIndex
    /\ Goto("health", "loop")
    /\ UNCHANGED <<consulVars, cacheVars, respVars, roundVars, fetchVars, bufferVars,
                   flushVars, stop, errors>>

\* The health query returns at a new index, which is stored before the lock.
HealthResponse ==
    /\ pc["health"] = "query"
    /\ index # healthIndex
    /\ healthIndex' = index
    /\ healthResp' = CurrentPassing(consul)
    /\ Goto("health", "response")
    /\ UNCHANGED <<consulVars, services, routable, lastPassing, catResp, roundVars, fetchVars,
                   bufferVars, flushVars, stop, errors>>

\* The Healthy flags of service s set from the passing IDs.
Flip(s, passing) ==
    [i \in Instances |->
        IF services[s][i] = None
        THEN None
        ELSE [healthy |-> i \in passing, reg |-> services[s][i].reg]]

\* A changed service is re-fetched if the cache lacks one of its passing IDs or
\* has no instance at all.
NeedsRefetch(s, passing) ==
    \/ \E i \in passing : services[s][i] = None
    \/ \A i \in Instances : services[s][i] = None

\* The diff of watchHealthState, under mu. A changed service that is not in the
\* cache is skipped, but its passing IDs are remembered.
HealthDiff ==
    /\ pc["health"] = "response"
    /\ LET known   == {s \in routable : /\ lastPassing[s] # healthResp[s]
                                        /\ services[s] # None}
           refetch == {s \in known : NeedsRefetch(s, healthResp[s])}
           flipped == {s \in known \ refetch : Flip(s, healthResp[s]) # services[s]}
       IN  /\ services' = [s \in Services |->
                              IF s \in flipped THEN Flip(s, healthResp[s]) ELSE services[s]]
           /\ todo' = [todo EXCEPT !["health"] = refetch]
           /\ owed' = [owed EXCEPT !["health"] = flipped]
    /\ lastPassing' = healthResp
    /\ healthResp' = NoPassing
    /\ Goto("health", "fetch")
    /\ UNCHANGED <<consulVars, routable, healthIndex, catResp, fetchVars, bufferVars,
                   flushVars, stop, errors>>

\* fullSync collects the routable names, under a read lock. A tick that is
\* ready may win against a closed stopCh in the select.
SyncTick ==
    /\ FullSync
    /\ pc["sync"] = "loop"
    /\ todo' = [todo EXCEPT !["sync"] = routable]
    /\ Goto("sync", "fetch")
    /\ UNCHANGED <<consulVars, cacheVars, respVars, owed, fetchVars, bufferVars, flushVars,
                   stop, errors>>

\* queueChanges with the removals (catalog, before its fetches) or with the
\* flipped services (health, after its fetches).
QueueOwed(p) ==
    /\ pc[p] = "queue"
    /\ QueueChanges(owed[p])
    /\ owed' = [owed EXCEPT ![p] = {}]
    /\ Goto(p, IF p = "catalog" THEN "fetch" ELSE "loop")
    /\ UNCHANGED <<consulVars, cacheVars, respVars, todo, fetchVars, flushVars, stop, errors>>

-----------------------------------------------------------------------------
(* fetchServiceHealth, and the loops that call it for a list of names.       *)

\* reconcileServices and fullSync look at stopCh before each fetch; the
\* re-fetch loop of watchHealthState does not.
SeesStop(p) == p # "health" /\ stop # "no"

FetchStopped(p) ==
    /\ pc[p] = "fetch"
    /\ todo[p] # {}
    /\ SeesStop(p)
    /\ todo' = [todo EXCEPT ![p] = {}]
    /\ Goto(p, "loop")
    /\ UNCHANGED <<consulVars, cacheVars, respVars, owed, fetchVars, bufferVars, flushVars,
                   stop, errors>>

\* Consul answers for one of the names (Go's map order is arbitrary).
FetchRead(p) ==
    /\ pc[p] = "fetch"
    /\ ~SeesStop(p)
    /\ \E s \in todo[p] :
          /\ todo' = [todo EXCEPT ![p] = @ \ {s}]
          /\ target' = [target EXCEPT ![p] = s]
          /\ entries' = [entries EXCEPT ![p] = Fetched(consul, s)]
    /\ Goto(p, "store")
    /\ UNCHANGED <<consulVars, cacheVars, respVars, owed, bufferVars, flushVars, stop, errors>>

\* Mutant: no return after a failed query.
FetchErrorMutant(p) ==
    /\ pc[p] = "fetch"
    /\ errors < MaxErrors
    /\ errors' = errors + 1
    /\ \E s \in todo[p] : /\ todo' = [todo EXCEPT ![p] = @ \ {s}]
                           /\ target' = [target EXCEPT ![p] = s]
    /\ Goto(p, "store")
    /\ UNCHANGED <<consulVars, cacheVars, respVars, owed, entries, bufferVars, flushVars, stop>>

\* The query fails: the error is logged and the name skipped.
FetchError(p) ==
    /\ pc[p] = "fetch"
    /\ ~SeesStop(p)
    /\ errors < MaxErrors
    /\ errors' = errors + 1
    /\ \E s \in todo[p] : todo' = [todo EXCEPT ![p] = @ \ {s}]
    /\ UNCHANGED <<consulVars, cacheVars, pc, respVars, owed, fetchVars, bufferVars,
                   flushVars, stop>>

\* Mutant: only a service that is new to the cache is queued.
FetchStoreMutant(p) ==
    /\ pc[p] = "store"
    /\ services' = [services EXCEPT ![target[p]] = entries[p]]
    /\ entries' = [entries EXCEPT ![p] = None]
    /\ Goto(p, IF services[target[p]] = None THEN "enqueue" ELSE "fetch")
    /\ UNCHANGED <<consulVars, routable, lastPassing, healthIndex, respVars, roundVars,
                   target, bufferVars, flushVars, stop, errors>>

\* The answer replaces or creates the service in the cache, under mu, whatever
\* the cache or the routable set have become since the query.
FetchStore(p) ==
    /\ pc[p] = "store"
    /\ services' = [services EXCEPT ![target[p]] = entries[p]]
    /\ entries' = [entries EXCEPT ![p] = None]
    /\ Goto(p, "enqueue")
    /\ UNCHANGED <<consulVars, routable, lastPassing, healthIndex, respVars, roundVars,
                   target, bufferVars, flushVars, stop, errors>>

FetchEnqueue(p) ==
    /\ pc[p] = "enqueue"
    /\ QueueChanges({target[p]})
    /\ target' = [target EXCEPT ![p] = None]
    /\ Goto(p, "fetch")
    /\ UNCHANGED <<consulVars, cacheVars, respVars, roundVars, entries, flushVars, stop, errors>>

\* The list is done: watchHealthState queues its flips, if any; the others loop.
FetchDone(p) ==
    /\ pc[p] = "fetch"
    /\ todo[p] = {}
    /\ Goto(p, IF p = "health" /\ owed[p] # {} THEN "queue" ELSE "loop")
    /\ UNCHANGED <<consulVars, cacheVars, respVars, roundVars, fetchVars, bufferVars,
                   flushVars, stop, errors>>

-----------------------------------------------------------------------------
(* The debounce timer and flushChanges.                                      *)

\* The timer expires: flushChanges runs in a goroutine of its own, beside any
\* earlier one that has not returned.
TimerFire(f) ==
    /\ timer
    /\ fpc[f] = "free"
    /\ timer' = FALSE
    /\ fpc' = [fpc EXCEPT ![f] = "take"]
    /\ UNCHANGED <<consulVars, cacheVars, pc, respVars, roundVars, fetchVars, pending, fsnap,
                   published, lastSnap, stop, errors>>

\* Take the buffer, under debounceMu; return if it is empty.
FlushTake(f) ==
    /\ fpc[f] = "take"
    /\ pending' = {}
    /\ fpc' = [fpc EXCEPT ![f] = IF pending = {} THEN "free" ELSE "snapshot"]
    /\ UNCHANGED <<consulVars, cacheVars, pc, respVars, roundVars, fetchVars, timer, fsnap,
                   published, lastSnap, stop, errors>>

\* Clone the cache, under a read lock.
FlushSnapshot(f) ==
    /\ fpc[f] = "snapshot"
    /\ fsnap' = [fsnap EXCEPT ![f] = services]
    /\ lastSnap' = services
    /\ fpc' = [fpc EXCEPT ![f] = "publish"]
    /\ UNCHANGED <<consulVars, cacheVars, pc, respVars, roundVars, fetchVars, bufferVars,
                   published, stop, errors>>

\* Mutant: onChange gets the cache as it is by now instead of the clone.
FlushPublishMutant(f) ==
    /\ fpc[f] = "publish"
    /\ published' = services
    /\ fsnap' = [fsnap EXCEPT ![f] = None]
    /\ fpc' = [fpc EXCEPT ![f] = "free"]
    /\ UNCHANGED <<consulVars, cacheVars, pc, respVars, roundVars, fetchVars, bufferVars,
                   lastSnap, stop, errors>>

\* onChange takes effect with this snapshot (onServicesChanged in src/consul.go).
FlushPublish(f) ==
    /\ fpc[f] = "publish"
    /\ published' = fsnap[f]
    /\ fsnap' = [fsnap EXCEPT ![f] = None]
    /\ fpc' = [fpc EXCEPT ![f] = "free"]
    /\ UNCHANGED <<consulVars, cacheVars, pc, respVars, roundVars, fetchVars, bufferVars,
                   lastSnap, stop, errors>>

-----------------------------------------------------------------------------
(* Stop.                                                                     *)

StopClose ==
    /\ MayStop
    /\ stop = "no"
    /\ stop' = "closed"
    /\ UNCHANGED <<consulVars, cacheVars, pc, respVars, roundVars, fetchVars, bufferVars,
                   flushVars, errors>>

StopTimer ==
    /\ stop = "closed"
    /\ stop' = "done"
    /\ timer' = FALSE
    /\ UNCHANGED <<consulVars, cacheVars, pc, respVars, roundVars, fetchVars, pending,
                   flushVars, errors>>

-----------------------------------------------------------------------------
Loop(p) == LoopExit(p) \/ LoopQuery(p)

Fetch(p) ==
    \/ FetchStopped(p)
    \/ FetchRead(p)
    \/ FetchStore(p)
    \/ FetchEnqueue(p)
    \/ FetchDone(p)

Catalog == CatalogResponse \/ ReconcileServices
Health == HealthUnchanged \/ HealthResponse \/ HealthDiff
Failure(p) == QueryError(p) \/ FetchError(p)
Flush(f) == FlushTake(f) \/ FlushSnapshot(f) \/ FlushPublish(f)
Stop == StopClose \/ StopTimer

\* A stopped watcher has ended: keeps TLC from calling this a deadlock.
Ended ==
    /\ \A p \in Procs : pc[p] = "exited"
    /\ ~timer
    /\ \A f \in Flushes : fpc[f] = "free"

Terminated == stop = "done" /\ Ended /\ UNCHANGED vars

Next ==
    \/ ConsulChange
    \/ \E p \in Procs : Loop(p) \/ QueueOwed(p) \/ Fetch(p) \/ Failure(p)
    \/ Catalog
    \/ Health
    \/ SyncTick
    \/ \E f \in Flushes : TimerFire(f) \/ Flush(f)
    \/ Stop
    \/ Terminated

Spec == Init /\ [][Next]_vars

(***************************************************************************)
(* Fairness. The Go scheduler runs every goroutine; a blocking query       *)
(* returns after its wait time at the latest; a ticker ticks. A closed     *)
(* stopCh is chosen in the select at the latest when no tick is ready.     *)
(*                                                                         *)
(* queueChanges re-arms the debounce timer, so the timer is only certain   *)
(* to expire in a lull, when no goroutine is on its way to queue changes:  *)
(* poll_interval (50ms) is shorter than debounce (500ms).                  *)
(***************************************************************************)
Queueing(p) ==
    \/ pc[p] \in {"queue", "store", "enqueue"}
    \/ pc[p] = "fetch" /\ todo[p] # {}

Lull == \A p \in Procs : ~Queueing(p)

LullFire == Lull /\ \E f \in Flushes : TimerFire(f)

GoroutineFairness ==
    /\ \A p \in Procs : WF_vars(Loop(p) \/ QueueOwed(p) \/ Fetch(p))
    /\ WF_vars(Catalog)
    /\ WF_vars(Health)
    /\ WF_vars(SyncTick)
    /\ SF_vars(LoopExit("sync"))
    /\ \A f \in Flushes : WF_vars(Flush(f))
    /\ WF_vars(StopTimer)

\* Lulls longer than the debounce window keep occurring: a full sync takes less
\* time than full_sync_interval, by more than debounce.
FairSpec == Spec /\ GoroutineFairness /\ SF_vars(LullFire)

-----------------------------------------------------------------------------
(* Properties.                                                               *)

\* Every variable has its type.
TypeOK ==
    /\ consul \in ConsulStates
    /\ index \in Nat
    /\ services \in Snapshots
    /\ routable \subseteq Services
    /\ lastPassing \in [Services -> SUBSET Instances]
    /\ healthIndex \in Nat
    /\ pc \in [Procs -> PcStates]
    /\ catResp \subseteq Services
    /\ healthResp \in [Services -> SUBSET Instances]
    /\ todo \in [Procs -> SUBSET Services]
    /\ owed \in [Procs -> SUBSET Services]
    /\ target \in [Procs -> Services \cup {None}]
    /\ entries \in [Procs -> ServiceStates \cup {None}]
    /\ \A p \in Procs :
          /\ pc[p] \in {"store", "enqueue"} => target[p] \in Services
          /\ pc[p] = "store" => entries[p] \in ServiceStates
    /\ pending \subseteq Services
    /\ timer \in BOOLEAN
    /\ fpc \in [Flushes -> FlushStates]
    /\ fsnap \in [Flushes -> Snapshots \cup {None}]
    /\ \A f \in Flushes : fpc[f] = "publish" => fsnap[f] \in Snapshots
    /\ stop \in {"no", "closed", "done"}
    /\ errors \in Nat
    /\ published \in Snapshots
    /\ lastSnap \in Snapshots

\* The changes goroutine p has made to the cache and not yet queued.
Unqueued(p) == owed[p] \cup (IF pc[p] = "enqueue" THEN {target[p]} ELSE {})

\* No change of the cache is lost on its way to onChange: a service whose cached
\* state differs from the last snapshot is in the buffer, is still to be queued
\* by the goroutine that changed it, or a flush that has taken the buffer has
\* still to take its snapshot (mu and debounceMu are never held together).
NoLostChange ==
    \A s \in Services : services[s] # lastSnap[s] =>
        \/ s \in pending
        \/ \E p \in Procs : s \in Unqueued(p)
        \/ \E f \in Flushes : fpc[f] = "snapshot"

\* A goroutine that owes changes is in the part of its round that ends in
\* queueChanges: no path through reconcileServices or watchHealthState returns
\* or loops with changes in hand.
OwedIsQueued ==
    \A p \in Procs : owed[p] # {} =>
        \/ p = "catalog" /\ pc[p] = "queue"
        \/ p = "health" /\ pc[p] \in {"queue", "fetch", "store", "enqueue"}

\* No wakeup is lost between queueChanges and flushChanges: while the buffer
\* holds a change, the timer is armed or a flush is about to take the buffer,
\* however re-arming and expiry interleave, until Stop has stopped the timer.
NoLostWakeup ==
    pending # {} => timer \/ (\E f \in Flushes : fpc[f] = "take") \/ stop = "done"

\* What a snapshot routes to: the healthy instances of each service.
Upstreams(snap) ==
    [s \in Services |->
        IF snap[s] = None
        THEN {}
        ELSE {<<i, snap[s][i].reg>> :
                 i \in {j \in Instances : snap[s][j] # None /\ snap[s][j].healthy}}]

\* What Consul and the health policy ask for.
Truth ==
    [s \in Services |->
        IF s \notin CurrentRoutable(consul)
        THEN {}
        ELSE {<<i, consul[s][i].reg>> :
                 i \in {j \in Instances : consul[s][j] # None /\ IsHealthy(consul[s][j])}}]

\* Once Consul stops changing, what onChange was last given routes to exactly
\* the instances Consul has, whatever fetches, flips and removals raced before:
\* a periodic full sync repairs them, until Stop. (It needs one flush at a time.)
RoutesConverge == <>[](stop = "no" => Upstreams(published) = Truth)

\* After Stop the three goroutines return, the timer is off for good and no
\* flush is left, although Stop neither waits for a goroutine nor cancels a
\* query, and a late queueChanges may re-arm the timer.
StopEndsWatcher ==
    stop = "done" ~> []Ended

ToFeed == INSTANCE Feed WITH cache <- services, taken <- lastSnap, held <- fsnap

\* The watcher with its goroutines, two locks, buffer and timer is a Feed: a
\* flush hands on one copy of the whole cache, taken at one moment, once; and
\* until Stop a change of the cache is never left out for ever.
ImplementsFeed == ToFeed!Spec /\ ([](stop = "no") => ToFeed!Fairness)

=============================================================================
