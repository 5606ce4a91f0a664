---------------------------- MODULE WatcherProofs ----------------------------
(***************************************************************************)
(* Proofs about the watcher, for any sets of services, instances and       *)
(* flushChanges goroutines, any health policy and any bounds.              *)
(***************************************************************************)
EXTENDS Watcher, TLAPS

\* What fetchServiceHealth builds is a service state.
LEMMA FetchedType ==
    ASSUME NEW c \in ConsulStates, NEW s \in Services
    PROVE  Fetched(c, s) \in ServiceStates
<1> SUFFICES ASSUME NEW i \in Instances, c[s][i] # None
             PROVE  [healthy |-> IsHealthy(c[s][i]), reg |-> c[s][i].reg] \in CachedInstances
    BY DEF Fetched, ServiceStates
<1>1. c[s][i] \in InstanceStates
    BY DEF ConsulStates
<1>2. c[s][i].reg \in Regs
    BY <1>1, InstanceStatesAssumption
<1>3. IsHealthy(c[s][i]) \in BOOLEAN
    BY DEF IsHealthy
<1> QED
    BY <1>2, <1>3 DEF CachedInstances

\* The passing IDs of a health response are sets of instances, per service.
LEMMA CurrentPassingType ==
    ASSUME NEW c
    PROVE  CurrentPassing(c) \in [Services -> SUBSET Instances]
BY DEF CurrentPassing

\* Setting Healthy flags keeps a service state a service state.
LEMMA FlipType ==
    ASSUME NEW s \in Services, services[s] \in ServiceStates, NEW passing
    PROVE  Flip(s, passing) \in ServiceStates
<1> SUFFICES ASSUME NEW i \in Instances, services[s][i] # None
             PROVE  [healthy |-> i \in passing, reg |-> services[s][i].reg] \in CachedInstances
    BY DEF Flip, ServiceStates
<1>1. services[s][i] \in CachedInstances
    BY DEF ServiceStates
<1>2. services[s][i].reg \in Regs
    BY <1>1 DEF CachedInstances
<1>3. (i \in passing) \in BOOLEAN
    OBVIOUS
<1> QED
    BY <1>2, <1>3 DEF CachedInstances

\* The initial states, fresh or restored, are well typed.
LEMMA TypeInit == Init => TypeOK
<1> SUFFICES ASSUME Init PROVE TypeOK
    OBVIOUS
<1>1. CASE InitFresh
    BY <1>1 DEF Init, InitFresh, TypeOK, NoServices, NoPassing, Snapshots, Procs, PcStates,
                FlushStates
<1>2. CASE \E old \in ConsulStates : RestoreState(old)
    <2>1. PICK old \in ConsulStates : RestoreState(old)
        BY <1>2
    <2>2. services \in Snapshots
        BY <2>1, FetchedType DEF RestoreState, Snapshots
    <2>3. /\ routable \subseteq Services
          /\ lastPassing \in [Services -> SUBSET Instances]
          /\ healthIndex \in Nat /\ index \in Nat /\ consul \in ConsulStates
        BY <2>1, CurrentPassingType DEF RestoreState, CurrentRoutable
    <2> QED
        BY <2>2, <2>3 DEF Init, TypeOK, NoPassing, Procs, PcStates, FlushStates
<1> QED
    BY <1>1, <1>2 DEF Init

\* Every step keeps the types.
LEMMA TypeStep == TypeOK /\ [Next]_vars => TypeOK'
<1> SUFFICES ASSUME TypeOK, [Next]_vars
             PROVE  TypeOK'
    OBVIOUS
<1> USE DEF consulVars, cacheVars, respVars, fetchVars, roundVars, bufferVars,
           flushVars, TypeOK, Procs, PcStates, Goto
<1>1. CASE ConsulChange
    BY <1>1 DEF ConsulChange, ConsulStates
<1>2. ASSUME NEW p \in Procs, Loop(p)
      PROVE  TypeOK'
    BY <1>2 DEF Loop, LoopExit, LoopQuery
<1>3. ASSUME NEW p \in Procs, QueueOwed(p)
      PROVE  TypeOK'
    BY <1>3 DEF QueueOwed, QueueChanges
<1>4. ASSUME NEW p \in Procs, Fetch(p)
      PROVE  TypeOK'
    <2>1. CASE FetchStopped(p)
        BY <2>1 DEF FetchStopped
    <2>2. CASE FetchRead(p)
        BY <2>2, FetchedType DEF FetchRead
    <2>3. CASE FetchStore(p)
        BY <2>3 DEF FetchStore, Snapshots
    <2>4. CASE FetchEnqueue(p)
        BY <2>4 DEF FetchEnqueue, QueueChanges
    <2>5. CASE FetchDone(p)
        BY <2>5 DEF FetchDone
    <2> QED
        BY <1>4, <2>1, <2>2, <2>3, <2>4, <2>5 DEF Fetch
<1>5. ASSUME NEW p \in Procs, Failure(p)
      PROVE  TypeOK'
    BY <1>5 DEF Failure, QueryError, FetchError
<1>6. CASE CatalogResponse
    BY <1>6 DEF CatalogResponse, CurrentRoutable
<1>7. CASE ReconcileServices
    BY <1>7 DEF ReconcileServices, Snapshots
<1>8. CASE HealthUnchanged
    BY <1>8 DEF HealthUnchanged
<1>9. CASE HealthResponse
    BY <1>9, CurrentPassingType DEF HealthResponse
<1>10. CASE HealthDiff
    <2> DEFINE known   == {s \in routable : /\ lastPassing[s] # healthResp[s]
                                             /\ services[s] # None}
               refetch == {s \in known : NeedsRefetch(s, healthResp[s])}
               flipped == {s \in known \ refetch : Flip(s, healthResp[s]) # services[s]}
    <2>1. /\ services' = [s \in Services |->
                            IF s \in flipped THEN Flip(s, healthResp[s]) ELSE services[s]]
          /\ todo' = [todo EXCEPT !["health"] = refetch]
          /\ owed' = [owed EXCEPT !["health"] = flipped]
        BY <1>10 DEF HealthDiff
    <2>2. \A s \in flipped : s \in Services /\ services[s] \in ServiceStates
        BY DEF Snapshots
    <2>3. services' \in Snapshots
        BY <2>1, <2>2, FlipType DEF Snapshots
    <2>4. refetch \subseteq Services /\ flipped \subseteq Services
        OBVIOUS
    <2> HIDE DEF known, refetch, flipped
    <2> QED
        BY <1>10, <2>1, <2>3, <2>4 DEF HealthDiff, NoPassing
<1>11. CASE SyncTick
    BY <1>11 DEF SyncTick
<1>12. ASSUME NEW f \in Flushes, TimerFire(f)
       PROVE  TypeOK'
    BY <1>12 DEF TimerFire, FlushStates
<1>13. ASSUME NEW f \in Flushes, Flush(f)
       PROVE  TypeOK'
    BY <1>13 DEF Flush, FlushTake, FlushSnapshot, FlushPublish, FlushStates
<1>14. CASE Stop
    BY <1>14 DEF Stop, StopClose, StopTimer
<1>15. CASE UNCHANGED vars
    BY <1>15 DEF vars
<1> QED
    BY <1>1, <1>2, <1>3, <1>4, <1>5, <1>6, <1>7, <1>8, <1>9, <1>10, <1>11, <1>12, <1>13,
       <1>14, <1>15 DEF Next, Catalog, Health, Terminated

\* Every variable keeps its type: no query answer, error path or overlap of
\* goroutines puts anything else in the cache or in a snapshot.
THEOREM TypeCorrect == Spec => []TypeOK
<1>1. Init => TypeOK
    BY TypeInit
<1>2. TypeOK /\ [Next]_vars => TypeOK'
    BY TypeStep
<1> QED
    BY <1>1, <1>2, PTL DEF Spec

-----------------------------------------------------------------------------
(* No change and no wakeup is lost. Neither invariant is inductive alone: a    *)
(* reconcile or a diff overwrites the changes its goroutine owes, so it has to *)
(* be known that it owes none at that point (OwedIsQueued).                    *)

Inv == TypeOK /\ OwedIsQueued /\ NoLostChange /\ NoLostWakeup

\* Every step keeps OwedIsQueued.
LEMMA OwedStep == TypeOK /\ OwedIsQueued /\ [Next]_vars => OwedIsQueued'
<1> SUFFICES ASSUME TypeOK, OwedIsQueued, [Next]_vars
             PROVE  OwedIsQueued'
    OBVIOUS
<1> USE DEF consulVars, cacheVars, respVars, fetchVars, roundVars, bufferVars,
           flushVars, OwedIsQueued, Procs, Goto
<1>0. pc \in [Procs -> PcStates] /\ owed \in [Procs -> SUBSET Services]
    BY DEF TypeOK
<1>1. ASSUME NEW p \in Procs, Loop(p) \/ QueueOwed(p) \/ Failure(p)
      PROVE  OwedIsQueued'
    BY <1>0, <1>1 DEF Loop, LoopExit, LoopQuery, QueueOwed, Failure, QueryError, FetchError
<1>2. ASSUME NEW p \in Procs, Fetch(p)
      PROVE  OwedIsQueued'
    BY <1>0, <1>2 DEF Fetch, FetchStopped, FetchRead, FetchStore, FetchEnqueue, FetchDone,
                      SeesStop
<1>3. CASE CatalogResponse \/ HealthUnchanged \/ HealthResponse \/ SyncTick
    BY <1>0, <1>3 DEF CatalogResponse, HealthUnchanged, HealthResponse, SyncTick
<1>4. CASE ReconcileServices
    BY <1>0, <1>4 DEF ReconcileServices
<1>5. CASE HealthDiff
    BY <1>0, <1>5 DEF HealthDiff
<1>6. ASSUME NEW f \in Flushes, TimerFire(f) \/ Flush(f)
      PROVE  OwedIsQueued'
    BY <1>6 DEF TimerFire, Flush, FlushTake, FlushSnapshot, FlushPublish
<1>7. CASE ConsulChange \/ Stop \/ UNCHANGED vars
    BY <1>7 DEF ConsulChange, Stop, StopClose, StopTimer, vars
<1> QED
    BY <1>1, <1>2, <1>3, <1>4, <1>5, <1>6, <1>7 DEF Next, Catalog, Health, Terminated

\* Every step keeps NoLostWakeup.
LEMMA WakeupStep == TypeOK /\ NoLostWakeup /\ [Next]_vars => NoLostWakeup'
<1> SUFFICES ASSUME TypeOK, NoLostWakeup, [Next]_vars
             PROVE  NoLostWakeup'
    OBVIOUS
<1> USE DEF consulVars, cacheVars, respVars, fetchVars, roundVars, bufferVars,
           flushVars, NoLostWakeup
<1>0. fpc \in [Flushes -> FlushStates]
    BY DEF TypeOK
<1>1. ASSUME NEW p \in Procs, Loop(p) \/ QueueOwed(p) \/ Failure(p)
      PROVE  NoLostWakeup'
    BY <1>1 DEF Loop, LoopExit, LoopQuery, QueueOwed, Failure, QueryError, FetchError,
                QueueChanges
<1>2. ASSUME NEW p \in Procs, Fetch(p)
      PROVE  NoLostWakeup'
    BY <1>2 DEF Fetch, FetchStopped, FetchRead, FetchStore, FetchEnqueue, FetchDone,
                QueueChanges
<1>3. CASE Catalog \/ Health \/ SyncTick \/ ConsulChange \/ UNCHANGED vars
    BY <1>3 DEF Catalog, CatalogResponse, ReconcileServices, Health, HealthUnchanged,
                HealthResponse, HealthDiff, SyncTick, ConsulChange, vars
<1>4. ASSUME NEW f \in Flushes, TimerFire(f)
      PROVE  NoLostWakeup'
    BY <1>0, <1>4 DEF TimerFire
<1>5. ASSUME NEW f \in Flushes, Flush(f)
      PROVE  NoLostWakeup'
    <2>1. CASE FlushTake(f)
        BY <2>1 DEF FlushTake
    <2>2. CASE FlushSnapshot(f) \/ FlushPublish(f)
        BY <1>0, <2>2 DEF FlushSnapshot, FlushPublish
    <2> QED
        BY <1>5, <2>1, <2>2 DEF Flush
<1>6. CASE Stop
    BY <1>6 DEF Stop, StopClose, StopTimer
<1> QED
    BY <1>1, <1>2, <1>3, <1>4, <1>5, <1>6 DEF Next, Terminated

\* Every step keeps NoLostChange.
LEMMA ChangeStep == Inv /\ [Next]_vars => NoLostChange'
<1> SUFFICES ASSUME Inv, [Next]_vars
             PROVE  NoLostChange'
    OBVIOUS
<1> USE DEF consulVars, cacheVars, respVars, fetchVars, roundVars, bufferVars,
           flushVars, NoLostChange, Unqueued, Goto
<1>0. /\ pc \in [Procs -> PcStates] /\ owed \in [Procs -> SUBSET Services]
      /\ target \in [Procs -> Services \cup {None}]
      /\ services \in Snapshots /\ fpc \in [Flushes -> FlushStates]
      /\ pending \subseteq Services
      /\ NoLostChange
    BY DEF Inv, TypeOK
<1>1. ASSUME NEW p \in Procs, Loop(p) \/ Failure(p)
      PROVE  NoLostChange'
    BY <1>0, <1>1 DEF Loop, LoopExit, LoopQuery, Failure, QueryError, FetchError
<1>2. ASSUME NEW p \in Procs, QueueOwed(p)
      PROVE  NoLostChange'
    BY <1>0, <1>2 DEF QueueOwed, QueueChanges
<1>3. ASSUME NEW p \in Procs, Fetch(p)
      PROVE  NoLostChange'
    <2>1. CASE FetchStopped(p) \/ FetchRead(p) \/ FetchDone(p)
        BY <1>0, <2>1 DEF FetchStopped, FetchRead, FetchDone
    <2>2. CASE FetchStore(p)
        <3>1. ASSUME NEW s \in Services, s # target[p]
              PROVE  services'[s] = services[s]
            BY <1>0, <2>2, <3>1 DEF FetchStore, Snapshots
        <3>2. target[p] \in Unqueued(p)'
            BY <1>0, <2>2 DEF FetchStore
        <3> QED
            BY <1>0, <2>2, <3>1, <3>2 DEF FetchStore
    <2>3. CASE FetchEnqueue(p)
        BY <1>0, <2>3 DEF FetchEnqueue, QueueChanges
    <2> QED
        BY <1>3, <2>1, <2>2, <2>3 DEF Fetch
<1>4. CASE CatalogResponse \/ HealthUnchanged \/ HealthResponse \/ SyncTick
    BY <1>0, <1>4 DEF CatalogResponse, HealthUnchanged, HealthResponse, SyncTick
<1>5. CASE ReconcileServices
    <2>1. owed["catalog"] = {} /\ pc["catalog"] = "response"
        BY <1>0, <1>5 DEF ReconcileServices, Inv, OwedIsQueued, Procs
    <2>2. ASSUME NEW s \in Services, services'[s] # services[s]
          PROVE  s \in owed'["catalog"]
        BY <1>0, <1>5, <2>2 DEF ReconcileServices, Procs
    <2> QED
        BY <1>0, <1>5, <2>1, <2>2 DEF ReconcileServices, Procs
<1>6. CASE HealthDiff
    <2>1. owed["health"] = {} /\ pc["health"] = "response"
        BY <1>0, <1>6 DEF HealthDiff, Inv, OwedIsQueued, Procs
    <2>2. ASSUME NEW s \in Services, services'[s] # services[s]
          PROVE  s \in owed'["health"]
        BY <1>0, <1>6, <2>2 DEF HealthDiff, Procs
    <2> QED
        BY <1>0, <1>6, <2>1, <2>2 DEF HealthDiff, Procs
<1>7. ASSUME NEW f \in Flushes, TimerFire(f) \/ Flush(f)
      PROVE  NoLostChange'
    <2>1. CASE TimerFire(f)
        BY <1>0, <2>1 DEF TimerFire
    <2>2. CASE FlushTake(f)
        BY <1>0, <2>2 DEF FlushTake
    <2>3. CASE FlushSnapshot(f)
        BY <2>3 DEF FlushSnapshot
    <2>4. CASE FlushPublish(f)
        BY <1>0, <2>4 DEF FlushPublish
    <2> QED
        BY <1>7, <2>1, <2>2, <2>3, <2>4 DEF Flush
<1>8. CASE ConsulChange \/ Stop \/ UNCHANGED vars
    BY <1>0, <1>8 DEF ConsulChange, Stop, StopClose, StopTimer, vars
<1> QED
    BY <1>1, <1>2, <1>3, <1>4, <1>5, <1>6, <1>7, <1>8 DEF Next, Catalog, Health, Terminated

\* The inductive invariant.
THEOREM InvHolds == Spec => []Inv
<1>1. Init => Inv
    BY TypeInit DEF Init, Inv, OwedIsQueued, NoLostChange, NoLostWakeup
<1>2. Inv /\ [Next]_vars => Inv'
    BY TypeStep, OwedStep, WakeupStep, ChangeStep DEF Inv
<1> QED
    BY <1>1, <1>2, PTL DEF Spec

\* A change of the cache always reaches a later snapshot's buffer, or is on its
\* way there, for any number of services, goroutines and overlapping flushes.
THEOREM ChangesAreNotLost == Spec => []NoLostChange
<1>1. Inv => NoLostChange
    BY DEF Inv
<1> QED
    BY <1>1, InvHolds, PTL

\* A buffered change always has a timer or a flush that will take it, until Stop.
THEOREM WakeupsAreNotLost == Spec => []NoLostWakeup
<1>1. Inv => NoLostWakeup
    BY DEF Inv
<1> QED
    BY <1>1, InvHolds, PTL

-----------------------------------------------------------------------------
(* The watcher implements Feed. Its steps map to steps of Feed because a flush *)
(* holds a snapshot exactly while it is about to publish (HoldsToPublish).     *)

HoldsToPublish == \A f \in Flushes : fpc[f] # "publish" => fsnap[f] = None

\* Every step keeps HoldsToPublish.
LEMMA HoldsStep == TypeOK /\ HoldsToPublish /\ [Next]_vars => HoldsToPublish'
<1> SUFFICES ASSUME TypeOK, HoldsToPublish, [Next]_vars
             PROVE  HoldsToPublish'
    OBVIOUS
<1> USE DEF HoldsToPublish, flushVars
<1>0. fpc \in [Flushes -> FlushStates] /\ fsnap \in [Flushes -> Snapshots \cup {None}]
    BY DEF TypeOK
<1>1. ASSUME NEW f \in Flushes, TimerFire(f) \/ Flush(f)
      PROVE  HoldsToPublish'
    BY <1>0, <1>1 DEF TimerFire, Flush, FlushTake, FlushSnapshot, FlushPublish
<1>2. ASSUME NEW p \in Procs, Loop(p) \/ QueueOwed(p) \/ Fetch(p) \/ Failure(p)
      PROVE  HoldsToPublish'
    BY <1>2 DEF Loop, LoopExit, LoopQuery, QueueOwed, Fetch, FetchStopped, FetchRead, FetchStore,
                FetchEnqueue, FetchDone, Failure, QueryError, FetchError
<1>3. CASE Catalog \/ Health \/ SyncTick \/ ConsulChange \/ Stop \/ UNCHANGED vars
    BY <1>3 DEF Catalog, CatalogResponse, ReconcileServices, Health, HealthUnchanged,
                HealthResponse, HealthDiff, SyncTick, ConsulChange, Stop, StopClose, StopTimer,
                vars
<1> QED
    BY <1>1, <1>2, <1>3 DEF Next, Terminated

\* A step that leaves the flushes alone, and keeps the cache a snapshot, is a
\* change of the feed's cache or nothing.
LEMMA QuietStep ==
    ASSUME services' \in Snapshots, UNCHANGED <<lastSnap, fsnap, published>>
    PROVE  [ToFeed!Next]_(ToFeed!vars)
BY DEF ToFeed!Next, ToFeed!Change, ToFeed!vars

\* Every step of the watcher is a step of the feed, or none.
LEMMA FeedStep ==
    TypeOK /\ TypeOK' /\ HoldsToPublish /\ [Next]_vars => [ToFeed!Next]_(ToFeed!vars)
<1> SUFFICES ASSUME TypeOK, TypeOK', HoldsToPublish, [Next]_vars
             PROVE  [ToFeed!Next]_(ToFeed!vars)
    OBVIOUS
<1>0. services' \in Snapshots
    BY DEF TypeOK
<1>1. ASSUME NEW f \in Flushes, FlushSnapshot(f)
      PROVE  [ToFeed!Next]_(ToFeed!vars)
    <2>1. ToFeed!Take(f)
        BY <1>1 DEF FlushSnapshot, HoldsToPublish, ToFeed!Take, cacheVars
    <2> QED
        BY <2>1 DEF ToFeed!Next
<1>2. ASSUME NEW f \in Flushes, FlushPublish(f)
      PROVE  [ToFeed!Next]_(ToFeed!vars)
    <2>1. fsnap[f] # None
        BY <1>2, SnapshotsAssumption DEF FlushPublish, TypeOK
    <2>2. ToFeed!Deliver(f)
        BY <1>2, <2>1 DEF FlushPublish, ToFeed!Deliver, cacheVars
    <2> QED
        BY <2>2 DEF ToFeed!Next
<1>3. ASSUME NEW f \in Flushes, TimerFire(f) \/ FlushTake(f)
      PROVE  [ToFeed!Next]_(ToFeed!vars)
    BY <1>0, <1>3, QuietStep DEF TimerFire, FlushTake
<1>4. ASSUME NEW p \in Procs, Loop(p) \/ QueueOwed(p) \/ Fetch(p) \/ Failure(p)
      PROVE  [ToFeed!Next]_(ToFeed!vars)
    <2>1. UNCHANGED <<lastSnap, fsnap, published>>
        BY <1>4 DEF Loop, LoopExit, LoopQuery, QueueOwed, Fetch, FetchStopped, FetchRead,
                    FetchStore, FetchEnqueue, FetchDone, Failure, QueryError, FetchError,
                    flushVars
    <2> QED
        BY <1>0, <2>1, QuietStep
<1>5. CASE Catalog \/ Health \/ SyncTick \/ ConsulChange \/ Stop \/ UNCHANGED vars
    <2>1. UNCHANGED <<lastSnap, fsnap, published>>
        BY <1>5 DEF Catalog, CatalogResponse, ReconcileServices, Health, HealthUnchanged,
                    HealthResponse, HealthDiff, SyncTick, ConsulChange, Stop, StopClose,
                    StopTimer, vars, flushVars
    <2> QED
        BY <1>0, <2>1, QuietStep
<1> QED
    BY <1>1, <1>2, <1>3, <1>4, <1>5 DEF Next, Flush, Terminated

\* The watcher, for any number of goroutines and overlapping flushes, only does
\* what a feed does: it hands on whole copies of its cache, each once, each as it
\* was at one moment.
THEOREM RefinesFeed == Spec => ToFeed!Spec
<1>1. Init => ToFeed!Init
    BY TypeInit DEF Init, ToFeed!Init, TypeOK
<1>2. Init => HoldsToPublish
    BY DEF Init, HoldsToPublish
<1>3. TypeOK /\ HoldsToPublish /\ [Next]_vars => HoldsToPublish'
    BY HoldsStep
<1>4. TypeOK /\ TypeOK' /\ HoldsToPublish /\ [Next]_vars => [ToFeed!Next]_(ToFeed!vars)
    BY FeedStep
<1> QED
    BY <1>1, <1>2, <1>3, <1>4, TypeCorrect, PTL DEF Spec, ToFeed!Spec

=============================================================================
