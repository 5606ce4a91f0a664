--------------------------- MODULE ConvergeProofs ---------------------------
(***************************************************************************)
(* Proofs about converges and the state file, for any number of app        *)
(* instances that reload, crash and share the file, any contents of Consul *)
(* and any bounds.                                                         *)
(***************************************************************************)
EXTENDS Converge, TLAPS

-----------------------------------------------------------------------------
(* Compiled routes and their JSON.                                           *)

\* Compiling a snapshot gives an HTTP table with the routes of the snapshot.
LEMMA CompiledType ==
    ASSUME NEW c \in Contents
    PROVE  Compiled(c) \in HTTPTables /\ Compiled(c).routes = c.routes /\ c.routes \in Routes
<1>1. c \in ContentType
    BY ContentsAssumption
<1> QED
    BY <1>1 DEF Compiled, ResolveNoCacheMatcher, HTTPTables, ContentType, NoCacheSpecs

\* The JSON of a table is a table with the same routes, and its own JSON.
LEMMA JSONType ==
    ASSUME NEW t \in HTTPTables
    PROVE  JSON(t) \in HTTPTables /\ JSON(t).routes = t.routes /\ JSON(JSON(t)) = JSON(t)
BY DEF JSON, HTTPTables

LEMMA EmptyTypes == EmptyTable \in HTTPTables /\ EmptyState \in States
<1>1. Nothing \in Contents /\ NoRoutes \in Routes
    BY ContentsAssumption, RoutesAssumption
<1>2. EmptyTable \in HTTPTables
    BY <1>1, CompiledType DEF EmptyTable
<1> QED
    BY <1>1, <1>2 DEF EmptyState, States

LEMMA LoadType ==
    ASSUME TypeOK
    PROVE  /\ Load \in States
           /\ Load.http \in HTTPTables /\ Load.tcp \in Routes
           /\ Load.index \in Nat /\ Load.services \in Contents
BY EmptyTypes DEF Load, TypeOK, States

-----------------------------------------------------------------------------
(* Types.                                                                    *)

LEMMA TypeInit == Init => TypeOK
BY EmptyTypes, ContentsAssumption, RoutesAssumption, CompiledType
   DEF Init, TypeOK, PhaseStates, ConvergeStates

\* Every step keeps the types.
LEMMA TypeStep == TypeOK /\ [Next]_vars => TypeOK'
<1> SUFFICES ASSUME TypeOK, [Next]_vars
             PROVE  TypeOK'
    OBVIOUS
<1> USE DEF consulVars, appVars, watchVars, convVars, tableVars, Goto
<1>0. Nothing \in Contents /\ NoRoutes \in Routes
    BY ContentsAssumption, RoutesAssumption
<1>1. CASE ConsulChange
    BY <1>1 DEF ConsulChange, TypeOK
<1>2. ASSUME NEW a \in Apps, WatchResponse(a) \/ FullSyncTick(a)
      PROVE  TypeOK'
    BY <1>2 DEF WatchResponse, FullSyncTick, TypeOK
<1>3. ASSUME NEW a \in Apps, NEW f \in Flushes, Flush(a, f)
      PROVE  TypeOK'
    BY <1>3 DEF Flush, TypeOK, ConvergeStates
<1>4. ASSUME NEW a \in Apps, NEW f \in Flushes, Step(a, f) \/ SaveFail(a, f)
      PROVE  TypeOK'
    <2>0. cpc[a][f] # "free" => /\ csnap[a][f] \in Contents
                                /\ Compiled(csnap[a][f]) \in HTTPTables
                                /\ csnap[a][f].routes \in Routes
                                /\ HashRoutes(Compiled(csnap[a][f])) \in HTTPTables
        BY CompiledType, JSONType DEF TypeOK, HashRoutes
    <2>1. CASE Gate(a, f)
        BY <2>1 DEF Gate, TypeOK, ConvergeStates
    <2>2. CASE UpdateHTTP(a, f)
        BY <2>0, <2>2 DEF UpdateHTTP, TypeOK, ConvergeStates
    <2>3. CASE SetHTTPRouteHash(a, f)
        <3>1. mem'[a] \in States
            BY <2>0, <2>3 DEF SetHTTPRouteHash, TypeOK, States
        <3>2. mem' \in [Apps -> States]
            BY <2>3, <3>1 DEF SetHTTPRouteHash, TypeOK
        <3> QED
            BY <2>3, <3>2 DEF SetHTTPRouteHash, TypeOK, ConvergeStates
    <2>4. CASE SetState(a, f)
        <3>1. mem'[a] \in States
            BY <2>0, <2>4 DEF SetState, TypeOK, States
        <3>2. mem' \in [Apps -> States]
            BY <2>4, <3>1 DEF SetState, TypeOK
        <3> QED
            BY <2>4, <3>2 DEF SetState, TypeOK, ConvergeStates
    <2>5. CASE SaveTruncate(a, f)
        BY <2>5 DEF SaveTruncate, TypeOK, ConvergeStates
    <2>6. CASE SaveWrite(a, f)
        <3>1. [mem[a] EXCEPT !.http = JSON(@)] \in States
            BY JSONType DEF TypeOK, States
        <3> QED
            BY <2>6, <3>1 DEF SaveWrite, TypeOK, ConvergeStates
    <2>7. CASE SaveFail(a, f)
        BY <2>7 DEF SaveFail, TypeOK, ConvergeStates
    <2>8. CASE UpdateTCP(a, f)
        BY <2>0, <2>8 DEF UpdateTCP, TypeOK, ConvergeStates
    <2> QED
        BY <1>4, <2>1, <2>2, <2>3, <2>4, <2>5, <2>6, <2>7, <2>8 DEF Step
<1>5. ASSUME NEW a \in Apps, Provision(a)
      PROVE  TypeOK'
    BY <1>5, LoadType DEF Provision, TypeOK, PhaseStates
<1>6. ASSUME NEW a \in Apps, Start(a)
      PROVE  TypeOK'
    BY <1>0, <1>6 DEF Start, TypeOK, PhaseStates, States
<1>7. ASSUME NEW a \in Apps, Stop(a) \/ Abort(a)
      PROVE  TypeOK'
    BY <1>7 DEF Stop, Abort, TypeOK, PhaseStates
<1>8. ASSUME NEW a \in Apps, Collect(a)
      PROVE  TypeOK'
    BY <1>0, <1>8, EmptyTypes DEF Collect, TypeOK, PhaseStates
<1>9. CASE Crash
    BY <1>0, <1>9, EmptyTypes DEF Crash, TypeOK, PhaseStates, ConvergeStates
<1>10. CASE UNCHANGED vars
    BY <1>10 DEF vars, TypeOK
<1> QED
    BY <1>1, <1>2, <1>3, <1>4, <1>5, <1>6, <1>7, <1>8, <1>9, <1>10 DEF Next

\* Every variable keeps its type through converges, reloads and crashes.
THEOREM TypeCorrect == Spec => []TypeOK
<1>1. Init => TypeOK
    BY TypeInit
<1>2. TypeOK /\ [Next]_vars => TypeOK'
    BY TypeStep
<1> QED
    BY <1>1, <1>2, PTL DEF Spec

-----------------------------------------------------------------------------
(* One converge at a time.                                                   *)

\* What the two theorems below need: converges of an instance do not overlap.
OneConverge == \E f \in Flushes : Flushes = {f}

\* A state all of whose parts come from the same snapshot.
Coherent(m) ==
    /\ m.hash = JSON(m.http)
    /\ JSON(m.http) = JSON(Compiled(m.services))
    /\ m.tcp = m.services.routes

\* What holds of instance a while no converge has touched its state: the state is
\* empty or coherent, and the tables are the ones of the state.
Between(a) ==
    /\ mem[a] = EmptyState \/ Coherent(mem[a])
    /\ HashRoutes(httpTable[a]) = JSON(mem[a].http)
    /\ tcpTable[a] = mem[a].tcp

\* What converge f of instance a has established when it is at its step: first the
\* HTTP table is the one of its snapshot, then the hash, then the whole state.
Progress(a, f) ==
    LET hash == HashRoutes(Compiled(csnap[a][f]))
    IN  /\ cpc[a][f] \in {"free", "gate", "update"} => Between(a)
        /\ cpc[a][f] \in {"hash", "state", "save", "write", "tcp"} =>
              HashRoutes(httpTable[a]) = hash
        /\ cpc[a][f] \in {"state", "save", "write", "tcp"} => mem[a].hash = hash
        /\ cpc[a][f] \in {"save", "write", "tcp"} =>
              Coherent(mem[a]) /\ mem[a].services = csnap[a][f]

\* An instance that was not started has no converge and no change that waits for one.
Idle ==
    \A a \in Apps :
        phase[a] \in {"absent", "provisioned"} =>
            ~pending[a] /\ \A f \in Flushes : cpc[a][f] = "free"

\* The inductive invariant.
Inv ==
    /\ Idle
    /\ FileOfOneConverge
    /\ \A a \in Apps, f \in Flushes : Progress(a, f)

\* What Progress speaks of.
View(a) == <<cpc[a], csnap[a], mem[a], httpTable[a], tcpTable[a]>>

\* An instance whose view does not change keeps its progress.
LEMMA Frame ==
    ASSUME NEW a, NEW f, Progress(a, f), View(a)' = View(a)
    PROVE  Progress(a, f)'
BY DEF Progress, Between, View

\* The empty state and the empty tables belong together.
LEMMA EmptyBetween ==
    ASSUME NEW a, NEW f, cpc'[a][f] = "free", mem'[a] = EmptyState,
           httpTable'[a] = EmptyTable, tcpTable'[a] = NoRoutes
    PROVE  Progress(a, f)'
BY DEF Progress, Between, EmptyState, HashRoutes

\* What a file gives to the instance that loads it.
LEMMA LoadCoherent ==
    ASSUME TypeOK, FileOfOneConverge
    PROVE  Load = EmptyState \/ Coherent(Load)
<1>1. CASE file = None
    BY <1>1 DEF Load
<1>2. CASE file # None
    <2>1. file \in States /\ file.services \in Contents
        BY <1>2 DEF TypeOK, States
    <2>2. JSON(JSON(Compiled(file.services))) = JSON(Compiled(file.services))
        BY <2>1, CompiledType, JSONType
    <2> QED
        BY <1>2, <2>2 DEF Load, FileOfOneConverge, Coherent
<1> QED
    BY <1>1, <1>2

LEMMA InvInit == Init => Inv
BY EmptyBetween DEF Init, Inv, Idle, FileOfOneConverge, Progress, Between, EmptyState, HashRoutes

\* Nothing but a flush starts a converge, and only started instances have changes.
LEMMA IdleStep ==
    ASSUME TypeOK, Idle, [Next]_vars
    PROVE  Idle'
<1> USE DEF consulVars, appVars, watchVars, convVars, tableVars, Goto
<1>1. ASSUME NEW a \in Apps, NEW f \in Flushes, Flush(a, f) \/ Step(a, f) \/ SaveFail(a, f)
      PROVE  Idle'
    <2>1. /\ phase[a] \notin {"absent", "provisioned"}
          /\ phase' = phase
          /\ \A b \in Apps \ {a} : cpc'[b] = cpc[b] /\ pending'[b] = pending[b]
        BY <1>1 DEF Idle, TypeOK, Flush, Step, Gate, UpdateHTTP, SetHTTPRouteHash, SetState,
                    SaveTruncate, SaveWrite, SaveFail, UpdateTCP
    <2> QED
        BY <2>1 DEF Idle
<1>2. ASSUME NEW a \in Apps, WatchResponse(a) \/ FullSyncTick(a)
      PROVE  Idle'
    <2>1. /\ phase[a] \notin {"absent", "provisioned"}
          /\ phase' = phase /\ cpc' = cpc
          /\ \A b \in Apps \ {a} : pending'[b] = pending[b]
        BY <1>2 DEF WatchResponse, FullSyncTick, TypeOK
    <2> QED
        BY <2>1 DEF Idle
<1>3. ASSUME NEW a \in Apps, Provision(a) \/ Start(a) \/ Stop(a) \/ Abort(a) \/ Collect(a)
      PROVE  Idle'
    <2>1. /\ cpc' = cpc
          /\ \A b \in Apps \ {a} : phase'[b] = phase[b] /\ pending'[b] = pending[b]
        BY <1>3 DEF Provision, Start, Stop, Abort, Collect, TypeOK
    <2>2. CASE Provision(a)
        BY <2>1, <2>2 DEF Provision, Idle, TypeOK
    <2>3. CASE Start(a) \/ Stop(a) \/ Abort(a)
        <3>1. phase'[a] \notin {"absent", "provisioned"}
            BY <2>3 DEF Start, Stop, Abort, TypeOK
        <3> QED
            BY <2>1, <3>1 DEF Idle
    <2>4. CASE Collect(a)
        BY <2>1, <2>4 DEF Collect, Idle
    <2> QED
        BY <1>3, <2>2, <2>3, <2>4
<1>4. CASE Crash
    BY <1>4 DEF Crash, Idle
<1>5. CASE ConsulChange \/ UNCHANGED vars
    BY <1>5 DEF ConsulChange, vars, Idle
<1> QED
    BY <1>1, <1>2, <1>3, <1>4, <1>5 DEF Next

\* Each step of a converge establishes what its place says.
LEMMA ConvergeStep ==
    ASSUME TypeOK, Inv, NEW a \in Apps, NEW f \in Flushes, Flushes = {f},
           Flush(a, f) \/ Step(a, f) \/ SaveFail(a, f)
    PROVE  Inv'
<1> USE DEF consulVars, appVars, watchVars, convVars, tableVars, Goto
<1> DEFINE Others == \A b \in Apps \ {a} : View(b)' = View(b)
<1>0. /\ Progress(a, f)
      /\ cpc[a][f] # "free" => csnap[a][f] \in Contents
      /\ mem[a] \in States /\ httpTable[a] \in HTTPTables
    BY DEF Inv, TypeOK
<1>1. ASSUME Others, Progress(a, f)', FileOfOneConverge'
      PROVE  Inv'
    <2>1. Idle'
        BY IdleStep DEF Inv, Next
    <2> QED
        BY <1>1, <2>1, Frame DEF Inv
<1>2. CASE Flush(a, f)
    <2>1. Others
        BY <1>2 DEF Flush, View, TypeOK
    <2>2. Progress(a, f)'
        BY <1>0, <1>2 DEF Flush, Progress, Between, TypeOK
    <2> QED
        BY <1>1, <1>2, <2>1, <2>2 DEF Flush, Inv, FileOfOneConverge
<1>3. CASE Gate(a, f)
    <2>1. Others
        BY <1>3 DEF Gate, View, TypeOK
    <2>2. ASSUME HashRoutes(Compiled(csnap[a][f])) = mem[a].hash
          PROVE  Progress(a, f)'
        <3>1. HashRoutes(Compiled(csnap[a][f])) \in HTTPTables
            BY <1>0, <1>3, CompiledType, JSONType DEF Gate, HashRoutes
        <3>2. mem[a] # EmptyState
            BY <2>2, <3>1, NoHashAssumption DEF EmptyState
        <3>3. Coherent(mem[a]) /\ HashRoutes(httpTable[a]) = JSON(mem[a].http)
            BY <1>0, <1>3, <3>2 DEF Gate, Progress, Between
        <3>4. cpc'[a][f] = "state"
            BY <1>3, <2>2 DEF Gate, TypeOK
        <3> QED
            BY <1>3, <2>2, <3>3, <3>4 DEF Gate, Progress, Coherent
    <2>3. ASSUME HashRoutes(Compiled(csnap[a][f])) # mem[a].hash
          PROVE  Progress(a, f)'
        <3>1. cpc'[a][f] = "update"
            BY <1>3, <2>3 DEF Gate, TypeOK
        <3> QED
            BY <1>0, <1>3, <3>1 DEF Gate, Progress, Between
    <2> QED
        BY <1>1, <1>3, <2>1, <2>2, <2>3 DEF Gate, Inv, FileOfOneConverge
<1>4. CASE UpdateHTTP(a, f)
    <2>1. Others
        BY <1>4 DEF UpdateHTTP, View, TypeOK
    <2>2. cpc'[a][f] = "hash" /\ httpTable'[a] = Compiled(csnap[a][f])
        BY <1>4 DEF UpdateHTTP, TypeOK
    <2>3. Progress(a, f)'
        BY <1>4, <2>2 DEF UpdateHTTP, Progress
    <2> QED
        BY <1>1, <1>4, <2>1, <2>3 DEF UpdateHTTP, Inv, FileOfOneConverge
<1>5. CASE SetHTTPRouteHash(a, f)
    <2>1. Others
        BY <1>5 DEF SetHTTPRouteHash, View, TypeOK
    <2>2. cpc'[a][f] = "state" /\ mem'[a].hash = HashRoutes(Compiled(csnap[a][f]))
        BY <1>0, <1>5 DEF SetHTTPRouteHash, TypeOK, States
    <2>3. Progress(a, f)'
        BY <1>0, <1>5, <2>2 DEF SetHTTPRouteHash, Progress
    <2> QED
        BY <1>1, <1>5, <2>1, <2>3 DEF SetHTTPRouteHash, Inv, FileOfOneConverge
<1>6. CASE SetState(a, f)
    <2>1. Others
        BY <1>6 DEF SetState, View, TypeOK
    <2>2. /\ cpc'[a][f] = "save"
          /\ mem'[a].hash = mem[a].hash
          /\ mem'[a].http = Compiled(csnap[a][f])
          /\ mem'[a].tcp = csnap[a][f].routes
          /\ mem'[a].services = csnap[a][f]
        BY <1>0, <1>6 DEF SetState, TypeOK, States
    <2>3. /\ csnap' = csnap /\ httpTable' = httpTable
          /\ HashRoutes(httpTable[a]) = HashRoutes(Compiled(csnap[a][f]))
          /\ mem[a].hash = HashRoutes(Compiled(csnap[a][f]))
        BY <1>0, <1>6 DEF SetState, Progress
    <2>4. Progress(a, f)'
        BY <2>2, <2>3 DEF Progress, Coherent, HashRoutes
    <2> QED
        BY <1>1, <1>6, <2>1, <2>4 DEF SetState, Inv, FileOfOneConverge
<1>7. CASE SaveTruncate(a, f) \/ SaveWrite(a, f) \/ SaveFail(a, f)
    <2>1. Others
        BY <1>7 DEF SaveTruncate, SaveWrite, SaveFail, View, TypeOK
    <2>2. cpc[a][f] \in {"save", "write"} /\ cpc'[a][f] \in {"write", "tcp"}
        BY <1>7 DEF SaveTruncate, SaveWrite, SaveFail, TypeOK
    <2>3. Progress(a, f)'
        BY <1>0, <1>7, <2>2 DEF SaveTruncate, SaveWrite, SaveFail, Progress
    <2>4. Coherent(mem[a]) /\ mem[a].http \in HTTPTables
        BY <1>0, <2>2 DEF Progress, States
    <2>5. DEFINE saved == [mem[a] EXCEPT !.http = JSON(@)]
    <2>6. /\ saved.hash = mem[a].hash
          /\ saved.http = JSON(mem[a].http)
          /\ saved.tcp = mem[a].tcp
          /\ saved.services = mem[a].services
        BY <1>0 DEF States
    <2>7. /\ saved.hash = saved.http
          /\ saved.http = JSON(Compiled(saved.services))
          /\ saved.tcp = saved.services.routes
        BY <2>4, <2>6 DEF Coherent
    <2>8. file' \in {file, None, saved}
        BY <1>7 DEF SaveTruncate, SaveWrite, SaveFail
    <2>9. FileOfOneConverge'
        BY <2>7, <2>8 DEF Inv, FileOfOneConverge
    <2> QED
        BY <1>1, <2>1, <2>3, <2>9
<1>8. CASE UpdateTCP(a, f)
    <2>1. Others
        BY <1>8 DEF UpdateTCP, View, TypeOK
    <2>2. cpc'[a][f] = "free" /\ tcpTable'[a] = csnap[a][f].routes
        BY <1>8 DEF UpdateTCP, TypeOK
    <2>3. /\ Coherent(mem[a]) /\ mem[a].services = csnap[a][f]
          /\ HashRoutes(httpTable[a]) = mem[a].hash
        BY <1>0, <1>8 DEF UpdateTCP, Progress
    <2>4. Progress(a, f)'
        BY <1>8, <2>2, <2>3 DEF UpdateTCP, Progress, Between, Coherent
    <2> QED
        BY <1>1, <1>8, <2>1, <2>4 DEF UpdateTCP, Inv, FileOfOneConverge
<1> QED
    BY <1>2, <1>3, <1>4, <1>5, <1>6, <1>7, <1>8 DEF Step

\* The lifecycle moves whole states: from the file to an instance that is
\* provisioned, and to nothing when an instance or the process ends.
LEMMA LifecycleStep ==
    ASSUME TypeOK, Inv, NEW a \in Apps, Provision(a) \/ Collect(a) \/ Crash
    PROVE  Inv'
<1> USE DEF consulVars, appVars, watchVars, convVars, tableVars
<1>1. Idle'
    BY IdleStep DEF Inv, Next
<1>2. FileOfOneConverge'
    BY DEF Inv, FileOfOneConverge, Provision, Collect, Crash
<1>3. ASSUME NEW b \in Apps, NEW f \in Flushes
      PROVE  Progress(b, f)'
    <2>0. Progress(b, f)
        BY <1>3 DEF Inv
    <2>1. CASE Crash
        BY <2>1, EmptyBetween DEF Crash
    <2>2. CASE ~Crash /\ b # a
        <3>1. View(b)' = View(b)
            BY <2>2 DEF Provision, Collect, View, TypeOK
        <3> QED
            BY <2>0, <3>1, Frame
    <2>3. CASE Collect(a) /\ b = a
        BY <2>3, EmptyBetween DEF Collect, TypeOK
    <2>4. CASE Provision(a) /\ b = a
        <3>1. cpc'[b][f] = "free" /\ mem'[b] = Load
              /\ httpTable'[b] = Load.http /\ tcpTable'[b] = Load.tcp
            BY <2>4 DEF Provision, Inv, Idle, TypeOK
        <3>2. Load = EmptyState \/ Coherent(Load)
            BY LoadCoherent DEF Inv
        <3> QED
            BY <3>1, <3>2 DEF Progress, Between, HashRoutes, Coherent
    <2> QED
        BY <2>1, <2>2, <2>3, <2>4
<1> QED
    BY <1>1, <1>2, <1>3 DEF Inv

\* Every step preserves the invariant, if converges do not overlap.
LEMMA InvStep ==
    ASSUME OneConverge, TypeOK, Inv, [Next]_vars
    PROVE  Inv'
<1> USE DEF consulVars, appVars, watchVars, convVars, tableVars
<1>1. PICK f \in Flushes : Flushes = {f}
    BY DEF OneConverge
<1>2. ASSUME NEW a \in Apps, Flush(a, f) \/ Step(a, f) \/ SaveFail(a, f)
      PROVE  Inv'
    BY <1>1, <1>2, ConvergeStep
<1>3. ASSUME NEW a \in Apps, Provision(a) \/ Collect(a)
      PROVE  Inv'
    BY <1>3, LifecycleStep
<1>4. CASE Crash
    <2>1. serving \in Apps
        BY <1>4 DEF Crash, TypeOK
    <2> QED
        BY <1>4, <2>1, LifecycleStep
<1>5. ASSUME <<convVars, mem, tableVars, file>>' = <<convVars, mem, tableVars, file>>
      PROVE  Inv'
    <2>1. Idle'
        BY IdleStep DEF Inv
    <2>2. FileOfOneConverge'
        BY <1>5 DEF Inv, FileOfOneConverge
    <2>3. \A a \in Apps, g \in Flushes : Progress(a, g)'
        BY <1>5, Frame DEF Inv, View
    <2> QED
        BY <2>1, <2>2, <2>3 DEF Inv
<1>6. ASSUME NEW a \in Apps,
             WatchResponse(a) \/ FullSyncTick(a) \/ Start(a) \/ Stop(a) \/ Abort(a)
      PROVE  Inv'
    BY <1>5, <1>6 DEF WatchResponse, FullSyncTick, Start, Stop, Abort
<1>7. CASE ConsulChange \/ UNCHANGED vars
    BY <1>5, <1>7 DEF ConsulChange, vars
<1> QED
    BY <1>1, <1>2, <1>3, <1>4, <1>6, <1>7 DEF Next

\* The state file is never a mixture: what can be read of it is of one converge,
\* for any number of instances that save to it without a lock, fail to save, or
\* are cut off in the middle. What a restart resumes from is therefore coherent.
THEOREM FileIsOfOneConverge ==
    ASSUME OneConverge
    PROVE  Spec => []FileOfOneConverge
<1>1. Init => TypeOK /\ Inv
    BY TypeInit, InvInit
<1>2. TypeOK /\ Inv /\ [Next]_vars => TypeOK' /\ Inv'
    BY TypeStep, InvStep
<1>3. Inv => FileOfOneConverge
    BY DEF Inv
<1> QED
    BY <1>1, <1>2, <1>3, PTL DEF Spec

\* Between converges the HTTP table and the TCP table have the routes of one
\* snapshot, although the update of the HTTP table may be skipped.
THEOREM TablesAlwaysAgree ==
    ASSUME OneConverge
    PROVE  Spec => []TablesAgree
<1>1. Init => TypeOK /\ Inv
    BY TypeInit, InvInit
<1>2. TypeOK /\ Inv /\ [Next]_vars => TypeOK' /\ Inv'
    BY TypeStep, InvStep
<1>3. TypeOK /\ Inv => TablesAgree
    <2> SUFFICES ASSUME TypeOK, Inv, NEW a \in Apps, Settled(a)
                 PROVE  httpTable[a].routes = tcpTable[a]
        BY DEF TablesAgree
    <2>1. PICK f \in Flushes : Flushes = {f}
        BY DEF OneConverge
    <2>2. Between(a)
        BY DEF Settled, Inv, Progress
    <2>3. mem[a] \in States /\ mem[a].http \in HTTPTables /\ httpTable[a] \in HTTPTables
        BY DEF TypeOK, States
    <2>4. httpTable[a].routes = mem[a].http.routes
        BY <2>2, <2>3, JSONType DEF Between, HashRoutes
    <2>5. CASE mem[a] = EmptyState
        BY <2>2, <2>4, <2>5, ContentsAssumption, CompiledType
           DEF Between, EmptyState, EmptyTable, Nothing
    <2>6. CASE Coherent(mem[a])
        <3>1. mem[a].services \in Contents
            BY <2>3 DEF States
        <3>2. mem[a].http.routes = mem[a].services.routes
            BY <2>3, <2>6, <3>1, JSONType, CompiledType DEF Coherent
        <3> QED
            BY <2>2, <2>4, <2>6, <3>2 DEF Between, Coherent
    <2> QED
        BY <2>2, <2>5, <2>6 DEF Between
<1> QED
    BY <1>1, <1>2, <1>3, PTL DEF Spec

=============================================================================
