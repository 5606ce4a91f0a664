---------------------------- MODULE ConnectProofs ----------------------------
(***************************************************************************)
(* Proofs about the allocation of sidecar ports, for any services, hashes, *)
(* port range, failures, losses and restarts.                              *)
(***************************************************************************)
EXTENDS Connect, FiniteSetTheorems, TLAPS

\* The port range has a port for every service.
Room == IsFiniteSet(Services) /\ Cardinality(Services) <= RangeSize

\* Probing stays in the range.
LEMMA ProbeInRange ==
    ASSUME NEW s \in Services, NEW k \in Nat
    PROVE  Probe(s, k) \in PortRange
<1>1. Hash[s] + k \in Nat /\ RangeSize \in Nat \ {0}
    BY PortsAssumption, HashAssumption DEF RangeSize
<1>2. (Hash[s] + k) % RangeSize \in 0..(RangeSize - 1)
    BY <1>1
<1> QED
    BY <1>2, PortsAssumption DEF Probe, PortRange, RangeSize

\* With room in the range, it is not exhausted while a service has no port.
LEMMA NotExhausted ==
    ASSUME Room, alloc \in PortMaps, NEW s \in Services, alloc[s] = 0
    PROVE  ~(PortRange \subseteq UsedPorts)
<1> SUFFICES ASSUME PortRange \subseteq UsedPorts
             PROVE  FALSE
    OBVIOUS
<1> DEFINE Others == Services \ {s}
           owner == [p \in PortRange |-> CHOOSE t \in Others : alloc[t] = p]
<1>1. \A p \in PortRange : \E t \in Others : alloc[t] = p
    BY PortsAssumption DEF UsedPorts, PortRange
<1>2. owner \in [PortRange -> Others] /\ \A p \in PortRange : alloc[owner[p]] = p
    BY <1>1
<1>3. IsFiniteSet(Others) /\ Cardinality(Others) = Cardinality(Services) - 1
    BY FS_RemoveElement DEF Room
<1>4. IsFiniteSet(PortRange) /\ Cardinality(PortRange) = RangeSize
    BY FS_Interval, PortsAssumption DEF PortRange, RangeSize
<1>5. Cardinality(Others) < Cardinality(PortRange)
    <2>1. Cardinality(Services) \in Nat /\ RangeSize \in Nat
        BY FS_CardinalityType, PortsAssumption DEF Room, RangeSize
    <2> QED
        BY <1>3, <1>4, <2>1 DEF Room
<1>6. \E p, q \in PortRange : p # q /\ owner[p] = owner[q]
    <2> HIDE DEF owner, Others
    <2> QED
        BY <1>2, <1>3, <1>4, <1>5, FS_PigeonHole
<1> QED
    BY <1>2, <1>6

\* What allocatePort returns: the port the service has, or a free one.
LEMMA AllocatePortLemma ==
    ASSUME Room, alloc \in PortMaps, NEW s \in Services, NEW port \in AllocatePort(s)
    PROVE  /\ port \in PortRange
           /\ port = alloc[s] \/ (alloc[s] = 0 /\ \A t \in Services : alloc[t] # port)
<1>1. CASE alloc[s] # 0
    BY <1>1 DEF AllocatePort, PortMaps
<1>2. CASE alloc[s] = 0
    <2>1. ~(PortRange \subseteq UsedPorts)
        BY <1>2, NotExhausted
    <2>2. PICK k \in 0..(RangeSize - 1) : port = Probe(s, k) /\ Probe(s, k) \notin UsedPorts
        BY <1>2, <2>1 DEF AllocatePort
    <2>3. k \in Nat
        BY PortsAssumption DEF RangeSize
    <2> QED
        BY <1>2, <2>2, <2>3, ProbeInRange DEF UsedPorts
<1> QED
    BY <1>1, <1>2

-----------------------------------------------------------------------------
(* The inductive invariant.                                                  *)

\* While ports are allocated: the list being built has ports of the manager, and
\* services that are desired.
Building ==
    cpc = "alloc" =>
        /\ todo \subseteq desired
        /\ \A s \in Services : current[s] # 0 => current[s] = alloc[s] /\ s \in desired

\* The ports of one map are ports of the other.
Agrees(ports, owners) == \A s \in Services : ports[s] # 0 => ports[s] = owners[s]

\* Unless a converge was not saved, all ports anywhere are ports of the
\* manager, and the state file has them between converges.
Consistent ==
    ~unsaved =>
        /\ Agrees(upstreams, alloc)
        /\ Agrees(table, alloc)
        /\ Agrees(routes, alloc)
        /\ Agrees(disk.table, disk.alloc)
        /\ cpc = "idle" => disk.alloc = alloc

Inv == TypeOK /\ UniquePorts /\ Building /\ Consistent

LEMMA InitInv == Init => Inv
<1> SUFFICES ASSUME Init PROVE Inv
    OBVIOUS
<1>1. NoPorts \in PortMaps /\ \A s \in Services : NoPorts[s] = 0
    BY DEF NoPorts, PortMaps
<1>2. disk \in [alloc : PortMaps, table : PortMaps] /\ disk.alloc = NoPorts /\ disk.table = NoPorts
    BY <1>1 DEF Init
<1>3. TypeOK
    BY <1>1, <1>2 DEF Init, TypeOK, RegStates, ConvergeStates
<1>4. UniquePorts
    BY <1>1, <1>2 DEF Init, UniquePorts, Distinct
<1>5. Building /\ Consistent
    BY <1>1, <1>2 DEF Init, Building, Consistent, Agrees
<1> QED
    BY <1>3, <1>4, <1>5 DEF Inv

\* Steps of the agent, the registrar and the exit: the sidecar keeps its
\* upstreams or loses all of them, and the manager is not concerned.
Outside == AgentLoses \/ Registrar \/ Stop \/ DeregisterMain \/ DeregisterSidecar

LEMMA OutsideTypes ==
    ASSUME TypeOK, Outside
    PROVE  /\ main' \in BOOLEAN /\ sidecar' \in BOOLEAN /\ orphaned' \in BOOLEAN
           /\ check' \in {"none", "passing", "critical"}
           /\ upstreams' \in {upstreams, NoPorts}
           /\ proc' \in {"up", "stopped", "exiting", "down"}
           /\ rpc' \in RegStates /\ phase2' \in BOOLEAN
           /\ losses' \in Nat /\ errors' \in Nat
           /\ UNCHANGED <<mgrVars, convVars, unsaved, restarts, converges>>
<1> USE DEF TypeOK, RegStates, agentVars, regVars, mgrVars, convVars, procVars
<1> DEFINE Rest == /\ check' \in {"none", "passing", "critical"}
                   /\ upstreams' \in {upstreams, NoPorts}
                   /\ proc' \in {"up", "stopped", "exiting", "down"}
                   /\ rpc' \in RegStates
                   /\ losses' \in Nat /\ errors' \in Nat
                   /\ UNCHANGED <<mgrVars, convVars, unsaved, restarts, converges>>
           Flags == /\ main' \in BOOLEAN /\ sidecar' \in BOOLEAN /\ orphaned' \in BOOLEAN
                    /\ phase2' \in BOOLEAN
<1>1. CASE AgentLoses
    <2>1. /\ Flags
          /\ upstreams' = upstreams \/ upstreams' = NoPorts
          /\ check' = check \/ check' = "none" \/ check' = "critical"
          /\ losses' = losses + 1
          /\ UNCHANGED <<procVars, regVars, mgrVars, convVars, errors, converges>>
        BY <1>1, Zenon DEF AgentLoses
    <2>2. Rest
        BY <2>1
    <2> QED
        BY <2>1, <2>2
<1>2. CASE RegTry \/ RegReturn \/ RegTick
    BY <1>2 DEF RegTry, RegReturn, RegTick, RegGoto, CallFails, regFrame
<1>3. CASE QueryMain \/ QuerySidecar
    BY <1>3 DEF QueryMain, QuerySidecar, RegGoto, NotEnsured, CallFails, regFrame
<1>4. CASE EnsureTTL \/ EnsureCheck
    <2>1. Flags
        BY <1>4, Zenon DEF EnsureTTL, EnsureCheck, RegGoto, Ensured, regFrame
    <2>2. Rest
        <3>1. CASE EnsureTTL
            BY <3>1 DEF EnsureTTL, RegGoto, Ensured, CallFails, regFrame
        <3>2. CASE EnsureCheck
            BY <3>2 DEF EnsureCheck, Ensured, CallFails, regFrame
        <3> QED
            BY <1>4, <3>1, <3>2
    <2> QED
        BY <2>1, <2>2
<1>5. CASE RegisterService
    <2>1. Flags
        BY <1>5, Zenon DEF RegisterService, Ensured, NotEnsured
    <2>2. Rest
        BY <1>5 DEF RegisterService, Ensured, NotEnsured, CallFails, regFrame
    <2> QED
        BY <2>1, <2>2
<1>6. CASE Stop \/ DeregisterMain \/ DeregisterSidecar
    <2>1. Flags
        BY <1>6, Zenon DEF Stop, DeregisterMain, DeregisterSidecar
    <2>2. Rest
        BY <1>6 DEF Stop, DeregisterMain, DeregisterSidecar, CallFails
    <2> QED
        BY <2>1, <2>2
<1> QED
    BY <1>1, <1>2, <1>3, <1>4, <1>5, <1>6 DEF Outside, Registrar

LEMMA OutsideStep == Inv /\ Outside => Inv'
<1> SUFFICES ASSUME Inv, Outside PROVE Inv'
    OBVIOUS
<1>1. /\ upstreams' = upstreams \/ upstreams' = NoPorts
      /\ UNCHANGED <<alloc, table, disk, cpc, desired, current, todo, routes, unsaved>>
    BY OutsideTypes DEF Inv, mgrVars, convVars
<1>2. NoPorts \in PortMaps /\ \A s \in Services : NoPorts[s] = 0
    BY DEF NoPorts, PortMaps
<1>3. TypeOK'
    BY <1>1, <1>2, OutsideTypes DEF Inv, TypeOK
<1>4. UniquePorts'
    BY <1>1, <1>2 DEF Inv, UniquePorts, Distinct
<1>5. Building' /\ Consistent'
    BY <1>1, <1>2 DEF Inv, Building, Consistent, Agrees
<1> QED
    BY <1>3, <1>4, <1>5 DEF Inv

\* The steps of a converge that neither allocate nor register.
LEMMA PlainConvergeStep ==
    Inv /\ (ConvergeStart \/ SyncRead \/ Resolve \/ Apply \/ Save) => Inv'
<1> SUFFICES ASSUME Inv, ConvergeStart \/ SyncRead \/ Resolve \/ Apply \/ Save
             PROVE  Inv'
    OBVIOUS
<1> USE DEF Inv, agentVars, regVars, mgrVars, convVars, procVars
<1>1. NoPorts \in PortMaps /\ \A s \in Services : NoPorts[s] = 0
    BY DEF NoPorts, PortMaps
<1>2. CASE ConvergeStart
    <2>1. TypeOK'
        BY <1>2 DEF ConvergeStart, TypeOK, ConvergeStates
    <2>2. UniquePorts' /\ Building' /\ Consistent'
        BY <1>2 DEF ConvergeStart, UniquePorts, Building, Consistent, Agrees, Distinct
    <2> QED
        BY <2>1, <2>2
<1>3. CASE SyncRead
    <2>1. /\ UNCHANGED <<agentVars, mgrVars, desired, routes, procVars, regVars, losses, converges>>
          /\ errors' \in Nat
          /\ current' = NoPorts
          /\ cpc' \in {"alloc", "resolve"} /\ cpc = "read"
          /\ todo' \subseteq desired
        BY <1>3 DEF SyncRead, Synced, CallFails, MainUpstreams, TypeOK, convFrame
    <2>2. TypeOK'
        BY <1>1, <2>1 DEF TypeOK, ConvergeStates
    <2>3. UniquePorts' /\ Building' /\ Consistent'
        BY <1>1, <2>1 DEF UniquePorts, Building, Consistent, Agrees, Distinct
    <2> QED
        BY <2>2, <2>3
<1>4. CASE Resolve
    <2>1. PICK s \in todo : /\ todo' = todo \ {s}
                            /\ \/ routes' = [routes EXCEPT ![s] = upstreams[s]]
                               \/ routes' = routes
                            /\ errors' \in Nat
        BY <1>4 DEF Resolve, CallFails, TypeOK
    <2>2. /\ UNCHANGED <<agentVars, mgrVars, cpc, desired, current, procVars, regVars, losses,
                         converges>>
          /\ cpc = "resolve"
        BY <1>4 DEF Resolve, convFrame
    <2>3. TypeOK'
        BY <2>1, <2>2 DEF TypeOK, PortMaps
    <2>4. UniquePorts' /\ Building'
        BY <2>2 DEF UniquePorts, Building, Distinct
    <2>5. Consistent'
        BY <2>1, <2>2 DEF Consistent, Agrees, TypeOK, PortMaps
    <2> QED
        BY <2>3, <2>4, <2>5
<1>5. CASE Apply
    <2>1. TypeOK'
        BY <1>5 DEF Apply, TypeOK, ConvergeStates, convFrame
    <2>2. UniquePorts' /\ Building' /\ Consistent'
        BY <1>5 DEF Apply, UniquePorts, Building, Consistent, Agrees, Distinct, convFrame
    <2> QED
        BY <2>1, <2>2
<1>6. CASE Save
    <2>1. unsaved' \in BOOLEAN /\ UNCHANGED <<main, sidecar, orphaned, phase2>>
        BY <1>6, Zenon DEF Save, TypeOK
    <2>2. errors' \in Nat
        BY <1>6 DEF Save, CallFails, TypeOK
    <2>3. /\ UNCHANGED <<upstreams, check, alloc, table, current, todo, proc, restarts, rpc,
                         losses, converges>>
          /\ cpc' = "idle" /\ desired' = {} /\ routes' = NoPorts
          /\ \/ disk' = disk /\ unsaved'
             \/ disk' = [alloc |-> alloc, table |-> routes] /\ unsaved' = unsaved
        BY <1>6, Zenon DEF Save
    <2>4. TypeOK'
        BY <1>1, <2>1, <2>2, <2>3 DEF TypeOK, ConvergeStates
    <2>5. UniquePorts' /\ Building' /\ Consistent'
        BY <1>1, <2>3 DEF UniquePorts, Building, Consistent, Agrees, Distinct
    <2> QED
        BY <2>4, <2>5
<1> QED
    BY <1>2, <1>3, <1>4, <1>5, <1>6

\* allocatePort keeps the ports distinct.
LEMMA AllocateStep == Room /\ Inv /\ SyncAllocate => Inv'
<1> SUFFICES ASSUME Room, Inv, SyncAllocate PROVE Inv'
    OBVIOUS
<1> USE DEF Inv, agentVars, regVars, mgrVars, convVars, procVars
<1>1. PICK s \in todo : \E p \in AllocatePort(s) :
          /\ alloc' = [alloc EXCEPT ![s] = p]
          /\ current' = [current EXCEPT ![s] = p]
          /\ todo' = todo \ {s}
    BY DEF SyncAllocate
<1>2. PICK port \in AllocatePort(s) :
          /\ alloc' = [alloc EXCEPT ![s] = port]
          /\ current' = [current EXCEPT ![s] = port]
          /\ todo' = todo \ {s}
    BY <1>1
<1>3. s \in Services /\ s \in desired /\ cpc = "alloc"
    BY DEF SyncAllocate, Building, TypeOK
<1>4. /\ port \in PortRange
      /\ port = alloc[s] \/ (alloc[s] = 0 /\ \A t \in Services : alloc[t] # port)
    BY <1>3, AllocatePortLemma DEF TypeOK
<1>5. UNCHANGED <<agentVars, table, disk, cpc, desired, routes, errors, procVars, regVars, losses,
                  converges>>
    BY DEF SyncAllocate, convFrame
<1>6. TypeOK'
    BY <1>2, <1>3, <1>4, <1>5 DEF TypeOK, PortMaps
<1>7. UniquePorts'
    BY <1>2, <1>3, <1>4, <1>5 DEF TypeOK, PortMaps, UniquePorts, Distinct
<1>8. Building'
    BY <1>2, <1>3, <1>4, <1>5 DEF TypeOK, PortMaps, Building
<1>9. Consistent'
    BY <1>2, <1>3, <1>4, <1>5 DEF TypeOK, PortMaps, Consistent, Agrees
<1> QED
    BY <1>6, <1>7, <1>8, <1>9

\* What SyncUpstreams registers are ports of the manager.
LEMMA WriteStep == Inv /\ SyncWrite => Inv'
<1> SUFFICES ASSUME Inv, SyncWrite PROVE Inv'
    OBVIOUS
<1> USE DEF Inv, agentVars, regVars, mgrVars, convVars, procVars
<1> DEFINE kept(ports) == [s \in Services |-> IF current[s] # 0 /\ s \notin desired
                                               THEN 0 ELSE ports[s]]
<1>1. /\ cpc = "alloc" /\ cpc' = "resolve" /\ todo' = desired /\ current' = NoPorts
      /\ alloc' = kept(alloc)
      /\ \/ /\ main' = TRUE /\ sidecar' = TRUE /\ upstreams' = kept(current)
            /\ check' \in {check, "none"} /\ orphaned' = FALSE
            /\ errors' = errors
         \/ UNCHANGED agentVars /\ errors' = errors + 1
      /\ UNCHANGED <<table, disk, desired, routes, procVars, regVars, losses, converges>>
    BY DEF SyncWrite, Synced, CallFails, convFrame
<1>2. \A s \in Services : current[s] # 0 => current[s] = alloc[s] /\ s \in desired
    BY <1>1 DEF Building
<1>3. kept(alloc) = alloc /\ kept(current) = current
    BY <1>2 DEF TypeOK, PortMaps
<1>4. alloc' = alloc /\ upstreams' \in {current, upstreams}
    BY <1>1, <1>3
<1>5. NoPorts \in PortMaps
    BY DEF NoPorts, PortMaps
<1>6. TypeOK'
    <2>1. main' \in BOOLEAN /\ sidecar' \in BOOLEAN /\ orphaned' \in BOOLEAN
        BY <1>1, Zenon DEF TypeOK
    <2>2. check' \in {"none", "passing", "critical"} /\ errors' \in Nat
        BY <1>1 DEF TypeOK
    <2> QED
        BY <1>1, <1>4, <1>5, <2>1, <2>2 DEF TypeOK, ConvergeStates
<1>7. UniquePorts'
    BY <1>1, <1>2, <1>4 DEF UniquePorts, Distinct
<1>8. Building' /\ Consistent'
    BY <1>1, <1>2, <1>4 DEF Building, Consistent, Agrees
<1> QED
    BY <1>6, <1>7, <1>8

\* A new instance has the ports of the state file.
LEMMA RestartStep == Inv /\ Restart => Inv'
<1> SUFFICES ASSUME Inv, Restart PROVE Inv'
    OBVIOUS
<1>1. NoPorts \in PortMaps /\ \A s \in Services : NoPorts[s] = 0
    BY DEF NoPorts, PortMaps
<1>2. disk.alloc \in PortMaps /\ disk.table \in PortMaps
    BY DEF Inv, TypeOK
<1>3. TypeOK'
    <2>1. /\ unsaved' \in BOOLEAN /\ phase2' \in BOOLEAN
          /\ main' \in BOOLEAN /\ sidecar' \in BOOLEAN /\ orphaned' \in BOOLEAN
        BY Zenon DEF Inv, TypeOK, Restart, agentVars
    <2>2. /\ restarts' = restarts + 1
          /\ proc' = "up" /\ rpc' = "try"
          /\ alloc' = disk.alloc /\ table' = disk.table /\ cpc' = "idle"
          /\ desired' = {} /\ current' = NoPorts /\ todo' = {} /\ routes' = NoPorts
          /\ UNCHANGED <<upstreams, check, disk, losses, errors, converges>>
        BY Zenon DEF Restart, agentVars
    <2> QED
        BY <1>1, <1>2, <2>1, <2>2 DEF Inv, TypeOK, RegStates, ConvergeStates
<1>4. UniquePorts' /\ Building' /\ Consistent'
    BY <1>1 DEF Inv, Restart, UniquePorts, Building, Consistent, Agrees, Distinct, TypeOK, agentVars
<1> QED
    BY <1>3, <1>4 DEF Inv

\* The invariant, with room in the port range.
THEOREM InvHolds == ASSUME Room PROVE Spec => []Inv
<1>1. Inv /\ [Next]_vars => Inv'
    <2> SUFFICES ASSUME Inv, [Next]_vars PROVE Inv'
        OBVIOUS
    <2>1. CASE Outside
        BY <2>1, OutsideStep
    <2>2. CASE ConvergeStart \/ SyncRead \/ Resolve \/ Apply \/ Save
        BY <2>2, PlainConvergeStep
    <2>3. CASE SyncAllocate
        BY <2>3, AllocateStep
    <2>4. CASE SyncWrite
        BY <2>4, WriteStep
    <2>5. CASE Restart
        BY <2>5, RestartStep
    <2>6. CASE UNCHANGED vars
        BY <2>6 DEF vars, agentVars, regVars, mgrVars, convVars, procVars, Inv, TypeOK,
                    UniquePorts, Distinct, Building, Consistent, Agrees
    <2> QED
        BY <2>1, <2>2, <2>3, <2>4, <2>5, <2>6 DEF Next, Outside, Converge, Terminated
<1> QED
    BY <1>1, InitInv, PTL DEF Spec

\* Every variable of Connect keeps its type: allocatePort and everything that
\* copies a port stay in the configured range.
THEOREM TypeCorrect == ASSUME Room PROVE Spec => []TypeOK
<1>1. Inv => TypeOK
    BY DEF Inv
<1> QED
    BY <1>1, InvHolds, PTL

\* allocatePort gives no port to two services, in memory, in the sidecar's
\* registration or in the state file, however syncs fail and processes restart.
THEOREM PortsAreUnique == ASSUME Room PROVE Spec => []UniquePorts
<1>1. Inv => UniquePorts
    BY DEF Inv
<1> QED
    BY <1>1, InvHolds, PTL

\* Unless a converge was not saved, a route never leads to the sidecar
\* listener of another service.
THEOREM RoutesAreNotCrossed == ASSUME Room PROVE Spec => []NoMisroute
<1>1. Inv => NoMisroute
    BY DEF Inv, Consistent, Agrees, UniquePorts, Distinct, NoMisroute
<1> QED
    BY <1>1, InvHolds, PTL

\* Unless a converge was not saved, the sidecar's listener for a service is never moved
\* to another port: what SyncUpstreams registers are the manager's ports, those are
\* never changed, and a new process has them from the file.
THEOREM ListenersAreStable == ASSUME Room PROVE Spec => ListenersStay
<1> DEFINE Stay == ~unsaved' => \A s \in Services :
                       upstreams[s] # 0 /\ upstreams'[s] # 0 => upstreams'[s] = upstreams[s]
<1>1. ASSUME Inv, [Next]_vars PROVE Stay
    <2> USE DEF agentVars, regVars, mgrVars, convVars, procVars
    <2>1. CASE upstreams' = upstreams
        BY <2>1
    <2>2. CASE Outside
        <3>1. \A s \in Services : NoPorts[s] = 0
            BY DEF NoPorts
        <3> QED
            BY <1>1, <2>2, <3>1, OutsideTypes DEF Inv
    <2>3. CASE SyncWrite
        <3> DEFINE kept(ports) == [s \in Services |-> IF current[s] # 0 /\ s \notin desired
                                                       THEN 0 ELSE ports[s]]
        <3>1. /\ cpc = "alloc" /\ unsaved' = unsaved
              /\ upstreams' = kept(current) \/ upstreams' = upstreams
            BY <2>3 DEF SyncWrite, convFrame
        <3>2. \A s \in Services : current[s] # 0 => current[s] = alloc[s] /\ s \in desired
            BY <1>1, <3>1 DEF Inv, Building
        <3>3. ~unsaved => \A s \in Services : upstreams[s] # 0 => upstreams[s] = alloc[s]
            BY <1>1 DEF Inv, Consistent, Agrees
        <3> QED
            BY <3>1, <3>2, <3>3
    <2>4. CASE ConvergeStart \/ SyncRead \/ SyncAllocate \/ Resolve \/ Apply \/ Save \/ Restart
        <3>1. upstreams' = upstreams
            BY <2>4 DEF ConvergeStart, SyncRead, SyncAllocate, Resolve, Apply, Save, Restart
        <3> QED
            BY <3>1
    <2>5. CASE UNCHANGED vars
        BY <2>1, <2>5 DEF vars
    <2> QED
        BY <1>1, <2>2, <2>3, <2>4, <2>5 DEF Next, Outside, Converge, Terminated
<1>2. Inv /\ [Next]_vars => [Stay]_vars
    BY <1>1
<1> QED
    BY <1>2, InvHolds, PTL DEF Spec, ListenersStay

=============================================================================
