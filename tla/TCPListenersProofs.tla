------------------------- MODULE TCPListenersProofs -------------------------
(***************************************************************************)
(* Proofs about the TCP listeners, for any number of instances, ports,     *)
(* connections and converges.                                              *)
(***************************************************************************)
EXTENDS TCPListeners, FiniteSetTheorems, TLAPS

\* The parts of a listener.
LEMMA ListenerParts ==
    \A l \in Listeners : /\ l[1] \in Apps /\ l[2] \in Ports /\ l[3] \in Gens
                         /\ l = <<l[1], l[2], l[3]>>
BY DEF Listeners

\* A listener in use is not 0 in m.active.
LEMMA GensPositive == \A g \in Gens : g # 0
BY DEF Gens

\* The effect of Reconcile, without its bookkeeping of errors.
ReconcileEffect(a, desired, bad, gen) ==
    /\ bad \subseteq desired
    /\ \A p \in bad : active[a][p] = 0
    /\ gen \in [Ports -> Gens]
    /\ \A p \in desired \ bad : active[a][p] = 0 => Unused(<<a, p, gen[p]>>)
    /\ failed' = [failed EXCEPT ![a] = bad]
    /\ active' = [active EXCEPT ![a] =
                     [p \in Ports |-> IF p \in desired
                                      THEN IF active[a][p] = 0 /\ p \notin bad
                                           THEN gen[p] ELSE active[a][p]
                                      ELSE 0]]
    /\ \A l \in Listeners :
          open'[l] <=> IF l[1] = a /\ l[2] \in desired \ bad /\ active[a][l[2]] = 0
                               /\ l[3] = gen[l[2]]
                       THEN TRUE
                       ELSE open[l] /\ ~(l[1] = a /\ l[2] \notin desired
                                           /\ active[a][l[2]] = l[3])
    /\ open' \in [Listeners -> BOOLEAN]
    /\ drain' \in [Listeners -> {"no", "waiting", "done"}]
    /\ errors' \in Nat

\* Reconcile has that effect for some ports that fail and some generations.
LEMMA ReconcileLemma ==
    ASSUME TypeOK, NEW a \in Apps, NEW D \in SUBSET Ports, Reconcile(a, D)
    PROVE  \E bad, gen : ReconcileEffect(a, D \ Reserved, bad, gen)
<1> DEFINE desired == D \ Reserved
           missing == {p \in desired : active[a][p] = 0}
           removed == {p \in Ports \ desired : active[a][p] # 0}
           dropped == {<<a, p, active[a][p]>> : p \in removed}
<1>1. PICK bad \in SUBSET {p \in missing : ~Bound(p)}, gen \in [Ports -> Gens] :
          LET opened == {<<a, p, gen[p]>> : p \in missing \ bad}
          IN  /\ \A l \in opened : Unused(l)
              /\ bad # {} => errors < MaxErrors
              /\ errors' = IF bad = {} THEN errors ELSE errors + 1
              /\ failed' = [failed EXCEPT ![a] = bad]
              /\ active' = [active EXCEPT ![a] =
                               [p \in Ports |-> IF p \in missing \ bad THEN gen[p]
                                                ELSE IF p \in removed THEN 0
                                                ELSE active[a][p]]]
              /\ open' = [l \in Listeners |-> l \in opened \/ (open[l] /\ l \notin dropped)]
              /\ drain' = [l \in Listeners |-> IF l \in dropped THEN "waiting"
                                               ELSE IF l \in opened THEN "no"
                                               ELSE drain[l]]
    BY Zenon DEF Reconcile
<1> DEFINE opened == {<<a, p, gen[p]>> : p \in missing \ bad}
<1>2. active \in [Apps -> [Ports -> Gens \cup {0}]]
    BY DEF TypeOK
<1>3. /\ bad \subseteq desired
      /\ \A p \in bad : active[a][p] = 0
      /\ gen \in [Ports -> Gens]
      /\ failed' = [failed EXCEPT ![a] = bad]
    BY <1>1
<1>4. \A p \in desired \ bad : active[a][p] = 0 => Unused(<<a, p, gen[p]>>)
    BY <1>1
<1>5. active' = [active EXCEPT ![a] =
                     [p \in Ports |-> IF p \in desired
                                      THEN IF active[a][p] = 0 /\ p \notin bad
                                           THEN gen[p] ELSE active[a][p]
                                      ELSE 0]]
    <2> DEFINE F(p) == IF p \in missing \ bad THEN gen[p]
                       ELSE IF p \in removed THEN 0
                       ELSE active[a][p]
               G(p) == IF p \in desired
                       THEN IF active[a][p] = 0 /\ p \notin bad
                            THEN gen[p] ELSE active[a][p]
                       ELSE 0
    <2>1. \A p \in Ports : F(p) = G(p)
        OBVIOUS
    <2>2. active' = [active EXCEPT ![a] = [p \in Ports |-> F(p)]]
        BY <1>1
    <2> HIDE DEF F, G
    <2>3. [p \in Ports |-> F(p)] = [p \in Ports |-> G(p)]
        BY <2>1
    <2>4. active' = [active EXCEPT ![a] = [p \in Ports |-> G(p)]]
        BY <2>2, <2>3
    <2> QED
        BY <2>4 DEF G
<1>6. open' = [l \in Listeners |-> l \in opened \/ (open[l] /\ l \notin dropped)]
    BY <1>1
<1>7. ASSUME NEW l \in Listeners
      PROVE  l \in opened <=> /\ l[1] = a /\ l[2] \in desired \ bad
                              /\ active[a][l[2]] = 0 /\ l[3] = gen[l[2]]
    BY ListenerParts
<1>8. ASSUME NEW l \in Listeners
      PROVE  l \in dropped <=> /\ l[1] = a /\ l[2] \notin desired
                               /\ active[a][l[2]] = l[3]
    BY ListenerParts, GensPositive
<1>9. open' \in [Listeners -> BOOLEAN]
    <2>1. open \in [Listeners -> BOOLEAN]
        BY DEF TypeOK
    <2> HIDE DEF opened, dropped
    <2> QED
        BY <1>6, <2>1
<1>10. drain' \in [Listeners -> {"no", "waiting", "done"}]
    <2>1. drain \in [Listeners -> {"no", "waiting", "done"}]
        BY DEF TypeOK
    <2>2. drain' = [l \in Listeners |-> IF l \in dropped THEN "waiting"
                                        ELSE IF l \in opened THEN "no"
                                        ELSE drain[l]]
        BY <1>1
    <2> HIDE DEF opened, dropped
    <2> QED
        BY <2>1, <2>2
<1>11. errors' \in Nat
    BY <1>1 DEF TypeOK
<1>12. \A l \in Listeners :
          open'[l] <=> IF l[1] = a /\ l[2] \in desired \ bad /\ active[a][l[2]] = 0
                               /\ l[3] = gen[l[2]]
                       THEN TRUE
                       ELSE open[l] /\ ~(l[1] = a /\ l[2] \notin desired
                                           /\ active[a][l[2]] = l[3])
    <2> HIDE DEF opened, dropped, desired
    <2> QED
        BY <1>6, <1>7, <1>8
<1>13. ReconcileEffect(a, desired, bad, gen)
    <2> HIDE DEF desired
    <2> QED
        BY <1>3, <1>4, <1>5, <1>9, <1>10, <1>11, <1>12 DEF ReconcileEffect
<1> QED
    BY <1>13

-----------------------------------------------------------------------------
(* Types, and the bookkeeping of connections. That l.active never becomes      *)
(* negative follows from its being exact, so the two are proved together.      *)

\* The initial states are well typed, and nothing is tracked.
LEMMA TypeInit == Init => TypeOK /\ TrackingExact
<1> SUFFICES ASSUME Init PROVE TypeOK /\ TrackingExact
    OBVIOUS
<1>1. TypeOK
    BY DEF Init, TypeOK, Phases, ConnStates, Steps
<1>2. ASSUME NEW l \in Listeners
      PROVE  CountedConns(l) = {} /\ StoredConns(l) = {}
    BY DEF Init, CountedConns, StoredConns, CountedStates, StoredStates
<1>3. TrackingExact
    BY <1>2, FS_EmptySet DEF Init, TrackingExact
<1> QED
    BY <1>1, <1>3

\* A step of the managers and converges keeps the types.
LEMMA TypeStepMgr ==
    ASSUME TypeOK,
           \/ \E a \in Apps : Provision(a) \/ Start(a) \/ Stop(a) \/ Closing(a)
           \/ \E a \in Apps, f \in Converges : ConvergeSave(a, f) \/ Converge(a, f)
           \/ \E l \in Listeners : Draining(l)
    PROVE  TypeOK' /\ UNCHANGED <<cst, lis, trackVars>>
<1> USE DEF appVars, mgrVars, trackVars, connVars, convVars, TypeOK, Phases
<1>1. ASSUME NEW a \in Apps, Provision(a)
      PROVE  TypeOK' /\ UNCHANGED <<cst, lis, trackVars>>
    BY <1>1 DEF Provision
<1>2. ASSUME NEW a \in Apps, NEW D \in SUBSET Ports, Reconcile(a, D)
      PROVE  /\ active' \in [Apps -> [Ports -> Gens \cup {0}]]
             /\ failed' \in [Apps -> SUBSET Ports]
             /\ open' \in [Listeners -> BOOLEAN]
             /\ drain' \in [Listeners -> {"no", "waiting", "done"}]
             /\ errors' \in Nat
    <2>1. PICK bad, gen : ReconcileEffect(a, D \ Reserved, bad, gen)
        BY <1>2, ReconcileLemma
    <2> QED
        BY <2>1 DEF ReconcileEffect
<1>3. ASSUME NEW a \in Apps, Start(a)
      PROVE  TypeOK' /\ UNCHANGED <<cst, lis, trackVars>>
    <2>1. CASE table[a] # {} /\ Reconcile(a, table[a])
        BY <1>2, <1>3, <2>1 DEF Start
    <2>2. CASE table[a] = {} /\ UNCHANGED <<active, failed, open, drain, errors>>
        BY <1>3, <2>2 DEF Start
    <2> QED
        BY <1>3, <2>1, <2>2 DEF Start
<1>4. ASSUME NEW a \in Apps, Close(a), UNCHANGED <<disk, table, trackVars, connVars, convVars, errors>>,
             NEW to \in Phases, phase' = [phase EXCEPT ![a] = to]
      PROVE  TypeOK' /\ UNCHANGED <<cst, lis, trackVars>>
    <2>1. \A p \in {q \in Ports : active[a][q] # 0} : <<a, p, active[a][p]>> \in Listeners
        BY DEF Listeners
    <2>2. closing' \in [Apps -> SUBSET Listeners]
        BY <1>4, <2>1 DEF Close
    <2>3. active' \in [Apps -> [Ports -> Gens \cup {0}]]
        BY <1>4 DEF Close
    <2>4. phase' \in [Apps -> Phases]
        BY <1>4
    <2> QED
        BY <1>4, <2>2, <2>3, <2>4 DEF Close
<1>9. ASSUME NEW a \in Apps, Stop(a)
      PROVE  TypeOK' /\ UNCHANGED <<cst, lis, trackVars>>
    BY <1>4, <1>9 DEF Stop
<1>5. ASSUME NEW a \in Apps, Closing(a)
      PROVE  TypeOK' /\ UNCHANGED <<cst, lis, trackVars>>
    <2>1. CASE CloseOne(a)
        <3>1. PICK l \in closing[a] : /\ StopListeners({l})
                                      /\ closing' = [closing EXCEPT ![a] = @ \ {l}]
            BY <2>1 DEF CloseOne
        <3>2. open' \in [Listeners -> BOOLEAN] /\ drain' \in [Listeners -> {"no", "waiting", "done"}]
            BY <3>1 DEF StopListeners
        <3>3. closing' \in [Apps -> SUBSET Listeners]
            BY <3>1
        <3> QED
            BY <2>1, <3>2, <3>3 DEF CloseOne
    <2>2. CASE Stopped(a)
        BY <2>2 DEF Stopped, Closed
    <2>3. CASE Cleanup(a)
        BY <1>4, <2>3 DEF Cleanup
    <2> QED
        BY <1>5, <2>1, <2>2, <2>3 DEF Closing
<1>6. ASSUME NEW a \in Apps, NEW f \in Converges, ConvergeSave(a, f)
      PROVE  TypeOK' /\ UNCHANGED <<cst, lis, trackVars>>
    BY <1>6 DEF ConvergeSave, Step, Steps
<1>7. ASSUME NEW a \in Apps, NEW f \in Converges, Converge(a, f)
      PROVE  TypeOK' /\ UNCHANGED <<cst, lis, trackVars>>
    <2>1. CASE ConvergeUpdate(a, f)
        <3>1. table' \in [Apps -> SUBSET Ports]
            BY <2>1 DEF ConvergeUpdate
        <3>2. want' \in [Apps -> [Converges -> SUBSET Ports]]
            BY <2>1 DEF ConvergeUpdate
        <3>3. step' \in [Apps -> [Converges -> Steps]]
            BY <2>1 DEF ConvergeUpdate, Step, Steps
        <3> QED
            BY <2>1, <3>1, <3>2, <3>3 DEF ConvergeUpdate
    <2>3. CASE ConvergePorts(a, f)
        BY <2>3 DEF ConvergePorts, Step, Steps
    <2>2. CASE ConvergeReconcile(a, f)
        <3>1. ports[a][f] \in SUBSET Ports /\ Reconcile(a, ports[a][f])
            BY <2>2 DEF ConvergeReconcile
        <3> QED
            BY <1>2, <2>2, <3>1 DEF ConvergeReconcile, Step, Steps
    <2> QED
        BY <1>7, <2>1, <2>2, <2>3 DEF Converge
<1>8. ASSUME NEW l \in Listeners, Draining(l)
      PROVE  TypeOK' /\ UNCHANGED <<cst, lis, trackVars>>
    <2>1. CASE DrainEmpty(l)
        BY <2>1 DEF DrainEmpty
    <2>2. CASE DrainForce(l)
        <3>1. down' \in [Conns -> BOOLEAN]
            BY <2>2 DEF DrainForce
        <3> QED
            BY <2>2, <3>1 DEF DrainForce
    <2> QED
        BY <1>8, <2>1, <2>2 DEF Draining
<1> QED
    BY <1>1, <1>3, <1>5, <1>6, <1>7, <1>8, <1>9

\* The number of counted connections is finite, and changes by one.
LEMMA CountedFinite ==
    ASSUME NEW S \in SUBSET Conns, NEW c \in Conns
    PROVE  /\ Cardinality(S) \in Nat
           /\ c \notin S => Cardinality(S \cup {c}) = Cardinality(S) + 1
           /\ c \in S => Cardinality(S \ {c}) = Cardinality(S) - 1
<1>1. IsFiniteSet(S)
    BY ConnsAssumption, FS_Subset
<1> QED
    BY <1>1, FS_CardinalityType, FS_AddElement, FS_RemoveElement

\* A step of a connection keeps the types and the tracking exact.
LEMMA ConnStepLemma ==
    ASSUME TypeOK, TrackingExact, NEW c \in Conns,
           Accept(c) \/ Handling(c) \/ ProxyDone(c)
    PROVE  TypeOK' /\ TrackingExact' /\ UNCHANGED <<appVars, mgrVars, convVars>>
<1> USE DEF appVars, mgrVars, trackVars, connVars, convVars, CountedStates, StoredStates
<1>0. /\ cst \in [Conns -> ConnStates] /\ lis \in [Conns -> Listeners \cup {NoListener}]
      /\ cst[c] \notin {"free", "gone"} => lis[c] \in Listeners
      /\ lis[c] \in Listeners \cup {NoListener}
      /\ lis = [lis EXCEPT ![c] = lis[c]]
      /\ count \in [Listeners -> Nat] /\ stored \in [Listeners -> SUBSET Conns]
    BY DEF TypeOK
<1>a. \A l \in Listeners : CountedConns(l) \in SUBSET Conns /\ StoredConns(l) \in SUBSET Conns
    BY DEF CountedConns, StoredConns
<1>c. \A l \in Listeners : count[l] = Cardinality(CountedConns(l)) /\ stored[l] = StoredConns(l)
    BY DEF TrackingExact
<1>1. CASE Accept(c)
    <2>1. PICK l0 \in Listeners : lis' = [lis EXCEPT ![c] = l0]
        BY <1>1 DEF Accept
    <2>2. TypeOK' /\ UNCHANGED <<appVars, mgrVars, convVars>>
        BY <1>1, <2>1 DEF Accept, ConnStep, TypeOK, ConnStates
    <2>3. cst' = [cst EXCEPT ![c] = "accepted"] /\ cst[c] = "free"
        BY <1>1 DEF Accept, ConnStep
    <2>4. "accepted" \in ConnStates
        BY DEF ConnStates
    <2>5. ASSUME NEW l \in Listeners
          PROVE  CountedConns(l)' = CountedConns(l) /\ StoredConns(l)' = StoredConns(l)
        BY <1>0, <2>1, <2>3, <2>4 DEF CountedConns, StoredConns
    <2> QED
        BY <1>1, <1>c, <2>2, <2>5 DEF Accept, TrackingExact
<1>2. CASE Count(c)
    <2>1. /\ cst' = [cst EXCEPT ![c] = "counted"] /\ cst[c] = "accepted"
          /\ lis' = [lis EXCEPT ![c] = lis[c]]
          /\ count' = [count EXCEPT ![lis[c]] = @ + 1] /\ stored' = stored
        BY <1>0, <1>2 DEF Count, ConnStep
    <2>2. "counted" \in ConnStates /\ lis[c] \in Listeners
        BY <1>0, <2>1 DEF ConnStates
    <2>3. TypeOK' /\ UNCHANGED <<appVars, mgrVars, convVars>>
        BY <1>2, <2>2 DEF Count, ConnStep, TypeOK, ConnStates
    <2>4. ASSUME NEW l \in Listeners
          PROVE  count'[l] = Cardinality(CountedConns(l)') /\ stored'[l] = StoredConns(l)'
        <3>1. StoredConns(l)' = StoredConns(l)
            BY <1>0, <2>1, <2>2 DEF CountedConns, StoredConns
        <3>2. CASE l = lis[c]
            <4>1. CountedConns(l)' = CountedConns(l) \cup {c} /\ c \notin CountedConns(l)
                BY <1>0, <2>1, <2>2, <3>2 DEF CountedConns, StoredConns
            <4> QED
                BY <1>0, <1>a, <1>c, <2>1, <3>1, <3>2, <4>1, CountedFinite
        <3>3. CASE l # lis[c]
            <4>1. CountedConns(l)' = CountedConns(l)
                BY <1>0, <2>1, <2>2, <3>3 DEF CountedConns, StoredConns
            <4> QED
                BY <1>0, <1>c, <2>1, <2>2, <3>1, <3>3, <4>1
        <3> QED
            BY <3>2, <3>3
    <2> QED
        BY <2>3, <2>4 DEF TrackingExact
<1>3. CASE Store(c)
    <2>1. /\ cst' = [cst EXCEPT ![c] = "stored"] /\ cst[c] = "counted"
          /\ lis' = [lis EXCEPT ![c] = lis[c]]
          /\ stored' = [stored EXCEPT ![lis[c]] = @ \cup {c}] /\ count' = count
        BY <1>0, <1>3 DEF Store, ConnStep
    <2>2. "stored" \in ConnStates /\ lis[c] \in Listeners
        BY <1>0, <2>1 DEF ConnStates
    <2>3. TypeOK' /\ UNCHANGED <<appVars, mgrVars, convVars>>
        BY <1>3, <2>2 DEF Store, ConnStep, TypeOK, ConnStates
    <2>4. ASSUME NEW l \in Listeners
          PROVE  CountedConns(l)' = CountedConns(l) /\ stored'[l] = StoredConns(l)'
        <3>1. CountedConns(l)' = CountedConns(l)
            BY <1>0, <2>1, <2>2 DEF CountedConns
        <3>2. CASE l = lis[c]
            <4>1. StoredConns(l)' = StoredConns(l) \cup {c}
                BY <1>0, <2>1, <2>2, <3>2 DEF StoredConns
            <4> QED
                BY <1>0, <1>c, <2>1, <3>1, <3>2, <4>1
        <3>3. CASE l # lis[c]
            <4>1. StoredConns(l)' = StoredConns(l)
                BY <1>0, <2>1, <2>2, <3>3 DEF StoredConns
            <4> QED
                BY <1>0, <1>c, <2>1, <2>2, <3>1, <3>3, <4>1
        <3> QED
            BY <3>2, <3>3
    <2> QED
        BY <1>c, <2>1, <2>3, <2>4 DEF TrackingExact
<1>4. CASE Lookup(c) \/ Dial(c) \/ ProxyDone(c)
    <2>1. PICK st \in {"routed", "proxying", "ending"} :
              /\ cst' = [cst EXCEPT ![c] = st] /\ cst[c] \in {"stored", "routed", "proxying"}
              /\ lis' = lis /\ count' = count /\ stored' = stored
        BY <1>4 DEF Lookup, Dial, ProxyDone, End, ConnStep
    <2>2. TypeOK' /\ UNCHANGED <<appVars, mgrVars, convVars>>
        <3>1. UNCHANGED <<appVars, mgrVars, convVars, errors>>
            BY <1>4 DEF Lookup, Dial, ProxyDone, End, ConnStep
        <3>2. down' = down \/ down' = [down EXCEPT ![c] = FALSE]
            BY <1>4 DEF Lookup, Dial, ProxyDone, End
        <3>3. down' \in [Conns -> BOOLEAN]
            BY <3>2 DEF TypeOK
        <3>4. cst' \in [Conns -> ConnStates]
            BY <2>1 DEF TypeOK, ConnStates
        <3>5. \A d \in Conns : cst'[d] \notin {"free", "gone"} => lis'[d] \in Listeners
            BY <2>1 DEF TypeOK
        <3> QED
            BY <2>1, <3>1, <3>3, <3>4, <3>5 DEF TypeOK, appVars, mgrVars, convVars
    <2>3. ASSUME NEW l \in Listeners
          PROVE  CountedConns(l)' = CountedConns(l) /\ StoredConns(l)' = StoredConns(l)
        <3>1. st \in ConnStates /\ lis' = [lis EXCEPT ![c] = lis[c]]
            BY <1>0, <2>1 DEF ConnStates
        <3> QED
            BY <1>0, <2>1, <3>1 DEF CountedConns, StoredConns
    <2> QED
        BY <1>c, <2>1, <2>2, <2>3 DEF TrackingExact
<1>5. CASE Delete(c)
    <2>1. /\ cst' = [cst EXCEPT ![c] = "deleted"] /\ cst[c] = "ending"
          /\ lis' = [lis EXCEPT ![c] = lis[c]]
          /\ stored' = [stored EXCEPT ![lis[c]] = @ \ {c}] /\ count' = count
        BY <1>0, <1>5 DEF Delete, ConnStep
    <2>2. "deleted" \in ConnStates /\ lis[c] \in Listeners
        BY <1>0, <2>1 DEF ConnStates
    <2>3. TypeOK' /\ UNCHANGED <<appVars, mgrVars, convVars>>
        BY <1>5, <2>2 DEF Delete, ConnStep, TypeOK, ConnStates
    <2>4. ASSUME NEW l \in Listeners
          PROVE  CountedConns(l)' = CountedConns(l) /\ stored'[l] = StoredConns(l)'
        BY <1>0, <1>c, <2>1, <2>2 DEF CountedConns, StoredConns
    <2> QED
        BY <1>c, <2>1, <2>3, <2>4 DEF TrackingExact
<1>6. CASE Uncount(c)
    <2>1. /\ cst' = [cst EXCEPT ![c] = "gone"] /\ cst[c] = "deleted"
          /\ lis' = [lis EXCEPT ![c] = NoListener]
          /\ count' = [count EXCEPT ![lis[c]] = @ - 1] /\ stored' = stored
        BY <1>6 DEF Uncount, ConnStep
    <2>2. "gone" \in ConnStates /\ lis[c] \in Listeners /\ NoListener \notin Listeners
        BY <1>0, <2>1 DEF ConnStates, NoListener, Listeners, Apps
    <2>3. ASSUME NEW l \in Listeners
          PROVE  count'[l] = Cardinality(CountedConns(l)') /\ stored'[l] = StoredConns(l)'
        <3>1. StoredConns(l)' = StoredConns(l)
            BY <1>0, <2>1, <2>2 DEF CountedConns, StoredConns
        <3>2. CASE l = lis[c]
            <4>1. CountedConns(l)' = CountedConns(l) \ {c} /\ c \in CountedConns(l)
                BY <1>0, <2>1, <2>2, <3>2 DEF CountedConns, StoredConns
            <4> QED
                BY <1>0, <1>a, <1>c, <2>1, <3>1, <3>2, <4>1, CountedFinite
        <3>3. CASE l # lis[c]
            <4>1. CountedConns(l)' = CountedConns(l)
                BY <1>0, <2>1, <2>2, <3>3 DEF CountedConns, StoredConns
            <4> QED
                BY <1>0, <1>c, <2>1, <2>2, <3>1, <3>3, <4>1
        <3> QED
            BY <3>2, <3>3
    <2>4. count' \in [Listeners -> Nat]
        <3>1. \A l \in Listeners : Cardinality(CountedConns(l)') \in Nat
            <4>1. \A l \in Listeners : CountedConns(l)' \in SUBSET Conns
                BY DEF CountedConns
            <4> QED
                BY <4>1, CountedFinite
        <3>2. count' = [l \in Listeners |-> count'[l]]
            BY <1>0, <2>1
        <3> QED
            BY <2>3, <3>1, <3>2
    <2>5. TypeOK' /\ UNCHANGED <<appVars, mgrVars, convVars>>
        BY <1>6, <2>4 DEF Uncount, ConnStep, TypeOK, ConnStates
    <2> QED
        BY <2>3, <2>5 DEF TrackingExact
<1> QED
    BY <1>1, <1>2, <1>3, <1>4, <1>5, <1>6 DEF Handling

\* Types and exact tracking are inductive together.
LEMMA TypeStep == TypeOK /\ TrackingExact /\ [Next]_vars => TypeOK' /\ TrackingExact'
<1> SUFFICES ASSUME TypeOK, TrackingExact, [Next]_vars
             PROVE  TypeOK' /\ TrackingExact'
    OBVIOUS
<1>1. CASE \/ \E a \in Apps : Provision(a) \/ Start(a) \/ Stop(a) \/ Closing(a)
           \/ \E a \in Apps, f \in Converges : ConvergeSave(a, f) \/ Converge(a, f)
           \/ \E l \in Listeners : Draining(l)
    <2>1. TypeOK' /\ UNCHANGED <<cst, lis, trackVars>>
        BY <1>1, TypeStepMgr
    <2> QED
        BY <2>1 DEF trackVars, TrackingExact, CountedConns, StoredConns
<1>2. CASE \E c \in Conns : Accept(c) \/ Handling(c) \/ ProxyDone(c)
    BY <1>2, ConnStepLemma
<1>3. CASE UNCHANGED vars
    <2>1. TypeOK'
        BY <1>3 DEF vars, appVars, mgrVars, trackVars, connVars, convVars, TypeOK
    <2>2. TrackingExact'
        BY <1>3 DEF vars, trackVars, connVars, TrackingExact, CountedConns, StoredConns
    <2> QED
        BY <2>1, <2>2
<1> QED
    BY <1>1, <1>2, <1>3 DEF Next, Terminated

\* Every variable keeps its type; in particular l.active is never negative.
THEOREM TypeCorrect == Spec => []TypeOK
<1>1. TypeOK /\ TrackingExact => TypeOK
    OBVIOUS
<1> QED
    BY <1>1, TypeInit, TypeStep, PTL DEF Spec

\* The drain goroutine's view of the handlers in flight is always exact.
THEOREM TrackingIsExact == Spec => []TrackingExact
<1>1. TypeOK /\ TrackingExact => TrackingExact
    OBVIOUS
<1> QED
    BY <1>1, TypeInit, TypeStep, PTL DEF Spec

-----------------------------------------------------------------------------
(* References to pooled sockets.                                               *)

\* What NoLeak needs to be inductive: Close has collected only listeners of its
\* own instance, only while it is closing them, and m.active has them no more.
CloseInv ==
    /\ \A a \in Apps : \A l \in closing[a] : l[1] = a
    /\ \A a \in Apps : phase[a] \notin {"stopping", "cleaning"} => closing[a] = {}
    /\ \A a \in Apps, p \in Ports : active[a][p] # 0 => <<a, p, active[a][p]>> \notin closing[a]

LeakInv == TypeOK /\ TrackingExact /\ CloseInv /\ NoLeak

\* Reconcile opens listeners that are not in use, and gives up exactly the
\* references of those it forgets.
LEMMA ReconcileLeak ==
    ASSUME TypeOK, CloseInv, NoLeak, NEW a \in Apps, NEW D \in SUBSET Ports,
           Reconcile(a, D), closing' = closing
    PROVE  /\ NoLeak'
           /\ \A b \in Apps, p \in Ports :
                 active'[b][p] # 0 => <<b, p, active'[b][p]>> \notin closing'[b]
<1> DEFINE desired == D \ Reserved
<1>1. PICK bad, gen : ReconcileEffect(a, desired, bad, gen)
    BY ReconcileLemma
<1> HIDE DEF desired
<1>2. active \in [Apps -> [Ports -> Gens \cup {0}]] /\ gen \in [Ports -> Gens]
    BY <1>1 DEF TypeOK, ReconcileEffect
<1>3. \A b \in Apps, p \in Ports :
          active'[b][p] = IF b # a THEN active[b][p]
                          ELSE IF p \in desired
                               THEN IF active[a][p] = 0 /\ p \notin bad
                                    THEN gen[p] ELSE active[a][p]
                               ELSE 0
    BY <1>1, <1>2 DEF ReconcileEffect
<1>4. ASSUME NEW p \in Ports, p \in desired \ bad, active[a][p] = 0
      PROVE  /\ <<a, p, gen[p]>> \notin closing[a]
             /\ ~open[<<a, p, gen[p]>>]
    BY <1>1, <1>4 DEF ReconcileEffect, Unused
<1>5. ASSUME NEW l \in Listeners
      PROVE  open'[l] <=> (active'[l[1]][l[2]] = l[3] \/ l \in closing'[l[1]])
    <2>1. /\ l[1] \in Apps /\ l[2] \in Ports /\ l[3] \in Gens
          /\ l = <<l[1], l[2], l[3]>> /\ l[3] # 0
        BY ListenerParts, GensPositive
    <2>2. open[l] <=> (active[l[1]][l[2]] = l[3] \/ l \in closing[l[1]])
        BY DEF NoLeak
    <2>3. open'[l] <=> IF l[1] = a /\ l[2] \in desired \ bad /\ active[a][l[2]] = 0
                               /\ l[3] = gen[l[2]]
                       THEN TRUE
                       ELSE open[l] /\ ~(l[1] = a /\ l[2] \notin desired
                                           /\ active[a][l[2]] = l[3])
        BY <1>1 DEF ReconcileEffect
    <2>4. active'[l[1]][l[2]] = IF l[1] # a THEN active[l[1]][l[2]]
                                ELSE IF l[2] \in desired
                                     THEN IF active[a][l[2]] = 0 /\ l[2] \notin bad
                                          THEN gen[l[2]] ELSE active[a][l[2]]
                                     ELSE 0
        BY <1>3, <2>1
    <2>5. active[l[1]][l[2]] = l[3] => l \notin closing[l[1]]
        BY <2>1 DEF CloseInv
    <2> QED
        BY <2>1, <2>2, <2>3, <2>4, <2>5
<1>6. ASSUME NEW b \in Apps, NEW p \in Ports, active'[b][p] # 0
      PROVE  <<b, p, active'[b][p]>> \notin closing'[b]
    BY <1>3, <1>4, <1>6 DEF CloseInv
<1> QED
    BY <1>5, <1>6 DEF NoLeak

\* Every step keeps CloseInv and NoLeak.
LEMMA LeakStep ==
    ASSUME TypeOK, CloseInv, NoLeak, TrackingExact, [Next]_vars
    PROVE  CloseInv' /\ NoLeak'
<1> USE DEF appVars, mgrVars, trackVars, connVars, convVars
<1>0. /\ phase \in [Apps -> Phases]
      /\ active \in [Apps -> [Ports -> Gens \cup {0}]]
      /\ closing \in [Apps -> SUBSET Listeners]
      /\ open \in [Listeners -> BOOLEAN]
    BY DEF TypeOK
<1>1. ASSUME UNCHANGED <<active, closing, open>>,
             \A a \in Apps : phase'[a] \notin {"stopping", "cleaning"} => closing[a] = {}
      PROVE  CloseInv' /\ NoLeak'
    BY <1>1 DEF CloseInv, NoLeak
<1>2. ASSUME NEW a \in Apps, Provision(a)
      PROVE  CloseInv' /\ NoLeak'
    BY <1>0, <1>1, <1>2 DEF Provision, CloseInv
<1>3. ASSUME NEW a \in Apps, Start(a)
      PROVE  CloseInv' /\ NoLeak'
    <2>1. closing' = closing /\ \A b \in Apps : phase'[b] \notin {"stopping", "cleaning"} => closing[b] = {}
        BY <1>0, <1>3 DEF Start, CloseInv
    <2>2. CASE table[a] # {} /\ Reconcile(a, table[a])
        <3>1. table[a] \in SUBSET Ports
            BY DEF TypeOK
        <3> QED
            BY <2>1, <2>2, <3>1, ReconcileLeak DEF CloseInv
    <2>3. CASE UNCHANGED <<active, failed, open, drain, errors>>
        BY <1>1, <2>1, <2>3
    <2> QED
        BY <1>3, <2>2, <2>3 DEF Start
<1>4. ASSUME NEW a \in Apps, Close(a), closing[a] = {},
             NEW to \in {"stopping", "cleaning"}, phase' = [phase EXCEPT ![a] = to]
      PROVE  CloseInv' /\ NoLeak'
    <2> DEFINE ls == {<<a, p, active[a][p]>> : p \in {q \in Ports : active[a][q] # 0}}
    <2>1. /\ closing[a] = {} /\ phase' = [phase EXCEPT ![a] = to]
          /\ closing' = [closing EXCEPT ![a] = ls]
          /\ active' = [active EXCEPT ![a] = [p \in Ports |-> 0]]
          /\ open' = open
        BY <1>4 DEF Close
    <2>2. \A l \in Listeners : l \in ls <=> l[1] = a /\ active[a][l[2]] = l[3]
        BY ListenerParts, GensPositive
    <2>3. \A l \in ls : l[1] = a
        OBVIOUS
    <2> HIDE DEF ls
    <2>4. CloseInv'
        BY <1>0, <2>1, <2>3 DEF CloseInv
    <2>5. NoLeak'
        <3>1. ASSUME NEW l \in Listeners
              PROVE  open'[l] <=> (active'[l[1]][l[2]] = l[3] \/ l \in closing'[l[1]])
            <4>1. l[1] \in Apps /\ l[2] \in Ports /\ l[3] # 0
                BY ListenerParts, GensPositive
            <4>2. open[l] <=> (active[l[1]][l[2]] = l[3] \/ l \in closing[l[1]])
                BY DEF NoLeak
            <4> QED
                BY <1>0, <2>1, <2>2, <4>1, <4>2
        <3> QED
            BY <3>1 DEF NoLeak
    <2> QED
        BY <2>4, <2>5
<1>5. ASSUME NEW a \in Apps, CloseOne(a)
      PROVE  CloseInv' /\ NoLeak'
    <2>1. PICK x \in closing[a] : /\ StopListeners({x})
                                  /\ closing' = [closing EXCEPT ![a] = @ \ {x}]
        BY <1>5 DEF CloseOne
    <2>2. active' = active /\ phase' = phase /\ x[1] = a
        BY <1>5 DEF CloseOne, CloseInv
    <2>3. CloseInv'
        BY <1>0, <2>1, <2>2 DEF CloseInv
    <2>4. ASSUME NEW l \in Listeners
          PROVE  open'[l] <=> (active'[l[1]][l[2]] = l[3] \/ l \in closing'[l[1]])
        <3>1. open'[l] <=> open[l] /\ l # x
            BY <1>0, <2>1 DEF StopListeners
        <3>2. open[l] <=> (active[l[1]][l[2]] = l[3] \/ l \in closing[l[1]])
            BY DEF NoLeak
        <3>3. /\ l[1] \in Apps /\ l[2] \in Ports /\ l[3] # 0
              /\ l = <<l[1], l[2], l[3]>>
            BY ListenerParts, GensPositive
        <3>4. active[l[1]][l[2]] = l[3] => l \notin closing[l[1]]
            BY <3>3 DEF CloseInv
        <3>5. l \in closing'[l[1]] <=> l \in closing[l[1]] /\ l # x
            BY <1>0, <2>1, <2>2, <3>3
        <3> QED
            BY <2>1, <2>2, <3>1, <3>2, <3>4, <3>5
    <2> QED
        BY <2>3, <2>4 DEF NoLeak
<1>6. ASSUME NEW a \in Apps, Stopped(a)
      PROVE  CloseInv' /\ NoLeak'
    BY <1>0, <1>1, <1>6 DEF Stopped, Closed, CloseInv
<1>7. ASSUME NEW a \in Apps, NEW f \in Converges, ConvergeReconcile(a, f)
      PROVE  CloseInv' /\ NoLeak'
    <2>1. ports[a][f] \in SUBSET Ports /\ Reconcile(a, ports[a][f])
        BY <1>7 DEF TypeOK, ConvergeReconcile
    <2>2. closing' = closing /\ phase' = phase
        BY <1>7 DEF ConvergeReconcile
    <2> QED
        BY <2>1, <2>2, ReconcileLeak DEF CloseInv
<1>8. ASSUME NEW a \in Apps, NEW f \in Converges,
             ConvergeSave(a, f) \/ ConvergeUpdate(a, f) \/ ConvergePorts(a, f)
      PROVE  CloseInv' /\ NoLeak'
    BY <1>1, <1>8 DEF ConvergeSave, ConvergeUpdate, ConvergePorts, CloseInv
<1>9. ASSUME NEW l \in Listeners, Draining(l)
      PROVE  CloseInv' /\ NoLeak'
    BY <1>1, <1>9 DEF Draining, DrainEmpty, DrainForce, CloseInv
<1>10. ASSUME NEW c \in Conns, Accept(c) \/ Handling(c) \/ ProxyDone(c)
       PROVE  CloseInv' /\ NoLeak'
    <2>1. UNCHANGED <<appVars, mgrVars, convVars>>
        BY <1>10, ConnStepLemma
    <2> QED
        BY <1>1, <2>1 DEF CloseInv
<1>11. CASE UNCHANGED vars
    BY <1>1, <1>11 DEF vars, CloseInv
<1>12. ASSUME NEW a \in Apps, Stop(a) \/ Cleanup(a)
       PROVE  CloseInv' /\ NoLeak'
    <2>1. closing[a] = {}
        BY <1>12 DEF Stop, Cleanup, CloseInv
    <2> QED
        BY <1>4, <1>12, <2>1 DEF Stop, Cleanup
<1> QED
    BY <1>2, <1>3, <1>5, <1>6, <1>7, <1>8, <1>9, <1>10, <1>11, <1>12
    DEF Next, Closing, Converge, Terminated

\* Neither Reconcile nor Close, in any interleaving, leaks a reference to a
\* pooled socket or drops one twice.
THEOREM NoReferenceLeaks == Spec => []NoLeak
<1>1. Init => LeakInv
    <2>1. Init => CloseInv /\ NoLeak
        <3> SUFFICES ASSUME Init PROVE CloseInv /\ NoLeak
            OBVIOUS
        <3>1. CloseInv
            BY DEF Init, CloseInv
        <3>2. NoLeak
            BY ListenerParts, GensPositive DEF Init, NoLeak
        <3> QED
            BY <3>1, <3>2
    <2> QED
        BY <2>1, TypeInit DEF LeakInv
<1>2. LeakInv /\ [Next]_vars => LeakInv'
    BY TypeStep, LeakStep DEF LeakInv
<1>3. LeakInv => NoLeak
    BY DEF LeakInv
<1> QED
    BY <1>1, <1>2, <1>3, PTL DEF Spec

-----------------------------------------------------------------------------
(* Listeners and table, when the converges of an instance do not overlap.      *)

SingleConverge == \A f, g \in Converges : f = g

\* What ListenersMatchTable needs to be inductive: an instance that has not
\* started has opened nothing, and the ports a converge reconciles with are the
\* ports of the table.
AppMatch(a) ==
    /\ phase[a] \in {"absent", "provisioned"} =>
          Idle(a) /\ failed[a] = {} /\ \A p \in Ports : active[a][p] = 0
    /\ \A f \in Converges : step[a][f] = "reconcile" => ports[a][f] = table[a]
    /\ phase[a] = "started" /\ Idle(a) =>
          {p \in Ports : active[a][p] # 0} = (table[a] \ Reserved) \ failed[a]

MatchInv == \A a \in Apps : AppMatch(a)

\* After Reconcile the instance listens on the ports it was given, but for the
\* reserved ones and the ones that failed; other instances are not affected.
LEMMA ReconcileMatch ==
    ASSUME TypeOK, NEW a \in Apps, NEW D \in SUBSET Ports, Reconcile(a, D)
    PROVE  /\ {p \in Ports : active'[a][p] # 0} = (D \ Reserved) \ failed'[a]
           /\ \A b \in Apps \ {a} : active'[b] = active[b] /\ failed'[b] = failed[b]
<1> DEFINE desired == D \ Reserved
<1>1. PICK bad, gen : ReconcileEffect(a, desired, bad, gen)
    BY ReconcileLemma
<1>2. desired \subseteq Ports
    OBVIOUS
<1> HIDE DEF desired
<1>3. /\ active \in [Apps -> [Ports -> Gens \cup {0}]] /\ gen \in [Ports -> Gens]
      /\ failed \in [Apps -> SUBSET Ports] /\ bad \subseteq desired
      /\ \A p \in bad : active[a][p] = 0
      /\ failed' = [failed EXCEPT ![a] = bad]
    BY <1>1 DEF TypeOK, ReconcileEffect
<1>4. active' = [active EXCEPT ![a] =
                     [p \in Ports |-> IF p \in desired
                                      THEN IF active[a][p] = 0 /\ p \notin bad
                                           THEN gen[p] ELSE active[a][p]
                                      ELSE 0]]
    BY <1>1 DEF ReconcileEffect
<1>5. ASSUME NEW p \in Ports
      PROVE  active'[a][p] # 0 <=> p \in desired \ bad
    BY <1>3, <1>4, GensPositive
<1>6. failed'[a] = bad /\ \A b \in Apps \ {a} : active'[b] = active[b] /\ failed'[b] = failed[b]
    BY <1>3, <1>4
<1>7. {p \in Ports : active'[a][p] # 0} = desired \ bad
    BY <1>2, <1>5
<1> QED
    BY <1>6, <1>7 DEF desired

\* Every step keeps MatchInv.
LEMMA MatchStep ==
    ASSUME SingleConverge, TypeOK, TrackingExact, MatchInv, [Next]_vars
    PROVE  MatchInv'
<1> USE DEF appVars, mgrVars, trackVars, connVars, convVars
<1>0. /\ phase \in [Apps -> Phases] /\ table \in [Apps -> SUBSET Ports]
      /\ active \in [Apps -> [Ports -> Gens \cup {0}]]
      /\ failed \in [Apps -> SUBSET Ports]
      /\ step \in [Apps -> [Converges -> Steps]]
      /\ want \in [Apps -> [Converges -> SUBSET Ports]]
      /\ ports \in [Apps -> [Converges -> SUBSET Ports]]
    BY DEF TypeOK
<1>1. ASSUME NEW a \in Apps, AppMatch(a)',
             \A b \in Apps \ {a} : /\ phase'[b] = phase[b] /\ table'[b] = table[b]
                                   /\ active'[b] = active[b] /\ failed'[b] = failed[b]
                                   /\ step'[b] = step[b] /\ ports'[b] = ports[b]
      PROVE  MatchInv'
    <2>1. ASSUME NEW b \in Apps \ {a}
          PROVE  AppMatch(b)'
        <3>1. AppMatch(b)
            BY DEF MatchInv
        <3>2. /\ phase'[b] = phase[b] /\ table'[b] = table[b] /\ active'[b] = active[b]
              /\ failed'[b] = failed[b] /\ step'[b] = step[b] /\ ports'[b] = ports[b]
            BY <1>1
        <3> QED
            BY <3>1, <3>2 DEF AppMatch, Idle
    <2> QED
        BY <1>1, <2>1 DEF MatchInv
<1>2. ASSUME UNCHANGED <<phase, table, active, failed, step, ports>>
      PROVE  MatchInv'
    BY <1>2 DEF MatchInv, AppMatch, Idle
<1>3. ASSUME NEW a \in Apps, Provision(a)
      PROVE  MatchInv'
    <2>1. /\ phase[a] = "absent" /\ phase' = [phase EXCEPT ![a] = "provisioned"]
          /\ table' = [table EXCEPT ![a] = disk]
          /\ UNCHANGED <<active, failed, step, ports>>
        BY <1>3 DEF Provision
    <2>2. AppMatch(a)
        BY DEF MatchInv
    <2>3. AppMatch(a)'
        BY <1>0, <2>1, <2>2 DEF AppMatch, Idle
    <2> QED
        BY <1>0, <1>1, <2>1, <2>3
<1>4. ASSUME NEW a \in Apps, Start(a)
      PROVE  MatchInv'
    <2>1. /\ phase[a] = "provisioned" /\ phase' = [phase EXCEPT ![a] = "started"]
          /\ UNCHANGED <<table, step, ports>>
        BY <1>4 DEF Start
    <2>2. AppMatch(a)
        BY DEF MatchInv
    <2>3. /\ {p \in Ports : active'[a][p] # 0} = (table[a] \ Reserved) \ failed'[a]
          /\ \A b \in Apps \ {a} : active'[b] = active[b] /\ failed'[b] = failed[b]
        <3>1. CASE table[a] # {} /\ Reconcile(a, table[a])
            BY <1>0, <3>1, ReconcileMatch
        <3>2. CASE table[a] = {} /\ UNCHANGED <<active, failed, open, drain, errors>>
            BY <2>1, <2>2, <3>2 DEF AppMatch
        <3> QED
            BY <1>4, <3>1, <3>2 DEF Start
    <2>4. AppMatch(a)'
        BY <1>0, <2>1, <2>2, <2>3 DEF AppMatch, Idle
    <2> QED
        BY <1>0, <1>1, <2>1, <2>3, <2>4
<1>5. ASSUME NEW a \in Apps, Stop(a) \/ Cleanup(a)
      PROVE  MatchInv'
    <2>1. /\ phase' = [phase EXCEPT ![a] = "stopping"] \/ phase' = [phase EXCEPT ![a] = "cleaning"]
          /\ active' = [active EXCEPT ![a] = [p \in Ports |-> 0]]
          /\ UNCHANGED <<table, failed, step, ports>>
        BY <1>5 DEF Stop, Cleanup, Close
    <2>2. AppMatch(a)
        BY DEF MatchInv
    <2>3. AppMatch(a)'
        BY <1>0, <2>1, <2>2 DEF AppMatch, Idle
    <2> QED
        BY <1>0, <1>1, <2>1, <2>3
<1>6. ASSUME NEW a \in Apps, CloseOne(a)
      PROVE  MatchInv'
    BY <1>2, <1>6 DEF CloseOne
<1>7. ASSUME NEW a \in Apps, Stopped(a)
      PROVE  MatchInv'
    <2>1. /\ phase' = [phase EXCEPT ![a] = "stopped"] \/ phase' = [phase EXCEPT ![a] = "cleaned"]
          /\ UNCHANGED <<table, active, failed, step, ports>>
        BY <1>7 DEF Stopped, Closed
    <2>2. AppMatch(a)
        BY DEF MatchInv
    <2>3. AppMatch(a)'
        BY <1>0, <2>1, <2>2 DEF AppMatch, Idle
    <2> QED
        BY <1>0, <1>1, <2>1, <2>3
<1>8. ASSUME NEW a \in Apps, NEW f \in Converges,
             UNCHANGED <<phase, active, failed>>, phase[a] \notin {"absent", "provisioned"},
             NEW s \in {"update", "ports", "reconcile"}, Step(a, f, s),
             \A b \in Apps \ {a} : table'[b] = table[b] /\ ports'[b] = ports[b],
             s = "reconcile" => ports'[a][f] = table'[a]
      PROVE  MatchInv'
    <2>1. \A g \in Converges : g = f
        BY DEF SingleConverge
    <2>2. step'[a][f] = s /\ \A b \in Apps \ {a} : step'[b] = step[b]
        BY <1>0, <1>8 DEF Step
    <2>3. AppMatch(a)'
        BY <1>8, <2>1, <2>2 DEF AppMatch, Idle
    <2> QED
        BY <1>1, <1>8, <2>2, <2>3
<1>9. ASSUME NEW a \in Apps, NEW f \in Converges, step[a][f] # "idle"
      PROVE  phase[a] \notin {"absent", "provisioned"}
    BY <1>9 DEF MatchInv, AppMatch, Idle
<1>10. ASSUME NEW a \in Apps, NEW f \in Converges, ConvergeSave(a, f)
       PROVE  MatchInv'
    BY <1>8, <1>10 DEF ConvergeSave
<1>11. ASSUME NEW a \in Apps, NEW f \in Converges, ConvergeUpdate(a, f)
       PROVE  MatchInv'
    BY <1>0, <1>8, <1>9, <1>11 DEF ConvergeUpdate
<1>12. ASSUME NEW a \in Apps, NEW f \in Converges, ConvergePorts(a, f)
       PROVE  MatchInv'
    <2>1. ports'[a][f] = table[a] /\ \A b \in Apps \ {a} : ports'[b] = ports[b]
        BY <1>0, <1>12 DEF ConvergePorts
    <2> QED
        BY <1>8, <1>9, <1>12, <2>1 DEF ConvergePorts
<1>13. ASSUME NEW a \in Apps, NEW f \in Converges, ConvergeReconcile(a, f)
       PROVE  MatchInv'
    <2>1. /\ step[a][f] = "reconcile" /\ Step(a, f, "idle")
          /\ ports' = [ports EXCEPT ![a][f] = {}]
          /\ UNCHANGED <<phase, table>>
          /\ Reconcile(a, ports[a][f])
        BY <1>13 DEF ConvergeReconcile
    <2>2. ports[a][f] = table[a] /\ ports[a][f] \in SUBSET Ports
        BY <1>0, <2>1 DEF MatchInv, AppMatch
    <2>3. /\ {p \in Ports : active'[a][p] # 0} = (table[a] \ Reserved) \ failed'[a]
          /\ \A b \in Apps \ {a} : active'[b] = active[b] /\ failed'[b] = failed[b]
        BY <2>1, <2>2, ReconcileMatch
    <2>4. phase[a] \notin {"absent", "provisioned"}
        BY <1>9, <2>1
    <2>5. /\ step'[a][f] = "idle" /\ \A b \in Apps \ {a} : step'[b] = step[b]
          /\ \A b \in Apps \ {a} : ports'[b] = ports[b]
        BY <1>0, <2>1 DEF Step
    <2>6. \A g \in Converges : g = f
        BY DEF SingleConverge
    <2>7. AppMatch(a)'
        BY <2>1, <2>3, <2>4, <2>5, <2>6 DEF AppMatch, Idle
    <2> QED
        BY <1>1, <2>1, <2>3, <2>5, <2>7
<1>14. ASSUME NEW l \in Listeners, Draining(l)
       PROVE  MatchInv'
    BY <1>2, <1>14 DEF Draining, DrainEmpty, DrainForce
<1>15. ASSUME NEW c \in Conns, Accept(c) \/ Handling(c) \/ ProxyDone(c)
       PROVE  MatchInv'
    <2>1. UNCHANGED <<appVars, mgrVars, convVars>>
        BY <1>15, ConnStepLemma
    <2> QED
        BY <1>2, <2>1
<1>16. CASE UNCHANGED vars
    BY <1>2, <1>16 DEF vars
<1> QED
    BY <1>3, <1>4, <1>5, <1>6, <1>7, <1>10, <1>11, <1>12, <1>13, <1>14, <1>15, <1>16
    DEF Next, Closing, Converge, Terminated

\* The initial states satisfy MatchInv.
LEMMA MatchInit == Init => MatchInv
BY DEF Init, MatchInv, AppMatch, Idle

\* When the converges of an instance run one at a time, its listeners match its
\* table whenever none is under way, over any number of reloads.
THEOREM ListenersMatch ==
    ASSUME SingleConverge
    PROVE  Spec => []ListenersMatchTable
<1>1. MatchInv => ListenersMatchTable
    BY DEF MatchInv, AppMatch, ListenersMatchTable
<1>2. TypeOK /\ TrackingExact /\ MatchInv /\ [Next]_vars => MatchInv'
    BY MatchStep
<1> QED
    BY <1>1, <1>2, MatchInit, TypeInit, TypeStep, PTL DEF Spec

\* Then a port the instance in service has settled on stays bound through every
\* reload.
THEOREM SettledStaysBound ==
    ASSUME SingleConverge
    PROVE  Spec => []SettledIsBound
<1>1. TypeOK /\ NoLeak /\ ListenersMatchTable => SettledIsBound
    <2> SUFFICES ASSUME TypeOK, NoLeak, ListenersMatchTable, NEW p \in Ports, Settled(p)
                 PROVE  Bound(p)
        BY DEF SettledIsBound
    <2>1. PICK a \in Apps : /\ phase[a] = "started" /\ Idle(a)
                            /\ p \in (table[a] \ Reserved) \ failed[a]
        BY DEF Settled, InService
    <2>2. active[a][p] # 0 /\ active[a][p] \in Gens \cup {0}
        BY <2>1 DEF ListenersMatchTable, TypeOK
    <2>3. <<a, p, active[a][p]>> \in Listeners
        BY <2>2 DEF Listeners
    <2>4. open[<<a, p, active[a][p]>>]
        BY <2>3 DEF NoLeak
    <2> QED
        BY <2>2, <2>4 DEF Bound
<1> QED
    BY <1>1, TypeCorrect, NoReferenceLeaks, ListenersMatch, PTL

=============================================================================
