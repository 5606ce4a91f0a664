---------------------------- MODULE TCPListeners ----------------------------
(***************************************************************************)
(* The TCP data plane of caddy-consul across config reloads                *)
(* (src/tcp_listener.go, src/tcp_table.go, the connection handler of       *)
(* src/tcp_proxy.go, and the calls of src/consul.go).                      *)
(*                                                                         *)
(* Caddy runs app instances 1, 2, ... : it provisions and starts the next  *)
(* one before it stops the one in service. Each instance has a route table *)
(* and a listener manager; listeners on the same port share one socket of  *)
(* Caddy's reference-counted pool, so a port is bound as long as any       *)
(* instance has a listener open on it.                                     *)
(*                                                                         *)
(* A converge (the end of onServicesChanged) saves the routes, swaps the   *)
(* table, reads its ports and reconciles the listeners with them.          *)
(***************************************************************************)
EXTENDS Integers, FiniteSets

CONSTANTS
    NApps,          \* app instances: one more than the reloads
    Ports,          \* TCP ports of routes
    Reserved,       \* ports the manager refuses to bind
    Conns,          \* client connections, each accepted at most once
    Converges,      \* concurrent runs of onServicesChanged in one instance
    LateConverges,  \* a converge may still run, or start, once Stop was called
    MaxGen,         \* listeners of one instance on one port, drained ones included
    MaxConverges,   \* bound on converges
    MaxErrors       \* bound on reconciles in which a bind fails and on failing saves

ASSUME NumbersAssumption ==
    /\ NApps \in Nat \ {0} /\ MaxGen \in Nat \ {0}
    /\ MaxConverges \in Nat /\ MaxErrors \in Nat
ASSUME ReservedAssumption == Reserved \subseteq Ports
ASSUME ConnsAssumption == IsFiniteSet(Conns)
ASSUME LateAssumption == LateConverges \in BOOLEAN

Apps == 1..NApps
Gens == 1..MaxGen

\* A listener is known by its instance, its port and a generation.
Listeners == Apps \X Ports \X Gens

VARIABLES
    disk,       \* ports of the TCP routes in the state file
    phase,      \* lifecycle of each instance
    table,      \* ports of each instance's TCPTable
    active,     \* m.active: per instance and port the listener's generation, or 0
    closing,    \* listeners Close has collected and not yet stopped
    failed,     \* history: ports the instance's last Reconcile failed to open
    open,       \* whether each listener holds its reference to the pooled socket
    drain,      \* "no", "waiting" or "done": the drain goroutine of a listener
    count,      \* l.active
    stored,     \* l.conns
    cst,        \* where each connection is
    lis,        \* the listener that accepted it
    down,       \* whether the client's connection is open
    step,       \* per instance and converge, what it does next
    want,       \* the ports of the routes it has compiled
    ports,      \* the ports it has read from the table
    converges,  \* converges so far
    errors      \* binds (per reconcile) and saves that have failed so far

appVars == <<disk, phase, table>>
mgrVars == <<active, closing, failed, open, drain>>
trackVars == <<count, stored>>
connVars == <<cst, lis, down>>
convVars == <<step, want, ports, converges>>
vars == <<appVars, mgrVars, trackVars, connVars, convVars, errors>>

Phases == {"absent", "provisioned", "started", "stopping", "stopped", "cleaning", "cleaned"}
ConnStates == {"free", "accepted", "counted", "stored", "routed", "proxying", "ending",
               "deleted", "gone"}
Steps == {"idle", "update", "ports", "reconcile"}

NoListener == <<0, 0, 0>>

\* A port is bound while some listener has a reference to the pooled socket.
Bound(p) == \E a \in Apps, g \in Gens : open[<<a, p, g>>]

\* A listener that was never opened, or has drained and is referenced no more.
Unused(l) ==
    /\ ~open[l]
    /\ drain[l] # "waiting"
    /\ l \notin closing[l[1]]
    /\ \A c \in Conns : lis[c] # l

Idle(a) == \A f \in Converges : step[a][f] = "idle"

Init ==
    /\ disk \in SUBSET Ports
    /\ phase = [a \in Apps |-> "absent"]
    /\ table = [a \in Apps |-> {}]
    /\ active = [a \in Apps |-> [p \in Ports |-> 0]]
    /\ closing = [a \in Apps |-> {}]
    /\ failed = [a \in Apps |-> {}]
    /\ open = [l \in Listeners |-> FALSE]
    /\ drain = [l \in Listeners |-> "no"]
    /\ count = [l \in Listeners |-> 0]
    /\ stored = [l \in Listeners |-> {}]
    /\ cst = [c \in Conns |-> "free"]
    /\ lis = [c \in Conns |-> NoListener]
    /\ down = [c \in Conns |-> FALSE]
    /\ step = [a \in Apps |-> [f \in Converges |-> "idle"]]
    /\ want = [a \in Apps |-> [f \in Converges |-> {}]]
    /\ ports = [a \in Apps |-> [f \in Converges |-> {}]]
    /\ converges = 0
    /\ errors = 0

-----------------------------------------------------------------------------
(* The listener manager.                                                     *)

\* stopListener: drop the reference to the socket, start the drain goroutine.
StopListeners(ls) ==
    /\ open' = [l \in Listeners |-> open[l] /\ l \notin ls]
    /\ drain' = [l \in Listeners |-> IF l \in ls THEN "waiting" ELSE drain[l]]

\* Mutant: reserved ports are not filtered.
ReconcileMutant(a, desiredPorts) ==
    LET missing == {p \in desiredPorts : active[a][p] = 0}
        removed == {p \in Ports \ desiredPorts : active[a][p] # 0}
    IN  \E gen \in [Ports -> Gens] :
          LET opened == {<<a, p, gen[p]>> : p \in missing}
              dropped == {<<a, p, active[a][p]>> : p \in removed}
          IN  /\ \A l \in opened : Unused(l)
              /\ active' = [active EXCEPT ![a] =
                               [p \in Ports |-> IF p \in missing THEN gen[p]
                                                ELSE IF p \in removed THEN 0
                                                ELSE active[a][p]]]
              /\ open' = [l \in Listeners |-> l \in opened \/ (open[l] /\ l \notin dropped)]
              /\ drain' = [l \in Listeners |-> IF l \in dropped THEN "waiting"
                                               ELSE IF l \in opened THEN "no"
                                               ELSE drain[l]]
              /\ UNCHANGED <<failed, errors>>

\* Reconcile, under m.mu. Only a port that no instance has bound can fail to
\* open: the pool gives out another reference to a socket it has.
Reconcile(a, desiredPorts) ==
    LET desired == desiredPorts \ Reserved
        missing == {p \in desired : active[a][p] = 0}
        removed == {p \in Ports \ desired : active[a][p] # 0}
        dropped == {<<a, p, active[a][p]>> : p \in removed}
    IN  \E bad \in SUBSET {p \in missing : ~Bound(p)}, gen \in [Ports -> Gens] :
          LET opened == {<<a, p, gen[p]>> : p \in missing \ bad}
          IN  /\ \A l \in opened : Unused(l)
              /\ bad # {} => errors < MaxErrors
              /\ errors' = IF bad = {} THEN errors ELSE errors + 1
              /\ failed' = [failed EXCEPT ![a] = bad]
              /\ active' = [active EXCEPT ![a] =
                               [p \in Ports |-> IF p \in missing \ bad THEN gen[p]
                                                ELSE IF p \in removed THEN 0
                                                ELSE active[a][p]]]
              /\ open' = [l \in Listeners |-> l \in opened \/ (open[l] /\ l \notin dropped)]
              /\ drain' = [l \in Listeners |-> IF l \in dropped THEN "waiting"
                                               ELSE IF l \in opened THEN "no"
                                               ELSE drain[l]]

\* The drain goroutine sees no handler in flight.
DrainEmpty(l) ==
    /\ drain[l] = "waiting"
    /\ count[l] = 0
    /\ drain' = [drain EXCEPT ![l] = "done"]
    /\ UNCHANGED <<appVars, active, closing, failed, open, trackVars, connVars, convVars,
                   errors>>

\* The grace period is over with handlers in flight: close their connections.
DrainForce(l) ==
    /\ drain[l] = "waiting"
    /\ count[l] > 0
    /\ drain' = [drain EXCEPT ![l] = "done"]
    /\ down' = [c \in Conns |-> down[c] /\ c \notin stored[l]]
    /\ UNCHANGED <<appVars, active, closing, failed, open, trackVars, cst, lis, convVars,
                   errors>>

-----------------------------------------------------------------------------
(* The life of an app instance.                                              *)

\* Provision: load the state file and warm the table with its TCP routes. Caddy
\* has one reload at a time.
Provision(a) ==
    /\ phase[a] = "absent"
    /\ a > 1 => phase[a - 1] = "started"
    /\ \A b \in Apps : b < a - 1 => phase[b] = "cleaned"
    /\ phase' = [phase EXCEPT ![a] = "provisioned"]
    /\ table' = [table EXCEPT ![a] = disk]
    /\ UNCHANGED <<disk, mgrVars, trackVars, connVars, convVars, errors>>

\* Mutant: Start leaves the listeners to the first converge.
StartMutant(a) ==
    /\ phase[a] = "provisioned"
    /\ phase' = [phase EXCEPT ![a] = "started"]
    /\ UNCHANGED <<disk, table, mgrVars, trackVars, connVars, convVars, errors>>

\* Start: re-open the listeners of the persisted routes before it returns.
Start(a) ==
    /\ phase[a] = "provisioned"
    /\ phase' = [phase EXCEPT ![a] = "started"]
    /\ \/ table[a] # {} /\ Reconcile(a, table[a])
       \/ table[a] = {} /\ UNCHANGED <<active, failed, open, drain, errors>>
    /\ UNCHANGED <<disk, table, closing, trackVars, connVars, convVars>>

\* Mutant: Close forgets the listeners without collecting them.
CloseMutant(a) ==
    /\ active' = [active EXCEPT ![a] = [p \in Ports |-> 0]]
    /\ UNCHANGED <<closing, failed, open, drain>>

\* Close takes the listeners out of m.active under m.mu; CloseOne stops each of
\* them after unlocking.
Close(a) ==
    /\ closing' = [closing EXCEPT ![a] =
                      {<<a, p, active[a][p]>> : p \in {q \in Ports : active[a][q] # 0}}]
    /\ active' = [active EXCEPT ![a] = [p \in Ports |-> 0]]
    /\ UNCHANGED <<failed, open, drain>>

\* Stop, once the next instance has started, or at exit. Stopping the watcher
\* does not wait for a converge.
Stop(a) ==
    /\ phase[a] = "started"
    /\ a < NApps => phase[a + 1] \in {"absent", "started"}
    /\ a > 1 => phase[a - 1] = "cleaned"
    /\ LateConverges \/ Idle(a)
    /\ phase' = [phase EXCEPT ![a] = "stopping"]
    /\ Close(a)
    /\ UNCHANGED <<disk, table, trackVars, connVars, convVars, errors>>

\* Cleanup, which Caddy calls after Stop, stops the instance once more.
Cleanup(a) ==
    /\ phase[a] = "stopped"
    /\ phase' = [phase EXCEPT ![a] = "cleaning"]
    /\ Close(a)
    /\ UNCHANGED <<disk, table, trackVars, connVars, convVars, errors>>

CloseOne(a) ==
    /\ \E l \in closing[a] :
          /\ StopListeners({l})
          /\ closing' = [closing EXCEPT ![a] = @ \ {l}]
    /\ UNCHANGED <<appVars, active, failed, trackVars, connVars, convVars, errors>>

\* Stop or Cleanup returns.
Closed(a, from, to) ==
    /\ phase[a] = from
    /\ closing[a] = {}
    /\ phase' = [phase EXCEPT ![a] = to]
    /\ UNCHANGED <<disk, table, mgrVars, trackVars, connVars, convVars, errors>>

Stopped(a) == Closed(a, "stopping", "stopped") \/ Closed(a, "cleaning", "cleaned")

-----------------------------------------------------------------------------
(* The end of onServicesChanged.                                             *)

Step(a, f, s) == step' = [step EXCEPT ![a][f] = s]

\* The routes are compiled and saved before they are applied; a failure to write
\* the state file is only logged.
ConvergeSave(a, f) ==
    /\ phase[a] = "started" \/ (LateConverges /\ phase[a] \notin {"absent", "provisioned"})
    /\ step[a][f] = "idle"
    /\ converges < MaxConverges
    /\ converges' = converges + 1
    /\ \E routes \in SUBSET Ports :
          /\ want' = [want EXCEPT ![a][f] = routes]
          /\ \/ disk' = routes /\ UNCHANGED errors
             \/ errors < MaxErrors /\ errors' = errors + 1 /\ UNCHANGED disk
    /\ Step(a, f, "update")
    /\ UNCHANGED <<phase, table, mgrVars, trackVars, connVars, ports>>

ConvergeUpdate(a, f) ==
    /\ step[a][f] = "update"
    /\ table' = [table EXCEPT ![a] = want[a][f]]
    /\ want' = [want EXCEPT ![a][f] = {}]
    /\ Step(a, f, "ports")
    /\ UNCHANGED <<disk, phase, mgrVars, trackVars, connVars, ports, converges, errors>>

ConvergePorts(a, f) ==
    /\ step[a][f] = "ports"
    /\ ports' = [ports EXCEPT ![a][f] = table[a]]
    /\ Step(a, f, "reconcile")
    /\ UNCHANGED <<appVars, mgrVars, trackVars, connVars, want, converges, errors>>

ConvergeReconcile(a, f) ==
    /\ step[a][f] = "reconcile"
    /\ Reconcile(a, ports[a][f])
    /\ ports' = [ports EXCEPT ![a][f] = {}]
    /\ Step(a, f, "idle")
    /\ UNCHANGED <<appVars, closing, trackVars, connVars, want, converges>>

-----------------------------------------------------------------------------
(* Connections: acceptLoop and handle.                                       *)

ConnStep(c, from, to) ==
    /\ cst[c] = from
    /\ cst' = [cst EXCEPT ![c] = to]

Accept(c) ==
    /\ ConnStep(c, "free", "accepted")
    /\ \E l \in Listeners : open[l] /\ lis' = [lis EXCEPT ![c] = l]
    /\ down' = [down EXCEPT ![c] = TRUE]
    /\ UNCHANGED <<appVars, mgrVars, trackVars, convVars, errors>>

\* Mutant: the handler is not counted.
CountMutant(c) ==
    /\ ConnStep(c, "accepted", "counted")
    /\ UNCHANGED <<appVars, mgrVars, trackVars, lis, down, convVars, errors>>

Count(c) ==
    /\ ConnStep(c, "accepted", "counted")
    /\ count' = [count EXCEPT ![lis[c]] = @ + 1]
    /\ UNCHANGED <<appVars, mgrVars, stored, lis, down, convVars, errors>>

\* conns.Store, and the handler goroutine starts.
Store(c) ==
    /\ ConnStep(c, "counted", "stored")
    /\ stored' = [stored EXCEPT ![lis[c]] = @ \cup {c}]
    /\ UNCHANGED <<appVars, mgrVars, count, lis, down, convVars, errors>>

\* handle returns and closes the client's connection.
End(c, from) ==
    /\ ConnStep(c, from, "ending")
    /\ down' = [down EXCEPT ![c] = FALSE]
    /\ UNCHANGED <<appVars, mgrVars, trackVars, lis, convVars, errors>>

Routable(c) == lis[c][2] \in table[lis[c][1]]

Lookup(c) ==
    \/ /\ ConnStep(c, "stored", "routed")
       /\ Routable(c)
       /\ UNCHANGED <<appVars, mgrVars, trackVars, lis, down, convVars, errors>>
    \/ End(c, "stored") /\ ~Routable(c)

\* The ClientHello cannot be read, no route matches, no upstream is healthy, or
\* the dial fails; or else the upstream is connected.
Dial(c) ==
    \/ End(c, "routed")
    \/ /\ ConnStep(c, "routed", "proxying")
       /\ UNCHANGED <<appVars, mgrVars, trackVars, lis, down, convVars, errors>>

\* Both directions have reached EOF.
ProxyDone(c) == End(c, "proxying")

\* Mutant: the handler is uncounted here as well.
DeleteMutant(c) ==
    /\ ConnStep(c, "ending", "deleted")
    /\ stored' = [stored EXCEPT ![lis[c]] = @ \ {c}]
    /\ count' = [count EXCEPT ![lis[c]] = @ - 1]
    /\ UNCHANGED <<appVars, mgrVars, lis, down, convVars, errors>>

Delete(c) ==
    /\ ConnStep(c, "ending", "deleted")
    /\ stored' = [stored EXCEPT ![lis[c]] = @ \ {c}]
    /\ UNCHANGED <<appVars, mgrVars, count, lis, down, convVars, errors>>

Uncount(c) ==
    /\ ConnStep(c, "deleted", "gone")
    /\ count' = [count EXCEPT ![lis[c]] = @ - 1]
    /\ lis' = [lis EXCEPT ![c] = NoListener]
    /\ UNCHANGED <<appVars, mgrVars, stored, down, convVars, errors>>

-----------------------------------------------------------------------------
Converge(a, f) == ConvergeUpdate(a, f) \/ ConvergePorts(a, f) \/ ConvergeReconcile(a, f)
Closing(a) == CloseOne(a) \/ Stopped(a) \/ Cleanup(a)
Draining(l) == DrainEmpty(l) \/ DrainForce(l)
Handling(c) == Count(c) \/ Store(c) \/ Lookup(c) \/ Dial(c) \/ Delete(c) \/ Uncount(c)

\* No instance runs, or will: keeps TLC from calling this a deadlock.
Terminated ==
    /\ \A a \in Apps : phase[a] \in {"absent", "cleaned"} /\ Idle(a)
    /\ UNCHANGED vars

Next ==
    \/ \E a \in Apps : Provision(a) \/ Start(a) \/ Stop(a) \/ Closing(a)
    \/ \E a \in Apps, f \in Converges : ConvergeSave(a, f) \/ Converge(a, f)
    \/ \E c \in Conns : Accept(c) \/ Handling(c) \/ ProxyDone(c)
    \/ \E l \in Listeners : Draining(l)
    \/ Terminated

Spec == Init /\ [][Next]_vars

\* Goroutines run; dials and peeks have timeouts; the drain goroutine wakes up.
\* A client or an upstream need never finish, and nobody need connect or reload.
Fairness ==
    /\ \A a \in Apps : WF_vars(Closing(a))
    /\ \A a \in Apps, f \in Converges : WF_vars(Converge(a, f))
    /\ \A c \in Conns : WF_vars(Handling(c))
    /\ \A l \in Listeners : WF_vars(Draining(l))

FairSpec == Spec /\ Fairness

-----------------------------------------------------------------------------
(* Properties.                                                               *)

\* Every variable has its type.
TypeOK ==
    /\ disk \subseteq Ports
    /\ phase \in [Apps -> Phases]
    /\ table \in [Apps -> SUBSET Ports]
    /\ active \in [Apps -> [Ports -> Gens \cup {0}]]
    /\ closing \in [Apps -> SUBSET Listeners]
    /\ failed \in [Apps -> SUBSET Ports]
    /\ open \in [Listeners -> BOOLEAN]
    /\ drain \in [Listeners -> {"no", "waiting", "done"}]
    /\ count \in [Listeners -> Nat]
    /\ stored \in [Listeners -> SUBSET Conns]
    /\ cst \in [Conns -> ConnStates]
    /\ lis \in [Conns -> Listeners \cup {NoListener}]
    /\ \A c \in Conns : cst[c] \notin {"free", "gone"} => lis[c] \in Listeners
    /\ down \in [Conns -> BOOLEAN]
    /\ step \in [Apps -> [Converges -> Steps]]
    /\ want \in [Apps -> [Converges -> SUBSET Ports]]
    /\ ports \in [Apps -> [Converges -> SUBSET Ports]]
    /\ converges \in Nat
    /\ errors \in Nat

\* The connections of listener l whose handler is counted, or known to l.conns.
CountedStates == {"counted", "stored", "routed", "proxying", "ending", "deleted"}
StoredStates == {"stored", "routed", "proxying", "ending"}

CountedConns(l) == {c \in Conns : lis[c] = l /\ cst[c] \in CountedStates}
StoredConns(l) == {c \in Conns : lis[c] = l /\ cst[c] \in StoredStates}

\* What the drain goroutine decides by is exact, however handlers start and end
\* around it: l.active is the number of handlers in flight, so it does not stop
\* waiting for one, and l.conns has every connection it may have to close.
TrackingExact ==
    \A l \in Listeners : count[l] = Cardinality(CountedConns(l)) /\ stored[l] = StoredConns(l)

\* The open listeners of an instance are exactly the ones its manager knows or
\* is closing: Reconcile and Close leak no reference to a pooled socket, and a
\* reference is dropped once only.
NoLeak ==
    \A l \in Listeners :
        open[l] <=> (active[l[1]][l[2]] = l[3] \/ l \in closing[l[1]])

\* Whenever no converge of a started instance is under way, the ports it listens
\* on are the ports of its table, without the reserved ones and those that
\* failed to open: the table and the listeners never stay apart.
ListenersMatchTable ==
    \A a \in Apps : phase[a] = "started" /\ Idle(a) =>
        {p \in Ports : active[a][p] # 0} = (table[a] \ Reserved) \ failed[a]

\* The instance that has taken over from its predecessor.
InService(a) == phase[a] = "started" /\ (a < NApps => phase[a + 1] # "started")

\* The ports that the instance in service has settled on.
Settled(p) ==
    \E a \in Apps : InService(a) /\ Idle(a) /\ p \in (table[a] \ Reserved) \ failed[a]

\* Reload survival: a port the instance in service has settled on is bound, at
\* every moment of a reload. In particular Start opens the persisted ports
\* before it returns, and the predecessor's Close cannot unbind them.
SettledIsBound == \A p \in Ports : Settled(p) => Bound(p)

\* Every connection that has a handler while the drain goroutine of its listener
\* waits is closed in the end, by itself or when the drain period is over.
TrackedConnsDrain ==
    \A c \in Conns :
        (/\ cst[c] \in {"stored", "routed", "proxying"}
         /\ drain[lis[c]] = "waiting") ~> ~down[c]

\* The comment in Stop: closing the listeners gives up the instance's
\* references. So an instance that is stopped and cleaned up, and whose converges
\* have returned, has no listener open.
StoppedHoldsNothing ==
    \A a \in Apps : phase[a] = "cleaned" /\ Idle(a) =>
        \A p \in Ports, g \in Gens : ~open[<<a, p, g>>]

=============================================================================
