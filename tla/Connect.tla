------------------------------ MODULE Connect ------------------------------
(***************************************************************************)
(* Consul Connect in caddy-consul: the upstream manager                    *)
(* (src/upstream_manager.go), the service registrar (src/register.go), the *)
(* sidecar resolver (src/connect.go) and the part of onServicesChanged in  *)
(* src/consul.go that calls them.                                          *)
(*                                                                         *)
(* Two goroutines write the same registration at the Consul agent without  *)
(* knowing of each other:                                                  *)
(*   the registrar keeps the service, its sidecar and a TTL check there;   *)
(*   a converge re-registers the service with the sidecar's upstreams, one *)
(*   local port per Connect service, and then reads the ports back from    *)
(*   the sidecar to build the routes.                                      *)
(* A step is one call of the agent, which may fail, or what happens        *)
(* between two of them. The process may stop, exit or crash at any moment  *)
(* and start again from the state file.                                    *)
(***************************************************************************)
EXTENDS Integers, FiniteSets

CONSTANTS
    Services,      \* names of Connect services
    PortStart,     \* connect_port_range_start
    PortEnd,       \* connect_port_range_end, excluded
    Hash,          \* the 32-bit FNV hash of a name
    MaxLosses,     \* bound on what the agent loses by itself
    MaxErrors,     \* bound on failing calls
    MaxConverges,  \* bound on converges
    MaxRestarts    \* bound on restarts of the process

ASSUME PortsAssumption ==
    PortStart \in Nat \ {0} /\ PortEnd \in Nat /\ PortStart < PortEnd
ASSUME HashAssumption == Hash \in [Services -> Nat]
ASSUME BoundsAssumption ==
    MaxLosses \in Nat /\ MaxErrors \in Nat /\ MaxConverges \in Nat /\ MaxRestarts \in Nat

VARIABLES
    main,       \* agent: the service is registered
    sidecar,    \* agent: its sidecar proxy is registered
    orphaned,   \* history: the sidecar was lost on its own and not registered since
    upstreams,  \* agent: Proxy.Upstreams of the sidecar, service -> port or 0
    check,      \* agent: the TTL check
    proc,       \* the process: "up", "stopped" (Stop called), "exiting", "down"
    rpc,        \* where the registrar's maintainLoop is
    phase2,     \* it has been registered once
    alloc,      \* um.allocations, service -> port or 0
    table,      \* the route table, service -> port of its sidecar route or 0
    disk,       \* the state file: allocations and routes
    cpc,        \* where the converge is
    desired,    \* connectServices of the converge
    current,    \* currentUpstreams of SyncUpstreams, service -> port or 0
    todo,       \* services still to be allocated, or to be resolved
    routes,     \* the routes built so far, service -> port or 0
    unsaved,    \* history: a converge ended, or its process, without saving
    losses, errors, converges, restarts   \* counters for the bounds

agentVars == <<main, sidecar, orphaned, upstreams, check>>
regVars == <<rpc, phase2>>
convVars == <<cpc, desired, current, todo, routes>>
mgrVars == <<alloc, table, disk>>
procVars == <<proc, unsaved, restarts>>
vars == <<agentVars, procVars, regVars, mgrVars, convVars, losses, errors, converges>>

RangeSize == PortEnd - PortStart
PortRange == PortStart..(PortEnd - 1)
PortMaps == [Services -> PortRange \cup {0}]
NoPorts == [s \in Services |-> 0]

RegStates == {"try", "main", "sidecar", "ttl", "check", "register", "tick", "returned"}
ConvergeStates == {"idle", "read", "alloc", "resolve", "save"}

Running == proc # "down"

\* The agent may hold the registration of an earlier process, or of a release
\* that registered no sidecar; the state file is the one of that process.
Init ==
    /\ main \in BOOLEAN
    /\ sidecar \in BOOLEAN /\ orphaned = FALSE
    /\ check \in {"none", "passing", "critical"}
    /\ ~main => ~sidecar /\ check = "none"
    /\ upstreams = NoPorts
    /\ proc = "up"
    /\ unsaved = FALSE
    /\ rpc = "try"
    /\ phase2 = FALSE
    /\ alloc = NoPorts
    /\ table = NoPorts
    /\ disk = [alloc |-> NoPorts, table |-> NoPorts]
    /\ cpc = "idle"
    /\ desired = {}
    /\ current = NoPorts
    /\ todo = {}
    /\ routes = NoPorts
    /\ losses = 0 /\ errors = 0 /\ converges = 0 /\ restarts = 0

-----------------------------------------------------------------------------
(* The Consul agent.                                                         *)

\* A call fails: the agent cannot be reached (or the state file not be written).
CallFails ==
    /\ errors < MaxErrors
    /\ errors' = errors + 1

\* The agent loses the service (a restart, a manual deregister) and with it the
\* sidecar and the check; or the sidecar alone; or the check; or the check turns
\* critical because renewals did not arrive in time.
AgentLoses ==
    /\ losses < MaxLosses
    /\ losses' = losses + 1
    /\ \/ /\ main
          /\ main' = FALSE /\ sidecar' = FALSE /\ upstreams' = NoPorts /\ check' = "none"
          /\ UNCHANGED orphaned
       \/ /\ sidecar
          /\ sidecar' = FALSE /\ orphaned' = TRUE /\ upstreams' = NoPorts
          /\ UNCHANGED <<main, check>>
       \/ /\ check # "none" /\ check' = "none"
          /\ UNCHANGED <<main, sidecar, orphaned, upstreams>>
       \/ /\ check = "passing" /\ check' = "critical"
          /\ UNCHANGED <<main, sidecar, orphaned, upstreams>>
    /\ UNCHANGED <<procVars, regVars, mgrVars, convVars, errors, converges>>

\* The upstreams in the agent's answer for the service itself: none. The agent
\* moves the SidecarService of a registration into a service of its own, and
\* only the answer for that one has a Proxy.
MainUpstreams == NoPorts

-----------------------------------------------------------------------------
(* The registrar: maintainLoop and ensureRegistered.                         *)

\* ensureRegistered has returned: without error, or with one.
Ensured == rpc' = "tick" /\ phase2' = TRUE
NotEnsured == rpc' = (IF phase2 THEN "tick" ELSE "try") /\ UNCHANGED phase2

RegGoto(label) == rpc' = label /\ UNCHANGED phase2

regFrame == <<procVars, mgrVars, convVars, losses, converges>>

\* Phase 1, after any backoff: stopCh is checked before the first call.
RegTry ==
    /\ Running
    /\ rpc = "try"
    /\ RegGoto(IF proc = "up" THEN "main" ELSE "returned")
    /\ UNCHANGED <<agentVars, errors, regFrame>>

\* Phase 2: stopCh is closed. A tick that is ready as well may win the select.
RegReturn ==
    /\ Running
    /\ rpc = "tick"
    /\ proc # "up"
    /\ RegGoto("returned")
    /\ UNCHANGED <<agentVars, errors, regFrame>>

\* Mutant: a failed renewal is left to the next tick.
RegTickMutant ==
    /\ Running
    /\ rpc = "tick"
    /\ \/ check # "none" /\ check' = "passing" /\ UNCHANGED <<regVars, errors>>
       \/ CallFails /\ UNCHANGED <<check, regVars>>
    /\ UNCHANGED <<main, sidecar, orphaned, upstreams, regFrame>>

\* Phase 2, a tick: renew the TTL check, ensure the registration if that fails.
RegTick ==
    /\ Running
    /\ rpc = "tick"
    /\ \/ check # "none" /\ check' = "passing" /\ UNCHANGED <<regVars, errors>>
       \/ check = "none" /\ RegGoto("main") /\ UNCHANGED <<check, errors>>
       \/ CallFails /\ RegGoto("main") /\ UNCHANGED check
    /\ UNCHANGED <<main, sidecar, orphaned, upstreams, regFrame>>

\* ensureRegistered: is the service there?
QueryMain ==
    /\ Running
    /\ rpc = "main"
    /\ \/ RegGoto(IF main THEN "sidecar" ELSE "register") /\ UNCHANGED errors
       \/ CallFails /\ NotEnsured
    /\ UNCHANGED <<agentVars, regFrame>>

\* ensureRegistered: is its sidecar there?
QuerySidecar ==
    /\ Running
    /\ rpc = "sidecar"
    /\ \/ RegGoto(IF sidecar THEN "ttl" ELSE "register") /\ UNCHANGED errors
       \/ CallFails /\ NotEnsured
    /\ UNCHANGED <<agentVars, regFrame>>

\* ensureRegistered: renew the check; any failure is taken as a missing check.
EnsureTTL ==
    /\ Running
    /\ rpc = "ttl"
    /\ \/ check # "none" /\ check' = "passing" /\ Ensured /\ UNCHANGED errors
       \/ check = "none" /\ RegGoto("check") /\ UNCHANGED <<check, errors>>
       \/ CallFails /\ RegGoto("check") /\ UNCHANGED check
    /\ UNCHANGED <<main, sidecar, orphaned, upstreams, regFrame>>

\* ensureCheck: the agent refuses a check of a service it does not have; a
\* failure is only logged.
EnsureCheck ==
    /\ Running
    /\ rpc = "check"
    /\ \/ check' = (IF main THEN "passing" ELSE check) /\ UNCHANGED errors
       \/ CallFails /\ UNCHANGED check
    /\ Ensured
    /\ UNCHANGED <<main, sidecar, orphaned, upstreams, regFrame>>

\* registerService: the service with an empty sidecar and a passing check.
RegisterService ==
    /\ Running
    /\ rpc = "register"
    /\ \/ /\ main' = TRUE /\ sidecar' = TRUE /\ upstreams' = NoPorts /\ check' = "passing"
          /\ orphaned' = FALSE
          /\ Ensured
          /\ UNCHANGED errors
       \/ CallFails /\ NotEnsured /\ UNCHANGED agentVars
    /\ UNCHANGED regFrame

-----------------------------------------------------------------------------
(* SyncUpstreams.                                                            *)

convFrame == <<procVars, regVars, losses, converges>>

\* onServicesChanged is called with a new set of Connect services; Stop does not
\* prevent it.
ConvergeStart ==
    /\ Running
    /\ cpc = "idle"
    /\ converges < MaxConverges
    /\ converges' = converges + 1
    /\ desired' \in SUBSET Services
    /\ cpc' = "read"
    /\ UNCHANGED <<agentVars, procVars, regVars, mgrVars, current, todo, routes, losses, errors>>

\* The end of SyncUpstreams, with or without an error: the routes are resolved.
Synced == cpc' = "resolve" /\ todo' = desired /\ current' = NoPorts

\* Read the registration and compare: return if there is nothing to do, or if
\* the call fails or the service is not there.
SyncRead ==
    /\ Running
    /\ cpc = "read"
    /\ LET toAdd == {s \in desired : MainUpstreams[s] = 0}
           toRemove == {s \in Services \ desired : MainUpstreams[s] # 0}
       IN  \/ /\ main /\ toAdd \cup toRemove # {}
              /\ current' = MainUpstreams
              /\ todo' = toAdd
              /\ cpc' = "alloc"
              /\ UNCHANGED errors
           \/ main /\ toAdd \cup toRemove = {} /\ Synced /\ UNCHANGED errors
           \/ ~main /\ Synced /\ UNCHANGED errors
           \/ CallFails /\ Synced
    /\ UNCHANGED <<agentVars, mgrVars, desired, routes, convFrame>>

\* Mutant: the ports in use are not collected.
UsedPortsMutant == {}

UsedPorts == {alloc[t] : t \in Services}

\* The k-th port tried for service s.
Probe(s, k) == PortStart + ((Hash[s] + k) % RangeSize)

\* Mutant: a collision goes on to the next port without wrapping around.
AllocatePortMutant(s) ==
    CASE alloc[s] # 0 -> {alloc[s]}
      [] alloc[s] = 0 /\ Probe(s, 0) \notin UsedPorts -> {Probe(s, 0)}
      [] OTHER -> {Probe(s, 0) + 1}

\* Mutant: the port allocated before is not looked up.
AllocateAnewMutant(s) ==
    LET First(k) == /\ Probe(s, k) \notin UsedPorts
                    /\ \A j \in 0..(k - 1) : Probe(s, j) \in UsedPorts
    IN  IF PortRange \subseteq UsedPorts THEN {Probe(s, 0)}
        ELSE {Probe(s, k) : k \in {j \in 0..(RangeSize - 1) : First(j)}}

\* What allocatePort returns: the port allocated before, or the first free one
\* from the hashed port on, or the hashed port if the range is exhausted.
AllocatePort(s) ==
    LET First(k) == /\ Probe(s, k) \notin UsedPorts
                    /\ \A j \in 0..(k - 1) : Probe(s, j) \in UsedPorts
    IN  CASE alloc[s] # 0 -> {alloc[s]}
          [] alloc[s] = 0 /\ PortRange \subseteq UsedPorts -> {Probe(s, 0)}
          [] OTHER -> {Probe(s, k) : k \in {j \in 0..(RangeSize - 1) : First(j)}}

\* Go's map order: toAdd is in any order.
SyncAllocate ==
    /\ Running
    /\ cpc = "alloc"
    /\ \E s \in todo : \E port \in AllocatePort(s) :
          /\ alloc' = [alloc EXCEPT ![s] = port]
          /\ current' = [current EXCEPT ![s] = port]
          /\ todo' = todo \ {s}
    /\ UNCHANGED <<agentVars, table, disk, cpc, desired, routes, errors, convFrame>>

\* Drop what is no longer desired and re-register the service with the sidecar's
\* upstreams, without a check: the agent keeps the one it has or drops it. If the
\* call fails, the allocations stay as they are.
SyncWrite ==
    /\ Running
    /\ cpc = "alloc"
    /\ todo = {}
    /\ LET kept(ports) == [s \in Services |-> IF current[s] # 0 /\ s \notin desired
                                               THEN 0 ELSE ports[s]]
       IN  /\ alloc' = kept(alloc)
           /\ \/ /\ main' = TRUE /\ sidecar' = TRUE /\ upstreams' = kept(current)
                 /\ check' \in {check, "none"} /\ orphaned' = FALSE
                 /\ UNCHANGED errors
              \/ CallFails /\ UNCHANGED agentVars
    /\ Synced
    /\ UNCHANGED <<table, disk, desired, routes, convFrame>>

-----------------------------------------------------------------------------
(* The rest of the converge.                                                 *)

\* ResolveUpstreams for one service: the port the sidecar has for it. Without
\* one, or if the call fails, the route falls back to direct or to no upstream.
Resolve ==
    /\ Running
    /\ cpc = "resolve"
    /\ \E s \in todo :
          /\ todo' = todo \ {s}
          /\ \/ routes' = [routes EXCEPT ![s] = upstreams[s]] /\ UNCHANGED errors
             \/ CallFails /\ UNCHANGED routes
    /\ UNCHANGED <<agentVars, mgrVars, cpc, desired, current, convFrame>>

\* The HTTP route table is replaced; nothing changes if the hash is the same.
Apply ==
    /\ Running
    /\ cpc = "resolve"
    /\ todo = {}
    /\ table' = routes
    /\ cpc' = "save"
    /\ UNCHANGED <<agentVars, alloc, disk, desired, current, todo, routes, errors, convFrame>>

\* The routes and the allocations are saved together; a failure to write the
\* file is only logged.
Save ==
    /\ Running
    /\ cpc = "save"
    /\ \/ disk' = [alloc |-> alloc, table |-> routes] /\ UNCHANGED <<unsaved, errors>>
       \/ CallFails /\ unsaved' = TRUE /\ UNCHANGED disk
    /\ cpc' = "idle"
    /\ desired' = {}
    /\ routes' = NoPorts
    /\ UNCHANGED <<agentVars, alloc, table, current, todo, proc, restarts, regVars, losses,
                   converges>>

-----------------------------------------------------------------------------
(* The process.                                                              *)

\* Stop closes stopCh and waits for nobody.
Stop ==
    /\ proc = "up"
    /\ proc' = "stopped"
    /\ UNCHANGED <<agentVars, unsaved, restarts, regVars, mgrVars, convVars, losses, errors,
                   converges>>

\* Deregister, on exit only: the service, then the sidecar. Errors are logged.
DeregisterMain ==
    /\ proc = "stopped"
    /\ proc' = "exiting"
    /\ \/ main' = FALSE /\ check' = "none" /\ UNCHANGED errors
       \/ CallFails /\ UNCHANGED <<main, check>>
    /\ UNCHANGED <<sidecar, orphaned, upstreams, unsaved, restarts, regVars, mgrVars, convVars,
                   losses, converges>>

DeregisterSidecar ==
    /\ proc = "exiting"
    /\ proc' = "down"
    /\ \/ sidecar' = FALSE /\ upstreams' = NoPorts /\ UNCHANGED errors
       \/ CallFails /\ UNCHANGED <<sidecar, upstreams>>
    /\ UNCHANGED <<main, orphaned, check, unsaved, restarts, regVars, mgrVars, convVars, losses,
                   converges>>

\* Mutant: the allocations are not restored.
RestartMutant ==
    /\ restarts < MaxRestarts
    /\ restarts' = restarts + 1
    /\ proc' = "up"
    /\ unsaved' = (unsaved \/ cpc # "idle")
    /\ rpc' = "try" /\ phase2' = FALSE
    /\ alloc' = NoPorts
    /\ table' = disk.table
    /\ cpc' = "idle" /\ desired' = {} /\ current' = NoPorts /\ todo' = {} /\ routes' = NoPorts
    /\ UNCHANGED <<agentVars, disk, losses, errors, converges>>

\* The process crashes, or has exited, or is reloaded: a new instance is
\* provisioned with the routes and the allocations of the state file.
Restart ==
    /\ restarts < MaxRestarts
    /\ restarts' = restarts + 1
    /\ proc' = "up"
    /\ unsaved' = (unsaved \/ cpc # "idle")
    /\ rpc' = "try" /\ phase2' = FALSE
    /\ alloc' = disk.alloc
    /\ table' = disk.table
    /\ cpc' = "idle" /\ desired' = {} /\ current' = NoPorts /\ todo' = {} /\ routes' = NoPorts
    /\ UNCHANGED <<agentVars, disk, losses, errors, converges>>

-----------------------------------------------------------------------------
Registrar ==
    \/ RegTry \/ RegReturn \/ RegTick
    \/ QueryMain \/ QuerySidecar \/ EnsureTTL \/ EnsureCheck \/ RegisterService

Converge == SyncRead \/ SyncAllocate \/ SyncWrite \/ Resolve \/ Apply \/ Save

\* The process is gone for good: keeps TLC from calling this a deadlock.
Terminated == proc = "down" /\ UNCHANGED vars

Next ==
    \/ AgentLoses
    \/ Registrar
    \/ ConvergeStart \/ Converge
    \/ Stop \/ DeregisterMain \/ DeregisterSidecar \/ Restart
    \/ Terminated

Spec == Init /\ [][Next]_vars

\* The goroutines run and calls return; nothing need be stopped, lost or changed.
FairSpec == Spec /\ WF_vars(Registrar) /\ WF_vars(Converge)

-----------------------------------------------------------------------------
(* Properties.                                                               *)

\* Every variable has its type; ports are in the configured range.
TypeOK ==
    /\ main \in BOOLEAN /\ sidecar \in BOOLEAN /\ orphaned \in BOOLEAN
    /\ check \in {"none", "passing", "critical"}
    /\ upstreams \in PortMaps
    /\ proc \in {"up", "stopped", "exiting", "down"}
    /\ rpc \in RegStates /\ phase2 \in BOOLEAN
    /\ alloc \in PortMaps /\ table \in PortMaps
    /\ disk \in [alloc : PortMaps, table : PortMaps]
    /\ cpc \in ConvergeStates
    /\ desired \subseteq Services /\ todo \subseteq Services
    /\ current \in PortMaps /\ routes \in PortMaps
    /\ unsaved \in BOOLEAN
    /\ losses \in Nat /\ errors \in Nat /\ converges \in Nat /\ restarts \in Nat

\* No two of the given ports are the same.
Distinct(ports) == \A s, t \in Services : s # t /\ ports[s] # 0 => ports[s] # ports[t]

\* Two services never share a local port, neither in the manager's allocations
\* nor in the sidecar's registration nor in the state file, whatever hashes
\* collide, calls fail and processes restart in the middle of a sync. (The range
\* has a port for every service.)
UniquePorts == Distinct(alloc) /\ Distinct(upstreams) /\ Distinct(disk.alloc)

\* A route of one service never leads to the sidecar's listener for another one:
\* the table lags behind the registration, and either may miss a failed sync or
\* a repair by the registrar, but a port in the table is never given to another
\* service, nor after a restart. (A process that ends before its converge has
\* saved forgets ports the sidecar already has, and then this can happen.)
NoMisroute ==
    ~unsaved => \A s, t \in Services : s # t /\ table[s] # 0 => upstreams[t] # table[s]

\* The sidecar's listener for a service stays on its port: no sync, repair or new
\* process moves it to another one while it is there, in whatever order services are
\* allocated, so that routes and connections that use it keep working. This is what
\* the allocations are persisted for (with the same premise).
ListenersStay ==
    [][~unsaved' =>
          \A s \in Services :
              upstreams[s] # 0 /\ upstreams'[s] # 0 => upstreams'[s] = upstreams[s]]_vars

\* The comment on ServiceRegistrar: registration is retried until it succeeds,
\* and what disappears later (the check, which SyncUpstreams may drop, too) is
\* registered again. So while the process runs and the agent loses nothing more,
\* the service is registered for good, with a passing check and a sidecar, whatever
\* calls failed or raced before. The one exception is a sidecar that was lost on its
\* own: a renewal of the check that succeeds does not look at it, so that, against
\* the comment, it stays away until something else registers the service.
RegistrationHeals ==
    <>[](proc = "up" => main /\ check = "passing" /\ (sidecar \/ orphaned))

\* The comment in onServicesChanged: SyncUpstreams is called with an empty set
\* so that stale upstreams get removed. So after a converge without errors the
\* sidecar has no upstream that was not desired.
StaleUpstreamsRemoved ==
    (cpc = "save" /\ errors = 0) => \A s \in Services \ desired : upstreams[s] = 0

=============================================================================
