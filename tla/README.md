# caddy-consul in TLA+

caddy-consul is a Caddy app that discovers services in Consul and routes HTTP,
TCP and TLS-passthrough traffic to them, directly or through a Consul Connect
sidecar, without config reloads. This directory holds TLA+ specifications of
its core, TLC configurations that check them on small instances, and proofs
that TLAPS checks for every value of the constants.

Run a configuration with `tlc -config <cfg> <MC module>`, the proofs with
`tlapm <Module>Proofs.tla`. `PROJECT.json` lists the runs, the properties, the
source lines of each definition, the hazards and the findings.

## 1. Inventory

| Component | State | Operations | Hard behaviour |
|---|---|---|---|
| Watcher (`watcher.go`) | cache of services, routable names, last passing IDs, indexes, debounce buffer and timer | catalog, health and full-sync goroutines; `fetchServiceHealth`; `queueChanges`; `flushChanges`; `RestoreState`; `Stop` | three writers and any number of flushes; two locks that are never held together; reads of Consul outside the lock; Stop that waits for nobody |
| Converge (`onServicesChanged`, `consul.go`) | none of its own; writes tables, state file, sidecar registration | parse, sync upstreams, resolve, compile, compare the hash, update, save, reconcile | runs in the flush's goroutine, so two may overlap, and one may outlive `Stop`; the HTTP table is replaced only if a hash has changed |
| Route parsing and compiling (`metadata.go`, `compiler.go`) | none | `ParseServiceRoutes`, `Compile`, `FilterTCPRoutesByNode` | conflicts between services; map order and an unstable sort |
| HTTP and TCP route tables (`route_table.go`, `tcp_table.go`) | compiled routes | `Update`, `Match`, `match` | choice among several matching routes |
| TCP listener manager (`tcp_listener.go`) | listener per port, count and set of connections per listener | `Reconcile`, `Close`, accept loop, drain | two app instances share reference-counted sockets during a reload; drain races accept |
| TCP proxy and SNI peek (`tcp_proxy.go`, `tcp_sni.go`) | one connection, what the peek has read, a read deadline | peek, replay, match, pick, dial, copy both ways | many early returns; a deadline that must not outlive the peek; two directions that end in either order |
| Upstream manager (`upstream_manager.go`) | port per Connect service | `SyncUpstreams`, `allocatePort`, `RestoreAllocations` | hash collisions; several calls of the agent that can fail one by one |
| Service registrar (`register.go`) | phase of its loop | `maintainLoop`, `ensureRegistered`, `Deregister` | writes the same registration as the upstream manager, without a lock in common |
| Sidecar resolver (`connect.go`) | none | `ResolveUpstreams` | reads what two others write |
| State manager (`state.go`) | the state, its mutex, the state file | `Load`, `Save`, setters | the file is written in the middle of a converge, in place, by overlapping instances with a mutex each |
| App lifecycle (`consul.go`) | per app instance | `Provision`, `Start`, `Stop`, `Cleanup` | the next instance starts before the last one stops |
| HTTP handler (`handler.go`, `status_match.go`, `route_info.go`) | none | match, redirect, choose a no-cache matcher, proxy | partly modelled, see section 7 |
| Configuration, admin, metrics | none that matters over time | | not modelled, see section 7 |

How they interact: the watcher's flush calls `onServicesChanged` with a clone of
the cache. It parses the services, has the upstream manager update the sidecar's
registration at the Consul agent, reads the ports back with the resolver,
compiles the routes, replaces the HTTP table, saves the state file, replaces the
TCP table and reconciles the listeners. The HTTP handler and the TCP proxy only
read the tables. The registrar runs beside all of it. On a reload Caddy
provisions a second app instance from the state file, starts it, and then stops
the first.

What makes the parts correct:

* watcher: no change of the cache is lost on the way to `onChange`; once Consul
  is quiet the published routes are Consul's; Stop comes to an end;
* converge and state file: tables and file are of one converge, through reloads and
  crashes, and end with what Consul has;
* TCP data plane: ports stay bound through reloads, socket references neither
  leak nor drop twice, listeners follow the table, connections drain; a connection
  is passed on verbatim and completely to the right upstream, and ends;
* Connect: no two services share a local port, no route leads to another
  service's listener, the registration heals;
* routing: one owner per key, chosen by rank and nothing else; upstreams that
  asked for their route; matchers that choose what their rules say; the same
  routes from tags as from metadata.

## 2. Modules

| Module | Models | Proofs |
|---|---|---|
| `Feed` | what the watcher promises to `onServicesChanged` (abstract) | |
| `Watcher` | `watcher.go`, with Consul as environment; implements `Feed` | `WatcherProofs` |
| `Converge` | the end of `onServicesChanged`, `state.go`, reloads and crashes, the choice of a no-cache matcher | `ConvergeProofs` |
| `TCPListeners` | `tcp_listener.go`, `tcp_table.go`, lifecycle and the end of a converge in `consul.go` | `TCPListenersProofs` |
| `TCPProxy` | `tcp_proxy.go`, `tcp_sni.go`: one connection | `TCPProxyProofs` |
| `Connect` | `upstream_manager.go`, `register.go`, `connect.go`, the converge around them and restarts from the state file | `ConnectProofs` |
| `Routes` | `metadata.go`, `compiler.go`, `route_table.go`, the match of `tcp_table.go`, the second pass of `onServicesChanged`, the outcome of `ServeHTTP` | `RoutesProofs` |

`MCWatcher`, `MCConverge`, `MCTCPListeners`, `MCTCPProxy`, `MCConnect` and
`MCRoutes` instantiate them. `Recursion` has the lemmas on induction and recursion over
a range that `TCPProxyProofs` and `RoutesProofs` share.

How they fit together: `Feed` is the interface between the watcher and a converge.
`Watcher` is shown to implement it, and the watcher inside `Converge` is `Feed`
with an index: a cache that changes, copies of it that are taken and delivered.
`Routes` says which routes a snapshot compiles to, which `Converge` takes as
given; `Connect` has the calls before, `TCPListeners` the listeners after it, and
`TCPProxy` what a listener's handler does with one connection.

### Watcher

A step is what happens under one lock or in one HTTP call; the locals a
goroutine carries from one to the next (a response, the names still to fetch,
the changes it has not yet queued) are variables, so that everything can come in
between. `services`, `routable`, `lastPassing`, `healthIndex`, `pending` and
`timer` are the fields of `ConsulWatcher`. `RestoreState` is an initial state:
a cache taken from some earlier state of Consul. `published` is the snapshot
`onChange` was last called with; `lastSnap` is a history variable. A Consul
index is raised by every change, as in Consul; the blocking query returns at
any time, since a timeout is one of its outcomes. A registration (tags,
metadata, address, port) is a model value; its checks are a set of statuses.

`Feed` has four variables: the cache, the copy taken last, the copies held by
flushes and the copy delivered last. The refinement mapping (`ToFeed`) is
`services`, `lastSnap`, `fsnap` and `published`: all goroutines, locks, buffers and
timers disappear. Its fairness says that a change is not left out for ever; the
watcher owes that only until `Stop`.

### Converge

Each app instance has a watcher, two tables and a state manager; all instances
share the file. Comparing the hash, replacing the HTTP table, storing the hash,
setting the state, truncating the file, writing it and replacing the TCP table are
one step each. The setters between the hash and `Save` are one step: nothing else
writes what they write in an instance whose converges do not overlap, and
`converge_overlap` does not need them apart. `Save` holds the mutex from truncating
to writing. A file is `None` when it cannot be parsed: truncated, or with the end of
a longer text behind it. The JSON of a route is the route without its matcher, and
the hash is the JSON. `Abort` is a reload that fails in another module after
`Provision`; `Crash` keeps only the file and what Consul has.

### TCPListeners

App instances go through `absent, provisioned, started, stopping, stopped,
cleaning, cleaned`; the next is provisioned and started before the one in
service stops, and `Cleanup` closes a second time, as the code does. A listener
is an instance, a port and a generation; a port is bound while some listener on
it is open: that is Caddy's listener pool (external). `Reconcile` runs under the
manager's lock and is one step; `Close` collects under the lock and stops the
listeners afterwards, one step each. A converge is save, update, read the ports,
reconcile. A connection is accepted, counted, stored, routed, proxied, ended,
deleted and counted out, one step each, and every early return of the handler
is there. `Stop` is also the exit of the process, without a next instance.
`DrainForce` may happen whenever a drain goroutine waits: its period is not modelled
as time, so it may also see a connection that is counted and not stored yet.

### TCPProxy

A client has a stream of chunks, where a chunk is what one read of the peek asks
for: the five bytes of a header, the body of a record, data. It may be silent, stop
anywhere, close its write side or go away. `deadline` is the read deadline of the
connection; a read with a deadline fails when nothing has arrived, at any time. The
peek puts what it reads in `prefix`, from which `CopyUp` takes first (`prefixConn`).
The two copying goroutines take a chunk per step and end with a half-close. The
upstream answers at most `MaxResponse` chunks and closes when it likes. The table
may change at any step, and the drain may close the connection. The weighted choice is
the code's loop: `WeightOfFirst` is its running sum, `Pick` the upstream at which a
random number falls below it.

### Connect

A step is one call of the Consul agent, which may fail, or what lies between two
calls. The agent (external) is a main service, a sidecar with upstreams, and a
TTL check; re-registering the service without a check keeps the check or drops
it, since the code's comments speak of both. The agent's answer for the main
service carries no proxy (`MainUpstreams`): that is how Consul expands a
`SidecarService`, and what `connect.go` relies on when it asks for
`<name>-sidecar-proxy`. A hash is any function of the name. A crash, an exit and
a sequential reload are all `Restart`: the state file is what remains. `unsaved`
is a history variable: some converge did not reach the file. The agent may lose the
service with everything, the sidecar alone, or the check; `orphaned` is a history
variable: the sidecar was lost alone and has not been registered since.

### Routes

A step is a whole converge, after one instance changed in Consul. An instance has
indexed metadata, plain metadata and Fabio tags, as records of the fields that are
present; `ParseNonIndexedMeta`, `ParseIndexedMeta` and `ParseFabioTag` turn them into
definitions as the code does: defaults, numbers that cannot be parsed, the field `sni`
that only indexed metadata has, standard ports, redirects on them, the `$path` of a
redirect's URL. `Grouped` is the grouping loop: `Turns` is the order in which
`ParseServiceRoutes` comes to the routes of the instances, any order that leaves none
out, and a route joins the group with its `Signature`, all the fields of
`routeSignature`, or starts one. A host pattern is any, exact or wildcard, with or
without a port. A path is a number: the empty one, the root, and a chain of longer
prefixes; definitions keep the spelling of the root, keys do not. Which services use
Connect and whether the sidecar answers for a route is a choice of a subset.
`SortedSeqs` is every result `sort.Slice` may have on an input in any order. The loops
of the code over a slice (the grouping, the sort, the compilers, `Match`, and `match`
with its early return) are functions on `0..n`, the value at `k` being what the loop has
after `k` rounds. A route of an unknown protocol claims nothing: it is in neither table,
and takes no key from others.

## 3. Runs

| Run | Shows |
|---|---|
| `watcher_feed` | `TypeOK`, `NoLostChange`, `NoLostWakeup`; `StopEndsWatcher`: goroutines, timer and flushes end after `Stop`; `ImplementsFeed`: the refinement, fairness included |
| `watcher_converges` | `RoutesConverge`: whatever raced, the full sync repairs it |
| `converge` | `TypeOK`, `TablesAgree`, `FileOfOneConverge`, and `TablesConverge`: after three reloads, crashes or failed saves the serving tables become Consul's |
| `tcp_listeners` | `TypeOK`, `NoLeak`, `ListenersMatchTable`, `SettledIsBound`, `TrackingExact`, `TrackedConnsDrain`, with a failing bind or save and a reserved port: at every moment of a reload, and with two connections around listeners that close |
| `tcp_proxy` | `TypeOK`, `Verbatim`, `ResponseComplete`, `RightRoute`, `PickIsWeighted`, `ConnectionEnds` for every kind of client and every order of ends |
| `connect_sync` | `TypeOK`, `UniquePorts`, `NoMisroute`, `ListenersStay`, `RegistrationHeals` with colliding hashes, a failing call, a loss at the agent and a restart; `RegistrationHeals` excepts a sidecar that was lost alone, see section 5 |
| `routes_tables` | `FirstRankedOwnsKey`, `OwnUpstreams`, `MatchIsBest`, `TCPMatchIsBest`, `MatchedIsServed`, `MigrationKeepsRoutes` over all registrations of three instances |

Five runs state what a comment or the README says and find that the code does
otherwise:

| Run | Counterexample |
|---|---|
| `converge_overlap` | two converges pass the hash gate together; the table of the older one stays with the hash of the newer one, and every full sync skips the update |
| `converge_nocache` | a service gets a `caddy-no-cache-status`; the matcher is not in the JSON that is hashed, so the update is skipped and the route stays without one |
| `tcp_late_converge` | a converge that ends after `Stop` and `Cleanup` opens listeners in a dead instance |
| `connect_stale_upstream` | the upstream of a removed Connect service stays, since `SyncUpstreams` reads the upstreams of the main service |
| `routes_exact_host` | `ExactBeforeWildcard`: a wildcard and an exact host with the same path and priority both match; the first in the table wins, although rule 1 of the comment on `Match` gives the exact host priority |

### Bounds

Each bound is a constant. One service and one instance in `Watcher` are enough for the
races of one cache entry between three goroutines and a flush. In `watcher_feed` Consul
stands still, but the watcher starts fresh or from any older state, so its cache
changes; in `watcher_converges` Consul changes as well, over tags, metadata, node checks
and absence. Overlapping flushes are covered by the proofs, which hold for any number.
In `converge` one change in Consul, two slots for instances and three faults put a
reload, a crash and a failed save inside each other; `converge_overlap` has two
converges at a time. In `tcp_listeners` two app instances are one reload, and two
generations a port that is closed and opened again. A behaviour of that run has
connections or a reload and not both (`ConnsOrReloadSpec` in `MCTCPListeners`), which
keeps it at 246,000 states: listeners of different instances have their own counts and
sets, and the exit of the process closes them while connections are there. The theorems
do not have that restriction. Two services on two ports with the same hash fill the
range and wrap around; two converges, one restart, one loss and one error put each of
them inside the window of another. Three instances of two services cover conflicts
inside a service and between services; the eight registrations have each precedence
source, protocol (an unknown one too), host kind (a port alone too), a number that
cannot be parsed, a disabled and a redirect definition, a prefix to strip, a no-cache
status, and instances of a service that differ in `enabled` alone. The order of `Turns`
is one in which the instances of the services alternate; the theorems are for any. One
connection with streams of up to three chunks and two answers has each way to end in
each part of the handler. Symmetry is declared only in runs without liveness properties.

### Fairness

* Goroutines run and calls return (weak fairness of each goroutine's steps); a
  blocking query returns after its wait time at the latest; a ticker ticks.
* A closed `stopCh` is eventually chosen in the select of the full-sync goroutine
  although ticks are ready as well (strong fairness): Go chooses at random.
* The debounce timer fires in a lull in which no goroutine is about to queue
  (strong fairness of `LullFire`). This assumes that a full sync is shorter than
  `full_sync_interval` by more than the debounce window. The code does not
  ensure it: `queueChanges` re-arms the timer without an upper bound, so with
  thousands of services a full sync can follow the next one immediately, and
  then nothing is ever published. With weak fairness instead, TLC refutes
  `RoutesConverge`.
* `RoutesConverge` and `TablesConverge` are checked with one flush at a time;
  `converge_overlap` shows what two do.
* In `Converge` only the serving instance's goroutines are assumed to run, and Caddy
  to go on with a reload. A converge that waits for the state's mutex gets it in the
  end (strong fairness: Go's mutex hands over to a waiter that starves).
* In `TCPProxy` the goroutines run and a deadline passes. A peer that sees the other
  side end closes its own in the end; without that a half-closed connection may stay
  for as long as the peer likes, by design. Nothing else is assumed of peers.
* Nothing is assumed of Consul, of losses, errors, converges or restarts.

## 4. Proofs

All theorems hold for any sets and bounds that satisfy the modules' assumptions. Every
invariant that a run checks is also a theorem.

**Recursion.** The library's induction theorems take an operator as a parameter, which
the provers cannot instantiate. `LeastNumber` gets around it: the order of the natural
numbers is well-founded, so a non-empty set of them has a least member. From that follow
`RangeInduction` (a set with 0 and with every successor below `n` holds `0..n`),
`RangeRecursion` (a function on `0..n` with given first value and step exists, so the
equations of the recursive functions in `TCPProxy` and `Routes` hold) and the facts on
`Min` and `Max` of positions. It is enough for loops with a bound.

**WatcherProofs.** `TypeCorrect`, `ChangesAreNotLost`, `WakeupsAreNotLost`. The
inductive invariant is `TypeOK /\ OwedIsQueued /\ NoLostChange /\ NoLostWakeup`.
`NoLostChange` alone is not inductive: `reconcileServices` and the health
goroutine overwrite the list of changes they owe, which loses none only if the
list is empty at that point. `OwedIsQueued` says so: a goroutine owes changes
only in the part of its round that ends in `queueChanges`. `RefinesFeed` is the
safety part of the refinement: initial states map to initial states of `Feed`, and
every step to a change of the cache, a copy, a delivery or a stutter. It needs that
a flush holds a copy exactly while it is about to publish.

**ConvergeProofs.** `TypeCorrect`, `FileIsOfOneConverge` and `TablesAlwaysAgree`, for
any instances, contents and numbers of faults. The last two assume that the
converges of one instance do not overlap (`OneConverge`); those of different
instances may. The inductive invariant says, for a free instance, that its state,
its hash and its two tables belong to one snapshot (`Idle`), and for one in the
middle of a converge which of them are already those of the new snapshot
(`Progress`, by program counter); the file is of one converge. The file part needs
the others because `Save` writes whatever the state holds, and an instance that was
never updated holds what it loaded.

**TCPListenersProofs.** `TypeCorrect`, `TrackingIsExact` (count and set of a
listener are those of its connections, by a cardinality argument over finite
sets), `NoReferenceLeaks` (a listener is open exactly if its manager or a Close
under way still knows it), `ListenersMatch` and `SettledStaysBound`. The last
two assume that the converges of one instance do not overlap: otherwise they are
false, see below. Late converges after `Stop` are covered.

**ConnectProofs.** `TypeCorrect`, `PortsAreUnique`, `RoutesAreNotCrossed`, each
under `Room`: finitely many services and a port for each of them. A counting
lemma shows that then the range is never exhausted, and a lemma about linear
probing that every port of the range is a probe, so `allocatePort` finds a free
one. The inductive invariant adds `Building` (the list under construction only
has ports of the manager) and `Consistent` (unless some converge was not saved,
every port in the sidecar, in the routes and in the table is the manager's port
for that service, and between converges the file has the manager's ports).
`ListenersAreStable` is an action property proved from the same invariant: the only
step that could move a listener is `SyncWrite`, and what it writes is the manager's
port, as is what the sidecar had.

**TCPProxyProofs.** `TypeCorrect`, `PassthroughVerbatim`, `HalfClose`,
`RouteOfServerName` and `ChoiceByWeight`, for any streams, tables, weights and bounds.
The first four rest on `IInv`: `TypeOK`, `PeekInv` (how far the peek has read and what
server name it knows at each step; a deadline is set only during the peek), `PhaseInv`
(the goroutines run only within `proxyBidir`, which waits for both), `CopyInv` (a copy
that ended while nobody broke its connections has passed on everything), `OrderInv`
(what the upstream has got, followed by what is left in `prefix`, is what has been read
of the stream) and `RightRoute`. `Verbatim` alone is not inductive: it says nothing of
`prefix`, from which `CopyUp` takes first, and nothing of a copy that has not ended yet.
`ChoiceByWeight` is about the loop: the running sum grows at healthy upstreams by their
weight and nowhere else, so the numbers that choose an upstream are an interval as long
as its weight, and these intervals cover all numbers below the total; the fall-back to
the last healthy upstream is never needed.

**RoutesProofs.** `KeyOwner`, `InstancesNotMixed`, `MostSpecificRoute`, `SNIPrecedence`,
`NoDeadRoute` and `MigrationSafe`, for any services, instances, registrations, requests
and server names. The inductive invariant is that the tables are compiled from the
present snapshot, by some choice of sidecars and some result of the sort
(`CompiledInv`); a converge makes it true from scratch, so the work is in the operators:
parsing yields finitely many typed definitions (`ParsedType`, `ParsedFinite`); after `t`
turns there is at most one group per signature, with exactly the instances that have
asked for its route by then (`GroupsNext`, `GroupsAfterAll`, by induction over the
turns, and `SignatureIsDef`: equal signatures are equal definitions); the second pass
changes nothing but upstreams (`ResolvedRoute`), so keys and ranks stay; a result of the
sort has no route behind one it goes before (`SortedInOrder`, by induction over its
length); a compiled table has, in the same order, only routes that claimed their key and
are served (`CompiledTable`, over the rounds of the compiler); the loop of `Match` keeps
the first of the best routes so far (`MatchFinds`, over its rounds, with `BetterOrder`:
routes that are not ordered by `Better` are equally good); the loop of the TCP matcher
holds, after `k` rounds, an exact match if there was one, and otherwise a wildcard and a
default if there were any (`FoundNext`, `FoundAtEnd`). `MigrationSafe` compares the
fields of the two definitions one by one. It covers the tags the README's table is about
(`Mappable`): redirects with a code in 300..399 and not on a standard port, TCP tags
that are a port and nothing else, protocols `http`, `https` and `tcp`; other tags are
dropped or changed on purpose.

The assumptions of `Routes` are types: names, protocols, numbers and the fields that may
be present in metadata and tags, finite sets, and a `None` that is neither a number nor a
route. Numbers, hosts and protocols in metadata are otherwise unrestricted.

Only model-checked: the liveness properties (`RoutesConverge`, `StopEndsWatcher`,
`TablesConverge`, `TrackedConnsDrain`, `ConnectionEnds`, `RegistrationHeals`, and the
fairness of `Feed`), because they need fairness and `ENABLED`, which TLAPS does not
handle here.

## 5. Known limits of what is shown

* Between a change and the next full sync the watcher's `Healthy` flags can be
  wrong: the health goroutine looks at passing checks of an instance's own and
  ignores node checks, other checks and `health_policy`. `RoutesConverge` shows
  that the full sync repairs it, with failing node checks among the states.
* With two overlapping converges in one instance, `ListenersMatchTable`,
  `TablesAgree` and `RoutesConverge` are false: `Ports()` is read before `Reconcile`
  takes its lock, the hash gate is three steps, and snapshots may be applied in the
  other order than they were taken.
* With `full_sync_interval` 0, `TablesConverge` is false: the index that is saved may
  be newer than the services, and after a restart no answer brings the change.
* A `Provision` that meets a file in the middle of another instance's `Save` starts
  without routes, until its first converge.
* A reload that fails after `Provision` leaves the admin endpoints on the aborted
  instance's tables.
* A connection that is accepted but not yet counted when the drain goroutine looks is
  never force-closed, although the README says all in-flight connections are:
  `TrackedConnsDrain` is about connections with a handler.
* While a service migrates from tags to metadata by the README's table, its instances
  are two groups, one with the path `/` and one with none. Both claim one key, so one
  group gets no requests. `MigrationKeepsRoutes` is about routes up to that spelling.
* `caddy-weight` is parsed and not used; the HTTP handler ignores weights, the TCP
  proxy uses those of the Consul registration.
* A TCP route without a valid `caddy-port` is a route on port 0.
* A port the outgoing instance adds after the incoming one was provisioned is
  unbound when the outgoing one stops, until the next converge.
* Without the premise that every converge is saved, `NoMisroute` is false: three
  converges and a crash before the save give a port to two services in turn.
* A sidecar that disappears without its service is not repaired: renewing the check
  succeeds, so `maintainLoop` does not call `ensureRegistered`, although the comment on
  `ServiceRegistrar` (`register.go`, lines 39 to 42) says that it re-registers the
  service and its sidecar "if either later disappears". Only a later loss of the check
  or the service, a converge with a Connect service or a restart brings it back. The
  agent of `Connect` may do that, and `RegistrationHeals` promises the sidecar only if
  it was not (`orphaned`); with `sidecar` instead of `sidecar \/ orphaned` TLC refutes
  it.
* A peer that never closes is not covered by `ConnectionEnds`, not even after the drain
  has closed the client's connection.
* An instance that lists one route twice is its upstream twice in the code, once in
  `Routes`.
* A service whose instances are all unhealthy yields no routes and so no claims:
  `FirstRankedOwnsKey` is about services with a healthy instance.
* `connect_port_range_end` at or below the start (the code then takes a range of
  10000) is excluded by an assumption.
* With `l4_mode=node` a TCP route through the sidecar is always filtered out.

## 6. Plan

Done: the modules, runs and proofs above.

1. Proofs: the safety part of what the liveness properties rest on (after `Stop` no new
goroutine, timer or flush starts in `Watcher`; the registrar never leaves its loop while
the process is up); that the matchers of `TCPProxy` and `Routes` agree. 2. `Connect`
with two app instances that overlap in a reload, each with its own    upstream manager
and registrar. 3. An abstract specification of the data plane (a set of bound ports) as
a refinement    of `TCPListeners`.

## 7. Not modelled

* `config.go`: parsing, defaults and validation; no state over time.
* `handler.go`, `http.go`, `status_match.go`, `route_info.go`: headers, the text of
  redirects, the matching of status codes and the proxying of one request; nothing
  outlives it. What becomes of a request, and which no-cache matcher it is held
  against, is modelled.
* The bytes of a ClientHello (`extractSNI`): a record has a server name or not.
* `admin.go`, `metrics.go`, `metrics_handler.go`: read-only views and counters.
* The text of metadata keys and tags: `Routes` starts from their parts.
* Time: debounce, drain, peek timeout, backoff and TTL are choices of when, not
  durations.
