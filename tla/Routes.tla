------------------------------- MODULE Routes -------------------------------
(***************************************************************************)
(* How caddy-consul turns a snapshot of Consul's services into routes, and *)
(* how a request or a connection finds its route: ParseServiceRoutes       *)
(* (src/metadata.go), the second pass of onServicesChanged                 *)
(* (src/consul.go), Compile (src/compiler.go), RouteTable.Match            *)
(* (src/route_table.go) and tcpPortRoutes.match (src/tcp_table.go).        *)
(*                                                                         *)
(* A step is one converge: one instance has changed in Consul, and the     *)
(* whole snapshot is parsed and compiled again. Go's map order, Consul's   *)
(* order of instances and an unstable sort are left open. Strings are      *)
(* abstracted to what matching tells apart.                                *)
(***************************************************************************)
EXTENDS Integers, Sequences, SequencesExt, FiniteSetsExt

CONSTANTS
    Services,         \* service names: numbers, in alphabetical order
    Instances,        \* service IDs
    Owner,            \* instance -> the service it is an instance of
    LocalInstances,   \* the instances on Caddy's own node
    Turns,            \* instance and position of a route in it, in the order in which
                      \* ParseServiceRoutes comes to them
    Registrations,    \* what an instance may have in its metadata and tags
    Protocols,        \* what a protocol may be called, the known ones included
    Statuses,         \* values of no-cache-status
    Names,            \* names of hosts, the empty one included
    Subdomains,       \* name -> the names that *.name matches
    HTTPRequests,     \* requests: name, port in the Host header or 0, path
    SNIs,             \* server names of TLS connections; None without SNI
    None

\* Paths, hosts and the fields they are in are explained below. None stands for a
\* number that cannot be parsed, and for a no-cache-status that is not there.
Hosts == [kind : {"any", "exact", "wild"}, name : Names, port : Nat]

\* The URL of a redirect ends with the path of the request, as Fabio writes it
\* ($path) or as Caddy does ({http.request.uri}), or does not.
URLs == [base : Names, tail : {"", "path", "uri"}]
NoURL == [base |-> "", tail |-> ""]

FieldsTyped(fields) ==
    /\ "protocol" \in DOMAIN fields => fields.protocol \in Protocols
    /\ \A key \in {"host", "sni"} \cap DOMAIN fields : fields[key] \in Hosts
    /\ "path" \in DOMAIN fields => fields.path \in Nat
    /\ \A key \in {"port", "priority", "weight", "code"} \cap DOMAIN fields :
          fields[key] \in Int \cup {None}
    /\ \A key \in {"strip", "noCache", "enabled"} \cap DOMAIN fields : fields[key] \in BOOLEAN
    /\ "url" \in DOMAIN fields => fields.url \in URLs
    /\ "status" \in DOMAIN fields => fields.status \in Statuses

TagTyped(tag) ==
    /\ DOMAIN tag \subseteq {"protocol", "host", "path", "strip", "code", "url"}
    /\ FieldsTyped(tag)
    /\ "host" \in DOMAIN tag
    /\ "strip" \in DOMAIN tag => tag.strip = TRUE

\* The indexed metadata and the tags are sequences.
RegistrationTyped(reg) ==
    /\ reg = [healthy |-> reg.healthy, indexed |-> reg.indexed, plain |-> reg.plain,
              fabio |-> reg.fabio]
    /\ \A k \in DOMAIN reg.indexed : FieldsTyped(reg.indexed[k])
    /\ FieldsTyped(reg.plain)
    /\ \A k \in DOMAIN reg.fabio : TagTyped(reg.fabio[k])

\* Parsed routes: a definition, the service it is of, and the upstreams it leads to.
RouteDefs == [proto : Protocols, host : Hosts, path : Int, port : Int, priority : Int,
              weight : Int, strip : BOOLEAN, enabled : BOOLEAN, code : Int, url : URLs,
              noCache : BOOLEAN, status : Statuses \cup {None}]
RouteRecords == [service : Services, def : RouteDefs,
                 upstreams : SUBSET (Instances \cup {"sidecar"})]

ASSUME ServicesAssumption == Services \subseteq Nat /\ IsFiniteSet(Services)
ASSUME NamesAssumption ==
    "" \in Names /\ {"http", "https", "tcp", "tls-passthrough"} \subseteq Protocols
ASSUME InstancesAssumption == IsFiniteSet(Instances)
ASSUME OwnerAssumption == Owner \in [Instances -> Services]
ASSUME RegistrationsAssumption == \A reg \in Registrations : RegistrationTyped(reg)
ASSUME NoneAssumption == None \notin Int /\ None \notin RouteRecords
ASSUME LocalAssumption == LocalInstances \subseteq Instances

VARIABLES
    config,     \* l4_mode is node? service_proxy_enable?
    snapshot,   \* instance -> registration or None
    httpTable,  \* RouteTable.routes
    tcpTable    \* TCPTable, before it is grouped by port

vars == <<config, snapshot, httpTable, tcpTable>>

-----------------------------------------------------------------------------
(* Metadata and tags. Metadata is a record of the fields that are present (the *)
(* part of the key after caddy- or caddy-route-N-); a Fabio tag is a record of *)
(* its parts, by the same names.                                               *)

AnyHost == [kind |-> "any", name |-> "", port |-> 0]

\* A path is a number: the empty one, the root, and a chain of longer prefixes.
EmptyPath == -1
Root == 0

Get(fields, key, default) == IF key \in DOMAIN fields THEN fields[key] ELSE default

\* A number that is absent or cannot be parsed leaves the zero value.
Atoi(fields, key) == IF Get(fields, key, None) = None THEN 0 ELSE fields[key]

\* parseNonIndexedMeta.
ParseNonIndexedMeta(meta) ==
    [proto |-> Get(meta, "protocol", "http"),
     host |-> Get(meta, "host", AnyHost),
     path |-> Get(meta, "path", EmptyPath),
     port |-> Atoi(meta, "port"),
     priority |-> Atoi(meta, "priority"),
     weight |-> Atoi(meta, "weight"),
     strip |-> Get(meta, "strip", FALSE),
     enabled |-> Get(meta, "enabled", TRUE),
     code |-> Atoi(meta, "code"),
     url |-> Get(meta, "url", NoURL),
     noCache |-> Get(meta, "noCache", FALSE),
     status |-> Get(meta, "status", None)]

\* parseIndexedMeta, for the fields of one index: only here a field sni exists,
\* which goes before host.
ParseIndexedMeta(fields) ==
    [ParseNonIndexedMeta(fields) EXCEPT !.host = Get(fields, "sni", @)]

\* Mutant: any port is stripped.
StripStandardPortMutant(host) == [host EXCEPT !.port = 0]

\* stripStandardPort.
StripStandardPort(host) == IF host.port \in {80, 443} THEN [host EXCEPT !.port = 0] ELSE host

\* Fabio's variable for the path is replaced by Caddy's.
ReplacePath(url) == IF url.tail = "path" THEN [url EXCEPT !.tail = "uri"] ELSE url

\* A tag redirects if it has a code of 3xx, and a URL after it.
TagRedirects(tag) == {"code", "url"} \subseteq DOMAIN tag /\ tag.code \in 300..399

\* What the modifiers of a tag say; all else is as without metadata.
Modified(tag, proto) ==
    [ParseNonIndexedMeta(<<>>) EXCEPT
        !.proto = proto,
        !.strip = "strip" \in DOMAIN tag,
        !.code = IF TagRedirects(tag) THEN tag.code ELSE 0,
        !.url = IF TagRedirects(tag) THEN ReplacePath(tag.url) ELSE NoURL]

\* parseFabioTag, as a set of at most one route: a TCP tag must be a port alone,
\* and a redirect on a standard port is left to Caddy.
ParseFabioTag(tag) ==
    LET proto == IF Get(tag, "protocol", "http") \in {"tcp", "https"} THEN tag.protocol
                 ELSE "http"
        route == Modified(tag, proto)
    IN  IF proto = "tcp"
        THEN IF tag.host.kind = "any" /\ tag.host.port > 0 /\ "path" \notin DOMAIN tag
             THEN {[route EXCEPT !.port = tag.host.port]}
             ELSE {}
        ELSE IF TagRedirects(tag) /\ tag.host # StripStandardPort(tag.host)
             THEN {}
             ELSE {[route EXCEPT !.host = StripStandardPort(tag.host),
                                 !.path = Get(tag, "path", Root)]}

-----------------------------------------------------------------------------
(* ParseServiceRoutes.                                                       *)

\* The routes an instance defines, in order, each as a set of at most one: the
\* indexed ones, or else the one of non-indexed metadata, if there is any, or else
\* those of Fabio tags. An instance with any of them is eligible by its metadata or
\* its tags.
Source(inst) ==
    CASE DOMAIN inst.indexed # {} ->
            [k \in DOMAIN inst.indexed |-> {ParseIndexedMeta(inst.indexed[k])}]
      [] DOMAIN inst.indexed = {} /\ DOMAIN inst.plain # {} ->
            <<{ParseNonIndexedMeta(inst.plain)}>>
      [] OTHER -> [k \in DOMAIN inst.fabio |-> ParseFabioTag(inst.fabio[k])]

\* Every route of every instance has its turn.
ASSUME TurnsAssumption ==
    /\ Turns \in Seq(Instances \X Nat)
    /\ \A i \in Instances, reg \in Registrations : \A k \in DOMAIN Source(reg) :
          \E t \in DOMAIN Turns : Turns[t] = <<i, k>>

\* The instances of a service that count: the healthy ones (one without an address
\* is taken as unhealthy).
Live(snap, s) == {i \in Instances : Owner[i] = s /\ snap[i] # None /\ snap[i].healthy}

\* Phase 1: the route whose turn it is, if it is one of service s.
Extracted(snap, s, i, k) ==
    IF i \in Live(snap, s)
    THEN LET source == Source(snap[i]) IN IF k \in DOMAIN source THEN source[k] ELSE {}
    ELSE {}

\* Mutant: the signature lacks enabled.
SignatureMutant(d) ==
    <<d.proto, d.host, d.path, d.port, d.priority, d.weight, d.strip, d.code, d.url,
      d.noCache, d.status>>

\* routeSignature; status stands for noCacheStatusRaw and hasNoCacheStatus.
Signature(d) ==
    <<d.proto, d.host, d.path, d.port, d.priority, d.weight, d.strip, d.enabled, d.code, d.url,
      d.noCache, d.status>>

\* A round of Phase 2: the routes of instance i join the groups with their signature,
\* or start one. (In the code an instance that lists a route twice also counts twice
\* as its upstream.)
AddToGroups(groups, s, i, defs) ==
    LET Joins(d, g) == Signature(d) = Signature(g.def)
    IN  {IF \E d \in defs : Joins(d, g)
         THEN [g EXCEPT !.upstreams = @ \cup {i}] ELSE g : g \in groups}
        \cup
        {[service |-> s, def |-> d, upstreams |-> {i}] :
            d \in {e \in defs : \A g \in groups : ~Joins(e, g)}}

\* The groups after t turns.
Grouped(snap, s) ==
    LET groups[t \in 0..Len(Turns)] ==
            IF t = 0 THEN {}
            ELSE AddToGroups(groups[t - 1], s, Turns[t][1],
                             Extracted(snap, s, Turns[t][1], Turns[t][2]))
    IN  groups

\* Phase 3: disabled routes are left out.
ParseServiceRoutes(snap, s) == {g \in Grouped(snap, s)[Len(Turns)] : g.def.enabled}

\* The routes of all services, with their instances as upstreams.
Parsed(snap) == UNION {ParseServiceRoutes(snap, s) : s \in Services}

-----------------------------------------------------------------------------
(* onServicesChanged: the second pass and the node filter.                   *)

HTTPProtocols == {"http", "https"}
TCPProtocols == {"tcp", "tls-passthrough"}
IsHTTP(r) == r.def.proto \in HTTPProtocols
IsTCP(r) == r.def.proto \in TCPProtocols

Local(r) == r.upstreams \cap LocalInstances # {}

\* IsRedirect.
Redirects(r) == r.def.code > 0 /\ r.def.url # NoURL

\* The routes that may go through the sidecar: not redirects and, with
\* l4_mode=node, only of services with an instance on this node.
ConnectCandidates(routes) ==
    {r \in routes :
        /\ ~Redirects(r)
        /\ config.node => \E q \in routes : q.service = r.service /\ Local(q)}

\* The upstreams of a route: the sidecar's local port if the service uses Connect
\* and the sidecar answers, else the instances with service_proxy_enable, else
\* nothing. Redirects keep theirs.
Resolved(r, viaSidecar) ==
    CASE Redirects(r) -> r
      [] r \in viaSidecar /\ ~Redirects(r) -> [r EXCEPT !.upstreams = {"sidecar"}]
      [] r \notin viaSidecar /\ ~Redirects(r) ->
            IF config.serviceProxy THEN r ELSE [r EXCEPT !.upstreams = {}]

\* With l4_mode=node a TCP route needs an upstream on this node; the sidecar's
\* entry names no node.
FilterTCPRoutesByNode(routes) ==
    {r \in routes : config.node /\ IsTCP(r) => Local(r)}

AllRoutes(routes, viaSidecar) == FilterTCPRoutesByNode({Resolved(r, viaSidecar) : r \in routes})

-----------------------------------------------------------------------------
(* Compile.                                                                  *)

\* The order of the sort: higher priority first, then alphabetical.
Before(q, r) ==
    \/ q.def.priority > r.def.priority
    \/ q.def.priority = r.def.priority /\ q.service < r.service

\* The routes that may come first of those left.
FirstRanked(left) == {r \in left : \A q \in left : ~Before(q, r)}

\* The beginnings, n routes long, of what sort.Slice may return.
SortedPrefixes(routes) ==
    LET prefixes[n \in 0..Cardinality(routes)] ==
            IF n = 0 THEN {<<>>}
            ELSE UNION {{Append(seq, r) : r \in FirstRanked(routes \ ToSet(seq))} :
                           seq \in prefixes[n - 1]}
    IN  prefixes

\* What sort.Slice may return: routes of equal rank are in any order.
SortedSeqs(routes) == SortedPrefixes(routes)[Cardinality(routes)]

\* The empty path is the root.
PathLen(path) == IF path = EmptyPath THEN Root ELSE path

\* What a route claims: httpRouteKey and tcpRouteKey. A route of an unknown protocol
\* claims nothing.
Key(r) ==
    CASE IsHTTP(r) -> <<"http", r.def.host, PathLen(r.def.path)>>
      [] IsTCP(r) -> <<"tcp", r.def.port, r.def.host>>
      [] OTHER -> <<"unknown", r.def.proto>>

\* A route that needs no upstream, or has one.
Served(r) == r.upstreams # {} \/ (IsHTTP(r) /\ Redirects(r))

\* Mutant: a route without upstreams is skipped before it claims its key.
ClaimsMutant(seq, k, protocols) ==
    /\ seq[k].def.proto \in protocols
    /\ \A j \in 1..(k - 1) :
          seq[j].def.proto \in protocols /\ Served(seq[j]) => Key(seq[j]) # Key(seq[k])

\* The k-th route is the first with its key, among those of these protocols.
Claims(seq, k, protocols) ==
    /\ seq[k].def.proto \in protocols
    /\ \A j \in 1..(k - 1) : seq[j].def.proto \in protocols => Key(seq[j]) # Key(seq[k])

\* Mutant: a route without upstreams is kept.
CompileRoutesMutant(seq, protocols) ==
    LET compiled[k \in 0..Len(seq)] ==
            IF k = 0 THEN <<>>
            ELSE IF Claims(seq, k, protocols)
                 THEN Append(compiled[k - 1], seq[k]) ELSE compiled[k - 1]
    IN  compiled

\* compileHTTPRoutes and compileTCPRoutes, after k of the routes: the first route
\* claims its key; a route without upstreams claims it too, and is left out.
CompileRoutes(seq, protocols) ==
    LET compiled[k \in 0..Len(seq)] ==
            IF k = 0 THEN <<>>
            ELSE IF Claims(seq, k, protocols) /\ Served(seq[k])
                 THEN Append(compiled[k - 1], seq[k]) ELSE compiled[k - 1]
    IN  compiled

\* A route of an unknown protocol is in neither table.
CompiledHTTP(seq) == CompileRoutes(seq, HTTPProtocols)[Len(seq)]
CompiledTCP(seq) == CompileRoutes(seq, TCPProtocols)[Len(seq)]

-----------------------------------------------------------------------------
(* RouteTable.Match.                                                         *)

\* matchHost, on names without port. A host that is a port alone is compared as it
\* stands, and no request has such a host.
MatchHost(pattern, name) ==
    CASE pattern.kind = "any" -> pattern.port = 0
      [] pattern.kind = "exact" -> pattern.name = name
      [] pattern.kind = "wild" -> name \in Subdomains[pattern.name]

\* routeHasPort.
HasPort(r) == r.def.host.port # 0

Matches(r, req) ==
    /\ MatchHost(r.def.host, req.name)
    /\ HasPort(r) => r.def.host.port = req.port
    /\ PathLen(r.def.path) <= req.path

\* Mutant: a later route of the same length replaces the best one.
BetterMutant(r, best) ==
    \/ HasPort(r) /\ ~HasPort(best)
    \/ HasPort(r) = HasPort(best) /\ PathLen(r.def.path) >= PathLen(best.def.path)

\* r replaces the best match so far.
Better(r, best) ==
    \/ HasPort(r) /\ ~HasPort(best)
    \/ HasPort(r) = HasPort(best) /\ PathLen(r.def.path) > PathLen(best.def.path)

\* The best match among the first k routes, for each k.
BestOfFirst(routes, req) ==
    LET best[k \in 0..Len(routes)] ==
            IF k = 0 THEN None
            ELSE IF /\ Matches(routes[k], req)
                    /\ best[k - 1] = None \/ Better(routes[k], best[k - 1])
                 THEN routes[k] ELSE best[k - 1]
    IN  best

Match(routes, req) == BestOfFirst(routes, req)[Len(routes)]

\* ServeHTTP: what becomes of a request.
ServeHTTP(req) ==
    LET route == Match(httpTable, req)
    IN  CASE route = None -> "next"
          [] route # None /\ Redirects(route) -> "redirect"
          [] route # None /\ ~Redirects(route) ->
                IF route.upstreams = {} THEN "badGateway" ELSE "proxy"

-----------------------------------------------------------------------------
(* TCPTable and tcpPortRoutes.match.                                         *)

\* A server name has no port: a pattern with one accepts none.
Accepts(r, sni) == ~HasPort(r) /\ MatchHost(r.def.host, sni)

\* Mutant: the first wildcard is returned outright.
TCPRoundMutant(found, r, sni) ==
    CASE found.exact # None \/ ~Accepts(r, sni) -> found
      [] OTHER -> CASE r.def.host.kind \in {"exact", "wild"} -> [found EXCEPT !.exact = r]
                    [] r.def.host.kind = "any" ->
                          IF found.dflt = None THEN [found EXCEPT !.dflt = r] ELSE found

\* A round of the loop: an exact match is returned, which ends the loop, and the
\* first wildcard and the first default are kept.
TCPRound(found, r, sni) ==
    CASE found.exact # None \/ ~Accepts(r, sni) -> found
      [] OTHER -> CASE r.def.host.kind = "exact" -> [found EXCEPT !.exact = r]
                    [] r.def.host.kind = "wild" ->
                          IF found.wildcard = None THEN [found EXCEPT !.wildcard = r] ELSE found
                    [] r.def.host.kind = "any" ->
                          IF found.dflt = None THEN [found EXCEPT !.dflt = r] ELSE found

\* The loop of match over the routes of a port, after k routes of the table.
TCPFound(routes, port, sni) ==
    LET found[k \in 0..Len(routes)] ==
            IF k = 0 THEN [exact |-> None, wildcard |-> None, dflt |-> None]
            ELSE IF routes[k].def.port = port
                 THEN TCPRound(found[k - 1], routes[k], sni) ELSE found[k - 1]
    IN  found

\* The positions of the routes of a port (Update groups them by port).
OfPort(routes, port) == {k \in DOMAIN routes : routes[k].def.port = port}

\* match, for a port and a server name: without any SNI route on the port the first
\* route; else what the loop has found.
TCPMatch(routes, port, sni) ==
    LET ks == OfPort(routes, port)
        found == TCPFound(routes, port, sni)[Len(routes)]
    IN  IF \A k \in ks : routes[k].def.host = AnyHost
        THEN IF ks = {} THEN None ELSE routes[Min(ks)]
        ELSE CASE found.exact # None -> found.exact
               [] found.exact = None /\ found.wildcard # None -> found.wildcard
               [] found.exact = None /\ found.wildcard = None -> found.dflt

-----------------------------------------------------------------------------
Init ==
    /\ config \in [node : BOOLEAN, serviceProxy : BOOLEAN]
    /\ snapshot = [i \in Instances |-> None]
    /\ httpTable = <<>>
    /\ tcpTable = <<>>

\* onServicesChanged: compile the routes and replace both tables. (The update of
\* the HTTP table is skipped if its hash is the same: it would change nothing.)
OnServicesChanged(snap) ==
    \E routes \in {Parsed(snap)} :
        \E viaSidecar \in SUBSET ConnectCandidates(routes) :
            \E seq \in SortedSeqs(AllRoutes(routes, viaSidecar)) :
                /\ httpTable' = CompiledHTTP(seq)
                /\ tcpTable' = CompiledTCP(seq)

\* What Consul may know of an instance.
Registered == Registrations \cup {None}

\* One instance registers, changes or goes away, and the watcher publishes it.
Change(i) ==
    \E reg \in Registered :
        LET snap == [snapshot EXCEPT ![i] = reg]
        IN  /\ reg # snapshot[i]
            /\ snapshot' = snap
            /\ OnServicesChanged(snap)
            /\ UNCHANGED config

Next == \E i \in Instances : Change(i)

Spec == Init /\ [][Next]_vars

-----------------------------------------------------------------------------
(* Properties.                                                               *)

\* The routes in the tables.
Installed == ToSet(httpTable) \cup ToSet(tcpTable)

\* Each key is served by at most one route, of the service that ranks first
\* among those that ask for it with a healthy instance, whatever the order of maps,
\* instances and sort: a service never takes over a key of such a service that ranks
\* before it, not even while that one's sidecar is missing. TCP routes of other nodes
\* do not compete when l4_mode is node.
FirstRankedOwnsKey ==
    \A r \in Installed :
        /\ \A q \in Installed : Key(q) = Key(r) => q = r
        /\ IsHTTP(r) \/ ~config.node =>
              ~\E q \in Parsed(snapshot) : Key(q) = Key(r) /\ Before(q, r)

\* An instance defines this very route.
Asks(inst, d) == \E k \in DOMAIN Source(inst) : d \in Source(inst)[k]

\* A route leads to exactly the healthy instances that ask for this route
\* themselves, if it does not lead to the sidecar: the grouping by signatures mixes no
\* instances of one service with different metadata, and forgets none of the same
\* metadata, whatever the order of instances and of the routes in them.
OwnUpstreams ==
    \A r \in Installed :
        \/ r.upstreams \subseteq {"sidecar"}
        \/ r.upstreams = {i \in Live(snapshot, r.service) : Asks(snapshot[i], r.def)}

\* The route Match should find for a request, by comparing all of them: a route
\* with the request's port, then the longest path, then the first in rank.
Preferred(q, r) ==
    \/ HasPort(q) /\ ~HasPort(r)
    \/ HasPort(q) = HasPort(r) /\ PathLen(q.def.path) > PathLen(r.def.path)
    \/ /\ HasPort(q) = HasPort(r) /\ PathLen(q.def.path) = PathLen(r.def.path)
       /\ Before(q, r)

\* Match returns a route if and only if one matches, and none that matches is
\* preferred to it: rules 2 to 4 of the comment on Match, as the loop applies them.
MatchIsBest ==
    \A req \in HTTPRequests :
        LET found == Match(httpTable, req)
            matching == {r \in ToSet(httpTable) : Matches(r, req)}
        IN  IF matching = {} THEN found = None
            ELSE found \in matching /\ ~\E r \in matching : Preferred(r, found)

\* Rule 1 of the comment on Match, "Exact host match takes priority over wildcard",
\* as weak as it can be read: a wildcard is not chosen if an exact host matches too,
\* as far as the port, with a path at least as long and a priority at least as high.
ExactBeforeWildcard ==
    \A req \in HTTPRequests :
        LET found == Match(httpTable, req)
        IN  found # None /\ found.def.host.kind = "wild" =>
                ~\E r \in ToSet(httpTable) :
                    /\ Matches(r, req) /\ r.def.host.kind = "exact"
                    /\ HasPort(r) = HasPort(found)
                    /\ PathLen(r.def.path) >= PathLen(found.def.path)
                    /\ r.def.priority >= found.def.priority

\* The precedence of the comment on match: exact SNI, then wildcard, then default.
TCPRank(r) == CASE r.def.host.kind = "exact" -> 1
                [] r.def.host.kind = "wild" -> 2
                [] r.def.host.kind = "any" -> 3

\* A connection finds a route if and only if one of its port accepts its server name,
\* and none that does has precedence over it, wherever the routes are in the table.
TCPMatchIsBest ==
    \A port \in {r.def.port : r \in ToSet(tcpTable)}, sni \in SNIs :
        LET found == TCPMatch(tcpTable, port, sni)
            matching == {r \in ToSet(tcpTable) : r.def.port = port /\ Accepts(r, sni)}
        IN  IF matching = {} THEN found = None
            ELSE found \in matching /\ \A r \in matching : TCPRank(found) <= TCPRank(r)

\* A request or connection that finds a route is redirected or has an upstream:
\* services without one have left the tables, so that the handler's 502 for a route
\* without upstreams is never the answer.
MatchedIsServed ==
    /\ \A req \in HTTPRequests : ServeHTTP(req) # "badGateway"
    /\ \A port \in {r.def.port : r \in ToSet(tcpTable)}, sni \in SNIs :
          LET found == TCPMatch(tcpTable, port, sni)
          IN  found # None => found.upstreams # {}

\* The metadata the README gives for a Fabio tag (Tag Mapping); it has no path for
\* the root.
MigratedTag(tag) ==
    IF Get(tag, "protocol", "http") = "tcp"
    THEN [protocol |-> "tcp", port |-> tag.host.port]
    ELSE [key \in DOMAIN tag |-> IF key = "url" THEN ReplacePath(tag.url) ELSE tag[key]]

\* The tags that mapping is about.
Mappable(tag) ==
    /\ "code" \in DOMAIN tag \/ "url" \in DOMAIN tag => TagRedirects(tag)
    /\ Get(tag, "protocol", "http") \in HTTPProtocols \cup {"tcp"}
    /\ IF Get(tag, "protocol", "http") = "tcp"
       THEN /\ tag.host.kind = "any" /\ tag.host.port > 0
            /\ DOMAIN tag = {"protocol", "host"}
       ELSE tag.host.port \notin {80, 443}

\* A definition up to the spelling of the root.
Spelled(defs) == {[d EXCEPT !.path = PathLen(@)] : d \in defs}

\* Migrating an instance from Fabio tags to the metadata of the README's table keeps
\* its routes up to the spelling of the root, with the tags still there and without
\* them: the non-indexed keys of the table for a single tag, and the same as indexed
\* keys for several.
MigrationKeepsRoutes ==
    \A i \in Instances :
        snapshot[i] # None =>
            LET tags == snapshot[i].fabio
                before == [snapshot[i] EXCEPT !.indexed = <<>>, !.plain = <<>>]
                Indexed(kept) ==
                    [before EXCEPT !.indexed = [k \in DOMAIN tags |-> MigratedTag(tags[k])],
                                   !.fabio = kept]
                Plain(kept) == [before EXCEPT !.plain = MigratedTag(tags[1]), !.fabio = kept]
            IN  \A kept \in {tags, <<>>}, k \in {j \in DOMAIN tags : Mappable(tags[j])} :
                    /\ Spelled(Source(Indexed(kept))[k]) = Spelled(Source(before)[k])
                    /\ DOMAIN tags = {1} =>
                          Spelled(Source(Plain(kept))[k]) = Spelled(Source(before)[k])

=============================================================================
