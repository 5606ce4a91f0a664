------------------------------ MODULE TCPProxy ------------------------------
(***************************************************************************)
(* One connection to a TCP route: handle and proxyBidir (src/tcp_proxy.go) *)
(* and the peek at the ClientHello (src/tcp_sni.go).                       *)
(*                                                                         *)
(* On a port with SNI routes the handler reads the first TLS record, under *)
(* a read deadline, to learn the server name; what it has read is replayed *)
(* to the upstream before the rest. Then two goroutines copy, one in each  *)
(* direction, and close the other side's half when theirs has ended.       *)
(*                                                                         *)
(* Bytes are grouped into what one read of the peek asks for: a record's   *)
(* header, its body, and data. The client, the upstream and the drain of   *)
(* TCPListeners are the environment.                                       *)
(***************************************************************************)
EXTENDS Integers, Sequences, SequencesExt, FiniteSetsExt

CONSTANTS
    Streams,      \* what a client may have to send: sequences of chunks
    Tables,       \* the routes the port may have: sequences of routes
    MaxResponse,  \* bound on the chunks an upstream sends
    None          \* no server name, route or upstream

\* A chunk: the first five bytes, a record's body with the server name a ClientHello
\* has, or data.
ServerNames == STRING \cup {None}
Headers == [kind : {"header"}, handshake : BOOLEAN]
Hellos == [kind : {"body"}, sni : ServerNames]
Chunks == Headers \cup Hellos \cup [kind : {"data"}]
IsHello(chunk) == chunk.kind = "body"

\* A route of the port: its server name, if any, and its upstreams.
Upstreams == [weight : Int, healthy : BOOLEAN]
PortRoutes == [sni : ServerNames, ups : Seq(Upstreams)]

ASSUME StreamsAssumption ==
    \A s \in Streams :
        /\ s \in Seq(Chunks)
        /\ Len(s) > 0 => s[1] \in Headers /\ (s[1].handshake => Len(s) > 1)
ASSUME TablesAssumption == \A t \in Tables : t \in Seq(PortRoutes)
ASSUME ResponseAssumption == MaxResponse \in Nat

VARIABLES
    stream,    \* what the client has to send
    sent,      \* how much of it has arrived at the proxy
    client,    \* "open", "half" (has closed its write side) or "gone"
    table,     \* the routes of the port; None when the port is removed
    pc,        \* where handle is
    routes,    \* handle's pr: the routes it has looked up
    deadline,  \* a read deadline is set on the client's connection
    read,      \* how much of the stream the proxy has read
    prefix,    \* the chunks the peek has read and that are not replayed yet
    sni,       \* the server name it has found
    route,     \* the route that matched
    upstream,  \* the position of the upstream that was picked
    upPeer,    \* the upstream's connection: "none", "open" or "closed" by the peer
    upGot,     \* what the upstream has received
    upEOF,     \* the proxy has closed its write side to the upstream
    upSent,    \* how much the upstream has sent
    downGot,   \* how much of it was passed to the client
    downEOF,   \* the proxy has closed its write side to the client
    forced,    \* the drain has closed the client's connection
    copyUp,    \* the goroutine that copies to the upstream: "none", "run", "done"
    copyDown   \* the one that copies to the client

clientVars == <<stream, sent, client>>
handleVars == <<pc, routes, sni, route, upstream>>
readVars == <<deadline, read, prefix>>
upVars == <<upPeer, upGot, upEOF, upSent>>
downVars == <<downGot, downEOF, forced>>
copyVars == <<copyUp, copyDown>>
vars == <<clientVars, table, handleVars, readVars, upVars, downVars, copyVars>>

-----------------------------------------------------------------------------
(* Routes and upstreams of a port.                                           *)

\* anySNI of tcpPortRoutes.
AnySNI(rs) == \E k \in DOMAIN rs : rs[k].sni # None

\* match, without wildcards (they are in Routes): the route of this server name,
\* else the first without one.
Match(rs, name) ==
    LET exact == {k \in DOMAIN rs : name # None /\ rs[k].sni = name}
        default == {k \in DOMAIN rs : rs[k].sni = None}
    IN  CASE exact # {} -> rs[Min(exact)]
          [] exact = {} /\ default # {} -> rs[Min(default)]
          [] OTHER -> None

Weight(u) == IF u.weight <= 0 THEN 1 ELSE u.weight

\* The positions of the healthy upstreams.
Healthy(ups) == {k \in DOMAIN ups : ups[k].healthy}

\* The weight of the healthy ones among the first k upstreams, for each k.
WeightOfFirst(ups) ==
    LET sum[k \in 0..Len(ups)] ==
            IF k = 0 THEN 0
            ELSE sum[k - 1] + (IF ups[k].healthy THEN Weight(ups[k]) ELSE 0)
    IN  sum

TotalWeight(ups) == WeightOfFirst(ups)[Len(ups)]

\* Mutant: the comparison with the weight includes its end.
PickMutant(ups, n) ==
    LET within == {k \in Healthy(ups) : n - WeightOfFirst(ups)[k - 1] <= Weight(ups[k])}
    IN  IF within # {} THEN Min(within) ELSE Max(Healthy(ups))

\* pickUpstream for the random number n: the first healthy upstream whose weight is
\* above what the weights of those before it leave of n; the last one if there is none.
Pick(ups, n) ==
    LET within == {k \in Healthy(ups) : n - WeightOfFirst(ups)[k - 1] < Weight(ups[k])}
    IN  IF within # {} THEN Min(within) ELSE Max(Healthy(ups))

\* The upstreams that may be picked; with a single healthy one nothing is drawn.
Picks(ups) ==
    IF Cardinality(Healthy(ups)) = 1 THEN Healthy(ups)
    ELSE {Pick(ups, n) : n \in 0..(TotalWeight(ups) - 1)}

-----------------------------------------------------------------------------
Init ==
    /\ stream \in Streams /\ sent = 0 /\ client = "open"
    /\ table \in Tables
    /\ pc = "lookup" /\ routes = <<>> /\ sni = None /\ route = None /\ upstream = None
    /\ deadline = FALSE /\ read = 0 /\ prefix = <<>>
    /\ upPeer = "none" /\ upGot = <<>> /\ upEOF = FALSE /\ upSent = 0
    /\ downGot = 0 /\ downEOF = FALSE /\ forced = FALSE
    /\ copyUp = "none" /\ copyDown = "none"

-----------------------------------------------------------------------------
(* The environment.                                                          *)

ClientSend ==
    /\ client = "open" /\ sent < Len(stream)
    /\ sent' = sent + 1
    /\ UNCHANGED <<stream, client, table, handleVars, readVars, upVars, downVars, copyVars>>

\* The client ends its side, or goes away altogether.
ClientClose ==
    /\ client' \in {"half", "gone"}
    /\ client' # client /\ client # "gone"
    /\ UNCHANGED <<stream, sent, table, handleVars, readVars, upVars, downVars, copyVars>>

UpstreamSend ==
    /\ upPeer = "open" /\ upSent < MaxResponse
    /\ upSent' = upSent + 1
    /\ UNCHANGED <<clientVars, table, handleVars, readVars, upPeer, upGot, upEOF, downVars,
                   copyVars>>

UpstreamClose ==
    /\ upPeer = "open"
    /\ upPeer' = "closed"
    /\ UNCHANGED <<clientVars, table, handleVars, readVars, upGot, upEOF, upSent, downVars,
                   copyVars>>

\* A converge replaces the routes of the port, or removes it.
TableUpdate ==
    /\ pc \notin {"done", "proxy"}
    /\ table' \in (Tables \cup {None}) \ {table}
    /\ UNCHANGED <<clientVars, handleVars, readVars, upVars, downVars, copyVars>>

\* The listener's drain closes the connection (DrainForce of TCPListeners).
ForceClose ==
    /\ pc # "done" /\ ~forced
    /\ forced' = TRUE
    /\ UNCHANGED <<clientVars, table, handleVars, readVars, upVars, downGot, downEOF, copyVars>>

-----------------------------------------------------------------------------
(* Reading from the client.                                                  *)

\* A read would return data; it fails on a connection that was closed here.
CanRead == read < sent /\ ~forced

\* A read fails or meets the end of the stream.
ReadFails ==
    \/ forced
    \/ read = sent /\ client # "open"
    \/ read = sent /\ deadline

Chunk == stream[read + 1]

-----------------------------------------------------------------------------
(* handle.                                                                   *)

\* Mutant: handle goes on with no routes at all when the port is gone.
LookupMutant ==
    /\ pc = "lookup"
    /\ routes' = table
    /\ pc' = IF table # None /\ AnySNI(table) THEN "header" ELSE "match"
    /\ deadline' = (pc' = "header")
    /\ UNCHANGED <<clientVars, table, sni, route, upstream, read, prefix, upVars, downVars,
                   copyVars>>

\* The table is read once; the peek starts with a deadline.
Lookup ==
    /\ pc = "lookup"
    /\ routes' = IF table = None THEN <<>> ELSE table
    /\ pc' = IF table = None THEN "end" ELSE IF AnySNI(table) THEN "header" ELSE "match"
    /\ deadline' = (pc' = "header")
    /\ UNCHANGED <<clientVars, table, sni, route, upstream, read, prefix, upVars, downVars,
                   copyVars>>

\* Mutant: the deadline is left set when the peek ends here.
PeekHeaderMutant ==
    /\ pc = "header" /\ CanRead
    /\ read' = read + 1
    /\ prefix' = Append(prefix, Chunk)
    /\ pc' = IF Chunk.handshake THEN "body" ELSE "match"
    /\ UNCHANGED <<clientVars, table, routes, sni, route, upstream, deadline, upVars, downVars,
                   copyVars>>

\* The header: if it is none of a handshake record of plausible length, there is no
\* server name. The deadline is cleared whenever the peek returns.
PeekHeader ==
    /\ pc = "header" /\ CanRead
    /\ read' = read + 1
    /\ prefix' = Append(prefix, Chunk)
    /\ pc' = IF Chunk.handshake THEN "body" ELSE "match"
    /\ deadline' = (pc' = "body")
    /\ UNCHANGED <<clientVars, table, routes, sni, route, upstream, upVars, downVars, copyVars>>

\* The body: a ClientHello with a server name, or not.
PeekBody ==
    /\ pc = "body" /\ CanRead
    /\ read' = read + 1
    /\ prefix' = Append(prefix, Chunk)
    /\ sni' = IF IsHello(Chunk) THEN Chunk.sni ELSE None
    /\ pc' = "match"
    /\ deadline' = FALSE
    /\ UNCHANGED <<clientVars, table, routes, route, upstream, upVars, downVars, copyVars>>

\* The connection ends, is closed, or its deadline passes before the record is read.
PeekFail ==
    /\ pc \in {"header", "body"} /\ ReadFails
    /\ pc' = "end"
    /\ deadline' = FALSE
    /\ UNCHANGED <<clientVars, table, routes, sni, route, upstream, read, prefix, upVars,
                   downVars, copyVars>>

\* Mutant: the server name is matched against the table as it is by now.
MatchRouteMutant ==
    /\ pc = "match"
    /\ route' = IF table = None THEN None ELSE Match(table, sni)
    /\ IF route' = None \/ Healthy(route'.ups) = {}
       THEN pc' = "end" /\ upstream' = None
       ELSE pc' = "dial" /\ upstream' \in Picks(route'.ups)
    /\ UNCHANGED <<clientVars, table, routes, sni, readVars, upVars, downVars, copyVars>>

\* Match the route and pick an upstream; without one of either the handler ends.
MatchRoute ==
    /\ pc = "match"
    /\ route' = Match(routes, sni)
    /\ IF route' = None \/ Healthy(route'.ups) = {}
       THEN pc' = "end" /\ upstream' = None
       ELSE pc' = "dial" /\ upstream' \in Picks(route'.ups)
    /\ UNCHANGED <<clientVars, table, routes, sni, readVars, upVars, downVars, copyVars>>

\* The upstream answers, or not; then the two goroutines start.
Dial ==
    /\ pc = "dial"
    /\ \/ /\ pc' = "proxy" /\ upPeer' = "open"
          /\ copyUp' = "run" /\ copyDown' = "run"
       \/ pc' = "end" /\ UNCHANGED <<upPeer, copyVars>>
    /\ UNCHANGED <<clientVars, table, routes, sni, route, upstream, readVars, upGot, upEOF,
                   upSent, downVars>>

-----------------------------------------------------------------------------
(* proxyBidir.                                                               *)

\* io.Copy(up, down): the replay first, then what arrives.
CopyUp ==
    /\ copyUp = "run" /\ upPeer = "open"
    /\ IF prefix # <<>>
       THEN /\ upGot' = Append(upGot, Head(prefix))
            /\ prefix' = Tail(prefix)
            /\ UNCHANGED read
       ELSE /\ CanRead
            /\ upGot' = Append(upGot, Chunk)
            /\ read' = read + 1
            /\ UNCHANGED prefix
    /\ UNCHANGED <<clientVars, table, handleVars, deadline, upPeer, upEOF, upSent, downVars,
                   copyVars>>

\* It ends with the client's stream, or because the upstream is gone.
CopyUpEnd ==
    /\ copyUp = "run"
    /\ \/ upPeer = "closed" /\ (prefix # <<>> \/ CanRead)
       \/ prefix = <<>> /\ ReadFails
    /\ copyUp' = "done"
    /\ upEOF' = TRUE
    /\ UNCHANGED <<clientVars, table, handleVars, readVars, upPeer, upGot, upSent, downVars,
                   copyDown>>

\* The client's connection takes no more data.
DownBroken == forced \/ client = "gone"

\* io.Copy(down, up).
CopyDown ==
    /\ copyDown = "run" /\ downGot < upSent /\ ~DownBroken
    /\ downGot' = downGot + 1
    /\ UNCHANGED <<clientVars, table, handleVars, readVars, upVars, downEOF, forced, copyVars>>

\* Mutant: the end of one direction is not passed on.
CopyDownEndMutant ==
    /\ copyDown = "run"
    /\ IF downGot < upSent THEN DownBroken ELSE upPeer = "closed"
    /\ copyDown' = "done"
    /\ UNCHANGED <<clientVars, table, handleVars, readVars, upVars, downVars, copyUp>>

\* It ends with the upstream's stream, or because a write fails.
CopyDownEnd ==
    /\ copyDown = "run"
    /\ IF downGot < upSent THEN DownBroken ELSE upPeer = "closed"
    /\ copyDown' = "done"
    /\ downEOF' = TRUE
    /\ UNCHANGED <<clientVars, table, handleVars, readVars, upVars, downGot, forced, copyUp>>

\* Mutant: the handler does not wait for the second direction.
EndMutant ==
    /\ pc = "end" \/ (pc = "proxy" /\ (copyUp = "done" \/ copyDown = "done"))
    /\ pc' = "done"
    /\ copyUp' = IF pc = "proxy" THEN "done" ELSE copyUp
    /\ copyDown' = IF pc = "proxy" THEN "done" ELSE copyDown
    /\ UNCHANGED <<clientVars, table, routes, sni, route, upstream, readVars, upVars, downVars>>

\* The handler returns, from proxyBidir when both directions have ended, and closes
\* what it has opened.
End ==
    /\ pc = "end" \/ (pc = "proxy" /\ copyUp = "done" /\ copyDown = "done")
    /\ pc' = "done"
    /\ UNCHANGED <<clientVars, table, routes, sni, route, upstream, readVars, upVars, downVars,
                   copyVars>>

-----------------------------------------------------------------------------
Handle == Lookup \/ PeekHeader \/ PeekBody \/ PeekFail \/ MatchRoute \/ Dial \/ End

Next ==
    \/ ClientSend \/ ClientClose \/ UpstreamSend \/ UpstreamClose \/ TableUpdate \/ ForceClose
    \/ Handle \/ CopyUp \/ CopyUpEnd \/ CopyDown \/ CopyDownEnd

Spec == Init /\ [][Next]_vars

(***************************************************************************)
(* Fairness: goroutines run and a deadline passes. A peer that sees the    *)
(* other side end closes its own in the end; nothing else is assumed of    *)
(* peers, which may be silent for ever.                                    *)
(***************************************************************************)
FairSpec ==
    /\ Spec
    /\ WF_vars(Handle)
    /\ WF_vars(CopyUp) /\ WF_vars(CopyUpEnd) /\ WF_vars(CopyDown) /\ WF_vars(CopyDownEnd)
    /\ WF_vars(upEOF /\ UpstreamClose)
    /\ WF_vars(downEOF /\ client = "open" /\ ClientClose)

-----------------------------------------------------------------------------
(* Properties.                                                               *)

\* Every variable has its type: handle has routes unless the port is gone, and never
\* reads or passes on more than was sent.
TypeOK ==
    /\ stream \in Streams /\ sent \in 0..Len(stream) /\ client \in {"open", "half", "gone"}
    /\ table \in Tables \cup {None}
    /\ pc \in {"lookup", "header", "body", "match", "dial", "proxy", "end", "done"}
    /\ routes \in Tables \cup {<<>>} /\ sni \in ServerNames
    /\ route \in PortRoutes \cup {None} /\ upstream \in Nat \cup {None}
    /\ deadline \in BOOLEAN /\ read \in 0..sent /\ prefix \in Seq(Chunks)
    /\ upPeer \in {"none", "open", "closed"} /\ upGot \in Seq(Chunks)
    /\ upEOF \in BOOLEAN /\ downEOF \in BOOLEAN /\ forced \in BOOLEAN
    /\ upSent \in 0..MaxResponse /\ downGot \in 0..upSent
    /\ copyUp \in {"none", "run", "done"} /\ copyDown \in {"none", "run", "done"}

\* Passthrough is verbatim: what the upstream has received, what is still to be
\* replayed and what was not read yet are the client's stream, in its order, whether
\* or not the peek has read part of it. When the copy has ended on a connection that
\* nobody broke, the upstream has all that the client sent.
Verbatim ==
    /\ upGot \o prefix = SubSeq(stream, 1, read)
    /\ copyUp = "done" /\ ~forced /\ upPeer = "open" =>
          client # "open" /\ upGot = SubSeq(stream, 1, sent)

\* A client that has ended its own side still gets the whole response: the other
\* direction is copied until the upstream closes.
ResponseComplete ==
    pc = "done" /\ upPeer # "none" /\ ~DownBroken => upPeer = "closed" /\ downGot = upSent

\* The server name of a client's ClientHello.
Named(s) == IF s[1].handshake /\ IsHello(s[2]) THEN s[2].sni ELSE None

\* A connection is dialled to a healthy upstream of the route of its server name in
\* the table it has looked up, whatever converges did during the peek.
RightRoute ==
    pc \in {"dial", "proxy"} =>
        /\ route = Match(routes, IF AnySNI(routes) THEN Named(stream) ELSE None)
        /\ route.ups[upstream].healthy

\* The random choice is by weight: of all numbers that may be drawn, each healthy
\* upstream has as many as its weight, and no number is without an upstream.
PickIsWeighted ==
    \A r \in ToSet(routes) : \A k \in Healthy(r.ups) :
            Cardinality({n \in 0..(TotalWeight(r.ups) - 1) : Pick(r.ups, n) = k}) =
                Weight(r.ups[k])

\* No connection hangs in the peek, on a silent client or a slow table, and once a
\* side has ended or the drain has closed the connection, the handler returns.
ConnectionEnds ==
    /\ pc \notin {"proxy", "done"} ~> pc \in {"proxy", "done"}
    /\ (client # "open" \/ upPeer = "closed" \/ forced) ~> pc = "done"

=============================================================================
