--------------------------- MODULE TCPProxyProofs ---------------------------
(***************************************************************************)
(* Proofs about TCPProxy, for every set of client streams and of tables:   *)
(* types, verbatim passthrough, complete responses, the route and the      *)
(* upstream of a connection, and the weights of the random choice.         *)
(***************************************************************************)
EXTENDS TCPProxy, Recursion, SequenceTheorems, FiniteSetTheorems

-----------------------------------------------------------------------------
(* The random choice.                                                        *)

\* A weight is positive.
LEMMA WeightPositive ==
    ASSUME NEW u \in Upstreams
    PROVE  Weight(u) \in Nat /\ Weight(u) > 0
BY DEF Upstreams, Weight

\* The equations of WeightOfFirst.
LEMMA WeightOfFirstDef ==
    ASSUME NEW ups \in Seq(Upstreams)
    PROVE  /\ WeightOfFirst(ups) \in [0..Len(ups) -> Nat]
           /\ WeightOfFirst(ups)[0] = 0
           /\ \A k \in 1..Len(ups) :
                 WeightOfFirst(ups)[k] =
                     WeightOfFirst(ups)[k - 1] +
                         (IF ups[k].healthy THEN Weight(ups[k]) ELSE 0)
<1> DEFINE n == Len(ups)
           Own(k) == IF ups[k].healthy THEN Weight(ups[k]) ELSE 0
           step == [k \in 1..n |-> [w \in Nat |-> w + Own(k)]]
           Def(f) == f = [k \in 0..n |-> IF k = 0 THEN 0 ELSE f[k - 1] + Own(k)]
<1>1. n \in Nat /\ \A k \in 1..n : ups[k] \in Upstreams
    OBVIOUS
<1>2. \A k \in 1..n : Own(k) \in Nat
    BY <1>1, WeightPositive
<1> HIDE DEF Own, n
<1>3. step \in [1..n -> [Nat -> Nat]]
    BY <1>2
<1>4. PICK f \in [0..n -> Nat] : Follows(f, n, 0, step)
    <2>1. 0 \in Nat /\ n \in Nat
        BY <1>1
    <2> HIDE DEF step, Def
    <2> QED
        BY <1>3, <2>1, RangeRecursion
<1>5. ASSUME NEW k \in 1..n PROVE f[k] = f[k - 1] + Own(k)
    <2>1. f[k - 1] \in Nat
        BY <1>1
    <2> QED
        BY <1>4, <2>1 DEF Follows
<1>6. Def(f)
    <2>1. \A k \in 0..n : f[k] = IF k = 0 THEN 0 ELSE f[k - 1] + Own(k)
        BY <1>4, <1>5 DEF Follows
    <2> QED
        BY <2>1
<1>7. WeightOfFirst(ups) = CHOOSE g : Def(g)
    BY DEF WeightOfFirst, Own, n
<1> HIDE DEF Def
<1>8. Def(WeightOfFirst(ups))
    BY <1>6, <1>7
<1> DEFINE g == WeightOfFirst(ups)
<1> HIDE DEF g
<1>9. g = [k \in 0..n |-> IF k = 0 THEN 0 ELSE g[k - 1] + Own(k)]
    BY <1>8 DEF Def, g
<1>10. DOMAIN g = 0..n /\ g[0] = 0 /\ \A k \in 1..n : g[k] = g[k - 1] + Own(k)
    BY <1>1, <1>9
<1>11. \A k \in 0..n : g[k] \in Nat
    <2> DEFINE S == {k \in 0..n : g[k] \in Nat}
    <2>1. 0 \in S /\ \A k \in 0..(n - 1) : k \in S => k + 1 \in S
        BY <1>1, <1>2, <1>10
    <2>2. 0..n \subseteq S
        BY ONLY <1>1, <2>1, RangeInduction
    <2> QED
        BY <2>2
<1> QED
    BY <1>9, <1>10, <1>11 DEF g, n, Own

\* The weights ahead never decrease.
LEMMA WeightOfFirstMonotone ==
    ASSUME NEW ups \in Seq(Upstreams), NEW i \in 0..Len(ups), NEW j \in i..Len(ups)
    PROVE  WeightOfFirst(ups)[i] <= WeightOfFirst(ups)[j]
<1> DEFINE n == Len(ups)
           w == WeightOfFirst(ups)
           S == {k \in 0..n : i <= k => w[i] <= w[k]}
<1>1. n \in Nat /\ \A k \in 1..n : ups[k] \in Upstreams
    OBVIOUS
<1>2. w \in [0..n -> Nat] /\ \A k \in 1..n : w[k - 1] <= w[k]
    <2>1. w \in [0..n -> Nat]
        BY WeightOfFirstDef
    <2>2. ASSUME NEW k \in 1..n PROVE w[k - 1] <= w[k]
        <3>1. w[k] = w[k - 1] + (IF ups[k].healthy THEN Weight(ups[k]) ELSE 0)
            BY WeightOfFirstDef
        <3>2. ups[k] \in Upstreams /\ k - 1 \in 0..n
            BY <1>1
        <3>3. w[k - 1] \in Nat /\ Weight(ups[k]) \in Nat
            BY <2>1, <3>2, WeightPositive
        <3> QED
            BY <3>1, <3>3
    <2> QED
        BY <2>1, <2>2
<1> HIDE DEF n, w
<1>3. i \in 0..n /\ j \in i..n
    BY DEF n
<1>4. 0 \in S
    BY <1>1, <1>2, <1>3
<1>5. ASSUME NEW k \in 0..(n - 1), k \in S PROVE k + 1 \in S
    <2>1. w[k] <= w[k + 1] /\ w[k] \in Nat /\ w[k + 1] \in Nat /\ w[i] \in Nat
        <3>1. k + 1 \in 1..n /\ (k + 1) - 1 = k /\ k \in 0..n /\ k + 1 \in 0..n
            BY <1>1
        <3> QED
            BY <1>2, <1>3, <3>1
    <2>2. CASE i <= k
        BY <1>1, <1>5, <2>1, <2>2
    <2>3. CASE i = k + 1
        BY <1>1, <2>1, <2>3
    <2>4. CASE i > k + 1
        BY <1>1, <2>4
    <2> QED
        BY <1>1, <1>3, <2>2, <2>3, <2>4
<1>6. 0..n \subseteq S
    BY ONLY <1>1, <1>4, <1>5, RangeInduction
<1>7. j \in S /\ i <= j
    BY <1>1, <1>3, <1>6
<1> QED
    BY <1>7 DEF w

\* Each number that may be drawn leads to the healthy upstream in whose share it is:
\* at least the weights ahead of it, and less than these and its own.
LEMMA PickBracket ==
    ASSUME NEW ups \in Seq(Upstreams), NEW n \in 0..(TotalWeight(ups) - 1)
    PROVE  /\ Pick(ups, n) \in Healthy(ups)
           /\ WeightOfFirst(ups)[Pick(ups, n) - 1] <= n
           /\ n < WeightOfFirst(ups)[Pick(ups, n)]
<1> DEFINE m == Len(ups)
           w == WeightOfFirst(ups)
           above == {k \in 1..m : n < w[k]}
           within == {k \in Healthy(ups) : n - w[k - 1] < Weight(ups[k])}
<1>1. m \in Nat /\ DOMAIN ups = 1..m /\ \A k \in 1..m : ups[k] \in Upstreams
    OBVIOUS
<1>2. /\ w \in [0..m -> Nat] /\ w[0] = 0
      /\ \A k \in 1..m : w[k] = w[k - 1] + (IF ups[k].healthy THEN Weight(ups[k]) ELSE 0)
    BY WeightOfFirstDef
<1>3. n \in Nat /\ n < w[m]
    BY <1>1, <1>2 DEF TotalWeight
<1> HIDE DEF m, w
<1>4. m \in above
    BY <1>1, <1>2, <1>3
<1>5. PICK k \in above : \A j \in above : k <= j
    <2>1. above \subseteq Nat /\ above # {}
        BY <1>1, <1>4
    <2> QED
        BY ONLY <2>1, LeastNumber
<1>6. k \in 1..m /\ w[k - 1] \in Nat /\ w[k] \in Nat /\ n < w[k]
    BY <1>1, <1>2, <1>5
<1>7. ASSUME NEW j \in 0..(k - 1) PROVE w[j] <= n
    <2>1. j \in 0..m /\ j < k /\ w[j] \in Nat
        BY <1>1, <1>2, <1>6
    <2>2. CASE j = 0
        BY <1>2, <1>3, <2>2
    <2>3. CASE j # 0
        <3>1. j \in 1..m /\ j \notin above
            BY <1>1, <1>5, <1>6, <2>1, <2>3
        <3> QED
            BY <1>3, <2>1, <3>1
    <2> QED
        BY <2>2, <2>3
<1>8. w[k - 1] <= n
    BY <1>6, <1>7
<1>9. k \in within
    <2>1. ups[k].healthy
        BY <1>2, <1>3, <1>6, <1>8
    <2>2. Weight(ups[k]) = w[k] - w[k - 1]
        BY <1>1, <1>2, <1>6, <2>1, WeightPositive
    <2> QED
        BY <1>1, <1>3, <1>6, <2>1, <2>2 DEF Healthy
<1>10. \A j \in within : k <= j
    <2> SUFFICES ASSUME NEW j \in within, j < k PROVE FALSE
        BY <1>1, <1>6 DEF Healthy
    <2>1. j \in 1..m /\ j \in 0..(k - 1) /\ ups[j].healthy
        BY <1>1, <1>6 DEF Healthy
    <2>2. w[j] <= n /\ w[j] = w[j - 1] + Weight(ups[j])
        BY <1>2, <1>7, <2>1
    <2>3. Weight(ups[j]) \in Nat /\ w[j - 1] \in Nat
        BY <1>1, <1>2, <2>1, WeightPositive
    <2> QED
        BY <1>3, <2>2, <2>3
<1>11. Pick(ups, n) = k
    <2>1. within \subseteq 1..m /\ within # {}
        BY <1>1, <1>9 DEF Healthy
    <2>2. Min(within) \in within /\ \A j \in within : Min(within) <= j
        BY ONLY <1>1, <2>1, MinOfPositions
    <2>3. Min(within) = k
        BY <1>9, <1>10, <2>1, <2>2
    <2>4. Pick(ups, n) = Min(within)
        BY <2>1 DEF Pick, w
    <2> QED
        BY <2>3, <2>4
<1> QED
    BY <1>6, <1>8, <1>9, <1>11 DEF w

\* Every upstream that may be picked is healthy.
LEMMA PicksHealthy ==
    ASSUME NEW ups \in Seq(Upstreams), NEW k \in Picks(ups)
    PROVE  k \in DOMAIN ups /\ ups[k].healthy
<1>1. k \in Healthy(ups)
    BY PickBracket DEF Picks
<1> QED
    BY <1>1 DEF Healthy

\* As many of the numbers that may be drawn lead to a healthy upstream as its weight.
LEMMA PickShare ==
    ASSUME NEW ups \in Seq(Upstreams), NEW k \in Healthy(ups)
    PROVE  Cardinality({n \in 0..(TotalWeight(ups) - 1) : Pick(ups, n) = k}) = Weight(ups[k])
<1> DEFINE m == Len(ups)
           w == WeightOfFirst(ups)
           share == {n \in 0..(TotalWeight(ups) - 1) : Pick(ups, n) = k}
<1>1. m \in Nat /\ k \in 1..m /\ k - 1 \in 0..m /\ ups[k] \in Upstreams /\ ups[k].healthy
    BY DEF Healthy
<1>2. w[k] \in Nat /\ w[k - 1] \in Nat /\ w[k] = w[k - 1] + Weight(ups[k])
    BY <1>1, WeightOfFirstDef
<1>3. w[k] <= w[m] /\ TotalWeight(ups) = w[m] /\ w[m] \in Nat
    BY <1>1, WeightOfFirstDef, WeightOfFirstMonotone DEF TotalWeight
<1>4. share = w[k - 1]..(w[k] - 1)
    <2>1. ASSUME NEW n \in share PROVE n \in w[k - 1]..(w[k] - 1)
        BY <1>2, <1>3, PickBracket
    <2>2. ASSUME NEW n \in w[k - 1]..(w[k] - 1) PROVE n \in share
        <3>1. n \in 0..(TotalWeight(ups) - 1)
            BY <1>2, <1>3
        <3> DEFINE j == Pick(ups, n)
        <3>2. j \in Healthy(ups) /\ w[j - 1] <= n /\ n < w[j]
            BY <3>1, PickBracket
        <3>3. j \in 1..m /\ j - 1 \in 0..m /\ w[j] \in Nat /\ w[j - 1] \in Nat
            BY <3>2, WeightOfFirstDef DEF Healthy
        <3> HIDE DEF j
        <3>4. ~(j < k)
            <4>1. j < k => w[j] <= w[k - 1]
                BY <1>1, <3>3, WeightOfFirstMonotone
            <4> QED
                BY <1>2, <3>2, <3>3, <4>1
        <3>5. ~(k < j)
            <4>1. k < j => w[k] <= w[j - 1]
                BY <1>1, <3>3, WeightOfFirstMonotone
            <4> QED
                BY <1>2, <3>2, <3>3, <4>1
        <3>6. j = k
            BY <1>1, <3>3, <3>4, <3>5
        <3> QED
            BY <3>1, <3>6 DEF j
    <2> QED
        BY <2>1, <2>2
<1>5. Weight(ups[k]) \in Nat /\ Weight(ups[k]) > 0
    BY <1>1, WeightPositive
<1> HIDE DEF w, share
<1>6. Cardinality(share) = (w[k] - 1) - w[k - 1] + 1
    <2>1. w[k - 1] \in Int /\ w[k] - 1 \in Int /\ ~(w[k - 1] > w[k] - 1)
        BY <1>2, <1>5
    <2>2. Cardinality(w[k - 1]..(w[k] - 1)) = (w[k] - 1) - w[k - 1] + 1
        BY <2>1, FS_Interval
    <2> QED
        BY <1>4, <2>2
<1> QED
    BY <1>2, <1>5, <1>6 DEF share

-----------------------------------------------------------------------------
(* The inductive invariant.                                                  *)

\* What the peek knows by the time handle is at each of its steps: it reads the first
\* chunk, then the second if the first announces a handshake, and has the server
\* name of the ClientHello when it is done. The deadline is set only during the peek.
PeekInv ==
    /\ pc = "lookup" => read = 0 /\ sni = None
    /\ pc = "header" => read = 0 /\ sni = None /\ AnySNI(routes)
    /\ pc = "body" => /\ read = 1 /\ sni = None /\ AnySNI(routes)
                      /\ stream[1].handshake
    /\ pc = "match" => sni = (IF AnySNI(routes) THEN Named(stream) ELSE None)
    /\ deadline => pc \in {"header", "body"}

\* The goroutines run only within proxyBidir, which waits for both.
PhaseInv ==
    /\ pc \notin {"proxy", "done"} => upPeer = "none" /\ copyUp = "none" /\ copyDown = "none"
    /\ pc = "proxy" => upPeer # "none"
    /\ pc = "done" => (upPeer = "none" \/ (copyUp = "done" /\ copyDown = "done"))
    /\ copyUp = "run" \/ copyDown = "run" => pc = "proxy"

\* A copy that has ended while nobody broke its connections has passed on everything.
CopyInv ==
    /\ copyUp = "done" /\ ~forced /\ upPeer = "open" =>
          client # "open" /\ prefix = <<>> /\ read = sent
    /\ copyDown = "done" /\ ~DownBroken => upPeer = "closed" /\ downGot = upSent

\* Nothing is lost, repeated or reordered on the way up.
OrderInv == upGot \o prefix = SubSeq(stream, 1, read)

\* The invariant that every step preserves.
IInv == TypeOK /\ PeekInv /\ PhaseInv /\ CopyInv /\ OrderInv /\ RightRoute

\* The table of a connection is a sequence of routes.
LEMMA RoutesType ==
    ASSUME TypeOK
    PROVE  /\ stream \in Seq(Chunks)
           /\ Len(stream) > 0 => stream[1] \in Headers /\ (stream[1].handshake => Len(stream) > 1)
           /\ routes \in Seq(PortRoutes)
<1>1. stream \in Streams /\ routes \in Tables \cup {<<>>}
    BY DEF TypeOK
<1>2. routes \in Seq(PortRoutes)
    BY <1>1, TablesAssumption, EmptySeq
<1> QED
    BY <1>1, <1>2, StreamsAssumption

\* match returns a route of the table, or none.
LEMMA MatchType ==
    ASSUME NEW rs \in Seq(PortRoutes), NEW name
    PROVE  Match(rs, name) \in PortRoutes \cup {None}
<1> DEFINE exact == {k \in DOMAIN rs : name # None /\ rs[k].sni = name}
           default == {k \in DOMAIN rs : rs[k].sni = None}
<1>1. Len(rs) \in Nat /\ DOMAIN rs = 1..Len(rs)
    OBVIOUS
<1>2. exact # {} => Min(exact) \in exact
    BY <1>1, MinOfPositions
<1>3. default # {} => Min(default) \in default
    BY <1>1, MinOfPositions
<1> QED
    BY <1>1, <1>2, <1>3 DEF Match

\* Each step keeps the types: the peek and the copy append chunks of the stream, a
\* match returns a route of the table, and pickUpstream a position in it.
LEMMA TypeStep ==
    ASSUME TypeOK, [Next]_vars
    PROVE  TypeOK'
<1> USE DEF TypeOK, clientVars, handleVars, readVars, upVars, downVars, copyVars
<1>1. CASE ClientSend
    BY <1>1 DEF ClientSend
<1>2. CASE ClientClose
    BY <1>2 DEF ClientClose
<1>3. CASE UpstreamSend
    BY <1>3, ResponseAssumption DEF UpstreamSend
<1>4. CASE UpstreamClose
    BY <1>4 DEF UpstreamClose
<1>5. CASE TableUpdate
    BY <1>5 DEF TableUpdate
<1>6. CASE ForceClose
    BY <1>6 DEF ForceClose
<1>7. CASE Lookup
    BY <1>7, TablesAssumption DEF Lookup
<1>8. CASE PeekHeader
    <2>1. Chunk \in Chunks
        BY <1>8, RoutesType DEF PeekHeader, CanRead, Chunk
    <2> QED
        BY <1>8, <2>1 DEF PeekHeader, CanRead
<1>9. CASE PeekBody
    <2>1. Chunk \in Chunks
        BY <1>9, RoutesType DEF PeekBody, CanRead, Chunk
    <2>2. IsHello(Chunk) => Chunk.sni \in ServerNames
        BY <2>1 DEF Chunks, Headers, Hellos, IsHello
    <2>3. None \in ServerNames
        BY DEF ServerNames
    <2> QED
        <3>1. sni' \in ServerNames
            BY <1>9, <2>2, <2>3 DEF PeekBody
        <3>2. deadline' \in BOOLEAN
            BY <1>9 DEF PeekBody
        <3>3. prefix' \in Seq(Chunks) /\ read' \in 0..sent /\ sent' = sent
            BY <1>9, <2>1 DEF PeekBody, CanRead
        <3> QED
            BY <1>9, <3>1, <3>2, <3>3 DEF PeekBody
<1>10. CASE PeekFail
    <2>1. deadline' \in BOOLEAN
        BY <1>10 DEF PeekFail
    <2> QED
        BY <1>10, <2>1 DEF PeekFail
<1>11. CASE MatchRoute
    <2>1. route' \in PortRoutes \cup {None}
        BY <1>11, RoutesType, MatchType DEF MatchRoute
    <2>2. upstream' \in Nat \cup {None} /\ pc' \in {"end", "dial"}
        <3>1. CASE route' = None \/ Healthy(route'.ups) = {}
            BY <1>11, <3>1 DEF MatchRoute
        <3>2. CASE ~(route' = None \/ Healthy(route'.ups) = {})
            <4>1. route'.ups \in Seq(Upstreams) /\ upstream' \in Picks(route'.ups) /\ pc' = "dial"
                BY <1>11, <2>1, <3>2 DEF MatchRoute, PortRoutes
            <4>2. upstream' \in DOMAIN route'.ups
                BY <4>1, PicksHealthy
            <4> QED
                BY <4>1, <4>2
        <3> QED
            BY <3>1, <3>2
    <2> QED
        BY <1>11, <2>1, <2>2 DEF MatchRoute
<1>12. CASE Dial
    BY <1>12 DEF Dial
<1>13. CASE End
    BY <1>13 DEF End
<1>14. CASE CopyUp
    <2>1. CASE prefix # <<>>
        <3>1. Head(prefix) \in Chunks /\ Tail(prefix) \in Seq(Chunks)
            BY <2>1, HeadTailProperties
        <3>2. upGot' \in Seq(Chunks) /\ prefix' \in Seq(Chunks)
            <4>1. upGot' = Append(upGot, Head(prefix)) /\ prefix' = Tail(prefix)
                BY <1>14, <2>1 DEF CopyUp
            <4>2. \A c \in Chunks : Append(upGot, c) \in Seq(Chunks)
                OBVIOUS
            <4> QED
                BY ONLY <3>1, <4>1, <4>2
        <3> QED
            BY <1>14, <2>1, <3>2 DEF CopyUp
    <2>2. CASE prefix = <<>>
        <3>1. Chunk \in Chunks
            BY <1>14, <2>2, RoutesType DEF CopyUp, CanRead, Chunk
        <3> QED
            BY <1>14, <2>2, <3>1 DEF CopyUp, CanRead
    <2> QED
        BY <2>1, <2>2
<1>15. CASE CopyUpEnd
    BY <1>15 DEF CopyUpEnd
<1>16. CASE CopyDown
    BY <1>16 DEF CopyDown
<1>17. CASE CopyDownEnd
    BY <1>17 DEF CopyDownEnd
<1>18. CASE UNCHANGED vars
    BY <1>18 DEF vars
<1> QED
    BY <1>1, <1>2, <1>3, <1>4, <1>5, <1>6, <1>7, <1>8, <1>9, <1>10, <1>11, <1>12, <1>13, <1>14, <1>15, <1>16, <1>17, <1>18 DEF Next, Handle

\* The peek: the server name is that of the stream's second chunk, if the first one
\* announces a handshake.
LEMMA PeekStep ==
    ASSUME TypeOK, PhaseInv, PeekInv, [Next]_vars
    PROVE  PeekInv'
<1> USE DEF PeekInv, clientVars, handleVars, readVars, upVars, downVars, copyVars
<1>1. CASE ClientSend
    BY <1>1 DEF ClientSend
<1>2. CASE ClientClose
    BY <1>2 DEF ClientClose
<1>3. CASE UpstreamSend
    BY <1>3 DEF UpstreamSend
<1>4. CASE UpstreamClose
    BY <1>4 DEF UpstreamClose
<1>5. CASE TableUpdate
    BY <1>5 DEF TableUpdate
<1>6. CASE ForceClose
    BY <1>6 DEF ForceClose
<1>7. CASE Lookup
    BY <1>7 DEF Lookup
<1>8. CASE PeekHeader
    <2>1. read = 0 /\ Chunk = stream[1] /\ stream[1] \in Headers /\ Len(stream) > 0
        BY <1>8, RoutesType DEF PeekHeader, CanRead, Chunk, TypeOK
    <2>2. ~stream[1].handshake => Named(stream) = None
        BY DEF Named
    <2>3. CASE stream[1].handshake
        BY <1>8, <2>1, <2>3 DEF PeekHeader
    <2>4. CASE ~stream[1].handshake
        BY <1>8, <2>1, <2>2, <2>4 DEF PeekHeader
    <2> QED
        BY <2>3, <2>4
<1>9. CASE PeekBody
    <2>1. Chunk = stream[2]
        BY <1>9 DEF PeekBody, Chunk
    <2>2. sni' = Named(stream)
        BY <1>9, <2>1 DEF PeekBody, Named
    <2> QED
        BY <1>9, <2>2 DEF PeekBody
<1>10. CASE PeekFail
    BY <1>10 DEF PeekFail
<1>11. CASE MatchRoute
    BY <1>11 DEF MatchRoute
<1>12. CASE Dial
    BY <1>12 DEF Dial
<1>13. CASE End
    BY <1>13 DEF End
<1>14. CASE CopyUp
    BY <1>14 DEF CopyUp, PhaseInv
<1>15. CASE CopyUpEnd
    BY <1>15 DEF CopyUpEnd
<1>16. CASE CopyDown
    BY <1>16 DEF CopyDown
<1>17. CASE CopyDownEnd
    BY <1>17 DEF CopyDownEnd
<1>18. CASE UNCHANGED vars
    BY <1>18 DEF vars
<1> QED
    BY <1>1, <1>2, <1>3, <1>4, <1>5, <1>6, <1>7, <1>8, <1>9, <1>10, <1>11, <1>12, <1>13, <1>14, <1>15, <1>16, <1>17, <1>18 DEF Next, Handle

\* The goroutines live between the dial and the end of the handler.
LEMMA PhaseStep ==
    ASSUME PhaseInv, [Next]_vars
    PROVE  PhaseInv'
<1> USE DEF PhaseInv, clientVars, handleVars, readVars, upVars, downVars, copyVars
<1>1. CASE ClientSend
    BY <1>1 DEF ClientSend
<1>2. CASE ClientClose
    BY <1>2 DEF ClientClose
<1>3. CASE UpstreamSend
    BY <1>3 DEF UpstreamSend
<1>4. CASE UpstreamClose
    BY <1>4 DEF UpstreamClose
<1>5. CASE TableUpdate
    BY <1>5 DEF TableUpdate
<1>6. CASE ForceClose
    BY <1>6 DEF ForceClose
<1>7. CASE Lookup
    BY <1>7 DEF Lookup
<1>8. CASE PeekHeader
    BY <1>8 DEF PeekHeader
<1>9. CASE PeekBody
    BY <1>9 DEF PeekBody
<1>10. CASE PeekFail
    BY <1>10 DEF PeekFail
<1>11. CASE MatchRoute
    BY <1>11 DEF MatchRoute
<1>12. CASE Dial
    BY <1>12 DEF Dial
<1>13. CASE End
    BY <1>13 DEF End
<1>14. CASE CopyUp
    BY <1>14 DEF CopyUp
<1>15. CASE CopyUpEnd
    BY <1>15 DEF CopyUpEnd
<1>16. CASE CopyDown
    BY <1>16 DEF CopyDown
<1>17. CASE CopyDownEnd
    BY <1>17 DEF CopyDownEnd
<1>18. CASE UNCHANGED vars
    BY <1>18 DEF vars
<1> QED
    BY <1>1, <1>2, <1>3, <1>4, <1>5, <1>6, <1>7, <1>8, <1>9, <1>10, <1>11, <1>12, <1>13, <1>14, <1>15, <1>16, <1>17, <1>18 DEF Next, Handle

\* A copy ends only when its source has ended or a connection is broken; what is
\* broken stays so, and a peer that has closed sends no more.
LEMMA CopyStep ==
    ASSUME TypeOK, PeekInv, PhaseInv, CopyInv, [Next]_vars
    PROVE  CopyInv'
<1> USE DEF CopyInv, DownBroken, clientVars, handleVars, readVars, upVars, downVars, copyVars
<1>1. CASE ClientSend
    BY <1>1 DEF ClientSend
<1>2. CASE ClientClose
    BY <1>2 DEF ClientClose
<1>3. CASE UpstreamSend
    BY <1>3 DEF UpstreamSend
<1>4. CASE UpstreamClose
    BY <1>4 DEF UpstreamClose
<1>5. CASE TableUpdate
    BY <1>5 DEF TableUpdate
<1>6. CASE ForceClose
    BY <1>6 DEF ForceClose
<1>7. CASE Lookup
    BY <1>7 DEF Lookup
<1>8. CASE PeekHeader
    BY <1>8 DEF PeekHeader, PhaseInv
<1>9. CASE PeekBody
    BY <1>9 DEF PeekBody, PhaseInv
<1>10. CASE PeekFail
    BY <1>10 DEF PeekFail
<1>11. CASE MatchRoute
    BY <1>11 DEF MatchRoute
<1>12. CASE Dial
    BY <1>12 DEF Dial
<1>13. CASE End
    BY <1>13 DEF End
<1>14. CASE CopyUp
    BY <1>14 DEF CopyUp
<1>15. CASE CopyUpEnd
    <2>1. ~deadline
        BY <1>15 DEF CopyUpEnd, PeekInv, PhaseInv
    <2> QED
        BY <1>15, <2>1 DEF CopyUpEnd, ReadFails
<1>16. CASE CopyDown
    BY <1>16 DEF CopyDown
<1>17. CASE CopyDownEnd
    <2>1. downGot \in Nat /\ upSent \in Nat /\ downGot <= upSent
        BY ResponseAssumption DEF TypeOK
    <2> QED
        BY <1>17, <2>1 DEF CopyDownEnd
<1>18. CASE UNCHANGED vars
    BY <1>18 DEF vars
<1> QED
    BY <1>1, <1>2, <1>3, <1>4, <1>5, <1>6, <1>7, <1>8, <1>9, <1>10, <1>11, <1>12, <1>13, <1>14, <1>15, <1>16, <1>17, <1>18 DEF Next, Handle

\* The chunk that is read next follows what was read before.
LEMMA ReadNext ==
    ASSUME NEW S, NEW s \in Seq(S), NEW got \in Seq(S), NEW rest \in Seq(S),
           NEW n \in 0..(Len(s) - 1), got \o rest = SubSeq(s, 1, n)
    PROVE  got \o Append(rest, s[n + 1]) = SubSeq(s, 1, n + 1)
<1>1. n + 1 \in 1..Len(s) /\ s[n + 1] \in S /\ (n + 1) - 1 = n /\ 1 \in 1..Len(s)
    OBVIOUS
<1>2. <<s[n + 1]>> \in Seq(S) /\ Append(rest, s[n + 1]) = rest \o <<s[n + 1]>>
    BY <1>1
<1>3. got \o (rest \o <<s[n + 1]>>) = (got \o rest) \o <<s[n + 1]>>
    <2> DEFINE last == <<s[n + 1]>>
    <2>1. last \in Seq(S)
        BY <1>2
    <2> HIDE DEF last
    <2>2. (got \o rest) \o last = got \o (rest \o last)
        BY ONLY <2>1, got \in Seq(S), rest \in Seq(S), ConcatAssociative, SMTT(60)
    <2> QED
        BY <2>2 DEF last
<1>4. SubSeq(s, 1, n + 1) = SubSeq(s, 1, n) \o <<s[n + 1]>>
    BY <1>1, SubSeqRecursiveSecond
<1> QED
    BY <1>2, <1>3, <1>4

\* Replaying a chunk of the prefix moves it from one sequence to the other.
LEMMA ReplayNext ==
    ASSUME NEW S, NEW got \in Seq(S), NEW rest \in Seq(S), rest # <<>>
    PROVE  Append(got, Head(rest)) \o Tail(rest) = got \o rest
<1>1. Head(rest) \in S /\ Tail(rest) \in Seq(S)
    BY HeadTailProperties
<1>2. <<Head(rest)>> \in Seq(S) /\ Append(got, Head(rest)) = got \o <<Head(rest)>>
    BY <1>1
<1>3. (got \o <<Head(rest)>>) \o Tail(rest) = got \o (<<Head(rest)>> \o Tail(rest))
    BY <1>1, <1>2, ConcatAssociative
<1>4. <<Head(rest)>> \o Tail(rest) = rest
    OBVIOUS
<1> QED
    BY <1>2, <1>3, <1>4

\* What the upstream has and what is to be replayed stay what was read of the stream.
LEMMA OrderStep ==
    ASSUME TypeOK, OrderInv, [Next]_vars
    PROVE  OrderInv'
<1> USE DEF OrderInv, clientVars, handleVars, readVars, upVars, downVars, copyVars
<1>1. CASE ClientSend
    BY <1>1 DEF ClientSend
<1>2. CASE ClientClose
    BY <1>2 DEF ClientClose
<1>3. CASE UpstreamSend
    BY <1>3 DEF UpstreamSend
<1>4. CASE UpstreamClose
    BY <1>4 DEF UpstreamClose
<1>5. CASE TableUpdate
    BY <1>5 DEF TableUpdate
<1>6. CASE ForceClose
    BY <1>6 DEF ForceClose
<1>7. CASE Lookup
    BY <1>7 DEF Lookup
<1>8. CASE PeekHeader
    <2>1. read \in 0..(Len(stream) - 1) /\ stream \in Seq(Chunks)
        BY <1>8, RoutesType DEF PeekHeader, CanRead, TypeOK
    <2>2. upGot \o Append(prefix, stream[read + 1]) = SubSeq(stream, 1, read + 1)
        BY <2>1, ReadNext DEF TypeOK
    <2> QED
        BY <1>8, <2>2 DEF PeekHeader, Chunk
<1>9. CASE PeekBody
    <2>1. read \in 0..(Len(stream) - 1) /\ stream \in Seq(Chunks)
        BY <1>9, RoutesType DEF PeekBody, CanRead, TypeOK
    <2>2. upGot \o Append(prefix, stream[read + 1]) = SubSeq(stream, 1, read + 1)
        BY <2>1, ReadNext DEF TypeOK
    <2> QED
        BY <1>9, <2>2 DEF PeekBody, Chunk
<1>10. CASE PeekFail
    BY <1>10 DEF PeekFail
<1>11. CASE MatchRoute
    BY <1>11 DEF MatchRoute
<1>12. CASE Dial
    BY <1>12 DEF Dial
<1>13. CASE End
    BY <1>13 DEF End
<1>14. CASE CopyUp
    <2>1. CASE prefix # <<>>
        <3>1. Append(upGot, Head(prefix)) \o Tail(prefix) = upGot \o prefix
            BY <2>1, ReplayNext DEF TypeOK
        <3> QED
            BY <1>14, <2>1, <3>1 DEF CopyUp
    <2>2. CASE prefix = <<>>
        <3>1. read \in 0..(Len(stream) - 1) /\ stream \in Seq(Chunks)
            BY <1>14, <2>2, RoutesType DEF CopyUp, CanRead, TypeOK
        <3>2. upGot \in Seq(Chunks) /\ <<>> \in Seq(Chunks) /\ stream[read + 1] \in Chunks
            BY <3>1 DEF TypeOK
        <3>3. upGot \o Append(<<>>, stream[read + 1]) = SubSeq(stream, 1, read + 1)
            BY <2>2, <3>1, <3>2, ReadNext
        <3>4. Append(upGot, stream[read + 1]) \o <<>> = upGot \o Append(<<>>, stream[read + 1])
            BY <3>2
        <3> QED
            BY <1>14, <2>2, <3>3, <3>4 DEF CopyUp, Chunk
    <2> QED
        BY <2>1, <2>2
<1>15. CASE CopyUpEnd
    BY <1>15 DEF CopyUpEnd
<1>16. CASE CopyDown
    BY <1>16 DEF CopyDown
<1>17. CASE CopyDownEnd
    BY <1>17 DEF CopyDownEnd
<1>18. CASE UNCHANGED vars
    BY <1>18 DEF vars
<1> QED
    BY <1>1, <1>2, <1>3, <1>4, <1>5, <1>6, <1>7, <1>8, <1>9, <1>10, <1>11, <1>12, <1>13, <1>14, <1>15, <1>16, <1>17, <1>18 DEF Next, Handle

\* The route is matched once, with the routes of the lookup and the server name of the
\* peek, and neither changes afterwards.
LEMMA RouteStep ==
    ASSUME TypeOK, PeekInv, RightRoute, [Next]_vars
    PROVE  RightRoute'
<1> USE DEF RightRoute, clientVars, handleVars, readVars, upVars, downVars, copyVars
<1>1. CASE ClientSend
    BY <1>1 DEF ClientSend
<1>2. CASE ClientClose
    BY <1>2 DEF ClientClose
<1>3. CASE UpstreamSend
    BY <1>3 DEF UpstreamSend
<1>4. CASE UpstreamClose
    BY <1>4 DEF UpstreamClose
<1>5. CASE TableUpdate
    BY <1>5 DEF TableUpdate
<1>6. CASE ForceClose
    BY <1>6 DEF ForceClose
<1>7. CASE Lookup
    BY <1>7 DEF Lookup
<1>8. CASE PeekHeader
    BY <1>8 DEF PeekHeader
<1>9. CASE PeekBody
    BY <1>9 DEF PeekBody
<1>10. CASE PeekFail
    BY <1>10 DEF PeekFail
<1>11. CASE MatchRoute
    <2> SUFFICES ASSUME pc' = "dial"
                 PROVE  /\ route' = Match(routes, IF AnySNI(routes) THEN Named(stream) ELSE None)
                        /\ route'.ups[upstream'].healthy
        BY <1>11 DEF MatchRoute
    <2>1. route' # None /\ route' = Match(routes, sni) /\ upstream' \in Picks(route'.ups)
        BY <1>11 DEF MatchRoute
    <2>2. sni = (IF AnySNI(routes) THEN Named(stream) ELSE None)
        BY <1>11 DEF MatchRoute, PeekInv
    <2>3. route'.ups \in Seq(Upstreams)
        BY <2>1, RoutesType, MatchType DEF PortRoutes
    <2>4. route'.ups[upstream'].healthy
        BY <2>1, <2>3, PicksHealthy
    <2> QED
        BY <2>1, <2>2, <2>4
<1>12. CASE Dial
    BY <1>12 DEF Dial
<1>13. CASE End
    BY <1>13 DEF End
<1>14. CASE CopyUp
    BY <1>14 DEF CopyUp
<1>15. CASE CopyUpEnd
    BY <1>15 DEF CopyUpEnd
<1>16. CASE CopyDown
    BY <1>16 DEF CopyDown
<1>17. CASE CopyDownEnd
    BY <1>17 DEF CopyDownEnd
<1>18. CASE UNCHANGED vars
    BY <1>18 DEF vars
<1> QED
    BY <1>1, <1>2, <1>3, <1>4, <1>5, <1>6, <1>7, <1>8, <1>9, <1>10, <1>11, <1>12, <1>13, <1>14, <1>15, <1>16, <1>17, <1>18 DEF Next, Handle

-----------------------------------------------------------------------------
(* The theorems.                                                             *)

\* The invariant holds in the initial states.
LEMMA InitInv == Init => IInv
<1> SUFFICES ASSUME Init PROVE IInv
    OBVIOUS
<1>1. stream \in Seq(Chunks) /\ Len(stream) \in Nat
    BY StreamsAssumption DEF Init
<1>2. TypeOK
    <2>1. deadline \in BOOLEAN /\ upEOF \in BOOLEAN /\ downEOF \in BOOLEAN /\ forced \in BOOLEAN
        BY DEF Init
    <2>2. prefix \in Seq(Chunks) /\ upGot \in Seq(Chunks) /\ sni \in ServerNames
        BY EmptySeq DEF Init, ServerNames
    <2> QED
        BY <1>1, <2>1, <2>2, ResponseAssumption DEF Init, TypeOK
<1>3. PeekInv /\ PhaseInv /\ CopyInv /\ RightRoute
    BY DEF Init, PeekInv, PhaseInv, CopyInv, RightRoute
<1>4. OrderInv
    <2>1. <<>> \o <<>> = <<>>
        OBVIOUS
    <2>2. SubSeq(stream, 1, 0) = <<>>
        BY SubSeqEmpty
    <2> QED
        BY <2>1, <2>2 DEF Init, OrderInv
<1> QED
    BY <1>2, <1>3, <1>4 DEF IInv

\* It holds in every reachable state.
THEOREM InvHolds == Spec => []IInv
<1>1. IInv /\ [Next]_vars => IInv'
    BY TypeStep, PeekStep, PhaseStep, CopyStep, OrderStep, RouteStep DEF IInv
<1> QED
    BY InitInv, <1>1, PTL DEF Spec

\* Types, and the proxy never reads more than has arrived, nor passes on more of the
\* response than the upstream has sent.
THEOREM TypeCorrect == Spec => []TypeOK
<1>1. IInv => TypeOK
    BY DEF IInv
<1> QED
    BY InvHolds, <1>1, PTL

\* Passthrough is verbatim, for every stream of chunks: the peek and its replay lose,
\* repeat and reorder nothing, and an unbroken copy ends with all that was sent.
THEOREM PassthroughVerbatim == Spec => []Verbatim
<1>1. IInv => Verbatim
    <2> SUFFICES ASSUME IInv PROVE Verbatim
        OBVIOUS
    <2>1. upGot \o prefix = SubSeq(stream, 1, read) /\ upGot \in Seq(Chunks)
        BY DEF IInv, OrderInv, TypeOK
    <2>2. ASSUME copyUp = "done", ~forced, upPeer = "open"
          PROVE  client # "open" /\ upGot = SubSeq(stream, 1, sent)
        <3>1. client # "open" /\ prefix = <<>> /\ read = sent
            BY <2>2 DEF IInv, CopyInv
        <3>2. upGot \o <<>> = upGot
            BY <2>1, ConcatEmptySeq
        <3> QED
            BY <2>1, <3>1, <3>2
    <2> QED
        BY <2>1, <2>2 DEF Verbatim
<1> QED
    BY InvHolds, <1>1, PTL

\* Half-close: a client that has ended only its own side gets the whole response
\* before the handler returns.
THEOREM HalfClose == Spec => []ResponseComplete
<1>1. IInv => ResponseComplete
    BY DEF IInv, PhaseInv, CopyInv, ResponseComplete
<1> QED
    BY InvHolds, <1>1, PTL

\* A connection is dialled to a healthy upstream of the route of its server name.
THEOREM RouteOfServerName == Spec => []RightRoute
<1>1. IInv => RightRoute
    BY DEF IInv
<1> QED
    BY InvHolds, <1>1, PTL

\* The random choice is by weight, for any number of upstreams with any weights.
THEOREM ChoiceByWeight == Spec => []PickIsWeighted
<1>1. TypeOK => PickIsWeighted
    <2> SUFFICES ASSUME TypeOK, NEW r \in ToSet(routes), NEW k \in Healthy(r.ups)
                 PROVE  Cardinality({n \in 0..(TotalWeight(r.ups) - 1) : Pick(r.ups, n) = k}) =
                            Weight(r.ups[k])
        BY DEF PickIsWeighted
    <2>1. r \in PortRoutes
        BY RoutesType DEF ToSet
    <2>2. r.ups \in Seq(Upstreams)
        BY <2>1 DEF PortRoutes
    <2> QED
        BY <2>2, PickShare
<1> QED
    BY TypeCorrect, <1>1, PTL
=============================================================================
