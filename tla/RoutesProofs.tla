---------------------------- MODULE RoutesProofs ----------------------------
(***************************************************************************)
(* Proofs about Routes, for any services, instances, metadata and tags:    *)
(* what the tables hold, whom a key belongs to, what the matchers find.    *)
(***************************************************************************)
EXTENDS Routes, Recursion, SequenceTheorems, FiniteSetTheorems

-----------------------------------------------------------------------------
(* Parsing.                                                                  *)

LEMMA NoURLType == NoURL \in URLs
BY NamesAssumption DEF NoURL, URLs

\* The definition in a typed record of fields is typed, whatever fields there are.
LEMMA ParseNonIndexedMetaType ==
    ASSUME NEW fields, FieldsTyped(fields)
    PROVE  ParseNonIndexedMeta(fields) \in RouteDefs
<1>1. Get(fields, "protocol", "http") \in Protocols
    BY NamesAssumption DEF FieldsTyped, Get
<1>2. Get(fields, "host", AnyHost) \in Hosts
    BY NamesAssumption DEF FieldsTyped, Get, AnyHost, Hosts
<1>3. Get(fields, "path", EmptyPath) \in Int
    BY DEF FieldsTyped, Get, EmptyPath
<1>4. /\ Atoi(fields, "port") \in Int /\ Atoi(fields, "priority") \in Int
      /\ Atoi(fields, "weight") \in Int /\ Atoi(fields, "code") \in Int
    BY DEF FieldsTyped, Atoi, Get
<1>5. /\ Get(fields, "enabled", TRUE) \in BOOLEAN
      /\ Get(fields, "strip", FALSE) \in BOOLEAN /\ Get(fields, "noCache", FALSE) \in BOOLEAN
    BY DEF FieldsTyped, Get
<1>6. Get(fields, "url", NoURL) \in URLs
    BY NoURLType DEF FieldsTyped, Get
<1>7. Get(fields, "status", None) \in Statuses \cup {None}
    BY DEF FieldsTyped, Get
<1> QED
    BY <1>1, <1>2, <1>3, <1>4, <1>5, <1>6, <1>7 DEF ParseNonIndexedMeta, RouteDefs

LEMMA ParseIndexedMetaType ==
    ASSUME NEW fields, FieldsTyped(fields)
    PROVE  ParseIndexedMeta(fields) \in RouteDefs
<1> DEFINE d == ParseNonIndexedMeta(fields)
<1>1. d \in RouteDefs
    BY ParseNonIndexedMetaType
<1> HIDE DEF d
<1>2. Get(fields, "sni", d.host) \in Hosts
    BY <1>1 DEF FieldsTyped, Get, RouteDefs
<1> QED
    BY <1>1, <1>2 DEF ParseIndexedMeta, RouteDefs, d

\* What an instance without any fields would be given.
LEMMA NoFields ==
    LET d == ParseNonIndexedMeta(<<>>)
    IN  /\ d \in RouteDefs
        /\ d.proto = "http" /\ d.host = AnyHost /\ d.path = EmptyPath /\ d.port = 0
        /\ d.priority = 0 /\ d.weight = 0 /\ d.strip = FALSE /\ d.enabled = TRUE
        /\ d.code = 0 /\ d.url = NoURL /\ d.noCache = FALSE /\ d.status = None
<1> DEFINE none == <<>>
           d == ParseNonIndexedMeta(none)
<1>1. DOMAIN none = {}
    OBVIOUS
<1> HIDE DEF none
<1>2. FieldsTyped(none)
    BY <1>1 DEF FieldsTyped
<1>3. d \in RouteDefs
    BY <1>2, ParseNonIndexedMetaType
<1>4. /\ d.proto = "http" /\ d.host = AnyHost /\ d.path = EmptyPath /\ d.port = 0
      /\ d.priority = 0 /\ d.weight = 0 /\ d.strip = FALSE /\ d.enabled = TRUE
      /\ d.code = 0 /\ d.url = NoURL /\ d.noCache = FALSE /\ d.status = None
    BY <1>1 DEF ParseNonIndexedMeta, Get, Atoi
<1> QED
    BY <1>3, <1>4 DEF none

\* The definition with the modifiers of a typed tag is typed.
LEMMA ModifiedRoute ==
    ASSUME NEW tag, TagTyped(tag), NEW proto \in Protocols
    PROVE  LET d == Modified(tag, proto)
           IN  /\ d \in RouteDefs
               /\ d.proto = proto /\ d.host = AnyHost /\ d.path = EmptyPath /\ d.port = 0
               /\ d.priority = 0 /\ d.weight = 0 /\ d.strip = ("strip" \in DOMAIN tag)
               /\ d.enabled = TRUE
               /\ d.code = (IF TagRedirects(tag) THEN tag.code ELSE 0)
               /\ d.url = (IF TagRedirects(tag) THEN ReplacePath(tag.url) ELSE NoURL)
               /\ d.noCache = FALSE /\ d.status = None
<1> DEFINE b == ParseNonIndexedMeta(<<>>)
           strip == "strip" \in DOMAIN tag
           code == IF TagRedirects(tag) THEN tag.code ELSE 0
           url == IF TagRedirects(tag) THEN ReplacePath(tag.url) ELSE NoURL
           d == [b EXCEPT !.proto = proto, !.strip = strip, !.code = code, !.url = url]
<1>1. code \in Int
    BY DEF TagRedirects
<1>2. url \in URLs
    <2>1. CASE TagRedirects(tag)
        <3>1. tag.url \in URLs
            BY <2>1 DEF TagTyped, FieldsTyped, TagRedirects
        <3>2. ReplacePath(tag.url) \in URLs
            BY <3>1 DEF ReplacePath, URLs
        <3> QED
            BY <2>1, <3>2
    <2> QED
        BY <2>1, NoURLType
<1>3. Modified(tag, proto) = d
    BY DEF Modified
<1>4. strip \in BOOLEAN
    OBVIOUS
<1>5. /\ b \in RouteDefs
      /\ b.host = AnyHost /\ b.path = EmptyPath /\ b.port = 0
      /\ b.priority = 0 /\ b.weight = 0 /\ b.enabled = TRUE
      /\ b.noCache = FALSE /\ b.status = None
    BY NoFields
<1> HIDE DEF b, strip, code, url
<1>6. d \in RouteDefs
    BY <1>1, <1>2, <1>4, <1>5 DEF RouteDefs
<1>7. /\ d.proto = proto /\ d.host = AnyHost /\ d.path = EmptyPath /\ d.port = 0
      /\ d.priority = 0 /\ d.weight = 0 /\ d.strip = strip /\ d.enabled = TRUE
      /\ d.code = code /\ d.url = url /\ d.noCache = FALSE /\ d.status = None
    BY <1>5 DEF RouteDefs
<1> QED
    BY <1>3, <1>6, <1>7 DEF strip, code, url

\* So are the definitions in a typed tag; there is at most one.
LEMMA ParseFabioTagType ==
    ASSUME NEW tag, TagTyped(tag)
    PROVE  ParseFabioTag(tag) \subseteq RouteDefs /\ IsFiniteSet(ParseFabioTag(tag))
<1> DEFINE proto == IF Get(tag, "protocol", "http") \in {"tcp", "https"} THEN tag.protocol
                    ELSE "http"
           route == Modified(tag, proto)
           tcp == [route EXCEPT !.port = tag.host.port]
           http == [route EXCEPT !.host = StripStandardPort(tag.host),
                                 !.path = Get(tag, "path", Root)]
<1>1. proto \in Protocols
    BY NamesAssumption DEF TagTyped, FieldsTyped, Get
<1>2. tag.host \in Hosts
    BY DEF TagTyped, FieldsTyped
<1>3. StripStandardPort(tag.host) \in Hosts /\ tag.host.port \in Int
    BY <1>2 DEF StripStandardPort, Hosts
<1>4. Get(tag, "path", Root) \in Int
    BY DEF TagTyped, FieldsTyped, Get, Root
<1>5. ParseFabioTag(tag) \in {{}, {tcp}, {http}}
    BY DEF ParseFabioTag
<1> HIDE DEF proto
<1>6. route \in RouteDefs
    BY <1>1, ModifiedRoute
<1> HIDE DEF route
<1>7. tcp \in RouteDefs /\ http \in RouteDefs
    BY <1>3, <1>4, <1>6 DEF RouteDefs
<1>8. IsFiniteSet({}) /\ IsFiniteSet({tcp}) /\ IsFiniteSet({http})
    BY FS_EmptySet, FS_Singleton
<1> HIDE DEF tcp, http
<1> QED
    BY <1>5, <1>7, <1>8

\* The values of a function on a finite set are finitely many.
LEMMA FiniteImage ==
    ASSUME NEW S, IsFiniteSet(S), NEW f
    PROVE  IsFiniteSet({f[x] : x \in S})
<1> DEFINE T == {f[x] : x \in S}
           g == [x \in S |-> f[x]]
<1>1. g \in Surjection(S, T)
    BY DEF Surjection
<1> QED
    BY <1>1, FS_Surjection

\* Every definition of an instance is typed.
LEMMA SourceType ==
    ASSUME NEW reg, RegistrationTyped(reg), NEW k \in DOMAIN Source(reg)
    PROVE  Source(reg)[k] \subseteq RouteDefs /\ IsFiniteSet(Source(reg)[k])
<1>1. CASE DOMAIN reg.indexed # {}
    <2>1. k \in DOMAIN reg.indexed /\ Source(reg)[k] = {ParseIndexedMeta(reg.indexed[k])}
        BY <1>1 DEF Source
    <2>2. ParseIndexedMeta(reg.indexed[k]) \in RouteDefs
        BY <2>1, ParseIndexedMetaType DEF RegistrationTyped
    <2> QED
        BY <2>1, <2>2, FS_Singleton
<1>2. CASE DOMAIN reg.indexed = {} /\ DOMAIN reg.plain # {}
    <2> DEFINE d == ParseNonIndexedMeta(reg.plain)
    <2>1. Source(reg) = <<{d}>>
        BY <1>2 DEF Source
    <2>2. d \in RouteDefs
        BY ParseNonIndexedMetaType DEF RegistrationTyped
    <2> HIDE DEF d
    <2>3. Source(reg)[k] = {d}
        BY <2>1
    <2> QED
        BY <2>2, <2>3, FS_Singleton
<1>3. CASE DOMAIN reg.indexed = {} /\ DOMAIN reg.plain = {}
    <2>1. k \in DOMAIN reg.fabio /\ Source(reg)[k] = ParseFabioTag(reg.fabio[k])
        BY <1>3 DEF Source
    <2> QED
        BY <2>1, ParseFabioTagType DEF RegistrationTyped
<1> QED
    BY <1>1, <1>2, <1>3

-----------------------------------------------------------------------------
(* Grouping.                                                                 *)

\* The type of what Consul knows.
Snapshots == [Instances -> Registered]

\* The routes of service s at turn t.
AtTurn(snap, s, t) == Extracted(snap, s, Turns[t][1], Turns[t][2])

LEMMA TurnType ==
    /\ Len(Turns) \in Nat /\ DOMAIN Turns = 1..Len(Turns)
    /\ \A t \in 1..Len(Turns) : Turns[t] \in Instances \X Nat /\ Turns[t][1] \in Instances
<1>1. Turns \in Seq(Instances \X Nat)
    BY TurnsAssumption
<1>2. \A t \in 1..Len(Turns) : Turns[t] \in Instances \X Nat
    BY <1>1
<1> QED
    BY <1>1, <1>2

\* What is extracted at a turn are routes of a live instance.
LEMMA ExtractedRoutes ==
    ASSUME NEW snap \in Snapshots, NEW s, NEW i, NEW k
    PROVE  /\ Extracted(snap, s, i, k) \subseteq RouteDefs
           /\ IsFiniteSet(Extracted(snap, s, i, k))
           /\ \A d \in Extracted(snap, s, i, k) :
                 i \in Live(snap, s) /\ Asks(snap[i], d)
           /\ i \in Live(snap, s) /\ k \in DOMAIN Source(snap[i]) =>
                 Extracted(snap, s, i, k) = Source(snap[i])[k]
<1>1. CASE i \in Live(snap, s) /\ k \in DOMAIN Source(snap[i])
    <2>1. Extracted(snap, s, i, k) = Source(snap[i])[k]
        BY <1>1 DEF Extracted
    <2>2. RegistrationTyped(snap[i])
        BY <1>1, RegistrationsAssumption DEF Live, Snapshots, Registered
    <2> QED
        BY <1>1, <2>1, <2>2, SourceType DEF Asks
<1>2. CASE ~(i \in Live(snap, s) /\ k \in DOMAIN Source(snap[i]))
    <2>1. Extracted(snap, s, i, k) = {}
        BY <1>2 DEF Extracted
    <2> QED
        BY <1>2, <2>1, FS_EmptySet
<1> QED
    BY <1>1, <1>2

\* Definitions with the same fields are the same.
LEMMA SameDef ==
    ASSUME NEW d \in RouteDefs, NEW e \in RouteDefs,
           d.proto = e.proto, d.host = e.host, d.path = e.path, d.port = e.port,
           d.priority = e.priority, d.weight = e.weight, d.strip = e.strip,
           d.enabled = e.enabled, d.code = e.code, d.url = e.url, d.noCache = e.noCache,
           d.status = e.status
    PROVE  d = e
BY DEF RouteDefs

\* A signature forgets nothing of a definition.
LEMMA SignatureIsDef ==
    ASSUME NEW d \in RouteDefs, NEW e \in RouteDefs, Signature(d) = Signature(e)
    PROVE  d = e
<1>1. /\ d.proto = e.proto /\ d.host = e.host /\ d.path = e.path /\ d.port = e.port
      /\ d.priority = e.priority /\ d.weight = e.weight /\ d.strip = e.strip
      /\ d.enabled = e.enabled /\ d.code = e.code /\ d.url = e.url /\ d.noCache = e.noCache
      /\ d.status = e.status
    BY Zenon DEF Signature
<1> QED
    BY <1>1, SameDef

\* What a round does to the groups: a group of one of the routes gets the instance, the
\* others stay, and a route without a group starts one.
Joined(g, i) == [g EXCEPT !.upstreams = @ \cup {i}]
Started(s, i, d) == [service |-> s, def |-> d, upstreams |-> {i}]

LEMMA AddToGroupsMembers ==
    ASSUME NEW groups \in SUBSET RouteRecords, NEW s, NEW i, NEW defs \in SUBSET RouteDefs
    PROVE  AddToGroups(groups, s, i, defs) =
               {IF g.def \in defs THEN Joined(g, i) ELSE g : g \in groups}
               \cup
               {Started(s, i, d) : d \in {e \in defs : \A g \in groups : g.def # e}}
<1> DEFINE Joins(d, g) == Signature(d) = Signature(g.def)
<1>1. \A g \in groups : g.def \in RouteDefs
    BY DEF RouteRecords
<1>2. \A d \in defs, g \in groups : Joins(d, g) <=> d = g.def
    BY <1>1, SignatureIsDef
<1>3. AddToGroups(groups, s, i, defs) =
          {IF \E d \in defs : Joins(d, g) THEN Joined(g, i) ELSE g : g \in groups}
          \cup
          {Started(s, i, d) : d \in {e \in defs : \A g \in groups : ~Joins(e, g)}}
    BY DEF AddToGroups, Joined, Started
<1> HIDE DEF Joins
<1>4. \A g \in groups : (\E d \in defs : Joins(d, g)) <=> g.def \in defs
    BY <1>2
<1>5. {e \in defs : \A g \in groups : ~Joins(e, g)} = {e \in defs : \A g \in groups : g.def # e}
    BY <1>2
<1>6. {IF \E d \in defs : Joins(d, g) THEN Joined(g, i) ELSE g : g \in groups} =
      {IF g.def \in defs THEN Joined(g, i) ELSE g : g \in groups}
    BY <1>4
<1> QED
    BY <1>3, <1>5, <1>6

\* A round leaves finitely many groups, all typed.
LEMMA AddToGroupsType ==
    ASSUME NEW groups \in SUBSET RouteRecords, NEW s \in Services, NEW i \in Instances,
           NEW defs \in SUBSET RouteDefs
    PROVE  /\ AddToGroups(groups, s, i, defs) \subseteq RouteRecords
           /\ IsFiniteSet(groups) /\ IsFiniteSet(defs) =>
                 IsFiniteSet(AddToGroups(groups, s, i, defs))
<1> DEFINE f == [g \in groups |-> IF g.def \in defs THEN Joined(g, i) ELSE g]
           fresh == {e \in defs : \A g \in groups : g.def # e}
           h == [d \in defs |-> Started(s, i, d)]
           old == {f[g] : g \in groups}
           new == {h[d] : d \in fresh}
<1>1. AddToGroups(groups, s, i, defs) = old \cup new
    <2>1. /\ old = {IF g.def \in defs THEN Joined(g, i) ELSE g : g \in groups}
          /\ new = {Started(s, i, d) : d \in fresh}
        OBVIOUS
    <2> HIDE DEF old, new
    <2> QED
        BY <2>1, AddToGroupsMembers
<1>2. \A g \in groups : f[g] \in RouteRecords
    BY DEF Joined, RouteRecords
<1>3. \A d \in fresh : h[d] \in RouteRecords
    BY DEF Started, RouteRecords
<1>4. fresh \in SUBSET defs
    OBVIOUS
<1> HIDE DEF f, fresh, h
<1>5. ASSUME IsFiniteSet(groups), IsFiniteSet(defs)
      PROVE  IsFiniteSet(AddToGroups(groups, s, i, defs))
    <2>1. IsFiniteSet(fresh)
        BY <1>4, <1>5, FS_Subset
    <2>2. IsFiniteSet(old) /\ IsFiniteSet(new)
        BY <1>5, <2>1, FiniteImage
    <2> HIDE DEF old, new
    <2> QED
        BY <1>1, <2>2, FS_Union
<1> QED
    BY <1>1, <1>2, <1>3, <1>5

\* The equations of Grouped.
LEMMA GroupedDef ==
    ASSUME NEW snap \in Snapshots, NEW s \in Services
    PROVE  /\ Grouped(snap, s)[0] = {}
           /\ \A t \in 1..Len(Turns) :
                 Grouped(snap, s)[t] =
                     AddToGroups(Grouped(snap, s)[t - 1], s, Turns[t][1], AtTurn(snap, s, t))
<1> DEFINE n == Len(Turns)
           V == SUBSET RouteRecords
           Next1(groups, t) == AddToGroups(groups, s, Turns[t][1], AtTurn(snap, s, t))
           step == [t \in 1..n |-> [groups \in V |-> Next1(groups, t)]]
           Def(f) == f = [t \in 0..n |-> IF t = 0 THEN {} ELSE Next1(f[t - 1], t)]
<1>1. n \in Nat /\ {} \in V
    BY TurnType
<1>2. ASSUME NEW t \in 1..n, NEW groups \in V PROVE Next1(groups, t) \in V
    <2>1. Turns[t][1] \in Instances /\ AtTurn(snap, s, t) \in SUBSET RouteDefs
        BY TurnType, ExtractedRoutes DEF AtTurn
    <2> QED
        BY <2>1, AddToGroupsType
<1>3. Grouped(snap, s) = CHOOSE g : Def(g)
    BY DEF Grouped, AtTurn
<1> HIDE DEF n, V, Next1
<1>4. step \in [1..n -> [V -> V]]
    BY <1>2
<1>5. PICK f \in [0..n -> V] : Follows(f, n, {}, step)
    <2> HIDE DEF step, Def
    <2> QED
        BY <1>1, <1>4, RangeRecursion
<1>6. Def(f)
    <2>1. f[0] = {} /\ \A t \in 1..n : f[t] = step[t][f[t - 1]]
        BY <1>5 DEF Follows
    <2>2. ASSUME NEW t \in 1..n PROVE f[t] = Next1(f[t - 1], t)
        <3>1. t - 1 \in 0..n
            BY <1>1
        <3>2. f[t - 1] \in V
            BY <1>5, <3>1
        <3> QED
            BY <2>1, <3>2
    <2>3. \A t \in 0..n : f[t] = IF t = 0 THEN {} ELSE Next1(f[t - 1], t)
        BY <2>1, <2>2
    <2> QED
        BY <2>3
<1> HIDE DEF Def
<1>7. Def(Grouped(snap, s))
    BY <1>3, <1>6
<1> DEFINE g == Grouped(snap, s)
<1> HIDE DEF g, step
<1>8. g = [t \in 0..n |-> IF t = 0 THEN {} ELSE Next1(g[t - 1], t)]
    BY <1>7 DEF Def, g
<1>9. \A t \in 0..n : g[t] = IF t = 0 THEN {} ELSE Next1(g[t - 1], t)
    BY ONLY <1>8, Zenon
<1>10. g[0] = {} /\ \A t \in 1..n : g[t] = Next1(g[t - 1], t)
    BY <1>1, <1>9
<1> QED
    BY <1>10 DEF g, n, Next1

\* The instances that had route d in one of the first t turns.
Askers(snap, s, t, d) == {Turns[u][1] : u \in {v \in 1..t : d \in AtTurn(snap, s, v)}}

\* After t turns the groups are those of the routes so far, each with the instances that
\* had it so far.
GroupsSoFar(snap, s, t, groups) ==
    /\ groups \subseteq RouteRecords /\ IsFiniteSet(groups)
    /\ \A g \in groups : /\ g.service = s
                         /\ \E u \in 1..t : g.def \in AtTurn(snap, s, u)
                         /\ g.upstreams = Askers(snap, s, t, g.def)
    /\ \A u \in 1..t : \A d \in AtTurn(snap, s, u) : \E g \in groups : g.def = d

\* The next round keeps it so.
LEMMA GroupsNext ==
    ASSUME NEW snap \in Snapshots, NEW s \in Services, NEW t \in Nat, t + 1 \in 1..Len(Turns),
           NEW groups, GroupsSoFar(snap, s, t, groups)
    PROVE  GroupsSoFar(snap, s, t + 1,
                       AddToGroups(groups, s, Turns[t + 1][1], AtTurn(snap, s, t + 1)))
<1> DEFINE i == Turns[t + 1][1]
           defs == AtTurn(snap, s, t + 1)
           next == AddToGroups(groups, s, i, defs)
<1>1. i \in Instances /\ defs \in SUBSET RouteDefs /\ IsFiniteSet(defs)
    BY TurnType, ExtractedRoutes DEF AtTurn
<1>2. groups \in SUBSET RouteRecords /\ IsFiniteSet(groups)
    BY DEF GroupsSoFar
<1>3. next = {IF g.def \in defs THEN Joined(g, i) ELSE g : g \in groups}
             \cup
             {Started(s, i, d) : d \in {e \in defs : \A g \in groups : g.def # e}}
    BY <1>1, <1>2, AddToGroupsMembers
<1>4. next \subseteq RouteRecords /\ IsFiniteSet(next)
    BY <1>1, <1>2, AddToGroupsType
<1>5. \A u \in 1..(t + 1) : u \in 1..t \/ u = t + 1
    OBVIOUS
<1>6. t + 1 \in 1..(t + 1) /\ \A u \in 1..t : u \in 1..(t + 1)
    OBVIOUS
<1>7. ASSUME NEW d
      PROVE  Askers(snap, s, t + 1, d) =
                 IF d \in defs THEN Askers(snap, s, t, d) \cup {i} ELSE Askers(snap, s, t, d)
    <2> DEFINE new == {v \in 1..(t + 1) : d \in AtTurn(snap, s, v)}
               old == {v \in 1..t : d \in AtTurn(snap, s, v)}
    <2>1. new = IF d \in defs THEN old \cup {t + 1} ELSE old
        BY <1>5, <1>6
    <2>2. Askers(snap, s, t + 1, d) = {Turns[u][1] : u \in new}
        BY DEF Askers
    <2>3. Askers(snap, s, t, d) = {Turns[u][1] : u \in old}
        BY DEF Askers
    <2> HIDE DEF old, new, defs
    <2> QED
        BY <2>1, <2>2, <2>3
<1>8. \A u \in 1..t : AtTurn(snap, s, u) \subseteq {g.def : g \in groups}
    BY DEF GroupsSoFar
<1> HIDE DEF i, next
<1>9. ASSUME NEW x \in next
      PROVE  /\ x.service = s
             /\ \E u \in 1..(t + 1) : x.def \in AtTurn(snap, s, u)
             /\ x.upstreams = Askers(snap, s, t + 1, x.def)
    <2>1. CASE \E g \in groups : x = IF g.def \in defs THEN Joined(g, i) ELSE g
        <3>1. PICK g \in groups : x = IF g.def \in defs THEN Joined(g, i) ELSE g
            BY <2>1
        <3>2. /\ g.service = s
              /\ \E u \in 1..t : g.def \in AtTurn(snap, s, u)
              /\ g.upstreams = Askers(snap, s, t, g.def)
            BY DEF GroupsSoFar
        <3>3. g \in RouteRecords
            BY <1>2
        <3> HIDE DEF defs
        <3>4. /\ x.service = g.service /\ x.def = g.def
              /\ x.upstreams = IF g.def \in defs THEN g.upstreams \cup {i} ELSE g.upstreams
            BY <3>1, <3>3 DEF Joined, RouteRecords
        <3>5. x.upstreams = Askers(snap, s, t + 1, g.def)
            BY <1>7, <3>2, <3>4
        <3> QED
            BY <1>6, <3>2, <3>4, <3>5
    <2>2. CASE \E d \in {e \in defs : \A g \in groups : g.def # e} : x = Started(s, i, d)
        <3>1. PICK d \in defs : (\A g \in groups : g.def # d) /\ x = Started(s, i, d)
            BY <2>2
        <3>2. x.service = s /\ x.def = d /\ x.upstreams = {i}
            BY <3>1 DEF Started
        <3>3. \A u \in 1..t : d \notin AtTurn(snap, s, u)
            BY <1>8, <3>1
        <3>4. Askers(snap, s, t, d) = {}
            BY <3>3 DEF Askers
        <3>5. Askers(snap, s, t + 1, d) = {i}
            BY <1>7, <3>1, <3>4
        <3> QED
            BY <1>6, <3>1, <3>2, <3>5
    <2> QED
        BY <1>3, <2>1, <2>2
<1>10. ASSUME NEW u \in 1..(t + 1), NEW d \in AtTurn(snap, s, u)
       PROVE  \E x \in next : x.def = d
    <2>1. CASE \E g \in groups : g.def = d
        <3>1. PICK g \in groups : g.def = d
            BY <2>1
        <3> DEFINE x == IF g.def \in defs THEN Joined(g, i) ELSE g
        <3>2. x \in next
            BY <1>3
        <3>3. g \in RouteRecords
            BY <1>2
        <3>4. x.def = d
            BY <3>1, <3>3 DEF Joined, RouteRecords
        <3> QED
            BY <3>2, <3>4
    <2>2. CASE \A g \in groups : g.def # d
        <3>1. u = t + 1
            BY <1>5, <1>8, <2>2
        <3>2. d \in defs
            BY <3>1
        <3>3. Started(s, i, d) \in next
            BY <1>3, <2>2, <3>2
        <3>4. Started(s, i, d).def = d
            BY DEF Started
        <3> QED
            BY <3>3, <3>4
    <2> QED
        BY <2>1, <2>2
<1>11. GroupsSoFar(snap, s, t + 1, next)
    BY <1>4, <1>9, <1>10 DEF GroupsSoFar
<1> QED
    BY <1>11 DEF next, i

\* So it is after every turn.
LEMMA GroupsAfterAll ==
    ASSUME NEW snap \in Snapshots, NEW s \in Services
    PROVE  GroupsSoFar(snap, s, Len(Turns), Grouped(snap, s)[Len(Turns)])
<1> DEFINE n == Len(Turns)
           g == Grouped(snap, s)
           S == {t \in 0..n : GroupsSoFar(snap, s, t, g[t])}
<1>1. n \in Nat
    BY TurnType
<1>2. /\ g[0] = {}
      /\ \A t \in 1..n : g[t] = AddToGroups(g[t - 1], s, Turns[t][1], AtTurn(snap, s, t))
    BY GroupedDef
<1> HIDE DEF g
<1>3. 0 \in S
    <2>1. GroupsSoFar(snap, s, 0, {})
        BY FS_EmptySet DEF GroupsSoFar
    <2>2. GroupsSoFar(snap, s, 0, g[0])
        BY <1>2, <2>1
    <2>3. 0 \in 0..n
        BY <1>1
    <2> QED
        BY <2>2, <2>3
<1>4. ASSUME NEW t \in 0..(n - 1), t \in S PROVE t + 1 \in S
    <2>1. t \in Nat /\ t + 1 \in 1..n /\ (t + 1) - 1 = t /\ t + 1 \in 0..n
        BY <1>1
    <2>2. g[t + 1] = AddToGroups(g[t], s, Turns[t + 1][1], AtTurn(snap, s, t + 1))
        BY <1>2, <2>1
    <2>3. GroupsSoFar(snap, s, t + 1, g[t + 1])
        BY <1>4, <2>1, <2>2, GroupsNext
    <2> QED
        BY <2>1, <2>3
<1> HIDE DEF n
<1>5. 0..n \subseteq S
    BY ONLY <1>1, <1>3, <1>4, RangeInduction
<1>6. n \in S
    BY <1>1, <1>5
<1> QED
    BY <1>6 DEF n, g

\* In the end the instances that had a route are those that ask for it.
LEMMA AskersAsk ==
    ASSUME NEW snap \in Snapshots, NEW s \in Services, NEW d
    PROVE  Askers(snap, s, Len(Turns), d) = {i \in Live(snap, s) : Asks(snap[i], d)}
<1> DEFINE n == Len(Turns)
<1>1. ASSUME NEW i \in Askers(snap, s, n, d) PROVE i \in Live(snap, s) /\ Asks(snap[i], d)
    <2>1. PICK u \in 1..n : d \in AtTurn(snap, s, u) /\ i = Turns[u][1]
        BY DEF Askers
    <2> QED
        BY <2>1, ExtractedRoutes DEF AtTurn
<1>2. ASSUME NEW i \in Live(snap, s), Asks(snap[i], d) PROVE i \in Askers(snap, s, n, d)
    <2>1. PICK k \in DOMAIN Source(snap[i]) : d \in Source(snap[i])[k]
        BY <1>2 DEF Asks
    <2>2. i \in Instances /\ snap[i] \in Registrations
        BY DEF Live, Snapshots, Registered
    <2>3. PICK t \in DOMAIN Turns : Turns[t] = <<i, k>>
        BY <2>2, TurnsAssumption
    <2>4. t \in 1..n /\ Turns[t][1] = i /\ Turns[t][2] = k
        BY <2>3, TurnType
    <2>5. d \in AtTurn(snap, s, t)
        BY <2>1, <2>4, ExtractedRoutes DEF AtTurn
    <2> QED
        BY <2>4, <2>5 DEF Askers
<1> QED
    BY <1>1, <1>2

\* A parsed route is a definition of an instance of its service, with those that have
\* this definition as its upstreams.
LEMMA ParsedRoute ==
    ASSUME NEW snap \in Snapshots, NEW r \in Parsed(snap)
    PROVE  /\ r \in RouteRecords
           /\ r.upstreams = {i \in Live(snap, r.service) : Asks(snap[i], r.def)}
<1>1. PICK s \in Services : r \in ParseServiceRoutes(snap, s)
    BY DEF Parsed
<1>2. r \in Grouped(snap, s)[Len(Turns)]
    BY <1>1 DEF ParseServiceRoutes
<1>3. r \in RouteRecords /\ r.service = s /\ r.upstreams = Askers(snap, s, Len(Turns), r.def)
    BY <1>2, GroupsAfterAll DEF GroupsSoFar
<1> QED
    BY <1>3, AskersAsk

\* Parsed routes are typed.
LEMMA ParsedType ==
    ASSUME NEW snap \in Snapshots
    PROVE  Parsed(snap) \subseteq RouteRecords
BY ParsedRoute

\* There are finitely many.
LEMMA ParsedFinite ==
    ASSUME NEW snap \in Snapshots
    PROVE  IsFiniteSet(Parsed(snap))
<1>1. ASSUME NEW s \in Services PROVE IsFiniteSet(ParseServiceRoutes(snap, s))
    <2> DEFINE groups == Grouped(snap, s)[Len(Turns)]
    <2>1. IsFiniteSet(groups)
        BY GroupsAfterAll DEF GroupsSoFar
    <2>2. ParseServiceRoutes(snap, s) \in SUBSET groups
        BY DEF ParseServiceRoutes
    <2> HIDE DEF groups
    <2> QED
        BY <2>1, <2>2, FS_Subset
<1> DEFINE g == [s \in Services |-> ParseServiceRoutes(snap, s)]
<1>2. Parsed(snap) = UNION {g[s] : s \in Services}
    BY DEF Parsed
<1>3. \A s \in Services : IsFiniteSet(g[s])
    BY <1>1
<1> HIDE DEF g
<1>4. IsFiniteSet({g[s] : s \in Services})
    BY ServicesAssumption, FiniteImage
<1>5. IsFiniteSet(UNION {g[s] : s \in Services})
    BY <1>3, <1>4, FS_UNION
<1> QED
    BY <1>2, <1>5

-----------------------------------------------------------------------------
(* The sort.                                                                 *)

\* The sequences that are one route longer.
Longer(routes, seqs) ==
    UNION {{Append(seq, r) : r \in FirstRanked(routes \ ToSet(seq))} : seq \in seqs}

\* The equations of SortedPrefixes.
LEMMA SortedPrefixesDef ==
    ASSUME NEW routes, IsFiniteSet(routes)
    PROVE  /\ Cardinality(routes) \in Nat
           /\ SortedPrefixes(routes)[0] = {<<>>}
           /\ \A n \in 1..Cardinality(routes) :
                 SortedPrefixes(routes)[n] = Longer(routes, SortedPrefixes(routes)[n - 1])
<1> DEFINE c == Cardinality(routes)
           V == SUBSET Seq(routes)
           step == [n \in 1..c |-> [seqs \in V |-> Longer(routes, seqs)]]
           Def(f) == f = [n \in 0..c |-> IF n = 0 THEN {<<>>} ELSE Longer(routes, f[n - 1])]
<1>1. c \in Nat
    BY FS_CardinalityType
<1> HIDE DEF c
<1>2. ASSUME NEW seqs \in V PROVE Longer(routes, seqs) \in V
    <2>1. ASSUME NEW seq \in seqs, NEW r \in FirstRanked(routes \ ToSet(seq))
          PROVE  Append(seq, r) \in Seq(routes)
        <3>1. seq \in Seq(routes) /\ r \in routes
            BY DEF FirstRanked
        <3> QED
            BY ONLY <3>1, AppendProperties
    <2>2. ASSUME NEW t \in Longer(routes, seqs) PROVE t \in Seq(routes)
        <3>1. PICK seq \in seqs : t \in {Append(seq, r) : r \in FirstRanked(routes \ ToSet(seq))}
            BY DEF Longer
        <3>2. PICK r \in FirstRanked(routes \ ToSet(seq)) : t = Append(seq, r)
            BY <3>1
        <3> QED
            BY <2>1, <3>2
    <2> QED
        BY <2>2
<1>3. step \in [1..c -> [V -> V]] /\ {<<>>} \in V
    BY <1>2
<1>4. PICK f \in [0..c -> V] : Follows(f, c, {<<>>}, step)
    <2> HIDE DEF step, V, Def
    <2> QED
        BY <1>1, <1>3, RangeRecursion
<1>5. Def(f)
    <2>1. f[0] = {<<>>} /\ \A n \in 1..c : f[n] = step[n][f[n - 1]]
        BY <1>4 DEF Follows
    <2>2. ASSUME NEW n \in 1..c PROVE f[n] = Longer(routes, f[n - 1])
        <3>1. n - 1 \in 0..c
            BY <1>1
        <3>2. f[n - 1] \in V
            BY <1>4, <3>1
        <3> HIDE DEF V
        <3> QED
            BY <2>1, <3>2
    <2>3. \A n \in 0..c : f[n] = IF n = 0 THEN {<<>>} ELSE Longer(routes, f[n - 1])
        BY <2>1, <2>2
    <2> QED
        BY <2>3
<1>6. SortedPrefixes(routes) = CHOOSE g : Def(g)
    BY DEF SortedPrefixes, Longer, c
<1> HIDE DEF Def
<1>7. Def(SortedPrefixes(routes))
    BY <1>5, <1>6
<1> DEFINE g == SortedPrefixes(routes)
<1> HIDE DEF g
<1>8. g = [n \in 0..c |-> IF n = 0 THEN {<<>>} ELSE Longer(routes, g[n - 1])]
    BY <1>7 DEF Def, g
<1> HIDE DEF step, V
<1>9. \A n \in 0..c : g[n] = IF n = 0 THEN {<<>>} ELSE Longer(routes, g[n - 1])
    BY ONLY <1>8, Zenon
<1>10. g[0] = {<<>>} /\ \A n \in 1..c : g[n] = Longer(routes, g[n - 1])
    BY <1>1, <1>9
<1> QED
    BY <1>1, <1>10 DEF g, c

\* seq is a sequence of different routes in the order of the sort: at no position is
\* there a route that would have to come before, among those that follow or are missing.
InOrder(routes, seq) ==
    /\ seq \in Seq(routes)
    /\ \A j, k \in 1..Len(seq) : j < k => seq[j] # seq[k]
    /\ \A k \in 1..Len(seq), q \in routes :
          (\A j \in 1..(k - 1) : seq[j] # q) => ~Before(q, seq[k])

\* What sort.Slice may return is in order, for any set of routes.
LEMMA SortedInOrder ==
    ASSUME NEW routes, IsFiniteSet(routes), NEW seq \in SortedSeqs(routes)
    PROVE  InOrder(routes, seq)
<1> DEFINE c == Cardinality(routes)
           p == SortedPrefixes(routes)
           S == {n \in 0..c : \A s \in p[n] : InOrder(routes, s)}
<1>1. c \in Nat /\ p[0] = {<<>>} /\ \A n \in 1..c : p[n] = Longer(routes, p[n - 1])
    BY SortedPrefixesDef
<1>2. seq \in p[c]
    BY DEF SortedSeqs
<1> HIDE DEF c, p
<1>3. 0 \in S
    <2>1. InOrder(routes, <<>>)
        BY DEF InOrder
    <2> QED
        BY <1>1, <2>1
<1>4. ASSUME NEW n \in 0..(c - 1), n \in S PROVE n + 1 \in S
    <2>1. n + 1 \in 1..c /\ (n + 1) - 1 = n
        BY <1>1
    <2>2. p[n + 1] = Longer(routes, p[n])
        BY <1>1, <2>1
    <2>3. ASSUME NEW s \in p[n], NEW r \in FirstRanked(routes \ ToSet(s))
          PROVE  InOrder(routes, Append(s, r))
        <3> DEFINE t == Append(s, r)
        <3>1. InOrder(routes, s)
            BY <1>4
        <3>2. s \in Seq(routes) /\ Len(s) \in Nat
            BY <3>1 DEF InOrder
        <3>3. /\ r \in routes /\ \A j \in 1..Len(s) : s[j] # r
              /\ \A q \in routes : (\A j \in 1..Len(s) : s[j] # q) => ~Before(q, r)
            BY <3>2 DEF FirstRanked, ToSet
        <3>4. /\ t \in Seq(routes) /\ Len(t) = Len(s) + 1 /\ t[Len(s) + 1] = r
              /\ \A j \in 1..Len(s) : t[j] = s[j]
            BY <3>2, <3>3
        <3> HIDE DEF t
        <3>5. ASSUME NEW j \in 1..Len(t), NEW k \in 1..Len(t), j < k PROVE t[j] # t[k]
            <4>1. CASE k = Len(s) + 1
                BY <3>2, <3>3, <3>4, <3>5, <4>1
            <4>2. CASE k \in 1..Len(s)
                <5>1. j \in 1..Len(s)
                    BY <3>2, <3>5, <4>2
                <5> QED
                    BY <3>1, <3>4, <3>5, <4>2, <5>1 DEF InOrder
            <4> QED
                BY <3>2, <3>4, <4>1, <4>2
        <3>6. ASSUME NEW k \in 1..Len(t), NEW q \in routes, \A j \in 1..(k - 1) : t[j] # q
              PROVE  ~Before(q, t[k])
            <4>1. CASE k = Len(s) + 1
                <5>1. \A j \in 1..Len(s) : s[j] # q
                    BY <3>2, <3>4, <3>6, <4>1
                <5> QED
                    BY <3>3, <3>4, <4>1, <5>1
            <4>2. CASE k \in 1..Len(s)
                <5>1. \A j \in 1..(k - 1) : s[j] # q
                    BY <3>2, <3>4, <3>6, <4>2
                <5> QED
                    BY <3>1, <3>4, <4>2, <5>1 DEF InOrder
            <4> QED
                BY <3>2, <3>4, <4>1, <4>2
        <3> QED
            BY <3>4, <3>5, <3>6 DEF InOrder, t
    <2>4. \A s \in p[n + 1] : InOrder(routes, s)
        BY <2>2, <2>3 DEF Longer
    <2> QED
        BY <1>1, <2>1, <2>4
<1>5. 0..c \subseteq S
    BY ONLY <1>1, <1>3, <1>4, RangeInduction
<1>6. c \in S
    BY <1>1, <1>5
<1> QED
    BY <1>2, <1>6

-----------------------------------------------------------------------------
(* Claims.                                                                   *)

\* The table after one more route.
WithNext(table, seq, k, protocols) ==
    IF Claims(seq, k, protocols) /\ Served(seq[k]) THEN Append(table, seq[k]) ELSE table

\* The equations of CompileRoutes.
LEMMA CompileRoutesDef ==
    ASSUME NEW S, NEW seq \in Seq(S), NEW protocols
    PROVE  /\ CompileRoutes(seq, protocols)[0] = <<>>
           /\ \A k \in 1..Len(seq) :
                 CompileRoutes(seq, protocols)[k] =
                     WithNext(CompileRoutes(seq, protocols)[k - 1], seq, k, protocols)
<1> DEFINE n == Len(seq)
           V == Seq(S)
           step == [k \in 1..n |-> [table \in V |-> WithNext(table, seq, k, protocols)]]
           Def(f) == f = [k \in 0..n |-> IF k = 0 THEN <<>>
                                         ELSE WithNext(f[k - 1], seq, k, protocols)]
<1>1. n \in Nat /\ \A k \in 1..n : seq[k] \in S
    OBVIOUS
<1> HIDE DEF n
<1>2. ASSUME NEW k \in 1..n, NEW table \in V PROVE WithNext(table, seq, k, protocols) \in V
    <2>1. Append(table, seq[k]) \in V
        BY <1>1, AppendProperties
    <2> QED
        BY <2>1 DEF WithNext
<1>3. step \in [1..n -> [V -> V]] /\ <<>> \in V
    BY <1>2
<1>4. PICK f \in [0..n -> V] : Follows(f, n, <<>>, step)
    <2> HIDE DEF step, V, Def
    <2> QED
        BY <1>1, <1>3, RangeRecursion
<1>5. Def(f)
    <2>1. f[0] = <<>> /\ \A k \in 1..n : f[k] = step[k][f[k - 1]]
        BY <1>4 DEF Follows
    <2>2. ASSUME NEW k \in 1..n PROVE f[k] = WithNext(f[k - 1], seq, k, protocols)
        <3>1. k - 1 \in 0..n
            BY <1>1
        <3>2. f[k - 1] \in V
            BY <1>4, <3>1
        <3> HIDE DEF V
        <3> QED
            BY <2>1, <3>2
    <2>3. \A k \in 0..n : f[k] = IF k = 0 THEN <<>> ELSE WithNext(f[k - 1], seq, k, protocols)
        BY <2>1, <2>2
    <2> QED
        BY <2>3
<1>6. CompileRoutes(seq, protocols) = CHOOSE g : Def(g)
    BY DEF CompileRoutes, WithNext, n
<1> HIDE DEF Def
<1>7. Def(CompileRoutes(seq, protocols))
    BY <1>5, <1>6
<1> DEFINE g == CompileRoutes(seq, protocols)
<1> HIDE DEF g, step, V
<1>8. g = [k \in 0..n |-> IF k = 0 THEN <<>> ELSE WithNext(g[k - 1], seq, k, protocols)]
    BY <1>7 DEF Def, g
<1>9. \A k \in 0..n : g[k] = IF k = 0 THEN <<>> ELSE WithNext(g[k - 1], seq, k, protocols)
    BY ONLY <1>8, Zenon
<1>10. g[0] = <<>> /\ \A k \in 1..n : g[k] = WithNext(g[k - 1], seq, k, protocols)
    BY <1>1, <1>9
<1> QED
    BY <1>10 DEF g, n

\* table holds, in the order of the sort, only routes among the first k that have
\* claimed their key and are served.
CompiledFrom(routes, seq, k, protocols, table) ==
    /\ table \in Seq(routes)
    /\ \A i \in 1..Len(table) : \E p \in 1..k :
          table[i] = seq[p] /\ Claims(seq, p, protocols) /\ Served(seq[p])
    /\ \A i, j \in 1..Len(table) : i < j => ~Before(table[j], table[i])

\* So does what the compiler makes of a sorted sequence.
LEMMA CompiledTable ==
    ASSUME NEW routes, NEW seq, InOrder(routes, seq), NEW protocols
    PROVE  CompiledFrom(routes, seq, Len(seq), protocols, CompileRoutes(seq, protocols)[Len(seq)])
<1> DEFINE n == Len(seq)
           c == CompileRoutes(seq, protocols)
           S == {k \in 0..n : CompiledFrom(routes, seq, k, protocols, c[k])}
<1>1. seq \in Seq(routes) /\ n \in Nat /\ \A k \in 1..n : seq[k] \in routes
    BY DEF InOrder
<1>2. c[0] = <<>> /\ \A k \in 1..n : c[k] = WithNext(c[k - 1], seq, k, protocols)
    BY <1>1, CompileRoutesDef
<1>3. \A p, k \in 1..n : p < k => ~Before(seq[k], seq[p])
    <2> SUFFICES ASSUME NEW p \in 1..n, NEW k \in 1..n, p < k PROVE ~Before(seq[k], seq[p])
        OBVIOUS
    <2>1. \A j \in 1..(p - 1) : seq[j] # seq[k]
        <3> SUFFICES ASSUME NEW j \in 1..(p - 1) PROVE seq[j] # seq[k]
            OBVIOUS
        <3>1. j \in 1..n /\ j < k
            BY <1>1
        <3> QED
            BY <3>1 DEF InOrder
    <2> QED
        BY <1>1, <2>1 DEF InOrder
<1> HIDE DEF n, c
<1>4. 0 \in S
    <2>1. CompiledFrom(routes, seq, 0, protocols, <<>>)
        BY DEF CompiledFrom
    <2> QED
        BY <1>1, <1>2, <2>1
<1>5. ASSUME NEW k \in 0..(n - 1), k \in S PROVE k + 1 \in S
    <2> DEFINE t == c[k]
               u == c[k + 1]
    <2>1. k + 1 \in 1..n /\ (k + 1) - 1 = k /\ k \in 0..n
        BY <1>1
    <2>2. u = WithNext(t, seq, k + 1, protocols)
        BY <1>2, <2>1
    <2>3. CompiledFrom(routes, seq, k, protocols, t)
        BY <1>5
    <2>4. t \in Seq(routes) /\ Len(t) \in Nat
        BY <2>3 DEF CompiledFrom
    <2> HIDE DEF t, u
    <2>5. \A i \in 1..Len(t) : \E p \in 1..(k + 1) :
              t[i] = seq[p] /\ Claims(seq, p, protocols) /\ Served(seq[p])
        <3>1. \A p \in 1..k : p \in 1..(k + 1)
            BY <2>1
        <3> QED
            BY <2>3, <3>1 DEF CompiledFrom
    <2>6. CASE Claims(seq, k + 1, protocols) /\ Served(seq[k + 1])
        <3>1. u = Append(t, seq[k + 1]) /\ seq[k + 1] \in routes
            BY <1>1, <2>1, <2>2, <2>6 DEF WithNext
        <3>2. /\ u \in Seq(routes) /\ Len(u) = Len(t) + 1 /\ u[Len(t) + 1] = seq[k + 1]
              /\ \A i \in 1..Len(t) : u[i] = t[i]
            BY <2>4, <3>1
        <3>3. ASSUME NEW i \in 1..Len(u)
              PROVE  \E p \in 1..(k + 1) :
                        u[i] = seq[p] /\ Claims(seq, p, protocols) /\ Served(seq[p])
            <4>1. CASE i = Len(t) + 1
                BY <2>1, <2>6, <3>2, <4>1
            <4>2. CASE i \in 1..Len(t)
                BY <2>5, <3>2, <4>2
            <4> QED
                BY <2>4, <3>2, <4>1, <4>2
        <3>4. ASSUME NEW i \in 1..Len(u), NEW j \in 1..Len(u), i < j PROVE ~Before(u[j], u[i])
            <4>1. i \in 1..Len(t)
                BY <2>4, <3>2, <3>4
            <4>2. CASE j = Len(t) + 1
                <5>1. PICK p \in 1..k : t[i] = seq[p]
                    BY <2>3, <4>1 DEF CompiledFrom
                <5>2. p \in 1..n /\ p < k + 1
                    BY <1>1, <2>1
                <5>3. ~Before(seq[k + 1], seq[p])
                    BY <1>3, <2>1, <5>2
                <5> QED
                    BY <3>2, <4>1, <4>2, <5>1, <5>3
            <4>3. CASE j \in 1..Len(t)
                BY <2>3, <3>2, <3>4, <4>1, <4>3 DEF CompiledFrom
            <4> QED
                BY <2>4, <3>2, <4>2, <4>3
        <3>5. CompiledFrom(routes, seq, k + 1, protocols, u)
            BY <3>2, <3>3, <3>4 DEF CompiledFrom
        <3> QED
            BY <2>1, <3>5, <1>1 DEF u
    <2>7. CASE ~(Claims(seq, k + 1, protocols) /\ Served(seq[k + 1]))
        <3>1. u = t
            BY <2>2, <2>7 DEF WithNext
        <3>2. CompiledFrom(routes, seq, k + 1, protocols, u)
            BY <2>3, <2>5, <3>1 DEF CompiledFrom
        <3> QED
            BY <2>1, <3>2, <1>1 DEF u
    <2> QED
        BY <2>6, <2>7
<1>6. 0..n \subseteq S
    BY ONLY <1>1, <1>4, <1>5, RangeInduction
<1>7. n \in S
    BY <1>1, <1>6
<1> QED
    BY <1>7 DEF n, c

-----------------------------------------------------------------------------
(* The second pass.                                                          *)

\* It changes nothing of a route but its upstreams, and those only to the sidecar's
\* entry or to nothing.
LEMMA ResolvedRoute ==
    ASSUME NEW r \in RouteRecords, NEW via
    PROVE  /\ Resolved(r, via) \in RouteRecords
           /\ Resolved(r, via).service = r.service /\ Resolved(r, via).def = r.def
           /\ Resolved(r, via).upstreams \subseteq {"sidecar"} \/ Resolved(r, via) = r
<1>1. Resolved(r, via) \in {r, [r EXCEPT !.upstreams = {"sidecar"}], [r EXCEPT !.upstreams = {}]}
    BY DEF Resolved, Redirects, RouteRecords, RouteDefs
<1> QED
    BY <1>1 DEF RouteRecords

\* A route the compiler gets is a resolved one.
LEMMA AllRoutesMember ==
    ASSUME NEW snap \in Snapshots, NEW via, NEW r \in AllRoutes(Parsed(snap), via)
    PROVE  \E q \in Parsed(snap) : q \in RouteRecords /\ r = Resolved(q, via)
BY ParsedType DEF AllRoutes, FilterTCPRoutesByNode

LEMMA AllRoutesType ==
    ASSUME NEW snap \in Snapshots, NEW via
    PROVE  AllRoutes(Parsed(snap), via) \subseteq RouteRecords
BY AllRoutesMember, ResolvedRoute

\* There are finitely many.
LEMMA AllRoutesFinite ==
    ASSUME NEW snap \in Snapshots, NEW via
    PROVE  IsFiniteSet(AllRoutes(Parsed(snap), via))
<1> DEFINE f == [q \in Parsed(snap) |-> Resolved(q, via)]
           T == {f[q] : q \in Parsed(snap)}
<1>1. AllRoutes(Parsed(snap), via) \in SUBSET T
    BY DEF AllRoutes, FilterTCPRoutesByNode
<1>2. IsFiniteSet(T)
    <2> HIDE DEF f
    <2> QED
        BY ParsedFinite, FiniteImage
<1> HIDE DEF T
<1> QED
    BY <1>1, <1>2, FS_Subset

\* Keys and ranks do not depend on upstreams.
LEMMA ResolvedKey ==
    ASSUME NEW q \in RouteRecords, NEW via, NEW r
    PROVE  /\ Key(Resolved(q, via)) = Key(q)
           /\ Before(Resolved(q, via), r) <=> Before(q, r)
BY ResolvedRoute DEF Key, Before, IsHTTP, IsTCP

-----------------------------------------------------------------------------
(* The invariant: the tables are compiled from the snapshot.                 *)

CompiledInv ==
    \E via \in SUBSET ConnectCandidates(Parsed(snapshot)) :
        \E seq \in SortedSeqs(AllRoutes(Parsed(snapshot), via)) :
            /\ httpTable = CompiledHTTP(seq)
            /\ tcpTable = CompiledTCP(seq)

IInv ==
    /\ config \in [node : BOOLEAN, serviceProxy : BOOLEAN]
    /\ snapshot \in Snapshots
    /\ (httpTable = <<>> /\ tcpTable = <<>>) \/ CompiledInv

\* Every converge compiles both tables anew, from the snapshot that caused it.
THEOREM InvHolds == Spec => []IInv
<1>1. Init => IInv
    BY DEF Init, IInv, Snapshots, Registered
<1>2. IInv /\ [Next]_vars => IInv'
    <2> SUFFICES ASSUME IInv, [Next]_vars PROVE IInv'
        OBVIOUS
    <2>1. config' = config /\ snapshot' \in Snapshots
        BY DEF IInv, Snapshots, Registered, Next, Change, vars
    <2>2. ASSUME OnServicesChanged(snapshot') PROVE CompiledInv'
        <3> DEFINE routes == Parsed(snapshot')
        <3>1. PICK via \in SUBSET ConnectCandidates(routes) :
                  \E seq \in SortedSeqs(AllRoutes(routes, via)) :
                      httpTable' = CompiledHTTP(seq) /\ tcpTable' = CompiledTCP(seq)
            BY <2>2 DEF OnServicesChanged
        <3>2. PICK seq \in SortedSeqs(AllRoutes(routes, via)) :
                  httpTable' = CompiledHTTP(seq) /\ tcpTable' = CompiledTCP(seq)
            BY <3>1
        <3>3. CompiledInv' = \E v \in SUBSET ConnectCandidates(Parsed(snapshot))' :
                  \E s \in SortedSeqs(AllRoutes(Parsed(snapshot), v))' :
                     httpTable' = CompiledHTTP(s) /\ tcpTable' = CompiledTCP(s)
            BY DEF CompiledInv
        <3>4. ConnectCandidates(Parsed(snapshot))' = ConnectCandidates(routes)
            BY <2>1 DEF ConnectCandidates
        <3>5. AllRoutes(Parsed(snapshot), via)' = AllRoutes(routes, via)
            BY <2>1 DEF AllRoutes, FilterTCPRoutesByNode, Resolved
        <3> QED
            BY <3>2, <3>3, <3>4, <3>5
    <2>3. CASE UNCHANGED vars
        <3>1. CompiledInv => OnServicesChanged(snapshot')
            BY <2>3 DEF CompiledInv, OnServicesChanged, vars
        <3>2. CompiledInv' \/ (httpTable' = <<>> /\ tcpTable' = <<>>)
            BY <2>2, <2>3, <3>1 DEF IInv, vars
        <3> QED
            BY <2>1, <3>2 DEF IInv
    <2>4. CASE \E i \in Instances : Change(i)
        BY <2>1, <2>2, <2>4 DEF Change, IInv
    <2> QED
        BY <2>3, <2>4 DEF Next
<1> QED
    BY <1>1, <1>2, PTL DEF Spec

\* Both tables are compiled from the same sorted routes.
LEMMA TablesCompiled ==
    ASSUME snapshot \in Snapshots, CompiledInv
    PROVE  \E via, seq :
              LET routes == AllRoutes(Parsed(snapshot), via)
              IN  /\ InOrder(routes, seq)
                  /\ CompiledFrom(routes, seq, Len(seq), HTTPProtocols, httpTable)
                  /\ CompiledFrom(routes, seq, Len(seq), TCPProtocols, tcpTable)
<1>1. PICK via \in SUBSET ConnectCandidates(Parsed(snapshot)) :
          \E seq \in SortedSeqs(AllRoutes(Parsed(snapshot), via)) :
              httpTable = CompiledHTTP(seq) /\ tcpTable = CompiledTCP(seq)
    BY DEF CompiledInv
<1> DEFINE routes == AllRoutes(Parsed(snapshot), via)
<1>2. PICK seq \in SortedSeqs(routes) :
          httpTable = CompiledHTTP(seq) /\ tcpTable = CompiledTCP(seq)
    BY <1>1
<1>3. IsFiniteSet(routes)
    BY AllRoutesFinite
<1> HIDE DEF routes
<1>4. InOrder(routes, seq)
    BY <1>2, <1>3, SortedInOrder
<1>5. /\ CompiledFrom(routes, seq, Len(seq), HTTPProtocols, httpTable)
      /\ CompiledFrom(routes, seq, Len(seq), TCPProtocols, tcpTable)
    BY <1>2, <1>4, CompiledTable DEF CompiledHTTP, CompiledTCP
<1> QED
    BY <1>4, <1>5 DEF routes

\* A route of a table has claimed its key, and is served.
LEMMA TableRoute ==
    ASSUME NEW routes, NEW seq, NEW protocols, NEW table,
           CompiledFrom(routes, seq, Len(seq), protocols, table), NEW r \in ToSet(table)
    PROVE  /\ r \in routes /\ r.def.proto \in protocols /\ Served(r)
           /\ \E p \in 1..Len(seq) : r = seq[p] /\ Claims(seq, p, protocols)
<1>1. PICK i \in 1..Len(table) : r = table[i]
    BY DEF ToSet, CompiledFrom
<1> QED
    BY <1>1 DEF CompiledFrom, Claims

-----------------------------------------------------------------------------
(* OwnUpstreams.                                                             *)

LEMMA OwnUpstreamsInv == IInv => OwnUpstreams
<1> SUFFICES ASSUME IInv, NEW r \in Installed
             PROVE  \/ r.upstreams \subseteq {"sidecar"}
                    \/ r.upstreams = {i \in Live(snapshot, r.service) : Asks(snapshot[i], r.def)}
    BY DEF OwnUpstreams
<1>1. snapshot \in Snapshots /\ CompiledInv
    BY DEF IInv, Installed, ToSet
<1>2. PICK via : r \in AllRoutes(Parsed(snapshot), via)
    BY <1>1, TablesCompiled, TableRoute DEF Installed
<1>3. PICK q \in Parsed(snapshot) : q \in RouteRecords /\ r = Resolved(q, via)
    BY <1>1, <1>2, AllRoutesMember
<1>4. r.upstreams \subseteq {"sidecar"} \/ r = q
    BY <1>3, ResolvedRoute
<1> QED
    BY <1>1, <1>4, ParsedRoute

\* A route leads to the sidecar, to nothing, or to exactly the healthy instances that
\* ask for it: the loop over instances and routes that groups them by signature never
\* mixes instances of one service with different metadata, and forgets none, whatever
\* the order of its turns.
THEOREM InstancesNotMixed == Spec => []OwnUpstreams
BY InvHolds, OwnUpstreamsInv, PTL

-----------------------------------------------------------------------------
(* FirstRankedOwnsKey.                                                       *)

\* A key tells which of the compilers it is for.
LEMMA KeyProtocol ==
    ASSUME NEW q, NEW r, Key(q) = Key(r)
    PROVE  (IsHTTP(q) <=> IsHTTP(r)) /\ (IsTCP(q) <=> IsTCP(r))
BY DEF Key, IsHTTP, IsTCP, HTTPProtocols, TCPProtocols

\* In one table no key is there twice, and no route is left that comes before the owner
\* of its key.
LEMMA TableKeys ==
    ASSUME NEW routes, NEW seq, InOrder(routes, seq),
           NEW protocols \in {HTTPProtocols, TCPProtocols}, NEW table,
           CompiledFrom(routes, seq, Len(seq), protocols, table), NEW r \in ToSet(table)
    PROVE  /\ \A q \in ToSet(table) : Key(q) = Key(r) => q = r
           /\ \A q \in routes : Key(q) = Key(r) => ~Before(q, r)
<1>1. PICK p \in 1..Len(seq) : r = seq[p] /\ Claims(seq, p, protocols)
    BY TableRoute
<1>2. r.def.proto \in protocols /\ Len(seq) \in Nat
    BY TableRoute DEF InOrder
<1>3. ASSUME NEW q \in ToSet(table), Key(q) = Key(r) PROVE q = r
    <2>1. PICK o \in 1..Len(seq) : q = seq[o] /\ Claims(seq, o, protocols)
        BY TableRoute
    <2>2. q.def.proto \in protocols
        BY TableRoute
    <2>3. ~(o < p)
        BY <1>1, <1>2, <1>3, <2>1, <2>2 DEF Claims
    <2>4. ~(p < o)
        BY <1>1, <1>2, <1>3, <2>1, <2>2 DEF Claims
    <2> QED
        BY <1>1, <1>2, <2>1, <2>3, <2>4
<1>4. ASSUME NEW q \in routes, Key(q) = Key(r) PROVE ~Before(q, r)
    <2>1. q.def.proto \in protocols
        BY <1>2, <1>4, KeyProtocol DEF IsHTTP, IsTCP
    <2>2. \A j \in 1..(p - 1) : seq[j] # q
        BY <1>1, <1>4, <2>1 DEF Claims
    <2> QED
        BY <1>1, <2>2 DEF InOrder
<1> QED
    BY <1>3, <1>4

LEMMA FirstRankedInv == IInv => FirstRankedOwnsKey
<1> SUFFICES ASSUME IInv, NEW r \in Installed
             PROVE  /\ \A q \in Installed : Key(q) = Key(r) => q = r
                    /\ IsHTTP(r) \/ ~config.node =>
                          ~\E q \in Parsed(snapshot) : Key(q) = Key(r) /\ Before(q, r)
    BY DEF FirstRankedOwnsKey
<1>1. snapshot \in Snapshots /\ CompiledInv
    BY DEF IInv, Installed, ToSet
<1> DEFINE RoutesVia(via) == AllRoutes(Parsed(snapshot), via)
<1>2. PICK via, seq :
          /\ InOrder(RoutesVia(via), seq)
          /\ CompiledFrom(RoutesVia(via), seq, Len(seq), HTTPProtocols, httpTable)
          /\ CompiledFrom(RoutesVia(via), seq, Len(seq), TCPProtocols, tcpTable)
    BY <1>1, TablesCompiled
<1> DEFINE routes == RoutesVia(via)
<1> HIDE DEF RoutesVia
<1>3. PICK protocols \in {HTTPProtocols, TCPProtocols}, table \in {httpTable, tcpTable} :
          r \in ToSet(table) /\ CompiledFrom(routes, seq, Len(seq), protocols, table)
    BY <1>2 DEF Installed
<1>4. \A q \in ToSet(table) : Key(q) = Key(r) => q = r
    BY <1>2, <1>3, TableKeys
<1>5. \A q \in routes : Key(q) = Key(r) => ~Before(q, r)
    BY <1>2, <1>3, TableKeys
<1>6. ASSUME NEW q \in Installed, Key(q) = Key(r) PROVE q = r
    <2>1. \A x \in ToSet(httpTable) : IsHTTP(x) /\ ~IsTCP(x)
        BY <1>2, TableRoute DEF IsHTTP, IsTCP, HTTPProtocols, TCPProtocols
    <2>2. \A x \in ToSet(tcpTable) : IsTCP(x) /\ ~IsHTTP(x)
        BY <1>2, TableRoute DEF IsHTTP, IsTCP, HTTPProtocols, TCPProtocols
    <2>3. q \in ToSet(table)
        BY <1>3, <1>6, <2>1, <2>2, KeyProtocol DEF Installed
    <2> QED
        BY <1>4, <1>6, <2>3
<1>7. ASSUME IsHTTP(r) \/ ~config.node, NEW q \in Parsed(snapshot),
             Key(q) = Key(r), Before(q, r)
      PROVE  FALSE
    <2>1. q \in RouteRecords
        BY <1>1, ParsedType
    <2>2. ~config.node \/ ~IsTCP(q)
        BY <1>7, KeyProtocol DEF IsHTTP, IsTCP, HTTPProtocols, TCPProtocols
    <2>3. IsTCP(Resolved(q, via)) <=> IsTCP(q)
        BY <2>1, ResolvedRoute DEF IsTCP
    <2>4. Resolved(q, via) \in routes
        BY <2>2, <2>3 DEF routes, RoutesVia, AllRoutes, FilterTCPRoutesByNode
    <2>5. Key(Resolved(q, via)) = Key(r) /\ Before(Resolved(q, via), r)
        BY <1>7, <2>1, ResolvedKey
    <2> QED
        BY <1>5, <2>4, <2>5
<1> QED
    BY <1>6, <1>7

\* A key has at most one route, and it is never one of a service that ranks behind
\* another that asks for this key with a healthy instance, not even while the sidecar of
\* that one is missing.
THEOREM KeyOwner == Spec => []FirstRankedOwnsKey
BY InvHolds, FirstRankedInv, PTL

-----------------------------------------------------------------------------
(* The matchers.                                                             *)

\* The tables hold served routes of their protocols, the HTTP table in the order of
\* the sort.
LEMMA TableFacts ==
    ASSUME IInv
    PROVE  /\ httpTable \in Seq(RouteRecords) /\ tcpTable \in Seq(RouteRecords)
           /\ \A r \in ToSet(httpTable) : Served(r)
           /\ \A r \in ToSet(tcpTable) : r.upstreams # {}
           /\ \A i, j \in 1..Len(httpTable) : i < j => ~Before(httpTable[j], httpTable[i])
<1>1. CASE httpTable = <<>> /\ tcpTable = <<>>
    BY <1>1 DEF ToSet
<1>2. CASE CompiledInv
    <2> DEFINE RoutesVia(via) == AllRoutes(Parsed(snapshot), via)
    <2>1. snapshot \in Snapshots
        BY DEF IInv
    <2>2. PICK via, seq :
              /\ InOrder(RoutesVia(via), seq)
              /\ CompiledFrom(RoutesVia(via), seq, Len(seq), HTTPProtocols, httpTable)
              /\ CompiledFrom(RoutesVia(via), seq, Len(seq), TCPProtocols, tcpTable)
        BY <1>2, <2>1, TablesCompiled
    <2> DEFINE routes == RoutesVia(via)
    <2>3. routes \subseteq RouteRecords
        BY <2>1, AllRoutesType
    <2> HIDE DEF RoutesVia
    <2>4. httpTable \in Seq(routes) /\ tcpTable \in Seq(routes)
        BY <2>2 DEF CompiledFrom
    <2> HIDE DEF routes
    <2>5. httpTable \in Seq(RouteRecords) /\ tcpTable \in Seq(RouteRecords)
        BY <2>3, <2>4
    <2>6. \A r \in ToSet(httpTable) : Served(r)
        BY <2>2, TableRoute
    <2>7. \A r \in ToSet(tcpTable) : r.upstreams # {}
        BY <2>2, TableRoute DEF Served, IsHTTP, HTTPProtocols, TCPProtocols
    <2>8. \A i, j \in 1..Len(httpTable) : i < j => ~Before(httpTable[j], httpTable[i])
        BY <2>2 DEF CompiledFrom
    <2> QED
        BY <2>5, <2>6, <2>7, <2>8
<1> QED
    BY <1>1, <1>2 DEF IInv

\* What one more route of the table makes of what is found.
NextFound(found, table, k, port, sni) ==
    IF table[k].def.port = port THEN TCPRound(found, table[k], sni) ELSE found

\* A route is not None, and its host is of one of three kinds.
LEMMA RouteKind ==
    ASSUME NEW r \in RouteRecords
    PROVE  r # None /\ r.def.host.kind \in {"any", "exact", "wild"}
<1>1. r.def \in RouteDefs
    BY DEF RouteRecords
<1>2. r.def.host \in Hosts
    BY <1>1 DEF RouteDefs
<1> QED
    BY <1>2, NoneAssumption DEF Hosts

\* The type of what is found.
Finds == [exact : RouteRecords \cup {None}, wildcard : RouteRecords \cup {None},
          dflt : RouteRecords \cup {None}]
NothingFound == [exact |-> None, wildcard |-> None, dflt |-> None]

\* What a round does with a route that counts, by the kind of its host.
LEMMA TCPRoundCases ==
    ASSUME NEW found \in Finds, NEW r \in RouteRecords, NEW sni
    PROVE  /\ TCPRound(found, r, sni) \in Finds
           /\ found.exact # None \/ ~Accepts(r, sni) => TCPRound(found, r, sni) = found
           /\ found.exact = None /\ Accepts(r, sni) =>
                 CASE r.def.host.kind = "exact" ->
                         TCPRound(found, r, sni) = [found EXCEPT !.exact = r]
                   [] r.def.host.kind = "wild" ->
                         TCPRound(found, r, sni) =
                             IF found.wildcard = None THEN [found EXCEPT !.wildcard = r] ELSE found
                   [] r.def.host.kind = "any" ->
                         TCPRound(found, r, sni) =
                             IF found.dflt = None THEN [found EXCEPT !.dflt = r] ELSE found
<1>1. r.def.host.kind \in {"any", "exact", "wild"}
    BY RouteKind
<1>2. /\ [found EXCEPT !.exact = r] \in Finds /\ [found EXCEPT !.wildcard = r] \in Finds
      /\ [found EXCEPT !.dflt = r] \in Finds
    BY DEF Finds
<1>3. Accepts(r, sni) \in BOOLEAN
    BY DEF Accepts
<1>4. CASE found.exact # None \/ ~Accepts(r, sni)
    <2>1. TCPRound(found, r, sni) = found
        BY <1>4 DEF TCPRound
    <2> QED
        BY <1>4, <2>1
<1>5. CASE found.exact = None /\ Accepts(r, sni)
    <2>1. CASE r.def.host.kind = "exact"
        BY <1>2, <1>5, <2>1 DEF TCPRound
    <2>2. CASE r.def.host.kind = "wild"
        BY <1>2, <1>5, <2>2 DEF TCPRound
    <2>3. CASE r.def.host.kind = "any"
        BY <1>2, <1>5, <2>3 DEF TCPRound
    <2> QED
        BY <1>1, <2>1, <2>2, <2>3
<1> QED
    BY <1>3, <1>4, <1>5

\* The equations of TCPFound.
LEMMA TCPFoundDef ==
    ASSUME NEW table \in Seq(RouteRecords), NEW port, NEW sni
    PROVE  /\ TCPFound(table, port, sni)[0] = NothingFound
           /\ \A k \in 1..Len(table) :
                 TCPFound(table, port, sni)[k] =
                     NextFound(TCPFound(table, port, sni)[k - 1], table, k, port, sni)
<1> DEFINE n == Len(table)
           V == Finds
           N(found, k) == NextFound(found, table, k, port, sni)
           step == [k \in 1..n |-> [found \in V |-> N(found, k)]]
           Def(f) == f = [k \in 0..n |-> IF k = 0 THEN NothingFound ELSE N(f[k - 1], k)]
<1>1. n \in Nat /\ \A k \in 1..n : table[k] \in RouteRecords
    OBVIOUS
<1>2. NothingFound \in V
    BY DEF Finds, NothingFound
<1>3. \A k \in 1..n, found \in V : N(found, k) \in V
    BY <1>1, TCPRoundCases DEF NextFound
<1>4. TCPFound(table, port, sni) = CHOOSE g : Def(g)
    BY DEF TCPFound, NextFound, NothingFound
<1> HIDE DEF n, V, N
<1>5. step \in [1..n -> [V -> V]]
    BY <1>3
<1>6. PICK f \in [0..n -> V] : Follows(f, n, NothingFound, step)
    <2> HIDE DEF step, Def
    <2> QED
        BY <1>1, <1>2, <1>5, RangeRecursion
<1>7. Def(f)
    <2>1. f[0] = NothingFound /\ \A k \in 1..n : f[k] = step[k][f[k - 1]]
        BY <1>6 DEF Follows
    <2>2. ASSUME NEW k \in 1..n PROVE f[k] = N(f[k - 1], k)
        <3>1. k - 1 \in 0..n
            BY <1>1
        <3>2. f[k - 1] \in V
            BY <1>6, <3>1
        <3> QED
            BY <2>1, <3>2
    <2>3. \A k \in 0..n : f[k] = IF k = 0 THEN NothingFound ELSE N(f[k - 1], k)
        BY <2>1, <2>2
    <2> QED
        BY <2>3
<1> HIDE DEF Def
<1>8. Def(TCPFound(table, port, sni))
    BY <1>4, <1>7
<1> DEFINE g == TCPFound(table, port, sni)
<1> HIDE DEF g, step
<1>9. g = [k \in 0..n |-> IF k = 0 THEN NothingFound ELSE N(g[k - 1], k)]
    BY <1>8 DEF Def, g
<1>10. \A k \in 0..n : g[k] = IF k = 0 THEN NothingFound ELSE N(g[k - 1], k)
    BY ONLY <1>9, Zenon
<1>11. g[0] = NothingFound /\ \A k \in 1..n : g[k] = N(g[k - 1], k)
    BY <1>1, <1>10
<1> QED
    BY <1>11 DEF g, n, N

\* The routes of this kind, among the first k, that accept the connection.
Eligible(r, port, sni, kind) ==
    r.def.port = port /\ Accepts(r, sni) /\ r.def.host.kind = kind
Candidates(table, k, port, sni, kind) ==
    {table[j] : j \in {i \in 1..k : Eligible(table[i], port, sni, kind)}}

\* Of each kind a candidate is found if there is one; once an exact one is found the rest
\* does not matter.
FoundSoFar(table, k, port, sni, found) ==
    LET C(kind) == Candidates(table, k, port, sni, kind)
    IN  /\ found \in Finds
        /\ found.exact \in C("exact") \cup {None}
        /\ found.wildcard \in C("wild") \cup {None}
        /\ found.dflt \in C("any") \cup {None}
        /\ found.exact = None => /\ C("exact") = {}
                                 /\ found.wildcard = None => C("wild") = {}
                                 /\ found.dflt = None => C("any") = {}

\* The next round keeps it so.
LEMMA FoundNext ==
    ASSUME NEW table \in Seq(RouteRecords), NEW k \in Nat, k + 1 \in 1..Len(table),
           NEW port, NEW sni, NEW found, FoundSoFar(table, k, port, sni, found)
    PROVE  FoundSoFar(table, k + 1, port, sni, NextFound(found, table, k + 1, port, sni))
<1> DEFINE r == table[k + 1]
           next == NextFound(found, table, k + 1, port, sni)
           C(kind) == Candidates(table, k, port, sni, kind)
           D(kind) == Candidates(table, k + 1, port, sni, kind)
           E(kind) == Eligible(r, port, sni, kind)
<1>1. r \in RouteRecords /\ r # None /\ r.def.host.kind \in {"any", "exact", "wild"}
    <2>1. r \in RouteRecords
        OBVIOUS
    <2> QED
        BY <2>1, RouteKind
<1>2. ASSUME NEW kind PROVE D(kind) = IF E(kind) THEN C(kind) \cup {r} ELSE C(kind)
    <2> DEFINE new == {i \in 1..(k + 1) : Eligible(table[i], port, sni, kind)}
               old == {i \in 1..k : Eligible(table[i], port, sni, kind)}
    <2>1. new = IF E(kind) THEN old \cup {k + 1} ELSE old
        OBVIOUS
    <2>2. D(kind) = {table[i] : i \in new} /\ C(kind) = {table[i] : i \in old}
        BY DEF Candidates
    <2> HIDE DEF old, new, C, D, E
    <2> QED
        BY <2>1, <2>2
<1>3. /\ found \in Finds
      /\ found.exact \in C("exact") \cup {None}
      /\ found.wildcard \in C("wild") \cup {None}
      /\ found.dflt \in C("any") \cup {None}
      /\ found.exact = None => /\ C("exact") = {}
                               /\ found.wildcard = None => C("wild") = {}
                               /\ found.dflt = None => C("any") = {}
    BY DEF FoundSoFar
<1>4. next = IF r.def.port = port THEN TCPRound(found, r, sni) ELSE found
    BY DEF NextFound
<1>5. \A kind : E(kind) <=> r.def.port = port /\ Accepts(r, sni) /\ r.def.host.kind = kind
    BY DEF Eligible
<1> SUFFICES /\ next \in Finds
             /\ next.exact \in D("exact") \cup {None}
             /\ next.wildcard \in D("wild") \cup {None}
             /\ next.dflt \in D("any") \cup {None}
             /\ next.exact = None => /\ D("exact") = {}
                                     /\ next.wildcard = None => D("wild") = {}
                                     /\ next.dflt = None => D("any") = {}
    BY DEF FoundSoFar
<1> HIDE DEF r, next, C, D, E
<1>6. CASE ~(r.def.port = port /\ Accepts(r, sni))
    <2>1. next = found
        BY <1>1, <1>3, <1>4, <1>6, TCPRoundCases
    <2>2. \A kind : ~E(kind)
        BY <1>5, <1>6
    <2>3. \A kind : D(kind) = C(kind)
        BY <1>2, <2>2
    <2> QED
        BY <1>3, <2>1, <2>3
<1>7. CASE r.def.port = port /\ Accepts(r, sni) /\ found.exact # None
    <2>1. next = found
        BY <1>1, <1>3, <1>4, <1>7, TCPRoundCases
    <2>2. \A kind : C(kind) \subseteq D(kind)
        BY <1>2
    <2> QED
        BY <1>3, <1>7, <2>1, <2>2
<1>8. CASE r.def.port = port /\ Accepts(r, sni) /\ found.exact = None
    <2>1. next = TCPRound(found, r, sni)
        BY <1>4, <1>8
    <2>2. CASE r.def.host.kind = "exact"
        <3>1. next = [found EXCEPT !.exact = r] /\ next \in Finds
            BY <1>1, <1>3, <1>8, <2>1, <2>2, TCPRoundCases
        <3>2. next.exact = r /\ next.wildcard = found.wildcard /\ next.dflt = found.dflt
            BY <1>3, <3>1 DEF Finds
        <3>3. D("exact") = C("exact") \cup {r} /\ D("wild") = C("wild") /\ D("any") = C("any")
            BY <1>2, <1>5, <1>8, <2>2
        <3> QED
            BY <1>1, <1>3, <3>1, <3>2, <3>3
    <2>3. CASE r.def.host.kind = "wild"
        <3>1. /\ next = IF found.wildcard = None THEN [found EXCEPT !.wildcard = r] ELSE found
              /\ next \in Finds
            BY <1>1, <1>3, <1>8, <2>1, <2>3, TCPRoundCases
        <3>2. /\ next.exact = found.exact /\ next.dflt = found.dflt
              /\ next.wildcard = IF found.wildcard = None THEN r ELSE found.wildcard
            BY <1>3, <3>1 DEF Finds
        <3>3. D("exact") = C("exact") /\ D("wild") = C("wild") \cup {r} /\ D("any") = C("any")
            BY <1>2, <1>5, <1>8, <2>3
        <3> QED
            BY <1>1, <1>3, <3>1, <3>2, <3>3
    <2>4. CASE r.def.host.kind = "any"
        <3>1. /\ next = IF found.dflt = None THEN [found EXCEPT !.dflt = r] ELSE found
              /\ next \in Finds
            BY <1>1, <1>3, <1>8, <2>1, <2>4, TCPRoundCases
        <3>2. /\ next.exact = found.exact /\ next.wildcard = found.wildcard
              /\ next.dflt = IF found.dflt = None THEN r ELSE found.dflt
            BY <1>3, <3>1 DEF Finds
        <3>3. D("exact") = C("exact") /\ D("wild") = C("wild") /\ D("any") = C("any") \cup {r}
            BY <1>2, <1>5, <1>8, <2>4
        <3> QED
            BY <1>1, <1>3, <3>1, <3>2, <3>3
    <2> QED
        BY <1>1, <2>2, <2>3, <2>4
<1> QED
    BY <1>6, <1>7, <1>8

\* So it is at the end of the loop.
LEMMA FoundAtEnd ==
    ASSUME NEW table \in Seq(RouteRecords), NEW port, NEW sni
    PROVE  FoundSoFar(table, Len(table), port, sni, TCPFound(table, port, sni)[Len(table)])
<1> DEFINE n == Len(table)
           f == TCPFound(table, port, sni)
           S == {k \in 0..n : FoundSoFar(table, k, port, sni, f[k])}
<1>1. n \in Nat
    OBVIOUS
<1>2. f[0] = NothingFound /\ \A k \in 1..n : f[k] = NextFound(f[k - 1], table, k, port, sni)
    BY TCPFoundDef
<1> HIDE DEF f
<1>3. 0 \in S
    <2>1. NothingFound \in Finds
        BY DEF NothingFound, Finds
    <2>2. /\ NothingFound.exact = None /\ NothingFound.wildcard = None
          /\ NothingFound.dflt = None
        BY DEF NothingFound
    <2>3. \A kind : Candidates(table, 0, port, sni, kind) = {}
        BY DEF Candidates
    <2>4. FoundSoFar(table, 0, port, sni, NothingFound)
        BY <2>1, <2>2, <2>3 DEF FoundSoFar
    <2>5. 0 \in 0..n
        BY <1>1
    <2> QED
        BY <1>2, <2>4, <2>5
<1>4. ASSUME NEW k \in 0..(n - 1), k \in S PROVE k + 1 \in S
    <2>1. k \in Nat /\ k + 1 \in 1..n /\ (k + 1) - 1 = k /\ k + 1 \in 0..n
        BY <1>1
    <2>2. f[k + 1] = NextFound(f[k], table, k + 1, port, sni)
        BY <1>2, <2>1
    <2>3. FoundSoFar(table, k + 1, port, sni, f[k + 1])
        BY <1>4, <2>1, <2>2, FoundNext
    <2> QED
        BY <2>1, <2>3
<1> HIDE DEF n
<1>5. 0..n \subseteq S
    BY ONLY <1>1, <1>3, <1>4, RangeInduction
<1>6. n \in S
    BY <1>1, <1>5
<1> QED
    BY <1>6 DEF n, f

\* The route of a connection, for any table of routes.
LEMMA TCPMatchFinds ==
    ASSUME NEW table \in Seq(RouteRecords), NEW port, NEW sni
    PROVE  LET found == TCPMatch(table, port, sni)
               matching == {r \in ToSet(table) : r.def.port = port /\ Accepts(r, sni)}
           IN  IF matching = {} THEN found = None
               ELSE found \in matching /\ \A r \in matching : TCPRank(found) <= TCPRank(r)
<1> DEFINE n == Len(table)
           found == TCPMatch(table, port, sni)
           matching == {r \in ToSet(table) : r.def.port = port /\ Accepts(r, sni)}
           ks == OfPort(table, port)
           loop == TCPFound(table, port, sni)[n]
           C(kind) == Candidates(table, n, port, sni, kind)
           Kinds == {"any", "exact", "wild"}
<1>1. n \in Nat /\ DOMAIN table = 1..n /\ \A k \in 1..n : table[k] \in RouteRecords
    OBVIOUS
<1>2. ToSet(table) = {table[k] : k \in 1..n}
    BY <1>1 DEF ToSet
<1>3. \A r \in matching : r \in RouteRecords /\ r # None /\ r.def.host.kind \in Kinds
    <2>1. \A r \in matching : r \in RouteRecords
        BY <1>1, <1>2
    <2> QED
        BY <2>1, RouteKind
<1>4. found = IF \A k \in ks : table[k].def.host = AnyHost
              THEN IF ks = {} THEN None ELSE table[Min(ks)]
              ELSE CASE loop.exact # None -> loop.exact
                     [] loop.exact = None /\ loop.wildcard # None -> loop.wildcard
                     [] loop.exact = None /\ loop.wildcard = None -> loop.dflt
    BY DEF TCPMatch
<1>5. ks \subseteq 1..n /\ \A k \in ks : table[k].def.port = port
    BY <1>1 DEF OfPort
<1>6. \A r \in matching : \E k \in ks : r = table[k]
    BY <1>1, <1>2 DEF OfPort
<1>7. FoundSoFar(table, n, port, sni, loop)
    BY FoundAtEnd
<1>8. \A r \in matching : \A kind \in Kinds : r.def.host.kind = kind => r \in C(kind)
    BY <1>2 DEF Candidates, Eligible
<1>9. \A kind \in Kinds : \A r \in C(kind) : r \in matching /\ r.def.host.kind = kind
    BY <1>2 DEF Candidates, Eligible
<1> HIDE DEF n, found, matching, ks, loop, C
<1>10. CASE \A k \in ks : table[k].def.host = AnyHost
    <2>1. \A k \in ks : table[k] \in matching
        <3> SUFFICES ASSUME NEW k \in ks PROVE table[k] \in matching
            OBVIOUS
        <3>1. table[k].def.host = AnyHost
            BY <1>10
        <3>2. AnyHost.kind = "any" /\ AnyHost.port = 0
            BY DEF AnyHost
        <3>3. Accepts(table[k], sni)
            BY <3>1, <3>2 DEF Accepts, HasPort, MatchHost
        <3> QED
            BY <1>2, <1>5, <3>3 DEF matching
    <2>2. \A r \in matching : TCPRank(r) = 3
        <3>1. AnyHost.kind = "any"
            BY DEF AnyHost
        <3>2. \A r \in matching : r.def.host = AnyHost
            BY <1>6, <1>10
        <3> QED
            BY <3>1, <3>2 DEF TCPRank
    <2>3. CASE ks = {}
        <3>1. matching = {} /\ found = None
            BY <1>4, <1>6, <1>10, <2>3
        <3> QED
            BY <3>1 DEF found, matching
    <2>4. CASE ks # {}
        <3>1. Min(ks) \in ks
            BY <1>1, <1>5, <2>4, MinOfPositions
        <3>2. found = table[Min(ks)]
            BY <1>4, <1>10, <2>4
        <3>3. found \in matching
            BY <2>1, <3>1, <3>2
        <3>4. \A r \in matching : TCPRank(found) <= TCPRank(r)
            BY <2>2, <3>3
        <3> QED
            BY <3>3, <3>4 DEF found, matching
    <2> QED
        BY <2>3, <2>4
<1>11. CASE ~(\A k \in ks : table[k].def.host = AnyHost)
    <2>1. /\ loop.exact \in C("exact") \cup {None}
          /\ loop.wildcard \in C("wild") \cup {None}
          /\ loop.dflt \in C("any") \cup {None}
          /\ loop.exact = None => /\ C("exact") = {}
                                  /\ loop.wildcard = None => C("wild") = {}
                                  /\ loop.dflt = None => C("any") = {}
        BY <1>7 DEF FoundSoFar, C
    <2>2. CASE loop.exact # None
        <3>1. found \in matching /\ found.def.host.kind = "exact"
            BY <1>4, <1>9, <1>11, <2>1, <2>2
        <3>2. \A r \in matching : TCPRank(found) <= TCPRank(r)
            BY <1>3, <3>1 DEF TCPRank
        <3> QED
            BY <3>1, <3>2 DEF found, matching
    <2>3. CASE loop.exact = None /\ loop.wildcard # None
        <3>1. found \in matching /\ found.def.host.kind = "wild"
            BY <1>4, <1>9, <1>11, <2>1, <2>3
        <3>2. \A r \in matching : r.def.host.kind \in {"wild", "any"}
            BY <1>3, <1>8, <2>1, <2>3
        <3>3. \A r \in matching : TCPRank(found) <= TCPRank(r)
            BY <3>1, <3>2 DEF TCPRank
        <3> QED
            BY <3>1, <3>3 DEF found, matching
    <2>4. CASE loop.exact = None /\ loop.wildcard = None /\ loop.dflt # None
        <3>1. found \in matching /\ found.def.host.kind = "any"
            BY <1>4, <1>9, <1>11, <2>1, <2>4
        <3>2. \A r \in matching : r.def.host.kind = "any"
            BY <1>3, <1>8, <2>1, <2>4
        <3>3. \A r \in matching : TCPRank(found) <= TCPRank(r)
            BY <3>1, <3>2 DEF TCPRank
        <3> QED
            BY <3>1, <3>3 DEF found, matching
    <2>5. CASE loop.exact = None /\ loop.wildcard = None /\ loop.dflt = None
        <3>1. found = None
            BY <1>4, <1>11, <2>5
        <3>2. matching = {}
            BY <1>3, <1>8, <2>1, <2>5
        <3> QED
            BY <3>1, <3>2 DEF found, matching
    <2> QED
        BY <2>2, <2>3, <2>4, <2>5
<1> QED
    BY <1>10, <1>11

\* A connection finds a route of its port that accepts its server name if there is one:
\* the loop over the routes of the port finds an exact one, else a wildcard, else the
\* default, wherever they are in the table, and so does the short cut for ports without
\* any SNI route.
THEOREM SNIPrecedence == Spec => []TCPMatchIsBest
<1>1. IInv => TCPMatchIsBest
    BY TableFacts, TCPMatchFinds DEF TCPMatchIsBest
<1> QED
    BY <1>1, InvHolds, PTL

\* What one more route makes of the best match.
NextBest(best, table, k, req) ==
    IF Matches(table[k], req) /\ (best = None \/ Better(table[k], best))
    THEN table[k] ELSE best

\* The equations of BestOfFirst.
LEMMA BestOfFirstDef ==
    ASSUME NEW table \in Seq(RouteRecords), NEW req
    PROVE  /\ BestOfFirst(table, req)[0] = None
           /\ \A k \in 1..Len(table) :
                 BestOfFirst(table, req)[k] = NextBest(BestOfFirst(table, req)[k - 1], table, k, req)
<1> DEFINE n == Len(table)
           V == RouteRecords \cup {None}
           step == [k \in 1..n |-> [best \in V |-> NextBest(best, table, k, req)]]
           Def(f) == f = [k \in 0..n |-> IF k = 0 THEN None ELSE NextBest(f[k - 1], table, k, req)]
<1>1. n \in Nat /\ \A k \in 1..n : table[k] \in V
    OBVIOUS
<1>2. None \in V
    OBVIOUS
<1> HIDE DEF n, V
<1>3. step \in [1..n -> [V -> V]]
    BY <1>1 DEF NextBest
<1>4. PICK f \in [0..n -> V] : Follows(f, n, None, step)
    <2> HIDE DEF step, Def
    <2> QED
        BY <1>1, <1>2, <1>3, RangeRecursion
<1>5. Def(f)
    <2>1. f[0] = None /\ \A k \in 1..n : f[k] = step[k][f[k - 1]]
        BY <1>4 DEF Follows
    <2>2. ASSUME NEW k \in 1..n PROVE f[k] = NextBest(f[k - 1], table, k, req)
        <3>1. k - 1 \in 0..n
            BY <1>1
        <3>2. f[k - 1] \in V
            BY <1>4, <3>1
        <3> QED
            BY <2>1, <3>2
    <2>3. \A k \in 0..n : f[k] = IF k = 0 THEN None ELSE NextBest(f[k - 1], table, k, req)
        BY <2>1, <2>2
    <2> QED
        BY <2>3
<1>6. BestOfFirst(table, req) = CHOOSE g : Def(g)
    BY DEF BestOfFirst, NextBest, n
<1> HIDE DEF Def
<1>7. Def(BestOfFirst(table, req))
    BY <1>5, <1>6
<1> DEFINE g == BestOfFirst(table, req)
<1> HIDE DEF g, step
<1>8. g = [k \in 0..n |-> IF k = 0 THEN None ELSE NextBest(g[k - 1], table, k, req)]
    BY <1>7 DEF Def, g
<1>9. \A k \in 0..n : g[k] = IF k = 0 THEN None ELSE NextBest(g[k - 1], table, k, req)
    BY ONLY <1>8, Zenon
<1>10. g[0] = None /\ \A k \in 1..n : g[k] = NextBest(g[k - 1], table, k, req)
    BY <1>1, <1>9
<1> QED
    BY <1>10 DEF g, n

\* Better is a strict order in which routes that are not ordered are equally good.
LEMMA BetterOrder ==
    ASSUME NEW q \in RouteRecords, NEW r \in RouteRecords, NEW s \in RouteRecords
    PROVE  /\ ~Better(r, r)
           /\ Better(q, r) => ~Better(r, q)
           /\ Better(q, r) /\ ~Better(s, r) => Better(q, s)
<1>1. \A x \in RouteRecords : PathLen(x.def.path) \in Int /\ HasPort(x) \in BOOLEAN
    BY DEF PathLen, Root, RouteRecords, RouteDefs, HasPort
<1> QED
    BY <1>1 DEF Better

\* best is, of the first k routes, the first of the best that match.
BestAmong(table, k, req, best) ==
    \/ best = None /\ \A j \in 1..k : ~Matches(table[j], req)
    \/ \E i \in 1..k :
          /\ best = table[i] /\ Matches(table[i], req)
          /\ \A j \in 1..k : Matches(table[j], req) =>
                ~Better(table[j], table[i]) /\ (j < i => Better(table[i], table[j]))

\* So is what Match finds among all of them.
LEMMA MatchFinds ==
    ASSUME NEW table \in Seq(RouteRecords), NEW req
    PROVE  BestAmong(table, Len(table), req, Match(table, req))
<1> DEFINE n == Len(table)
           b == BestOfFirst(table, req)
           S == {k \in 0..n : BestAmong(table, k, req, b[k])}
<1>1. n \in Nat /\ \A k \in 1..n : table[k] \in RouteRecords
    OBVIOUS
<1>2. b[0] = None /\ \A k \in 1..n : b[k] = NextBest(b[k - 1], table, k, req)
    BY BestOfFirstDef
<1>3. Match(table, req) = b[n]
    BY DEF Match
<1> HIDE DEF n, b
<1>4. 0 \in S
    BY <1>1, <1>2 DEF BestAmong
<1>5. ASSUME NEW k \in 0..(n - 1), k \in S PROVE k + 1 \in S
    <2> DEFINE old == b[k]
               new == b[k + 1]
               next == table[k + 1]
    <2>1. k + 1 \in 1..n /\ (k + 1) - 1 = k /\ k \in Nat /\ k + 1 \in 0..n
        BY <1>1
    <2>2. new = NextBest(old, table, k + 1, req)
        BY <1>2, <2>1
    <2>3. BestAmong(table, k, req, old)
        BY <1>5
    <2>4. \A j \in 1..(k + 1) : j \in 1..k \/ j = k + 1
        BY <2>1
    <2>5. next \in RouteRecords /\ \A j \in 1..k : table[j] \in RouteRecords
        BY <1>1, <2>1
    <2> SUFFICES BestAmong(table, k + 1, req, new)
        BY <2>1
    <2> HIDE DEF old, new
    <2>6. CASE ~Matches(next, req)
        <3>1. new = old
            BY <2>2, <2>6 DEF NextBest
        <3>2. CASE old = None /\ \A j \in 1..k : ~Matches(table[j], req)
            BY <2>4, <2>6, <3>1, <3>2 DEF BestAmong
        <3>3. CASE ~(old = None /\ \A j \in 1..k : ~Matches(table[j], req))
            <4>1. PICK i \in 1..k :
                      /\ old = table[i] /\ Matches(table[i], req)
                      /\ \A j \in 1..k : Matches(table[j], req) =>
                            ~Better(table[j], table[i]) /\ (j < i => Better(table[i], table[j]))
                BY <2>3, <3>3 DEF BestAmong
            <4>2. i \in 1..(k + 1)
                BY <2>1
            <4> QED
                BY <2>4, <2>6, <3>1, <4>1, <4>2 DEF BestAmong
        <3> QED
            BY <3>2, <3>3
    <2>7. CASE Matches(next, req)
        <3>1. CASE old = None /\ \A j \in 1..k : ~Matches(table[j], req)
            <4>1. new = next
                BY <2>2, <2>7, <3>1 DEF NextBest
            <4>2. ~Better(next, next)
                BY <2>5, BetterOrder
            <4>3. \A j \in 1..(k + 1) : Matches(table[j], req) =>
                      ~Better(table[j], next) /\ (j < k + 1 => Better(next, table[j]))
                BY <2>1, <2>4, <3>1, <4>2
            <4>4. k + 1 \in 1..(k + 1)
                BY <2>1
            <4> QED
                BY <2>7, <4>1, <4>3, <4>4 DEF BestAmong
        <3>2. CASE ~(old = None /\ \A j \in 1..k : ~Matches(table[j], req))
            <4>1. PICK i \in 1..k :
                      /\ old = table[i] /\ Matches(table[i], req)
                      /\ \A j \in 1..k : Matches(table[j], req) =>
                            ~Better(table[j], table[i]) /\ (j < i => Better(table[i], table[j]))
                BY <2>3, <3>2 DEF BestAmong
            <4>2. i \in 1..(k + 1) /\ k + 1 \in 1..(k + 1) /\ i < k + 1
                BY <2>1
            <4>3. table[i] \in RouteRecords /\ old # None
                BY <2>5, <4>1, NoneAssumption
            <4>4. CASE Better(next, old)
                <5>1. new = next
                    BY <2>2, <2>7, <4>4 DEF NextBest
                <5>2. ASSUME NEW j \in 1..(k + 1), Matches(table[j], req)
                      PROVE  ~Better(table[j], next) /\ (j < k + 1 => Better(next, table[j]))
                    <6>1. CASE j \in 1..k
                        <7>1. ~Better(table[j], table[i]) /\ table[j] \in RouteRecords
                            BY <2>5, <4>1, <5>2, <6>1
                        <7>2. Better(next, table[j])
                            BY <2>5, <4>1, <4>3, <4>4, <7>1, BetterOrder
                        <7> QED
                            BY <2>5, <7>1, <7>2, BetterOrder
                    <6>2. CASE j = k + 1
                        BY <2>1, <2>5, <6>2, BetterOrder
                    <6> QED
                        BY <2>4, <6>1, <6>2
                <5> QED
                    BY <2>7, <4>2, <5>1, <5>2 DEF BestAmong
            <4>5. CASE ~Better(next, old)
                <5>1. new = old
                    BY <2>2, <4>3, <4>5 DEF NextBest
                <5>2. ASSUME NEW j \in 1..(k + 1), Matches(table[j], req)
                      PROVE  ~Better(table[j], table[i]) /\ (j < i => Better(table[i], table[j]))
                    <6>1. CASE j \in 1..k
                        BY <4>1, <5>2, <6>1
                    <6>2. CASE j = k + 1
                        BY <2>1, <4>1, <4>2, <4>5, <6>2
                    <6> QED
                        BY <2>4, <6>1, <6>2
                <5> QED
                    BY <4>1, <4>2, <5>1, <5>2 DEF BestAmong
            <4> QED
                BY <4>4, <4>5
        <3> QED
            BY <3>1, <3>2
    <2> QED
        BY <2>6, <2>7
<1>6. 0..n \subseteq S
    BY ONLY <1>1, <1>4, <1>5, RangeInduction
<1>7. n \in S
    BY <1>1, <1>6
<1> QED
    BY <1>3, <1>7 DEF n

LEMMA MatchIsBestInv == IInv => MatchIsBest
<1> SUFFICES ASSUME IInv, NEW req \in HTTPRequests
             PROVE  LET found == Match(httpTable, req)
                        matching == {r \in ToSet(httpTable) : Matches(r, req)}
                    IN  IF matching = {} THEN found = None
                        ELSE found \in matching /\ ~\E r \in matching : Preferred(r, found)
    BY DEF MatchIsBest
<1> DEFINE n == Len(httpTable)
           found == Match(httpTable, req)
           matching == {r \in ToSet(httpTable) : Matches(r, req)}
<1>1. /\ n \in Nat /\ DOMAIN httpTable = 1..n
      /\ \A k \in 1..n : httpTable[k] \in RouteRecords
    BY TableFacts
<1>2. \A i, j \in 1..n : i < j => ~Before(httpTable[j], httpTable[i])
    BY TableFacts
<1>3. BestAmong(httpTable, n, req, found)
    BY TableFacts, MatchFinds
<1>4. \A r \in matching : \E j \in 1..n : r = httpTable[j] /\ Matches(httpTable[j], req)
    BY <1>1 DEF ToSet
<1>5. \A j \in 1..n : Matches(httpTable[j], req) => httpTable[j] \in matching
    BY <1>1 DEF ToSet
<1> HIDE DEF n, found, matching
<1>6. CASE found = None /\ \A j \in 1..n : ~Matches(httpTable[j], req)
    BY <1>4, <1>6 DEF found, matching
<1>7. CASE ~(found = None /\ \A j \in 1..n : ~Matches(httpTable[j], req))
    <2>1. PICK i \in 1..n :
              /\ found = httpTable[i] /\ Matches(httpTable[i], req)
              /\ \A j \in 1..n : Matches(httpTable[j], req) =>
                    /\ ~Better(httpTable[j], httpTable[i])
                    /\ j < i => Better(httpTable[i], httpTable[j])
        BY <1>3, <1>7 DEF BestAmong
    <2>2. found \in matching
        BY <1>5, <2>1
    <2>3. ASSUME NEW r \in matching, Preferred(r, found) PROVE FALSE
        <3>1. PICK j \in 1..n : r = httpTable[j] /\ Matches(httpTable[j], req)
            BY <1>4
        <3>2. ~Better(r, found) /\ (j < i => Better(found, r))
            BY <2>1, <3>1
        <3>3. /\ HasPort(r) = HasPort(found) /\ PathLen(r.def.path) = PathLen(found.def.path)
              /\ Before(r, found)
            BY <2>3, <3>2 DEF Preferred, Better
        <3>4. r \in RouteRecords /\ found \in RouteRecords
            BY <1>1, <2>1, <3>1
        <3>5. ~Better(found, r)
            <4>1. PathLen(r.def.path) \in Int
                BY <3>4 DEF RouteRecords, RouteDefs, PathLen, Root
            <4> QED
                BY <3>3, <4>1 DEF Better
        <3>6. ~(i < j)
            BY <1>2, <2>1, <3>1, <3>3
        <3>7. i = j
            BY <1>1, <3>2, <3>5, <3>6
        <3>8. ~Before(r, r)
            <4>1. r.service \in Services /\ r.def.priority \in Int
                BY <3>4 DEF RouteRecords, RouteDefs
            <4>2. \A x \in Services : ~(x < x)
                BY ServicesAssumption
            <4>3. \A x \in Int : ~(x > x)
                OBVIOUS
            <4> QED
                BY <4>1, <4>2, <4>3, Zenon DEF Before
        <3> QED
            BY <2>1, <3>1, <3>3, <3>7, <3>8
    <2> QED
        BY <2>2, <2>3 DEF found, matching
<1> QED
    BY <1>6, <1>7

\* A request finds a route if one matches, and none that matches is preferred to it:
\* by port, then by the length of its path, then by rank.
THEOREM MostSpecificRoute == Spec => []MatchIsBest
BY InvHolds, MatchIsBestInv, PTL

LEMMA MatchedIsServedInv == IInv => MatchedIsServed
<1> SUFFICES ASSUME IInv PROVE MatchedIsServed
    OBVIOUS
<1>1. ASSUME NEW req \in HTTPRequests PROVE ServeHTTP(req) # "badGateway"
    <2> DEFINE found == Match(httpTable, req)
    <2>1. found = None \/ found \in ToSet(httpTable)
        BY MatchIsBestInv DEF MatchIsBest
    <2>2. CASE found = None
        BY <2>2 DEF ServeHTTP
    <2>3. CASE found # None
        <3>1. Served(found) /\ found \in RouteRecords
            BY <2>1, <2>3, TableFacts DEF ToSet
        <3>2. Redirects(found) \/ found.upstreams # {}
            BY <3>1 DEF Served
        <3>3. Redirects(found) \in BOOLEAN
            BY DEF Redirects
        <3> QED
            BY <2>3, <3>2, <3>3 DEF ServeHTTP
    <2> QED
        BY <2>2, <2>3
<1>2. ASSUME NEW port, NEW sni, TCPMatch(tcpTable, port, sni) # None
      PROVE  TCPMatch(tcpTable, port, sni).upstreams # {}
    <2>1. TCPMatch(tcpTable, port, sni) \in ToSet(tcpTable)
        BY <1>2, TableFacts, TCPMatchFinds
    <2> QED
        BY <2>1, TableFacts
<1> QED
    BY <1>1, <1>2 DEF MatchedIsServed

\* A route that a request or a connection finds is a redirect or has an upstream: the
\* handler's 502 for a route without upstreams is never reached.
THEOREM NoDeadRoute == Spec => []MatchedIsServed
BY InvHolds, MatchedIsServedInv, PTL

-----------------------------------------------------------------------------
(* The migration of Fabio tags.                                              *)

\* Definitions that differ in nothing but the spelling of the root.
LEMMA SameSpelling ==
    ASSUME NEW d \in RouteDefs, NEW e \in RouteDefs,
           d.proto = e.proto, d.host = e.host, PathLen(d.path) = PathLen(e.path),
           d.port = e.port, d.priority = e.priority, d.weight = e.weight, d.strip = e.strip,
           d.enabled = e.enabled, d.code = e.code, d.url = e.url, d.noCache = e.noCache,
           d.status = e.status
    PROVE  [d EXCEPT !.path = PathLen(@)] = [e EXCEPT !.path = PathLen(@)]
<1> DEFINE x == [d EXCEPT !.path = PathLen(@)]
           y == [e EXCEPT !.path = PathLen(@)]
<1>1. PathLen(d.path) \in Int /\ PathLen(e.path) \in Int
    BY DEF RouteDefs, PathLen, Root
<1>2. x \in RouteDefs /\ y \in RouteDefs
    BY <1>1 DEF RouteDefs
<1>3. /\ x.proto = y.proto /\ x.host = y.host /\ x.path = y.path /\ x.port = y.port
      /\ x.priority = y.priority /\ x.weight = y.weight /\ x.strip = y.strip
      /\ x.enabled = y.enabled /\ x.code = y.code /\ x.url = y.url /\ x.noCache = y.noCache
      /\ x.status = y.status
    BY DEF RouteDefs
<1> HIDE DEF x, y
<1>4. x = y
    BY <1>2, <1>3, SameDef
<1> QED
    BY <1>4 DEF x, y

\* Without the field sni an index is parsed as non-indexed metadata is.
LEMMA WithoutSNI ==
    ASSUME NEW fields, ParseNonIndexedMeta(fields) \in RouteDefs, "sni" \notin DOMAIN fields
    PROVE  ParseIndexedMeta(fields) = ParseNonIndexedMeta(fields)
<1> DEFINE d == ParseNonIndexedMeta(fields)
<1>1. ParseIndexedMeta(fields) = [d EXCEPT !.host = d.host]
    BY DEF ParseIndexedMeta, Get
<1> HIDE DEF d
<1>2. [d EXCEPT !.host = d.host] = d
    BY DEF RouteDefs, d
<1> QED
    BY <1>1, <1>2 DEF d

\* The fields of parsed metadata.
LEMMA ParsedFields ==
    ASSUME NEW f
    PROVE  LET n == ParseNonIndexedMeta(f)
           IN  /\ n.proto = Get(f, "protocol", "http") /\ n.host = Get(f, "host", AnyHost)
               /\ n.path = Get(f, "path", EmptyPath) /\ n.port = Atoi(f, "port")
               /\ n.priority = Atoi(f, "priority") /\ n.weight = Atoi(f, "weight")
               /\ n.strip = Get(f, "strip", FALSE) /\ n.enabled = Get(f, "enabled", TRUE)
               /\ n.code = Atoi(f, "code") /\ n.url = Get(f, "url", NoURL)
               /\ n.noCache = Get(f, "noCache", FALSE) /\ n.status = Get(f, "status", None)
BY DEF ParseNonIndexedMeta

\* What the metadata for a tag defines: the route of the tag.
SameRoute(tag, f) ==
    /\ "sni" \notin DOMAIN f /\ DOMAIN f # {}
    /\ ParseNonIndexedMeta(f) \in RouteDefs
    /\ \E d \in RouteDefs :
          /\ ParseFabioTag(tag) = {d}
          /\ [ParseNonIndexedMeta(f) EXCEPT !.path = PathLen(@)] =
             [d EXCEPT !.path = PathLen(@)]

LEMMA MigratedTCP ==
    ASSUME NEW tag, TagTyped(tag), Mappable(tag), Get(tag, "protocol", "http") = "tcp"
    PROVE  SameRoute(tag, MigratedTag(tag))
<1> DEFINE port == tag.host.port
           f == MigratedTag(tag)
           n == ParseNonIndexedMeta(f)
           route == Modified(tag, "tcp")
           d == [route EXCEPT !.port = port]
<1>1. /\ DOMAIN tag = {"protocol", "host"} /\ tag.protocol = "tcp"
      /\ tag.host.kind = "any" /\ port > 0
    BY DEF Mappable, Get
<1>2. port \in Int /\ port \in Nat /\ port # None
    <2>1. tag.host \in Hosts
        BY DEF TagTyped, FieldsTyped
    <2> QED
        BY <2>1, NoneAssumption DEF Hosts
<1>3. ~TagRedirects(tag) /\ "strip" \notin DOMAIN tag /\ "path" \notin DOMAIN tag
    BY <1>1 DEF TagRedirects
<1>4. ParseFabioTag(tag) = {d}
    BY <1>1, <1>3 DEF ParseFabioTag, Get
<1>5. f = [protocol |-> "tcp", port |-> port]
    BY DEF MigratedTag
<1> HIDE DEF f, port
<1>6. DOMAIN f = {"protocol", "port"} /\ f.protocol = "tcp" /\ f.port = port
    BY <1>5
<1>7. "tcp" \in Protocols
    BY NamesAssumption
<1>8. /\ route \in RouteDefs
      /\ route.proto = "tcp" /\ route.host = AnyHost /\ route.path = EmptyPath
      /\ route.priority = 0 /\ route.weight = 0 /\ route.strip = FALSE
      /\ route.enabled = TRUE /\ route.code = 0 /\ route.url = NoURL
      /\ route.noCache = FALSE /\ route.status = None
    <2>1. ("strip" \in DOMAIN tag) = FALSE
        BY <1>3
    <2> QED
        BY <1>3, <1>7, <2>1, ModifiedRoute
<1>9. FieldsTyped(f)
    BY <1>2, <1>6, <1>7 DEF FieldsTyped
<1>10. n \in RouteDefs
    BY <1>9, ParseNonIndexedMetaType
<1>11. /\ n.proto = "tcp" /\ n.host = AnyHost /\ n.path = EmptyPath /\ n.port = port
       /\ n.priority = 0 /\ n.weight = 0 /\ n.strip = FALSE /\ n.enabled = TRUE
       /\ n.code = 0 /\ n.url = NoURL /\ n.noCache = FALSE /\ n.status = None
    BY <1>2, <1>6, ParsedFields DEF Get, Atoi
<1> HIDE DEF route, n
<1>12. d \in RouteDefs
    BY <1>2, <1>8 DEF RouteDefs
<1>13. /\ d.proto = "tcp" /\ d.host = AnyHost /\ d.path = EmptyPath /\ d.port = port
       /\ d.priority = 0 /\ d.weight = 0 /\ d.strip = FALSE /\ d.enabled = TRUE
       /\ d.code = 0 /\ d.url = NoURL /\ d.noCache = FALSE /\ d.status = None
    BY <1>8 DEF RouteDefs
<1> HIDE DEF d
<1>14. n = d
    BY <1>10, <1>11, <1>12, <1>13, SameDef
<1>15. "sni" \notin DOMAIN f /\ DOMAIN f # {}
    BY <1>6
<1> QED
    BY <1>4, <1>10, <1>12, <1>14, <1>15 DEF SameRoute, f, n

LEMMA MigratedHTTP ==
    ASSUME NEW tag, TagTyped(tag), Mappable(tag), Get(tag, "protocol", "http") # "tcp"
    PROVE  SameRoute(tag, MigratedTag(tag))
<1> DEFINE p == Get(tag, "protocol", "http")
           path == Get(tag, "path", Root)
           f == MigratedTag(tag)
           n == ParseNonIndexedMeta(f)
           route == Modified(tag, p)
           d == [route EXCEPT !.host = tag.host, !.path = path]
<1>1. /\ p \in {"http", "https"} /\ tag.host.port \notin {80, 443}
      /\ "code" \in DOMAIN tag \/ "url" \in DOMAIN tag => TagRedirects(tag)
    BY DEF Mappable, HTTPProtocols
<1>2. /\ DOMAIN tag \subseteq {"protocol", "host", "path", "strip", "code", "url"}
      /\ "host" \in DOMAIN tag /\ tag.host \in Hosts
      /\ "strip" \in DOMAIN tag => tag.strip = TRUE
      /\ path \in Int
    BY DEF TagTyped, FieldsTyped, Get, Root
<1>3. StripStandardPort(tag.host) = tag.host
    BY <1>1 DEF StripStandardPort
<1>4. p \in Protocols
    BY <1>1, NamesAssumption
<1>5. ParseFabioTag(tag) = {d}
    <2>1. (IF p \in {"tcp", "https"} THEN tag.protocol ELSE "http") = p
        BY <1>1 DEF Get
    <2> HIDE DEF p
    <2>2. p # "tcp"
        BY <1>1
    <2>3. ParseFabioTag(tag) =
              LET proto == IF p \in {"tcp", "https"} THEN tag.protocol ELSE "http"
              IN  IF proto = "tcp"
                  THEN IF tag.host.kind = "any" /\ tag.host.port > 0 /\ "path" \notin DOMAIN tag
                       THEN {[Modified(tag, proto) EXCEPT !.port = tag.host.port]}
                       ELSE {}
                  ELSE IF TagRedirects(tag) /\ tag.host # StripStandardPort(tag.host)
                       THEN {}
                       ELSE {[Modified(tag, proto) EXCEPT
                                 !.host = StripStandardPort(tag.host), !.path = path]}
        BY DEF ParseFabioTag, p
    <2> QED
        BY <1>3, <2>1, <2>2, <2>3
<1>6. f = [key \in DOMAIN tag |-> IF key = "url" THEN ReplacePath(tag.url) ELSE tag[key]]
    BY DEF MigratedTag
<1>7. /\ DOMAIN f = DOMAIN tag
      /\ \A key \in DOMAIN tag \ {"url"} : f[key] = tag[key]
      /\ "url" \in DOMAIN tag => f["url"] = ReplacePath(tag.url)
    <2> HIDE DEF f
    <2> QED
        BY <1>6
<1>8. /\ route \in RouteDefs
      /\ route.proto = p /\ route.port = 0
      /\ route.priority = 0 /\ route.weight = 0 /\ route.strip = ("strip" \in DOMAIN tag)
      /\ route.enabled = TRUE
      /\ route.code = (IF TagRedirects(tag) THEN tag.code ELSE 0)
      /\ route.url = (IF TagRedirects(tag) THEN ReplacePath(tag.url) ELSE NoURL)
      /\ route.noCache = FALSE /\ route.status = None
    BY <1>4, ModifiedRoute
<1> HIDE DEF f, route
<1>9. FieldsTyped(f)
    <2>1. "url" \in DOMAIN tag => ReplacePath(tag.url) \in URLs
        BY DEF TagTyped, FieldsTyped, ReplacePath, URLs
    <2>2. FieldsTyped(tag)
        BY DEF TagTyped
    <2> QED
        BY <1>2, <1>7, <2>1, <2>2 DEF FieldsTyped
<1>10. n \in RouteDefs
    BY <1>9, ParseNonIndexedMetaType
<1>11. n.proto = p /\ n.host = tag.host
    BY <1>2, <1>7, ParsedFields DEF Get
<1>12. /\ n.port = 0 /\ n.priority = 0 /\ n.weight = 0 /\ n.enabled = TRUE
       /\ n.noCache = FALSE /\ n.status = None
    <2>1. DOMAIN f \cap {"port", "priority", "weight", "enabled", "noCache", "status"} = {}
        BY <1>2, <1>7
    <2> QED
        BY <2>1, ParsedFields DEF Get, Atoi
<1>13. n.strip = ("strip" \in DOMAIN tag)
    <2>1. n.strip = Get(f, "strip", FALSE)
        BY ParsedFields
    <2>2. CASE "strip" \in DOMAIN tag
        <3>1. Get(f, "strip", FALSE) = TRUE
            BY <1>2, <1>7, <2>2 DEF Get
        <3> QED
            BY <2>1, <2>2, <3>1
    <2>3. CASE "strip" \notin DOMAIN tag
        <3>1. Get(f, "strip", FALSE) = FALSE
            BY <1>7, <2>3 DEF Get
        <3>2. ("strip" \in DOMAIN tag) = FALSE
            BY <2>3
        <3> QED
            BY ONLY <2>1, <3>1, <3>2
    <2> QED
        BY <2>2, <2>3
<1>14. n.code = IF TagRedirects(tag) THEN tag.code ELSE 0
    <2>1. n.code = Atoi(f, "code")
        BY ParsedFields
    <2>2. CASE TagRedirects(tag)
        <3>1. "code" \in DOMAIN tag /\ tag["code"] \in 300..399
            BY <2>2 DEF TagRedirects
        <3>2. "code" \in DOMAIN f /\ f["code"] = tag["code"] /\ tag["code"] # None
            BY <1>7, <3>1, NoneAssumption
        <3> QED
            BY <2>1, <2>2, <3>2 DEF Atoi, Get
    <2>3. CASE ~TagRedirects(tag)
        <3>1. "code" \notin DOMAIN f
            BY <1>1, <1>7, <2>3
        <3> QED
            BY <2>1, <2>3, <3>1 DEF Atoi, Get
    <2> QED
        BY <2>2, <2>3
<1>15. n.url = IF TagRedirects(tag) THEN ReplacePath(tag.url) ELSE NoURL
    <2>1. n.url = Get(f, "url", NoURL)
        BY ParsedFields
    <2>2. "url" \in DOMAIN tag <=> TagRedirects(tag)
        BY <1>1 DEF TagRedirects
    <2> QED
        BY <1>7, <2>1, <2>2 DEF Get
<1>16. PathLen(n.path) = PathLen(path)
    <2>1. n.path = Get(f, "path", EmptyPath)
        BY ParsedFields
    <2> QED
        BY <1>7, <2>1 DEF Get, PathLen, EmptyPath, Root
<1> HIDE DEF p, path, n
<1>17. d \in RouteDefs
    BY <1>2, <1>8 DEF RouteDefs
<1>18. /\ d.proto = p /\ d.host = tag.host /\ d.path = path /\ d.port = 0
       /\ d.priority = 0 /\ d.weight = 0 /\ d.strip = ("strip" \in DOMAIN tag)
       /\ d.enabled = TRUE
       /\ d.code = (IF TagRedirects(tag) THEN tag.code ELSE 0)
       /\ d.url = (IF TagRedirects(tag) THEN ReplacePath(tag.url) ELSE NoURL)
       /\ d.noCache = FALSE /\ d.status = None
    BY <1>8 DEF RouteDefs
<1> HIDE DEF d
<1>19. /\ n.proto = d.proto /\ n.host = d.host /\ PathLen(n.path) = PathLen(d.path)
       /\ n.port = d.port /\ n.priority = d.priority /\ n.weight = d.weight
       /\ n.strip = d.strip /\ n.enabled = d.enabled /\ n.code = d.code /\ n.url = d.url
       /\ n.noCache = d.noCache /\ n.status = d.status
    BY <1>11, <1>12, <1>13, <1>14, <1>15, <1>16, <1>18
<1>20. [n EXCEPT !.path = PathLen(@)] = [d EXCEPT !.path = PathLen(@)]
    BY <1>10, <1>17, <1>19, SameSpelling
<1>21. "sni" \notin DOMAIN f /\ DOMAIN f # {}
    BY <1>2, <1>7
<1> QED
    BY <1>5, <1>10, <1>17, <1>20, <1>21 DEF SameRoute, f, n

\* The metadata defines the route of the tag, as an index and without.
LEMMA MigratedRoute ==
    ASSUME NEW tag, TagTyped(tag), Mappable(tag)
    PROVE  LET f == MigratedTag(tag)
           IN  /\ DOMAIN f # {}
               /\ Spelled({ParseNonIndexedMeta(f)}) = Spelled(ParseFabioTag(tag))
               /\ Spelled({ParseIndexedMeta(f)}) = Spelled(ParseFabioTag(tag))
<1> DEFINE f == MigratedTag(tag)
           n == ParseNonIndexedMeta(f)
<1>1. SameRoute(tag, f)
    BY MigratedTCP, MigratedHTTP
<1>2. DOMAIN f # {} /\ n \in RouteDefs /\ ParseIndexedMeta(f) = n
    BY <1>1, WithoutSNI DEF SameRoute
<1>3. PICK d \in RouteDefs :
          /\ ParseFabioTag(tag) = {d}
          /\ [n EXCEPT !.path = PathLen(@)] = [d EXCEPT !.path = PathLen(@)]
    BY <1>1 DEF SameRoute
<1> HIDE DEF n
<1>4. Spelled({n}) = Spelled({d})
    BY <1>3 DEF Spelled
<1> QED
    BY <1>2, <1>3, <1>4 DEF n

\* The whole metadata of an instance.
LEMMA MigrationInv == IInv => MigrationKeepsRoutes
<1> SUFFICES ASSUME IInv PROVE MigrationKeepsRoutes
    OBVIOUS
<1> SUFFICES ASSUME NEW i \in Instances, snapshot[i] # None
             PROVE  LET tags == snapshot[i].fabio
                        before == [snapshot[i] EXCEPT !.indexed = <<>>, !.plain = <<>>]
                        Indexed(kept) ==
                            [before EXCEPT
                                !.indexed = [k \in DOMAIN tags |-> MigratedTag(tags[k])],
                                !.fabio = kept]
                        Plain(kept) ==
                            [before EXCEPT !.plain = MigratedTag(tags[1]), !.fabio = kept]
                    IN  \A kept \in {tags, <<>>}, k \in {j \in DOMAIN tags : Mappable(tags[j])} :
                            /\ Spelled(Source(Indexed(kept))[k]) = Spelled(Source(before)[k])
                            /\ DOMAIN tags = {1} =>
                                  Spelled(Source(Plain(kept))[k]) = Spelled(Source(before)[k])
    BY DEF MigrationKeepsRoutes
<1> DEFINE reg == snapshot[i]
           none == <<>>
           tags == reg.fabio
           healthy == reg.healthy
           before == [reg EXCEPT !.indexed = none, !.plain = none]
           metas == [k \in DOMAIN tags |-> MigratedTag(tags[k])]
           Indexed(kept) == [before EXCEPT !.indexed = metas, !.fabio = kept]
           Plain(kept) == [before EXCEPT !.plain = MigratedTag(tags[1]), !.fabio = kept]
<1>1. RegistrationTyped(reg)
    BY RegistrationsAssumption DEF IInv, Snapshots, Registered
<1>2. before = [healthy |-> healthy, indexed |-> none, plain |-> none, fabio |-> tags]
    <2> DEFINE x == reg.indexed
               p == reg.plain
               one == [reg EXCEPT !.indexed = none]
    <2>1. reg = [healthy |-> healthy, indexed |-> x, plain |-> p, fabio |-> tags]
        BY <1>1 DEF RegistrationTyped
    <2> HIDE DEF x, p, healthy, none, tags
    <2>2. one = [healthy |-> healthy, indexed |-> none, plain |-> p, fabio |-> tags]
        BY <2>1
    <2>3. before = [one EXCEPT !.plain = none]
        OBVIOUS
    <2> HIDE DEF one, before
    <2> QED
        BY <2>2, <2>3
<1>3. DOMAIN none = {}
    OBVIOUS
<1>4. \A k \in DOMAIN tags : TagTyped(tags[k])
    BY <1>1 DEF RegistrationTyped
<1> SUFFICES ASSUME NEW kept \in {tags, none}, NEW k \in DOMAIN tags, Mappable(tags[k])
             PROVE  /\ Spelled(Source(Indexed(kept))[k]) = Spelled(Source(before)[k])
                    /\ DOMAIN tags = {1} =>
                          Spelled(Source(Plain(kept))[k]) = Spelled(Source(before)[k])
    OBVIOUS
<1> HIDE DEF reg, none, tags, healthy, before
<1>5. Source(before)[k] = ParseFabioTag(tags[k])
    <2>1. before.indexed = none /\ before.plain = none /\ before.fabio = tags
        BY <1>2
    <2> QED
        BY <1>3, <2>1 DEF Source
<1>6. /\ DOMAIN MigratedTag(tags[k]) # {}
      /\ Spelled({ParseNonIndexedMeta(MigratedTag(tags[k]))}) = Spelled(ParseFabioTag(tags[k]))
      /\ Spelled({ParseIndexedMeta(MigratedTag(tags[k]))}) = Spelled(ParseFabioTag(tags[k]))
    BY <1>4, MigratedRoute
<1>7. Source(Indexed(kept))[k] = {ParseIndexedMeta(MigratedTag(tags[k]))}
    <2>1. DOMAIN metas = DOMAIN tags /\ metas[k] = MigratedTag(tags[k])
        OBVIOUS
    <2> HIDE DEF metas
    <2>2. Indexed(kept).indexed = metas
        BY <1>2
    <2>3. DOMAIN Indexed(kept).indexed # {} /\ k \in DOMAIN Indexed(kept).indexed
        BY <2>1, <2>2
    <2> HIDE DEF Indexed
    <2> QED
        BY <2>1, <2>2, <2>3 DEF Source
<1>8. ASSUME DOMAIN tags = {1}
      PROVE  Source(Plain(kept))[k] = {ParseNonIndexedMeta(MigratedTag(tags[k]))}
    <2> DEFINE m == MigratedTag(tags[1])
               d == ParseNonIndexedMeta(m)
    <2>1. k = 1 /\ DOMAIN m # {}
        BY <1>6, <1>8
    <2> HIDE DEF m
    <2>2. Plain(kept).indexed = none /\ Plain(kept).plain = m
        BY <1>2 DEF m
    <2> HIDE DEF Plain
    <2>3. Source(Plain(kept)) = <<{d}>>
        BY <1>3, <2>1, <2>2 DEF Source
    <2> HIDE DEF d
    <2>4. Source(Plain(kept))[1] = {d}
        BY <2>3
    <2> QED
        BY <2>1, <2>4 DEF d, m
<1> QED
    BY <1>5, <1>6, <1>7, <1>8

\* An instance that goes from Fabio tags to the metadata of the README's table keeps its
\* routes, up to the spelling of the root, whatever tags it has, and whether it still has
\* them or not.
THEOREM MigrationSafe == Spec => []MigrationKeepsRoutes
BY InvHolds, MigrationInv, PTL
=============================================================================
