------------------------------ MODULE Sites_proofs ------------------------------
(***************************************************************************)
(* Proofs about Sites, for any configuration its builders let pass, any    *)
(* requests and any files: where a request goes, and where its answer comes *)
(* from.                                                                   *)
(***************************************************************************)
EXTENDS Sites, Lists_proofs

-----------------------------------------------------------------------------
(* The searches are folds; each is what its last turn leaves.               *)

MatchTypes == 0 .. 3
NoName == [type |-> NO_MATCH, name |-> <<>>]
Matches == [type : MatchTypes, name : ServerNames \cup {<<>>}]

BetterName(host, best, name) ==
    IF best.type = EXACT_MATCH THEN best ELSE
    CASE host = name -> [type |-> EXACT_MATCH, name |-> name]
      [] host # name /\ name[1] = "*" /\ Len(host) >= Len(name) /\ IsSuffix(Tail(name), host) ->
           [type |-> PREFIX_MATCH, name |-> name]
      [] host # name /\ name[1] # "*" /\ Last(name) = "*" /\ Len(host) >= Len(name) /\ Len(name) > 2
           /\ IsPrefix(Front(name), host) -> [type |-> SUFFIX_MATCH, name |-> name]
      [] OTHER -> best

LEMMA BetterNameIsMatch ==
    ASSUME NEW host, NEW best \in Matches, NEW name \in ServerNames
    PROVE  BetterName(host, best, name) \in Matches
<1>1. \A t \in MatchTypes : [type |-> t, name |-> name] \in Matches
  BY DEF Matches
<1>2. {NO_MATCH, SUFFIX_MATCH, PREFIX_MATCH, EXACT_MATCH} \subseteq MatchTypes
  BY DEF MatchTypes, NO_MATCH, SUFFIX_MATCH, PREFIX_MATCH, EXACT_MATCH
<1>. HIDE DEF Matches
<1>. QED
  BY <1>1, <1>2 DEF BetterName

LEMMA HostNameRuns ==
    ASSUME NEW host, NEW names \in Seq(ServerNames)
    PROVE  \E f : /\ f[0] = NoName
                  /\ \A m \in 0 .. Len(names) - 1 :
                        f[m + 1] = BetterName(host, f[m], names[m + 1])
                  /\ MatchHostName(host, names) = f[Len(names)]
<1>. DEFINE n == Len(names)
            Def(g) == g = [s \in SUBSET DOMAIN names |->
                IF s = {} THEN NoName ELSE BetterName(host, g[s \ {Max(s)}], names[Max(s)])]
            G == CHOOSE g : Def(g)
            step == [x \in Matches \X (1 .. n) |-> BetterName(host, x[1], names[x[2]])]
            f == [m \in 0 .. n |-> G[1 .. m]]
<1>1. n \in Nat /\ DOMAIN names = 1 .. n
  OBVIOUS
<1>2. MatchHostName(host, names) = G[DOMAIN names]
  BY DEF MatchHostName, FoldLeft, MapThenFoldSet, BetterName, NoName
<1>3. step \in [Matches \X (1 .. n) -> Matches]
  <2>1. ASSUME NEW x \in Matches \X (1 .. n) PROVE BetterName(host, x[1], names[x[2]]) \in Matches
    BY <1>1, BetterNameIsMatch
  <2>. QED
    BY <2>1
<1>4. NoName \in Matches
  BY DEF NoName, Matches, MatchTypes, NO_MATCH
<1>5. PICK h \in [SUBSET (1 .. n) -> Matches] : Folds(h, n, NoName, step)
  <2>. HIDE DEF step
  <2>. QED
    BY <1>1, <1>3, <1>4, FoldExists
<1>6. Def(h)
  <2>1. ASSUME NEW s \in SUBSET (1 .. n)
        PROVE  h[s] = IF s = {} THEN NoName ELSE BetterName(host, h[s \ {Max(s)}], names[Max(s)])
    <3>1. CASE s = {}
      BY <1>5, <3>1 DEF Folds
    <3>2. CASE s # {}
      <4>1. h[s] = step[h[s \ {Max(s)}], Max(s)]
        BY <1>5, <3>2 DEF Folds
      <4>2. Max(s) \in 1 .. n
        BY <1>1, <3>2, MaxOfRange
      <4>3. h[s \ {Max(s)}] \in Matches
        BY <1>5
      <4>. QED
        BY <3>2, <4>1, <4>2, <4>3
    <3>. QED
      BY <3>1, <3>2
  <2>. QED
    BY <1>1, <1>5, <2>1
<1>7. Def(G)
  <2>. HIDE DEF Def
  <2>. QED
    BY <1>6
<1>8. G[{}] = NoName
  BY <1>7
<1>9. ASSUME NEW m \in 0 .. n - 1
      PROVE  G[1 .. m + 1] = BetterName(host, G[1 .. m], names[m + 1])
  <2>1. 1 .. m + 1 \in SUBSET DOMAIN names
    BY <1>1
  <2>2. Max(1 .. m + 1) = m + 1 /\ (1 .. m + 1) \ {m + 1} = 1 .. m /\ 1 .. m + 1 # {}
    <3>1. m \in Nat
      BY <1>1
    <3>. QED
      BY <3>1, LastOfRange, Zenon
  <2>. HIDE DEF G
  <2>. QED
    BY <1>7, <2>1, <2>2
<1>. HIDE DEF G
<1>10. f[0] = NoName
  <2>1. 1 .. 0 = {}
    OBVIOUS
  <2>. QED
    BY <1>8, <2>1
<1>11. \A m \in 0 .. n - 1 : f[m + 1] = BetterName(host, f[m], names[m + 1])
  <2>. TAKE m \in 0 .. n - 1
  <2>1. f[m + 1] = G[1 .. m + 1] /\ f[m] = G[1 .. m]
    BY <1>1
  <2>. QED
    BY <1>9, <2>1
<1>12. MatchHostName(host, names) = f[n]
  BY <1>1, <1>2
<1>. HIDE DEF f
<1>. QED
  BY <1>10, <1>11, <1>12

(* For ChooseServer every server's match is a match.                        *)
HostNamesMatch(host) ==
    \A i \in DOMAIN cluster.servers : MatchHostName(host, cluster.servers[i].names) \in Matches

NoServer(address) == [type |-> NO_MATCH, name |-> <<>>, server |-> ServersAt(address)[1]]
Finds(address) ==
    [type : MatchTypes, name : ServerNames \cup {<<>>},
     server : DOMAIN cluster.servers \cup {ServersAt(address)[1]}]
BetterServer(host, best, i) ==
    LET match == MatchHostName(host, cluster.servers[i].names)
    IN  IF \/ Len(match.name) > Len(best.name) /\ match.type = best.type
           \/ match.type > best.type
        THEN [type |-> match.type, name |-> match.name, server |-> i] ELSE best

LEMMA BetterServerIsFind ==
    ASSUME NEW host, NEW address, HostNamesMatch(host),
           NEW best \in Finds(address), NEW i \in DOMAIN cluster.servers
    PROVE  BetterServer(host, best, i) \in Finds(address)
BY DEF BetterServer, Finds, HostNamesMatch, Matches

LEMMA ServerRuns ==
    ASSUME NEW host, NEW address, ServersAt(address) \in Seq(DOMAIN cluster.servers),
           cluster.servers \in Seq(ServerConfigs), HostNamesMatch(host)
    PROVE  \E f : /\ f[0] = NoServer(address)
                  /\ \A m \in 0 .. Len(ServersAt(address)) - 1 :
                        f[m + 1] = BetterServer(host, f[m], ServersAt(address)[m + 1])
                  /\ ChooseServer(address, host) = f[Len(ServersAt(address))].server
<1>. DEFINE at == ServersAt(address)
            n == Len(at)
            Def(g) == g = [s \in SUBSET DOMAIN at |->
                IF s = {} THEN NoServer(address) ELSE BetterServer(host, g[s \ {Max(s)}], at[Max(s)])]
            G == CHOOSE g : Def(g)
            step == [x \in Finds(address) \X (1 .. n) |-> BetterServer(host, x[1], at[x[2]])]
            f == [m \in 0 .. n |-> G[1 .. m]]
<1>1. n \in Nat /\ DOMAIN at = 1 .. n
  OBVIOUS
<1>2. ChooseServer(address, host) = G[DOMAIN at].server
  BY DEF ChooseServer, FoldLeft, MapThenFoldSet, BetterServer, NoServer
<1>3. step \in [Finds(address) \X (1 .. n) -> Finds(address)]
  <2>1. ASSUME NEW x \in Finds(address) \X (1 .. n) PROVE BetterServer(host, x[1], at[x[2]]) \in Finds(address)
    BY <1>1, BetterServerIsFind
  <2>. QED
    BY <2>1
<1>4. NoServer(address) \in Finds(address)
  BY DEF NoServer, Finds, MatchTypes, NO_MATCH
<1>5. PICK h \in [SUBSET (1 .. n) -> Finds(address)] : Folds(h, n, NoServer(address), step)
  <2>. HIDE DEF step
  <2>. QED
    BY <1>1, <1>3, <1>4, FoldExists
<1>6. Def(h)
  <2>1. ASSUME NEW s \in SUBSET (1 .. n)
        PROVE  h[s] = IF s = {} THEN NoServer(address) ELSE BetterServer(host, h[s \ {Max(s)}], at[Max(s)])
    <3>1. CASE s = {}
      BY <1>5, <3>1 DEF Folds
    <3>2. CASE s # {}
      <4>1. h[s] = step[h[s \ {Max(s)}], Max(s)]
        BY <1>5, <3>2 DEF Folds
      <4>2. Max(s) \in 1 .. n
        BY <1>1, <3>2, MaxOfRange
      <4>3. h[s \ {Max(s)}] \in Finds(address)
        BY <1>5
      <4>. QED
        BY <3>2, <4>1, <4>2, <4>3
    <3>. QED
      BY <3>1, <3>2
  <2>. QED
    BY <1>1, <1>5, <2>1
<1>7. Def(G)
  <2>. HIDE DEF Def
  <2>. QED
    BY <1>6
<1>8. G[{}] = NoServer(address)
  BY <1>7
<1>9. ASSUME NEW m \in 0 .. n - 1
      PROVE  G[1 .. m + 1] = BetterServer(host, G[1 .. m], at[m + 1])
  <2>1. 1 .. m + 1 \in SUBSET DOMAIN at
    BY <1>1
  <2>2. Max(1 .. m + 1) = m + 1 /\ (1 .. m + 1) \ {m + 1} = 1 .. m /\ 1 .. m + 1 # {}
    <3>1. m \in Nat
      BY <1>1
    <3>. QED
      BY <3>1, LastOfRange, Zenon
  <2>. HIDE DEF G
  <2>. QED
    BY <1>7, <2>1, <2>2
<1>. HIDE DEF G
<1>10. f[0] = NoServer(address)
  <2>1. 1 .. 0 = {}
    OBVIOUS
  <2>. QED
    BY <1>8, <2>1
<1>11. \A m \in 0 .. n - 1 : f[m + 1] = BetterServer(host, f[m], at[m + 1])
  <2>. TAKE m \in 0 .. n - 1
  <2>1. f[m + 1] = G[1 .. m + 1] /\ f[m] = G[1 .. m]
    BY <1>1
  <2>. QED
    BY <1>9, <2>1
<1>12. ChooseServer(address, host) = f[n].server
  BY <1>1, <1>2
<1>. HIDE DEF f
<1>. QED
  BY <1>10, <1>11, <1>12

NoLocation == [route |-> <<>>, exact |-> FALSE, loc |-> 0]
Routed == [route : Words, exact : BOOLEAN, loc : Nat]
BetterLocation(server, path, best, i) ==
    LET match == MatchUriPath(path, Locations(server)[i])
    IN  IF \/ Len(match.route) > Len(best.route) /\ match.exact = best.exact
           \/ match.exact /\ ~best.exact
        THEN [route |-> match.route, exact |-> match.exact, loc |-> i] ELSE best

LEMMA BetterLocationIsRouted ==
    ASSUME NEW server, NEW path, NEW best \in Routed,
           Locations(server) \in Seq(LocationConfigs), NEW i \in DOMAIN Locations(server)
    PROVE  BetterLocation(server, path, best, i) \in Routed
<1>1. Locations(server)[i] \in LocationConfigs /\ i \in Nat /\ <<>> \in Words
  BY DEF Words
<1>2. MatchUriPath(path, Locations(server)[i]) \in [route : Words, exact : BOOLEAN]
  BY <1>1 DEF MatchUriPath, LocationConfigs
<1>. QED
  BY <1>1, <1>2 DEF BetterLocation, Routed

LEMMA LocationRuns ==
    ASSUME NEW server, NEW path, Locations(server) \in Seq(LocationConfigs)
    PROVE  \E f : /\ f[0] = NoLocation
                  /\ \A m \in 0 .. Len(Locations(server)) - 1 :
                        f[m + 1] = BetterLocation(server, path, f[m], m + 1)
                  /\ ChooseLocation(server, path) = f[Len(Locations(server))].loc
<1>. DEFINE places == [i \in DOMAIN Locations(server) |-> i]
            n == Len(Locations(server))
            Def(g) == g = [s \in SUBSET DOMAIN places |->
                IF s = {} THEN NoLocation ELSE BetterLocation(server, path, g[s \ {Max(s)}], places[Max(s)])]
            G == CHOOSE g : Def(g)
            step == [x \in Routed \X (1 .. n) |-> BetterLocation(server, path, x[1], places[x[2]])]
            f == [m \in 0 .. n |-> G[1 .. m]]
<1>1. n \in Nat /\ DOMAIN places = 1 .. n /\ \A i \in 1 .. n : places[i] = i
  OBVIOUS
<1>2. ChooseLocation(server, path) = G[DOMAIN places].loc
  BY DEF ChooseLocation, FoldLeft, MapThenFoldSet, BetterLocation, NoLocation
<1>3. step \in [Routed \X (1 .. n) -> Routed]
  <2>1. ASSUME NEW x \in Routed \X (1 .. n) PROVE BetterLocation(server, path, x[1], places[x[2]]) \in Routed
    BY <1>1, BetterLocationIsRouted
  <2>. QED
    BY <2>1
<1>4. NoLocation \in Routed
  BY DEF NoLocation, Routed, Words
<1>5. PICK h \in [SUBSET (1 .. n) -> Routed] : Folds(h, n, NoLocation, step)
  <2>. HIDE DEF step
  <2>. QED
    BY <1>1, <1>3, <1>4, FoldExists
<1>6. Def(h)
  <2>1. ASSUME NEW s \in SUBSET (1 .. n)
        PROVE  h[s] = IF s = {} THEN NoLocation ELSE BetterLocation(server, path, h[s \ {Max(s)}], places[Max(s)])
    <3>1. CASE s = {}
      BY <1>5, <3>1 DEF Folds
    <3>2. CASE s # {}
      <4>1. h[s] = step[h[s \ {Max(s)}], Max(s)]
        BY <1>5, <3>2 DEF Folds
      <4>2. Max(s) \in 1 .. n
        BY <1>1, <3>2, MaxOfRange
      <4>3. h[s \ {Max(s)}] \in Routed
        BY <1>5
      <4>. QED
        BY <3>2, <4>1, <4>2, <4>3
    <3>. QED
      BY <3>1, <3>2
  <2>. QED
    BY <1>1, <1>5, <2>1
<1>7. Def(G)
  <2>. HIDE DEF Def
  <2>. QED
    BY <1>6
<1>8. G[{}] = NoLocation
  BY <1>7
<1>9. ASSUME NEW m \in 0 .. n - 1
      PROVE  G[1 .. m + 1] = BetterLocation(server, path, G[1 .. m], places[m + 1])
  <2>1. 1 .. m + 1 \in SUBSET DOMAIN places
    BY <1>1
  <2>2. Max(1 .. m + 1) = m + 1 /\ (1 .. m + 1) \ {m + 1} = 1 .. m /\ 1 .. m + 1 # {}
    <3>1. m \in Nat
      BY <1>1
    <3>. QED
      BY <3>1, LastOfRange, Zenon
  <2>. HIDE DEF G
  <2>. QED
    BY <1>7, <2>1, <2>2
<1>. HIDE DEF G
<1>10. f[0] = NoLocation
  <2>1. 1 .. 0 = {}
    OBVIOUS
  <2>. QED
    BY <1>8, <2>1
<1>11. \A m \in 0 .. n - 1 : f[m + 1] = BetterLocation(server, path, f[m], m + 1)
  <2>. TAKE m \in 0 .. n - 1
  <2>1. f[m + 1] = G[1 .. m + 1] /\ f[m] = G[1 .. m] /\ places[m + 1] = m + 1
    BY <1>1
  <2>. QED
    BY <1>9, <2>1
<1>12. ChooseLocation(server, path) = f[n].loc
  BY <1>1, <1>2
<1>. HIDE DEF f
<1>. QED
  BY <1>10, <1>11, <1>12

-----------------------------------------------------------------------------
(* ChooseLocation finds the first location that is the path, or else the    *)
(* first of the longest the path begins with.                               *)
Exact(l, path) == l.exact /\ l.route = path
Begins(l, path) == ~l.exact /\ IsPrefix(l.route, path)

LEMMA MatchIs ==
    ASSUME NEW l \in LocationConfigs, NEW path
    PROVE  MatchUriPath(path, l) =
             [route |-> IF Exact(l, path) \/ Begins(l, path) THEN l.route ELSE <<>>,
              exact |-> Exact(l, path)]
<1>1. l.route \in Words /\ l.exact \in BOOLEAN
  BY DEF LocationConfigs
<1>2. IsPrefix(l.route, l.route)
  BY <1>1 DEF IsPrefix, Words
<1>. QED
  BY <1>1, <1>2 DEF MatchUriPath, Exact, Begins

FoundAmong(server, path, m, b) ==
    LET locs == Locations(server)
    IN  \/ /\ b.exact /\ b.loc \in 1 .. m /\ b.route = locs[b.loc].route
           /\ Exact(locs[b.loc], path)
           /\ \A i \in 1 .. b.loc - 1 : ~Exact(locs[i], path)
        \/ /\ b.exact = FALSE /\ b.loc \in 1 .. m /\ b.route = locs[b.loc].route
           /\ Begins(locs[b.loc], path)
           /\ \A i \in 1 .. m : /\ ~Exact(locs[i], path)
                                /\ Begins(locs[i], path) => Len(locs[i].route) <= Len(b.route)
           /\ \A i \in 1 .. b.loc - 1 : Begins(locs[i], path) => Len(locs[i].route) < Len(b.route)
        \/ /\ b = NoLocation
           /\ \A i \in 1 .. m : ~Exact(locs[i], path) /\ ~Begins(locs[i], path)

LEMMA BetterFound ==
    ASSUME NEW server, NEW path, Locations(server) \in Seq(LocationConfigs), NEW m \in Nat,
           m + 1 \in 1 .. Len(Locations(server)), NEW b, FoundAmong(server, path, m, b)
    PROVE  FoundAmong(server, path, m + 1, BetterLocation(server, path, b, m + 1))
<1>. DEFINE n == m + 1
            c == BetterLocation(server, path, b, n)
            R(i) == Locations(server)[i].route
            E(i) == Exact(Locations(server)[i], path)
            B(i) == Begins(Locations(server)[i], path)
            route == IF E(n) \/ B(n) THEN R(n) ELSE <<>>
            FoundExact(k, d) ==
                /\ d.exact /\ d.loc \in 1 .. k /\ d.route = R(d.loc) /\ E(d.loc)
                /\ \A i \in 1 .. d.loc - 1 : ~E(i)
            FoundLongest(k, d) ==
                /\ d.exact = FALSE /\ d.loc \in 1 .. k /\ d.route = R(d.loc) /\ B(d.loc)
                /\ \A i \in 1 .. k : ~E(i) /\ (B(i) => Len(R(i)) <= Len(d.route))
                /\ \A i \in 1 .. d.loc - 1 : B(i) => Len(R(i)) < Len(d.route)
            FoundNone(k, d) == d = NoLocation /\ \A i \in 1 .. k : ~E(i) /\ ~B(i)
<1>1. \A i \in 1 .. n : Locations(server)[i] \in LocationConfigs
  OBVIOUS
<1>2. \A i \in 1 .. n : Len(R(i)) \in Nat /\ Len(R(i)) > 0
  <2>. TAKE i \in 1 .. n
  <2>1. R(i) \in Words \ {<<>>}
    BY <1>1 DEF LocationConfigs
  <2>. HIDE DEF R
  <2>. QED
    BY <2>1 DEF Words
<1>3. \A i : E(i) \in BOOLEAN /\ B(i) \in BOOLEAN /\ ~(E(i) /\ B(i)) /\ (E(i) => R(i) = path)
  BY DEF Exact, Begins
<1>4. FoundExact(m, b) \/ FoundLongest(m, b) \/ FoundNone(m, b)
  BY DEF FoundAmong
<1>5. SUFFICES FoundExact(n, c) \/ FoundLongest(n, c) \/ FoundNone(n, c)
  <2>. SUFFICES FoundAmong(server, path, n, c)
    OBVIOUS
  <2>. HIDE DEF c, n
  <2>. QED
    BY DEF FoundAmong
<1>6. MatchUriPath(path, Locations(server)[n]) = [route |-> route, exact |-> E(n)]
  BY <1>1, MatchIs
<1>. HIDE DEF route, E, B, R
<1>7. c = IF \/ Len(route) > Len(b.route) /\ E(n) = b.exact
             \/ E(n) /\ ~b.exact
          THEN [route |-> route, exact |-> E(n), loc |-> n] ELSE b
  BY <1>6 DEF BetterLocation
<1>8. /\ E(n) \/ B(n) => route = R(n)
      /\ ~(E(n) \/ B(n)) => Len(route) = 0
  BY DEF route
<1>9. n \in 1 .. n /\ n - 1 = m /\ 1 .. n = 1 .. m \cup {n} /\ 1 .. n - 1 = 1 .. m /\ m \in Nat
  OBVIOUS
<1>. HIDE DEF n, c
<1>10. CASE FoundExact(m, b)
  <2>1. b.loc \in 1 .. n /\ Len(R(b.loc)) \in Nat
    BY <1>2, <1>9, <1>10
  <2>2. E(n) => ~(Len(route) > Len(b.route))
    BY <1>3, <1>8, <1>10, <2>1
  <2>3. c = b
    BY <1>3, <1>7, <1>10, <2>2
  <2>. QED
    BY <1>10, <2>1, <2>3
<1>11. CASE FoundLongest(m, b)
  <2>1. b.loc \in 1 .. n /\ b.loc \in 1 .. m /\ Len(b.route) \in Nat /\ Len(b.route) > 0
    BY <1>2, <1>9, <1>11
  <2>2. CASE E(n)
    <3>1. c = [route |-> route, exact |-> E(n), loc |-> n]
      BY <1>7, <1>11, <2>2
    <3>2. FoundExact(n, c)
      BY <1>8, <1>9, <1>11, <2>2, <3>1
    <3>. QED
      BY <3>2
  <2>3. CASE ~E(n) /\ B(n) /\ Len(R(n)) > Len(b.route)
    <3>1. c = [route |-> route, exact |-> E(n), loc |-> n] /\ route = R(n)
      BY <1>3, <1>7, <1>8, <1>11, <2>3
    <3>2. \A i \in 1 .. m : ~E(i) /\ (B(i) => Len(R(i)) < Len(R(n)) /\ Len(R(i)) <= Len(R(n)))
      BY <1>2, <1>9, <1>11, <2>1, <2>3
    <3>3. Len(R(n)) <= Len(R(n))
      BY <1>2, <1>9
    <3>4. FoundLongest(n, c)
      BY <1>9, <2>3, <3>1, <3>2, <3>3
    <3>. QED
      BY <3>4
  <2>4. CASE ~E(n) /\ ~(B(n) /\ Len(R(n)) > Len(b.route))
    <3>1. ~(Len(route) > Len(b.route))
      BY <1>8, <2>1, <2>4
    <3>2. c = b
      BY <1>7, <2>4, <3>1
    <3>3. B(n) => Len(R(n)) <= Len(b.route)
      BY <1>2, <1>9, <2>1, <2>4
    <3>4. FoundLongest(n, c)
      BY <1>9, <1>11, <2>1, <2>4, <3>2, <3>3
    <3>. QED
      BY <3>4
  <2>. QED
    BY <2>2, <2>3, <2>4
<1>12. CASE FoundNone(m, b)
  <2>1. ~b.exact /\ b.exact = FALSE /\ Len(b.route) = 0
    BY <1>12 DEF NoLocation
  <2>2. CASE E(n)
    <3>1. c = [route |-> route, exact |-> E(n), loc |-> n]
      BY <1>7, <2>1, <2>2
    <3>2. FoundExact(n, c)
      BY <1>8, <1>9, <1>12, <2>2, <3>1
    <3>. QED
      BY <3>2
  <2>3. CASE ~E(n) /\ B(n)
    <3>1. route = R(n) /\ Len(route) > Len(b.route) /\ E(n) = b.exact
      BY <1>2, <1>3, <1>8, <1>9, <2>1, <2>3
    <3>2. c = [route |-> route, exact |-> E(n), loc |-> n]
      BY <1>7, <3>1
    <3>3. Len(R(n)) <= Len(R(n))
      BY <1>2, <1>9
    <3>4. FoundLongest(n, c)
      BY <1>9, <1>12, <2>3, <3>1, <3>2, <3>3
    <3>. QED
      BY <3>4
  <2>4. CASE ~E(n) /\ ~B(n)
    <3>1. c = b
      BY <1>7, <1>8, <2>1, <2>4
    <3>2. FoundNone(n, c)
      BY <1>9, <1>12, <2>4, <3>1
    <3>. QED
      BY <3>2
  <2>. QED
    BY <2>2, <2>3, <2>4
<1>. QED
  BY <1>4, <1>10, <1>11, <1>12

LEMMA LocationIsFound ==
    ASSUME NEW server, NEW path, Locations(server) \in Seq(LocationConfigs)
    PROVE  \E b : /\ b.loc = ChooseLocation(server, path)
                  /\ FoundAmong(server, path, Len(Locations(server)), b)
<1>1. PICK f : /\ f[0] = NoLocation
               /\ \A m \in 0 .. Len(Locations(server)) - 1 :
                     f[m + 1] = BetterLocation(server, path, f[m], m + 1)
               /\ ChooseLocation(server, path) = f[Len(Locations(server))].loc
  BY LocationRuns
<1>. DEFINE N == Len(Locations(server))
            T == {m \in Nat : m <= N => FoundAmong(server, path, m, f[m])}
<1>2. N \in Nat
  OBVIOUS
<1>3. 0 \in T
  <2>1. FoundAmong(server, path, 0, f[0])
    BY <1>1 DEF FoundAmong
  <2>. QED
    BY <2>1
<1>4. \A m \in Nat : m \in T => m + 1 \in T
  <2>. SUFFICES ASSUME NEW m \in Nat, m <= N => FoundAmong(server, path, m, f[m]), m + 1 <= N
       PROVE  FoundAmong(server, path, m + 1, f[m + 1])
    OBVIOUS
  <2>1. FoundAmong(server, path, m, f[m]) /\ m + 1 \in 1 .. N /\ m \in 0 .. N - 1
    BY <1>2
  <2>2. f[m + 1] = BetterLocation(server, path, f[m], m + 1)
    BY <1>1, <2>1
  <2>. QED
    BY <2>1, <2>2, BetterFound
<1>. HIDE DEF T
<1>5. N \in T
  BY <1>2, <1>3, <1>4, Induction
<1>. QED
  BY <1>1, <1>2, <1>5 DEF T

(* What stands for a wildcard at the head, or at the end, of a name.        *)
LEMMA StandsBefore ==
    ASSUME NEW S, NEW w \in Seq(S), NEW host \in Seq(S)
    PROVE  Len(host) > Len(w) /\ IsSuffix(w, host) <=>
             \E k \in DOMAIN host : SubSeq(host, 1, k) \o w = host
<1>. DEFINE n == Len(w)
            m == Len(host)
<1>1. n \in Nat /\ m \in Nat /\ DOMAIN host = 1 .. m
  OBVIOUS
<1>2. \A k \in 1 .. m : /\ SubSeq(host, 1, k) \in Seq(S) /\ Len(SubSeq(host, 1, k)) = k
                        /\ \A i \in 1 .. k : SubSeq(host, 1, k)[i] = host[i]
  OBVIOUS
<1>3. IsSuffix(w, host) <=> n <= m /\ \A i \in 1 .. n : w[i] = host[(m - n) + i]
  BY SuffixIs
<1>4. ASSUME NEW k \in 1 .. m
      PROVE  LET c == SubSeq(host, 1, k) \o w
             IN  /\ c \in Seq(S) /\ Len(c) = k + n
                 /\ \A i \in 1 .. k : c[i] = host[i]
                 /\ \A i \in 1 .. n : c[k + i] = w[i]
  <2>. DEFINE u == SubSeq(host, 1, k)
  <2>1. u \in Seq(S) /\ Len(u) = k /\ \A i \in 1 .. k : u[i] = host[i]
    BY <1>2
  <2>. HIDE DEF u
  <2>2. /\ u \o w \in Seq(S) /\ Len(u \o w) = k + n
        /\ \A i \in 1 .. k + n : (u \o w)[i] = IF i <= k THEN u[i] ELSE w[i - k]
    BY <2>1, ConcatProperties
  <2>3. \A i \in 1 .. k : (u \o w)[i] = host[i]
    BY <1>1, <2>1, <2>2
  <2>4. ASSUME NEW i \in 1 .. n PROVE (u \o w)[k + i] = w[i]
    <3>1. k + i \in 1 .. k + n /\ ~(k + i <= k) /\ (k + i) - k = i
      BY <1>1
    <3>. QED
      BY <2>2, <3>1
  <2>. QED
    BY <2>2, <2>3, <2>4 DEF u
<1>. HIDE DEF n, m
<1>5. ASSUME m > n, IsSuffix(w, host) PROVE \E k \in DOMAIN host : SubSeq(host, 1, k) \o w = host
  <2>. DEFINE k == m - n
              c == SubSeq(host, 1, k) \o w
  <2>1. k \in 1 .. m /\ k + n = m /\ k \in Nat
    BY <1>1, <1>5
  <2>2. /\ c \in Seq(S) /\ Len(c) = k + n
        /\ \A i \in 1 .. k : c[i] = host[i]
        /\ \A i \in 1 .. n : c[k + i] = w[i]
    BY <1>4, <2>1
  <2>3. \A i \in 1 .. n : w[i] = host[k + i]
    BY <1>3, <1>5
  <2>. HIDE DEF c, k
  <2>4. ASSUME NEW i \in 1 .. m PROVE c[i] = host[i]
    <3>1. CASE i \in 1 .. k
      BY <2>2, <3>1
    <3>2. CASE i \notin 1 .. k
      <4>1. i - k \in 1 .. n /\ k + (i - k) = i
        BY <1>1, <2>1, <3>2
      <4>. QED
        BY <2>2, <2>3, <4>1
    <3>. QED
      BY <3>1, <3>2
  <2>5. Len(host) = m
    BY DEF m
  <2>6. c = host
    BY <2>1, <2>2, <2>4, <2>5, SeqEqual
  <2>. QED
    BY <1>1, <2>1, <2>6 DEF c
<1>6. ASSUME NEW k \in DOMAIN host, SubSeq(host, 1, k) \o w = host PROVE m > n /\ IsSuffix(w, host)
  <2>1. k \in 1 .. m /\ m = k + n /\ \A i \in 1 .. n : host[k + i] = w[i]
    BY <1>1, <1>4, <1>6 DEF m
  <2>2. m - n = k /\ n <= m /\ m > n
    BY <1>1, <2>1
  <2>. QED
    BY <1>3, <2>1, <2>2
<1>. QED
  BY <1>5, <1>6 DEF n, m

LEMMA StandsAfter ==
    ASSUME NEW S, NEW w \in Seq(S), NEW host \in Seq(S)
    PROVE  Len(host) > Len(w) /\ IsPrefix(w, host) <=>
             \E k \in DOMAIN host : w \o SubSeq(host, k, Len(host)) = host
<1>. DEFINE n == Len(w)
            m == Len(host)
<1>1. n \in Nat /\ m \in Nat /\ DOMAIN host = 1 .. m
  OBVIOUS
<1>2. \A k \in 1 .. m : /\ SubSeq(host, k, m) \in Seq(S) /\ Len(SubSeq(host, k, m)) = (m - k) + 1
                        /\ \A i \in 1 .. (m - k) + 1 : SubSeq(host, k, m)[i] = host[(k - 1) + i]
  OBVIOUS
<1>3. IsPrefix(w, host) <=> n <= m /\ \A i \in 1 .. n : w[i] = host[i]
  BY PrefixIs
<1>4. ASSUME NEW k \in 1 .. m
      PROVE  LET c == w \o SubSeq(host, k, m)
             IN  /\ c \in Seq(S) /\ Len(c) = n + ((m - k) + 1)
                 /\ \A i \in 1 .. n : c[i] = w[i]
                 /\ \A i \in 1 .. (m - k) + 1 : c[n + i] = host[(k - 1) + i]
  <2>. DEFINE u == SubSeq(host, k, m)
              d == (m - k) + 1
  <2>1. u \in Seq(S) /\ Len(u) = d /\ \A i \in 1 .. d : u[i] = host[(k - 1) + i]
    BY <1>2
  <2>2. d \in Nat
    BY <1>1
  <2>. HIDE DEF u, d
  <2>3. /\ w \o u \in Seq(S) /\ Len(w \o u) = n + d
        /\ \A i \in 1 .. n + d : (w \o u)[i] = IF i <= n THEN w[i] ELSE u[i - n]
    BY <2>1, ConcatProperties
  <2>4. \A i \in 1 .. n : (w \o u)[i] = w[i]
    BY <1>1, <2>2, <2>3
  <2>5. ASSUME NEW i \in 1 .. d PROVE (w \o u)[n + i] = host[(k - 1) + i]
    <3>1. n + i \in 1 .. n + d /\ ~(n + i <= n) /\ (n + i) - n = i
      BY <1>1, <2>2
    <3>. QED
      BY <2>1, <2>3, <3>1
  <2>. QED
    BY <2>3, <2>4, <2>5 DEF u, d
<1>. HIDE DEF n, m
<1>5. ASSUME m > n, IsPrefix(w, host) PROVE \E k \in DOMAIN host : w \o SubSeq(host, k, m) = host
  <2>. DEFINE k == n + 1
              c == w \o SubSeq(host, k, m)
  <2>1. k \in 1 .. m /\ n + ((m - k) + 1) = m /\ k - 1 = n
    BY <1>1, <1>5
  <2>2. /\ c \in Seq(S) /\ Len(c) = m
        /\ \A i \in 1 .. n : c[i] = w[i]
        /\ \A i \in 1 .. (m - k) + 1 : c[n + i] = host[n + i]
    BY <1>4, <2>1
  <2>. HIDE DEF c, k
  <2>3. ASSUME NEW i \in 1 .. m PROVE c[i] = host[i]
    <3>1. CASE i \in 1 .. n
      BY <1>3, <1>5, <2>2, <3>1
    <3>2. CASE i \notin 1 .. n
      <4>1. i - n \in 1 .. (m - k) + 1 /\ n + (i - n) = i
        BY <1>1, <2>1, <3>2
      <4>. QED
        BY <2>2, <4>1
    <3>. QED
      BY <3>1, <3>2
  <2>4. Len(host) = m
    BY DEF m
  <2>5. c = host
    BY <2>2, <2>3, <2>4, SeqEqual
  <2>. QED
    BY <1>1, <2>1, <2>5 DEF c
<1>6. ASSUME NEW k \in DOMAIN host, w \o SubSeq(host, k, m) = host PROVE m > n /\ IsPrefix(w, host)
  <2>1. k \in 1 .. m /\ m = n + ((m - k) + 1) /\ \A i \in 1 .. n : host[i] = w[i]
    BY <1>1, <1>4, <1>6 DEF m
  <2>2. n <= m /\ m > n
    BY <1>1, <2>1
  <2>. QED
    BY <1>3, <2>1, <2>2
<1>. QED
  BY <1>5, <1>6 DEF n, m

LEMMA ServerNameParts ==
    ASSUME NEW name \in ServerNames
    PROVE  /\ name \in Seq(Symbols) /\ Len(name) \in Nat /\ Len(name) > 0
           /\ Tail(name) \in Seq(Symbols) /\ Len(Tail(name)) = Len(name) - 1
           /\ Front(name) \in Seq(Symbols) /\ Len(Front(name)) = Len(name) - 1
           /\ name[1] = "*" => Last(name) # "*"
           /\ Last(name) = "*" => Len(name) > 2
<1>1. /\ name \in Seq(Symbols) /\ name # <<>>
      /\ name[1] = "*" => Last(name) # "*"
      /\ Last(name) = "*" => Len(name) > 2
  BY DEF ServerNames, Words
<1>2. Len(name) \in Nat /\ Len(name) > 0
  BY <1>1
<1>3. Tail(name) \in Seq(Symbols) /\ Len(Tail(name)) = Len(name) - 1
  BY <1>1, <1>2
<1>4. Front(name) \in Seq(Symbols) /\ Len(Front(name)) = Len(name) - 1
  <2>1. Front(name) = SubSeq(name, 1, Len(name) - 1)
    BY DEF Front
  <2>2. \A k \in 0 .. Len(name) : SubSeq(name, 1, k) \in Seq(Symbols) /\ Len(SubSeq(name, 1, k)) = k
    BY <1>1
  <2>3. Len(name) - 1 \in 0 .. Len(name)
    BY <1>2
  <2>. QED
    BY <2>1, <2>2, <2>3
<1>. QED
  BY <1>1, <1>2, <1>3, <1>4

(* A turn of MatchHostName takes the name for what it is worth.             *)
LEMMA WorthIs ==
    ASSUME NEW name \in ServerNames, NEW host \in Words
    PROVE  /\ Worth(name, host) \in MatchTypes
           /\ Worth(name, host) = EXACT_MATCH <=> name = host
           /\ \A b : BetterName(host, b, name) =
                       IF b.type = EXACT_MATCH \/ Worth(name, host) = NO_MATCH THEN b
                       ELSE [type |-> Worth(name, host), name |-> name]
<1>. DEFINE before == \E k \in DOMAIN host : SubSeq(host, 1, k) \o Tail(name) = host
            after == \E k \in DOMAIN host : Front(name) \o SubSeq(host, k, Len(host)) = host
            tail == IsSuffix(Tail(name), host)
            front == IsPrefix(Front(name), host)
            long == Len(host) >= Len(name)
            w == Worth(name, host)
<1>1. host \in Seq(Symbols) /\ Len(host) \in Nat
  BY DEF Words
<1>2. before <=> long /\ tail
  <2>1. Len(host) > Len(Tail(name)) /\ IsSuffix(Tail(name), host) <=> before
    BY <1>1, ServerNameParts, StandsBefore
  <2>2. Len(host) > Len(Tail(name)) <=> long
    BY <1>1, ServerNameParts
  <2>. QED
    BY <2>1, <2>2
<1>3. after <=> long /\ front
  <2>1. Len(host) > Len(Front(name)) /\ IsPrefix(Front(name), host) <=> after
    BY <1>1, ServerNameParts, StandsAfter
  <2>2. Len(host) > Len(Front(name)) <=> long
    BY <1>1, ServerNameParts
  <2>. QED
    BY <2>1, <2>2
<1>4. /\ name[1] = "*" => Last(name) # "*"
      /\ Last(name) = "*" => Len(name) > 2
  BY ServerNameParts
<1>5. w = CASE name = host -> EXACT_MATCH
            [] name # host /\ name[1] = "*" /\ before -> PREFIX_MATCH
            [] name # host /\ Last(name) = "*" /\ after -> SUFFIX_MATCH
            [] OTHER -> NO_MATCH
  BY DEF Worth
<1>6. \A b : BetterName(host, b, name) =
        IF b.type = EXACT_MATCH THEN b ELSE
        CASE host = name -> [type |-> EXACT_MATCH, name |-> name]
          [] host # name /\ name[1] = "*" /\ long /\ tail -> [type |-> PREFIX_MATCH, name |-> name]
          [] host # name /\ name[1] # "*" /\ Last(name) = "*" /\ long /\ Len(name) > 2 /\ front ->
               [type |-> SUFFIX_MATCH, name |-> name]
          [] OTHER -> b
  BY DEF BetterName
<1>. HIDE DEF before, after, tail, front, long, w
<1>7. /\ name = host => w = EXACT_MATCH
      /\ name # host /\ name[1] = "*" /\ long /\ tail => w = PREFIX_MATCH
      /\ name # host /\ Last(name) = "*" /\ long /\ front => w = SUFFIX_MATCH
      /\ name # host /\ ~(name[1] = "*" /\ long /\ tail) /\ ~(Last(name) = "*" /\ long /\ front) => w = NO_MATCH
  BY <1>2, <1>3, <1>4, <1>5
<1>8. w \in MatchTypes /\ (w = EXACT_MATCH <=> name = host)
  BY <1>7 DEF MatchTypes, NO_MATCH, SUFFIX_MATCH, PREFIX_MATCH, EXACT_MATCH
<1>9. NO_MATCH # SUFFIX_MATCH /\ NO_MATCH # PREFIX_MATCH /\ NO_MATCH # EXACT_MATCH
  BY DEF NO_MATCH, SUFFIX_MATCH, PREFIX_MATCH, EXACT_MATCH
<1>10. ASSUME NEW b
       PROVE  BetterName(host, b, name) =
                IF b.type = EXACT_MATCH \/ w = NO_MATCH THEN b ELSE [type |-> w, name |-> name]
  <2>1. CASE b.type = EXACT_MATCH
    <3>1. BetterName(host, b, name) = b
      BY <1>6, <2>1
    <3>. QED
      BY <2>1, <3>1
  <2>2. CASE b.type # EXACT_MATCH /\ name = host
    <3>1. BetterName(host, b, name) = [type |-> EXACT_MATCH, name |-> name]
      BY <1>6, <2>2
    <3>. QED
      BY <1>7, <1>9, <2>2, <3>1
  <2>3. CASE b.type # EXACT_MATCH /\ name # host /\ name[1] = "*" /\ long /\ tail
    <3>1. BetterName(host, b, name) = [type |-> PREFIX_MATCH, name |-> name]
      BY <1>6, <2>3
    <3>. QED
      BY <1>7, <1>9, <2>3, <3>1
  <2>4. CASE b.type # EXACT_MATCH /\ name # host /\ Last(name) = "*" /\ long /\ front
    <3>1. BetterName(host, b, name) = [type |-> SUFFIX_MATCH, name |-> name]
      BY <1>4, <1>6, <2>4
    <3>. QED
      BY <1>7, <1>9, <2>4, <3>1
  <2>5. CASE /\ b.type # EXACT_MATCH /\ name # host
             /\ ~(name[1] = "*" /\ long /\ tail) /\ ~(Last(name) = "*" /\ long /\ front)
    <3>1. BetterName(host, b, name) = b
      BY <1>6, <2>5
    <3>. QED
      BY <1>7, <2>5, <3>1
  <2>. QED
    BY <2>1, <2>2, <2>3, <2>4, <2>5
<1>. QED
  BY <1>8, <1>10 DEF w

(* MatchHostName finds a name when one fits, and the host when it is there. *)
NameAmong(host, names, m, b) ==
    /\ b \in Matches
    /\ \/ b = NoName /\ \A i \in 1 .. m : Worth(names[i], host) = NO_MATCH
       \/ /\ b.type # NO_MATCH
          /\ \E j \in 1 .. m : b.name = names[j] /\ b.type = Worth(names[j], host)
    /\ \A i \in 1 .. m : names[i] = host => b.type = EXACT_MATCH

LEMMA BetterNameAmong ==
    ASSUME NEW host \in Words, NEW names \in Seq(ServerNames), NEW m \in Nat,
           m + 1 \in 1 .. Len(names), NEW b, NameAmong(host, names, m, b)
    PROVE  NameAmong(host, names, m + 1, BetterName(host, b, names[m + 1]))
<1>. DEFINE n == m + 1
            name == names[n]
            w == Worth(name, host)
            c == BetterName(host, b, name)
<1>1. name \in ServerNames
  OBVIOUS
<1>2. /\ w = EXACT_MATCH <=> name = host
      /\ c = IF b.type = EXACT_MATCH \/ w = NO_MATCH THEN b ELSE [type |-> w, name |-> name]
  BY <1>1, WorthIs
<1>3. c \in Matches
  BY <1>1, BetterNameIsMatch DEF NameAmong
<1>4. n \in 1 .. n /\ 1 .. n = 1 .. m \cup {n}
  OBVIOUS
<1>5. NO_MATCH # EXACT_MATCH
  BY DEF NO_MATCH, EXACT_MATCH
<1>6. NoName.type = NO_MATCH
  BY DEF NoName
<1>. SUFFICES NameAmong(host, names, n, c)
  OBVIOUS
<1>7. name = names[n] /\ w = Worth(names[n], host)
  OBVIOUS
<1>. HIDE DEF n, w, c, name
<1>8. CASE b.type = EXACT_MATCH \/ w = NO_MATCH
  <2>1. c = b
    BY <1>2, <1>8
  <2>. QED
    BY <1>2, <1>4, <1>5, <1>6, <1>7, <1>8, <2>1 DEF NameAmong
<1>9. CASE b.type # EXACT_MATCH /\ w # NO_MATCH
  <2>1. c = [type |-> w, name |-> name]
    BY <1>2, <1>9
  <2>2. \A i \in 1 .. m : names[i] # host
    BY <1>9 DEF NameAmong
  <2>3. c.type = w /\ c.name = name
    BY <2>1
  <2>4. \A i \in 1 .. n : names[i] = host => c.type = EXACT_MATCH
    BY <1>2, <1>4, <1>7, <2>2, <2>3
  <2>5. c.type # NO_MATCH /\ \E j \in 1 .. n : c.name = names[j] /\ c.type = Worth(names[j], host)
    BY <1>4, <1>7, <1>9, <2>3
  <2>. QED
    BY <1>3, <2>4, <2>5 DEF NameAmong
<1>. QED
  BY <1>8, <1>9

LEMMA NameIsFound ==
    ASSUME NEW host \in Words, NEW names \in Seq(ServerNames)
    PROVE  NameAmong(host, names, Len(names), MatchHostName(host, names))
<1>1. PICK f : /\ f[0] = NoName
               /\ \A m \in 0 .. Len(names) - 1 : f[m + 1] = BetterName(host, f[m], names[m + 1])
               /\ MatchHostName(host, names) = f[Len(names)]
  BY HostNameRuns
<1>. DEFINE N == Len(names)
            T == {m \in Nat : m <= N => NameAmong(host, names, m, f[m])}
<1>2. N \in Nat
  OBVIOUS
<1>3. 0 \in T
  <2>1. NoName \in Matches
    BY DEF NoName, Matches, MatchTypes, NO_MATCH
  <2>2. NameAmong(host, names, 0, f[0])
    BY <1>1, <2>1 DEF NameAmong
  <2>. QED
    BY <2>2
<1>4. \A m \in Nat : m \in T => m + 1 \in T
  <2>. SUFFICES ASSUME NEW m \in Nat, m <= N => NameAmong(host, names, m, f[m]), m + 1 <= N
       PROVE  NameAmong(host, names, m + 1, f[m + 1])
    OBVIOUS
  <2>1. NameAmong(host, names, m, f[m]) /\ m + 1 \in 1 .. N /\ m \in 0 .. N - 1
    BY <1>2
  <2>2. f[m + 1] = BetterName(host, f[m], names[m + 1])
    BY <1>1, <2>1
  <2>. QED
    BY <2>1, <2>2, BetterNameAmong
<1>. HIDE DEF T
<1>5. N \in T
  BY <1>2, <1>3, <1>4, Induction
<1>. QED
  BY <1>1, <1>2, <1>5 DEF T

(* Of names of which at most one is not the host, it finds the best.        *)
Fitting(names, host) == {n \in ToSet(names) : Worth(n, host) # NO_MATCH}
NoBetter(t, n, b) == t < b.type \/ (t = b.type /\ Len(n) <= Len(b.name))

LEMMA NameIsBest ==
    ASSUME NEW host \in Words, NEW names \in Seq(ServerNames), NEW b,
           NameAmong(host, names, Len(names), b),
           \A n, m \in Fitting(names, host) \ {host} : n = m
    PROVE  /\ b.type = NO_MATCH => Fitting(names, host) = {}
           /\ b.type # NO_MATCH => b.name \in Fitting(names, host) /\ b.type = Worth(b.name, host)
           /\ \A n \in Fitting(names, host) : NoBetter(Worth(n, host), n, b)
<1>. DEFINE N == Len(names)
<1>1. /\ \A i \in 1 .. N : names[i] \in ServerNames
      /\ \A n : n \in ToSet(names) <=> \E i \in 1 .. N : n = names[i]
  BY DEF ToSet
<1>2. NoName.type = NO_MATCH
  BY DEF NoName
<1>3. CASE b.type = NO_MATCH
  <2>1. \A i \in 1 .. N : Worth(names[i], host) = NO_MATCH
    BY <1>3 DEF NameAmong
  <2>2. Fitting(names, host) = {}
    BY <1>1, <2>1 DEF Fitting
  <2>. QED
    BY <1>3, <2>2
<1>4. CASE b.type # NO_MATCH
  <2>1. PICK j \in 1 .. N : b.name = names[j] /\ b.type = Worth(names[j], host)
    BY <1>2, <1>4 DEF NameAmong
  <2>2. b.name \in Fitting(names, host) /\ b.type = Worth(b.name, host)
    BY <1>1, <1>4, <2>1 DEF Fitting
  <2>3. b.name \in ServerNames /\ Len(b.name) \in Nat /\ b.type \in MatchTypes /\ (b.type = EXACT_MATCH <=> b.name = host)
    BY <1>1, <2>1, WorthIs, ServerNameParts
  <2>4. ASSUME NEW n \in Fitting(names, host) PROVE NoBetter(Worth(n, host), n, b)
    <3>1. n \in ServerNames /\ \E i \in 1 .. N : n = names[i]
      BY <1>1 DEF Fitting
    <3>2. Worth(n, host) \in MatchTypes /\ (Worth(n, host) = EXACT_MATCH <=> n = host)
      BY <3>1, WorthIs
    <3>3. CASE n = host
      <4>1. b.type = EXACT_MATCH /\ b.name = n
        BY <2>3, <3>1, <3>3 DEF NameAmong
      <4>2. Len(n) <= Len(b.name)
        BY <2>3, <4>1
      <4>. QED
        BY <3>2, <3>3, <4>1, <4>2 DEF NoBetter
    <3>4. CASE n # host /\ b.name = host
      <4>1. Worth(n, host) < b.type
        BY <2>3, <3>2, <3>4 DEF MatchTypes, EXACT_MATCH
      <4>. QED
        BY <4>1 DEF NoBetter
    <3>5. CASE n # host /\ b.name # host
      <4>1. n = b.name
        BY <2>2, <3>5
      <4>2. Len(n) <= Len(b.name)
        BY <2>3, <4>1
      <4>. QED
        BY <2>2, <4>1, <4>2 DEF NoBetter
    <3>. QED
      BY <3>3, <3>4, <3>5
  <2>. QED
    BY <1>4, <2>2, <2>4
<1>. QED
  BY <1>3, <1>4

-----------------------------------------------------------------------------
(* The servers of an address.                                               *)

LEMMA ServerTyped ==
    ASSUME cluster.servers \in Seq(ServerConfigs), NEW i \in DOMAIN cluster.servers
    PROVE  /\ cluster.servers[i].listen \in Seq(STRING)
           /\ cluster.servers[i].names \in Seq(ServerNames)
           /\ cluster.servers[i].locations \in Seq(LocationConfigs)
<1>1. cluster.servers[i] \in ServerConfigs
  OBVIOUS
<1>. QED
  BY <1>1 DEF ServerConfigs

LEMMA ServersAreAt ==
    ASSUME cluster.servers \in Seq(ServerConfigs), NEW address \in Addresses
    PROVE  /\ ServersAt(address) \in Seq(DOMAIN cluster.servers)
           /\ Len(ServersAt(address)) > 0
<1>. DEFINE D == DOMAIN cluster.servers
            Here(i) == [k \in DOMAIN cluster.servers[i].listen |->
                          IF cluster.servers[i].listen[k] = address THEN <<i>> ELSE <<>>]
            pieces == [i \in D |-> FlattenSeq(Here(i))]
            n == Len(cluster.servers)
<1>1. n \in Nat /\ D = 1 .. n
  OBVIOUS
<1>2. ASSUME NEW i \in D
      PROVE  /\ Here(i) \in Seq(Seq(D)) /\ Len(Here(i)) = Len(cluster.servers[i].listen)
             /\ Len(cluster.servers[i].listen) \in Nat
             /\ DOMAIN cluster.servers[i].listen = 1 .. Len(cluster.servers[i].listen)
  <2>. DEFINE l == cluster.servers[i].listen
              m == Len(l)
  <2>1. l \in Seq(STRING)
    BY ServerTyped
  <2>2. m \in Nat /\ DOMAIN l = 1 .. m
    BY <2>1
  <2>3. <<i>> \in Seq(D) /\ <<>> \in Seq(D)
    <3>. HIDE DEF D
    <3>. QED
      OBVIOUS
  <2>4. Here(i) \in [1 .. m -> Seq(D)]
    <3>. HIDE DEF D
    <3>. QED
      BY <2>2, <2>3
  <2>. HIDE DEF Here, D, m
  <2>5. Here(i) \in Seq(Seq(D)) /\ Len(Here(i)) = m
    BY <2>2, <2>4, FunctionIsSeq
  <2>. QED
    BY <2>2, <2>5 DEF m
<1>3. ServersAt(address) = FlattenSeq(pieces)
  BY DEF ServersAt
<1>. HIDE DEF D, Here
<1>4. \A i \in D : FlattenSeq(Here(i)) \in Seq(D)
  BY <1>2, FlattenType
<1>5. pieces \in [1 .. n -> Seq(D)]
  BY <1>1, <1>4
<1>6. \A i \in D : pieces[i] = FlattenSeq(Here(i))
  OBVIOUS
<1>. HIDE DEF pieces
<1>7. pieces \in Seq(Seq(D)) /\ Len(pieces) = n
  <2>. HIDE DEF n
  <2>. QED
    BY <1>1, <1>5, FunctionIsSeq
<1>8. ServersAt(address) \in Seq(D)
  BY <1>3, <1>7, FlattenType
<1>9. PICK i \in D : address \in ToSet(cluster.servers[i].listen)
  BY DEF Addresses, D
<1>10. PICK k \in DOMAIN cluster.servers[i].listen : cluster.servers[i].listen[k] = address
  BY <1>9 DEF ToSet
<1>11. Here(i)[k] = <<i>>
  BY <1>10 DEF Here
<1>12. Len(FlattenSeq(Here(i))) > 0
  <2>. DEFINE h == Here(i)
  <2>1. h \in Seq(Seq(D)) /\ k \in 1 .. Len(h) /\ h[k] = <<i>>
    BY <1>2, <1>10, <1>11
  <2>. HIDE DEF h
  <2>2. k - 1 \in 0 .. Len(h) - 1 /\ (k - 1) + 1 = k
    BY <2>1
  <2>3. Occurs(h[(k - 1) + 1], FlattenSeq(h), Len(FirstOf(h, k - 1)))
    BY <2>1, <2>2, ElementOccurs
  <2>4. Occurs(<<i>>, FlattenSeq(h), Len(FirstOf(h, k - 1)))
    BY <2>1, <2>2, <2>3
  <2>5. FirstOf(h, k - 1) \in Seq(D)
    BY <2>1, <2>2, FirstOfType
  <2>6. Len(FirstOf(h, k - 1)) \in Nat
    BY <2>5
  <2>7. FlattenSeq(h) \in Seq(D)
    BY <2>1, FlattenType
  <2>. QED
    BY <2>4, <2>6, <2>7 DEF Occurs, h
<1>13. Len(FlattenSeq(pieces)) > 0
  <2>1. i \in 1 .. Len(pieces)
    BY <1>1, <1>7
  <2>2. i - 1 \in 0 .. Len(pieces) - 1 /\ (i - 1) + 1 = i
    BY <2>1
  <2>3. Occurs(pieces[(i - 1) + 1], FlattenSeq(pieces), Len(FirstOf(pieces, i - 1)))
    BY <1>7, <2>2, ElementOccurs
  <2>4. pieces[i] = FlattenSeq(Here(i)) /\ pieces[i] \in Seq(D)
    BY <1>4, <1>6
  <2>5. FirstOf(pieces, i - 1) \in Seq(D)
    BY <1>7, <2>2, FirstOfType
  <2>6. Len(FirstOf(pieces, i - 1)) \in Nat
    BY <2>5
  <2>7. FlattenSeq(pieces) \in Seq(D)
    BY <1>7, FlattenType
  <2>8. Len(FlattenSeq(pieces)) \in Nat /\ Len(pieces[i]) \in Nat
    BY <2>4, <2>7
  <2>9. Len(FirstOf(pieces, i - 1)) + Len(pieces[i]) <= Len(FlattenSeq(pieces))
    BY <2>2, <2>3 DEF Occurs
  <2>10. Len(pieces[i]) > 0
    BY <1>12, <2>4
  <2>11. \A a, b, c \in Nat : a + b <= c /\ b > 0 => c > 0
    OBVIOUS
  <2>. QED
    BY <2>6, <2>8, <2>9, <2>10, <2>11, Zenon
<1>. QED
  BY <1>3, <1>8, <1>13 DEF D

(* ChooseServer keeps the first of the best matches of the servers so far.  *)
Match(host, i) == MatchHostName(host, cluster.servers[i].names)
Beaten(x, b) == x.type < b.type \/ (x.type = b.type /\ Len(x.name) < Len(b.name))
Unbeaten(x, b) == NoBetter(x.type, x.name, b)

ServerAmong(address, host, m, b) ==
    LET at == ServersAt(address)
    IN  \/ b = NoServer(address) /\ \A k \in 1 .. m : Match(host, at[k]).type = NO_MATCH
        \/ /\ b.type # NO_MATCH
           /\ \A k \in 1 .. m : Unbeaten(Match(host, at[k]), b)
           /\ \E j \in 1 .. m : /\ b.server = at[j] /\ b.type = Match(host, at[j]).type
                                /\ b.name = Match(host, at[j]).name
                                /\ \A k \in 1 .. j - 1 : Beaten(Match(host, at[k]), b)

(* Matches in the order of their type and length.                           *)
Ordered(x) == x.type \in MatchTypes /\ Len(x.name) \in Nat /\ (x.type = NO_MATCH => Len(x.name) = 0)

LEMMA BetterServerAmong ==
    ASSUME NEW address, NEW host, NEW m \in Nat, NEW b, ServerAmong(address, host, m, b),
           \A k \in 1 .. m + 1 : Ordered(Match(host, ServersAt(address)[k]))
    PROVE  ServerAmong(address, host, m + 1, BetterServer(host, b, ServersAt(address)[m + 1]))
<1>. DEFINE at == ServersAt(address)
            M(k) == Match(host, at[k])
            t(k) == M(k).type
            l(k) == Len(M(k).name)
            n == m + 1
            c == BetterServer(host, b, at[n])
            Found(h, d) ==
                /\ d.type # NO_MATCH
                /\ \A k \in 1 .. h : Unbeaten(M(k), d)
                /\ \E j \in 1 .. h : /\ d.server = at[j] /\ d.type = t(j) /\ d.name = M(j).name
                                     /\ \A k \in 1 .. j - 1 : Beaten(M(k), d)
            None(h, d) == d = NoServer(address) /\ \A k \in 1 .. h : t(k) = NO_MATCH
<1>1. c = IF \/ l(n) > Len(b.name) /\ t(n) = b.type
             \/ t(n) > b.type
          THEN [type |-> t(n), name |-> M(n).name, server |-> at[n]] ELSE b
  BY DEF BetterServer, Match
<1>2. n \in 1 .. n /\ 1 .. n = 1 .. m \cup {n} /\ 1 .. n - 1 = 1 .. m
  OBVIOUS
<1>3. \A k \in 1 .. n : t(k) \in 0 .. 3 /\ l(k) \in Nat /\ (t(k) = NO_MATCH => l(k) = 0)
  BY DEF Ordered, MatchTypes
<1>4. None(m, b) \/ Found(m, b)
  BY DEF ServerAmong
<1>5. SUFFICES None(n, c) \/ Found(n, c)
  <2>. SUFFICES ServerAmong(address, host, n, c)
    OBVIOUS
  <2>. HIDE DEF c, n
  <2>. QED
    BY DEF ServerAmong
<1>6. \A k : \A d : /\ Unbeaten(M(k), d) <=> t(k) < d.type \/ (t(k) = d.type /\ l(k) <= Len(d.name))
                    /\ Beaten(M(k), d) <=> t(k) < d.type \/ (t(k) = d.type /\ l(k) < Len(d.name))
  BY DEF Unbeaten, NoBetter, Beaten
<1>7. \A k : Len(M(k).name) = l(k)
  OBVIOUS
<1>. HIDE DEF t, l, M, at
<1>8. CASE \/ l(n) > Len(b.name) /\ t(n) = b.type
           \/ t(n) > b.type
  <2>1. c = [type |-> t(n), name |-> M(n).name, server |-> at[n]]
    BY <1>1, <1>8
  <2>2. c.type = t(n) /\ Len(c.name) = l(n) /\ c.name = M(n).name /\ c.server = at[n]
    BY <1>7, <2>1
  <2>. HIDE DEF c, n
  <2>3. b.type \in 0 .. 3 /\ Len(b.name) \in Nat /\ (b.type = NO_MATCH => Len(b.name) = 0)
    <3>1. CASE None(m, b)
      BY <3>1 DEF NoServer, NO_MATCH
    <3>2. CASE Found(m, b)
      <4>1. PICK j \in 1 .. m : b.type = t(j) /\ b.name = M(j).name
        BY <3>2
      <4>2. Len(b.name) = l(j) /\ j \in 1 .. n
        BY <1>2, <1>7, <4>1
      <4>. QED
        BY <1>3, <4>1, <4>2
    <3>. QED
      BY <1>4, <3>1, <3>2
  <2>4. t(n) # NO_MATCH
    BY <1>2, <1>3, <1>8, <2>3 DEF NO_MATCH
  <2>5. ASSUME NEW k \in 1 .. m PROVE t(k) < b.type \/ (t(k) = b.type /\ l(k) <= Len(b.name))
    <3>1. CASE None(m, b)
      <4>1. b.type = NO_MATCH /\ t(k) = NO_MATCH /\ Len(b.name) = 0
        BY <3>1 DEF NoServer
      <4>. QED
        BY <1>2, <1>3, <4>1
    <3>2. CASE Found(m, b)
      BY <1>6, <3>2
    <3>. QED
      BY <1>4, <3>1, <3>2
  <2>6. ASSUME NEW k \in 1 .. m PROVE t(k) < t(n) \/ (t(k) = t(n) /\ l(k) < l(n))
    <3>1. t(k) \in 0 .. 3 /\ l(k) \in Nat /\ t(n) \in 0 .. 3 /\ l(n) \in Nat
      BY <1>2, <1>3
    <3>. QED
      BY <1>8, <2>3, <2>5, <3>1
  <2>7. \A k \in 1 .. m : Beaten(M(k), c)
    BY <1>6, <2>2, <2>6
  <2>8. ASSUME NEW k \in 1 .. n PROVE Unbeaten(M(k), c)
    <3>1. CASE k = n
      <4>1. l(n) <= l(n)
        BY <1>2, <1>3
      <4>. QED
        BY <1>6, <2>2, <3>1, <4>1
    <3>2. CASE k \in 1 .. m
      <4>1. l(k) \in Nat /\ l(n) \in Nat
        BY <1>2, <1>3
      <4>2. l(k) < l(n) => l(k) <= l(n)
        BY <4>1
      <4>. QED
        BY <1>6, <2>2, <2>6, <3>2, <4>2
    <3>. QED
      BY <1>2, <3>1, <3>2
  <2>9. Found(n, c)
    BY <1>2, <2>2, <2>4, <2>7, <2>8
  <2>. QED
    BY <2>9
<1>9. CASE ~(\/ l(n) > Len(b.name) /\ t(n) = b.type
             \/ t(n) > b.type)
  <2>1. c = b
    BY <1>1, <1>9
  <2>2. CASE None(m, b)
    <3>1. b.type = NO_MATCH
      BY <2>2 DEF NoServer
    <3>2. t(n) = NO_MATCH
      BY <1>2, <1>3, <1>9, <3>1 DEF NO_MATCH
    <3>3. None(n, c)
      <4>. HIDE DEF c, n
      <4>. QED
        BY <1>2, <2>1, <2>2, <3>2
    <3>. QED
      BY <3>3
  <2>3. CASE Found(m, b)
    <3>1. PICK j \in 1 .. m : /\ b.server = at[j] /\ b.type = t(j) /\ b.name = M(j).name
                              /\ \A k \in 1 .. j - 1 : Beaten(M(k), b)
      BY <2>3
    <3>2. Len(b.name) = l(j) /\ j \in 1 .. n
      BY <1>2, <1>7, <3>1
    <3>3. t(n) < b.type \/ (t(n) = b.type /\ l(n) <= Len(b.name))
      <4>. HIDE DEF n
      <4>1. t(n) \in 0 .. 3 /\ l(n) \in Nat /\ b.type \in 0 .. 3 /\ Len(b.name) \in Nat
        BY <1>2, <1>3, <3>1, <3>2
      <4>. QED
        BY <1>9, <4>1
    <3>. HIDE DEF c, n
    <3>4. Unbeaten(M(n), b)
      BY <1>6, <3>3
    <3>5. Found(n, c)
      BY <1>2, <2>1, <2>3, <3>1, <3>2, <3>4
    <3>. QED
      BY <3>5
  <2>. QED
    BY <1>4, <2>2, <2>3
<1>. QED
  BY <1>8, <1>9

LEMMA NamesAreOrdered ==
    ASSUME NEW host \in Words, NEW names \in Seq(ServerNames)
    PROVE  MatchHostName(host, names) \in Matches /\ Ordered(MatchHostName(host, names))
<1>. DEFINE b == MatchHostName(host, names)
<1>1. NameAmong(host, names, Len(names), b)
  BY NameIsFound
<1>. HIDE DEF b
<1>2. b \in Matches
  BY <1>1 DEF NameAmong
<1>3. b.type \in MatchTypes /\ b.name \in ServerNames \cup {<<>>}
  BY <1>2 DEF Matches
<1>4. Len(b.name) \in Nat
  BY <1>3, ServerNameParts
<1>5. b.type = NO_MATCH => b = NoName
  BY <1>1 DEF NameAmong
<1>6. b.type = NO_MATCH => Len(b.name) = 0
  BY <1>5 DEF NoName
<1>. QED
  BY <1>2, <1>3, <1>4, <1>6 DEF Ordered, b

LEMMA ServerIsFound ==
    ASSUME NEW address \in Addresses, NEW host \in Words, cluster.servers \in Seq(ServerConfigs)
    PROVE  \E b : /\ b.server = ChooseServer(address, host)
                  /\ ServerAmong(address, host, Len(ServersAt(address)), b)
<1>. DEFINE at == ServersAt(address)
            N == Len(at)
<1>1. at \in Seq(DOMAIN cluster.servers) /\ N \in Nat
  BY ServersAreAt
<1>2. \A i \in DOMAIN cluster.servers : Match(host, i) \in Matches /\ Ordered(Match(host, i))
  BY ServerTyped, NamesAreOrdered DEF Match
<1>3. HostNamesMatch(host)
  BY <1>2 DEF HostNamesMatch, Match
<1>4. \A k \in 1 .. N : Ordered(Match(host, at[k]))
  BY <1>1, <1>2
<1>5. PICK f : /\ f[0] = NoServer(address)
               /\ \A m \in 0 .. N - 1 : f[m + 1] = BetterServer(host, f[m], at[m + 1])
               /\ ChooseServer(address, host) = f[N].server
  BY <1>1, <1>3, ServerRuns
<1>. DEFINE T == {m \in Nat : m <= N => ServerAmong(address, host, m, f[m])}
<1>6. 0 \in T
  <2>1. ServerAmong(address, host, 0, f[0])
    BY <1>5 DEF ServerAmong
  <2>. QED
    BY <2>1
<1>7. \A m \in Nat : m \in T => m + 1 \in T
  <2>. SUFFICES ASSUME NEW m \in Nat, m <= N => ServerAmong(address, host, m, f[m]), m + 1 <= N
       PROVE  ServerAmong(address, host, m + 1, f[m + 1])
    OBVIOUS
  <2>1. ServerAmong(address, host, m, f[m]) /\ m \in 0 .. N - 1 /\ 1 .. m + 1 \subseteq 1 .. N
    BY <1>1
  <2>2. f[m + 1] = BetterServer(host, f[m], at[m + 1])
    BY <1>5, <2>1
  <2>3. \A k \in 1 .. m + 1 : Ordered(Match(host, at[k]))
    BY <1>4, <2>1
  <2>. QED
    BY <2>1, <2>2, <2>3, BetterServerAmong
<1>. HIDE DEF T
<1>8. N \in T
  BY <1>1, <1>6, <1>7, Induction
<1>. QED
  BY <1>1, <1>5, <1>8 DEF T

(* The server with the best name, and the location of a path, as            *)
(* RequestsGoToTheirSite states them.                                       *)
AtLeast(host, n, m) ==
    \/ Worth(n, host) > Worth(m, host)
    \/ Worth(n, host) = Worth(m, host) /\ Len(n) >= Len(m)
Best(address, host) ==
    LET at == ServersAt(address)
    IN  {k \in DOMAIN at : \E n \in Fitting(cluster.servers[at[k]].names, host) :
            \A i \in ToSet(at) : \A m \in Fitting(cluster.servers[i].names, host) : AtLeast(host, n, m)}

LEMMA ServerIsBest ==
    ASSUME NEW address \in Addresses, NEW host \in Words, cluster.servers \in Seq(ServerConfigs),
           \A i \in ToSet(ServersAt(address)) :
              \A n, m \in Fitting(cluster.servers[i].names, host) \ {host} : n = m
    PROVE  ChooseServer(address, host) =
             ServersAt(address)[IF Best(address, host) = {} THEN 1 ELSE Min(Best(address, host))]
<1>. DEFINE at == ServersAt(address)
            N == Len(at)
            F(k) == Fitting(cluster.servers[at[k]].names, host)
            M(k) == Match(host, at[k])
            W(n) == Worth(n, host)
            best == Best(address, host)
<1>1. at \in Seq(DOMAIN cluster.servers) /\ N \in Nat /\ DOMAIN at = 1 .. N
  BY ServersAreAt
<1>2. \A i : i \in ToSet(at) <=> \E k \in 1 .. N : i = at[k]
  BY <1>1 DEF ToSet
<1>3. ASSUME NEW k \in 1 .. N
      PROVE  /\ M(k).type = NO_MATCH => F(k) = {}
             /\ M(k).type # NO_MATCH => M(k).name \in F(k) /\ M(k).type = W(M(k).name)
             /\ \A n \in F(k) : NoBetter(W(n), n, M(k))
  <2>1. at[k] \in DOMAIN cluster.servers /\ at[k] \in ToSet(at)
    BY <1>1, <1>2
  <2>2. cluster.servers[at[k]].names \in Seq(ServerNames)
    BY <2>1, ServerTyped
  <2>3. NameAmong(host, cluster.servers[at[k]].names, Len(cluster.servers[at[k]].names), M(k))
    BY <2>2, NameIsFound DEF Match
  <2>4. \A n, m \in F(k) \ {host} : n = m
    BY <2>1
  <2>. HIDE DEF M, at
  <2>. QED
    BY <2>2, <2>3, <2>4, NameIsBest
<1>4. ASSUME NEW k \in 1 .. N, NEW n \in F(k)
      PROVE  W(n) \in MatchTypes /\ Len(n) \in Nat
  <2>1. at[k] \in DOMAIN cluster.servers
    BY <1>1
  <2>2. cluster.servers[at[k]].names \in Seq(ServerNames)
    BY <2>1, ServerTyped
  <2>3. n \in ServerNames
    BY <2>2 DEF Fitting, ToSet
  <2>. QED
    BY <2>3, WorthIs, ServerNameParts
<1>5. \A k : k \in best <=> /\ k \in 1 .. N
                            /\ \E n \in F(k) : \A h \in 1 .. N : \A m \in F(h) : AtLeast(host, n, m)
  <2>. SUFFICES ASSUME NEW k
                PROVE  k \in best <=> /\ k \in 1 .. N
                                      /\ \E n \in F(k) : \A h \in 1 .. N : \A m \in F(h) : AtLeast(host, n, m)
    OBVIOUS
  <2>1. k \in best <=> /\ k \in DOMAIN at
                       /\ \E n \in F(k) : \A i \in ToSet(at) :
                             \A m \in Fitting(cluster.servers[i].names, host) : AtLeast(host, n, m)
    BY DEF Best
  <2>2. \A n : (\A i \in ToSet(at) : \A m \in Fitting(cluster.servers[i].names, host) : AtLeast(host, n, m))
               <=> \A h \in 1 .. N : \A m \in F(h) : AtLeast(host, n, m)
    BY <1>2, Zenon
  <2>. QED
    BY <1>1, <2>1, <2>2, Zenon
<1>6. \A n, m : AtLeast(host, n, m) <=> W(n) > W(m) \/ (W(n) = W(m) /\ Len(n) >= Len(m))
  BY DEF AtLeast
<1>7. PICK b : b.server = ChooseServer(address, host) /\ ServerAmong(address, host, N, b)
  BY ServerIsFound
<1>8. ServersAt(address) = at /\ Best(address, host) = best
  OBVIOUS
<1>9. CASE b = NoServer(address) /\ \A k \in 1 .. N : M(k).type = NO_MATCH
  <2>1. best = {}
    BY <1>3, <1>5, <1>9
  <2>2. b.server = at[1]
    BY <1>9 DEF NoServer
  <2>. QED
    BY <1>7, <1>8, <2>1, <2>2
<1>10. CASE /\ b.type # NO_MATCH
            /\ \A k \in 1 .. N : Unbeaten(M(k), b)
            /\ \E j \in 1 .. N : /\ b.server = at[j] /\ b.type = M(j).type
                                 /\ b.name = M(j).name
                                 /\ \A k \in 1 .. j - 1 : Beaten(M(k), b)
  <2>1. PICK j \in 1 .. N : /\ b.server = at[j] /\ b.type = M(j).type /\ b.name = M(j).name
                            /\ \A k \in 1 .. j - 1 : Beaten(M(k), b)
    BY <1>10
  <2>. DEFINE x == b.name
  <2>2. x \in F(j) /\ W(x) = b.type
    BY <1>3, <1>10, <2>1
  <2>3. W(x) \in MatchTypes /\ Len(x) \in Nat
    BY <1>4, <2>2
  <2>4. ASSUME NEW k \in 1 .. N, NEW n \in F(k)
        PROVE  /\ W(n) \in MatchTypes /\ Len(n) \in Nat
               /\ W(n) < M(k).type \/ (W(n) = M(k).type /\ Len(n) <= Len(M(k).name))
               /\ M(k).type \in MatchTypes /\ Len(M(k).name) \in Nat
    <3>1. NoBetter(W(n), n, M(k)) /\ M(k).name \in F(k) /\ M(k).type = W(M(k).name)
      BY <1>3
    <3>2. W(M(k).name) \in MatchTypes /\ Len(M(k).name) \in Nat
      BY <1>4, <3>1
    <3>. QED
      BY <1>4, <3>1, <3>2 DEF NoBetter
  <2>5. ASSUME NEW k \in 1 .. N, NEW n \in F(k) PROVE AtLeast(host, x, n)
    <3>1. M(k).type < b.type \/ (M(k).type = b.type /\ Len(M(k).name) <= Len(x))
      BY <1>10 DEF Unbeaten, NoBetter
    <3>. DEFINE p == W(n)
                q == M(k).type
                r == b.type
                u == Len(n)
                v == Len(M(k).name)
                w == Len(x)
    <3>2. /\ p \in 0 .. 3 /\ q \in 0 .. 3 /\ r \in 0 .. 3 /\ u \in Nat /\ v \in Nat /\ w \in Nat
          /\ p < q \/ (p = q /\ u <= v)
          /\ q < r \/ (q = r /\ v <= w)
      BY <2>2, <2>3, <2>4, <3>1 DEF MatchTypes
    <3>3. W(x) = r
      BY <2>2
    <3>. HIDE DEF p, q, r, u, v, w
    <3>4. r > p \/ (r = p /\ w >= u)
      BY <3>2
    <3>. QED
      BY <1>6, <3>3, <3>4 DEF p, u, w
  <2>6. j \in best
    BY <1>5, <2>2, <2>5
  <2>7. ASSUME NEW k \in best PROVE j <= k
    <3>1. k \in 1 .. N
      BY <1>5
    <3>2. PICK n \in F(k) : \A h \in 1 .. N : \A m \in F(h) : AtLeast(host, n, m)
      BY <1>5
    <3>3. AtLeast(host, n, x)
      BY <2>2, <3>2
    <3>4. SUFFICES ASSUME k \in 1 .. j - 1 PROVE FALSE
      BY <1>1, <3>1
    <3>5. M(k).type < b.type \/ (M(k).type = b.type /\ Len(M(k).name) < Len(x))
      BY <2>1, <3>4 DEF Beaten
    <3>. DEFINE p == W(n)
                q == M(k).type
                r == b.type
                u == Len(n)
                v == Len(M(k).name)
                w == Len(x)
    <3>6. /\ p \in 0 .. 3 /\ q \in 0 .. 3 /\ r \in 0 .. 3 /\ u \in Nat /\ v \in Nat /\ w \in Nat
          /\ p < q \/ (p = q /\ u <= v)
          /\ q < r \/ (q = r /\ v < w)
      BY <2>2, <2>3, <2>4, <3>1, <3>5 DEF MatchTypes
    <3>7. p > r \/ (p = r /\ u >= w)
      BY <1>6, <2>2, <3>3
    <3>. HIDE DEF p, q, r, u, v, w
    <3>. QED
      BY <3>6, <3>7
  <2>8. best \in SUBSET Nat
    BY <1>5
  <2>. HIDE DEF best
  <2>9. Min(best) = j
    BY <2>6, <2>7, <2>8, MinIs
  <2>. QED
    BY <1>7, <1>8, <2>1, <2>6, <2>9
<1>. QED
  BY <1>7, <1>9, <1>10 DEF ServerAmong

LocationOf(locations, path) ==
    LET same == {i \in DOMAIN locations : locations[i].exact /\ locations[i].route = path}
        begin == {i \in DOMAIN locations : ~locations[i].exact /\ IsPrefix(locations[i].route, path)}
        longest == {i \in begin : \A k \in begin : Len(locations[i].route) >= Len(locations[k].route)}
    IN  CASE same # {} -> Min(same)
          [] same = {} /\ longest # {} -> Min(longest)
          [] OTHER -> 0

LEMMA LocationIsBest ==
    ASSUME NEW server, NEW path, Locations(server) \in Seq(LocationConfigs)
    PROVE  /\ ChooseLocation(server, path) = LocationOf(Locations(server), path)
           /\ ChooseLocation(server, path) \in DOMAIN Locations(server) \cup {0}
<1>. DEFINE locs == Locations(server)
            N == Len(locs)
            same == {i \in DOMAIN locs : locs[i].exact /\ locs[i].route = path}
            begin == {i \in DOMAIN locs : ~locs[i].exact /\ IsPrefix(locs[i].route, path)}
            longest == {i \in begin : \A k \in begin : Len(locs[i].route) >= Len(locs[k].route)}
            L(i) == Len(locs[i].route)
<1>1. N \in Nat /\ DOMAIN locs = 1 .. N
  OBVIOUS
<1>2. \A i : /\ i \in same <=> i \in 1 .. N /\ Exact(locs[i], path)
             /\ i \in begin <=> i \in 1 .. N /\ Begins(locs[i], path)
  BY <1>1 DEF Exact, Begins
<1>3. PICK b : b.loc = ChooseLocation(server, path) /\ FoundAmong(server, path, N, b)
  BY LocationIsFound
<1>4. LocationOf(locs, path) = CASE same # {} -> Min(same)
                                 [] same = {} /\ longest # {} -> Min(longest)
                                 [] OTHER -> 0
  BY DEF LocationOf
<1>5. same \in SUBSET Nat /\ longest \in SUBSET Nat /\ longest \subseteq begin
  BY <1>2
<1>6. \A i \in 1 .. N : L(i) \in Nat
  <2>. TAKE i \in 1 .. N
  <2>1. locs[i] \in LocationConfigs
    OBVIOUS
  <2>2. locs[i].route \in Words
    BY <2>1 DEF LocationConfigs
  <2>. QED
    BY <2>2 DEF Words
<1>7. CASE /\ b.exact /\ b.loc \in 1 .. N /\ b.route = locs[b.loc].route
           /\ Exact(locs[b.loc], path)
           /\ \A i \in 1 .. b.loc - 1 : ~Exact(locs[i], path)
  <2>1. b.loc \in same /\ \A i \in same : b.loc <= i
    BY <1>1, <1>2, <1>7
  <2>. HIDE DEF same, longest
  <2>2. Min(same) = b.loc
    BY <1>5, <2>1, MinIs
  <2>. QED
    BY <1>1, <1>3, <1>4, <1>7, <2>1, <2>2
<1>8. CASE /\ b.exact = FALSE /\ b.loc \in 1 .. N /\ b.route = locs[b.loc].route
           /\ Begins(locs[b.loc], path)
           /\ \A i \in 1 .. N : /\ ~Exact(locs[i], path)
                                /\ Begins(locs[i], path) => Len(locs[i].route) <= Len(b.route)
           /\ \A i \in 1 .. b.loc - 1 : Begins(locs[i], path) => Len(locs[i].route) < Len(b.route)
  <2>1. same = {}
    BY <1>2, <1>8
  <2>2. b.loc \in begin /\ Len(b.route) = L(b.loc)
    BY <1>2, <1>8
  <2>3. \A k \in begin : L(b.loc) >= L(k)
    BY <1>2, <1>6, <1>8
  <2>4. b.loc \in longest
    BY <2>2, <2>3
  <2>5. ASSUME NEW i \in longest PROVE b.loc <= i
    <3>1. i \in 1 .. N /\ Begins(locs[i], path) /\ L(i) >= L(b.loc)
      BY <1>2, <1>5, <2>2
    <3>2. L(i) \in Nat /\ L(b.loc) \in Nat
      BY <1>6, <1>8, <3>1
    <3>3. i \notin 1 .. b.loc - 1
      BY <1>8, <2>2, <3>1, <3>2
    <3>. QED
      BY <1>1, <1>8, <3>1, <3>3
  <2>. HIDE DEF same, longest
  <2>6. Min(longest) = b.loc
    BY <1>5, <2>4, <2>5, MinIs
  <2>. QED
    BY <1>1, <1>3, <1>4, <1>8, <2>1, <2>4, <2>6
<1>9. CASE /\ b = NoLocation
           /\ \A i \in 1 .. N : ~Exact(locs[i], path) /\ ~Begins(locs[i], path)
  <2>1. same = {} /\ begin = {}
    BY <1>2, <1>9
  <2>2. longest = {}
    BY <1>5, <2>1
  <2>3. b.loc = 0
    BY <1>9 DEF NoLocation
  <2>. HIDE DEF same, longest
  <2>. QED
    BY <1>3, <1>4, <2>1, <2>2, <2>3
<1>. QED
  BY <1>3, <1>7, <1>8, <1>9 DEF FoundAmong

-----------------------------------------------------------------------------
(* Types.                                                                   *)

LEMMA PartIsWord ==
    ASSUME NEW w \in Words, NEW a \in Nat \ {0}, NEW b \in Nat, b <= Len(w)
    PROVE  SubSeq(w, a, b) \in Words
<1>1. \A i \in a .. b : w[i] \in Symbols
  BY DEF Words
<1>2. SubSeq(w, a, b) \in Seq(Symbols)
  BY <1>1, SubSeqProperties
<1>. QED
  BY <1>2 DEF Words

LEMMA WordLen ==
    ASSUME NEW w \in Words
    PROVE  Len(w) \in Nat /\ DOMAIN w = 1 .. Len(w) /\ w \in Seq(Symbols)
BY DEF Words

LEMMA JoinedWord ==
    ASSUME NEW u \in Words, NEW v \in Words
    PROVE  u \o v \in Words
BY DEF Words

LEMMA SlashIsWord == <<"/">> \in Words /\ <<>> \in Words
<1>1. "/" \in Symbols
  BY SitesAssumption
<1>. QED
  BY <1>1 DEF Words

LEMMA BareIsWord ==
    ASSUME NEW w \in Words
    PROVE  Bare(w) \in Words
<1>1. CASE w # <<>>
  <2>1. Len(w) \in Nat /\ Len(w) - 1 \in Nat /\ Len(w) - 1 <= Len(w)
    BY <1>1 DEF Words
  <2>2. SubSeq(w, 1, Len(w) - 1) \in Words
    BY <2>1, PartIsWord
  <2>. QED
    BY <2>2 DEF Bare, Front
<1>2. CASE w = <<>>
  BY <1>2 DEF Bare
<1>. QED
  BY <1>1, <1>2

LEMMA TailIsWord ==
    ASSUME NEW w \in Words, w # <<>>
    PROVE  Tail(w) \in Words
BY DEF Words

LEMMA CanonicalIsWord ==
    ASSUME NEW w \in Words
    PROVE  Canonical(w) \in Words
<1>. DEFINE n == Len(w)
            pieces == [i \in DOMAIN w |-> IF w[i] = "/" /\ i > 1 /\ w[i - 1] = "/" THEN <<>> ELSE <<w[i]>>]
<1>1. n \in Nat /\ DOMAIN w = 1 .. n /\ \A i \in 1 .. n : w[i] \in Symbols
  BY DEF Words
<1>2. \A i \in 1 .. n : <<w[i]>> \in Seq(Symbols)
  BY <1>1
<1>3. pieces \in [1 .. n -> Seq(Symbols)]
  <2>1. <<>> \in Seq(Symbols)
    OBVIOUS
  <2>. HIDE DEF n
  <2>. QED
    BY <1>1, <1>2, <2>1
<1>. HIDE DEF pieces, n
<1>4. pieces \in Seq(Seq(Symbols))
  BY <1>1, <1>3, FunctionIsSeq
<1>5. FlattenSeq(pieces) \in Seq(Symbols)
  BY <1>4, FlattenType
<1>. QED
  BY <1>5 DEF Canonical, pieces, Words

LEMMA ParentIsWord ==
    ASSUME NEW w \in Words
    PROVE  Parent(w) \in Words
<1>. DEFINE slashes == {i \in DOMAIN w : w[i] = "/"}
<1>1. Len(w) \in Nat /\ slashes \in SUBSET (1 .. Len(w))
  BY WordLen
<1>2. Parent(w) = IF slashes = {} THEN <<>> ELSE SubSeq(w, 1, Max(slashes) - 1)
  BY DEF Parent
<1>. HIDE DEF slashes
<1>3. CASE slashes = {}
  BY <1>2, <1>3, SlashIsWord
<1>4. CASE slashes # {}
  <2>1. Max(slashes) \in 1 .. Len(w)
    BY <1>1, <1>4, MaxOfRange
  <2>2. Max(slashes) - 1 \in Nat /\ Max(slashes) - 1 <= Len(w)
    BY <1>1, <2>1
  <2>. QED
    BY <1>2, <1>4, <2>2, PartIsWord
<1>. QED
  BY <1>3, <1>4

LEMMA PlaceIsWord ==
    ASSUME NEW alias \in Words, alias # <<>>, NEW route \in Words, NEW path \in Words
    PROVE  UpdatePath(alias, route, path) \in Words
<1>. DEFINE rest == SubSeq(path, Len(route) + 1, Len(path))
            left == IF rest[1] = "/" THEN Tail(rest) ELSE rest
<1>1. rest \in Words
  <2>1. Len(route) + 1 \in Nat \ {0} /\ Len(path) \in Nat
    BY WordLen
  <2>. QED
    BY <2>1, PartIsWord
<1>2. UpdatePath(alias, route, path) =
        IF rest \in {<<>>, <<"/">>} THEN Tail(alias) ELSE Bare(Tail(alias)) \o <<"/">> \o left
  BY DEF UpdatePath
<1>3. Tail(alias) \in Words /\ Bare(Tail(alias)) \in Words
  BY TailIsWord, BareIsWord
<1>. HIDE DEF rest
<1>4. rest # <<>> => left \in Words
  BY <1>1, TailIsWord
<1>. HIDE DEF left
<1>5. rest # <<>> => Bare(Tail(alias)) \o <<"/">> \o left \in Words
  BY <1>3, <1>4, SlashIsWord, JoinedWord
<1>. QED
  BY <1>2, <1>3, <1>5

(* Where "/cgi-bin/" stands.                                                *)
LEMMA CgiMarksAre ==
    ASSUME NEW w \in Words
    PROVE  \A i : i \in CgiMarks(w) <=>
               /\ i \in 1 .. Len(w) /\ i + 2 <= Len(w)
               /\ w[i] = "/" /\ w[i + 1] = "cgi-bin" /\ w[i + 2] = "/"
<1>. DEFINE v == <<"/", "cgi-bin", "/">>
<1>1. Len(w) \in Nat /\ DOMAIN w = 1 .. Len(w) /\ w \in Seq(Symbols)
  BY WordLen
<1>2. v \in Seq(Symbols) /\ Len(v) = 3 /\ v[1] = "/" /\ v[2] = "cgi-bin" /\ v[3] = "/"
  <2>1. "/" \in Symbols /\ "cgi-bin" \in Symbols
    BY SitesAssumption
  <2>. QED
    BY <2>1
<1>3. CgiMarks(w) = {i \in 1 .. Len(w) : IsPrefix(v, SubSeq(w, i, Len(w)))}
  BY <1>1 DEF CgiMarks
<1>. HIDE DEF v
<1>4. ASSUME NEW i \in 1 .. Len(w)
      PROVE  IsPrefix(v, SubSeq(w, i, Len(w))) <=>
               i + 2 <= Len(w) /\ w[i] = "/" /\ w[i + 1] = "cgi-bin" /\ w[i + 2] = "/"
  <2>. DEFINE u == SubSeq(w, i, Len(w))
  <2>1. /\ u \in Seq(Symbols) /\ Len(u) = (Len(w) - i) + 1
        /\ \A k \in 1 .. (Len(w) - i) + 1 : u[k] = w[(i + k) - 1]
    BY <1>1
  <2>. HIDE DEF u
  <2>2. IsPrefix(v, u) <=> 3 <= Len(u) /\ \A k \in 1 .. 3 : v[k] = u[k]
    <3>1. u \in Seq(Symbols) /\ v \in Seq(Symbols)
      BY <1>2, <2>1
    <3>2. IsPrefix(v, u) <=> Len(v) <= Len(u) /\ \A k \in 1 .. Len(v) : v[k] = u[k]
      BY <3>1, PrefixIs
    <3>. QED
      BY <1>2, <3>2
  <2>3. 3 <= Len(u) <=> i + 2 <= Len(w)
    BY <1>1, <2>1
  <2>4. CASE 3 <= Len(u)
    <3>1. u[1] = w[i] /\ u[2] = w[i + 1] /\ u[3] = w[i + 2]
      <4>1. /\ 1 \in 1 .. (Len(w) - i) + 1 /\ 2 \in 1 .. (Len(w) - i) + 1 /\ 3 \in 1 .. (Len(w) - i) + 1
            /\ (i + 1) - 1 = i /\ (i + 2) - 1 = i + 1 /\ (i + 3) - 1 = i + 2
        BY <1>1, <2>1, <2>4
      <4>2. u[1] = w[(i + 1) - 1] /\ u[2] = w[(i + 2) - 1] /\ u[3] = w[(i + 3) - 1]
        BY <2>1, <4>1
      <4>. QED
        BY <4>1, <4>2
    <3>2. (\A k \in 1 .. 3 : v[k] = u[k]) <=> v[1] = u[1] /\ v[2] = u[2] /\ v[3] = u[3]
      <4>1. \A k \in 1 .. 3 : k = 1 \/ k = 2 \/ k = 3
        OBVIOUS
      <4>2. 1 \in 1 .. 3 /\ 2 \in 1 .. 3 /\ 3 \in 1 .. 3
        OBVIOUS
      <4>. QED
        BY <4>1, <4>2
    <3>. QED
      BY <1>2, <2>2, <2>3, <2>4, <3>1, <3>2 DEF u
  <2>5. CASE ~(3 <= Len(u))
    BY <2>2, <2>3, <2>5 DEF u
  <2>. QED
    BY <2>4, <2>5 DEF u
<1>. QED
  BY <1>3, <1>4

LEMMA ScriptIsWords ==
    ASSUME NEW target \in Words, NEW s \in ScriptLocDetails(target)
    PROVE  s.location \in Words /\ s.name \in Words /\ s.extra \in Words
<1>. DEFINE marks == CgiMarks(target)
            start == Min(marks) + 3
            ends == {i \in start .. Len(target) : target[i] = "/"} \cup {Len(target) + 1}
            end == Min(ends)
            name == SubSeq(target, start, end - 1)
<1>1. marks # {} /\ s = [location |-> SubSeq(target, 1, start - 1), name |-> name,
                         extra |-> SubSeq(target, end, Len(target))]
  BY DEF ScriptLocDetails
<1>2. Len(target) \in Nat /\ DOMAIN target = 1 .. Len(target) /\ target \in Seq(Symbols)
  BY WordLen
<1>3. ASSUME NEW i \in marks PROVE i \in 1 .. Len(target) /\ i + 2 <= Len(target)
  BY CgiMarksAre
<1>. HIDE DEF marks
<1>4. Min(marks) \in marks
  <2>1. marks \in SUBSET Nat
    BY <1>3
  <2>. QED
    BY <1>1, <2>1, MinOfNats
<1>5. start \in Nat \ {0} /\ start - 1 \in Nat /\ start - 1 <= Len(target)
  BY <1>2, <1>3, <1>4
<1>. HIDE DEF start
<1>6. end \in Nat \ {0} /\ end - 1 \in Nat /\ end - 1 <= Len(target)
  <2>1. ends \in SUBSET Nat /\ ends # {} /\ \A i \in ends : i \in 1 .. Len(target) + 1
    BY <1>2, <1>5
  <2>. HIDE DEF ends
  <2>2. end \in ends
    BY <2>1, MinOfNats
  <2>3. end \in 1 .. Len(target) + 1
    BY <2>1, <2>2
  <2>. HIDE DEF end
  <2>. QED
    BY <1>2, <2>3
<1>. HIDE DEF end
<1>7. /\ SubSeq(target, 1, start - 1) \in Words
      /\ SubSeq(target, start, end - 1) \in Words
      /\ SubSeq(target, end, Len(target)) \in Words
  BY <1>2, <1>5, <1>6, PartIsWord
<1>. QED
  BY <1>1, <1>7

-----------------------------------------------------------------------------
(* Answers.                                                                 *)
Replies == [kind : Kinds, code : Nat, path : Words]

LEMMA ReplyTyped ==
    ASSUME NEW kind \in Kinds, NEW code \in Nat, NEW path \in Words
    PROVE  Reply(kind, code, path) \in Replies
BY DEF Reply, Replies

LEMMA ErrorTyped ==
    ASSUME cluster \in Clusters, NEW code \in Nat
    PROVE  ErrorReply(code) \in Replies
<1>1. \A c \in DOMAIN cluster.pages : cluster.pages[c] \in Words
  BY SitesAssumption
<1>. DEFINE p == IF code \in DOMAIN cluster.pages /\ IsRegularFile(cluster.pages[code])
                 THEN cluster.pages[code] ELSE <<>>
<1>2. p \in Words
  BY <1>1, SlashIsWord
<1>. HIDE DEF p
<1>3. Reply("error", code, p) \in Replies
  BY <1>2, ReplyTyped DEF Kinds
<1>. QED
  BY <1>3 DEF ErrorReply, p

LEMMA LocationTyped ==
    ASSUME NEW l \in LocationConfigs
    PROVE  /\ l.route \in Words /\ l.alias \in Words /\ l.alias # <<>> /\ Len(l.alias) > 1
           /\ l.route # <<>>
           /\ \A i \in DOMAIN l.files : i \in Nat /\ l.files[i] \in Words
           /\ \A r \in l.redirect : r[1] \in Int /\ r[2] \in Words
<1>1. /\ l.route \in Words \ {<<>>} /\ l.alias \in {a \in Words : Len(a) > 1}
      /\ l.files \in Seq(Words) /\ l.redirect \in SUBSET (Int \X Words)
  BY DEF LocationConfigs
<1>2. l.alias \in Words /\ Len(l.alias) > 1
  BY <1>1
<1>3. l.alias # <<>>
  BY <1>2
<1>4. \A i \in DOMAIN l.files : i \in Nat /\ l.files[i] \in Words
  <2>. HIDE DEF Words
  <2>. QED
    BY <1>1
<1>. QED
  BY <1>1, <1>2, <1>3, <1>4

LEMMA RequestTyped ==
    ASSUME TypeOK, stage = "read"
    PROVE  ProcessRequest \in Replies
<1>. DEFINE l == Locations(dest.server)[dest.loc]
            ret == CHOOSE r \in l.redirect : TRUE
<1>1. /\ cluster \in Clusters /\ rq.status \in Nat /\ rq.path \in Words /\ rq.method \in Methods
      /\ dest.path \in Words /\ dest.server \in DOMAIN cluster.servers \cup {0}
      /\ rq.status = 200 => dest.loc # 0 /\ dest.loc \in DOMAIN Locations(dest.server)
      /\ dest.server # 0
  BY DEF TypeOK
<1>2. cluster.servers \in Seq(ServerConfigs)
  BY <1>1, SitesAssumption
<1>3. rq.status = 200 => l \in LocationConfigs
  <2>1. dest.server \in DOMAIN cluster.servers
    BY <1>1
  <2>2. Locations(dest.server) \in Seq(LocationConfigs)
    BY <1>2, <2>1, ServerTyped DEF Locations
  <2>. QED
    BY <1>1, <2>2
<1>. HIDE DEF l
<1>4. \A code \in Nat : ErrorReply(code) \in Replies
  BY <1>1, ErrorTyped
<1>5. 200 \in Nat /\ 201 \in Nat /\ 204 \in Nat /\ 301 \in Nat /\ 400 \in Nat /\ 403 \in Nat
      /\ 404 \in Nat /\ 500 \in Nat /\ 501 \in Nat
  OBVIOUS
<1>6. CASE rq.status # 200
  <2>1. ProcessRequest = ErrorReply(rq.status)
    BY <1>6 DEF ProcessRequest
  <2>. QED
    BY <1>1, <1>4, <2>1
<1>7. CASE rq.status = 200 /\ l.redirect # {}
  <2>1. ProcessRequest = RedirectReply(ret[1], ret[2])
    BY <1>7 DEF ProcessRequest, l
  <2>2. ret[1] \in Int /\ ret[2] \in Words
    <3>1. ret \in l.redirect
      BY <1>7
    <3>. HIDE DEF ret
    <3>. QED
      BY <1>3, <1>7, <3>1, LocationTyped
  <2>. HIDE DEF ret
  <2>3. ret[1] \in Nat => Reply("return", ret[1], ret[2]) \in Replies
    BY <2>2, ReplyTyped DEF Kinds
  <2>4. ~(ret[1] < 300) => ret[1] \in Nat
    BY <2>2
  <2>5. RedirectReply(ret[1], ret[2]) \in Replies
    BY <1>4, <1>5, <2>2, <2>3, <2>4 DEF RedirectReply
  <2>. QED
    BY <2>1, <2>5
<1>8. CASE rq.status = 200 /\ l.redirect = {} /\ l.cgi
  <2>. DEFINE script == CHOOSE s \in ScriptLocDetails(rq.path) : TRUE
              location == UpdatePath(l.alias, l.route, script.location)
              file == location \o <<"/">> \o script.extra \o <<"/">> \o script.name
  <2>1. ProcessRequest = CgiReply(l, rq.path)
    BY <1>8 DEF ProcessRequest, l
  <2>2. CASE ScriptLocDetails(rq.path) = {}
    <3>1. CgiReply(l, rq.path) = ErrorReply(400)
      BY <2>2 DEF CgiReply
    <3>. QED
      BY <1>4, <1>5, <2>1, <3>1
  <2>3. CASE ScriptLocDetails(rq.path) # {}
    <3>1. script \in ScriptLocDetails(rq.path)
      BY <2>3
    <3>2. CgiReply(l, rq.path) =
            IF ~IsValidExtension(script.name, l.extensions) THEN ErrorReply(501)
            ELSE IF IsRegularFile(file) /\ HasInterpreter(script.name)
                 THEN Reply("script", 200, Canonical(file)) ELSE ErrorReply(500)
      BY <2>3, Zenon DEF CgiReply
    <3>. HIDE DEF script
    <3>3. script.location \in Words /\ script.name \in Words /\ script.extra \in Words
      BY <1>1, <3>1, ScriptIsWords
    <3>4. location \in Words
      BY <1>3, <1>8, <3>3, LocationTyped, PlaceIsWord
    <3>. HIDE DEF location
    <3>5. file \in Words
      BY <3>3, <3>4, SlashIsWord, JoinedWord
    <3>. HIDE DEF file
    <3>6. Reply("script", 200, Canonical(file)) \in Replies
      BY <1>5, <3>5, CanonicalIsWord, ReplyTyped DEF Kinds
    <3>. QED
      BY <1>4, <1>5, <2>1, <3>2, <3>6
  <2>. QED
    BY <2>2, <2>3
<1>9. CASE rq.status = 200 /\ l.redirect = {} /\ ~l.cgi
  <2>1. ProcessRequest = CASE rq.method = "GET" -> GetReply(l, rq.path, dest.path)
                           [] rq.method = "POST" -> PostReply(dest.path)
                           [] rq.method = "DELETE" -> DeleteReply(dest.path)
    BY <1>9 DEF ProcessRequest, l
  <2>2. GetReply(l, rq.path, dest.path) \in Replies
    <3>. DEFINE path == dest.path
                found == {i \in DOMAIN l.files : IsRegularFile(path \o l.files[i])}
    <3>1. found # {} => path \o l.files[Min(found)] \in Words
      <4>1. found \in SUBSET Nat
        BY <1>3, <1>9, LocationTyped
      <4>2. found # {} => Min(found) \in found
        <5>. HIDE DEF found
        <5>. QED
          BY <4>1, MinOfNats
      <4>3. found # {} => l.files[Min(found)] \in Words
        BY <1>3, <1>9, <4>2, LocationTyped
      <4>. HIDE DEF found
      <4>. QED
        BY <1>1, <4>3, JoinedWord
    <3>2. DirectoryReply(rq.path, path) \in Replies
      <4>1. rq.path \o <<"/">> \in Words
        BY <1>1, SlashIsWord, JoinedWord
      <4>. QED
        BY <1>1, <1>5, <4>1, ReplyTyped DEF Kinds, DirectoryReply
    <3>3. GetReply(l, rq.path, path) =
            CASE IsDirectory(path) /\ found # {} -> Reply("file", 200, path \o l.files[Min(found)])
              [] IsDirectory(path) /\ found = {} /\ l.listing -> DirectoryReply(rq.path, path)
              [] IsDirectory(path) /\ found = {} /\ ~l.listing -> ErrorReply(403)
              [] IsRegularFile(path) -> Reply("file", 200, path)
              [] OTHER -> ErrorReply(404)
      BY Zenon DEF GetReply
    <3>. HIDE DEF found
    <3>4. found # {} => Reply("file", 200, path \o l.files[Min(found)]) \in Replies
      BY <1>5, <3>1, ReplyTyped DEF Kinds
    <3>5. Reply("file", 200, path) \in Replies
      BY <1>1, <1>5, ReplyTyped DEF Kinds
    <3>. QED
      BY <1>4, <1>5, <3>2, <3>3, <3>4, <3>5
  <2>3. PostReply(dest.path) \in Replies
    BY <1>1, <1>4, <1>5, ReplyTyped DEF Kinds, PostReply
  <2>4. DeleteReply(dest.path) \in Replies
    BY <1>1, <1>4, <1>5, ReplyTyped DEF Kinds, DeleteReply
  <2>. QED
    BY <1>1, <2>1, <2>2, <2>3, <2>4 DEF Methods
<1>. QED
  BY <1>6, <1>7, <1>8, <1>9

-----------------------------------------------------------------------------
(* The configuration does not change, nor does what is read from it.        *)
AddressesOf(c) == UNION {ToSet(c.servers[i].listen) : i \in DOMAIN c.servers}
ServersOf(c, address) ==
    LET Here(i) == [k \in DOMAIN c.servers[i].listen |->
                    IF c.servers[i].listen[k] = address THEN <<i>> ELSE <<>>]
    IN  FlattenSeq([i \in DOMAIN c.servers |-> FlattenSeq(Here(i))])

LEMMA ConfigurationStays ==
    ASSUME cluster' = cluster, NEW address, NEW server
    PROVE  /\ Addresses' = Addresses
           /\ ServersAt(address)' = ServersAt(address)
           /\ Locations(server)' = Locations(server)
<1>1. Addresses = AddressesOf(cluster) /\ Addresses' = AddressesOf(cluster')
  BY Zenon DEF Addresses, AddressesOf
<1>2. ServersAt(address) = ServersOf(cluster, address)
  BY Zenon DEF ServersAt, ServersOf
<1>3. ServersAt(address)' = ServersOf(cluster', address)
  BY Zenon DEF ServersAt, ServersOf
<1>4. Locations(server)' = cluster'.servers[server].locations
  BY Zenon DEF Locations
<1>. QED
  BY <1>1, <1>2, <1>3, <1>4 DEF Locations

(* Where a request for path at host is placed, among the servers at.        *)
Placed(at, servers, host, path, server, loc) ==
    LET Names(i) == Fitting(servers[i].names, host)
        best == {k \in DOMAIN at : \E n \in Names(at[k]) :
                    \A i \in ToSet(at) : \A m \in Names(i) : AtLeast(host, n, m)}
    IN  /\ (\A i \in ToSet(at) : \A n, m \in Names(i) \ {host} : n = m) =>
              server = at[IF best = {} THEN 1 ELSE Min(best)]
        /\ loc = LocationOf(servers[server].locations, path)

LEMMA SiteIs ==
    /\ RequestsGoToTheirSite <=>
         (stage = "read" /\ rq.status # 400 =>
            /\ Placed(ServersAt(listener), cluster.servers, rq.host, rq.path, dest.server, dest.loc)
            /\ dest.loc = 0 => rq.status = 404)
    /\ RequestsGoToTheirSite' <=>
         (stage' = "read" /\ rq'.status # 400 =>
            /\ Placed(ServersAt(listener)', cluster'.servers, rq'.host, rq'.path, dest'.server, dest'.loc)
            /\ dest'.loc = 0 => rq'.status = 404)
<1>1. RequestsGoToTheirSite <=>
         (stage = "read" /\ rq.status # 400 =>
            /\ Placed(ServersAt(listener), cluster.servers, rq.host, rq.path, dest.server, dest.loc)
            /\ dest.loc = 0 => rq.status = 404)
  BY Zenon DEF RequestsGoToTheirSite, Placed, Fitting, AtLeast, LocationOf, Locations
<1>2. RequestsGoToTheirSite' <=>
         (stage' = "read" /\ rq'.status # 400 =>
            /\ Placed(ServersAt(listener)', cluster'.servers, rq'.host, rq'.path, dest'.server, dest'.loc)
            /\ dest'.loc = 0 => rq'.status = 404)
  BY Zenon DEF RequestsGoToTheirSite, Placed, Fitting, AtLeast, LocationOf, Locations
<1>. QED
  BY <1>1, <1>2

LEMMA ChosenIsPlaced ==
    ASSUME NEW address \in Addresses, NEW host \in Words, NEW path \in Words,
           cluster.servers \in Seq(ServerConfigs)
    PROVE  LET server == ChooseServer(address, host)
               loc == ChooseLocation(server, path)
           IN  /\ server \in DOMAIN cluster.servers
               /\ loc \in DOMAIN Locations(server) \cup {0}
               /\ Placed(ServersAt(address), cluster.servers, host, path, server, loc)
<1>. DEFINE at == ServersAt(address)
            server == ChooseServer(address, host)
            loc == ChooseLocation(server, path)
<1>1. at \in Seq(DOMAIN cluster.servers) /\ Len(at) > 0
  BY ServersAreAt
<1>2. PICK b : b.server = server /\ ServerAmong(address, host, Len(at), b)
  BY ServerIsFound
<1>3. \E j \in 1 .. Len(at) : b.server = at[j]
  <2>1. CASE b = NoServer(address)
    <3>1. b.server = at[1] /\ 1 \in 1 .. Len(at)
      BY <1>1, <2>1 DEF NoServer
    <3>. QED
      BY <3>1
  <2>2. CASE b # NoServer(address)
    BY <1>2, <2>2 DEF ServerAmong
  <2>. QED
    BY <2>1, <2>2
<1>4. server \in DOMAIN cluster.servers
  BY <1>1, <1>2, <1>3
<1>5. Locations(server) \in Seq(LocationConfigs)
  BY <1>4, ServerTyped DEF Locations
<1>. HIDE DEF at, server
<1>6. loc = LocationOf(Locations(server), path) /\ loc \in DOMAIN Locations(server) \cup {0}
  BY <1>5, LocationIsBest
<1>7. ASSUME \A i \in ToSet(at) : \A n, m \in Fitting(cluster.servers[i].names, host) \ {host} : n = m
      PROVE  server = at[IF Best(address, host) = {} THEN 1 ELSE Min(Best(address, host))]
  BY <1>7, ServerIsBest DEF at, server
<1>8. Best(address, host) =
        {k \in DOMAIN at : \E n \in Fitting(cluster.servers[at[k]].names, host) :
            \A i \in ToSet(at) : \A m \in Fitting(cluster.servers[i].names, host) : AtLeast(host, n, m)}
  BY Zenon DEF Best, at
<1>. HIDE DEF loc
<1>9. Placed(at, cluster.servers, host, path, server, loc)
  BY <1>6, <1>7, <1>8, Zenon DEF Placed, Locations
<1>. QED
  BY <1>4, <1>6, <1>9 DEF at, server, loc

-----------------------------------------------------------------------------
(* ChooseServerCb.                                                          *)

LEMMA HeadIsRead ==
    ASSUME TypeOK, NEW method \in Methods, NEW host \in Words, NEW path \in Words,
           ReadHead(method, host, path)
    PROVE  TypeOK' /\ RequestsGoToTheirSite'
<1>. DEFINE server == ChooseServer(listener, host)
            loc == ChooseLocation(server, path)
            l == Locations(server)[loc]
            place == UpdatePath(l.alias, l.route, path)
            uploads == method = "POST" /\ IsStatic(l)
            missed == [dest EXCEPT !.server = server, !.loc = loc]
            status == IF uploads THEN UploadStatus(place) ELSE 200
            refused == loc = 0 \/ (loc # 0 /\ method \notin l.methods)
<1>1. /\ cluster \in Clusters /\ stage = "idle" /\ listener \in Addresses
      /\ dest \in [server : DOMAIN cluster.servers \cup {0}, loc : Nat, path : Words]
      /\ dest.path = <<>>
      /\ disk \in [files : SUBSET Words, dirs : SUBSET Words]
  BY DEF TypeOK, ReadHead
<1>2. cluster.servers \in Seq(ServerConfigs)
  BY <1>1, SitesAssumption
<1>3. /\ server \in DOMAIN cluster.servers
      /\ loc \in DOMAIN Locations(server) \cup {0}
      /\ Placed(ServersAt(listener), cluster.servers, host, path, server, loc)
  BY <1>1, <1>2, ChosenIsPlaced
<1>4. /\ stage' = "read" /\ answer' = NoAnswer /\ cluster' = cluster /\ listener' = listener
      /\ refused => /\ rq' = [method |-> method, host |-> host, path |-> path, status |-> 404]
                    /\ dest' = missed /\ disk' = disk
      /\ ~refused => /\ rq' = [method |-> method, host |-> host, path |-> path, status |-> status]
                     /\ dest' = [missed EXCEPT !.path = place]
                     /\ disk' = IF uploads /\ UploadStatus(place) = 200
                                THEN [disk EXCEPT !.files = @ \cup {Canonical(place)}] ELSE disk
  BY Zenon DEF ReadHead
<1>5. Addresses' = Addresses /\ ServersAt(listener)' = ServersAt(listener)
  BY <1>4, ConfigurationStays
<1>6. /\ loc \in Nat
      /\ loc # 0 => l \in LocationConfigs
  <2>1. Locations(server) \in Seq(LocationConfigs)
    BY <1>2, <1>3, ServerTyped DEF Locations
  <2>. HIDE DEF server, loc
  <2>. QED
    BY <1>3, <2>1
<1>. HIDE DEF server, loc, l
<1>7. loc # 0 => place \in Words
  BY <1>6, LocationTyped, PlaceIsWord
<1>. HIDE DEF place
<1>8. status \in Nat
  BY DEF UploadStatus
<1>9. refused => loc = 0 \/ method \notin l.methods
  OBVIOUS
<1>10. ~refused => loc # 0
  OBVIOUS
<1>11. loc = 0 => refused
  OBVIOUS
<1>. HIDE DEF status, uploads, refused
<1>12. /\ dest' \in [server : DOMAIN cluster.servers \cup {0}, loc : Nat, path : Words]
       /\ dest'.server = server /\ dest'.loc = loc
       /\ loc = 0 => dest'.path = <<>>
  <2>1. missed \in [server : DOMAIN cluster.servers \cup {0}, loc : Nat, path : Words]
        /\ missed.server = server /\ missed.loc = loc /\ missed.path = <<>>
    BY <1>1, <1>3, <1>6
  <2>2. CASE refused
    BY <1>4, <2>1, <2>2
  <2>3. CASE ~refused
    BY <1>4, <1>7, <1>10, <2>1, <2>3
  <2>. QED
    BY <2>2, <2>3
<1>13. /\ rq' \in [method : Methods, host : Words, path : Words, status : Nat]
       /\ rq'.host = host /\ rq'.path = path
       /\ rq'.status = IF refused THEN 404 ELSE status
  BY <1>4, <1>8
<1>14. answer' \in [kind : Kinds, code : Nat, path : Words, loc : Nat]
  BY <1>4, SlashIsWord DEF NoAnswer, Kinds
<1>15. disk' \in [files : SUBSET Words, dirs : SUBSET Words]
  <2>1. CASE refused
    BY <1>1, <1>4, <2>1
  <2>2. CASE ~refused
    <3>1. Canonical(place) \in Words
      BY <1>7, <1>10, <2>2, CanonicalIsWord
    <3>. QED
      BY <1>1, <1>4, <2>2, <3>1
  <2>. QED
    BY <2>1, <2>2
<1>16. server # 0
  BY <1>2, <1>3
<1>17. TypeOK'
  <2>1. cluster' \in Clusters /\ stage' \in {"none", "idle", "read", "answered"}
    BY <1>1, <1>4
  <2>2. dest' \in [server : DOMAIN cluster'.servers \cup {0}, loc : Nat, path : Words]
    BY <1>4, <1>12
  <2>3. listener' \in Addresses' /\ dest'.server # 0
    BY <1>1, <1>4, <1>5, <1>12, <1>16
  <2>4. rq'.status = 200 => dest'.loc # 0
    BY <1>11, <1>12, <1>13
  <2>5. dest'.loc = 0 => dest'.path = <<>>
    BY <1>12
  <2>6. dest'.loc # 0 => dest'.loc \in DOMAIN Locations(dest.server)'
    <3>1. Locations(dest.server)' = cluster'.servers[dest'.server].locations
      BY Zenon DEF Locations
    <3>2. Locations(dest.server)' = Locations(server)
      BY <1>4, <1>12, <3>1 DEF Locations
    <3>. QED
      BY <1>3, <1>12, <3>2
  <2>7. stage' # "idle"
    BY <1>4
  <2>. QED
    BY <1>13, <1>14, <1>15, <2>1, <2>2, <2>3, <2>4, <2>5, <2>6, <2>7 DEF TypeOK
<1>18. RequestsGoToTheirSite'
  <2>1. Placed(ServersAt(listener)', cluster'.servers, rq'.host, rq'.path, dest'.server, dest'.loc)
    BY <1>3, <1>4, <1>5, <1>12, <1>13
  <2>2. dest'.loc = 0 => rq'.status = 404
    BY <1>11, <1>12, <1>13
  <2>. QED
    BY <2>1, <2>2, SiteIs
<1>. QED
  BY <1>17, <1>18

(* What a listing links to.                                                 *)
LEMMA LinksAreWords ==
    ASSUME TypeOK
    PROVE  /\ LinkUp \in Words
           /\ \A e \in Entries(Bare(Canonical(answer.path))) : Link(e) \in Words
<1>1. rq.path \in Words /\ disk.files \subseteq Words /\ disk.dirs \subseteq Words
  BY DEF TypeOK
<1>2. Parent(rq.path) \in Words
  BY <1>1, ParentIsWord
<1>3. LinkUp \in Words
  BY <1>2, ParentIsWord, SlashIsWord, JoinedWord DEF LinkUp
<1>4. ASSUME NEW e \in Entries(Bare(Canonical(answer.path))) PROVE Link(e) \in Words
  <2>1. e \in Words
    BY <1>1, <1>4 DEF Entries
  <2>2. SubSeq(e, Len(Parent(e)) + 1, Len(e)) \in Words
    <3>1. Len(Parent(e)) + 1 \in Nat \ {0} /\ Len(e) \in Nat
      BY <2>1, ParentIsWord, WordLen
    <3>. QED
      BY <2>1, <3>1, PartIsWord
  <2>. DEFINE end == IF e \in disk.dirs THEN <<"/">> ELSE <<>>
              last == SubSeq(e, Len(Parent(e)) + 1, Len(e))
  <2>3. end \in Words
    BY SlashIsWord
  <2>4. Link(e) = Parent(rq.path) \o last \o end
    BY DEF Link
  <2>. HIDE DEF end, last
  <2>5. last \in Words
    BY <2>2 DEF last
  <2>. QED
    BY <1>2, <2>3, <2>4, <2>5, JoinedWord
<1>. QED
  BY <1>3, <1>4

Placement == TypeOK /\ RequestsGoToTheirSite

LEMMA PlacementInit ==
    ASSUME Init
    PROVE  Placement
<1>1. <<>> \in Words
  BY SlashIsWord
<1>2. rq \in [method : Methods, host : Words, path : Words, status : Nat]
  BY <1>1 DEF Init, NoRequest, Methods
<1>3. answer \in [kind : Kinds, code : Nat, path : Words, loc : Nat]
  BY <1>1 DEF Init, NoAnswer, Kinds
<1>4. disk \in [files : SUBSET Words, dirs : SUBSET Words]
  BY SitesAssumption DEF Init
<1>5. TypeOK
  BY <1>1, <1>2, <1>3, <1>4 DEF Init, TypeOK
<1>. QED
  BY <1>5 DEF Placement, RequestsGoToTheirSite, Init

(* What is asked of a configuration has the type of a request.              *)
LEMMA AskedTyped ==
    ASSUME TypeOK, NEW r \in Asked(cluster)
    PROVE  r[1] \in Methods /\ r[2] \in Words /\ r[3] \in Words
BY SitesAssumption DEF TypeOK

(* A step that keeps the configuration and the listener, and leaves a stage *)
(* other than the one of a request just read.                               *)
LEMMA OtherStage ==
    ASSUME TypeOK, cluster' = cluster, listener' = listener
    PROVE  /\ Addresses' = Addresses
           /\ dest'.server = dest.server => Locations(dest.server)' = Locations(dest.server)
<1>1. Locations(dest.server)' = cluster'.servers[dest'.server].locations
  BY Zenon DEF Locations
<1>. QED
  BY <1>1, ConfigurationStays DEF Locations

LEMMA PlacementStep ==
    ASSUME Placement, [Next]_vars
    PROVE  Placement'
<1>. USE DEF Placement
<1>1. CASE Connect
  <2>1. PICK a \in Addresses : /\ listener' = a
                               /\ dest' = [server |-> ServersAt(a)[1], loc |-> 0, path |-> <<>>]
    BY <1>1 DEF Connect
  <2>2. stage' = "idle" /\ answer' = NoAnswer /\ cluster' = cluster /\ rq' = rq /\ disk' = disk
    BY <1>1 DEF Connect
  <2>3. cluster.servers \in Seq(ServerConfigs) /\ cluster \in Clusters
    BY SitesAssumption DEF TypeOK
  <2>4. ServersAt(a)[1] \in DOMAIN cluster.servers /\ ServersAt(a)[1] # 0
    BY <2>3, ServersAreAt
  <2>5. Addresses' = Addresses
    BY <2>2, ConfigurationStays
  <2>6. dest' \in [server : DOMAIN cluster'.servers \cup {0}, loc : Nat, path : Words]
    BY <2>1, <2>2, <2>4, SlashIsWord
  <2>7. answer' \in [kind : Kinds, code : Nat, path : Words, loc : Nat]
    BY <2>2, SlashIsWord DEF NoAnswer, Kinds
  <2>8. TypeOK'
    BY <2>1, <2>2, <2>3, <2>4, <2>5, <2>6, <2>7 DEF TypeOK
  <2>. QED
    BY <2>2, <2>8, SiteIs
<1>2. CASE Request
  BY <1>2, AskedTyped, HeadIsRead DEF Request
<1>3. CASE FollowRedirect
  <2>1. "GET" \in Methods /\ rq.host \in Words /\ answer.path \in Words
    BY DEF TypeOK, Methods
  <2>. QED
    BY <1>3, <2>1, HeadIsRead DEF FollowRedirect
<1>4. CASE FollowLink
  <2>1. "GET" \in Methods /\ rq.host \in Words
    BY DEF TypeOK, Methods
  <2>2. CASE \E e \in Entries(Bare(Canonical(answer.path))) : ReadHead("GET", rq.host, Link(e))
    BY <2>1, <2>2, LinksAreWords, HeadIsRead
  <2>3. CASE ReadHead("GET", rq.host, LinkUp)
    BY <2>1, <2>3, LinksAreWords, HeadIsRead
  <2>. QED
    BY <1>4, <2>2, <2>3 DEF FollowLink
<1>5. CASE Refused
  <2>1. /\ stage = "idle" /\ stage' = "read" /\ answer' = NoAnswer
        /\ rq' = [NoRequest EXCEPT !.status = 400]
        /\ cluster' = cluster /\ listener' = listener /\ dest' = dest /\ disk' = disk
    BY <1>5 DEF Refused
  <2>2. Addresses' = Addresses /\ Locations(dest.server)' = Locations(dest.server)
    BY <2>1, OtherStage
  <2>3. rq' \in [method : Methods, host : Words, path : Words, status : Nat] /\ rq'.status = 400
    BY <2>1, SlashIsWord DEF NoRequest, Methods
  <2>4. answer' \in [kind : Kinds, code : Nat, path : Words, loc : Nat]
    BY <2>1, SlashIsWord DEF NoAnswer, Kinds
  <2>5. TypeOK'
    BY <2>1, <2>2, <2>3, <2>4 DEF TypeOK
  <2>. QED
    BY <2>3, <2>5, SiteIs
<1>6. CASE Process
  <2>. DEFINE reply == ProcessRequest
  <2>1. /\ stage = "read" /\ stage' = "answered"
        /\ answer' = [kind |-> reply.kind, code |-> reply.code, path |-> reply.path, loc |-> dest.loc]
        /\ disk' = IF reply.kind = "deleted" THEN Without(reply.path) ELSE disk
        /\ cluster' = cluster /\ listener' = listener /\ dest' = dest /\ rq' = rq
    BY <1>6 DEF Process
  <2>2. Addresses' = Addresses /\ Locations(dest.server)' = Locations(dest.server)
    BY <2>1, OtherStage
  <2>3. reply \in Replies
    BY <2>1, RequestTyped
  <2>. HIDE DEF reply
  <2>4. answer' \in [kind : Kinds, code : Nat, path : Words, loc : Nat]
    BY <2>1, <2>3 DEF Replies, TypeOK
  <2>5. disk' \in [files : SUBSET Words, dirs : SUBSET Words]
    BY <2>1 DEF TypeOK, Without
  <2>6. TypeOK'
    BY <2>1, <2>2, <2>4, <2>5 DEF TypeOK
  <2>. QED
    BY <2>1, <2>6, SiteIs
<1>7. CASE ResponseSent
  <2>1. /\ stage = "answered" /\ stage' \in {"none", "idle"}
        /\ dest' = [dest EXCEPT !.loc = 0, !.path = <<>>]
        /\ \/ rq' = rq /\ answer' = answer
           \/ rq' = NoRequest /\ answer' = NoAnswer
        /\ cluster' = cluster /\ listener' = listener /\ disk' = disk
    BY <1>7 DEF ResponseSent
  <2>2. Addresses' = Addresses
    BY <2>1, OtherStage
  <2>3. rq' \in [method : Methods, host : Words, path : Words, status : Nat]
    BY <2>1, SlashIsWord DEF NoRequest, Methods, TypeOK
  <2>4. answer' \in [kind : Kinds, code : Nat, path : Words, loc : Nat]
    BY <2>1, SlashIsWord DEF NoAnswer, Kinds, TypeOK
  <2>5. /\ dest' \in [server : DOMAIN cluster'.servers \cup {0}, loc : Nat, path : Words]
        /\ dest'.server # 0 /\ dest'.loc = 0 /\ dest'.path = <<>>
    BY <2>1, SlashIsWord DEF TypeOK
  <2>6. TypeOK'
    BY <2>1, <2>2, <2>3, <2>4, <2>5 DEF TypeOK
  <2>. QED
    BY <2>1, <2>6, SiteIs
<1>8. CASE Leave
  <2>1. /\ stage = "idle" /\ stage' = "none" /\ rq' = NoRequest /\ answer' = NoAnswer
        /\ cluster' = cluster /\ listener' = listener /\ dest' = dest /\ disk' = disk
    BY <1>8 DEF Leave
  <2>2. Locations(dest.server)' = Locations(dest.server)
    BY <2>1, OtherStage
  <2>3. rq' \in [method : Methods, host : Words, path : Words, status : Nat]
    BY <2>1, SlashIsWord DEF NoRequest, Methods
  <2>4. answer' \in [kind : Kinds, code : Nat, path : Words, loc : Nat]
    BY <2>1, SlashIsWord DEF NoAnswer, Kinds
  <2>5. TypeOK'
    BY <2>1, <2>2, <2>3, <2>4 DEF TypeOK
  <2>. QED
    BY <2>1, <2>5, SiteIs
<1>9. CASE UNCHANGED vars
  <2>1. /\ cluster' = cluster /\ listener' = listener /\ stage' = stage /\ dest' = dest
        /\ rq' = rq /\ answer' = answer /\ disk' = disk
    BY <1>9 DEF vars
  <2>2. Addresses' = Addresses /\ Locations(dest.server)' = Locations(dest.server)
    BY <2>1, OtherStage
  <2>3. ServersAt(listener)' = ServersAt(listener)
    BY <2>1, ConfigurationStays
  <2>4. TypeOK'
    BY <2>1, <2>2 DEF TypeOK
  <2>5. RequestsGoToTheirSite'
    BY <2>1, <2>3, SiteIs
  <2>. QED
    BY <2>4, <2>5
<1>. QED
  BY <1>1, <1>2, <1>3, <1>4, <1>5, <1>6, <1>7, <1>8, <1>9 DEF Next

(* Everything has its type, and what one request leaves in the destination  *)
(* of its session is not found by the next.                                 *)
THEOREM TypeCorrect == Spec => []TypeOK
<1>1. Init => Placement
  BY PlacementInit
<1>2. Placement /\ [Next]_vars => Placement'
  BY PlacementStep
<1>3. Placement => TypeOK
  BY DEF Placement
<1>. QED
  BY <1>1, <1>2, <1>3, PTL DEF Spec

(* Whatever the servers of an address, their names and their locations are, *)
(* a request whose headers are read is at the server with the best name for *)
(* its host, and there at the location its path names or goes furthest in.  *)
THEOREM RequestsGoWhereTheyBelong == Spec => []RequestsGoToTheirSite
<1>1. Init => Placement
  BY PlacementInit
<1>2. Placement /\ [Next]_vars => Placement'
  BY PlacementStep
<1>3. Placement => RequestsGoToTheirSite
  BY DEF Placement
<1>. QED
  BY <1>1, <1>2, <1>3, PTL DEF Spec

-----------------------------------------------------------------------------
(* Words, one symbol after the other.                                       *)

(* What holds of the empty word, and of a word with one symbol more, holds  *)
(* of every word.                                                           *)
LEMMA WordsInduction ==
    ASSUME NEW S, <<>> \in S,
           \A w \in Words, a \in Symbols : w \in S => Append(w, a) \in S
    PROVE  Words \subseteq S
<1>. SUFFICES ASSUME NEW w \in Words PROVE w \in S
  OBVIOUS
<1>. DEFINE T == {n \in Nat : n <= Len(w) => SubSeq(w, 1, n) \in S}
<1>1. Len(w) \in Nat /\ w \in Seq(Symbols) /\ \A i \in 1 .. Len(w) : w[i] \in Symbols
  BY DEF Words
<1>2. 0 \in T
  <2>1. SubSeq(w, 1, 0) = <<>>
    BY <1>1
  <2>. QED
    BY <2>1
<1>3. ASSUME NEW n \in Nat, n \in T PROVE n + 1 \in T
  <2>. SUFFICES ASSUME n + 1 <= Len(w) PROVE SubSeq(w, 1, n + 1) \in S
    OBVIOUS
  <2>1. n + 1 \in 1 .. Len(w) /\ n <= Len(w)
    BY <1>1
  <2>2. SubSeq(w, 1, n) \in S /\ SubSeq(w, 1, n) \in Words /\ w[n + 1] \in Symbols
    BY <1>1, <1>3, <2>1, PartIsWord
  <2>3. SubSeq(w, 1, n + 1) = Append(SubSeq(w, 1, n), w[n + 1])
    BY <1>1, <2>1
  <2>. QED
    BY <2>2, <2>3
<1>. HIDE DEF T
<1>4. Len(w) \in T
  BY <1>1, <1>2, <1>3, Induction
<1>5. SubSeq(w, 1, Len(w)) = w
  BY <1>1
<1>6. Len(w) <= Len(w)
  BY <1>1
<1>7. SubSeq(w, 1, Len(w)) \in S
  BY <1>4, <1>6 DEF T
<1>. QED
  BY <1>5, <1>7, Zenon

LEMMA Glue ==
    ASSUME NEW x \in Words, NEW y \in Words, NEW z \in Words
    PROVE  (x \o y) \o z = x \o (y \o z)
BY DEF Words

LEMMA GlueNothing ==
    ASSUME NEW x \in Words
    PROVE  <<>> \o x = x /\ x \o <<>> = x
BY DEF Words

LEMMA AppendJoined ==
    ASSUME NEW h \in Words, NEW x \in Words, NEW a \in Symbols
    PROVE  Append(h \o x, a) = h \o Append(x, a)
<1>1. <<a>> \in Words /\ h \o x \in Words
  BY JoinedWord DEF Words
<1>2. \A w \in Words : Append(w, a) = w \o <<a>>
  BY DEF Words
<1>3. (h \o x) \o <<a>> = h \o (x \o <<a>>)
  BY <1>1, Glue, Zenon
<1>. QED
  BY <1>1, <1>2, <1>3, Zenon

LEMMA AppendEnds ==
    ASSUME NEW w \in Words, NEW a \in Symbols
    PROVE  /\ Append(w, a) \in Words /\ Append(w, a) # <<>>
           /\ Last(Append(w, a)) = a /\ Front(Append(w, a)) = w
           /\ Append(w, a) = w \o <<a>>
<1>1. Append(w, a) \in Seq(Symbols) /\ Len(Append(w, a)) = Len(w) + 1 /\ Len(w) \in Nat
  BY DEF Words
<1>2. Append(w, a)[Len(w) + 1] = a
  BY DEF Words
<1>3. SubSeq(Append(w, a), 1, Len(w)) = w
  BY DEF Words
<1>4. Append(w, a) = w \o <<a>>
  BY DEF Words
<1>5. Append(w, a) # <<>>
  BY <1>1
<1>. QED
  BY <1>1, <1>2, <1>3, <1>4, <1>5 DEF Last, Front, Words

LEMMA BareOf ==
    ASSUME NEW w \in Words
    PROVE  /\ Bare(<<>>) = <<>>
           /\ w = <<>> \/ Last(w) # "/" => Bare(w) = w
           /\ Bare(Append(w, "/")) = w
           /\ w # <<>> /\ Last(w) = "/" => /\ w = Append(Bare(w), "/")
                                           /\ w = Bare(w) \o <<"/">>
<1>1. "/" \in Symbols
  BY SitesAssumption
<1>2. Bare(Append(w, "/")) = w
  BY <1>1, AppendEnds DEF Bare
<1>3. ASSUME w # <<>>, Last(w) = "/" PROVE w = Append(Front(w), "/") /\ Front(w) \in Words
  <2>1. w \in Seq(Symbols) /\ Len(w) \in Nat \ {0} /\ w[Len(w)] = "/"
    BY <1>3 DEF Words, Last
  <2>2. w = Append(SubSeq(w, 1, Len(w) - 1), w[Len(w)])
    BY <2>1
  <2>3. SubSeq(w, 1, Len(w) - 1) \in Words
    BY <2>1, PartIsWord
  <2>. QED
    BY <2>1, <2>2, <2>3 DEF Front
<1>4. w # <<>> /\ Last(w) = "/" => Bare(w) = Front(w)
  BY DEF Bare
<1>. QED
  BY <1>1, <1>2, <1>3, <1>4, AppendEnds DEF Bare

-----------------------------------------------------------------------------
(* Canonical.                                                               *)

LEMMA CanonicalUnfolds ==
    ASSUME NEW w \in Words, NEW a \in Symbols
    PROVE  /\ Canonical(<<>>) = <<>>
           /\ Canonical(Append(w, a)) =
                IF a = "/" /\ w # <<>> /\ Last(w) = "/" THEN Canonical(w) ELSE Append(Canonical(w), a)
<1>. DEFINE v == Append(w, a)
            n == Len(w)
            Pieces(x) == [i \in DOMAIN x |-> IF x[i] = "/" /\ i > 1 /\ x[i - 1] = "/" THEN <<>> ELSE <<x[i]>>]
            p == Pieces(w)
            q == Pieces(v)
<1>1. /\ n \in Nat /\ DOMAIN w = 1 .. n /\ \A i \in 1 .. n : w[i] \in Symbols
      /\ v \in Words /\ DOMAIN v = 1 .. n + 1 /\ v[n + 1] = a /\ \A i \in 1 .. n : v[i] = w[i]
  BY DEF Words
<1>2. /\ p = [i \in 1 .. n |-> IF w[i] = "/" /\ i > 1 /\ w[i - 1] = "/" THEN <<>> ELSE <<w[i]>>]
      /\ q = [i \in 1 .. n + 1 |-> IF v[i] = "/" /\ i > 1 /\ v[i - 1] = "/" THEN <<>> ELSE <<v[i]>>]
      /\ Canonical(w) = FlattenSeq(p) /\ Canonical(v) = FlattenSeq(q)
  BY <1>1 DEF Canonical
<1>. HIDE DEF v, p, q
<1>3. \A i \in 1 .. n : <<w[i]>> \in Seq(Symbols) /\ <<>> \in Seq(Symbols) /\ <<a>> \in Seq(Symbols)
  BY <1>1
<1>4. <<>> \in Seq(Symbols) /\ <<a>> \in Seq(Symbols)
  OBVIOUS
<1>. HIDE DEF n
<1>5. p \in [1 .. n -> Seq(Symbols)]
  BY <1>2, <1>3
<1>6. q \in [1 .. n + 1 -> Seq(Symbols)] /\ \A i \in 1 .. n : q[i] = p[i]
  <2>1. ASSUME NEW i \in 1 .. n PROVE q[i] = p[i] /\ q[i] \in Seq(Symbols)
    <3>1. i \in 1 .. n + 1 /\ v[i] = w[i] /\ (i > 1 => v[i - 1] = w[i - 1])
      BY <1>1
    <3>. QED
      BY <1>2, <1>5, <3>1
  <2>2. q[n + 1] \in Seq(Symbols)
    BY <1>1, <1>2, <1>4
  <2>3. \A i \in 1 .. n + 1 : i \in 1 .. n \/ i = n + 1
    BY <1>1
  <2>. QED
    BY <1>2, <2>1, <2>2, <2>3
<1>7. /\ p \in Seq(Seq(Symbols)) /\ Len(p) = n
      /\ q \in Seq(Seq(Symbols)) /\ Len(q) = n + 1 /\ n + 1 \in Nat
  BY <1>1, <1>5, <1>6, FunctionIsSeq
<1>8. SubSeq(q, 1, n) = p
  <2>. DEFINE s == SubSeq(q, 1, n)
              E == Seq(Symbols)
  <2>. HIDE DEF E
  <2>1. q \in Seq(E) /\ Len(q) = n + 1
    BY <1>7 DEF E
  <2>2. s \in Seq(E) /\ Len(s) = n /\ \A i \in 1 .. n : s[i] = q[i]
    BY <1>1, <2>1
  <2>. HIDE DEF s
  <2>3. p \in Seq(E) /\ Len(p) = n /\ \A i \in 1 .. Len(s) : s[i] = p[i]
    BY <1>6, <1>7, <2>2 DEF E
  <2>4. s = p
    BY <2>2, <2>3, SeqEqual
  <2>. QED
    BY <2>4 DEF s
<1>9. FirstOf(q, n + 1) = FirstOf(q, n) \o q[n + 1] /\ FirstOf(q, n + 1) = FlattenSeq(q)
  <2>1. n \in 0 .. Len(q) - 1
    BY <1>1, <1>7
  <2>. QED
    BY <1>7, <2>1, FirstOfSteps, Zenon
<1>10. FirstOf(q, n) = FlattenSeq(p)
  BY <1>8 DEF FirstOf
<1>11. Canonical(v) = Canonical(w) \o q[n + 1]
  BY <1>2, <1>9, <1>10
<1>12. q[n + 1] = IF a = "/" /\ w # <<>> /\ Last(w) = "/" THEN <<>> ELSE <<a>>
  <2>1. q[n + 1] = IF a = "/" /\ n + 1 > 1 /\ v[n] = "/" THEN <<>> ELSE <<a>>
    BY <1>1, <1>2
  <2>2. w # <<>> <=> n + 1 > 1
    BY <1>1 DEF n, Words
  <2>3. n + 1 > 1 => v[n] = Last(w)
    BY <1>1 DEF n, Last
  <2>. QED
    BY <2>1, <2>2, <2>3
<1>13. Canonical(w) \in Words
  BY CanonicalIsWord
<1>14. Canonical(w) \o <<>> = Canonical(w) /\ Canonical(w) \o <<a>> = Append(Canonical(w), a)
  BY <1>13 DEF Words
<1>15. Canonical(<<>>) = <<>>
  <2>1. Canonical(<<>>) = FlattenSeq(<<>>)
    BY DEF Canonical
  <2>. QED
    BY <2>1, FlattenEmpty
<1>. QED
  BY <1>11, <1>12, <1>14, <1>15 DEF v

(* It ends as the word does.                                                *)
LEMMA CanonicalEnds ==
    ASSUME NEW w \in Words, w # <<>>
    PROVE  Canonical(w) # <<>> /\ Last(Canonical(w)) = Last(w)
<1>. DEFINE S == {x \in Words : x # <<>> => Canonical(x) # <<>> /\ Last(Canonical(x)) = Last(x)}
<1>1. <<>> \in S
  BY SlashIsWord
<1>2. ASSUME NEW x \in Words, NEW a \in Symbols, x \in S PROVE Append(x, a) \in S
  <2>1. CASE a = "/" /\ x # <<>> /\ Last(x) = "/"
    <3>1. Canonical(Append(x, a)) = Canonical(x)
      BY <2>1, CanonicalUnfolds
    <3>. QED
      BY <1>2, <2>1, <3>1, AppendEnds
  <2>2. CASE ~(a = "/" /\ x # <<>> /\ Last(x) = "/")
    <3>. DEFINE c == Canonical(x)
    <3>1. Canonical(Append(x, a)) = Append(c, a) /\ c \in Words
      BY <2>2, CanonicalUnfolds, CanonicalIsWord
    <3>2. Append(x, a) \in Words /\ Last(Append(x, a)) = a
      BY AppendEnds
    <3>. HIDE DEF c
    <3>3. Append(c, a) # <<>> /\ Last(Append(c, a)) = a
      BY <3>1, AppendEnds
    <3>. QED
      BY <3>1, <3>2, <3>3
  <2>. QED
    BY <2>1, <2>2
<1>. HIDE DEF S
<1>3. w \in S
  BY <1>1, <1>2, WordsInduction
<1>. QED
  BY <1>3 DEF S

(* It has no slashes to drop.                                               *)
LEMMA CanonicalSettles ==
    ASSUME NEW w \in Words
    PROVE  Canonical(Canonical(w)) = Canonical(w)
<1>. DEFINE S == {x \in Words : Canonical(Canonical(x)) = Canonical(x)}
<1>0. "/" \in Symbols
  BY SitesAssumption
<1>1. <<>> \in S
  BY <1>0, SlashIsWord, CanonicalUnfolds
<1>2. ASSUME NEW x \in Words, NEW a \in Symbols, x \in S PROVE Append(x, a) \in S
  <2>1. CASE a = "/" /\ x # <<>> /\ Last(x) = "/"
    <3>1. Canonical(Append(x, a)) = Canonical(x)
      BY <2>1, CanonicalUnfolds
    <3>. QED
      BY <1>2, <3>1, AppendEnds
  <2>2. CASE ~(a = "/" /\ x # <<>> /\ Last(x) = "/")
    <3>1. Canonical(Append(x, a)) = Append(Canonical(x), a) /\ Canonical(x) \in Words
      BY <2>2, CanonicalUnfolds, CanonicalIsWord
    <3>2. ~(a = "/" /\ Canonical(x) # <<>> /\ Last(Canonical(x)) = "/")
      <4>1. x = <<>> => Canonical(x) = <<>>
        BY <1>0, CanonicalUnfolds
      <4>. QED
        BY <2>2, <4>1, CanonicalEnds
    <3>3. Canonical(Append(Canonical(x), a)) = Append(Canonical(Canonical(x)), a)
      BY <3>1, <3>2, CanonicalUnfolds
    <3>. QED
      BY <1>2, <3>1, <3>3, AppendEnds
  <2>. QED
    BY <2>1, <2>2
<1>. HIDE DEF S
<1>3. w \in S
  BY <1>1, <1>2, WordsInduction
<1>. QED
  BY <1>3 DEF S

(* A slash at the end makes no difference to a directory.                   *)
LEMMA CanonicalBare ==
    ASSUME NEW w \in Words
    PROVE  Bare(Canonical(Bare(w))) = Bare(Canonical(w))
<1>. DEFINE b == Bare(w)
<1>1. b \in Words /\ Canonical(b) \in Words /\ "/" \in Symbols
  BY BareIsWord, CanonicalIsWord, SitesAssumption
<1>2. CASE w = <<>> \/ Last(w) # "/"
  BY <1>2, BareOf
<1>3. CASE w # <<>> /\ Last(w) = "/"
  <2>1. w = Append(b, "/")
    BY <1>3, BareOf
  <2>. HIDE DEF b
  <2>2. CASE b # <<>> /\ Last(b) = "/"
    <3>1. Canonical(Append(b, "/")) = Canonical(b)
      BY <1>1, <2>2, CanonicalUnfolds
    <3>. QED
      BY <2>1, <3>1 DEF b
  <2>3. CASE b = <<>> \/ Last(b) # "/"
    <3>1. Canonical(Append(b, "/")) = Append(Canonical(b), "/")
      BY <1>1, <2>3, CanonicalUnfolds
    <3>2. Canonical(b) = <<>> \/ Last(Canonical(b)) # "/"
      BY <1>1, <2>3, CanonicalUnfolds, CanonicalEnds
    <3>3. Bare(Canonical(b)) = Canonical(b) /\ Bare(Append(Canonical(b), "/")) = Canonical(b)
      BY <1>1, <3>2, BareOf
    <3>. QED
      BY <2>1, <3>1, <3>3 DEF b
  <2>. QED
    BY <2>2, <2>3
<1>. QED
  BY <1>2, <1>3

(* What stands below a directory stays below it.                            *)
LEMMA CanonicalBelow ==
    ASSUME NEW u \in Words, NEW r \in Words
    PROVE  \E x \in Words : Canonical(u \o <<"/">> \o r) = Bare(Canonical(u)) \o <<"/">> \o x
<1>. DEFINE dir == Bare(Canonical(u))
            head == u \o <<"/">>
            S == {z \in Words : \E x \in Words : Canonical(head \o z) = dir \o <<"/">> \o x}
<1>1. /\ Canonical(u) \in Words /\ dir \in Words /\ head \in Words /\ "/" \in Symbols
      /\ dir \o <<"/">> \in Words
  BY CanonicalIsWord, BareIsWord, SlashIsWord, JoinedWord, SitesAssumption
<1>2. \A z \in Words : z \o <<>> = z
  BY DEF Words
<1>3. ASSUME NEW y \in Words, NEW z \in Words, NEW a \in Symbols
      PROVE  Append(y \o z, a) = y \o Append(z, a)
  <2>1. Append(y \o z, a) = (y \o z) \o <<a>> /\ Append(z, a) = z \o <<a>>
    BY JoinedWord, AppendEnds
  <2>2. (y \o z) \o <<a>> = y \o (z \o <<a>>)
    BY DEF Words
  <2>. QED
    BY <2>1, <2>2
<1>4. <<>> \in S
  <2>1. head = Append(u, "/")
    BY <1>1, AppendEnds
  <2>2. Canonical(head) = dir \o <<"/">>
    <3>1. CASE u # <<>> /\ Last(u) = "/"
      <4>1. Canonical(head) = Canonical(u)
        BY <1>1, <2>1, <3>1, CanonicalUnfolds
      <4>2. Canonical(u) # <<>> /\ Last(Canonical(u)) = "/"
        BY <3>1, CanonicalEnds
      <4>. QED
        BY <1>1, <4>1, <4>2, BareOf
    <3>2. CASE u = <<>> \/ Last(u) # "/"
      <4>1. Canonical(head) = Append(Canonical(u), "/")
        BY <1>1, <2>1, <3>2, CanonicalUnfolds
      <4>2. Canonical(u) = <<>> \/ Last(Canonical(u)) # "/"
        BY <1>1, <3>2, CanonicalUnfolds, CanonicalEnds
      <4>3. dir = Canonical(u)
        BY <1>1, <4>2, BareOf
      <4>4. Append(Canonical(u), "/") = Canonical(u) \o <<"/">>
        BY <1>1, AppendEnds
      <4>. QED
        BY <4>1, <4>3, <4>4
    <3>. QED
      BY <3>1, <3>2
  <2>. HIDE DEF dir, head
  <2>3. head \o <<>> = head /\ (dir \o <<"/">>) \o <<>> = dir \o <<"/">>
    BY <1>1, <1>2
  <2>. QED
    BY <2>2, <2>3, SlashIsWord
<1>5. ASSUME NEW z \in Words, NEW a \in Symbols, z \in S PROVE Append(z, a) \in S
  <2>1. PICK x \in Words : Canonical(head \o z) = dir \o <<"/">> \o x
    BY <1>5
  <2>2. head \o z \in Words /\ Append(z, a) \in Words /\ Append(x, a) \in Words
    BY <1>1, JoinedWord, AppendEnds
  <2>. HIDE DEF dir, head
  <2>3. head \o Append(z, a) = Append(head \o z, a)
    BY <1>1, <1>3, SMTT(30)
  <2>4. \/ Canonical(Append(head \o z, a)) = Canonical(head \o z)
        \/ Canonical(Append(head \o z, a)) = Append(Canonical(head \o z), a)
    BY <2>2, CanonicalUnfolds
  <2>5. Append((dir \o <<"/">>) \o x, a) = (dir \o <<"/">>) \o Append(x, a)
    <3>. DEFINE h == dir \o <<"/">>
    <3>1. h \in Words /\ x \in Words /\ a \in Symbols
      BY <1>1, <1>3, SlashIsWord, JoinedWord
    <3>. HIDE DEF h
    <3>2. Append(h \o x, a) = h \o Append(x, a)
      BY <3>1, AppendJoined, Zenon
    <3>. QED
      BY <3>2 DEF h
  <2>. QED
    BY <2>1, <2>2, <2>3, <2>4, <2>5
<1>. HIDE DEF S
<1>6. r \in S
  BY <1>4, <1>5, WordsInduction
<1>. QED
  BY <1>6 DEF S

-----------------------------------------------------------------------------
(* What lies in a directory.                                                *)
InsideOf(a, w) == \E r \in Words : w = Bare(a) \o <<"/">> \o r

LEMMA InsideJoined ==
    ASSUME NEW a \in Words, NEW w \in Words, NEW x \in Words, InsideOf(a, w)
    PROVE  InsideOf(a, w \o x)
<1>1. PICK r \in Words : w = Bare(a) \o <<"/">> \o r
  BY DEF InsideOf
<1>. DEFINE b == Bare(a) \o <<"/">>
<1>2. b \in Words /\ r \in Words /\ x \in Words /\ r \o x \in Words
  BY BareIsWord, SlashIsWord, JoinedWord
<1>. HIDE DEF b
<1>3. (b \o r) \o x = b \o (r \o x)
  BY <1>2 DEF Words
<1>. QED
  BY <1>1, <1>2, <1>3 DEF InsideOf, b

LEMMA DirectoryJoined ==
    ASSUME NEW a \in Words, NEW x \in Words
    PROVE  /\ InsideOf(a, a \o <<"/">> \o x)
           /\ a # <<>> /\ Last(a) = "/" => InsideOf(a, a \o x)
<1>. DEFINE b == Bare(a)
            s == <<"/">>
<1>1. b \in Words /\ s \in Words /\ b \o s \in Words /\ s \o x \in Words
  BY BareIsWord, SlashIsWord, JoinedWord
<1>2. CASE a # <<>> /\ Last(a) = "/"
  <2>1. a = b \o s
    BY <1>2, BareOf
  <2>. HIDE DEF b, s
  <2>2. (b \o s) \o s \o x = (b \o s) \o (s \o x)
    <3>. DEFINE h == b \o s
    <3>1. h \in Words /\ s \in Words /\ x \in Words
      BY <1>1
    <3>. HIDE DEF h
    <3>2. (h \o s) \o x = h \o (s \o x)
      BY <3>1, Glue, Zenon
    <3>. QED
      BY <3>2 DEF h
  <2>3. InsideOf(a, a \o s \o x) /\ InsideOf(a, a \o x)
    <3>1. a \o s \o x = b \o s \o (s \o x) /\ a \o x = b \o s \o x
      BY <2>1, <2>2
    <3>. QED
      BY <1>1, <3>1, Zenon DEF InsideOf, b, s
  <2>. QED
    BY <2>3 DEF s
<1>3. CASE ~(a # <<>> /\ Last(a) = "/")
  <2>1. b = a
    BY <1>3, BareOf
  <2>2. InsideOf(a, a \o s \o x)
    BY <2>1, Zenon DEF InsideOf
  <2>. QED
    BY <1>3, <2>2
<1>. QED
  BY <1>2, <1>3

LEMMA PlaceStands ==
    ASSUME NEW alias \in Words, alias # <<>>, NEW route \in Words, NEW path \in Words
    PROVE  \/ UpdatePath(alias, route, path) = Tail(alias)
           \/ InsideOf(Tail(alias), UpdatePath(alias, route, path))
<1>. DEFINE rest == SubSeq(path, Len(route) + 1, Len(path))
            left == IF rest[1] = "/" THEN Tail(rest) ELSE rest
<1>1. rest \in Words
  <2>1. Len(route) + 1 \in Nat \ {0} /\ Len(path) \in Nat
    BY WordLen
  <2>. QED
    BY <2>1, PartIsWord
<1>2. UpdatePath(alias, route, path) =
        IF rest \in {<<>>, <<"/">>} THEN Tail(alias) ELSE Bare(Tail(alias)) \o <<"/">> \o left
  BY DEF UpdatePath
<1>. HIDE DEF rest
<1>3. rest # <<>> => left \in Words
  BY <1>1, TailIsWord
<1>. HIDE DEF left
<1>. QED
  BY <1>2, <1>3 DEF InsideOf

(* The name of a directory and a slash stand before what lies in it, as the *)
(* file system sees them.                                                   *)
LEMMA InsideIsBelow ==
    ASSUME NEW a \in Words, NEW w \in Words, InsideOf(a, w)
    PROVE  LET dir == Bare(Canonical(a))
           IN  /\ Below(dir, Canonical(w)) \/ Bare(Canonical(w)) = dir
               /\ Last(w) # "/" => Below(dir, Canonical(w))
<1>. DEFINE dir == Bare(Canonical(a))
            head == dir \o <<"/">>
            c == Canonical(w)
<1>1. PICK r \in Words : w = Bare(a) \o <<"/">> \o r
  BY DEF InsideOf
<1>2. PICK x \in Words : Canonical(Bare(a) \o <<"/">> \o r) = Bare(Canonical(Bare(a))) \o <<"/">> \o x
  BY BareIsWord, CanonicalBelow
<1>3. c = head \o x
  BY <1>1, <1>2, CanonicalBare
<1>4. dir \in Words /\ head \in Words /\ c \in Words /\ "/" \in Symbols
  BY CanonicalIsWord, BareIsWord, SlashIsWord, JoinedWord, SitesAssumption
<1>5. w # <<>>
  <2>. DEFINE b == Bare(a)
  <2>1. b \in Seq(Symbols) /\ <<"/">> \in Seq(Symbols) /\ r \in Seq(Symbols)
    BY <1>4, BareIsWord DEF Words
  <2>2. w = b \o <<"/">> \o r
    BY <1>1
  <2>. HIDE DEF b
  <2>3. Len(w) = (Len(b) + 1) + Len(r) /\ Len(b) \in Nat /\ Len(r) \in Nat
    BY <2>1, <2>2
  <2>. QED
    BY <2>3
<1>6. head = Append(dir, "/")
  BY <1>4, AppendEnds
<1>. HIDE DEF head, dir, c
<1>7. CASE x = <<>>
  <2>1. c = head
    BY <1>3, <1>4, <1>7, GlueNothing
  <2>2. Bare(c) = dir /\ Last(c) = "/"
    BY <1>4, <1>6, <2>1, BareOf, AppendEnds
  <2>3. Last(w) = "/"
    BY <1>5, <2>2, CanonicalEnds DEF c
  <2>. QED
    BY <2>2, <2>3 DEF dir, c
<1>8. CASE x # <<>>
  <2>1. head \in Seq(Symbols) /\ x \in Seq(Symbols) /\ c \in Seq(Symbols)
    BY <1>4 DEF Words
  <2>2. Len(c) = Len(head) + Len(x) /\ Len(head) \in Nat /\ Len(x) \in Nat \ {0}
    BY <1>3, <1>8, <2>1
  <2>3. \A i \in 1 .. Len(head) : head[i] = c[i]
    BY <1>3, <2>1
  <2>4. IsPrefix(head, c)
    BY <2>1, <2>2, <2>3, PrefixIs
  <2>5. head # c
    BY <2>2
  <2>6. Below(dir, c)
    BY <2>4, <2>5 DEF Below, IsStrictPrefix, head
  <2>. QED
    BY <2>6 DEF dir, c
<1>. QED
  BY <1>7, <1>8

(* The name of a script is not empty and has no slash.                      *)
LEMMA ScriptHasName ==
    ASSUME NEW target \in Words, NEW s \in ScriptLocDetails(target)
    PROVE  s.name # <<>> /\ Last(s.name) # "/"
<1>. DEFINE marks == CgiMarks(target)
            start == Min(marks) + 3
            ends == {i \in start .. Len(target) : target[i] = "/"} \cup {Len(target) + 1}
            end == Min(ends)
            name == SubSeq(target, start, end - 1)
<1>1. /\ marks # {} /\ s.name = name
      /\ \E i \in DOMAIN name : name[i] = "."
  <2>. DEFINE found == [location |-> SubSeq(target, 1, start - 1), name |-> name,
                       extra |-> SubSeq(target, end, Len(target))]
  <2>1. ScriptLocDetails(target) =
          IF marks = {} \/ ~(\E i \in DOMAIN name : name[i] = ".") THEN {} ELSE {found}
    BY Zenon DEF ScriptLocDetails
  <2>2. found.name = name
    OBVIOUS
  <2>. HIDE DEF marks, name, found
  <2>3. ~(marks = {} \/ ~(\E i \in DOMAIN name : name[i] = ".")) /\ s = found
    BY <2>1
  <2>. QED
    BY <2>2, <2>3, Zenon
<1>2. Len(target) \in Nat /\ DOMAIN target = 1 .. Len(target) /\ target \in Seq(Symbols)
  BY WordLen
<1>3. Min(marks) \in marks
  <2>1. marks \in SUBSET Nat
    BY <1>2, CgiMarksAre
  <2>. HIDE DEF marks
  <2>. QED
    BY <1>1, <2>1, MinOfNats
<1>4. start \in Nat \ {0}
  <2>1. Min(marks) \in Nat
    BY <1>2, <1>3, CgiMarksAre
  <2>. HIDE DEF marks
  <2>. QED
    BY <2>1
<1>. HIDE DEF start, marks
<1>5. end \in ends /\ \A i \in ends : end <= i
  <2>1. ends \in SUBSET Nat /\ ends # {}
    BY <1>2, <1>4
  <2>. HIDE DEF ends
  <2>. QED
    BY <2>1, MinOfNats
<1>6. end \in Nat /\ end <= Len(target) + 1
  BY <1>2, <1>4, <1>5
<1>7. \A i \in start .. Len(target) : target[i] = "/" => end <= i
  BY <1>5
<1>. HIDE DEF ends, end
<1>8. \A i \in start .. end - 1 : i \in 1 .. Len(target) /\ target[i] # "/"
  BY <1>2, <1>4, <1>6, <1>7
<1>9. Len(name) = IF start <= end - 1 THEN (end - 1) - start + 1 ELSE 0
  BY <1>2, <1>4, <1>6
<1>10. DOMAIN name = 1 .. Len(name)
  BY <1>2, <1>4, <1>6
<1>11. start <= end - 1
  <2>. HIDE DEF name
  <2>1. \E i \in 1 .. Len(name) : TRUE
    BY <1>1, <1>10, Zenon
  <2>. QED
    BY <1>9, <2>1
<1>12. Len(name) = (end - 1) - start + 1 /\ Len(name) \in Nat \ {0}
  BY <1>4, <1>6, <1>9, <1>11
<1>13. name[Len(name)] = target[end - 1]
  <2>1. name[(end - 1) - start + 1] = target[end - 1]
    BY <1>2, <1>4, <1>6, <1>8, <1>11
  <2>. QED
    BY <1>12, <2>1
<1>14. Last(name) # "/"
  BY <1>4, <1>6, <1>8, <1>11, <1>13 DEF Last
<1>15. name # <<>>
  <2>. HIDE DEF name
  <2>. QED
    BY <1>12
<1>. QED
  BY <1>1, <1>14, <1>15

-----------------------------------------------------------------------------
(* What the processors touch.                                               *)
Touches == {"file", "list", "script", "created", "deleted"}

(* ServedIsInside, for a location, the path the request was mapped to, and  *)
(* an answer.                                                               *)
Inside(l, place, kind, w) ==
    LET dir == Bare(Canonical(Tail(l.alias)))
    IN  \/ Below(dir, Canonical(w))
        \/ Bare(Canonical(w)) = dir /\ kind # "script"
        \/ place = Tail(l.alias) /\ Last(l.alias) # "/"

InsideReply(l, place, reply) == reply.kind \in Touches => Inside(l, place, reply.kind, reply.path)

LEMMA ErrorIsInside ==
    ASSUME NEW l, NEW place, NEW code
    PROVE  InsideReply(l, place, ErrorReply(code))
BY DEF InsideReply, ErrorReply, Reply, Touches

LEMMA PlaceIsInside ==
    ASSUME NEW l \in LocationConfigs, NEW place \in Words,
           place = Tail(l.alias) \/ InsideOf(Tail(l.alias), place),
           NEW kind, kind # "script"
    PROVE  Inside(l, place, kind, place)
<1>. DEFINE a == Tail(l.alias)
<1>1. a \in Words
  BY LocationTyped, TailIsWord
<1>2. CASE place = a
  BY <1>2 DEF Inside
<1>3. CASE InsideOf(a, place)
  BY <1>1, <1>3, InsideIsBelow DEF Inside
<1>. QED
  BY <1>2, <1>3

(* The index of a directory.                                                *)
LEMMA IndexIsInside ==
    ASSUME NEW l \in LocationConfigs, NEW place \in Words,
           place = Tail(l.alias) \/ InsideOf(Tail(l.alias), place),
           NEW file \in Words, NEW kind, kind # "script"
    PROVE  Inside(l, place, kind, place \o file)
<1>. DEFINE a == Tail(l.alias)
<1>1. a \in Words /\ place \o file \in Words
  BY LocationTyped, TailIsWord, JoinedWord
<1>2. a # <<>> /\ Last(a) = Last(l.alias)
  <2>1. l.alias \in Seq(Symbols) /\ Len(l.alias) \in Nat /\ Len(l.alias) > 1
    BY LocationTyped DEF Words
  <2>. DEFINE w == l.alias
              n == Len(w)
  <2>2. w \in Seq(Symbols) /\ n \in Nat /\ n > 1 /\ n = Len(w) /\ a = Tail(w)
    BY <2>1
  <2>. HIDE DEF w, n, a
  <2>3. w # <<>> /\ (n - 1) + 1 = n /\ n - 1 \in 1 .. n - 1
    BY <2>2
  <2>4. Len(a) = n - 1 /\ a[n - 1] = w[n]
    BY <2>2, <2>3, HeadTailProperties
  <2>5. a # <<>>
    BY <2>2, <2>4
  <2>. QED
    BY <2>2, <2>4, <2>5 DEF Last, w
<1>. HIDE DEF a
<1>3. CASE InsideOf(a, place)
  BY <1>1, <1>3, InsideJoined, InsideIsBelow DEF Inside, a
<1>4. CASE place = a /\ Last(l.alias) = "/"
  <2>1. InsideOf(a, place \o file)
    BY <1>1, <1>2, <1>4, DirectoryJoined
  <2>. QED
    BY <1>1, <2>1, InsideIsBelow DEF Inside, a
<1>5. CASE place = a /\ Last(l.alias) # "/"
  BY <1>5 DEF Inside, a
<1>. QED
  BY <1>3, <1>4, <1>5 DEF a

LEMMA GetIsInside ==
    ASSUME NEW l \in LocationConfigs, NEW target, NEW place \in Words,
           place = Tail(l.alias) \/ InsideOf(Tail(l.alias), place)
    PROVE  InsideReply(l, place, GetReply(l, target, place))
<1>. DEFINE found == {i \in DOMAIN l.files : IsRegularFile(place \o l.files[i])}
<1>1. found # {} => l.files[Min(found)] \in Words
  <2>1. found \in SUBSET Nat
    BY LocationTyped
  <2>2. found # {} => Min(found) \in found
    <3>. HIDE DEF found
    <3>. QED
      BY <2>1, MinOfNats
  <2>. QED
    BY <2>2, LocationTyped
<1>2. GetReply(l, target, place) =
        CASE IsDirectory(place) /\ found # {} -> Reply("file", 200, place \o l.files[Min(found)])
          [] IsDirectory(place) /\ found = {} /\ l.listing -> DirectoryReply(target, place)
          [] IsDirectory(place) /\ found = {} /\ ~l.listing -> ErrorReply(403)
          [] IsRegularFile(place) -> Reply("file", 200, place)
          [] OTHER -> ErrorReply(404)
  BY Zenon DEF GetReply
<1>. HIDE DEF found
<1>3. found # {} => InsideReply(l, place, Reply("file", 200, place \o l.files[Min(found)]))
  BY <1>1, IndexIsInside DEF InsideReply, Reply
<1>4. InsideReply(l, place, Reply("file", 200, place))
  BY PlaceIsInside DEF InsideReply, Reply
<1>5. InsideReply(l, place, DirectoryReply(target, place))
  BY PlaceIsInside DEF InsideReply, DirectoryReply, Reply, Touches
<1>. QED
  BY <1>2, <1>3, <1>4, <1>5, ErrorIsInside

LEMMA CgiIsInside ==
    ASSUME NEW l \in LocationConfigs, NEW target \in Words, NEW place
    PROVE  InsideReply(l, place, CgiReply(l, target))
<1>. DEFINE script == CHOOSE s \in ScriptLocDetails(target) : TRUE
            location == UpdatePath(l.alias, l.route, script.location)
            file == location \o <<"/">> \o script.extra \o <<"/">> \o script.name
<1>1. CASE ScriptLocDetails(target) = {}
  <2>1. CgiReply(l, target) = ErrorReply(400)
    BY <1>1 DEF CgiReply
  <2>. QED
    BY <2>1, ErrorIsInside
<1>2. CASE ScriptLocDetails(target) # {}
  <2>1. script \in ScriptLocDetails(target)
    BY <1>2
  <2>2. CgiReply(l, target) =
          IF ~IsValidExtension(script.name, l.extensions) THEN ErrorReply(501)
          ELSE IF IsRegularFile(file) /\ HasInterpreter(script.name)
               THEN Reply("script", 200, Canonical(file)) ELSE ErrorReply(500)
    BY <1>2, ZenonT(40) DEF CgiReply
  <2>. HIDE DEF script
  <2>3. /\ script.location \in Words /\ script.name \in Words /\ script.extra \in Words
        /\ script.name # <<>> /\ Last(script.name) # "/"
    BY <2>1, ScriptIsWords, ScriptHasName
  <2>. DEFINE a == Tail(l.alias)
              s == <<"/">>
              extra == script.extra
              name == script.name
              t == extra \o s \o name
  <2>4. a \in Words /\ location \in Words /\ (location = a \/ InsideOf(a, location))
    BY <2>3, LocationTyped, TailIsWord, PlaceIsWord, PlaceStands
  <2>5. s \in Words /\ extra \in Words /\ name \in Words /\ extra \o s \in Words /\ t \in Words
    BY <2>3, SlashIsWord, JoinedWord
  <2>6. file = location \o s \o extra \o s \o name
    OBVIOUS
  <2>. HIDE DEF location, file, a, s, extra, name
  <2>7. file = location \o s \o t
    <3>1. location \o s \in Words /\ location \o s \o extra \in Words
      BY <2>4, <2>5, JoinedWord
    <3>2. (location \o s \o extra) \o s = (location \o s) \o (extra \o s)
      <4>. DEFINE h == location \o s
      <4>1. h \in Words /\ extra \in Words /\ s \in Words
        BY <2>5, <3>1
      <4>. HIDE DEF h
      <4>2. (h \o extra) \o s = h \o (extra \o s)
        BY <4>1, Glue, Zenon
      <4>. QED
        BY <4>2 DEF h
    <3>3. ((location \o s) \o (extra \o s)) \o name = (location \o s) \o ((extra \o s) \o name)
      <4>. DEFINE h == location \o s
                  e == extra \o s
      <4>1. h \in Words /\ e \in Words /\ name \in Words
        BY <2>5, <3>1
      <4>. HIDE DEF h, e
      <4>2. (h \o e) \o name = h \o (e \o name)
        BY <4>1, Glue, Zenon
      <4>. QED
        BY <4>2 DEF h, e
    <3>. QED
      BY <2>6, <3>2, <3>3
  <2>8. file \in Words /\ InsideOf(a, file)
    <3>. HIDE DEF t
    <3>0. file \in Words
      BY <2>4, <2>5, <2>7, JoinedWord
    <3>1. CASE location = a
      <4>1. InsideOf(a, a \o s \o t)
        BY <2>4, <2>5, DirectoryJoined DEF s
      <4>. QED
        BY <2>7, <3>0, <3>1, <4>1
    <3>2. CASE InsideOf(a, location)
      <4>1. s \o t \in Words
        BY <2>5, JoinedWord
      <4>2. (location \o s) \o t = location \o (s \o t)
        <5>1. location \in Words /\ s \in Words /\ t \in Words
          BY <2>4, <2>5
        <5>. QED
          BY <5>1, Glue, Zenon
      <4>. QED
        BY <2>4, <2>7, <3>0, <3>2, <4>1, <4>2, InsideJoined
    <3>. QED
      BY <2>4, <3>0, <3>1, <3>2
  <2>9. Last(file) # "/"
    <3>. DEFINE h == location \o s \o extra \o s
    <3>1. h \in Seq(Symbols) /\ name \in Seq(Symbols) /\ name # <<>> /\ Last(name) # "/"
      BY <2>3, <2>4, <2>5, JoinedWord DEF name, Words
    <3>2. file = h \o name
      BY <2>6
    <3>. HIDE DEF h
    <3>3. Len(h) \in Nat /\ Len(name) \in Nat \ {0} /\ Len(file) = Len(h) + Len(name)
      BY <3>1, <3>2
    <3>4. file[Len(h) + Len(name)] = name[Len(name)]
      BY <3>1, <3>2, <3>3
    <3>. QED
      BY <3>1, <3>3, <3>4 DEF Last
  <2>10. Below(Bare(Canonical(a)), Canonical(Canonical(file)))
    BY <2>4, <2>8, <2>9, InsideIsBelow, CanonicalSettles
  <2>11. InsideReply(l, place, Reply("script", 200, Canonical(file)))
    BY <2>10 DEF InsideReply, Inside, Reply, a
  <2>. QED
    BY <2>2, <2>11, ErrorIsInside
<1>. QED
  BY <1>1, <1>2

-----------------------------------------------------------------------------
(* A request that may be answered has the path of its target, in the        *)
(* location that was found for it.                                          *)
PathIsPlaced ==
    stage = "read" /\ rq.status = 200 => dest.path = UpdatePath(At.alias, At.route, rq.path)

LEMMA AnswerIsInside ==
    ASSUME TypeOK, PathIsPlaced, stage = "read"
    PROVE  InsideReply(At, dest.path, ProcessRequest)
<1>. DEFINE l == Locations(dest.server)[dest.loc]
            ret == CHOOSE r \in l.redirect : TRUE
<1>1. /\ cluster \in Clusters /\ rq.path \in Words /\ rq.method \in Methods
      /\ dest.path \in Words /\ dest.server \in DOMAIN cluster.servers \cup {0}
      /\ rq.status = 200 => dest.loc # 0 /\ dest.loc \in DOMAIN Locations(dest.server)
      /\ dest.server # 0
  BY DEF TypeOK
<1>2. rq.status = 200 => l \in LocationConfigs
  <2>1. cluster.servers \in Seq(ServerConfigs) /\ dest.server \in DOMAIN cluster.servers
    BY <1>1, SitesAssumption
  <2>2. Locations(dest.server) \in Seq(LocationConfigs)
    BY <2>1, ServerTyped DEF Locations
  <2>. QED
    BY <1>1, <2>2
<1>3. At = l
  BY DEF At
<1>4. rq.status = 200 => dest.path = Tail(l.alias) \/ InsideOf(Tail(l.alias), dest.path)
  <2>1. rq.status = 200 => dest.path = UpdatePath(l.alias, l.route, rq.path)
    BY <1>3 DEF PathIsPlaced
  <2>2. l \in LocationConfigs => l.alias \in Words /\ l.alias # <<>> /\ l.route \in Words
    BY LocationTyped
  <2>. DEFINE alias == l.alias
              route == l.route
  <2>. HIDE DEF l, alias, route
  <2>3. alias \in Words /\ alias # <<>> /\ route \in Words =>
          \/ UpdatePath(alias, route, rq.path) = Tail(alias)
          \/ InsideOf(Tail(alias), UpdatePath(alias, route, rq.path))
    BY <1>1, PlaceStands
  <2>. QED
    BY <1>2, <2>1, <2>2, <2>3 DEF alias, route
<1>5. CASE rq.status # 200
  <2>1. ProcessRequest = ErrorReply(rq.status)
    BY <1>5 DEF ProcessRequest
  <2>. QED
    BY <2>1, ErrorIsInside
<1>6. CASE rq.status = 200 /\ l.redirect # {}
  <2>1. ProcessRequest = RedirectReply(ret[1], ret[2])
    BY <1>6 DEF ProcessRequest
  <2>2. InsideReply(l, dest.path, Reply("return", ret[1], ret[2]))
    BY DEF InsideReply, Reply, Touches
  <2>. HIDE DEF ret, l
  <2>. QED
    BY <1>3, <2>1, <2>2, ErrorIsInside DEF RedirectReply
<1>7. CASE rq.status = 200 /\ l.redirect = {} /\ l.cgi
  <2>1. ProcessRequest = CgiReply(l, rq.path)
    BY <1>7 DEF ProcessRequest
  <2>. HIDE DEF l
  <2>. QED
    BY <1>1, <1>2, <1>3, <1>7, <2>1, CgiIsInside
<1>8. CASE rq.status = 200 /\ l.redirect = {} /\ ~l.cgi
  <2>1. ProcessRequest = CASE rq.method = "GET" -> GetReply(l, rq.path, dest.path)
                           [] rq.method = "POST" -> PostReply(dest.path)
                           [] rq.method = "DELETE" -> DeleteReply(dest.path)
    BY <1>8 DEF ProcessRequest
  <2>. HIDE DEF l
  <2>. DEFINE place == dest.path
  <2>2. /\ l \in LocationConfigs /\ place \in Words
        /\ place = Tail(l.alias) \/ InsideOf(Tail(l.alias), place)
    BY <1>1, <1>2, <1>4, <1>8
  <2>. HIDE DEF place
  <2>3. InsideReply(l, place, GetReply(l, rq.path, place))
    BY <2>2, GetIsInside
  <2>4. Inside(l, place, "created", place) /\ Inside(l, place, "deleted", place)
    BY <2>2, PlaceIsInside
  <2>5. InsideReply(l, place, Reply("created", 201, place)) /\ InsideReply(l, place, Reply("deleted", 204, place))
    BY <2>4 DEF InsideReply, Reply
  <2>6. InsideReply(l, place, PostReply(place)) /\ InsideReply(l, place, DeleteReply(place))
    BY <2>5, ErrorIsInside DEF PostReply, DeleteReply
  <2>. QED
    BY <1>1, <1>3, <2>1, <2>3, <2>6 DEF Methods, place
<1>. QED
  BY <1>5, <1>6, <1>7, <1>8

LEMMA InsideIs ==
    /\ ServedIsInside <=> (stage = "answered" => InsideReply(At, dest.path, answer))
    /\ ServedIsInside' <=> (stage' = "answered" => InsideReply(At', dest'.path, answer'))
    /\ PathIsPlaced' <=>
         (stage' = "read" /\ rq'.status = 200 =>
            dest'.path = UpdatePath(At'.alias, At'.route, rq'.path))
    /\ At' = cluster'.servers[dest'.server].locations[dest'.loc]
<1>1. ServedIsInside <=> (stage = "answered" => InsideReply(At, dest.path, answer))
  BY DEF ServedIsInside, InsideReply, Inside, Touches
<1>2. ServedIsInside' <=> (stage' = "answered" => InsideReply(At', dest'.path, answer'))
  BY DEF ServedIsInside, InsideReply, Inside, Touches
<1>3. PathIsPlaced' <=>
         (stage' = "read" /\ rq'.status = 200 =>
            dest'.path = UpdatePath(At'.alias, At'.route, rq'.path))
  BY DEF PathIsPlaced
<1>4. At' = cluster'.servers[dest'.server].locations[dest'.loc]
  BY Zenon DEF At, Locations
<1>. QED
  BY <1>1, <1>2, <1>3, <1>4

(* ChooseServerCb maps the target into the location it finds.               *)
LEMMA HeadPlaces ==
    ASSUME TypeOK, NEW method, NEW host, NEW path, ReadHead(method, host, path)
    PROVE  stage' = "read" /\ PathIsPlaced'
<1>. DEFINE server == ChooseServer(listener, host)
            loc == ChooseLocation(server, path)
            l == Locations(server)[loc]
            place == UpdatePath(l.alias, l.route, path)
            uploads == method = "POST" /\ IsStatic(l)
            missed == [dest EXCEPT !.server = server, !.loc = loc]
            status == IF uploads THEN UploadStatus(place) ELSE 200
            refused == loc = 0 \/ (loc # 0 /\ method \notin l.methods)
<1>1. dest \in [server : DOMAIN cluster.servers \cup {0}, loc : Nat, path : Words]
  BY DEF TypeOK
<1>2. /\ stage' = "read" /\ cluster' = cluster
      /\ refused => rq' = [method |-> method, host |-> host, path |-> path, status |-> 404]
      /\ ~refused => /\ rq' = [method |-> method, host |-> host, path |-> path, status |-> status]
                     /\ dest' = [missed EXCEPT !.path = place]
  BY Zenon DEF ReadHead
<1>3. CASE refused
  <2>1. rq'.status # 200
    BY <1>2, <1>3
  <2>. QED
    BY <1>2, <2>1, InsideIs
<1>4. CASE ~refused
  <2>. HIDE DEF refused, status, uploads, server, loc
  <2>0. missed.server = server /\ missed.loc = loc /\ DOMAIN missed = {"server", "loc", "path"}
    BY <1>1
  <2>. HIDE DEF missed, place
  <2>1. /\ rq'.path = path /\ dest'.path = place
        /\ dest'.server = server /\ dest'.loc = loc
    BY <1>2, <1>4, <2>0
  <2>2. At' = l
    BY <1>2, <2>1, InsideIs DEF Locations
  <2>3. place = UpdatePath(l.alias, l.route, path)
    BY DEF place
  <2>. HIDE DEF l
  <2>. QED
    BY <1>2, <2>1, <2>2, <2>3, InsideIs
<1>. QED
  BY <1>3, <1>4

LEMMA InsideStep ==
    ASSUME TypeOK, PathIsPlaced, ServedIsInside, [Next]_vars
    PROVE  PathIsPlaced' /\ ServedIsInside'
<1>1. ASSUME stage' = "read", PathIsPlaced' PROVE PathIsPlaced' /\ ServedIsInside'
  BY <1>1, InsideIs
<1>2. ASSUME stage' \in {"none", "idle"} PROVE PathIsPlaced' /\ ServedIsInside'
  BY <1>2, InsideIs
<1>3. CASE Connect
  BY <1>2, <1>3 DEF Connect
<1>4. CASE Request
  BY <1>1, <1>4, HeadPlaces DEF Request
<1>5. CASE FollowRedirect
  BY <1>1, <1>5, HeadPlaces DEF FollowRedirect
<1>6. CASE FollowLink
  BY <1>1, <1>6, HeadPlaces DEF FollowLink
<1>7. CASE Refused
  <2>1. stage' = "read" /\ rq'.status # 200
    BY <1>7 DEF Refused, NoRequest
  <2>. QED
    BY <2>1, InsideIs
<1>8. CASE Process
  <2>. DEFINE reply == ProcessRequest
  <2>1. /\ stage = "read" /\ stage' = "answered"
        /\ answer' = [kind |-> reply.kind, code |-> reply.code, path |-> reply.path, loc |-> dest.loc]
        /\ cluster' = cluster /\ dest' = dest
    BY <1>8 DEF Process
  <2>2. InsideReply(At, dest.path, reply)
    BY <2>1, AnswerIsInside
  <2>3. At' = At
    BY <2>1, InsideIs DEF At, Locations
  <2>. HIDE DEF reply
  <2>4. InsideReply(At', dest'.path, answer')
    BY <2>1, <2>2, <2>3 DEF InsideReply
  <2>. QED
    BY <2>1, <2>4, InsideIs
<1>9. CASE ResponseSent
  BY <1>2, <1>9 DEF ResponseSent
<1>10. CASE Leave
  BY <1>2, <1>10 DEF Leave
<1>11. CASE UNCHANGED vars
  <2>1. cluster' = cluster /\ stage' = stage /\ dest' = dest /\ rq' = rq /\ answer' = answer
    BY <1>11 DEF vars
  <2>2. At' = At
    BY <2>1, InsideIs DEF At, Locations
  <2>. QED
    BY <2>1, <2>2, InsideIs DEF PathIsPlaced
<1>. QED
  BY <1>3, <1>4, <1>5, <1>6, <1>7, <1>8, <1>9, <1>10, <1>11 DEF Next

(* Whatever the routes, aliases, targets, index names and files are, what   *)
(* the processors serve, list, make, remove or run lies in the directory of *)
(* the location, but for the index of an alias without a slash.             *)
THEOREM NothingOutsideIsServed == Spec => []ServedIsInside
<1>. DEFINE Inv == PathIsPlaced /\ ServedIsInside
<1>1. Init => Inv
  BY DEF Init, PathIsPlaced, ServedIsInside
<1>2. TypeOK /\ Inv /\ [Next]_vars => Inv'
  BY InsideStep
<1>. QED
  BY <1>1, <1>2, TypeCorrect, PTL DEF Spec

-----------------------------------------------------------------------------
(* Slashes and the names between them.                                      *)
Slashless(w) == \A i \in 1 .. Len(w) : w[i] # "/"
Single(w) == \A i \in 1 .. Len(w) - 1 : ~(w[i] = "/" /\ w[i + 1] = "/")

LEMMA CanonicalSlash ==
    ASSUME NEW u \in Words
    PROVE  Canonical(u \o <<"/">>) = Bare(Canonical(u)) \o <<"/">>
<1>1. "/" \in Symbols /\ Canonical(u) \in Words
  BY CanonicalIsWord, SitesAssumption
<1>2. u \o <<"/">> = Append(u, "/")
  BY <1>1, AppendEnds
<1>3. CASE u # <<>> /\ Last(u) = "/"
  <2>1. Canonical(Append(u, "/")) = Canonical(u)
    BY <1>1, <1>3, CanonicalUnfolds
  <2>2. Canonical(u) # <<>> /\ Last(Canonical(u)) = "/"
    BY <1>3, CanonicalEnds
  <2>. QED
    BY <1>1, <1>2, <2>1, <2>2, BareOf
<1>4. CASE u = <<>> \/ Last(u) # "/"
  <2>1. Canonical(Append(u, "/")) = Append(Canonical(u), "/")
    BY <1>1, <1>4, CanonicalUnfolds
  <2>2. Canonical(u) = <<>> \/ Last(Canonical(u)) # "/"
    BY <1>1, <1>4, CanonicalUnfolds, CanonicalEnds
  <2>3. Bare(Canonical(u)) = Canonical(u)
    BY <1>1, <2>2, BareOf
  <2>4. Append(Canonical(u), "/") = Canonical(u) \o <<"/">>
    BY <1>1, AppendEnds
  <2>. QED
    BY <1>2, <2>1, <2>3, <2>4
<1>. QED
  BY <1>3, <1>4

LEMMA AppendAt ==
    ASSUME NEW w \in Words, NEW a \in Symbols
    PROVE  /\ Len(w) \in Nat /\ Len(Append(w, a)) = Len(w) + 1
           /\ Append(w, a)[Len(w) + 1] = a
           /\ \A i \in 1 .. Len(w) : Append(w, a)[i] = w[i]
BY DEF Words

LEMMA CanonicalName ==
    ASSUME NEW w \in Words, NEW n \in Words, Slashless(n)
    PROVE  Canonical(w \o n) = Canonical(w) \o n
<1>. DEFINE S == {z \in Words : Slashless(z) => Canonical(w \o z) = Canonical(w) \o z}
<1>1. Canonical(w) \in Words
  BY CanonicalIsWord
<1>2. <<>> \in S
  <2>1. w \o <<>> = w /\ Canonical(w) \o <<>> = Canonical(w)
    BY <1>1, GlueNothing
  <2>. QED
    BY <2>1, SlashIsWord
<1>3. ASSUME NEW z \in Words, NEW a \in Symbols, z \in S PROVE Append(z, a) \in S
  <2>. SUFFICES ASSUME Slashless(Append(z, a))
                PROVE  Canonical(w \o Append(z, a)) = Canonical(w) \o Append(z, a)
    BY AppendEnds
  <2>1. Slashless(z) /\ a # "/"
    <3>1. \A i \in 1 .. Len(z) : i \in 1 .. Len(z) + 1
      BY AppendAt
    <3>2. Len(z) + 1 \in 1 .. Len(z) + 1
      BY AppendAt
    <3>. QED
      BY <3>1, <3>2, AppendAt DEF Slashless
  <2>2. Canonical(w \o z) = Canonical(w) \o z
    BY <1>3, <2>1
  <2>3. w \o z \in Words /\ Canonical(w \o z) \in Words
    BY JoinedWord, CanonicalIsWord
  <2>4. \A y \in Words : Append(y \o z, a) = y \o Append(z, a)
    BY AppendJoined, Zenon
  <2>5. Canonical(Append(w \o z, a)) = Append(Canonical(w \o z), a)
    BY <2>1, <2>3, CanonicalUnfolds
  <2>. QED
    BY <1>1, <2>2, <2>4, <2>5
<1>. HIDE DEF S
<1>4. n \in S
  BY <1>2, <1>3, WordsInduction
<1>. QED
  BY <1>4 DEF S

(* Words without two slashes side by side are those that stay as they are.  *)
LEMMA CanonicalIsSingle ==
    ASSUME NEW w \in Words
    PROVE  Canonical(w) = w <=> Single(w)
<1>. DEFINE S == {z \in Words : Len(Canonical(z)) <= Len(z) /\ (Canonical(z) = z <=> Single(z))}
<1>0. "/" \in Symbols
  BY SitesAssumption
<1>1. <<>> \in S
  <2>1. Canonical(<<>>) = <<>>
    BY <1>0, SlashIsWord, CanonicalUnfolds
  <2>. QED
    BY <2>1, SlashIsWord DEF Single
<1>2. ASSUME NEW z \in Words, NEW a \in Symbols, z \in S PROVE Append(z, a) \in S
  <2>. DEFINE v == Append(z, a)
              c == Canonical(z)
              n == Len(z)
  <2>1. c \in Words /\ v \in Words /\ Len(c) \in Nat /\ Len(c) <= n /\ (c = z <=> Single(z))
    BY <1>2, CanonicalIsWord, AppendEnds, WordLen
  <2>2. /\ n \in Nat /\ Len(v) = n + 1 /\ v[n + 1] = a
        /\ \A i \in 1 .. n : v[i] = z[i]
    BY AppendAt
  <2>3. z # <<>> /\ Last(z) = "/" <=> n > 0 /\ z[n] = "/"
    BY DEF Words, Last
  <2>4. Single(v) <=> Single(z) /\ ~(n > 0 /\ z[n] = "/" /\ a = "/")
    <3>. HIDE DEF v, n
    <3>1. (n + 1) - 1 = n
      BY <2>2
    <3>2. ASSUME NEW i \in 1 .. n - 1 PROVE i \in 1 .. n /\ v[i] = z[i] /\ v[i + 1] = z[i + 1]
      BY <2>2
    <3>3. n > 0 => n \in 1 .. n /\ v[n] = z[n]
      BY <2>2
    <3>4. \A i \in 1 .. n : i = n \/ i \in 1 .. n - 1
      BY <2>2
    <3>5. ASSUME Single(v) PROVE Single(z) /\ ~(n > 0 /\ z[n] = "/" /\ a = "/")
      BY <2>2, <3>1, <3>2, <3>3, <3>5 DEF Single, n
    <3>6. ASSUME Single(z), ~(n > 0 /\ z[n] = "/" /\ a = "/") PROVE Single(v)
      <4>. SUFFICES ASSUME NEW i \in 1 .. n PROVE ~(v[i] = "/" /\ v[i + 1] = "/")
        BY <2>2, <3>1 DEF Single
      <4>1. CASE i = n
        BY <2>2, <3>3, <3>6, <4>1
      <4>2. CASE i \in 1 .. n - 1
        BY <3>2, <3>6, <4>2 DEF Single, n
      <4>. QED
        BY <3>4, <4>1, <4>2
    <3>. QED
      BY <3>5, <3>6
  <2>5. CASE a = "/" /\ z # <<>> /\ Last(z) = "/"
    <3>1. Canonical(v) = c
      BY <2>5, CanonicalUnfolds
    <3>2. c # v
      <4>. HIDE DEF c, v, n
      <4>. QED
        BY <2>1, <2>2
    <3>. HIDE DEF c, v, n
    <3>3. Len(c) <= Len(v)
      BY <2>1, <2>2
    <3>. QED
      BY <2>1, <2>3, <2>4, <2>5, <3>1, <3>2, <3>3 DEF v
  <2>6. CASE ~(a = "/" /\ z # <<>> /\ Last(z) = "/")
    <3>1. Canonical(v) = Append(c, a)
      BY <2>6, CanonicalUnfolds
    <3>2. Append(c, a) = v <=> c = z
      <4>1. Front(Append(c, a)) = c /\ Front(v) = z
        BY <2>1, AppendEnds
      <4>. HIDE DEF c
      <4>. QED
        BY <4>1
    <3>3. Len(Append(c, a)) = Len(c) + 1
      BY <2>1, AppendAt
    <3>. HIDE DEF c, v, n
    <3>4. Len(Append(c, a)) <= Len(v)
      BY <2>1, <2>2, <3>3
    <3>. QED
      BY <2>1, <2>3, <2>4, <2>6, <3>1, <3>2, <3>4 DEF v
  <2>. QED
    BY <2>5, <2>6
<1>. HIDE DEF S
<1>3. w \in S
  BY <1>1, <1>2, WordsInduction
<1>. QED
  BY <1>3 DEF S

LEMMA RestOf ==
    ASSUME NEW w \in Words, NEW k \in 1 .. Len(w)
    PROVE  /\ Len(SubSeq(w, k + 1, Len(w))) = Len(w) - k
           /\ \A i \in 1 .. Len(w) - k : SubSeq(w, k + 1, Len(w))[i] = w[k + i]
<1>1. Len(w) \in Nat /\ w \in Seq(Symbols)
  BY WordLen
<1>2. Len(SubSeq(w, k + 1, Len(w))) = Len(w) - k
  BY <1>1
<1>3. ASSUME NEW i \in 1 .. Len(w) - k PROVE SubSeq(w, k + 1, Len(w))[i] = w[k + i]
  <2>1. i \in 1 .. (Len(w) - (k + 1)) + 1 /\ ((k + 1) + i) - 1 = k + i
    BY <1>1
  <2>2. SubSeq(w, k + 1, Len(w))[i] = w[((k + 1) + i) - 1]
    BY <1>1, <2>1
  <2>. QED
    BY <2>1, <2>2, Zenon
<1>. QED
  BY <1>2, <1>3

(* What stands before the last slash, and what stands behind it.            *)
LEMMA ParentStands ==
    ASSUME NEW w \in Words, ~Slashless(w)
    PROVE  \E n \in Words : /\ Slashless(n) /\ Parent(w) \in Words
                            /\ w = Parent(w) \o <<"/">> \o n
                            /\ SubSeq(w, Len(Parent(w)) + 1, Len(w)) = <<"/">> \o n
<1>. DEFINE slashes == {i \in DOMAIN w : w[i] = "/"}
            k == Max(slashes)
            n == SubSeq(w, k + 1, Len(w))
            p == SubSeq(w, 1, k - 1)
<1>1. Len(w) \in Nat /\ DOMAIN w = 1 .. Len(w) /\ w \in Seq(Symbols)
  BY WordLen
<1>2. slashes \in SUBSET (1 .. Len(w)) /\ slashes # {}
  BY <1>1 DEF Slashless
<1>3. Parent(w) = p
  BY <1>2 DEF Parent
<1>4. k \in 1 .. Len(w) /\ w[k] = "/" /\ \A i \in k + 1 .. Len(w) : w[i] # "/"
  <2>1. k \in slashes /\ \A i \in slashes : i <= k
    <3>. HIDE DEF slashes
    <3>. QED
      BY <1>1, <1>2, MaxOfRange
  <2>. HIDE DEF k
  <2>2. k \in 1 .. Len(w) /\ w[k] = "/"
    BY <1>1, <2>1
  <2>3. ASSUME NEW i \in k + 1 .. Len(w) PROVE w[i] # "/"
    <3>1. i \in 1 .. Len(w) /\ i > k
      BY <1>1, <2>2
    <3>. QED
      BY <1>1, <2>1, <3>1
  <2>. QED
    BY <2>2, <2>3
<1>. HIDE DEF k
<1>5. /\ n \in Words /\ Len(n) = Len(w) - k /\ \A i \in 1 .. Len(w) - k : n[i] = w[k + i]
      /\ p \in Words /\ Len(p) = k - 1
  <2>1. k + 1 \in Nat \ {0} /\ Len(w) \in Nat /\ k - 1 \in Nat /\ k - 1 <= Len(w)
    BY <1>1, <1>4
  <2>2. n \in Words
    <3>1. Len(w) <= Len(w)
      BY <1>1
    <3>. QED
      BY <2>1, <3>1, PartIsWord
  <2>3. p \in Words
    <3>1. 1 \in Nat \ {0}
      OBVIOUS
    <3>. QED
      BY <2>1, <3>1, PartIsWord
  <2>4. Len(n) = Len(w) - k /\ \A i \in 1 .. Len(w) - k : n[i] = w[k + i]
    BY <1>1, <1>4, RestOf, Zenon
  <2>5. Len(p) = k - 1
    BY <1>1, <1>4
  <2>. QED
    BY <2>2, <2>3, <2>4, <2>5
<1>6. Slashless(n)
  <2>. HIDE DEF n
  <2>. QED
    BY <1>1, <1>4, <1>5 DEF Slashless
<1>7. SubSeq(w, k, Len(w)) = <<"/">> \o n
  BY <1>1, <1>4
<1>8. w = p \o <<"/">> \o n
  <2>1. w = p \o SubSeq(w, k, Len(w))
    BY <1>1, <1>4
  <2>. HIDE DEF p, n
  <2>2. (p \o <<"/">>) \o n = p \o (<<"/">> \o n)
    BY <1>5, SlashIsWord, Glue
  <2>. QED
    BY <1>7, <2>1, <2>2
<1>9. Len(p) + 1 = k
  <2>1. \A a \in Nat, b \in Int : a = b - 1 => a + 1 = b
    OBVIOUS
  <2>2. Len(p) \in Nat /\ k \in Int /\ Len(p) = k - 1
    <3>1. Len(p) \in Nat
      BY <1>5, WordLen
    <3>2. k \in Int
      BY <1>1, <1>4
    <3>. QED
      BY <1>5, <3>1, <3>2, Zenon
  <2>. QED
    BY <2>1, <2>2, Zenon
<1>. QED
  BY <1>3, <1>5, <1>6, <1>7, <1>8, <1>9

LEMMA JoinedAt ==
    ASSUME NEW p \in Words, NEW n \in Words, NEW a \in Symbols
    PROVE  LET w == p \o <<a>> \o n
           IN  /\ w \in Words /\ Len(w) = (Len(p) + 1) + Len(n)
               /\ Len(p) \in Nat /\ Len(n) \in Nat
               /\ \A i \in 1 .. Len(p) : w[i] = p[i]
               /\ w[Len(p) + 1] = a
               /\ \A i \in 1 .. Len(n) : w[(Len(p) + 1) + i] = n[i]
               /\ SubSeq(w, 1, Len(p)) = p
BY DEF Words

LEMMA ParentJoined ==
    ASSUME NEW p \in Words, NEW n \in Words, Slashless(n)
    PROVE  Parent(p \o <<"/">> \o n) = p
<1>. DEFINE w == p \o <<"/">> \o n
            slashes == {i \in DOMAIN w : w[i] = "/"}
            k == Len(p) + 1
<1>1. /\ w \in Words /\ Len(w) = k + Len(n) /\ Len(p) \in Nat /\ Len(n) \in Nat
      /\ w[k] = "/" /\ \A i \in 1 .. Len(n) : w[k + i] = n[i]
      /\ SubSeq(w, 1, Len(p)) = p
  <2>1. "/" \in Symbols
    BY SitesAssumption
  <2>. QED
    BY <2>1, JoinedAt, ZenonT(40)
<1>2. Parent(w) = IF slashes = {} THEN <<>> ELSE SubSeq(w, 1, Max(slashes) - 1)
  BY DEF Parent
<1>3. DOMAIN w = 1 .. Len(w)
  BY <1>1, WordLen
<1>. HIDE DEF w
<1>4. k \in slashes /\ \A i \in slashes : i <= k
  <2>1. k \in 1 .. Len(w)
    BY <1>1
  <2>2. ASSUME NEW i \in slashes, i > k PROVE FALSE
    <3>1. i \in 1 .. Len(w) /\ w[i] = "/"
      BY <1>3
    <3>2. i - k \in 1 .. Len(n) /\ k + (i - k) = i
      <4>1. \A a, b, c, d \in Nat : b = a + 1 /\ c \in 1 .. b + d /\ c > b => c - b \in 1 .. d /\ b + (c - b) = c
        OBVIOUS
      <4>2. Len(p) \in Nat /\ k \in Nat /\ i \in Nat /\ Len(n) \in Nat
        BY <1>1, <3>1
      <4>3. k = Len(p) + 1
        OBVIOUS
      <4>4. i \in 1 .. k + Len(n)
        BY <1>1, <3>1, Zenon
      <4>. HIDE DEF k
      <4>. QED
        BY <2>2, <4>1, <4>2, <4>3, <4>4, ZenonT(40)
    <3>3. w[k + (i - k)] = n[i - k] /\ n[i - k] # "/"
      BY <1>1, <3>2 DEF Slashless
    <3>. QED
      BY <3>1, <3>2, <3>3
  <2>3. \A i \in slashes : i \in Nat
    BY <1>1, <1>3
  <2>4. k \in Nat
    BY <1>1
  <2>. HIDE DEF k
  <2>. QED
    BY <1>1, <1>3, <2>1, <2>2, <2>3, <2>4
<1>5. slashes \in SUBSET (1 .. Len(w)) /\ Len(w) \in Nat
  BY <1>1, <1>3
<1>. HIDE DEF slashes
<1>6. Max(slashes) = k
  <2>1. Max(slashes) \in slashes /\ k <= Max(slashes)
    BY <1>4, <1>5, MaxOfRange
  <2>2. Max(slashes) <= k /\ Max(slashes) \in 1 .. Len(w) /\ k \in 1 .. Len(w)
    BY <1>4, <1>5, <2>1
  <2>. DEFINE m == Max(slashes)
  <2>. HIDE DEF m, k
  <2>3. m \in Nat /\ k \in Nat /\ m <= k /\ k <= m
    BY <1>5, <2>1, <2>2 DEF m
  <2>4. m = k
    BY <2>3
  <2>. QED
    BY <2>4 DEF m
<1>7. Max(slashes) - 1 = Len(p)
  BY <1>1, <1>6
<1>. QED
  BY <1>1, <1>2, <1>4, <1>7 DEF w

-----------------------------------------------------------------------------
(* Scripts asked by their name.                                             *)
Rest(route, path) == SubSeq(path, Len(route) + 1, Len(path))

LEMMA RestIs ==
    ASSUME NEW route \in Words, route # <<>>, NEW path \in Words, IsPrefix(route, path)
    PROVE  /\ Len(route) \in Nat \ {0} /\ Len(path) \in Nat /\ Len(route) <= Len(path)
           /\ SubSeq(path, 1, Len(route)) = route
           /\ \A i \in 1 .. Len(route) : path[i] = route[i]
           /\ Rest(route, path) \in Words /\ Len(Rest(route, path)) = Len(path) - Len(route)
           /\ \A i \in 1 .. Len(path) - Len(route) : Rest(route, path)[i] = path[Len(route) + i]
<1>1. route \in Seq(Symbols) /\ path \in Seq(Symbols) /\ Len(route) \in Nat /\ Len(path) \in Nat
  BY WordLen
<1>2. Len(route) # 0
  BY <1>1
<1>3. Len(route) <= Len(path) /\ \A i \in 1 .. Len(route) : route[i] = path[i]
  BY <1>1, PrefixIs
<1>4. SubSeq(path, 1, Len(route)) = route
  <2>1. SubSeq(route, 1, Len(route)) = route
    BY <1>1
  <2>. QED
    BY <2>1 DEF IsPrefix
<1>5. Len(route) + 1 \in Nat \ {0} /\ Len(path) <= Len(path) /\ Len(route) \in 1 .. Len(path)
  BY <1>1, <1>2, <1>3
<1>6. Rest(route, path) \in Words
  BY <1>1, <1>5, PartIsWord DEF Rest
<1>7. /\ Len(Rest(route, path)) = Len(path) - Len(route)
      /\ \A i \in 1 .. Len(path) - Len(route) : Rest(route, path)[i] = path[Len(route) + i]
  BY <1>5, RestOf, Zenon DEF Rest
<1>. QED
  BY <1>1, <1>2, <1>3, <1>4, <1>6, <1>7

(* The location that is chosen is one the path begins with.                 *)
LEMMA LocationFits ==
    ASSUME NEW locations \in Seq(LocationConfigs), NEW path \in Words, LocationOf(locations, path) # 0
    PROVE  /\ LocationOf(locations, path) \in DOMAIN locations
           /\ IsPrefix(locations[LocationOf(locations, path)].route, path)
<1>. DEFINE same == {i \in DOMAIN locations : locations[i].exact /\ locations[i].route = path}
            begin == {i \in DOMAIN locations : ~locations[i].exact /\ IsPrefix(locations[i].route, path)}
            longest == {i \in begin : \A k \in begin : Len(locations[i].route) >= Len(locations[k].route)}
            loc == LocationOf(locations, path)
<1>1. loc = CASE same # {} -> Min(same)
              [] same = {} /\ longest # {} -> Min(longest)
              [] OTHER -> 0
  BY DEF LocationOf
<1>2. same \in SUBSET Nat /\ longest \in SUBSET Nat
  OBVIOUS
<1>3. \/ same # {} /\ loc = Min(same)
      \/ longest # {} /\ loc = Min(longest)
  <2>. HIDE DEF same, longest, loc
  <2>1. loc # 0
    BY DEF loc
  <2>. QED
    BY <1>1, <2>1
<1>4. loc \in same \/ loc \in longest
  <2>. HIDE DEF same, longest, loc
  <2>. QED
    BY <1>2, <1>3, MinOfNats
<1>5. CASE loc \in same
  <2>1. loc \in DOMAIN locations /\ locations[loc].route = path
    BY <1>5
  <2>2. IsPrefix(path, path)
    BY DEF IsPrefix, Words
  <2>. QED
    BY <2>1, <2>2
<1>6. CASE loc \in longest
  <2>. HIDE DEF loc
  <2>1. loc \in begin
    BY <1>6
  <2>. QED
    BY <2>1 DEF loc
<1>. QED
  BY <1>4, <1>5, <1>6

(* Of a target that begins with the route of a script location, the parts   *)
(* are the route and what follows it.                                       *)
LEMMA ScriptIsRest ==
    ASSUME NEW route \in Words, IsCgiLocation(route), NEW path \in Words, IsPrefix(route, path),
           ~Contains(Rest(route, path), "/")
    PROVE  ScriptLocDetails(path) =
             IF Contains(Rest(route, path), ".")
             THEN {[location |-> route, name |-> Rest(route, path), extra |-> <<>>]} ELSE {}
<1>. DEFINE rest == Rest(route, path)
            r == Len(route)
            n == Len(path)
            marks == CgiMarks(path)
            start == Min(marks) + 3
            ends == {i \in start .. n : path[i] = "/"} \cup {n + 1}
            end == Min(ends)
            name == SubSeq(path, start, end - 1)
<1>1. Min(CgiMarks(route)) = r - 2 /\ CgiMarks(route) # {}
  BY DEF IsCgiLocation
<1>2. r - 2 \in CgiMarks(route) /\ \A i \in CgiMarks(route) : r - 2 <= i
  <2>1. CgiMarks(route) \in SUBSET Nat
    BY CgiMarksAre
  <2>. QED
    BY <1>1, <2>1, MinOfNats
<1>3. r - 2 \in 1 .. r /\ route[r - 2] = "/" /\ route[(r - 2) + 1] = "cgi-bin" /\ route[(r - 2) + 2] = "/"
  BY <1>2, CgiMarksAre
<1>4. route # <<>> /\ r \in Nat
  <2>1. Len(<<>>) = 0
    OBVIOUS
  <2>. QED
    BY <1>3, <2>1, WordLen
<1>5. /\ n \in Nat /\ r \in Nat \ {0} /\ r <= n
      /\ SubSeq(path, 1, r) = route
      /\ \A i \in 1 .. r : path[i] = route[i]
      /\ rest \in Words /\ Len(rest) = n - r
      /\ \A i \in 1 .. n - r : rest[i] = path[r + i]
  BY <1>4, RestIs
<1>6. \A i \in 1 .. n - r : path[r + i] # "/"
  BY <1>5 DEF Contains
<1>. HIDE DEF rest
<1>7. \A i \in r + 1 .. n : path[i] # "/"
  <2>. TAKE i \in r + 1 .. n
  <2>1. i - r \in 1 .. n - r /\ r + (i - r) = i
    BY <1>5
  <2>. QED
    BY <1>6, <2>1, Zenon
<1>8. r - 2 \in marks
  <2>. DEFINE m == r - 2
  <2>1. m \in 1 .. r /\ m + 1 \in 1 .. r /\ m + 2 \in 1 .. r /\ m \in 1 .. n /\ m + 2 <= n
    BY <1>3, <1>5
  <2>. HIDE DEF m
  <2>2. path[m] = route[m] /\ path[m + 1] = route[m + 1] /\ path[m + 2] = route[m + 2]
    BY <1>5, <2>1
  <2>3. path[m] = "/" /\ path[m + 1] = "cgi-bin" /\ path[m + 2] = "/"
    BY <1>3, <2>2 DEF m
  <2>. QED
    BY <2>1, <2>3, CgiMarksAre DEF m
<1>9. ASSUME NEW i \in marks PROVE r - 2 <= i
  <2>1. i \in 1 .. n /\ i + 2 <= n /\ path[i] = "/" /\ path[i + 1] = "cgi-bin" /\ path[i + 2] = "/"
    BY CgiMarksAre
  <2>2. i + 2 <= r
    BY <1>5, <1>7, <2>1
  <2>3. i \in 1 .. r /\ i + 1 \in 1 .. r /\ i + 2 \in 1 .. r
    BY <1>5, <2>1, <2>2
  <2>4. path[i] = route[i] /\ path[i + 1] = route[i + 1] /\ path[i + 2] = route[i + 2]
    BY <1>5, <2>3
  <2>5. i \in CgiMarks(route)
    BY <2>1, <2>2, <2>3, <2>4, CgiMarksAre
  <2>. QED
    BY <1>2, <2>5
<1>10. Min(marks) = r - 2
  <2>1. marks \in SUBSET Nat
    BY CgiMarksAre
  <2>. HIDE DEF marks
  <2>. QED
    BY <1>8, <1>9, <2>1, MinIs
<1>11. marks # {}
  BY <1>8
<1>. HIDE DEF marks
<1>12. start = r + 1
  BY <1>5, <1>10
<1>. HIDE DEF start
<1>13. end = n + 1
  <2>1. ends = {n + 1}
    BY <1>7, <1>12
  <2>. HIDE DEF ends
  <2>2. \A x \in Nat : Min({x}) = x
    <3>. TAKE x \in Nat
    <3>1. {x} \in SUBSET Nat /\ x \in {x} /\ \A y \in {x} : x <= y
      OBVIOUS
    <3>. QED
      BY <3>1, MinIs
  <2>3. n + 1 \in Nat
    BY <1>5
  <2>. QED
    BY <2>1, <2>2, <2>3
<1>. HIDE DEF end
<1>14. end - 1 = n /\ start - 1 = r
  BY <1>5, <1>12, <1>13
<1>15. name = rest /\ SubSeq(path, 1, start - 1) = route /\ SubSeq(path, end, n) = <<>>
  <2>1. SubSeq(path, n + 1, n) = <<>>
    BY <1>5, WordLen
  <2>. QED
    BY <1>5, <1>12, <1>13, <1>14, <2>1 DEF rest, Rest
<1>16. ScriptLocDetails(path) =
         IF marks = {} \/ ~(\E i \in DOMAIN name : name[i] = ".") THEN {}
         ELSE {[location |-> SubSeq(path, 1, start - 1), name |-> name, extra |-> SubSeq(path, end, n)]}
  BY Zenon DEF ScriptLocDetails, marks, start, end
<1>. HIDE DEF name
<1>17. Contains(rest, ".") <=> \E i \in DOMAIN name : name[i] = "."
  BY <1>5, <1>15, WordLen DEF Contains
<1>. QED
  BY <1>11, <1>15, <1>16, <1>17, Zenon DEF rest

(* An extension of the location ends a name before its last dot, or not at  *)
(* all.                                                                     *)
LEMMA ExtensionIs ==
    ASSUME NEW name \in Words, NEW e \in Words, Len(e) > 1, e[1] = "."
    PROVE  LET dots == {i \in DOMAIN name : name[i] = "."}
           IN  IsStrictSuffix(e, name) /\ ~Contains(Tail(e), ".") <=>
                 dots # {} /\ Len(name) > Len(e) /\ SubSeq(name, Max(dots), Len(name)) = e
<1>. DEFINE dots == {i \in DOMAIN name : name[i] = "."}
            n == Len(name)
            m == Len(e)
            dot == Max(dots)
            t == Tail(e)
<1>1. n \in Nat /\ m \in Nat /\ m > 1 /\ name \in Seq(Symbols) /\ e \in Seq(Symbols) /\ DOMAIN name = 1 .. n
  BY WordLen
<1>2. IsSuffix(e, name) <=> m <= n /\ \A i \in 1 .. m : e[i] = name[(n - m) + i]
  <2>1. e \in Seq(Symbols) /\ name \in Seq(Symbols)
    BY <1>1
  <2>. QED
    BY <2>1, SuffixIs
<1>3. t \in Seq(Symbols) /\ Len(t) = m - 1 /\ \A i \in 1 .. m - 1 : t[i] = e[i + 1]
  BY <1>1
<1>4. Contains(t, ".") <=> \E i \in 1 .. m - 1 : e[i + 1] = "."
  BY <1>1, <1>3 DEF Contains
<1>5. dots \in SUBSET (1 .. n) /\ \A i : i \in dots <=> i \in 1 .. n /\ name[i] = "."
  BY <1>1
<1>. HIDE DEF t, dots, m
<1>6. ASSUME IsStrictSuffix(e, name), ~Contains(t, ".")
      PROVE  dots # {} /\ n > m /\ SubSeq(name, dot, n) = e
  <2>1. m <= n /\ e # name /\ \A i \in 1 .. m : e[i] = name[(n - m) + i]
    BY <1>2, <1>6 DEF IsStrictSuffix
  <2>2. m # n
    <3>. SUFFICES ASSUME m = n PROVE FALSE
      OBVIOUS
    <3>1. Len(e) = Len(name) /\ \A i \in 1 .. Len(e) : e[i] = name[i]
      BY <1>1, <2>1 DEF m
    <3>2. e = name
      BY <1>1, <3>1, SeqEqual
    <3>. QED
      BY <2>1, <3>2
  <2>. DEFINE k == (n - m) + 1
  <2>3. k \in 1 .. n /\ n > m /\ 1 \in 1 .. m
    <3>1. \A a, b \in Nat : b > 1 /\ b <= a /\ b # a => (a - b) + 1 \in 1 .. a /\ a > b /\ 1 \in 1 .. b
      OBVIOUS
    <3>. QED
      BY <1>1, <2>1, <2>2, <3>1, Zenon
  <2>4. k \in dots
    <3>1. e[1] = name[k]
      BY <2>1, <2>3
    <3>. QED
      BY <1>5, <2>3, <3>1
  <2>5. ASSUME NEW i \in dots PROVE i <= k
    <3>. SUFFICES ASSUME i > k PROVE FALSE
      BY <1>5, <2>3
    <3>1. i \in 1 .. n /\ name[i] = "."
      BY <1>5
    <3>. DEFINE j == i - (n - m)
    <3>2. j \in 1 .. m /\ j - 1 \in 1 .. m - 1 /\ (n - m) + j = i /\ (j - 1) + 1 = j
      BY <1>1, <2>3, <3>1
    <3>. HIDE DEF j
    <3>3. e[j] = "."
      BY <2>1, <3>1, <3>2
    <3>. QED
      BY <1>4, <1>6, <3>2, <3>3
  <2>6. dot = k
    <3>1. dot \in dots /\ k <= dot
      BY <1>1, <1>5, <2>4, MaxOfRange
    <3>2. dot <= k /\ dot \in 1 .. n
      BY <1>5, <2>5, <3>1
    <3>. HIDE DEF dot
    <3>. QED
      BY <1>1, <3>1, <3>2
  <2>. DEFINE s == SubSeq(name, k, n)
  <2>7. s \in Seq(Symbols) /\ Len(s) = (n - k) + 1 /\ \A i \in 1 .. (n - k) + 1 : s[i] = name[(k + i) - 1]
    BY <1>1, <2>3
  <2>. HIDE DEF s
  <2>8. Len(s) = m /\ \A i \in 1 .. m : s[i] = e[i]
    <3>1. (n - k) + 1 = m
      BY <1>1
    <3>2. \A i \in 1 .. m : (k + i) - 1 = (n - m) + i
      BY <1>1
    <3>. QED
      BY <2>1, <2>7, <3>1, <3>2
  <2>9. s = e
    <3>1. Len(s) = Len(e) /\ \A i \in 1 .. Len(s) : s[i] = e[i]
      BY <2>8 DEF m
    <3>. QED
      BY <1>1, <2>7, <3>1, SeqEqual
  <2>. QED
    BY <2>3, <2>4, <2>6, <2>9 DEF s
<1>7. ASSUME dots # {}, n > m, SubSeq(name, dot, n) = e
      PROVE  IsStrictSuffix(e, name) /\ ~Contains(t, ".")
  <2>1. dot \in dots /\ \A i \in dots : i <= dot
    BY <1>1, <1>5, <1>7, MaxOfRange
  <2>2. dot \in 1 .. n
    BY <1>5, <2>1
  <2>. HIDE DEF dot
  <2>3. Len(e) = (n - dot) + 1 /\ \A i \in 1 .. (n - dot) + 1 : e[i] = name[(dot + i) - 1]
    <3>. DEFINE s == SubSeq(name, dot, n)
    <3>1. Len(s) = (n - dot) + 1 /\ \A i \in 1 .. (n - dot) + 1 : s[i] = name[(dot + i) - 1]
      BY <1>1, <2>2
    <3>. QED
      BY <1>7, <3>1
  <2>4. m = (n - dot) + 1 /\ n - m = dot - 1
    BY <1>1, <2>2, <2>3 DEF m
  <2>5. ASSUME NEW i \in 1 .. m PROVE e[i] = name[(n - m) + i]
    <3>1. i \in 1 .. (n - dot) + 1 /\ (dot + i) - 1 = (n - m) + i
      BY <1>1, <2>2, <2>4
    <3>. QED
      BY <2>3, <3>1
  <2>6. e # name
    BY <1>1, <1>7 DEF m
  <2>7. m <= n
    BY <1>1, <1>7
  <2>8. IsStrictSuffix(e, name)
    BY <1>2, <2>5, <2>6, <2>7 DEF IsStrictSuffix
  <2>9. ASSUME NEW i \in 1 .. m - 1, e[i + 1] = "." PROVE FALSE
    <3>1. i + 1 \in 1 .. m /\ (n - m) + (i + 1) \in 1 .. n /\ (n - m) + (i + 1) > dot
      BY <1>1, <2>2, <2>4
    <3>2. name[(n - m) + (i + 1)] = "."
      BY <2>5, <2>9, <3>1
    <3>3. (n - m) + (i + 1) \in dots
      BY <1>5, <3>1, <3>2
    <3>4. (n - m) + (i + 1) <= dot
      BY <2>1, <3>3
    <3>. QED
      BY <1>1, <2>2, <3>1, <3>4
  <2>. QED
    BY <1>4, <2>8, <2>9
<1>. QED
  BY <1>6, <1>7 DEF t, dots, m

LEMMA ExtensionIsAllowed ==
    ASSUME NEW name \in Words, NEW extensions \in SUBSET {e \in Words : Len(e) > 1 /\ e[1] = "."}
    PROVE  (\E e \in extensions : IsStrictSuffix(e, name) /\ ~Contains(Tail(e), "."))
             <=> Contains(name, ".") /\ IsValidExtension(name, extensions)
<1>. DEFINE dots == {i \in DOMAIN name : name[i] = "."}
            Ends(e) == Len(name) > Len(e) /\ SubSeq(name, Max(dots), Len(name)) = e
<1>1. \A e \in extensions :
         IsStrictSuffix(e, name) /\ ~Contains(Tail(e), ".") <=> dots # {} /\ Ends(e)
  BY ExtensionIs
<1>2. IsValidExtension(name, extensions) <=> \E e \in extensions : Ends(e)
  BY Zenon DEF IsValidExtension
<1>3. Contains(name, ".") <=> dots # {}
  BY WordLen DEF Contains
<1>. HIDE DEF Ends, dots
<1>. QED
  BY <1>1, <1>2, <1>3, Zenon

(* The file of a script, however often slashes stand in it.                 *)
LEMMA ScriptFile ==
    ASSUME NEW a \in Words, NEW n \in Words, Slashless(n)
    PROVE  /\ a \o <<"/">> \o <<>> \o <<"/">> \o n \in Words
           /\ Canonical(a \o <<"/">> \o <<>> \o <<"/">> \o n) = Canonical(Bare(a) \o <<"/">> \o n)
<1>. DEFINE s == <<"/">>
            u == a \o s
            b == Bare(a)
            c == Canonical(a)
<1>1. s \in Words /\ u \in Words /\ b \in Words /\ c \in Words /\ Canonical(u) \in Words
  BY SlashIsWord, JoinedWord, BareIsWord, CanonicalIsWord
<1>2. u \o <<>> = u /\ u \o s \in Words /\ b \o s \in Words
  BY <1>1, GlueNothing, JoinedWord
<1>3. Canonical(u) = Bare(c) \o s
  BY CanonicalSlash
<1>4. Canonical(u \o s) = Bare(Canonical(u)) \o s
  BY <1>1, CanonicalSlash
<1>5. Bare(Bare(c) \o s) = Bare(c)
  <2>. DEFINE d == Bare(c)
  <2>1. d \in Words /\ "/" \in Symbols
    BY <1>1, BareIsWord, SitesAssumption
  <2>. HIDE DEF d
  <2>2. Append(d, "/") = d \o s /\ Bare(Append(d, "/")) = d
    BY <2>1, AppendEnds, BareOf
  <2>. QED
    BY <2>2 DEF d
<1>6. Canonical(b \o s) = Bare(Canonical(b)) \o s
  BY <1>1, CanonicalSlash
<1>7. Bare(Canonical(b)) = Bare(c)
  BY CanonicalBare
<1>8. Canonical((u \o s) \o n) = Canonical(u \o s) \o n
  BY <1>2, CanonicalName
<1>9. Canonical((b \o s) \o n) = Canonical(b \o s) \o n
  BY <1>2, CanonicalName
<1>10. (u \o s) \o n \in Words
  BY <1>2, JoinedWord
<1>. HIDE DEF b, c
<1>. QED
  BY <1>2, <1>3, <1>4, <1>5, <1>6, <1>7, <1>8, <1>9, <1>10 DEF b, c

(* What an answer says of a script of this name, among these files.         *)
Allowed(l, name) == \E e \in l.extensions : IsStrictSuffix(e, name) /\ ~Contains(Tail(e), ".")
ScriptFileOf(l, name) == Canonical(Bare(Tail(l.alias)) \o <<"/">> \o name)
ScriptAnswer(l, name, reply, files) ==
    /\ reply.kind = "script" <=> Allowed(l, name) /\ HasInterpreter(name) /\ ScriptFileOf(l, name) \in files
    /\ reply.kind = "script" => reply.path = ScriptFileOf(l, name)
PlainlyAnswered(l, path, reply, files) ==
    ~Contains(Rest(l.route, path), "/") => ScriptAnswer(l, Rest(l.route, path), reply, files)

LEMMA ScriptReply ==
    ASSUME NEW l \in LocationConfigs, l.cgi, NEW path \in Words, IsPrefix(l.route, path),
           ~Contains(Rest(l.route, path), "/")
    PROVE  ScriptAnswer(l, Rest(l.route, path), CgiReply(l, path), disk.files)
<1>. DEFINE name == Rest(l.route, path)
            a == Tail(l.alias)
            script == CHOOSE s \in ScriptLocDetails(path) : TRUE
            location == UpdatePath(l.alias, l.route, script.location)
            file == location \o <<"/">> \o script.extra \o <<"/">> \o script.name
            found == [location |-> l.route, name |-> name, extra |-> <<>>]
<1>1. IsCgiLocation(l.route) /\ l.extensions \in SUBSET {e \in Words : Len(e) > 1 /\ e[1] = "."}
  BY DEF LocationConfigs
<1>2. l.route \in Words /\ l.route # <<>> /\ l.alias \in Words /\ l.alias # <<>>
  BY LocationTyped
<1>3. a \in Words
  BY <1>2, TailIsWord
<1>4. name \in Words /\ Slashless(name)
  <2>1. name \in Words /\ Len(name) \in Nat
    BY <1>2, RestIs, WordLen
  <2>. QED
    BY <2>1 DEF Slashless, Contains
<1>5. ScriptLocDetails(path) = IF Contains(name, ".") THEN {found} ELSE {}
  BY <1>1, <1>2, ScriptIsRest
<1>6. Allowed(l, name) <=> Contains(name, ".") /\ IsValidExtension(name, l.extensions)
  <2>. HIDE DEF name
  <2>1. name \in Words
    BY <1>4
  <2>. QED
    BY <1>1, <2>1, ExtensionIsAllowed DEF Allowed
<1>7. \A code : ErrorReply(code).kind # "script"
  BY DEF ErrorReply, Reply
<1>8. CASE ~Contains(name, ".")
  <2>1. ScriptLocDetails(path) = {}
    BY <1>5, <1>8
  <2>2. CgiReply(l, path) = ErrorReply(400)
    BY <2>1 DEF CgiReply
  <2>. HIDE DEF name
  <2>. QED
    BY <1>6, <1>7, <1>8, <2>2 DEF ScriptAnswer, name
<1>9. CASE Contains(name, ".")
  <2>1. ScriptLocDetails(path) = {found}
    BY <1>5, <1>9
  <2>2. script = found
    <3>. HIDE DEF found
    <3>. QED
      BY <2>1
  <2>3. script.location = l.route /\ script.name = name /\ script.extra = <<>>
    <3>. HIDE DEF script, name
    <3>. QED
      BY <2>2
  <2>4. CgiReply(l, path) =
          IF ~IsValidExtension(script.name, l.extensions) THEN ErrorReply(501)
          ELSE IF IsRegularFile(file) /\ HasInterpreter(script.name)
               THEN Reply("script", 200, Canonical(file)) ELSE ErrorReply(500)
    <3>1. ScriptLocDetails(path) # {}
      BY <2>1
    <3>. QED
      BY <3>1, ZenonT(40) DEF CgiReply
  <2>5. UpdatePath(l.alias, l.route, l.route) = a
    <3>1. SubSeq(l.route, Len(l.route) + 1, Len(l.route)) = <<>>
      BY <1>2, WordLen
    <3>. QED
      BY <3>1 DEF UpdatePath
  <2>6. location = a
    BY <2>3, <2>5
  <2>. HIDE DEF script, location
  <2>7. file = a \o <<"/">> \o <<>> \o <<"/">> \o name
    BY <2>3, <2>6
  <2>8. Canonical(file) = ScriptFileOf(l, name)
    <3>. HIDE DEF name, a
    <3>1. Canonical(a \o <<"/">> \o <<>> \o <<"/">> \o name) = Canonical(Bare(a) \o <<"/">> \o name)
      BY <1>3, <1>4, ScriptFile, Zenon
    <3>. QED
      BY <2>7, <3>1 DEF ScriptFileOf, a
  <2>. HIDE DEF file, name
  <2>9. IsRegularFile(file) <=> ScriptFileOf(l, name) \in disk.files
    BY <2>8 DEF IsRegularFile
  <2>10. CgiReply(l, path) =
           IF ~IsValidExtension(name, l.extensions) THEN ErrorReply(501)
           ELSE IF ScriptFileOf(l, name) \in disk.files /\ HasInterpreter(name)
                THEN Reply("script", 200, ScriptFileOf(l, name)) ELSE ErrorReply(500)
    BY <2>3, <2>4, <2>8, <2>9
  <2>11. \A f : Reply("script", 200, f).kind = "script" /\ Reply("script", 200, f).path = f
    BY DEF Reply
  <2>12. CASE ~IsValidExtension(name, l.extensions)
    <3>1. CgiReply(l, path) = ErrorReply(501)
      BY <2>10, <2>12
    <3>. QED
      BY <1>6, <1>7, <2>12, <3>1 DEF ScriptAnswer, name
  <2>13. CASE IsValidExtension(name, l.extensions) /\ ~(ScriptFileOf(l, name) \in disk.files /\ HasInterpreter(name))
    <3>1. CgiReply(l, path) = ErrorReply(500)
      BY <2>10, <2>13
    <3>. QED
      BY <1>7, <2>13, <3>1 DEF ScriptAnswer, name
  <2>14. CASE IsValidExtension(name, l.extensions) /\ ScriptFileOf(l, name) \in disk.files /\ HasInterpreter(name)
    <3>1. CgiReply(l, path) = Reply("script", 200, ScriptFileOf(l, name))
      BY <2>10, <2>14
    <3>. QED
      BY <1>6, <1>9, <2>11, <2>14, <3>1 DEF ScriptAnswer, name
  <2>. QED
    BY <2>12, <2>13, <2>14
<1>. QED
  BY <1>8, <1>9

LEMMA ScriptsAre ==
    /\ PlainScriptsAreRun <=>
         (AskedForScript => PlainlyAnswered(At, rq.path, answer, disk.files))
    /\ PlainScriptsAreRun' <=>
         (AskedForScript' => PlainlyAnswered(At', rq'.path, answer', disk'.files))
    /\ AskedForScript' <=> /\ stage' = "answered" /\ rq'.status = 200 /\ dest'.loc # 0
                           /\ At'.cgi /\ At'.redirect = {}
<1>1. PlainScriptsAreRun <=>
        (AskedForScript => PlainlyAnswered(At, rq.path, answer, disk.files))
  BY Zenon DEF PlainScriptsAreRun, PlainlyAnswered, IsTheScript, ScriptAnswer, Allowed, ScriptFileOf, Rest
<1>2. PlainScriptsAreRun' <=>
        (AskedForScript' => PlainlyAnswered(At', rq'.path, answer', disk'.files))
  BY Zenon DEF PlainScriptsAreRun, PlainlyAnswered, IsTheScript, ScriptAnswer, Allowed, ScriptFileOf, Rest
<1>3. AskedForScript' <=> /\ stage' = "answered" /\ rq'.status = 200 /\ dest'.loc # 0
                          /\ At'.cgi /\ At'.redirect = {}
  BY Zenon DEF AskedForScript
<1>. QED
  BY <1>1, <1>2, <1>3

LEMMA ScriptStep ==
    ASSUME TypeOK, RequestsGoToTheirSite, PlainScriptsAreRun, [Next]_vars
    PROVE  PlainScriptsAreRun'
<1>1. ASSUME stage' # "answered" PROVE PlainScriptsAreRun'
  BY <1>1, ScriptsAre
<1>2. CASE Connect
  BY <1>1, <1>2 DEF Connect
<1>3. CASE Request
  BY <1>1, <1>3 DEF Request, ReadHead
<1>4. CASE FollowRedirect
  BY <1>1, <1>4 DEF FollowRedirect, ReadHead
<1>5. CASE FollowLink
  BY <1>1, <1>5 DEF FollowLink, ReadHead
<1>6. CASE Refused
  BY <1>1, <1>6 DEF Refused
<1>7. CASE Process
  <2>. SUFFICES ASSUME AskedForScript'
                PROVE  PlainlyAnswered(At', rq'.path, answer', disk'.files)
    BY ScriptsAre
  <2>. DEFINE reply == ProcessRequest
              l == Locations(dest.server)[dest.loc]
  <2>1. /\ stage = "read" /\ cluster' = cluster /\ dest' = dest /\ rq' = rq
        /\ answer' = [kind |-> reply.kind, code |-> reply.code, path |-> reply.path, loc |-> dest.loc]
        /\ disk' = IF reply.kind = "deleted" THEN Without(reply.path) ELSE disk
    BY <1>7 DEF Process
  <2>2. At' = At /\ At = l
    BY <2>1, InsideIs DEF At, Locations
  <2>3. rq.status = 200 /\ dest.loc # 0 /\ l.cgi /\ l.redirect = {}
    BY <2>1, <2>2, ScriptsAre
  <2>4. /\ cluster \in Clusters /\ rq.path \in Words /\ dest.server \in DOMAIN cluster.servers
    BY <2>1 DEF TypeOK
  <2>5. Locations(dest.server) \in Seq(LocationConfigs)
    <3>1. cluster.servers \in Seq(ServerConfigs)
      BY <2>4, SitesAssumption
    <3>. QED
      BY <2>4, <3>1, ServerTyped DEF Locations
  <2>6. dest.loc = LocationOf(Locations(dest.server), rq.path)
    <3>1. Placed(ServersAt(listener), cluster.servers, rq.host, rq.path, dest.server, dest.loc)
      BY <2>1, <2>3, SiteIs
    <3>. QED
      BY <3>1, Zenon DEF Placed, Locations
  <2>7. l \in LocationConfigs /\ IsPrefix(l.route, rq.path)
    <3>1. dest.loc \in DOMAIN Locations(dest.server) /\ IsPrefix(l.route, rq.path)
      BY <2>3, <2>4, <2>5, <2>6, LocationFits
    <3>. QED
      BY <2>5, <3>1
  <2>8. reply = CgiReply(l, rq.path)
    BY <2>3 DEF ProcessRequest
  <2>. HIDE DEF l, reply
  <2>9. PlainlyAnswered(l, rq.path, reply, disk.files)
    BY <2>3, <2>4, <2>7, <2>8, ScriptReply DEF PlainlyAnswered
  <2>10. reply.kind # "deleted"
    BY <2>8 DEF CgiReply, Reply, ErrorReply
  <2>11. disk' = disk /\ answer'.kind = reply.kind /\ answer'.path = reply.path
    BY <2>1, <2>10
  <2>. QED
    BY <2>1, <2>2, <2>9, <2>11 DEF PlainlyAnswered, ScriptAnswer
<1>8. CASE ResponseSent
  BY <1>1, <1>8 DEF ResponseSent
<1>9. CASE Leave
  BY <1>1, <1>9 DEF Leave
<1>10. CASE UNCHANGED vars
  <2>1. cluster' = cluster /\ stage' = stage /\ dest' = dest /\ rq' = rq /\ answer' = answer /\ disk' = disk
    BY <1>10 DEF vars
  <2>2. At' = At
    BY <2>1, InsideIs DEF At, Locations
  <2>. QED
    BY <2>1, <2>2, ScriptsAre DEF AskedForScript
<1>. QED
  BY <1>2, <1>3, <1>4, <1>5, <1>6, <1>7, <1>8, <1>9, <1>10 DEF Next

(* Whatever the routes, aliases, extensions and files are, a script asked   *)
(* by its name alone is run when, and only when, it is there, its extension *)
(* is allowed and has an interpreter, and what is run is the file of that   *)
(* name in the directory of the location.                                   *)
THEOREM PlainScriptsAreRunHolds == Spec => []PlainScriptsAreRun
<1>1. Init => PlainScriptsAreRun
  BY DEF Init, PlainScriptsAreRun, AskedForScript
<1>2. TypeOK /\ RequestsGoToTheirSite /\ PlainScriptsAreRun /\ [Next]_vars => PlainScriptsAreRun'
  BY ScriptStep
<1>. QED
  BY <1>1, <1>2, TypeCorrect, RequestsGoWhereTheyBelong, PTL DEF Spec

-----------------------------------------------------------------------------
(* Targets that go on from others, and where they lead.                     *)
LEMMA RestJoined ==
    ASSUME NEW route \in Words, route # <<>>, NEW t \in Words, NEW y \in Words, IsPrefix(route, t)
    PROVE  IsPrefix(route, t \o y) /\ Rest(route, t \o y) = Rest(route, t) \o y
<1>. DEFINE r == Len(route)
            n == Len(t)
            m == Len(y)
            w == t \o y
            rest == Rest(route, t)
<1>1. /\ r \in Nat \ {0} /\ n \in Nat /\ r <= n
      /\ \A i \in 1 .. r : t[i] = route[i]
      /\ rest \in Words /\ Len(rest) = n - r
      /\ \A i \in 1 .. n - r : rest[i] = t[r + i]
  BY RestIs
<1>2. /\ w \in Words /\ Len(w) = n + m /\ m \in Nat
      /\ \A i \in 1 .. n : w[i] = t[i]
      /\ \A i \in 1 .. m : w[n + i] = y[i]
  BY DEF Words
<1>3. IsPrefix(route, w)
  <2>1. route \in Seq(Symbols) /\ w \in Seq(Symbols)
    BY <1>2, WordLen
  <2>2. r <= Len(w) /\ \A i \in 1 .. r : route[i] = w[i]
    <3>. HIDE DEF w, rest
    <3>. QED
      BY <1>1, <1>2
  <2>. QED
    BY <2>1, <2>2, PrefixIs
<1>. DEFINE u == Rest(route, w)
            v == rest \o y
<1>4. u \in Words /\ Len(u) = Len(w) - r /\ \A i \in 1 .. Len(w) - r : u[i] = w[r + i]
  BY <1>2, <1>3, RestIs
<1>5. /\ v \in Words /\ Len(v) = (n - r) + m
      /\ \A i \in 1 .. n - r : v[i] = rest[i]
      /\ \A i \in 1 .. m : v[(n - r) + i] = y[i]
  <2>. HIDE DEF rest
  <2>0. rest \in Seq(Symbols) /\ y \in Seq(Symbols)
    BY <1>1, WordLen
  <2>1. /\ v \in Words /\ Len(v) = Len(rest) + m
        /\ \A i \in 1 .. Len(rest) : v[i] = rest[i]
        /\ \A i \in 1 .. m : v[Len(rest) + i] = y[i]
    BY <2>0 DEF Words
  <2>. QED
    BY <1>1, <2>1
<1>. HIDE DEF u, v, w, rest
<1>6. Len(u) = Len(v)
  BY <1>1, <1>2, <1>4, <1>5
<1>7. ASSUME NEW i \in 1 .. Len(u) PROVE u[i] = v[i]
  <2>1. i \in 1 .. (n + m) - r /\ u[i] = w[r + i]
    BY <1>2, <1>4
  <2>2. CASE i <= n - r
    <3>1. i \in 1 .. n - r /\ r + i \in 1 .. n
      BY <1>1, <2>1, <2>2
    <3>. QED
      BY <1>1, <1>2, <1>5, <2>1, <3>1
  <2>3. CASE i > n - r
    <3>. DEFINE k == i - (n - r)
    <3>1. k \in 1 .. m /\ n + k = r + i /\ (n - r) + k = i
      BY <1>1, <1>2, <2>1, <2>3
    <3>. HIDE DEF k
    <3>2. w[n + k] = y[k] /\ v[(n - r) + k] = y[k]
      BY <1>2, <1>5, <3>1
    <3>. QED
      BY <2>1, <3>1, <3>2
  <2>. QED
    BY <1>1, <2>1, <2>2, <2>3
<1>8. u = v
  <2>1. u \in Seq(Symbols) /\ v \in Seq(Symbols)
    BY <1>4, <1>5, WordLen
  <2>. QED
    BY <1>6, <1>7, <2>1, SeqEqual
<1>. QED
  BY <1>3, <1>8 DEF u, v, w, rest

LEMMA JoinedEnds ==
    ASSUME NEW u \in Words, NEW y \in Words
    PROVE  /\ u # <<>> => /\ u \o y # <<>> /\ (u \o y)[1] = u[1]
                          /\ Tail(u \o y) = Tail(u) \o y /\ Tail(u) \in Words
           /\ y # <<>> => u \o y # <<>> /\ Last(u \o y) = Last(y)
<1>1. /\ Len(u) \in Nat /\ Len(y) \in Nat /\ u \o y \in Words
      /\ Len(u \o y) = Len(u) + Len(y)
      /\ \A i \in 1 .. Len(u) : (u \o y)[i] = u[i]
      /\ \A i \in 1 .. Len(y) : (u \o y)[Len(u) + i] = y[i]
  BY DEF Words
<1>2. ASSUME u # <<>>
      PROVE  /\ u \o y # <<>> /\ (u \o y)[1] = u[1]
             /\ Tail(u \o y) = Tail(u) \o y /\ Tail(u) \in Words
  <2>1. u \in Seq(Symbols) /\ y \in Seq(Symbols) /\ Len(u) > 0
    BY <1>2 DEF Words
  <2>2. Tail(u) \in Words
    BY <1>2, TailIsWord
  <2>3. u \o y # <<>>
    BY <1>1, <2>1
  <2>4. (u \o y)[1] = u[1]
    BY <1>1, <2>1
  <2>5. Tail(u \o y) = Tail(u) \o y
    BY <2>1
  <2>. QED
    BY <2>2, <2>3, <2>4, <2>5
<1>3. ASSUME y # <<>> PROVE u \o y # <<>> /\ Last(u \o y) = Last(y)
  <2>1. Len(y) > 0
    BY <1>3 DEF Words
  <2>2. Len(y) \in 1 .. Len(y) /\ Len(u \o y) > 0
    BY <1>1, <2>1
  <2>3. (u \o y)[Len(u) + Len(y)] = y[Len(y)]
    BY <1>1, <2>2
  <2>4. u \o y # <<>>
    BY <2>2
  <2>. QED
    BY <1>1, <2>3, <2>4 DEF Last
<1>. QED
  BY <1>2, <1>3

Stripped(rest) == IF rest[1] = "/" THEN Tail(rest) ELSE rest

LEMMA PlaceIs ==
    ASSUME NEW alias, NEW route, NEW path
    PROVE  UpdatePath(alias, route, path) =
             IF Rest(route, path) \in {<<>>, <<"/">>} THEN Tail(alias)
             ELSE Bare(Tail(alias)) \o <<"/">> \o Stripped(Rest(route, path))
BY Zenon DEF UpdatePath, Rest, Stripped

(* A word that is more than a slash has more than the slash.                *)
LEMMA SlashAhead ==
    ASSUME NEW w \in Words, w # <<>>, NEW y \in Words
    PROVE  /\ w # <<"/">> /\ w[1] = "/" => Len(w) > 1 /\ Tail(w) # <<>> /\ Last(Tail(w)) = Last(w)
           /\ w # <<"/">> => w \o y # <<"/">>
<1>1. w \in Seq(Symbols) /\ Len(w) \in Nat /\ Len(w) > 0 /\ y \in Seq(Symbols) /\ Len(y) \in Nat
  BY DEF Words
<1>2. Len(w) = 1 => w = <<w[1]>>
  BY <1>1
<1>3. ASSUME Len(w) > 1 PROVE Tail(w) # <<>> /\ Last(Tail(w)) = Last(w)
  <2>1. Len(Tail(w)) = Len(w) - 1 /\ Tail(w) \in Seq(Symbols) /\ Len(w) - 1 \in 1 .. Len(w) - 1
    BY <1>1, <1>3
  <2>2. Tail(w)[Len(w) - 1] = w[Len(w)]
    BY <1>1, <1>3
  <2>3. Tail(w) # <<>>
    <3>. DEFINE v == Tail(w)
    <3>1. v \in Seq(Symbols) /\ Len(v) > 0
      BY <1>1, <1>3, <2>1
    <3>. HIDE DEF v
    <3>2. v # <<>>
      BY <3>1
    <3>. QED
      BY <3>2 DEF v
  <2>. QED
    BY <2>1, <2>2, <2>3 DEF Last
<1>4. w[1] = "/" /\ w # <<"/">> => Len(w) > 1
  <2>. DEFINE k == Len(w)
  <2>1. k \in Nat /\ k > 0 /\ (k = 1 => w = <<w[1]>>)
    BY <1>1, <1>2
  <2>. HIDE DEF k
  <2>2. k = 1 \/ k > 1
    BY <2>1
  <2>. QED
    BY <2>1, <2>2, Zenon DEF k
<1>5. ASSUME w \o y = <<"/">> PROVE w = <<"/">>
  <2>1. Len(w \o y) = Len(w) + Len(y) /\ (w \o y)[1] = w[1]
    BY <1>1
  <2>2. Len(<<"/">>) = 1 /\ <<"/">>[1] = "/"
    OBVIOUS
  <2>. DEFINE k == Len(w)
              m == Len(y)
  <2>3. k \in Nat /\ m \in Nat /\ k > 0 /\ k + m = 1
    BY <1>1, <1>5, <2>1, <2>2, Zenon
  <2>. HIDE DEF k, m
  <2>4. k = 1
    BY <2>3
  <2>. QED
    BY <1>2, <1>5, <2>1, <2>2, <2>4, Zenon DEF k
<1>. QED
  BY <1>3, <1>4, <1>5

LEMMA StrippedIs ==
    ASSUME NEW rest \in Words, rest \notin {<<>>, <<"/">>}, NEW y \in Words
    PROVE  /\ Stripped(rest) \in Words /\ Stripped(rest) # <<>> /\ Last(Stripped(rest)) = Last(rest)
           /\ rest \o y \notin {<<>>, <<"/">>} /\ Stripped(rest \o y) = Stripped(rest) \o y
<1>1. rest # <<>> /\ rest # <<"/">>
  OBVIOUS
<1>2. /\ rest \o y # <<>> /\ (rest \o y)[1] = rest[1] /\ Tail(rest \o y) = Tail(rest) \o y
      /\ Tail(rest) \in Words
  BY <1>1, JoinedEnds
<1>3. /\ rest[1] = "/" => Tail(rest) # <<>> /\ Last(Tail(rest)) = Last(rest)
      /\ rest \o y # <<"/">>
  BY <1>1, SlashAhead
<1>. QED
  BY <1>1, <1>2, <1>3, Zenon DEF Stripped

(* What lies in a location beyond its directory, and what follows it.       *)
LEMMA PlaceExtends ==
    ASSUME NEW alias \in Words, alias # <<>>, NEW route \in Words, route # <<>>, NEW t \in Words,
           IsPrefix(route, t), Rest(route, t) \notin {<<>>, <<"/">>}
    PROVE  /\ UpdatePath(alias, route, t) # <<>> /\ Last(UpdatePath(alias, route, t)) = Last(t)
           /\ \A y \in Words : UpdatePath(alias, route, t \o y) = UpdatePath(alias, route, t) \o y
<1>. DEFINE rest == Rest(route, t)
            h == Bare(Tail(alias)) \o <<"/">>
            U == UpdatePath(alias, route, t)
            s == Stripped(rest)
<1>1. rest \in Words /\ rest # <<>>
  BY RestIs
<1>2. h \in Words
  BY TailIsWord, BareIsWord, SlashIsWord, JoinedWord
<1>3. U = h \o s
  BY PlaceIs
<1>4. s \in Words /\ s # <<>> /\ Last(s) = Last(rest)
  BY <1>1, SlashIsWord, StrippedIs
<1>5. Last(rest) = Last(t)
  <2>1. /\ Len(route) \in Nat \ {0} /\ Len(t) \in Nat /\ Len(rest) = Len(t) - Len(route)
        /\ \A i \in 1 .. Len(t) - Len(route) : rest[i] = t[Len(route) + i]
    BY RestIs
  <2>2. Len(rest) \in Nat /\ Len(rest) # 0
    BY <1>1, WordLen
  <2>. HIDE DEF rest
  <2>3. Len(rest) \in 1 .. Len(t) - Len(route) /\ Len(route) + Len(rest) = Len(t)
    BY <2>1, <2>2
  <2>4. rest[Len(rest)] = t[Len(t)]
    BY <2>1, <2>3
  <2>. QED
    BY <2>4 DEF Last
<1>6. U # <<>> /\ Last(U) = Last(t)
  <2>. HIDE DEF h, s, U
  <2>. QED
    BY <1>2, <1>3, <1>4, <1>5, JoinedEnds
<1>7. ASSUME NEW y \in Words PROVE UpdatePath(alias, route, t \o y) = U \o y
  <2>1. Rest(route, t \o y) = rest \o y
    BY RestJoined
  <2>2. rest \o y \notin {<<>>, <<"/">>} /\ Stripped(rest \o y) = s \o y
    <3>. HIDE DEF rest
    <3>1. rest \notin {<<>>, <<"/">>}
      BY DEF rest
    <3>. QED
      BY <1>1, <3>1, StrippedIs
  <2>3. UpdatePath(alias, route, t \o y) = h \o (s \o y)
    BY <2>1, <2>2, PlaceIs
  <2>. HIDE DEF h, s, U
  <2>4. (h \o s) \o y = h \o (s \o y)
    BY <1>2, <1>4, Glue, Zenon
  <2>. QED
    BY <1>3, <2>3, <2>4
<1>. QED
  BY <1>6, <1>7

LEMMA PlaceGrows ==
    ASSUME NEW alias \in Words, alias # <<>>, NEW route \in Words, route # <<>>,
           NEW v \in Words, v # <<>>, Last(v) = "/", IsPrefix(route, v),
           NEW y \in Words, y # <<>>, y[1] # "/"
    PROVE  UpdatePath(alias, route, v \o y) = Bare(UpdatePath(alias, route, v)) \o <<"/">> \o y
<1>. DEFINE rest == Rest(route, v)
            a == Tail(alias)
            U == UpdatePath(alias, route, v)
<1>1. rest \in Words /\ Rest(route, v \o y) = rest \o y
  BY RestIs, RestJoined
<1>2. a \in Words /\ U \in Words
  BY TailIsWord, PlaceIsWord
<1>3. CASE rest = <<>>
  <2>1. Rest(route, v \o y) = y
    BY <1>1, <1>3, GlueNothing
  <2>2. y # <<"/">>
    OBVIOUS
  <2>3. Stripped(y) = y
    BY DEF Stripped
  <2>4. U = a
    BY <1>3, PlaceIs
  <2>5. UpdatePath(alias, route, v \o y) = Bare(a) \o <<"/">> \o y
    BY <2>1, <2>2, <2>3, PlaceIs
  <2>. QED
    BY <2>4, <2>5
<1>4. CASE rest = <<"/">>
  <2>1. Rest(route, v \o y) = <<"/">> \o y
    BY <1>1, <1>4
  <2>. DEFINE s == <<"/">> \o y
  <2>2. s # <<>> /\ s # <<"/">> /\ s[1] = "/" /\ Tail(s) = y
    <3>1. y \in Seq(Symbols) /\ Len(y) > 0 /\ <<"/">> \in Seq(Symbols)
      BY SlashIsWord DEF Words
    <3>2. Len(s) = 1 + Len(y) /\ s[1] = "/" /\ Tail(s) = y
      BY <3>1
    <3>. HIDE DEF s
    <3>. QED
      BY <3>1, <3>2
  <2>. HIDE DEF s
  <2>3. Stripped(s) = y
    BY <2>2 DEF Stripped
  <2>4. U = a
    BY <1>4, PlaceIs
  <2>5. UpdatePath(alias, route, v \o y) = Bare(a) \o <<"/">> \o y
    BY <2>1, <2>2, <2>3, PlaceIs DEF s
  <2>. QED
    BY <2>4, <2>5
<1>5. CASE rest \notin {<<>>, <<"/">>}
  <2>1. U # <<>> /\ Last(U) = "/" /\ UpdatePath(alias, route, v \o y) = U \o y
    BY <1>5, PlaceExtends
  <2>2. U = Bare(U) \o <<"/">>
    BY <1>2, <2>1, BareOf
  <2>. QED
    BY <2>1, <2>2
<1>. QED
  BY <1>3, <1>4, <1>5

(* The directory of y, or y itself, in what a word leads to.                *)
LEMMA CanonicalJoined ==
    ASSUME NEW u \in Words, NEW n \in Words, Slashless(n)
    PROVE  Canonical(Bare(u) \o <<"/">> \o n) = Bare(Canonical(u)) \o <<"/">> \o n
<1>. DEFINE b == Bare(u)
            h == b \o <<"/">>
<1>1. b \in Words /\ h \in Words
  BY BareIsWord, SlashIsWord, JoinedWord
<1>2. Canonical(h) = Bare(Canonical(b)) \o <<"/">>
  BY <1>1, CanonicalSlash
<1>3. Bare(Canonical(b)) = Bare(Canonical(u))
  BY CanonicalBare
<1>. HIDE DEF h
<1>4. Canonical(h \o n) = Canonical(h) \o n
  BY <1>1, CanonicalName
<1>. QED
  BY <1>2, <1>3, <1>4 DEF h

LEMMA BareOfSlash ==
    ASSUME NEW w \in Words
    PROVE  Bare(w \o <<"/">>) = w /\ (w \o <<"/">>) # <<>> /\ Last(w \o <<"/">>) = "/"
<1>1. "/" \in Symbols
  BY SitesAssumption
<1>2. Append(w, "/") = w \o <<"/">> /\ Bare(Append(w, "/")) = w
      /\ Append(w, "/") # <<>> /\ Last(Append(w, "/")) = "/"
  BY <1>1, AppendEnds, BareOf
<1>. QED
  BY <1>2

LEMMA CanonicalHead ==
    ASSUME NEW w \in Words
    PROVE  w # <<>> => Canonical(w) # <<>> /\ Canonical(w)[1] = w[1]
<1>. DEFINE S == {z \in Words : z # <<>> => Canonical(z) # <<>> /\ Canonical(z)[1] = z[1]}
<1>0. "/" \in Symbols /\ Canonical(<<>>) = <<>>
  BY SitesAssumption, SlashIsWord, CanonicalUnfolds
<1>1. <<>> \in S
  BY SlashIsWord
<1>2. ASSUME NEW z \in Words, NEW a \in Symbols, z \in S PROVE Append(z, a) \in S
  <2>. DEFINE v == Append(z, a)
              c == Canonical(z)
  <2>1. v \in Words /\ v # <<>> /\ c \in Words
    BY AppendEnds, CanonicalIsWord
  <2>2. z # <<>> => v[1] = z[1] /\ c # <<>> /\ c[1] = z[1] /\ Append(c, a)[1] = c[1] /\ Append(c, a) # <<>>
    <3>. SUFFICES ASSUME z # <<>>
                  PROVE  v[1] = z[1] /\ c # <<>> /\ c[1] = z[1] /\ Append(c, a)[1] = c[1] /\ Append(c, a) # <<>>
      OBVIOUS
    <3>1. c # <<>> /\ c[1] = z[1]
      BY <1>2
    <3>. HIDE DEF c
    <3>2. Append(c, a)[1] = c[1] /\ Append(c, a) # <<>> /\ Append(z, a)[1] = z[1]
      BY <2>1, <3>1 DEF Words
    <3>. QED
      BY <3>1, <3>2
  <2>3. ASSUME z = <<>> PROVE v = <<a>> /\ Append(c, a) = <<a>>
    <3>1. Append(<<>>, a) = <<a>>
      OBVIOUS
    <3>. QED
      BY <1>0, <2>3, <3>1, Zenon
  <2>4. Canonical(v) = Append(c, a) \/ (Canonical(v) = c /\ z # <<>>)
    BY CanonicalUnfolds
  <2>. HIDE DEF v, c
  <2>5. Canonical(v) # <<>> /\ Canonical(v)[1] = v[1]
    BY <2>2, <2>3, <2>4
  <2>. QED
    BY <2>1, <2>5 DEF v
<1>. HIDE DEF S
<1>3. w \in S
  BY <1>1, <1>2, WordsInduction
<1>. QED
  BY <1>3 DEF S

(* A location is not the root of the file system, nor is what lies in it.   *)
LEMMA PlaceIsNamed ==
    ASSUME NEW l \in LocationConfigs, NEW path \in Words
    PROVE  LET place == UpdatePath(l.alias, l.route, path)
           IN  place \in Words /\ place # <<>> /\ Bare(Canonical(place)) # <<>>
<1>. DEFINE place == UpdatePath(l.alias, l.route, path)
            a == Tail(l.alias)
            b == Bare(a)
            r == Rest(l.route, path)
            s == Stripped(r)
<1>1. l.alias \in Words /\ Len(l.alias) > 1 /\ l.alias[2] # "/" /\ l.alias # <<>> /\ l.route \in Words
  BY LocationTyped DEF LocationConfigs
<1>2. a \in Words /\ a # <<>> /\ a[1] # "/"
  <2>. DEFINE w == l.alias
  <2>1. w \in Words /\ Len(w) > 1 /\ w[2] # "/" /\ a = Tail(w)
    BY <1>1
  <2>. HIDE DEF w, a
  <2>2. w \in Seq(Symbols) /\ Len(w) \in Nat
    BY <2>1, WordLen
  <2>3. w # <<>>
    BY <2>1, <2>2
  <2>4. a \in Seq(Symbols) /\ Len(a) = Len(w) - 1 /\ \A i \in 1 .. Len(a) : a[i] = w[i + 1]
    BY <2>1, <2>2, <2>3, HeadTailProperties
  <2>5. 1 \in 1 .. Len(a)
    BY <2>1, <2>2, <2>4
  <2>6. a[1] = w[2] /\ a # <<>>
    BY <2>4, <2>5
  <2>. QED
    BY <2>1, <2>4, <2>6 DEF Words
<1>. HIDE DEF a
<1>3. b \in Words /\ b # <<>> /\ b[1] # "/"
  <2>1. CASE Last(a) = "/"
    <3>1. b \in Words /\ a = b \o <<"/">>
      BY <1>2, <2>1, BareOf, BareIsWord
    <3>. HIDE DEF b
    <3>2. b # <<>>
      BY <1>2, <3>1
    <3>3. a[1] = b[1]
      BY <3>1, <3>2, SlashIsWord, JoinedEnds
    <3>. QED
      BY <1>2, <3>1, <3>2, <3>3
  <2>2. CASE Last(a) # "/"
    BY <1>2, <2>2, BareOf
  <2>. QED
    BY <2>1, <2>2
<1>4. place = a \/ (s \in Words /\ place = b \o <<"/">> \o s)
  <2>1. ASSUME r \in Words, r \notin {<<>>, <<"/">>} PROVE s \in Words
    <3>. HIDE DEF r
    <3>. QED
      BY <2>1, SlashIsWord, StrippedIs
  <2>2. r \in Words
    <3>1. Len(l.route) + 1 \in Nat \ {0} /\ Len(path) \in Nat /\ Len(path) <= Len(path)
      BY <1>1, WordLen
    <3>. QED
      BY <3>1, PartIsWord DEF Rest
  <2>. QED
    BY <2>1, <2>2, PlaceIs DEF a
<1>5. place \in Words /\ place # <<>> /\ place[1] # "/"
  <2>1. ASSUME s \in Words PROVE /\ b \o <<"/">> \o s \in Words /\ b \o <<"/">> \o s # <<>>
                                 /\ (b \o <<"/">> \o s)[1] = b[1]
    <3>. DEFINE h == b \o <<"/">>
    <3>1. h \in Words /\ h # <<>> /\ h[1] = b[1]
      BY <1>3, SlashIsWord, JoinedWord, JoinedEnds
    <3>. HIDE DEF b, h, s
    <3>2. h \o s \in Words /\ h \o s # <<>> /\ (h \o s)[1] = h[1]
      BY <2>1, <3>1, JoinedWord, JoinedEnds
    <3>. QED
      BY <3>1, <3>2 DEF h
  <2>. HIDE DEF place, b, s
  <2>. QED
    BY <1>2, <1>3, <1>4, <2>1
<1>. DEFINE c == Canonical(place)
<1>6. c \in Words /\ c # <<>> /\ c[1] # "/"
  BY <1>5, CanonicalIsWord, CanonicalHead
<1>. HIDE DEF c
<1>7. Bare(c) # <<>>
  <2>1. CASE Last(c) = "/"
    <3>1. c = Bare(c) \o <<"/">>
      BY <1>6, <2>1, BareOf
    <3>2. (<<>> \o <<"/">>)[1] = "/"
      OBVIOUS
    <3>. QED
      BY <1>6, <3>1, <3>2
  <2>2. CASE Last(c) # "/"
    BY <1>6, <2>2, BareOf
  <2>. QED
    BY <2>1, <2>2
<1>. QED
  BY <1>5, <1>7 DEF c

-----------------------------------------------------------------------------
(* Targets as RqTarget leaves them, and names as the file system has them.  *)
IsTarget(w) == w # <<>> /\ w[1] = "/" /\ Canonical(w) = w
IsPlain(w) == w # <<>> /\ Last(w) # "/" /\ Canonical(w) = w

LEMMA TargetHead ==
    ASSUME NEW u \in Words, u # <<>>, NEW y \in Words, IsTarget(u \o y)
    PROVE  IsTarget(u)
<1>. DEFINE w == u \o y
<1>1. w \in Words /\ w # <<>> /\ w[1] = u[1]
  BY JoinedWord, JoinedEnds
<1>2. Single(w)
  BY <1>1, CanonicalIsSingle DEF IsTarget
<1>3. /\ Len(u) \in Nat /\ Len(w) \in Nat /\ Len(u) <= Len(w)
      /\ \A i \in 1 .. Len(u) : w[i] = u[i]
  BY DEF Words
<1>. HIDE DEF w
<1>4. Single(u)
  <2>. SUFFICES ASSUME NEW i \in 1 .. Len(u) - 1 PROVE ~(u[i] = "/" /\ u[i + 1] = "/")
    BY DEF Single
  <2>1. i \in 1 .. Len(w) - 1 /\ i \in 1 .. Len(u) /\ i + 1 \in 1 .. Len(u)
    BY <1>3
  <2>2. w[i] = u[i] /\ w[i + 1] = u[i + 1]
    BY <1>3, <2>1
  <2>. QED
    BY <1>2, <2>1, <2>2 DEF Single
<1>5. w[1] = "/"
  BY DEF IsTarget, w
<1>. QED
  BY <1>1, <1>4, <1>5, CanonicalIsSingle DEF IsTarget

LEMMA TargetGrows ==
    ASSUME NEW u \in Words, IsTarget(u), NEW n \in Words, Slashless(n)
    PROVE  IsTarget(u \o n)
<1>1. u \o n # <<>> /\ (u \o n)[1] = u[1] /\ Canonical(u \o n) = Canonical(u) \o n
  BY JoinedEnds, CanonicalName DEF IsTarget
<1>. QED
  BY <1>1 DEF IsTarget

LEMMA TargetSlashed ==
    ASSUME NEW u \in Words, IsTarget(u), Last(u) # "/"
    PROVE  IsTarget(u \o <<"/">>)
<1>1. Bare(u) = u /\ <<"/">> \in Words
  BY BareOf, SlashIsWord
<1>2. u \o <<"/">> # <<>> /\ (u \o <<"/">>)[1] = u[1]
  BY <1>1, JoinedEnds DEF IsTarget
<1>3. Canonical(u \o <<"/">>) = u \o <<"/">>
  BY <1>1, CanonicalSlash DEF IsTarget
<1>. QED
  BY <1>2, <1>3 DEF IsTarget

(* A target names something in a directory.                                 *)
LEMMA TargetStands ==
    ASSUME NEW t \in Words, IsTarget(t)
    PROVE  \E n \in Words : /\ Slashless(n) /\ Parent(t) \in Words
                            /\ t = Parent(t) \o <<"/">> \o n
                            /\ IsTarget(Parent(t) \o <<"/">>)
                            /\ Parent(t) # <<>> => IsTarget(Parent(t))
<1>1. ~Slashless(t)
  <2>1. 1 \in 1 .. Len(t) /\ t[1] = "/"
    <3>1. t # <<>> /\ t[1] = "/" /\ Len(t) \in Nat /\ t \in Seq(Symbols)
      BY WordLen DEF IsTarget
    <3>. QED
      BY <3>1
  <2>. QED
    BY <2>1 DEF Slashless
<1>2. PICK n \in Words : Slashless(n) /\ Parent(t) \in Words /\ t = Parent(t) \o <<"/">> \o n
  BY <1>1, ParentStands
<1>. DEFINE p == Parent(t)
            h == p \o <<"/">>
<1>3. h \in Words /\ h # <<>> /\ <<"/">> \in Words
  BY <1>2, SlashIsWord, JoinedWord, BareOfSlash
<1>4. IsTarget(h)
  <2>1. IsTarget(h \o n)
    BY <1>2
  <2>. HIDE DEF h
  <2>. QED
    BY <1>2, <1>3, <2>1, TargetHead
<1>5. p # <<>> => IsTarget(p)
  BY <1>2, <1>3, <1>4, TargetHead
<1>. QED
  BY <1>2, <1>4, <1>5

LEMMA SlashlessStands ==
    ASSUME NEW w \in Words, Slashless(w)
    PROVE  Parent(w) = <<>>
<1>1. {i \in DOMAIN w : w[i] = "/"} = {}
  <2>1. DOMAIN w = 1 .. Len(w)
    BY DEF Words
  <2>. QED
    BY <2>1, Zenon DEF Slashless
<1>. QED
  BY <1>1, Zenon DEF Parent

(* The directory above the one a target is in.                              *)
LEMMA TargetAbove ==
    ASSUME NEW t \in Words, IsTarget(t)
    PROVE  IsTarget(Parent(Parent(t)) \o <<"/">>)
<1>. DEFINE p == Parent(t)
<1>1. /\ p \in Words /\ IsTarget(p \o <<"/">>)
      /\ p # <<>> => IsTarget(p)
  BY TargetStands
<1>2. CASE p = <<>>
  <2>1. Parent(<<>>) = <<>>
    <3>1. <<>> \in Words /\ Slashless(<<>>)
      BY SlashIsWord DEF Slashless
    <3>. QED
      BY <3>1, SlashlessStands
  <2>. QED
    BY <1>1, <1>2, <2>1
<1>3. CASE p # <<>>
  <2>. HIDE DEF p
  <2>1. IsTarget(Parent(p) \o <<"/">>)
    BY <1>1, <1>3, TargetStands
  <2>. QED
    BY <2>1 DEF p
<1>. QED
  BY <1>2, <1>3

(* What is in a directory that has a name, and how a listing shows it.      *)
LEMMA EntryStands ==
    ASSUME NEW e \in Words, IsPlain(e), Parent(e) # <<>>
    PROVE  \E n \in Words : /\ Slashless(n) /\ n # <<>> /\ n[1] # "/"
                            /\ e = Parent(e) \o <<"/">> \o n
                            /\ SubSeq(e, Len(Parent(e)) + 1, Len(e)) = <<"/">> \o n
<1>1. ~Slashless(e)
  BY SlashlessStands
<1>2. PICK n \in Words : /\ Slashless(n) /\ Parent(e) \in Words
                         /\ e = Parent(e) \o <<"/">> \o n
                         /\ SubSeq(e, Len(Parent(e)) + 1, Len(e)) = <<"/">> \o n
  BY <1>1, ParentStands
<1>3. n # <<>>
  <2>. SUFFICES ASSUME n = <<>> PROVE FALSE
    OBVIOUS
  <2>. DEFINE h == Parent(e) \o <<"/">>
  <2>1. h \in Words /\ Last(h) = "/"
    BY <1>2, SlashIsWord, JoinedWord, BareOfSlash
  <2>2. e = h \o <<>>
    BY <1>2
  <2>. HIDE DEF h
  <2>3. e = h
    BY <2>1, <2>2, GlueNothing
  <2>. QED
    BY <2>1, <2>3 DEF IsPlain
<1>4. n[1] # "/"
  <2>1. 1 \in 1 .. Len(n)
    BY <1>3 DEF Words
  <2>. QED
    BY <1>2, <2>1 DEF Slashless
<1>. QED
  BY <1>2, <1>3, <1>4

-----------------------------------------------------------------------------
(* What a client can follow is where its last request went.                 *)
ServerFor(c, address, host) ==
    LET Better(best, i) ==
          LET match == MatchHostName(host, c.servers[i].names)
          IN  IF \/ Len(match.name) > Len(best.name) /\ match.type = best.type
                 \/ match.type > best.type
              THEN [type |-> match.type, name |-> match.name, server |-> i] ELSE best
    IN  FoldLeft(Better, [type |-> NO_MATCH, name |-> <<>>, server |-> ServersOf(c, address)[1]],
                 ServersOf(c, address)).server

LEMMA ServerForIs ==
    ASSUME NEW address, NEW host
    PROVE  ChooseServer(address, host) = ServerFor(cluster, address, host)
<1>1. ServersAt(address) = ServersOf(cluster, address)
  BY Zenon DEF ServersAt, ServersOf
<1>. QED
  BY <1>1, Zenon DEF ChooseServer, ServerFor

Went(c, address, r, server, loc) ==
    /\ server = ServerFor(c, address, r.host) /\ server \in DOMAIN c.servers
    /\ loc = LocationOf(c.servers[server].locations, r.path)
    /\ IsTarget(r.path)

(* What an answer of a location to a target is that can be followed.        *)
Leads(l, target, reply) ==
    LET place == UpdatePath(l.alias, l.route, target)
    IN  /\ reply.kind = "redirect" =>
              /\ NeedsSlash(place)
              /\ reply.path = IF Last(target) = "/" THEN target ELSE target \o <<"/">>
        /\ reply.kind = "list" => ~NeedsSlash(place) /\ reply.path = place

DiskIsPlain == \A w \in disk.files \cup disk.dirs : IsPlain(w)

ReadWent == stage = "read" /\ rq.status # 400 => Went(cluster, listener, rq, dest.server, dest.loc)

Led ==
    stage \in {"idle", "answered"} /\ answer.kind \in {"redirect", "list"} =>
        /\ Went(cluster, listener, rq, dest.server, answer.loc) /\ answer.loc # 0
        /\ Leads(cluster.servers[dest.server].locations[answer.loc], rq.path, answer)

Follows(target, path, reply) ==
    reply.kind \in {"redirect", "list"} => reply = DirectoryReply(target, path)

LEMMA GetFollows ==
    ASSUME NEW l, NEW target, NEW place
    PROVE  Follows(target, place, GetReply(l, target, place))
<1>. DEFINE found == {i \in DOMAIN l.files : IsRegularFile(place \o l.files[i])}
<1>1. GetReply(l, target, place) =
        CASE IsDirectory(place) /\ found # {} -> Reply("file", 200, place \o l.files[Min(found)])
          [] IsDirectory(place) /\ found = {} /\ l.listing -> DirectoryReply(target, place)
          [] IsDirectory(place) /\ found = {} /\ ~l.listing -> ErrorReply(403)
          [] IsRegularFile(place) -> Reply("file", 200, place)
          [] OTHER -> ErrorReply(404)
  BY Zenon DEF GetReply
<1>. HIDE DEF found
<1>2. \A p : Follows(target, place, Reply("file", 200, p))
  BY DEF Follows, Reply
<1>3. \A c : Follows(target, place, ErrorReply(c))
  BY DEF Follows, ErrorReply, Reply
<1>4. Follows(target, place, DirectoryReply(target, place))
  BY DEF Follows
<1>. QED
  BY <1>1, <1>2, <1>3, <1>4

LEMMA ProcessLeads ==
    ASSUME TypeOK, ProcessRequest.kind \in {"redirect", "list"}
    PROVE  /\ rq.status = 200
           /\ ProcessRequest = DirectoryReply(rq.path, dest.path)
<1>. DEFINE l == Locations(dest.server)[dest.loc]
            return == CHOOSE r \in l.redirect : TRUE
            reply == ProcessRequest
<1>1. \A code : ErrorReply(code).kind = "error"
  BY DEF ErrorReply, Reply
<1>2. \A k, c, p : Reply(k, c, p).kind = k
  BY DEF Reply
<1>3. rq.status = 200
  <2>. SUFFICES ASSUME rq.status # 200 PROVE FALSE
    OBVIOUS
  <2>1. reply = ErrorReply(rq.status)
    BY DEF ProcessRequest
  <2>. QED
    BY <1>1, <2>1, Zenon
<1>4. l.redirect = {}
  <2>. SUFFICES ASSUME l.redirect # {} PROVE FALSE
    OBVIOUS
  <2>1. reply = RedirectReply(return[1], return[2])
    BY <1>3 DEF ProcessRequest
  <2>2. RedirectReply(return[1], return[2]).kind \in {"error", "return"}
    BY <1>1, <1>2 DEF RedirectReply
  <2>. QED
    BY <2>1, <2>2
<1>5. ~l.cgi
  <2>. SUFFICES ASSUME l.cgi PROVE FALSE
    OBVIOUS
  <2>1. reply = CgiReply(l, rq.path)
    BY <1>3, <1>4 DEF ProcessRequest
  <2>2. CgiReply(l, rq.path).kind \in {"error", "script"}
    BY DEF CgiReply, Reply, ErrorReply
  <2>. QED
    BY <2>1, <2>2
<1>6. /\ rq.method = "GET" => reply = GetReply(l, rq.path, dest.path)
      /\ rq.method = "POST" => reply = PostReply(dest.path)
      /\ rq.method = "DELETE" => reply = DeleteReply(dest.path)
  BY <1>3, <1>4, <1>5 DEF ProcessRequest
<1>. HIDE DEF reply, l
<1>7. PostReply(dest.path).kind \in {"error", "created"} /\ DeleteReply(dest.path).kind \in {"error", "deleted"}
  BY <1>1, <1>2 DEF PostReply, DeleteReply
<1>8. rq.method = "GET"
  BY <1>6, <1>7 DEF TypeOK, Methods, reply
<1>9. reply = DirectoryReply(rq.path, dest.path)
  BY <1>6, <1>8, GetFollows DEF Follows, reply
<1>. QED
  BY <1>3, <1>9 DEF reply

LEMMA LedIs ==
    /\ ReadWent' <=> (stage' = "read" /\ rq'.status # 400 =>
                         Went(cluster', listener', rq', dest'.server, dest'.loc))
    /\ Led' <=> (stage' \in {"idle", "answered"} /\ answer'.kind \in {"redirect", "list"} =>
                    /\ Went(cluster', listener', rq', dest'.server, answer'.loc) /\ answer'.loc # 0
                    /\ Leads(cluster'.servers[dest'.server].locations[answer'.loc], rq'.path, answer'))
    /\ DiskIsPlain' <=> \A w \in disk'.files \cup disk'.dirs : IsPlain(w)
<1>1. ReadWent' <=> (stage' = "read" /\ rq'.status # 400 =>
                         Went(cluster', listener', rq', dest'.server, dest'.loc))
  BY Zenon DEF ReadWent, Went
<1>2. Led' <=> (stage' \in {"idle", "answered"} /\ answer'.kind \in {"redirect", "list"} =>
                    /\ Went(cluster', listener', rq', dest'.server, answer'.loc) /\ answer'.loc # 0
                    /\ Leads(cluster'.servers[dest'.server].locations[answer'.loc], rq'.path, answer'))
  BY Zenon DEF Led, Went, Leads
<1>3. DiskIsPlain' <=> \A w \in disk'.files \cup disk'.dirs : IsPlain(w)
  BY Zenon DEF DiskIsPlain, IsPlain
<1>. QED
  BY <1>1, <1>2, <1>3

(* ChooseServerCb.                                                          *)
LEMMA HeadLeads ==
    ASSUME TypeOK, DiskIsPlain, NEW method, NEW host \in Words, NEW path \in Words, IsTarget(path),
           ReadHead(method, host, path)
    PROVE  /\ ReadWent' /\ DiskIsPlain' /\ Led'
           /\ rq'.path = path /\ dest'.loc = LocationOf(cluster.servers[dest'.server].locations, path)
<1>. DEFINE server == ChooseServer(listener, host)
            loc == ChooseLocation(server, path)
            l == Locations(server)[loc]
            place == UpdatePath(l.alias, l.route, path)
            uploads == method = "POST" /\ IsStatic(l)
            missed == [dest EXCEPT !.server = server, !.loc = loc]
            status == IF uploads THEN UploadStatus(place) ELSE 200
            refused == loc = 0 \/ (loc # 0 /\ method \notin l.methods)
<1>1. /\ cluster \in Clusters /\ stage = "idle" /\ listener \in Addresses
      /\ dest \in [server : DOMAIN cluster.servers \cup {0}, loc : Nat, path : Words]
      /\ disk \in [files : SUBSET Words, dirs : SUBSET Words]
  BY DEF TypeOK, ReadHead
<1>2. cluster.servers \in Seq(ServerConfigs)
  BY <1>1, SitesAssumption
<1>3. /\ server \in DOMAIN cluster.servers
      /\ loc \in DOMAIN Locations(server) \cup {0}
      /\ Placed(ServersAt(listener), cluster.servers, host, path, server, loc)
  BY <1>1, <1>2, ChosenIsPlaced
<1>4. /\ stage' = "read" /\ answer' = NoAnswer /\ cluster' = cluster /\ listener' = listener
      /\ refused => /\ rq' = [method |-> method, host |-> host, path |-> path, status |-> 404]
                    /\ dest' = missed /\ disk' = disk
      /\ ~refused => /\ rq' = [method |-> method, host |-> host, path |-> path, status |-> status]
                     /\ dest' = [missed EXCEPT !.path = place]
                     /\ disk' = IF uploads /\ UploadStatus(place) = 200
                                THEN [disk EXCEPT !.files = @ \cup {Canonical(place)}] ELSE disk
  BY Zenon DEF ReadHead
<1>5. server = ServerFor(cluster, listener, host)
  BY ServerForIs
<1>6. loc = LocationOf(cluster.servers[server].locations, path)
  BY <1>3, Zenon DEF Placed
<1>7. loc # 0 => l \in LocationConfigs
  <2>1. Locations(server) \in Seq(LocationConfigs)
    BY <1>2, <1>3, ServerTyped DEF Locations
  <2>. HIDE DEF server, loc
  <2>. QED
    BY <1>3, <2>1
<1>8. ~refused => loc # 0
  OBVIOUS
<1>. HIDE DEF server, loc, l, refused, status, uploads
<1>9. /\ rq'.path = path /\ rq'.host = host
      /\ dest'.server = server /\ dest'.loc = loc
  <2>1. missed.server = server /\ missed.loc = loc /\ DOMAIN missed = {"server", "loc", "path"}
    BY <1>1
  <2>. HIDE DEF missed, place
  <2>2. CASE refused
    BY <1>4, <2>1, <2>2
  <2>3. CASE ~refused
    BY <1>4, <2>1, <2>3
  <2>. QED
    BY <2>2, <2>3
<1>10. ReadWent'
  BY <1>3, <1>4, <1>5, <1>6, <1>9, LedIs DEF Went
<1>11. Led'
  BY <1>4, LedIs
<1>12. DiskIsPlain'
  <2>1. CASE disk' = disk
    BY <2>1, LedIs DEF DiskIsPlain
  <2>2. CASE disk' # disk
    <3>1. ~refused
      BY <1>4, <2>2
    <3>2. UploadStatus(place) = 200 /\ disk' = [disk EXCEPT !.files = @ \cup {Canonical(place)}]
      BY <1>4, <2>2, <3>1, Zenon
    <3>3. place \in Words /\ place # <<>>
      BY <1>7, <1>8, <3>1, PlaceIsNamed
    <3>. HIDE DEF place
    <3>4. Last(place) # "/"
      BY <3>2 DEF UploadStatus
    <3>5. IsPlain(Canonical(place))
      BY <3>3, <3>4, CanonicalEnds, CanonicalSettles DEF IsPlain
    <3>6. disk'.files = disk.files \cup {Canonical(place)} /\ disk'.dirs = disk.dirs
      BY <1>1, <3>2
    <3>. QED
      BY <3>5, <3>6, LedIs, Zenon DEF DiskIsPlain
  <2>. QED
    BY <2>1, <2>2
<1>. QED
  BY <1>6, <1>9, <1>10, <1>11, <1>12

(* What is followed is again a target.                                      *)
LEMMA WentIs ==
    ASSUME TypeOK, NEW loc, Went(cluster, listener, rq, dest.server, loc), loc # 0
    PROVE  LET l == cluster.servers[dest.server].locations[loc]
           IN  /\ l \in LocationConfigs /\ IsPrefix(l.route, rq.path) /\ IsTarget(rq.path)
               /\ rq.path \in Words /\ rq.host \in Words
<1>1. cluster \in Clusters /\ rq.path \in Words /\ rq.host \in Words
  BY DEF TypeOK
<1>2. cluster.servers \in Seq(ServerConfigs)
  BY <1>1, SitesAssumption
<1>. DEFINE locations == cluster.servers[dest.server].locations
<1>3. locations \in Seq(LocationConfigs)
  BY <1>2, ServerTyped DEF Went
<1>4. loc = LocationOf(locations, rq.path) /\ IsTarget(rq.path)
  BY DEF Went
<1>. HIDE DEF locations
<1>5. loc \in DOMAIN locations /\ IsPrefix(locations[loc].route, rq.path)
  BY <1>1, <1>3, <1>4, LocationFits
<1>6. locations[loc] \in LocationConfigs
  BY <1>3, <1>5
<1>. QED
  BY <1>1, <1>4, <1>5, <1>6 DEF locations

LEMMA RedirectIsTarget ==
    ASSUME TypeOK, Led, stage = "idle", answer.kind = "redirect"
    PROVE  answer.path \in Words /\ IsTarget(answer.path)
<1>1. /\ Went(cluster, listener, rq, dest.server, answer.loc) /\ answer.loc # 0
      /\ Leads(cluster.servers[dest.server].locations[answer.loc], rq.path, answer)
  BY DEF Led
<1>2. rq.path \in Words /\ IsTarget(rq.path) /\ answer.path \in Words
  BY <1>1, WentIs DEF TypeOK
<1>3. answer.path = IF Last(rq.path) = "/" THEN rq.path ELSE rq.path \o <<"/">>
  BY <1>1 DEF Leads
<1>. QED
  BY <1>2, <1>3, TargetSlashed

(* An entry of what is listed, and the link to it.                          *)
LEMMA LinkStands ==
    ASSUME TypeOK, DiskIsPlain, Led, stage = "idle", answer.kind = "list",
           NEW e \in Entries(Bare(Canonical(answer.path)))
    PROVE  \E n, x \in Words :
              /\ Slashless(n) /\ n # <<>> /\ n[1] # "/" /\ x \in {<<>>, <<"/">>}
              /\ e = Bare(Canonical(answer.path)) \o <<"/">> \o n /\ IsPlain(e) /\ e \in Words
              /\ Link(e) = Parent(rq.path) \o (<<"/">> \o n) \o x
<1>1. /\ Went(cluster, listener, rq, dest.server, answer.loc) /\ answer.loc # 0
      /\ Leads(cluster.servers[dest.server].locations[answer.loc], rq.path, answer)
  BY DEF Led
<1>. DEFINE l == cluster.servers[dest.server].locations[answer.loc]
<1>2. l \in LocationConfigs /\ rq.path \in Words
  BY <1>1, WentIs
<1>3. answer.path = UpdatePath(l.alias, l.route, rq.path)
  BY <1>1 DEF Leads
<1>. HIDE DEF l
<1>4. Bare(Canonical(answer.path)) # <<>>
  BY <1>2, <1>3, PlaceIsNamed
<1>5. e \in Words /\ IsPlain(e) /\ Parent(e) = Bare(Canonical(answer.path))
  BY DEF Entries, DiskIsPlain, TypeOK
<1>6. PICK n \in Words : /\ Slashless(n) /\ n # <<>> /\ n[1] # "/"
                         /\ e = Parent(e) \o <<"/">> \o n
                         /\ SubSeq(e, Len(Parent(e)) + 1, Len(e)) = <<"/">> \o n
  BY <1>4, <1>5, EntryStands
<1>. DEFINE x == IF e \in disk.dirs THEN <<"/">> ELSE <<>>
<1>7. x \in Words /\ x \in {<<>>, <<"/">>}
  BY SlashIsWord
<1>8. Link(e) = Parent(rq.path) \o (<<"/">> \o n) \o x
  BY <1>6, Zenon DEF Link
<1>. HIDE DEF x
<1>. QED
  BY <1>5, <1>6, <1>7, <1>8, Zenon

LEMMA LinkIsTarget ==
    ASSUME TypeOK, DiskIsPlain, Led, stage = "idle", answer.kind = "list"
    PROVE  /\ \A e \in Entries(Bare(Canonical(answer.path))) : Link(e) \in Words /\ IsTarget(Link(e))
           /\ LinkUp \in Words /\ IsTarget(LinkUp)
<1>1. Went(cluster, listener, rq, dest.server, answer.loc) /\ answer.loc # 0
  BY DEF Led
<1>2. rq.path \in Words /\ IsTarget(rq.path)
  BY <1>1, WentIs
<1>3. LinkUp \in Words /\ IsTarget(LinkUp)
  BY <1>2, TargetAbove, LinksAreWords DEF LinkUp
<1>4. ASSUME NEW e \in Entries(Bare(Canonical(answer.path)))
      PROVE  Link(e) \in Words /\ IsTarget(Link(e))
  <2>1. PICK n, x \in Words :
           /\ Slashless(n) /\ n # <<>> /\ n[1] # "/" /\ x \in {<<>>, <<"/">>}
           /\ Link(e) = Parent(rq.path) \o (<<"/">> \o n) \o x
    BY LinkStands
  <2>. DEFINE p == Parent(rq.path)
              h == p \o <<"/">>
              u == h \o n
  <2>2. p \in Words /\ IsTarget(h)
    BY <1>2, TargetStands
  <2>3. h \in Words /\ u \in Words /\ <<"/">> \in Words
    BY <2>2, SlashIsWord, JoinedWord
  <2>. HIDE DEF p
  <2>4. u = p \o (<<"/">> \o n)
    BY <2>2, <2>3, Glue, Zenon
  <2>. HIDE DEF h
  <2>5. IsTarget(u) /\ Last(u) # "/"
    <3>1. IsTarget(u)
      BY <2>1, <2>2, <2>3, TargetGrows
    <3>2. Last(u) = Last(n)
      BY <2>1, <2>3, JoinedEnds
    <3>3. Last(n) # "/"
      <4>1. Len(n) \in 1 .. Len(n)
        BY <2>1 DEF Words
      <4>. QED
        BY <2>1, <4>1 DEF Slashless, Last
    <3>. QED
      BY <3>1, <3>2, <3>3
  <2>6. Link(e) = u \o x
    BY <2>1, <2>4 DEF p
  <2>. HIDE DEF u
  <2>7. IsTarget(u \o x)
    <3>1. u \o <<>> = u
      BY <2>3, GlueNothing
    <3>. QED
      BY <2>1, <2>3, <2>5, <3>1, TargetSlashed
  <2>. QED
    BY <2>3, <2>6, <2>7, JoinedWord
<1>. QED
  BY <1>3, <1>4

Leading == DiskIsPlain /\ ReadWent /\ Led

LEMMA LeadingInit ==
    ASSUME Init
    PROVE  Leading
<1>1. DiskIsPlain
  BY PathsAssumption DEF Init, DiskIsPlain, IsPlain
<1>2. ReadWent /\ Led
  BY DEF Init, ReadWent, Led
<1>. QED
  BY <1>1, <1>2 DEF Leading

LEMMA LeadingStep ==
    ASSUME TypeOK, PathIsPlaced, Leading, [Next]_vars
    PROVE  Leading'
<1>. USE DEF Leading
<1>0. rq.host \in Words /\ answer.path \in Words
  BY DEF TypeOK
<1>1. CASE Connect
  <2>1. stage' = "idle" /\ answer' = NoAnswer /\ disk' = disk
    BY <1>1 DEF Connect
  <2>. QED
    BY <2>1, LedIs DEF NoAnswer, DiskIsPlain
<1>2. CASE Request
  <2>1. PICK r \in Asked(cluster) : ReadHead(r[1], r[2], r[3])
    BY <1>2 DEF Request
  <2>2. r[2] \in Words /\ r[3] \in Words /\ IsTarget(r[3])
    BY AskedTyped, PathsAssumption DEF TypeOK, IsTarget
  <2>. QED
    BY <2>1, <2>2, HeadLeads
<1>3. CASE FollowRedirect
  <2>1. answer.kind = "redirect" /\ ReadHead("GET", rq.host, answer.path) /\ stage = "idle"
    BY <1>3 DEF FollowRedirect, ReadHead
  <2>. QED
    BY <1>0, <2>1, RedirectIsTarget, HeadLeads
<1>4. CASE FollowLink
  <2>1. answer.kind = "list" /\ stage = "idle"
    BY <1>4 DEF FollowLink, ReadHead
  <2>2. CASE \E e \in Entries(Bare(Canonical(answer.path))) : ReadHead("GET", rq.host, Link(e))
    BY <1>0, <2>1, <2>2, LinkIsTarget, HeadLeads
  <2>3. CASE ReadHead("GET", rq.host, LinkUp)
    BY <1>0, <2>1, <2>3, LinkIsTarget, HeadLeads
  <2>. QED
    BY <1>4, <2>2, <2>3 DEF FollowLink
<1>5. CASE Refused
  <2>1. /\ stage' = "read" /\ answer' = NoAnswer /\ disk' = disk
        /\ rq' = [NoRequest EXCEPT !.status = 400]
    BY <1>5 DEF Refused
  <2>2. rq'.status = 400
    BY <2>1 DEF NoRequest
  <2>. QED
    BY <2>1, <2>2, LedIs DEF DiskIsPlain
<1>6. CASE Process
  <2>. DEFINE reply == ProcessRequest
              l == cluster.servers[dest.server].locations[dest.loc]
  <2>1. /\ stage = "read" /\ stage' = "answered"
        /\ answer' = [kind |-> reply.kind, code |-> reply.code, path |-> reply.path, loc |-> dest.loc]
        /\ disk' = IF reply.kind = "deleted" THEN Without(reply.path) ELSE disk
        /\ cluster' = cluster /\ listener' = listener /\ dest' = dest /\ rq' = rq
    BY <1>6 DEF Process
  <2>2. DiskIsPlain'
    <3>1. disk'.files \cup disk'.dirs \subseteq disk.files \cup disk.dirs
      BY <2>1 DEF Without
    <3>. QED
      BY <3>1, LedIs DEF DiskIsPlain
  <2>3. ReadWent'
    BY <2>1, LedIs
  <2>4. ASSUME answer'.kind \in {"redirect", "list"}
        PROVE  /\ Went(cluster, listener, rq, dest.server, dest.loc) /\ dest.loc # 0
               /\ Leads(l, rq.path, answer')
    <3>1. rq.status = 200 /\ reply = DirectoryReply(rq.path, dest.path)
      BY <2>1, <2>4, ProcessLeads
    <3>2. Went(cluster, listener, rq, dest.server, dest.loc) /\ dest.loc # 0
      BY <2>1, <3>1 DEF ReadWent, TypeOK
    <3>3. dest.path = UpdatePath(l.alias, l.route, rq.path)
      BY <2>1, <3>1 DEF PathIsPlaced, At, Locations
    <3>. HIDE DEF l
    <3>4. /\ NeedsSlash(dest.path) =>
                /\ answer'.kind = "redirect"
                /\ answer'.path = IF Last(rq.path) = "/" THEN rq.path ELSE rq.path \o <<"/">>
          /\ ~NeedsSlash(dest.path) => answer'.kind = "list" /\ answer'.path = dest.path
      BY <2>1, <3>1 DEF DirectoryReply, Reply
    <3>5. Leads(l, rq.path, answer')
      BY <3>3, <3>4, Zenon DEF Leads
    <3>. QED
      BY <3>2, <3>5
  <2>5. Led'
    <3>1. answer'.loc = dest.loc
      BY <2>1
    <3>. QED
      BY <2>1, <2>4, <3>1, LedIs
  <2>. QED
    BY <2>2, <2>3, <2>5
<1>7. CASE ResponseSent
  <2>1. /\ stage = "answered" /\ stage' \in {"none", "idle"}
        /\ dest' = [dest EXCEPT !.loc = 0, !.path = <<>>]
        /\ \/ rq' = rq /\ answer' = answer
           \/ answer' = NoAnswer
        /\ cluster' = cluster /\ listener' = listener /\ disk' = disk
    BY <1>7 DEF ResponseSent
  <2>2. dest'.server = dest.server
    BY <2>1 DEF TypeOK
  <2>3. CASE answer' = NoAnswer
    BY <2>1, <2>3, LedIs DEF NoAnswer, DiskIsPlain
  <2>4. CASE rq' = rq /\ answer' = answer
    BY <2>1, <2>2, <2>4, LedIs DEF Led, DiskIsPlain
  <2>. QED
    BY <2>1, <2>3, <2>4
<1>8. CASE Leave
  <2>1. stage' = "none" /\ disk' = disk
    BY <1>8 DEF Leave
  <2>. QED
    BY <2>1, LedIs DEF DiskIsPlain
<1>9. CASE UNCHANGED vars
  <2>1. /\ cluster' = cluster /\ listener' = listener /\ stage' = stage /\ dest' = dest
        /\ rq' = rq /\ answer' = answer /\ disk' = disk
    BY <1>9 DEF vars
  <2>. QED
    BY <2>1, LedIs DEF DiskIsPlain, ReadWent, Led
<1>. QED
  BY <1>1, <1>2, <1>3, <1>4, <1>5, <1>6, <1>7, <1>8, <1>9 DEF Next

-----------------------------------------------------------------------------
(* Where a target leads that was asked before, or is next to it.            *)
Asks(l, t) == UpdatePath(l.alias, l.route, t)
GoesTo(w, dir) == Bare(Canonical(w)) = dir
PlainFor(l, t) == Last(l.alias) = "/" /\ (Last(l.route) = "/" \/ t # l.route)

LEMMA LocationParts ==
    ASSUME NEW l \in LocationConfigs, NEW t \in Words
    PROVE  /\ l.alias \in Words /\ l.alias # <<>> /\ l.route \in Words /\ l.route # <<>>
           /\ Last(Tail(l.alias)) = Last(l.alias)
           /\ Asks(l, t) \in Words /\ Asks(l, t) # <<>>
<1>1. l.alias \in Words /\ l.alias # <<>> /\ Len(l.alias) > 1 /\ l.route \in Words /\ l.route # <<>>
  BY LocationTyped
<1>2. Last(Tail(l.alias)) = Last(l.alias)
  <2>. DEFINE w == l.alias
  <2>. HIDE DEF w
  <2>1. w \in Words /\ w # <<>> /\ Len(w) > 1
    BY <1>1 DEF w
  <2>2. w \in Seq(Symbols) /\ Len(w) \in Nat
    BY <2>1, WordLen
  <2>. DEFINE v == Tail(w)
              n == Len(w)
  <2>3. Len(v) = n - 1 /\ \A i \in 1 .. Len(v) : v[i] = w[i + 1]
    BY <2>1, <2>2, HeadTailProperties
  <2>4. n \in Nat /\ n > 1
    BY <2>1, <2>2
  <2>. HIDE DEF v, n
  <2>5. Len(v) \in 1 .. Len(v) /\ Len(v) + 1 = n
    BY <2>3, <2>4
  <2>6. v[Len(v)] = w[n]
    BY <2>3, <2>5
  <2>. QED
    BY <2>6 DEF Last, n, v, w
<1>3. Asks(l, t) \in Words /\ Asks(l, t) # <<>>
  BY PlaceIsNamed DEF Asks
<1>. QED
  BY <1>1, <1>2, <1>3

LEMMA RedirectLeads ==
    ASSUME NEW l \in LocationConfigs, NEW t \in Words, IsPrefix(l.route, t), PlainFor(l, t),
           NeedsSlash(Asks(l, t)),
           NEW u, u = IF Last(t) = "/" THEN t ELSE t \o <<"/">>
    PROVE  GoesTo(Asks(l, u), Canonical(Asks(l, t))) /\ GetReply(l, u, Asks(l, u)).kind # "redirect"
<1>. DEFINE a == Asks(l, t)
<1>1. /\ l.alias \in Words /\ l.alias # <<>> /\ l.route \in Words /\ l.route # <<>>
      /\ Last(Tail(l.alias)) = "/" /\ a \in Words /\ a # <<>> /\ Last(a) # "/"
  BY LocationParts DEF NeedsSlash, PlainFor
<1>2. Rest(l.route, t) \notin {<<>>, <<"/">>}
  <2>. SUFFICES ASSUME Rest(l.route, t) \in {<<>>, <<"/">>} PROVE FALSE
    OBVIOUS
  <2>1. a = Tail(l.alias)
    BY PlaceIs DEF Asks
  <2>. QED
    BY <1>1, <2>1
<1>3. Last(t) = Last(a) /\ Asks(l, t \o <<"/">>) = a \o <<"/">>
  <2>1. /\ Last(UpdatePath(l.alias, l.route, t)) = Last(t)
        /\ \A y \in Words : UpdatePath(l.alias, l.route, t \o y) = UpdatePath(l.alias, l.route, t) \o y
    <3>. DEFINE alias == l.alias
                route == l.route
    <3>1. alias \in Words /\ alias # <<>> /\ route \in Words /\ route # <<>> /\ IsPrefix(route, t)
      BY <1>1
    <3>2. Rest(route, t) \notin {<<>>, <<"/">>}
      BY <1>2
    <3>. HIDE DEF alias, route
    <3>3. /\ Last(UpdatePath(alias, route, t)) = Last(t)
          /\ \A y \in Words : UpdatePath(alias, route, t \o y) = UpdatePath(alias, route, t) \o y
      BY <3>1, <3>2, PlaceExtends
    <3>. QED
      BY <3>3 DEF alias, route
  <2>. QED
    BY <2>1, SlashIsWord, Zenon DEF Asks
<1>. HIDE DEF a
<1>4. Asks(l, u) = a \o <<"/">>
  BY <1>1, <1>3
<1>5. GoesTo(a \o <<"/">>, Canonical(a))
  <2>. DEFINE c == Canonical(a)
  <2>1. c \in Words /\ c # <<>> /\ Last(c) = Last(a)
    BY <1>1, CanonicalIsWord, CanonicalEnds
  <2>2. Canonical(a \o <<"/">>) = Bare(c) \o <<"/">>
    BY <1>1, CanonicalSlash
  <2>. HIDE DEF c
  <2>3. Bare(c) = c /\ Bare(c \o <<"/">>) = c
    BY <1>1, <2>1, BareOf, BareOfSlash
  <2>. QED
    BY <2>2, <2>3 DEF GoesTo, c
<1>6. GetReply(l, u, a \o <<"/">>).kind # "redirect"
  <2>. SUFFICES ASSUME GetReply(l, u, a \o <<"/">>).kind = "redirect" PROVE FALSE
    OBVIOUS
  <2>1. GetReply(l, u, a \o <<"/">>) = DirectoryReply(u, a \o <<"/">>)
    BY GetFollows DEF Follows
  <2>2. ~NeedsSlash(a \o <<"/">>)
    BY <1>1, BareOfSlash DEF NeedsSlash
  <2>3. DirectoryReply(u, a \o <<"/">>) = Reply("list", 200, a \o <<"/">>)
    BY <2>2, Zenon DEF DirectoryReply
  <2>4. Reply("list", 200, a \o <<"/">>).kind = "list"
    BY DEF Reply
  <2>. QED
    BY <2>1, <2>3, <2>4
<1>. QED
  BY <1>4, <1>5, <1>6 DEF a

(* What is listed was asked by a name with a slash at its end.              *)
LEMMA ListedEnds ==
    ASSUME NEW l \in LocationConfigs, NEW t \in Words, IsTarget(t), IsPrefix(l.route, t), PlainFor(l, t),
           ~NeedsSlash(Asks(l, t))
    PROVE  t = Bare(t) \o <<"/">> /\ Bare(t) \in Words /\ Parent(t) = Bare(t) /\ Last(t) = "/"
<1>1. /\ l.alias \in Words /\ l.alias # <<>> /\ l.route \in Words /\ l.route # <<>>
      /\ Last(Asks(l, t)) = "/" /\ t # <<>>
  BY LocationParts DEF NeedsSlash, IsTarget
<1>2. Last(t) = "/"
  <2>. DEFINE r == Rest(l.route, t)
  <2>1. CASE r = <<>>
    <3>1. t = l.route
      <4>. DEFINE k == Len(l.route)
                  n == Len(t)
      <4>1. k \in Nat /\ n \in Nat /\ Len(r) = n - k /\ SubSeq(t, 1, k) = l.route
        BY <1>1, RestIs
      <4>2. Len(r) = 0
        BY <2>1
      <4>. HIDE DEF k, n, r
      <4>3. n = k
        BY <4>1, <4>2
      <4>4. SubSeq(t, 1, n) = t
        <5>1. t \in Seq(Symbols)
          BY WordLen
        <5>. QED
          BY <5>1 DEF n
      <4>. QED
        BY <4>1, <4>3, <4>4
    <3>. QED
      BY <3>1 DEF PlainFor
  <2>2. CASE r = <<"/">>
    <3>. DEFINE k == Len(l.route)
                n == Len(t)
    <3>1. /\ k \in Nat /\ n \in Nat /\ Len(r) = n - k
          /\ \A i \in 1 .. n - k : r[i] = t[k + i]
      BY <1>1, RestIs
    <3>2. Len(r) = 1 /\ r[1] = "/"
      BY <2>2
    <3>. HIDE DEF k, n, r
    <3>3. 1 \in 1 .. n - k /\ k + 1 = n
      <4>1. n - k = 1
        BY <3>1, <3>2, Zenon
      <4>. QED
        BY <3>1, <4>1
    <3>4. t[n] = "/"
      BY <3>1, <3>2, <3>3
    <3>. QED
      BY <3>4 DEF Last, n
  <2>3. CASE r \notin {<<>>, <<"/">>}
    BY <1>1, <2>3, PlaceExtends DEF Asks
  <2>. QED
    BY <2>1, <2>2, <2>3
<1>3. t = Bare(t) \o <<"/">> /\ Bare(t) \in Words
  BY <1>1, <1>2, BareOf, BareIsWord
<1>4. Parent(t) = Bare(t)
  <2>. DEFINE b == Bare(t)
              h == b \o <<"/">>
  <2>1. b \in Words /\ h \in Words /\ t = h
    BY <1>3, SlashIsWord, JoinedWord
  <2>2. <<>> \in Words /\ Slashless(<<>>)
    BY SlashIsWord DEF Slashless
  <2>. HIDE DEF b
  <2>3. Parent(b \o <<"/">> \o <<>>) = b
    BY <2>1, <2>2, ParentJoined
  <2>4. b \o <<"/">> \o <<>> = h
    BY <2>1, GlueNothing
  <2>. QED
    BY <2>1, <2>3, <2>4 DEF b
<1>. QED
  BY <1>2, <1>3, <1>4

LEMMA AsksFurther ==
    ASSUME NEW l \in LocationConfigs, NEW v \in Words, v # <<>>, Last(v) = "/", IsPrefix(l.route, v),
           NEW y \in Words, y # <<>>, y[1] # "/"
    PROVE  Asks(l, v \o y) = Bare(Asks(l, v)) \o <<"/">> \o y
<1>. DEFINE alias == l.alias
            route == l.route
<1>1. alias \in Words /\ alias # <<>> /\ route \in Words /\ route # <<>> /\ IsPrefix(route, v)
  BY LocationParts
<1>. HIDE DEF alias, route
<1>2. UpdatePath(alias, route, v \o y) = Bare(UpdatePath(alias, route, v)) \o <<"/">> \o y
  BY <1>1, PlaceGrows
<1>. QED
  BY <1>2 DEF Asks, alias, route

(* A name with or without a slash behind it.                                *)
LEMMA NameEnds ==
    ASSUME NEW n \in Words, Slashless(n), n # <<>>, NEW x \in {<<>>, <<"/">>}
    PROVE  n \o x \in Words /\ n \o x # <<>> /\ (n \o x)[1] # "/" /\ Last(n) # "/"
<1>1. x \in Words
  BY SlashIsWord
<1>2. 1 \in 1 .. Len(n) /\ Len(n) \in 1 .. Len(n)
  BY DEF Words
<1>3. n[1] # "/" /\ Last(n) # "/"
  BY <1>2 DEF Slashless, Last
<1>. QED
  BY <1>1, <1>3, JoinedWord, JoinedEnds

LEMMA NameLeads ==
    ASSUME NEW u \in Words, NEW n \in Words, Slashless(n), n # <<>>, NEW x \in {<<>>, <<"/">>}
    PROVE  GoesTo(Bare(u) \o <<"/">> \o (n \o x), Bare(Canonical(u)) \o <<"/">> \o n)
<1>. DEFINE h == Bare(u) \o <<"/">>
            w == h \o n
            d == Bare(Canonical(u)) \o <<"/">>
            e == d \o n
<1>1. x \in Words /\ h \in Words /\ d \in Words
  BY SlashIsWord, BareIsWord, CanonicalIsWord, JoinedWord
<1>2. Canonical(w) = e
  BY CanonicalJoined
<1>. HIDE DEF h, d
<1>3. w \in Words /\ e \in Words /\ Last(e) = Last(n) /\ e # <<>> /\ w \o x = h \o (n \o x)
  <2>1. w \in Words /\ e \in Words
    BY <1>1, JoinedWord
  <2>2. Last(e) = Last(n) /\ e # <<>>
    BY <1>1, JoinedEnds
  <2>3. w \o x = h \o (n \o x)
    <3>1. h \in Words /\ x \in Words /\ w = h \o n
      BY <1>1
    <3>. HIDE DEF w
    <3>2. (h \o n) \o x = h \o (n \o x)
      BY <3>1, Glue
    <3>. QED
      BY <3>1, <3>2
  <2>. QED
    BY <2>1, <2>2, <2>3
<1>. HIDE DEF w, e
<1>4. Bare(e) = e
  BY <1>3, NameEnds, BareOf
<1>5. Bare(Canonical(w \o x)) = e
  <2>1. CASE x = <<>>
    BY <1>2, <1>3, <1>4, <2>1, GlueNothing
  <2>2. CASE x = <<"/">>
    <3>1. Canonical(w \o <<"/">>) = e \o <<"/">>
      BY <1>2, <1>3, <1>4, CanonicalSlash
    <3>. QED
      BY <1>3, <2>2, <3>1, BareOfSlash
  <2>. QED
    BY <2>1, <2>2
<1>. QED
  BY <1>3, <1>5 DEF GoesTo, h, e, d

LEMMA LinkLeads ==
    ASSUME NEW l \in LocationConfigs, NEW t \in Words, IsTarget(t), IsPrefix(l.route, t), PlainFor(l, t),
           ~NeedsSlash(Asks(l, t)),
           NEW n \in Words, Slashless(n), n # <<>>, NEW x \in {<<>>, <<"/">>},
           NEW u, u = Parent(t) \o (<<"/">> \o n) \o x
    PROVE  GoesTo(Asks(l, u), Bare(Canonical(Asks(l, t))) \o <<"/">> \o n)
<1>. DEFINE b == Bare(t)
            y == n \o x
<1>1. b \in Words /\ t = b \o <<"/">> /\ Parent(t) = b /\ Last(t) = "/" /\ t # <<>>
  BY ListedEnds DEF IsTarget
<1>2. y \in Words /\ y # <<>> /\ y[1] # "/" /\ x \in Words /\ <<"/">> \in Words
  BY NameEnds, SlashIsWord
<1>3. u = t \o y
  <2>. DEFINE s == <<"/">>
  <2>. HIDE DEF b, s
  <2>1. s \in Words /\ t = b \o s /\ u = b \o (s \o n) \o x
    BY <1>1, <1>2 DEF s
  <2>2. b \in Words /\ s \in Words /\ x \in Words
    BY <1>1, <1>2, <2>1
  <2>3. (b \o s) \o n = b \o (s \o n)
    BY <2>2, Glue
  <2>4. (t \o n) \o x = t \o (n \o x)
    BY <2>2, Glue
  <2>. QED
    BY <2>1, <2>3, <2>4
<1>. HIDE DEF y
<1>4. Asks(l, u) = Bare(Asks(l, t)) \o <<"/">> \o y
  <2>1. t # <<>> /\ Last(t) = "/"
    BY <1>1
  <2>2. y \in Words /\ y # <<>> /\ y[1] # "/"
    BY <1>2
  <2>3. Asks(l, t \o y) = Bare(Asks(l, t)) \o <<"/">> \o y
    BY <2>1, <2>2, AsksFurther
  <2>. QED
    BY <1>3, <2>3
<1>5. Asks(l, t) \in Words
  BY LocationParts
<1>. QED
  BY <1>4, <1>5, NameLeads DEF y

LEMMA LinkUpLeads ==
    ASSUME NEW l \in LocationConfigs, NEW t \in Words, IsTarget(t), IsPrefix(l.route, t), PlainFor(l, t),
           ~NeedsSlash(Asks(l, t)), t # <<"/">>,
           NEW v, v = Parent(Parent(t)) \o <<"/">>, IsPrefix(l.route, v)
    PROVE  GoesTo(Asks(l, v), Parent(Bare(Canonical(Asks(l, t)))))
<1>. DEFINE p == Parent(t)
<1>1. p \in Words /\ t = p \o <<"/">> /\ p = Bare(t)
  BY ListedEnds
<1>2. p # <<>>
  <2>. SUFFICES ASSUME p = <<>> PROVE FALSE
    OBVIOUS
  <2>1. <<>> \o <<"/">> = <<"/">>
    BY SlashIsWord, GlueNothing
  <2>. QED
    BY <1>1, <2>1
<1>3. IsTarget(p)
  BY <1>2, TargetStands
<1>. HIDE DEF p
<1>4. PICK m \in Words : /\ Slashless(m) /\ Parent(p) \in Words
                         /\ p = Parent(p) \o <<"/">> \o m
  BY <1>1, <1>3, TargetStands
<1>5. v \in Words /\ v # <<>> /\ Last(v) = "/" /\ p = v \o m
  <2>1. v = Parent(p) \o <<"/">>
    BY DEF p
  <2>. QED
    BY <1>4, <2>1, SlashIsWord, JoinedWord, BareOfSlash
<1>6. m # <<>>
  <2>. SUFFICES ASSUME m = <<>> PROVE FALSE
    OBVIOUS
  <2>1. p = v
    BY <1>5, GlueNothing
  <2>2. Canonical(t) = Bare(p) \o <<"/">>
    BY <1>1, <1>3, CanonicalSlash DEF IsTarget
  <2>3. t = Bare(p) \o <<"/">> /\ Bare(p) \in Words
    BY <1>1, <2>2, BareIsWord DEF IsTarget
  <2>4. Bare(p) = p
    BY <1>1, <2>3, BareOfSlash
  <2>5. p = Bare(p) \o <<"/">>
    BY <1>1, <1>5, <2>1, BareOf
  <2>6. Len(p \o <<"/">>) = Len(p) + 1 /\ Len(p) \in Nat
    BY <1>1, SlashIsWord DEF Words
  <2>. DEFINE k == Len(p)
  <2>7. k = k + 1 /\ k \in Nat
    BY <2>4, <2>5, <2>6, Zenon
  <2>. HIDE DEF k
  <2>. QED
    BY <2>7
<1>. DEFINE y == m \o <<"/">>
            a == Asks(l, v)
            q == Bare(Canonical(a))
<1>7. y \in Words /\ y # <<>> /\ y[1] # "/"
  BY <1>4, <1>6, NameEnds
<1>8. t = v \o y
  <2>. DEFINE s == <<"/">>
  <2>1. s \in Words /\ t = p \o s
    BY <1>1, SlashIsWord
  <2>. HIDE DEF s
  <2>2. (v \o m) \o s = v \o (m \o s)
    <3>1. v \in Words /\ m \in Words /\ s \in Words
      BY <1>4, <1>5, <2>1
    <3>. QED
      BY <3>1, Glue
  <2>. QED
    BY <1>5, <2>1, <2>2 DEF s
<1>. HIDE DEF y
<1>9. Asks(l, t) = Bare(a) \o <<"/">> \o y
  <2>1. v \in Words /\ v # <<>> /\ Last(v) = "/"
    BY <1>5
  <2>2. Asks(l, v \o y) = Bare(a) \o <<"/">> \o y
    BY <1>7, <2>1, AsksFurther
  <2>. QED
    BY <1>8, <2>2
<1>10. a \in Words /\ q \in Words
  BY <1>5, LocationParts, CanonicalIsWord, BareIsWord
<1>. HIDE DEF a
<1>11. GoesTo(Asks(l, t), q \o <<"/">> \o m)
  BY <1>4, <1>6, <1>9, <1>10, NameLeads DEF y
<1>12. Parent(q \o <<"/">> \o m) = q
  BY <1>4, <1>10, ParentJoined
<1>. QED
  BY <1>11, <1>12 DEF GoesTo, a

(* What a step that follows an answer is, and what LinksLeadOn says of it.  *)
Following ==
    /\ stage = "idle" /\ stage' = "read" /\ dest'.loc = answer.loc /\ rq'.host = rq.host
    /\ rq'.method = "GET" /\ rq'.status = 200

LedBy(l) ==
    PlainFor(l, rq.path) =>
        /\ answer.kind = "redirect" /\ rq'.path = answer.path =>
              /\ GoesTo(dest'.path, Canonical(Asks(l, rq.path)))
              /\ GetReply(l, rq'.path, dest'.path).kind # "redirect"
        /\ answer.kind = "list" =>
              /\ \A e \in Entries(Bare(Canonical(Asks(l, rq.path)))) : rq'.path = Link(e) => GoesTo(dest'.path, e)
              /\ rq'.path = LinkUp /\ rq.path # <<"/">> =>
                    GoesTo(dest'.path, Parent(Bare(Canonical(Asks(l, rq.path)))))

LEMMA StepLeads ==
    ASSUME TypeOK, PathIsPlaced, Leading, [Next]_vars, TypeOK', PathIsPlaced', Leading', Following
    PROVE  LedBy(Locations(dest'.server)[dest'.loc])
<1>. SUFFICES ASSUME answer.kind \in {"redirect", "list"}
              PROVE  LedBy(Locations(dest'.server)[dest'.loc])
  BY Zenon DEF LedBy
<1>. DEFINE l == cluster.servers[dest.server].locations[answer.loc]
            t == rq.path
            u == rq'.path
<1>1. /\ Went(cluster, listener, rq, dest.server, answer.loc) /\ answer.loc # 0
      /\ Leads(l, t, answer)
  BY DEF Leading, Led, Following
<1>2. l \in LocationConfigs /\ IsPrefix(l.route, t) /\ t \in Words /\ IsTarget(t)
  BY <1>1, WentIs
<1>3. cluster' = cluster /\ listener' = listener
  <2>1. Request \/ FollowRedirect \/ FollowLink \/ Refused
    BY DEF Following, Next, vars, Connect, Process, ResponseSent, Leave
  <2>. QED
    BY <2>1 DEF Request, FollowRedirect, FollowLink, Refused, ReadHead
<1>4. Went(cluster', listener', rq', dest'.server, dest'.loc)
  BY LedIs DEF Leading, Following
<1>5. dest'.server = dest.server /\ dest'.loc = answer.loc
  BY <1>1, <1>3, <1>4 DEF Went, Following
<1>6. Locations(dest'.server)[dest'.loc] = l /\ At' = l
  BY <1>3, <1>5, InsideIs DEF Locations
<1>7. dest'.path = Asks(l, u)
  BY <1>6, InsideIs DEF Following, Asks
<1>8. u \in Words /\ IsPrefix(l.route, u)
  <2>1. u \in Words
    BY DEF TypeOK
  <2>2. cluster.servers \in Seq(ServerConfigs) /\ dest.server \in DOMAIN cluster.servers
    BY <1>1, SitesAssumption DEF TypeOK, Went
  <2>. DEFINE locations == cluster.servers[dest.server].locations
  <2>3. locations \in Seq(LocationConfigs)
    BY <2>2, ServerTyped
  <2>4. answer.loc = LocationOf(locations, u)
    BY <1>3, <1>4, <1>5 DEF Went
  <2>. HIDE DEF locations
  <2>5. IsPrefix(locations[answer.loc].route, u)
    BY <1>1, <2>1, <2>3, <2>4, LocationFits
  <2>. QED
    BY <2>1, <2>5 DEF locations
<1>9. Asks(l, t) = UpdatePath(l.alias, l.route, t)
  BY DEF Asks
<1>. HIDE DEF l, t
<1>10. SUFFICES ASSUME PlainFor(l, t)
                PROVE  /\ answer.kind = "redirect" /\ u = answer.path =>
                             /\ GoesTo(dest'.path, Canonical(Asks(l, t)))
                             /\ GetReply(l, u, dest'.path).kind # "redirect"
                       /\ answer.kind = "list" =>
                             /\ \A e \in Entries(Bare(Canonical(Asks(l, t)))) : u = Link(e) => GoesTo(dest'.path, e)
                             /\ u = LinkUp /\ t # <<"/">> =>
                                   GoesTo(dest'.path, Parent(Bare(Canonical(Asks(l, t)))))
  BY <1>6, Zenon DEF LedBy, t
<1>11. ASSUME answer.kind = "redirect", u = answer.path
       PROVE  /\ GoesTo(dest'.path, Canonical(Asks(l, t)))
              /\ GetReply(l, u, dest'.path).kind # "redirect"
  <2>1. NeedsSlash(Asks(l, t)) /\ u = IF Last(t) = "/" THEN t ELSE t \o <<"/">>
    BY <1>1, <1>9, <1>11 DEF Leads
  <2>. HIDE DEF u
  <2>. QED
    BY <1>2, <1>7, <1>10, <2>1, RedirectLeads
<1>12. ASSUME answer.kind = "list"
       PROVE  ~NeedsSlash(Asks(l, t)) /\ answer.path = Asks(l, t)
  BY <1>1, <1>9, <1>12 DEF Leads
<1>13. ASSUME answer.kind = "list", NEW e \in Entries(Bare(Canonical(Asks(l, t)))), u = Link(e)
       PROVE  GoesTo(dest'.path, e)
  <2>1. PICK n, x \in Words :
           /\ Slashless(n) /\ n # <<>> /\ n[1] # "/" /\ x \in {<<>>, <<"/">>}
           /\ e = Bare(Canonical(Asks(l, t))) \o <<"/">> \o n
           /\ Link(e) = Parent(t) \o (<<"/">> \o n) \o x
    <3>1. stage = "idle"
      BY DEF Following
    <3>2. e \in Entries(Bare(Canonical(answer.path)))
      BY <1>12, <1>13
    <3>3. TypeOK /\ DiskIsPlain /\ Led
      BY DEF Leading
    <3>4. \E n, x \in Words :
             /\ Slashless(n) /\ n # <<>> /\ n[1] # "/" /\ x \in {<<>>, <<"/">>}
             /\ e = Bare(Canonical(answer.path)) \o <<"/">> \o n /\ IsPlain(e) /\ e \in Words
             /\ Link(e) = Parent(rq.path) \o (<<"/">> \o n) \o x
      BY <1>13, <3>1, <3>2, <3>3, LinkStands
    <3>5. answer.path = Asks(l, t) /\ rq.path = t
      BY <1>12, <1>13 DEF t
    <3>. QED
      BY <3>4, <3>5, Zenon
  <2>. HIDE DEF u
  <2>2. GoesTo(Asks(l, u), Bare(Canonical(Asks(l, t))) \o <<"/">> \o n)
    BY <1>2, <1>10, <1>12, <1>13, <2>1, LinkLeads
  <2>. QED
    BY <1>7, <2>1, <2>2
<1>14. ASSUME answer.kind = "list", u = LinkUp, t # <<"/">>
       PROVE  GoesTo(dest'.path, Parent(Bare(Canonical(Asks(l, t)))))
  <2>1. u = Parent(Parent(t)) \o <<"/">>
    BY <1>14 DEF LinkUp, t
  <2>. HIDE DEF u
  <2>. QED
    BY <1>2, <1>7, <1>8, <1>10, <1>12, <1>14, <2>1, LinkUpLeads
<1>. QED
  BY <1>11, <1>13, <1>14

(* Whatever the routes, aliases, index names and files are, a client that   *)
(* follows a redirect or a link of a listing gets to the directory or entry *)
(* it was shown.                                                            *)
(* Whatever the routes, aliases, index names and files are, a client that   *)
(* follows a redirect or a link of a listing gets to the directory or the   *)
(* entry it was shown, and is not redirected again.                         *)
THEOREM LinksLeadOnHolds == Spec => LinksLeadOn
<1>1. Init => PathIsPlaced /\ Leading
  BY LeadingInit DEF Init, PathIsPlaced
<1>2. TypeOK /\ ServedIsInside /\ PathIsPlaced /\ Leading /\ [Next]_vars => PathIsPlaced' /\ Leading'
  BY InsideStep, LeadingStep
<1>3. (Following => LedBy(Locations(dest'.server)[dest'.loc])) => FollowedLeadsOn
  BY Zenon DEF FollowedLeadsOn, Following, LedBy, PlainFor, GoesTo, Asks
<1>4. /\ TypeOK /\ PathIsPlaced /\ Leading /\ [Next]_vars
      /\ TypeOK' /\ PathIsPlaced' /\ Leading'
      => [FollowedLeadsOn]_vars
  BY <1>3, StepLeads
<1>. QED
  BY <1>1, <1>2, <1>4, TypeCorrect, NothingOutsideIsServed, PTL DEF Spec, LinksLeadOn

=============================================================================
