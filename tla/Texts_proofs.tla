------------------------------ MODULE Texts_proofs ------------------------------
(***************************************************************************)
(* Proofs about texts: about RqTarget, for targets of any length over any  *)
(* pieces, and about Configuration, for files of any lines.  A path is     *)
(* shown to be served as what its segments name by laying out the path, the *)
(* decoded one, the rewritten one and the collapsed one on one another, and *)
(* by following the loop of RemoveDotSegments_ through the last of them.  A *)
(* file is shown to be read in order by keeping, beside the blocks that are *)
(* open, the list of the locations in each block ever made.                *)
(***************************************************************************)
EXTENDS RqTarget, Configuration, Lists_proofs, FiniteSetTheorems

-----------------------------------------------------------------------------
(* Searching a word.                                                        *)

(* A word from one place on, and what is found in it.                       *)
From(w, i) == SubSeq(w, i, Len(w))

LEMMA FindIs ==
    ASSUME NEW S, NEW w \in Seq(S), NEW i \in Nat \ {0}, NEW C
    PROVE  /\ FindFirstOf(w, i, C) \in 1 .. Len(w) + 1
           /\ i <= Len(w) + 1 => i <= FindFirstOf(w, i, C)
           /\ FindFirstOf(w, i, C) <= Len(w) => w[FindFirstOf(w, i, C)] \in C
           /\ \A j \in i .. FindFirstOf(w, i, C) - 1 : j \in 1 .. Len(w) => w[j] \notin C
<1>. DEFINE M == {j \in i .. Len(w) : w[j] \in C} \cup {Len(w) + 1}
            m == Min(M)
<1>0. Len(w) \in Nat
  OBVIOUS
<1>1. M \in SUBSET Nat /\ M # {}
  BY <1>0
<1>2. m \in M /\ \A j \in M : m <= j
  BY <1>1, MinOfNats, Zenon
<1>3. FindFirstOf(w, i, C) = m
  BY Zenon DEF FindFirstOf
<1>4. m \in 1 .. Len(w) + 1 /\ (i <= Len(w) + 1 => i <= m) /\ (m <= Len(w) => w[m] \in C)
  BY <1>0, <1>2
<1>5. \A j \in i .. m - 1 : j \in 1 .. Len(w) => w[j] \notin C
  <2>. SUFFICES ASSUME NEW j \in i .. m - 1, j \in 1 .. Len(w), w[j] \in C PROVE FALSE
    OBVIOUS
  <2>1. j \in M
    BY <1>0
  <2>2. m <= j
    BY <1>2, <2>1
  <2>. QED
    BY <1>4, <2>2
<1>. QED
  BY <1>3, <1>4, <1>5

(* The place is told by what it is.                                         *)
LEMMA FoundAt ==
    ASSUME NEW S, NEW w \in Seq(S), NEW i \in Nat \ {0}, NEW C,
           NEW f \in Nat, i <= f, f <= Len(w) + 1, f <= Len(w) => w[f] \in C,
           \A j \in i .. f - 1 : w[j] \notin C
    PROVE  FindFirstOf(w, i, C) = f
<1>. DEFINE g == FindFirstOf(w, i, C)
<1>0. Len(w) \in Nat
  OBVIOUS
<1>1. /\ g \in 1 .. Len(w) + 1 /\ i <= g /\ (g <= Len(w) => w[g] \in C)
      /\ \A j \in i .. g - 1 : j \in 1 .. Len(w) => w[j] \notin C
  BY FindIs, <1>0
<1>. HIDE DEF g
<1>2. ~(g < f)
  BY <1>0, <1>1
<1>3. ~(f < g)
  BY <1>0, <1>1
<1>4. g = f
  BY <1>0, <1>1, <1>2, <1>3
<1>. QED
  BY <1>4 DEF g

LEMMA FromIs ==
    ASSUME NEW S, NEW w \in Seq(S), NEW i \in 1 .. Len(w) + 1
    PROVE  /\ From(w, i) \in Seq(S) /\ Len(From(w, i)) = Len(w) - i + 1
           /\ \A j \in 1 .. Len(w) - i + 1 : From(w, i)[j] = w[i + j - 1]
BY DEF From

LEMMA FromFrom ==
    ASSUME NEW S, NEW w \in Seq(S), NEW i \in 1 .. Len(w) + 1, NEW j \in 1 .. Len(w) - i + 2
    PROVE  From(From(w, i), j) = From(w, i + j - 1)
<1>. DEFINE u == From(From(w, i), j)
            v == From(w, i + j - 1)
<1>0. Len(w) \in Nat
  OBVIOUS
<1>1. /\ From(w, i) \in Seq(S) /\ Len(From(w, i)) = Len(w) - i + 1
      /\ \A k \in 1 .. Len(w) - i + 1 : From(w, i)[k] = w[i + k - 1]
  BY FromIs
<1>2. /\ u \in Seq(S) /\ Len(u) = Len(w) - i + 1 - j + 1
      /\ \A k \in 1 .. Len(w) - i + 1 - j + 1 : u[k] = From(w, i)[j + k - 1]
  <2>1. j \in 1 .. Len(From(w, i)) + 1
    BY <1>0, <1>1
  <2>. QED
    BY <1>1, <2>1, FromIs
<1>3. /\ v \in Seq(S) /\ Len(v) = Len(w) - (i + j - 1) + 1
      /\ \A k \in 1 .. Len(w) - (i + j - 1) + 1 : v[k] = w[i + j - 1 + k - 1]
  <2>1. i + j - 1 \in 1 .. Len(w) + 1
    BY <1>0
  <2>. QED
    BY <2>1, FromIs
<1>. HIDE DEF u, v
<1>4. Len(u) = Len(v) /\ Len(u) \in Nat
  BY <1>0, <1>2, <1>3
<1>5. \A k \in 1 .. Len(u) : u[k] = v[k]
  <2>. SUFFICES ASSUME NEW k \in 1 .. Len(u) PROVE u[k] = v[k]
    OBVIOUS
  <2>1. j + k - 1 \in 1 .. Len(w) - i + 1 /\ k \in 1 .. Len(w) - i + 1 - j + 1
    BY <1>0, <1>2
  <2>2. u[k] = w[i + (j + k - 1) - 1]
    BY <1>1, <1>2, <2>1
  <2>3. v[k] = w[i + j - 1 + k - 1]
    BY <1>0, <1>3, <2>1
  <2>4. i + (j + k - 1) - 1 = i + j - 1 + k - 1
    BY <1>0, <2>1
  <2>. QED
    BY <2>2, <2>3, <2>4
<1>6. u = v
  BY <1>2, <1>3, <1>4, <1>5, SeqEqual
<1>. QED
  BY <1>6 DEF u, v

-----------------------------------------------------------------------------
(* The parts of a target.                                                   *)

(* What parts of targets are made of, over an alphabet.                     *)
PartNames == {"scheme", "user", "host", "port", "path", "query", "fragment"}
Targets(S) ==
    [left : Seq(S), scheme : SUBSET Seq(S), user : SUBSET Seq(S), host : SUBSET Seq(S),
     port : SUBSET Seq(S), path : SUBSET Seq(S), query : SUBSET Seq(S), fragment : SUBSET Seq(S)]
Lowers(S) == S \cup {Lower(c) : c \in S}
Whole(w) == [left |-> w, scheme |-> {}, user |-> {}, host |-> {}, port |-> {},
             path |-> {}, query |-> {}, fragment |-> {}]

LEMMA LowIs ==
    ASSUME NEW S, NEW T, NEW w \in Seq(S), S \subseteq T, \A c \in S : Lower(c) \in T
    PROVE  Low(w) \in Seq(T) /\ Len(Low(w)) = Len(w) /\ \A i \in 1 .. Len(w) : Low(w)[i] = Lower(w[i])
<1>. DEFINE n == Len(w)
<1>1. n \in Nat /\ DOMAIN w = 1 .. n /\ \A i \in 1 .. n : w[i] \in S
  OBVIOUS
<1>2. Low(w) = [i \in 1 .. n |-> Lower(w[i])]
  BY <1>1, Zenon DEF Low
<1>3. Low(w) \in [1 .. n -> T]
  BY <1>1, <1>2
<1>. HIDE DEF n
<1>4. Low(w) \in Seq(T) /\ Len(Low(w)) = n
  BY <1>1, <1>3, FunctionIsSeq
<1>. QED
  BY <1>2, <1>4 DEF n

LEMMA CutIs ==
    ASSUME NEW S, NEW t \in Targets(S), NEW part \in PartNames,
           NEW from \in Nat \ {0}, NEW to \in Nat, to <= Len(t.left),
           NEW next \in 1 .. Len(t.left) + 1
    PROVE  /\ Cut(t, part, from, to, next) \in Targets(S)
           /\ Cut(t, part, from, to, next).left = From(t.left, next)
           /\ Cut(t, part, from, to, next)[part] = {SubSeq(t.left, from, to)}
           /\ \A p \in PartNames : p # part => Cut(t, part, from, to, next)[p] = t[p]
<1>. DEFINE x == SubSeq(t.left, from, to)
            l == SubSeq(t.left, next, Len(t.left))
<1>1. t.left \in Seq(S)
  BY DEF Targets
<1>2. x \in Seq(S)
  BY <1>1
<1>3. l \in Seq(S) /\ l = From(t.left, next)
  BY <1>1 DEF From
<1>4. Cut(t, part, from, to, next) = [[t EXCEPT ![part] = {x}] EXCEPT !.left = l]
  BY DEF Cut, PartNames, Targets
<1>. HIDE DEF x, l
<1>. DEFINE u == [t EXCEPT ![part] = {x}]
            f == Cut(t, part, from, to, next)
<1>5. /\ DOMAIN t = {"left"} \cup PartNames /\ t \in [{"left"} \cup PartNames -> (SUBSET Seq(S)) \cup Seq(S)]
      /\ \A p \in PartNames : t[p] \in SUBSET Seq(S)
  BY DEF Targets, PartNames
<1>6. part # "left" /\ part \in PartNames /\ "left" \notin PartNames
  BY DEF PartNames
<1>7. /\ DOMAIN u = {"left"} \cup PartNames /\ u[part] = {x}
      /\ \A p \in PartNames : p # part => u[p] = t[p]
  BY <1>5, <1>6
<1>8. /\ DOMAIN f = {"left"} \cup PartNames /\ f.left = l
      /\ \A p \in PartNames : f[p] = u[p]
      /\ f = [p \in {"left"} \cup PartNames |-> IF p = "left" THEN l ELSE u[p]]
  BY <1>4, <1>6, <1>7
<1>. HIDE DEF u, f
<1>9. \A p \in PartNames : f[p] \in SUBSET Seq(S)
  BY <1>2, <1>5, <1>7, <1>8
<1>10. f \in Targets(S)
  BY <1>3, <1>8, <1>9 DEF Targets, PartNames
<1>. QED
  BY <1>3, <1>6, <1>7, <1>8, <1>10 DEF f, x

(* What each parser takes, and what it leaves alone.                        *)
Wide(S, T) == S \subseteq T /\ \A c \in S : Lower(c) \in T
Open(S, T, t) == t \in Targets(T) /\ t.left \in Seq(S)
Keeps(u, t, part) == \A p \in PartNames : p # part => u[p] = t[p]

(* A cut of what is left over the smaller alphabet.                         *)
LEMMA CutKeeps ==
    ASSUME NEW S, NEW T, Wide(S, T), NEW t, Open(S, T, t), NEW part \in PartNames,
           NEW from \in Nat \ {0}, NEW to \in Nat, to <= Len(t.left),
           NEW next \in 1 .. Len(t.left) + 1
    PROVE  LET u == Cut(t, part, from, to, next)
           IN  /\ Open(S, T, u) /\ Keeps(u, t, part)
               /\ u.left = From(t.left, next) /\ u[part] = {SubSeq(t.left, from, to)}
               /\ SubSeq(t.left, from, to) \in Seq(S)
<1>. DEFINE u == Cut(t, part, from, to, next)
<1>1. t \in Targets(T) /\ t.left \in Seq(S)
  BY DEF Open
<1>2. /\ u \in Targets(T) /\ u.left = From(t.left, next) /\ u[part] = {SubSeq(t.left, from, to)}
      /\ Keeps(u, t, part)
  BY <1>1, CutIs DEF Keeps
<1>3. From(t.left, next) \in Seq(S)
  BY <1>1, FromIs
<1>4. SubSeq(t.left, from, to) \in Seq(S)
  <2>. DEFINE l == t.left
  <2>1. l \in Seq(S) /\ Len(l) \in Nat /\ to <= Len(l)
    BY <1>1
  <2>. HIDE DEF l
  <2>2. SubSeq(l, from, to) \in Seq(S)
    BY <2>1
  <2>. QED
    BY <2>2 DEF l
<1>. HIDE DEF u
<1>5. Open(S, T, u)
  BY <1>2, <1>3 DEF Open
<1>. QED
  BY <1>2, <1>4, <1>5 DEF u

(* A part that is kept in lower case.                                       *)
LEMMA LowKeeps ==
    ASSUME NEW S, NEW T, Wide(S, T), NEW t, Open(S, T, t), NEW part \in PartNames,
           NEW w \in Seq(S), t[part] = {w}, NEW u,
           u = [p \in DOMAIN t |-> IF p = part THEN {Low(w)} ELSE t[p]]
    PROVE  /\ Open(S, T, u) /\ Keeps(u, t, part)
           /\ u.left = t.left /\ u[part] = {Low(w)}
<1>1. Low(w) \in Seq(T)
  BY LowIs DEF Wide
<1>2. part \in PartNames /\ part # "left"
  BY DEF PartNames
<1>3. t \in Targets(T) /\ t.left \in Seq(S)
  BY DEF Open
<1>4. /\ DOMAIN t = {"left"} \cup PartNames
      /\ \A p \in PartNames : t[p] \in SUBSET Seq(T)
  BY <1>3 DEF Targets, PartNames
<1>. DEFINE v == {Low(w)}
<1>6. u = [p \in DOMAIN t |-> IF p = part THEN v ELSE t[p]]
  OBVIOUS
<1>7. v \in SUBSET Seq(T)
  BY <1>1
<1>. HIDE DEF v
<1>8. /\ u.left = t.left /\ u[part] = v /\ DOMAIN u = {"left"} \cup PartNames
      /\ \A p \in PartNames : p # part => u[p] = t[p]
      /\ u = [p \in {"left"} \cup PartNames |-> IF p = part THEN v ELSE t[p]]
  BY <1>2, <1>4, <1>6
<1>9. \A p \in PartNames : u[p] \in SUBSET Seq(T)
  BY <1>4, <1>7, <1>8
<1>10. u \in Targets(T)
  BY <1>3, <1>8, <1>9 DEF Targets, PartNames
<1>. QED
  BY <1>3, <1>8, <1>10 DEF v, Open, Keeps

LEMMA MarksAre ==
    ASSUME NEW S, NEW w \in Seq(S), SchemeMarks(w) # {}
    PROVE  LET e == Min(SchemeMarks(w))
           IN  e \in SchemeMarks(w) /\ e \in 1 .. Len(w) - 2 /\ \A i \in SchemeMarks(w) : e <= i
<1>. DEFINE M == SchemeMarks(w)
            e == Min(M)
<1>0. Len(w) \in Nat /\ DOMAIN w = 1 .. Len(w)
  OBVIOUS
<1>1. \A i \in M : i \in 1 .. Len(w) /\ At(w, i + 2) = "/"
  BY <1>0 DEF SchemeMarks
<1>2. M \in SUBSET Nat
  BY <1>0, <1>1
<1>3. e \in M /\ \A i \in M : e <= i
  BY <1>2, MinOfNats, Zenon
<1>4. e \in 1 .. Len(w) /\ At(w, e + 2) = "/"
  BY <1>1, <1>3
<1>. HIDE DEF e, M
<1>5. e + 2 \in 1 .. Len(w)
  BY <1>4 DEF At
<1>6. e \in 1 .. Len(w) - 2
  BY <1>0, <1>4, <1>5
<1>. QED
  BY <1>3, <1>6 DEF e, M

LEMMA SchemeIs ==
    ASSUME NEW S, NEW T, Wide(S, T), NEW t, Open(S, T, t)
    PROVE  LET u == ParseScheme(t)
               e == Min(SchemeMarks(t.left))
           IN  /\ Open(S, T, u) /\ Keeps(u, t, "scheme")
               /\ SchemeMarks(t.left) = {} => u = t
               /\ SchemeMarks(t.left) # {} =>
                     /\ u.left = From(t.left, e + 3)
                     /\ u.scheme = {Low(SubSeq(t.left, 1, e - 1))}
                     /\ SubSeq(t.left, 1, e - 1) \in Seq(S)
<1>. DEFINE w == t.left
            e == Min(SchemeMarks(w))
            c == Cut(t, "scheme", 1, e - 1, e + 3)
<1>1. CASE SchemeMarks(w) = {}
  BY <1>1 DEF ParseScheme, Keeps
<1>2. CASE SchemeMarks(w) # {}
  <2>1. w \in Seq(S) /\ Len(w) \in Nat
    BY DEF Open
  <2>2. e \in 1 .. Len(w) - 2
    BY <1>2, <2>1, MarksAre
  <2>. HIDE DEF e
  <2>3. e - 1 \in Nat /\ e - 1 <= Len(w) /\ e + 3 \in 1 .. Len(w) + 1
    BY <2>1, <2>2
  <2>4. /\ Open(S, T, c) /\ Keeps(c, t, "scheme") /\ c.left = From(w, e + 3)
        /\ c.scheme = {SubSeq(w, 1, e - 1)} /\ SubSeq(w, 1, e - 1) \in Seq(S)
    <3>1. "scheme" \in PartNames /\ 1 \in Nat \ {0}
      BY DEF PartNames
    <3>. QED
      BY <2>3, <3>1, CutKeeps
  <2>. HIDE DEF c
  <2>. DEFINE u == [c EXCEPT !.scheme = {Low(SubSeq(w, 1, e - 1))}]
  <2>5. ParseScheme(t) = u
    <3>1. ParseScheme(t) = [c EXCEPT !.scheme = {Low(x) : x \in @}]
      BY <1>2 DEF ParseScheme, c, e
    <3>2. {Low(x) : x \in c.scheme} = {Low(SubSeq(w, 1, e - 1))}
      BY <2>4
    <3>. QED
      BY <3>1, <3>2
  <2>6. /\ Open(S, T, u) /\ Keeps(u, c, "scheme") /\ u.left = c.left
        /\ u.scheme = {Low(SubSeq(w, 1, e - 1))}
    <3>. DEFINE x == SubSeq(w, 1, e - 1)
    <3>1. Open(S, T, c) /\ x \in Seq(S) /\ c["scheme"] = {x} /\ "scheme" \in PartNames
      BY <2>4 DEF PartNames
    <3>. HIDE DEF x
    <3>2. u = [p \in DOMAIN c |-> IF p = "scheme" THEN {Low(x)} ELSE c[p]]
      BY DEF x
    <3>. HIDE DEF u
    <3>3. /\ Open(S, T, u) /\ Keeps(u, c, "scheme")
          /\ u.left = c.left /\ u["scheme"] = {Low(x)}
      BY <3>1, <3>2, LowKeeps
    <3>. QED
      BY <3>3 DEF x
  <2>. HIDE DEF u
  <2>7. Keeps(u, t, "scheme")
    BY <2>4, <2>6 DEF Keeps
  <2>. QED
    BY <1>2, <2>4, <2>5, <2>6, <2>7 DEF e, w
<1>. QED
  BY <1>1, <1>2

LEMMA UserIs ==
    ASSUME NEW S, NEW T, Wide(S, T), NEW t, Open(S, T, t)
    PROVE  LET u == ParseUserInfo(t)
           IN  /\ Open(S, T, u) /\ Keeps(u, t, "user")
               /\ t.scheme = {} \/ u.user = {} => u = t
<1>. DEFINE w == t.left
            e == FindFirstOf(w, 1, {"@"})
            c == Cut(t, "user", 1, e - 1, e + 1)
<1>1. CASE t.scheme = {} \/ e > Len(w)
  BY <1>1 DEF ParseUserInfo, Keeps
<1>2. CASE ~(t.scheme = {} \/ e > Len(w))
  <2>1. w \in Seq(S) /\ Len(w) \in Nat
    BY DEF Open
  <2>2. e \in 1 .. Len(w) + 1 /\ e <= Len(w)
    <3>1. 1 \in Nat \ {0}
      OBVIOUS
    <3>2. e \in 1 .. Len(w) + 1
      BY <2>1, <3>1, FindIs
    <3>. HIDE DEF e
    <3>. QED
      BY <1>2, <2>1, <3>2
  <2>3. ParseUserInfo(t) = c
    BY <1>2 DEF ParseUserInfo
  <2>. HIDE DEF e
  <2>4. e - 1 \in Nat /\ e - 1 <= Len(w) /\ e + 1 \in 1 .. Len(w) + 1
    BY <2>1, <2>2
  <2>5. Open(S, T, c) /\ Keeps(c, t, "user") /\ c.user = {SubSeq(w, 1, e - 1)}
    <3>1. "user" \in PartNames /\ 1 \in Nat \ {0}
      BY DEF PartNames
    <3>. QED
      BY <2>4, <3>1, CutKeeps
  <2>. HIDE DEF c
  <2>. QED
    BY <1>2, <2>3, <2>5
<1>. QED
  BY <1>1, <1>2

LEMMA HostIs ==
    ASSUME NEW S, NEW T, Wide(S, T), NEW t, Open(S, T, t)
    PROVE  LET u == ParseHost(t)
               e == FindFirstOf(t.left, 1, {":", "/"})
           IN  /\ Open(S, T, u) /\ Keeps(u, t, "host")
               /\ t.scheme = {} \/ t.left = <<>> => u = t
               /\ t.scheme # {} /\ t.left # <<>> =>
                     /\ u.left = From(t.left, e)
                     /\ u.host = {Low(SubSeq(t.left, 1, e - 1))}
                     /\ SubSeq(t.left, 1, e - 1) \in Seq(S)
<1>. DEFINE w == t.left
            e == FindFirstOf(w, 1, {":", "/"})
            c == Cut(t, "host", 1, e - 1, e)
<1>1. CASE t.scheme = {} \/ w = <<>>
  BY <1>1 DEF ParseHost, Keeps
<1>2. CASE ~(t.scheme = {} \/ w = <<>>)
  <2>1. w \in Seq(S) /\ Len(w) \in Nat
    BY DEF Open
  <2>2. e \in 1 .. Len(w) + 1
    <3>1. 1 \in Nat \ {0}
      OBVIOUS
    <3>. QED
      BY <2>1, <3>1, FindIs
  <2>. HIDE DEF e
  <2>3. e - 1 \in Nat /\ e - 1 <= Len(w)
    BY <2>1, <2>2
  <2>4. /\ Open(S, T, c) /\ Keeps(c, t, "host") /\ c.left = From(w, e)
        /\ c.host = {SubSeq(w, 1, e - 1)} /\ SubSeq(w, 1, e - 1) \in Seq(S)
    <3>1. "host" \in PartNames /\ 1 \in Nat \ {0}
      BY DEF PartNames
    <3>2. 1 \in Nat \ {0} /\ e - 1 \in Nat /\ e - 1 <= Len(t.left) /\ e \in 1 .. Len(t.left) + 1
      BY <2>2, <2>3
    <3>. HIDE DEF c
    <3>3. LET u == Cut(t, "host", 1, e - 1, e)
          IN  /\ Open(S, T, u) /\ Keeps(u, t, "host")
              /\ u.left = From(t.left, e) /\ u["host"] = {SubSeq(t.left, 1, e - 1)}
              /\ SubSeq(t.left, 1, e - 1) \in Seq(S)
      BY <3>1, <3>2, CutKeeps, Zenon
    <3>. QED
      BY <3>3 DEF c
  <2>. HIDE DEF c
  <2>. DEFINE u == [c EXCEPT !.host = {Low(SubSeq(w, 1, e - 1))}]
  <2>5. ParseHost(t) = u
    <3>1. ParseHost(t) = [c EXCEPT !.host = {Low(x) : x \in @}]
      BY <1>2 DEF ParseHost, c, e
    <3>2. {Low(x) : x \in c.host} = {Low(SubSeq(w, 1, e - 1))}
      BY <2>4
    <3>. QED
      BY <3>1, <3>2
  <2>6. /\ Open(S, T, u) /\ Keeps(u, c, "host") /\ u.left = c.left
        /\ u.host = {Low(SubSeq(w, 1, e - 1))}
    <3>. DEFINE x == SubSeq(w, 1, e - 1)
    <3>1. Open(S, T, c) /\ x \in Seq(S) /\ c["host"] = {x} /\ "host" \in PartNames
      BY <2>4 DEF PartNames
    <3>. HIDE DEF x
    <3>2. u = [p \in DOMAIN c |-> IF p = "host" THEN {Low(x)} ELSE c[p]]
      BY DEF x
    <3>. HIDE DEF u
    <3>3. /\ Open(S, T, u) /\ Keeps(u, c, "host")
          /\ u.left = c.left /\ u["host"] = {Low(x)}
      BY <3>1, <3>2, LowKeeps
    <3>. QED
      BY <3>3 DEF x
  <2>. HIDE DEF u
  <2>7. Keeps(u, t, "host")
    BY <2>4, <2>6 DEF Keeps
  <2>. QED
    BY <1>2, <2>4, <2>5, <2>6, <2>7 DEF e, w
<1>. QED
  BY <1>1, <1>2

LEMMA PortIs ==
    ASSUME NEW S, NEW T, Wide(S, T), NEW t, Open(S, T, t)
    PROVE  LET u == ParsePort(t)
               e == FindFirstOf(t.left, 2, {"/", "?", "#"})
           IN  /\ Open(S, T, u) /\ Keeps(u, t, "port")
               /\ t.host = {} \/ At(t.left, 1) # ":" => u = t
               /\ ~(t.host = {} \/ At(t.left, 1) # ":") =>
                     /\ u.left = From(t.left, e) /\ u.port = {SubSeq(t.left, 2, e - 1)}
                     /\ e \in 2 .. Len(t.left) + 1 /\ SubSeq(t.left, 2, e - 1) \in Seq(S)
<1>. DEFINE w == t.left
            e == FindFirstOf(w, 2, {"/", "?", "#"})
            c == Cut(t, "port", 2, e - 1, e)
<1>1. CASE t.host = {} \/ At(t.left, 1) # ":"
  BY <1>1 DEF ParsePort, Keeps
<1>2. CASE ~(t.host = {} \/ At(t.left, 1) # ":")
  <2>1. w \in Seq(S) /\ Len(w) \in Nat
    BY DEF Open
  <2>2. w[1] = At(w, 1) /\ Len(w) >= 1
    <3>1. At(w, 1) # ""
      BY <1>2
    <3>2. 1 \in 1 .. Len(w)
      BY <3>1 DEF At
    <3>. QED
      BY <2>1, <3>2 DEF At
  <2>3. e \in 2 .. Len(w) + 1
    <3>1. 2 \in Nat \ {0} /\ 2 <= Len(w) + 1
      BY <2>1, <2>2
    <3>. QED
      BY <2>1, <3>1, FindIs
  <2>4. ParsePort(t) = c
    BY <1>2 DEF ParsePort
  <2>. HIDE DEF e
  <2>5. e - 1 \in Nat /\ e - 1 <= Len(w) /\ e \in 1 .. Len(w) + 1
    BY <2>1, <2>3
  <2>6. /\ Open(S, T, c) /\ Keeps(c, t, "port") /\ c.port = {SubSeq(w, 2, e - 1)}
        /\ c.left = From(w, e) /\ SubSeq(w, 2, e - 1) \in Seq(S)
    <3>1. "port" \in PartNames /\ 2 \in Nat \ {0}
      BY DEF PartNames
    <3>. QED
      BY <2>5, <3>1, CutKeeps
  <2>. HIDE DEF c
  <2>. QED
    BY <1>2, <2>3, <2>4, <2>6 DEF e, w
<1>. QED
  BY <1>1, <1>2

LEMMA PathIs ==
    ASSUME NEW S, NEW T, Wide(S, T), NEW t, Open(S, T, t)
    PROVE  LET u == ParsePath(t)
               e == FindFirstOf(t.left, 1, {"?", "#"})
           IN  /\ Open(S, T, u) /\ Keeps(u, t, "path")
               /\ At(t.left, 1) # "/" => u = t
               /\ ~(At(t.left, 1) # "/") =>
                     /\ u.left = From(t.left, e) /\ u.path = {SubSeq(t.left, 1, e - 1)}
                     /\ e \in 1 .. Len(t.left) + 1 /\ SubSeq(t.left, 1, e - 1) \in Seq(S)
<1>. DEFINE w == t.left
            e == FindFirstOf(w, 1, {"?", "#"})
            c == Cut(t, "path", 1, e - 1, e)
<1>1. CASE At(t.left, 1) # "/"
  BY <1>1 DEF ParsePath, Keeps
<1>2. CASE ~(At(t.left, 1) # "/")
  <2>1. w \in Seq(S) /\ Len(w) \in Nat
    BY DEF Open
  <2>2. w[1] = At(w, 1) /\ Len(w) >= 1
    <3>1. At(w, 1) # ""
      BY <1>2
    <3>2. 1 \in 1 .. Len(w)
      BY <3>1 DEF At
    <3>. QED
      BY <2>1, <3>2 DEF At
  <2>3. e \in 1 .. Len(w) + 1
    <3>1. 1 \in Nat \ {0} /\ 1 <= Len(w) + 1
      BY <2>1, <2>2
    <3>. QED
      BY <2>1, <3>1, FindIs
  <2>4. ParsePath(t) = c
    BY <1>2 DEF ParsePath
  <2>. HIDE DEF e
  <2>5. e - 1 \in Nat /\ e - 1 <= Len(w) /\ e \in 1 .. Len(w) + 1
    BY <2>1, <2>3
  <2>6. /\ Open(S, T, c) /\ Keeps(c, t, "path") /\ c.path = {SubSeq(w, 1, e - 1)}
        /\ c.left = From(w, e) /\ SubSeq(w, 1, e - 1) \in Seq(S)
    <3>1. "path" \in PartNames /\ 1 \in Nat \ {0}
      BY DEF PartNames
    <3>. QED
      BY <2>5, <3>1, CutKeeps
  <2>. HIDE DEF c
  <2>. QED
    BY <1>2, <2>3, <2>4, <2>6 DEF e, w
<1>. QED
  BY <1>1, <1>2

LEMMA QueryIs ==
    ASSUME NEW S, NEW T, Wide(S, T), NEW t, Open(S, T, t)
    PROVE  LET u == ParseQuery(t)
               e == FindFirstOf(t.left, 2, {"#"})
           IN  /\ Open(S, T, u) /\ Keeps(u, t, "query")
               /\ At(t.left, 1) # "?" => u = t
               /\ ~(At(t.left, 1) # "?") =>
                     /\ u.left = From(t.left, e) /\ u.query = {SubSeq(t.left, 2, e - 1)}
                     /\ e \in 2 .. Len(t.left) + 1 /\ SubSeq(t.left, 2, e - 1) \in Seq(S)
<1>. DEFINE w == t.left
            e == FindFirstOf(w, 2, {"#"})
            c == Cut(t, "query", 2, e - 1, e)
<1>1. CASE At(t.left, 1) # "?"
  BY <1>1 DEF ParseQuery, Keeps
<1>2. CASE ~(At(t.left, 1) # "?")
  <2>1. w \in Seq(S) /\ Len(w) \in Nat
    BY DEF Open
  <2>2. w[1] = At(w, 1) /\ Len(w) >= 1
    <3>1. At(w, 1) # ""
      BY <1>2
    <3>2. 1 \in 1 .. Len(w)
      BY <3>1 DEF At
    <3>. QED
      BY <2>1, <3>2 DEF At
  <2>3. e \in 2 .. Len(w) + 1
    <3>1. 2 \in Nat \ {0} /\ 2 <= Len(w) + 1
      BY <2>1, <2>2
    <3>. QED
      BY <2>1, <3>1, FindIs
  <2>4. ParseQuery(t) = c
    BY <1>2 DEF ParseQuery
  <2>. HIDE DEF e
  <2>5. e - 1 \in Nat /\ e - 1 <= Len(w) /\ e \in 1 .. Len(w) + 1
    BY <2>1, <2>3
  <2>6. /\ Open(S, T, c) /\ Keeps(c, t, "query") /\ c.query = {SubSeq(w, 2, e - 1)}
        /\ c.left = From(w, e) /\ SubSeq(w, 2, e - 1) \in Seq(S)
    <3>1. "query" \in PartNames /\ 2 \in Nat \ {0}
      BY DEF PartNames
    <3>. QED
      BY <2>5, <3>1, CutKeeps
  <2>. HIDE DEF c
  <2>. QED
    BY <1>2, <2>3, <2>4, <2>6 DEF e, w
<1>. QED
  BY <1>1, <1>2

LEMMA FragmentIs ==
    ASSUME NEW S, NEW T, Wide(S, T), NEW t, Open(S, T, t)
    PROVE  LET u == ParseFragment(t)
               e == Len(t.left) + 1
           IN  /\ Open(S, T, u) /\ Keeps(u, t, "fragment")
               /\ At(t.left, 1) # "#" => u = t
               /\ ~(At(t.left, 1) # "#") =>
                     /\ u.left = From(t.left, e) /\ u.fragment = {SubSeq(t.left, 2, e - 1)}
                     /\ e \in 2 .. Len(t.left) + 1 /\ SubSeq(t.left, 2, e - 1) \in Seq(S)
<1>. DEFINE w == t.left
            e == Len(w) + 1
            c == Cut(t, "fragment", 2, e - 1, e)
<1>1. CASE At(t.left, 1) # "#"
  BY <1>1 DEF ParseFragment, Keeps
<1>2. CASE ~(At(t.left, 1) # "#")
  <2>1. w \in Seq(S) /\ Len(w) \in Nat
    BY DEF Open
  <2>2. w[1] = At(w, 1) /\ Len(w) >= 1
    <3>1. At(w, 1) # ""
      BY <1>2
    <3>2. 1 \in 1 .. Len(w)
      BY <3>1 DEF At
    <3>. QED
      BY <2>1, <3>2 DEF At
  <2>3. e \in 2 .. Len(w) + 1
    BY <2>1, <2>2
  <2>4. ParseFragment(t) = c
    BY <1>2 DEF ParseFragment
  <2>. HIDE DEF e
  <2>5. e - 1 \in Nat /\ e - 1 <= Len(w) /\ e \in 1 .. Len(w) + 1
    BY <2>1, <2>3
  <2>6. /\ Open(S, T, c) /\ Keeps(c, t, "fragment") /\ c.fragment = {SubSeq(w, 2, e - 1)}
        /\ c.left = From(w, e) /\ SubSeq(w, 2, e - 1) \in Seq(S)
    <3>1. "fragment" \in PartNames /\ 2 \in Nat \ {0}
      BY DEF PartNames
    <3>. QED
      BY <2>5, <3>1, CutKeeps
  <2>. HIDE DEF c
  <2>. QED
    BY <1>2, <2>3, <2>4, <2>6 DEF e, w
<1>. QED
  BY <1>1, <1>2

(* What comes behind the port.                                              *)
PathOn(t) == ParseFragment(ParseQuery(ParsePath(t)))
BehindPort(x, y) ==
    /\ x.left = y.left /\ x.path = y.path
    /\ x.query = y.query /\ x.fragment = y.fragment

LEMMA PathOnKeeps ==
    ASSUME NEW S, NEW T, Wide(S, T), NEW t, Open(S, T, t)
    PROVE  \A p \in {"scheme", "user", "host", "port"} : PathOn(t)[p] = t[p]
<1>. DEFINE a == ParsePath(t)
            b == ParseQuery(a)
            c == ParseFragment(b)
<1>1. Open(S, T, a) /\ Keeps(a, t, "path")
  BY PathIs
<1>. HIDE DEF a
<1>2. Open(S, T, b) /\ Keeps(b, a, "query")
  BY <1>1, QueryIs
<1>. HIDE DEF b
<1>3. Open(S, T, c) /\ Keeps(c, b, "fragment")
  BY <1>2, FragmentIs
<1>. HIDE DEF c
<1>4. \A p \in {"scheme", "user", "host", "port"} : c[p] = t[p]
  BY <1>1, <1>2, <1>3 DEF Keeps, PartNames
<1>. QED
  BY <1>4 DEF PathOn, a, b, c

LEMMA PathOnAgrees ==
    ASSUME NEW S, NEW T, Wide(S, T), NEW x, NEW y, Open(S, T, x), Open(S, T, y),
           BehindPort(x, y)
    PROVE  BehindPort(PathOn(x), PathOn(y))
<1>. DEFINE a == ParsePath(x)
            b == ParseQuery(a)
            c == ParseFragment(b)
            d == ParsePath(y)
            e == ParseQuery(d)
            f == ParseFragment(e)
<1>1. Open(S, T, a) /\ Open(S, T, d) /\ BehindPort(a, d)
  <2>1. Keeps(a, x, "path") /\ Keeps(d, y, "path") /\ Open(S, T, a) /\ Open(S, T, d)
    BY PathIs
  <2>2. CASE At(x.left, 1) # "/"
    <3>1. a = x /\ d = y
      BY <2>2, PathIs DEF BehindPort
    <3>. QED
      BY <2>1, <3>1
  <2>3. CASE At(x.left, 1) = "/"
    <3>1. a.left = d.left /\ a.path = d.path
      <4>1. LET m == FindFirstOf(x.left, 1, {"?", "#"})
            IN  a.left = From(x.left, m) /\ a.path = {SubSeq(x.left, 1, m - 1)}
        BY <2>3, PathIs
      <4>2. LET m == FindFirstOf(y.left, 1, {"?", "#"})
            IN  d.left = From(y.left, m) /\ d.path = {SubSeq(y.left, 1, m - 1)}
        BY <2>3, PathIs DEF BehindPort
      <4>. QED
        BY <4>1, <4>2 DEF BehindPort
    <3>2. a.query = d.query /\ a.fragment = d.fragment
      BY <2>1 DEF Keeps, PartNames, BehindPort
    <3>. QED
      BY <2>1, <3>1, <3>2 DEF BehindPort
  <2>. QED
    BY <2>2, <2>3
<1>. HIDE DEF a, d
<1>2. Open(S, T, b) /\ Open(S, T, e) /\ BehindPort(b, e)
  <2>1. Keeps(b, a, "query") /\ Keeps(e, d, "query") /\ Open(S, T, b) /\ Open(S, T, e)
    BY <1>1, QueryIs
  <2>2. CASE At(a.left, 1) # "?"
    <3>1. b = a /\ e = d
      BY <1>1, <2>2, QueryIs DEF BehindPort
    <3>. QED
      BY <1>1, <2>1, <3>1
  <2>3. CASE At(a.left, 1) = "?"
    <3>1. b.left = e.left /\ b.query = e.query
      <4>1. LET m == FindFirstOf(a.left, 2, {"#"})
            IN  b.left = From(a.left, m) /\ b.query = {SubSeq(a.left, 2, m - 1)}
        BY <1>1, <2>3, QueryIs
      <4>2. LET m == FindFirstOf(d.left, 2, {"#"})
            IN  e.left = From(d.left, m) /\ e.query = {SubSeq(d.left, 2, m - 1)}
        BY <1>1, <2>3, QueryIs DEF BehindPort
      <4>. QED
        BY <1>1, <4>1, <4>2 DEF BehindPort
    <3>2. b.path = e.path /\ b.fragment = e.fragment
      BY <1>1, <2>1 DEF Keeps, PartNames, BehindPort
    <3>. QED
      BY <2>1, <3>1, <3>2 DEF BehindPort
  <2>. QED
    BY <2>2, <2>3
<1>. HIDE DEF b, e
<1>3. BehindPort(c, f)
  <2>1. Keeps(c, b, "fragment") /\ Keeps(f, e, "fragment")
    BY <1>2, FragmentIs
  <2>2. CASE At(b.left, 1) # "#"
    <3>1. c = b /\ f = e
      BY <1>2, <2>2, FragmentIs DEF BehindPort
    <3>. QED
      BY <1>2, <2>1, <3>1
  <2>3. CASE At(b.left, 1) = "#"
    <3>1. c.left = f.left /\ c.fragment = f.fragment
      <4>1. LET m == Len(b.left) + 1
            IN  c.left = From(b.left, m) /\ c.fragment = {SubSeq(b.left, 2, m - 1)}
        BY <1>2, <2>3, FragmentIs
      <4>2. LET m == Len(e.left) + 1
            IN  f.left = From(e.left, m) /\ f.fragment = {SubSeq(e.left, 2, m - 1)}
        BY <1>2, <2>3, FragmentIs DEF BehindPort
      <4>. QED
        BY <1>2, <4>1, <4>2 DEF BehindPort
    <3>2. c.path = f.path /\ c.query = f.query
      BY <1>2, <2>1 DEF Keeps, PartNames, BehindPort
    <3>. QED
      BY <2>1, <3>1, <3>2 DEF BehindPort
  <2>. QED
    BY <2>2, <2>3
<1>. HIDE DEF c, f
<1>. QED
  BY <1>3 DEF PathOn, a, b, c, d, e, f

(* A word as it is before it is taken apart.                                *)
LEMMA WholeIs ==
    ASSUME NEW S, NEW w \in Seq(S)
    PROVE  /\ Wide(S, Lowers(S)) /\ Open(S, Lowers(S), Whole(w))
           /\ Parts(w) = PathOn(ParsePort(ParseHost(ParseUserInfo(ParseScheme(Whole(w))))))
           /\ Whole(w).left = w /\ \A p \in PartNames : Whole(w)[p] = {}
<1>1. Wide(S, Lowers(S))
  BY DEF Wide, Lowers
<1>2. w \in Seq(Lowers(S))
  BY DEF Lowers
<1>3. Whole(w) \in Targets(Lowers(S)) /\ Whole(w).left = w
  BY <1>2 DEF Whole, Targets
<1>4. Parts(w) = PathOn(ParsePort(ParseHost(ParseUserInfo(ParseScheme(Whole(w))))))
  BY Zenon DEF Parts, PathOn, Whole
<1>5. \A p \in PartNames : Whole(w)[p] = {}
  BY DEF PartNames, Whole
<1>. QED
  BY <1>1, <1>3, <1>4, <1>5 DEF Open

(* A word without "://" is path, query and fragment.                        *)
LEMMA OriginParts ==
    ASSUME NEW S, NEW w \in Seq(S), SchemeMarks(w) = {}
    PROVE  Parts(w) = PathOn(Whole(w))
<1>. DEFINE T == Lowers(S)
            a == Whole(w)
<1>1. /\ Wide(S, T) /\ Open(S, T, a) /\ a.left = w /\ a.scheme = {} /\ a.host = {}
      /\ Parts(w) = PathOn(ParsePort(ParseHost(ParseUserInfo(ParseScheme(a)))))
  BY WholeIs DEF PartNames
<1>. HIDE DEF T, a
<1>2. ParseScheme(a) = a
  BY <1>1, SchemeIs
<1>3. ParseUserInfo(a) = a
  BY <1>1, UserIs
<1>4. ParseHost(a) = a
  BY <1>1, HostIs
<1>5. ParsePort(a) = a
  BY <1>1, PortIs
<1>. QED
  BY <1>1, <1>2, <1>3, <1>4, <1>5 DEF a

-----------------------------------------------------------------------------
(* Absolute form and origin form.                                           *)

(* What a target that is let pass says of its parts.                        *)
LEMMA GoodIs ==
    ASSUME NEW S, NEW w \in Seq(S)
    PROVE  TargetCode(w) = 200 <=>
             Len(w) <= LengthLimit /\ Validate(Parts(w)) /\ Normal(Parts(w)).good
<1>0. Len(w) \in Nat /\ LengthLimit \in Nat
  BY TargetAssumption
<1>1. CASE Len(w) > LengthLimit
  <2>1. ~Target(w).good
    BY <1>1 DEF Target
  <2>. QED
    BY <1>0, <1>1, <2>1 DEF TargetCode
<1>2. CASE ~(Len(w) > LengthLimit) /\ Validate(Parts(w))
  <2>1. Target(w) = Normal(Parts(w))
    BY <1>2 DEF Target
  <2>2. TargetCode(w) = IF Normal(Parts(w)).good THEN 200 ELSE 400
    BY <1>0, <1>2, <2>1 DEF TargetCode
  <2>. QED
    BY <1>0, <1>2, <2>2
<1>3. CASE ~(Len(w) > LengthLimit) /\ ~Validate(Parts(w))
  <2>1. ~Target(w).good
    BY <1>3 DEF Target
  <2>2. TargetCode(w) = 400
    BY <1>0, <1>3, <2>1 DEF TargetCode
  <2>. QED
    BY <1>3, <2>2
<1>. QED
  BY <1>1, <1>2, <1>3

(* Where the path of a target begins that has a scheme and a host.          *)
LEMMA AbsoluteParts ==
    ASSUME NEW S, NEW w \in Seq(S), Validate(Parts(w)), Parts(w).scheme # {},
           SchemeMarks(FromPath(w)) = {}
    PROVE  /\ FromPath(w) \in Seq(S) /\ Len(FromPath(w)) <= Len(w)
           /\ Parts(FromPath(w)).path = Parts(w).path
           /\ Parts(FromPath(w)).query = Parts(w).query
           /\ \A p \in PartNames \ {"path", "query"} : Parts(FromPath(w))[p] = {}
<1>. DEFINE T == Lowers(S)
            t0 == Whole(w)
            t1 == ParseScheme(t0)
            t2 == ParseUserInfo(t1)
            t3 == ParseHost(t2)
            t4 == ParsePort(t3)
            t == Parts(w)
<1>0. Len(w) \in Nat
  OBVIOUS
<1>1. /\ Wide(S, T) /\ Open(S, T, t0) /\ t0.left = w /\ \A p \in PartNames : t0[p] = {}
      /\ t = PathOn(t4)
  BY WholeIs
<1>. HIDE DEF T, t0, t
<1>2. /\ Open(S, T, t1) /\ Keeps(t1, t0, "scheme")
      /\ SchemeMarks(w) = {} => t1 = t0
      /\ SchemeMarks(w) # {} =>
            LET e == Min(SchemeMarks(w))
            IN  /\ t1.left = From(w, e + 3) /\ t1.scheme = {Low(SubSeq(w, 1, e - 1))}
                /\ SubSeq(w, 1, e - 1) \in Seq(S)
  BY <1>1, SchemeIs
<1>. HIDE DEF t1
<1>3. /\ Open(S, T, t2) /\ Keeps(t2, t1, "user")
      /\ t1.scheme = {} \/ t2.user = {} => t2 = t1
  BY <1>1, <1>2, UserIs
<1>. HIDE DEF t2
<1>4. /\ Open(S, T, t3) /\ Keeps(t3, t2, "host")
      /\ t2.left = <<>> => t3 = t2
      /\ t2.scheme # {} /\ t2.left # <<>> =>
            /\ t3.left = From(t2.left, FindFirstOf(t2.left, 1, {":", "/"}))
            /\ t3.host # {}
  BY <1>1, <1>3, HostIs
<1>. HIDE DEF t3
<1>5. /\ Open(S, T, t4) /\ Keeps(t4, t3, "port")
      /\ t3.host = {} \/ At(t3.left, 1) # ":" => t4 = t3
      /\ ~(t3.host = {} \/ At(t3.left, 1) # ":") =>
            LET e == FindFirstOf(t3.left, 2, {"/", "?", "#"})
            IN  t4.left = From(t3.left, e) /\ e \in 2 .. Len(t3.left) + 1
  BY <1>1, <1>4, PortIs
<1>. HIDE DEF t4
<1>6. \A p \in {"scheme", "user", "host", "port"} : t[p] = t4[p]
  BY <1>1, <1>5, PathOnKeeps
<1>7. t.scheme = t1.scheme /\ t.user = t2.user
  BY <1>3, <1>4, <1>5, <1>6 DEF Keeps, PartNames
<1>8. /\ t.scheme \subseteq {<<"http">>} /\ t.user = {} /\ t.fragment = {} /\ t.path # {}
      /\ t.scheme # {}
  BY DEF Validate, t
<1>9. SchemeMarks(w) # {}
  BY <1>1, <1>2, <1>7, <1>8 DEF PartNames
<1>10. Min(SchemeMarks(w)) = 2 /\ 4 <= Len(w)
  <2>. DEFINE e == Min(SchemeMarks(w))
              x == SubSeq(w, 1, e - 1)
  <2>1. e \in 1 .. Len(w) - 2
    BY <1>9, MarksAre
  <2>2. Low(x) = <<"http">> /\ x \in Seq(S)
    BY <1>2, <1>7, <1>8, <1>9
  <2>. HIDE DEF e
  <2>3. Len(x) = e - 1
    BY <1>0, <2>1
  <2>4. Len(Low(x)) = Len(x)
    <3>. HIDE DEF x
    <3>. QED
      BY <1>1, <2>2, LowIs, ZenonT(40) DEF Wide
  <2>5. e - 1 = 1
    BY <2>2, <2>3, <2>4
  <2>. QED
    BY <1>0, <2>1, <2>5 DEF e
<1>11. t2 = t1 /\ t2.left = From(w, 5)
  BY <1>2, <1>3, <1>7, <1>8, <1>9, <1>10
<1>. DEFINE r == From(w, 5)
<1>12. r \in Seq(S) /\ Len(r) = Len(w) - 4 /\ \A j \in 1 .. Len(r) : r[j] = w[4 + j]
  <2>1. 5 \in 1 .. Len(w) + 1
    BY <1>0, <1>10
  <2>2. /\ r \in Seq(S) /\ Len(r) = Len(w) - 5 + 1
        /\ \A j \in 1 .. Len(w) - 5 + 1 : r[j] = w[5 + j - 1]
    BY <2>1, FromIs
  <2>. HIDE DEF r
  <2>. QED
    BY <1>0, <1>10, <2>2
<1>. HIDE DEF r
<1>13. At(t4.left, 1) = "/" /\ t4.path = {} /\ t4.query = {} /\ t4.fragment = {}
  <2>1. t4.path = {} /\ t4.query = {} /\ t4.fragment = {}
    BY <1>1, <1>2, <1>3, <1>4, <1>5 DEF Keeps, PartNames
  <2>. DEFINE a == ParsePath(t4)
              b == ParseQuery(a)
              c == ParseFragment(b)
  <2>2. Open(S, T, a) /\ (At(t4.left, 1) # "/" => a = t4)
    BY <1>1, <1>5, PathIs
  <2>. HIDE DEF a
  <2>3. Open(S, T, b) /\ Keeps(b, a, "query")
    BY <1>1, <2>2, QueryIs
  <2>. HIDE DEF b
  <2>4. Keeps(c, b, "fragment")
    BY <1>1, <2>3, FragmentIs
  <2>. HIDE DEF c
  <2>5. t = c
    BY <1>1 DEF PathOn, a, b, c
  <2>6. t.path = a.path
    BY <2>3, <2>4, <2>5 DEF Keeps, PartNames
  <2>. QED
    BY <1>8, <2>1, <2>2, <2>6
<1>14. PICK q \in 1 .. Len(r) : /\ t4.left = From(r, q) /\ r[q] = "/"
                                /\ \A j \in 1 .. q - 1 : r[j] # "/"
  <2>. DEFINE h == FindFirstOf(r, 1, {":", "/"})
  <2>0. Len(r) \in Nat
    BY <1>12
  <2>1. /\ h \in 1 .. Len(r) + 1 /\ (h <= Len(r) => r[h] \in {":", "/"})
        /\ \A j \in 1 .. h - 1 : j \in 1 .. Len(r) => r[j] \notin {":", "/"}
    <3>1. 1 \in Nat \ {0}
      OBVIOUS
    <3>. QED
      BY <1>12, <3>1, FindIs
  <2>. HIDE DEF h
  <2>2. t2.left = r /\ t2.scheme # {}
    BY <1>7, <1>8, <1>11 DEF r
  <2>3. r # <<>>
    <3>. SUFFICES ASSUME r = <<>> PROVE FALSE
      OBVIOUS
    <3>1. t3.left = <<>> /\ t3 = t2
      BY <1>4, <2>2
    <3>2. At(<<>>, 1) = ""
      BY DEF At
    <3>3. t4.left = <<>>
      BY <1>5, <3>1, <3>2
    <3>. QED
      BY <1>13, <3>2, <3>3
  <2>4. t3.left = From(r, h) /\ t3.host # {}
    BY <1>4, <2>2, <2>3 DEF h
  <2>5. /\ From(r, h) \in Seq(S) /\ Len(From(r, h)) = Len(r) - h + 1
        /\ \A j \in 1 .. Len(r) - h + 1 : From(r, h)[j] = r[h + j - 1]
    BY <1>12, <2>1, FromIs
  <2>6. CASE At(t3.left, 1) # ":"
    <3>1. t4.left = From(r, h)
      BY <1>5, <2>4, <2>6
    <3>2. 1 \in 1 .. Len(From(r, h))
      BY <1>13, <3>1 DEF At
    <3>3. h \in 1 .. Len(r) /\ r[h] = "/"
      BY <1>13, <2>0, <2>1, <2>5, <3>1, <3>2, SMTT(40) DEF At
    <3>4. \A j \in 1 .. h - 1 : r[j] # "/"
      BY <2>0, <2>1, <3>3
    <3>. QED
      BY <3>1, <3>3, <3>4
  <2>7. CASE At(t3.left, 1) = ":"
    <3>. DEFINE l == From(r, h)
                e == FindFirstOf(l, 2, {"/", "?", "#"})
    <3>1. t4.left = From(l, e) /\ e \in 2 .. Len(l) + 1
      BY <1>5, <2>4, <2>7
    <3>2. 1 \in 1 .. Len(l) /\ l[1] = ":"
      BY <2>4, <2>7 DEF At
    <3>3. \A j \in 2 .. e - 1 : j \in 1 .. Len(l) => l[j] \notin {"/", "?", "#"}
      <4>1. 2 \in Nat \ {0}
        OBVIOUS
      <4>. HIDE DEF l
      <4>. QED
        BY <2>5, <4>1, FindIs DEF l
    <3>. HIDE DEF e
    <3>4. Len(l) = Len(r) - h + 1 /\ l \in Seq(S) /\ h \in 1 .. Len(r)
          /\ \A j \in 1 .. Len(l) : l[j] = r[h + j - 1]
      BY <2>0, <2>1, <2>5, <3>2
    <3>. DEFINE q == h + e - 1
    <3>5. t4.left = From(r, q)
      <4>1. e \in 1 .. Len(r) - h + 2 /\ h \in 1 .. Len(r) + 1
        BY <2>0, <3>1, <3>4
      <4>2. From(From(r, h), e) = From(r, h + e - 1)
        BY <1>12, <4>1, FromFrom
      <4>. QED
        BY <3>1, <4>2
    <3>6. q \in 1 .. Len(r) + 1
      BY <2>0, <3>1, <3>4
    <3>7. /\ From(r, q) \in Seq(S) /\ Len(From(r, q)) = Len(r) - q + 1
          /\ \A j \in 1 .. Len(r) - q + 1 : From(r, q)[j] = r[q + j - 1]
      BY <1>12, <3>6, FromIs, ZenonT(40)
    <3>. HIDE DEF l
    <3>8. \A j \in 1 .. q - 1 : r[j] # "/"
      <4>. SUFFICES ASSUME NEW j \in 1 .. q - 1 PROVE r[j] # "/"
        OBVIOUS
      <4>1. CASE j < h
        <5>1. j \in 1 .. h - 1 /\ j \in 1 .. Len(r)
          BY <2>0, <3>4, <4>1
        <5>. QED
          BY <2>1, <5>1
      <4>2. CASE j >= h
        <5>. DEFINE k == j - h + 1
        <5>1. k \in 1 .. e - 1 /\ k \in 1 .. Len(l) /\ h + k - 1 = j
          BY <2>0, <3>1, <3>4, <4>2
        <5>2. l[k] # "/"
          BY <3>2, <3>3, <5>1
        <5>. HIDE DEF k
        <5>. QED
          BY <3>4, <5>1, <5>2
      <4>. QED
        BY <2>0, <3>4, <3>6, <4>1, <4>2
    <3>. HIDE DEF q
    <3>9. 1 \in 1 .. Len(From(r, q)) /\ From(r, q)[1] = "/"
      BY <1>13, <3>5 DEF At
    <3>10. q \in 1 .. Len(r) /\ r[q] = "/"
      <4>1. q + 1 - 1 = q /\ 1 \in 1 .. Len(r) - q + 1 /\ q \in 1 .. Len(r)
        BY <2>0, <3>6, <3>7, <3>9
      <4>. QED
        BY <3>7, <3>9, <4>1
    <3>. QED
      BY <3>5, <3>8, <3>10
  <2>. QED
    BY <2>6, <2>7
<1>15. FromPath(w) = t4.left /\ Len(FromPath(w)) <= Len(w)
  <2>. DEFINE k == 4 + q
  <2>1. k \in 5 .. Len(w) /\ w[k] = "/" /\ q \in Nat
    BY <1>0, <1>10, <1>12, <1>14
  <2>2. \A j \in 5 .. k - 1 : w[j] # "/"
    <3>. SUFFICES ASSUME NEW j \in 5 .. k - 1 PROVE w[j] # "/"
      OBVIOUS
    <3>1. j - 4 \in 1 .. q - 1 /\ j - 4 \in 1 .. Len(r) /\ 4 + (j - 4) = j
      BY <1>0, <1>10, <1>12, <2>1
    <3>. QED
      BY <1>12, <1>14, <3>1
  <2>3. FindFirstOf(w, 5, {"/"}) = k
    <3>1. 5 \in Nat \ {0} /\ k \in Nat /\ 5 <= k /\ k <= Len(w) + 1
      BY <1>0, <2>1
    <3>. HIDE DEF k
    <3>2. \A j \in 5 .. k - 1 : w[j] \notin {"/"}
      BY <2>2
    <3>. QED
      BY <2>1, <3>1, <3>2, FoundAt
  <2>4. FromPath(w) = From(w, k)
    BY <2>3 DEF FromPath, From
  <2>5. From(r, q) = From(w, 5 + q - 1)
    <3>1. 5 \in 1 .. Len(w) + 1 /\ q \in 1 .. Len(w) - 5 + 2
      BY <1>0, <1>10, <1>12
    <3>. QED
      BY <3>1, FromFrom DEF r
  <2>6. 5 + q - 1 = k
    BY <2>1
  <2>7. Len(From(w, k)) = Len(w) - k + 1
    <3>1. k \in 1 .. Len(w) + 1
      BY <1>0, <2>1
    <3>. HIDE DEF k
    <3>. QED
      BY <3>1, FromIs
  <2>8. Len(From(w, k)) <= Len(w)
    BY <1>0, <2>1, <2>7
  <2>. QED
    BY <1>14, <2>4, <2>5, <2>6, <2>8
<1>. DEFINE rest == FromPath(w)
            r0 == Whole(rest)
<1>16. rest \in Seq(S)
  BY <1>5, <1>15 DEF Open
<1>. HIDE DEF rest
<1>17. Parts(rest) = PathOn(r0)
  BY <1>16, OriginParts DEF rest
<1>18. Open(S, T, r0) /\ r0.left = rest /\ \A p \in PartNames : r0[p] = {}
  BY <1>16, WholeIs DEF T
<1>. HIDE DEF r0
<1>19. BehindPort(r0, t4)
  BY <1>13, <1>15, <1>18 DEF BehindPort, PartNames, rest
<1>20. BehindPort(Parts(rest), t)
  BY <1>1, <1>5, <1>17, <1>18, <1>19, PathOnAgrees
<1>21. \A p \in {"scheme", "user", "host", "port"} : Parts(rest)[p] = {}
  BY <1>1, <1>17, <1>18, PathOnKeeps DEF PartNames
<1>22. Parts(rest).fragment = {}
  BY <1>8, <1>20 DEF BehindPort
<1>23. \A p \in PartNames \ {"path", "query"} : Parts(rest)[p] = {}
  BY <1>21, <1>22 DEF PartNames
<1>. QED
  BY <1>15, <1>16, <1>20, <1>23 DEF BehindPort, rest, t

(* A target in absolute form means what is left of it behind its host.      *)
LEMMA AbsoluteAgrees ==
    ASSUME NEW S, word \in Seq(S)
    PROVE  AbsoluteFormAgrees
<1>. DEFINE rest == FromPath(word)
            t == Target(word)
            u == Target(rest)
            x == Parts(word)
            y == Parts(rest)
<1>. SUFFICES ASSUME TargetCode(word) = 200, t.scheme # {}, SchemeMarks(rest) = {}
              PROVE  TargetCode(rest) = 200 /\ u.path = t.path /\ u.query = t.query
  BY Zenon DEF AbsoluteFormAgrees
<1>1. Len(word) \in Nat /\ LengthLimit \in Nat
  BY TargetAssumption
<1>2. Len(word) <= LengthLimit /\ Validate(x) /\ Normal(x).good
  BY GoodIs
<1>3. t = Normal(x)
  BY <1>1, <1>2 DEF Target
<1>4. x.scheme # {}
  BY <1>3 DEF Normal
<1>5. /\ rest \in Seq(S) /\ Len(rest) <= Len(word)
      /\ y.path = x.path /\ y.query = x.query
      /\ \A p \in PartNames \ {"path", "query"} : y[p] = {}
  BY <1>2, <1>4, AbsoluteParts
<1>. HIDE DEF x, y, rest, t
<1>6. Validate(y)
  BY <1>2, <1>5 DEF Validate, PartNames
<1>7. Normal(y).good /\ Normal(y).path = Normal(x).path /\ Normal(y).query = Normal(x).query
  BY <1>2, <1>5 DEF Normal
<1>8. Len(rest) \in Nat /\ Len(rest) <= LengthLimit
  BY <1>1, <1>2, <1>5
<1>9. TargetCode(rest) = 200
  BY <1>5, <1>6, <1>7, <1>8, GoodIs DEF y
<1>10. u = Normal(y)
  BY <1>1, <1>6, <1>8 DEF Target, y
<1>. QED
  BY <1>3, <1>7, <1>9, <1>10

-----------------------------------------------------------------------------
(* Recursive functions, turn by turn.                                       *)

(* The values a recursive function takes, one after the other, exist.       *)
IsRun(g, n, base, step) ==
    g = [i \in 0 .. n |-> IF i = 0 THEN base ELSE step[<<g[i - 1], i>>]]

LEMMA RunExists ==
    ASSUME NEW V, NEW n \in Nat, NEW base \in V, NEW step \in [V \X (1 .. n) -> V]
    PROVE  \E g \in [0 .. n -> V] : IsRun(g, n, base, step)
<1>. DEFINE P(m) == \E g \in [0 .. m -> V] : IsRun(g, m, base, step)
            S == {m \in Nat : m <= n => P(m)}
<1>1. 0 \in S
  <2>. DEFINE g == [i \in 0 .. 0 |-> base]
  <2>1. g \in [0 .. 0 -> V]
    OBVIOUS
  <2>2. \A i \in 0 .. 0 : i = 0
    OBVIOUS
  <2>3. g = [i \in 0 .. 0 |-> IF i = 0 THEN base ELSE step[<<g[i - 1], i>>]]
    BY <2>2
  <2>4. P(0)
    BY <2>1, <2>3, Zenon DEF IsRun
  <2>. HIDE DEF P
  <2>. QED
    BY <2>4
<1>2. ASSUME NEW m \in Nat, m <= n => P(m), m + 1 <= n PROVE P(m + 1)
  <2>1. P(m) /\ m + 1 \in 1 .. n
    BY <1>2
  <2>2. PICK g \in [0 .. m -> V] : IsRun(g, m, base, step)
    BY <2>1
  <2>. DEFINE v == step[<<g[m], m + 1>>]
              h == [i \in 0 .. m + 1 |-> IF i \in 0 .. m THEN g[i] ELSE v]
  <2>3. v \in V
    <3>1. <<g[m], m + 1>> \in V \X (1 .. n)
      BY <2>1
    <3>. QED
      BY <3>1
  <2>4. h \in [0 .. m + 1 -> V]
    <3>. HIDE DEF v
    <3>. QED
      BY <2>3
  <2>5. ASSUME NEW i \in 0 .. m + 1
        PROVE  h[i] = IF i = 0 THEN base ELSE step[<<h[i - 1], i>>]
    <3>1. CASE i = 0
      <4>1. 0 \in 0 .. m /\ h[0] = g[0]
        OBVIOUS
      <4>2. g[0] = base
        BY <2>2, <4>1 DEF IsRun
      <4>. HIDE DEF h
      <4>. QED
        BY <3>1, <4>1, <4>2
    <3>2. CASE i \in 1 .. m
      <4>1. i \in 0 .. m /\ i # 0 /\ h[i] = g[i] /\ h[i - 1] = g[i - 1]
        BY <3>2
      <4>2. g[i] = step[<<g[i - 1], i>>]
        BY <2>2, <4>1 DEF IsRun
      <4>. HIDE DEF h
      <4>. QED
        BY <4>1, <4>2
    <3>3. CASE i = m + 1
      <4>1. i # 0 /\ i \notin 0 .. m /\ i - 1 = m /\ m \in 0 .. m /\ m \in 0 .. m + 1
        BY <3>3
      <4>2. h[i] = v /\ h[i - 1] = g[m]
        BY <4>1
      <4>. HIDE DEF h
      <4>. QED
        BY <3>3, <4>1, <4>2
    <3>. QED
      BY <3>1, <3>2, <3>3
  <2>. HIDE DEF h, v
  <2>6. h = [i \in 0 .. m + 1 |-> IF i = 0 THEN base ELSE step[<<h[i - 1], i>>]]
    BY <2>4, <2>5
  <2>7. IsRun(h, m + 1, base, step)
    BY <2>6, Zenon DEF IsRun
  <2>. QED
    BY <2>4, <2>7
<1>. HIDE DEF P
<1>3. \A m \in Nat : m \in S => m + 1 \in S
  BY <1>2
<1>. HIDE DEF S
<1>4. \A m \in Nat : m \in S
  BY <1>1, <1>3, Induction
<1>5. P(n)
  BY <1>4 DEF S
<1>. QED
  BY <1>5 DEF P

-----------------------------------------------------------------------------
(* The turns of the loop of RemoveDotSegments_.                             *)
DotStates(S) == [in : Seq(S), out : Seq(S), level : Int]

LEMMA RemovedIsSeq ==
    ASSUME NEW S, NEW w \in Seq(S)
    PROVE  RemoveLastSegment(w) \in Seq(S)
<1>. DEFINE slashes == {i \in 1 .. Len(w) : w[i] = "/"}
<1>1. CASE slashes = {}
  BY <1>1 DEF RemoveLastSegment
<1>2. CASE slashes # {}
  <2>1. Len(w) \in Nat /\ slashes \in SUBSET (1 .. Len(w))
    OBVIOUS
  <2>2. Max(slashes) \in 1 .. Len(w)
    <3>1. Max(slashes) \in slashes
      BY <1>2, <2>1, MaxOfRange, Zenon
    <3>. QED
      BY <3>1
  <2>3. RemoveLastSegment(w) = SubSeq(w, 1, Max(slashes) - 1)
    BY <1>2, Zenon DEF RemoveLastSegment
  <2>. HIDE DEF slashes
  <2>. QED
    BY <2>1, <2>2, <2>3
<1>. QED
  BY <1>1, <1>2

LEMMA DotStepIsState ==
    ASSUME NEW S, "/" \in S, NEW s \in DotStates(S)
    PROVE  DotStep(s) \in DotStates(S)
<1>. DEFINE in == s.in
            rest(n) == <<"/">> \o SubSeq(in, n, Len(in))
            move == FindFirstOf(in, 2, {"/"})
            up == [in |-> rest(5), out |-> RemoveLastSegment(s.out), level |-> s.level - 1]
            stay == [s EXCEPT !.in = rest(4)]
            down == [in |-> SubSeq(in, move, Len(in)),
                     out |-> s.out \o SubSeq(in, 1, move - 1), level |-> s.level + 1]
<1>1. in \in Seq(S) /\ s.out \in Seq(S) /\ s.level \in Int /\ Len(in) \in Nat
  BY DEF DotStates
<1>2. ASSUME NEW n \in Nat \ {0} PROVE rest(n) \in Seq(S)
  <2>1. SubSeq(in, n, Len(in)) \in Seq(S)
    <3>. HIDE DEF in
    <3>. QED
      BY <1>1
  <2>2. <<"/">> \in Seq(S)
    OBVIOUS
  <2>. QED
    BY <2>1, <2>2, ConcatProperties
<1>. HIDE DEF rest
<1>3. move \in 1 .. Len(in) + 1
  <2>1. 2 \in Nat \ {0}
    OBVIOUS
  <2>. QED
    BY <1>1, <2>1, FindIs
<1>. HIDE DEF in, move
<1>4. up \in DotStates(S)
  BY <1>1, <1>2, RemovedIsSeq DEF DotStates
<1>5. stay \in DotStates(S)
  BY <1>1, <1>2 DEF DotStates
<1>6. down \in DotStates(S)
  <2>1. SubSeq(in, move, Len(in)) \in Seq(S) /\ SubSeq(in, 1, move - 1) \in Seq(S)
    BY <1>1, <1>3
  <2>. QED
    BY <1>1, <2>1 DEF DotStates
<1>. HIDE DEF up, stay, down
<1>7. DotStep(s) \in {s, up, stay, down}
  BY Zenon DEF DotStep, in, rest, move, up, stay, down
<1>. QED
  BY <1>4, <1>5, <1>6, <1>7

(* The loop runs: what it has after each of its turns.                      *)
DotRun(g, w, n) ==
    /\ g[0] = [in |-> w, out |-> <<>>, level |-> 0]
    /\ \A i \in 1 .. n : g[i] = DotStep(g[i - 1])

LEMMA DotsRun ==
    ASSUME NEW S, "/" \in S, NEW w \in Seq(S)
    PROVE  \E g \in [0 .. Len(w) + 1 -> DotStates(S)] :
             DotRun(g, w, Len(w) + 1) /\ RemoveDotSegments(w) = g[Len(w) + 1]
<1>. DEFINE n == Len(w) + 1
            V == DotStates(S)
            base == [in |-> w, out |-> <<>>, level |-> 0]
            step == [p \in V \X (1 .. n) |-> DotStep(p[1])]
            F(g) == [i \in 0 .. n |-> IF i = 0 THEN base ELSE DotStep(g[i - 1])]
            f == CHOOSE g : g = F(g)
<1>1. base \in V /\ n \in Nat
  BY DEF DotStates
<1>2. step \in [V \X (1 .. n) -> V]
  BY DotStepIsState
<1>. HIDE DEF V, base
<1>3. PICK g \in [0 .. n -> V] : IsRun(g, n, base, step)
  <2>. HIDE DEF step, n
  <2>. QED
    BY <1>1, <1>2, RunExists
<1>4. ASSUME NEW i \in 0 .. n
      PROVE  g[i] = IF i = 0 THEN base ELSE DotStep(g[i - 1])
  <2>1. CASE i = 0
    BY <1>3, <2>1 DEF IsRun
  <2>2. CASE i # 0
    <3>. DEFINE p == <<g[i - 1], i>>
    <3>1. p \in V \X (1 .. n)
      BY <1>1, <2>2
    <3>2. step[p] = DotStep(p[1])
      <4>. HIDE DEF p
      <4>. QED
        BY <3>1
    <3>3. g[i] = step[p]
      BY <1>3, <2>2, Zenon DEF IsRun
    <3>. QED
      BY <2>2, <3>2, <3>3
  <2>. QED
    BY <2>1, <2>2
<1>5. g = F(g)
  BY <1>4
<1>6. f = F(f)
  BY <1>5, Zenon
<1>7. RemoveDotSegments(w) = f[n]
  BY Zenon DEF RemoveDotSegments, base
<1>. HIDE DEF f
<1>8. DotRun(f, w, n)
  <2>1. 0 \in 0 .. n /\ \A i \in 1 .. n : i \in 0 .. n /\ i # 0
    BY <1>1
  <2>2. \A i \in 0 .. n : f[i] = IF i = 0 THEN base ELSE DotStep(f[i - 1])
    BY <1>6
  <2>. HIDE DEF n
  <2>. QED
    BY <2>1, <2>2 DEF DotRun, base
<1>. DEFINE T == {i \in Nat : i \in 0 .. n => f[i] = g[i]}
<1>9. 0 \in T
  BY <1>1, <1>4, <1>8 DEF DotRun, base
<1>10. ASSUME NEW i \in Nat, i \in T PROVE i + 1 \in T
  <2>. SUFFICES ASSUME i + 1 \in 0 .. n PROVE f[i + 1] = g[i + 1]
    OBVIOUS
  <2>1. i + 1 \in 1 .. n /\ i \in 0 .. n /\ (i + 1) - 1 = i /\ i + 1 # 0
    BY <1>1
  <2>2. f[i] = g[i]
    BY <1>10, <2>1
  <2>3. f[i + 1] = DotStep(f[(i + 1) - 1])
    BY <1>8, <2>1, Zenon DEF DotRun
  <2>4. g[i + 1] = DotStep(g[(i + 1) - 1])
    BY <1>4, <2>1
  <2>. QED
    BY <2>1, <2>2, <2>3, <2>4, Zenon
<1>. HIDE DEF T
<1>11. \A i \in Nat : i \in T
  BY <1>9, <1>10, Induction
<1>12. \A i \in 0 .. n : f[i] = g[i]
  BY <1>11 DEF T
<1>13. f = g
  BY <1>6, <1>12
<1>. QED
  BY <1>7, <1>8, <1>13 DEF V

-----------------------------------------------------------------------------
(* Escapes.                                                                 *)

(* Percents begin escapes of two digits, which Validate_ sees to.           *)
Escaped(w) ==
    \A i \in 1 .. Len(w) : w[i] = "%" => i + 2 <= Len(w) /\ w[i + 1] \in Hex /\ w[i + 2] \in Hex

(* What PercentDecode makes of one place, and PercentEncode of a character. *)
DecodedAt(w, keep, i) ==
    LET c == OctetOf(w[i + 1], w[i + 2]) IN
    CASE At(w, i - 1) = "%" \/ At(w, i - 2) = "%" -> <<>>
      [] "%" \notin {At(w, i - 1), At(w, i - 2), w[i]} -> <<w[i]>>
      [] OTHER -> IF c \in keep \cup {"NUL"} THEN SubSeq(w, i, i + 2) ELSE <<c>>
EscapeOf(c) == CHOOSE p \in HexUpper \X HexUpper : OctetOf(p[1], p[2]) = c

(* The alphabets their results are written in.                              *)
Octets(S) == S \cup {OctetOf(a, b) : a \in S, b \in S}
Uppers(S) == S \cup {Upper(c) : c \in S}
Escapes(S) == S \cup {"%"} \cup {EscapeOf(c)[1] : c \in S} \cup {EscapeOf(c)[2] : c \in S}

LEMMA AllowedIsEscaped ==
    ASSUME NEW S, NEW w \in Seq(S), NEW chars, "%" \notin chars, Allowed(w, chars)
    PROVE  Escaped(w)
<1>. SUFFICES ASSUME NEW i \in 1 .. Len(w), w[i] = "%"
              PROVE  i + 2 <= Len(w) /\ w[i + 1] \in Hex /\ w[i + 2] \in Hex
  BY DEF Escaped
<1>1. At(w, i + 1) \in Hex /\ At(w, i + 2) \in Hex
  BY DEF Allowed, IsEncodedOctet
<1>2. "" \notin Hex
  BY DEF Hex, HexUpper
<1>3. i + 1 \in 1 .. Len(w) /\ i + 2 \in 1 .. Len(w)
  BY <1>1, <1>2, Zenon DEF At
<1>4. At(w, i + 1) = w[i + 1] /\ At(w, i + 2) = w[i + 2]
  BY <1>3, Zenon DEF At
<1>. QED
  BY <1>1, <1>3, <1>4

(* The three things a place is decoded to.                                  *)
LEMMA DecodedIs ==
    ASSUME NEW S, NEW w \in Seq(S), Escaped(w), NEW keep, NEW i \in 1 .. Len(w)
    PROVE  /\ At(w, i - 1) = "%" \/ At(w, i - 2) = "%" =>
                w[i] \in Hex /\ DecodedAt(w, keep, i) = <<>>
           /\ w[i] = "%" => /\ At(w, i - 1) # "%" /\ At(w, i - 2) # "%"
                            /\ i + 2 <= Len(w) /\ w[i + 1] \in Hex /\ w[i + 2] \in Hex
                            /\ DecodedAt(w, keep, i) =
                                  IF OctetOf(w[i + 1], w[i + 2]) \in keep \cup {"NUL"}
                                  THEN SubSeq(w, i, i + 2)
                                  ELSE <<OctetOf(w[i + 1], w[i + 2])>>
           /\ w[i] # "%" /\ At(w, i - 1) # "%" /\ At(w, i - 2) # "%" =>
                DecodedAt(w, keep, i) = <<w[i]>>
<1>0. "%" \notin Hex /\ Len(w) \in Nat
  BY DEF Hex, HexUpper
<1>1. ASSUME At(w, i - 1) = "%" \/ At(w, i - 2) = "%"
      PROVE  w[i] \in Hex /\ DecodedAt(w, keep, i) = <<>>
  <2>1. DecodedAt(w, keep, i) = <<>>
    BY <1>1, Zenon DEF DecodedAt
  <2>2. w[i] \in Hex
    <3>1. CASE At(w, i - 1) = "%"
      <4>1. i - 1 \in 1 .. Len(w) /\ w[i - 1] = "%" /\ (i - 1) + 1 = i
        BY <1>0, <3>1 DEF At
      <4>. QED
        BY <4>1, Zenon DEF Escaped
    <3>2. CASE At(w, i - 2) = "%"
      <4>1. i - 2 \in 1 .. Len(w) /\ w[i - 2] = "%" /\ (i - 2) + 2 = i
        BY <1>0, <3>2 DEF At
      <4>. QED
        BY <4>1, Zenon DEF Escaped
    <3>. QED
      BY <1>1, <3>1, <3>2
  <2>. QED
    BY <2>1, <2>2
<1>2. ASSUME w[i] = "%"
      PROVE  /\ At(w, i - 1) # "%" /\ At(w, i - 2) # "%"
             /\ i + 2 <= Len(w) /\ w[i + 1] \in Hex /\ w[i + 2] \in Hex
             /\ DecodedAt(w, keep, i) =
                   IF OctetOf(w[i + 1], w[i + 2]) \in keep \cup {"NUL"}
                   THEN SubSeq(w, i, i + 2)
                   ELSE <<OctetOf(w[i + 1], w[i + 2])>>
  <2>1. At(w, i - 1) # "%" /\ At(w, i - 2) # "%"
    BY <1>0, <1>1, <1>2
  <2>2. DecodedAt(w, keep, i) =
                   IF OctetOf(w[i + 1], w[i + 2]) \in keep \cup {"NUL"}
                   THEN SubSeq(w, i, i + 2)
                   ELSE <<OctetOf(w[i + 1], w[i + 2])>>
    BY <1>2, <2>1, Zenon DEF DecodedAt
  <2>. QED
    BY <1>2, <2>1, <2>2 DEF Escaped
<1>3. ASSUME w[i] # "%", At(w, i - 1) # "%", At(w, i - 2) # "%"
      PROVE  DecodedAt(w, keep, i) = <<w[i]>>
  BY <1>3, Zenon DEF DecodedAt
<1>. QED
  BY <1>1, <1>2, <1>3

LEMMA DecodedIsSeq ==
    ASSUME NEW S, NEW w \in Seq(S), Escaped(w), NEW keep
    PROVE  /\ \A i \in 1 .. Len(w) : DecodedAt(w, keep, i) \in Seq(Octets(S))
           /\ [i \in 1 .. Len(w) |-> DecodedAt(w, keep, i)] \in Seq(Seq(Octets(S)))
           /\ PercentDecode(w, keep) = FlattenSeq([i \in 1 .. Len(w) |-> DecodedAt(w, keep, i)])
           /\ PercentDecode(w, keep) \in Seq(Octets(S))
<1>. DEFINE O == Octets(S)
            f == [i \in 1 .. Len(w) |-> DecodedAt(w, keep, i)]
<1>1. ASSUME NEW i \in 1 .. Len(w) PROVE DecodedAt(w, keep, i) \in Seq(O)
  <2>. DEFINE c == OctetOf(w[i + 1], w[i + 2])
  <2>1. <<>> \in Seq(O) /\ <<w[i]>> \in Seq(O)
    BY DEF Octets
  <2>2. ASSUME w[i] = "%" PROVE SubSeq(w, i, i + 2) \in Seq(O) /\ <<c>> \in Seq(O)
    <3>1. i + 2 <= Len(w) /\ i + 1 \in 1 .. Len(w) /\ i + 2 \in 1 .. Len(w)
      BY <2>2 DEF Escaped
    <3>2. c \in O
      BY <3>1 DEF Octets
    <3>3. SubSeq(w, i, i + 2) \in Seq(S)
      BY <3>1
    <3>4. S \subseteq O
      BY DEF Octets
    <3>. HIDE DEF c, O
    <3>. QED
      BY <3>2, <3>3, <3>4
  <2>3. CASE At(w, i - 1) = "%" \/ At(w, i - 2) = "%"
    <3>1. DecodedAt(w, keep, i) = <<>>
      BY <2>3, DecodedIs
    <3>. QED
      BY <2>1, <3>1, Zenon
  <2>4. CASE w[i] = "%"
    <3>. HIDE DEF O
    <3>1. DecodedAt(w, keep, i) \in {SubSeq(w, i, i + 2), <<c>>}
      BY <2>4, DecodedIs
    <3>. QED
      BY <2>2, <2>4, <3>1, Zenon
  <2>5. CASE w[i] # "%" /\ At(w, i - 1) # "%" /\ At(w, i - 2) # "%"
    <3>1. DecodedAt(w, keep, i) = <<w[i]>>
      BY <2>5, DecodedIs
    <3>. QED
      BY <2>1, <3>1, Zenon
  <2>. QED
    BY <2>3, <2>4, <2>5
<1>2. f \in Seq(Seq(O))
  <2>. HIDE DEF O
  <2>1. f \in [1 .. Len(w) -> Seq(O)] /\ Len(w) \in Nat
    BY <1>1
  <2>. QED
    BY <2>1, FunctionIsSeq
<1>3. PercentDecode(w, keep) = FlattenSeq(f)
  BY Zenon DEF PercentDecode, DecodedAt
<1>. HIDE DEF f, O
<1>4. FlattenSeq(f) \in Seq(O)
  BY <1>2, FlattenType
<1>. QED
  BY <1>1, <1>2, <1>3, <1>4 DEF O, f

LEMMA ConvertedIs ==
    ASSUME NEW S, NEW w \in Seq(S)
    PROVE  /\ ConvertEncodedHexToUpper(w) \in Seq(Uppers(S))
           /\ Len(ConvertEncodedHexToUpper(w)) = Len(w)
           /\ \A i \in 1 .. Len(w) : ConvertEncodedHexToUpper(w)[i] \in {w[i], Upper(w[i])}
<1>. DEFINE v == ConvertEncodedHexToUpper(w)
<1>1. Len(w) \in Nat /\ \A i \in 1 .. Len(w) : w[i] \in S
  OBVIOUS
<1>2. v \in [1 .. Len(w) -> Uppers(S)]
  BY <1>1 DEF ConvertEncodedHexToUpper, Uppers
<1>3. \A i \in 1 .. Len(w) : v[i] \in {w[i], Upper(w[i])}
  BY <1>1 DEF ConvertEncodedHexToUpper
<1>. HIDE DEF v
<1>4. v \in Seq(Uppers(S)) /\ Len(v) = Len(w)
  BY <1>1, <1>2, FunctionIsSeq
<1>. QED
  BY <1>3, <1>4 DEF v

(* What CollapseSlashes makes of one place.                                 *)
CollapsedAt(w, i) == IF w[i] = "/" /\ i > 1 /\ At(w, i + 1) = "/" THEN <<>> ELSE <<w[i]>>

LEMMA CollapsedIsSeq ==
    ASSUME NEW S, NEW w \in Seq(S)
    PROVE  /\ \A i \in 1 .. Len(w) : CollapsedAt(w, i) \in Seq(S)
           /\ [i \in 1 .. Len(w) |-> CollapsedAt(w, i)] \in Seq(Seq(S))
           /\ CollapseSlashes(w) = FlattenSeq([i \in 1 .. Len(w) |-> CollapsedAt(w, i)])
           /\ CollapseSlashes(w) \in Seq(S)
<1>. DEFINE f == [i \in 1 .. Len(w) |-> CollapsedAt(w, i)]
<1>1. ASSUME NEW i \in 1 .. Len(w) PROVE CollapsedAt(w, i) \in Seq(S)
  BY DEF CollapsedAt
<1>2. f \in Seq(Seq(S))
  <2>1. f \in [1 .. Len(w) -> Seq(S)] /\ Len(w) \in Nat
    BY <1>1
  <2>. QED
    BY <2>1, FunctionIsSeq
<1>3. CollapseSlashes(w) = FlattenSeq(f)
  BY Zenon DEF CollapseSlashes, CollapsedAt
<1>. HIDE DEF f
<1>4. FlattenSeq(f) \in Seq(S)
  BY <1>2, FlattenType
<1>. QED
  BY <1>1, <1>2, <1>3, <1>4 DEF f

LEMMA EncodedIsSeq ==
    ASSUME NEW S, NEW w \in Seq(S), NEW keep
    PROVE  PercentEncode(w, keep) \in Seq(Escapes(S))
<1>. DEFINE f == [i \in 1 .. Len(w) |->
                   IF w[i] \in Unreserved \cup keep THEN <<w[i]>>
                   ELSE <<"%", EscapeOf(w[i])[1], EscapeOf(w[i])[2]>>]
<1>1. ASSUME NEW i \in 1 .. Len(w)
      PROVE  /\ <<w[i]>> \in Seq(Escapes(S))
             /\ <<"%", EscapeOf(w[i])[1], EscapeOf(w[i])[2]>> \in Seq(Escapes(S))
  <2>1. w[i] \in Escapes(S) /\ "%" \in Escapes(S)
        /\ EscapeOf(w[i])[1] \in Escapes(S) /\ EscapeOf(w[i])[2] \in Escapes(S)
    BY DEF Escapes
  <2>. QED
    BY <2>1
<1>2. f \in Seq(Seq(Escapes(S)))
  <2>1. f \in [1 .. Len(w) -> Seq(Escapes(S))] /\ Len(w) \in Nat
    BY <1>1
  <2>. QED
    BY <2>1, FunctionIsSeq
<1>3. PercentEncode(w, keep) = FlattenSeq(f)
  BY Zenon DEF PercentEncode, EscapeOf
<1>. HIDE DEF f
<1>. QED
  BY <1>2, <1>3, FlattenType

-----------------------------------------------------------------------------
(* Targets are words, redirected ones too.                                  *)

LEMMA SeqWider ==
    ASSUME NEW S, NEW T, S \subseteq T
    PROVE  Seq(S) \subseteq Seq(T)
OBVIOUS

LEMMA PartsAre ==
    ASSUME NEW S, NEW w \in Seq(S)
    PROVE  Parts(w) \in Targets(Lowers(S))
<1>. DEFINE T == Lowers(S)
            t0 == Whole(w)
            t1 == ParseScheme(t0)
            t2 == ParseUserInfo(t1)
            t3 == ParseHost(t2)
            t4 == ParsePort(t3)
            t5 == ParsePath(t4)
            t6 == ParseQuery(t5)
            t7 == ParseFragment(t6)
<1>1. Wide(S, T) /\ Open(S, T, t0) /\ t0.left = w /\ (\A p \in PartNames : t0[p] = {})
      /\ Parts(w) = PathOn(t4)
  BY WholeIs
<1>. HIDE DEF T, t0
<1>2. Open(S, T, t1)
  BY <1>1, SchemeIs
<1>. HIDE DEF t1
<1>3. Open(S, T, t2)
  BY <1>1, <1>2, UserIs
<1>. HIDE DEF t2
<1>4. Open(S, T, t3)
  BY <1>1, <1>3, HostIs
<1>. HIDE DEF t3
<1>5. Open(S, T, t4)
  BY <1>1, <1>4, PortIs
<1>. HIDE DEF t4
<1>6. Open(S, T, t5)
  BY <1>1, <1>5, PathIs
<1>. HIDE DEF t5
<1>7. Open(S, T, t6)
  BY <1>1, <1>6, QueryIs
<1>. HIDE DEF t6
<1>8. Open(S, T, t7)
  BY <1>1, <1>7, FragmentIs
<1>9. Parts(w) = t7
  BY <1>1 DEF PathOn, t5, t6, t7
<1>. QED
  BY <1>8, <1>9 DEF Open, T

(* The path of a target that is let pass, before and after it is resolved.  *)
PathPart(t) == CHOOSE p \in t.path : TRUE
Spelled(p) == CollapseSlashes(ConvertEncodedHexToUpper(PercentDecode(p, {"/"})))
Reached(S) == Uppers(Octets(S)) \cup {"/"}

LEMMA PathPartIs ==
    ASSUME NEW t, Validate(t)
    PROVE  PathPart(t) \in t.path /\ ValidatePath(PathPart(t))
BY DEF Validate, PathPart

LEMMA PathIsEscaped ==
    ASSUME NEW S, NEW p \in Seq(S), ValidatePath(p)
    PROVE  Escaped(p)
<1>. DEFINE chars == Unreserved \cup {"=", "&", ":", "@", "/"}
<1>1. "%" \notin chars
  BY DEF Unreserved, Hex, HexUpper, Letters
<1>2. Allowed(p, chars)
  BY DEF ValidatePath
<1>. HIDE DEF chars
<1>. QED
  BY <1>1, <1>2, AllowedIsEscaped

LEMMA HostIsEscaped ==
    ASSUME NEW S, NEW h \in Seq(S), ValidateHost(h)
    PROVE  Escaped(h)
<1>1. "%" \notin Unreserved
  BY DEF Unreserved, Hex, HexUpper, Letters
<1>. QED
  BY <1>1, AllowedIsEscaped DEF ValidateHost

LEMMA QueryIsEscaped ==
    ASSUME NEW S, NEW q \in Seq(S), ValidateQuery(q)
    PROVE  Escaped(q)
<1>. DEFINE chars == Unreserved \cup {"=", "&", ":", "@", "/", "?"}
<1>1. "%" \notin chars
  BY DEF Unreserved, Hex, HexUpper, Letters
<1>2. Allowed(q, chars)
  BY DEF ValidateQuery
<1>. HIDE DEF chars
<1>. QED
  BY <1>1, <1>2, AllowedIsEscaped

LEMMA RewrittenIsSeq ==
    ASSUME NEW S, NEW w \in Seq(S), Escaped(w), NEW keep
    PROVE  ConvertEncodedHexToUpper(PercentDecode(w, keep)) \in Seq(Uppers(Octets(S)))
<1>1. PercentDecode(w, keep) \in Seq(Octets(S))
  BY DecodedIsSeq
<1>. QED
  BY <1>1, ConvertedIs

LEMMA SpelledIsSeq ==
    ASSUME NEW S, NEW p \in Seq(S), Escaped(p)
    PROVE  Spelled(p) \in Seq(Uppers(Octets(S)))
<1>1. ConvertEncodedHexToUpper(PercentDecode(p, {"/"})) \in Seq(Uppers(Octets(S)))
  BY RewrittenIsSeq
<1>. QED
  BY <1>1, CollapsedIsSeq DEF Spelled

LEMMA NormalIsSeqs ==
    ASSUME NEW S, NEW t \in Targets(S), Validate(t)
    PROVE  LET X == S \cup Reached(S)
               n == Normal(t)
           IN  /\ n.scheme \subseteq Seq(X) /\ n.host \subseteq Seq(X) /\ n.port \subseteq Seq(X)
               /\ n.path \in Seq(X) /\ n.query \subseteq Seq(X)
<1>. DEFINE R == Reached(S)
            U == Uppers(Octets(S))
            X == S \cup R
            n == Normal(t)
            path == RemoveDotSegments(Spelled(PathPart(t)))
<1>1. Seq(S) \subseteq Seq(X) /\ Seq(R) \subseteq Seq(X) /\ Seq(U) \subseteq Seq(R)
  <2>1. S \subseteq X /\ R \subseteq X /\ U \subseteq R
    BY DEF Reached
  <2>. HIDE DEF X, R, U
  <2>. QED
    BY <2>1, SeqWider
<1>2. /\ n.scheme = t.scheme
      /\ n.host = {ConvertEncodedHexToUpper(PercentDecode(h, {})) : h \in t.host}
      /\ n.port = t.port \ {<<"80">>}
      /\ n.path = path.out
      /\ n.query = {ConvertEncodedHexToUpper(PercentDecode(q, {"&", "="})) : q \in t.query}
  BY DEF Normal, Spelled, PathPart
<1>3. /\ t.scheme \subseteq Seq(S) /\ t.host \subseteq Seq(S) /\ t.port \subseteq Seq(S)
      /\ t.path \subseteq Seq(S) /\ t.query \subseteq Seq(S)
  BY DEF Targets
<1>4. /\ \A h \in t.host : ValidateHost(h)
      /\ \A q \in t.query : ValidateQuery(q)
  BY DEF Validate
<1>5. path.out \in Seq(R)
  <2>1. PathPart(t) \in Seq(S) /\ Escaped(PathPart(t))
    BY <1>3, PathPartIs, PathIsEscaped
  <2>2. Spelled(PathPart(t)) \in Seq(R)
    <3>. HIDE DEF R, U
    <3>1. Spelled(PathPart(t)) \in Seq(U)
      BY <2>1, SpelledIsSeq DEF U
    <3>. QED
      BY <1>1, <3>1
  <2>3. "/" \in R
    BY DEF Reached
  <2>. DEFINE w == Spelled(PathPart(t))
  <2>. HIDE DEF R, w
  <2>4. PICK g \in [0 .. Len(w) + 1 -> DotStates(R)] :
           RemoveDotSegments(w) = g[Len(w) + 1]
    BY <2>2, <2>3, DotsRun DEF w
  <2>5. Len(w) \in Nat
    BY <2>2 DEF w
  <2>6. RemoveDotSegments(w) \in DotStates(R)
    BY <2>4, <2>5
  <2>. QED
    BY <2>6 DEF DotStates, w
<1>6. \A h \in t.host : ConvertEncodedHexToUpper(PercentDecode(h, {})) \in Seq(R)
  <2>. HIDE DEF R, X, U, n, path
  <2>. SUFFICES ASSUME NEW h \in t.host
                PROVE  ConvertEncodedHexToUpper(PercentDecode(h, {})) \in Seq(R)
    OBVIOUS
  <2>1. ConvertEncodedHexToUpper(PercentDecode(h, {})) \in Seq(U)
    BY <1>3, <1>4, HostIsEscaped, RewrittenIsSeq DEF U
  <2>. QED
    BY <1>1, <2>1
<1>7. \A q \in t.query : ConvertEncodedHexToUpper(PercentDecode(q, {"&", "="})) \in Seq(R)
  <2>. HIDE DEF R, X, U, n, path
  <2>. SUFFICES ASSUME NEW q \in t.query
                PROVE  ConvertEncodedHexToUpper(PercentDecode(q, {"&", "="})) \in Seq(R)
    OBVIOUS
  <2>1. ConvertEncodedHexToUpper(PercentDecode(q, {"&", "="})) \in Seq(U)
    BY <1>3, <1>4, QueryIsEscaped, RewrittenIsSeq DEF U
  <2>. QED
    BY <1>1, <2>1
<1>. HIDE DEF X, R, U, n, path
<1>8. n.scheme \subseteq Seq(X) /\ n.host \subseteq Seq(X) /\ n.port \subseteq Seq(X)
      /\ n.path \in Seq(X) /\ n.query \subseteq Seq(X)
  BY <1>1, <1>2, <1>3, <1>5, <1>6, <1>7
<1>. QED
  BY <1>8 DEF X, R, n

(* One part of a target in its text.                                        *)
OnePart(P, before, after) ==
    IF P = {} THEN <<>> ELSE before \o (CHOOSE x \in P : TRUE) \o after

LEMMA OnePartIs ==
    ASSUME NEW Y, NEW P \in SUBSET Seq(Y), NEW before \in Seq(Y), NEW after \in Seq(Y)
    PROVE  OnePart(P, before, after) \in Seq(Y)
<1>1. CASE P = {}
  BY <1>1 DEF OnePart
<1>2. CASE P # {}
  <2>. DEFINE x == CHOOSE x \in P : TRUE
  <2>1. x \in Seq(Y)
    BY <1>2
  <2>2. OnePart(P, before, after) = before \o x \o after
    BY <1>2 DEF OnePart
  <2>. HIDE DEF x
  <2>3. before \o x \in Seq(Y)
    BY <2>1
  <2>. QED
    BY <2>2, <2>3
<1>. QED
  BY <1>1, <1>2

(* The Location a redirect names is a text again.                           *)
LEMMA LocationIsSeq ==
    ASSUME NEW S, NEW w \in Seq(S), TargetCode(w) = 200
    PROVE  \E Y : ToStr(AddTrailingSlashToPath(Target(w))) \in Seq(Y)
<1>. DEFINE T == Lowers(S)
            X == T \cup Reached(T)
            n == Normal(Parts(w))
            a == AddTrailingSlashToPath(n)
            Y == X \cup Escapes(X \cup {"/"}) \cup {":", "/", "?"}
<1>0. Len(w) \in Nat /\ LengthLimit \in Nat
  BY TargetAssumption
<1>1. Len(w) <= LengthLimit /\ Validate(Parts(w)) /\ Target(w) = n
  <2>1. Len(w) <= LengthLimit /\ Validate(Parts(w))
    BY GoodIs
  <2>. QED
    BY <1>0, <2>1 DEF Target
<1>2. /\ n.scheme \subseteq Seq(X) /\ n.host \subseteq Seq(X) /\ n.port \subseteq Seq(X)
      /\ n.path \in Seq(X) /\ n.query \subseteq Seq(X)
  BY <1>1, PartsAre, NormalIsSeqs
<1>3. a.scheme = n.scheme /\ a.host = n.host /\ a.port = n.port /\ a.query = n.query
      /\ a.path \in {n.path, n.path \o <<"/">>}
  BY DEF AddTrailingSlashToPath, Normal
<1>. HIDE DEF X, a, n
<1>4. a.path \in Seq(X \cup {"/"})
  <2>. DEFINE Z == X \cup {"/"}
  <2>1. Seq(X) \subseteq Seq(Z) /\ <<"/">> \in Seq(Z)
    BY SeqWider
  <2>. HIDE DEF Z
  <2>2. n.path \in Seq(Z)
    BY <1>2, <2>1
  <2>3. n.path \o <<"/">> \in Seq(Z)
    BY <2>1, <2>2
  <2>4. a.path \in Seq(Z)
    BY <1>3, <2>2, <2>3
  <2>. QED
    BY <2>4 DEF Z
<1>5. Seq(X) \subseteq Seq(Y) /\ Seq(Escapes(X \cup {"/"})) \subseteq Seq(Y)
      /\ Seq(Escapes(X)) \subseteq Seq(Y)
      /\ <<>> \in Seq(Y) /\ <<":", "/", "/">> \in Seq(Y) /\ <<":">> \in Seq(Y) /\ <<"?">> \in Seq(Y)
  <2>1. X \subseteq Y /\ Escapes(X \cup {"/"}) \subseteq Y /\ Escapes(X) \subseteq Y
        /\ ":" \in Y /\ "/" \in Y /\ "?" \in Y
    BY DEF Escapes
  <2>. HIDE DEF Y
  <2>2. Seq(X) \subseteq Seq(Y) /\ Seq(Escapes(X \cup {"/"})) \subseteq Seq(Y)
        /\ Seq(Escapes(X)) \subseteq Seq(Y)
    BY <2>1, SeqWider, Zenon
  <2>3. <<>> \in Seq(Y) /\ <<":", "/", "/">> \in Seq(Y) /\ <<":">> \in Seq(Y) /\ <<"?">> \in Seq(Y)
    BY <2>1
  <2>. QED
    BY <2>2, <2>3
<1>. HIDE DEF Y
<1>. DEFINE none == <<>>
            mark == <<":", "/", "/">>
            colon == <<":">>
            asks == <<"?">>
            p1 == OnePart(a.scheme, none, mark)
            p2 == OnePart(a.host, none, none)
            p3 == OnePart(a.port, colon, none)
            p4 == PercentEncode(a.path, {"/"})
            p5 == OnePart({PercentEncode(q, {"&", "="}) : q \in a.query}, asks, none)
<1>7. ToStr(a) = p1 \o p2 \o p3 \o p4 \o p5
  BY Zenon DEF ToStr, OnePart
<1>15. {none, mark, colon, asks} \subseteq Seq(Y)
  BY <1>5
<1>. HIDE DEF none, mark, colon, asks
<1>8. p1 \in Seq(Y) /\ p2 \in Seq(Y) /\ p3 \in Seq(Y)
  <2>1. a.scheme \in SUBSET Seq(Y) /\ a.host \in SUBSET Seq(Y) /\ a.port \in SUBSET Seq(Y)
    BY <1>2, <1>3, <1>5
  <2>5. \A P \in SUBSET Seq(Y) : \A b, c \in Seq(Y) : OnePart(P, b, c) \in Seq(Y)
    BY OnePartIs
  <2>. QED
    BY <1>15, <2>1, <2>5
<1>9. p4 \in Seq(Y)
  <2>1. PercentEncode(a.path, {"/"}) \in Seq(Escapes(X \cup {"/"}))
    BY <1>4, EncodedIsSeq
  <2>. QED
    BY <1>5, <2>1
<1>10. p5 \in Seq(Y)
  <2>1. \A q \in a.query : PercentEncode(q, {"&", "="}) \in Seq(Y)
    <3>. SUFFICES ASSUME NEW q \in a.query PROVE PercentEncode(q, {"&", "="}) \in Seq(Y)
      OBVIOUS
    <3>1. q \in Seq(X)
      BY <1>2, <1>3
    <3>2. PercentEncode(q, {"&", "="}) \in Seq(Escapes(X))
      BY <3>1, EncodedIsSeq
    <3>. QED
      BY <1>5, <3>2
  <2>2. {PercentEncode(q, {"&", "="}) : q \in a.query} \in SUBSET Seq(Y)
    BY <2>1
  <2>. QED
    BY <1>15, OnePartIs, <2>2
<1>. HIDE DEF p1, p2, p3, p4, p5
<1>11. p1 \o p2 \in Seq(Y)
  BY <1>8
<1>12. p1 \o p2 \o p3 \in Seq(Y)
  BY <1>8, <1>11
<1>13. p1 \o p2 \o p3 \o p4 \in Seq(Y)
  BY <1>9, <1>12
<1>14. ToStr(a) \in Seq(Y)
  BY <1>7, <1>10, <1>13
<1>. QED
  BY <1>1, <1>14 DEF a

-----------------------------------------------------------------------------
(* Every target of a client is a text over some alphabet; which, grows with *)
(* what escapes stand for.                                                  *)
IsText == start \in Starts /\ \E S : word \in Seq(S)

LEMMA TextStep ==
    ASSUME IsText, [TgNext]_tgVars
    PROVE  IsText'
<1>1. PICK S : word \in Seq(S)
  BY DEF IsText
<1>2. start \in Starts
  BY DEF IsText
<1>3. CASE NewTarget
  <2>1. start' \in Starts /\ word' \in Seq(STRING)
    BY <1>3, TargetAssumption DEF NewTarget
  <2>. QED
    BY <2>1 DEF IsText
<1>4. CASE Grow
  <2>. DEFINE T == S \cup STRING
  <2>1. PICK p \in Pieces[start] : word' = word \o p
    BY <1>4 DEF Grow
  <2>2. p \in Seq(STRING) /\ start' = start
    BY <1>2, <1>4, <2>1, TargetAssumption DEF Grow
  <2>3. word \in Seq(T) /\ p \in Seq(T)
    <3>1. Seq(S) \subseteq Seq(T) /\ Seq(STRING) \subseteq Seq(T)
      BY SeqWider
    <3>. HIDE DEF T
    <3>. QED
      BY <1>1, <2>2, <3>1
  <2>. HIDE DEF T
  <2>4. word' \in Seq(T)
    BY <2>1, <2>3
  <2>. QED
    BY <1>2, <2>2, <2>4 DEF IsText
<1>5. CASE Redirect
  <2>1. TargetCode(word) = 200 /\ start' = start
        /\ word' = ToStr(AddTrailingSlashToPath(Target(word)))
    BY <1>5 DEF Redirect
  <2>2. \E Y : word' \in Seq(Y)
    BY <1>1, <2>1, LocationIsSeq
  <2>. QED
    BY <1>2, <2>1, <2>2 DEF IsText
<1>6. CASE UNCHANGED tgVars
  BY <1>6 DEF tgVars, IsText
<1>. QED
  BY <1>3, <1>4, <1>5, <1>6 DEF TgNext

LEMMA TextAlways == TgSpec => []IsText
<1>1. TgInit => IsText
  <2>. SUFFICES ASSUME TgInit PROVE IsText
    OBVIOUS
  <2>1. start \in Starts /\ word \in Seq(STRING)
    BY TargetAssumption DEF TgInit
  <2>. QED
    BY <2>1 DEF IsText
<1>2. IsText /\ [TgNext]_tgVars => IsText'
  BY TextStep
<1>. QED
  BY <1>1, <1>2, PTL DEF TgSpec

(* A target in absolute form that is served is served as what follows its   *)
(* host and port would be: ParseRqTarget's scheme, host and port change     *)
(* nothing of the path and the query.                                       *)
THEOREM HostsAreLeftOut == TgSpec => []AbsoluteFormAgrees
<1>1. IsText => AbsoluteFormAgrees
  BY AbsoluteAgrees DEF IsText
<1>. QED
  BY <1>1, TextAlways, PTL

-----------------------------------------------------------------------------
(* Walks through the tree.                                                  *)

(* Walks through a tree: from the root, a step for each slash of a text, to *)
(* where the segment behind it leads.                                       *)
Places(S) == [lost : BOOLEAN, names : Seq(Seq(S))]
Root == [lost |-> FALSE, names |-> <<>>]
IsWalk(P, w, X) ==
    /\ P[0] = Root
    /\ \A i \in 1 .. Len(w) : P[i] = IF w[i] = "/" THEN Walk(P[i - 1], X[i]) ELSE P[i - 1]

LEMMA WalkIs ==
    ASSUME NEW S, NEW p \in Places(S), NEW s \in Seq(S)
    PROVE  /\ Walk(p, s) \in Places(S)
           /\ p.lost \/ s \in {<<>>, <<".">>} => Walk(p, s) = p
           /\ ~p.lost /\ s = <<".", ".">> /\ p.names = <<>> =>
                Walk(p, s) = [lost |-> TRUE, names |-> <<>>]
           /\ ~p.lost /\ s = <<".", ".">> /\ p.names # <<>> =>
                Walk(p, s) = [lost |-> FALSE, names |-> Front(p.names)]
           /\ ~p.lost /\ s \notin Dots =>
                Walk(p, s) = [lost |-> FALSE, names |-> Append(p.names, s)]
<1>1. /\ p.lost \in BOOLEAN /\ p.names \in Seq(Seq(S))
      /\ p = [lost |-> p.lost, names |-> p.names]
  BY DEF Places
<1>2. <<".", ".">> \notin {<<>>, <<".">>}
  OBVIOUS
<1>3. ASSUME p.lost \/ s \in {<<>>, <<".">>} PROVE Walk(p, s) = p
  <2>1. s \in {<<>>, <<".">>} => s \in Dots
    BY Zenon DEF Dots
  <2>. QED
    BY <1>2, <1>3, <2>1 DEF Walk
<1>4. ASSUME ~p.lost, s = <<".", ".">>, p.names = <<>>
      PROVE  Walk(p, s) = [lost |-> TRUE, names |-> <<>>]
  <2>1. s \in Dots
    BY <1>4, Zenon DEF Dots
  <2>2. Walk(p, s) = [p EXCEPT !.lost = TRUE]
    BY <1>2, <1>4, <2>1 DEF Walk
  <2>. QED
    BY <1>1, <1>4, <2>2
<1>5. ASSUME ~p.lost, s = <<".", ".">>, p.names # <<>>
      PROVE  Walk(p, s) = [lost |-> FALSE, names |-> Front(p.names)]
  <2>1. s \in Dots
    BY <1>5, Zenon DEF Dots
  <2>2. Walk(p, s) = [p EXCEPT !.names = Front(@)]
    BY <1>2, <1>5, <2>1 DEF Walk
  <2>. QED
    BY <1>1, <1>5, <2>2
<1>6. ASSUME ~p.lost, s \notin Dots
      PROVE  Walk(p, s) = [lost |-> FALSE, names |-> Append(p.names, s)]
  <2>1. s \notin {<<>>, <<".">>} /\ s # <<".", ".">>
    BY <1>6, Zenon DEF Dots
  <2>2. Walk(p, s) = [p EXCEPT !.names = Append(@, s)]
    BY <1>6, <2>1 DEF Walk
  <2>. QED
    BY <1>1, <1>6, <2>2
<1>7. Walk(p, s) \in Places(S)
  <2>1. CASE p.lost \/ s \in {<<>>, <<".">>}
    BY <1>3, <2>1
  <2>2. CASE ~p.lost /\ s = <<".", ".">> /\ p.names = <<>>
    <3>1. Walk(p, s) = [lost |-> TRUE, names |-> <<>>]
      BY <1>4, <2>2, Zenon
    <3>2. <<>> \in Seq(Seq(S))
      OBVIOUS
    <3>. QED
      BY <3>1, <3>2 DEF Places
  <2>3. CASE ~p.lost /\ s = <<".", ".">> /\ p.names # <<>>
    <3>1. Front(p.names) \in Seq(Seq(S))
      BY <1>1, <2>3 DEF Front
    <3>2. Walk(p, s) = [lost |-> FALSE, names |-> Front(p.names)]
      BY <1>5, <2>3, Zenon
    <3>. QED
      BY <3>1, <3>2 DEF Places
  <2>4. CASE ~p.lost /\ s \notin Dots
    <3>1. Append(p.names, s) \in Seq(Seq(S))
      BY <1>1
    <3>2. Walk(p, s) = [lost |-> FALSE, names |-> Append(p.names, s)]
      BY <1>6, <2>4, Zenon
    <3>. QED
      BY <3>1, <3>2 DEF Places
  <2>5. s \in Dots => s \in {<<>>, <<".">>} \/ s = <<".", ".">>
    BY Zenon DEF Dots
  <2>. QED
    BY <2>1, <2>2, <2>3, <2>4, <2>5
<1>. QED
  BY <1>3, <1>4, <1>5, <1>6, <1>7

LEMMA WalkExists ==
    ASSUME NEW S, NEW w \in Seq(S), NEW T, NEW X \in [1 .. Len(w) -> Seq(T)]
    PROVE  \E P \in [0 .. Len(w) -> Places(T)] : IsWalk(P, w, X)
<1>. DEFINE n == Len(w)
            V == Places(T)
            step == [p \in V \X (1 .. n) |->
                        IF w[p[2]] = "/" THEN Walk(p[1], X[p[2]]) ELSE p[1]]
<1>1. n \in Nat /\ Root \in V
  BY DEF Places, Root
<1>2. step \in [V \X (1 .. n) -> V]
  BY WalkIs
<1>. HIDE DEF V, step, n
<1>3. PICK P \in [0 .. n -> V] : IsRun(P, n, Root, step)
  BY <1>1, <1>2, RunExists
<1>4. P[0] = Root
  BY <1>1, <1>3 DEF IsRun
<1>5. ASSUME NEW i \in 1 .. n
      PROVE  P[i] = IF w[i] = "/" THEN Walk(P[i - 1], X[i]) ELSE P[i - 1]
  <2>. DEFINE p == <<P[i - 1], i>>
  <2>1. p \in V \X (1 .. n)
    BY <1>1
  <2>2. step[p] = IF w[p[2]] = "/" THEN Walk(p[1], X[p[2]]) ELSE p[1]
    <3>. HIDE DEF p
    <3>. QED
      BY <2>1 DEF step
  <2>3. P[i] = step[p]
    <3>1. i \in 0 .. n /\ i # 0
      BY <1>1
    <3>. QED
      BY <1>3, <3>1, Zenon DEF IsRun
  <2>. QED
    BY <2>2, <2>3
<1>6. IsWalk(P, w, X)
  BY <1>4, <1>5 DEF IsWalk, n
<1>. QED
  BY <1>3, <1>6 DEF V, n

LEMMA ResolutionIs ==
    ASSUME NEW S, NEW w \in Seq(S), NEW T, NEW X \in [1 .. Len(w) -> Seq(T)],
           \A i \in 1 .. Len(w) : w[i] = "/" => X[i] = SegmentAt(w, i)
    PROVE  \E P \in [0 .. Len(w) -> Places(T)] :
             IsWalk(P, w, X) /\ Resolution(w) = P[Len(w)]
<1>. DEFINE F(g) == [i \in 0 .. Len(w) |->
                       IF i = 0 THEN Root
                       ELSE IF w[i] = "/" THEN Walk(g[i - 1], SegmentAt(w, i)) ELSE g[i - 1]]
            f == CHOOSE g : g = F(g)
<1>0. Len(w) \in Nat
  OBVIOUS
<1>1. PICK P \in [0 .. Len(w) -> Places(T)] : IsWalk(P, w, X)
  BY WalkExists
<1>2. ASSUME NEW i \in 0 .. Len(w) PROVE P[i] = F(P)[i]
  BY <1>1 DEF IsWalk
<1>3. P = F(P)
  BY <1>2
<1>4. f = F(f)
  BY <1>3, Zenon
<1>5. Resolution(w) = f[Len(w)]
  BY Zenon DEF Resolution, Root
<1>. HIDE DEF f
<1>6. /\ f[0] = Root
      /\ \A i \in 1 .. Len(w) : f[i] = IF w[i] = "/" THEN Walk(f[i - 1], X[i]) ELSE f[i - 1]
  <2>1. \A i \in 0 .. Len(w) : f[i] = F(f)[i]
    BY <1>4
  <2>. QED
    BY <1>0, <2>1
<1>. DEFINE Q == {i \in Nat : i \in 0 .. Len(w) => f[i] = P[i]}
<1>7. 0 \in Q
  BY <1>1, <1>6 DEF IsWalk
<1>8. ASSUME NEW i \in Nat, i \in Q PROVE i + 1 \in Q
  <2>. SUFFICES ASSUME i + 1 \in 0 .. Len(w) PROVE f[i + 1] = P[i + 1]
    OBVIOUS
  <2>1. i + 1 \in 1 .. Len(w) /\ i \in 0 .. Len(w) /\ (i + 1) - 1 = i
    BY <1>0
  <2>2. f[i] = P[i]
    BY <1>8, <2>1
  <2>. QED
    BY <1>1, <1>6, <2>1, <2>2 DEF IsWalk
<1>. HIDE DEF Q
<1>9. \A i \in Nat : i \in Q
  BY <1>7, <1>8, Induction
<1>10. f[Len(w)] = P[Len(w)]
  BY <1>0, <1>9 DEF Q
<1>. QED
  BY <1>1, <1>5, <1>10

(* Between two slashes a walk rests.                                        *)
Still(P, w, X, a, b) == \A i \in a + 1 .. b : w[i] = "/" => Walk(P[i - 1], X[i]) = P[i - 1]

LEMMA WalkRests ==
    ASSUME NEW S, NEW w \in Seq(S), NEW T, NEW X \in [1 .. Len(w) -> Seq(T)],
           NEW P \in [0 .. Len(w) -> Places(T)], IsWalk(P, w, X),
           NEW a \in 0 .. Len(w), NEW b \in a .. Len(w),
           Still(P, w, X, a, b)
    PROVE  P[b] = P[a]
<1>. DEFINE Q == {k \in Nat : a + k <= b => P[a + k] = P[a]}
<1>0. Len(w) \in Nat /\ a \in Nat /\ b \in Nat /\ a <= b /\ b <= Len(w)
  OBVIOUS
<1>1. 0 \in Q
  BY <1>0
<1>2. ASSUME NEW k \in Nat, k \in Q PROVE k + 1 \in Q
  <2>. SUFFICES ASSUME a + (k + 1) <= b PROVE P[a + (k + 1)] = P[a]
    OBVIOUS
  <2>. DEFINE i == a + (k + 1)
  <2>1. i \in 1 .. Len(w) /\ i \in a + 1 .. b /\ i - 1 = a + k /\ a + k <= b
    BY <1>0
  <2>2. P[a + k] = P[a]
    BY <1>2, <2>1
  <2>. HIDE DEF i
  <2>3. P[i] = P[i - 1]
    BY <2>1 DEF IsWalk, Still
  <2>. QED
    BY <2>1, <2>2, <2>3 DEF i
<1>. HIDE DEF Q
<1>3. \A k \in Nat : k \in Q
  BY <1>1, <1>2, Induction
<1>4. b - a \in Nat /\ a + (b - a) = b
  BY <1>0
<1>5. b - a \in Q
  BY <1>3, <1>4
<1>. QED
  BY <1>0, <1>4, <1>5 DEF Q

-----------------------------------------------------------------------------
(* Texts but for the case of their letters.                                 *)

LEMMA SameSeq ==
    ASSUME NEW S, NEW u \in Seq(S), NEW T, NEW v \in Seq(T),
           Len(u) = Len(v), \A i \in 1 .. Len(u) : u[i] = v[i]
    PROVE  u = v
<1>. DEFINE R == S \cup T
<1>1. S \subseteq R /\ T \subseteq R
  OBVIOUS
<1>. HIDE DEF R
<1>2. u \in Seq(R) /\ v \in Seq(R)
  BY <1>1, SeqWider
<1>. QED
  BY <1>2, SeqEqual

(* Texts and places up to the case of letters.                              *)
FoldedNames(ns) == [k \in DOMAIN ns |-> Folded(ns[k])]
FoldedPlace(p) == [lost |-> p.lost, names |-> FoldedNames(p.names)]

LEMMA FoldedIs ==
    ASSUME NEW S, NEW w \in Seq(S)
    PROVE  /\ Folded(w) \in Seq(Uppers(S)) /\ Len(Folded(w)) = Len(w)
           /\ \A i \in 1 .. Len(w) : Folded(w)[i] = Upper(w[i])
<1>. DEFINE n == Len(w)
<1>1. n \in Nat /\ DOMAIN w = 1 .. n /\ \A i \in 1 .. n : w[i] \in S
  OBVIOUS
<1>2. Folded(w) = [i \in 1 .. n |-> Upper(w[i])]
  BY <1>1, Zenon DEF Folded
<1>3. Folded(w) \in [1 .. n -> Uppers(S)]
  BY <1>1, <1>2 DEF Uppers
<1>. HIDE DEF n
<1>4. Folded(w) \in Seq(Uppers(S)) /\ Len(Folded(w)) = n
  BY <1>1, <1>3, FunctionIsSeq
<1>. QED
  BY <1>2, <1>4 DEF n

LEMMA FoldedIff ==
    ASSUME NEW S, NEW u \in Seq(S), NEW T, NEW v \in Seq(T)
    PROVE  Folded(u) = Folded(v) <=>
             Len(u) = Len(v) /\ \A i \in 1 .. Len(u) : Upper(u[i]) = Upper(v[i])
<1>. DEFINE a == Folded(u)
            b == Folded(v)
<1>1. /\ a \in Seq(Uppers(S)) /\ Len(a) = Len(u) /\ \A i \in 1 .. Len(u) : a[i] = Upper(u[i])
      /\ b \in Seq(Uppers(T)) /\ Len(b) = Len(v) /\ \A i \in 1 .. Len(v) : b[i] = Upper(v[i])
  BY FoldedIs
<1>2. Len(u) \in Nat /\ Len(v) \in Nat
  OBVIOUS
<1>. HIDE DEF a, b
<1>3. a = b <=> Len(a) = Len(b) /\ \A i \in 1 .. Len(a) : a[i] = b[i]
  BY <1>1, SeqEqual
<1>4. a = b <=> Len(u) = Len(v) /\ \A i \in 1 .. Len(u) : Upper(u[i]) = Upper(v[i])
  BY <1>1, <1>2, <1>3
<1>. QED
  BY <1>4 DEF a, b

LEMMA FoldedConcat ==
    ASSUME NEW S, NEW u \in Seq(S), NEW v \in Seq(S)
    PROVE  Folded(u \o v) = Folded(u) \o Folded(v)
<1>. DEFINE a == Folded(u)
            b == Folded(v)
            c == Folded(u \o v)
            U == Uppers(S)
<1>1. /\ a \in Seq(U) /\ Len(a) = Len(u) /\ \A i \in 1 .. Len(u) : a[i] = Upper(u[i])
      /\ b \in Seq(U) /\ Len(b) = Len(v) /\ \A i \in 1 .. Len(v) : b[i] = Upper(v[i])
  BY FoldedIs
<1>2. /\ u \o v \in Seq(S) /\ Len(u \o v) = Len(u) + Len(v)
      /\ \A i \in 1 .. Len(u) + Len(v) :
            (u \o v)[i] = IF i <= Len(u) THEN u[i] ELSE v[i - Len(u)]
  BY ConcatProperties
<1>3. /\ c \in Seq(U) /\ Len(c) = Len(u) + Len(v)
      /\ \A i \in 1 .. Len(u) + Len(v) : c[i] = Upper((u \o v)[i])
  BY <1>2, FoldedIs
<1>4. Len(u) \in Nat /\ Len(v) \in Nat
  OBVIOUS
<1>. HIDE DEF a, b, c, U
<1>5. /\ a \o b \in Seq(U) /\ Len(a \o b) = Len(a) + Len(b)
      /\ \A i \in 1 .. Len(a) + Len(b) :
            (a \o b)[i] = IF i <= Len(a) THEN a[i] ELSE b[i - Len(a)]
  <2>1. a \in Seq(U) /\ b \in Seq(U)
    BY <1>1
  <2>. QED
    BY <2>1, ConcatProperties
<1>6. \A i \in 1 .. Len(c) : c[i] = (a \o b)[i]
  <2>. SUFFICES ASSUME NEW i \in 1 .. Len(c) PROVE c[i] = (a \o b)[i]
    OBVIOUS
  <2>1. CASE i <= Len(u)
    <3>1. i \in 1 .. Len(u) /\ i \in 1 .. Len(u) + Len(v)
      BY <1>3, <1>4, <2>1
    <3>2. c[i] = Upper(u[i])
      BY <1>2, <1>3, <2>1, <3>1
    <3>3. (a \o b)[i] = a[i]
      BY <1>1, <1>5, <2>1, <3>1
    <3>. QED
      BY <1>1, <3>1, <3>2, <3>3
  <2>2. CASE ~(i <= Len(u))
    <3>1. i - Len(u) \in 1 .. Len(v) /\ i \in 1 .. Len(u) + Len(v)
      BY <1>3, <1>4, <2>2
    <3>2. c[i] = Upper(v[i - Len(u)])
      BY <1>2, <1>3, <2>2, <3>1
    <3>3. (a \o b)[i] = b[i - Len(u)]
      BY <1>1, <1>5, <2>2, <3>1
    <3>. QED
      BY <1>1, <3>1, <3>2, <3>3
  <2>. QED
    BY <2>1, <2>2
<1>7. c = a \o b
  BY <1>1, <1>3, <1>5, <1>6, SeqEqual
<1>. QED
  BY <1>7 DEF a, b, c

(* The case of letters tells no dot and no slash from another.              *)
LEMMA UpperKeeps ==
    ASSUME NEW c
    PROVE  (Upper(c) = "." <=> c = ".") /\ (Upper(c) = "/" <=> c = "/")
BY DEF Upper

LEMMA TupleIs ==
    ASSUME NEW S, NEW w \in Seq(S), NEW c, NEW d
    PROVE  /\ (w = <<c>> <=> Len(w) = 1 /\ w[1] = c)
           /\ (w = <<c, d>> <=> Len(w) = 2 /\ w[1] = c /\ w[2] = d)
<1>. DEFINE T == S \cup {c, d}
            a == <<c>>
            b == <<c, d>>
<1>1. /\ a \in Seq(T) /\ Len(a) = 1 /\ a[1] = c
      /\ b \in Seq(T) /\ Len(b) = 2 /\ b[1] = c /\ b[2] = d
  OBVIOUS
<1>. HIDE DEF a, b, T
<1>2. ASSUME Len(w) = 1, w[1] = c PROVE w = a
  <2>1. \A i \in 1 .. Len(w) : w[i] = a[i]
    BY <1>1, <1>2
  <2>. QED
    BY <1>1, <1>2, <2>1, SeqEqual
<1>3. ASSUME Len(w) = 2, w[1] = c, w[2] = d PROVE w = b
  <2>1. \A i \in 1 .. Len(w) : w[i] = b[i]
    BY <1>1, <1>3
  <2>. QED
    BY <1>1, <1>3, <2>1, SeqEqual
<1>4. w = a <=> Len(w) = 1 /\ w[1] = c
  BY <1>1, <1>2
<1>5. w = b <=> Len(w) = 2 /\ w[1] = c /\ w[2] = d
  BY <1>1, <1>3
<1>. QED
  BY <1>4, <1>5 DEF a, b

LEMMA DotsFold ==
    ASSUME NEW S, NEW s \in Seq(S)
    PROVE  /\ Folded(s) = <<>> <=> s = <<>>
           /\ Folded(s) = <<".">> <=> s = <<".">>
           /\ Folded(s) = <<".", ".">> <=> s = <<".", ".">>
<1>. DEFINE f == Folded(s)
<1>1. f \in Seq(Uppers(S)) /\ Len(f) = Len(s) /\ \A i \in 1 .. Len(s) : f[i] = Upper(s[i])
  BY FoldedIs
<1>2. \A c : Upper(c) = "." <=> c = "."
  BY UpperKeeps
<1>. HIDE DEF f
<1>3. f = <<>> <=> s = <<>>
  BY <1>1
<1>4. f = <<".">> <=> s = <<".">>
  <2>1. f = <<".">> <=> Len(f) = 1 /\ f[1] = "."
    BY <1>1, TupleIs, ZenonT(40)
  <2>2. s = <<".">> <=> Len(s) = 1 /\ s[1] = "."
    OBVIOUS
  <2>. QED
    BY <1>1, <1>2, <2>1, <2>2
<1>5. f = <<".", ".">> <=> s = <<".", ".">>
  <2>1. f = <<".", ".">> <=> Len(f) = 2 /\ f[1] = "." /\ f[2] = "."
    <3>0. f \in Seq(Uppers(S))
      BY <1>1
    <3>. DEFINE c == "."
    <3>1. f = <<c, c>> <=> Len(f) = 2 /\ f[1] = c /\ f[2] = c
      <4>. HIDE DEF c
      <4>. QED
        BY <3>0, TupleIs
    <3>. QED
      BY <3>1, Zenon
  <2>2. s = <<".", ".">> <=> Len(s) = 2 /\ s[1] = "." /\ s[2] = "."
    OBVIOUS
  <2>. QED
    BY <1>1, <1>2, <2>1, <2>2
<1>. QED
  BY <1>3, <1>4, <1>5 DEF f

LEMMA NamesFold ==
    ASSUME NEW S, NEW u \in Seq(Seq(S))
    PROVE  /\ FoldedNames(u) \in Seq(Seq(Uppers(S))) /\ Len(FoldedNames(u)) = Len(u)
           /\ \A k \in 1 .. Len(u) : FoldedNames(u)[k] = Folded(u[k])
<1>. DEFINE n == Len(u)
<1>1. n \in Nat /\ DOMAIN u = 1 .. n /\ \A k \in 1 .. n : u[k] \in Seq(S)
  OBVIOUS
<1>2. FoldedNames(u) = [k \in 1 .. n |-> Folded(u[k])]
  BY <1>1, Zenon DEF FoldedNames
<1>3. \A k \in 1 .. n : Folded(u[k]) \in Seq(Uppers(S))
  BY <1>1, FoldedIs
<1>4. FoldedNames(u) \in [1 .. n -> Seq(Uppers(S))]
  BY <1>2, <1>3
<1>. HIDE DEF n
<1>5. FoldedNames(u) \in Seq(Seq(Uppers(S))) /\ Len(FoldedNames(u)) = n
  BY <1>1, <1>4, FunctionIsSeq
<1>. QED
  BY <1>2, <1>5 DEF n

LEMMA NamesAlike ==
    ASSUME NEW S, NEW u \in Seq(Seq(S)), NEW T, NEW v \in Seq(Seq(T)),
           Len(u) = Len(v), \A k \in 1 .. Len(u) : Folded(u[k]) = Folded(v[k])
    PROVE  FoldedNames(u) = FoldedNames(v)
<1>. DEFINE a == FoldedNames(u)
            b == FoldedNames(v)
<1>1. a \in Seq(Seq(Uppers(S))) /\ Len(a) = Len(u) /\ \A k \in 1 .. Len(u) : a[k] = Folded(u[k])
  BY NamesFold
<1>2. b \in Seq(Seq(Uppers(T))) /\ Len(b) = Len(v) /\ \A k \in 1 .. Len(v) : b[k] = Folded(v[k])
  BY NamesFold
<1>. HIDE DEF a, b
<1>3. Len(a) = Len(b) /\ \A k \in 1 .. Len(a) : a[k] = b[k]
  BY <1>1, <1>2
<1>4. a = b
  BY <1>1, <1>2, <1>3, SameSeq, SMTT(40)
<1>. QED
  BY <1>4 DEF a, b

LEMMA AlikeNames ==
    ASSUME NEW S, NEW u \in Seq(Seq(S)), NEW T, NEW v \in Seq(Seq(T)),
           FoldedNames(u) = FoldedNames(v)
    PROVE  Len(u) = Len(v) /\ \A k \in 1 .. Len(u) : Folded(u[k]) = Folded(v[k])
<1>1. Len(FoldedNames(u)) = Len(u) /\ \A k \in 1 .. Len(u) : FoldedNames(u)[k] = Folded(u[k])
  BY NamesFold
<1>2. Len(FoldedNames(v)) = Len(v) /\ \A k \in 1 .. Len(v) : FoldedNames(v)[k] = Folded(v[k])
  BY NamesFold
<1>. QED
  BY <1>1, <1>2

(* Two walks on the same segments, but for the case, stay alike.            *)
LEMMA WalksAlike ==
    ASSUME NEW S, NEW p \in Places(S), NEW s \in Seq(S),
           NEW T, NEW q \in Places(T), NEW t \in Seq(T),
           FoldedPlace(p) = FoldedPlace(q), Folded(s) = Folded(t)
    PROVE  FoldedPlace(Walk(p, s)) = FoldedPlace(Walk(q, t))
<1>. DEFINE a == Walk(p, s)
            b == Walk(q, t)
<1>1. p.names \in Seq(Seq(S)) /\ q.names \in Seq(Seq(T))
      /\ p.lost \in BOOLEAN /\ q.lost \in BOOLEAN
  BY DEF Places
<1>2. p.lost = q.lost /\ FoldedNames(p.names) = FoldedNames(q.names)
  BY DEF FoldedPlace
<1>3. Len(p.names) = Len(q.names)
      /\ \A k \in 1 .. Len(p.names) : Folded(p.names[k]) = Folded(q.names[k])
  BY <1>1, <1>2, AlikeNames
<1>4. (s = <<>> <=> t = <<>>) /\ (s = <<".">> <=> t = <<".">>) /\ (s = <<".", ".">> <=> t = <<".", ".">>)
  BY DotsFold
<1>5. (s \in Dots <=> t \in Dots) /\ (s \in {<<>>, <<".">>} <=> t \in {<<>>, <<".">>})
      /\ (s \in Dots <=> s \in {<<>>, <<".">>} \/ s = <<".", ".">>)
  BY <1>4, Zenon DEF Dots
<1>6. (p.names = <<>> <=> q.names = <<>>) /\ Len(p.names) \in Nat
  BY <1>1, <1>3
<1>7. CASE p.lost \/ s \in {<<>>, <<".">>}
  <2>1. a = p
    BY <1>7, WalkIs
  <2>2. b = q
    BY <1>2, <1>5, <1>7, WalkIs
  <2>. QED
    BY <2>1, <2>2
<1>8. CASE ~p.lost /\ s = <<".", ".">> /\ p.names = <<>>
  <2>1. a = [lost |-> TRUE, names |-> <<>>]
    BY <1>8, WalkIs
  <2>2. b = [lost |-> TRUE, names |-> <<>>]
    BY <1>2, <1>4, <1>6, <1>8, WalkIs
  <2>. QED
    BY <2>1, <2>2
<1>9. CASE ~p.lost /\ s = <<".", ".">> /\ p.names # <<>>
  <2>. DEFINE u == Front(p.names)
              v == Front(q.names)
  <2>1. a = [lost |-> FALSE, names |-> u]
    BY <1>9, WalkIs
  <2>2. b = [lost |-> FALSE, names |-> v]
    BY <1>2, <1>4, <1>6, <1>9, WalkIs
  <2>3. /\ u \in Seq(Seq(S)) /\ Len(u) = Len(p.names) - 1
        /\ \A k \in 1 .. Len(p.names) - 1 : u[k] = p.names[k]
    BY <1>1, <1>9 DEF Front
  <2>4. /\ v \in Seq(Seq(T)) /\ Len(v) = Len(q.names) - 1
        /\ \A k \in 1 .. Len(q.names) - 1 : v[k] = q.names[k]
    BY <1>1, <1>6, <1>9 DEF Front
  <2>. HIDE DEF u, v
  <2>5. Len(u) = Len(v) /\ \A k \in 1 .. Len(u) : Folded(u[k]) = Folded(v[k])
    BY <1>3, <1>6, <2>3, <2>4
  <2>6. FoldedNames(u) = FoldedNames(v)
    BY <2>3, <2>4, <2>5, NamesAlike
  <2>. QED
    BY <2>1, <2>2, <2>6 DEF FoldedPlace
<1>10. CASE ~p.lost /\ s \notin Dots
  <2>. DEFINE u == Append(p.names, s)
              v == Append(q.names, t)
  <2>1. a = [lost |-> FALSE, names |-> u]
    BY <1>10, WalkIs
  <2>2. b = [lost |-> FALSE, names |-> v]
    BY <1>2, <1>5, <1>10, WalkIs
  <2>3. /\ u \in Seq(Seq(S)) /\ Len(u) = Len(p.names) + 1 /\ u[Len(p.names) + 1] = s
        /\ \A k \in 1 .. Len(p.names) : u[k] = p.names[k]
    BY <1>1
  <2>4. /\ v \in Seq(Seq(T)) /\ Len(v) = Len(q.names) + 1 /\ v[Len(q.names) + 1] = t
        /\ \A k \in 1 .. Len(q.names) : v[k] = q.names[k]
    BY <1>1
  <2>. HIDE DEF u, v
  <2>5. Len(u) = Len(v) /\ \A k \in 1 .. Len(u) : Folded(u[k]) = Folded(v[k])
    <3>1. Len(u) = Len(v)
      BY <1>3, <2>3, <2>4
    <3>2. ASSUME NEW k \in 1 .. Len(u) PROVE Folded(u[k]) = Folded(v[k])
      <4>1. CASE k \in 1 .. Len(p.names)
        BY <1>3, <2>3, <2>4, <4>1
      <4>2. CASE k = Len(p.names) + 1
        BY <1>3, <2>3, <2>4, <4>2
      <4>. QED
        BY <1>6, <2>3, <4>1, <4>2
    <3>. QED
      BY <3>1, <3>2
  <2>6. FoldedNames(u) = FoldedNames(v)
    BY <2>3, <2>4, <2>5, NamesAlike
  <2>. QED
    BY <2>1, <2>2, <2>6 DEF FoldedPlace
<1>. QED
  BY <1>5, <1>7, <1>8, <1>9, <1>10

-----------------------------------------------------------------------------
(* Texts laid out on one another, and where they lead.                      *)

(* A text whose places are laid out in another one, those of slashes on     *)
(* slashes or, for empty segments, on nothing: m says up to where.          *)
LaidOut(x, X, y, Y, m) ==
    /\ m[0] = 0 /\ m[Len(x)] = Len(y)
    /\ \A i \in 1 .. Len(x) : m[i - 1] <= m[i]
    /\ \A i \in 1 .. Len(x) : x[i] # "/" => \A j \in m[i - 1] + 1 .. m[i] : y[j] # "/"
    /\ \A i \in 1 .. Len(x) : x[i] = "/" =>
          \/ m[i] = m[i - 1] /\ X[i] = <<>>
          \/ m[i] = m[i - 1] + 1 /\ y[m[i]] = "/" /\ Folded(Y[m[i]]) = Folded(X[i])

(* A text, what its slashes lead to and the walk through it.                *)
IsLayer(S, x, A, X, P) ==
    /\ x \in Seq(S) /\ X \in [1 .. Len(x) -> Seq(A)]
    /\ P \in [0 .. Len(x) -> Places(A)] /\ IsWalk(P, x, X)

LEMMA LaidOutWalks ==
    ASSUME NEW S, NEW x, NEW A, NEW X, NEW P, IsLayer(S, x, A, X, P),
           NEW T, NEW y, NEW B, NEW Y, NEW Q, IsLayer(T, y, B, Y, Q),
           NEW m \in [0 .. Len(x) -> 0 .. Len(y)], LaidOut(x, X, y, Y, m)
    PROVE  FoldedPlace(P[Len(x)]) = FoldedPlace(Q[Len(y)])
<1>. USE DEF IsLayer
<1>. DEFINE W == {i \in Nat : i \in 0 .. Len(x) => FoldedPlace(P[i]) = FoldedPlace(Q[m[i]])}
<1>0. Len(x) \in Nat /\ Len(y) \in Nat
  OBVIOUS
<1>1. 0 \in W
  BY DEF LaidOut, IsWalk
<1>2. ASSUME NEW k \in Nat, k \in W PROVE k + 1 \in W
  <2>. SUFFICES ASSUME k + 1 \in 0 .. Len(x)
                PROVE  FoldedPlace(P[k + 1]) = FoldedPlace(Q[m[k + 1]])
    OBVIOUS
  <2>. DEFINE i == k + 1
  <2>1. i \in 1 .. Len(x) /\ i - 1 = k /\ k \in 0 .. Len(x) /\ i \in 0 .. Len(x)
    BY <1>0
  <2>2. FoldedPlace(P[k]) = FoldedPlace(Q[m[k]])
    BY <1>2, <2>1
  <2>. HIDE DEF i
  <2>3. m[k] \in 0 .. Len(y) /\ m[i] \in 0 .. Len(y) /\ m[k] <= m[i]
    BY <2>1 DEF LaidOut
  <2>4. P[i] = IF x[i] = "/" THEN Walk(P[k], X[i]) ELSE P[k]
    BY <2>1 DEF IsWalk
  <2>5. ASSUME x[i] # "/" PROVE FoldedPlace(P[i]) = FoldedPlace(Q[m[i]])
    <3>1. \A j \in m[k] + 1 .. m[i] : y[j] # "/"
      BY <2>1, <2>5 DEF LaidOut
    <3>2. Q[m[i]] = Q[m[k]]
      <4>. DEFINE a == m[k]
                  b == m[i]
      <4>. HIDE DEF a, b
      <4>1. a \in 0 .. Len(y) /\ b \in a .. Len(y)
        BY <2>3 DEF a, b
      <4>2. Still(Q, y, Y, a, b)
        BY <3>1 DEF a, b, Still
      <4>3. Q[b] = Q[a]
        BY <4>1, <4>2, WalkRests
      <4>. QED
        BY <4>3 DEF a, b
    <3>. QED
      BY <2>2, <2>4, <2>5, <3>2
  <2>6. ASSUME x[i] = "/", m[i] = m[k], X[i] = <<>> PROVE FoldedPlace(P[i]) = FoldedPlace(Q[m[i]])
    <3>1. P[k] \in Places(A) /\ X[i] \in Seq(A)
      BY <2>1
    <3>2. Walk(P[k], X[i]) = P[k]
      BY <2>6, <3>1, WalkIs
    <3>. QED
      BY <2>2, <2>4, <2>6, <3>2
  <2>7. ASSUME x[i] = "/", m[i] = m[k] + 1, y[m[i]] = "/", Folded(Y[m[i]]) = Folded(X[i])
        PROVE  FoldedPlace(P[i]) = FoldedPlace(Q[m[i]])
    <3>1. m[i] \in 1 .. Len(y) /\ m[i] - 1 = m[k]
      BY <2>3, <2>7
    <3>2. Q[m[i]] = Walk(Q[m[k]], Y[m[i]])
      BY <2>7, <3>1 DEF IsWalk
    <3>3. /\ P[k] \in Places(A) /\ X[i] \in Seq(A)
          /\ Q[m[k]] \in Places(B) /\ Y[m[i]] \in Seq(B)
      BY <2>1, <2>3, <3>1
    <3>4. FoldedPlace(Walk(P[k], X[i])) = FoldedPlace(Walk(Q[m[k]], Y[m[i]]))
      BY <2>2, <2>7, <3>3, WalksAlike
    <3>. QED
      BY <2>4, <2>7, <3>2, <3>4
  <2>8. x[i] = "/" => \/ m[i] = m[k] /\ X[i] = <<>>
                      \/ m[i] = m[k] + 1 /\ y[m[i]] = "/" /\ Folded(Y[m[i]]) = Folded(X[i])
    BY <2>1 DEF LaidOut
  <2>9. FoldedPlace(P[i]) = FoldedPlace(Q[m[i]])
    BY <2>5, <2>6, <2>7, <2>8
  <2>. QED
    BY <2>9 DEF i
<1>. HIDE DEF W
<1>3. \A i \in Nat : i \in W
  BY <1>1, <1>2, Induction
<1>4. FoldedPlace(P[Len(x)]) = FoldedPlace(Q[m[Len(x)]])
  <2>1. Len(x) \in W /\ Len(x) \in 0 .. Len(x)
    BY <1>0, <1>3
  <2>. QED
    BY <2>1, Zenon DEF W
<1>5. m[Len(x)] = Len(y)
  BY DEF LaidOut
<1>. QED
  BY <1>4, <1>5

-----------------------------------------------------------------------------
(* Names joined.                                                            *)
Slashed(names) == [k \in DOMAIN names |-> <<"/">> \o names[k]]

LEMMA SlashedIs ==
    ASSUME NEW S, "/" \in S, NEW ns \in Seq(Seq(S))
    PROVE  /\ Slashed(ns) \in Seq(Seq(S)) /\ Len(Slashed(ns)) = Len(ns)
           /\ \A k \in 1 .. Len(ns) : Slashed(ns)[k] = <<"/">> \o ns[k]
<1>. DEFINE n == Len(ns)
<1>1. n \in Nat /\ DOMAIN ns = 1 .. n /\ \A k \in 1 .. n : ns[k] \in Seq(S)
  OBVIOUS
<1>2. Slashed(ns) = [k \in 1 .. n |-> <<"/">> \o ns[k]]
  BY <1>1, Zenon DEF Slashed
<1>3. <<"/">> \in Seq(S)
  OBVIOUS
<1>4. \A k \in 1 .. n : <<"/">> \o ns[k] \in Seq(S)
  BY <1>1, <1>3, ConcatProperties
<1>5. Slashed(ns) \in [1 .. n -> Seq(S)]
  BY <1>2, <1>4
<1>. HIDE DEF n
<1>6. Slashed(ns) \in Seq(Seq(S)) /\ Len(Slashed(ns)) = n
  BY <1>1, <1>5, FunctionIsSeq
<1>. QED
  BY <1>2, <1>6 DEF n

LEMMA JoinedAppend ==
    ASSUME NEW S, "/" \in S, NEW ns \in Seq(Seq(S)), NEW s \in Seq(S)
    PROVE  Joined(Append(ns, s)) = Joined(ns) \o (<<"/">> \o s)
<1>. DEFINE n == Len(ns)
            ms == Append(ns, s)
            f == Slashed(ns)
            g == Slashed(ms)
<1>1. /\ n \in Nat /\ ms \in Seq(Seq(S)) /\ Len(ms) = n + 1 /\ ms[n + 1] = s
      /\ \A k \in 1 .. n : ms[k] = ns[k]
  OBVIOUS
<1>2. f \in Seq(Seq(S)) /\ Len(f) = n /\ \A k \in 1 .. n : f[k] = <<"/">> \o ns[k]
  BY SlashedIs
<1>. HIDE DEF ms
<1>3. g \in Seq(Seq(S)) /\ Len(g) = n + 1 /\ \A k \in 1 .. n + 1 : g[k] = <<"/">> \o ms[k]
  BY <1>1, SlashedIs
<1>4. Joined(ns) = FlattenSeq(f) /\ Joined(ms) = FlattenSeq(g)
  BY Zenon DEF Joined, Slashed
<1>. HIDE DEF f, g, n
<1>5. SubSeq(g, 1, n) = f
  <2>. DEFINE h == SubSeq(g, 1, n)
  <2>1. h \in Seq(Seq(S)) /\ Len(h) = n /\ \A k \in 1 .. n : h[k] = g[k]
    BY <1>1, <1>3
  <2>. HIDE DEF h
  <2>2. \A k \in 1 .. n : h[k] = f[k]
    <3>. SUFFICES ASSUME NEW k \in 1 .. n PROVE h[k] = f[k]
      OBVIOUS
    <3>1. k \in 1 .. n + 1
      BY <1>1
    <3>2. g[k] = <<"/">> \o ns[k]
      BY <1>1, <1>3, <3>1
    <3>. QED
      BY <1>2, <2>1, <3>2
  <2>3. h = f
    BY <1>2, <2>1, <2>2, SeqEqual
  <2>. QED
    BY <2>3 DEF h
<1>6. FlattenSeq(g) = FirstOf(g, n) \o g[n + 1]
  <2>1. n \in 0 .. Len(g) - 1
    BY <1>1, <1>3
  <2>2. FirstOf(g, Len(g)) = FlattenSeq(g) /\ FirstOf(g, n + 1) = FirstOf(g, n) \o g[n + 1]
    BY <1>3, <2>1, FirstOfSteps
  <2>. QED
    BY <1>3, <2>2
<1>7. FirstOf(g, n) = FlattenSeq(f)
  BY <1>5 DEF FirstOf
<1>8. g[n + 1] = <<"/">> \o s
  BY <1>1, <1>3, SMTT(40)
<1>. QED
  BY <1>4, <1>6, <1>7, <1>8 DEF ms

LEMMA JoinedNone == Joined(<<>>) = <<>>
<1>1. [k \in DOMAIN <<>> |-> <<"/">> \o <<>>[k]] = <<>>
  OBVIOUS
<1>. QED
  BY <1>1, FlattenEmpty, Zenon DEF Joined

LEMMA JoinedIsSeq ==
    ASSUME NEW S, "/" \in S, NEW ns \in Seq(Seq(S))
    PROVE  Joined(ns) \in Seq(S)
<1>1. Joined(ns) = FlattenSeq(Slashed(ns))
  BY Zenon DEF Joined, Slashed
<1>. QED
  BY <1>1, SlashedIs, FlattenType

LEMMA JoinedFront ==
    ASSUME NEW S, "/" \in S, NEW ns \in Seq(Seq(S)), ns # <<>>
    PROVE  /\ Front(ns) \in Seq(Seq(S)) /\ Len(Front(ns)) = Len(ns) - 1
           /\ ns[Len(ns)] \in Seq(S)
           /\ Joined(ns) = Joined(Front(ns)) \o (<<"/">> \o ns[Len(ns)])
<1>. DEFINE f == Front(ns)
            l == ns[Len(ns)]
            a == Append(f, l)
<1>1. Len(ns) \in Nat \ {0}
  OBVIOUS
<1>2. /\ f \in Seq(Seq(S)) /\ Len(f) = Len(ns) - 1 /\ l \in Seq(S)
      /\ \A k \in 1 .. Len(ns) - 1 : f[k] = ns[k]
  <2>1. /\ f \in Seq(Seq(S)) /\ Len(f) = Len(ns) - 1
        /\ \A k \in 1 .. Len(ns) - 1 : f[k] = ns[k]
    <3>1. f = SubSeq(ns, 1, Len(ns) - 1)
      BY DEF Front
    <3>. HIDE DEF f
    <3>. DEFINE n == Len(ns) - 1
    <3>2. n \in Nat /\ n <= Len(ns) /\ ns \in Seq(Seq(S)) /\ f = SubSeq(ns, 1, n)
      BY <1>1, <3>1
    <3>. HIDE DEF n
    <3>3. f \in Seq(Seq(S)) /\ Len(f) = n /\ \A k \in 1 .. n : f[k] = ns[k]
      BY <3>2
    <3>. QED
      BY <3>3 DEF n
  <2>2. l \in Seq(S)
    BY <1>1
  <2>. QED
    BY <2>1, <2>2
<1>. HIDE DEF f
<1>3. /\ a \in Seq(Seq(S)) /\ Len(a) = Len(ns) /\ a[Len(ns)] = l
      /\ \A k \in 1 .. Len(ns) - 1 : a[k] = f[k]
  BY <1>1, <1>2
<1>4. \A k \in 1 .. Len(ns) : a[k] = ns[k]
  <2>. SUFFICES ASSUME NEW k \in 1 .. Len(ns) PROVE a[k] = ns[k]
    OBVIOUS
  <2>. HIDE DEF a
  <2>1. CASE k = Len(ns)
    BY <1>3, <2>1
  <2>2. CASE k # Len(ns)
    <3>1. k \in 1 .. Len(ns) - 1
      BY <1>1, <2>2
    <3>. QED
      BY <1>2, <1>3, <3>1
  <2>. QED
    BY <2>1, <2>2
<1>5. a = ns
  <2>. HIDE DEF a
  <2>. QED
    BY <1>3, <1>4, SeqEqual
<1>6. Joined(a) = Joined(f) \o (<<"/">> \o l)
  <2>. HIDE DEF l
  <2>. QED
    BY <1>2, JoinedAppend
<1>. QED
  BY <1>2, <1>5, <1>6 DEF f

LEMMA JoinedFolds ==
    ASSUME NEW S, "/" \in S, NEW u \in Seq(Seq(S)),
           NEW T, "/" \in T, NEW v \in Seq(Seq(T)), FoldedNames(u) = FoldedNames(v)
    PROVE  Folded(Joined(u)) = Folded(Joined(v))
<1>. DEFINE f == Slashed(u)
            g == Slashed(v)
            n == Len(u)
<1>1. n \in Nat /\ Len(v) = n /\ \A k \in 1 .. n : Folded(u[k]) = Folded(v[k])
  BY AlikeNames
<1>2. f \in Seq(Seq(S)) /\ Len(f) = n /\ \A k \in 1 .. n : f[k] = <<"/">> \o u[k]
  BY SlashedIs
<1>3. g \in Seq(Seq(T)) /\ Len(g) = n /\ \A k \in 1 .. n : g[k] = <<"/">> \o v[k]
  BY <1>1, SlashedIs
<1>4. Joined(u) = FlattenSeq(f) /\ Joined(v) = FlattenSeq(g)
  BY Zenon DEF Joined, Slashed
<1>5. \A k \in 1 .. n : Folded(f[k]) = Folded(g[k])
  <2>. SUFFICES ASSUME NEW k \in 1 .. n PROVE Folded(f[k]) = Folded(g[k])
    OBVIOUS
  <2>. DEFINE s == <<"/">>
              a == u[k]
              b == v[k]
  <2>1. s \in Seq(S) /\ s \in Seq(T) /\ a \in Seq(S) /\ b \in Seq(T)
    BY <1>1
  <2>2. f[k] = s \o a /\ g[k] = s \o b /\ Folded(a) = Folded(b)
    BY <1>1, <1>2, <1>3
  <2>. HIDE DEF f, g, s, a, b
  <2>3. Folded(s \o a) = Folded(s) \o Folded(a)
    BY <2>1, FoldedConcat
  <2>4. Folded(s \o b) = Folded(s) \o Folded(b)
    BY <2>1, FoldedConcat
  <2>. QED
    BY <2>2, <2>3, <2>4
<1>. HIDE DEF f, g, n
<1>. DEFINE W == {k \in Nat : k \in 0 .. n => Folded(FirstOf(f, k)) = Folded(FirstOf(g, k))}
<1>6. 0 \in W
  <2>1. FirstOf(f, 0) = <<>>
    BY <1>2, FirstOfSteps
  <2>2. FirstOf(g, 0) = <<>>
    BY <1>3, FirstOfSteps
  <2>. QED
    BY <2>1, <2>2
<1>7. ASSUME NEW k \in Nat, k \in W PROVE k + 1 \in W
  <2>. SUFFICES ASSUME k + 1 \in 0 .. n PROVE Folded(FirstOf(f, k + 1)) = Folded(FirstOf(g, k + 1))
    OBVIOUS
  <2>1. k \in 0 .. n /\ k + 1 \in 1 .. n /\ k \in 0 .. n - 1
    BY <1>1
  <2>2. FirstOf(f, k + 1) = FirstOf(f, k) \o f[k + 1] /\ FirstOf(f, k) \in Seq(S) /\ f[k + 1] \in Seq(S)
    <3>1. k \in 0 .. Len(f) - 1 /\ k \in 0 .. Len(f) /\ k + 1 \in 1 .. Len(f) /\ f \in Seq(Seq(S))
      BY <1>2, <2>1
    <3>2. FirstOf(f, k + 1) = FirstOf(f, k) \o f[k + 1]
      BY <3>1, FirstOfSteps
    <3>3. FirstOf(f, k) \in Seq(S)
      BY <3>1, FirstOfType
    <3>. QED
      BY <3>1, <3>2, <3>3
  <2>3. FirstOf(g, k + 1) = FirstOf(g, k) \o g[k + 1] /\ FirstOf(g, k) \in Seq(T) /\ g[k + 1] \in Seq(T)
    <3>1. k \in 0 .. Len(g) - 1 /\ k \in 0 .. Len(g) /\ k + 1 \in 1 .. Len(g) /\ g \in Seq(Seq(T))
      BY <1>3, <2>1
    <3>2. FirstOf(g, k + 1) = FirstOf(g, k) \o g[k + 1]
      BY <3>1, FirstOfSteps
    <3>3. FirstOf(g, k) \in Seq(T)
      BY <3>1, FirstOfType
    <3>. QED
      BY <3>1, <3>2, <3>3
  <2>4. Folded(FirstOf(f, k + 1)) = Folded(FirstOf(f, k)) \o Folded(f[k + 1])
    BY <2>2, FoldedConcat
  <2>5. Folded(FirstOf(g, k + 1)) = Folded(FirstOf(g, k)) \o Folded(g[k + 1])
    BY <2>3, FoldedConcat
  <2>. QED
    BY <1>5, <1>7, <2>1, <2>4, <2>5
<1>. HIDE DEF W
<1>8. \A k \in Nat : k \in W
  BY <1>6, <1>7, Induction
<1>9. Folded(FirstOf(f, n)) = Folded(FirstOf(g, n))
  BY <1>1, <1>8 DEF W
<1>10. FirstOf(f, n) = FlattenSeq(f)
  BY <1>2, FirstOfSteps
<1>11. FirstOf(g, n) = FlattenSeq(g)
  BY <1>3, FirstOfSteps
<1>. QED
  BY <1>4, <1>9, <1>10, <1>11

-----------------------------------------------------------------------------
(* Concatenations.                                                          *)

(* Where the elements of a sequence begin and end in their concatenation.   *)
Ends(f) == [i \in 0 .. Len(f) |-> Len(FirstOf(f, i))]

LEMMA EndsAre ==
    ASSUME NEW S, NEW f \in Seq(Seq(S))
    PROVE  LET m == Ends(f)
               y == FlattenSeq(f)
           IN  /\ y \in Seq(S) /\ m \in [0 .. Len(f) -> 0 .. Len(y)]
               /\ m[0] = 0 /\ m[Len(f)] = Len(y)
               /\ \A i \in 1 .. Len(f) :
                     /\ m[i] = m[i - 1] + Len(f[i])
                     /\ \A k \in 1 .. Len(f[i]) : y[m[i - 1] + k] = f[i][k]
<1>. DEFINE m == Ends(f)
            y == FlattenSeq(f)
            n == Len(f)
<1>1. n \in Nat /\ y \in Seq(S)
  BY FlattenType
<1>2. /\ FirstOf(f, 0) = <<>> /\ FirstOf(f, n) = y
      /\ \A i \in 0 .. n : FirstOf(f, i) \in Seq(S)
  BY FirstOfSteps, FirstOfType
<1>3. ASSUME NEW i \in 1 .. n
      PROVE  /\ m[i] = m[i - 1] + Len(f[i]) /\ m[i - 1] + Len(f[i]) <= Len(y)
             /\ \A k \in 1 .. Len(f[i]) : y[m[i - 1] + k] = f[i][k]
  <2>1. i - 1 \in 0 .. n - 1 /\ (i - 1) + 1 = i /\ i \in 0 .. n /\ i - 1 \in 0 .. n
    BY <1>1
  <2>. DEFINE j == i - 1
  <2>2. /\ Len(FirstOf(f, j + 1)) = Len(FirstOf(f, j)) + Len(f[j + 1])
        /\ Occurs(f[j + 1], FlattenSeq(f), Len(FirstOf(f, j)))
    <3>1. j \in 0 .. Len(f) - 1
      BY <2>1
    <3>. HIDE DEF j
    <3>. QED
      BY <3>1, ElementOccurs
  <2>3. m[i] = Len(FirstOf(f, i)) /\ m[i - 1] = Len(FirstOf(f, i - 1))
    BY <2>1 DEF Ends
  <2>4. m[i] = m[i - 1] + Len(f[i])
    BY <2>1, <2>2, <2>3
  <2>5. Occurs(f[i], y, m[i - 1])
    BY <2>1, <2>2, <2>3
  <2>. HIDE DEF m, y
  <2>. QED
    BY <2>4, <2>5 DEF Occurs
<1>4. m[0] = 0 /\ m[n] = Len(y)
  BY <1>1, <1>2 DEF Ends
<1>5. m \in [0 .. n -> 0 .. Len(y)]
  <2>1. ASSUME NEW i \in 0 .. n PROVE m[i] \in 0 .. Len(y)
    <3>1. m[i] \in Nat /\ Len(y) \in Nat
      BY <1>1, <1>2 DEF Ends
    <3>2. CASE i = 0
      <4>. HIDE DEF m
      <4>. QED
        BY <1>4, <3>1, <3>2
    <3>3. CASE i # 0
      <4>1. i \in 1 .. n
        BY <1>1, <3>3
      <4>2. m[i] <= Len(y)
        BY <1>3, <4>1
      <4>. HIDE DEF m, y
      <4>. QED
        BY <3>1, <4>2
    <3>. QED
      BY <3>2, <3>3
  <2>2. m = [i \in 0 .. n |-> m[i]]
    BY DEF Ends
  <2>. HIDE DEF m, y
  <2>. QED
    BY <2>1, <2>2
<1>. QED
  BY <1>1, <1>3, <1>4, <1>5

(* A stretch of the elements is a stretch of the concatenation.             *)
LEMMA FlatJoins ==
    ASSUME NEW S, NEW f \in Seq(Seq(S)), NEW a \in 0 .. Len(f), NEW b \in a .. Len(f)
    PROVE  /\ FlattenSeq(SubSeq(f, a + 1, b)) \in Seq(S)
           /\ FirstOf(f, b) = FirstOf(f, a) \o FlattenSeq(SubSeq(f, a + 1, b))
<1>. DEFINE W == {k \in Nat : a + k <= Len(f) =>
                    FirstOf(f, a + k) = FirstOf(f, a) \o FlattenSeq(SubSeq(f, a + 1, a + k))}
<1>0. Len(f) \in Nat /\ a \in Nat /\ b \in Nat /\ a <= b /\ b <= Len(f)
  OBVIOUS
<1>1. FirstOf(f, a) \in Seq(S)
  BY FirstOfType
<1>2. ASSUME NEW k \in Nat, a + k <= Len(f)
      PROVE  LET g == SubSeq(f, a + 1, a + k)
             IN  g \in Seq(Seq(S)) /\ Len(g) = k /\ \A j \in 1 .. k : g[j] = f[a + j]
  BY <1>0, <1>2
<1>3. 0 \in W
  <2>1. SubSeq(f, a + 1, a + 0) = <<>>
    BY <1>0
  <2>2. FlattenSeq(SubSeq(f, a + 1, a + 0)) = <<>>
    BY <2>1, FlattenEmpty
  <2>3. FirstOf(f, a) \o <<>> = FirstOf(f, a)
    BY <1>1
  <2>4. a + 0 = a
    BY <1>0
  <2>. QED
    BY <2>2, <2>3, <2>4
<1>4. ASSUME NEW k \in Nat, k \in W PROVE k + 1 \in W
  <2>. SUFFICES ASSUME a + (k + 1) <= Len(f)
                PROVE  FirstOf(f, a + (k + 1)) = FirstOf(f, a) \o FlattenSeq(SubSeq(f, a + 1, a + (k + 1)))
    OBVIOUS
  <2>. DEFINE g == SubSeq(f, a + 1, a + k)
              h == SubSeq(f, a + 1, a + (k + 1))
  <2>1. /\ g \in Seq(Seq(S)) /\ Len(g) = k /\ \A j \in 1 .. k : g[j] = f[a + j]
    BY <1>0, <1>2
  <2>2. /\ h \in Seq(Seq(S)) /\ Len(h) = k + 1 /\ \A j \in 1 .. k + 1 : h[j] = f[a + j]
    BY <1>0, <1>2
  <2>3. FirstOf(f, a + k) = FirstOf(f, a) \o FlattenSeq(g)
    BY <1>0, <1>4
  <2>. HIDE DEF g, h
  <2>4. SubSeq(h, 1, k) = g
    <3>. DEFINE u == SubSeq(h, 1, k)
    <3>1. u \in Seq(Seq(S)) /\ Len(u) = k /\ \A j \in 1 .. k : u[j] = h[j]
      BY <2>2
    <3>. HIDE DEF u
    <3>2. ASSUME NEW j \in 1 .. k PROVE u[j] = g[j]
      <4>1. j \in 1 .. k + 1
        OBVIOUS
      <4>. QED
        BY <2>1, <2>2, <3>1, <4>1
    <3>3. u = g
      BY <2>1, <3>1, <3>2, SeqEqual
    <3>. QED
      BY <3>3 DEF u
  <2>5. FlattenSeq(h) = FlattenSeq(g) \o h[k + 1] /\ h[k + 1] \in Seq(S) /\ FlattenSeq(g) \in Seq(S)
    <3>1. k \in 0 .. Len(h) - 1 /\ k + 1 = Len(h)
      BY <2>2
    <3>2. FirstOf(h, Len(h)) = FlattenSeq(h) /\ FirstOf(h, k + 1) = FirstOf(h, k) \o h[k + 1]
      BY <2>2, <3>1, FirstOfSteps
    <3>3. FirstOf(h, k) = FlattenSeq(g)
      BY <2>4 DEF FirstOf
    <3>4. FlattenSeq(g) \in Seq(S)
      BY <2>1, FlattenType
    <3>. QED
      BY <2>2, <3>1, <3>2, <3>3, <3>4, SMTT(40)
  <2>6. FirstOf(f, a + (k + 1)) = FirstOf(f, a + k) \o f[a + (k + 1)]
    <3>. DEFINE c == a + k
    <3>1. c \in 0 .. Len(f) - 1 /\ a + (k + 1) = c + 1
      BY <1>0
    <3>. HIDE DEF c
    <3>2. FirstOf(f, c + 1) = FirstOf(f, c) \o f[c + 1]
      BY <3>1, FirstOfSteps
    <3>. QED
      BY <3>1, <3>2 DEF c
  <2>7. h[k + 1] = f[a + (k + 1)]
    BY <2>2
  <2>8. (FirstOf(f, a) \o FlattenSeq(g)) \o h[k + 1] = FirstOf(f, a) \o (FlattenSeq(g) \o h[k + 1])
    <3>. DEFINE u == FirstOf(f, a)
                v == FlattenSeq(g)
                w == h[k + 1]
    <3>1. u \in Seq(S) /\ v \in Seq(S) /\ w \in Seq(S)
      BY <1>1, <2>5
    <3>. HIDE DEF u, v, w
    <3>2. (u \o v) \o w = u \o (v \o w)
      BY <3>1, ConcatAssociative, SMTT(30)
    <3>. QED
      BY <3>2 DEF u, v, w
  <2>9. FirstOf(f, a + (k + 1)) = FirstOf(f, a) \o FlattenSeq(h)
    BY <2>3, <2>5, <2>6, <2>7, <2>8
  <2>. QED
    BY <2>9 DEF h
<1>. HIDE DEF W
<1>5. \A k \in Nat : k \in W
  BY <1>3, <1>4, Induction
<1>6. b - a \in Nat /\ a + (b - a) = b
  BY <1>0
<1>7. FirstOf(f, b) = FirstOf(f, a) \o FlattenSeq(SubSeq(f, a + 1, b))
  <2>1. b - a \in W
    BY <1>5, <1>6
  <2>. QED
    BY <1>0, <1>6, <2>1 DEF W
<1>8. SubSeq(f, a + 1, b) \in Seq(Seq(S))
  <2>1. SubSeq(f, a + 1, a + (b - a)) \in Seq(Seq(S))
    BY <1>0, <1>2, <1>6
  <2>. QED
    BY <1>6, <2>1
<1>. QED
  BY <1>7, <1>8, FlattenType

LEMMA FlatSlice ==
    ASSUME NEW S, NEW f \in Seq(Seq(S)), NEW a \in 0 .. Len(f), NEW b \in a .. Len(f)
    PROVE  /\ Ends(f)[a] <= Ends(f)[b]
           /\ SubSeq(FlattenSeq(f), Ends(f)[a] + 1, Ends(f)[b]) = FlattenSeq(SubSeq(f, a + 1, b))
<1>. DEFINE y == FlattenSeq(f)
            u == FirstOf(f, a)
            v == FirstOf(f, b)
            w == FlattenSeq(SubSeq(f, a + 1, b))
            z == FlattenSeq(SubSeq(f, b + 1, Len(f)))
<1>0. Len(f) \in Nat /\ b \in 0 .. Len(f) /\ Len(f) \in b .. Len(f)
  OBVIOUS
<1>1. w \in Seq(S) /\ v = u \o w
  BY FlatJoins
<1>2. z \in Seq(S) /\ y = v \o z
  <2>1. z \in Seq(S) /\ FirstOf(f, Len(f)) = v \o z
    BY <1>0, FlatJoins
  <2>2. FirstOf(f, Len(f)) = y
    BY FirstOfSteps
  <2>. QED
    BY <2>1, <2>2
<1>3. u \in Seq(S) /\ v \in Seq(S)
  BY <1>0, FirstOfType
<1>4. Ends(f)[a] = Len(u) /\ Ends(f)[b] = Len(v)
  BY <1>0 DEF Ends
<1>. HIDE DEF u, v, w, y, z
<1>5. /\ Len(v) = Len(u) + Len(w)
      /\ \A i \in 1 .. Len(u) + Len(w) : v[i] = IF i <= Len(u) THEN u[i] ELSE w[i - Len(u)]
  BY <1>1, <1>3, ConcatProperties
<1>6. /\ y \in Seq(S) /\ Len(y) = Len(v) + Len(z)
      /\ \A i \in 1 .. Len(v) + Len(z) : y[i] = IF i <= Len(v) THEN v[i] ELSE z[i - Len(v)]
  BY <1>2, <1>3, ConcatProperties
<1>. DEFINE s == SubSeq(y, Len(u) + 1, Len(v))
<1>7. Len(u) \in Nat /\ Len(w) \in Nat /\ Len(z) \in Nat /\ Len(v) \in Nat
  BY <1>1, <1>2, <1>3
<1>8. /\ s \in Seq(S) /\ Len(s) = Len(w)
      /\ \A k \in 1 .. Len(w) : s[k] = y[Len(u) + k]
  BY <1>5, <1>6, <1>7, SMTT(40)
<1>9. \A k \in 1 .. Len(w) : s[k] = w[k]
  <2>. SUFFICES ASSUME NEW k \in 1 .. Len(w) PROVE s[k] = w[k]
    OBVIOUS
  <2>. DEFINE i == Len(u) + k
  <2>1. i \in 1 .. Len(u) + Len(w) /\ i \in 1 .. Len(v) + Len(z) /\ i <= Len(v)
        /\ ~(i <= Len(u)) /\ i - Len(u) = k
    BY <1>5, <1>7
  <2>2. s[k] = y[i]
    BY <1>8
  <2>. HIDE DEF i, s
  <2>3. y[i] = v[i]
    BY <1>6, <2>1
  <2>4. v[i] = w[i - Len(u)]
    BY <1>5, <2>1
  <2>. QED
    BY <2>1, <2>2, <2>3, <2>4
<1>. HIDE DEF s
<1>10. s = w
  BY <1>1, <1>8, <1>9, SeqEqual
<1>11. Len(u) <= Len(v)
  BY <1>5, <1>7
<1>. QED
  BY <1>4, <1>10, <1>11 DEF s, w, y

-----------------------------------------------------------------------------
(* Segments and slashes of a text that is laid out on another.              *)

(* Places laid out so that every slash stays, but those before another one. *)
Laid(x, y, m) ==
    /\ m[0] = 0 /\ m[Len(x)] = Len(y)
    /\ \A i \in 1 .. Len(x) : m[i - 1] <= m[i]
    /\ \A i \in 1 .. Len(x) : x[i] # "/" => \A j \in m[i - 1] + 1 .. m[i] : y[j] # "/"
    /\ \A i \in 1 .. Len(x) : x[i] = "/" =>
          \/ m[i] = m[i - 1] /\ i < Len(x) /\ x[i + 1] = "/"
          \/ m[i] = m[i - 1] + 1 /\ y[m[i]] = "/"
SlashAfter(w, i) == FindFirstOf(w, i + 1, {"/"})

LEMMA SlashAfterIs ==
    ASSUME NEW S, NEW w \in Seq(S), NEW i \in 0 .. Len(w)
    PROVE  LET e == SlashAfter(w, i)
           IN  /\ e \in i + 1 .. Len(w) + 1 /\ (e <= Len(w) => w[e] = "/")
               /\ \A j \in i + 1 .. e - 1 : w[j] # "/"
<1>1. i + 1 \in Nat \ {0} /\ i + 1 <= Len(w) + 1 /\ Len(w) \in Nat
  OBVIOUS
<1>. DEFINE e == FindFirstOf(w, i + 1, {"/"})
<1>2. /\ e \in 1 .. Len(w) + 1 /\ (i + 1 <= Len(w) + 1 => i + 1 <= e)
      /\ (e <= Len(w) => w[e] \in {"/"})
      /\ \A j \in i + 1 .. e - 1 : j \in 1 .. Len(w) => w[j] \notin {"/"}
  BY <1>1, FindIs
<1>. HIDE DEF e
<1>3. /\ e \in i + 1 .. Len(w) + 1 /\ (e <= Len(w) => w[e] = "/")
      /\ \A j \in i + 1 .. e - 1 : w[j] # "/"
  BY <1>1, <1>2
<1>. QED
  BY <1>3 DEF SlashAfter, e

LEMMA SlashAfterAt ==
    ASSUME NEW S, NEW w \in Seq(S), NEW i \in 0 .. Len(w), NEW e \in i + 1 .. Len(w) + 1,
           e <= Len(w) => w[e] = "/", \A j \in i + 1 .. e - 1 : w[j] # "/"
    PROVE  SlashAfter(w, i) = e
<1>1. i + 1 \in Nat \ {0} /\ e \in Nat /\ i + 1 <= e /\ e <= Len(w) + 1
  OBVIOUS
<1>2. FindFirstOf(w, i + 1, {"/"}) = e
  BY <1>1, FoundAt
<1>. QED
  BY <1>2 DEF SlashAfter

LEMMA LaidNext ==
    ASSUME NEW S, NEW x \in Seq(S), NEW T, NEW y \in Seq(T),
           NEW m \in [0 .. Len(x) -> 0 .. Len(y)], Laid(x, y, m), NEW i \in 0 .. Len(x)
    PROVE  LET e == SlashAfter(x, i)
           IN  /\ m[i] <= m[e - 1] /\ SlashAfter(y, m[i]) = m[e - 1] + 1
               /\ \A j \in m[i] + 1 .. m[e - 1] : y[j] # "/"
<1>. DEFINE e == SlashAfter(x, i)
            n == Len(x)
<1>0. n \in Nat /\ Len(y) \in Nat
  OBVIOUS
<1>1. /\ e \in i + 1 .. n + 1 /\ (e <= n => x[e] = "/")
      /\ \A j \in i + 1 .. e - 1 : x[j] # "/"
  BY SlashAfterIs
<1>. HIDE DEF e
<1>. DEFINE W == {k \in Nat : i + k <= e - 1 =>
                    m[i] <= m[i + k] /\ \A j \in m[i] + 1 .. m[i + k] : y[j] # "/"}
<1>2. 0 \in W
  <2>1. m[i] \in Nat /\ i + 0 = i
    OBVIOUS
  <2>. QED
    BY <2>1
<1>3. ASSUME NEW k \in Nat, k \in W PROVE k + 1 \in W
  <2>. SUFFICES ASSUME i + (k + 1) <= e - 1
                PROVE  /\ m[i] <= m[i + (k + 1)]
                       /\ \A j \in m[i] + 1 .. m[i + (k + 1)] : y[j] # "/"
    OBVIOUS
  <2>. DEFINE a == i + k
              b == i + (k + 1)
  <2>1. b \in 1 .. n /\ b - 1 = a /\ a \in 0 .. n /\ b \in i + 1 .. e - 1 /\ b \in 0 .. n
        /\ i + k <= e - 1
    BY <1>0, <1>1
  <2>2. m[i] <= m[a] /\ \A j \in m[i] + 1 .. m[a] : y[j] # "/"
    BY <1>3, <2>1
  <2>. HIDE DEF a, b
  <2>3. m[a] <= m[b] /\ \A j \in m[a] + 1 .. m[b] : y[j] # "/"
    BY <1>1, <2>1 DEF Laid
  <2>4. m[a] \in Nat /\ m[b] \in Nat /\ m[i] \in Nat
    BY <2>1, SMTT(40)
  <2>5. \A j \in m[i] + 1 .. m[b] : y[j] # "/"
    <3>. SUFFICES ASSUME NEW j \in m[i] + 1 .. m[b] PROVE y[j] # "/"
      OBVIOUS
    <3>1. j \in m[i] + 1 .. m[a] \/ j \in m[a] + 1 .. m[b]
      BY <2>4
    <3>. QED
      BY <2>2, <2>3, <3>1
  <2>6. m[i] <= m[b]
    BY <2>2, <2>3, <2>4
  <2>. QED
    BY <2>5, <2>6 DEF b
<1>. HIDE DEF W
<1>4. \A k \in Nat : k \in W
  BY <1>2, <1>3, Induction
<1>5. m[i] <= m[e - 1] /\ \A j \in m[i] + 1 .. m[e - 1] : y[j] # "/"
  <2>1. e - 1 - i \in Nat /\ i + (e - 1 - i) = e - 1
    BY <1>0, <1>1
  <2>2. e - 1 - i \in W
    BY <1>4, <2>1
  <2>. QED
    BY <2>1, <2>2 DEF W
<1>. DEFINE D == {k \in Nat : \A c \in 1 .. n : c = n - k /\ x[c] = "/" =>
                    m[c - 1] + 1 \in 1 .. Len(y) /\ y[m[c - 1] + 1] = "/"}
<1>6. ASSUME NEW c \in 1 .. n, x[c] = "/", m[c] = m[c - 1] + 1 /\ y[m[c]] = "/"
      PROVE  m[c - 1] + 1 \in 1 .. Len(y) /\ y[m[c - 1] + 1] = "/"
  <2>1. m[c] \in 0 .. Len(y) /\ m[c - 1] \in Nat
    BY <1>0, SMTT(40)
  <2>. QED
    BY <1>6, <2>1
<1>7. 0 \in D
  <2>. SUFFICES ASSUME NEW c \in 1 .. n, c = n - 0, x[c] = "/"
                PROVE  m[c - 1] + 1 \in 1 .. Len(y) /\ y[m[c - 1] + 1] = "/"
    BY Zenon
  <2>1. m[c] = m[c - 1] + 1 /\ y[m[c]] = "/"
    BY <1>0 DEF Laid
  <2>. QED
    BY <1>6, <2>1
<1>8. ASSUME NEW k \in Nat, k \in D PROVE k + 1 \in D
  <2>. SUFFICES ASSUME NEW c \in 1 .. n, c = n - (k + 1), x[c] = "/"
                PROVE  m[c - 1] + 1 \in 1 .. Len(y) /\ y[m[c - 1] + 1] = "/"
    OBVIOUS
  <2>1. CASE m[c] = m[c - 1] + 1 /\ y[m[c]] = "/"
    BY <1>6, <2>1
  <2>2. CASE m[c] = m[c - 1] /\ c < n /\ x[c + 1] = "/"
    <3>. DEFINE d == c + 1
    <3>1. d \in 1 .. n /\ d = n - k /\ d - 1 = c
      BY <1>0, <2>2
    <3>2. x[d] = "/"
      BY <2>2
    <3>. HIDE DEF d
    <3>3. m[d - 1] + 1 \in 1 .. Len(y) /\ y[m[d - 1] + 1] = "/"
      BY <1>8, <3>1, <3>2
    <3>. QED
      BY <2>2, <3>1, <3>3
  <2>. QED
    BY <2>1, <2>2 DEF Laid
<1>. HIDE DEF D
<1>9. \A k \in Nat : k \in D
  BY <1>7, <1>8, Induction
<1>10. e <= n => m[e - 1] + 1 \in 1 .. Len(y) /\ y[m[e - 1] + 1] = "/"
  <2>. SUFFICES ASSUME e <= n PROVE m[e - 1] + 1 \in 1 .. Len(y) /\ y[m[e - 1] + 1] = "/"
    OBVIOUS
  <2>1. e \in 1 .. n /\ n - e \in Nat /\ e = n - (n - e) /\ x[e] = "/"
    BY <1>0, <1>1
  <2>2. n - e \in D
    BY <1>9, <2>1
  <2>. QED
    BY <2>1, <2>2 DEF D
<1>11. SlashAfter(y, m[i]) = m[e - 1] + 1
  <2>. DEFINE a == m[i]
              b == m[e - 1] + 1
  <2>1. e - 1 \in 0 .. n
    BY <1>0, <1>1
  <2>2. m[e - 1] \in 0 .. Len(y)
    BY <2>1
  <2>3. a \in 0 .. Len(y) /\ b \in a + 1 .. Len(y) + 1
    BY <1>5, <2>2
  <2>4. b <= Len(y) => y[b] = "/"
    <3>1. CASE e <= n
      BY <1>10, <3>1
    <3>2. CASE e = n + 1
      <4>1. e - 1 = n
        BY <1>0, <3>2
      <4>2. m[e - 1] = Len(y)
        BY <4>1 DEF Laid
      <4>. QED
        BY <1>0, <4>2
    <3>3. e <= n \/ e = n + 1
      BY <1>0, <1>1
    <3>. QED
      BY <3>1, <3>2, <3>3, Zenon
  <2>5. \A j \in a + 1 .. b - 1 : y[j] # "/"
    <3>1. b - 1 = m[e - 1]
      BY <2>2
    <3>. QED
      BY <1>5, <3>1
  <2>. HIDE DEF a, b
  <2>6. SlashAfter(y, a) = b
    BY <2>3, <2>4, <2>5, SlashAfterAt
  <2>. QED
    BY <2>6 DEF a, b
<1>. QED
  BY <1>5, <1>11 DEF e

(* The segments behind slashes, as they are written.                        *)
RawAt(w, i) == SubSeq(w, i + 1, SlashAfter(w, i) - 1)
Raws(w) == [i \in 1 .. Len(w) |-> RawAt(w, i)]

LEMMA RawIs ==
    ASSUME NEW S, NEW w \in Seq(S), NEW i \in 0 .. Len(w)
    PROVE  /\ RawAt(w, i) \in Seq(S \ {"/"}) /\ Len(RawAt(w, i)) = SlashAfter(w, i) - 1 - i
           /\ \A k \in 1 .. SlashAfter(w, i) - 1 - i : RawAt(w, i)[k] = w[i + k]
<1>. DEFINE e == SlashAfter(w, i)
            r == RawAt(w, i)
<1>0. Len(w) \in Nat
  OBVIOUS
<1>1. e \in i + 1 .. Len(w) + 1 /\ \A j \in i + 1 .. e - 1 : w[j] # "/"
  BY SlashAfterIs
<1>2. r = SubSeq(w, i + 1, e - 1)
  BY DEF RawAt
<1>. HIDE DEF e, r
<1>3. /\ r \in Seq(S) /\ Len(r) = e - 1 - i
      /\ \A k \in 1 .. e - 1 - i : r[k] = w[i + k]
  BY <1>0, <1>1, <1>2
<1>4. \A k \in 1 .. Len(r) : r[k] \in S \ {"/"}
  <2>. SUFFICES ASSUME NEW k \in 1 .. Len(r) PROVE r[k] \in S \ {"/"}
    OBVIOUS
  <2>1. i + k \in i + 1 .. e - 1 /\ k \in 1 .. e - 1 - i
    BY <1>0, <1>1, <1>3
  <2>2. r[k] = w[i + k] /\ w[i + k] # "/" /\ r[k] \in S
    BY <1>1, <1>3, <2>1
  <2>. QED
    BY <2>2
<1>5. r \in Seq(S \ {"/"})
  BY <1>3, <1>4
<1>. QED
  BY <1>3, <1>5 DEF e, r

LEMMA RawsAre ==
    ASSUME NEW S, NEW w \in Seq(S)
    PROVE  Raws(w) \in [1 .. Len(w) -> Seq(S \ {"/"})]
<1>1. \A i \in 1 .. Len(w) : i \in 0 .. Len(w)
  OBVIOUS
<1>2. \A i \in 1 .. Len(w) : RawAt(w, i) \in Seq(S \ {"/"})
  BY <1>1, RawIs
<1>. QED
  BY <1>2 DEF Raws

-----------------------------------------------------------------------------
(* Decoding lays a path out.                                                *)

(* What a place is decoded to, one case after the other.                    *)
LEMMA DecodedBehind ==
    ASSUME NEW w, NEW keep, NEW i, At(w, i - 1) = "%" \/ At(w, i - 2) = "%"
    PROVE  DecodedAt(w, keep, i) = <<>>
BY Zenon DEF DecodedAt

LEMMA DecodedPlain ==
    ASSUME NEW w, NEW keep, NEW i, w[i] # "%", At(w, i - 1) # "%", At(w, i - 2) # "%"
    PROVE  DecodedAt(w, keep, i) = <<w[i]>>
BY Zenon DEF DecodedAt

LEMMA DecodedPercent ==
    ASSUME NEW w, NEW keep, NEW i, w[i] = "%", At(w, i - 1) # "%", At(w, i - 2) # "%"
    PROVE  DecodedAt(w, keep, i) = IF OctetOf(w[i + 1], w[i + 2]) \in keep \cup {"NUL"}
                                   THEN SubSeq(w, i, i + 2)
                                   ELSE <<OctetOf(w[i + 1], w[i + 2])>>
BY Zenon DEF DecodedAt

LEMMA PercentsAreApart ==
    ASSUME NEW S, NEW w \in Seq(S), Escaped(w), NEW i \in 1 .. Len(w), w[i] \notin Hex
    PROVE  At(w, i - 1) # "%" /\ At(w, i - 2) # "%"
BY DecodedIs

LEMMA PercentBegins ==
    ASSUME NEW w, Escaped(w), NEW i \in 1 .. Len(w), w[i] = "%"
    PROVE  i + 2 <= Len(w) /\ w[i + 1] \in Hex /\ w[i + 2] \in Hex
BY DEF Escaped

(* What is decoded of a segment is what is decoded of it in the whole path. *)
LEMMA SegmentIsEscaped ==
    ASSUME NEW S, NEW p \in Seq(S), Escaped(p), NEW i \in 0 .. Len(p)
    PROVE  Escaped(RawAt(p, i))
<1>. DEFINE r == RawAt(p, i)
            e == SlashAfter(p, i)
<1>0. Len(p) \in Nat /\ "/" \notin Hex
  BY DEF Hex, HexUpper
<1>1. /\ e \in i + 1 .. Len(p) + 1 /\ (e <= Len(p) => p[e] = "/")
  BY SlashAfterIs
<1>2. r \in Seq(S \ {"/"}) /\ Len(r) = e - 1 - i /\ \A k \in 1 .. e - 1 - i : r[k] = p[i + k]
  BY RawIs
<1>. HIDE DEF r, e
<1>3. ASSUME NEW k \in 1 .. Len(r), r[k] = "%"
      PROVE  k + 2 <= Len(r) /\ r[k + 1] \in Hex /\ r[k + 2] \in Hex
  <2>. DEFINE j == i + k
  <2>1. j \in 1 .. Len(p) /\ p[j] = "%"
    BY <1>0, <1>1, <1>2, <1>3
  <2>2. j + 2 <= Len(p) /\ p[j + 1] \in Hex /\ p[j + 2] \in Hex
    BY <2>1 DEF Escaped
  <2>3. e # j + 1 /\ e # j + 2
    BY <1>0, <1>1, <2>1, <2>2
  <2>4. k + 2 <= Len(r)
    BY <1>0, <1>1, <1>2, <2>1, <2>2, <2>3
  <2>5. r[k + 1] = p[j + 1] /\ r[k + 2] = p[j + 2]
    <3>1. k + 1 \in 1 .. e - 1 - i /\ k + 2 \in 1 .. e - 1 - i
      BY <1>0, <1>1, <1>2, <2>4
    <3>2. i + (k + 1) = j + 1 /\ i + (k + 2) = j + 2
      OBVIOUS
    <3>3. r[k + 1] = p[i + (k + 1)] /\ r[k + 2] = p[i + (k + 2)]
      BY <1>2, <3>1
    <3>. QED
      BY <3>2, <3>3
  <2>. QED
    BY <2>2, <2>4, <2>5
<1>. QED
  BY <1>3 DEF Escaped, r

LEMMA DecodedWithin ==
    ASSUME NEW S, NEW p \in Seq(S), Escaped(p), NEW keep,
           NEW i \in 1 .. Len(p), p[i] = "/", NEW k \in 1 .. Len(RawAt(p, i))
    PROVE  DecodedAt(RawAt(p, i), keep, k) = DecodedAt(p, keep, i + k)
<1>. DEFINE r == RawAt(p, i)
            e == SlashAfter(p, i)
            j == i + k
            R == S \ {"/"}
<1>0. Len(p) \in Nat /\ "/" \notin Hex /\ i \in 0 .. Len(p)
  BY DEF Hex, HexUpper
<1>1. /\ e \in i + 1 .. Len(p) + 1 /\ (e <= Len(p) => p[e] = "/")
  BY <1>0, SlashAfterIs
<1>2. r \in Seq(R) /\ Len(r) = e - 1 - i /\ \A l \in 1 .. e - 1 - i : r[l] = p[i + l]
  BY <1>0, RawIs
<1>3. Escaped(r)
  BY <1>0, SegmentIsEscaped
<1>. HIDE DEF r, e, R
<1>4. k \in 1 .. Len(r) /\ j \in 1 .. Len(p) /\ r[k] = p[j]
  BY <1>0, <1>1, <1>2 DEF r
<1>5. At(p, i - 1) # "%"
  <2>. SUFFICES ASSUME At(p, i - 1) = "%" PROVE FALSE
    OBVIOUS
  <2>1. i - 1 \in 1 .. Len(p) /\ p[i - 1] = "%" /\ (i - 1) + 1 = i
    BY <1>0 DEF At
  <2>2. p[i] \in Hex
    BY <2>1 DEF Escaped
  <2>. QED
    BY <1>0, <2>2
<1>6. At(r, k - 1) = "%" <=> At(p, j - 1) = "%"
  <2>1. CASE k = 1
    <3>1. At(r, k - 1) = "" /\ At(p, j - 1) = "/"
      BY <1>0, <2>1 DEF At
    <3>. QED
      BY <3>1
  <2>2. CASE k # 1
    <3>1. k - 1 \in 1 .. e - 1 - i /\ k - 1 \in 1 .. Len(r) /\ j - 1 \in 1 .. Len(p) /\ i + (k - 1) = j - 1
      BY <1>0, <1>1, <1>2, <1>4, <2>2
    <3>2. r[k - 1] = p[j - 1]
      <4>1. r[k - 1] = p[i + (k - 1)]
        BY <1>2, <3>1
      <4>. QED
        BY <3>1, <4>1
    <3>. QED
      BY <3>1, <3>2 DEF At
  <2>. QED
    BY <2>1, <2>2
<1>7. At(r, k - 2) = "%" <=> At(p, j - 2) = "%"
  <2>1. CASE k = 1
    <3>1. At(r, k - 2) = "" /\ j - 2 = i - 1
      BY <1>0, <2>1 DEF At
    <3>. QED
      BY <1>5, <3>1
  <2>2. CASE k = 2
    <3>1. At(r, k - 2) = "" /\ At(p, j - 2) = "/"
      BY <1>0, <2>2 DEF At
    <3>. QED
      BY <3>1
  <2>3. CASE k # 1 /\ k # 2
    <3>1. k - 2 \in 1 .. e - 1 - i /\ k - 2 \in 1 .. Len(r) /\ j - 2 \in 1 .. Len(p) /\ i + (k - 2) = j - 2
      BY <1>0, <1>1, <1>2, <1>4, <2>3
    <3>2. r[k - 2] = p[j - 2]
      <4>1. r[k - 2] = p[i + (k - 2)]
        BY <1>2, <3>1
      <4>. QED
        BY <3>1, <4>1
    <3>. QED
      BY <3>1, <3>2 DEF At
  <2>. QED
    BY <2>1, <2>2, <2>3
<1>. HIDE DEF j
<1>8. CASE At(p, j - 1) = "%" \/ At(p, j - 2) = "%"
  <2>1. DecodedAt(p, keep, j) = <<>>
    BY <1>8, DecodedBehind
  <2>2. DecodedAt(r, keep, k) = <<>>
    BY <1>6, <1>7, <1>8, DecodedBehind
  <2>. QED
    BY <2>1, <2>2 DEF r, j
<1>9. CASE p[j] # "%" /\ At(p, j - 1) # "%" /\ At(p, j - 2) # "%"
  <2>1. DecodedAt(p, keep, j) = <<p[j]>>
    BY <1>9, DecodedPlain
  <2>2. DecodedAt(r, keep, k) = <<r[k]>>
    BY <1>4, <1>6, <1>7, <1>9, DecodedPlain
  <2>. QED
    BY <1>4, <2>1, <2>2 DEF r, j
<1>10. CASE p[j] = "%" /\ At(p, j - 1) # "%" /\ At(p, j - 2) # "%"
  <2>1. j + 2 <= Len(p)
    BY <1>4, <1>10, PercentBegins
  <2>2. k + 2 <= Len(r) /\ r[k] = "%"
    BY <1>3, <1>4, <1>10, PercentBegins
  <2>3. r[k + 1] = p[j + 1] /\ r[k + 2] = p[j + 2]
    <3>1. k + 1 \in 1 .. e - 1 - i /\ k + 2 \in 1 .. e - 1 - i
      BY <1>0, <1>1, <1>2, <1>4, <2>2
    <3>2. i + (k + 1) = j + 1 /\ i + (k + 2) = j + 2
      BY DEF j
    <3>3. r[k + 1] = p[i + (k + 1)] /\ r[k + 2] = p[i + (k + 2)]
      BY <1>2, <3>1
    <3>. QED
      BY <3>2, <3>3
  <2>4. SubSeq(r, k, k + 2) = SubSeq(p, j, j + 2)
    <3>. DEFINE u == SubSeq(r, k, k + 2)
                v == SubSeq(p, j, j + 2)
    <3>1. u \in Seq(R) /\ Len(u) = 3 /\ u[1] = r[k] /\ u[2] = r[k + 1] /\ u[3] = r[k + 2]
      BY <1>2, <1>4, <2>2
    <3>2. v \in Seq(S) /\ Len(v) = 3 /\ v[1] = p[j] /\ v[2] = p[j + 1] /\ v[3] = p[j + 2]
      BY <1>4, <2>1
    <3>. HIDE DEF u, v
    <3>3. Len(u) = Len(v) /\ \A l \in 1 .. Len(u) : u[l] = v[l]
      <4>1. \A l \in 1 .. 3 : l = 1 \/ l = 2 \/ l = 3
        OBVIOUS
      <4>. QED
        BY <1>4, <2>3, <3>1, <3>2, <4>1
    <3>4. u = v
      BY <3>1, <3>2, <3>3, SameSeq
    <3>. QED
      BY <3>4 DEF u, v
  <2>5. DecodedAt(p, keep, j) = IF OctetOf(p[j + 1], p[j + 2]) \in keep \cup {"NUL"}
                                THEN SubSeq(p, j, j + 2) ELSE <<OctetOf(p[j + 1], p[j + 2])>>
    BY <1>10, DecodedPercent, ZenonT(40)
  <2>6. DecodedAt(r, keep, k) = IF OctetOf(r[k + 1], r[k + 2]) \in keep \cup {"NUL"}
                                THEN SubSeq(r, k, k + 2) ELSE <<OctetOf(r[k + 1], r[k + 2])>>
    <3>1. r[k] = "%" /\ At(r, k - 1) # "%" /\ At(r, k - 2) # "%"
      BY <1>6, <1>7, <1>10, <2>2
    <3>. QED
      BY <3>1, DecodedPercent, ZenonT(40)
  <2>7. DecodedAt(r, keep, k) = DecodedAt(p, keep, j)
    <3>. DEFINE a == OctetOf(p[j + 1], p[j + 2])
                b == OctetOf(r[k + 1], r[k + 2])
                u == SubSeq(p, j, j + 2)
                v == SubSeq(r, k, k + 2)
    <3>1. a = b /\ u = v
      BY <2>3, <2>4
    <3>2. DecodedAt(p, keep, j) = IF a \in keep \cup {"NUL"} THEN u ELSE <<a>>
      BY <2>5
    <3>3. DecodedAt(r, keep, k) = IF b \in keep \cup {"NUL"} THEN v ELSE <<b>>
      BY <2>6
    <3>. HIDE DEF a, b, u, v
    <3>. QED
      BY <3>1, <3>2, <3>3
  <2>. QED
    BY <2>7 DEF r, j
<1>. QED
  BY <1>8, <1>9, <1>10

(* How PercentDecode lays a path out.                                       *)
Decodings(p) == [i \in 1 .. Len(p) |-> DecodedAt(p, {"/"}, i)]

LEMMA DecodeLays ==
    ASSUME NEW S, NEW p \in Seq(S), Escaped(p)
    PROVE  LET d == PercentDecode(p, {"/"})
               m == Ends(Decodings(p))
           IN  /\ m \in [0 .. Len(p) -> 0 .. Len(d)] /\ Laid(p, d, m)
               /\ \A i \in 1 .. Len(p) : p[i] = "/" => m[i] = m[i - 1] + 1
               /\ \A i \in 1 .. Len(p) : p[i] = "/" => RawAt(d, m[i]) = SegmentAt(p, i)
<1>. DEFINE f == Decodings(p)
            d == PercentDecode(p, {"/"})
            m == Ends(f)
            O == Octets(S)
<1>0. Len(p) \in Nat /\ "/" \notin Hex
  BY DEF Hex, HexUpper
<1>1. f \in Seq(Seq(O)) /\ d = FlattenSeq(f) /\ d \in Seq(O)
  BY DecodedIsSeq DEF Decodings
<1>2. Len(f) = Len(p) /\ \A i \in 1 .. Len(p) : f[i] = DecodedAt(p, {"/"}, i)
  BY <1>0 DEF Decodings
<1>. HIDE DEF f, d, m, O
<1>3. /\ m \in [0 .. Len(p) -> 0 .. Len(d)] /\ m[0] = 0 /\ m[Len(p)] = Len(d)
      /\ \A i \in 1 .. Len(p) :
            /\ m[i] = m[i - 1] + Len(f[i])
            /\ \A k \in 1 .. Len(f[i]) : d[m[i - 1] + k] = f[i][k]
  BY <1>1, <1>2, EndsAre DEF m
<1>4. ASSUME NEW i \in 1 .. Len(p), p[i] = "/" PROVE f[i] = <<"/">>
  <2>1. p[i] \notin Hex /\ p[i] # "%"
    BY <1>0, <1>4
  <2>2. At(p, i - 1) # "%" /\ At(p, i - 2) # "%"
    BY <2>1, PercentsAreApart
  <2>3. DecodedAt(p, {"/"}, i) = <<p[i]>>
    BY <2>1, <2>2, DecodedPlain
  <2>. QED
    BY <1>2, <1>4, <2>3
<1>5. ASSUME NEW i \in 1 .. Len(p), p[i] # "/" PROVE \A k \in 1 .. Len(f[i]) : f[i][k] # "/"
  <2>1. CASE At(p, i - 1) = "%" \/ At(p, i - 2) = "%"
    <3>1. DecodedAt(p, {"/"}, i) = <<>>
      BY <2>1, DecodedBehind
    <3>. QED
      BY <1>2, <3>1
  <2>2. CASE p[i] # "%" /\ At(p, i - 1) # "%" /\ At(p, i - 2) # "%"
    <3>1. DecodedAt(p, {"/"}, i) = <<p[i]>>
      BY <2>2, DecodedPlain
    <3>. QED
      BY <1>2, <1>5, <3>1
  <2>3. CASE p[i] = "%" /\ At(p, i - 1) # "%" /\ At(p, i - 2) # "%"
    <3>. DEFINE c == OctetOf(p[i + 1], p[i + 2])
    <3>1. i + 2 <= Len(p) /\ p[i + 1] \in Hex /\ p[i + 2] \in Hex
      BY <2>3, PercentBegins
    <3>2. DecodedAt(p, {"/"}, i) = IF c \in {"/"} \cup {"NUL"} THEN SubSeq(p, i, i + 2) ELSE <<c>>
      BY <2>3, DecodedPercent
    <3>. HIDE DEF c
    <3>3. CASE c \in {"/"} \cup {"NUL"}
      <4>1. f[i] = SubSeq(p, i, i + 2)
        BY <1>2, <3>2, <3>3
      <4>2. Len(f[i]) = 3 /\ f[i][1] = p[i] /\ f[i][2] = p[i + 1] /\ f[i][3] = p[i + 2]
        BY <1>0, <3>1, <4>1
      <4>3. \A k \in 1 .. 3 : k = 1 \/ k = 2 \/ k = 3
        OBVIOUS
      <4>. QED
        BY <1>0, <1>5, <3>1, <4>2, <4>3
    <3>4. CASE c \notin {"/"} \cup {"NUL"}
      <4>1. f[i] = <<c>> /\ c # "/"
        BY <1>2, <3>2, <3>4
      <4>. QED
        BY <4>1
    <3>. QED
      BY <3>3, <3>4
  <2>. QED
    BY <2>1, <2>2, <2>3
<1>6. ASSUME NEW i \in 1 .. Len(p)
      PROVE  m[i] \in Nat /\ m[i - 1] \in Nat /\ Len(f[i]) \in Nat
  <2>1. f[i] \in Seq(O)
    BY <1>1, <1>2
  <2>2. i - 1 \in 0 .. Len(p) /\ i \in 0 .. Len(p)
    BY <1>0
  <2>3. Len(d) \in Nat /\ m \in [0 .. Len(p) -> 0 .. Len(d)]
    BY <1>1, <1>3
  <2>. QED
    BY <2>1, <2>2, <2>3
<1>7. ASSUME NEW i \in 1 .. Len(p), p[i] = "/" PROVE m[i] = m[i - 1] + 1 /\ d[m[i]] = "/"
  <2>1. Len(f[i]) = 1 /\ f[i][1] = "/"
    <3>1. f[i] = <<"/">>
      BY <1>4, <1>7
    <3>. QED
      BY <3>1
  <2>2. /\ m[i] = m[i - 1] + Len(f[i])
        /\ \A k \in 1 .. Len(f[i]) : d[m[i - 1] + k] = f[i][k]
    BY <1>3
  <2>3. m[i] = m[i - 1] + 1 /\ d[m[i - 1] + 1] = "/"
    BY <2>1, <2>2
  <2>. QED
    BY <2>3
<1>8. Laid(p, d, m)
  <2>1. ASSUME NEW i \in 1 .. Len(p) PROVE m[i - 1] <= m[i]
    <3>1. m[i] = m[i - 1] + Len(f[i])
      BY <1>3
    <3>. QED
      BY <1>6, <3>1
  <2>2. ASSUME NEW i \in 1 .. Len(p), p[i] # "/", NEW j \in m[i - 1] + 1 .. m[i] PROVE d[j] # "/"
    <3>. DEFINE k == j - m[i - 1]
    <3>0. /\ m[i] = m[i - 1] + Len(f[i])
          /\ \A l \in 1 .. Len(f[i]) : d[m[i - 1] + l] = f[i][l]
      BY <1>3
    <3>1. k \in 1 .. Len(f[i]) /\ m[i - 1] + k = j
      BY <1>6, <3>0
    <3>. HIDE DEF k
    <3>2. d[m[i - 1] + k] = f[i][k] /\ f[i][k] # "/"
      BY <1>5, <2>2, <3>0, <3>1
    <3>. QED
      BY <3>1, <3>2
  <2>. QED
    BY <1>3, <1>7, <2>1, <2>2 DEF Laid
<1>9. ASSUME NEW i \in 1 .. Len(p), p[i] = "/" PROVE RawAt(d, m[i]) = SegmentAt(p, i)
  <2>. DEFINE e == SlashAfter(p, i)
              r == RawAt(p, i)
              g == SubSeq(f, i + 1, e - 1)
              h == [k \in 1 .. Len(r) |-> DecodedAt(r, {"/"}, k)]
  <2>0. i \in 0 .. Len(p)
    OBVIOUS
  <2>1. e \in i + 1 .. Len(p) + 1
    BY <2>0, SlashAfterIs
  <2>2. m[i] <= m[e - 1] /\ SlashAfter(d, m[i]) = m[e - 1] + 1
    <3>1. m \in [0 .. Len(p) -> 0 .. Len(d)]
      BY <1>3
    <3>. QED
      BY <1>1, <1>8, <2>0, <3>1, LaidNext
  <2>3. Len(r) = e - 1 - i /\ r \in Seq(S \ {"/"}) /\ Escaped(r)
    BY <2>0, RawIs, SegmentIsEscaped
  <2>4. SegmentAt(p, i) = PercentDecode(r, {"/"})
    BY DEF SegmentAt, RawAt, SlashAfter
  <2>5. PercentDecode(r, {"/"}) = FlattenSeq(h) /\ h \in Seq(Seq(Octets(S \ {"/"})))
    <3>. HIDE DEF r
    <3>. QED
      BY <2>3, DecodedIsSeq
  <2>6. m[e - 1] \in Nat
    BY <1>0, <1>3, <2>1
  <2>7. RawAt(d, m[i]) = SubSeq(d, m[i] + 1, m[e - 1])
    <3>1. (m[e - 1] + 1) - 1 = m[e - 1]
      BY <2>6
    <3>. QED
      BY <2>2, <3>1, Zenon DEF RawAt
  <2>8. SubSeq(d, m[i] + 1, m[e - 1]) = FlattenSeq(g)
    <3>. DEFINE b == e - 1
    <3>1. b \in i .. Len(f) /\ i \in 0 .. Len(f)
      BY <1>0, <1>2, <2>1
    <3>. HIDE DEF b
    <3>2. SubSeq(FlattenSeq(f), Ends(f)[i] + 1, Ends(f)[b]) = FlattenSeq(SubSeq(f, i + 1, b))
      BY <1>1, <3>1, FlatSlice
    <3>. QED
      BY <1>1, <3>2 DEF m, b
  <2>9. g = h
    <3>1. g \in Seq(Seq(O)) /\ Len(g) = e - 1 - i /\ \A k \in 1 .. e - 1 - i : g[k] = f[i + k]
      <4>. HIDE DEF e
      <4>. QED
        BY <1>0, <1>1, <1>2, <2>1
    <3>2. \A k \in 1 .. e - 1 - i : f[i + k] = DecodedAt(p, {"/"}, i + k)
      <4>. HIDE DEF e
      <4>1. \A k \in 1 .. e - 1 - i : i + k \in 1 .. Len(p)
        BY <1>0, <2>1
      <4>. QED
        BY <1>2, <4>1
    <3>3. \A k \in 1 .. e - 1 - i : DecodedAt(r, {"/"}, k) = DecodedAt(p, {"/"}, i + k)
      BY <1>9, <2>3, DecodedWithin
    <3>4. Len(h) = Len(r) /\ \A k \in 1 .. Len(r) : h[k] = DecodedAt(r, {"/"}, k)
      BY <2>3
    <3>. HIDE DEF g, h, r, e
    <3>5. Len(g) = Len(h) /\ \A k \in 1 .. Len(g) : g[k] = h[k]
      BY <2>3, <3>1, <3>2, <3>3, <3>4
    <3>. QED
      BY <2>5, <3>1, <3>5, SameSeq
  <2>. QED
    BY <2>4, <2>5, <2>7, <2>8, <2>9
<1>. QED
  BY <1>3, <1>7, <1>8, <1>9 DEF d, m, f

-----------------------------------------------------------------------------
(* Rewriting escapes does.                                                  *)

LEMMA LaidLast ==
    ASSUME NEW S, NEW x \in Seq(S), NEW T, NEW y \in Seq(T),
           NEW m \in [0 .. Len(x) -> 0 .. Len(y)], Laid(x, y, m),
           NEW l \in 1 .. Len(x), x[l] = "/", SlashAfter(x, l) = Len(x) + 1
    PROVE  /\ m[l] \in 1 .. Len(y) /\ m[l] = m[l - 1] + 1
           /\ y[m[l]] = "/" /\ SlashAfter(y, m[l]) = Len(y) + 1
<1>. DEFINE n == Len(x)
<1>0. n \in Nat /\ l \in 0 .. n /\ l - 1 \in 0 .. n
  OBVIOUS
<1>1. \A j \in l + 1 .. n : x[j] # "/"
  <2>1. \A j \in l + 1 .. SlashAfter(x, l) - 1 : x[j] # "/"
    BY <1>0, SlashAfterIs
  <2>2. SlashAfter(x, l) - 1 = n
    BY <1>0
  <2>. QED
    BY <2>1, <2>2
<1>2. \/ m[l] = m[l - 1] /\ l < n /\ x[l + 1] = "/"
      \/ m[l] = m[l - 1] + 1 /\ y[m[l]] = "/"
  BY DEF Laid
<1>3. ~(l < n /\ x[l + 1] = "/")
  BY <1>0, <1>1
<1>4. m[l] = m[l - 1] + 1 /\ y[m[l]] = "/"
  BY <1>2, <1>3
<1>5. m[l] \in 1 .. Len(y)
  <2>1. m[l] \in 0 .. Len(y) /\ m[l - 1] \in Nat
    BY <1>0
  <2>. QED
    BY <1>4, <2>1
<1>6. SlashAfter(y, m[l]) = m[SlashAfter(x, l) - 1] + 1
  BY <1>0, LaidNext
<1>7. m[n] = Len(y)
  BY DEF Laid
<1>8. SlashAfter(x, l) - 1 = n
  BY <1>0
<1>. QED
  BY <1>4, <1>5, <1>6, <1>7, <1>8

(* Layers whose segments are the same but for their case are walked alike.  *)
SegmentsMatch(x, X, Y, m) ==
    \A i \in 1 .. Len(x) : x[i] = "/" =>
        /\ m[i] = m[i - 1] => X[i] = <<>>
        /\ m[i] = m[i - 1] + 1 => Folded(Y[m[i]]) = Folded(X[i])

LaysOut(x, X, y, Y, m) ==
    m \in [0 .. Len(x) -> 0 .. Len(y)] /\ Laid(x, y, m) /\ SegmentsMatch(x, X, Y, m)

LEMMA LaidIsOut ==
    ASSUME NEW x, NEW X, NEW y, NEW Y, NEW m, Laid(x, y, m), SegmentsMatch(x, X, Y, m)
    PROVE  LaidOut(x, X, y, Y, m)
<1>1. ASSUME NEW i \in 1 .. Len(x), x[i] = "/"
      PROVE  \/ m[i] = m[i - 1] /\ X[i] = <<>>
             \/ m[i] = m[i - 1] + 1 /\ y[m[i]] = "/" /\ Folded(Y[m[i]]) = Folded(X[i])
  BY <1>1 DEF Laid, SegmentsMatch
<1>. QED
  BY <1>1 DEF Laid, LaidOut

LEMMA LayersAgree ==
    ASSUME NEW S, NEW x, NEW A, NEW X, NEW P, IsLayer(S, x, A, X, P),
           NEW T, NEW y, NEW B, NEW Y, NEW Q, IsLayer(T, y, B, Y, Q),
           NEW m, LaysOut(x, X, y, Y, m)
    PROVE  FoldedPlace(P[Len(x)]) = FoldedPlace(Q[Len(y)])
<1>1. m \in [0 .. Len(x) -> 0 .. Len(y)] /\ LaidOut(x, X, y, Y, m)
  BY LaidIsOut DEF LaysOut
<1>. QED
  BY <1>1, LaidOutWalks

-----------------------------------------------------------------------------
(* How a change of case lays a text out: every place on itself.             *)
Here(w) == [i \in 0 .. Len(w) |-> i]

LEMMA CaseLays ==
    ASSUME NEW S, NEW x \in Seq(S), NEW T, NEW y \in Seq(T), Len(y) = Len(x),
           \A i \in 1 .. Len(x) : y[i] \in {x[i], Upper(x[i])}
    PROVE  /\ Here(x) \in [0 .. Len(x) -> 0 .. Len(y)] /\ Laid(x, y, Here(x))
           /\ SegmentsMatch(x, Raws(x), Raws(y), Here(x))
<1>. DEFINE n == Len(x)
            m == Here(x)
<1>0. n \in Nat /\ Len(y) = n
  OBVIOUS
<1>1. m \in [0 .. n -> 0 .. Len(y)] /\ \A i \in 0 .. n : m[i] = i
  BY <1>0 DEF Here
<1>2. \A i \in 1 .. n : m[i] = i /\ m[i - 1] = i - 1
  BY <1>0, <1>1
<1>. HIDE DEF m
<1>3. \A i \in 1 .. n : (y[i] = "/" <=> x[i] = "/") /\ Upper(y[i]) = Upper(x[i])
  <2>. SUFFICES ASSUME NEW i \in 1 .. n
                PROVE  (y[i] = "/" <=> x[i] = "/") /\ Upper(y[i]) = Upper(x[i])
    OBVIOUS
  <2>1. Upper(x[i]) = "/" <=> x[i] = "/"
    BY UpperKeeps
  <2>2. Upper(Upper(x[i])) = Upper(x[i])
    BY DEF Upper
  <2>3. y[i] = x[i] \/ y[i] = Upper(x[i])
    OBVIOUS
  <2>. QED
    BY <2>1, <2>2, <2>3
<1>4. Laid(x, y, m)
  <2>1. m[0] = 0 /\ m[n] = Len(y)
    BY <1>0, <1>1
  <2>2. \A i \in 1 .. n : m[i - 1] <= m[i]
    BY <1>0, <1>2
  <2>3. ASSUME NEW i \in 1 .. n, x[i] # "/", NEW j \in m[i - 1] + 1 .. m[i] PROVE y[j] # "/"
    <3>1. j = i
      BY <1>0, <1>2
    <3>. QED
      BY <1>3, <2>3, <3>1
  <2>4. ASSUME NEW i \in 1 .. n, x[i] = "/" PROVE m[i] = m[i - 1] + 1 /\ y[m[i]] = "/"
    BY <1>2, <1>3, <2>4
  <2>. QED
    BY <2>1, <2>2, <2>3, <2>4 DEF Laid
<1>5. ASSUME NEW i \in 1 .. n, x[i] = "/"
      PROVE  Folded(RawAt(y, i)) = Folded(RawAt(x, i))
  <2>. DEFINE e == SlashAfter(x, i)
  <2>0. i \in 0 .. n /\ i \in 0 .. Len(y)
    BY <1>0
  <2>1. e \in i + 1 .. n + 1
    BY <2>0, SlashAfterIs
  <2>2. SlashAfter(y, i) = e
    <3>1. SlashAfter(y, m[i]) = m[e - 1] + 1
      BY <1>1, <1>4, <2>0, LaidNext
    <3>2. m[i] = i /\ m[e - 1] = e - 1
      BY <1>0, <1>1, <2>0, <2>1
    <3>. QED
      BY <1>0, <2>1, <3>1, <3>2
  <2>. DEFINE u == RawAt(x, i)
              v == RawAt(y, i)
  <2>3. u \in Seq(S \ {"/"}) /\ Len(u) = e - 1 - i /\ \A k \in 1 .. e - 1 - i : u[k] = x[i + k]
    BY <2>0, RawIs
  <2>4. v \in Seq(T \ {"/"}) /\ Len(v) = e - 1 - i /\ \A k \in 1 .. e - 1 - i : v[k] = y[i + k]
    BY <2>0, <2>2, RawIs
  <2>. HIDE DEF u, v, e
  <2>5. \A k \in 1 .. Len(v) : Upper(v[k]) = Upper(u[k])
    <3>1. \A k \in 1 .. e - 1 - i : i + k \in 1 .. n
      BY <1>0, <2>1
    <3>. QED
      BY <1>3, <2>3, <2>4, <3>1
  <2>6. Folded(v) = Folded(u)
    <3>1. Len(v) = Len(u)
      BY <2>3, <2>4
    <3>. QED
      BY <2>3, <2>4, <2>5, <3>1, FoldedIff
  <2>. QED
    BY <2>6 DEF u, v
<1>6. SegmentsMatch(x, Raws(x), Raws(y), m)
  <2>. SUFFICES ASSUME NEW i \in 1 .. n, x[i] = "/"
                PROVE  /\ m[i] = m[i - 1] => Raws(x)[i] = <<>>
                       /\ Folded(Raws(y)[m[i]]) = Folded(Raws(x)[i])
    BY DEF SegmentsMatch
  <2>1. m[i] = i /\ m[i] # m[i - 1]
    BY <1>0, <1>2
  <2>2. Raws(y)[i] = RawAt(y, i) /\ Raws(x)[i] = RawAt(x, i)
    BY <1>0 DEF Raws
  <2>. QED
    BY <1>5, <2>1, <2>2
<1>. QED
  BY <1>1, <1>4, <1>6 DEF m

-----------------------------------------------------------------------------
(* Characters put one after the other.                                      *)
LEMMA FlattenOnes ==
    ASSUME NEW S, NEW r \in Seq(S), NEW g \in Seq(Seq(S)), Len(g) = Len(r),
           \A k \in 1 .. Len(r) : g[k] = <<r[k]>>
    PROVE  FlattenSeq(g) = r
<1>. DEFINE n == Len(r)
            m == Ends(g)
            y == FlattenSeq(g)
<1>0. n \in Nat /\ Len(g) = n
  OBVIOUS
<1>1. /\ y \in Seq(S) /\ m \in [0 .. Len(g) -> 0 .. Len(y)]
      /\ m[0] = 0 /\ m[Len(g)] = Len(y)
      /\ \A i \in 1 .. Len(g) :
            /\ m[i] = m[i - 1] + Len(g[i])
            /\ \A k \in 1 .. Len(g[i]) : y[m[i - 1] + k] = g[i][k]
  BY EndsAre
<1>. HIDE DEF m, y
<1>2. ASSUME NEW i \in 1 .. n PROVE Len(g[i]) = 1 /\ g[i][1] = r[i]
  <2>1. g[i] = <<r[i]>>
    OBVIOUS
  <2>. QED
    BY <2>1
<1>3. ASSUME NEW i \in 1 .. n PROVE m[i] = m[i - 1] + 1 /\ y[m[i - 1] + 1] = r[i]
  <2>1. /\ m[i] = m[i - 1] + Len(g[i])
        /\ \A k \in 1 .. Len(g[i]) : y[m[i - 1] + k] = g[i][k]
    BY <1>0, <1>1
  <2>2. Len(g[i]) = 1 /\ g[i][1] = r[i]
    BY <1>2
  <2>. QED
    BY <2>1, <2>2
<1>. DEFINE W == {k \in Nat : k \in 0 .. n => m[k] = k}
<1>4. 0 \in W
  BY <1>1
<1>5. ASSUME NEW k \in Nat, k \in W PROVE k + 1 \in W
  <2>. SUFFICES ASSUME k + 1 \in 0 .. n PROVE m[k + 1] = k + 1
    OBVIOUS
  <2>1. k \in 0 .. n /\ k + 1 \in 1 .. n /\ (k + 1) - 1 = k
    BY <1>0
  <2>. QED
    BY <1>3, <1>5, <2>1
<1>. HIDE DEF W
<1>6. \A k \in Nat : k \in W
  BY <1>4, <1>5, Induction
<1>7. \A k \in 0 .. n : m[k] = k
  BY <1>6 DEF W
<1>8. Len(y) = n
  BY <1>0, <1>1, <1>7
<1>9. \A i \in 1 .. Len(y) : y[i] = r[i]
  <2>. SUFFICES ASSUME NEW i \in 1 .. n PROVE y[i] = r[i]
    BY <1>8
  <2>1. m[i - 1] = i - 1 /\ (i - 1) + 1 = i
    BY <1>0, <1>7
  <2>. QED
    BY <1>3, <2>1
<1>10. y = r
  BY <1>1, <1>8, <1>9, SeqEqual
<1>. QED
  BY <1>10 DEF y

(* Every place of a concatenation is in one of the elements.                *)
LEMMA EndsCover ==
    ASSUME NEW S, NEW f \in Seq(Seq(S)), NEW j \in 1 .. Len(FlattenSeq(f))
    PROVE  \E i \in 1 .. Len(f) : Ends(f)[i - 1] < j /\ j <= Ends(f)[i]
<1>. DEFINE n == Len(f)
            m == Ends(f)
            y == FlattenSeq(f)
<1>0. n \in Nat /\ j \in Nat /\ 1 <= j /\ j <= Len(y)
  <2>1. y \in Seq(S)
    BY FlattenType
  <2>2. Len(y) \in Nat
    BY <2>1
  <2>. QED
    BY <2>2
<1>1. m \in [0 .. n -> 0 .. Len(y)] /\ m[0] = 0 /\ m[n] = Len(y)
  BY EndsAre
<1>. HIDE DEF m, y, n
<1>. DEFINE W == {k \in Nat : k \in 0 .. n /\ j <= m[k] =>
                    \E i \in 1 .. n : m[i - 1] < j /\ j <= m[i]}
<1>2. 0 \in W
  BY <1>0, <1>1
<1>3. ASSUME NEW k \in Nat, k \in W PROVE k + 1 \in W
  <2>. SUFFICES ASSUME k + 1 \in 0 .. n, j <= m[k + 1]
                PROVE  \E i \in 1 .. n : m[i - 1] < j /\ j <= m[i]
    OBVIOUS
  <2>1. k \in 0 .. n /\ k + 1 \in 1 .. n /\ (k + 1) - 1 = k
    BY <1>0
  <2>2. CASE j <= m[k]
    BY <1>3, <2>1, <2>2
  <2>3. CASE ~(j <= m[k])
    <3>1. m[k] < j
      <4>1. m[k] \in 0 .. Len(y)
        BY <1>1, <2>1
      <4>2. m[k] \in Int
        BY <4>1
      <4>. QED
        BY <1>0, <2>3, <4>2
    <3>2. m[(k + 1) - 1] < j /\ j <= m[k + 1]
      BY <2>1, <3>1
    <3>. QED
      BY <2>1, <3>2
  <2>. QED
    BY <2>2, <2>3
<1>. HIDE DEF W
<1>4. \A k \in Nat : k \in W
  BY <1>2, <1>3, Induction
<1>5. n \in W /\ n \in 0 .. n /\ j <= m[n]
  BY <1>0, <1>1, <1>4
<1>6. \E i \in 1 .. n : m[i - 1] < j /\ j <= m[i]
  BY <1>5 DEF W
<1>. QED
  BY <1>6 DEF m, n

-----------------------------------------------------------------------------
(* Collapsing slashes does.                                                 *)

(* How CollapseSlashes lays a text out.                                     *)
Collapsings(w) == [i \in 1 .. Len(w) |-> CollapsedAt(w, i)]

LEMMA CollapseEnds ==
    ASSUME NEW S, NEW e \in Seq(S)
    PROVE  LET c == CollapseSlashes(e)
               m == Ends(Collapsings(e))
           IN  /\ c \in Seq(S) /\ m \in [0 .. Len(e) -> 0 .. Len(c)]
               /\ m[0] = 0 /\ m[Len(e)] = Len(c)
               /\ \A i \in 1 .. Len(e) :
                     IF e[i] = "/" /\ i > 1 /\ At(e, i + 1) = "/" THEN m[i] = m[i - 1]
                     ELSE m[i] = m[i - 1] + 1 /\ c[m[i]] = e[i]
<1>. DEFINE f == Collapsings(e)
            c == CollapseSlashes(e)
            m == Ends(f)
            n == Len(e)
<1>0. n \in Nat
  OBVIOUS
<1>1. f \in Seq(Seq(S)) /\ c = FlattenSeq(f) /\ c \in Seq(S)
  BY CollapsedIsSeq DEF Collapsings
<1>2. Len(f) = n /\ \A i \in 1 .. n : f[i] = CollapsedAt(e, i)
  BY <1>0 DEF Collapsings
<1>. HIDE DEF f, c, m
<1>3. /\ m \in [0 .. n -> 0 .. Len(c)] /\ m[0] = 0 /\ m[n] = Len(c)
      /\ \A i \in 1 .. n :
            /\ m[i] = m[i - 1] + Len(f[i])
            /\ \A k \in 1 .. Len(f[i]) : c[m[i - 1] + k] = f[i][k]
  BY <1>1, <1>2, EndsAre DEF m
<1>4. ASSUME NEW i \in 1 .. n
      PROVE  IF e[i] = "/" /\ i > 1 /\ At(e, i + 1) = "/" THEN m[i] = m[i - 1]
             ELSE m[i] = m[i - 1] + 1 /\ c[m[i]] = e[i]
  <2>0. /\ m[i] = m[i - 1] + Len(f[i])
        /\ \A k \in 1 .. Len(f[i]) : c[m[i - 1] + k] = f[i][k]
    BY <1>3
  <2>1. CASE e[i] = "/" /\ i > 1 /\ At(e, i + 1) = "/"
    <3>1. f[i] = <<>>
      BY <1>2, <2>1 DEF CollapsedAt
    <3>2. i - 1 \in 0 .. n
      BY <1>0
    <3>3. m[i - 1] \in 0 .. Len(c)
      BY <1>3, <3>2
    <3>4. m[i - 1] \in Int /\ Len(f[i]) = 0
      BY <3>1, <3>3
    <3>. QED
      BY <2>0, <2>1, <3>4
  <2>2. CASE ~(e[i] = "/" /\ i > 1 /\ At(e, i + 1) = "/")
    <3>1. f[i] = <<e[i]>>
      BY <1>2, <2>2 DEF CollapsedAt
    <3>2. Len(f[i]) = 1 /\ f[i][1] = e[i]
      BY <3>1
    <3>. QED
      BY <2>0, <2>2, <3>2
  <2>. QED
    BY <2>1, <2>2
<1>. QED
  BY <1>1, <1>3, <1>4 DEF f, c, m, n

LEMMA CollapseLays ==
    ASSUME NEW S, NEW e \in Seq(S)
    PROVE  LET c == CollapseSlashes(e)
               m == Ends(Collapsings(e))
           IN  Laid(e, c, m) /\ SegmentsMatch(e, Raws(e), Raws(c), m)
<1>. DEFINE f == Collapsings(e)
            c == CollapseSlashes(e)
            m == Ends(f)
            n == Len(e)
<1>0. n \in Nat
  OBVIOUS
<1>1. f \in Seq(Seq(S)) /\ c = FlattenSeq(f) /\ c \in Seq(S) /\ Len(f) = n
      /\ \A i \in 1 .. n : f[i] = CollapsedAt(e, i)
  <2>1. f \in Seq(Seq(S)) /\ c = FlattenSeq(f) /\ c \in Seq(S)
    BY CollapsedIsSeq DEF Collapsings
  <2>2. Len(f) = n /\ \A i \in 1 .. n : f[i] = CollapsedAt(e, i)
    BY <1>0 DEF Collapsings
  <2>. QED
    BY <2>1, <2>2
<1>2. /\ m \in [0 .. n -> 0 .. Len(c)] /\ m[0] = 0 /\ m[n] = Len(c)
      /\ \A i \in 1 .. n :
            IF e[i] = "/" /\ i > 1 /\ At(e, i + 1) = "/" THEN m[i] = m[i - 1]
            ELSE m[i] = m[i - 1] + 1 /\ c[m[i]] = e[i]
  BY CollapseEnds
<1>. HIDE DEF f, c, m
<1>3. ASSUME NEW i \in 1 .. n PROVE i - 1 \in 0 .. n /\ m[i - 1] \in Nat /\ m[i] \in Nat
  <2>1. i - 1 \in 0 .. n /\ i \in 0 .. n
    BY <1>0
  <2>2. m \in [0 .. n -> 0 .. Len(c)] /\ \A k \in 0 .. Len(c) : k \in Nat
    BY <1>2
  <2>. QED
    BY <2>1, <2>2
<1>4. ASSUME NEW i \in 1 .. n, e[i] # "/" PROVE m[i] = m[i - 1] + 1 /\ c[m[i]] = e[i]
  BY <1>2, <1>4
<1>5. ASSUME NEW i \in 1 .. n, e[i] = "/", At(e, i + 1) = "/"
      PROVE  i < n /\ e[i + 1] = "/" /\ RawAt(e, i) = <<>>
  <2>1. i + 1 \in 1 .. n /\ e[i + 1] = "/"
    BY <1>5, Zenon DEF At
  <2>2. SlashAfter(e, i) = i + 1
    <3>1. i \in 0 .. n /\ i + 1 \in i + 1 .. Len(e) + 1
      BY <1>0
    <3>2. \A j \in i + 1 .. (i + 1) - 1 : e[j] # "/"
      BY <1>0
    <3>. QED
      BY <2>1, <3>1, <3>2, SlashAfterAt
  <2>3. i \in 0 .. n /\ SlashAfter(e, i) - 1 - i = 0
    BY <1>0, <2>2
  <2>4. RawAt(e, i) \in Seq(S \ {"/"}) /\ Len(RawAt(e, i)) = 0
    BY <2>3, RawIs
  <2>. QED
    BY <1>0, <2>1, <2>4
<1>6. Laid(e, c, m)
  <2>1. ASSUME NEW i \in 1 .. n PROVE m[i - 1] <= m[i]
    <3>1. m[i] = m[i - 1] \/ m[i] = m[i - 1] + 1
      BY <1>2
    <3>. QED
      BY <1>3, <3>1
  <2>2. ASSUME NEW i \in 1 .. n, e[i] # "/", NEW j \in m[i - 1] + 1 .. m[i] PROVE c[j] # "/"
    <3>1. j = m[i]
      BY <1>3, <1>4, <2>2
    <3>. QED
      BY <1>4, <2>2, <3>1
  <2>3. ASSUME NEW i \in 1 .. n, e[i] = "/"
        PROVE  \/ m[i] = m[i - 1] /\ i < Len(e) /\ e[i + 1] = "/"
               \/ m[i] = m[i - 1] + 1 /\ c[m[i]] = "/"
    <3>1. CASE i > 1 /\ At(e, i + 1) = "/"
      BY <1>2, <1>5, <2>3, <3>1
    <3>2. CASE ~(i > 1 /\ At(e, i + 1) = "/")
      BY <1>2, <2>3, <3>2
    <3>. QED
      BY <3>1, <3>2
  <2>. QED
    BY <1>2, <2>1, <2>2, <2>3 DEF Laid
<1>7. ASSUME NEW i \in 1 .. n, e[i] = "/", m[i] = m[i - 1] PROVE RawAt(e, i) = <<>>
  <2>1. e[i] = "/" /\ i > 1 /\ At(e, i + 1) = "/"
    BY <1>2, <1>3, <1>7
  <2>. QED
    BY <1>5, <2>1
<1>8. ASSUME NEW i \in 1 .. n, e[i] = "/", m[i] = m[i - 1] + 1 PROVE RawAt(c, m[i]) = RawAt(e, i)
  <2>. DEFINE E == SlashAfter(e, i)
              r == RawAt(e, i)
              b == E - 1
              g == SubSeq(f, i + 1, b)
  <2>0. i \in 0 .. n /\ n = Len(e)
    BY <1>0
  <2>1. E \in i + 1 .. n + 1 /\ \A j \in i + 1 .. E - 1 : e[j] # "/"
    BY <2>0, SlashAfterIs
  <2>2. SlashAfter(c, m[i]) = m[b] + 1
    <3>1. m \in [0 .. Len(e) -> 0 .. Len(c)]
      BY <1>2
    <3>. QED
      BY <1>1, <1>6, <2>0, <3>1, LaidNext
  <2>3. r \in Seq(S \ {"/"}) /\ Len(r) = b - i /\ \A k \in 1 .. b - i : r[k] = e[i + k]
    BY <2>0, RawIs
  <2>. HIDE DEF E, r
  <2>4. b \in i .. n /\ b \in 0 .. n
    BY <1>0, <2>1
  <2>5. RawAt(c, m[i]) = SubSeq(c, m[i] + 1, m[b])
    <3>1. m[b] \in 0 .. Len(c)
      BY <1>2, <2>4
    <3>2. (m[b] + 1) - 1 = m[b]
      BY <3>1
    <3>. QED
      BY <2>2, <3>2, Zenon DEF RawAt
  <2>6. SubSeq(c, m[i] + 1, m[b]) = FlattenSeq(g)
    <3>. HIDE DEF b
    <3>1. b \in i .. Len(f) /\ i \in 0 .. Len(f)
      BY <1>1, <2>0, <2>4
    <3>2. SubSeq(FlattenSeq(f), Ends(f)[i] + 1, Ends(f)[b]) = FlattenSeq(SubSeq(f, i + 1, b))
      BY <1>1, <3>1, FlatSlice
    <3>. QED
      BY <1>1, <3>2 DEF m
  <2>7. FlattenSeq(g) = r
    <3>1. g \in Seq(Seq(S)) /\ Len(g) = b - i /\ \A k \in 1 .. b - i : g[k] = f[i + k]
      <4>. HIDE DEF b
      <4>. QED
        BY <1>0, <1>1, <2>4
    <3>. HIDE DEF g
    <3>2. ASSUME NEW k \in 1 .. Len(r) PROVE g[k] = <<r[k]>>
      <4>1. i + k \in 1 .. n /\ e[i + k] # "/" /\ k \in 1 .. b - i
        BY <1>0, <2>1, <2>3, <2>4
      <4>2. f[i + k] = <<e[i + k]>>
        BY <1>1, <4>1 DEF CollapsedAt
      <4>. QED
        BY <2>3, <3>1, <4>1, <4>2
    <3>3. r \in Seq(S) /\ Len(g) = Len(r)
      <4>1. S \ {"/"} \subseteq S
        OBVIOUS
      <4>. QED
        BY <2>3, <3>1, <4>1, SeqWider
    <3>. QED
      BY <3>1, <3>2, <3>3, FlattenOnes
  <2>. QED
    BY <2>5, <2>6, <2>7 DEF r
<1>9. SegmentsMatch(e, Raws(e), Raws(c), m)
  <2>. SUFFICES ASSUME NEW i \in 1 .. n, e[i] = "/"
                PROVE  /\ m[i] = m[i - 1] => Raws(e)[i] = <<>>
                       /\ m[i] = m[i - 1] + 1 => Folded(Raws(c)[m[i]]) = Folded(Raws(e)[i])
    BY DEF SegmentsMatch
  <2>1. Raws(e)[i] = RawAt(e, i)
    BY DEF Raws
  <2>2. ASSUME m[i] = m[i - 1] + 1 PROVE Raws(c)[m[i]] = RawAt(c, m[i])
    <3>1. i \in 0 .. n /\ m \in [0 .. n -> 0 .. Len(c)]
      BY <1>0, <1>2
    <3>2. m[i] \in 0 .. Len(c) /\ m[i - 1] \in Nat
      BY <1>3, <3>1
    <3>3. m[i] \in 1 .. Len(c)
      BY <2>2, <3>2
    <3>. QED
      BY <3>3 DEF Raws
  <2>. QED
    BY <1>7, <1>8, <2>1, <2>2
<1>. QED
  BY <1>6, <1>9 DEF f, c, m

(* No slash of what CollapseSlashes returns is followed by another one.     *)
OneSlash(w) == /\ 1 \in 1 .. Len(w) /\ w[1] = "/"
               /\ \A i \in 1 .. Len(w) : w[i] = "/" /\ i < Len(w) => w[i + 1] # "/"

LEMMA CollapsedIs ==
    ASSUME NEW S, NEW e \in Seq(S), 1 \in 1 .. Len(e), e[1] = "/", At(e, 2) # "/"
    PROVE  OneSlash(CollapseSlashes(e))
<1>. DEFINE f == Collapsings(e)
            c == CollapseSlashes(e)
            m == Ends(f)
            n == Len(e)
<1>0. n \in Nat \ {0}
  OBVIOUS
<1>1. f \in Seq(Seq(S)) /\ c = FlattenSeq(f) /\ c \in Seq(S) /\ Len(f) = n
  <2>1. f \in Seq(Seq(S)) /\ c = FlattenSeq(f) /\ c \in Seq(S)
    BY CollapsedIsSeq DEF Collapsings
  <2>2. Len(f) = n
    BY <1>0 DEF Collapsings
  <2>. QED
    BY <2>1, <2>2
<1>2. /\ m \in [0 .. n -> 0 .. Len(c)] /\ m[0] = 0 /\ m[n] = Len(c)
      /\ \A i \in 1 .. n :
            IF e[i] = "/" /\ i > 1 /\ At(e, i + 1) = "/" THEN m[i] = m[i - 1]
            ELSE m[i] = m[i - 1] + 1 /\ c[m[i]] = e[i]
  BY CollapseEnds
<1>. HIDE DEF f, c, m
<1>3. \A j \in 1 .. Len(c) : \E i \in 1 .. n : m[i - 1] < j /\ j <= m[i]
  <2>. SUFFICES ASSUME NEW j \in 1 .. Len(c) PROVE \E i \in 1 .. n : m[i - 1] < j /\ j <= m[i]
    OBVIOUS
  <2>1. \E i \in 1 .. Len(f) : Ends(f)[i - 1] < j /\ j <= Ends(f)[i]
    BY <1>1, EndsCover
  <2>. QED
    BY <1>1, <2>1 DEF m
<1>4. 1 \in 1 .. Len(c) /\ c[1] = "/"
  <2>1. m[1] = 1 /\ c[m[1]] = e[1] /\ 1 \in 0 .. n
    BY <1>0, <1>2
  <2>2. m[1] \in 0 .. Len(c)
    BY <1>2, <2>1
  <2>. QED
    BY <2>1, <2>2
<1>5. ASSUME NEW j \in 1 .. Len(c), c[j] = "/", j < Len(c) PROVE c[j + 1] # "/"
  <2>1. PICK i \in 1 .. n : m[i - 1] < j /\ j <= m[i]
    BY <1>3
  <2>2. m[i - 1] \in Int /\ m[i] \in Int /\ i - 1 \in 0 .. n
    <3>1. i - 1 \in 0 .. n /\ i \in 0 .. n
      BY <1>0
    <3>2. m[i - 1] \in 0 .. Len(c) /\ m[i] \in 0 .. Len(c)
      BY <1>2, <3>1
    <3>. QED
      BY <3>1, <3>2
  <2>3. ~(e[i] = "/" /\ i > 1 /\ At(e, i + 1) = "/") /\ m[i] = j /\ e[i] = "/"
    <3>1. m[i] # m[i - 1]
      BY <2>1, <2>2
    <3>2. ~(e[i] = "/" /\ i > 1 /\ At(e, i + 1) = "/") /\ m[i] = m[i - 1] + 1 /\ c[m[i]] = e[i]
      BY <1>2, <3>1
    <3>3. m[i] = j
      BY <2>1, <2>2, <3>2
    <3>. QED
      BY <1>5, <3>2, <3>3
  <2>4. i # n
    BY <1>2, <1>5, <2>3
  <2>5. i + 1 \in 1 .. n /\ (i + 1) - 1 = i
    BY <1>0, <2>4
  <2>6. At(e, i + 1) = e[i + 1] /\ e[i + 1] # "/"
    <3>1. At(e, i + 1) = e[i + 1]
      BY <2>5, Zenon DEF At
    <3>2. At(e, i + 1) # "/"
      <4>1. CASE i > 1
        BY <2>3, <4>1
      <4>2. CASE ~(i > 1)
        <5>1. i + 1 = 2
          BY <1>0, <4>2
        <5>. QED
          BY <5>1
      <4>. QED
        BY <4>1, <4>2
    <3>. QED
      BY <3>1, <3>2
  <2>7. m[i + 1] = m[i] + 1 /\ c[m[i + 1]] = e[i + 1]
    BY <1>2, <2>5, <2>6
  <2>. QED
    BY <2>3, <2>6, <2>7
<1>. QED
  BY <1>4, <1>5 DEF OneSlash, c

-----------------------------------------------------------------------------
(* Where a path leads, before its dots are removed.                         *)

LEMMA DotsAlike ==
    ASSUME NEW S, NEW s \in Seq(S), NEW T, NEW t \in Seq(T), Folded(s) = Folded(t)
    PROVE  s \in Dots <=> t \in Dots
<1>1. /\ s = <<>> <=> t = <<>>
      /\ s = <<".">> <=> t = <<".">>
      /\ s = <<".", ".">> <=> t = <<".", ".">>
  BY DotsFold
<1>. QED
  BY <1>1, Zenon DEF Dots

(* The segments behind its slashes, decoded.                                *)
Segs(p) == [i \in 1 .. Len(p) |-> IF p[i] = "/" THEN SegmentAt(p, i) ELSE <<>>]

LEMMA SegmentsDecoded ==
    ASSUME NEW S, NEW p \in Seq(S), Escaped(p)
    PROVE  LET d == PercentDecode(p, {"/"})
               m == Ends(Decodings(p))
           IN  /\ d \in Seq(Octets(S)) /\ m \in [0 .. Len(p) -> 0 .. Len(d)] /\ Laid(p, d, m)
               /\ Segs(p) \in [1 .. Len(p) -> Seq(Octets(S) \ {"/"})]
               /\ SegmentsMatch(p, Segs(p), Raws(d), m)
<1>. DEFINE d == PercentDecode(p, {"/"})
            m == Ends(Decodings(p))
            A == Octets(S) \ {"/"}
<1>0. Len(p) \in Nat /\ d \in Seq(Octets(S))
  <2>1. d \in Seq(Octets(S))
    BY DecodedIsSeq
  <2>2. Len(p) \in Nat
    OBVIOUS
  <2>. QED
    BY <2>1, <2>2, Zenon
<1>. HIDE DEF d, m
<1>1. /\ m \in [0 .. Len(p) -> 0 .. Len(d)] /\ Laid(p, d, m)
      /\ \A i \in 1 .. Len(p) : p[i] = "/" => m[i] = m[i - 1] + 1
      /\ \A i \in 1 .. Len(p) : p[i] = "/" => RawAt(d, m[i]) = SegmentAt(p, i)
  BY DecodeLays DEF d, m
<1>2. ASSUME NEW i \in 1 .. Len(p), p[i] = "/"
      PROVE  m[i] \in 1 .. Len(d) /\ m[i - 1] \in Nat /\ SegmentAt(p, i) \in Seq(A)
  <2>1. i \in 0 .. Len(p) /\ i - 1 \in 0 .. Len(p)
    BY <1>0
  <2>2. m[i] \in 0 .. Len(d) /\ m[i - 1] \in 0 .. Len(d)
    BY <1>1, <2>1
  <2>3. m[i] = m[i - 1] + 1
    BY <1>1, <1>2
  <2>4. RawAt(d, m[i]) \in Seq(A)
    BY <1>0, <2>2, RawIs
  <2>. QED
    BY <1>1, <1>2, <2>2, <2>3, <2>4
<1>3. Segs(p) \in [1 .. Len(p) -> Seq(A)]
  <2>1. \A i \in 1 .. Len(p) : (IF p[i] = "/" THEN SegmentAt(p, i) ELSE <<>>) \in Seq(A)
    BY <1>2
  <2>. QED
    BY <2>1 DEF Segs
<1>4. SegmentsMatch(p, Segs(p), Raws(d), m)
  <2>. SUFFICES ASSUME NEW i \in 1 .. Len(p), p[i] = "/"
                PROVE  /\ m[i] = m[i - 1] => Segs(p)[i] = <<>>
                       /\ m[i] = m[i - 1] + 1 => Folded(Raws(d)[m[i]]) = Folded(Segs(p)[i])
    BY DEF SegmentsMatch
  <2>1. m[i] \in 1 .. Len(d) /\ m[i] = m[i - 1] + 1 /\ m[i - 1] \in Nat
        /\ RawAt(d, m[i]) = SegmentAt(p, i)
    BY <1>1, <1>2
  <2>2. Segs(p)[i] = SegmentAt(p, i)
    BY DEF Segs
  <2>3. Raws(d)[m[i]] = RawAt(d, m[i])
    BY <2>1 DEF Raws
  <2>. QED
    BY <2>1, <2>2, <2>3
<1>. QED
  BY <1>0, <1>1, <1>3, <1>4 DEF d, m

(* Decoding keeps the slash at the beginning a single one.                  *)
LEMMA DecodedBegins ==
    ASSUME NEW S, NEW p \in Seq(S), Escaped(p), 1 \in 1 .. Len(p), p[1] = "/", At(p, 2) # "/"
    PROVE  LET d == PercentDecode(p, {"/"})
           IN  1 \in 1 .. Len(d) /\ d[1] = "/" /\ At(d, 2) # "/"
<1>. DEFINE d == PercentDecode(p, {"/"})
            f == Decodings(p)
            m == Ends(f)
            O == Octets(S)
<1>0. Len(p) \in Nat /\ "/" \notin Hex /\ "%" \notin Hex
  BY DEF Hex, HexUpper
<1>1. f \in Seq(Seq(O)) /\ d = FlattenSeq(f) /\ d \in Seq(O)
  BY DecodedIsSeq DEF Decodings
<1>2. Len(f) = Len(p) /\ \A i \in 1 .. Len(p) : f[i] = DecodedAt(p, {"/"}, i)
  BY <1>0 DEF Decodings
<1>. HIDE DEF f, d, m, O
<1>3. m \in [0 .. Len(p) -> 0 .. Len(d)] /\ Laid(p, d, m)
      /\ \A i \in 1 .. Len(p) : p[i] = "/" => m[i] = m[i - 1] + 1
  BY DecodeLays DEF d, m, f
<1>4. m[0] = 0 /\ m[1] = 1 /\ m[Len(p)] = Len(d)
  BY <1>3 DEF Laid
<1>5. 1 \in 1 .. Len(d) /\ d[1] = "/"
  <2>1. m[1] \in 0 .. Len(d)
    BY <1>0, <1>3
  <2>2. m[1] = m[1 - 1] \/ d[m[1]] = "/"
    BY <1>3 DEF Laid
  <2>. QED
    BY <1>4, <2>1, <2>2
<1>6. CASE Len(p) = 1
  <2>1. Len(d) = 1
    BY <1>4, <1>6
  <2>2. 2 \notin 1 .. Len(d)
    BY <2>1
  <2>3. At(d, 2) = ""
    BY <2>2, Zenon DEF At
  <2>. QED
    BY <1>5, <2>3 DEF d
<1>7. CASE Len(p) # 1
  <2>1. 2 \in 1 .. Len(p) /\ p[2] # "/"
    <3>. DEFINE n == Len(p)
    <3>0. n \in Nat /\ 1 \in 1 .. n /\ n # 1
      BY <1>0, <1>7
    <3>. HIDE DEF n
    <3>1. 2 \in 1 .. n
      BY <3>0
    <3>2. 2 \in 1 .. Len(p)
      BY <3>1 DEF n
    <3>. QED
      BY <3>2, Zenon DEF At
  <2>2. Len(f[2]) \in Nat /\ Len(f[2]) # 0
    <3>. DEFINE D == DecodedAt(p, {"/"}, 2)
    <3>0. f[2] = D
      BY <1>2, <2>1
    <3>. HIDE DEF D
    <3>1. At(p, 2 - 1) = "/" /\ At(p, 2 - 2) = ""
      BY <1>0 DEF At
    <3>2. At(p, 2 - 1) # "%" /\ At(p, 2 - 2) # "%"
      BY <3>1
    <3>3. CASE p[2] # "%"
      <4>1. DecodedAt(p, {"/"}, 2) = <<p[2]>>
        BY <3>2, <3>3, DecodedPlain
      <4>2. Len(D) = 1
        BY <4>1 DEF D
      <4>. QED
        BY <3>0, <4>2
    <3>4. CASE p[2] = "%"
      <4>. DEFINE c == OctetOf(p[2 + 1], p[2 + 2])
      <4>1. 2 + 2 <= Len(p)
        BY <2>1, <3>4, PercentBegins
      <4>2. DecodedAt(p, {"/"}, 2) = IF c \in {"/"} \cup {"NUL"} THEN SubSeq(p, 2, 2 + 2) ELSE <<c>>
        <5>. DEFINE i == 2
        <5>1. DecodedAt(p, {"/"}, i) = IF OctetOf(p[i + 1], p[i + 2]) \in {"/"} \cup {"NUL"}
                                       THEN SubSeq(p, i, i + 2) ELSE <<OctetOf(p[i + 1], p[i + 2])>>
          <6>1. p[i] = "%" /\ At(p, i - 1) # "%" /\ At(p, i - 2) # "%"
            BY <3>2, <3>4
          <6>. HIDE DEF i
          <6>. QED
            BY <6>1, DecodedPercent
        <5>. QED
          BY <5>1
      <4>. HIDE DEF c
      <4>3. Len(SubSeq(p, 2, 2 + 2)) = 3 /\ Len(<<c>>) = 1
        BY <1>0, <4>1
      <4>4. Len(D) \in {1, 3}
        BY <4>2, <4>3, Zenon DEF D
      <4>5. Len(D) \in Nat /\ Len(D) # 0
        <5>1. \A k \in {1, 3} : k \in Nat /\ k # 0
          OBVIOUS
        <5>. QED
          BY <4>4, <5>1, Zenon
      <4>. QED
        BY <3>0, <4>5
    <3>. QED
      BY <3>3, <3>4
  <2>3. m[2] = m[1] + Len(f[2])
    <3>1. \A i \in 1 .. Len(f) : Ends(f)[i] = Ends(f)[i - 1] + Len(f[i])
      BY <1>1, EndsAre
    <3>. QED
      BY <1>2, <2>1, <3>1 DEF m
  <2>4. \A j \in m[2 - 1] + 1 .. m[2] : d[j] # "/"
    BY <1>3, <2>1 DEF Laid
  <2>5. 2 \in m[2 - 1] + 1 .. m[2]
    BY <1>4, <2>2, <2>3
  <2>6. d[2] # "/"
    BY <2>4, <2>5
  <2>7. At(d, 2) # "/"
    <3>1. At(d, 2) = d[2] \/ At(d, 2) = ""
      BY Zenon DEF At
    <3>. QED
      BY <2>6, <3>1
  <2>. QED
    BY <1>5, <2>7 DEF d
<1>. QED
  BY <1>6, <1>7

LEMMA ConvertedBegins ==
    ASSUME NEW S, NEW d \in Seq(S), 1 \in 1 .. Len(d), d[1] = "/", At(d, 2) # "/"
    PROVE  LET e == ConvertEncodedHexToUpper(d)
           IN  1 \in 1 .. Len(e) /\ e[1] = "/" /\ At(e, 2) # "/"
<1>. DEFINE e == ConvertEncodedHexToUpper(d)
<1>1. Len(e) = Len(d) /\ \A i \in 1 .. Len(d) : e[i] \in {d[i], Upper(d[i])}
  BY ConvertedIs
<1>. HIDE DEF e
<1>2. \A i \in 1 .. Len(d) : e[i] = "/" <=> d[i] = "/"
  <2>. SUFFICES ASSUME NEW i \in 1 .. Len(d) PROVE e[i] = "/" <=> d[i] = "/"
    OBVIOUS
  <2>1. Upper(d[i]) = "/" <=> d[i] = "/"
    BY UpperKeeps
  <2>2. e[i] = d[i] \/ e[i] = Upper(d[i])
    BY <1>1
  <2>. QED
    BY <2>1, <2>2
<1>3. At(e, 2) # "/"
  <2>1. CASE 2 \in 1 .. Len(d)
    <3>1. At(d, 2) = d[2] /\ At(e, 2) = e[2]
      BY <1>1, <2>1, Zenon DEF At
    <3>. QED
      BY <1>2, <2>1, <3>1
  <2>2. CASE 2 \notin 1 .. Len(d)
    <3>1. At(e, 2) = ""
      BY <1>1, <2>2, Zenon DEF At
    <3>. QED
      BY <3>1
  <2>. QED
    BY <2>1, <2>2
<1>. QED
  BY <1>1, <1>2, <1>3 DEF e

LastSlash(w, l) == l \in 1 .. Len(w) /\ w[l] = "/" /\ SlashAfter(w, l) = Len(w) + 1

LEMMA LastSlashIs ==
    ASSUME NEW S, NEW w \in Seq(S), 1 \in 1 .. Len(w), w[1] = "/"
    PROVE  LastSlash(w, Max({i \in DOMAIN w : w[i] = "/"}))
<1>. DEFINE M == {i \in DOMAIN w : w[i] = "/"}
            l == Max(M)
<1>0. Len(w) \in Nat /\ DOMAIN w = 1 .. Len(w)
  OBVIOUS
<1>1. M \in SUBSET (1 .. Len(w)) /\ M # {}
  BY <1>0
<1>2. l \in M /\ \A i \in M : i <= l
  BY <1>0, <1>1, MaxOfRange, Zenon
<1>3. l \in 1 .. Len(w) /\ w[l] = "/"
  BY <1>0, <1>2
<1>4. \A j \in l + 1 .. Len(w) : w[j] # "/"
  <2>. SUFFICES ASSUME NEW j \in l + 1 .. Len(w), w[j] = "/" PROVE FALSE
    OBVIOUS
  <2>. HIDE DEF l
  <2>1. j \in M
    BY <1>0, <1>3
  <2>2. j <= l
    BY <1>2, <2>1
  <2>. QED
    BY <1>0, <1>3, <2>2
<1>. HIDE DEF M, l
<1>5. SlashAfter(w, l) = Len(w) + 1
  <2>. DEFINE e == Len(w) + 1
  <2>1. l \in 0 .. Len(w) /\ e \in l + 1 .. Len(w) + 1 /\ ~(e <= Len(w)) /\ e - 1 = Len(w)
    BY <1>0, <1>3
  <2>. HIDE DEF e
  <2>2. \A j \in l + 1 .. e - 1 : w[j] # "/"
    BY <1>4, <2>1
  <2>3. SlashAfter(w, l) = e
    BY <2>1, <2>2, SlashAfterAt
  <2>. QED
    BY <2>3 DEF e
<1>. QED
  BY <1>3, <1>5 DEF LastSlash, l, M

(* A layer's last slash is laid out on the last slash of the next one, and  *)
(* the segments behind them are the same but for their case.                *)
LEMMA LastSlashLaid ==
    ASSUME NEW S, NEW x \in Seq(S), NEW T, NEW y \in Seq(T),
           NEW X, NEW Y, NEW m, LaysOut(x, X, y, Y, m), NEW l, LastSlash(x, l)
    PROVE  LastSlash(y, m[l]) /\ Folded(Y[m[l]]) = Folded(X[l])
<1>0. m \in [0 .. Len(x) -> 0 .. Len(y)] /\ Laid(x, y, m) /\ SegmentsMatch(x, X, Y, m)
  BY DEF LaysOut
<1>1. l \in 1 .. Len(x) /\ x[l] = "/" /\ SlashAfter(x, l) = Len(x) + 1
  BY DEF LastSlash
<1>2. /\ m[l] \in 1 .. Len(y) /\ m[l] = m[l - 1] + 1
      /\ y[m[l]] = "/" /\ SlashAfter(y, m[l]) = Len(y) + 1
  BY <1>0, <1>1, LaidLast
<1>. QED
  BY <1>0, <1>1, <1>2 DEF LastSlash, SegmentsMatch

(* Where a path leads is where what Normalize_ makes of it leads, before    *)
(* its dots are removed.                                                    *)
LEMMA PathWalks ==
    ASSUME NEW S, NEW p \in Seq(S), Escaped(p), 1 \in 1 .. Len(p), p[1] = "/", At(p, 2) # "/"
    PROVE  LET c == Spelled(p)
               T == Uppers(Octets(S))
               last == Max({i \in DOMAIN p : p[i] = "/"})
           IN  /\ c \in Seq(T) /\ OneSlash(c)
               /\ \E Q : /\ IsLayer(T, c, T \ {"/"}, Raws(c), Q)
                         /\ FoldedPlace(Resolution(p)) = FoldedPlace(Q[Len(c)])
               /\ Resolution(p) \in Places(Octets(S) \ {"/"})
               /\ \E k : LastSlash(c, k) /\ (SegmentAt(p, last) \in Dots <=> RawAt(c, k) \in Dots)
<1>. DEFINE d == PercentDecode(p, {"/"})
            e == ConvertEncodedHexToUpper(d)
            c == CollapseSlashes(e)
            O == Octets(S)
            T == Uppers(O)
            last == Max({i \in DOMAIN p : p[i] = "/"})
            X == Segs(p)
            m == Ends(Decodings(p))
            n == Ends(Collapsings(e))
<1>0. Spelled(p) = c
  BY DEF Spelled
<1>1. d \in Seq(O) /\ X \in [1 .. Len(p) -> Seq(O \ {"/"})] /\ LaysOut(p, X, d, Raws(d), m)
  BY SegmentsDecoded DEF LaysOut
<1>2. 1 \in 1 .. Len(d) /\ d[1] = "/" /\ At(d, 2) # "/"
  BY DecodedBegins
<1>. HIDE DEF d, m, X, O
<1>3. e \in Seq(T) /\ Len(e) = Len(d) /\ \A i \in 1 .. Len(d) : e[i] \in {d[i], Upper(d[i])}
  BY <1>1, ConvertedIs
<1>4. 1 \in 1 .. Len(e) /\ e[1] = "/" /\ At(e, 2) # "/"
  BY <1>1, <1>2, ConvertedBegins
<1>. HIDE DEF e, n, T
<1>5. LaysOut(d, Raws(d), e, Raws(e), Here(d))
  BY <1>1, <1>3, CaseLays DEF LaysOut
<1>6. c \in Seq(T) /\ n \in [0 .. Len(e) -> 0 .. Len(c)]
  BY <1>3, CollapseEnds DEF n
<1>7. LaysOut(e, Raws(e), c, Raws(c), n)
  <2>1. Laid(e, c, n) /\ SegmentsMatch(e, Raws(e), Raws(c), n)
    BY <1>3, CollapseLays DEF n
  <2>. QED
    BY <1>6, <2>1 DEF LaysOut
<1>8. OneSlash(c)
  BY <1>3, <1>4, CollapsedIs
<1>. HIDE DEF c
<1>9. /\ Raws(d) \in [1 .. Len(d) -> Seq(O \ {"/"})] /\ Raws(e) \in [1 .. Len(e) -> Seq(T \ {"/"})]
      /\ Raws(c) \in [1 .. Len(c) -> Seq(T \ {"/"})]
  BY <1>1, <1>3, <1>6, RawsAre
<1>10. PICK P0 \in [0 .. Len(p) -> Places(O \ {"/"})] : IsWalk(P0, p, X) /\ Resolution(p) = P0[Len(p)]
  <2>1. \A i \in 1 .. Len(p) : p[i] = "/" => X[i] = SegmentAt(p, i)
    BY DEF X, Segs
  <2>. QED
    BY <1>1, <2>1, ResolutionIs
<1>11. PICK P1 \in [0 .. Len(d) -> Places(O \ {"/"})] : IsWalk(P1, d, Raws(d))
  BY <1>1, <1>9, WalkExists
<1>12. PICK P2 \in [0 .. Len(e) -> Places(T \ {"/"})] : IsWalk(P2, e, Raws(e))
  BY <1>3, <1>9, WalkExists
<1>13. PICK P3 \in [0 .. Len(c) -> Places(T \ {"/"})] : IsWalk(P3, c, Raws(c))
  BY <1>6, <1>9, WalkExists
<1>14. IsLayer(S, p, O \ {"/"}, X, P0)
  BY <1>1, <1>10 DEF IsLayer
<1>15. IsLayer(O, d, O \ {"/"}, Raws(d), P1)
  BY <1>1, <1>9, <1>11 DEF IsLayer
<1>16. IsLayer(T, e, T \ {"/"}, Raws(e), P2)
  BY <1>3, <1>9, <1>12 DEF IsLayer
<1>17. IsLayer(T, c, T \ {"/"}, Raws(c), P3)
  BY <1>6, <1>9, <1>13 DEF IsLayer
<1>18. FoldedPlace(P0[Len(p)]) = FoldedPlace(P1[Len(d)])
  <2>. DEFINE A == O \ {"/"}
  <2>1. IsLayer(S, p, A, X, P0) /\ IsLayer(O, d, A, Raws(d), P1) /\ LaysOut(p, X, d, Raws(d), m)
    BY <1>1, <1>14, <1>15
  <2>. HIDE DEF A
  <2>. QED
    BY <2>1, LayersAgree, SMTT(40)
<1>19. FoldedPlace(P1[Len(d)]) = FoldedPlace(P2[Len(e)])
  <2>. DEFINE A == O \ {"/"}
              B == T \ {"/"}
  <2>1. IsLayer(O, d, A, Raws(d), P1) /\ IsLayer(T, e, B, Raws(e), P2)
        /\ LaysOut(d, Raws(d), e, Raws(e), Here(d))
    BY <1>5, <1>15, <1>16
  <2>. HIDE DEF A, B
  <2>. QED
    BY <2>1, LayersAgree, SMTT(40)
<1>20. FoldedPlace(P2[Len(e)]) = FoldedPlace(P3[Len(c)])
  <2>. DEFINE B == T \ {"/"}
  <2>1. IsLayer(T, e, B, Raws(e), P2) /\ IsLayer(T, c, B, Raws(c), P3)
        /\ LaysOut(e, Raws(e), c, Raws(c), n)
    BY <1>7, <1>16, <1>17
  <2>. HIDE DEF B
  <2>. QED
    BY <2>1, LayersAgree
<1>21. FoldedPlace(Resolution(p)) = FoldedPlace(P3[Len(c)])
  BY <1>10, <1>18, <1>19, <1>20
<1>22. Resolution(p) \in Places(O \ {"/"})
  <2>1. Len(p) \in 0 .. Len(p)
    OBVIOUS
  <2>. QED
    BY <1>10, <2>1
<1>. DEFINE k == n[Here(d)[m[last]]]
<1>23. LastSlash(p, last)
  BY LastSlashIs
<1>. HIDE DEF last
<1>24. LastSlash(d, m[last]) /\ Folded(Raws(d)[m[last]]) = Folded(X[last])
  BY <1>1, <1>23, LastSlashLaid
<1>25. LastSlash(e, Here(d)[m[last]]) /\ Folded(Raws(e)[Here(d)[m[last]]]) = Folded(Raws(d)[m[last]])
  BY <1>1, <1>3, <1>5, <1>24, LastSlashLaid
<1>26. LastSlash(c, k) /\ Folded(Raws(c)[k]) = Folded(Raws(e)[Here(d)[m[last]]])
  BY <1>3, <1>6, <1>7, <1>25, LastSlashLaid, SMTT(40)
<1>27. SegmentAt(p, last) \in Dots <=> RawAt(c, k) \in Dots
  <2>1. last \in 1 .. Len(p) /\ p[last] = "/" /\ k \in 1 .. Len(c)
    BY <1>23, <1>26 DEF LastSlash
  <2>2. X[last] = SegmentAt(p, last)
    BY <2>1 DEF X, Segs
  <2>3. Raws(c)[k] = RawAt(c, k)
    BY <2>1 DEF Raws
  <2>4. X[last] \in Seq(O \ {"/"}) /\ Raws(c)[k] \in Seq(T \ {"/"})
    BY <1>1, <1>9, <2>1
  <2>5. Folded(X[last]) = Folded(Raws(c)[k])
    BY <1>24, <1>25, <1>26
  <2>6. X[last] \in Dots <=> Raws(c)[k] \in Dots
    BY <2>4, <2>5, DotsAlike
  <2>. QED
    BY <2>2, <2>3, <2>6
<1>28. \E Q : /\ IsLayer(T, c, T \ {"/"}, Raws(c), Q)
              /\ FoldedPlace(Resolution(p)) = FoldedPlace(Q[Len(c)])
  BY <1>17, <1>21
<1>29. \E j : LastSlash(c, j) /\ (SegmentAt(p, last) \in Dots <=> RawAt(c, j) \in Dots)
  BY <1>26, <1>27
<1>. QED
  BY <1>0, <1>6, <1>8, <1>22, <1>28, <1>29 DEF T, O, last

-----------------------------------------------------------------------------
(* Removing the dots, turn by turn.                                         *)

(* What the input of a turn begins with: a segment of two dots, of one.     *)
UpAt(in) == /\ Len(in) >= 3 /\ in[1] = "/" /\ in[2] = "." /\ in[3] = "."
            /\ Len(in) = 3 \/ in[4] = "/"
StayAt(in) == Len(in) >= 2 /\ in[1] = "/" /\ in[2] = "." /\ (Len(in) = 2 \/ in[3] = "/")

LEMMA SeqOfThree ==
    ASSUME NEW S, NEW w \in Seq(S), NEW a, NEW b, NEW c
    PROVE  /\ w = <<a, b>> <=> Len(w) = 2 /\ w[1] = a /\ w[2] = b
           /\ w = <<a, b, c>> <=> Len(w) = 3 /\ w[1] = a /\ w[2] = b /\ w[3] = c
<1>. DEFINE T == {a, b, c}
            v == <<a, b, c>>
<1>1. v \in Seq(T) /\ Len(v) = 3 /\ v[1] = a /\ v[2] = b /\ v[3] = c
  OBVIOUS
<1>2. w = <<a, b>> <=> Len(w) = 2 /\ w[1] = a /\ w[2] = b
  BY TupleIs
<1>. HIDE DEF v, T
<1>3. ASSUME Len(w) = 3, w[1] = a, w[2] = b, w[3] = c PROVE w = v
  <2>1. \A i \in 1 .. Len(w) : i = 1 \/ i = 2 \/ i = 3
    BY <1>3
  <2>2. \A i \in 1 .. Len(w) : w[i] = v[i]
    BY <1>1, <1>3, <2>1
  <2>. QED
    BY <1>1, <1>3, <2>2, SameSeq
<1>4. w = v <=> Len(w) = 3 /\ w[1] = a /\ w[2] = b /\ w[3] = c
  BY <1>1, <1>3
<1>. QED
  BY <1>2, <1>4 DEF v

LEMMA AllOfIt ==
    ASSUME NEW S, NEW w \in Seq(S)
    PROVE  SubSeq(w, 1, Len(w)) = w
<1>. DEFINE v == SubSeq(w, 1, Len(w))
<1>1. v \in Seq(S) /\ Len(v) = Len(w) /\ \A i \in 1 .. Len(v) : v[i] = w[i]
  OBVIOUS
<1>. HIDE DEF v
<1>2. v = w
  BY <1>1, SeqEqual
<1>. QED
  BY <1>2 DEF v

LEMMA PrefixOfThree ==
    ASSUME NEW S, NEW w \in Seq(S), NEW a, NEW b, NEW c
    PROVE  IsPrefix(<<a, b, c>>, w) <=> Len(w) >= 3 /\ w[1] = a /\ w[2] = b /\ w[3] = c
<1>. DEFINE p == <<a, b, c>>
            u == SubSeq(w, 1, 3)
<1>0. Len(w) \in Nat /\ Len(p) = 3 /\ SubSeq(p, 1, 3) = p
  <2>1. p \in Seq({a, b, c}) /\ Len(p) = 3 /\ Len(w) \in Nat
    OBVIOUS
  <2>. HIDE DEF p
  <2>2. SubSeq(p, 1, Len(p)) = p
    BY <2>1, AllOfIt
  <2>. QED
    BY <2>1, <2>2
<1>1. IsPrefix(p, w) <=> 3 <= Len(w) /\ p = u
  <2>. HIDE DEF p, u
  <2>. QED
    BY <1>0 DEF IsPrefix, u
<1>2. ASSUME 3 <= Len(w) PROVE p = u <=> w[1] = a /\ w[2] = b /\ w[3] = c
  <2>1. u \in Seq(S) /\ Len(u) = 3 /\ u[1] = w[1] /\ u[2] = w[2] /\ u[3] = w[3]
    BY <1>0, <1>2
  <2>. HIDE DEF u
  <2>2. u = <<a, b, c>> <=> Len(u) = 3 /\ u[1] = a /\ u[2] = b /\ u[3] = c
    BY <2>1, SeqOfThree
  <2>. QED
    BY <2>1, <2>2
<1>. QED
  BY <1>0, <1>1, <1>2

LEMMA PrefixOfFour ==
    ASSUME NEW S, NEW w \in Seq(S), NEW a, NEW b, NEW c, NEW d
    PROVE  IsPrefix(<<a, b, c, d>>, w) <=>
             Len(w) >= 4 /\ w[1] = a /\ w[2] = b /\ w[3] = c /\ w[4] = d
<1>. DEFINE T == {a, b, c, d}
            p == <<a, b, c, d>>
            u == SubSeq(w, 1, 4)
<1>0. Len(w) \in Nat /\ Len(p) = 4 /\ SubSeq(p, 1, 4) = p
      /\ p \in Seq(T) /\ p[1] = a /\ p[2] = b /\ p[3] = c /\ p[4] = d
  <2>1. p \in Seq(T) /\ Len(p) = 4 /\ p[1] = a /\ p[2] = b /\ p[3] = c /\ p[4] = d /\ Len(w) \in Nat
    OBVIOUS
  <2>. HIDE DEF p, T
  <2>2. SubSeq(p, 1, Len(p)) = p
    BY <2>1, AllOfIt
  <2>. QED
    BY <2>1, <2>2
<1>. HIDE DEF p, T
<1>1. IsPrefix(p, w) <=> 4 <= Len(w) /\ p = u
  <2>. HIDE DEF u
  <2>. QED
    BY <1>0 DEF IsPrefix, u
<1>2. ASSUME 4 <= Len(w) PROVE p = u <=> w[1] = a /\ w[2] = b /\ w[3] = c /\ w[4] = d
  <2>1. u \in Seq(S) /\ Len(u) = 4 /\ u[1] = w[1] /\ u[2] = w[2] /\ u[3] = w[3] /\ u[4] = w[4]
    BY <1>0, <1>2
  <2>. HIDE DEF u
  <2>2. ASSUME u[1] = a, u[2] = b, u[3] = c, u[4] = d PROVE p = u
    <3>1. \A i \in 1 .. 4 : i = 1 \/ i = 2 \/ i = 3 \/ i = 4
      OBVIOUS
    <3>2. \A i \in 1 .. Len(p) : p[i] = u[i]
      BY <1>0, <2>2, <3>1
    <3>. QED
      BY <1>0, <2>1, <3>2, SameSeq
  <2>. QED
    BY <1>0, <2>1, <2>2
<1>. QED
  BY <1>0, <1>1, <1>2 DEF p

LEMMA TurnsAre ==
    ASSUME NEW S, NEW in \in Seq(S)
    PROVE  /\ in = <<"/", ".", ".">> \/ IsPrefix(<<"/", ".", ".", "/">>, in) <=> UpAt(in)
           /\ in = <<"/", ".">> \/ IsPrefix(<<"/", ".", "/">>, in) <=> StayAt(in)
<1>0. Len(in) \in Nat
  OBVIOUS
<1>. DEFINE s == "/"
            o == "."
<1>. HIDE DEF s, o
<1>1. in = <<s, o>> <=> Len(in) = 2 /\ in[1] = s /\ in[2] = o
  BY SeqOfThree
<1>2. in = <<s, o, o>> <=> Len(in) = 3 /\ in[1] = s /\ in[2] = o /\ in[3] = o
  BY SeqOfThree
<1>3. IsPrefix(<<s, o, s>>, in) <=> Len(in) >= 3 /\ in[1] = s /\ in[2] = o /\ in[3] = s
  BY PrefixOfThree
<1>4. IsPrefix(<<s, o, o, s>>, in) <=>
        Len(in) >= 4 /\ in[1] = s /\ in[2] = o /\ in[3] = o /\ in[4] = s
  BY PrefixOfFour
<1>. DEFINE l == Len(in)
            a == in[1]
            b == in[2]
            c == in[3]
            d == in[4]
<1>5. in = <<s, o, o>> \/ IsPrefix(<<s, o, o, s>>, in) <=>
        l >= 3 /\ a = s /\ b = o /\ c = o /\ (l = 3 \/ d = s)
  <2>. HIDE DEF l, a, b, c, d
  <2>1. l \in Nat
    BY <1>0 DEF l
  <2>2. (l = 3 /\ a = s /\ b = o /\ c = o) \/ (l >= 4 /\ a = s /\ b = o /\ c = o /\ d = s)
        <=> l >= 3 /\ a = s /\ b = o /\ c = o /\ (l = 3 \/ d = s)
    BY <2>1
  <2>. QED
    BY <1>2, <1>4, <2>2 DEF l, a, b, c, d
<1>6. in = <<s, o>> \/ IsPrefix(<<s, o, s>>, in) <=>
        l >= 2 /\ a = s /\ b = o /\ (l = 2 \/ c = s)
  <2>. HIDE DEF l, a, b, c, d
  <2>1. l \in Nat
    BY <1>0 DEF l
  <2>2. (l = 2 /\ a = s /\ b = o) \/ (l >= 3 /\ a = s /\ b = o /\ c = s)
        <=> l >= 2 /\ a = s /\ b = o /\ (l = 2 \/ c = s)
    BY <2>1
  <2>. QED
    BY <1>1, <1>3, <2>2 DEF l, a, b, c
<1>. QED
  BY <1>5, <1>6, Zenon DEF UpAt, StayAt, s, o

(* The turns of the loop.                                                   *)
LEMMA TurnUp ==
    ASSUME NEW S, NEW s \in DotStates(S), s.level >= 0, UpAt(s.in)
    PROVE  DotStep(s) = [in |-> <<"/">> \o SubSeq(s.in, 5, Len(s.in)),
                         out |-> RemoveLastSegment(s.out), level |-> s.level - 1]
<1>1. s.in \in Seq(S) /\ s.level \in Int
  BY DEF DotStates
<1>2. UpAt(s.in) /\ ~StayAt(s.in) /\ s.in # <<>> /\ ~(s.level < 0)
  BY <1>1 DEF UpAt, StayAt
<1>3. s.in = <<"/", ".", ".">> \/ IsPrefix(<<"/", ".", ".", "/">>, s.in)
  BY <1>1, <1>2, TurnsAre, Zenon
<1>4. ~(s.in = <<"/", ".">> \/ IsPrefix(<<"/", ".", "/">>, s.in))
  BY <1>1, <1>2, TurnsAre, Zenon
<1>. QED
  BY <1>2, <1>3, <1>4, Zenon DEF DotStep

LEMMA TurnStay ==
    ASSUME NEW S, NEW s \in DotStates(S), s.level >= 0, StayAt(s.in)
    PROVE  DotStep(s) = [in |-> <<"/">> \o SubSeq(s.in, 4, Len(s.in)),
                         out |-> s.out, level |-> s.level]
<1>1. s.in \in Seq(S) /\ s.level \in Int
      /\ s = [in |-> s.in, out |-> s.out, level |-> s.level]
  BY DEF DotStates
<1>2. StayAt(s.in) /\ ~UpAt(s.in) /\ s.in # <<>> /\ ~(s.level < 0)
  BY <1>1 DEF UpAt, StayAt
<1>3. s.in = <<"/", ".">> \/ IsPrefix(<<"/", ".", "/">>, s.in)
  BY <1>1, <1>2, TurnsAre, Zenon
<1>4. ~(s.in = <<"/", ".", ".">> \/ IsPrefix(<<"/", ".", ".", "/">>, s.in))
  BY <1>1, <1>2, TurnsAre, Zenon
<1>5. DotStep(s) = [s EXCEPT !.in = <<"/">> \o SubSeq(s.in, 4, Len(s.in))]
  BY <1>2, <1>3, <1>4, Zenon DEF DotStep
<1>. QED
  BY <1>1, <1>5

LEMMA TurnDown ==
    ASSUME NEW S, NEW s \in DotStates(S), s.level >= 0, s.in # <<>>, ~UpAt(s.in), ~StayAt(s.in)
    PROVE  LET move == FindFirstOf(s.in, 2, {"/"})
           IN  DotStep(s) = [in |-> SubSeq(s.in, move, Len(s.in)),
                             out |-> s.out \o SubSeq(s.in, 1, move - 1), level |-> s.level + 1]
<1>1. s.in \in Seq(S) /\ s.level \in Int
  BY DEF DotStates
<1>2. ~(s.level < 0)
  BY <1>1
<1>3. ~(s.in = <<"/", ".">> \/ IsPrefix(<<"/", ".", "/">>, s.in))
  BY <1>1, TurnsAre, Zenon
<1>4. ~(s.in = <<"/", ".", ".">> \/ IsPrefix(<<"/", ".", ".", "/">>, s.in))
  BY <1>1, TurnsAre, Zenon
<1>. QED
  BY <1>2, <1>3, <1>4, Zenon DEF DotStep

LEMMA TurnOver ==
    ASSUME NEW s, s.in = <<>> \/ s.level < 0
    PROVE  DotStep(s) = s
BY Zenon DEF DotStep

(* RemoveLastSegment takes the last name off.                               *)
LEMMA RemovedIs ==
    ASSUME NEW S, "/" \in S, NEW u \in Seq(S), NEW l \in Seq(S \ {"/"})
    PROVE  RemoveLastSegment(u \o (<<"/">> \o l)) = u
<1>. DEFINE t == <<"/">> \o l
            w == u \o t
            M == {i \in 1 .. Len(w) : w[i] = "/"}
<1>1. /\ t \in Seq(S) /\ Len(t) = Len(l) + 1 /\ t[1] = "/"
      /\ \A i \in 2 .. Len(l) + 1 : t[i] # "/"
  <2>1. l \in Seq(S) /\ Len(l) \in Nat /\ \A i \in 1 .. Len(l) : l[i] # "/"
    <3>1. S \ {"/"} \subseteq S
      OBVIOUS
    <3>2. l \in Seq(S)
      BY <3>1, SeqWider
    <3>. QED
      BY <3>2
  <2>. DEFINE h == <<"/">>
  <2>2. h \in Seq(S) /\ Len(h) = 1 /\ h[1] = "/"
    OBVIOUS
  <2>. HIDE DEF h
  <2>3. /\ h \o l \in Seq(S) /\ Len(h \o l) = Len(h) + Len(l)
        /\ \A i \in 1 .. Len(h) + Len(l) : (h \o l)[i] = IF i <= Len(h) THEN h[i] ELSE l[i - Len(h)]
    BY <2>1, <2>2, ConcatProperties
  <2>4. t = h \o l
    BY DEF h
  <2>. HIDE DEF t
  <2>5. t[1] = "/"
    BY <2>1, <2>2, <2>3, <2>4
  <2>6. ASSUME NEW i \in 2 .. Len(l) + 1 PROVE t[i] # "/"
    <3>1. i \in 1 .. Len(h) + Len(l) /\ ~(i <= Len(h)) /\ i - Len(h) \in 1 .. Len(l)
      BY <2>1, <2>2
    <3>2. t[i] = l[i - Len(h)]
      BY <2>3, <2>4, <3>1
    <3>. QED
      BY <2>1, <3>1, <3>2
  <2>. QED
    BY <2>1, <2>2, <2>3, <2>4, <2>5, <2>6
<1>0. Len(u) \in Nat /\ Len(l) \in Nat
  OBVIOUS
<1>. HIDE DEF t
<1>2. /\ w \in Seq(S) /\ Len(w) = Len(u) + Len(t)
      /\ \A i \in 1 .. Len(u) + Len(t) : w[i] = IF i <= Len(u) THEN u[i] ELSE t[i - Len(u)]
  BY <1>1, ConcatProperties
<1>. HIDE DEF w
<1>3. Len(u) + 1 \in M
  <2>1. Len(u) + 1 \in 1 .. Len(u) + Len(t) /\ ~(Len(u) + 1 <= Len(u)) /\ (Len(u) + 1) - Len(u) = 1
    BY <1>0, <1>1
  <2>. QED
    BY <1>1, <1>2, <2>1
<1>4. \A i \in M : i <= Len(u) + 1
  <2>. SUFFICES ASSUME NEW i \in 1 .. Len(w), w[i] = "/", ~(i <= Len(u) + 1) PROVE FALSE
    OBVIOUS
  <2>1. i \in 1 .. Len(u) + Len(t) /\ ~(i <= Len(u)) /\ i - Len(u) \in 2 .. Len(l) + 1
    BY <1>0, <1>1, <1>2
  <2>. QED
    BY <1>1, <1>2, <2>1
<1>5. Max(M) = Len(u) + 1
  <2>0. Len(w) \in Nat
    BY <1>2
  <2>1. M \in SUBSET (1 .. Len(w)) /\ M # {} /\ Len(w) \in Nat
    BY <1>3, <2>0
  <2>2. Max(M) \in M /\ \A i \in M : i <= Max(M)
    BY <2>1, MaxOfRange, Zenon
  <2>3. Max(M) <= Len(u) + 1 /\ Len(u) + 1 <= Max(M) /\ Max(M) \in Nat
    BY <1>3, <1>4, <2>1, <2>2
  <2>. QED
    BY <1>0, <2>3
<1>6. RemoveLastSegment(w) = SubSeq(w, 1, Max(M) - 1)
  BY <1>3, Zenon DEF RemoveLastSegment
<1>. DEFINE v == SubSeq(w, 1, Len(u))
<1>7. RemoveLastSegment(w) = v
  <2>1. Max(M) - 1 = Len(u)
    BY <1>0, <1>5
  <2>. QED
    BY <1>6, <2>1
<1>8. v \in Seq(S) /\ Len(v) = Len(u) /\ \A i \in 1 .. Len(u) : v[i] = w[i]
  BY <1>0, <1>1, <1>2
<1>. HIDE DEF v
<1>9. \A i \in 1 .. Len(v) : v[i] = u[i]
  BY <1>0, <1>1, <1>2, <1>8
<1>10. v = u
  BY <1>8, <1>9, SeqEqual
<1>. QED
  BY <1>7, <1>10 DEF w, t

(* What is left of the input after a turn begins with the slash that ends   *)
(* the segment.                                                             *)
LEMMA SlashPut ==
    ASSUME NEW S, "/" \in S, NEW w \in Seq(S), NEW n \in 1 .. Len(w), w[n] = "/"
    PROVE  <<"/">> \o SubSeq(w, n + 1, Len(w)) = From(w, n)
<1>. DEFINE h == <<"/">>
            t == SubSeq(w, n + 1, Len(w))
            u == From(w, n)
<1>0. Len(w) \in Nat
  OBVIOUS
<1>1. h \in Seq(S) /\ Len(h) = 1 /\ h[1] = "/"
  OBVIOUS
<1>2. t \in Seq(S) /\ Len(t) = Len(w) - n /\ \A j \in 1 .. Len(w) - n : t[j] = w[n + j]
  OBVIOUS
<1>3. /\ u \in Seq(S) /\ Len(u) = Len(w) - n + 1
      /\ \A j \in 1 .. Len(w) - n + 1 : u[j] = w[n + j - 1]
  BY FromIs
<1>. HIDE DEF h, t, u
<1>4. /\ h \o t \in Seq(S) /\ Len(h \o t) = Len(h) + Len(t)
      /\ \A j \in 1 .. Len(h) + Len(t) : (h \o t)[j] = IF j <= Len(h) THEN h[j] ELSE t[j - Len(h)]
  BY <1>1, <1>2, ConcatProperties
<1>. DEFINE v == h \o t
<1>. HIDE DEF v
<1>5. v \in Seq(S) /\ Len(v) = Len(u)
  BY <1>0, <1>1, <1>2, <1>3, <1>4 DEF v
<1>6. ASSUME NEW j \in 1 .. Len(v) PROVE v[j] = u[j]
  <2>0. j \in 1 .. Len(h) + Len(t) /\ j \in 1 .. Len(w) - n + 1
    BY <1>0, <1>1, <1>2, <1>3, <1>5
  <2>1. CASE j = 1
    <3>1. v[j] = h[1]
      BY <1>1, <1>4, <2>0, <2>1 DEF v
    <3>2. u[j] = w[n + j - 1] /\ n + j - 1 = n
      BY <1>0, <1>3, <2>0, <2>1
    <3>. QED
      BY <1>1, <3>1, <3>2
  <2>2. CASE j # 1
    <3>1. ~(j <= Len(h)) /\ j - Len(h) = j - 1 /\ j - 1 \in 1 .. Len(w) - n
      BY <1>0, <1>1, <2>0, <2>2
    <3>2. v[j] = t[j - 1]
      BY <1>4, <2>0, <3>1 DEF v
    <3>3. t[j - 1] = w[n + (j - 1)]
      BY <1>2, <3>1
    <3>4. u[j] = w[n + j - 1] /\ n + j - 1 = n + (j - 1)
      BY <1>0, <1>3, <2>0
    <3>. QED
      BY <3>2, <3>3, <3>4
  <2>. QED
    BY <2>1, <2>2
<1>7. v = u
  BY <1>3, <1>5, <1>6, SeqEqual
<1>. QED
  BY <1>7 DEF v, h, t, u

(* An input that begins with the segment r.                                 *)
Begins(in, r) ==
    /\ Len(in) >= Len(r) + 1 /\ in[1] = "/"
    /\ \A j \in 1 .. Len(r) : in[j + 1] = r[j]
    /\ Len(in) = Len(r) + 1 \/ in[Len(r) + 2] = "/"

LEMMA BeginsWithDots ==
    ASSUME NEW S, NEW in \in Seq(S), NEW r \in Seq(S \ {"/"}), Begins(in, r)
    PROVE  (UpAt(in) <=> r = <<".", ".">>) /\ (StayAt(in) <=> r = <<".">>)
<1>0. Len(in) \in Nat /\ Len(r) \in Nat /\ \A j \in 1 .. Len(r) : r[j] # "/"
  OBVIOUS
<1>1. /\ Len(in) >= Len(r) + 1 /\ in[1] = "/"
      /\ \A j \in 1 .. Len(r) : in[j + 1] = r[j]
      /\ Len(in) = Len(r) + 1 \/ in[Len(r) + 2] = "/"
  BY DEF Begins
<1>. DEFINE s == "/"
            o == "."
<1>2. r = <<o, o>> <=> Len(r) = 2 /\ r[1] = o /\ r[2] = o
  <2>. HIDE DEF o
  <2>. QED
    BY TupleIs
<1>3. r = <<o>> <=> Len(r) = 1 /\ r[1] = o
  <2>. HIDE DEF o
  <2>. QED
    BY TupleIs
<1>4. CASE Len(r) = 0
  <2>1. Len(in) = 1 \/ in[2] = "/"
    BY <1>1, <1>4
  <2>2. ~UpAt(in) /\ ~StayAt(in)
    BY <2>1 DEF UpAt, StayAt
  <2>. QED
    BY <1>2, <1>3, <1>4, <2>2
<1>5. CASE Len(r) = 1
  <2>1. in[2] = r[1] /\ (Len(in) = 2 \/ in[3] = "/") /\ Len(in) >= 2
    <3>1. 1 \in 1 .. Len(r) /\ Len(r) + 2 = 3 /\ Len(r) + 1 = 2
      BY <1>5
    <3>2. in[1 + 1] = r[1]
      BY <1>1, <3>1
    <3>. QED
      BY <1>1, <1>5, <3>1, <3>2
  <2>2. ~UpAt(in)
    BY <2>1 DEF UpAt
  <2>3. StayAt(in) <=> r[1] = "."
    BY <1>1, <2>1 DEF StayAt
  <2>. QED
    BY <1>2, <1>3, <1>5, <2>2, <2>3
<1>6. CASE Len(r) = 2
  <2>1. in[2] = r[1] /\ in[3] = r[2] /\ (Len(in) = 3 \/ in[4] = "/") /\ Len(in) >= 3
    <3>1. 1 \in 1 .. Len(r) /\ 2 \in 1 .. Len(r) /\ Len(r) + 2 = 4 /\ Len(r) + 1 = 3
      BY <1>6
    <3>2. in[1 + 1] = r[1] /\ in[2 + 1] = r[2]
      BY <1>1, <3>1
    <3>. QED
      BY <1>1, <1>6, <3>1, <3>2
  <2>2. in[3] # "/"
    BY <1>0, <1>6, <2>1
  <2>3. ~StayAt(in)
    BY <2>1, <2>2 DEF StayAt
  <2>4. UpAt(in) <=> r[1] = "." /\ r[2] = "."
    BY <1>1, <2>1 DEF UpAt
  <2>. QED
    BY <1>2, <1>3, <1>6, <2>3, <2>4
<1>7. CASE Len(r) >= 3
  <2>1. in[3] # "/" /\ in[4] # "/" /\ Len(in) >= 4
    <3>1. 2 \in 1 .. Len(r) /\ 3 \in 1 .. Len(r)
      BY <1>0, <1>7
    <3>2. in[2 + 1] = r[2] /\ in[3 + 1] = r[3]
      BY <1>1, <3>1
    <3>. QED
      BY <1>0, <1>1, <1>7, <3>1, <3>2
  <2>2. ~UpAt(in) /\ ~StayAt(in)
    BY <2>1 DEF UpAt, StayAt
  <2>3. Len(r) # 1 /\ Len(r) # 2
    BY <1>0, <1>7
  <2>. QED
    BY <1>2, <1>3, <2>2, <2>3
<1>8. Len(r) = 0 \/ Len(r) = 1 \/ Len(r) = 2 \/ Len(r) >= 3
  <2>. DEFINE l == Len(r)
  <2>1. l \in Nat
    BY <1>0
  <2>. HIDE DEF l
  <2>2. l = 0 \/ l = 1 \/ l = 2 \/ l >= 3
    BY <2>1
  <2>. QED
    BY <2>2 DEF l
<1>. QED
  BY <1>4, <1>5, <1>6, <1>7, <1>8

(* The input from a slash on.                                               *)
LEMMA InputFrom ==
    ASSUME NEW S, NEW c \in Seq(S), NEW i \in 1 .. Len(c), c[i] = "/"
    PROVE  LET in == From(c, i)
               r == RawAt(c, i)
               e == SlashAfter(c, i)
           IN  /\ in \in Seq(S) /\ Len(in) = Len(c) - i + 1 /\ r \in Seq(S \ {"/"})
               /\ e \in i + 1 .. Len(c) + 1 /\ Len(r) = e - 1 - i /\ Begins(in, r)
               /\ FindFirstOf(in, 2, {"/"}) = Len(r) + 2
<1>. DEFINE in == From(c, i)
            r == RawAt(c, i)
            e == SlashAfter(c, i)
            n == Len(c)
<1>0. n \in Nat /\ i \in 0 .. n /\ i \in 1 .. n + 1
  OBVIOUS
<1>1. in \in Seq(S) /\ Len(in) = n - i + 1 /\ \A j \in 1 .. n - i + 1 : in[j] = c[i + j - 1]
  BY <1>0, FromIs
<1>2. e \in i + 1 .. n + 1 /\ (e <= n => c[e] = "/")
  BY <1>0, SlashAfterIs
<1>3. r \in Seq(S \ {"/"}) /\ Len(r) = e - 1 - i /\ \A k \in 1 .. e - 1 - i : r[k] = c[i + k]
  BY <1>0, RawIs
<1>. HIDE DEF in, r, e
<1>4. Len(r) \in Nat /\ Len(in) >= Len(r) + 1 /\ Len(in) \in Nat
  BY <1>0, <1>1, <1>2, <1>3
<1>5. in[1] = "/"
  <2>1. 1 \in 1 .. n - i + 1 /\ i + 1 - 1 = i
    BY <1>0
  <2>. QED
    BY <1>1, <2>1
<1>6. ASSUME NEW j \in 1 .. Len(r) PROVE in[j + 1] = r[j]
  <2>1. j + 1 \in 1 .. n - i + 1 /\ i + (j + 1) - 1 = i + j /\ j \in 1 .. e - 1 - i
    BY <1>0, <1>2, <1>3
  <2>2. in[j + 1] = c[i + (j + 1) - 1]
    BY <1>1, <2>1
  <2>. QED
    BY <1>3, <2>1, <2>2
<1>7. ASSUME Len(in) # Len(r) + 1 PROVE Len(r) + 2 \in 1 .. Len(in) /\ in[Len(r) + 2] = "/"
  <2>0. n \in Nat /\ i \in 1 .. n + 1 /\ e \in i + 1 .. n + 1
        /\ Len(in) = n - i + 1 /\ Len(r) = e - 1 - i
    BY <1>0, <1>1, <1>2, <1>3
  <2>1. e <= n /\ Len(r) + 2 \in 1 .. n - i + 1 /\ i + (Len(r) + 2) - 1 = e
    <3>1. e # n + 1
      BY <1>7, <2>0
    <3>. HIDE DEF n
    <3>. QED
      BY <2>0, <3>1
  <2>2. in[Len(r) + 2] = c[i + (Len(r) + 2) - 1]
    BY <1>1, <2>1
  <2>. QED
    BY <1>1, <1>2, <2>1, <2>2
<1>8. Begins(in, r)
  BY <1>4, <1>5, <1>6, <1>7 DEF Begins
<1>9. FindFirstOf(in, 2, {"/"}) = Len(r) + 2
  <2>. DEFINE f == Len(r) + 2
  <2>1. f \in Nat /\ 2 <= f /\ f <= Len(in) + 1 /\ 2 \in Nat \ {0}
    BY <1>4
  <2>2. f <= Len(in) => in[f] \in {"/"}
    <3>1. f <= Len(in) => Len(in) # Len(r) + 1
      BY <1>4
    <3>. QED
      BY <1>7, <3>1
  <2>3. \A j \in 2 .. f - 1 : in[j] \notin {"/"}
    <3>. SUFFICES ASSUME NEW j \in 2 .. f - 1 PROVE in[j] # "/"
      OBVIOUS
    <3>1. j - 1 \in 1 .. Len(r) /\ (j - 1) + 1 = j
      BY <1>4
    <3>2. in[(j - 1) + 1] = r[j - 1]
      BY <1>6, <3>1
    <3>3. r[j - 1] # "/"
      BY <1>3, <3>1
    <3>. QED
      BY <3>1, <3>2, <3>3
  <2>. HIDE DEF f
  <2>4. FindFirstOf(in, 2, {"/"}) = f
    BY <1>1, <2>1, <2>2, <2>3, FoundAt
  <2>. QED
    BY <2>4 DEF f
<1>. QED
  BY <1>1, <1>2, <1>3, <1>8, <1>9 DEF in, r, e, n

(* The loop of RemoveDotSegments_ reads a walked path segment by segment.   *)
Walked(S, c, Q, k) ==
    "/" \in S /\ OneSlash(c) /\ IsLayer(S, c, S \ {"/"}, Raws(c), Q) /\ LastSlash(c, k)

EndOfWalk(c, k) == IF RawAt(c, k) \in Dots THEN <<"/">> ELSE <<>>

(* At a segment; behind the last one, of dots; at the end; out of the tree. *)
Before(s, c, Q, i) ==
    /\ i \in 0 .. Len(c) - 1 /\ c[i + 1] = "/" /\ s.in = From(c, i + 1)
    /\ ~Q[i].lost /\ s.out = Joined(Q[i].names) /\ s.level = Len(Q[i].names)
AtDots(s, c, Q, k) ==
    /\ s.in = <<"/">> /\ RawAt(c, k) \in Dots
    /\ ~Q[Len(c)].lost /\ s.out = Joined(Q[Len(c)].names) /\ s.level = Len(Q[Len(c)].names)
Ended(s, c, Q, k) ==
    /\ s.in = <<>> /\ s.level >= 0
    /\ ~Q[Len(c)].lost /\ s.out = Joined(Q[Len(c)].names) \o EndOfWalk(c, k)
Astray(s, c, Q) == s.level < 0 /\ Q[Len(c)].lost

LEMMA OnlyLastSlash ==
    ASSUME NEW S, NEW c \in Seq(S), NEW k, LastSlash(c, k), NEW j, LastSlash(c, j)
    PROVE  j = k
<1>0. Len(c) \in Nat
  OBVIOUS
<1>1. ASSUME NEW a, LastSlash(c, a)
      PROVE  a \in 1 .. Len(c) /\ c[a] = "/" /\ \A b \in a + 1 .. Len(c) : c[b] # "/"
  <2>1. a \in 1 .. Len(c) /\ c[a] = "/" /\ SlashAfter(c, a) = Len(c) + 1
    BY <1>1 DEF LastSlash
  <2>2. a \in 0 .. Len(c) /\ SlashAfter(c, a) - 1 = Len(c)
    BY <1>0, <2>1
  <2>3. \A b \in a + 1 .. SlashAfter(c, a) - 1 : c[b] # "/"
    BY <2>2, SlashAfterIs
  <2>. QED
    BY <2>1, <2>2, <2>3
<1>2. k \in 1 .. Len(c) /\ c[k] = "/" /\ \A b \in k + 1 .. Len(c) : c[b] # "/"
  BY <1>1
<1>3. j \in 1 .. Len(c) /\ c[j] = "/" /\ \A b \in j + 1 .. Len(c) : c[b] # "/"
  BY <1>1
<1>4. ~(j < k) /\ ~(k < j)
  BY <1>0, <1>2, <1>3
<1>. QED
  BY <1>0, <1>2, <1>3, <1>4

(* The segment behind the slash at i + 1: its letters r, the place e where  *)
(* the next slash is, and the step of the walk that it is.                  *)
SegmentOf(A, c, Q, k, i, r, e, n) ==
    /\ Q[i] \in Places(A) /\ r \in Seq(A)
    /\ e \in i + 2 .. n + 1 /\ (e <= n => c[e] = "/")
    /\ Len(r) = e - 2 - i /\ Q[e - 1] = Walk(Q[i], r)
    /\ e = n + 1 => k = i + 1

LEMMA SegmentWalked ==
    ASSUME NEW S, NEW c, NEW Q, NEW k, Walked(S, c, Q, k),
           NEW i \in 0 .. Len(c) - 1, c[i + 1] = "/"
    PROVE  /\ c \in Seq(S)
           /\ SegmentOf(S \ {"/"}, c, Q, k, i, RawAt(c, i + 1), SlashAfter(c, i + 1), Len(c))
<1>. DEFINE A == S \ {"/"}
            n == Len(c)
            r == RawAt(c, i + 1)
            e == SlashAfter(c, i + 1)
            X == Raws(c)
<1>1. /\ c \in Seq(S) /\ X \in [1 .. n -> Seq(A)] /\ Q \in [0 .. n -> Places(A)]
      /\ IsWalk(Q, c, X) /\ LastSlash(c, k)
  BY DEF Walked, IsLayer
<1>2. n \in Nat /\ i \in 0 .. n /\ i + 1 \in 1 .. n /\ i + 1 \in 0 .. n /\ (i + 1) - 1 = i
  <2>1. n \in Nat
    BY <1>1
  <2>. QED
    BY <2>1
<1>3. /\ e \in (i + 1) + 1 .. n + 1 /\ (e <= n => c[e] = "/")
      /\ \A j \in (i + 1) + 1 .. e - 1 : c[j] # "/"
  BY <1>1, <1>2, SlashAfterIs
<1>4. r \in Seq(A) /\ Len(r) = e - 1 - (i + 1)
  BY <1>1, <1>2, RawIs
<1>5. X[i + 1] = r
  BY <1>2 DEF Raws
<1>. HIDE DEF A, r, e, X, n
<1>6. Q[i + 1] = Walk(Q[i], r)
  BY <1>1, <1>2, <1>5 DEF IsWalk, n
<1>7. Q[e - 1] = Q[i + 1]
  <2>. DEFINE a == i + 1
              b == e - 1
  <2>1. a \in 0 .. n /\ b \in a .. n
    BY <1>2, <1>3
  <2>2. Still(Q, c, X, a, b)
    BY <1>3 DEF Still
  <2>. HIDE DEF a, b
  <2>3. Q[b] = Q[a]
    BY <1>1, <2>1, <2>2, WalkRests DEF n
  <2>. QED
    BY <2>3 DEF a, b
<1>8. e = n + 1 => k = i + 1
  <2>1. e = n + 1 => LastSlash(c, i + 1)
    BY <1>2 DEF LastSlash, e, n
  <2>. QED
    BY <1>1, <2>1, OnlyLastSlash
<1>9. Q[i] \in Places(A)
  BY <1>1, <1>2
<1>10. e \in i + 2 .. n + 1 /\ Len(r) = e - 2 - i
  BY <1>2, <1>3, <1>4
<1>11. SegmentOf(A, c, Q, k, i, r, e, n)
  BY <1>1, <1>3, <1>4, <1>6, <1>7, <1>8, <1>9, <1>10 DEF SegmentOf
<1>. QED
  BY <1>1, <1>11 DEF A, r, e, n

LEMMA LostStays ==
    ASSUME NEW S, NEW c, NEW Q, NEW k, Walked(S, c, Q, k),
           NEW a \in 0 .. Len(c), Q[a].lost
    PROVE  Q[Len(c)].lost
<1>. DEFINE A == S \ {"/"}
            n == Len(c)
            X == Raws(c)
            W == {j \in Nat : a + j <= n => Q[a + j].lost}
<1>1. /\ c \in Seq(S) /\ X \in [1 .. n -> Seq(A)] /\ Q \in [0 .. n -> Places(A)]
      /\ IsWalk(Q, c, X)
  BY DEF Walked, IsLayer
<1>2. n \in Nat
  BY <1>1
<1>3. 0 \in W
  BY <1>2
<1>4. ASSUME NEW j \in Nat, j \in W PROVE j + 1 \in W
  <2>. SUFFICES ASSUME a + (j + 1) <= n PROVE Q[a + (j + 1)].lost
    OBVIOUS
  <2>. DEFINE i == a + (j + 1)
  <2>1. i \in 1 .. n /\ i - 1 = a + j /\ a + j <= n /\ i - 1 \in 0 .. n
    BY <1>2
  <2>2. Q[i - 1].lost
    BY <1>4, <2>1
  <2>. HIDE DEF i, X, A, n
  <2>3. Q[i] = IF c[i] = "/" THEN Walk(Q[i - 1], X[i]) ELSE Q[i - 1]
    BY <1>1, <2>1 DEF IsWalk, n
  <2>4. Q[i - 1] \in Places(A) /\ X[i] \in Seq(A)
    BY <1>1, <2>1
  <2>5. Walk(Q[i - 1], X[i]) = Q[i - 1]
    BY <2>2, <2>4, WalkIs
  <2>6. Q[i].lost
    BY <2>2, <2>3, <2>5
  <2>. QED
    BY <2>6 DEF i
<1>. HIDE DEF W
<1>5. \A j \in Nat : j \in W
  BY <1>3, <1>4, Induction
<1>6. n - a \in W /\ a + (n - a) = n
  BY <1>2, <1>5
<1>. QED
  BY <1>6 DEF W

(* Behind a segment of dots the loop goes on with the next segment, or with *)
(* the slash it puts in the place of the last one.                          *)
LEMMA AfterDots ==
    ASSUME NEW S, NEW c, NEW Q, NEW k, Walked(S, c, Q, k),
           NEW i \in 0 .. Len(c) - 1, c[i + 1] = "/", RawAt(c, i + 1) \in Dots,
           NEW s, NEW in \in Seq(S), in = From(c, i + 1),
           s.in = <<"/">> \o SubSeq(in, Len(RawAt(c, i + 1)) + 3, Len(in)),
           LET p == Walk(Q[i], RawAt(c, i + 1))
           IN  ~p.lost /\ s.out = Joined(p.names) /\ s.level = Len(p.names)
    PROVE  (\E j \in i + 1 .. Len(c) - 1 : Before(s, c, Q, j)) \/ AtDots(s, c, Q, k)
<1>. DEFINE r == RawAt(c, i + 1)
            e == SlashAfter(c, i + 1)
            n == Len(c)
            l == Len(r)
<1>a. c \in Seq(S) /\ SegmentOf(S \ {"/"}, c, Q, k, i, r, e, n)
  BY SegmentWalked
<1>1. /\ c \in Seq(S) /\ r \in Seq(S \ {"/"}) /\ e \in i + 2 .. n + 1 /\ (e <= n => c[e] = "/")
      /\ l = e - 2 - i /\ Q[e - 1] = Walk(Q[i], r) /\ (e = n + 1 => k = i + 1)
  <2>. HIDE DEF r, e, n
  <2>. QED
    BY <1>a DEF SegmentOf
<1>2. "/" \in S
  BY DEF Walked
<1>3. n \in Nat /\ i + 1 \in 1 .. n /\ i + 1 \in 1 .. n + 1
  <2>1. n \in Nat
    BY <1>1
  <2>. QED
    BY <2>1
<1>4. in \in Seq(S) /\ Len(in) = n - i /\ \A j \in 1 .. n - i : in[j] = c[i + j]
  <2>1. /\ Len(in) = n - (i + 1) + 1
        /\ \A j \in 1 .. n - (i + 1) + 1 : in[j] = c[(i + 1) + j - 1]
    BY <1>1, <1>3, FromIs
  <2>2. n - (i + 1) + 1 = n - i /\ \A j \in 1 .. n - i : (i + 1) + j - 1 = i + j
    BY <1>3
  <2>. QED
    BY <2>1, <2>2
<1>5. l \in Nat /\ s.in = <<"/">> \o SubSeq(in, l + 3, Len(in))
  BY <1>1
<1>6. ~Q[e - 1].lost /\ s.out = Joined(Q[e - 1].names) /\ s.level = Len(Q[e - 1].names)
  <2>1. ~Walk(Q[i], r).lost /\ s.out = Joined(Walk(Q[i], r).names) /\ s.level = Len(Walk(Q[i], r).names)
    OBVIOUS
  <2>. HIDE DEF r, e
  <2>. QED
    BY <1>1, <2>1
<1>. HIDE DEF r, e, n, l
<1>7. CASE e = n + 1
  <2>1. SubSeq(in, l + 3, Len(in)) = <<>>
    <3>1. Len(in) < l + 3 /\ l + 3 \in Nat
      BY <1>1, <1>3, <1>4, <1>5, <1>7
    <3>. QED
      BY <1>4, <3>1
  <2>2. s.in = <<"/">>
    <3>1. <<"/">> \o <<>> = <<"/">>
      BY <1>2
    <3>. QED
      BY <1>5, <2>1, <3>1
  <2>3. RawAt(c, k) \in Dots /\ e - 1 = n
    BY <1>1, <1>3, <1>7 DEF r
  <2>. QED
    BY <1>6, <2>2, <2>3 DEF AtDots, n
<1>8. CASE e # n + 1
  <2>. DEFINE m == l + 2
              j == e - 1
  <2>1. e \in 1 .. n /\ c[e] = "/" /\ m \in 1 .. Len(in) /\ i + m = e /\ j \in i + 1 .. n - 1
        /\ m \in 1 .. n - i /\ (i + 1) + m - 1 = e /\ m \in 1 .. n - (i + 1) + 2 /\ j + 1 = e
        /\ m + 1 = l + 3
    <3>1. e <= n
      BY <1>1, <1>3, <1>8
    <3>. QED
      BY <1>1, <1>3, <1>4, <1>5, <3>1
  <2>2. in[m] = "/"
    BY <1>4, <2>1
  <2>. HIDE DEF m, j
  <2>3. <<"/">> \o SubSeq(in, m + 1, Len(in)) = From(in, m)
    BY <1>2, <1>4, <2>1, <2>2, SlashPut
  <2>4. From(in, m) = From(c, e)
    <3>1. From(From(c, i + 1), m) = From(c, (i + 1) + m - 1)
      BY <1>1, <1>3, <2>1, FromFrom DEF n
    <3>. QED
      BY <2>1, <3>1
  <2>5. s.in = From(c, j + 1)
    BY <1>5, <2>1, <2>3, <2>4
  <2>6. Before(s, c, Q, j)
    <3>1. ~Q[j].lost /\ s.out = Joined(Q[j].names) /\ s.level = Len(Q[j].names)
      BY <1>6 DEF j
    <3>2. i + 1 \in Nat /\ j \in i + 1 .. n - 1 /\ c[j + 1] = "/"
      BY <1>3, <2>1
    <3>3. j \in 0 .. n - 1
      <4>. HIDE DEF j
      <4>. QED
        BY <1>3, <3>2
    <3>. HIDE DEF j
    <3>. QED
      BY <2>5, <3>1, <3>2, <3>3 DEF Before, n
  <2>. QED
    BY <2>1, <2>6 DEF n
<1>. QED
  BY <1>7, <1>8

LEMMA TurnFrom ==
    ASSUME NEW S, NEW c, NEW Q, NEW k, Walked(S, c, Q, k),
           NEW s \in DotStates(S), NEW i, Before(s, c, Q, i)
    PROVE  LET t == DotStep(s)
           IN  \/ \E j \in i + 1 .. Len(c) - 1 : Before(t, c, Q, j)
               \/ AtDots(t, c, Q, k) \/ Ended(t, c, Q, k) \/ Astray(t, c, Q)
<1>. DEFINE t == DotStep(s)
            A == S \ {"/"}
            n == Len(c)
            r == RawAt(c, i + 1)
            e == SlashAfter(c, i + 1)
            in == s.in
            p == Q[i]
<1>1. /\ i \in 0 .. n - 1 /\ c[i + 1] = "/" /\ in = From(c, i + 1)
      /\ ~p.lost /\ s.out = Joined(p.names) /\ s.level = Len(p.names)
  BY DEF Before
<1>a. c \in Seq(S) /\ SegmentOf(A, c, Q, k, i, r, e, n)
  BY <1>1, SegmentWalked
<1>2. /\ c \in Seq(S) /\ p \in Places(A) /\ r \in Seq(A) /\ e \in i + 2 .. n + 1
      /\ (e <= n => c[e] = "/") /\ Len(r) = e - 2 - i /\ Q[e - 1] = Walk(p, r)
      /\ (e = n + 1 => k = i + 1)
  <2>. HIDE DEF A, r, e, n
  <2>. QED
    BY <1>a DEF SegmentOf
<1>3. "/" \in S /\ A \subseteq S /\ OneSlash(c)
  BY DEF Walked
<1>4. n \in Nat /\ i + 1 \in 1 .. n
  <2>1. n \in Nat
    BY <1>2
  <2>. QED
    BY <1>1, <2>1
<1>5. /\ in \in Seq(S) /\ Len(in) = n - (i + 1) + 1 /\ Begins(in, r)
      /\ FindFirstOf(in, 2, {"/"}) = Len(r) + 2
  BY <1>1, <1>2, <1>4, InputFrom
<1>6. p.names \in Seq(Seq(A)) /\ p.names \in Seq(Seq(S)) /\ s.level \in Nat
  <2>1. p.names \in Seq(Seq(A))
    BY <1>2 DEF Places
  <2>2. Seq(A) \subseteq Seq(S)
    BY <1>3, SeqWider
  <2>. HIDE DEF A
  <2>3. Seq(Seq(A)) \subseteq Seq(Seq(S))
    BY <2>2, SeqWider
  <2>4. Len(p.names) \in Nat
    BY <2>1
  <2>. QED
    BY <1>1, <2>1, <2>3, <2>4
<1>7. (UpAt(in) <=> r = <<".", ".">>) /\ (StayAt(in) <=> r = <<".">>)
  BY <1>2, <1>5, BeginsWithDots
<1>. HIDE DEF t, A, n, r, e, in, p
<1>8. CASE r = <<".", ".">>
  <2>1. t = [in |-> <<"/">> \o SubSeq(in, 5, Len(in)),
             out |-> RemoveLastSegment(s.out), level |-> s.level - 1]
    BY <1>6, <1>7, <1>8, TurnUp DEF t, in
  <2>2. Len(r) = 2
    BY <1>8
  <2>3. CASE p.names = <<>>
    <3>1. Walk(p, r) = [lost |-> TRUE, names |-> <<>>]
      BY <1>1, <1>2, <1>8, <2>3, WalkIs
    <3>2. e - 1 \in 0 .. Len(c) /\ Q[e - 1].lost
      BY <1>1, <1>2, <1>4, <3>1 DEF n
    <3>3. Q[Len(c)].lost
      BY <3>2, LostStays
    <3>4. t.level = s.level - 1 /\ s.level = 0
      BY <1>1, <2>1, <2>3
    <3>5. Astray(t, c, Q)
      BY <3>3, <3>4 DEF Astray
    <3>. QED
      BY <3>5 DEF t
  <2>4. CASE p.names # <<>>
    <3>. DEFINE f == Front(p.names)
                l == p.names[Len(p.names)]
    <3>a. ~p.lost /\ r = <<".", ".">> /\ p.names # <<>>
      BY <1>1, <1>8, <2>4
    <3>1. Walk(p, r) = [lost |-> FALSE, names |-> f]
      <4>. HIDE DEF l, f
      <4>0. p \in Places(A) /\ r \in Seq(A)
        BY <1>2
      <4>1. Walk(p, r) = [lost |-> FALSE, names |-> Front(p.names)]
        BY <3>a, <4>0, WalkIs
      <4>. QED
        BY <4>1 DEF f
    <3>2. f \in Seq(Seq(S)) /\ Joined(p.names) = Joined(f) \o (<<"/">> \o l)
      BY <1>3, <1>6, <2>4, JoinedFront
    <3>3. l \in Seq(A)
      BY <1>6, <2>4
    <3>4. Len(f) = Len(p.names) - 1
      BY <1>6, <2>4 DEF Front
    <3>5. Joined(f) \in Seq(S)
      BY <1>3, <3>2, JoinedIsSeq
    <3>. HIDE DEF f, l
    <3>6. RemoveLastSegment(s.out) = Joined(f)
      BY <1>1, <1>3, <3>2, <3>3, <3>5, RemovedIs, ZenonT(40) DEF A
    <3>7. t.in = <<"/">> \o SubSeq(in, 5, Len(in)) /\ t.out = Joined(f) /\ t.level = Len(f)
      BY <1>1, <2>1, <3>4, <3>6
    <3>8. r \in Dots
      BY <1>8 DEF Dots
    <3>9. t.in = <<"/">> \o SubSeq(in, Len(r) + 3, Len(in))
      BY <2>2, <3>7
    <3>10. LET q == Walk(Q[i], r) IN ~q.lost /\ t.out = Joined(q.names) /\ t.level = Len(q.names)
      BY <3>1, <3>7 DEF p
    <3>11. (\E j \in i + 1 .. Len(c) - 1 : Before(t, c, Q, j)) \/ AtDots(t, c, Q, k)
      BY <1>1, <1>5, <3>8, <3>9, <3>10, AfterDots DEF r, n
    <3>. QED
      BY <3>11 DEF t
  <2>. QED
    BY <2>3, <2>4
<1>9. CASE r = <<".">>
  <2>1. t = [in |-> <<"/">> \o SubSeq(in, 4, Len(in)), out |-> s.out, level |-> s.level]
    BY <1>6, <1>7, <1>9, TurnStay DEF t, in
  <2>2. Len(r) = 1
    BY <1>9
  <2>3. Walk(p, r) = p
    BY <1>2, <1>9, WalkIs
  <2>4. r \in Dots
    BY <1>9 DEF Dots
  <2>5. t.in = <<"/">> \o SubSeq(in, Len(r) + 3, Len(in))
    BY <2>1, <2>2
  <2>6. LET q == Walk(Q[i], r) IN ~q.lost /\ t.out = Joined(q.names) /\ t.level = Len(q.names)
    BY <1>1, <2>1, <2>3 DEF p
  <2>7. (\E j \in i + 1 .. Len(c) - 1 : Before(t, c, Q, j)) \/ AtDots(t, c, Q, k)
    BY <1>1, <1>5, <2>4, <2>5, <2>6, AfterDots DEF r, n
  <2>. QED
    BY <2>7 DEF t
<1>10. ASSUME r # <<".", ".">>, r # <<".">>
       PROVE  /\ t.level = s.level + 1 /\ t.out = s.out \o (<<"/">> \o r)
              /\ t.in = SubSeq(in, Len(r) + 2, Len(in))
  <2>1. in # <<>> /\ s.level >= 0
    BY <1>4, <1>5, <1>6
  <2>2. t = [in |-> SubSeq(in, Len(r) + 2, Len(in)),
             out |-> s.out \o SubSeq(in, 1, (Len(r) + 2) - 1), level |-> s.level + 1]
    BY <1>5, <1>7, <1>10, <2>1, TurnDown DEF t, in
  <2>3. SubSeq(in, 1, (Len(r) + 2) - 1) = <<"/">> \o r
    <3>. DEFINE h == <<"/">>
                u == SubSeq(in, 1, Len(r) + 1)
                v == h \o r
    <3>0. Len(r) \in Nat /\ r \in Seq(S) /\ Len(in) >= Len(r) + 1 /\ Len(in) \in Nat
      <4>1. Seq(A) \subseteq Seq(S)
        BY <1>3, SeqWider
      <4>. QED
        BY <1>2, <1>5, <4>1 DEF Begins
    <3>1. h \in Seq(S) /\ Len(h) = 1 /\ h[1] = "/"
      BY <1>3
    <3>2. u \in Seq(S) /\ Len(u) = Len(r) + 1 /\ \A j \in 1 .. Len(r) + 1 : u[j] = in[j]
      BY <1>5, <3>0
    <3>. HIDE DEF h, u
    <3>3. /\ v \in Seq(S) /\ Len(v) = Len(h) + Len(r)
          /\ \A j \in 1 .. Len(h) + Len(r) : v[j] = IF j <= Len(h) THEN h[j] ELSE r[j - Len(h)]
      BY <3>0, <3>1, ConcatProperties
    <3>. HIDE DEF v
    <3>4. ASSUME NEW j \in 1 .. Len(u) PROVE u[j] = v[j]
      <4>0. j \in 1 .. Len(h) + Len(r) /\ j \in 1 .. Len(r) + 1
        BY <3>0, <3>1, <3>2
      <4>1. CASE j = 1
        BY <1>5, <3>0, <3>1, <3>2, <3>3, <4>0, <4>1 DEF Begins
      <4>2. CASE j # 1
        <5>1. ~(j <= Len(h)) /\ j - Len(h) = j - 1 /\ j - 1 \in 1 .. Len(r) /\ (j - 1) + 1 = j
          BY <3>0, <3>1, <4>0, <4>2
        <5>2. v[j] = r[j - 1]
          BY <3>3, <4>0, <5>1
        <5>3. in[(j - 1) + 1] = r[j - 1]
          BY <1>5, <5>1 DEF Begins
        <5>. QED
          BY <3>2, <4>0, <5>1, <5>2, <5>3
      <4>. QED
        BY <4>1, <4>2
    <3>5. Len(u) = Len(v)
      BY <3>0, <3>1, <3>2, <3>3
    <3>6. u = v
      BY <3>2, <3>3, <3>4, <3>5, SeqEqual
    <3>7. (Len(r) + 2) - 1 = Len(r) + 1
      BY <3>0
    <3>. QED
      BY <3>6, <3>7 DEF u, v, h
  <2>. QED
    BY <2>2, <2>3
<1>11. CASE r = <<>>
  <2>1. Len(r) = 0 /\ e = i + 2
    BY <1>1, <1>2, <1>11
  <2>2. e = n + 1
    <3>1. e <= n => c[i + 1] = "/" /\ i + 1 < n /\ c[(i + 1) + 1] = "/"
      <4>1. (i + 1) + 1 = i + 2
        BY <1>1
      <4>. QED
        BY <1>1, <1>2, <1>4, <2>1, <4>1
    <3>2. c[i + 1] = "/" /\ i + 1 < n => c[(i + 1) + 1] # "/"
      BY <1>3, <1>4 DEF OneSlash, n
    <3>. QED
      BY <1>2, <1>4, <3>1, <3>2
  <2>3. t.level = s.level + 1 /\ t.out = s.out \o (<<"/">> \o r)
        /\ t.in = SubSeq(in, Len(r) + 2, Len(in))
    BY <1>10, <1>11
  <2>4. t.in = <<>>
    <3>1. Len(in) = 1
      <4>1. e = n + 1 /\ e = i + 2 /\ Len(in) = n - (i + 1) + 1
        BY <1>5, <2>1, <2>2
      <4>2. n = i + 1
        BY <1>1, <1>4, <4>1
      <4>. QED
        BY <1>4, <4>1, <4>2
    <3>2. Len(r) + 2 = 2
      BY <2>1
    <3>3. t.in = SubSeq(in, 2, 1)
      BY <2>3, <3>1, <3>2
    <3>4. SubSeq(in, 2, 1) = <<>>
      BY <1>5
    <3>. QED
      BY <3>3, <3>4
  <2>5. Walk(p, r) = p
    BY <1>2, <1>11, WalkIs
  <2>6. Q[n] = p
    BY <1>2, <1>4, <2>2, <2>5
  <2>7. EndOfWalk(c, k) = <<"/">>
    <3>1. RawAt(c, k) = r /\ r \in Dots
      BY <1>2, <1>11, <2>2 DEF r, Dots
    <3>. QED
      BY <3>1 DEF EndOfWalk
  <2>8. t.out = Joined(p.names) \o <<"/">>
    <3>1. <<"/">> \o r = <<"/">>
      BY <1>11
    <3>. QED
      BY <1>1, <2>3, <3>1
  <2>9. Ended(t, c, Q, k)
    BY <1>1, <1>6, <2>3, <2>4, <2>6, <2>7, <2>8, SMTT(40) DEF Ended, n
  <2>. QED
    BY <2>9 DEF t
<1>12. CASE r \notin Dots
  <2>. DEFINE ns == Append(p.names, r)
  <2>0. r # <<".", ".">> /\ r # <<".">>
    BY <1>12 DEF Dots
  <2>1. t.level = s.level + 1 /\ t.out = s.out \o (<<"/">> \o r)
        /\ t.in = SubSeq(in, Len(r) + 2, Len(in))
    BY <1>10, <2>0
  <2>2. Walk(p, r) = [lost |-> FALSE, names |-> ns]
    BY <1>1, <1>2, <1>12, WalkIs
  <2>3. r \in Seq(S)
    <3>1. Seq(A) \subseteq Seq(S)
      BY <1>3, SeqWider
    <3>. QED
      BY <1>2, <3>1
  <2>4. Joined(ns) = Joined(p.names) \o (<<"/">> \o r)
    BY <1>3, <1>6, <2>3, JoinedAppend
  <2>5. Len(ns) = Len(p.names) + 1 /\ ns \in Seq(Seq(S))
    BY <1>6, <2>3
  <2>. HIDE DEF ns
  <2>a. Q[e - 1] = [lost |-> FALSE, names |-> ns]
    BY <1>2, <2>2
  <2>b. ~Q[e - 1].lost /\ Q[e - 1].names = ns
    BY <2>a
  <2>c. t.out = Joined(ns) /\ t.level = Len(ns)
    BY <1>1, <2>1, <2>4, <2>5
  <2>6. ~Q[e - 1].lost /\ t.out = Joined(Q[e - 1].names) /\ t.level = Len(Q[e - 1].names)
    BY <2>b, <2>c
  <2>7. CASE e = n + 1
    <3>1. t.in = <<>>
      <4>1. Len(in) < Len(r) + 2 /\ Len(r) \in Nat
        BY <1>1, <1>2, <1>4, <1>5, <2>7
      <4>. QED
        BY <1>5, <2>1, <4>1
    <3>2. e - 1 = n
      BY <1>4, <2>7
    <3>3. EndOfWalk(c, k) = <<>>
      <4>1. RawAt(c, k) = r
        BY <1>2, <2>7 DEF r
      <4>. QED
        BY <1>12, <4>1 DEF EndOfWalk
    <3>4. t.out \o <<>> = t.out
      <4>1. Joined(ns) \in Seq(S)
        BY <1>3, <2>5, JoinedIsSeq
      <4>2. t.out = Joined(ns)
        BY <1>1, <2>1, <2>4
      <4>. QED
        BY <4>1, <4>2
    <3>5. t.level >= 0
      BY <1>6, <2>1
    <3>6. Ended(t, c, Q, k)
      BY <2>6, <3>1, <3>2, <3>3, <3>4, <3>5 DEF Ended, n
    <3>. QED
      BY <3>6 DEF t
  <2>8. CASE e # n + 1
    <3>. DEFINE m == Len(r) + 2
                j == e - 1
    <3>1. e \in 1 .. n /\ c[e] = "/" /\ j \in i + 1 .. n - 1 /\ j + 1 = e
          /\ (i + 1) + m - 1 = e /\ m \in 1 .. n - (i + 1) + 2 /\ i + 1 \in 1 .. n + 1
      <4>1. e <= n
        BY <1>2, <1>4, <2>8
      <4>. QED
        BY <1>1, <1>2, <1>4, <4>1
    <3>. HIDE DEF m, j
    <3>2. From(From(c, i + 1), m) = From(c, (i + 1) + m - 1)
      BY <1>2, <3>1, FromFrom DEF n
    <3>3. t.in = From(c, j + 1)
      <4>1. t.in = From(in, m)
        BY <2>1 DEF From, m
      <4>. QED
        BY <1>1, <3>1, <3>2, <4>1
    <3>4. Before(t, c, Q, j)
      BY <1>4, <2>6, <3>1, <3>3 DEF Before, j, n
    <3>. QED
      BY <3>1, <3>4 DEF t, n
  <2>. QED
    BY <2>7, <2>8
<1>13. r \in Dots => r = <<>> \/ r = <<".">> \/ r = <<".", ".">>
  BY DEF Dots
<1>. QED
  BY <1>8, <1>9, <1>11, <1>12, <1>13

(* The slash that a last segment of dots leaves is put out by one more turn. *)
LEMMA TurnAtDots ==
    ASSUME NEW S, NEW c, NEW Q, NEW k, Walked(S, c, Q, k),
           NEW s \in DotStates(S), AtDots(s, c, Q, k)
    PROVE  Ended(DotStep(s), c, Q, k)
<1>. DEFINE h == <<"/">>
            p == Q[Len(c)]
            A == S \ {"/"}
            t == DotStep(s)
<1>1. s.in = h /\ RawAt(c, k) \in Dots /\ ~p.lost /\ s.out = Joined(p.names) /\ s.level = Len(p.names)
  BY DEF AtDots
<1>2. "/" \in S /\ c \in Seq(S) /\ Q \in [0 .. Len(c) -> Places(A)]
  BY DEF Walked, IsLayer
<1>3. s.level \in Nat
  <2>1. Len(c) \in 0 .. Len(c)
    BY <1>2
  <2>2. p \in Places(A)
    BY <1>2, <2>1
  <2>. HIDE DEF A, p
  <2>3. p.names \in Seq(Seq(A))
    BY <2>2 DEF Places
  <2>. QED
    BY <1>1, <2>3
<1>4. h \in Seq(S) /\ Len(h) = 1 /\ h[1] = "/" /\ h # <<>>
  BY <1>2
<1>. HIDE DEF h, p, A, t
<1>5. SubSeq(h, 2, 1) = <<>> /\ SubSeq(h, 1, 1) = h
  <2>1. SubSeq(h, 1, Len(h)) = h
    BY <1>4
  <2>2. SubSeq(h, 2, 1) = <<>>
    BY <1>4
  <2>. QED
    BY <1>4, <2>1, <2>2
<1>6. FindFirstOf(h, 2, {"/"}) = 2
  <2>. DEFINE f == 2
  <2>1. f \in Nat \ {0} /\ f <= f /\ f <= Len(h) + 1 /\ ~(f <= Len(h)) /\ f - 1 < f
    BY <1>4
  <2>2. \A j \in f .. f - 1 : h[j] \notin {"/"}
    OBVIOUS
  <2>. HIDE DEF f
  <2>3. FindFirstOf(h, f, {"/"}) = f
    BY <1>4, <2>1, <2>2, FoundAt
  <2>. QED
    BY <2>3 DEF f
<1>7. ~UpAt(h) /\ ~StayAt(h)
  BY <1>4 DEF UpAt, StayAt
<1>8. t = [in |-> SubSeq(h, 2, 1), out |-> s.out \o SubSeq(h, 1, 2 - 1), level |-> s.level + 1]
  <2>1. s.in # <<>> /\ s.level >= 0 /\ ~UpAt(s.in) /\ ~StayAt(s.in)
    BY <1>1, <1>3, <1>4, <1>7
  <2>2. LET move == FindFirstOf(s.in, 2, {"/"})
        IN  t = [in |-> SubSeq(s.in, move, Len(s.in)),
                 out |-> s.out \o SubSeq(s.in, 1, move - 1), level |-> s.level + 1]
    BY <2>1, TurnDown DEF t
  <2>. QED
    BY <1>1, <1>4, <1>6, <2>2
<1>9. t.in = <<>> /\ t.out = s.out \o h /\ t.level = s.level + 1
  <2>1. 2 - 1 = 1
    OBVIOUS
  <2>. QED
    BY <1>5, <1>8, <2>1
<1>10. t.level >= 0
  BY <1>3, <1>9
<1>11. EndOfWalk(c, k) = h
  BY <1>1 DEF EndOfWalk, h
<1>. QED
  BY <1>1, <1>9, <1>10, <1>11 DEF Ended, p, t

(* Where the loop is after n of its turns.                                  *)
Going(s, c, Q, k, n) ==
    \/ \E i \in n .. Len(c) - 1 : Before(s, c, Q, i)
    \/ AtDots(s, c, Q, k) /\ n <= Len(c)
    \/ Ended(s, c, Q, k)
    \/ Astray(s, c, Q)

LEMMA KeepsGoing ==
    ASSUME NEW S, NEW c, NEW Q, NEW k, Walked(S, c, Q, k),
           NEW s \in DotStates(S), NEW n \in Nat, Going(s, c, Q, k, n)
    PROVE  Going(DotStep(s), c, Q, k, n + 1)
<1>. DEFINE t == DotStep(s)
<1>0. Len(c) \in Nat
  BY DEF Walked, IsLayer
<1>1. ASSUME NEW i \in n .. Len(c) - 1, Before(s, c, Q, i)
      PROVE  Going(t, c, Q, k, n + 1)
  <2>1. \/ \E j \in i + 1 .. Len(c) - 1 : Before(t, c, Q, j)
        \/ AtDots(t, c, Q, k) \/ Ended(t, c, Q, k) \/ Astray(t, c, Q)
    BY <1>1, TurnFrom
  <2>2. n + 1 <= Len(c) /\ \A j \in i + 1 .. Len(c) - 1 : j \in n + 1 .. Len(c) - 1
    BY <1>0
  <2>. HIDE DEF t
  <2>. QED
    BY <2>1, <2>2 DEF Going
<1>2. ASSUME AtDots(s, c, Q, k) PROVE Going(t, c, Q, k, n + 1)
  BY <1>2, TurnAtDots DEF Going
<1>3. ASSUME Ended(s, c, Q, k) PROVE Going(t, c, Q, k, n + 1)
  <2>1. t = s
    BY <1>3, TurnOver DEF Ended
  <2>. QED
    BY <1>3, <2>1 DEF Going
<1>4. ASSUME Astray(s, c, Q) PROVE Going(t, c, Q, k, n + 1)
  <2>1. t = s
    BY <1>4, TurnOver DEF Astray
  <2>. QED
    BY <1>4, <2>1 DEF Going
<1>. QED
  BY <1>1, <1>2, <1>3, <1>4 DEF Going

LEMMA WalkedOut ==
    ASSUME NEW S, NEW c, NEW Q, NEW k, Walked(S, c, Q, k)
    PROVE  LET d == RemoveDotSegments(c)
           IN  d \in DotStates(S) /\ (Ended(d, c, Q, k) \/ Astray(d, c, Q))
<1>. DEFINE n == Len(c) + 1
            A == S \ {"/"}
<1>1. /\ "/" \in S /\ c \in Seq(S) /\ Len(c) \in Nat /\ 1 \in 1 .. Len(c) /\ c[1] = "/"
      /\ Q[0] = Root
  BY DEF Walked, IsLayer, OneSlash, IsWalk
<1>2. PICK g \in [0 .. n -> DotStates(S)] : DotRun(g, c, n) /\ RemoveDotSegments(c) = g[n]
  BY <1>1, DotsRun
<1>. DEFINE W == {i \in Nat : i \in 0 .. n => Going(g[i], c, Q, k, i)}
<1>3. 0 \in W
  <2>1. g[0] = [in |-> c, out |-> <<>>, level |-> 0]
    BY <1>2 DEF DotRun
  <2>2. g[0].in = From(c, 1)
    <3>1. SubSeq(c, 1, Len(c)) = c
      BY <1>1
    <3>. QED
      BY <2>1, <3>1 DEF From
  <2>3. ~Q[0].lost /\ g[0].out = Joined(Q[0].names) /\ g[0].level = Len(Q[0].names)
    <3>1. Q[0].lost = FALSE /\ Q[0].names = <<>>
      BY <1>1 DEF Root
    <3>2. Len(<<>>) = 0
      OBVIOUS
    <3>. QED
      BY <2>1, <3>1, <3>2, JoinedNone
  <2>4. Before(g[0], c, Q, 0)
    <3>1. 0 + 1 = 1 /\ 0 \in 0 .. Len(c) - 1
      BY <1>1
    <3>. QED
      BY <1>1, <2>2, <2>3, <3>1 DEF Before
  <2>5. Going(g[0], c, Q, k, 0)
    <3>1. 0 \in 0 .. Len(c) - 1
      BY <1>1
    <3>. QED
      BY <2>4, <3>1 DEF Going
  <2>. QED
    BY <2>5
<1>4. ASSUME NEW i \in Nat, i \in W PROVE i + 1 \in W
  <2>. SUFFICES ASSUME i + 1 \in 0 .. n PROVE Going(g[i + 1], c, Q, k, i + 1)
    OBVIOUS
  <2>1. i \in 0 .. n /\ i + 1 \in 1 .. n /\ (i + 1) - 1 = i
    BY <1>1
  <2>2. Going(g[i], c, Q, k, i)
    BY <1>4, <2>1
  <2>3. g[i + 1] = DotStep(g[i])
    BY <1>2, <2>1 DEF DotRun
  <2>4. g[i] \in DotStates(S)
    BY <1>2, <2>1
  <2>5. Going(DotStep(g[i]), c, Q, k, i + 1)
    BY <2>2, <2>4, KeepsGoing
  <2>. QED
    BY <2>3, <2>5
<1>. HIDE DEF W
<1>5. \A i \in Nat : i \in W
  BY <1>3, <1>4, Induction
<1>6. n \in Nat /\ n \in 0 .. n /\ ~(n <= Len(c)) /\ \A i \in n .. Len(c) - 1 : FALSE
  BY <1>1
<1>7. Going(g[n], c, Q, k, n)
  BY <1>5, <1>6 DEF W
<1>8. Ended(g[n], c, Q, k) \/ Astray(g[n], c, Q)
  <2>. HIDE DEF n
  <2>. QED
    BY <1>6, <1>7 DEF Going
<1>9. g[n] \in DotStates(S)
  BY <1>2, <1>6
<1>. QED
  BY <1>2, <1>8, <1>9

(* What Normalize_ makes of a path is where its segments lead.              *)
LEMMA PathResolves ==
    ASSUME NEW S, NEW p \in Seq(S), Escaped(p), 1 \in 1 .. Len(p), p[1] = "/", At(p, 2) # "/"
    PROVE  LET d == RemoveDotSegments(Spelled(p))
           IN  /\ d.level >= 0 <=> ~Resolution(p).lost
               /\ d.level >= 0 => Folded(d.out) = Folded(Resolved(p))
<1>. DEFINE c == Spelled(p)
            O == Octets(S)
            T == Uppers(O)
            A == O \ {"/"}
            B == T \ {"/"}
            last == Max({i \in DOMAIN p : p[i] = "/"})
            d == RemoveDotSegments(c)
            P == Resolution(p)
<1>1. /\ c \in Seq(T) /\ OneSlash(c) /\ P \in Places(A)
      /\ \E Q : IsLayer(T, c, B, Raws(c), Q) /\ FoldedPlace(P) = FoldedPlace(Q[Len(c)])
      /\ \E k : LastSlash(c, k) /\ (SegmentAt(p, last) \in Dots <=> RawAt(c, k) \in Dots)
  BY PathWalks
<1>0. p[1] \in S
  OBVIOUS
<1>. HIDE DEF c, O, P
<1>2. PICK Q : IsLayer(T, c, B, Raws(c), Q) /\ FoldedPlace(P) = FoldedPlace(Q[Len(c)])
  BY <1>1
<1>3. PICK k : LastSlash(c, k) /\ (SegmentAt(p, last) \in Dots <=> RawAt(c, k) \in Dots)
  BY <1>1
<1>4. "/" \in T /\ Len(c) \in 0 .. Len(c)
  <2>. HIDE DEF T
  <2>1. 1 \in 1 .. Len(c) /\ c[1] = "/"
    BY <1>1 DEF OneSlash
  <2>. QED
    BY <1>1, <2>1
<1>. HIDE DEF T, last
<1>5. Walked(T, c, Q, k)
  BY <1>1, <1>2, <1>3, <1>4 DEF Walked
<1>6. d \in DotStates(T) /\ (Ended(d, c, Q, k) \/ Astray(d, c, Q))
  BY <1>5, WalkedOut
<1>7. d.level \in Int
  BY <1>6 DEF DotStates
<1>. DEFINE q == Q[Len(c)]
<1>8. q \in Places(B)
  BY <1>2, <1>4 DEF IsLayer
<1>. HIDE DEF d, A, B, q
<1>9. P.lost = q.lost /\ FoldedNames(P.names) = FoldedNames(q.names)
  BY <1>2 DEF FoldedPlace, q
<1>10. d.level >= 0 <=> ~q.lost
  <2>1. d.level < 0 <=> ~(d.level >= 0)
    BY <1>7
  <2>. QED
    BY <1>6, <2>1 DEF Ended, Astray, q
<1>11. ASSUME d.level >= 0 PROVE Folded(d.out) = Folded(Resolved(p))
  <2>. DEFINE l == EndOfWalk(c, k)
              U == Seq(T)
              V == O \cup {"/"}
  <2>1. d.out = Joined(q.names) \o l
    <3>1. ~(d.level < 0)
      BY <1>7, <1>11
    <3>. QED
      BY <1>6, <3>1 DEF Ended, Astray, q
  <2>2. Resolved(p) = Joined(P.names) \o l
    <3>. DEFINE r == IF SegmentAt(p, last) \in Dots THEN <<"/">> ELSE <<>>
    <3>1. Resolved(p) = Joined(P.names) \o r
      BY Zenon DEF Resolved, P, last
    <3>2. r = l
      BY <1>3, Zenon DEF EndOfWalk
    <3>. QED
      BY <3>1, <3>2
  <2>3. l \in Seq(T) /\ l \in Seq(V)
    <3>1. l = <<"/">> \/ l = <<>>
      BY Zenon DEF EndOfWalk
    <3>2. "/" \in V
      OBVIOUS
    <3>. HIDE DEF l, V
    <3>3. <<"/">> \in Seq(T) /\ <<>> \in Seq(T) /\ <<"/">> \in Seq(V) /\ <<>> \in Seq(V)
      BY <1>4, <3>2
    <3>. QED
      BY <3>1, <3>3
  <2>4. q.names \in Seq(Seq(T))
    <3>1. q.names \in Seq(Seq(B))
      BY <1>8 DEF Places
    <3>2. B \subseteq T
      BY DEF B
    <3>3. Seq(B) \subseteq Seq(T)
      BY <3>2, SeqWider
    <3>. QED
      BY <3>1, <3>3, SeqWider
  <2>5. P.names \in Seq(Seq(V))
    <3>1. P.names \in Seq(Seq(A))
      BY <1>1 DEF Places
    <3>2. A \subseteq V
      BY DEF A
    <3>. HIDE DEF V
    <3>3. Seq(A) \subseteq Seq(V)
      BY <3>2, SeqWider
    <3>. QED
      BY <3>1, <3>3, SeqWider
  <2>6. "/" \in V
    OBVIOUS
  <2>. HIDE DEF l, V
  <2>7. Folded(Joined(P.names)) = Folded(Joined(q.names))
    BY <1>4, <1>9, <2>4, <2>5, <2>6, JoinedFolds
  <2>8. Joined(q.names) \in Seq(T) /\ Joined(P.names) \in Seq(V)
    BY <1>4, <2>4, <2>5, <2>6, JoinedIsSeq
  <2>9. Folded(d.out) = Folded(Joined(q.names)) \o Folded(l)
    BY <2>1, <2>3, <2>8, FoldedConcat
  <2>10. Folded(Resolved(p)) = Folded(Joined(P.names)) \o Folded(l)
    BY <2>2, <2>3, <2>8, FoldedConcat
  <2>. QED
    BY <2>7, <2>9, <2>10
<1>. QED
  BY <1>9, <1>10, <1>11 DEF d, c, P

-----------------------------------------------------------------------------
(* Paths are resolved.                                                      *)

(* What Validate_ asks of a part, asked of the word it was cut from.        *)
Fine(w, i, chars) == w[i] \in chars \/ IsEncodedOctet(w, i)
PathChars == Unreserved \cup {"=", "&", ":", "@", "/"}
QueryChars == Unreserved \cup {"=", "&", ":", "@", "/", "?"}

LEMMA AllowedWithin ==
    ASSUME NEW S, NEW w \in Seq(S), NEW a \in Nat \ {0}, NEW b \in Nat, b <= Len(w), a <= b + 1,
           At(w, b + 1) \notin Hex, NEW chars
    PROVE  Allowed(SubSeq(w, a, b), chars) <=> \A i \in a .. b : Fine(w, i, chars)
<1>. DEFINE u == SubSeq(w, a, b)
            n == b - a + 1
<1>0. n \in Nat /\ Len(w) \in Nat
  OBVIOUS
<1>1. u \in Seq(S) /\ Len(u) = n /\ \A j \in 1 .. n : u[j] = w[a + j - 1]
  OBVIOUS
<1>. HIDE DEF u, n
<1>2. "" \notin Hex
  BY DEF Hex, HexUpper
<1>3. \A j \in 1 .. n : At(u, j) = At(w, a + j - 1)
  <2>. SUFFICES ASSUME NEW j \in 1 .. n PROVE At(u, j) = At(w, a + j - 1)
    OBVIOUS
  <2>1. a + j - 1 \in 1 .. Len(w)
    BY <1>0 DEF n
  <2>2. At(w, a + j - 1) = w[a + j - 1]
    BY <2>1, Zenon DEF At
  <2>3. At(u, j) = u[j]
    BY <1>1, Zenon DEF At
  <2>4. u[j] = w[a + j - 1]
    BY <1>1
  <2>. QED
    BY <2>2, <2>3, <2>4, Zenon
<1>4. At(u, n + 1) = "" /\ At(u, n + 2) = ""
  <2>1. n + 1 \notin 1 .. Len(u) /\ n + 2 \notin 1 .. Len(u)
    BY <1>0, <1>1
  <2>. QED
    BY <2>1, Zenon DEF At
<1>5. ASSUME NEW j \in 1 .. n PROVE Fine(u, j, chars) <=> Fine(w, a + j - 1, chars)
  <2>1. u[j] = w[a + j - 1] /\ At(u, j) = At(w, a + j - 1)
    BY <1>1, <1>3
  <2>2. CASE j + 2 <= n
    <3>1. j + 1 \in 1 .. n /\ j + 2 \in 1 .. n /\ a + (j + 1) - 1 = (a + j - 1) + 1
          /\ a + (j + 2) - 1 = (a + j - 1) + 2
      BY <1>0, <2>2
    <3>2. At(u, j + 1) = At(w, (a + j - 1) + 1) /\ At(u, j + 2) = At(w, (a + j - 1) + 2)
      BY <1>3, <3>1
    <3>. QED
      BY <2>1, <3>2 DEF Fine, IsEncodedOctet
  <2>3. CASE j + 1 = n
    <3>1. j + 2 = n + 1 /\ (a + j - 1) + 2 = b + 1
      BY <1>0, <2>3 DEF n
    <3>2. ~IsEncodedOctet(u, j) /\ ~IsEncodedOctet(w, a + j - 1)
      BY <1>2, <1>4, <3>1 DEF IsEncodedOctet
    <3>. QED
      BY <2>1, <3>2 DEF Fine
  <2>4. CASE j = n
    <3>1. j + 1 = n + 1 /\ (a + j - 1) + 1 = b + 1
      BY <1>0, <2>4 DEF n
    <3>2. ~IsEncodedOctet(u, j) /\ ~IsEncodedOctet(w, a + j - 1)
      BY <1>2, <1>4, <3>1 DEF IsEncodedOctet
    <3>. QED
      BY <2>1, <3>2 DEF Fine
  <2>5. j + 2 <= n \/ j + 1 = n \/ j = n
    BY <1>0
  <2>. QED
    BY <2>2, <2>3, <2>4, <2>5
<1>6. Allowed(u, chars) <=> \A j \in 1 .. n : Fine(u, j, chars)
  BY <1>1, Zenon DEF Allowed, Fine
<1>7. \A i \in a .. b : i - a + 1 \in 1 .. n /\ a + (i - a + 1) - 1 = i
  BY DEF n
<1>8. \A j \in 1 .. n : a + j - 1 \in a .. b
  BY DEF n
<1>. QED
  BY <1>5, <1>6, <1>7, <1>8 DEF u

(* The path of a target in origin form, its query and its fragment.         *)
LEMMA OriginIs ==
    ASSUME NEW S, NEW w \in Seq(S), 1 \in 1 .. Len(w), w[1] = "/", SchemeMarks(w) = {}
    PROVE  LET t == Parts(w)
               e == FindFirstOf(w, 1, {"?", "#"})
               l == From(w, e)
               f == FindFirstOf(l, 2, {"#"})
           IN  /\ \A p \in {"scheme", "user", "host", "port"} : t[p] = {}
               /\ t.path = {SubSeq(w, 1, e - 1)}
               /\ At(l, 1) # "?" => t.query = {} /\ (t.fragment = {} <=> At(l, 1) # "#")
               /\ At(l, 1) = "?" => /\ t.query = {SubSeq(l, 2, f - 1)}
                                    /\ t.fragment = {} <=> At(From(l, f), 1) # "#"
<1>. DEFINE T == Lowers(S)
            o == Whole(w)
            a == ParsePath(o)
            b == ParseQuery(a)
            c == ParseFragment(b)
            e == FindFirstOf(w, 1, {"?", "#"})
            l == From(w, e)
            f == FindFirstOf(l, 2, {"#"})
<1>1. /\ Wide(S, T) /\ Open(S, T, o) /\ o.left = w /\ \A p \in PartNames : o[p] = {}
  BY WholeIs
<1>2. Parts(w) = c
  BY OriginParts DEF PathOn
<1>3. At(w, 1) = "/"
  BY DEF At
<1>. HIDE DEF T, o
<1>4. Open(S, T, a) /\ Keeps(a, o, "path")
  BY <1>1, PathIs
<1>5. a.left = l /\ a.path = {SubSeq(w, 1, e - 1)}
  BY <1>1, <1>3, PathIs
<1>. HIDE DEF a
<1>6. Open(S, T, b) /\ Keeps(b, a, "query")
  BY <1>1, <1>4, QueryIs
<1>7. At(l, 1) # "?" => b = a
  BY <1>1, <1>4, <1>5, QueryIs
<1>8. At(l, 1) = "?" => b.left = From(l, f) /\ b.query = {SubSeq(l, 2, f - 1)}
  <2>. SUFFICES ASSUME At(l, 1) = "?" PROVE b.left = From(l, f) /\ b.query = {SubSeq(l, 2, f - 1)}
    OBVIOUS
  <2>. HIDE DEF l
  <2>1. LET m == FindFirstOf(a.left, 2, {"#"})
        IN  b.left = From(a.left, m) /\ b.query = {SubSeq(a.left, 2, m - 1)}
    BY <1>1, <1>4, <1>5, QueryIs
  <2>. QED
    BY <1>5, <2>1
<1>. HIDE DEF b, l, f, e
<1>9. Open(S, T, c) /\ Keeps(c, b, "fragment")
  BY <1>1, <1>6, FragmentIs
<1>10. At(b.left, 1) # "#" => c = b
  BY <1>1, <1>6, FragmentIs
<1>11. At(b.left, 1) = "#" => c.fragment # {}
  BY <1>1, <1>6, FragmentIs, ZenonT(40)
<1>. HIDE DEF c
<1>12. \A p \in {"scheme", "user", "host", "port"} : c[p] = {}
  BY <1>1, <1>4, <1>6, <1>9 DEF Keeps, PartNames
<1>13. c.path = {SubSeq(w, 1, e - 1)} /\ c.query = b.query /\ b.fragment = {} /\ a.query = {}
  BY <1>1, <1>4, <1>5, <1>6, <1>9 DEF Keeps, PartNames
<1>14. At(l, 1) # "?" => c.query = {} /\ (c.fragment = {} <=> At(l, 1) # "#")
  BY <1>5, <1>7, <1>10, <1>11, <1>13
<1>15. At(l, 1) = "?" => c.query = {SubSeq(l, 2, f - 1)} /\ (c.fragment = {} <=> At(From(l, f), 1) # "#")
  BY <1>8, <1>10, <1>11, <1>13
<1>. QED
  BY <1>2, <1>12, <1>13, <1>14, <1>15 DEF e, l, f

LEMMA FineIs ==
    ASSUME NEW w, NEW i \in 1 .. Len(w)
    PROVE  /\ w[i] = "#" => ~Fine(w, i, QueryChars)
           /\ w[i] = "?" => Fine(w, i, QueryChars)
           /\ w[i] # "?" => (Fine(w, i, PathChars) <=> Fine(w, i, QueryChars))
<1>1. At(w, i) = w[i]
  BY Zenon DEF At
<1>2. "#" \notin QueryChars
  BY DEF QueryChars, Unreserved, Hex, HexUpper, Letters
<1>3. "?" \in QueryChars /\ \A c : c # "?" => (c \in PathChars <=> c \in QueryChars)
  BY DEF QueryChars, PathChars
<1>4. w[i] = "#" => ~IsEncodedOctet(w, i)
  BY <1>1 DEF IsEncodedOctet
<1>. QED
  BY <1>2, <1>3, <1>4 DEF Fine

(* What Validate_ lets pass in origin form is what is well-formed.          *)
LEMMA OriginValid ==
    ASSUME NEW S, NEW w \in Seq(S), 1 \in 1 .. Len(w), w[1] = "/", SchemeMarks(w) = {},
           Len(w) <= LengthLimit
    PROVE  Validate(Parts(w)) <=> WellFormed(w)
<1>. DEFINE t == Parts(w)
            e == FindFirstOf(w, 1, {"?", "#"})
            l == From(w, e)
            f == FindFirstOf(l, 2, {"#"})
            p == SubSeq(w, 1, e - 1)
            n == Len(w)
            Good(a, b) == \A i \in a .. b : Fine(w, i, QueryChars)
<1>1. /\ \A x \in {"scheme", "user", "host", "port"} : t[x] = {}
      /\ t.path = {p}
      /\ At(l, 1) # "?" => t.query = {} /\ (t.fragment = {} <=> At(l, 1) # "#")
      /\ At(l, 1) = "?" => /\ t.query = {SubSeq(l, 2, f - 1)}
                           /\ t.fragment = {} <=> At(From(l, f), 1) # "#"
  BY OriginIs
<1>0. n \in Nat \ {0}
  OBVIOUS
<1>2. /\ e \in 2 .. n + 1 /\ (e <= n => w[e] \in {"?", "#"})
      /\ \A j \in 1 .. e - 1 : w[j] # "?" /\ w[j] # "#"
  <2>. DEFINE C == {"?", "#"}
              i == 1
              g == FindFirstOf(w, i, C)
  <2>0. i \in Nat \ {0} /\ i <= n + 1 /\ "/" \notin C
    BY <1>0
  <2>. HIDE DEF C, i
  <2>1. /\ FindFirstOf(w, i, C) \in 1 .. Len(w) + 1
        /\ i <= Len(w) + 1 => i <= FindFirstOf(w, i, C)
        /\ FindFirstOf(w, i, C) <= Len(w) => w[FindFirstOf(w, i, C)] \in C
        /\ \A j \in i .. FindFirstOf(w, i, C) - 1 : j \in 1 .. Len(w) => w[j] \notin C
    BY <2>0, FindIs
  <2>. HIDE DEF g
  <2>2. g \in 1 .. n + 1 /\ (g <= n => w[g] \in C) /\ \A j \in i .. g - 1 : j \in 1 .. n => w[j] \notin C
    BY <2>1 DEF g
  <2>. HIDE DEF n
  <2>3. g # 1
    BY <1>0, <2>0, <2>2
  <2>4. g \in 2 .. n + 1 /\ \A j \in i .. g - 1 : j \in 1 .. n
    BY <1>0, <2>2, <2>3 DEF i
  <2>5. \A j \in i .. g - 1 : w[j] \notin C
    BY <2>2, <2>4
  <2>6. g = e
    BY DEF g, i, C
  <2>. QED
    BY <2>2, <2>4, <2>5, <2>6 DEF C, i
<1>. HIDE DEF e, n
<1>3. l \in Seq(S) /\ Len(l) = n - e + 1 /\ \A j \in 1 .. n - e + 1 : l[j] = w[e + j - 1]
  <2>1. e \in 1 .. Len(w) + 1
    BY <1>0, <1>2 DEF n
  <2>. QED
    BY <2>1, FromIs DEF n
<1>4. At(l, 1) = At(w, e)
  <2>1. CASE e = n + 1
    <3>1. 1 \notin 1 .. Len(l) /\ e \notin 1 .. Len(w)
      BY <1>0, <1>3, <2>1 DEF n
    <3>. QED
      BY <3>1, Zenon DEF At
  <2>2. CASE e # n + 1
    <3>1. 1 \in 1 .. n - e + 1 /\ e + 1 - 1 = e /\ 1 \in 1 .. Len(l) /\ e \in 1 .. Len(w)
      BY <1>0, <1>2, <1>3, <2>2 DEF n
    <3>2. l[1] = w[e]
      BY <1>3, <3>1
    <3>. QED
      BY <3>1, <3>2, Zenon DEF At
  <2>. QED
    BY <2>1, <2>2
<1>5. (e = n + 1 /\ At(w, e) = "") \/ (e \in 2 .. n /\ w[e] = "?" /\ At(w, e) = "?")
      \/ (e \in 2 .. n /\ w[e] = "#" /\ At(w, e) = "#")
  <2>1. CASE e = n + 1
    <3>1. e \notin 1 .. Len(w)
      BY <1>0, <2>1 DEF n
    <3>. QED
      BY <2>1, <3>1 DEF At
  <2>2. CASE e # n + 1
    <3>1. e \in 2 .. n /\ e \in 1 .. Len(w) /\ e <= n
      BY <1>0, <1>2, <2>2 DEF n
    <3>2. At(w, e) = w[e]
      BY <3>1, Zenon DEF At
    <3>. QED
      BY <1>2, <3>1, <3>2
  <2>. QED
    BY <2>1, <2>2
<1>6. "" \notin Hex /\ At(w, e) \notin Hex
  BY <1>5 DEF Hex, HexUpper
<1>. HIDE DEF l, f, t
<1>7. Allowed(p, PathChars) <=> Good(1, e - 1)
  <2>. DEFINE b == e - 1
              a == 1
  <2>1. a \in Nat \ {0} /\ b \in Nat /\ b <= Len(w) /\ a <= b + 1 /\ b + 1 = e
    BY <1>0, <1>2 DEF n
  <2>2. At(w, b + 1) \notin Hex
    BY <1>6, <2>1
  <2>. HIDE DEF b, a
  <2>3. Allowed(SubSeq(w, a, b), PathChars) <=> \A i \in a .. b : Fine(w, i, PathChars)
    BY <2>1, <2>2, AllowedWithin
  <2>4. \A i \in a .. b : i \in 1 .. Len(w) /\ w[i] # "?"
    BY <1>2, <2>1 DEF a, b
  <2>5. \A i \in a .. b : Fine(w, i, PathChars) <=> Fine(w, i, QueryChars)
    BY <2>4, FineIs
  <2>. QED
    BY <2>3, <2>5 DEF a, b
<1>8. At(p, 2) = "/" <=> At(w, 2) = "/"
  <2>1. Len(p) = e - 1 /\ \A j \in 1 .. e - 1 : p[j] = w[j]
    BY <1>0, <1>2 DEF n
  <2>. HIDE DEF p
  <2>2. CASE e = 2
    <3>1. 2 \notin 1 .. Len(p)
      BY <2>1, <2>2
    <3>2. At(p, 2) = ""
      BY <3>1, Zenon DEF At
    <3>. QED
      BY <1>5, <2>2, <3>2
  <2>3. CASE e # 2
    <3>1. 2 \in 1 .. e - 1 /\ 2 \in 1 .. Len(p) /\ 2 \in 1 .. Len(w)
      BY <1>0, <1>2, <2>1, <2>3 DEF n
    <3>2. At(p, 2) = p[2] /\ At(w, 2) = w[2]
      BY <3>1, Zenon DEF At
    <3>. QED
      BY <2>1, <3>1, <3>2
  <2>. QED
    BY <2>2, <2>3
<1>9. WellFormed(w) <=> At(w, 2) # "/" /\ Good(1, n)
  <2>1. \A i \in 1 .. n : At(w, i) = w[i]
    BY Zenon DEF At, n
  <2>2. \A i \in 1 .. n : Fine(w, i, QueryChars) <=>
          \/ w[i] \in Unreserved \cup {"=", "&", ":", "@", "/", "?"}
          \/ w[i] = "%" /\ {At(w, i + 1), At(w, i + 2)} \subseteq Hex
    BY <2>1 DEF Fine, QueryChars, IsEncodedOctet
  <2>. QED
    BY <2>2 DEF WellFormed, n
<1>. HIDE DEF p
<1>10. Validate(t) <=> /\ t.fragment = {} /\ At(w, 2) # "/" /\ Good(1, e - 1)
                       /\ \A q \in t.query : Allowed(q, QueryChars)
  <2>1. t.scheme = {} /\ t.user = {} /\ t.host = {} /\ t.port = {}
    BY <1>1
  <2>2. ValidatePath(p) <=> At(w, 2) # "/" /\ Good(1, e - 1)
    BY <1>7, <1>8 DEF ValidatePath, PathChars
  <2>3. \A q \in t.query : ValidateQuery(q) <=> Allowed(q, QueryChars)
    BY DEF ValidateQuery, QueryChars
  <2>4. t.path = {p}
    BY <1>1
  <2>. QED
    BY <2>1, <2>2, <2>3, <2>4 DEF Validate
<1>11. \A i \in 1 .. n : /\ w[i] = "#" => ~Fine(w, i, QueryChars)
                         /\ w[i] = "?" => Fine(w, i, QueryChars)
  BY FineIs DEF n
<1>12. CASE e = n + 1
  <2>a. e \notin 2 .. n
    BY <1>0, <1>12
  <2>1. At(l, 1) = ""
    BY <1>4, <1>5, <2>a, Zenon
  <2>2. t.query = {} /\ t.fragment = {}
    BY <1>1, <2>1
  <2>3. e - 1 = n
    BY <1>0, <1>12
  <2>. QED
    BY <1>9, <1>10, <2>2, <2>3 DEF t
<1>13. CASE e \in 2 .. n /\ w[e] = "#" /\ At(w, e) = "#"
  <2>1. t.fragment # {}
    BY <1>1, <1>4, <1>13
  <2>2. e \in 1 .. n
    BY <1>0, <1>13
  <2>3. ~Good(1, n)
    BY <1>11, <1>13, <2>2
  <2>. QED
    BY <1>9, <1>10, <2>1, <2>3 DEF t
<1>14. CASE e \in 2 .. n /\ w[e] = "?" /\ At(w, e) = "?"
  <2>0. e \in Nat /\ Len(l) \in Nat \ {0} /\ n = e + Len(l) - 1
    BY <1>0, <1>3, <1>14
  <2>1. t.query = {SubSeq(l, 2, f - 1)} /\ (t.fragment = {} <=> At(From(l, f), 1) # "#")
    BY <1>1, <1>4, <1>14
  <2>2. f \in 2 .. Len(l) + 1 /\ (f <= Len(l) => l[f] = "#")
    <3>. DEFINE i == 2
                C == {"#"}
    <3>1. i \in Nat \ {0} /\ i <= Len(l) + 1
      BY <2>0
    <3>. HIDE DEF i, C
    <3>2. /\ FindFirstOf(l, i, C) \in 1 .. Len(l) + 1
          /\ i <= Len(l) + 1 => i <= FindFirstOf(l, i, C)
          /\ FindFirstOf(l, i, C) <= Len(l) => l[FindFirstOf(l, i, C)] \in C
      BY <1>3, <3>1, FindIs
    <3>3. FindFirstOf(l, i, C) = f
      BY DEF f, i, C
    <3>4. f \in 1 .. Len(l) + 1 /\ i <= f /\ (f <= Len(l) => l[f] \in C)
      BY <3>1, <3>2, <3>3
    <3>. QED
      BY <2>0, <3>4 DEF i, C
  <2>3. From(l, f) \in Seq(S) /\ Len(From(l, f)) = Len(l) - f + 1
        /\ \A j \in 1 .. Len(l) - f + 1 : From(l, f)[j] = l[f + j - 1]
    <3>1. f \in 1 .. Len(l) + 1
      BY <2>0, <2>2
    <3>. QED
      BY <1>3, <3>1, FromIs, ZenonT(40)
  <2>4. CASE f = Len(l) + 1
    <3>1. t.fragment = {}
      <4>1. 1 \notin 1 .. Len(From(l, f))
        BY <2>0, <2>3, <2>4
      <4>2. At(From(l, f), 1) = ""
        BY <4>1, Zenon DEF At
      <4>. QED
        BY <2>1, <4>2
    <3>2. SubSeq(l, 2, f - 1) = SubSeq(w, e + 1, n)
      <4>. DEFINE j == 2
      <4>1. /\ e \in 1 .. Len(w) + 1 /\ j \in 1 .. Len(w) - e + 2 /\ e + j - 1 = e + 1
            /\ f - 1 = Len(l)
        BY <1>0, <1>14, <2>0, <2>4 DEF n
      <4>. HIDE DEF j
      <4>2. From(From(w, e), j) = From(w, e + j - 1)
        BY <4>1, FromFrom
      <4>3. From(l, j) = SubSeq(l, 2, f - 1)
        BY <4>1 DEF From, j
      <4>4. From(w, e + 1) = SubSeq(w, e + 1, n)
        BY DEF From, n
      <4>. QED
        BY <4>1, <4>2, <4>3, <4>4 DEF l
    <3>3. Allowed(SubSeq(w, e + 1, n), QueryChars) <=> Good(e + 1, n)
      <4>. DEFINE a == e + 1
      <4>1. a \in Nat \ {0} /\ n \in Nat /\ n <= Len(w) /\ a <= n + 1
        BY <1>0, <1>14, <2>0 DEF n
      <4>2. At(w, n + 1) \notin Hex
        <5>1. n + 1 \notin 1 .. Len(w)
          BY <1>0 DEF n
        <5>2. At(w, n + 1) = ""
          BY <5>1, Zenon DEF At
        <5>. QED
          BY <1>6, <5>2
      <4>. HIDE DEF a
      <4>3. Allowed(SubSeq(w, a, n), QueryChars) <=> \A i \in a .. n : Fine(w, i, QueryChars)
        BY <4>1, <4>2, AllowedWithin
      <4>. QED
        BY <4>3 DEF a
    <3>4. Good(1, n) <=> Good(1, e - 1) /\ Good(e + 1, n)
      <4>1. \A i \in 1 .. n : i \in 1 .. e - 1 \/ i = e \/ i \in e + 1 .. n
        BY <1>0, <2>0
      <4>2. /\ \A i \in 1 .. e - 1 : i \in 1 .. n
            /\ \A i \in e + 1 .. n : i \in 1 .. n
            /\ e \in 1 .. n
        BY <1>0, <1>14, <2>0
      <4>3. Fine(w, e, QueryChars)
        BY <1>11, <1>14, <4>2
      <4>. QED
        BY <4>1, <4>2, <4>3
    <3>. QED
      BY <1>9, <1>10, <2>1, <3>1, <3>2, <3>3, <3>4 DEF t
  <2>5. CASE f # Len(l) + 1
    <3>1. f \in 2 .. Len(l) /\ l[f] = "#"
      BY <2>0, <2>2, <2>5
    <3>2. t.fragment # {}
      <4>1. 1 \in 1 .. Len(l) - f + 1 /\ 1 \in 1 .. Len(From(l, f)) /\ f + 1 - 1 = f
        BY <2>0, <2>3, <3>1
      <4>2. At(From(l, f), 1) = From(l, f)[1]
        BY <4>1, Zenon DEF At
      <4>3. From(l, f)[1] = l[f]
        BY <2>3, <4>1
      <4>. QED
        BY <2>1, <3>1, <4>2, <4>3
    <3>3. ~Good(1, n)
      <4>1. e + f - 1 \in 1 .. n /\ f \in 1 .. n - e + 1
        BY <1>0, <1>14, <2>0, <3>1
      <4>2. w[e + f - 1] = "#"
        BY <1>3, <3>1, <4>1
      <4>. QED
        BY <1>11, <4>1, <4>2
    <3>. QED
      BY <1>9, <1>10, <3>2, <3>3 DEF t
  <2>. QED
    BY <2>4, <2>5
<1>. QED
  BY <1>5, <1>12, <1>13, <1>14

LEMMA PathsResolve ==
    ASSUME NEW S, word \in Seq(S)
    PROVE  PathsAreResolved
<1>. DEFINE w == word
            e == FindFirstOf(w, 1, {"?", "#"})
            p == SubSeq(w, 1, e - 1)
            d == RemoveDotSegments(Spelled(p))
            t == Parts(w)
<1>. SUFFICES ASSUME At(w, 1) = "/", SchemeMarks(w) = {}
              PROVE  /\ TargetCode(w) = 200 <=> WellFormed(w) /\ ~Resolution(p).lost
                     /\ TargetCode(w) = 200 => Folded(Target(w).path) = Folded(Resolved(p))
  BY Zenon DEF PathsAreResolved
<1>1. 1 \in 1 .. Len(w) /\ w[1] = "/"
  BY DEF At
<1>2. TargetCode(w) = 200 <=> Len(w) <= LengthLimit /\ Validate(t) /\ Normal(t).good
  BY GoodIs
<1>3. WellFormed(w) => Len(w) <= LengthLimit
  BY DEF WellFormed
<1>4. Len(w) <= LengthLimit => (Validate(t) <=> WellFormed(w))
  BY <1>1, OriginValid
<1>5. t.path = {p}
  BY <1>1, OriginIs
<1>6. Normal(t).good <=> d.level >= 0
  <2>1. (CHOOSE x \in t.path : TRUE) = p
    BY <1>5
  <2>. QED
    BY <2>1 DEF Normal, Spelled
<1>7. Normal(t).path = d.out
  <2>1. (CHOOSE x \in t.path : TRUE) = p
    BY <1>5
  <2>. QED
    BY <2>1 DEF Normal, Spelled
<1>8. ASSUME Len(w) <= LengthLimit, Validate(t)
      PROVE  /\ d.level >= 0 <=> ~Resolution(p).lost
             /\ d.level >= 0 => Folded(d.out) = Folded(Resolved(p))
             /\ Target(w) = Normal(t)
  <2>1. e \in 2 .. Len(w) + 1
    <3>. DEFINE C == {"?", "#"}
                i == 1
    <3>0. i \in Nat \ {0} /\ "/" \notin C /\ Len(w) \in Nat
      OBVIOUS
    <3>. HIDE DEF C, i
    <3>1. FindFirstOf(w, i, C) \in 1 .. Len(w) + 1
          /\ (FindFirstOf(w, i, C) <= Len(w) => w[FindFirstOf(w, i, C)] \in C)
      BY <3>0, FindIs
    <3>2. FindFirstOf(w, i, C) = e
      BY DEF C, i
    <3>. HIDE DEF e
    <3>3. e \in 1 .. Len(w) + 1 /\ (e <= Len(w) => w[e] \in C)
      BY <3>1, <3>2
    <3>4. e # 1
      BY <1>1, <3>0, <3>3
    <3>. QED
      BY <3>0, <3>3, <3>4
  <2>2. p \in Seq(S) /\ Len(p) = e - 1 /\ \A j \in 1 .. e - 1 : p[j] = w[j]
    <3>. HIDE DEF e
    <3>. QED
      BY <2>1
  <2>. HIDE DEF p, e
  <2>3. 1 \in 1 .. Len(p) /\ p[1] = "/"
    BY <1>1, <2>1, <2>2
  <2>4. ValidatePath(p)
    BY <1>5, <1>8 DEF Validate
  <2>5. Escaped(p)
    BY <2>2, <2>4, PathIsEscaped
  <2>6. At(p, 2) # "/"
    BY <2>4 DEF ValidatePath
  <2>7. LET z == RemoveDotSegments(Spelled(p))
        IN  /\ z.level >= 0 <=> ~Resolution(p).lost
            /\ z.level >= 0 => Folded(z.out) = Folded(Resolved(p))
    BY <2>2, <2>3, <2>5, <2>6, PathResolves
  <2>8. Target(w) = Normal(t)
    <3>1. ~(Len(w) > LengthLimit)
      <4>1. Len(w) \in Nat /\ LengthLimit \in Nat
        BY TargetAssumption DEF TargetAssumption
      <4>. QED
        BY <1>8, <4>1
    <3>. QED
      BY <1>8, <3>1 DEF Target
  <2>. QED
    BY <2>7, <2>8
<1>. HIDE DEF w, p, d, t
<1>. QED
  BY <1>2, <1>3, <1>4, <1>6, <1>7, <1>8

(* A target in origin form is refused exactly when it is malformed or its   *)
(* dots climb out of the root; else it is served as where its segments lead.*)
THEOREM PathsLeadWhereTheySay == TgSpec => []PathsAreResolved
<1>1. IsText => PathsAreResolved
  BY PathsResolve DEF IsText
<1>. QED
  BY <1>1, TextAlways, PTL

-----------------------------------------------------------------------------
(* The configuration file.                                                  *)

LEMMA FlattenAppend ==
    ASSUME NEW S, NEW f \in Seq(Seq(S)), NEW e \in Seq(S)
    PROVE  FlattenSeq(Append(f, e)) = FlattenSeq(f) \o e
<1>. DEFINE g == Append(f, e)
            n == Len(f)
            h == SubSeq(g, 1, n)
<1>1. n \in Nat /\ g \in Seq(Seq(S)) /\ Len(g) = n + 1 /\ g[n + 1] = e
      /\ \A i \in 1 .. n : g[i] = f[i]
  OBVIOUS
<1>. HIDE DEF g
<1>2. h \in Seq(Seq(S)) /\ Len(h) = n /\ \A i \in 1 .. n : h[i] = g[i]
  BY <1>1
<1>. HIDE DEF h
<1>3. h = f
  BY <1>1, <1>2, SameSeq
<1>4. FirstOf(g, n) = FlattenSeq(f)
  BY <1>3 DEF FirstOf, h
<1>5. /\ FirstOf(g, Len(g)) = FlattenSeq(g)
      /\ \A i \in 0 .. Len(g) - 1 : FirstOf(g, i + 1) = FirstOf(g, i) \o g[i + 1]
  BY <1>1, FirstOfSteps
<1>6. n \in 0 .. Len(g) - 1
  BY <1>1
<1>7. FlattenSeq(g) = FirstOf(g, n) \o g[n + 1]
  BY <1>1, <1>5, <1>6
<1>. QED
  BY <1>1, <1>4, <1>7 DEF g

(* Two sequences of sequences of the same shape: what is true of elements   *)
(* at the same place is true of the concatenations.                         *)
LEMMA FlattenPairs ==
    ASSUME NEW S, NEW T, NEW R, NEW a \in Seq(Seq(S)), NEW b \in Seq(Seq(T)), Len(a) = Len(b),
           \A i \in 1 .. Len(a) : /\ Len(a[i]) = Len(b[i])
                                  /\ \A k \in 1 .. Len(a[i]) : <<a[i][k], b[i][k]>> \in R
    PROVE  /\ Len(FlattenSeq(a)) = Len(FlattenSeq(b))
           /\ \A k \in 1 .. Len(FlattenSeq(a)) : <<FlattenSeq(a)[k], FlattenSeq(b)[k]>> \in R
<1>. DEFINE n == Len(a)
            Alike(u, v) == Len(u) = Len(v) /\ \A k \in 1 .. Len(u) : <<u[k], v[k]>> \in R
            W == {i \in Nat : i <= n => Alike(FirstOf(a, i), FirstOf(b, i))}
<1>0. n \in Nat /\ Len(b) = n
  OBVIOUS
<1>1. /\ FirstOf(a, 0) = <<>> /\ FirstOf(a, n) = FlattenSeq(a)
      /\ \A i \in 0 .. n - 1 : FirstOf(a, i + 1) = FirstOf(a, i) \o a[i + 1]
      /\ \A i \in 0 .. n : FirstOf(a, i) \in Seq(S)
  BY FirstOfSteps, FirstOfType
<1>2. /\ FirstOf(b, 0) = <<>> /\ FirstOf(b, n) = FlattenSeq(b)
      /\ \A i \in 0 .. n - 1 : FirstOf(b, i + 1) = FirstOf(b, i) \o b[i + 1]
      /\ \A i \in 0 .. n : FirstOf(b, i) \in Seq(T)
  BY <1>0, FirstOfSteps, FirstOfType
<1>3. 0 \in W
  <2>1. Len(<<>>) = 0 /\ 1 .. 0 = {}
    OBVIOUS
  <2>. QED
    BY <1>1, <1>2, <2>1
<1>4. ASSUME NEW i \in Nat, i \in W PROVE i + 1 \in W
  <2>. SUFFICES ASSUME i + 1 <= n PROVE Alike(FirstOf(a, i + 1), FirstOf(b, i + 1))
    OBVIOUS
  <2>1. i \in 0 .. n /\ i \in 0 .. n - 1 /\ i <= n /\ i + 1 \in 1 .. n
    BY <1>0
  <2>. DEFINE u == FirstOf(a, i)
              v == FirstOf(b, i)
              x == a[i + 1]
              y == b[i + 1]
  <2>2. Alike(u, v)
    BY <1>4, <2>1
  <2>3. u \in Seq(S) /\ v \in Seq(T) /\ x \in Seq(S) /\ y \in Seq(T)
    BY <1>0, <1>1, <1>2, <2>1
  <2>4. Alike(x, y)
    BY <2>1
  <2>5. FirstOf(a, i + 1) = u \o x /\ FirstOf(b, i + 1) = v \o y
    BY <1>1, <1>2, <2>1
  <2>. HIDE DEF u, v, x, y
  <2>6. Alike(u \o x, v \o y)
    <3>0. Len(v) = Len(u) /\ Len(y) = Len(x)
      BY <2>2, <2>4, Zenon
    <3>1. Len(u) \in Nat /\ Len(x) \in Nat /\ Len(v) = Len(u) /\ Len(y) = Len(x)
      BY <2>3, <3>0
    <3>2. Len(u \o x) = Len(u) + Len(x) /\ Len(v \o y) = Len(u) + Len(x)
      <4>1. Len(u \o x) = Len(u) + Len(x)
        BY <2>3, ConcatLen
      <4>2. Len(v \o y) = Len(v) + Len(y)
        BY <2>3, ConcatLen
      <4>. QED
        BY <3>1, <4>1, <4>2, Zenon
    <3>3. ASSUME NEW k \in 1 .. Len(u) + Len(x) PROVE <<(u \o x)[k], (v \o y)[k]>> \in R
      <4>1. CASE k <= Len(u)
        <5>1. (u \o x)[k] = u[k] /\ (v \o y)[k] = v[k] /\ k \in 1 .. Len(u)
          BY <2>3, <3>1, <4>1
        <5>. QED
          BY <2>2, <5>1
      <4>2. CASE k > Len(u)
        <5>1. (u \o x)[k] = x[k - Len(u)] /\ (v \o y)[k] = y[k - Len(u)]
              /\ k - Len(u) \in 1 .. Len(x)
          BY <2>3, <3>1, <4>2, SMTT(40)
        <5>. QED
          BY <2>4, <5>1
      <4>3. k <= Len(u) \/ k > Len(u)
        BY <3>1
      <4>. QED
        BY <4>1, <4>2, <4>3, Zenon
    <3>. QED
      BY <3>2, <3>3
  <2>. QED
    BY <2>5, <2>6
<1>. HIDE DEF W
<1>5. \A i \in Nat : i \in W
  BY <1>3, <1>4, Induction
<1>6. Alike(FirstOf(a, n), FirstOf(b, n))
  BY <1>0, <1>5 DEF W
<1>. QED
  BY <1>1, <1>2, <1>6

(* Trees of blocks, and the values of the locations in each of them, in the *)
(* order in which their lines are read.                                     *)
Fields == {"level", "descr", "settings", "nested"}
IsForest(B) == \A b \in B : DOMAIN b = Fields /\ b.nested \in Seq(B)

HeadOf(b) == IF b.level = "location" THEN <<b.descr>> ELSE <<>>
Under(F, s) == FlattenSeq([i \in DOMAIN s |-> F[s[i]]])
IsListed(B, F, V) ==
    /\ F \in [B -> Seq(V)]
    /\ \A b \in B : HeadOf(b) \in Seq(V) /\ F[b] = HeadOf(b) \o Under(F, b.nested)

(* A forest in which the locations in and under s are called names.         *)
Calls(B, F, V, s, names) ==
    IsForest(B) /\ IsListed(B, F, V) /\ s \in Seq(B) /\ Under(F, s) = names

LEMMA AppendIs ==
    ASSUME NEW S, NEW s \in Seq(S), NEW x \in S
    PROVE  /\ Append(s, x) \in Seq(S) /\ Len(Append(s, x)) = Len(s) + 1
           /\ Append(s, x)[Len(s) + 1] = x /\ \A i \in 1 .. Len(s) : Append(s, x)[i] = s[i]
OBVIOUS

LEMMA UnderIs ==
    ASSUME NEW B, NEW V, NEW F \in [B -> Seq(V)], NEW s \in Seq(B)
    PROVE  Under(F, s) \in Seq(V)
<1>. DEFINE f == [i \in DOMAIN s |-> F[s[i]]]
<1>0. Len(s) \in Nat /\ DOMAIN s = 1 .. Len(s) /\ \A i \in 1 .. Len(s) : s[i] \in B
  OBVIOUS
<1>1. f \in [1 .. Len(s) -> Seq(V)] /\ \A i \in 1 .. Len(s) : f[i] = F[s[i]]
  BY <1>0
<1>. HIDE DEF f
<1>2. f \in Seq(Seq(V)) /\ Len(f) = Len(s)
  BY <1>0, <1>1, FunctionIsSeq
<1>3. Under(F, s) = FlattenSeq(f)
  BY DEF Under, f
<1>. QED
  BY <1>2, <1>3, FlattenType

LEMMA UnderAppend ==
    ASSUME NEW B, NEW V, NEW F \in [B -> Seq(V)], NEW s \in Seq(B), NEW x \in B
    PROVE  Under(F, Append(s, x)) = Under(F, s) \o F[x]
<1>. DEFINE f == [i \in DOMAIN s |-> F[s[i]]]
            t == Append(s, x)
            g == [i \in DOMAIN t |-> F[t[i]]]
            h == Append(f, F[x])
            W == Seq(V)
            n == Len(s) + 1
<1>0. Len(s) \in Nat /\ DOMAIN s = 1 .. Len(s) /\ \A i \in 1 .. Len(s) : s[i] \in B
  OBVIOUS
<1>1. /\ F \in [B -> W] /\ F[x] \in W
      /\ f \in [1 .. Len(s) -> W] /\ \A i \in 1 .. Len(s) : f[i] = F[s[i]]
  BY <1>0
<1>2. /\ DOMAIN t = 1 .. n /\ t[n] = x /\ \A i \in 1 .. Len(s) : t[i] = s[i]
  BY <1>0
<1>3. n \in Nat /\ 1 .. n = 1 .. Len(s) \cup {n}
  BY <1>0
<1>4. Under(F, s) = FlattenSeq(f) /\ Under(F, t) = FlattenSeq(g)
  BY DEF Under
<1>. HIDE DEF f, t, W
<1>5. f \in Seq(W) /\ Len(f) = Len(s)
  BY <1>0, <1>1, FunctionIsSeq
<1>6. \A i \in 1 .. n : t[i] \in B
  BY <1>0, <1>2, <1>3
<1>7. g \in [1 .. n -> W] /\ \A i \in 1 .. n : g[i] = F[t[i]]
  BY <1>1, <1>2, <1>6
<1>8. h \in Seq(W) /\ Len(h) = n /\ h[n] = F[x] /\ \A i \in 1 .. Len(s) : h[i] = f[i]
  <2>. DEFINE y == F[x]
  <2>1. y \in W
    BY <1>1
  <2>2. h = Append(f, y)
    OBVIOUS
  <2>. HIDE DEF y, h
  <2>. QED
    <3>1. /\ Append(f, y) \in Seq(W) /\ Len(Append(f, y)) = Len(f) + 1
          /\ Append(f, y)[Len(f) + 1] = y /\ \A i \in 1 .. Len(f) : Append(f, y)[i] = f[i]
      BY <1>5, <2>1, AppendIs
    <3>. QED
      BY <1>5, <2>2, <3>1 DEF y
<1>. HIDE DEF g, h, n
<1>9. g \in Seq(W) /\ Len(g) = n
  BY <1>3, <1>7, FunctionIsSeq
<1>10. \A i \in 1 .. Len(g) : g[i] = h[i]
  <2>. SUFFICES ASSUME NEW i \in 1 .. n PROVE g[i] = h[i]
    BY <1>9
  <2>1. CASE i = n
    BY <1>2, <1>7, <1>8, <2>1
  <2>2. CASE i \in 1 .. Len(s)
    <3>1. g[i] = F[t[i]]
      BY <1>7
    <3>2. t[i] = s[i] /\ h[i] = f[i] /\ f[i] = F[s[i]]
      BY <1>1, <1>2, <1>8, <2>2
    <3>. QED
      BY <3>1, <3>2, Zenon
  <2>. QED
    BY <1>3, <2>1, <2>2
<1>11. g = h
  BY <1>8, <1>9, <1>10, SameSeq
<1>12. FlattenSeq(h) = FlattenSeq(f) \o F[x]
  BY <1>1, <1>5, FlattenAppend DEF h, W
<1>. QED
  BY <1>4, <1>11, <1>12 DEF t

LEMMA UnderAgrees ==
    ASSUME NEW B, NEW F, NEW G, NEW s \in Seq(B), \A b \in B : G[b] = F[b]
    PROVE  Under(G, s) = Under(F, s)
<1>1. \A i \in DOMAIN s : G[s[i]] = F[s[i]]
  OBVIOUS
<1>2. [i \in DOMAIN s |-> G[s[i]]] = [i \in DOMAIN s |-> F[s[i]]]
  BY <1>1
<1>. QED
  BY <1>2 DEF Under

LEMMA UnderNone == \A F : Under(F, <<>>) = <<>>
<1>. SUFFICES ASSUME NEW F PROVE Under(F, <<>>) = <<>>
  OBVIOUS
<1>1. [i \in DOMAIN <<>> |-> F[<<>>[i]]] = <<>>
  OBVIOUS
<1>. QED
  BY <1>1, FlattenEmpty DEF Under

(* A block more.                                                            *)
FitsIn(x, B, V) == DOMAIN x = Fields /\ x.nested \in Seq(B) /\ HeadOf(x) \in Seq(V)
GrowsBy(B, F, V, x, G) ==
    /\ IsForest(B \cup {x}) /\ IsListed(B \cup {x}, G, V)
    /\ \A b \in B : G[b] = F[b]
    /\ G[x] = HeadOf(x) \o Under(F, x.nested)

LEMMA ForestGrows ==
    ASSUME NEW B, NEW F, NEW V, IsForest(B), IsListed(B, F, V), NEW x, FitsIn(x, B, V)
    PROVE  \E G : GrowsBy(B, F, V, x, G)
<1>0. DOMAIN x = Fields /\ x.nested \in Seq(B) /\ HeadOf(x) \in Seq(V)
  BY DEF FitsIn
<1>. DEFINE y == HeadOf(x) \o Under(F, x.nested)
            C == B \cup {x}
            G == [b \in C |-> IF b \in B THEN F[b] ELSE y]
<1>1. /\ F \in [B -> Seq(V)]
      /\ \A b \in B : HeadOf(b) \in Seq(V) /\ F[b] = HeadOf(b) \o Under(F, b.nested)
  BY DEF IsListed
<1>2. y \in Seq(V)
  BY <1>0, <1>1, UnderIs, ConcatLen
<1>3. Seq(B) \subseteq Seq(C)
  BY SeqWider
<1>4. \A b \in C : DOMAIN b = Fields /\ b.nested \in Seq(B)
  BY <1>0 DEF IsForest
<1>5. IsForest(C)
  BY <1>3, <1>4 DEF IsForest
<1>6. x \in B => F[x] = y
  BY <1>1
<1>. HIDE DEF y
<1>7. G \in [C -> Seq(V)] /\ G[x] = y /\ \A b \in B : G[b] = F[b]
  BY <1>1, <1>2, <1>6
<1>. HIDE DEF G, C
<1>8. \A b \in C : Under(G, b.nested) = Under(F, b.nested)
  BY <1>4, <1>7, UnderAgrees
<1>9. ASSUME NEW b \in C PROVE HeadOf(b) \in Seq(V) /\ G[b] = HeadOf(b) \o Under(G, b.nested)
  <2>1. CASE b \in B
    BY <1>1, <1>7, <1>8, <2>1
  <2>2. CASE b = x
    BY <1>0, <1>7, <1>8, <1>9, <2>2 DEF y
  <2>. QED
    BY <2>1, <2>2 DEF C
<1>10. IsListed(C, G, V)
  BY <1>7, <1>9 DEF IsListed
<1>. QED
  BY <1>5, <1>7, <1>10 DEF GrowsBy, C, y

LEMMA LastPut ==
    ASSUME NEW B, NEW s \in Seq(B), s # <<>>
    PROVE  /\ Front(s) \in Seq(B) /\ Last(s) \in B /\ s = Append(Front(s), Last(s))
           /\ Len(Front(s)) = Len(s) - 1 /\ Len(s) \in Nat \ {0}
           /\ \A i \in 1 .. Len(s) - 1 : Front(s)[i] = s[i]
<1>1. Len(s) \in Nat \ {0}
  OBVIOUS
<1>2. Last(s) \in B
  BY <1>1 DEF Last
<1>3. /\ Front(s) \in Seq(B) /\ Len(Front(s)) = Len(s) - 1
      /\ \A i \in 1 .. Len(s) - 1 : Front(s)[i] = s[i]
  <2>. DEFINE m == Len(s) - 1
              r == SubSeq(s, 1, m)
  <2>1. m \in Nat /\ m <= Len(s)
    BY <1>1
  <2>. HIDE DEF m
  <2>2. r \in Seq(B) /\ Len(r) = m /\ \A i \in 1 .. m : r[i] = s[i]
    BY <2>1
  <2>3. r = Front(s)
    BY DEF Front, m
  <2>. QED
    BY <2>2, <2>3 DEF m
<1>. DEFINE f == Front(s)
            t == Append(f, Last(s))
<1>. HIDE DEF f
<1>4. /\ t \in Seq(B) /\ Len(t) = Len(s) /\ t[Len(s)] = Last(s)
      /\ \A i \in 1 .. Len(s) - 1 : t[i] = s[i]
  BY <1>1, <1>2, <1>3 DEF f
<1>. HIDE DEF t
<1>5. \A i \in 1 .. Len(s) : t[i] = s[i]
  BY <1>1, <1>4 DEF Last
<1>6. t = s
  BY <1>4, <1>5, SameSeq
<1>. QED
  BY <1>1, <1>2, <1>3, <1>6 DEF f, t

(* A setting more, in the innermost block.                                  *)
LEMMA SettingKeeps ==
    ASSUME NEW B, NEW F, NEW V, NEW s, NEW names, Calls(B, F, V, s, names), s # <<>>,
           NEW x, DOMAIN x = Fields, x.nested = Last(s).nested, HeadOf(x) = HeadOf(Last(s))
    PROVE  \E C, G : Calls(C, G, V, Append(Front(s), x), names)
<1>. DEFINE f == Front(s)
            z == Last(s)
            C == B \cup {x}
<1>0. IsForest(B) /\ IsListed(B, F, V) /\ s \in Seq(B) /\ Under(F, s) = names
  BY DEF Calls
<1>1. f \in Seq(B) /\ z \in B /\ s = Append(f, z)
  BY <1>0, LastPut
<1>2. x.nested = z.nested /\ HeadOf(x) = HeadOf(z)
  OBVIOUS
<1>. HIDE DEF f, z
<1>3. F \in [B -> Seq(V)] /\ HeadOf(z) \in Seq(V) /\ F[z] = HeadOf(z) \o Under(F, z.nested)
  BY <1>0, <1>1 DEF IsListed
<1>4. FitsIn(x, B, V)
  BY <1>0, <1>1, <1>2, <1>3 DEF IsForest, FitsIn
<1>5. PICK G : GrowsBy(B, F, V, x, G)
  BY <1>0, <1>4, ForestGrows
<1>6. IsForest(C) /\ IsListed(C, G, V) /\ \A b \in B : G[b] = F[b]
  BY <1>5 DEF GrowsBy
<1>7. G[x] = F[z]
  BY <1>2, <1>3, <1>5 DEF GrowsBy
<1>8. Under(F, s) = Under(F, f) \o F[z]
  BY <1>1, <1>3, UnderAppend
<1>9. Under(G, f) = Under(F, f)
  BY <1>1, <1>6, UnderAgrees
<1>10. f \in Seq(C) /\ x \in C
  BY <1>1, SeqWider
<1>11. G \in [C -> Seq(V)]
  BY <1>6 DEF IsListed
<1>. HIDE DEF C
<1>12. Under(G, Append(f, x)) = Under(G, f) \o G[x]
  BY <1>10, <1>11, UnderAppend
<1>13. Append(f, x) \in Seq(C)
  BY <1>10
<1>14. Calls(C, G, V, Append(f, x), names)
  BY <1>0, <1>6, <1>7, <1>8, <1>9, <1>12, <1>13 DEF Calls
<1>. QED
  BY <1>14 DEF f

(* A block more, with nothing in it.                                        *)
LEMMA OpeningKeeps ==
    ASSUME NEW B, NEW F, NEW V, NEW s, NEW names, Calls(B, F, V, s, names),
           NEW x, DOMAIN x = Fields, x.nested = <<>>, HeadOf(x) \in Seq(V)
    PROVE  \E C, G : Calls(C, G, V, Append(s, x), names \o HeadOf(x))
<1>. DEFINE C == B \cup {x}
<1>0. IsForest(B) /\ IsListed(B, F, V) /\ s \in Seq(B) /\ Under(F, s) = names
  BY DEF Calls
<1>1. FitsIn(x, B, V)
  BY DEF FitsIn
<1>2. PICK G : GrowsBy(B, F, V, x, G)
  BY <1>0, <1>1, ForestGrows
<1>3. IsForest(C) /\ IsListed(C, G, V) /\ \A b \in B : G[b] = F[b]
  BY <1>2 DEF GrowsBy
<1>4. G[x] = HeadOf(x)
  <2>1. G[x] = HeadOf(x) \o Under(F, x.nested)
    BY <1>2 DEF GrowsBy
  <2>2. Under(F, x.nested) = <<>>
    BY UnderNone
  <2>3. HeadOf(x) \o <<>> = HeadOf(x)
    OBVIOUS
  <2>. QED
    BY <2>1, <2>2, <2>3
<1>5. Under(G, s) = Under(F, s)
  BY <1>0, <1>3, UnderAgrees
<1>6. s \in Seq(C) /\ x \in C
  BY <1>0, SeqWider
<1>7. G \in [C -> Seq(V)]
  BY <1>3 DEF IsListed
<1>. HIDE DEF C
<1>8. Under(G, Append(s, x)) = Under(G, s) \o G[x]
  BY <1>6, <1>7, UnderAppend
<1>9. Append(s, x) \in Seq(C)
  BY <1>6
<1>10. Calls(C, G, V, Append(s, x), names \o HeadOf(x))
  BY <1>0, <1>3, <1>4, <1>5, <1>8, <1>9 DEF Calls
<1>. QED
  BY <1>10

(* The innermost block goes into the one around it.                         *)
LEMMA ClosingKeeps ==
    ASSUME NEW B, NEW F, NEW V, NEW names, NEW f, NEW o, NEW z,
           Calls(B, F, V, Append(Append(f, o), z), names), f \in Seq(B), o \in B, z \in B,
           NEW x, DOMAIN x = Fields, x.nested = Append(o.nested, z), HeadOf(x) = HeadOf(o)
    PROVE  \E C, G : Calls(C, G, V, Append(f, x), names)
<1>. DEFINE C == B \cup {x}
<1>0. IsForest(B) /\ IsListed(B, F, V) /\ Under(F, Append(Append(f, o), z)) = names
  BY DEF Calls
<1>1. F \in [B -> Seq(V)] /\ HeadOf(o) \in Seq(V) /\ F[o] = HeadOf(o) \o Under(F, o.nested)
  BY <1>0 DEF IsListed
<1>2. o.nested \in Seq(B)
  BY <1>0 DEF IsForest
<1>3. FitsIn(x, B, V)
  BY <1>1, <1>2 DEF FitsIn
<1>4. PICK G : GrowsBy(B, F, V, x, G)
  BY <1>0, <1>3, ForestGrows
<1>5. IsForest(C) /\ IsListed(C, G, V) /\ \A b \in B : G[b] = F[b]
  BY <1>4 DEF GrowsBy
<1>6. Under(F, o.nested) \in Seq(V) /\ Under(F, x.nested) = Under(F, o.nested) \o F[z]
  BY <1>1, <1>2, UnderIs, UnderAppend
<1>7. F[z] \in Seq(V) /\ F[o] \in Seq(V)
  BY <1>1
<1>8. G[x] = F[o] \o F[z]
  <2>. DEFINE u == HeadOf(o)
              v == Under(F, o.nested)
              w == F[z]
  <2>0. G[x] = HeadOf(x) \o Under(F, x.nested)
    BY <1>4 DEF GrowsBy
  <2>1. u \in Seq(V) /\ v \in Seq(V) /\ w \in Seq(V) /\ F[o] = u \o v /\ G[x] = u \o (v \o w)
    BY <1>1, <1>6, <1>7, <2>0
  <2>. HIDE DEF u, v, w
  <2>2. (u \o v) \o w = u \o (v \o w)
    <3>1. u \in Seq(V) /\ v \in Seq(V) /\ w \in Seq(V)
      BY <2>1
    <3>. QED
      BY <3>1, ConcatAssociative, SMTT(40)
  <2>. QED
    BY <2>1, <2>2 DEF w
<1>9. Under(F, f) \in Seq(V) /\ Under(F, Append(f, o)) = Under(F, f) \o F[o]
  BY <1>1, UnderIs, UnderAppend
<1>10. Under(F, Append(Append(f, o), z)) = Under(F, Append(f, o)) \o F[z]
  <2>. DEFINE g == Append(f, o)
  <2>1. g \in Seq(B)
    OBVIOUS
  <2>. HIDE DEF g
  <2>2. Under(F, Append(g, z)) = Under(F, g) \o F[z]
    BY <1>1, <2>1, UnderAppend
  <2>. QED
    BY <2>2 DEF g
<1>11. (Under(F, f) \o F[o]) \o F[z] = Under(F, f) \o (F[o] \o F[z])
  <2>. DEFINE u == Under(F, f)
              v == F[o]
              w == F[z]
  <2>1. u \in Seq(V) /\ v \in Seq(V) /\ w \in Seq(V)
    BY <1>7, <1>9
  <2>. HIDE DEF u, v, w
  <2>2. (u \o v) \o w = u \o (v \o w)
    BY <2>1, ConcatAssociative, SMTT(40)
  <2>. QED
    BY <2>2 DEF u, v, w
<1>12. Under(G, f) = Under(F, f)
  BY <1>5, UnderAgrees
<1>13. f \in Seq(C) /\ x \in C
  BY SeqWider
<1>14. G \in [C -> Seq(V)]
  BY <1>5 DEF IsListed
<1>. HIDE DEF C
<1>15. Under(G, Append(f, x)) = Under(G, f) \o G[x]
  BY <1>13, <1>14, UnderAppend
<1>16. Under(G, Append(f, x)) = names
  BY <1>0, <1>8, <1>9, <1>10, <1>11, <1>12, <1>15, Zenon
<1>17. Append(f, x) \in Seq(C)
  BY <1>13
<1>18. Calls(C, G, V, Append(f, x), names)
  BY <1>5, <1>16, <1>17 DEF Calls
<1>. QED
  BY <1>18

(* A line more.                                                             *)
Opens(l) == IF l.kind = "{" /\ l.key = "location" THEN <<l.val>> ELSE <<>>
NamedIn(f) == FlattenSeq([n \in DOMAIN f |-> Opens(f[n])])
ValsIn(L) == {l.val : l \in L}

LEMMA NamedAppend ==
    ASSUME NEW L, NEW f \in Seq(L)
    PROVE  /\ NamedIn(f) \in Seq(ValsIn(L))
           /\ \A l \in L : NamedIn(Append(f, l)) = NamedIn(f) \o Opens(l)
<1>. DEFINE V == ValsIn(L)
            F == [l \in L |-> Opens(l)]
<1>1. ASSUME NEW l \in L PROVE Opens(l) \in Seq(V)
  <2>1. l.val \in V
    BY DEF ValsIn
  <2>2. <<>> \in Seq(V) /\ \A v \in V : <<v>> \in Seq(V)
    OBVIOUS
  <2>. QED
    BY <2>1, <2>2, Zenon DEF Opens
<1>. HIDE DEF V
<1>2. F \in [L -> Seq(V)] /\ \A l \in L : F[l] = Opens(l)
  BY <1>1
<1>. HIDE DEF F
<1>3. ASSUME NEW g \in Seq(L) PROVE Under(F, g) = NamedIn(g)
  <2>1. \A n \in DOMAIN g : F[g[n]] = Opens(g[n])
    BY <1>2
  <2>2. [n \in DOMAIN g |-> F[g[n]]] = [n \in DOMAIN g |-> Opens(g[n])]
    BY <2>1
  <2>. QED
    BY <2>2 DEF Under, NamedIn
<1>4. Under(F, f) \in Seq(V) /\ \A l \in L : Under(F, Append(f, l)) = Under(F, f) \o F[l]
  BY <1>2, UnderIs, UnderAppend
<1>5. \A l \in L : Append(f, l) \in Seq(L)
  OBVIOUS
<1>. QED
  BY <1>2, <1>3, <1>4, <1>5 DEF V

(* How many blocks are open, as Depth counts them.                          *)
OfKind(f, n, kind) == {i \in 1 .. n : f[i].kind = kind}
DepthIn(f, n) == Cardinality(OfKind(f, n, "{")) - Cardinality(OfKind(f, n, "}"))
Change(l) == IF l.kind = "{" THEN 1 ELSE IF l.kind = "}" THEN -1 ELSE 0
IsBalanced(f, d) == DepthIn(f, Len(f)) = d /\ \A n \in 1 .. Len(f) : DepthIn(f, n) >= 0

LEMMA CountSteps ==
    ASSUME NEW f, NEW n \in Nat, NEW kind
    PROVE  /\ Cardinality(OfKind(f, n, kind)) \in Nat
           /\ Cardinality(OfKind(f, n + 1, kind)) =
                Cardinality(OfKind(f, n, kind)) + IF f[n + 1].kind = kind THEN 1 ELSE 0
<1>. DEFINE A == OfKind(f, n, kind)
            B == OfKind(f, n + 1, kind)
<1>1. IsFiniteSet(1 .. n)
  BY FS_Interval
<1>2. A \in SUBSET (1 .. n)
  BY DEF OfKind
<1>3. IsFiniteSet(A)
  BY <1>1, <1>2, FS_Subset
<1>4. Cardinality(A) \in Nat
  BY <1>3, FS_CardinalityType
<1>5. 1 .. n + 1 = 1 .. n \cup {n + 1} /\ n + 1 \notin 1 .. n
  OBVIOUS
<1>6. CASE f[n + 1].kind = kind
  <2>1. B = A \cup {n + 1}
    BY <1>5, <1>6 DEF OfKind
  <2>2. n + 1 \notin A
    BY <1>2, <1>5
  <2>. DEFINE x == n + 1
  <2>. HIDE DEF A, B, x
  <2>3. Cardinality(A \cup {x}) = Cardinality(A) + 1
    BY <1>3, <2>2, FS_AddElement DEF x
  <2>. QED
    BY <1>4, <1>6, <2>1, <2>3 DEF A, B, x
<1>7. CASE f[n + 1].kind # kind
  <2>1. B = A
    BY <1>5, <1>7 DEF OfKind
  <2>. QED
    BY <1>4, <1>7, <2>1
<1>. QED
  BY <1>6, <1>7

LEMMA NoneYet == \A f : DepthIn(f, 0) = 0
<1>. SUFFICES ASSUME NEW f PROVE DepthIn(f, 0) = 0
  OBVIOUS
<1>1. OfKind(f, 0, "{") = {} /\ OfKind(f, 0, "}") = {}
  BY DEF OfKind
<1>2. Cardinality({}) = 0
  BY FS_EmptySet
<1>3. DepthIn(f, 0) = Cardinality({}) - Cardinality({})
  BY <1>1, Zenon DEF DepthIn
<1>. QED
  BY <1>2, <1>3

LEMMA DepthSteps ==
    ASSUME NEW f, NEW n \in Nat
    PROVE  DepthIn(f, n) \in Int /\ DepthIn(f, n + 1) = DepthIn(f, n) + Change(f[n + 1])
<1>1. /\ Cardinality(OfKind(f, n, "{")) \in Nat
      /\ Cardinality(OfKind(f, n + 1, "{")) =
           Cardinality(OfKind(f, n, "{")) + IF f[n + 1].kind = "{" THEN 1 ELSE 0
  BY CountSteps
<1>2. /\ Cardinality(OfKind(f, n, "}")) \in Nat
      /\ Cardinality(OfKind(f, n + 1, "}")) =
           Cardinality(OfKind(f, n, "}")) + IF f[n + 1].kind = "}" THEN 1 ELSE 0
  BY CountSteps
<1>. DEFINE p == Cardinality(OfKind(f, n, "{"))
            q == Cardinality(OfKind(f, n, "}"))
            x == Cardinality(OfKind(f, n + 1, "{"))
            y == Cardinality(OfKind(f, n + 1, "}"))
<1>3. DepthIn(f, n) = p - q /\ DepthIn(f, n + 1) = x - y
  BY DEF DepthIn
<1>. HIDE DEF p, q, x, y
<1>4. p \in Nat /\ q \in Nat /\ x = p + (IF f[n + 1].kind = "{" THEN 1 ELSE 0)
      /\ y = q + (IF f[n + 1].kind = "}" THEN 1 ELSE 0)
  BY <1>1, <1>2 DEF p, q, x, y
<1>. DEFINE c == f[n + 1].kind
            e == Change(f[n + 1])
<1>5. /\ c = "{" => c # "}" /\ e = 1
      /\ c = "}" => c # "{" /\ e = -1
      /\ c # "{" /\ c # "}" => e = 0
  BY DEF Change
<1>. HIDE DEF c, e
<1>6. x = p + (IF c = "{" THEN 1 ELSE 0) /\ y = q + (IF c = "}" THEN 1 ELSE 0)
  BY <1>4 DEF c
<1>7. p - q \in Int /\ x - y = (p - q) + e
  <2>1. p \in Nat /\ q \in Nat
    BY <1>4
  <2>2. CASE c = "{"
    <3>1. x = p + 1 /\ y = q + 0 /\ e = 1
      BY <1>5, <1>6, <2>2, Zenon
    <3>. QED
      BY <2>1, <3>1
  <2>3. CASE c = "}"
    <3>1. x = p + 0 /\ y = q + 1 /\ e = -1
      BY <1>5, <1>6, <2>3, Zenon
    <3>. QED
      BY <2>1, <3>1
  <2>4. CASE c # "{" /\ c # "}"
    <3>1. x = p + 0 /\ y = q + 0 /\ e = 0
      BY <1>5, <1>6, <2>4, Zenon
    <3>. QED
      BY <2>1, <3>1
  <2>. QED
    BY <2>2, <2>3, <2>4
<1>. QED
  BY <1>3, <1>7 DEF e

LEMMA LineBalances ==
    ASSUME NEW L, NEW f \in Seq(L), NEW l \in L, NEW d \in Int, IsBalanced(f, d), d + Change(l) >= 0
    PROVE  IsBalanced(Append(f, l), d + Change(l))
<1>. DEFINE g == Append(f, l)
            m == Len(f)
<1>1. /\ m \in Nat /\ Len(g) = m + 1 /\ g[m + 1] = l /\ \A i \in 1 .. m : g[i] = f[i]
  OBVIOUS
<1>. HIDE DEF g, m
<1>2. ASSUME NEW n \in 0 .. m PROVE DepthIn(g, n) = DepthIn(f, n)
  <2>1. \A i \in 1 .. n : g[i] = f[i]
    BY <1>1
  <2>2. OfKind(g, n, "{") = OfKind(f, n, "{") /\ OfKind(g, n, "}") = OfKind(f, n, "}")
    BY <2>1 DEF OfKind
  <2>. QED
    BY <2>2 DEF DepthIn
<1>3. DepthIn(f, m) = d /\ \A n \in 1 .. m : DepthIn(f, n) >= 0
  BY DEF IsBalanced, m
<1>4. DepthIn(g, m + 1) = DepthIn(g, m) + Change(l)
  BY <1>1, DepthSteps
<1>5. DepthIn(g, m + 1) = d + Change(l)
  BY <1>1, <1>2, <1>3, <1>4
<1>6. ASSUME NEW n \in 1 .. m + 1 PROVE DepthIn(g, n) >= 0
  <2>1. CASE n = m + 1
    BY <1>5, <2>1
  <2>2. CASE n \in 1 .. m
    BY <1>1, <1>2, <1>3, <2>2
  <2>. QED
    BY <1>1, <2>1, <2>2
<1>. QED
  BY <1>1, <1>5, <1>6 DEF IsBalanced, g

(* The lines that open a location, and what they call it.                   *)
LocationsIn(f) ==
    FlattenSeq([n \in DOMAIN f |->
        IF f[n].kind = "{" /\ f[n].key = "location" THEN <<n>> ELSE <<>>])

LEMMA NamesOfLines ==
    ASSUME NEW L, NEW f \in Seq(L)
    PROVE  /\ Len(LocationsIn(f)) = Len(NamedIn(f)) /\ LocationsIn(f) \in Seq(1 .. Len(f))
           /\ \A k \in 1 .. Len(NamedIn(f)) : NamedIn(f)[k] = f[LocationsIn(f)[k]].val
<1>. DEFINE V == ValsIn(L)
            D == 1 .. Len(f)
            a == [n \in DOMAIN f |-> IF f[n].kind = "{" /\ f[n].key = "location" THEN <<n>> ELSE <<>>]
            b == [n \in DOMAIN f |-> Opens(f[n])]
            R == {p \in D \X V : p[2] = f[p[1]].val}
            W == Seq(D)
            U == Seq(V)
<1>1. Len(f) \in Nat /\ DOMAIN f = D /\ \A n \in D : f[n] \in L /\ f[n].val \in V
  BY DEF ValsIn
<1>2. /\ <<>> \in W /\ \A n \in D : <<n>> \in W
      /\ <<>> \in U /\ \A v \in V : <<v>> \in U
  OBVIOUS
<1>3. a \in [D -> W] /\ b \in [D -> U]
  BY <1>1, <1>2 DEF Opens
<1>4. a \in Seq(W) /\ b \in Seq(U) /\ Len(a) = Len(f) /\ Len(b) = Len(f)
  <2>. HIDE DEF a, b, W, U
  <2>. QED
    BY <1>1, <1>3, FunctionIsSeq
<1>5. ASSUME NEW n \in D
      PROVE  Len(a[n]) = Len(b[n]) /\ \A k \in 1 .. Len(a[n]) : <<a[n][k], b[n][k]>> \in R
  <2>1. CASE f[n].kind = "{" /\ f[n].key = "location"
    <3>1. a[n] = <<n>> /\ b[n] = <<f[n].val>>
      BY <1>1, <2>1 DEF Opens
    <3>2. <<n, f[n].val>> \in R
      BY <1>1
    <3>. HIDE DEF a, b, R
    <3>. QED
      BY <3>1, <3>2
  <2>2. CASE ~(f[n].kind = "{" /\ f[n].key = "location")
    <3>1. a[n] = <<>> /\ b[n] = <<>>
      BY <1>1, <2>2 DEF Opens
    <3>. HIDE DEF a, b, R
    <3>. QED
      BY <3>1
  <2>. QED
    BY <2>1, <2>2
<1>6. LocationsIn(f) = FlattenSeq(a) /\ NamedIn(f) = FlattenSeq(b)
  BY DEF LocationsIn, NamedIn
<1>. HIDE DEF a, b, R
<1>7. /\ Len(FlattenSeq(a)) = Len(FlattenSeq(b))
      /\ \A k \in 1 .. Len(FlattenSeq(a)) : <<FlattenSeq(a)[k], FlattenSeq(b)[k]>> \in R
  BY <1>4, <1>5, FlattenPairs
<1>8. FlattenSeq(a) \in Seq(D)
  BY <1>4, FlattenType
<1>9. \A k \in 1 .. Len(FlattenSeq(a)) : FlattenSeq(b)[k] = f[FlattenSeq(a)[k]].val
  BY <1>7 DEF R
<1>. QED
  BY <1>6, <1>7, <1>8, <1>9

LEMMA SeqIs ==
    ASSUME NEW S, NEW s \in Seq(S)
    PROVE  Len(s) \in Nat /\ DOMAIN s = 1 .. Len(s) /\ \A i \in 1 .. Len(s) : s[i] \in S
OBVIOUS

LEMMA NoneIs == \A S : <<>> \in Seq(S)
OBVIOUS

LEMMA OneIs ==
    ASSUME NEW x
    PROVE  /\ Append(<<>>, x) = <<x>> /\ \A S : <<x>> \in Seq(S) => x \in S
<1>1. Append(<<>>, x) = <<x>>
  <2>1. <<>> \in Seq({x}) /\ Len(<<>>) = 0 /\ x \in {x}
    OBVIOUS
  <2>2. /\ Append(<<>>, x) \in Seq({x}) /\ Len(Append(<<>>, x)) = 0 + 1
        /\ Append(<<>>, x)[0 + 1] = x
    BY <2>1, AppendIs
  <2>3. <<x>> \in Seq({x}) /\ Len(<<x>>) = 1 /\ <<x>>[1] = x
    OBVIOUS
  <2>4. \A i \in 1 .. 1 : Append(<<>>, x)[i] = <<x>>[i]
    BY <2>2, <2>3
  <2>. QED
    BY <2>2, <2>3, <2>4, SameSeq
<1>2. ASSUME NEW S, <<x>> \in Seq(S) PROVE x \in S
  <2>1. <<x>>[1] \in S
    BY <1>2
  <2>. QED
    BY <2>1
<1>. QED
  BY <1>1, <1>2

LEMMA NoneBefore ==
    ASSUME NEW S, NEW y \in Seq(S)
    PROVE  <<>> \o y = y
<1>1. <<>> \in Seq(S) /\ Len(<<>>) = 0 /\ Len(y) \in Nat
  OBVIOUS
<1>2. /\ <<>> \o y \in Seq(S) /\ Len(<<>> \o y) = Len(y)
      /\ \A i \in 1 .. Len(y) : (<<>> \o y)[i] = y[i]
  BY <1>1, ConcatProperties
<1>. QED
  BY <1>2, SeqEqual

LEMMA OnlyOne ==
    ASSUME NEW S, NEW y \in Seq(S), Len(y) = 1
    PROVE  y = <<y[1]>> /\ y[1] \in S
<1>. DEFINE x == y[1]
<1>1. x \in S
  OBVIOUS
<1>. HIDE DEF x
<1>2. <<x>> \in Seq(S) /\ Len(<<x>>) = 1 /\ <<x>>[1] = x
  BY <1>1
<1>3. \A i \in 1 .. 1 : y[i] = <<x>>[i]
  BY <1>2 DEF x
<1>4. y = <<x>>
  BY <1>2, <1>3, SeqEqual
<1>. QED
  BY <1>1, <1>4 DEF x

(* What the builders accept: a block http in the file, of servers, of       *)
(* locations.                                                               *)
ServersIn(f) ==
    \A j \in DOMAIN f.nested :
        /\ f.nested[j].level = "server"
        /\ \A i \in DOMAIN f.nested[j].nested :
              f.nested[j].nested[i].level = "location" /\ f.nested[j].nested[i].nested = <<>>

LEMMA AcceptedIs ==
    ASSUME NEW r, ConfigOk(r)
    PROVE  Len(r.nested) = 1 /\ r.nested[1].level = "http" /\ ServersIn(r.nested[1])
<1>1. Len(r.nested) = 1 /\ r.nested[1].level = "http" /\ HttpOk(r.nested[1])
  BY DEF ConfigOk
<1>2. \A n : LocationOk(n) => n.nested = <<>>
  BY DEF LocationOk
<1>3. ASSUME NEW f, ServerOk(f), NEW i \in DOMAIN f.nested
      PROVE  f.nested[i].level = "location" /\ LocationOk(f.nested[i])
  <2>1. Each(f.nested, LAMBDA n : n.level = "location" /\ n.descr # <<>> /\ LocationOk(n))
    BY <1>3 DEF ServerOk
  <2>. QED
    BY <1>3, <2>1 DEF Each
<1>4. ASSUME NEW f, HttpOk(f), NEW j \in DOMAIN f.nested
      PROVE  f.nested[j].level = "server" /\ ServerOk(f.nested[j])
  <2>1. Each(f.nested, LAMBDA n : n.level = "server" /\ n.descr = <<>> /\ ServerOk(n))
    BY <1>4 DEF HttpOk
  <2>. QED
    BY <1>4, <2>1 DEF Each
<1>5. ServersIn(r.nested[1])
  <2>. DEFINE h == r.nested[1]
  <2>0. HttpOk(h)
    BY <1>1
  <2>. HIDE DEF h
  <2>1. ASSUME NEW j \in DOMAIN h.nested
        PROVE  h.nested[j].level = "server" /\ ServerOk(h.nested[j])
    BY <1>4, <2>0
  <2>2. ASSUME NEW j \in DOMAIN h.nested, NEW i \in DOMAIN h.nested[j].nested
        PROVE  h.nested[j].nested[i].level = "location" /\ h.nested[j].nested[i].nested = <<>>
    <3>. DEFINE s == h.nested[j]
    <3>1. ServerOk(s) /\ i \in DOMAIN s.nested
      BY <2>1, <2>2
    <3>. HIDE DEF s
    <3>2. s.nested[i].level = "location" /\ LocationOk(s.nested[i])
      BY <1>3, <3>1
    <3>. QED
      BY <1>2, <3>2 DEF s
  <2>. QED
    BY <2>1, <2>2 DEF ServersIn, h
<1>. QED
  BY <1>1, <1>5

LEMMA NotNamed ==
    ASSUME NEW B, NEW F, NEW V, IsForest(B), IsListed(B, F, V), NEW b \in B, b.level # "location"
    PROVE  F[b] = Under(F, b.nested) /\ b.nested \in Seq(B)
<1>1. F \in [B -> Seq(V)] /\ F[b] = HeadOf(b) \o Under(F, b.nested) /\ HeadOf(b) = <<>>
  BY DEF IsListed, HeadOf
<1>2. b.nested \in Seq(B)
  BY DEF IsForest
<1>3. Under(F, b.nested) \in Seq(V)
  BY <1>1, <1>2, UnderIs
<1>. DEFINE u == Under(F, b.nested)
<1>4. <<>> \o u = u
  BY <1>3, NoneBefore
<1>. QED
  BY <1>1, <1>2, <1>4

AreNames(u, V, s) == u \in Seq(V) /\ Len(u) = Len(s) /\ \A i \in 1 .. Len(s) : u[i] = s[i].descr
AreLeaves(s) == \A i \in DOMAIN s : s[i].level = "location" /\ s[i].nested = <<>>

LEMMA LeavesNamed ==
    ASSUME NEW B, NEW F, NEW V, IsForest(B), IsListed(B, F, V), NEW s \in Seq(B), AreLeaves(s)
    PROVE  AreNames(Under(F, s), V, s)
<1>. DEFINE r == [i \in DOMAIN s |-> s[i].descr]
            g == [i \in DOMAIN s |-> F[s[i]]]
            W == Seq(V)
<1>1. Len(s) \in Nat /\ DOMAIN s = 1 .. Len(s) /\ \A i \in 1 .. Len(s) : s[i] \in B
  OBVIOUS
<1>2. ASSUME NEW b \in B, b.level = "location", b.nested = <<>>
      PROVE  F[b] = <<b.descr>> /\ b.descr \in V /\ F[b] \in W
  <2>1. /\ F \in [B -> Seq(V)] /\ HeadOf(b) \in Seq(V)
        /\ F[b] = HeadOf(b) \o Under(F, b.nested) /\ HeadOf(b) = <<b.descr>>
    BY <1>2 DEF IsListed, HeadOf
  <2>2. Under(F, b.nested) = <<>>
    BY <1>2, UnderNone
  <2>. DEFINE d == b.descr
  <2>3. <<d>> \in Seq(V)
    BY <2>1
  <2>4. F[b] = <<d>> \o <<>>
    BY <2>1, <2>2
  <2>. HIDE DEF d
  <2>5. <<d>>[1] \in V /\ <<d>> \o <<>> = <<d>>
    BY <2>3
  <2>6. d \in V
    BY <2>5
  <2>. QED
    BY <2>3, <2>4, <2>5, <2>6 DEF d
<1>3. \A i \in 1 .. Len(s) : F[s[i]] = <<s[i].descr>> /\ s[i].descr \in V /\ F[s[i]] \in W
  BY <1>1, <1>2 DEF AreLeaves
<1>4. r \in [1 .. Len(s) -> V] /\ g \in [1 .. Len(s) -> W] /\ \A i \in 1 .. Len(s) : r[i] = s[i].descr
  BY <1>1, <1>3
<1>5. \A i \in 1 .. Len(s) : g[i] = <<r[i]>>
  BY <1>1, <1>3
<1>6. Under(F, s) = FlattenSeq(g)
  BY DEF Under
<1>. HIDE DEF r, g, W
<1>7. r \in Seq(V) /\ g \in Seq(W) /\ Len(r) = Len(s) /\ Len(g) = Len(s)
  BY <1>1, <1>4, FunctionIsSeq
<1>8. FlattenSeq(g) = r
  BY <1>5, <1>7, FlattenOnes DEF W
<1>. QED
  BY <1>4, <1>6, <1>7, <1>8 DEF AreNames

MadeOf(B, own) == UNION {{BuildLocation(n, Inherit(s, own)) : n \in B} : s \in B}

LEMMA MadeIs ==
    ASSUME NEW B, NEW own, NEW n \in B, NEW s \in B
    PROVE  BuildLocation(n, Inherit(s, own)) \in MadeOf(B, own)
<1>. DEFINE x == Inherit(s, own)
            A == {BuildLocation(m, x) : m \in B}
<1>1. BuildLocation(n, x) \in A
  <2>. HIDE DEF x
  <2>. QED
    OBVIOUS
<1>2. A \in {{BuildLocation(m, Inherit(q, own)) : m \in B} : q \in B}
  OBVIOUS
<1>3. MadeOf(B, own) = UNION {{BuildLocation(m, Inherit(q, own)) : m \in B} : q \in B}
  BY Zenon DEF MadeOf
<1>. HIDE DEF A
<1>. QED
  BY <1>1, <1>2, <1>3, Zenon

AreRouted(ls, names) ==
    /\ Len(ls) = Len(names)
    /\ \A k \in 1 .. Len(ls) : ls[k].route = Last(names[k])

(* What the builders make of a file that is accepted: its locations, in the *)
(* order of their lines.                                                    *)
LEMMA BuiltInOrder ==
    ASSUME NEW B, NEW F, NEW V, NEW r, NEW names, Calls(B, F, V, <<r>>, names),
           r.level # "location", ConfigOk(r)
    PROVE  AreRouted(Locations(BuildHttp(r.nested[1])), names)
<1>. DEFINE h == r.nested[1]
            own == Inherit(h, NoSettings)
            Made == MadeOf(B, own)
            a == [j \in DOMAIN h.nested |-> BuildServer(h.nested[j], own).locations]
            b == [j \in DOMAIN h.nested |-> F[h.nested[j]]]
            W == Seq(Made)
            U == Seq(V)
            R == {p \in Made \X V : p[1].route = Last(p[2])}
<1>0. \A n \in B : \A s \in B : BuildLocation(n, Inherit(s, own)) \in Made
  BY MadeIs
<1>1. IsForest(B) /\ IsListed(B, F, V) /\ <<r>> \in Seq(B) /\ Under(F, <<r>>) = names
  BY DEF Calls
<1>. HIDE DEF own, Made
<1>2. Len(r.nested) = 1 /\ h.level = "http" /\ ServersIn(h)
  BY AcceptedIs
<1>3. r \in B /\ F \in [B -> Seq(V)]
  BY <1>1, OneIs DEF IsListed
<1>4. \A x \in B : Under(F, <<x>>) = F[x]
  <2>. SUFFICES ASSUME NEW x \in B PROVE Under(F, <<x>>) = F[x]
    OBVIOUS
  <2>0. <<>> \in Seq(B)
    BY NoneIs
  <2>1. Under(F, Append(<<>>, x)) = Under(F, <<>>) \o F[x]
    BY <1>3, <2>0, UnderAppend
  <2>2. Append(<<>>, x) = <<x>>
    BY OneIs
  <2>3. F[x] \in Seq(V) /\ Under(F, <<>>) = <<>>
    BY <1>3, UnderNone
  <2>. DEFINE y == F[x]
  <2>4. <<>> \o y = y
    BY <2>3, NoneBefore
  <2>. QED
    BY <2>1, <2>2, <2>3, <2>4
<1>5. F[r] = Under(F, r.nested) /\ r.nested \in Seq(B)
  BY <1>1, <1>3, NotNamed
<1>6. r.nested = <<h>> /\ h \in B
  <2>. DEFINE t == r.nested
  <2>1. t \in Seq(B) /\ Len(t) = 1 /\ h = t[1]
    BY <1>2, <1>5
  <2>. HIDE DEF t
  <2>. QED
    BY <2>1, OnlyOne DEF t
<1>. HIDE DEF h
<1>7. F[h] = Under(F, h.nested) /\ h.nested \in Seq(B)
  BY <1>1, <1>2, <1>6, NotNamed
<1>8. names = Under(F, h.nested)
  BY <1>1, <1>3, <1>4, <1>5, <1>6, <1>7
<1>9. /\ Len(h.nested) \in Nat /\ DOMAIN h.nested = 1 .. Len(h.nested)
      /\ \A j \in 1 .. Len(h.nested) : h.nested[j] \in B
  BY <1>7, SeqIs
<1>10. names = FlattenSeq(b)
  BY <1>8 DEF Under
<1>11. Locations(BuildHttp(h)) = FlattenSeq(a)
  <2>1. BuildHttp(h).servers = [j \in DOMAIN h.nested |-> BuildServer(h.nested[j], own)]
    BY DEF BuildHttp, own
  <2>. DEFINE c == BuildHttp(h)
  <2>. HIDE DEF c
  <2>2. DOMAIN c.servers = DOMAIN h.nested
        /\ \A j \in DOMAIN h.nested : c.servers[j].locations = a[j]
    BY <2>1 DEF c
  <2>3. [j \in DOMAIN c.servers |-> c.servers[j].locations] = a
    BY <2>2
  <2>. QED
    BY <2>3 DEF Locations, c
<1>12. ASSUME NEW j \in 1 .. Len(h.nested)
       PROVE  /\ a[j] \in W /\ b[j] \in U /\ Len(a[j]) = Len(b[j])
              /\ \A k \in 1 .. Len(a[j]) : <<a[j][k], b[j][k]>> \in R
  <2>. DEFINE s == h.nested[j]
              o == Inherit(s, own)
              x == [i \in DOMAIN s.nested |-> BuildLocation(s.nested[i], o)]
              y == Under(F, s.nested)
  <2>1. s \in B /\ s.level = "server"
        /\ \A i \in DOMAIN s.nested : s.nested[i].level = "location" /\ s.nested[i].nested = <<>>
    BY <1>2, <1>9 DEF ServersIn
  <2>2. b[j] = F[s] /\ a[j] = BuildServer(s, own).locations
    BY <1>9
  <2>3. a[j] = x
    BY <2>2 DEF BuildServer
  <2>. HIDE DEF s
  <2>4. F[s] = y /\ s.nested \in Seq(B)
    BY <1>1, <2>1, NotNamed
  <2>5. /\ y \in Seq(V) /\ Len(y) = Len(s.nested)
        /\ \A i \in 1 .. Len(s.nested) : y[i] = s.nested[i].descr
    <3>. DEFINE t == s.nested
    <3>1. t \in Seq(B) /\ AreLeaves(t) /\ IsForest(B) /\ IsListed(B, F, V)
      BY <1>1, <2>1, <2>4 DEF AreLeaves
    <3>2. y = Under(F, t)
      OBVIOUS
    <3>. HIDE DEF t, y
    <3>3. AreNames(Under(F, t), V, t)
      BY <3>1, LeavesNamed
    <3>. QED
      BY <3>2, <3>3 DEF t, AreNames
  <2>6. /\ Len(s.nested) \in Nat /\ DOMAIN s.nested = 1 .. Len(s.nested)
        /\ \A i \in 1 .. Len(s.nested) : s.nested[i] \in B
    BY <2>4, SeqIs
  <2>7. \A i \in 1 .. Len(s.nested) : BuildLocation(s.nested[i], o) \in Made
    <3>1. \A n \in B : BuildLocation(n, Inherit(s, own)) \in Made
      BY <1>0, <2>1
    <3>. QED
      BY <2>6, <3>1
  <2>8. \A n, q : BuildLocation(n, q).route = Last(n.descr)
    BY DEF BuildLocation
  <2>. HIDE DEF Made, o, y
  <2>9. x \in [1 .. Len(s.nested) -> Made] /\ \A i \in 1 .. Len(s.nested) : x[i].route = Last(y[i])
    BY <2>5, <2>6, <2>7, <2>8
  <2>. HIDE DEF x
  <2>10. x \in Seq(Made) /\ Len(x) = Len(s.nested)
    BY <2>6, <2>9, FunctionIsSeq
  <2>11. \A k \in 1 .. Len(x) : <<x[k], y[k]>> \in R
    <3>1. ASSUME NEW k \in 1 .. Len(x) PROVE x[k] \in Made /\ y[k] \in V /\ x[k].route = Last(y[k])
      BY <2>5, <2>9, <2>10, SeqIs
    <3>. QED
      BY <3>1 DEF R
  <2>. QED
    BY <2>2, <2>3, <2>4, <2>5, <2>10, <2>11
<1>13. a \in [1 .. Len(h.nested) -> W] /\ b \in [1 .. Len(h.nested) -> U]
  <2>1. DOMAIN a = 1 .. Len(h.nested) /\ DOMAIN b = 1 .. Len(h.nested)
        /\ a = [j \in DOMAIN a |-> a[j]] /\ b = [j \in DOMAIN b |-> b[j]]
    BY <1>9
  <2>. HIDE DEF a, b, W, U, R
  <2>2. \A j \in 1 .. Len(h.nested) : a[j] \in W /\ b[j] \in U
    BY <1>12
  <2>. QED
    BY <2>1, <2>2
<1>. HIDE DEF a, b, R, W, U
<1>14. a \in Seq(W) /\ b \in Seq(U) /\ Len(a) = Len(h.nested) /\ Len(b) = Len(h.nested)
  BY <1>9, <1>13, FunctionIsSeq
<1>. HIDE DEF Made
<1>15. /\ Len(FlattenSeq(a)) = Len(FlattenSeq(b))
       /\ \A k \in 1 .. Len(FlattenSeq(a)) : <<FlattenSeq(a)[k], FlattenSeq(b)[k]>> \in R
  BY <1>12, <1>14, FlattenPairs DEF W, U
<1>16. \A k \in 1 .. Len(FlattenSeq(a)) : FlattenSeq(a)[k].route = Last(FlattenSeq(b)[k])
  BY <1>15 DEF R
<1>. QED
  BY <1>10, <1>11, <1>15, <1>16 DEF h, AreRouted

(* What has been read of a file f, with the blocks s still open.            *)
ReadSoFar(f, s, L) ==
    /\ f \in Seq(L) /\ s # <<>> /\ s[1].level # "location"
    /\ \E B, F : Calls(B, F, ValsIn(L), s, NamedIn(f))
    /\ IsBalanced(f, Len(s) - 1)

(* The kinds of lines.                                                      *)
IsSetting(l) == l.kind = ";"
IsOpening(l) == l.kind = "{"
IsClosing(l) == l.kind = "}"
IsComment(l) == l.kind = "#"

LEMMA KindsAre ==
    ASSUME NEW l
    PROVE  /\ IsSetting(l) \/ IsComment(l) => Change(l) = 0 /\ Opens(l) = <<>>
           /\ IsClosing(l) => Change(l) = -1 /\ Opens(l) = <<>>
           /\ IsOpening(l) => Change(l) = 1
           /\ Opens(l) = IF IsOpening(l) /\ l.key = "location" THEN <<l.val>> ELSE <<>>
BY Zenon DEF IsSetting, IsOpening, IsClosing, IsComment, Change, Opens

LEMMA UnnamedLine ==
    ASSUME NEW L, NEW f \in Seq(L), NEW l \in L, Opens(l) = <<>>
    PROVE  NamedIn(Append(f, l)) = NamedIn(f)
<1>. DEFINE u == NamedIn(f)
            V == ValsIn(L)
<1>1. u \in Seq(V) /\ NamedIn(Append(f, l)) = u \o Opens(l)
  BY NamedAppend
<1>2. Opens(l) = <<>>
  OBVIOUS
<1>3. u \in Seq(V)
  BY <1>1
<1>. HIDE DEF u, V
<1>4. u \o <<>> = u
  BY <1>3
<1>. QED
  BY <1>1, <1>2, <1>4 DEF u

LEMMA LineDepth ==
    ASSUME NEW L, NEW f \in Seq(L), NEW l \in L, NEW d \in Nat, NEW e \in Nat,
           IsBalanced(f, d), e = d + Change(l)
    PROVE  IsBalanced(Append(f, l), e)
<1>1. d \in Int /\ d + Change(l) >= 0
  OBVIOUS
<1>. QED
  BY <1>1, LineBalances

(* The file is still the first of the blocks.                               *)
LEMMA FirstStays ==
    ASSUME NEW B, NEW m \in Seq(B), NEW x,
           m = <<>> => x.level # "location", m # <<>> => m[1].level # "location"
    PROVE  /\ Len(Append(m, x)) = Len(m) + 1 /\ Append(m, x) # <<>>
           /\ Append(m, x)[1].level # "location" /\ Len(m) \in Nat
<1>. DEFINE S == B \cup {x}
            t == Append(m, x)
<1>1. m \in Seq(S) /\ x \in S
  BY SeqWider
<1>. HIDE DEF S
<1>2. /\ t \in Seq(S) /\ Len(t) = Len(m) + 1
      /\ t[Len(m) + 1] = x /\ \A i \in 1 .. Len(m) : t[i] = m[i]
  BY <1>1, AppendIs
<1>3. Len(m) \in Nat /\ (m = <<>> <=> Len(m) = 0)
  OBVIOUS
<1>. HIDE DEF t
<1>4. t # <<>>
  BY <1>2, <1>3
<1>5. CASE m = <<>>
  <2>1. t[1] = x
    BY <1>2, <1>3, <1>5
  <2>. QED
    BY <1>2, <1>3, <1>4, <1>5, <2>1 DEF t
<1>6. CASE m # <<>>
  <2>1. t[1] = m[1]
    BY <1>2, <1>3, <1>6
  <2>. QED
    BY <1>2, <1>3, <1>4, <1>6, <2>1 DEF t
<1>. QED
  BY <1>5, <1>6

(* A line that leaves t open, d blocks in the file instead of c.            *)
LEMMA LineRead ==
    ASSUME NEW L, NEW f \in Seq(L), NEW l \in L, NEW c \in Nat, NEW d \in Nat,
           IsBalanced(f, c), d = c + Change(l),
           NEW t, Len(t) = d + 1, t # <<>>, t[1].level # "location",
           \E C, G : Calls(C, G, ValsIn(L), t, NamedIn(Append(f, l)))
    PROVE  ReadSoFar(Append(f, l), t, L)
<1>1. Append(f, l) \in Seq(L)
  BY AppendIs
<1>2. IsBalanced(Append(f, l), d)
  BY LineDepth
<1>3. Len(t) - 1 = d
  OBVIOUS
<1>. QED
  BY <1>1, <1>2, <1>3 DEF ReadSoFar

LEMMA ReadIs ==
    ASSUME NEW L, NEW f, NEW s, ReadSoFar(f, s, L)
    PROVE  \E B, F, d :
              /\ f \in Seq(L) /\ s \in Seq(B) /\ s # <<>> /\ s[1].level # "location"
              /\ d \in Nat /\ Len(s) = d + 1 /\ IsBalanced(f, d)
              /\ IsForest(B) /\ Calls(B, F, ValsIn(L), s, NamedIn(f))
<1>1. f \in Seq(L) /\ s # <<>> /\ s[1].level # "location" /\ IsBalanced(f, Len(s) - 1)
  BY DEF ReadSoFar
<1>2. PICK B, F : Calls(B, F, ValsIn(L), s, NamedIn(f))
  BY DEF ReadSoFar
<1>3. s \in Seq(B) /\ IsForest(B)
  BY <1>2 DEF Calls
<1>4. s # <<>>
  BY <1>1
<1>. DEFINE d == Len(s) - 1
<1>5. d \in Nat /\ Len(s) = d + 1
  BY <1>3, <1>4
<1>6. IsBalanced(f, d)
  BY <1>1
<1>. HIDE DEF d
<1>. QED
  BY <1>1, <1>2, <1>3, <1>5, <1>6

LEMMA CommentRead ==
    ASSUME NEW L, NEW f, NEW s, ReadSoFar(f, s, L), NEW l \in L, IsComment(l)
    PROVE  ReadSoFar(Append(f, l), s, L)
<1>1. PICK B, F, d :
              /\ f \in Seq(L) /\ s \in Seq(B) /\ s # <<>> /\ s[1].level # "location"
              /\ d \in Nat /\ Len(s) = d + 1 /\ IsBalanced(f, d)
              /\ IsForest(B) /\ Calls(B, F, ValsIn(L), s, NamedIn(f))
  BY ReadIs
<1>2. f \in Seq(L) /\ d \in Nat
  BY <1>1
<1>3. NamedIn(Append(f, l)) = NamedIn(f)
  BY <1>2, KindsAre, UnnamedLine
<1>4. d = d + Change(l)
  BY <1>2, KindsAre
<1>. QED
  BY <1>1, <1>2, <1>3, <1>4, LineRead

LEMMA SettingRead ==
    ASSUME NEW L, NEW f, NEW s, ReadSoFar(f, s, L), NEW l \in L, IsSetting(l)
    PROVE  ReadSoFar(Append(f, l), Append(Front(s), InsertSetting(Last(s), l.key, l.val)), L)
<1>. DEFINE z == Last(s)
            m == Front(s)
            x == InsertSetting(z, l.key, l.val)
            t == Append(m, x)
<1>1. PICK B, F, d :
              /\ f \in Seq(L) /\ s \in Seq(B) /\ s # <<>> /\ s[1].level # "location"
              /\ d \in Nat /\ Len(s) = d + 1 /\ IsBalanced(f, d)
              /\ IsForest(B) /\ Calls(B, F, ValsIn(L), s, NamedIn(f))
  BY ReadIs
<1>2. f \in Seq(L) /\ d \in Nat /\ Len(s) = d + 1
  BY <1>1
<1>3. /\ m \in Seq(B) /\ z \in B /\ Len(m) = Len(s) - 1 /\ \A i \in 1 .. Len(s) - 1 : m[i] = s[i]
  BY <1>1, LastPut
<1>4. DOMAIN z = Fields
  BY <1>1, <1>3 DEF IsForest
<1>5. /\ DOMAIN x = Fields /\ x.level = z.level /\ x.descr = z.descr /\ x.nested = z.nested
  <2>. HIDE DEF z
  <2>. QED
    BY <1>4 DEF InsertSetting, Fields
<1>. HIDE DEF x
<1>6. HeadOf(x) = HeadOf(z)
  BY <1>5 DEF HeadOf
<1>7. NamedIn(Append(f, l)) = NamedIn(f)
  BY <1>2, KindsAre, UnnamedLine
<1>8. \E C, G : Calls(C, G, ValsIn(L), t, NamedIn(Append(f, l)))
  BY <1>1, <1>5, <1>6, <1>7, SettingKeeps
<1>9. m \in Seq(B) /\ Len(m) = d
  BY <1>2, <1>3
<1>10. m = <<>> => x.level # "location"
  <2>. SUFFICES ASSUME m = <<>> PROVE x.level # "location"
    OBVIOUS
  <2>1. d = 0
    BY <1>9
  <2>2. z = s[1]
    BY <1>2, <2>1 DEF Last
  <2>. QED
    BY <1>1, <1>5, <2>2
<1>11. m # <<>> => m[1].level # "location"
  <2>. SUFFICES ASSUME m # <<>> PROVE m[1].level # "location"
    OBVIOUS
  <2>1. 1 \in 1 .. Len(s) - 1
    <3>. HIDE DEF m
    <3>. QED
      BY <1>2, <1>9
  <2>2. m[1] = s[1]
    BY <1>3, <2>1
  <2>. QED
    BY <1>1, <2>2
<1>. HIDE DEF m
<1>12. Len(t) = d + 1 /\ t # <<>> /\ t[1].level # "location"
  BY <1>9, <1>10, <1>11, FirstStays
<1>13. d = d + Change(l)
  BY <1>2, KindsAre
<1>14. IsBalanced(f, d)
  BY <1>1
<1>. HIDE DEF t
<1>15. ReadSoFar(Append(f, l), t, L)
  BY <1>2, <1>8, <1>12, <1>13, <1>14, LineRead
<1>. QED
  BY <1>15 DEF t, x, m

LEMMA OpeningRead ==
    ASSUME NEW L, NEW f, NEW s, ReadSoFar(f, s, L), NEW l \in L, IsOpening(l)
    PROVE  ReadSoFar(Append(f, l), Append(s, Block(l.key, l.val)), L)
<1>. DEFINE x == Block(l.key, l.val)
            t == Append(s, x)
            V == ValsIn(L)
<1>1. PICK B, F, d :
              /\ f \in Seq(L) /\ s \in Seq(B) /\ s # <<>> /\ s[1].level # "location"
              /\ d \in Nat /\ Len(s) = d + 1 /\ IsBalanced(f, d)
              /\ IsForest(B) /\ Calls(B, F, V, s, NamedIn(f))
  BY ReadIs
<1>2. f \in Seq(L) /\ d \in Nat /\ Len(s) = d + 1
  BY <1>1
<1>3. DOMAIN x = Fields /\ x.nested = <<>> /\ x.level = l.key /\ x.descr = l.val
  BY DEF Block, Fields
<1>4. HeadOf(x) = Opens(l)
  BY <1>3, KindsAre DEF HeadOf
<1>5. l.val \in V
  BY DEF ValsIn
<1>. HIDE DEF x, V
<1>6. HeadOf(x) \in Seq(V)
  <2>1. <<>> \in Seq(V) /\ \A v \in V : <<v>> \in Seq(V)
    OBVIOUS
  <2>. QED
    BY <1>4, <1>5, <2>1, KindsAre, Zenon
<1>7. NamedIn(Append(f, l)) = NamedIn(f) \o HeadOf(x)
  BY <1>2, <1>4, NamedAppend
<1>8. \E C, G : Calls(C, G, V, t, NamedIn(Append(f, l)))
  BY <1>1, <1>3, <1>6, <1>7, OpeningKeeps
<1>9. Len(t) = (d + 1) + 1 /\ t # <<>> /\ t[1].level # "location"
  <2>1. s \in Seq(B) /\ s # <<>> /\ s[1].level # "location"
    BY <1>1
  <2>. QED
    BY <1>2, <2>1, FirstStays
<1>10. d + 1 \in Nat /\ d + 1 = d + Change(l)
  BY <1>2, KindsAre
<1>11. IsBalanced(f, d)
  BY <1>1
<1>. DEFINE e == d + 1
<1>12. e \in Nat /\ e = d + Change(l) /\ Len(t) = e + 1 /\ t # <<>> /\ t[1].level # "location"
  BY <1>9, <1>10
<1>. HIDE DEF t, e
<1>13. ReadSoFar(Append(f, l), t, L)
  BY <1>2, <1>8, <1>11, <1>12, LineRead DEF V
<1>. QED
  BY <1>13 DEF t, x

LEMMA ClosingRead ==
    ASSUME NEW L, NEW f, NEW s, ReadSoFar(f, s, L), NEW l \in L, IsClosing(l), Len(s) # 1
    PROVE  ReadSoFar(Append(f, l), Nest(s), L)
<1>. DEFINE z == Last(s)
            g == Front(s)
            o == Last(g)
            m == Front(g)
            x == [o EXCEPT !.nested = Append(@, z)]
            t == Append(m, x)
            V == ValsIn(L)
<1>1. PICK B, F, d :
              /\ f \in Seq(L) /\ s \in Seq(B) /\ s # <<>> /\ s[1].level # "location"
              /\ d \in Nat /\ Len(s) = d + 1 /\ IsBalanced(f, d)
              /\ IsForest(B) /\ Calls(B, F, V, s, NamedIn(f))
  BY ReadIs
<1>2. f \in Seq(L) /\ d \in Nat /\ Len(s) = d + 1 /\ d # 0
  BY <1>1
<1>3. /\ g \in Seq(B) /\ z \in B /\ s = Append(g, z)
      /\ Len(g) = d /\ \A i \in 1 .. d : g[i] = s[i]
  <2>1. Len(s) - 1 = d
    BY <1>2
  <2>. QED
    BY <1>1, <2>1, LastPut
<1>4. g # <<>>
  <2>. HIDE DEF g
  <2>. QED
    BY <1>2, <1>3
<1>5. /\ m \in Seq(B) /\ o \in B /\ g = Append(m, o)
      /\ Len(m) = d - 1 /\ \A i \in 1 .. d - 1 : m[i] = g[i]
  <2>. HIDE DEF g
  <2>. QED
    BY <1>3, <1>4, LastPut
<1>6. Nest(s) = t
  <2>1. o = s[Len(s) - 1]
    <3>1. o = g[d] /\ g[d] = s[d]
      BY <1>2, <1>3 DEF Last
    <3>. QED
      BY <1>2, <3>1
  <2>2. m = SubSeq(s, 1, Len(s) - 2)
    <3>. DEFINE k == Len(s) - 2
                r == SubSeq(s, 1, k)
    <3>1. k \in Nat /\ k <= Len(s) /\ k = d - 1 /\ \A i \in 1 .. k : i \in 1 .. d
      BY <1>2
    <3>2. s \in Seq(B)
      BY <1>1
    <3>. HIDE DEF k
    <3>3. r \in Seq(B) /\ Len(r) = k /\ \A i \in 1 .. k : r[i] = s[i]
      BY <3>1, <3>2
    <3>. HIDE DEF r, m, g
    <3>4. Len(m) = k /\ \A i \in 1 .. k : m[i] = s[i]
      BY <1>3, <1>5, <3>1
    <3>5. m = r
      BY <1>5, <3>3, <3>4, SameSeq
    <3>. QED
      BY <3>5 DEF r, k
  <2>. HIDE DEF o, m
  <2>. QED
    BY <2>1, <2>2 DEF Nest
<1>7. DOMAIN o = Fields /\ s = Append(Append(m, o), z)
  BY <1>1, <1>3, <1>5 DEF IsForest
<1>. HIDE DEF z, m, o, g
<1>8. DOMAIN x = Fields /\ x.level = o.level /\ x.descr = o.descr /\ x.nested = Append(o.nested, z)
  BY <1>7 DEF Fields
<1>. HIDE DEF x
<1>9. HeadOf(x) = HeadOf(o)
  BY <1>8 DEF HeadOf
<1>10. Calls(B, F, V, Append(Append(m, o), z), NamedIn(f))
  BY <1>1, <1>7
<1>11. NamedIn(Append(f, l)) = NamedIn(f)
  BY <1>2, KindsAre, UnnamedLine
<1>. HIDE DEF V
<1>12. \E C, G : Calls(C, G, V, t, NamedIn(f))
  <2>1. m \in Seq(B) /\ o \in B /\ z \in B
    BY <1>3, <1>5
  <2>2. x.nested = Append(o.nested, z) /\ DOMAIN x = Fields
    BY <1>8
  <2>. QED
    BY <1>9, <1>10, <2>1, <2>2, ClosingKeeps
<1>13. m = <<>> => x.level # "location"
  <2>. SUFFICES ASSUME m = <<>> PROVE x.level # "location"
    OBVIOUS
  <2>1. d = 1
    BY <1>2, <1>5
  <2>2. o = s[1]
    BY <1>3, <2>1 DEF o, Last
  <2>. QED
    BY <1>1, <1>8, <2>2
<1>14. m # <<>> => m[1].level # "location"
  <2>. SUFFICES ASSUME m # <<>> PROVE m[1].level # "location"
    OBVIOUS
  <2>1. 1 \in 1 .. d - 1 /\ 1 \in 1 .. d
    BY <1>2, <1>5
  <2>2. m[1] = s[1]
    BY <1>3, <1>5, <2>1
  <2>. QED
    BY <1>1, <2>2
<1>15. Len(t) = (d - 1) + 1 /\ t # <<>> /\ t[1].level # "location"
  <2>1. m \in Seq(B) /\ Len(m) = d - 1
    BY <1>5
  <2>. QED
    BY <1>13, <1>14, <2>1, FirstStays
<1>. DEFINE e == d - 1
<1>16. e \in Nat /\ e = d + Change(l) /\ Len(t) = e + 1 /\ t # <<>> /\ t[1].level # "location"
  <2>1. Change(l) = -1
    BY KindsAre
  <2>. QED
    BY <1>2, <1>15, <2>1
<1>17. IsBalanced(f, d)
  BY <1>1
<1>. HIDE DEF t, e
<1>18. ReadSoFar(Append(f, l), t, L)
  BY <1>2, <1>11, <1>12, <1>16, <1>17, LineRead DEF V
<1>. QED
  BY <1>6, <1>18

LEMMA NothingRead == \A L : ReadSoFar(<<>>, <<Block("", <<>>)>>, L)
<1>. SUFFICES ASSUME NEW L PROVE ReadSoFar(<<>>, <<Block("", <<>>)>>, L)
  OBVIOUS
<1>. DEFINE b == Block("", <<>>)
            V == ValsIn(L)
            F == [x \in {} |-> {}]
<1>1. DOMAIN b = Fields /\ b.nested = <<>> /\ b.level # "location"
  BY DEF Block, Fields
<1>2. HeadOf(b) = <<>>
  BY <1>1 DEF HeadOf
<1>. HIDE DEF b, V
<1>3. Calls({}, F, V, <<>>, <<>>)
  <2>1. IsForest({})
    BY DEF IsForest
  <2>2. IsListed({}, F, V)
    BY DEF IsListed
  <2>3. Under(F, <<>>) = <<>>
    <3>. HIDE DEF F
    <3>. QED
      BY UnderNone
  <2>4. <<>> \in Seq({})
    BY NoneIs
  <2>. HIDE DEF F
  <2>. QED
    BY <2>1, <2>2, <2>3, <2>4 DEF Calls
<1>. HIDE DEF F
<1>4. HeadOf(b) \in Seq(V)
  BY <1>2, NoneIs
<1>5. \E C, G : Calls(C, G, V, Append(<<>>, b), <<>> \o HeadOf(b))
  BY <1>1, <1>3, <1>4, OpeningKeeps
<1>6. Append(<<>>, b) = <<b>>
  BY OneIs
<1>7. <<>> \o HeadOf(b) = <<>>
  BY <1>2, <1>4, NoneBefore
<1>8. NamedIn(<<>>) = <<>>
  <2>1. [n \in DOMAIN <<>> |-> Opens(<<>>[n])] = <<>>
    OBVIOUS
  <2>. QED
    BY <2>1, FlattenEmpty DEF NamedIn
<1>9. \E C, G : Calls(C, G, V, <<b>>, NamedIn(<<>>))
  BY <1>5, <1>6, <1>7, <1>8
<1>10. IsBalanced(<<>>, 0)
  <2>1. Len(<<>>) = 0 /\ 1 .. 0 = {}
    OBVIOUS
  <2>2. DepthIn(<<>>, 0) = 0
    BY NoneYet
  <2>. QED
    BY <2>1, <2>2 DEF IsBalanced
<1>11. Len(<<b>>) - 1 = 0 /\ <<b>> # <<>> /\ <<b>>[1] = b
  OBVIOUS
<1>12. ReadSoFar(<<>>, <<b>>, L)
  BY <1>1, <1>9, <1>10, <1>11, NoneIs DEF ReadSoFar, V
<1>. QED
  BY <1>12 DEF b

(* What FileIsReadInOrder says of a file and of what was built.             *)
InOrder(f, c) ==
    /\ \A n \in DOMAIN f : DepthIn(f, n) >= 0
    /\ DepthIn(f, Len(f)) = 0
    /\ Len(Locations(c)) = Len(LocationsIn(f))
    /\ \A k \in DOMAIN LocationsIn(f) : Locations(c)[k].route = Last(f[LocationsIn(f)[k]].val)

LEMMA AcceptedInOrder ==
    ASSUME NEW f, NEW s, NEW L, ReadSoFar(f, s, L), Len(s) = 1, ConfigOk(s[1])
    PROVE  InOrder(f, BuildHttp(s[1].nested[1]))
<1>. DEFINE r == s[1]
            names == NamedIn(f)
            V == ValsIn(L)
            lines == LocationsIn(f)
            ls == Locations(BuildHttp(r.nested[1]))
<1>1. PICK B, F, d :
              /\ f \in Seq(L) /\ s \in Seq(B) /\ s # <<>> /\ r.level # "location"
              /\ d \in Nat /\ Len(s) = d + 1 /\ IsBalanced(f, d)
              /\ IsForest(B) /\ Calls(B, F, V, s, names)
  BY ReadIs
<1>2. f \in Seq(L) /\ s \in Seq(B)
  BY <1>1
<1>3. d = 0 /\ IsBalanced(f, 0)
  BY <1>1
<1>4. s = <<r>>
  BY <1>2, OnlyOne
<1>5. Calls(B, F, V, <<r>>, names) /\ r.level # "location" /\ ConfigOk(r)
  BY <1>1, <1>4
<1>. HIDE DEF r
<1>6. Len(ls) = Len(names) /\ \A k \in 1 .. Len(ls) : ls[k].route = Last(names[k])
  <2>. HIDE DEF V, names
  <2>1. AreRouted(Locations(BuildHttp(r.nested[1])), names)
    BY <1>5, BuiltInOrder
  <2>. QED
    BY <2>1 DEF AreRouted
<1>7. /\ Len(lines) = Len(names) /\ lines \in Seq(1 .. Len(f))
      /\ \A k \in 1 .. Len(names) : names[k] = f[lines[k]].val
  BY <1>2, NamesOfLines
<1>. HIDE DEF ls, lines, names
<1>8. DOMAIN lines = 1 .. Len(ls) /\ Len(ls) = Len(lines)
  BY <1>6, <1>7
<1>9. \A k \in DOMAIN lines : ls[k].route = Last(f[lines[k]].val)
  BY <1>6, <1>7, <1>8
<1>10. DOMAIN f = 1 .. Len(f)
  BY <1>2
<1>11. DepthIn(f, Len(f)) = 0 /\ \A n \in DOMAIN f : DepthIn(f, n) >= 0
  BY <1>3, <1>10 DEF IsBalanced
<1>. QED
  BY <1>8, <1>9, <1>11 DEF InOrder, ls, lines, r

LEMMA OrderIs == FileIsReadInOrder <=> \A c \in config : InOrder(file, c)
<1>1. LocationLines = LocationsIn(file)
  BY Zenon DEF LocationLines, LocationsIn
<1>2. \A n : Depth(n) = DepthIn(file, n)
  BY Zenon DEF Depth, Count, DepthIn, OfKind
<1>. QED
  BY <1>1, <1>2, Zenon DEF FileIsReadInOrder, InOrder

(* The lines a file may be made of, and the invariant.                      *)
Lines == UNION {palette[n] : n \in Nat}
IsRead ==
    /\ state = "reading" => ReadSoFar(file, open, Lines)
    /\ state # "built" => config = {}
    /\ \A c \in config : InOrder(file, c)

(* How a line is read: into t, or not at all.                               *)
ReadInto(t) == open' = t /\ UNCHANGED <<state, config>>
NotRead == state' = "refused" /\ config' = config

LEMMA LineIsRead ==
    ASSUME NEW l
    PROVE  /\ Setting(l) => IsSetting(l) /\ (NotRead \/
                 ReadInto(Append(Front(open), InsertSetting(Last(open), l.key, l.val))))
           /\ OpenBlock(l) => IsOpening(l) /\ (NotRead \/ ReadInto(Append(open, Block(l.key, l.val))))
           /\ CloseBlock(l) => IsClosing(l) /\ (NotRead \/ (Len(open) # 1 /\ ReadInto(Nest(open))))
           /\ Comment(l) => IsComment(l) /\ ReadInto(open)
           /\ OtherLine(l) => NotRead
<1>1. Setting(l) => IsSetting(l) /\ (NotRead \/
          ReadInto(Append(Front(open), InsertSetting(Last(open), l.key, l.val))))
  BY Zenon DEF Setting, IsSetting, Refuse, NotRead, ReadInto
<1>2. OpenBlock(l) => IsOpening(l) /\ (NotRead \/ ReadInto(Append(open, Block(l.key, l.val))))
  BY Zenon DEF OpenBlock, IsOpening, Refuse, NotRead, ReadInto
<1>3. CloseBlock(l) => IsClosing(l) /\ (NotRead \/ (Len(open) # 1 /\ ReadInto(Nest(open))))
  BY Zenon DEF CloseBlock, IsClosing, Refuse, NotRead, ReadInto
<1>4. Comment(l) => IsComment(l) /\ ReadInto(open)
  BY Zenon DEF Comment, IsComment, ReadInto
<1>5. OtherLine(l) => NotRead
  BY Zenon DEF OtherLine, Refuse, NotRead
<1>. QED
  BY <1>1, <1>2, <1>3, <1>4, <1>5, Zenon

LEMMA ReadLineKeeps ==
    ASSUME IsRead, ReadLine
    PROVE  IsRead'
<1>. DEFINE L == Lines
<1>1. state = "reading" /\ ReadSoFar(file, open, L) /\ config = {} /\ palette' = palette
  BY DEF ReadLine, IsRead
<1>2. PICK l \in palette[Len(open) - 1] :
        /\ file' = Append(file, l)
        /\ Setting(l) \/ OpenBlock(l) \/ CloseBlock(l) \/ Comment(l) \/ OtherLine(l)
  BY DEF ReadLine
<1>3. l \in L
  <2>. DEFINE d == Len(open) - 1
  <2>1. d \in Nat
    <3>1. \E B : open \in Seq(B) /\ open # <<>>
      BY <1>1, ReadIs
    <3>. QED
      BY <3>1
  <2>2. l \in palette[d]
    BY <1>2
  <2>. HIDE DEF d
  <2>. QED
    BY <2>1, <2>2 DEF Lines
<1>4. L' = L
  BY <1>1 DEF Lines
<1>5. Lines' = L /\ file' = Append(file, l)
  BY <1>2, <1>4
<1>. HIDE DEF L
<1>6. ASSUME NotRead PROVE IsRead'
  <2>1. state' = "refused" /\ config' = {}
    BY <1>1, <1>6 DEF NotRead
  <2>. QED
    BY <2>1 DEF IsRead
<1>7. ASSUME NEW t, ReadInto(t), ReadSoFar(Append(file, l), t, L) PROVE IsRead'
  <2>1. state' = "reading" /\ config' = {} /\ open' = t
    BY <1>1, <1>7 DEF ReadInto
  <2>2. ReadSoFar(file', open', Lines')
    BY <1>5, <1>7, <2>1
  <2>. QED
    BY <2>1, <2>2 DEF IsRead
<1>8. CASE Setting(l)
  BY <1>1, <1>3, <1>6, <1>7, <1>8, LineIsRead, SettingRead
<1>9. CASE OpenBlock(l)
  BY <1>1, <1>3, <1>6, <1>7, <1>9, LineIsRead, OpeningRead
<1>10. CASE CloseBlock(l)
  BY <1>1, <1>3, <1>6, <1>7, <1>10, LineIsRead, ClosingRead
<1>11. CASE Comment(l)
  BY <1>1, <1>3, <1>6, <1>7, <1>11, LineIsRead, CommentRead
<1>12. CASE OtherLine(l)
  BY <1>6, <1>12, LineIsRead
<1>. QED
  BY <1>2, <1>8, <1>9, <1>10, <1>11, <1>12

LEMMA EndOfFileKeeps ==
    ASSUME IsRead, EndOfFile
    PROVE  IsRead'
<1>1. state = "reading" /\ ReadSoFar(file, open, Lines) /\ config = {} /\ file' = file
  BY DEF EndOfFile, IsRead
<1>2. CASE Len(open) = 1 /\ ConfigOk(open[1])
  <2>1. state' = "built" /\ config' = {BuildHttp(open[1].nested[1])}
    BY <1>2 DEF EndOfFile
  <2>2. InOrder(file, BuildHttp(open[1].nested[1]))
    BY <1>1, <1>2, AcceptedInOrder
  <2>3. \A c \in config' : InOrder(file', c)
    BY <1>1, <2>1, <2>2
  <2>. QED
    BY <2>1, <2>3 DEF IsRead
<1>3. CASE ~(Len(open) = 1 /\ ConfigOk(open[1]))
  <2>1. state' = "refused" /\ config' = {}
    BY <1>1, <1>3 DEF EndOfFile
  <2>. QED
    BY <2>1 DEF IsRead
<1>. QED
  BY <1>2, <1>3

LEMMA RestartKeeps ==
    ASSUME Restart
    PROVE  IsRead'
<1>. DEFINE b == <<Block("", <<>>)>>
<1>1. file' = <<>> /\ open' = b /\ config' = {}
  BY Zenon DEF Restart
<1>2. \A L : ReadSoFar(<<>>, b, L)
  BY NothingRead, Zenon
<1>. HIDE DEF b
<1>3. ReadSoFar(file', open', Lines')
  BY <1>1, <1>2
<1>. QED
  BY <1>1, <1>3 DEF IsRead

LEMMA FirstIsRead == CfInit => IsRead
<1>. DEFINE b == <<Block("", <<>>)>>
<1>1. CfInit => file = <<>> /\ open = b /\ config = {}
  BY Zenon DEF CfInit
<1>2. \A L : ReadSoFar(<<>>, b, L)
  BY NothingRead, Zenon
<1>. HIDE DEF b
<1>. QED
  BY <1>1, <1>2 DEF IsRead

LEMMA StepsAreRead == IsRead /\ [CfNext]_cfVars => IsRead'
<1>1. ASSUME IsRead, UNCHANGED cfVars PROVE IsRead'
  <2>1. file' = file /\ open' = open /\ state' = state /\ config' = config /\ Lines' = Lines
    BY <1>1 DEF cfVars, Lines
  <2>. QED
    BY <1>1, <2>1 DEF IsRead
<1>. QED
  BY <1>1, ReadLineKeeps, EndOfFileKeeps, RestartKeeps DEF CfNext

(* ParsedConfig and the builders (BuildConfig).  Whatever lines a file is   *)
(* made of, when it is accepted no block of it is closed that was not open, *)
(* none is left open, and the locations built are those its lines open, in  *)
(* their order: AddNestedConfig puts the blocks back in the order in which  *)
(* their ends take them off the stack.                                      *)
THEOREM FilesAreReadInOrder == CfSpec => []FileIsReadInOrder
<1>1. IsRead => FileIsReadInOrder
  BY OrderIs DEF IsRead
<1>. QED
  BY <1>1, FirstIsRead, StepsAreRead, PTL DEF CfSpec

=============================================================================
