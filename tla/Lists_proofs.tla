----------------------------- MODULE Lists_proofs -----------------------------
(***************************************************************************)
(* Facts about natural numbers and sequences that the proofs about         *)
(* requests, sites and targets share: induction without an operator        *)
(* parameter, the least element of a set, and what FlattenSeq computes.    *)
(***************************************************************************)
EXTENDS SequencesExt, Integers, WellFoundedInduction, SequenceTheorems, TLAPS

-----------------------------------------------------------------------------
(* Numbers.                                                                 *)

(* A non-empty set of numbers has a least one, which Min returns.           *)
LEMMA LeastOfRelation ==
    ASSUME NEW R, IsWellFoundedOn(R, Nat),
           \A x, y \in Nat : <<y, x>> \in R <=> y < x,
           NEW S \in SUBSET Nat, S # {}
    PROVE  \E x \in S : \A y \in S : x <= y
<1>1. PICK x \in S : \A y \in S : ~(<<y, x>> \in R)
  BY WFMin
<1>2. x \in Nat /\ \A y \in S : y \in Nat /\ ~(y < x)
  BY <1>1
<1>. QED
  BY <1>2

LEMMA MinOfNats ==
    ASSUME NEW S \in SUBSET Nat, S # {}
    PROVE  Min(S) \in S /\ \A i \in S : Min(S) <= i
<1>1. \A x, y \in Nat : <<y, x>> \in OpToRel(<, Nat) <=> y < x
  BY DEF OpToRel
<1>2. \E x \in S : \A y \in S : x <= y
  BY <1>1, NatLessThanWellFounded, LeastOfRelation, Zenon
<1>. QED
  BY <1>2 DEF Min

LEMMA MinIs ==
    ASSUME NEW S \in SUBSET Nat, NEW x \in S, \A y \in S : x <= y
    PROVE  Min(S) = x
<1>. DEFINE m == Min(S)
<1>1. m \in S /\ \A y \in S : m <= y
  BY MinOfNats, Zenon
<1>2. m \in Nat /\ m <= x /\ x <= m
  BY <1>1
<1>. HIDE DEF m
<1>3. m = x
  BY <1>2
<1>. QED
  BY <1>3 DEF m

(* Induction over the numbers, for the set of those that satisfy a claim.   *)
LEMMA Induction ==
    ASSUME NEW S, 0 \in S, \A n \in Nat : n \in S => n + 1 \in S
    PROVE  \A n \in Nat : n \in S
<1>. SUFFICES ASSUME Nat \ S # {} PROVE FALSE
  OBVIOUS
<1>. DEFINE m == Min(Nat \ S)
<1>1. m \in Nat \ S /\ \A i \in Nat \ S : m <= i
  BY MinOfNats
<1>2. m # 0
  BY <1>1
<1>3. m - 1 \in S
  BY <1>1, <1>2
<1>. QED
  BY <1>1, <1>2, <1>3

LEMMA InToSet ==
    ASSUME NEW S, NEW w \in Seq(S), NEW i \in 1 .. Len(w)
    PROVE  w[i] \in ToSet(w)
BY DEF ToSet

(* A function on the first numbers is a sequence.                           *)
LEMMA FunctionIsSeq ==
    ASSUME NEW S, NEW n \in Nat, NEW f \in [1 .. n -> S]
    PROVE  f \in Seq(S) /\ Len(f) = n
OBVIOUS

-----------------------------------------------------------------------------
(* FlattenSeq.                                                              *)

(* The concatenation of the first elements, as FlattenSeq recurs.           *)
Glued(g, seqs, n) ==
    g = [i \in 1 .. n |-> IF i = 1 THEN seqs[i] ELSE g[i - 1] \o seqs[i]]

LEMMA GluedExists ==
    ASSUME NEW seqs
    PROVE  \A n \in Nat : \E g : Glued(g, seqs, n)
<1>. DEFINE S == {n \in Nat : \E g : Glued(g, seqs, n)}
<1>1. 0 \in S
  <2>. DEFINE g == [i \in 1 .. 0 |-> seqs[i]]
  <2>1. Glued(g, seqs, 0)
    BY DEF Glued
  <2>. QED
    BY <2>1
<1>2. ASSUME NEW n \in Nat, n \in S PROVE n + 1 \in S
  <2>1. PICK g : Glued(g, seqs, n)
    BY <1>2
  <2>. DEFINE h == [i \in 1 .. n + 1 |->
                      IF i \in 1 .. n THEN g[i]
                      ELSE IF i = 1 THEN seqs[i] ELSE g[i - 1] \o seqs[i]]
  <2>2. ASSUME NEW i \in 1 .. n + 1
        PROVE  h[i] = IF i = 1 THEN seqs[i] ELSE h[i - 1] \o seqs[i]
    <3>1. CASE i \in 1 .. n
      <4>1. i # 1 => h[i - 1] = g[i - 1]
        BY <3>1
      <4>2. g[i] = IF i = 1 THEN seqs[i] ELSE g[i - 1] \o seqs[i]
        BY <2>1, <3>1 DEF Glued
      <4>. QED
        BY <3>1, <4>1, <4>2
    <3>2. CASE i = n + 1
      <4>1. i # 1 => h[i - 1] = g[i - 1]
        BY <3>2
      <4>. QED
        BY <3>2, <4>1
    <3>. QED
      BY <3>1, <3>2
  <2>3. Glued(h, seqs, n + 1)
    BY <2>2 DEF Glued
  <2>. QED
    BY <2>3
<1>. HIDE DEF S
<1>3. \A n \in Nat : n \in S
  BY <1>1, <1>2, Induction
<1>. QED
  BY <1>3 DEF S

LEMMA GluedAt ==
    ASSUME NEW g, NEW seqs, NEW n, Glued(g, seqs, n), NEW i \in Nat, i + 1 \in 1 .. n
    PROVE  g[i + 1] = IF i = 0 THEN seqs[i + 1] ELSE g[i] \o seqs[i + 1]
<1>1. g[i + 1] = IF i + 1 = 1 THEN seqs[i + 1] ELSE g[(i + 1) - 1] \o seqs[i + 1]
  BY Zenon DEF Glued
<1>2. (i + 1) - 1 = i /\ (i + 1 = 1 <=> i = 0)
  OBVIOUS
<1>. QED
  BY <1>1, <1>2

LEMMA FlattenSeqUnfolds ==
    ASSUME NEW seqs, Len(seqs) \in Nat \ {0}
    PROVE  \E g : Glued(g, seqs, Len(seqs)) /\ FlattenSeq(seqs) = g[Len(seqs)]
<1>. DEFINE G == CHOOSE g : Glued(g, seqs, Len(seqs))
<1>1. Glued(G, seqs, Len(seqs))
  BY GluedExists
<1>2. FlattenSeq(seqs) = G[Len(seqs)]
  BY DEF FlattenSeq, Glued
<1>. QED
  BY <1>1, <1>2

-----------------------------------------------------------------------------
(* Where a sequence stands in another: w follows the first c elements of s. *)
Occurs(w, s, c) ==
    /\ c \in Nat
    /\ c + Len(w) <= Len(s)
    /\ \A i \in 1 .. Len(w) : s[c + i] = w[i]

LEMMA OccursInConcat ==
    ASSUME NEW S, NEW u \in Seq(S), NEW v \in Seq(S)
    PROVE  Occurs(u, u \o v, 0) /\ Occurs(v, u \o v, Len(u))
BY DEF Occurs

LEMMA ConcatLen ==
    ASSUME NEW S, NEW u \in Seq(S), NEW v \in Seq(S)
    PROVE  /\ u \o v \in Seq(S) /\ Len(u \o v) = Len(u) + Len(v)
           /\ Len(u) \in Nat /\ Len(v) \in Nat
BY ConcatProperties

LEMMA OccursWithin ==
    ASSUME NEW S, NEW w \in Seq(S), NEW v \in Seq(S), NEW s \in Seq(S),
           NEW a, NEW b, Occurs(w, v, a), Occurs(v, s, b)
    PROVE  Occurs(w, s, b + a)
<1>. a \in Nat /\ b \in Nat /\ b + a \in Nat
  BY DEF Occurs
<1>1. (b + a) + Len(w) <= Len(s)
  BY DEF Occurs
<1>2. ASSUME NEW i \in 1 .. Len(w) PROVE s[(b + a) + i] = w[i]
  <2>1. a + i \in 1 .. Len(v) /\ b + (a + i) = (b + a) + i
    BY DEF Occurs
  <2>. QED
    BY <2>1 DEF Occurs
<1>. QED
  BY <1>1, <1>2 DEF Occurs

(* Taking elements off the front, and adding those that follow.             *)
LEMMA OccursDropped ==
    ASSUME NEW S, NEW b \in Seq(S), NEW s, NEW c, Occurs(b, s, c), NEW n \in 0 .. Len(b)
    PROVE  /\ Len(SubSeq(b, n + 1, Len(b))) = Len(b) - n
           /\ Occurs(SubSeq(b, n + 1, Len(b)), s, c + n)
<1>. DEFINE d == SubSeq(b, n + 1, Len(b))
<1>1. /\ Len(b) \in Nat /\ n \in Nat /\ c \in Nat /\ c + n \in Nat
      /\ c + Len(b) <= Len(s)
  BY DEF Occurs
<1>2. Len(d) = Len(b) - n
  BY <1>1
<1>3. \A i \in 1 .. Len(b) - n : d[i] = b[n + i]
  BY <1>1
<1>4. ASSUME NEW i \in 1 .. Len(d) PROVE s[(c + n) + i] = d[i]
  <2>1. n + i \in 1 .. Len(b) /\ c + (n + i) = (c + n) + i
    BY <1>1, <1>2
  <2>2. s[c + (n + i)] = b[n + i]
    BY <2>1 DEF Occurs
  <2>. QED
    BY <1>2, <1>3, <2>1, <2>2
<1>5. (c + n) + Len(d) = c + Len(b)
  <2>. DEFINE e == Len(d)
              f == Len(b)
  <2>1. f \in Nat /\ e = f - n
    BY <1>1, <1>2
  <2>. HIDE DEF e, f
  <2>2. (c + n) + e = c + f
    BY <1>1, <2>1
  <2>. QED
    BY <2>2 DEF e, f
<1>. HIDE DEF d
<1>6. Occurs(d, s, c + n)
  BY <1>1, <1>4, <1>5 DEF Occurs
<1>. QED
  BY <1>2, <1>6 DEF d

LEMMA OccursExtended ==
    ASSUME NEW S, NEW b \in Seq(S), NEW s \in Seq(S), NEW c, Occurs(b, s, c),
           NEW to \in Nat, c + Len(b) <= to, to <= Len(s)
    PROVE  LET d == b \o SubSeq(s, c + Len(b) + 1, to)
           IN  Len(d) = to - c /\ Occurs(d, s, c)
<1>. DEFINE m == c + Len(b)
            t == SubSeq(s, m + 1, to)
            d == b \o t
<1>1. /\ Len(b) \in Nat /\ c \in Nat /\ m \in Nat /\ Len(s) \in Nat
  BY DEF Occurs
<1>2. t \in Seq(S) /\ Len(t) = to - m /\ \A i \in 1 .. to - m : t[i] = s[m + i]
  BY <1>1
<1>. HIDE DEF t
<1>3. d \in Seq(S) /\ Len(d) = Len(b) + Len(t)
  BY <1>2, ConcatLen
<1>4. Len(d) = to - c
  BY <1>1, <1>2, <1>3
<1>5. ASSUME NEW i \in 1 .. Len(d) PROVE s[c + i] = d[i]
  <2>1. CASE i <= Len(b)
    <3>1. d[i] = b[i] /\ i \in 1 .. Len(b)
      BY <1>2, <2>1
    <3>. QED
      BY <3>1 DEF Occurs
  <2>2. CASE i > Len(b)
    <3>1. d[i] = t[i - Len(b)]
      BY <1>1, <1>2, <1>3, <2>2, ConcatProperties
    <3>2. i - Len(b) \in 1 .. to - m /\ m + (i - Len(b)) = c + i
      BY <1>1, <1>4, <2>2
    <3>. QED
      BY <1>2, <3>1, <3>2
  <2>. QED
    BY <1>1, <2>1, <2>2
<1>. HIDE DEF d
<1>6. Occurs(d, s, c)
  BY <1>1, <1>4, <1>5 DEF Occurs
<1>. QED
  BY <1>4, <1>6 DEF d, t

-----------------------------------------------------------------------------
(* The concatenation of the first n elements.                               *)
FirstOf(seqs, n) == FlattenSeq(SubSeq(seqs, 1, n))

LEMMA FlattenEmpty == FlattenSeq(<<>>) = <<>>
BY DEF FlattenSeq

LEMMA FirstOfUnfolds ==
    ASSUME NEW S, NEW seqs \in Seq(Seq(S)), NEW g, Glued(g, seqs, Len(seqs))
    PROVE  \A n \in Nat : n \in 1 .. Len(seqs) => FirstOf(seqs, n) = g[n]
<1>. SUFFICES ASSUME NEW m \in Nat, m \in 1 .. Len(seqs) PROVE FirstOf(seqs, m) = g[m]
  OBVIOUS
<1>. DEFINE part == SubSeq(seqs, 1, m)
<1>1. /\ part \in Seq(Seq(S)) /\ Len(part) = m
      /\ \A i \in 1 .. m : part[i] = seqs[i]
  OBVIOUS
<1>. HIDE DEF part
<1>2. PICK h : Glued(h, part, Len(part)) /\ FlattenSeq(part) = h[Len(part)]
  BY <1>1, FlattenSeqUnfolds
<1>. DEFINE T == {n \in Nat : n \in 1 .. m => h[n] = g[n]}
<1>3. 0 \in T
  OBVIOUS
<1>4. ASSUME NEW n \in Nat, n \in T PROVE n + 1 \in T
  <2>. SUFFICES ASSUME n + 1 \in 1 .. m PROVE h[n + 1] = g[n + 1]
    OBVIOUS
  <2>1. n + 1 \in 1 .. Len(seqs) /\ n + 1 \in 1 .. Len(part)
    BY <1>1
  <2>2. h[n + 1] = IF n = 0 THEN part[n + 1] ELSE h[n] \o part[n + 1]
    BY <1>2, <2>1, GluedAt
  <2>3. g[n + 1] = IF n = 0 THEN seqs[n + 1] ELSE g[n] \o seqs[n + 1]
    BY <2>1, GluedAt
  <2>4. n # 0 => h[n] = g[n]
    BY <1>4
  <2>. QED
    BY <1>1, <2>2, <2>3, <2>4
<1>. HIDE DEF T
<1>5. \A n \in Nat : n \in T
  BY <1>3, <1>4, Induction
<1>. QED
  BY <1>1, <1>2, <1>5 DEF T, FirstOf, part

(* Concatenation takes one element after the other.                         *)
LEMMA FirstOfSteps ==
    ASSUME NEW S, NEW seqs \in Seq(Seq(S))
    PROVE  /\ FirstOf(seqs, 0) = <<>>
           /\ FirstOf(seqs, Len(seqs)) = FlattenSeq(seqs)
           /\ \A n \in 0 .. Len(seqs) - 1 :
                FirstOf(seqs, n + 1) = FirstOf(seqs, n) \o seqs[n + 1]
<1>1. FirstOf(seqs, 0) = <<>>
  <2>1. SubSeq(seqs, 1, 0) = <<>>
    OBVIOUS
  <2>. QED
    BY <2>1, FlattenEmpty, Zenon DEF FirstOf
<1>2. FirstOf(seqs, Len(seqs)) = FlattenSeq(seqs)
  BY SubSeqFull, Zenon DEF FirstOf
<1>3. ASSUME NEW n \in 0 .. Len(seqs) - 1
      PROVE  FirstOf(seqs, n + 1) = FirstOf(seqs, n) \o seqs[n + 1]
  <2>1. PICK g : Glued(g, seqs, Len(seqs))
    <3>1. Len(seqs) \in Nat
      OBVIOUS
    <3>. QED
      BY <3>1, GluedExists, Zenon
  <2>2. \A i \in 1 .. Len(seqs) : FirstOf(seqs, i) = g[i]
    BY <2>1, FirstOfUnfolds
  <2>3. g[n + 1] = IF n = 0 THEN seqs[n + 1] ELSE g[n] \o seqs[n + 1]
    <3>1. n \in Nat /\ n + 1 \in 1 .. Len(seqs)
      OBVIOUS
    <3>. QED
      BY <2>1, <3>1, GluedAt, Zenon
  <2>4. seqs[n + 1] \in Seq(S)
    OBVIOUS
  <2>5. CASE n = 0
    BY <1>1, <2>2, <2>3, <2>4, <2>5
  <2>6. CASE n # 0
    <3>1. FirstOf(seqs, n) = g[n] /\ FirstOf(seqs, n + 1) = g[n + 1]
      BY <2>2, <2>6
    <3>. QED
      BY <2>3, <2>6, <3>1
  <2>. QED
    BY <2>5, <2>6
<1>. QED
  BY <1>1, <1>2, <1>3

LEMMA FirstOfType ==
    ASSUME NEW S, NEW seqs \in Seq(Seq(S))
    PROVE  \A n \in 0 .. Len(seqs) : FirstOf(seqs, n) \in Seq(S)
<1>. DEFINE T == {n \in Nat : n \in 0 .. Len(seqs) => FirstOf(seqs, n) \in Seq(S)}
<1>1. 0 \in T
  <2>1. FirstOf(seqs, 0) = <<>>
    BY FirstOfSteps
  <2>2. <<>> \in Seq(S)
    OBVIOUS
  <2>3. FirstOf(seqs, 0) \in Seq(S)
    BY <2>1, <2>2, Zenon
  <2>. QED
    BY <2>3, Zenon
<1>2. ASSUME NEW n \in Nat, n \in T PROVE n + 1 \in T
  <2>. SUFFICES ASSUME n + 1 \in 0 .. Len(seqs) PROVE FirstOf(seqs, n + 1) \in Seq(S)
    OBVIOUS
  <2>1. n \in 0 .. Len(seqs) - 1 /\ seqs[n + 1] \in Seq(S) /\ FirstOf(seqs, n) \in Seq(S)
    BY <1>2
  <2>2. FirstOf(seqs, n + 1) = FirstOf(seqs, n) \o seqs[n + 1]
    BY <2>1, FirstOfSteps
  <2>. QED
    BY <2>1, <2>2, ConcatProperties
<1>. HIDE DEF T
<1>3. \A n \in Nat : n \in T
  BY <1>1, <1>2, Induction
<1>. QED
  BY <1>3 DEF T

LEMMA FlattenType ==
    ASSUME NEW S, NEW seqs \in Seq(Seq(S))
    PROVE  FlattenSeq(seqs) \in Seq(S)
BY FirstOfType, FirstOfSteps

(* Every element stands behind those before it.                             *)
LEMMA ElementOccurs ==
    ASSUME NEW S, NEW seqs \in Seq(Seq(S)), NEW n \in 0 .. Len(seqs) - 1
    PROVE  /\ Len(FirstOf(seqs, n + 1)) = Len(FirstOf(seqs, n)) + Len(seqs[n + 1])
           /\ Occurs(seqs[n + 1], FlattenSeq(seqs), Len(FirstOf(seqs, n)))
<1>. DEFINE T == {m \in Nat : n + 1 <= m /\ m <= Len(seqs) =>
                     Occurs(seqs[n + 1], FirstOf(seqs, m), Len(FirstOf(seqs, n)))}
<1>1. seqs[n + 1] \in Seq(S) /\ FirstOf(seqs, n) \in Seq(S)
  BY FirstOfType
<1>2. FirstOf(seqs, n + 1) = FirstOf(seqs, n) \o seqs[n + 1]
  BY FirstOfSteps
<1>3. 0 \in T
  OBVIOUS
<1>4. ASSUME NEW m \in Nat, m \in T PROVE m + 1 \in T
  <2>. SUFFICES ASSUME n + 1 <= m + 1, m + 1 <= Len(seqs)
       PROVE  Occurs(seqs[n + 1], FirstOf(seqs, m + 1), Len(FirstOf(seqs, n)))
    OBVIOUS
  <2>1. CASE m = n
    BY <1>1, <1>2, <2>1, OccursInConcat
  <2>2. CASE m # n
    <3>1. /\ FirstOf(seqs, m + 1) = FirstOf(seqs, m) \o seqs[m + 1]
          /\ FirstOf(seqs, m) \in Seq(S) /\ seqs[m + 1] \in Seq(S)
      BY FirstOfSteps, FirstOfType
    <3>2. Occurs(FirstOf(seqs, m), FirstOf(seqs, m + 1), 0)
      BY <3>1, OccursInConcat
    <3>3. Occurs(seqs[n + 1], FirstOf(seqs, m), Len(FirstOf(seqs, n)))
      BY <1>4, <2>2
    <3>4. FirstOf(seqs, m + 1) \in Seq(S)
      BY <3>1, ConcatProperties
    <3>5. Occurs(seqs[n + 1], FirstOf(seqs, m + 1), 0 + Len(FirstOf(seqs, n)))
      BY <1>1, <3>1, <3>2, <3>3, <3>4, OccursWithin
    <3>6. 0 + Len(FirstOf(seqs, n)) = Len(FirstOf(seqs, n))
      BY <1>1
    <3>. QED
      BY <3>5, <3>6
  <2>. QED
    BY <2>1, <2>2
<1>. HIDE DEF T
<1>5. \A m \in Nat : m \in T
  BY <1>3, <1>4, Induction
<1>6. Occurs(seqs[n + 1], FirstOf(seqs, Len(seqs)), Len(FirstOf(seqs, n)))
  BY <1>5 DEF T
<1>. QED
  BY <1>1, <1>2, <1>6, FirstOfSteps
-----------------------------------------------------------------------------
(* Folds.                                                                   *)

(* A non-empty set of numbers with a bound has a greatest one.              *)
LEMMA MaxOfRange ==
    ASSUME NEW n \in Nat, NEW S \in SUBSET (1 .. n), S # {}
    PROVE  Max(S) \in S /\ \A i \in S : i <= Max(S)
<1>. DEFINE T == {k \in Nat : n - k \in S}
            m == n - Min(T)
<1>1. PICK i \in S : TRUE
  OBVIOUS
<1>2. n - i \in T
  BY <1>1
<1>3. T \in SUBSET Nat /\ T # {}
  BY <1>2
<1>4. Min(T) \in T /\ \A k \in T : Min(T) <= k
  BY <1>3, MinOfNats
<1>5. m \in S /\ m \in Int
  BY <1>4
<1>6. \A j \in S : j <= m
  <2>. TAKE j \in S
  <2>1. n - j \in T
    OBVIOUS
  <2>2. Min(T) <= n - j /\ Min(T) \in Nat /\ j \in Int
    BY <1>4, <2>1
  <2>. HIDE DEF T
  <2>. QED
    BY <2>2
<1>. HIDE DEF m
<1>. QED
  BY <1>5, <1>6 DEF Max

(* The places 1 to m + 1: the last is the greatest, and m are before it.    *)
LEMMA LastOfRange ==
    ASSUME NEW m \in Nat
    PROVE  Max(1 .. m + 1) = m + 1 /\ (1 .. m + 1) \ {m + 1} = 1 .. m /\ 1 .. m + 1 # {}
<1>1. 1 .. m + 1 \in SUBSET (1 .. m + 1) /\ m + 1 \in 1 .. m + 1 /\ m + 1 \in Nat /\ 1 .. m + 1 # {}
  OBVIOUS
<1>2. Max(1 .. m + 1) \in 1 .. m + 1 /\ m + 1 <= Max(1 .. m + 1)
  BY <1>1, MaxOfRange, Zenon
<1>3. Max(1 .. m + 1) = m + 1
  <2>. DEFINE k == Max(1 .. m + 1)
  <2>. HIDE DEF k
  <2>1. k \in 1 .. m + 1 /\ m + 1 <= k
    BY <1>2 DEF k
  <2>2. k = m + 1
    BY <2>1
  <2>. QED
    BY <2>2 DEF k
<1>4. (1 .. m + 1) \ {m + 1} = 1 .. m
  OBVIOUS
<1>. QED
  BY <1>1, <1>3, <1>4

(* The table FoldLeft is read from exists.                                  *)
Folds(g, n, base, step) ==
    \A s \in SUBSET (1 .. n) : g[s] = IF s = {} THEN base ELSE step[g[s \ {Max(s)}], Max(s)]

LEMMA FoldExists ==
    ASSUME NEW V, NEW n \in Nat, NEW base \in V, NEW step \in [V \X (1 .. n) -> V]
    PROVE  \E g \in [SUBSET (1 .. n) -> V] : Folds(g, n, base, step)
<1>. DEFINE P(m) == \E g \in [SUBSET (1 .. m) -> V] : Folds(g, m, base, step)
            S == {m \in Nat : m <= n => P(m)}
<1>1. 0 \in S
  <2>. DEFINE g == [s \in SUBSET (1 .. 0) |-> base]
  <2>1. \A s \in SUBSET (1 .. 0) : s = {}
    <3>1. 1 .. 0 = {}
      OBVIOUS
    <3>. QED
      BY <3>1
  <2>2. g \in [SUBSET (1 .. 0) -> V] /\ Folds(g, 0, base, step)
    BY <2>1 DEF Folds
  <2>3. P(0)
    BY <2>2
  <2>. HIDE DEF P
  <2>. QED
    BY <2>3
<1>2. ASSUME NEW m \in Nat, m <= n => P(m), m + 1 <= n PROVE P(m + 1)
  <2>. HIDE DEF P
  <2>1. P(m) /\ m <= n /\ m + 1 \in 1 .. n
    BY <1>2
  <2>2. PICK g \in [SUBSET (1 .. m) -> V] : Folds(g, m, base, step)
    BY <2>1 DEF P
  <2>. DEFINE k == m + 1
              h == [s \in SUBSET (1 .. k) |-> IF k \in s THEN step[g[s \ {k}], k] ELSE g[s]]
  <2>3. ASSUME NEW s \in SUBSET (1 .. k)
        PROVE  /\ k \in s => s \ {k} \in SUBSET (1 .. m) /\ s # {} /\ Max(s) = k
               /\ k \notin s => s \in SUBSET (1 .. m)
    <3>1. CASE k \in s
      <4>1. k \in Nat /\ s # {}
        BY <3>1
      <4>2. Max(s) \in s /\ k <= Max(s)
        BY <3>1, <4>1, MaxOfRange, Zenon
      <4>3. Max(s) \in 1 .. k
        BY <4>2
      <4>4. Max(s) = k
        BY <4>2, <4>3
      <4>5. s \ {k} \in SUBSET (1 .. m)
        OBVIOUS
      <4>. QED
        BY <4>1, <4>4, <4>5
    <3>2. CASE k \notin s
      BY <3>2
    <3>. QED
      BY <3>1, <3>2
  <2>4. h \in [SUBSET (1 .. k) -> V]
    <3>1. ASSUME NEW s \in SUBSET (1 .. k)
          PROVE  (IF k \in s THEN step[g[s \ {k}], k] ELSE g[s]) \in V
      <4>1. k \in 1 .. n
        BY <2>1
      <4>2. CASE k \in s
        <5>1. g[s \ {k}] \in V
          BY <2>2, <2>3, <4>2
        <5>. QED
          BY <4>1, <4>2, <5>1
      <4>3. CASE k \notin s
        BY <2>2, <2>3, <4>3
      <4>. QED
        BY <4>2, <4>3
    <3>. QED
      BY <3>1
  <2>5. ASSUME NEW s \in SUBSET (1 .. k)
        PROVE  h[s] = IF s = {} THEN base ELSE step[h[s \ {Max(s)}], Max(s)]
    <3>1. CASE k \in s
      <4>1. /\ s \ {k} \in SUBSET (1 .. m) /\ s # {} /\ Max(s) = k
            /\ h[s] = step[g[s \ {k}], k]
        BY <2>3, <3>1
      <4>2. s \ {k} \in SUBSET (1 .. k) /\ k \notin s \ {k}
        OBVIOUS
      <4>3. h[s \ {k}] = g[s \ {k}]
        BY <4>2
      <4>. HIDE DEF h
      <4>. QED
        BY <4>1, <4>3
    <3>2. CASE k \notin s /\ s = {}
      <4>1. {} \in SUBSET (1 .. m)
        OBVIOUS
      <4>2. g[{}] = base
        BY <2>2, <4>1 DEF Folds
      <4>. QED
        BY <3>2, <4>2
    <3>3. CASE k \notin s /\ s # {}
      <4>1. s \in SUBSET (1 .. m)
        BY <2>3, <3>3
      <4>2. g[s] = step[g[s \ {Max(s)}], Max(s)]
        BY <2>2, <3>3, <4>1 DEF Folds
      <4>3. s \ {Max(s)} \in SUBSET (1 .. k) /\ k \notin s \ {Max(s)}
        BY <3>3
      <4>4. h[s] = g[s] /\ h[s \ {Max(s)}] = g[s \ {Max(s)}]
        BY <3>3, <4>3
      <4>. HIDE DEF h
      <4>. QED
        BY <3>3, <4>2, <4>4
    <3>. QED
      BY <3>1, <3>2, <3>3
  <2>. HIDE DEF h
  <2>6. Folds(h, k, base, step)
    BY <2>5 DEF Folds
  <2>. QED
    BY <2>4, <2>6 DEF P
<1>. HIDE DEF P
<1>3. \A m \in Nat : m \in S => m + 1 \in S
  BY <1>2
<1>. HIDE DEF S
<1>4. \A m \in Nat : m \in S
  BY <1>1, <1>3, Induction
<1>5. P(n)
  BY <1>4 DEF S
<1>. QED
  BY <1>5 DEF P

-----------------------------------------------------------------------------
(* What stands at the head and at the end of a sequence.                    *)

LEMMA PrefixIs ==
    ASSUME NEW S, NEW u \in Seq(S), NEW v \in Seq(S)
    PROVE  IsPrefix(u, v) <=> Len(u) <= Len(v) /\ \A i \in 1 .. Len(u) : u[i] = v[i]
<1>1. CASE Len(u) <= Len(v)
  <2>. DEFINE a == SubSeq(u, 1, Len(u))
              b == SubSeq(v, 1, Len(u))
  <2>1. a \in Seq(S) /\ Len(a) = Len(u) /\ \A i \in 1 .. Len(u) : a[i] = u[i]
    OBVIOUS
  <2>2. b \in Seq(S) /\ Len(b) = Len(u) /\ \A i \in 1 .. Len(u) : b[i] = v[i]
    BY <1>1
  <2>3. IsPrefix(u, v) <=> a = b
    BY <1>1 DEF IsPrefix
  <2>. HIDE DEF a, b
  <2>4. a = b <=> \A i \in 1 .. Len(u) : a[i] = b[i]
    BY <2>1, <2>2, SeqEqual
  <2>. QED
    BY <1>1, <2>1, <2>2, <2>3, <2>4
<1>2. CASE ~(Len(u) <= Len(v))
  BY <1>2 DEF IsPrefix
<1>. QED
  BY <1>1, <1>2

LEMMA ReverseIs ==
    ASSUME NEW S, NEW u \in Seq(S)
    PROVE  /\ Reverse(u) \in Seq(S) /\ Len(Reverse(u)) = Len(u)
           /\ \A i \in 1 .. Len(u) : Reverse(u)[i] = u[(Len(u) - i) + 1]
<1>1. \A i \in 1 .. Len(u) : (Len(u) - i) + 1 \in 1 .. Len(u)
  OBVIOUS
<1>2. Reverse(u) = [i \in 1 .. Len(u) |-> u[(Len(u) - i) + 1]]
  BY DEF Reverse
<1>. QED
  BY <1>1, <1>2

LEMMA SuffixIs ==
    ASSUME NEW S, NEW u \in Seq(S), NEW v \in Seq(S)
    PROVE  IsSuffix(u, v) <=>
             Len(u) <= Len(v) /\ \A i \in 1 .. Len(u) : u[i] = v[(Len(v) - Len(u)) + i]
<1>. DEFINE a == Reverse(u)
            b == Reverse(v)
            n == Len(u)
            m == Len(v)
<1>1. /\ a \in Seq(S) /\ Len(a) = n /\ \A i \in 1 .. n : a[i] = u[(n - i) + 1]
      /\ b \in Seq(S) /\ Len(b) = m /\ \A i \in 1 .. m : b[i] = v[(m - i) + 1]
      /\ n \in Nat /\ m \in Nat
  BY ReverseIs
<1>2. IsSuffix(u, v) <=> IsPrefix(a, b)
  BY DEF IsSuffix
<1>. HIDE DEF a, b, n, m
<1>3. IsPrefix(a, b) <=> n <= m /\ \A i \in 1 .. n : a[i] = b[i]
  <2>. a \in Seq(S) /\ b \in Seq(S)
    BY <1>1
  <2>1. IsPrefix(a, b) <=> Len(a) <= Len(b) /\ \A i \in 1 .. Len(a) : a[i] = b[i]
    BY PrefixIs
  <2>. QED
    BY <1>1, <2>1, Zenon
<1>4. ASSUME n <= m, \A i \in 1 .. n : a[i] = b[i], NEW i \in 1 .. n PROVE u[i] = v[(m - n) + i]
  <2>1. (n - i) + 1 \in 1 .. n /\ (n - i) + 1 \in 1 .. m
    BY <1>1, <1>4
  <2>2. (n - ((n - i) + 1)) + 1 = i /\ (m - ((n - i) + 1)) + 1 = (m - n) + i
    BY <1>1
  <2>3. a[(n - i) + 1] = b[(n - i) + 1]
    BY <1>4, <2>1
  <2>4. a[(n - i) + 1] = u[(n - ((n - i) + 1)) + 1] /\ b[(n - i) + 1] = v[(m - ((n - i) + 1)) + 1]
    BY <1>1, <2>1
  <2>. QED
    BY <2>2, <2>3, <2>4
<1>5. ASSUME n <= m, \A i \in 1 .. n : u[i] = v[(m - n) + i], NEW i \in 1 .. n PROVE a[i] = b[i]
  <2>1. (n - i) + 1 \in 1 .. n /\ i \in 1 .. m /\ (m - n) + ((n - i) + 1) = (m - i) + 1
    BY <1>1, <1>5
  <2>2. u[(n - i) + 1] = v[(m - n) + ((n - i) + 1)]
    BY <1>5, <2>1
  <2>. QED
    BY <1>1, <2>1, <2>2
<1>6. IsSuffix(u, v) <=> n <= m /\ \A i \in 1 .. n : u[i] = v[(m - n) + i]
  BY <1>2, <1>3, <1>4, <1>5
<1>. QED
  BY <1>6 DEF n, m

=============================================================================
