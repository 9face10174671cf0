-------------------------- MODULE TckProjectionProofs --------------------------
(***************************************************************************)
(* Proofs about TckProjection, for feature files with any number of        *)
(* scenarios, tables and steps, any ledger of reviews, any parser and any  *)
(* exclusions: a finished projection tells what the ledger tells, its      *)
(* occurrences are told apart and agree, and the gate's verdict and        *)
(* numbers are honest.                                                     *)
(***************************************************************************)
EXTENDS TckProjection, FiniteSetTheorems, NaturalsInduction, WellFoundedInduction,
        TLAPS

-----------------------------------------------------------------------------
(* Numbers.                                                                *)

(* A set of numbers that holds a number follows to hold holds them all.    *)
LEMMA Upwards ==
    ASSUME NEW n \in Nat, NEW P,
           \A i \in 1..n : (i > 1 => i - 1 \in P) => i \in P
    PROVE  \A i \in 1..n : i \in P
<1> DEFINE S == {i \in 1..n : i \notin P}
<1> SUFFICES ASSUME S # {} PROVE FALSE
  OBVIOUS
<1> DEFINE R == {xy \in Nat \X Nat : xy[1] < xy[2]}
<1>1. \A x, y \in Nat : x < y => <<x, y>> \in R
  OBVIOUS
<1>2. PICK i \in S : \A x \in S : i <= x
  <2>1. IsWellFoundedOn(R, Nat)
    BY NatLessThanWellFounded DEF OpToRel
  <2>2. S \subseteq Nat
    OBVIOUS
  <2> HIDE DEF R, S
  <2>3. PICK m \in S : \A y \in S : ~(<<y, m>> \in R)
    BY <2>1, <2>2, WFMin
  <2>4. ASSUME NEW y \in S PROVE m <= y
    <3>1. ~(y < m)
      BY <1>1, <2>2, <2>3
    <3> QED BY <2>2, <3>1
  <2> QED BY <2>4
<1> HIDE DEF R
<1>3. i \in 1..n /\ i \notin P
  OBVIOUS
<1>4. i > 1 => i - 1 \in P
  <2> SUFFICES ASSUME i > 1, i - 1 \notin P PROVE FALSE
    OBVIOUS
  <2>1. i - 1 \in 1..n
    BY <1>3
  <2>2. i - 1 \in S
    BY <2>1
  <2>3. i <= i - 1
    BY <1>2, <2>2
  <2> QED BY <1>3, <2>3
<1> QED BY <1>3, <1>4
-----------------------------------------------------------------------------
(* Sequences joined end to end.                                            *)

\* The function in the definition of FlattenSeq.
Joined(seqs) ==
    CHOOSE f : f = [i \in 1..Len(seqs) |-> IF i = 1 THEN seqs[i] ELSE f[i - 1] \o seqs[i]]

\* f joins the first k sequences, one after the other.
Joins(f, seqs, k) ==
    \A i \in 1..k : f[i] = IF i = 1 THEN seqs[i] ELSE f[i - 1] \o seqs[i]

LEMMA JoinsExist ==
    ASSUME NEW S, NEW seqs \in Seq(Seq(S)), NEW n, n = Len(seqs), n > 0
    PROVE  \E f \in [1..n -> Seq(S)] : Joins(f, seqs, n)
<1>1. n \in Nat /\ \A i \in 1..n : seqs[i] \in Seq(S)
  OBVIOUS
<1> DEFINE P == {k \in 1..n : \E f \in [1..k -> Seq(S)] : Joins(f, seqs, k)}
<1>2. ASSUME NEW k \in 1..n, k > 1 => k - 1 \in P
      PROVE  k \in P
  <2>1. CASE k = 1
    <3> DEFINE g == [i \in 1..1 |-> seqs[1]]
    <3>1. g \in [1..k -> Seq(S)] /\ Joins(g, seqs, k)
      BY <1>1, <2>1 DEF Joins
    <3> QED BY <3>1
  <2>2. CASE k > 1
    <3>1. k - 1 \in P
      BY <1>2, <2>2
    <3>2. PICK f \in [1..(k - 1) -> Seq(S)] : Joins(f, seqs, k - 1)
      BY <3>1
    <3> DEFINE g == [i \in 1..k |-> IF i = k THEN f[k - 1] \o seqs[k] ELSE f[i]]
    <3>3. k - 1 \in 1..(k - 1) /\ f[k - 1] \in Seq(S) /\ seqs[k] \in Seq(S)
      BY <1>1, <2>2, <3>2
    <3>4. f[k - 1] \o seqs[k] \in Seq(S)
      BY <3>3
    <3>5. \A i \in 1..k : i = k \/ i \in 1..(k - 1)
      BY <1>1
    <3>6. g \in [1..k -> Seq(S)]
      BY <3>2, <3>4, <3>5
    <3>7. ASSUME NEW i \in 1..k
          PROVE  g[i] = IF i = 1 THEN seqs[i] ELSE g[i - 1] \o seqs[i]
      <4>1. CASE i = k
        <5>1. i - 1 \in 1..k /\ i - 1 # k /\ i # 1
          BY <2>2, <4>1
        <5> QED BY <4>1, <5>1
      <4>2. CASE i # k
        <5>1. i \in 1..(k - 1)
          BY <3>5, <4>2
        <5>2. f[i] = IF i = 1 THEN seqs[i] ELSE f[i - 1] \o seqs[i]
          BY <3>2, <5>1 DEF Joins
        <5>3. i # 1 => i - 1 \in 1..k /\ i - 1 # k
          BY <5>1
        <5> QED BY <4>2, <5>2, <5>3
      <4> QED BY <4>1, <4>2
    <3>8. Joins(g, seqs, k)
      BY <3>7 DEF Joins
    <3> HIDE DEF g
    <3> QED BY <3>6, <3>8
  <2> QED BY <1>1, <2>1, <2>2
<1> HIDE DEF P
<1>3. n \in P
  <2>1. \A i \in 1..n : i \in P
    BY <1>1, <1>2, Upwards
  <2> QED BY <1>1, <2>1
<1> QED BY <1>3 DEF P

(* FlattenSeq joins them: its values are known from those before.          *)
LEMMA FlattenJoins ==
    ASSUME NEW S, NEW seqs \in Seq(Seq(S)), NEW n, n = Len(seqs), n > 0
    PROVE  /\ Joined(seqs) \in [1..n -> Seq(S)]
           /\ Joins(Joined(seqs), seqs, n)
           /\ FlattenSeq(seqs) = Joined(seqs)[n]
<1>1. PICK f \in [1..n -> Seq(S)] : Joins(f, seqs, n)
  BY JoinsExist
<1>2. f = [i \in 1..n |-> IF i = 1 THEN seqs[i] ELSE f[i - 1] \o seqs[i]]
  BY <1>1 DEF Joins
<1> DEFINE g == Joined(seqs)
<1>3. g = [i \in 1..n |-> IF i = 1 THEN seqs[i] ELSE g[i - 1] \o seqs[i]]
  BY <1>2 DEF Joined
<1> HIDE DEF g
<1>4. Joins(g, seqs, n)
  <2>1. \A i \in 1..n : g[i] = IF i = 1 THEN seqs[i] ELSE g[i - 1] \o seqs[i]
    BY <1>3
  <2> QED BY <2>1 DEF Joins
<1>5. \A i \in 1..n : g[i] = f[i]
  <2> DEFINE P == {i \in 1..n : g[i] = f[i]}
  <2>1. ASSUME NEW i \in 1..n, i > 1 => i - 1 \in P
        PROVE  i \in P
    <3>1. f[i] = IF i = 1 THEN seqs[i] ELSE f[i - 1] \o seqs[i]
      BY <1>1 DEF Joins
    <3>2. g[i] = IF i = 1 THEN seqs[i] ELSE g[i - 1] \o seqs[i]
      BY <1>4 DEF Joins
    <3>3. i > 1 => g[i - 1] = f[i - 1]
      BY <2>1
    <3>4. i = 1 \/ i > 1
      OBVIOUS
    <3>5. g[i] = f[i]
      BY <3>1, <3>2, <3>3, <3>4
    <3> QED BY <3>5
  <2>2. n \in Nat
    OBVIOUS
  <2>3. \A i \in 1..n : i \in P
    <3> HIDE DEF P
    <3> QED BY <2>1, <2>2, Upwards
  <2> QED BY <2>3
<1>6. g \in [1..n -> Seq(S)]
  <2>1. \A i \in 1..n : g[i] \in Seq(S)
    BY <1>1, <1>5
  <2> QED BY <1>3, <2>1
<1>7. FlattenSeq(seqs) = g[n]
  BY DEF FlattenSeq, Joined, g
<1> QED BY <1>4, <1>6, <1>7 DEF g

\* No two places of a list hold the same id.
IdsApart(list) == \A p, q \in 1..Len(list) : list[p].id = list[q].id => p = q

(* Two lists that share no id can be joined.                               *)
LEMMA JoinedApart ==
    ASSUME NEW S, NEW a \in Seq(S), NEW b \in Seq(S), IdsApart(a), IdsApart(b),
           \A p \in 1..Len(a), q \in 1..Len(b) : a[p].id # b[q].id
    PROVE  IdsApart(a \o b)
<1> DEFINE c == a \o b
<1>1. /\ Len(a) \in Nat /\ Len(b) \in Nat /\ Len(c) = Len(a) + Len(b)
      /\ \A p \in 1..Len(c) : IF p <= Len(a) THEN p \in 1..Len(a) /\ c[p] = a[p]
                              ELSE p - Len(a) \in 1..Len(b) /\ c[p] = b[p - Len(a)]
  OBVIOUS
<1> HIDE DEF c
<1>2. ASSUME NEW p \in 1..Len(c), NEW q \in 1..Len(c), c[p].id = c[q].id
      PROVE  p = q
  <2>1. CASE p <= Len(a) /\ q <= Len(a)
    BY <1>1, <1>2, <2>1 DEF IdsApart
  <2>2. CASE p <= Len(a) /\ ~(q <= Len(a))
    BY <1>1, <1>2, <2>2
  <2>3. CASE ~(p <= Len(a)) /\ q <= Len(a)
    BY <1>1, <1>2, <2>3
  <2>4. CASE ~(p <= Len(a)) /\ ~(q <= Len(a))
    <3>1. p - Len(a) = q - Len(a)
      BY <1>1, <1>2, <2>4 DEF IdsApart
    <3> QED BY <1>1, <3>1
  <2> QED BY <2>1, <2>2, <2>3, <2>4
<1>3. IdsApart(c)
  BY <1>2 DEF IdsApart
<1> QED BY <1>3 DEF c

\* Each element of the list is one of the first k sequences'.
TakenFrom(list, seqs, k) ==
    \A p \in 1..Len(list) : \E j \in 1..k : \E m \in 1..Len(seqs[j]) : list[p] = seqs[j][m]

(* What FlattenSeq returns.                                                *)
LEMMA FlattenTyped ==
    ASSUME NEW S, NEW seqs \in Seq(Seq(S))
    PROVE  FlattenSeq(seqs) \in Seq(S)
<1>1. CASE Len(seqs) = 0
  <2>1. FlattenSeq(seqs) = seqs
    BY <1>1 DEF FlattenSeq
  <2>2. seqs = <<>>
    BY <1>1
  <2> QED BY <2>1, <2>2
<1>2. CASE Len(seqs) > 0
  <2>1. Len(seqs) \in 1..Len(seqs)
    BY <1>2
  <2> QED BY <1>2, <2>1, FlattenJoins
<1> QED BY <1>1, <1>2

LEMMA FlattenApart ==
    ASSUME NEW S, NEW seqs \in Seq(Seq(S)),
           \A j, k \in 1..Len(seqs) : \A m \in 1..Len(seqs[j]) : \A l \in 1..Len(seqs[k]) :
               seqs[j][m].id = seqs[k][l].id => j = k /\ m = l
    PROVE  TakenFrom(FlattenSeq(seqs), seqs, Len(seqs)) /\ IdsApart(FlattenSeq(seqs))
<1>1. CASE Len(seqs) = 0
  <2>1. FlattenSeq(seqs) = seqs
    BY <1>1 DEF FlattenSeq
  <2> QED BY <1>1, <2>1 DEF TakenFrom, IdsApart
<1>2. CASE Len(seqs) > 0
  <2> DEFINE n == Len(seqs)
             f == Joined(seqs)
             P == {i \in 1..n : TakenFrom(f[i], seqs, i) /\ IdsApart(f[i])}
  <2>1. /\ n \in Nat /\ n > 0
        /\ \A i \in 1..n : f[i] \in Seq(S) /\ seqs[i] \in Seq(S)
        /\ \A i \in 1..n : f[i] = IF i = 1 THEN seqs[i] ELSE f[i - 1] \o seqs[i]
        /\ FlattenSeq(seqs) = f[n]
    <3>1. f \in [1..n -> Seq(S)] /\ Joins(f, seqs, n) /\ FlattenSeq(seqs) = f[n]
      BY <1>2, FlattenJoins
    <3> HIDE DEF f
    <3>2. n \in Nat /\ n > 0 /\ \A i \in 1..n : seqs[i] \in Seq(S)
      BY <1>2
    <3>3. \A i \in 1..n : f[i] \in Seq(S)
      BY <3>1
    <3>4. \A i \in 1..n : f[i] = IF i = 1 THEN seqs[i] ELSE f[i - 1] \o seqs[i]
      BY <3>1 DEF Joins
    <3> QED BY <3>1, <3>2, <3>3, <3>4
  <2> HIDE DEF f
  <2>2. ASSUME NEW i \in 1..n
        PROVE  IdsApart(seqs[i])
    BY DEF IdsApart
  <2>3. ASSUME NEW i \in 1..n, i > 1 => i - 1 \in P
        PROVE  i \in P
    <3>1. CASE i = 1
      <4>1. f[i] = seqs[i]
        BY <2>1, <3>1
      <4>2. TakenFrom(seqs[i], seqs, i)
        <5>1. i \in 1..i
          OBVIOUS
        <5>2. ASSUME NEW p \in 1..Len(seqs[i])
              PROVE  \E j \in 1..i : \E m \in 1..Len(seqs[j]) : seqs[i][p] = seqs[j][m]
          BY <5>1
        <5> QED BY <5>2 DEF TakenFrom
      <4> QED BY <2>2, <4>1, <4>2
    <3>2. CASE i > 1
      <4> DEFINE a == f[i - 1]
                 b == seqs[i]
                 c == a \o b
      <4>1. i - 1 \in 1..n /\ TakenFrom(a, seqs, i - 1) /\ IdsApart(a)
        BY <2>3, <3>2
      <4>2. a \in Seq(S) /\ b \in Seq(S) /\ f[i] = c
        <5>1. f[i - 1] \in Seq(S) /\ seqs[i] \in Seq(S)
          BY <2>1, <4>1
        <5>2. i # 1
          BY <3>2
        <5>3. f[i] = f[i - 1] \o seqs[i]
          BY <2>1, <5>2
        <5> QED BY <5>1, <5>3
      <4>3. IdsApart(b)
        BY <2>2
      <4>4. ASSUME NEW p \in 1..Len(a), NEW q \in 1..Len(b)
            PROVE  a[p].id # b[q].id
        <5>1. PICK j \in 1..(i - 1) : \E m \in 1..Len(seqs[j]) : a[p] = seqs[j][m]
          BY <4>1 DEF TakenFrom
        <5>2. PICK m \in 1..Len(seqs[j]) : a[p] = seqs[j][m]
          BY <5>1
        <5>3. j \in 1..n /\ j # i
          BY <2>1
        <5> QED BY <5>2, <5>3
      <4>5. ASSUME NEW p \in 1..Len(c)
            PROVE  \E j \in 1..i : \E m \in 1..Len(seqs[j]) : c[p] = seqs[j][m]
        <5> HIDE DEF a, b
        <5>1. Len(a) \in Nat /\ Len(b) \in Nat /\ Len(c) = Len(a) + Len(b)
          BY <4>2
        <5>2. CASE p <= Len(a)
          <6>1. p \in 1..Len(a) /\ c[p] = a[p]
            BY <4>2, <5>1, <5>2
          <6>2. PICK j \in 1..(i - 1) : \E m \in 1..Len(seqs[j]) : a[p] = seqs[j][m]
            BY <4>1, <6>1 DEF TakenFrom
          <6>3. j \in 1..i
            OBVIOUS
          <6> QED BY <6>1, <6>2, <6>3
        <5>3. CASE ~(p <= Len(a))
          <6>1. p - Len(a) \in 1..Len(b) /\ c[p] = b[p - Len(a)]
            BY <4>2, <5>1, <5>3
          <6>2. i \in 1..i
            OBVIOUS
          <6>3. p - Len(a) \in 1..Len(seqs[i]) /\ c[p] = seqs[i][p - Len(a)]
            BY <6>1 DEF b
          <6> QED BY <6>2, <6>3
        <5> QED BY <5>2, <5>3
      <4> HIDE DEF a, b
      <4>6. IdsApart(c)
        BY <4>1, <4>2, <4>3, <4>4, JoinedApart
      <4>7. TakenFrom(c, seqs, i)
        BY <4>5 DEF TakenFrom
      <4> QED BY <4>2, <4>6, <4>7
    <3>3. i = 1 \/ i > 1
      OBVIOUS
    <3> QED BY <3>1, <3>2, <3>3
  <2>4. n \in P
    <3> HIDE DEF P
    <3>1. \A i \in 1..n : i \in P
      BY <2>1, <2>3, Upwards
    <3> QED BY <2>1, <3>1
  <2> QED BY <2>1, <2>4
<1>3. Len(seqs) = 0 \/ Len(seqs) > 0
  OBVIOUS
<1> QED BY <1>1, <1>2, <1>3

-----------------------------------------------------------------------------
(* Ranks.                                                                  *)

(* below[k] is what a total order puts up to k; its size is then the place *)
(* of k, and every place is taken by exactly one element.                  *)
LEMMA PlacesAreTaken ==
    ASSUME NEW S, IsFiniteSet(S), NEW below \in [S -> SUBSET S],
           \A k \in S : k \in below[k],
           \A j, k \in S : j \in below[k] \/ k \in below[j],
           \A j, k \in S : j \in below[k] /\ k \in below[j] => j = k,
           \A j, k \in S : j \in below[k] => below[j] \subseteq below[k]
    PROVE  /\ Cardinality(S) \in Nat
           /\ \A k \in S : Cardinality(below[k]) \in 1..Cardinality(S)
           /\ \A j, k \in S : Cardinality(below[j]) <= Cardinality(below[k]) <=> j \in below[k]
           /\ \A r \in 1..Cardinality(S) : \E k \in S : Cardinality(below[k]) = r
<1> DEFINE rank == [k \in S |-> Cardinality(below[k])]
           n == Cardinality(S)
<1>1. n \in Nat
  BY FS_CardinalityType
<1>2. ASSUME NEW k \in S
      PROVE  IsFiniteSet(below[k]) /\ Cardinality(below[k]) \in 1..n
  <2>1. IsFiniteSet(below[k]) /\ Cardinality(below[k]) <= n
    BY FS_Subset
  <2>2. Cardinality(below[k]) \in Nat
    BY <2>1, FS_CardinalityType
  <2>3. Cardinality(below[k]) # 0
    BY <2>1, FS_EmptySet
  <2> QED BY <1>1, <2>1, <2>2, <2>3
<1>3. ASSUME NEW j \in S, NEW k \in S, j \in below[k]
      PROVE  Cardinality(below[j]) <= Cardinality(below[k])
  <2>1. below[j] \in SUBSET below[k]
    BY <1>3
  <2> QED BY <1>2, <2>1, FS_Subset
<1>4. ASSUME NEW j \in S, NEW k \in S, j \in below[k],
             Cardinality(below[j]) = Cardinality(below[k])
      PROVE  j = k
  <2>1. below[j] \in SUBSET below[k]
    BY <1>4
  <2>2. below[j] = below[k]
    BY <1>2, <1>4, <2>1, FS_Subset
  <2> QED BY <1>4, <2>2
<1>5. ASSUME NEW j \in S, NEW k \in S, Cardinality(below[j]) <= Cardinality(below[k])
      PROVE  j \in below[k]
  <2>1. CASE k \in below[j]
    <3>1. Cardinality(below[k]) <= Cardinality(below[j])
      BY <1>3, <2>1
    <3>2. Cardinality(below[k]) = Cardinality(below[j])
      BY <1>2, <1>5, <3>1
    <3>3. k = j
      BY <1>4, <2>1, <3>2
    <3> QED BY <3>3
  <2> QED BY <2>1
<1>6. rank \in Injection(S, 1..n)
  <2>1. rank \in [S -> 1..n]
    BY <1>2
  <2>2. \A j, k \in S : rank[j] = rank[k] => j = k
    BY <1>2, <1>4
  <2> HIDE DEF rank, n
  <2> QED BY <2>1, <2>2 DEF Injection, IsInjective
<1>7. IsFiniteSet(1..n) /\ Cardinality(1..n) = n
  BY <1>1, FS_Interval
<1>8. rank \in Surjection(S, 1..n)
  BY <1>6, <1>7, FS_Injection
<1>9. ASSUME NEW r \in 1..n
      PROVE  \E k \in S : Cardinality(below[k]) = r
  BY <1>8 DEF Surjection
<1> QED BY <1>1, <1>2, <1>3, <1>5, <1>9

(* InOrder lists the numbers of a finite set, each once, the least first. *)
-----------------------------------------------------------------------------
(* The order of occurrences.                                               *)

Ids == Nat \X Nat \X Nat \X Nat
Occurrence == [id : Ids, source : Sources, expect : {"accept", "reject"},
               supplemental : BOOLEAN]

(* Ids are compared component by component.                                *)
LEMMA PrecedesIs ==
    ASSUME NEW a \in Occurrence, NEW b \in Occurrence
    PROVE  /\ \A k \in 1..4 : a.id[k] \in Nat /\ b.id[k] \in Nat
           /\ a.id = b.id <=> /\ a.id[1] = b.id[1] /\ a.id[2] = b.id[2]
                              /\ a.id[3] = b.id[3] /\ a.id[4] = b.id[4]
           /\ Precedes(a, b) <=>
                \/ a.id[1] < b.id[1]
                \/ a.id[1] = b.id[1] /\ a.id[2] < b.id[2]
                \/ a.id[1] = b.id[1] /\ a.id[2] = b.id[2] /\ a.id[3] < b.id[3]
                \/ /\ a.id[1] = b.id[1] /\ a.id[2] = b.id[2] /\ a.id[3] = b.id[3]
                   /\ a.id[4] < b.id[4]
<1>1. a.id \in Ids /\ b.id \in Ids
  BY DEF Occurrence
<1> DEFINE x == a.id
           y == b.id
           Differ(k) == x[k] < y[k] /\ \A j \in 1..(k - 1) : x[j] = y[j]
<1>2. PICK x1 \in Nat, x2 \in Nat, x3 \in Nat, x4 \in Nat : x = <<x1, x2, x3, x4>>
  BY <1>1 DEF Ids
<1>3. PICK y1 \in Nat, y2 \in Nat, y3 \in Nat, y4 \in Nat : y = <<y1, y2, y3, y4>>
  BY <1>1 DEF Ids
<1>4. Precedes(a, b) <=> \E k \in DOMAIN x : Differ(k)
  BY DEF Precedes
<1> HIDE DEF x, y
<1>5. DOMAIN x = 1..4
  BY <1>2
<1>6. /\ x[1] = x1 /\ x[2] = x2 /\ x[3] = x3 /\ x[4] = x4
      /\ y[1] = y1 /\ y[2] = y2 /\ y[3] = y3 /\ y[4] = y4
  BY <1>2, <1>3
<1>7. x = y <=> x1 = y1 /\ x2 = y2 /\ x3 = y3 /\ x4 = y4
  BY <1>2, <1>3
<1>8. Differ(1) <=> x1 < y1
  BY <1>6
<1>9. Differ(2) <=> x1 = y1 /\ x2 < y2
  <2>1. 1..(2 - 1) = {1}
    OBVIOUS
  <2> QED BY <1>6, <2>1
<1>10. Differ(3) <=> x1 = y1 /\ x2 = y2 /\ x3 < y3
  <2>1. 1..(3 - 1) = {1, 2}
    OBVIOUS
  <2> QED BY <1>6, <2>1
<1>11. Differ(4) <=> x1 = y1 /\ x2 = y2 /\ x3 = y3 /\ x4 < y4
  <2>1. 1..(4 - 1) = {1, 2, 3}
    OBVIOUS
  <2> QED BY <1>6, <2>1
<1> HIDE DEF Differ
<1>12. 1..4 = {1, 2, 3, 4}
  OBVIOUS
<1>13. Precedes(a, b) <=> Differ(1) \/ Differ(2) \/ Differ(3) \/ Differ(4)
  BY <1>4, <1>5, <1>12
<1>14. \A k \in 1..4 : x[k] \in Nat /\ y[k] \in Nat
  BY <1>6, <1>12
<1> QED BY <1>6, <1>7, <1>8, <1>9, <1>10, <1>11, <1>13, <1>14 DEF x, y

(* Precedes is a strict order, total where ids differ.                     *)
LEMMA PrecedesOrders ==
    ASSUME NEW a \in Occurrence, NEW b \in Occurrence, NEW c \in Occurrence
    PROVE  /\ a.id = b.id \/ Precedes(a, b) \/ Precedes(b, a)
           /\ Precedes(a, b) => a.id # b.id /\ ~Precedes(b, a)
           /\ Precedes(a, b) /\ Precedes(b, c) => Precedes(a, c)
<1> DEFINE a1 == a.id[1]  a2 == a.id[2]  a3 == a.id[3]  a4 == a.id[4]
           b1 == b.id[1]  b2 == b.id[2]  b3 == b.id[3]  b4 == b.id[4]
           c1 == c.id[1]  c2 == c.id[2]  c3 == c.id[3]  c4 == c.id[4]
<1>1. /\ a1 \in Nat /\ a2 \in Nat /\ a3 \in Nat /\ a4 \in Nat
      /\ b1 \in Nat /\ b2 \in Nat /\ b3 \in Nat /\ b4 \in Nat
      /\ c1 \in Nat /\ c2 \in Nat /\ c3 \in Nat /\ c4 \in Nat
  <2>1. 1 \in 1..4 /\ 2 \in 1..4 /\ 3 \in 1..4 /\ 4 \in 1..4
    OBVIOUS
  <2>2. \A k \in 1..4 : a.id[k] \in Nat /\ b.id[k] \in Nat /\ c.id[k] \in Nat
    BY PrecedesIs
  <2> QED BY <2>1, <2>2
<1>2. a.id = b.id <=> a1 = b1 /\ a2 = b2 /\ a3 = b3 /\ a4 = b4
  BY PrecedesIs
<1>3. Precedes(a, b) <=>
          \/ a1 < b1
          \/ a1 = b1 /\ a2 < b2
          \/ a1 = b1 /\ a2 = b2 /\ a3 < b3
          \/ a1 = b1 /\ a2 = b2 /\ a3 = b3 /\ a4 < b4
  BY PrecedesIs
<1>4. Precedes(b, a) <=>
          \/ b1 < a1
          \/ b1 = a1 /\ b2 < a2
          \/ b1 = a1 /\ b2 = a2 /\ b3 < a3
          \/ b1 = a1 /\ b2 = a2 /\ b3 = a3 /\ b4 < a4
  BY PrecedesIs
<1>5. Precedes(b, c) <=>
          \/ b1 < c1
          \/ b1 = c1 /\ b2 < c2
          \/ b1 = c1 /\ b2 = c2 /\ b3 < c3
          \/ b1 = c1 /\ b2 = c2 /\ b3 = c3 /\ b4 < c4
  BY PrecedesIs
<1>6. Precedes(a, c) <=>
          \/ a1 < c1
          \/ a1 = c1 /\ a2 < c2
          \/ a1 = c1 /\ a2 = c2 /\ a3 < c3
          \/ a1 = c1 /\ a2 = c2 /\ a3 = c3 /\ a4 < c4
  BY PrecedesIs
<1> HIDE DEF a1, a2, a3, a4, b1, b2, b3, b4, c1, c2, c3, c4
<1>7. a.id = b.id \/ Precedes(a, b) \/ Precedes(b, a)
  BY <1>1, <1>2, <1>3, <1>4
<1>8. Precedes(a, b) => a.id # b.id /\ ~Precedes(b, a)
  BY <1>1, <1>2, <1>3, <1>4
<1>9. Precedes(a, b) /\ Precedes(b, c) => Precedes(a, c)
  BY <1>1, <1>3, <1>5, <1>6
<1> QED BY <1>7, <1>8, <1>9

(* Sorting occurrences with ids of their own orders them by their ids.     *)
LEMMA SortedOrders ==
    ASSUME NEW list \in Seq(Occurrence), IdsApart(list)
    PROVE  /\ Sorted(list) \in Seq(Occurrence)
           /\ Len(Sorted(list)) = Len(list)
           /\ \A q, r \in 1..Len(list) : q < r => Precedes(Sorted(list)[q], Sorted(list)[r])
           /\ \A r \in 1..Len(list) : \E k \in 1..Len(list) : Sorted(list)[r] = list[k]
           /\ \A k \in 1..Len(list) : \E r \in 1..Len(list) : Sorted(list)[r] = list[k]
<1> DEFINE n == Len(list)
           S == 1..n
           below == [k \in S |-> {j \in S : NotAfter(list, j, k)}]
           from == [r \in S |-> CHOOSE k \in S : Cardinality(below[k]) = r]
<1>1. n \in Nat /\ DOMAIN list = S /\ IsFiniteSet(S) /\ Cardinality(S) = n
  <2>1. n \in Nat /\ DOMAIN list = S
    OBVIOUS
  <2> HIDE DEF n
  <2> QED BY <2>1, FS_Interval
<1>2. \A k \in S : list[k] \in Occurrence
  BY <1>1
<1>3. \A j, k \in S : j \in below[k] <=> j = k \/ Precedes(list[j], list[k])
  <2> SUFFICES ASSUME NEW j \in S, NEW k \in S
               PROVE  NotAfter(list, j, k) <=> j = k \/ Precedes(list[j], list[k])
    OBVIOUS
  <2>1. list[j] \in Occurrence /\ list[k] \in Occurrence /\ j \in Int /\ k \in Int
    BY <1>2
  <2>2. list[j].id = list[k].id => j = k
    BY DEF IdsApart
  <2>3. CASE j = k
    BY <2>1, <2>3, PrecedesOrders DEF NotAfter
  <2>4. CASE j # k
    BY <2>1, <2>2, <2>4, PrecedesOrders DEF NotAfter
  <2> QED BY <2>3, <2>4
<1>4. below \in [S -> SUBSET S]
  OBVIOUS
<1>5. Sorted(list) = [r \in S |-> list[from[r]]]
  <2>1. \A k \in S : below[k] = {j \in DOMAIN list : NotAfter(list, j, k)}
    BY <1>1
  <2> HIDE DEF below, S, n
  <2>2. \A k \in S : Place(list, k) = Cardinality(below[k])
    BY <2>1 DEF Place
  <2>3. \A r \in S : from[r] = CHOOSE k \in S : Place(list, k) = r
    BY <2>2
  <2> HIDE DEF from
  <2>4. Sorted(list) = [r \in S |-> list[CHOOSE k \in S : Place(list, k) = r]]
    BY <1>1 DEF Sorted
  <2> QED BY <2>3, <2>4
<1> HIDE DEF below, S
<1>6. /\ \A k \in S : Cardinality(below[k]) \in 1..n
      /\ \A j, k \in S : Cardinality(below[j]) <= Cardinality(below[k]) <=> j \in below[k]
      /\ \A r \in 1..n : \E k \in S : Cardinality(below[k]) = r
  <2>0. \A j, k \in S : list[j].id = list[k].id => j = k
    BY DEF S, IdsApart
  <2>1. \A k \in S : k \in below[k]
    BY <1>3
  <2>2. \A j, k \in S : j \in below[k] \/ k \in below[j]
    BY <1>2, <1>3, <2>0, PrecedesOrders
  <2>3. \A j, k \in S : j \in below[k] /\ k \in below[j] => j = k
    BY <1>2, <1>3, PrecedesOrders
  <2>4. \A j, k \in S : j \in below[k] => below[j] \subseteq below[k]
    <3> SUFFICES ASSUME NEW j \in S, NEW k \in S, j \in below[k], NEW i \in below[j]
                 PROVE  i \in below[k]
      OBVIOUS
    <3>1. i \in S
      BY <1>4
    <3>2. list[i] \in Occurrence /\ list[j] \in Occurrence /\ list[k] \in Occurrence
      BY <1>2, <3>1
    <3>3. i = j \/ Precedes(list[i], list[j])
      BY <1>3, <3>1
    <3>4. j = k \/ Precedes(list[j], list[k])
      BY <1>3
    <3>5. i = k \/ Precedes(list[i], list[k])
      BY <3>2, <3>3, <3>4, PrecedesOrders
    <3> QED BY <1>3, <3>1, <3>5
  <2> QED BY <1>1, <1>4, <2>1, <2>2, <2>3, <2>4, PlacesAreTaken
<1>7. \A r \in S : from[r] \in S /\ Cardinality(below[from[r]]) = r
  BY <1>6 DEF S
<1>8. from \in [S -> S]
  BY <1>7
<1> HIDE DEF from
<1>9. Sorted(list) \in Seq(Occurrence) /\ Len(Sorted(list)) = n
  <2>1. Sorted(list) \in [1..n -> Occurrence]
    BY <1>2, <1>5, <1>8 DEF S
  <2> QED BY <1>1, <2>1
<1>10. ASSUME NEW q \in S, NEW r \in S, q < r
       PROVE  Precedes(Sorted(list)[q], Sorted(list)[r])
  <2>1. from[q] \in S /\ from[r] \in S
    BY <1>8
  <2>2. Cardinality(below[from[q]]) <= Cardinality(below[from[r]])
        /\ Cardinality(below[from[q]]) # Cardinality(below[from[r]])
    BY <1>7, <1>10 DEF S
  <2>3. from[q] \in below[from[r]] /\ from[q] # from[r]
    BY <1>6, <2>1, <2>2
  <2>4. Precedes(list[from[q]], list[from[r]])
    BY <1>3, <2>1, <2>3
  <2> QED BY <1>5, <2>4
<1>11. ASSUME NEW k \in S
       PROVE  \E r \in S : Sorted(list)[r] = list[k]
  <2>1. PICK r \in S : Cardinality(below[k]) = r
    BY <1>6 DEF S
  <2>2. Cardinality(below[from[r]]) <= Cardinality(below[k])
        /\ Cardinality(below[k]) <= Cardinality(below[from[r]])
    BY <1>7, <2>1 DEF S
  <2>3. from[r] \in below[k] /\ k \in below[from[r]] /\ from[r] \in S
    BY <1>6, <1>8, <2>2
  <2>4. from[r] = k
    BY <1>2, <1>3, <2>3, PrecedesOrders
  <2> QED BY <1>5, <2>4
<1>12. \A r \in S : \E k \in S : Sorted(list)[r] = list[k]
  BY <1>5, <1>8
<1> QED BY <1>1, <1>9, <1>10, <1>11, <1>12 DEF S

-----------------------------------------------------------------------------
(* The occurrences of a scenario.                                          *)

Instance == [index : Nat, line : Nat, ignore : BOOLEAN]
Statement == [step : Nat, role : {"primary", "setup", "control", "graph"}, text : Texts]

LEMMA InstancesTyped ==
    ASSUME NEW s \in Scenarios
    PROVE  /\ Instances(s) \in Seq(Instance)
           /\ \A i, j \in 1..Len(Instances(s)) :
                Instances(s)[i].index = Instances(s)[j].index => i = j
<1>1. s.tables \in Seq([lines : Seq(Nat), ignore : BOOLEAN])
  BY DEF Scenarios
<1>2. CASE s.tables = <<>>
  <2> DEFINE instance == [index |-> 0, line |-> 0, ignore |-> FALSE]
  <2>1. instance \in Instance
    BY DEF Instance
  <2>2. Instances(s) = <<instance>>
    BY <1>2 DEF Instances
  <2> HIDE DEF instance
  <2>3. Instances(s) \in Seq(Instance) /\ Len(Instances(s)) = 1
    BY <2>1, <2>2
  <2> QED BY <2>3
<1>3. CASE s.tables # <<>>
  <2> DEFINE Row == [line : Nat, ignore : BOOLEAN]
             row(t, r) == [line |-> s.tables[t].lines[r], ignore |-> s.tables[t].ignore]
             table == [t \in DOMAIN s.tables |->
                         [r \in DOMAIN s.tables[t].lines |-> row(t, r)]]
  <2>1. Rows(s) = FlattenSeq(table)
    BY DEF Rows
  <2>2. ASSUME NEW t \in DOMAIN s.tables
        PROVE  [r \in DOMAIN s.tables[t].lines |-> row(t, r)] \in Seq(Row)
    <3> DEFINE Table == [lines : Seq(Nat), ignore : BOOLEAN]
               tables == s.tables
    <3>1. tables[t] \in Table
      <4>1. tables \in Seq(Table) /\ t \in DOMAIN tables
        BY <1>1
      <4> HIDE DEF Table, tables
      <4> QED BY <4>1
    <3>2. s.tables[t].lines \in Seq(Nat) /\ s.tables[t].ignore \in BOOLEAN
      BY <3>1
    <3>3. PICK n \in Nat : DOMAIN s.tables[t].lines = 1..n
      BY <3>2
    <3>4. \A r \in 1..n : row(t, r) \in Row
      BY <3>2, <3>3
    <3> HIDE DEF Row, row
    <3>5. [r \in 1..n |-> row(t, r)] \in Seq(Row)
      BY <3>4
    <3> QED BY <3>3, <3>5
  <2>3. table \in Seq(Seq(Row))
    <3>1. PICK n \in Nat : DOMAIN s.tables = 1..n
      BY <1>1
    <3> DEFINE rows(t) == [r \in DOMAIN s.tables[t].lines |-> row(t, r)]
    <3>2. \A t \in 1..n : rows(t) \in Seq(Row)
      BY <2>2, <3>1
    <3>3. table = [t \in 1..n |-> rows(t)]
      BY <3>1
    <3> HIDE DEF Row, rows, table
    <3>4. [t \in 1..n |-> rows(t)] \in Seq(Seq(Row))
      BY <3>2
    <3> QED BY <3>3, <3>4
  <2>4. Rows(s) \in Seq(Row)
    <3> HIDE DEF table, Row
    <3> QED BY <2>1, <2>3, FlattenTyped
  <2> DEFINE list == Rows(s)
             instance(i) == [index |-> i, line |-> list[i].line, ignore |-> list[i].ignore]
  <2>5. Instances(s) = [i \in DOMAIN list |-> instance(i)]
    BY <1>3 DEF Instances
  <2>6. PICK n \in Nat : DOMAIN list = 1..n /\ \A i \in 1..n : list[i] \in Row
    <3> HIDE DEF Row
    <3> QED BY <2>4
  <2>7. \A i \in 1..n : instance(i) \in Instance /\ instance(i).index = i
    <3> SUFFICES ASSUME NEW i \in 1..n PROVE instance(i) \in Instance
      OBVIOUS
    <3>1. list[i] \in Row
      BY <2>6
    <3>2. list[i].line \in Nat /\ list[i].ignore \in BOOLEAN
      BY <3>1
    <3> QED BY <3>2 DEF Instance
  <2> HIDE DEF instance, list
  <2>8. Instances(s) \in [1..n -> Instance] /\ \A i \in 1..n : Instances(s)[i] = instance(i)
    BY <2>5, <2>6, <2>7
  <2>9. Instances(s) \in Seq(Instance) /\ Len(Instances(s)) = n
    BY <2>8
  <2> QED BY <2>7, <2>8, <2>9
<1> QED BY <1>2, <1>3

LEMMA StatementsTyped ==
    ASSUME NEW s \in Scenarios
    PROVE  Statements(s) \in Seq(Statement)
<1>1. s.steps \in Seq([role : {"primary", "setup", "control", "graph"}, texts : Seq(Texts)])
  BY DEF Scenarios
<1> DEFINE statement(k, m) == [step |-> k, role |-> s.steps[k].role,
                               text |-> s.steps[k].texts[m]]
           script == [k \in DOMAIN s.steps |->
                        [m \in DOMAIN s.steps[k].texts |-> statement(k, m)]]
<1>2. PICK n \in Nat : DOMAIN s.steps = 1..n
  BY <1>1
<1>3. ASSUME NEW k \in 1..n
      PROVE  [m \in DOMAIN s.steps[k].texts |-> statement(k, m)] \in Seq(Statement)
  <2> DEFINE Step == [role : {"primary", "setup", "control", "graph"}, texts : Seq(Texts)]
             steps == s.steps
  <2>1. steps[k] \in Step
    <3>1. steps \in Seq(Step) /\ k \in DOMAIN steps
      BY <1>1, <1>2
    <3> HIDE DEF Step, steps
    <3> QED BY <3>1
  <2>2. s.steps[k].texts \in Seq(Texts)
        /\ s.steps[k].role \in {"primary", "setup", "control", "graph"}
    BY <2>1
  <2>3. PICK l \in Nat : DOMAIN s.steps[k].texts = 1..l
    BY <2>2
  <2>4. \A m \in 1..l : statement(k, m) \in Statement
    <3> SUFFICES ASSUME NEW m \in 1..l PROVE statement(k, m) \in Statement
      OBVIOUS
    <3>1. s.steps[k].texts[m] \in Texts
      BY <2>2, <2>3
    <3> HIDE DEF Texts
    <3> QED BY <2>2, <3>1 DEF Statement
  <2> HIDE DEF statement
  <2>5. [m \in 1..l |-> statement(k, m)] \in Seq(Statement)
    BY <2>4
  <2> QED BY <2>3, <2>5
<1>4. script \in Seq(Seq(Statement))
  <2> DEFINE list(k) == [m \in DOMAIN s.steps[k].texts |-> statement(k, m)]
  <2>1. \A k \in 1..n : list(k) \in Seq(Statement)
    BY <1>3
  <2>2. script = [k \in 1..n |-> list(k)]
    BY <1>2
  <2> HIDE DEF list, script
  <2>3. [k \in 1..n |-> list(k)] \in Seq(Seq(Statement))
    BY <2>1
  <2> QED BY <2>2, <2>3
<1>5. Statements(s) = FlattenSeq(script)
  BY DEF Statements
<1> HIDE DEF script
<1> QED BY <1>4, <1>5, FlattenTyped

(* A scenario that is not refused is accepted or rejected.                 *)
LEMMA ExpectationIs ==
    ASSUME NEW s, ~ExpectationFails(s)
    PROVE  Expectation(s) \in {"accept", "reject"}
BY DEF ExpectationFails, Expectation, Reviewed, Agrees

(* Each occurrence of a scenario carries its line, and an id of its own.   *)
LEMMA OccurrencesApart ==
    ASSUME NEW s \in Scenarios, ~ExpectationFails(s)
    PROVE  /\ Occurrences(s) \in Seq(Occurrence)
           /\ IdsApart(Occurrences(s))
           /\ \A p \in 1..Len(Occurrences(s)) : Occurrences(s)[p].id[1] = s.line
<1> DEFINE I == Instances(s)
           T == Statements(s)
           push(i, n) == PushOccurrence(s, I[i], n)
           lists == [i \in DOMAIN I |-> [n \in DOMAIN T |-> push(i, n)]]
<1>1. PICK a \in Nat : /\ DOMAIN I = 1..a
                       /\ \A i \in 1..a : I[i] \in Instance
                       /\ \A i, j \in 1..a : I[i].index = I[j].index => i = j
  <2>1. I \in Seq(Instance) /\ \A i, j \in 1..Len(I) : I[i].index = I[j].index => i = j
    BY InstancesTyped
  <2> HIDE DEF I
  <2> QED BY <2>1
<1>2. PICK b \in Nat : DOMAIN T = 1..b /\ \A n \in 1..b : T[n] \in Statement
  <2>1. T \in Seq(Statement)
    BY StatementsTyped
  <2> HIDE DEF T
  <2> QED BY <2>1
<1>3. ASSUME NEW i \in 1..a, NEW n \in 1..b
      PROVE  /\ push(i, n) \in Occurrence
             /\ push(i, n).id = <<s.line, I[i].index, I[i].line, n>>
  <2> DEFINE text == T[n].text
             source == Substituted(text, I[i])
             expect == IF T[n].role = "primary" THEN Expectation(s) ELSE "accept"
             supplemental == s.ignore \/ I[i].ignore
             id == <<s.line, I[i].index, I[i].line, n>>
  <2>1. push(i, n) = [id |-> id, source |-> source, expect |-> expect,
                      supplemental |-> supplemental]
    BY DEF PushOccurrence, Number
  <2>2. /\ I[i].index \in Nat /\ I[i].line \in Nat /\ I[i].ignore \in BOOLEAN
        /\ s.line \in Nat /\ s.ignore \in BOOLEAN
    BY <1>1 DEF Instance, Scenarios
  <2>3. id \in Ids
    BY <2>2 DEF Ids
  <2>4. source \in Sources
    <3>1. T[n] \in Statement
      BY <1>2
    <3>2. text \in Seq(Sources) /\ text # <<>>
      BY <3>1 DEF Statement, Texts
    <3> HIDE DEF text
    <3>3. PICK l \in Nat : l = Len(text) /\ l > 0
      BY <3>2
    <3>4. PICK x \in Nat : x = I[i].index
      BY <2>2
    <3>5. (x % l) + 1 \in 1..l
      BY <3>3
    <3>6. source = text[(x % l) + 1]
      BY <3>3, <3>4 DEF Substituted
    <3> QED BY <3>2, <3>3, <3>5, <3>6
  <2>5. expect \in {"accept", "reject"}
    BY ExpectationIs
  <2>6. supplemental \in BOOLEAN
    BY <2>2
  <2> HIDE DEF id, source, expect, supplemental
  <2>7. push(i, n) \in Occurrence
    BY <2>1, <2>3, <2>4, <2>5, <2>6 DEF Occurrence
  <2>8. push(i, n).id = id
    BY <2>1
  <2> QED BY <2>7, <2>8 DEF id
<1>4. Occurrences(s) = FlattenSeq(lists)
  BY DEF Occurrences
<1> HIDE DEF I, T, push
<1>5. ASSUME NEW i \in 1..a
      PROVE  lists[i] \in [1..b -> Occurrence] /\ lists[i] \in Seq(Occurrence)
             /\ Len(lists[i]) = b /\ \A n \in 1..b : lists[i][n] = push(i, n)
  <2>1. lists[i] = [n \in 1..b |-> push(i, n)]
    BY <1>1, <1>2
  <2>2. \A n \in 1..b : push(i, n) \in Occurrence
    BY <1>3
  <2> HIDE DEF lists
  <2>3. lists[i] \in [1..b -> Occurrence]
    BY <2>1, <2>2
  <2> QED BY <2>1, <2>3
<1>6. lists \in Seq(Seq(Occurrence)) /\ Len(lists) = a
  <2>1. DOMAIN lists = 1..a /\ lists = [i \in 1..a |-> lists[i]]
    BY <1>1
  <2> HIDE DEF lists
  <2>2. lists \in [1..a -> Seq(Occurrence)]
    BY <1>5, <2>1
  <2> QED BY <2>2
<1> HIDE DEF lists
<1>7. ASSUME NEW i \in 1..a, NEW j \in 1..a, NEW m \in 1..b, NEW n \in 1..b,
             lists[i][m].id = lists[j][n].id
      PROVE  i = j /\ m = n
  <2>1. /\ lists[i][m].id = <<s.line, I[i].index, I[i].line, m>>
        /\ lists[j][n].id = <<s.line, I[j].index, I[j].line, n>>
    BY <1>3, <1>5
  <2> DEFINE x == lists[i][m].id
             y == lists[j][n].id
  <2>2. x[2] = I[i].index /\ x[4] = m /\ y[2] = I[j].index /\ y[4] = n
    BY <2>1
  <2>3. x = y
    BY <1>7
  <2> HIDE DEF x, y
  <2>4. I[i].index = I[j].index /\ m = n
    BY <2>2, <2>3
  <2> QED BY <1>1, <2>4
<1>8. TakenFrom(FlattenSeq(lists), lists, a) /\ IdsApart(FlattenSeq(lists))
  <2>1. \A i, j \in 1..Len(lists) : \A m \in 1..Len(lists[i]) : \A n \in 1..Len(lists[j]) :
          lists[i][m].id = lists[j][n].id => i = j /\ m = n
    BY <1>5, <1>6, <1>7
  <2> QED BY <1>6, <2>1, FlattenApart
<1>9. FlattenSeq(lists) \in Seq(Occurrence)
  BY <1>6, FlattenTyped
<1>10. ASSUME NEW p \in 1..Len(FlattenSeq(lists))
       PROVE  FlattenSeq(lists)[p].id[1] = s.line
  <2>1. PICK i \in 1..a : \E n \in 1..Len(lists[i]) : FlattenSeq(lists)[p] = lists[i][n]
    BY <1>8 DEF TakenFrom
  <2>2. PICK n \in 1..b : FlattenSeq(lists)[p] = lists[i][n]
    BY <1>5, <2>1
  <2>3. lists[i][n].id = <<s.line, I[i].index, I[i].line, n>>
    BY <1>3, <1>5
  <2> QED BY <2>2, <2>3
<1> QED BY <1>4, <1>8, <1>9, <1>10

-----------------------------------------------------------------------------
(* The invariant.                                                          *)

\* The scenarios that are not refused for their expectation, and those that need a
\* review.
Allowed == {c \in DOMAIN corpus : ~ExpectationFails(corpus[c])}
Reviewable == {c \in DOMAIN corpus : NeedsReview(corpus[c])}

\* The occurrences that match, those that are excluded, and those whose exclusion, if
\* there is one, declares the direction of their mismatch.
Right == {i \in DOMAIN occurrences : Matches(occurrences[i])}
Out == {i \in DOMAIN occurrences : Excluded(occurrences[i])}
Fitting == {i \in DOMAIN occurrences : DirectionFits(occurrences[i])}
Listed == [i \in DOMAIN occurrences |-> occurrences[i].id]
Failed == [i \in DOMAIN occurrences |->
    [id |-> occurrences[i].id, excluded |-> Excluded(occurrences[i]),
     supplemental |-> occurrences[i].supplemental]]

Typing ==
    /\ corpus \in Corpora
    /\ stage \in {"project", "evaluate", "report", "error"}
    /\ position \in Nat
    /\ occurrences \in Seq(Occurrence)
    /\ position <= Len(corpus) + Len(occurrences)
    /\ seen \subseteq DOMAIN ledger
    /\ DOMAIN queries \subseteq Sources
    /\ accepts \subseteq DOMAIN queries
    /\ stale \subseteq DOMAIN exclusions
    /\ matched \in [active : Nat, supplemental : Nat]
    /\ matched.active + matched.supplemental <= Len(occurrences)

\* While projecting: what has been visited was allowed, its reviews have been seen,
\* and each occurrence carries the line of a scenario visited.
Projecting ==
    stage = "project" =>
        /\ position <= Len(corpus)
        /\ 1..position \subseteq Allowed
        /\ seen = {corpus[c].line : c \in (1..position) \cap Reviewable}
        /\ IdsApart(occurrences)
        /\ \A p \in 1..Len(occurrences) :
             \E c \in 1..position : occurrences[p].id[1] = corpus[c].line
        /\ failures = {} /\ stale = {}
        /\ matched = [active |-> 0, supplemental |-> 0]

\* While judging: the occurrences judged so far are accounted for, each by what it is.
Counted ==
    /\ IsFiniteSet(failures)
    /\ matched.active + matched.supplemental + Cardinality(failures) = position
    /\ matched.active + Cardinality({f \in failures : ~f.supplemental})
         = Cardinality((1..position) \cap ActiveOccurrences)

Judging ==
    Projected =>
        /\ position <= Len(occurrences)
        /\ stage = "report" => position = Len(occurrences) /\ UnknownId \notin DOMAIN exclusions
        /\ DOMAIN exclusions \subseteq {Listed[i] : i \in DOMAIN occurrences} \cup {UnknownId}
        /\ failures = {Failed[i] : i \in (1..position) \ Right}
        /\ stale = {Listed[i] : i \in (1..position) \cap Right \cap Out}
        /\ (1..position) \ Right \subseteq Fitting
        /\ Counted

ProjectionInv ==
    Typing /\ Projecting /\ ReviewsTellTheSame /\ IdsInOrder /\ QueriesConsistent /\ Judging

(* What depends on the inputs alone stays.                                 *)
LEMMA InputsFixed ==
    ASSUME UNCHANGED inputs
    PROVE  Allowed' = Allowed /\ Reviewable' = Reviewable
BY DEF inputs, Allowed, Reviewable, ExpectationFails, Expectation, Reviewed, NeedsReview, Agrees

(* So does what depends on the projection, the parser and the exclusions.  *)
LEMMA JudgedFixed ==
    ASSUME UNCHANGED <<occurrences, accepts, exclusions>>
    PROVE  /\ Right' = Right /\ Out' = Out /\ Fitting' = Fitting
           /\ Listed' = Listed /\ Failed' = Failed
           /\ ActiveOccurrences' = ActiveOccurrences
<1>1. Right' = Right
  BY DEF Right, Matches
<1>2. Out' = Out
  BY DEF Out, Excluded
<1>3. Fitting' = Fitting
  BY DEF Fitting, DirectionFits, Excluded, MismatchDirection
<1>4. Listed' = Listed
  BY DEF Listed
<1>5. Failed' = Failed
  BY DEF Failed, Excluded
<1>6. ActiveOccurrences' = ActiveOccurrences
  BY DEF ActiveOccurrences
<1> QED BY <1>1, <1>2, <1>3, <1>4, <1>5, <1>6

(* A feature is a sequence of scenarios on lines of their own.             *)
LEMMA CorpusIs ==
    ASSUME corpus \in Corpora
    PROVE  /\ corpus \in Seq(Scenarios)
           /\ Len(corpus) \in Nat /\ DOMAIN corpus = 1..Len(corpus)
           /\ \A c \in 1..Len(corpus) : corpus[c] \in Scenarios
           /\ \A c, d \in 1..Len(corpus) : corpus[c].line = corpus[d].line => c = d
<1>1. /\ corpus \in Seq(Scenarios)
      /\ \A c, d \in DOMAIN corpus : corpus[c].line = corpus[d].line => c = d
  BY CorporaAssumption
<1>2. Len(corpus) \in Nat /\ DOMAIN corpus = 1..Len(corpus)
  BY <1>1
<1>3. \A c \in 1..Len(corpus) : corpus[c] \in Scenarios
  BY <1>1, <1>2
<1> QED BY <1>1, <1>2, <1>3

LEMMA InitEstablishes == Init => ProjectionInv
<1> SUFFICES ASSUME Init PROVE ProjectionInv
  OBVIOUS
<1> USE DEF Init
<1>1. Len(corpus) \in Nat
  BY CorpusIs
<1>2. Typing
  <2>1. occurrences \in Seq(Occurrence) /\ Len(occurrences) = 0
    OBVIOUS
  <2>2. DOMAIN queries = {} /\ accepts = {}
    OBVIOUS
  <2>3. matched \in [active : Nat, supplemental : Nat]
        /\ matched.active + matched.supplemental = 0
    OBVIOUS
  <2> QED BY <1>1, <2>1, <2>2, <2>3 DEF Typing
<1>3. Projecting
  <2>1. 1..position = {} /\ Len(occurrences) = 0
    OBVIOUS
  <2> QED BY <1>1, <2>1 DEF Projecting, IdsApart
<1>4. ~Projected
  BY DEF Projected
<1> QED BY <1>2, <1>3, <1>4 DEF ProjectionInv, ReviewsTellTheSame, IdsInOrder,
                               QueriesConsistent, Judging

(* A refusal keeps what was there.                                         *)
LEMMA StopKeeps ==
    ASSUME ProjectionInv, Stop
    PROVE  ProjectionInv'
<1>1. Typing'
  BY DEF ProjectionInv, Typing, Stop, inputs, verdicts
<1>2. ~Projected' /\ stage' # "project"
  BY DEF Stop, Projected
<1> QED BY <1>1, <1>2 DEF ProjectionInv, Projecting, ReviewsTellTheSame, IdsInOrder,
                          QueriesConsistent, Judging

LEMMA ProjectKeeps ==
    ASSUME ProjectionInv, Project
    PROVE  ProjectionInv'
<1> DEFINE j == position + 1
           new == Occurrences(Current)
<1>1. /\ stage = "project" /\ stage' = "project" /\ position < Len(corpus)
      /\ ~ExpectationFails(Current) /\ position' = j
      /\ seen' = seen \cup IF NeedsReview(Current) THEN {Current.line} ELSE {}
      /\ occurrences' = occurrences \o new
      /\ UNCHANGED <<inputs, corpus, ledger, queries, accepts, exclusions, failures, stale, matched>>
  BY DEF Project, inputs, verdicts
<1>2. Typing /\ Projecting
  BY DEF ProjectionInv
<1>3. /\ position <= Len(corpus)
      /\ 1..position \subseteq Allowed
      /\ seen = {corpus[c].line : c \in (1..position) \cap Reviewable}
      /\ IdsApart(occurrences)
      /\ \A p \in 1..Len(occurrences) :
           \E c \in 1..position : occurrences[p].id[1] = corpus[c].line
      /\ failures = {} /\ stale = {}
      /\ matched = [active |-> 0, supplemental |-> 0]
  BY <1>1, <1>2 DEF Projecting
<1>4. /\ Len(corpus) \in Nat /\ DOMAIN corpus = 1..Len(corpus)
      /\ \A c \in 1..Len(corpus) : corpus[c] \in Scenarios
      /\ \A c, d \in 1..Len(corpus) : corpus[c].line = corpus[d].line => c = d
  BY <1>2, CorpusIs DEF Typing
<1>5. /\ position \in Nat /\ j \in 1..Len(corpus) /\ Current = corpus[j]
      /\ Current \in Scenarios /\ 1..j = (1..position) \cup {j}
  <2>1. position \in Nat
    BY <1>2 DEF Typing
  <2>2. j \in 1..Len(corpus) /\ 1..j = (1..position) \cup {j}
    BY <1>1, <1>4, <2>1
  <2> QED BY <1>4, <2>1, <2>2 DEF Current
<1> HIDE DEF j
<1>6. /\ new \in Seq(Occurrence) /\ IdsApart(new)
      /\ \A p \in 1..Len(new) : new[p].id[1] = corpus[j].line
  BY <1>1, <1>5, OccurrencesApart
<1> HIDE DEF new
<1>7. occurrences \in Seq(Occurrence)
  BY <1>2 DEF Typing
<1>8. /\ occurrences' \in Seq(Occurrence)
      /\ Len(occurrences') = Len(occurrences) + Len(new)
      /\ Len(occurrences) \in Nat /\ Len(new) \in Nat
  BY <1>1, <1>6, <1>7
<1>9. ASSUME NEW p \in 1..Len(occurrences'), p > Len(occurrences)
      PROVE  occurrences'[p].id[1] = corpus[j].line
  <2>1. p - Len(occurrences) \in 1..Len(new) /\ occurrences'[p] = new[p - Len(occurrences)]
    BY <1>1, <1>6, <1>7, <1>8, <1>9
  <2> QED BY <1>6, <2>1
<1>10. ASSUME NEW p \in 1..Len(occurrences'), ~(p > Len(occurrences))
       PROVE  p \in 1..Len(occurrences) /\ occurrences'[p] = occurrences[p]
  BY <1>1, <1>6, <1>7, <1>8, <1>10
<1>11. j \in Allowed /\ (j \in Reviewable <=> NeedsReview(Current))
  BY <1>1, <1>4, <1>5 DEF Allowed, Reviewable
<1>12. Allowed' = Allowed /\ Reviewable' = Reviewable
  BY <1>1, InputsFixed
<1>13. seen' = {corpus[c].line : c \in (1..j) \cap Reviewable}
  <2>1. CASE j \in Reviewable
    <3>1. (1..j) \cap Reviewable = ((1..position) \cap Reviewable) \cup {j}
      BY <1>5, <2>1
    <3> QED BY <1>1, <1>3, <1>5, <1>11, <2>1, <3>1
  <2>2. CASE j \notin Reviewable
    <3>1. (1..j) \cap Reviewable = (1..position) \cap Reviewable
      BY <1>5, <2>2
    <3> QED BY <1>1, <1>3, <1>11, <2>2, <3>1
  <2> QED BY <2>1, <2>2
<1>14. IdsApart(occurrences')
  <2>1. ASSUME NEW p \in 1..Len(occurrences), NEW q \in 1..Len(new)
        PROVE  occurrences[p].id # new[q].id
    <3>1. PICK c \in 1..position : occurrences[p].id[1] = corpus[c].line
      BY <1>3
    <3>2. c \in 1..Len(corpus) /\ c # j
      BY <1>3, <1>4, <1>5 DEF j
    <3>3. occurrences[p].id[1] # new[q].id[1]
      BY <1>4, <1>5, <1>6, <3>1, <3>2
    <3> QED BY <3>3
  <2> QED BY <1>1, <1>3, <1>6, <1>7, <2>1, JoinedApart
<1>15. \A p \in 1..Len(occurrences') :
         \E c \in 1..j : occurrences'[p].id[1] = corpus[c].line
  <2> SUFFICES ASSUME NEW p \in 1..Len(occurrences')
               PROVE  \E c \in 1..j : occurrences'[p].id[1] = corpus[c].line
    OBVIOUS
  <2>1. CASE p > Len(occurrences)
    BY <1>5, <1>9, <2>1
  <2>2. CASE ~(p > Len(occurrences))
    BY <1>3, <1>5, <1>10, <2>2
  <2> QED BY <2>1, <2>2
<1>16. Projecting'
  <2>1. j <= Len(corpus)
    BY <1>4, <1>5
  <2>2. 1..j \subseteq Allowed
    BY <1>3, <1>5, <1>11, Zenon
  <2>3. IdsApart(occurrences)'
    BY <1>14 DEF IdsApart
  <2> QED BY <1>1, <1>3, <1>12, <1>13, <1>15, <2>1, <2>2, <2>3 DEF Projecting
<1>17. Typing'
  <2>1. seen' \subseteq DOMAIN ledger
    <3>1. seen \subseteq DOMAIN ledger
      BY <1>2 DEF Typing
    <3>2. NeedsReview(Current) => Current.line \in DOMAIN ledger
      BY <1>1 DEF ExpectationFails, Reviewed
    <3> QED BY <1>1, <3>1, <3>2
  <2>2. j <= Len(corpus) + Len(occurrences') /\ j \in Nat
    BY <1>4, <1>5, <1>8
  <2>3. matched.active + matched.supplemental <= Len(occurrences')
    BY <1>3, <1>8
  <2> QED BY <1>1, <1>2, <1>8, <2>1, <2>2, <2>3 DEF Typing
<1>18. ~Projected'
  BY <1>1 DEF Projected
<1> QED BY <1>16, <1>17, <1>18 DEF ProjectionInv, ReviewsTellTheSame, IdsInOrder,
                                   QueriesConsistent, Judging

(* What sorting is given and what it returns.                              *)
LEMMA SortedIs ==
    ASSUME Typing, IdsApart(occurrences), NEW list, list = SortedOccurrences
    PROVE  /\ list \in Seq(Occurrence) /\ Len(list) = Len(occurrences)
           /\ \A q, r \in 1..Len(list) : q < r => Precedes(list[q], list[r])
           /\ {occurrences[i].id : i \in DOMAIN occurrences} = {list[i].id : i \in DOMAIN list}
<1>1. occurrences \in Seq(Occurrence)
  BY DEF Typing
<1>2. list = Sorted(occurrences)
  BY DEF SortedOccurrences
<1> DEFINE n == Len(occurrences)
<1>3. /\ list \in Seq(Occurrence) /\ Len(list) = n
      /\ \A q, r \in 1..n : q < r => Precedes(list[q], list[r])
      /\ \A r \in 1..n : \E k \in 1..n : list[r] = occurrences[k]
      /\ \A k \in 1..n : \E r \in 1..n : list[r] = occurrences[k]
  <2> DEFINE old == occurrences
             new == Sorted(old)
  <2>1. old \in Seq(Occurrence) /\ IdsApart(old)
    BY <1>1
  <2> HIDE DEF old
  <2>2. /\ new \in Seq(Occurrence) /\ Len(new) = Len(old)
        /\ \A q, r \in 1..Len(old) : q < r => Precedes(new[q], new[r])
        /\ \A r \in 1..Len(old) : \E k \in 1..Len(old) : new[r] = old[k]
        /\ \A k \in 1..Len(old) : \E r \in 1..Len(old) : new[r] = old[k]
    BY <2>1, SortedOrders
  <2>3. list = new
    BY <1>2 DEF old
  <2> HIDE DEF new
  <2> QED BY <2>2, <2>3 DEF old
<1>4. DOMAIN occurrences = 1..n /\ DOMAIN list = 1..n
  BY <1>1, <1>3
<1> HIDE DEF n
<1>5. {occurrences[i].id : i \in DOMAIN occurrences} = {list[i].id : i \in DOMAIN list}
  <2>1. ASSUME NEW i \in 1..n PROVE occurrences[i].id \in {list[r].id : r \in 1..n}
    <3>1. PICK r \in 1..n : list[r] = occurrences[i]
      BY <1>3
    <3> QED BY <3>1
  <2>2. ASSUME NEW r \in 1..n PROVE list[r].id \in {occurrences[i].id : i \in 1..n}
    <3>1. PICK i \in 1..n : list[r] = occurrences[i]
      BY <1>3
    <3> QED BY <3>1
  <2> QED BY <1>4, <2>1, <2>2
<1> QED BY <1>3, <1>5 DEF n

(* The recorded expectation of a source is that of all its occurrences.    *)
LEMMA RecordsAgree ==
    ASSUME NEW list \in Seq(Occurrence), ~Conflict(list)
    PROVE  /\ DOMAIN QueryRecords(list) \subseteq Sources
           /\ \A i \in DOMAIN list : QueryRecords(list)[list[i].source] = list[i].expect
<1>1. \A i \in DOMAIN list : list[i].source \in Sources
  <2> SUFFICES ASSUME NEW i \in DOMAIN list PROVE list[i].source \in Sources
    OBVIOUS
  <2>1. list[i] \in Occurrence
    OBVIOUS
  <2> QED BY <2>1 DEF Occurrence
<1>2. DOMAIN QueryRecords(list) = {list[i].source : i \in DOMAIN list}
  BY DEF QueryRecords
<1>3. ASSUME NEW i \in DOMAIN list
      PROVE  QueryRecords(list)[list[i].source] = list[i].expect
  <2> DEFINE k == CHOOSE k \in DOMAIN list : list[k].source = list[i].source
  <2>1. QueryRecords(list)[list[i].source] = list[k].expect
    BY DEF QueryRecords
  <2>2. k \in DOMAIN list /\ list[k].source = list[i].source
    OBVIOUS
  <2> QED BY <2>1, <2>2 DEF Conflict
<1> QED BY <1>1, <1>2, <1>3

LEMMA FinishKeeps ==
    ASSUME ProjectionInv, FinishProjection
    PROVE  ProjectionInv'
<1> DEFINE list == SortedOccurrences
<1>1. /\ stage = "project" /\ stage' = "evaluate" /\ position = Len(corpus) /\ position' = 0
      /\ seen = DOMAIN ledger /\ ~Conflict(list)
      /\ occurrences' = list /\ queries' = QueryRecords(list)
      /\ accepts' \in SUBSET DOMAIN queries'
      /\ exclusions' \in ExclusionLedgers({occurrences[i].id : i \in DOMAIN occurrences})
      /\ UNCHANGED <<corpus, ledger, seen, failures, stale, matched>>
  BY DEF FinishProjection, ReviewsCovered, inputs, verdicts
<1>2. Typing /\ Projecting
  BY DEF ProjectionInv
<1>3. /\ 1..Len(corpus) \subseteq Allowed
      /\ seen = {corpus[c].line : c \in (1..Len(corpus)) \cap Reviewable}
      /\ IdsApart(occurrences) /\ failures = {} /\ stale = {}
      /\ matched = [active |-> 0, supplemental |-> 0]
  BY <1>1, <1>2 DEF Projecting
<1>4. /\ list \in Seq(Occurrence) /\ Len(list) = Len(occurrences)
      /\ \A q, r \in 1..Len(list) : q < r => Precedes(list[q], list[r])
      /\ {occurrences[i].id : i \in DOMAIN occurrences} = {list[i].id : i \in DOMAIN list}
  BY <1>2, <1>3, SortedIs
<1> HIDE DEF list
<1>5. DOMAIN list = 1..Len(list) /\ Len(list) \in Nat
  BY <1>4
<1>6. /\ Len(corpus) \in Nat /\ DOMAIN corpus = 1..Len(corpus)
      /\ \A c, d \in 1..Len(corpus) : corpus[c].line = corpus[d].line => c = d
  BY <1>2, CorpusIs DEF Typing
<1>7. Typing'
  <2>1. DOMAIN queries' \subseteq Sources
    BY <1>1, <1>4, RecordsAgree
  <2>2. matched' \in [active : Nat, supplemental : Nat]
        /\ matched'.active + matched'.supplemental = 0
    BY <1>1, <1>3
  <2>3. 0 <= Len(corpus) + Len(list)
    BY <1>5, <1>6
  <2>4. /\ corpus' \in Corpora /\ seen' \subseteq DOMAIN ledger'
        /\ stale' \subseteq DOMAIN exclusions'
    BY <1>1, <1>2, <1>3 DEF Typing
  <2> QED BY <1>1, <1>4, <1>5, <2>1, <2>2, <2>3, <2>4 DEF Typing
<1>8. ReviewsTellTheSame'
  <2>1. DOMAIN ledger = {corpus[c].line : c \in {d \in DOMAIN corpus :
                                corpus[d].errors = <<"compile time">>}}
    <3>1. (1..Len(corpus)) \cap Reviewable
            = {d \in DOMAIN corpus : corpus[d].errors = <<"compile time">>}
      BY <1>6 DEF Reviewable, NeedsReview
    <3> QED BY <1>1, <1>3, <3>1
  <2>2. ASSUME NEW c \in DOMAIN corpus
        PROVE  corpus[c].skip <=> /\ corpus[c].line \in DOMAIN ledger
                                  /\ ledger[corpus[c].line].expect = "reject"
    <3>1. ~ExpectationFails(corpus[c])
      BY <1>3, <1>6 DEF Allowed
    <3>2. ASSUME corpus[c].skip
          PROVE  corpus[c].line \in DOMAIN ledger /\ ledger[corpus[c].line].expect = "reject"
      BY <3>1, <3>2 DEF ExpectationFails, Expectation, Reviewed
    <3>3. ASSUME corpus[c].line \in DOMAIN ledger, ledger[corpus[c].line].expect = "reject"
          PROVE  corpus[c].skip
      <4>1. PICK d \in DOMAIN corpus : NeedsReview(corpus[d]) /\ corpus[c].line = corpus[d].line
        BY <2>1, <3>3 DEF NeedsReview
      <4>2. NeedsReview(corpus[c])
        BY <1>6, <4>1
      <4>3. Reviewed(corpus[c])
        BY <3>1, <4>2 DEF ExpectationFails
      <4> QED BY <3>3, <4>3 DEF Reviewed, Agrees
    <3> QED BY <3>2, <3>3
  <2> QED BY <1>1, <2>1, <2>2 DEF ReviewsTellTheSame
<1>9. IdsInOrder'
  <2>1. \A i, j \in DOMAIN list : i < j => Precedes(list[i], list[j])
    BY <1>4, <1>5
  <2>2. \A i, j \in DOMAIN occurrences' :
          i < j => Precedes(occurrences'[i], occurrences'[j])
    BY <1>1, <2>1
  <2> QED BY <2>2 DEF IdsInOrder, Precedes
<1>10. QueriesConsistent'
  <2>1. \A i \in DOMAIN list : QueryRecords(list)[list[i].source] = list[i].expect
    BY <1>1, <1>4, RecordsAgree
  <2> QED BY <1>1, <2>1 DEF QueriesConsistent
<1>11. DOMAIN exclusions' \subseteq {list[i].id : i \in DOMAIN list} \cup {UnknownId}
  <2> DEFINE ids == {occurrences[i].id : i \in DOMAIN occurrences}
  <2>1. exclusions' \in ExclusionLedgers(ids)
    BY <1>1
  <2> HIDE DEF ids
  <2>2. PICK S \in SUBSET (ids \cup {UnknownId}) :
             exclusions' \in [S -> {"should accept", "should reject"}]
    BY <2>1 DEF ExclusionLedgers
  <2>3. DOMAIN exclusions' \subseteq ids \cup {UnknownId}
    BY <2>2
  <2> QED BY <1>4, <2>3 DEF ids
<1>12. Judging'
  <2>1. DOMAIN exclusions' \subseteq {Listed'[i] : i \in DOMAIN occurrences'} \cup {UnknownId}
    <3>1. {Listed'[i] : i \in DOMAIN occurrences'} = {list[i].id : i \in DOMAIN list}
      BY <1>1 DEF Listed
    <3> QED BY <1>11, <3>1
  <2>2. 1..position' = {} /\ position' <= Len(occurrences')
    BY <1>1, <1>5
  <2>3. Counted'
    <3>1. IsFiniteSet({}) /\ Cardinality({}) = 0
      BY FS_EmptySet
    <3>2. failures' = {} /\ matched'.active = 0 /\ matched'.supplemental = 0
      BY <1>1, <1>3
    <3>3. {f \in failures' : ~f.supplemental} = {}
      BY <3>2
    <3>4. (1..position') \cap ActiveOccurrences' = {}
      BY <2>2
    <3> QED BY <1>1, <3>1, <3>2, <3>3, <3>4 DEF Counted
  <2> QED BY <1>1, <1>3, <2>1, <2>2, <2>3 DEF Judging
<1>13. Projecting'
  BY <1>1 DEF Projecting
<1> QED BY <1>7, <1>8, <1>9, <1>10, <1>12, <1>13 DEF ProjectionInv

-----------------------------------------------------------------------------
(* Judging.                                                                *)

(* What an invariant state knows of its occurrences while judging.         *)
LEMMA JudgedIs ==
    ASSUME ProjectionInv, Projected
    PROVE  /\ position \in Nat /\ Len(occurrences) \in Nat /\ position <= Len(occurrences)
           /\ DOMAIN occurrences = 1..Len(occurrences)
           /\ \A i \in 1..Len(occurrences) : occurrences[i] \in Occurrence
           /\ \A i, j \in 1..Len(occurrences) : Listed[i] = Listed[j] => i = j
           /\ \A i \in 1..Len(occurrences) :
                /\ Listed[i] = occurrences[i].id
                /\ Failed[i].id = Listed[i] /\ (Failed[i].excluded <=> i \in Out)
                /\ (~Failed[i].supplemental <=> i \in ActiveOccurrences)
                /\ (i \in Out <=> Listed[i] \in DOMAIN exclusions)
<1>1. occurrences \in Seq(Occurrence) /\ position \in Nat
  BY DEF ProjectionInv, Typing
<1>2. position <= Len(occurrences)
  BY DEF ProjectionInv, Judging
<1>3. /\ Len(occurrences) \in Nat /\ DOMAIN occurrences = 1..Len(occurrences)
      /\ \A i \in 1..Len(occurrences) : occurrences[i] \in Occurrence
  BY <1>1
<1>4. \A i \in 1..Len(occurrences) : Listed[i] = occurrences[i].id
  BY <1>3 DEF Listed
<1>5. ASSUME NEW i \in 1..Len(occurrences), NEW j \in 1..Len(occurrences),
             Listed[i] = Listed[j]
      PROVE  i = j
  <2>1. \A p, q \in 1..Len(occurrences) : p < q => Precedes(occurrences[p], occurrences[q])
    BY <1>3 DEF ProjectionInv, IdsInOrder
  <2>2. occurrences[i].id = occurrences[j].id
    BY <1>4, <1>5
  <2>3. ~Precedes(occurrences[i], occurrences[j]) /\ ~Precedes(occurrences[j], occurrences[i])
    BY <1>3, <2>2, PrecedesOrders
  <2>4. i \in Int /\ j \in Int
    OBVIOUS
  <2> QED BY <2>1, <2>3, <2>4
<1>6. \A i \in 1..Len(occurrences) :
        /\ Failed[i].id = Listed[i] /\ (Failed[i].excluded <=> Excluded(occurrences[i]))
        /\ Failed[i].supplemental = occurrences[i].supplemental
  BY <1>3, <1>4 DEF Failed
<1>7. \A i \in 1..Len(occurrences) : i \in Out <=> Excluded(occurrences[i])
  BY <1>3 DEF Out
<1>8. \A i \in 1..Len(occurrences) : i \in ActiveOccurrences <=> ~occurrences[i].supplemental
  BY <1>3 DEF ActiveOccurrences
<1>9. \A i \in 1..Len(occurrences) : Excluded(occurrences[i]) <=> Listed[i] \in DOMAIN exclusions
  BY <1>4 DEF Excluded
<1> QED BY <1>1, <1>2, <1>3, <1>4, <1>5, <1>6, <1>7, <1>8, <1>9

(* One more place, and one more to count if it is counted.                 *)
LEMMA OneMore ==
    ASSUME NEW n \in Nat, NEW A
    PROVE  /\ Cardinality((1..n) \cap A) \in Nat
           /\ Cardinality((1..(n + 1)) \cap A)
                = Cardinality((1..n) \cap A) + IF n + 1 \in A THEN 1 ELSE 0
<1> DEFINE S == (1..n) \cap A
<1>1. IsFiniteSet(S)
  <2>1. IsFiniteSet(1..n)
    BY FS_Interval
  <2> QED BY <2>1, FS_Subset
<1>2. n + 1 \notin S
  OBVIOUS
<1>3. (1..(n + 1)) \cap A = IF n + 1 \in A THEN S \cup {n + 1} ELSE S
  <2>1. 1..(n + 1) = (1..n) \cup {n + 1}
    OBVIOUS
  <2> QED BY <2>1
<1> HIDE DEF S
<1>4. Cardinality(S) \in Nat
  BY <1>1, FS_CardinalityType
<1>5. Cardinality(S \cup {n + 1}) = Cardinality(S) + 1
  BY <1>1, <1>2, FS_AddElement
<1>6. CASE n + 1 \in A
  BY <1>3, <1>4, <1>5, <1>6 DEF S
<1>7. CASE n + 1 \notin A
  BY <1>3, <1>4, <1>7 DEF S
<1> QED BY <1>6, <1>7

(* The parts of the invariant that speak of the finished projection.       *)
LEMMA ProjectionStands ==
    ASSUME ProjectionInv, Projected,
           UNCHANGED <<inputs, occurrences, queries, accepts, exclusions>>
    PROVE  ReviewsTellTheSame' /\ IdsInOrder' /\ QueriesConsistent'
<1>1. ReviewsTellTheSame'
  BY DEF ProjectionInv, ReviewsTellTheSame, inputs
<1>2. IdsInOrder'
  BY DEF ProjectionInv, IdsInOrder, Precedes
<1>3. QueriesConsistent'
  BY DEF ProjectionInv, QueriesConsistent
<1> QED BY <1>1, <1>2, <1>3

LEMMA MatchKeeps ==
    ASSUME ProjectionInv, Match
    PROVE  ProjectionInv'
<1> DEFINE j == position + 1
<1>1. /\ stage = "evaluate" /\ stage' = "evaluate" /\ position < Len(occurrences)
      /\ Matches(Judged) /\ position' = j
      /\ matched' = [matched EXCEPT
           ![IF Judged.supplemental THEN "supplemental" ELSE "active"] = @ + 1]
      /\ stale' = stale \cup IF Excluded(Judged) THEN {Judged.id} ELSE {}
      /\ UNCHANGED <<inputs, corpus, ledger, seen, occurrences, queries, accepts,
                     exclusions, failures>>
  BY DEF Match, Evaluating, inputs
<1>2. Projected /\ Projected' /\ stage' # "project"
  BY <1>1 DEF Projected
<1>3. /\ position \in Nat /\ Len(occurrences) \in Nat
      /\ DOMAIN occurrences = 1..Len(occurrences)
      /\ \A i \in 1..Len(occurrences) :
           /\ Listed[i] = occurrences[i].id
           /\ (~Failed[i].supplemental <=> i \in ActiveOccurrences)
           /\ (i \in Out <=> Listed[i] \in DOMAIN exclusions)
  BY <1>2, JudgedIs
<1>4. /\ DOMAIN exclusions \subseteq {Listed[i] : i \in DOMAIN occurrences} \cup {UnknownId}
      /\ failures = {Failed[i] : i \in (1..position) \ Right}
      /\ stale = {Listed[i] : i \in (1..position) \cap Right \cap Out}
      /\ (1..position) \ Right \subseteq Fitting
      /\ Counted
  BY <1>2 DEF ProjectionInv, Judging
<1>5. /\ j \in 1..Len(occurrences) /\ j \in Nat /\ Judged = occurrences[j]
      /\ 1..j = (1..position) \cup {j}
  BY <1>1, <1>3 DEF Judged
<1>6. j \in Right
  BY <1>1, <1>3, <1>5 DEF Right
<1>7. Excluded(Judged) <=> j \in Out
  BY <1>3, <1>5 DEF Out
<1>8. Judged.supplemental <=> j \notin ActiveOccurrences
  BY <1>3, <1>5 DEF ActiveOccurrences
<1>9. /\ Right' = Right /\ Out' = Out /\ Fitting' = Fitting
      /\ Listed' = Listed /\ Failed' = Failed /\ ActiveOccurrences' = ActiveOccurrences
  BY <1>1, JudgedFixed
<1>10. stale' = {Listed[i] : i \in (1..j) \cap Right \cap Out}
  <2>1. CASE j \in Out
    <3>1. (1..j) \cap Right \cap Out = ((1..position) \cap Right \cap Out) \cup {j}
      BY <1>5, <1>6, <2>1
    <3>2. stale' = stale \cup {Listed[j]}
      BY <1>1, <1>3, <1>5, <1>7, <2>1
    <3> QED BY <1>4, <3>1, <3>2
  <2>2. CASE j \notin Out
    <3>1. (1..j) \cap Right \cap Out = (1..position) \cap Right \cap Out
      BY <1>5, <2>2
    <3>2. stale' = stale
      BY <1>1, <1>7, <2>2
    <3> QED BY <1>4, <3>1, <3>2
  <2> QED BY <2>1, <2>2
<1>11. (1..j) \ Right = (1..position) \ Right
  BY <1>5, <1>6
<1>12. matched \in [active : Nat, supplemental : Nat]
  BY DEF ProjectionInv, Typing
<1>13. /\ matched' \in [active : Nat, supplemental : Nat]
       /\ matched'.active + matched'.supplemental = matched.active + matched.supplemental + 1
       /\ matched'.active = matched.active + IF j \in ActiveOccurrences THEN 1 ELSE 0
  <2>1. CASE j \in ActiveOccurrences
    <3>1. matched' = [matched EXCEPT !["active"] = @ + 1]
      BY <1>1, <1>8, <2>1
    <3> QED BY <1>12, <2>1, <3>1
  <2>2. CASE j \notin ActiveOccurrences
    <3>1. matched' = [matched EXCEPT !["supplemental"] = @ + 1]
      BY <1>1, <1>8, <2>2
    <3> QED BY <1>12, <2>2, <3>1
  <2> QED BY <2>1, <2>2
<1>14. /\ Cardinality((1..position) \cap ActiveOccurrences) \in Nat
       /\ Cardinality((1..j) \cap ActiveOccurrences)
            = Cardinality((1..position) \cap ActiveOccurrences)
                + IF j \in ActiveOccurrences THEN 1 ELSE 0
  BY <1>3, OneMore
<1> HIDE DEF j
<1>15. /\ IsFiniteSet(failures) /\ Cardinality(failures) \in Nat
       /\ Cardinality({f \in failures : ~f.supplemental}) \in Nat
       /\ matched.active + matched.supplemental + Cardinality(failures) = position
       /\ matched.active + Cardinality({f \in failures : ~f.supplemental})
            = Cardinality((1..position) \cap ActiveOccurrences)
  <2>1. IsFiniteSet({f \in failures : ~f.supplemental})
    <3>1. {f \in failures : ~f.supplemental} \subseteq failures
      OBVIOUS
    <3> QED BY <1>4, <3>1, FS_Subset DEF Counted
  <2> QED BY <1>4, <2>1, FS_CardinalityType DEF Counted
<1>16. Counted'
  <2>1. matched'.active + matched'.supplemental + Cardinality(failures) = j
    BY <1>12, <1>13, <1>15 DEF j
  <2>2. matched'.active + Cardinality({f \in failures : ~f.supplemental})
          = Cardinality((1..j) \cap ActiveOccurrences)
    BY <1>12, <1>13, <1>14, <1>15
  <2> QED BY <1>1, <1>9, <1>15, <2>1, <2>2 DEF Counted
<1>17. j <= Len(occurrences)
  BY <1>3, <1>5
<1>18. Judging'
  BY <1>1, <1>4, <1>9, <1>10, <1>11, <1>16, <1>17 DEF Judging
<1>19. Typing'
  <2>1. stale' \subseteq DOMAIN exclusions
    <3>1. stale \subseteq DOMAIN exclusions
      BY DEF ProjectionInv, Typing
    <3>2. Excluded(Judged) => Judged.id \in DOMAIN exclusions
      BY DEF Excluded
    <3> QED BY <1>1, <3>1, <3>2
  <2>2. matched'.active + matched'.supplemental <= Len(occurrences)
    <3>1. matched'.active \in Nat /\ matched'.supplemental \in Nat
      BY <1>13
    <3>2. matched'.active + matched'.supplemental + Cardinality(failures) = j
      BY <1>16, <1>1 DEF Counted
    <3> QED BY <1>3, <1>15, <1>17, <3>1, <3>2
  <2>3. corpus \in Corpora /\ Len(corpus) \in Nat
    BY CorpusIs DEF ProjectionInv, Typing
  <2>4. j <= Len(corpus) + Len(occurrences) /\ j \in Nat
    BY <1>3, <1>5, <1>17, <2>3
  <2>5. /\ occurrences \in Seq(Occurrence) /\ seen \subseteq DOMAIN ledger
        /\ DOMAIN queries \subseteq Sources /\ accepts \subseteq DOMAIN queries
    BY DEF ProjectionInv, Typing
  <2> QED BY <1>1, <1>13, <2>1, <2>2, <2>3, <2>4, <2>5 DEF Typing
<1>20. ReviewsTellTheSame' /\ IdsInOrder' /\ QueriesConsistent'
  BY <1>1, <1>2, ProjectionStands
<1>21. Projecting'
  BY <1>2 DEF Projecting
<1> QED BY <1>18, <1>19, <1>20, <1>21 DEF ProjectionInv

LEMMA MismatchKeeps ==
    ASSUME ProjectionInv, Mismatch
    PROVE  ProjectionInv'
<1> DEFINE j == position + 1
           A == ActiveOccurrences
           active == {f \in failures : ~f.supplemental}
<1>1. /\ stage = "evaluate" /\ stage' = "evaluate" /\ position < Len(occurrences)
      /\ ~Matches(Judged) /\ DirectionFits(Judged) /\ position' = j
      /\ failures' = failures \cup {[id |-> Judged.id, excluded |-> Excluded(Judged),
                                     supplemental |-> Judged.supplemental]}
      /\ UNCHANGED <<inputs, corpus, ledger, seen, occurrences, queries, accepts,
                     exclusions, stale, matched>>
  BY DEF Mismatch, Evaluating, inputs
<1>2. Projected /\ Projected' /\ stage' # "project"
  BY <1>1 DEF Projected
<1>3. /\ position \in Nat /\ Len(occurrences) \in Nat
      /\ DOMAIN occurrences = 1..Len(occurrences)
      /\ \A p, q \in 1..Len(occurrences) : Listed[p] = Listed[q] => p = q
      /\ \A i \in 1..Len(occurrences) :
           /\ Failed[i].id = Listed[i]
           /\ (~Failed[i].supplemental <=> i \in A)
  BY <1>2, JudgedIs
<1>4. /\ DOMAIN exclusions \subseteq {Listed[i] : i \in DOMAIN occurrences} \cup {UnknownId}
      /\ failures = {Failed[i] : i \in (1..position) \ Right}
      /\ stale = {Listed[i] : i \in (1..position) \cap Right \cap Out}
      /\ (1..position) \ Right \subseteq Fitting
      /\ Counted
  BY <1>2 DEF ProjectionInv, Judging
<1>5. /\ j \in 1..Len(occurrences) /\ j \in Nat /\ Judged = occurrences[j]
      /\ 1..j = (1..position) \cup {j} /\ j \notin 1..position
      /\ 1..position \subseteq 1..Len(occurrences)
  BY <1>1, <1>3 DEF Judged
<1>6. j \notin Right /\ j \in Fitting
  BY <1>1, <1>3, <1>5 DEF Right, Fitting
<1>7. failures' = failures \cup {Failed[j]}
  BY <1>1, <1>3, <1>5 DEF Failed
<1>8. /\ Right' = Right /\ Out' = Out /\ Fitting' = Fitting
      /\ Listed' = Listed /\ Failed' = Failed /\ ActiveOccurrences' = ActiveOccurrences
  BY <1>1, JudgedFixed
<1>9. failures' = {Failed[i] : i \in (1..j) \ Right}
  <2>1. (1..j) \ Right = ((1..position) \ Right) \cup {j}
    BY <1>5, <1>6
  <2> QED BY <1>4, <1>7, <2>1
<1>10. (1..j) \cap Right \cap Out = (1..position) \cap Right \cap Out
  BY <1>5, <1>6
<1>11. (1..j) \ Right \subseteq Fitting
  BY <1>4, <1>5, <1>6
<1>12. Failed[j] \notin failures
  <2> SUFFICES ASSUME NEW i \in (1..position) \ Right, Failed[i] = Failed[j] PROVE FALSE
    BY <1>4
  <2>1. i \in 1..Len(occurrences) /\ i # j
    BY <1>5
  <2>2. Failed[i].id = Listed[i] /\ Failed[j].id = Listed[j]
    BY <1>3, <1>5, <2>1
  <2> QED BY <1>3, <1>5, <2>1, <2>2
<1>13. /\ Cardinality((1..position) \cap A) \in Nat
       /\ Cardinality((1..j) \cap A)
            = Cardinality((1..position) \cap A) + IF j \in A THEN 1 ELSE 0
  BY <1>3, OneMore
<1>14. matched \in [active : Nat, supplemental : Nat]
  BY DEF ProjectionInv, Typing
<1>15. /\ IsFiniteSet(failures) /\ Cardinality(failures) \in Nat
       /\ IsFiniteSet(active) /\ Cardinality(active) \in Nat
       /\ matched.active + matched.supplemental + Cardinality(failures) = position
       /\ matched.active + Cardinality(active) = Cardinality((1..position) \cap A)
  <2>1. IsFiniteSet(active)
    <3>1. active \subseteq failures
      OBVIOUS
    <3> QED BY <1>4, <3>1, FS_Subset DEF Counted
  <2> QED BY <1>4, <2>1, FS_CardinalityType DEF Counted
<1>16. /\ IsFiniteSet(failures') /\ Cardinality(failures') = Cardinality(failures) + 1
  BY <1>7, <1>12, <1>15, FS_AddElement
<1>17. Cardinality({f \in failures' : ~f.supplemental})
         = Cardinality(active) + IF j \in A THEN 1 ELSE 0
  <2>1. ~Failed[j].supplemental <=> j \in A
    BY <1>3, <1>5
  <2>2. CASE j \in A
    <3>1. {f \in failures' : ~f.supplemental} = active \cup {Failed[j]}
      BY <1>7, <2>1, <2>2
    <3>2. Failed[j] \notin active
      BY <1>12
    <3> HIDE DEF active
    <3>3. Cardinality(active \cup {Failed[j]}) = Cardinality(active) + 1
      BY <1>15, <3>2, FS_AddElement
    <3> QED BY <2>2, <3>1, <3>3
  <2>3. CASE j \notin A
    <3>1. {f \in failures' : ~f.supplemental} = active
      BY <1>7, <2>1, <2>3
    <3>2. Cardinality(active) \in Nat
      BY <1>15
    <3>3. (IF j \in A THEN 1 ELSE 0) = 0
      BY <2>3, Zenon
    <3> HIDE DEF active, A, j
    <3> QED BY <3>1, <3>2, <3>3
  <2> HIDE DEF active, A
  <2> QED BY <2>2, <2>3
<1> HIDE DEF j, A, active
<1>18. Counted'
  <2>1. matched.active + matched.supplemental + Cardinality(failures') = j
    BY <1>3, <1>14, <1>15, <1>16 DEF j
  <2>2. matched.active + Cardinality({f \in failures' : ~f.supplemental})
          = Cardinality((1..j) \cap A)
    BY <1>13, <1>14, <1>15, <1>17
  <2> QED BY <1>1, <1>8, <1>16, <2>1, <2>2 DEF Counted, A
<1>19. j <= Len(occurrences)
  BY <1>3, <1>5
<1>20. Judging'
  BY <1>1, <1>4, <1>8, <1>9, <1>10, <1>11, <1>18, <1>19 DEF Judging
<1>21. Typing'
  <2>1. corpus \in Corpora /\ Len(corpus) \in Nat
    BY CorpusIs DEF ProjectionInv, Typing
  <2>2. j <= Len(corpus) + Len(occurrences) /\ j \in Nat
    BY <1>3, <1>5, <1>19, <2>1
  <2> QED BY <1>1, <2>2 DEF ProjectionInv, Typing
<1>22. ReviewsTellTheSame' /\ IdsInOrder' /\ QueriesConsistent'
  BY <1>1, <1>2, ProjectionStands
<1>23. Projecting'
  BY <1>2 DEF Projecting
<1> QED BY <1>20, <1>21, <1>22, <1>23 DEF ProjectionInv

(* Once projected, only judging changes anything.                          *)
LEMMA QuietKeeps ==
    ASSUME ProjectionInv, Projected, Projected',
           UNCHANGED <<inputs, position, seen, occurrences, queries, accepts, exclusions,
                       verdicts>>,
           stage' = "report" => /\ position = Len(occurrences)
                                /\ UnknownId \notin DOMAIN exclusions
    PROVE  ProjectionInv'
<1>1. UNCHANGED <<inputs, corpus, ledger, position, seen, occurrences, queries, accepts,
                  exclusions, failures, stale, matched>>
  BY DEF inputs, verdicts
<1>2. /\ Right' = Right /\ Out' = Out /\ Fitting' = Fitting
      /\ Listed' = Listed /\ Failed' = Failed /\ ActiveOccurrences' = ActiveOccurrences
  BY <1>1, JudgedFixed
<1>3. Counted'
  BY <1>1, <1>2 DEF ProjectionInv, Judging, Counted
<1>4. Judging'
  BY <1>1, <1>2, <1>3 DEF ProjectionInv, Judging
<1>5. Typing'
  BY <1>1 DEF ProjectionInv, Typing, Projected
<1>6. Projecting'
  BY DEF Projecting, Projected
<1> QED BY <1>1, <1>4, <1>5, <1>6, ProjectionStands DEF ProjectionInv

LEMMA StutterKeeps ==
    ASSUME ProjectionInv, UNCHANGED vars
    PROVE  ProjectionInv'
<1>1. UNCHANGED <<inputs, corpus, ledger, stage, position, seen, occurrences, queries,
                  accepts, exclusions, failures, stale, matched>>
  BY DEF vars, inputs, verdicts
<1>2. CASE Projected
  <2>1. stage' = "report" => position = Len(occurrences) /\ UnknownId \notin DOMAIN exclusions
    BY <1>1, <1>2 DEF ProjectionInv, Judging
  <2>2. Projected'
    BY <1>1, <1>2 DEF Projected
  <2> QED BY <1>1, <1>2, <2>1, <2>2, QuietKeeps DEF verdicts
<1>3. CASE ~Projected
  <2>1. ~Projected'
    BY <1>1, <1>3 DEF Projected
  <2>2. Typing'
    BY <1>1 DEF ProjectionInv, Typing
  <2>3. Projecting'
    <3>1. Allowed' = Allowed /\ Reviewable' = Reviewable
      BY <1>1, InputsFixed
    <3> QED BY <1>1, <3>1 DEF ProjectionInv, Projecting, IdsApart
  <2> QED BY <2>1, <2>2, <2>3 DEF ProjectionInv, ReviewsTellTheSame, IdsInOrder,
                                  QueriesConsistent, Judging
<1> QED BY <1>2, <1>3

(* What a finished projection can be trusted for, and what judging it has  *)
(* counted, hold in every state of build_projection and evaluate: for any  *)
(* feature, any reviews, any parser and any exclusions.                    *)
THEOREM ProjectionInvariant == Spec => []ProjectionInv
<1>1. Init => ProjectionInv
  BY InitEstablishes
<1>2. ASSUME ProjectionInv, [Next]_vars
      PROVE  ProjectionInv'
  <2>1. CASE Project
    BY <1>2, <2>1, ProjectKeeps
  <2>2. CASE RefuseScenario \/ RefuseProjection \/ RefuseExclusions \/ RefuseDirection
    <3>1. Stop
      BY <2>2 DEF RefuseScenario, RefuseProjection, RefuseExclusions, RefuseDirection
    <3> QED BY <1>2, <3>1, StopKeeps
  <2>3. CASE FinishProjection
    BY <1>2, <2>3, FinishKeeps
  <2>4. CASE Match
    BY <1>2, <2>4, MatchKeeps
  <2>5. CASE Mismatch
    BY <1>2, <2>5, MismatchKeeps
  <2>6. CASE Report
    <3>1. /\ Projected /\ Projected'
          /\ position = Len(occurrences) /\ UnknownId \notin DOMAIN exclusions
          /\ UNCHANGED <<inputs, position, seen, occurrences, queries, accepts, exclusions,
                         verdicts>>
      BY <2>6 DEF Report, Evaluating, Projected
    <3> QED BY <1>2, <3>1, QuietKeeps
  <2>7. CASE UNCHANGED vars
    BY <1>2, <2>7, StutterKeeps
  <2> QED BY <1>2, <2>1, <2>2, <2>3, <2>4, <2>5, <2>6, <2>7 DEF Next
<1> QED BY <1>1, <1>2, PTL DEF Spec

(* A projection exists only if the ledger of reviews, the error steps and  *)
(* the tags of its scenarios tell the same story (scenario_expectation and *)
(* validate_seen_reviews).                                                 *)
THEOREM ReviewsAgree == Spec => []ReviewsTellTheSame
<1>1. ProjectionInv => ReviewsTellTheSame
  BY DEF ProjectionInv
<1> QED BY <1>1, ProjectionInvariant, PTL

(* Occurrences are told apart by their ids and sorted by them, and each    *)
(* source is asked for one answer (push_occurrence, sort_pending_occurrences, *)
(* query_records).                                                         *)
THEOREM ProjectionCanBeJudged == Spec => []ProjectionConsistent
<1>1. ProjectionInv => ProjectionConsistent
  <2> SUFFICES ASSUME ProjectionInv PROVE TypeOK
    BY DEF ProjectionConsistent, ProjectionInv
  <2>1. Len(corpus) \in Nat /\ Len(occurrences) \in Nat
    BY CorpusIs DEF ProjectionInv, Typing
  <2>2. position \in 0..(Len(corpus) + Len(occurrences))
    BY <2>1 DEF ProjectionInv, Typing
  <2> QED BY <2>2 DEF ProjectionInv, Typing, TypeOK
<1> QED BY <1>1, ProjectionInvariant, PTL

(* The sizes of two parts of a finite set add up to its own.               *)
LEMMA Parted ==
    ASSUME NEW P, NEW Q, IsFiniteSet(P \cup Q), P \cap Q = {}
    PROVE  /\ Cardinality(P) \in Nat /\ Cardinality(Q) \in Nat
           /\ Cardinality(P \cup Q) = Cardinality(P) + Cardinality(Q)
<1>1. IsFiniteSet(P) /\ IsFiniteSet(Q)
  <2>1. P \subseteq P \cup Q /\ Q \subseteq P \cup Q
    OBVIOUS
  <2> QED BY <2>1, FS_Subset
<1>2. Cardinality(P) \in Nat /\ Cardinality(Q) \in Nat
  BY <1>1, FS_CardinalityType
<1>3. Cardinality(P \cup Q) = Cardinality(P) + Cardinality(Q) - Cardinality(P \cap Q)
  BY <1>1, FS_Union
<1>4. Cardinality(P \cap Q) = 0
  BY FS_EmptySet
<1> QED BY <1>2, <1>3, <1>4

(* The report of a finished run, from what has been counted.               *)
LEMMA GateOpensRightly ==
    ASSUME ProjectionInv, stage = "report"
    PROVE  Success <=> \A i \in DOMAIN occurrences :
             LET o == occurrences[i] IN
             IF Excluded(o)
             THEN /\ (o.expect = "accept") # (o.source \in accepts)
                  /\ exclusions[o.id] = MismatchDirection(o)
             ELSE (o.expect = "accept") = (o.source \in accepts)
<1> DEFINE n == Len(occurrences)
           Good(i) == IF i \in Out THEN i \notin Right /\ i \in Fitting ELSE i \in Right
<1>1. Projected
  BY DEF Projected
<1>2. /\ position = n
      /\ failures = {Failed[i] : i \in (1..position) \ Right}
      /\ stale = {Listed[i] : i \in (1..position) \cap Right \cap Out}
      /\ (1..position) \ Right \subseteq Fitting
      /\ IsFiniteSet(failures)
  BY <1>1 DEF ProjectionInv, Judging, Counted
<1>3. /\ n \in Nat /\ DOMAIN occurrences = 1..n
      /\ \A i \in 1..n : occurrences[i] \in Occurrence
      /\ \A i \in 1..n : Failed[i].excluded <=> i \in Out
  BY <1>1, JudgedIs
<1>4. Success <=> (1..n) \ Right \subseteq Out /\ (1..n) \cap Right \cap Out = {}
  <2> DEFINE unexpected == {f \in failures : ~f.excluded}
  <2>1. IsFiniteSet(unexpected)
    <3>1. unexpected \subseteq failures
      OBVIOUS
    <3> QED BY <1>2, <3>1, FS_Subset
  <2>2. Cardinality(unexpected) = 0 <=> unexpected = {}
    <3> HIDE DEF unexpected
    <3> QED BY <2>1, FS_EmptySet
  <2>3. unexpected = {} <=> (1..n) \ Right \subseteq Out
    BY <1>2, <1>3
  <2>4. stale = {} <=> (1..n) \cap Right \cap Out = {}
    BY <1>2
  <2>5. Success <=> Cardinality(unexpected) = 0 /\ stale = {}
    BY DEF Success, Unexpected
  <2> HIDE DEF unexpected, n
  <2> QED BY <2>2, <2>3, <2>4, <2>5
<1>5. ASSUME NEW i \in 1..n
      PROVE  /\ i \in Out <=> Excluded(occurrences[i])
             /\ i \in Right <=> ((occurrences[i].expect = "accept")
                                   = (occurrences[i].source \in accepts))
             /\ i \in Out => (i \in Fitting <=> exclusions[occurrences[i].id]
                                                  = MismatchDirection(occurrences[i]))
  <2>1. i \in Out <=> Excluded(occurrences[i])
    BY <1>3 DEF Out
  <2>2. i \in Right <=> Matches(occurrences[i])
    BY <1>3 DEF Right
  <2>3. i \in Fitting <=> DirectionFits(occurrences[i])
    BY <1>3 DEF Fitting
  <2> QED BY <2>1, <2>2, <2>3 DEF Matches, DirectionFits
<1>6. ASSUME NEW i \in 1..n
      PROVE  Good(i) <=>
               LET o == occurrences[i] IN
               IF Excluded(o)
               THEN /\ (o.expect = "accept") # (o.source \in accepts)
                    /\ exclusions[o.id] = MismatchDirection(o)
               ELSE (o.expect = "accept") = (o.source \in accepts)
  BY <1>5
<1>7. (\A i \in 1..n : Good(i))
        <=> (1..n) \ Right \subseteq Out /\ (1..n) \cap Right \cap Out = {}
  BY <1>2
<1> HIDE DEF Good, n
<1> QED BY <1>3, <1>4, <1>6, <1>7

LEMMA NumbersAddUp ==
    ASSUME ProjectionInv, stage = "report"
    PROVE  CountsAddUp
<1> DEFINE n == Len(occurrences)
           Ex == {f \in failures : f.excluded}
           Un == {f \in failures : ~f.excluded}
           Active == {f \in failures : ~f.supplemental}
           UnSupplemental == {f \in {g \in failures : g.supplemental} : ~f.excluded}
           UnActive == {f \in Un : ~f.supplemental}
<1>1. Projected
  BY DEF Projected
<1>2. /\ position = n /\ UnknownId \notin DOMAIN exclusions
      /\ DOMAIN exclusions \subseteq {Listed[i] : i \in DOMAIN occurrences} \cup {UnknownId}
      /\ failures = {Failed[i] : i \in (1..position) \ Right}
      /\ stale = {Listed[i] : i \in (1..position) \cap Right \cap Out}
      /\ IsFiniteSet(failures)
      /\ matched.active + matched.supplemental + Cardinality(failures) = position
      /\ matched.active + Cardinality(Active) = Cardinality((1..position) \cap ActiveOccurrences)
  BY <1>1 DEF ProjectionInv, Judging, Counted
<1>3. /\ n \in Nat /\ DOMAIN occurrences = 1..n
      /\ \A i, j \in 1..n : Listed[i] = Listed[j] => i = j
      /\ \A i \in 1..n : /\ Failed[i].id = Listed[i]
                         /\ Failed[i].excluded <=> i \in Out
                         /\ i \in Out <=> Listed[i] \in DOMAIN exclusions
  BY <1>1, JudgedIs
<1>4. matched.active \in Nat /\ matched.supplemental \in Nat
  BY DEF ProjectionInv, Typing
<1>5. /\ Cardinality(Ex) \in Nat /\ Cardinality(Un) \in Nat
      /\ Cardinality(failures) = Cardinality(Ex) + Cardinality(Un)
  <2>1. failures = Ex \cup Un /\ Ex \cap Un = {}
    OBVIOUS
  <2> HIDE DEF Ex, Un
  <2>2. IsFiniteSet(Ex \cup Un)
    BY <1>2, <2>1
  <2> QED BY <2>1, <2>2, Parted
<1>6. /\ Cardinality(UnSupplemental) \in Nat /\ Cardinality(UnActive) \in Nat
      /\ Cardinality(Un) = Cardinality(UnSupplemental) + Cardinality(UnActive)
  <2>1. Un = UnSupplemental \cup UnActive /\ UnSupplemental \cap UnActive = {}
    OBVIOUS
  <2>2. IsFiniteSet(Un)
    <3>1. Un \subseteq failures
      OBVIOUS
    <3> QED BY <1>2, <3>1, FS_Subset
  <2> HIDE DEF Un, UnSupplemental, UnActive
  <2> QED BY <2>1, <2>2, Parted
<1>7. Cardinality(UnActive) <= Cardinality(Active) /\ Cardinality(Active) \in Nat
  <2>1. UnActive \subseteq Active /\ Active \subseteq failures
    OBVIOUS
  <2> HIDE DEF UnActive, Active
  <2>2. IsFiniteSet(Active)
    BY <1>2, <2>1, FS_Subset
  <2> QED BY <2>1, <2>2, FS_Subset, FS_CardinalityType
<1>8. (1..position) \cap ActiveOccurrences = ActiveOccurrences
  BY <1>2, <1>3 DEF ActiveOccurrences
<1>9. /\ Unexpected(failures) = Cardinality(Un)
      /\ ActiveUnexpected = Cardinality(Un) - Cardinality(UnSupplemental)
  BY DEF ActiveUnexpected, SupplementalUnexpected, Unexpected
<1>10. ASSUME NEW id \in DOMAIN exclusions
       PROVE  (id \in stale) # (\E f \in failures : f.id = id /\ f.excluded)
  <2>1. PICK i \in 1..n : id = Listed[i]
    BY <1>2, <1>3
  <2>2. i \in Out
    BY <1>3, <2>1
  <2>3. id \in stale <=> i \in Right
    BY <1>2, <1>3, <2>1, <2>2
  <2>4. (\E f \in failures : f.id = id /\ f.excluded) <=> i \notin Right
    <3>1. ASSUME i \notin Right
          PROVE  \E f \in failures : f.id = id /\ f.excluded
      <4>1. Failed[i] \in failures
        BY <1>2, <3>1
      <4> QED BY <1>3, <2>1, <2>2, <4>1
    <3>2. ASSUME NEW f \in failures, f.id = id
          PROVE  i \notin Right
      <4>1. PICK k \in (1..n) \ Right : f = Failed[k]
        BY <1>2
      <4>2. Listed[k] = Listed[i]
        BY <1>3, <2>1, <3>2, <4>1
      <4>3. k = i
        BY <1>3, <4>2
      <4> QED BY <4>1, <4>3
    <3> QED BY <3>1, <3>2
  <2> QED BY <2>3, <2>4
<1>11. matched.active + matched.supplemental + Cardinality(Ex) + Unexpected(failures) = n
  <2> HIDE DEF Ex, Un, n
  <2> QED BY <1>2, <1>4, <1>5, <1>9
<1>12. /\ ActiveUnexpected + matched.active <= Cardinality(ActiveOccurrences)
       /\ ActiveUnexpected >= 0
  <2>1. matched.active + Cardinality(Active) = Cardinality(ActiveOccurrences)
    BY <1>2, <1>8
  <2> HIDE DEF Un, UnSupplemental, UnActive, Active
  <2> QED BY <1>4, <1>5, <1>6, <1>7, <1>9, <2>1
<1> QED BY <1>10, <1>11, <1>12 DEF CountsAddUp

(* The gate opens exactly if the parser does what is expected of it, the   *)
(* excluded occurrences apart, and no exclusion is stale; the numbers of   *)
(* the report account for every occurrence once (evaluate).                *)
THEOREM ReportsAreHonest == Spec => []ReportIsHonest
<1>1. ProjectionInv => ReportIsHonest
  <2> SUFFICES ASSUME ProjectionInv PROVE GateIsHonest /\ CountsAddUp
    BY DEF ReportIsHonest
  <2>1. GateIsHonest
    BY GateOpensRightly DEF GateIsHonest
  <2>2. CountsAddUp
    BY NumbersAddUp DEF CountsAddUp
  <2> QED BY <2>1, <2>2
<1> QED BY <1>1, ProjectionInvariant, PTL

=============================================================================
