-------------------------- MODULE DiagnosticsProofs --------------------------
(***************************************************************************)
(* Proofs about Diagnostics, for inputs of any length over any alphabet,   *)
(* any cap and any parser: what the delimiter stack reports, that          *)
(* normalizing orders and caps the list, and that the strict entry point   *)
(* refuses with the same list; and about Snippet, for any source and span: *)
(* what a diagnostic shows is one line with the part of it that is marked. *)
(***************************************************************************)
EXTENDS Diagnostics, Snippet, FiniteSetTheorems, WellFoundedInduction, TLAPS

-----------------------------------------------------------------------------
(* Ranks.                                                                  *)

(* below[k] is what a total order puts up to k; its size is then the place *)
(* of k, and every place is taken by exactly one element.                  *)
LEMMA PlacesAreTaken ==
    ASSUME NEW S, IsFiniteSet(S), NEW below \in [S -> SUBSET S],
           \A k \in S : k \in below[k],
           \A j, k \in S : j \in below[k] \/ k \in below[j],
           \A j, k \in S : j \in below[k] /\ k \in below[j] => j = k,
           \A j, k \in S : j \in below[k] => below[j] \subseteq below[k]
    PROVE  /\ Cardinality(S) \in Nat
           /\ \A k \in S : Cardinality(below[k]) \in 1..Cardinality(S)
           /\ \A j, k \in S : Cardinality(below[j]) <= Cardinality(below[k]) <=> j \in below[k]
           /\ \A r \in 1..Cardinality(S) : \E k \in S : Cardinality(below[k]) = r
<1> DEFINE rank == [k \in S |-> Cardinality(below[k])]
           n == Cardinality(S)
<1>1. n \in Nat
  BY FS_CardinalityType
<1>2. ASSUME NEW k \in S
      PROVE  IsFiniteSet(below[k]) /\ Cardinality(below[k]) \in 1..n
  <2>1. IsFiniteSet(below[k]) /\ Cardinality(below[k]) <= n
    BY FS_Subset
  <2>2. Cardinality(below[k]) \in Nat
    BY <2>1, FS_CardinalityType
  <2>3. Cardinality(below[k]) # 0
    BY <2>1, FS_EmptySet
  <2> QED BY <1>1, <2>1, <2>2, <2>3
<1>3. ASSUME NEW j \in S, NEW k \in S, j \in below[k]
      PROVE  Cardinality(below[j]) <= Cardinality(below[k])
  <2>1. below[j] \in SUBSET below[k]
    BY <1>3
  <2> QED BY <1>2, <2>1, FS_Subset
<1>4. ASSUME NEW j \in S, NEW k \in S, j \in below[k],
             Cardinality(below[j]) = Cardinality(below[k])
      PROVE  j = k
  <2>1. below[j] \in SUBSET below[k]
    BY <1>4
  <2>2. below[j] = below[k]
    BY <1>2, <1>4, <2>1, FS_Subset
  <2> QED BY <1>4, <2>2
<1>5. ASSUME NEW j \in S, NEW k \in S, Cardinality(below[j]) <= Cardinality(below[k])
      PROVE  j \in below[k]
  <2>1. CASE k \in below[j]
    <3>1. Cardinality(below[k]) <= Cardinality(below[j])
      BY <1>3, <2>1
    <3>2. Cardinality(below[k]) = Cardinality(below[j])
      BY <1>2, <1>5, <3>1
    <3>3. k = j
      BY <1>4, <2>1, <3>2
    <3> QED BY <3>3
  <2> QED BY <2>1
<1>6. rank \in Injection(S, 1..n)
  <2>1. rank \in [S -> 1..n]
    BY <1>2
  <2>2. \A j, k \in S : rank[j] = rank[k] => j = k
    BY <1>2, <1>4
  <2> HIDE DEF rank, n
  <2> QED BY <2>1, <2>2 DEF Injection, IsInjective
<1>7. IsFiniteSet(1..n) /\ Cardinality(1..n) = n
  BY <1>1, FS_Interval
<1>8. rank \in Surjection(S, 1..n)
  BY <1>6, <1>7, FS_Injection
<1>9. ASSUME NEW r \in 1..n
      PROVE  \E k \in S : Cardinality(below[k]) = r
  BY <1>8 DEF Surjection
<1> QED BY <1>1, <1>2, <1>3, <1>5, <1>9

(* InOrder lists the numbers of a finite set, each once, the least first. *)
LEMMA ListedInOrder ==
    ASSUME NEW S, IsFiniteSet(S), S \subseteq Int
    PROVE  /\ Cardinality(S) \in Nat
           /\ InOrder(S) \in [1..Cardinality(S) -> S]
           /\ \A q, r \in 1..Cardinality(S) : q < r <=> InOrder(S)[q] < InOrder(S)[r]
           /\ \A k \in S : \E r \in 1..Cardinality(S) : InOrder(S)[r] = k
<1> DEFINE below == [k \in S |-> {j \in S : j <= k}]
           n == Cardinality(S)
           order == InOrder(S)
<1>1. /\ n \in Nat
      /\ \A k \in S : Cardinality(below[k]) \in 1..n
      /\ \A j, k \in S : Cardinality(below[j]) <= Cardinality(below[k]) <=> j \in below[k]
      /\ \A r \in 1..n : \E k \in S : Cardinality(below[k]) = r
  <2>1. below \in [S -> SUBSET S]
    OBVIOUS
  <2>2. \A j, k \in S : j \in Int /\ k \in Int /\ (j \in below[k] <=> j <= k)
    OBVIOUS
  <2> HIDE DEF below
  <2>3. \A k \in S : k \in below[k]
    BY <2>2
  <2>4. \A j, k \in S : j \in below[k] \/ k \in below[j]
    BY <2>2
  <2>5. \A j, k \in S : j \in below[k] /\ k \in below[j] => j = k
    BY <2>2
  <2>6. \A j, k \in S : j \in below[k] => below[j] \subseteq below[k]
    <3> SUFFICES ASSUME NEW j \in S, NEW k \in S, j \in below[k], NEW i \in below[j]
                 PROVE  i \in below[k]
      OBVIOUS
    <3>1. i \in S
      BY <2>1
    <3> QED BY <2>2, <3>1
  <2> QED BY <2>1, <2>3, <2>4, <2>5, <2>6, PlacesAreTaken
<1>2. order = [r \in 1..n |-> CHOOSE k \in S : Cardinality(below[k]) = r]
  <2>1. \A k \in S : below[k] = {j \in S : j <= k}
    OBVIOUS
  <2> HIDE DEF below
  <2>2. \A r \in 1..n : (CHOOSE k \in S : Cardinality(below[k]) = r)
                      = (CHOOSE k \in S : Cardinality({j \in S : j <= k}) = r)
    BY <2>1
  <2> QED BY <2>2 DEF InOrder
<1>3. \A j, k \in S : j \in Int /\ k \in Int /\ (j \in below[k] <=> j <= k)
  OBVIOUS
<1> HIDE DEF below, n, order
<1>4. ASSUME NEW r \in 1..n
      PROVE  order[r] \in S /\ Cardinality(below[order[r]]) = r
  BY <1>1, <1>2
<1>5. order \in [1..n -> S]
  BY <1>2, <1>4
<1>6. ASSUME NEW q \in 1..n, NEW r \in 1..n
      PROVE  q < r <=> order[q] < order[r]
  <2>1. order[q] \in Int /\ order[r] \in Int
    BY <1>4
  <2>2. r <= q <=> order[r] \in below[order[q]]
    <3>1. Cardinality(below[order[r]]) <= Cardinality(below[order[q]])
            <=> order[r] \in below[order[q]]
      BY <1>1, <1>4
    <3> QED BY <1>4, <3>1
  <2>3. r <= q <=> order[r] <= order[q]
    BY <1>3, <1>4, <2>2
  <2> QED BY <1>1, <2>1, <2>3
<1>7. ASSUME NEW k \in S
      PROVE  \E r \in 1..n : order[r] = k
  <2>1. Cardinality(below[k]) \in 1..n
    BY <1>1
  <2>2. PICK r \in 1..n : Cardinality(below[k]) = r
    BY <2>1
  <2>3. order[r] \in S /\ Cardinality(below[order[r]]) = Cardinality(below[k])
    BY <1>4, <2>2
  <2>4. Cardinality(below[k]) <= Cardinality(below[k])
    BY <1>1, <2>1
  <2>5. order[r] \in below[k] /\ k \in below[order[r]]
    BY <1>1, <2>3, <2>4
  <2>6. order[r] = k
    <3> DEFINE j == order[r]
    <3>1. j \in S /\ j \in below[k] /\ k \in below[j]
      BY <2>3, <2>5
    <3> HIDE DEF j
    <3>2. j = k
      BY <1>3, <3>1
    <3> QED BY <3>2 DEF j
  <2> QED BY <2>6
<1> QED BY <1>1, <1>5, <1>6, <1>7 DEF n, order

-----------------------------------------------------------------------------
(* The order of diagnostics.                                               *)

CodeSet == {"InvalidToken", "UnexpectedToken", "UnexpectedEof", "ExtraToken",
            "UnclosedDelimiter", "MismatchedDelimiter", "TooManyErrors"}

Known == [code : CodeSet, start : Nat, end : Nat, label : Nat]

\* Later ones never before earlier ones, and earlier ones always before later ones.
WeaklyOrdered(list) == \A i, j \in 1..Len(list) : i < j => ~Before(list[j], list[i])
StrictlyOrdered(list) == \A i, j \in 1..Len(list) : i < j => Before(list[i], list[j])

(* Codes have ranks of their own, the marker's the highest.                *)
LEMMA CodesRanked ==
    /\ \A c \in CodeSet : CodeRank(c) \in 1..7
    /\ \A c, d \in CodeSet : CodeRank(c) = CodeRank(d) => c = d
    /\ CodeRank("TooManyErrors") = 7
<1>1. /\ \A c \in CodeSet : \E r \in 1..7 : Codes[r] = c
      /\ DOMAIN Codes = 1..7
      /\ Codes[7] = "TooManyErrors"
      /\ \A r \in 1..7 : Codes[r] = "TooManyErrors" => r = 7
  BY DEF Codes, CodeSet
<1>2. \A c \in CodeSet : CodeRank(c) \in 1..7 /\ Codes[CodeRank(c)] = c
  <2> HIDE DEF Codes
  <2> QED BY <1>1 DEF CodeRank
<1>3. "TooManyErrors" \in CodeSet
  BY DEF CodeSet
<1> QED BY <1>1, <1>2, <1>3

(* Before is a strict order, total up to diagnostics with the same key.    *)
LEMMA BeforeOrders ==
    ASSUME NEW a \in Known, NEW b \in Known, NEW c \in Known
    PROVE  /\ ~Before(a, a)
           /\ Before(a, b) => ~Before(b, a)
           /\ Before(a, b) \/ Before(b, a) \/ SameKey(a, b)
           /\ Before(a, b) /\ Before(b, c) => Before(a, c)
           /\ ~Before(b, a) /\ ~Before(c, b) => ~Before(c, a)
           /\ Before(a, b) /\ ~Before(c, b) => Before(a, c)
           /\ ~Before(b, a) /\ Before(b, c) => Before(a, c)
           /\ ~Before(b, a) /\ ~Before(c, b) /\ SameKey(a, c) => SameKey(b, c)
           /\ SameKey(a, b) => ~Before(a, b) /\ SameKey(b, a)
<1> DEFINE ra == CodeRank(a.code)
           rb == CodeRank(b.code)
           rc == CodeRank(c.code)
<1>1. /\ a.start \in Nat /\ b.start \in Nat /\ c.start \in Nat
      /\ a.end \in Nat /\ b.end \in Nat /\ c.end \in Nat
      /\ a.code \in CodeSet /\ b.code \in CodeSet /\ c.code \in CodeSet
  BY DEF Known
<1>2. /\ ra \in Int /\ rb \in Int /\ rc \in Int
      /\ ra = rb <=> a.code = b.code
      /\ rb = rc <=> b.code = c.code
      /\ ra = rc <=> a.code = c.code
  BY <1>1, CodesRanked
<1> HIDE DEF ra, rb, rc
<1> QED BY <1>1, <1>2 DEF Before, SameKey, ra, rb, rc

(* Sorting arranges the diagnostics there are by the order.                *)
LEMMA SortedOrders ==
    ASSUME NEW list \in Seq(Known)
    PROVE  /\ Sorted(list) \in Seq(Known)
           /\ Len(Sorted(list)) = Len(list)
           /\ WeaklyOrdered(Sorted(list))
           /\ \A r \in 1..Len(list) : \E k \in 1..Len(list) : Sorted(list)[r] = list[k]
           /\ \A k \in 1..Len(list) : \E r \in 1..Len(list) : Sorted(list)[r] = list[k]
<1> DEFINE n == Len(list)
           S == 1..n
           below == [k \in S |-> {j \in S : NotAfter(list, j, k)}]
           from == [r \in S |-> CHOOSE k \in S : Cardinality(below[k]) = r]
<1>1. n \in Nat /\ DOMAIN list = S /\ IsFiniteSet(S) /\ Cardinality(S) = n
  <2>1. n \in Nat /\ DOMAIN list = S
    OBVIOUS
  <2> HIDE DEF n
  <2> QED BY <2>1, FS_Interval
<1>2. \A j, k \in S : j \in below[k] <=> NotAfter(list, j, k)
  OBVIOUS
<1>3. below \in [S -> SUBSET S]
  OBVIOUS
<1>4. \A k \in S : list[k] \in Known
  BY <1>1
<1>5. Sorted(list) = [r \in S |-> list[from[r]]]
  <2>1. \A k \in S : below[k] = {j \in DOMAIN list : NotAfter(list, j, k)}
    BY <1>1
  <2> HIDE DEF below, S, n
  <2>2. \A k \in S : Place(list, k) = Cardinality(below[k])
    BY <2>1 DEF Place
  <2>3. \A r \in S : from[r] = CHOOSE k \in S : Place(list, k) = r
    BY <2>2
  <2> HIDE DEF from
  <2>4. Sorted(list) = [r \in S |-> list[CHOOSE k \in S : Place(list, k) = r]]
    BY <1>1 DEF Sorted
  <2> QED BY <2>3, <2>4
<1> HIDE DEF below, S
<1>6. /\ \A k \in S : Cardinality(below[k]) \in 1..n
      /\ \A j, k \in S : Cardinality(below[j]) <= Cardinality(below[k]) <=> j \in below[k]
      /\ \A r \in 1..n : \E k \in S : Cardinality(below[k]) = r
  <2>1. \A k \in S : k \in below[k]
    BY <1>2, <1>4, BeforeOrders DEF NotAfter, S
  <2>2. \A j, k \in S : j \in below[k] \/ k \in below[j]
    BY <1>2, <1>4, BeforeOrders DEF NotAfter, S
  <2>3. \A j, k \in S : j \in below[k] /\ k \in below[j] => j = k
    BY <1>2, <1>4, BeforeOrders DEF NotAfter, S
  <2>4. \A j, k \in S : j \in below[k] => below[j] \subseteq below[k]
    <3> SUFFICES ASSUME NEW j \in S, NEW k \in S, j \in below[k], NEW i \in below[j]
                 PROVE  i \in below[k]
      OBVIOUS
    <3>1. i \in S /\ NotAfter(list, i, j) /\ NotAfter(list, j, k)
      BY <1>2, <1>3
    <3>2. list[i] \in Known /\ list[j] \in Known /\ list[k] \in Known
      BY <1>4, <3>1
    <3>3. NotAfter(list, i, k)
      <4>1. i \in Int /\ j \in Int /\ k \in Int
        BY <3>1 DEF S
      <4> QED BY <3>1, <3>2, <4>1, BeforeOrders DEF NotAfter
    <3> QED BY <1>2, <3>1, <3>3
  <2> QED BY <1>1, <1>3, <2>1, <2>2, <2>3, <2>4, PlacesAreTaken
<1>7. \A r \in S : from[r] \in S /\ Cardinality(below[from[r]]) = r
  BY <1>6 DEF S
<1>8. from \in [S -> S]
  BY <1>7
<1> HIDE DEF from
<1>9. Sorted(list) \in Seq(Known) /\ Len(Sorted(list)) = n
  <2>1. Sorted(list) \in [1..n -> Known]
    BY <1>4, <1>5, <1>8 DEF S
  <2> QED BY <1>1, <2>1
<1>10. ASSUME NEW q \in S, NEW r \in S, q < r
       PROVE  ~Before(Sorted(list)[r], Sorted(list)[q])
  <2>1. from[q] \in S /\ from[r] \in S
    BY <1>8
  <2>2. Cardinality(below[from[q]]) <= Cardinality(below[from[r]])
    BY <1>7, <1>10 DEF S
  <2>3. NotAfter(list, from[q], from[r])
    BY <1>2, <1>6, <2>1, <2>2
  <2>4. ~Before(list[from[r]], list[from[q]])
    BY <1>4, <2>1, <2>3, BeforeOrders DEF NotAfter
  <2> QED BY <1>5, <2>4
<1>11. ASSUME NEW k \in S
       PROVE  \E r \in S : Sorted(list)[r] = list[k]
  <2>1. PICK r \in S : Cardinality(below[k]) = r
    BY <1>6 DEF S
  <2>2. Cardinality(below[from[r]]) <= Cardinality(below[k])
        /\ Cardinality(below[k]) <= Cardinality(below[from[r]])
    BY <1>7, <2>1 DEF S
  <2>3. from[r] \in below[k] /\ k \in below[from[r]]
    BY <1>6, <1>8, <2>2
  <2>4. from[r] = k
    <3>1. NotAfter(list, from[r], k) /\ NotAfter(list, k, from[r]) /\ from[r] \in S
      BY <1>2, <1>8, <2>3
    <3> QED BY <1>4, <3>1, BeforeOrders DEF NotAfter, S
  <2> QED BY <1>5, <2>4
<1>12. \A r \in S : \E k \in S : Sorted(list)[r] = list[k]
  BY <1>5, <1>8
<1> QED BY <1>1, <1>9, <1>10, <1>11, <1>12 DEF WeaklyOrdered, S

(* Sorting what is in strict order moves nothing.                          *)
LEMMA SortedAlready ==
    ASSUME NEW list \in Seq(Known), StrictlyOrdered(list)
    PROVE  Sorted(list) = list
<1> DEFINE n == Len(list)
<1>1. n \in Nat /\ DOMAIN list = 1..n /\ \A k \in 1..n : list[k] \in Known
  OBVIOUS
<1>2. ASSUME NEW k \in 1..n
      PROVE  Place(list, k) = k
  <2>1. \A j \in 1..n : NotAfter(list, j, k) <=> j <= k
    <3> SUFFICES ASSUME NEW j \in 1..n PROVE NotAfter(list, j, k) <=> j <= k
      OBVIOUS
    <3>1. CASE j < k
      BY <1>1, <3>1 DEF StrictlyOrdered, NotAfter
    <3>2. CASE k < j
      <4>1. Before(list[k], list[j])
        BY <3>2 DEF StrictlyOrdered
      <4>2. ~Before(list[j], list[k])
        BY <1>1, <4>1, BeforeOrders
      <4> QED BY <3>2, <4>1, <4>2 DEF NotAfter
    <3>3. CASE j = k
      BY <1>1, <3>3, BeforeOrders DEF NotAfter
    <3> QED BY <3>1, <3>2, <3>3
  <2>2. {j \in DOMAIN list : NotAfter(list, j, k)} = 1..k
    BY <1>1, <2>1
  <2>3. Cardinality(1..k) = k
    BY FS_Interval
  <2> QED BY <2>2, <2>3 DEF Place
<1>3. \A r \in 1..n : (CHOOSE k \in 1..n : Place(list, k) = r) = r
  BY <1>2
<1> HIDE DEF n
<1>4. Sorted(list) = [r \in 1..n |-> list[r]]
  <2>1. Sorted(list) = [r \in 1..n |-> list[CHOOSE k \in 1..n : Place(list, k) = r]]
    BY <1>1 DEF Sorted
  <2> QED BY <1>3, <2>1
<1> QED BY <1>1, <1>4

(* Of sorted diagnostics with the same key dedup_by keeps one.             *)
LEMMA DedupOrders ==
    ASSUME NEW list \in Seq(Known), WeaklyOrdered(list)
    PROVE  /\ Dedup(list) \in Seq(Known)
           /\ StrictlyOrdered(Dedup(list))
           /\ \A r \in 1..Len(Dedup(list)) : \E k \in 1..Len(list) : Dedup(list)[r] = list[k]
           /\ \A k \in 1..Len(list) :
                \E r \in 1..Len(Dedup(list)) : SameKey(Dedup(list)[r], list[k])
<1> DEFINE n == Len(list)
           keep == {k \in 1..n : k = 1 \/ ~SameKey(list[k - 1], list[k])}
           order == InOrder(keep)
           m == Cardinality(keep)
<1>1. n \in Nat /\ DOMAIN list = 1..n /\ \A k \in 1..n : list[k] \in Known
  OBVIOUS
<1>2. IsFiniteSet(keep) /\ keep \subseteq 1..n /\ keep \subseteq Int
  <2>1. IsFiniteSet(1..n) /\ keep \subseteq 1..n
    BY <1>1, FS_Interval
  <2> QED BY <2>1, FS_Subset
<1>3. \A k \in 1..n : k \in keep <=> k = 1 \/ ~SameKey(list[k - 1], list[k])
  OBVIOUS
<1>4. Dedup(list) = [r \in DOMAIN order |-> list[order[r]]]
  BY <1>1 DEF Dedup
<1> HIDE DEF keep, n
<1>5. /\ m \in Nat
      /\ order \in [1..m -> keep]
      /\ \A q, r \in 1..m : q < r <=> order[q] < order[r]
      /\ \A k \in keep : \E r \in 1..m : order[r] = k
  BY <1>2, ListedInOrder
<1> HIDE DEF order, m
<1>6. Dedup(list) \in Seq(Known) /\ Len(Dedup(list)) = m
  <2>1. Dedup(list) \in [1..m -> Known]
    BY <1>1, <1>2, <1>4, <1>5
  <2> QED BY <1>5, <2>1
<1>7. ASSUME NEW q \in 1..m, NEW r \in 1..m, q < r
      PROVE  Before(Dedup(list)[q], Dedup(list)[r])
  <2> DEFINE i == order[q]
             k == order[r]
  <2>1. i \in 1..n /\ k \in 1..n /\ k \in keep /\ i < k
    BY <1>2, <1>5, <1>7
  <2>2. Dedup(list)[q] = list[i] /\ Dedup(list)[r] = list[k]
    BY <1>4, <1>5
  <2> HIDE DEF i, k
  <2>3. k - 1 \in 1..n /\ ~SameKey(list[k - 1], list[k]) /\ k - 1 < k
    BY <1>1, <1>3, <2>1
  <2>4. ~Before(list[k], list[i]) /\ ~Before(list[k], list[k - 1])
    BY <1>1, <2>1, <2>3 DEF WeaklyOrdered, n
  <2>5. ~Before(list[k - 1], list[i])
    <3>1. CASE i = k - 1
      BY <1>1, <2>1, <3>1, BeforeOrders
    <3>2. CASE i # k - 1
      <4>1. i < k - 1
        BY <1>1, <2>1, <3>2
      <4> QED BY <2>1, <2>3, <4>1 DEF WeaklyOrdered, n
    <3> QED BY <3>1, <3>2
  <2>6. list[i] \in Known /\ list[k] \in Known /\ list[k - 1] \in Known
    BY <1>1, <2>1, <2>3
  <2>7. ~SameKey(list[i], list[k])
    BY <2>3, <2>4, <2>5, <2>6, BeforeOrders
  <2> QED BY <2>2, <2>4, <2>6, <2>7, BeforeOrders
<1>8. ASSUME NEW k \in 1..n
      PROVE  \E r \in 1..m : SameKey(Dedup(list)[r], list[k])
  <2> DEFINE alike == {i \in 1..n : SameKey(list[i], list[k])}
             first == InOrder(alike)[1]
  <2>1. alike \subseteq 1..n /\ alike \subseteq Int /\ k \in alike
    BY <1>1 DEF SameKey
  <2>2. IsFiniteSet(alike)
    BY <1>1, <2>1, FS_Interval, FS_Subset
  <2>3. /\ Cardinality(alike) \in Nat
        /\ InOrder(alike) \in [1..Cardinality(alike) -> alike]
        /\ \A q, r \in 1..Cardinality(alike) : q < r <=> InOrder(alike)[q] < InOrder(alike)[r]
        /\ \A j \in alike : \E r \in 1..Cardinality(alike) : InOrder(alike)[r] = j
    <3> HIDE DEF alike
    <3> QED BY <2>1, <2>2, ListedInOrder
  <2>4. \A i \in 1..n : i \in alike <=> SameKey(list[i], list[k])
    OBVIOUS
  <2> HIDE DEF alike
  <2>5. first \in alike /\ \A j \in alike : first <= j
    <3>1. 1 \in 1..Cardinality(alike)
      BY <2>1, <2>3
    <3>2. first \in alike
      BY <2>3, <3>1
    <3>3. ASSUME NEW j \in alike PROVE first <= j
      <4>1. PICK r \in 1..Cardinality(alike) : InOrder(alike)[r] = j
        BY <2>3
      <4>0. first \in Int /\ j \in Int
        BY <2>1, <3>2
      <4>2. CASE r = 1
        BY <4>0, <4>1, <4>2
      <4>3. CASE 1 < r
        <5>1. InOrder(alike)[1] < InOrder(alike)[r]
          BY <2>3, <3>1, <4>3
        <5> QED BY <4>0, <4>1, <5>1
      <4> QED BY <2>3, <4>2, <4>3
    <3> QED BY <3>2, <3>3
  <2> HIDE DEF first
  <2>6. first \in keep
    <3>1. CASE first # 1 /\ SameKey(list[first - 1], list[first])
      <4>1. first - 1 \in 1..n /\ first \in 1..n
        BY <1>1, <2>1, <2>5, <3>1
      <4>2. SameKey(list[first - 1], list[k])
        BY <2>4, <2>5, <3>1, <4>1 DEF SameKey
      <4>3. first <= first - 1
        BY <2>4, <2>5, <4>1, <4>2
      <4> QED BY <4>1, <4>3
    <3> QED BY <1>3, <2>1, <2>5, <3>1
  <2>7. PICK r \in 1..m : order[r] = first
    BY <1>5, <2>6
  <2>8. SameKey(list[first], list[k])
    BY <2>1, <2>4, <2>5
  <2> QED BY <1>4, <1>5, <2>7, <2>8
<1>9. \A r \in 1..m : \E k \in 1..n : Dedup(list)[r] = list[k]
  BY <1>2, <1>4, <1>5
<1> QED BY <1>6, <1>7, <1>8, <1>9 DEF StrictlyOrdered, n

-----------------------------------------------------------------------------
(* The inductive invariant.                                                *)

\* What there is to report before the list is capped.
Within(n) == [code : CodeSet \ {"TooManyErrors"}, start : 0..n, end : 0..n, label : 0..n]

Early == {"Lex", "Parse"}
Collecting == Early \cup {"Delimiters", "Normalize"}
Reporting == {"Recovered", "Done"}

\* The reports about delimiters, and the delimiters a report names.
Delimiting == {"MismatchedDelimiter", "UnclosedDelimiter"}
Faults(list) == {k \in 1..Len(list) : list[k].code \in Delimiting}
Names(d) == {d.start + 1, d.label} \ {NoLabel}

Held == {stack[k] : k \in DOMAIN stack}

\* What the list holds at each stage, and why it is empty if it is.
ListInv ==
    /\ pc \in Collecting \cup Reporting
    /\ tokens \in Seq(TokenClass)
    /\ accepted \in BOOLEAN
    /\ pc \in Early => ~accepted /\ Faults(diagnostics) = {} /\ cursor = 1 /\ stack = <<>>
    /\ pc = "Lex" => diagnostics = <<>>
    /\ pc = "Parse" /\ Refused = {} => diagnostics = <<>>
    /\ pc = "Delimiters" => ~accepted
    /\ pc \notin Early => (accepted <=> diagnostics = <<>>)
    /\ pc \in Collecting => diagnostics \in Seq(Within(Len(tokens)))
    /\ pc \in Reporting => diagnostics \in Seq(Known) /\ StrictlyOrdered(diagnostics)
    /\ pc \in Reporting => Len(diagnostics) <= MaxDiagnostics
    /\ pc \in Reporting => \A k \in 1..Len(diagnostics) :
            diagnostics[k].code = "TooManyErrors" => k = Len(diagnostics) /\ k = MaxDiagnostics
    /\ pc = "Done" => strict = diagnostics

\* The stack holds openers already read, in their order.
StackInv ==
    /\ cursor \in 1..(Len(tokens) + 1)
    /\ stack \in Seq(Open)
    /\ \A k \in 1..Len(stack) : stack[k] < cursor
    /\ \A j, k \in 1..Len(stack) : j < k => stack[j] < stack[k]

\* The pairs closed so far nest, among each other and around what is still open.
Pairs(closer) ==
    /\ \A c \in Shut : c < cursor => \E o \in DOMAIN closer : closer[o] = c
    /\ \A o \in DOMAIN closer : o < closer[o] /\ tokens[o] = OpenerOf(tokens[closer[o]])
    /\ \A o, p \in DOMAIN closer : o < p => closer[o] < p \/ closer[p] < closer[o]
    /\ \A o \in DOMAIN closer : \A s \in Held : o < s => closer[o] < s

Closed == {o \in Open : o < cursor /\ o \notin Held}

\* As long as nothing is reported what is closed is paired; and what nests is
\* never reported, the open delimiters being those whose closers are still to come.
PairingInv ==
    pc = "Delimiters" =>
        /\ Faults(diagnostics) = {} =>
             \E closer \in [Closed -> {c \in Shut : c < cursor}] : Pairs(closer)
        /\ \A closer \in [Open -> Shut] : Nests(closer) =>
             /\ Faults(diagnostics) = {}
             /\ \A o \in Open : o \in Held <=> o < cursor /\ cursor <= closer[o]

\* Reports name different delimiters, and none that is still open or to come.
NamingInv ==
    /\ pc = "Delimiters" => \A k \in Faults(diagnostics) : \A i \in Names(diagnostics[k]) :
            i \in 1..(cursor - 1) /\ i \notin Held
    /\ pc \in {"Delimiters", "Normalize"} => \A k, l \in Faults(diagnostics) :
            k # l => Names(diagnostics[k]) \cap Names(diagnostics[l]) = {}

DiagnosticsInv == ListInv /\ StackInv /\ PairingInv /\ NamingInv /\ DelimitersSound

-----------------------------------------------------------------------------
(* The stages before the delimiters are looked at.                         *)

LEMMA TokensTyped ==
    ASSUME tokens \in Seq(TokenClass)
    PROVE  /\ Len(tokens) \in Nat /\ DOMAIN tokens = 1..Len(tokens)
           /\ Open \subseteq 1..Len(tokens) /\ Shut \subseteq 1..Len(tokens)
           /\ Open \cap Shut = {}
           /\ Refused \subseteq 1..Len(tokens) /\ IsFiniteSet(Refused)
<1>1. Len(tokens) \in Nat /\ DOMAIN tokens = 1..Len(tokens)
  OBVIOUS
<1>2. Refused \in SUBSET (1..Len(tokens))
  BY <1>1 DEF Refused
<1>3. IsFiniteSet(1..Len(tokens))
  BY <1>1, FS_Interval
<1>4. IsFiniteSet(Refused)
  BY <1>2, <1>3, FS_Subset
<1> QED BY <1>1, <1>2, <1>4 DEF Open, Shut, Openers, Closers

LEMMA WithinKnown == \A n \in Nat : Within(n) \subseteq Known
BY DEF Within, Known

(* A report on a token lies within the source.                             *)
LEMMA TokenReported ==
    ASSUME NEW n \in Nat, NEW i \in 1..n, NEW l \in 0..n,
           NEW c \in CodeSet \ {"TooManyErrors"}
    PROVE  AtToken(c, i, l) \in Within(n)
BY DEF AtToken, Diagnostic, StartOf, EndOf, Within

(* What a longer list has at each place, and which of that is new.         *)
LEMMA ReportsAdded ==
    ASSUME NEW T, NEW list \in Seq(T), NEW more \in Seq(T)
    PROVE  /\ list \o more \in Seq(T)
           /\ Len(list \o more) = Len(list) + Len(more)
           /\ \A k \in 1..Len(list) : (list \o more)[k] = list[k]
           /\ \A k \in 1..Len(more) : (list \o more)[Len(list) + k] = more[k]
           /\ \A k \in 1..Len(list \o more) :
                k \in 1..Len(list) \/ (k > Len(list) /\ k - Len(list) \in 1..Len(more)
                                        /\ (list \o more)[k] = more[k - Len(list)])
OBVIOUS

LEMMA InitEstablishes == Init => DiagnosticsInv
<1> SUFFICES ASSUME Init PROVE DiagnosticsInv
  OBVIOUS
<1>1. PICK n \in 0..MaxTokens : tokens \in [1..n -> Alphabet]
  BY DEF Init
<1>2. n \in Nat
  BY BoundAssumption
<1>3. tokens \in Seq(TokenClass)
  BY <1>1, <1>2, AlphabetAssumption
<1>4. Len(tokens) \in Nat
  BY <1>3
<1>5. Faults(<<>>) = {}
  BY DEF Faults
<1>6. ListInv
  <2>1. /\ pc = "Lex" /\ accepted = FALSE /\ diagnostics = <<>> /\ cursor = 1 /\ stack = <<>>
        /\ diagnostics \in Seq(Within(Len(tokens)))
    BY DEF Init
  <2>2. pc \in Early /\ pc \in Collecting /\ pc \notin Reporting /\ pc # "Parse"
        /\ pc # "Delimiters" /\ pc # "Done"
    BY <2>1 DEF Early, Collecting, Reporting
  <2> QED BY <1>3, <1>5, <2>1, <2>2 DEF ListInv
<1>7. StackInv
  BY <1>4 DEF Init, StackInv
<1>8. PairingInv /\ NamingInv /\ DelimitersSound
  BY DEF Init, PairingInv, NamingInv, DelimitersSound
<1> QED BY <1>6, <1>7, <1>8 DEF DiagnosticsInv

LEMMA LexKeeps == ASSUME DiagnosticsInv, Lex PROVE DiagnosticsInv'
<1> DEFINE n == Len(tokens)
           order == InOrder(Refused)
           list == LexerDiagnostics
<1>1. tokens \in Seq(TokenClass) /\ UNCHANGED <<tokens, cursor, stack, accepted>>
      /\ pc = "Lex" /\ pc' = "Parse" /\ diagnostics' = list /\ ~accepted
      /\ cursor = 1 /\ stack = <<>> /\ StackInv
  BY DEF DiagnosticsInv, ListInv, Lex, Early
<1>2. n \in Nat /\ Refused \subseteq 1..n /\ Refused \subseteq Int /\ IsFiniteSet(Refused)
  BY <1>1, TokensTyped
<1>3. Cardinality(Refused) \in Nat /\ order \in [1..Cardinality(Refused) -> Refused]
  BY <1>2, ListedInOrder
<1>4. list = [k \in DOMAIN order |-> AtToken("InvalidToken", order[k], NoLabel)]
  BY DEF LexerDiagnostics
<1> HIDE DEF order, list, n
<1>5. \A k \in 1..Cardinality(Refused) :
        list[k] \in Within(n) /\ list[k].code = "InvalidToken"
  <2> SUFFICES ASSUME NEW k \in 1..Cardinality(Refused)
               PROVE  list[k] \in Within(n) /\ list[k].code = "InvalidToken"
    OBVIOUS
  <2>1. order[k] \in 1..n /\ list[k] = AtToken("InvalidToken", order[k], NoLabel)
    BY <1>2, <1>3, <1>4
  <2>2. NoLabel \in 0..n /\ "InvalidToken" \in CodeSet \ {"TooManyErrors"}
    BY <1>2 DEF NoLabel, CodeSet
  <2> QED BY <1>2, <2>1, <2>2, TokenReported DEF AtToken, Diagnostic
<1>6. list \in Seq(Within(n)) /\ Len(list) = Cardinality(Refused)
  <2>1. list \in [1..Cardinality(Refused) -> Within(n)]
    BY <1>3, <1>4, <1>5
  <2> QED BY <1>3, <2>1
<1>7. Faults(list) = {}
  BY <1>5, <1>6 DEF Faults, Delimiting
<1>8. Refused = {} => list = <<>>
  <2>1. Cardinality({}) = 0
    BY FS_EmptySet
  <2> QED BY <1>6, <2>1
<1>9. Refused' = Refused
  BY <1>1 DEF Refused
<1>10. ListInv'
  <2>1. pc' \in Early /\ pc' \in Collecting /\ pc' \notin Reporting /\ pc' # "Lex"
        /\ pc' # "Delimiters" /\ pc' # "Done"
    BY <1>1 DEF Early, Collecting, Reporting
  <2>2. Faults(diagnostics') = {} /\ (Refused' = {} => diagnostics' = <<>>)
    BY <1>1, <1>7, <1>8, <1>9
  <2>4. accepted' \in BOOLEAN
    BY <1>1 DEF DiagnosticsInv, ListInv
  <2>3. diagnostics' \in Seq(Within(Len(tokens')))
    BY <1>1, <1>6 DEF n
  <2> QED BY <1>1, <2>1, <2>2, <2>3, <2>4 DEF ListInv
<1>11. StackInv'
  BY <1>1 DEF StackInv, Open
<1>12. (PairingInv /\ NamingInv /\ DelimitersSound)'
  BY <1>1 DEF PairingInv, NamingInv, DelimitersSound
<1> QED BY <1>10, <1>11, <1>12 DEF DiagnosticsInv

LEMMA AcceptKeeps == ASSUME DiagnosticsInv, ParseAccepts PROVE DiagnosticsInv'
<1>1. /\ ListInv /\ StackInv /\ diagnostics = <<>> /\ diagnostics' = <<>>
      /\ UNCHANGED <<tokens, cursor, stack>>
      /\ pc = "Parse" /\ accepted' = TRUE
  BY DEF DiagnosticsInv, ListInv, ParseAccepts, Early
<1>2. pc' = "Normalize"
  BY <1>1 DEF ParseAccepts, NeedsScan
<1>3. Faults(<<>>) = {}
  BY DEF Faults
<1>4. ListInv'
  BY <1>1, <1>2 DEF ListInv, Early, Collecting, Reporting
<1>5. StackInv'
  BY <1>1 DEF StackInv, Open
<1>6. (PairingInv /\ NamingInv /\ DelimitersSound)'
  BY <1>1, <1>2, <1>3 DEF PairingInv, NamingInv, DelimitersSound
<1> QED BY <1>4, <1>5, <1>6 DEF DiagnosticsInv

(* A parse error is about the source and not about a delimiter.            *)
LEMMA ParseErrorsTyped ==
    ASSUME tokens \in Seq(TokenClass), NEW d \in ParseDiagnostics
    PROVE  d \in Within(Len(tokens)) /\ d.code \notin Delimiting
<1> DEFINE n == Len(tokens)
<1>1. n \in Nat /\ Significant \subseteq 1..n
  BY DEF Significant
<1>2. CASE \E code \in {"UnexpectedToken", "ExtraToken"}, i \in Significant :
             d = AtToken(code, i, NoLabel)
  BY <1>1, <1>2 DEF AtToken, Diagnostic, StartOf, EndOf, NoLabel, Within, CodeSet, Delimiting
<1>3. CASE \E i \in Significant : d = Diagnostic("UnexpectedToken", StartOf(i), StartOf(i), NoLabel)
  BY <1>1, <1>3 DEF Diagnostic, StartOf, NoLabel, Within, CodeSet, Delimiting
<1>4. CASE \E offset \in {0} \cup {EndOf(i) : i \in Significant} :
             d = Diagnostic("UnexpectedEof", offset, offset, NoLabel)
  BY <1>1, <1>4 DEF Diagnostic, EndOf, NoLabel, Within, CodeSet, Delimiting
<1> QED BY <1>2, <1>3, <1>4 DEF ParseDiagnostics

LEMMA FailKeeps == ASSUME DiagnosticsInv, ParseFails PROVE DiagnosticsInv'
<1> DEFINE n == Len(tokens)
<1>1. /\ ListInv /\ StackInv /\ UNCHANGED <<tokens, cursor, stack, accepted>>
      /\ tokens \in Seq(TokenClass)
      /\ pc = "Parse" /\ ~accepted /\ cursor = 1 /\ stack = <<>>
      /\ diagnostics \in Seq(Within(n)) /\ Faults(diagnostics) = {}
  BY DEF DiagnosticsInv, ListInv, ParseFails, Early, Collecting
<1>2. pc' = "Delimiters"
  BY <1>1 DEF ParseFails, NeedsScan
<1>3. PICK d \in ParseDiagnostics : diagnostics' = Append(diagnostics, d)
  BY DEF ParseFails
<1>4. d \in Within(n) /\ d.code \notin Delimiting
  BY <1>1, ParseErrorsTyped
<1> HIDE DEF n
<1>5. /\ diagnostics' \in Seq(Within(n)) /\ diagnostics' # <<>>
      /\ Len(diagnostics') = Len(diagnostics) + 1
      /\ \A k \in 1..Len(diagnostics) : diagnostics'[k] = diagnostics[k]
      /\ diagnostics'[Len(diagnostics) + 1] = d
  BY <1>1, <1>3, <1>4
<1>6. Faults(diagnostics') = {}
  BY <1>1, <1>4, <1>5 DEF Faults
<1>7. ListInv'
  BY <1>1, <1>2, <1>5 DEF ListInv, Early, Collecting, Reporting, n
<1>8. StackInv'
  BY <1>1 DEF StackInv, Open
<1>9. NamingInv' /\ DelimitersSound'
  BY <1>2, <1>6 DEF NamingInv, DelimitersSound
<1>10. Held' = {} /\ cursor' = 1
  BY <1>1 DEF Held
<1>11. Open' \subseteq 1..n /\ Shut' \subseteq 1..n /\ n \in Nat
  BY <1>1, TokensTyped DEF Open, Shut, n
<1>12. Closed' = {} /\ {c \in Shut' : c < cursor'} = {}
  <2>1. \A i \in 1..n : ~(i < cursor')
    BY <1>10, <1>11
  <2>2. Closed' = {}
    BY <1>11, <2>1 DEF Closed
  <2> QED BY <1>11, <2>1, <2>2
<1>13. PairingInv'
  <2>1. \E closer \in [Closed' -> {c \in Shut' : c < cursor'}] : Pairs(closer)'
    <3>1. [o \in {} |-> 1] \in [Closed' -> {c \in Shut' : c < cursor'}]
      BY <1>12
    <3>2. \A closer \in [{} -> {}] : Pairs(closer)'
      <4> SUFFICES ASSUME NEW closer \in [{} -> {}] PROVE Pairs(closer)'
        OBVIOUS
      <4>1. DOMAIN closer = {}
        OBVIOUS
      <4>2. \A c \in Shut' : ~(c < cursor')
        BY <1>12
      <4> QED BY <4>1, <4>2 DEF Pairs
    <3> QED BY <1>12, <3>1, <3>2
  <2>2. \A closer \in [Open' -> Shut'] : \A o \in Open' : ~(o \in Held') /\ ~(o < cursor')
    BY <1>10, <1>11
  <2> QED BY <1>6, <2>1, <2>2 DEF PairingInv
<1> QED BY <1>7, <1>8, <1>9, <1>13 DEF DiagnosticsInv

-----------------------------------------------------------------------------
(* The delimiter scan.                                                     *)

\* What the steps of the scan start from.
LEMMA ScanFacts ==
    ASSUME DiagnosticsInv, pc = "Delimiters"
    PROVE  /\ ListInv /\ StackInv /\ PairingInv /\ NamingInv
           /\ tokens \in Seq(TokenClass) /\ Len(tokens) \in Nat
           /\ Open \subseteq 1..Len(tokens) /\ Shut \subseteq 1..Len(tokens)
           /\ Open \cap Shut = {} /\ Held \subseteq Open
           /\ ~accepted /\ accepted \in BOOLEAN
           /\ diagnostics \in Seq(Within(Len(tokens))) /\ diagnostics # <<>>
           /\ cursor \in Nat
<1>1. /\ ListInv /\ StackInv /\ PairingInv /\ NamingInv
      /\ tokens \in Seq(TokenClass)
      /\ ~accepted /\ accepted \in BOOLEAN
      /\ diagnostics \in Seq(Within(Len(tokens))) /\ diagnostics # <<>>
  BY DEF DiagnosticsInv, ListInv, Collecting, Early
<1>2. Held \subseteq Open
  BY <1>1 DEF StackInv, Held
<1>3. cursor \in Nat
  BY <1>1 DEF StackInv
<1> QED BY <1>1, <1>2, <1>3, TokensTyped

(* A list that only grows during the scan keeps what ListInv says of it.   *)
LEMMA ScanKeepsList ==
    ASSUME DiagnosticsInv, pc = "Delimiters", pc' \in {"Delimiters", "Normalize"},
           UNCHANGED <<tokens, accepted>>,
           diagnostics' \in Seq(Within(Len(tokens))), diagnostics' # <<>>
    PROVE  ListInv'
<1>1. /\ pc' \notin Early /\ pc' \in Collecting /\ pc' \notin Reporting /\ pc' # "Lex"
      /\ pc' # "Parse" /\ pc' # "Done"
  BY DEF Early, Collecting, Reporting
<1>2. ~accepted' /\ accepted' \in BOOLEAN /\ tokens' \in Seq(TokenClass)
  BY ScanFacts
<1> QED BY <1>1, <1>2 DEF ListInv

LEMMA PassKeeps == ASSUME DiagnosticsInv, PassToken PROVE DiagnosticsInv'
<1>1. /\ pc = "Delimiters" /\ pc' = pc /\ cursor' = cursor + 1 /\ cursor <= Len(tokens)
      /\ UNCHANGED <<tokens, accepted, diagnostics, stack>>
      /\ cursor \notin Open /\ cursor \notin Shut
  BY DEF PassToken, Open, Shut
<1>2. ListInv'
  BY <1>1, ScanFacts, ScanKeepsList
<1>3. Open' = Open /\ Shut' = Shut /\ Held' = Held
  BY <1>1 DEF Open, Shut, Held
<1>4. /\ \A i \in Open \cup Shut : i \in Int /\ (i < cursor' <=> i < cursor)
      /\ cursor \in Nat /\ Held \subseteq Open
  BY <1>1, ScanFacts
<1>5. StackInv'
  BY <1>1, <1>3, ScanFacts DEF StackInv
<1>6. Closed' = Closed /\ {c \in Shut' : c < cursor'} = {c \in Shut : c < cursor}
  BY <1>3, <1>4 DEF Closed
<1>7. PairingInv'
  <2>1. ASSUME NEW closer, Pairs(closer)
        PROVE  Pairs(closer)'
    BY <1>1, <1>3, <1>4, <2>1 DEF Pairs
  <2>2. Faults(diagnostics') = {} =>
          \E closer \in [Closed' -> {c \in Shut' : c < cursor'}] : Pairs(closer)'
    BY <1>1, <1>6, <2>1, ScanFacts DEF PairingInv
  <2>3. ASSUME NEW closer \in [Open' -> Shut'], Nests(closer)'
        PROVE  /\ Faults(diagnostics') = {}
               /\ \A o \in Open' : o \in Held' <=> o < cursor' /\ cursor' <= closer[o]
    <3>1. Nests(closer)
      BY <1>1, <1>3, <2>3 DEF Nests
    <3>2. /\ Faults(diagnostics) = {}
          /\ \A o \in Open : o \in Held <=> o < cursor /\ cursor <= closer[o]
      BY <1>1, <1>3, <2>3, <3>1, ScanFacts DEF PairingInv
    <3>3. \A o \in Open : closer[o] \in Shut /\ closer[o] # cursor
      BY <1>1, <1>3, <2>3
    <3>4. \A o \in Open : cursor' <= closer[o] <=> cursor <= closer[o]
      BY <1>1, <1>4, <3>3
    <3> QED BY <1>1, <1>3, <1>4, <3>2, <3>4
  <2> QED BY <2>2, <2>3 DEF PairingInv
<1>8. NamingInv'
  <2>1. \A i \in 1..(cursor - 1) : i \in 1..(cursor' - 1)
    BY <1>1, <1>4
  <2> QED BY <1>1, <1>3, <2>1, ScanFacts DEF NamingInv
<1>9. DelimitersSound'
  BY <1>1 DEF DelimitersSound
<1> QED BY <1>2, <1>5, <1>7, <1>8, <1>9 DEF DiagnosticsInv

LEMMA OpenKeeps == ASSUME DiagnosticsInv, OpenDelimiter PROVE DiagnosticsInv'
<1>1. /\ pc = "Delimiters" /\ pc' = pc /\ cursor' = cursor + 1 /\ cursor <= Len(tokens)
      /\ stack' = Append(stack, cursor) /\ tokens[cursor] \in Openers
      /\ UNCHANGED <<tokens, accepted, diagnostics>>
  BY DEF OpenDelimiter
<1>2. ListInv'
  BY <1>1, ScanFacts, ScanKeepsList
<1>3. Open' = Open /\ Shut' = Shut /\ cursor \in Open /\ cursor \notin Shut
      /\ cursor \in 1..Len(tokens)
  <2>1. cursor \in 1..Len(tokens)
    BY <1>1, ScanFacts DEF StackInv
  <2>2. cursor \in DOMAIN tokens
    BY <2>1, ScanFacts
  <2> QED BY <1>1, <2>1, <2>2, ScanFacts DEF Open, Shut
<1>4. /\ stack \in Seq(Open)
      /\ \A k \in 1..Len(stack) : stack[k] < cursor
      /\ \A j, k \in 1..Len(stack) : j < k => stack[j] < stack[k]
  BY <1>1, ScanFacts DEF StackInv
<1>5. /\ stack' \in Seq(Open) /\ Len(stack') = Len(stack) + 1
      /\ \A k \in 1..Len(stack) : stack'[k] = stack[k]
      /\ stack'[Len(stack) + 1] = cursor
      /\ Len(stack) \in Nat
  BY <1>1, <1>3, <1>4
<1>6. StackInv'
  <2>1. cursor' \in 1..(Len(tokens') + 1)
    BY <1>1, <1>3, ScanFacts
  <2>2. \A k \in 1..Len(stack') : k \in 1..Len(stack) \/ k = Len(stack) + 1
    BY <1>5
  <2>3. \A k \in 1..Len(stack) : stack[k] \in Int
    <3>1. Open \subseteq Int
      BY ScanFacts, <1>1
    <3>2. stack \in Seq(Open)
      BY <1>4
    <3>3. \A k \in 1..Len(stack) : stack[k] \in Open
      BY <3>2
    <3> QED BY <3>1, <3>3
  <2>4. \A k \in 1..Len(stack') : stack'[k] < cursor'
    BY <1>1, <1>3, <1>4, <1>5, <2>2, <2>3
  <2>5. \A j, k \in 1..Len(stack') : j < k => stack'[j] < stack'[k]
    BY <1>3, <1>4, <1>5, <2>2
  <2> QED BY <1>3, <1>5, <2>1, <2>4, <2>5 DEF StackInv
<1>7. Held' = Held \cup {cursor}
  BY <1>5 DEF Held
<1>8. /\ \A i \in Open : i \in Int /\ (i < cursor' <=> i < cursor \/ i = cursor)
      /\ \A i \in Shut : i \in Int /\ (i < cursor' <=> i < cursor)
      /\ cursor \in Nat /\ Held \subseteq Open
  BY <1>1, <1>3, ScanFacts
<1>9. Closed' = Closed /\ {c \in Shut' : c < cursor'} = {c \in Shut : c < cursor}
  <2>1. \A o \in Open : o \in Held' <=> o \in Held \/ o = cursor
    BY <1>7
  <2>2. \A o \in Open : (o < cursor' /\ o \notin Held') <=> (o < cursor /\ o \notin Held)
    BY <1>8, <2>1
  <2>3. Closed' = Closed
    BY <1>3, <2>2 DEF Closed
  <2> QED BY <1>3, <1>8, <2>3
<1>10. PairingInv'
  <2>1. ASSUME NEW closer \in [Closed -> {c \in Shut : c < cursor}], Pairs(closer)
        PROVE  Pairs(closer)'
    <3>1. \A o \in DOMAIN closer : closer[o] < cursor
      OBVIOUS
    <3>2. \A o \in DOMAIN closer : \A s \in Held' : o < s => closer[o] < s
      BY <1>7, <2>1, <3>1 DEF Pairs
    <3> QED BY <1>1, <1>3, <1>8, <2>1, <3>2 DEF Pairs
  <2>2. Faults(diagnostics') = {} =>
          \E closer \in [Closed' -> {c \in Shut' : c < cursor'}] : Pairs(closer)'
    BY <1>1, <1>9, <2>1, ScanFacts DEF PairingInv
  <2>3. ASSUME NEW closer \in [Open' -> Shut'], Nests(closer)'
        PROVE  /\ Faults(diagnostics') = {}
               /\ \A o \in Open' : o \in Held' <=> o < cursor' /\ cursor' <= closer[o]
    <3>1. Nests(closer)
      BY <1>1, <1>3, <2>3 DEF Nests
    <3>2. /\ Faults(diagnostics) = {}
          /\ \A o \in Open : o \in Held <=> o < cursor /\ cursor <= closer[o]
      BY <1>1, <1>3, <2>3, <3>1, ScanFacts DEF PairingInv
    <3>3. \A o \in Open : closer[o] \in Shut /\ closer[o] # cursor /\ closer[o] \in Int
      BY <1>3, <1>8, <2>3
    <3>4. \A o \in Open : cursor' <= closer[o] <=> cursor <= closer[o]
      BY <1>1, <1>8, <3>3
    <3>5. cursor < closer[cursor]
      BY <1>3, <3>1 DEF Nests
    <3>6. \A o \in Open : o \in Held' <=> o < cursor' /\ cursor' <= closer[o]
      BY <1>7, <1>8, <3>2, <3>3, <3>4, <3>5
    <3> QED BY <1>1, <1>3, <3>2, <3>6
  <2> QED BY <2>2, <2>3 DEF PairingInv
<1>11. NamingInv'
  <2>1. \A i \in 1..(cursor - 1) : i \in 1..(cursor' - 1) /\ i # cursor
    BY <1>1, <1>8
  <2> QED BY <1>1, <1>7, <2>1, ScanFacts DEF NamingInv
<1>12. DelimitersSound'
  BY <1>1 DEF DelimitersSound
<1> QED BY <1>2, <1>6, <1>10, <1>11, <1>12 DEF DiagnosticsInv

\* The innermost delimiter still open.
Top == IF stack = <<>> THEN NoLabel ELSE Last(stack)

(* It is the greatest on the stack, and popping takes it and no other.     *)
LEMMA PoppingTop ==
    ASSUME tokens \in Seq(TokenClass), StackInv, UNCHANGED tokens, stack' = Popped(Top)
    PROVE  /\ Top = NoLabel => Held = {}
           /\ Top # NoLabel => Top \in Held
           /\ \A s \in Held : s <= Top /\ s \in 1..Len(tokens)
           /\ Top \in 0..Len(tokens)
           /\ Top < cursor
           /\ Held' = Held \ {Top}
           /\ stack' \in Seq(Open)
           /\ \A k \in 1..Len(stack') : stack'[k] < cursor
           /\ \A j, k \in 1..Len(stack') : j < k => stack'[j] < stack'[k]
<1>1. /\ stack \in Seq(Open) /\ cursor \in 1..(Len(tokens) + 1)
      /\ \A k \in 1..Len(stack) : stack[k] < cursor
      /\ \A j, k \in 1..Len(stack) : j < k => stack[j] < stack[k]
      /\ Len(tokens) \in Nat /\ Open \subseteq 1..Len(tokens)
  BY TokensTyped DEF StackInv
<1>2. CASE stack = <<>>
  <2>1. Top = NoLabel /\ stack' = <<>> /\ Held = {} /\ Held' = {}
    BY <1>2 DEF Top, Popped, Held
  <2>2. Top \in 0..Len(tokens) /\ Top < cursor
    BY <1>1, <2>1 DEF NoLabel
  <2>3. stack' \in Seq(Open) /\ Len(stack') = 0
    BY <2>1
  <2>4. \A k \in 1..Len(stack') : FALSE
    BY <2>3
  <2> QED BY <2>1, <2>2, <2>3, <2>4
<1>3. CASE stack # <<>>
  <2> DEFINE last == Len(stack)
  <2>1. last \in Nat /\ last >= 1 /\ Top = stack[last] /\ Top \in Open
    BY <1>1, <1>3 DEF Top, Last
  <2>2. /\ stack' \in Seq(Open) /\ Len(stack') = last - 1
        /\ \A k \in 1..(last - 1) : stack'[k] = stack[k]
    <3>1. stack' = SubSeq(stack, 1, last - 1)
      BY <1>3 DEF Popped, Front
    <3>2. last - 1 \in Nat /\ last - 1 <= Len(stack)
      BY <2>1
    <3> HIDE DEF last
    <3> QED BY <1>1, <3>1, <3>2
  <2>3. \A k \in 1..last : stack[k] \in Open
    BY <1>1
  <2>4. DOMAIN stack = 1..last /\ DOMAIN stack' = 1..(last - 1)
    BY <1>1, <2>2
  <2> HIDE DEF last
  <2>5. \A k \in 1..last : stack[k] \in 1..Len(tokens) /\ (k = last \/ (k \in 1..(last - 1) /\ stack[k] < Top))
    <3> SUFFICES ASSUME NEW k \in 1..last
                 PROVE  stack[k] \in 1..Len(tokens)
                        /\ (k = last \/ (k \in 1..(last - 1) /\ stack[k] < Top))
      OBVIOUS
    <3>1. stack[k] \in 1..Len(tokens)
      BY <1>1, <2>3
    <3>2. k = last \/ (k < last /\ k \in 1..(last - 1))
      BY <2>1
    <3>3. k < last => stack[k] < stack[last]
      BY <1>1, <2>1 DEF last
    <3> QED BY <2>1, <3>1, <3>2, <3>3
  <2>6. Top \in 1..Len(tokens) /\ Top < cursor /\ Top # NoLabel /\ Top \in Held
    BY <1>1, <2>1, <2>4 DEF NoLabel, Held, last
  <2>7. \A s \in Held : s <= Top /\ s \in 1..Len(tokens)
    BY <2>1, <2>4, <2>5, <2>6 DEF Held
  <2>8. Held' = Held \ {Top}
    <3>1. ASSUME NEW s \in Held' PROVE s \in Held \ {Top}
      <4>1. PICK k \in 1..(last - 1) : s = stack'[k]
        BY <2>4 DEF Held
      <4>2. k \in 1..last /\ k # last /\ s = stack[k]
        BY <2>1, <2>2, <4>1
      <4>3. s < Top /\ s \in Held /\ s \in Int
        BY <2>4, <2>5, <4>2 DEF Held
      <4> QED BY <2>6, <4>3
    <3>2. ASSUME NEW s \in Held, s # Top PROVE s \in Held'
      <4>1. PICK k \in 1..last : s = stack[k]
        BY <2>4 DEF Held
      <4>2. k \in 1..(last - 1)
        BY <2>1, <2>5, <3>2, <4>1
      <4> QED BY <2>2, <2>4, <4>1, <4>2 DEF Held
    <3> QED BY <3>1, <3>2
  <2>9. \A k \in 1..Len(stack') : k \in 1..last /\ stack'[k] = stack[k]
    BY <2>1, <2>2
  <2>10. /\ \A k \in 1..Len(stack') : stack'[k] < cursor
         /\ \A j, k \in 1..Len(stack') : j < k => stack'[j] < stack'[k]
    BY <1>1, <2>9 DEF last
  <2>11. Top \in 0..Len(tokens)
    BY <2>6
  <2> QED BY <2>2, <2>6, <2>7, <2>8, <2>10, <2>11
<1> QED BY <1>2, <1>3

LEMMA CloseKeeps == ASSUME DiagnosticsInv, CloseDelimiter PROVE DiagnosticsInv'
<1> DEFINE n == Len(tokens)
<1>1. /\ pc = "Delimiters" /\ pc' = pc /\ cursor' = cursor + 1 /\ cursor <= n
      /\ tokens[cursor] \in Closers
      /\ diagnostics' = diagnostics \o Mismatch(Top)
      /\ stack' = Popped(Top)
      /\ UNCHANGED <<tokens, accepted>>
  BY DEF CloseDelimiter, Top
<1>2. cursor \in 1..n /\ cursor \in DOMAIN tokens /\ n \in Nat
  BY <1>1, ScanFacts DEF StackInv
<1>3. Open' = Open /\ Shut' = Shut /\ cursor \in Shut /\ cursor \notin Open
  BY <1>1, <1>2, ScanFacts DEF Open, Shut
<1>4. /\ Top = NoLabel => Held = {}
      /\ Top # NoLabel => Top \in Held
      /\ \A s \in Held : s <= Top /\ s \in 1..n
      /\ Top \in 0..n /\ Top < cursor
      /\ Held' = Held \ {Top} /\ Held \subseteq Open
      /\ stack' \in Seq(Open)
      /\ \A k \in 1..Len(stack') : stack'[k] < cursor
      /\ \A j, k \in 1..Len(stack') : j < k => stack'[j] < stack'[k]
  BY <1>1, ScanFacts, PoppingTop
<1>5. /\ Open \subseteq 1..n /\ Shut \subseteq 1..n /\ Open \cap Shut = {}
      /\ diagnostics \in Seq(Within(n)) /\ diagnostics # <<>>
      /\ PairingInv /\ NamingInv
  BY <1>1, ScanFacts
<1> DEFINE report == AtToken("MismatchedDelimiter", cursor, Top)
<1>6. report \in Within(n) /\ report.code = "MismatchedDelimiter" /\ Names(report) = {cursor, Top} \ {NoLabel}
  <2>1. "MismatchedDelimiter" \in CodeSet \ {"TooManyErrors"}
    BY DEF CodeSet
  <2>2. report \in Within(n)
    BY <1>2, <1>4, <2>1, TokenReported
  <2> QED BY <1>2, <2>2 DEF AtToken, Diagnostic, StartOf, EndOf, Names
<1> HIDE DEF n, report
<1>7. Mismatch(Top) = IF Closes(Top) THEN <<>> ELSE <<report>>
  BY DEF Mismatch, report
<1>8. CASE Closes(Top)
  <2>1. diagnostics' = diagnostics
    BY <1>1, <1>5, <1>7, <1>8
  <2>2. ListInv'
    BY <1>1, <1>5, <2>1, ScanKeepsList DEF n
  <2>3. Top \in Held /\ Top # NoLabel /\ tokens[Top] = OpenerOf(tokens[cursor])
    BY <1>4, <1>8 DEF Closes
  <2>4. /\ \A i \in Open : i \in Int /\ (i < cursor' <=> i < cursor)
        /\ \A i \in Shut : i \in Int /\ (i < cursor' <=> i < cursor \/ i = cursor)
    BY <1>1, <1>2, <1>3, <1>5
  <2>5. Closed' = Closed \cup {Top} /\ Top \notin Closed
    <3>1. \A o \in Open : (o < cursor' /\ o \notin Held') <=> ((o < cursor /\ o \notin Held) \/ o = Top)
      BY <1>4, <2>3, <2>4
    <3> QED BY <1>3, <1>4, <2>3, <3>1 DEF Closed
  <2>6. PairingInv'
    <3>1. ASSUME NEW closer \in [Closed -> {c \in Shut : c < cursor}], Pairs(closer)
          PROVE  \E new \in [Closed' -> {c \in Shut' : c < cursor'}] : Pairs(new)'
      <4>1. \A o \in Closed : o \in Open /\ o \in Int /\ closer[o] \in Shut /\ closer[o] < cursor
                              /\ closer[o] \in Int /\ o # Top
        BY <2>4, <2>5 DEF Closed
      <4>2. PICK new \in [Closed' -> {c \in Shut' : c < cursor'}] :
              \A o \in Closed' : new[o] = IF o = Top THEN cursor ELSE closer[o]
        <5>1. [o \in Closed' |-> IF o = Top THEN cursor ELSE closer[o]]
                \in [Closed' -> {c \in Shut' : c < cursor'}]
          BY <1>3, <2>4, <2>5, <4>1
        <5> QED BY <5>1
      <4>3. DOMAIN new = Closed \cup {Top} /\ new[Top] = cursor /\ \A o \in Closed : new[o] = closer[o]
        BY <2>5, <4>2
      <4>4. \A c \in Shut' : c < cursor' => \E o \in DOMAIN new : new[o] = c
        <5>1. \A c \in Shut : c < cursor => \E o \in Closed : closer[o] = c
          BY <3>1 DEF Pairs
        <5> QED BY <1>3, <2>4, <4>3, <5>1
      <4>5. \A o \in DOMAIN new : o < new[o] /\ tokens'[o] = OpenerOf(tokens'[new[o]])
        <5>1. \A o \in Closed : o < closer[o] /\ tokens[o] = OpenerOf(tokens[closer[o]])
          BY <3>1 DEF Pairs
        <5> QED BY <1>1, <1>4, <2>3, <4>3, <5>1
      <4>6. \A o \in Closed : Top < o \/ closer[o] < Top
        <5>1. \A o \in Closed : o < Top => closer[o] < Top
          BY <2>3, <3>1 DEF Pairs
        <5> QED BY <1>4, <4>1, <5>1
      <4>7. \A o, p \in DOMAIN new : o < p => new[o] < p \/ new[p] < new[o]
        <5>1. \A o, p \in Closed : o < p => closer[o] < p \/ closer[p] < closer[o]
          BY <3>1 DEF Pairs
        <5> SUFFICES ASSUME NEW o \in Closed \cup {Top}, NEW p \in Closed \cup {Top}, o < p
                     PROVE  new[o] < p \/ new[p] < new[o]
          BY <4>3
        <5>2. CASE o \in Closed /\ p \in Closed
          BY <4>3, <5>1, <5>2
        <5>3. CASE o = Top /\ p \in Closed
          BY <4>1, <4>3, <5>3
        <5>4. CASE o \in Closed /\ p = Top
          <6>1. ~(Top < o)
            BY <1>4, <4>1, <5>4
          <6> QED BY <4>3, <4>6, <5>4, <6>1
        <5>5. CASE o = Top /\ p = Top
          BY <1>4, <5>5
        <5> QED BY <5>2, <5>3, <5>4, <5>5
      <4>8. \A o \in DOMAIN new : \A s \in Held' : o < s => new[o] < s
        <5>1. \A o \in Closed : \A s \in Held : o < s => closer[o] < s
          BY <3>1 DEF Pairs
        <5>2. \A s \in Held' : s \in Held /\ ~(Top < s)
          BY <1>4
        <5> QED BY <4>3, <5>1, <5>2
      <4>9. Pairs(new)'
        BY <4>4, <4>5, <4>7, <4>8 DEF Pairs
      <4> QED BY <4>2, <4>9
    <3>2. Faults(diagnostics') = {} =>
            \E closer \in [Closed' -> {c \in Shut' : c < cursor'}] : Pairs(closer)'
      BY <1>1, <1>5, <2>1, <3>1 DEF PairingInv
    <3>3. ASSUME NEW closer \in [Open' -> Shut'], Nests(closer)'
          PROVE  /\ Faults(diagnostics') = {}
                 /\ \A o \in Open' : o \in Held' <=> o < cursor' /\ cursor' <= closer[o]
      <4>1. /\ \A c \in Shut : \E o \in Open : closer[o] = c
            /\ \A o, p \in Open : o < p => closer[o] < p \/ closer[p] < closer[o]
            /\ \A o \in Open : o < closer[o]
        BY <1>1, <1>3, <3>3 DEF Nests
      <4>2. /\ Faults(diagnostics) = {}
            /\ \A o \in Open : o \in Held <=> o < cursor /\ cursor <= closer[o]
        <5>1. Nests(closer)
          BY <1>1, <1>3, <3>3 DEF Nests
        <5> QED BY <1>1, <1>3, <1>5, <3>3, <5>1 DEF PairingInv
      <4>3. PICK o \in Open : closer[o] = cursor
        BY <1>3, <4>1
      <4>4. \A p \in Open : p \in Int /\ closer[p] \in Int
        BY <1>3, <2>4, <3>3
      <4>5. o = Top
        <5>1. o \in Held /\ o <= Top /\ Top \in Open /\ Top \in Held
          BY <1>2, <1>4, <2>3, <4>1, <4>2, <4>3
        <5>2. cursor <= closer[Top] /\ Top < cursor
          BY <1>4, <4>2, <5>1
        <5>3. ~(o < Top)
          BY <1>2, <4>1, <4>3, <4>4, <5>1, <5>2
        <5> QED BY <4>4, <5>1, <5>3
      <4>6. \A p \in Open : closer[p] = cursor => p = Top
        <5>1. \A p \in Open : closer[p] = cursor => p < cursor
          BY <4>1
        <5> QED BY <1>2, <4>1, <4>3, <4>4, <4>5, <5>1
      <4>7. \A p \in Open : cursor' <= closer[p] <=> cursor <= closer[p] /\ p # Top
        BY <1>1, <1>2, <4>3, <4>4, <4>5, <4>6
      <4> QED BY <1>3, <1>4, <2>1, <2>4, <4>2, <4>7
    <3> QED BY <3>2, <3>3 DEF PairingInv
  <2>7. NamingInv'
    <3>1. \A i \in 1..(cursor - 1) : i \in 1..(cursor' - 1)
      BY <1>1, <1>2
    <3> QED BY <1>1, <1>4, <1>5, <2>1, <3>1 DEF NamingInv
  <2>8. StackInv'
    BY <1>1, <1>2, <1>3, <1>4, ScanFacts DEF StackInv
  <2>9. DelimitersSound'
    BY <1>1 DEF DelimitersSound
  <2> QED BY <2>2, <2>6, <2>7, <2>8, <2>9 DEF DiagnosticsInv
<1>9. CASE ~Closes(Top)
  <2>1. diagnostics' = diagnostics \o <<report>>
    BY <1>1, <1>7, <1>9
  <2>2. /\ diagnostics' \in Seq(Within(n)) /\ diagnostics' # <<>>
        /\ Len(diagnostics') = Len(diagnostics) + 1 /\ Len(diagnostics) \in Nat
        /\ \A k \in 1..Len(diagnostics) : diagnostics'[k] = diagnostics[k]
        /\ diagnostics'[Len(diagnostics) + 1] = report
    BY <1>5, <1>6, <2>1
  <2>3. ListInv'
    BY <1>1, <1>5, <2>2, ScanKeepsList DEF n
  <2>4. Faults(diagnostics') = Faults(diagnostics) \cup {Len(diagnostics) + 1}
    BY <1>6, <2>2 DEF Faults, Delimiting
  <2>5. PairingInv'
    <3>1. Faults(diagnostics') # {}
      BY <2>4
    <3>2. ASSUME NEW closer \in [Open' -> Shut'], Nests(closer)'
          PROVE  FALSE
      <4>1. /\ \A c \in Shut : \E o \in Open : closer[o] = c
            /\ \A o, p \in Open : o < p => closer[o] < p \/ closer[p] < closer[o]
            /\ \A o \in Open : o < closer[o] /\ tokens[o] = OpenerOf(tokens[closer[o]])
        BY <1>1, <1>3, <3>2 DEF Nests
      <4>2. \A o \in Open : o \in Held <=> o < cursor /\ cursor <= closer[o]
        <5>1. Nests(closer)
          BY <1>1, <1>3, <3>2 DEF Nests
        <5> QED BY <1>1, <1>3, <1>5, <3>2, <5>1 DEF PairingInv
      <4>3. PICK o \in Open : closer[o] = cursor
        BY <1>3, <4>1
      <4>4. o \in Held /\ Top \in Held
        BY <1>2, <1>4, <4>1, <4>2, <4>3
      <4>5. o <= Top /\ Top \in Open /\ cursor <= closer[Top] /\ Top < cursor
        BY <1>4, <4>2, <4>4
      <4>6. closer[o] \in Int /\ closer[Top] \in Int /\ o \in Int /\ Top \in Int
        <5>1. \A p \in Open : closer[p] \in Shut
          BY <1>3, <3>2
        <5>2. \A c \in Shut : c \in Int
          BY <1>5
        <5>3. \A p \in Open : p \in Int
          BY <1>5
        <5> QED BY <4>5, <5>1, <5>2, <5>3
      <4>7. o = Top
        BY <1>2, <4>1, <4>3, <4>5, <4>6
      <4>8. Top # NoLabel
        BY <1>5, <4>5 DEF NoLabel
      <4> QED BY <1>9, <4>1, <4>3, <4>7, <4>8 DEF Closes
    <3> QED BY <3>1, <3>2 DEF PairingInv
  <2>6. NamingInv'
    <3>1. \A k \in Faults(diagnostics) : k \in 1..Len(diagnostics) /\ diagnostics'[k] = diagnostics[k]
      BY <2>2 DEF Faults
    <3>2. /\ \A k \in Faults(diagnostics) : \A i \in Names(diagnostics[k]) :
                 i \in 1..(cursor - 1) /\ i \notin Held
          /\ \A k, l \in Faults(diagnostics) :
                 k # l => Names(diagnostics[k]) \cap Names(diagnostics[l]) = {}
      BY <1>1, <1>5 DEF NamingInv
    <3>3. \A k \in Faults(diagnostics) : \A i \in Names(diagnostics[k]) :
            i \in 1..(cursor' - 1) /\ i \notin Held' /\ i # cursor /\ (i = Top => Top = NoLabel)
      BY <1>1, <1>2, <1>4, <3>2
    <3>4. \A i \in Names(report) : i \in 1..(cursor' - 1) /\ i \notin Held'
      BY <1>1, <1>2, <1>3, <1>4, <1>6 DEF NoLabel
    <3>5. \A k \in Faults(diagnostics) : Names(diagnostics[k]) \cap Names(report) = {}
      BY <1>6, <3>3
    <3> QED BY <1>1, <2>2, <2>4, <3>1, <3>2, <3>3, <3>4, <3>5 DEF NamingInv
  <2>7. StackInv'
    BY <1>1, <1>2, <1>3, <1>4, ScanFacts DEF StackInv
  <2>8. DelimitersSound'
    BY <1>1 DEF DelimitersSound
  <2> QED BY <2>3, <2>5, <2>6, <2>7, <2>8 DEF DiagnosticsInv
<1> QED BY <1>8, <1>9

LEMMA ReportUnclosedKeeps == ASSUME DiagnosticsInv, ReportUnclosed PROVE DiagnosticsInv'
<1> DEFINE n == Len(tokens)
           m == Len(diagnostics)
           h == Len(stack)
<1>1. /\ pc = "Delimiters" /\ pc' = "Normalize" /\ cursor > n
      /\ diagnostics' = diagnostics \o Unclosed
      /\ UNCHANGED <<tokens, accepted, cursor, stack>>
  BY DEF ReportUnclosed
<1>2. /\ Open \subseteq 1..n /\ Shut \subseteq 1..n /\ n \in Nat
      /\ diagnostics \in Seq(Within(n)) /\ diagnostics # <<>>
      /\ PairingInv /\ NamingInv /\ StackInv /\ ~accepted
  BY <1>1, ScanFacts
<1>3. /\ stack \in Seq(Open) /\ h \in Nat /\ m \in Nat /\ DOMAIN stack = 1..h
      /\ \A k \in 1..h : stack[k] \in Open
      /\ \A j, k \in 1..h : j < k => stack[j] < stack[k]
  BY <1>2 DEF StackInv
<1> HIDE DEF n, m, h
<1>4. /\ Unclosed \in Seq(Within(n)) /\ Len(Unclosed) = h
      /\ \A k \in 1..h : Unclosed[k].code = "UnclosedDelimiter" /\ Names(Unclosed[k]) = {stack[k]}
  <2>1. ASSUME NEW k \in 1..h
        PROVE  /\ AtToken("UnclosedDelimiter", stack[k], NoLabel) \in Within(n)
               /\ AtToken("UnclosedDelimiter", stack[k], NoLabel).code = "UnclosedDelimiter"
               /\ Names(AtToken("UnclosedDelimiter", stack[k], NoLabel)) = {stack[k]}
    <3>3. stack[k] \in 1..n
      BY <1>2, <1>3, <2>1
    <3>4. "UnclosedDelimiter" \in CodeSet \ {"TooManyErrors"}
      BY DEF CodeSet
    <3>1. stack[k] \in 1..n /\ NoLabel \in 0..n /\ stack[k] # NoLabel
          /\ "UnclosedDelimiter" \in CodeSet \ {"TooManyErrors"}
      BY <1>2, <3>3, <3>4 DEF NoLabel
    <3>2. AtToken("UnclosedDelimiter", stack[k], NoLabel) \in Within(n)
      BY <1>2, <3>1, TokenReported
    <3> QED BY <3>1, <3>2 DEF AtToken, Diagnostic, StartOf, EndOf, Names
  <2>2. Unclosed = [k \in 1..h |-> AtToken("UnclosedDelimiter", stack[k], NoLabel)]
    BY <1>3 DEF Unclosed
  <2>3. Unclosed \in [1..h -> Within(n)]
    BY <2>1, <2>2
  <2>4. Unclosed \in Seq(Within(n)) /\ Len(Unclosed) = h
    BY <1>3, <2>2, <2>3
  <2> QED BY <2>1, <2>2, <2>4
<1>5. /\ diagnostics' \in Seq(Within(n))
      /\ Len(diagnostics') = m + h
      /\ \A k \in 1..m : diagnostics'[k] = diagnostics[k]
      /\ \A k \in 1..h : diagnostics'[m + k] = Unclosed[k]
      /\ \A k \in 1..(m + h) : k \in 1..m \/ (k > m /\ k - m \in 1..h
                                               /\ diagnostics'[k] = Unclosed[k - m])
  <2> DEFINE list == diagnostics \o Unclosed
  <2>1. /\ list \in Seq(Within(n))
        /\ Len(list) = Len(diagnostics) + Len(Unclosed)
        /\ \A k \in 1..Len(diagnostics) : list[k] = diagnostics[k]
        /\ \A k \in 1..Len(Unclosed) : list[Len(diagnostics) + k] = Unclosed[k]
        /\ \A k \in 1..Len(list) :
             k \in 1..Len(diagnostics)
               \/ (k > Len(diagnostics) /\ k - Len(diagnostics) \in 1..Len(Unclosed)
                    /\ list[k] = Unclosed[k - Len(diagnostics)])
    BY <1>2, <1>4, ReportsAdded, ZenonT(40)
  <2>2. diagnostics' = list
    BY <1>1
  <2> HIDE DEF list
  <2> QED BY <1>4, <2>1, <2>2 DEF m
<1>6. diagnostics' # <<>>
  <2>1. m # 0
    BY <1>2 DEF m
  <2> QED BY <1>3, <1>5, <2>1
<1>7. ListInv'
  BY <1>1, <1>5, <1>6, ScanKeepsList DEF n
<1>8. StackInv'
  BY <1>1, <1>2 DEF StackInv, Open
<1>9. PairingInv'
  BY <1>1 DEF PairingInv
<1>10. /\ Faults(diagnostics) \subseteq 1..m
       /\ \A k \in Faults(diagnostics') :
            \/ k \in Faults(diagnostics) /\ diagnostics'[k] = diagnostics[k]
            \/ k - m \in 1..h /\ diagnostics'[k] = Unclosed[k - m]
       /\ Faults(diagnostics) \subseteq Faults(diagnostics')
       /\ \A k \in 1..h : m + k \in Faults(diagnostics')
  <2>1. Faults(diagnostics') = {k \in 1..(m + h) : diagnostics'[k].code \in Delimiting}
    BY <1>5 DEF Faults
  <2>2. Faults(diagnostics) = {k \in 1..m : diagnostics[k].code \in Delimiting}
    BY DEF Faults, m
  <2>3. \A k \in 1..h : m + k \in 1..(m + h) /\ diagnostics'[m + k].code \in Delimiting
    BY <1>3, <1>4, <1>5 DEF Delimiting
  <2>4. \A k \in 1..m : k \in 1..(m + h)
    BY <1>3
  <2> QED BY <1>5, <2>1, <2>2, <2>3, <2>4
<1>11. NamingInv'
  <2>1. /\ \A k \in Faults(diagnostics) : \A i \in Names(diagnostics[k]) : i \notin Held
        /\ \A k, l \in Faults(diagnostics) :
                 k # l => Names(diagnostics[k]) \cap Names(diagnostics[l]) = {}
    BY <1>1, <1>2 DEF NamingInv
  <2>2. \A j, k \in 1..h : j # k => stack[j] # stack[k]
    <3>0. \A o \in Open : o \in Int
      BY <1>2
    <3>1. \A k \in 1..h : stack[k] \in Int
      BY <1>3, <3>0
    <3>2. \A j, k \in 1..h : j # k => j < k \/ k < j
      BY <1>3
    <3> QED BY <1>3, <3>1, <3>2
  <2>3. \A k \in 1..h : stack[k] \in Held
    BY <1>3 DEF Held
  <2>4. ASSUME NEW k \in Faults(diagnostics'), NEW l \in Faults(diagnostics'), k # l
        PROVE  Names(diagnostics'[k]) \cap Names(diagnostics'[l]) = {}
    <3>1. CASE k \in Faults(diagnostics) /\ l \in Faults(diagnostics)
      <4>1. diagnostics'[k] = diagnostics[k] /\ diagnostics'[l] = diagnostics[l]
        BY <1>5, <1>10, <3>1
      <4> QED BY <2>1, <2>4, <3>1, <4>1
    <3>2. CASE k \in Faults(diagnostics) /\ l \notin Faults(diagnostics)
      <4>1. diagnostics'[k] = diagnostics[k] /\ Names(diagnostics'[l]) = {stack[l - m]}
            /\ l - m \in 1..h
        BY <1>4, <1>5, <1>10, <3>2
      <4> QED BY <2>1, <2>3, <3>2, <4>1
    <3>3. CASE k \notin Faults(diagnostics) /\ l \in Faults(diagnostics)
      <4>1. diagnostics'[l] = diagnostics[l] /\ Names(diagnostics'[k]) = {stack[k - m]}
            /\ k - m \in 1..h
        BY <1>4, <1>5, <1>10, <3>3
      <4> QED BY <2>1, <2>3, <3>3, <4>1
    <3>4. CASE k \notin Faults(diagnostics) /\ l \notin Faults(diagnostics)
      <4>1. /\ k - m \in 1..h /\ Names(diagnostics'[k]) = {stack[k - m]}
            /\ l - m \in 1..h /\ Names(diagnostics'[l]) = {stack[l - m]}
        BY <1>4, <1>10, <3>4
      <4>2. k \in 1..(m + h) /\ l \in 1..(m + h)
        BY <1>5 DEF Faults
      <4>3. k - m # l - m
        BY <1>3, <2>4, <4>2
      <4> QED BY <2>2, <4>1, <4>3
    <3> QED BY <3>1, <3>2, <3>3, <3>4
  <2> QED BY <1>1, <2>4 DEF NamingInv
<1>12. Faults(diagnostics') = {} <=> Faults(diagnostics) = {} /\ h = 0
  <2>1. h # 0 => m + 1 \in Faults(diagnostics')
    BY <1>3, <1>10
  <2> QED BY <1>3, <1>10, <2>1
<1>13. Open' = Open /\ Shut' = Shut
  BY <1>1 DEF Open, Shut
<1>14. WellNested' => Faults(diagnostics') = {}
  <2> SUFFICES ASSUME NEW closer \in [Open -> Shut], Nests(closer)'
               PROVE  Faults(diagnostics') = {}
    BY <1>13 DEF WellNested
  <2>1. Nests(closer)
    BY <1>1, <1>13 DEF Nests
  <2>2. /\ Faults(diagnostics) = {}
        /\ \A o \in Open : o \in Held <=> o < cursor /\ cursor <= closer[o]
    BY <1>1, <1>2, <2>1 DEF PairingInv
  <2>3. \A o \in Open : ~(cursor <= closer[o])
    <3>1. \A c \in Shut : c \in Int /\ c <= n
      BY <1>2
    <3>2. cursor \in Int
      BY <1>2 DEF StackInv
    <3>3. \A o \in Open : closer[o] \in Shut
      OBVIOUS
    <3>4. n \in Int /\ cursor > n
      BY <1>1, <1>2
    <3>5. \A c \in Shut : ~(cursor <= c)
      BY <3>1, <3>2, <3>4
    <3> QED BY <3>3, <3>5
  <2>4. h = 0
    <3>1. h # 0 => stack[1] \in Held /\ stack[1] \in Open
      BY <1>3 DEF Held
    <3> QED BY <2>2, <2>3, <3>1
  <2> QED BY <1>12, <2>2, <2>4
<1>15. Faults(diagnostics') = {} => WellNested'
  <2> SUFFICES ASSUME Faults(diagnostics') = {}
               PROVE  WellNested'
    OBVIOUS
  <2>1. Faults(diagnostics) = {} /\ h = 0
    BY <1>12
  <2>2. Held = {}
    BY <1>3, <2>1 DEF Held
  <2>3. \A i \in 1..n : i < cursor
    <3>1. cursor \in Int
      BY <1>2 DEF StackInv
    <3> QED BY <1>1, <1>2, <3>1 DEF n
  <2>4. Closed = Open /\ {c \in Shut : c < cursor} = Shut
    BY <1>2, <2>2, <2>3 DEF Closed
  <2>5. PICK closer \in [Open -> Shut] : Pairs(closer)
    BY <1>1, <1>2, <2>1, <2>4 DEF PairingInv
  <2>6. Nests(closer)
    <3>1. \A c \in Shut : c < cursor
      BY <1>2, <2>3
    <3>2. DOMAIN closer = Open
      OBVIOUS
    <3> QED BY <2>5, <3>1, <3>2 DEF Pairs, Nests
  <2>7. Nests(closer)'
    BY <1>1, <1>13, <2>6 DEF Nests
  <2> QED BY <1>13, <2>7 DEF WellNested
<1>16. DelimitersSound'
  <2>1. DOMAIN diagnostics' = 1..Len(diagnostics')
    BY <1>5
  <2>2. (Reported("MismatchedDelimiter") \cup Reported("UnclosedDelimiter"))' = Faults(diagnostics')
    BY <2>1 DEF Reported, Faults, Delimiting
  <2> QED BY <1>14, <1>15, <2>2 DEF DelimitersSound
<1> QED BY <1>7, <1>8, <1>9, <1>11, <1>16 DEF DiagnosticsInv

-----------------------------------------------------------------------------
(* Normalization.                                                          *)

(* The marker comes after everything there is to report.                   *)
LEMMA MarkerIsLast ==
    ASSUME tokens \in Seq(TokenClass), NEW list, NEW a \in Within(Len(tokens))
    PROVE  /\ Marker(list) \in Known /\ Marker(list).code = "TooManyErrors"
           /\ Before(a, Marker(list))
<1> DEFINE n == Len(tokens)
<1>1. /\ n \in Nat /\ a.start \in 0..n /\ a.end \in 0..n
      /\ a.code \in CodeSet /\ a.code # "TooManyErrors" /\ "TooManyErrors" \in CodeSet
  BY DEF Within, CodeSet
<1>2. Marker(list) = [code |-> "TooManyErrors", start |-> n, end |-> n, label |-> 0]
  BY DEF Marker, Diagnostic, SourceLength, NoLabel
<1>3. CodeRank(a.code) < CodeRank("TooManyErrors")
  <2>1. CodeRank(a.code) \in 1..7 /\ CodeRank(a.code) # 7 /\ CodeRank("TooManyErrors") = 7
    BY <1>1, CodesRanked
  <2> QED BY <2>1
<1> HIDE DEF n
<1>4. Marker(list) \in Known
  BY <1>1, <1>2 DEF Known
<1>5. Before(a, Marker(list))
  <2>1. a.start \in Int /\ a.end \in Int /\ a.start <= n /\ a.end <= n /\ n \in Int
    BY <1>1
  <2> QED BY <1>2, <1>3, <2>1 DEF Before
<1> QED BY <1>2, <1>4, <1>5

(* Normalizing orders the list strictly, caps it, puts the marker nowhere  *)
(* but at the end of a full list, and leaves out nothing earlier than what *)
(* it keeps.                                                               *)
LEMMA NormalizedWell ==
    ASSUME tokens \in Seq(TokenClass), NEW list \in Seq(Within(Len(tokens)))
    PROVE  LET new == Normalized(list)
           IN  /\ new \in Seq(Known)
               /\ StrictlyOrdered(new)
               /\ Len(new) <= MaxDiagnostics
               /\ \A k \in 1..Len(new) :
                    new[k].code = "TooManyErrors" => k = Len(new) /\ k = MaxDiagnostics
               /\ new = <<>> <=> list = <<>>
               /\ \A k \in 1..Len(list) :
                    \/ \E j \in 1..Len(new) : SameKey(new[j], list[k])
                    \/ \A j \in 1..(Len(new) - 1) : Before(new[j], list[k])
<1> DEFINE n == Len(tokens)
           s == Sorted(list)
           d == Dedup(s)
           new == Normalized(list)
<1>1. n \in Nat /\ Within(n) \subseteq Known /\ MaxDiagnostics \in Nat \ {0}
  BY WithinKnown, BoundAssumption
<1>2. list \in Seq(Known)
  BY <1>1
<1>3. /\ s \in Seq(Known) /\ Len(s) = Len(list) /\ WeaklyOrdered(s)
      /\ \A r \in 1..Len(list) : \E k \in 1..Len(list) : s[r] = list[k]
      /\ \A k \in 1..Len(list) : \E r \in 1..Len(list) : s[r] = list[k]
  BY <1>2, SortedOrders
<1> HIDE DEF s
<1>4. /\ d \in Seq(Known) /\ StrictlyOrdered(d)
      /\ \A r \in 1..Len(d) : \E k \in 1..Len(s) : d[r] = s[k]
      /\ \A k \in 1..Len(s) : \E r \in 1..Len(d) : SameKey(d[r], s[k])
  BY <1>3, DedupOrders
<1>5. new = Capped(d)
  BY DEF Normalized, s
<1> HIDE DEF d, new
<1>6. Len(list) \in Nat /\ Len(d) \in Nat /\ \A k \in 1..Len(list) : list[k] \in Within(n)
  BY <1>2, <1>4
<1>7. \A r \in 1..Len(d) : d[r] \in Within(n)
  <2> SUFFICES ASSUME NEW r \in 1..Len(d) PROVE d[r] \in Within(n)
    OBVIOUS
  <2>1. PICK k \in 1..Len(s) : d[r] = s[k]
    BY <1>4
  <2>2. PICK j \in 1..Len(list) : s[k] = list[j]
    BY <1>3
  <2> QED BY <1>6, <2>1, <2>2
<1>8. ASSUME NEW k \in 1..Len(list)
      PROVE  \E r \in 1..Len(d) : SameKey(d[r], list[k])
  BY <1>3, <1>4
<1>9. d = <<>> <=> list = <<>>
  <2>1. list # <<>> => 1 \in 1..Len(list)
    BY <1>2, <1>6
  <2>2. d # <<>> => 1 \in 1..Len(d)
    BY <1>4, <1>6
  <2>3. d # <<>> => Len(list) # 0
    BY <1>3, <1>4, <2>2
  <2>4. list # <<>> => Len(d) # 0
    BY <1>8, <2>1
  <2> QED BY <2>3, <2>4
<1>10. \A r \in 1..Len(d) : d[r].code # "TooManyErrors"
  BY <1>7 DEF Within
<1>11. CASE Len(d) <= MaxDiagnostics
  <2>1. new = d
    BY <1>5, <1>11 DEF Capped
  <2> QED BY <1>4, <1>8, <1>9, <1>10, <1>11, <2>1 DEF new
<1>12. CASE ~(Len(d) <= MaxDiagnostics)
  <2> DEFINE kept == MaxDiagnostics - 1
  <2>1. kept \in Nat /\ kept + 1 = MaxDiagnostics /\ kept < Len(d)
    BY <1>1, <1>6, <1>12
  <2>2. new = Append(SubSeq(d, 1, kept), Marker(d))
    BY <1>5, <1>12 DEF Capped
  <2>3. Marker(d) \in Known /\ Marker(d).code = "TooManyErrors"
    <3>1. d[1] \in Within(n)
      BY <1>6, <1>7, <2>1
    <3> QED BY <3>1, MarkerIsLast
  <2>4. \A r \in 1..Len(d) : Before(d[r], Marker(d))
    BY <1>7, MarkerIsLast
  <2> HIDE DEF kept
  <2>5. /\ new \in Seq(Known) /\ Len(new) = kept + 1
        /\ \A k \in 1..kept : new[k] = d[k] /\ k \in 1..Len(d)
        /\ new[kept + 1] = Marker(d)
    <3>1. /\ SubSeq(d, 1, kept) \in Seq(Known) /\ Len(SubSeq(d, 1, kept)) = kept
          /\ \A k \in 1..kept : SubSeq(d, 1, kept)[k] = d[k]
      BY <1>4, <1>6, <2>1
    <3>2. \A k \in 1..kept : k \in 1..Len(d)
      BY <1>6, <2>1
    <3> QED BY <2>1, <2>2, <2>3, <3>1, <3>2
  <2>6. \A k \in 1..Len(new) : k \in 1..kept \/ k = kept + 1
    BY <2>1, <2>5
  <2>7. StrictlyOrdered(new)
    <3> SUFFICES ASSUME NEW i \in 1..Len(new), NEW j \in 1..Len(new), i < j
                 PROVE  Before(new[i], new[j])
      BY DEF StrictlyOrdered
    <3>1. i \in 1..kept
      BY <2>1, <2>6
    <3>2. CASE j \in 1..kept
      BY <1>4, <2>5, <3>1, <3>2 DEF StrictlyOrdered
    <3>3. CASE j = kept + 1
      BY <2>4, <2>5, <3>1, <3>3
    <3> QED BY <2>6, <3>2, <3>3
  <2>8. \A k \in 1..Len(new) :
          new[k].code = "TooManyErrors" => k = Len(new) /\ k = MaxDiagnostics
    BY <1>10, <2>1, <2>5, <2>6
  <2>9. new # <<>> /\ list # <<>>
    <3>1. d # <<>>
      BY <2>1, <1>6
    <3>2. new # <<>>
      BY <2>1, <2>5
    <3> QED BY <1>9, <3>1, <3>2
  <2>10. ASSUME NEW k \in 1..Len(list)
         PROVE  \/ \E j \in 1..Len(new) : SameKey(new[j], list[k])
                \/ \A j \in 1..(Len(new) - 1) : Before(new[j], list[k])
    <3>1. PICK r \in 1..Len(d) : SameKey(d[r], list[k])
      BY <1>8
    <3>2. CASE r \in 1..kept
      <4>1. r \in 1..Len(new) /\ SameKey(new[r], list[k])
        BY <2>1, <2>5, <3>1, <3>2
      <4> QED BY <4>1
    <3>3. CASE r \notin 1..kept
      <4> SUFFICES ASSUME NEW j \in 1..(Len(new) - 1) PROVE Before(new[j], list[k])
        OBVIOUS
      <4>1. j \in 1..kept /\ j < r
        BY <2>1, <2>5, <3>1, <3>3
      <4>2. Before(d[j], d[r])
        BY <1>4, <2>5, <4>1 DEF StrictlyOrdered
      <4>3. new[j] = d[j]
        BY <2>5, <4>1
      <4> QED BY <3>1, <4>2, <4>3 DEF Before, SameKey
    <3> QED BY <3>2, <3>3
  <2>11. Len(new) <= MaxDiagnostics
    BY <2>1, <2>5
  <2> QED BY <2>5, <2>7, <2>8, <2>9, <2>10, <2>11 DEF new
<1> QED BY <1>11, <1>12

LEMMA NormalizeKeeps == ASSUME DiagnosticsInv, Normalize PROVE DiagnosticsInv'
<1>1. /\ pc = "Normalize" /\ pc' = "Recovered"
      /\ diagnostics' = Normalized(diagnostics)
      /\ UNCHANGED <<tokens, accepted, cursor, stack>>
      /\ ListInv /\ StackInv
  BY DEF Normalize, DiagnosticsInv
<1>2. /\ tokens \in Seq(TokenClass) /\ diagnostics \in Seq(Within(Len(tokens)))
      /\ accepted \in BOOLEAN /\ (accepted <=> diagnostics = <<>>)
  BY <1>1 DEF ListInv, Collecting, Early
<1>3. /\ diagnostics' \in Seq(Known) /\ StrictlyOrdered(diagnostics')
      /\ Len(diagnostics') <= MaxDiagnostics
      /\ \A k \in 1..Len(diagnostics') : diagnostics'[k].code = "TooManyErrors" =>
            k = Len(diagnostics') /\ k = MaxDiagnostics
      /\ diagnostics' = <<>> <=> diagnostics = <<>>
  BY <1>1, <1>2, NormalizedWell
<1>4. ListInv'
  <2>1. /\ pc' \in Reporting /\ pc' \notin Collecting /\ pc' \notin Early /\ pc' # "Delimiters"
        /\ pc' # "Done" /\ pc' # "Lex" /\ pc' # "Parse"
    BY <1>1 DEF Reporting, Collecting, Early
  <2>2. tokens' \in Seq(TokenClass) /\ accepted' \in BOOLEAN /\ (accepted' <=> diagnostics' = <<>>)
    BY <1>1, <1>2, <1>3
  <2> QED BY <1>3, <2>1, <2>2 DEF ListInv
<1>5. StackInv'
  BY <1>1 DEF StackInv, Open
<1>6. (PairingInv /\ NamingInv /\ DelimitersSound)'
  BY <1>1 DEF PairingInv, NamingInv, DelimitersSound
<1> QED BY <1>4, <1>5, <1>6 DEF DiagnosticsInv

LEMMA StrictKeeps == ASSUME DiagnosticsInv, Strict PROVE DiagnosticsInv'
<1>1. /\ pc = "Recovered" /\ pc' = "Done" /\ strict' = Sorted(diagnostics)
      /\ UNCHANGED <<tokens, accepted, diagnostics, cursor, stack>>
      /\ ListInv /\ StackInv
  BY DEF Strict, DiagnosticsInv
<1>2. /\ tokens \in Seq(TokenClass) /\ accepted \in BOOLEAN /\ (accepted <=> diagnostics = <<>>)
      /\ diagnostics \in Seq(Known) /\ StrictlyOrdered(diagnostics)
      /\ Len(diagnostics) <= MaxDiagnostics
      /\ \A k \in 1..Len(diagnostics) :
            diagnostics[k].code = "TooManyErrors" => k = Len(diagnostics) /\ k = MaxDiagnostics
  BY <1>1 DEF ListInv, Collecting, Early, Reporting
<1>3. strict' = diagnostics
  BY <1>1, <1>2, SortedAlready
<1>4. ListInv'
  <2>1. /\ pc' \in Reporting /\ pc' \notin Collecting /\ pc' \notin Early /\ pc' # "Delimiters"
        /\ pc' # "Lex" /\ pc' # "Parse"
    BY <1>1 DEF Reporting, Collecting, Early
  <2> QED BY <1>1, <1>2, <1>3, <2>1 DEF ListInv
<1>5. StackInv'
  BY <1>1 DEF StackInv, Open
<1>6. (PairingInv /\ NamingInv /\ DelimitersSound)'
  BY <1>1 DEF PairingInv, NamingInv, DelimitersSound
<1> QED BY <1>4, <1>5, <1>6 DEF DiagnosticsInv

LEMMA StutterKeeps == ASSUME DiagnosticsInv, UNCHANGED vars PROVE DiagnosticsInv'
<1>1. UNCHANGED <<tokens, pc, accepted, diagnostics, cursor, stack, strict>>
  BY DEF vars
<1>2. Open' = Open /\ Shut' = Shut /\ Held' = Held /\ Refused' = Refused
  BY <1>1 DEF Open, Shut, Held, Refused
<1>3. Closed' = Closed /\ WellNested' = WellNested
  BY <1>1, <1>2 DEF Closed, WellNested, Nests
<1>4. \A closer : Pairs(closer)' <=> Pairs(closer)
  BY <1>1, <1>2 DEF Pairs
<1>5. \A closer : Nests(closer)' <=> Nests(closer)
  BY <1>1, <1>2 DEF Nests
<1>6. ListInv' /\ StackInv'
  BY <1>1, <1>2 DEF DiagnosticsInv, ListInv, StackInv
<1>7. PairingInv'
  BY <1>1, <1>2, <1>3, <1>4, <1>5 DEF DiagnosticsInv, PairingInv
<1>8. NamingInv' /\ DelimitersSound'
  BY <1>1, <1>2, <1>3 DEF DiagnosticsInv, NamingInv, DelimitersSound, Reported
<1> QED BY <1>6, <1>7, <1>8 DEF DiagnosticsInv

-----------------------------------------------------------------------------
(* What the list holds at each stage of parse_recovering, what the stack   *)
(* of collect_delimiter_diagnostics holds, and what its reports mean so    *)
(* far: the inductive invariant.                                           *)
THEOREM DiagnosticsInvariant == Spec => []DiagnosticsInv
<1>1. DiagnosticsInv /\ [Next]_vars => DiagnosticsInv'
  <2> SUFFICES ASSUME DiagnosticsInv, [Next]_vars PROVE DiagnosticsInv'
    OBVIOUS
  <2>1. CASE Lex                BY <2>1, LexKeeps
  <2>2. CASE ParseAccepts       BY <2>2, AcceptKeeps
  <2>3. CASE ParseFails         BY <2>3, FailKeeps
  <2>4. CASE PassToken          BY <2>4, PassKeeps
  <2>5. CASE OpenDelimiter      BY <2>5, OpenKeeps
  <2>6. CASE CloseDelimiter     BY <2>6, CloseKeeps
  <2>7. CASE ReportUnclosed     BY <2>7, ReportUnclosedKeeps
  <2>8. CASE Normalize          BY <2>8, NormalizeKeeps
  <2>9. CASE Strict             BY <2>9, StrictKeeps
  <2>10. CASE UNCHANGED vars    BY <2>10, StutterKeeps
  <2> QED BY <2>1, <2>2, <2>3, <2>4, <2>5, <2>6, <2>7, <2>8, <2>9, <2>10 DEF Next, Returned
<1> QED BY <1>1, InitEstablishes, PTL DEF Spec

(* No delimiter is named by two reports.                                   *)
LEMMA ReportedOnce == ASSUME DiagnosticsInv PROVE DelimitersReportedOnce
<1> SUFFICES ASSUME pc = "Normalize", NEW i \in DOMAIN tokens
             PROVE  Cardinality(Naming(i)) <= 1
  BY DEF DelimitersReportedOnce
<1>1. tokens \in Seq(TokenClass) /\ diagnostics \in Seq(Within(Len(tokens)))
  BY DEF DiagnosticsInv, ListInv, Collecting
<1>2. i \in 1..Len(tokens) /\ DOMAIN diagnostics = 1..Len(diagnostics)
  BY <1>1
<1>3. \A k \in Naming(i) : k \in Faults(diagnostics) /\ i \in Names(diagnostics[k])
  <2> SUFFICES ASSUME NEW k \in Naming(i)
               PROVE  k \in Faults(diagnostics) /\ i \in Names(diagnostics[k])
    OBVIOUS
  <2>1. k \in Faults(diagnostics) /\ (diagnostics[k].start = i - 1 \/ diagnostics[k].label = i)
    BY <1>2 DEF Naming, Reported, Faults, Delimiting, StartOf
  <2>2. diagnostics[k].start = i - 1 => diagnostics[k].start + 1 = i
    BY <1>2
  <2>3. i # NoLabel
    BY <1>2 DEF NoLabel
  <2> QED BY <2>1, <2>2, <2>3 DEF Names
<1>4. \A k, l \in Naming(i) : k = l
  <2>1. \A k, l \in Faults(diagnostics) :
            k # l => Names(diagnostics[k]) \cap Names(diagnostics[l]) = {}
    BY DEF DiagnosticsInv, NamingInv
  <2> QED BY <1>3, <2>1
<1>5. Naming(i) = {} \/ \E k : Naming(i) = {k}
  BY <1>4
<1>6. Cardinality(Naming(i)) = 0 \/ Cardinality(Naming(i)) = 1
  BY <1>5, FS_EmptySet, FS_Singleton
<1> QED BY <1>6

-----------------------------------------------------------------------------
(* Which delimiters the reports name.                                      *)

\* The closers read so far.
Read == {c \in Shut : c < cursor}

\* What Meets says, of what is read: an opener read meets a closer read unless it is held.
MetSoFar(closer) ==
    /\ \A o \in Open : closer[o] = NoLabel <=> o \in Held \/ cursor <= o
    /\ \A o \in Open : closer[o] # NoLabel => o < closer[o]
    /\ \A o \in Open, c \in Read : Inside(closer, o, c) => \E p \in Open : o < p /\ closer[p] = c
    /\ \A o, p \in Open : Inside(closer, o, p) /\ closer[o] # NoLabel =>
                                closer[p] # NoLabel /\ closer[p] < closer[o]

\* The closers at fault: those that meet an opener of another kind, those that meet none.
Mistaken(closer) == {o \in Open : closer[o] # NoLabel /\ tokens[o] # OpenerOf(tokens[closer[o]])}
Unmet(closer, C) == {c \in C : \A o \in Open : closer[o] # c}

Misplaced(closer, C) ==
    {AtToken("MismatchedDelimiter", closer[o], o) : o \in Mistaken(closer)}
    \cup {AtToken("MismatchedDelimiter", c, NoLabel) : c \in Unmet(closer, C)}

FaultSet(list) == {list[k] : k \in Faults(list)}

\* As the scan goes on it reports what is misplaced among the closers read, and no more.
MeetingInv ==
    /\ pc = "Delimiters" =>
         \E closer \in [Open -> Read \cup {NoLabel}] :
            MetSoFar(closer) /\ FaultSet(diagnostics) = Misplaced(closer, Read)
    /\ FaultsReported

(* A step that reads no closer, and holds the opener it reads.             *)
LEMMA MeetingMoves ==
    ASSUME MeetingInv, pc = "Delimiters", pc' = "Delimiters", UNCHANGED <<tokens, diagnostics>>,
           Read' = Read,
           \A o \in Open : (o \in Held' \/ cursor' <= o) <=> (o \in Held \/ cursor <= o)
    PROVE  MeetingInv'
<1>1. PICK closer \in [Open -> Read \cup {NoLabel}] :
        MetSoFar(closer) /\ FaultSet(diagnostics) = Misplaced(closer, Read)
  BY DEF MeetingInv
<1>2. Open' = Open
  BY DEF Open
<1>3. MetSoFar(closer)'
  BY <1>1, <1>2 DEF MetSoFar, Inside
<1>4. FaultSet(diagnostics)' = Misplaced(closer, Read)'
  BY <1>1, <1>2 DEF FaultSet, Faults, Misplaced, Mistaken, Unmet, AtToken, StartOf, EndOf
<1>5. FaultsReported'
  BY DEF FaultsReported
<1> QED BY <1>1, <1>2, <1>3, <1>4, <1>5 DEF MeetingInv

(* Before the scan every opener is to come, and nothing is reported.       *)
LEMMA MeetingBegins == ASSUME DiagnosticsInv, ParseFails PROVE MeetingInv'
<1>1. /\ tokens \in Seq(TokenClass) /\ UNCHANGED <<tokens, cursor, stack, accepted>>
      /\ pc = "Parse" /\ cursor = 1 /\ stack = <<>>
  BY DEF DiagnosticsInv, ListInv, ParseFails, Early
<1>2. pc' = "Delimiters"
  BY <1>1 DEF DiagnosticsInv, ListInv, Early, ParseFails, NeedsScan
<1>3. Faults(diagnostics) = {} /\ diagnostics \in Seq(Within(Len(tokens)))
  BY <1>1 DEF DiagnosticsInv, ListInv, Early, Collecting
<1>4. FaultSet(diagnostics)' = {}
  <2>1. PICK d \in ParseDiagnostics : diagnostics' = Append(diagnostics, d)
    BY DEF ParseFails
  <2>2. d \in Within(Len(tokens)) /\ d.code \notin Delimiting
    BY <1>1, ParseErrorsTyped
  <2>3. /\ Len(diagnostics') = Len(diagnostics) + 1
        /\ \A k \in 1..Len(diagnostics) : diagnostics'[k] = diagnostics[k]
        /\ diagnostics'[Len(diagnostics) + 1] = d
    BY <1>3, <2>1, <2>2
  <2>4. Faults(diagnostics') = {}
    BY <1>3, <2>2, <2>3 DEF Faults
  <2> QED BY <2>4 DEF FaultSet
<1>5. Open' \subseteq 1..Len(tokens) /\ Shut' \subseteq 1..Len(tokens) /\ Len(tokens) \in Nat
  BY <1>1, TokensTyped DEF Open, Shut
<1>6. Read' = {} /\ cursor' = 1
  <2>1. cursor' = 1
    BY <1>1
  <2>2. \A c \in Shut' : ~(c < 1)
    BY <1>5
  <2> QED BY <2>1, <2>2 DEF Read
<1>7. PICK closer \in [Open' -> Read' \cup {NoLabel}] : \A o \in Open' : closer[o] = NoLabel /\ 1 <= o
  <2>1. [o \in Open' |-> NoLabel] \in [Open' -> Read' \cup {NoLabel}]
    OBVIOUS
  <2>2. \A o \in Open' : [p \in Open' |-> NoLabel][o] = NoLabel /\ 1 <= o
    BY <1>5
  <2> QED BY <2>1, <2>2
<1>8. MetSoFar(closer)'
  BY <1>6, <1>7 DEF MetSoFar
<1>9. Misplaced(closer, Read)' = {}
  BY <1>6, <1>7 DEF Misplaced, Mistaken, Unmet
<1>10. FaultsReported'
  BY <1>2 DEF FaultsReported
<1> QED BY <1>4, <1>7, <1>8, <1>9, <1>10 DEF MeetingInv

(* A token that is no delimiter moves nothing.                             *)
LEMMA MeetingPasses == ASSUME DiagnosticsInv, MeetingInv, PassToken PROVE MeetingInv'
<1>1. /\ pc = "Delimiters" /\ pc' = pc /\ cursor' = cursor + 1 /\ cursor <= Len(tokens)
      /\ UNCHANGED <<tokens, diagnostics, stack>>
      /\ cursor \notin Open /\ cursor \notin Shut
  BY DEF PassToken, Open, Shut
<1>2. \A i \in Open \cup Shut : i \in Int /\ cursor \in Int
  BY <1>1, ScanFacts
<1>3. Held' = Held /\ Shut' = Shut
  BY <1>1 DEF Held, Shut
<1>4. Read' = Read
  BY <1>1, <1>2, <1>3 DEF Read
<1>5. \A o \in Open : (o \in Held' \/ cursor' <= o) <=> (o \in Held \/ cursor <= o)
  BY <1>1, <1>2, <1>3
<1> QED BY <1>1, <1>4, <1>5, MeetingMoves

(* An opener meets no closer yet, held now where it was to come before.    *)
LEMMA MeetingOpens == ASSUME DiagnosticsInv, MeetingInv, OpenDelimiter PROVE MeetingInv'
<1>1. /\ pc = "Delimiters" /\ pc' = pc /\ cursor' = cursor + 1 /\ cursor <= Len(tokens)
      /\ UNCHANGED <<tokens, diagnostics>> /\ stack' = Append(stack, cursor)
      /\ cursor \notin Shut
  BY DEF OpenDelimiter, Shut, Openers, Closers
<1>2. \A i \in Open \cup Shut : i \in Int /\ cursor \in Int
  BY <1>1, ScanFacts
<1>3. Held' = Held \cup {cursor}
  <2>1. stack \in Seq(Open)
    BY <1>1, ScanFacts DEF StackInv
  <2>2. /\ Len(stack) \in Nat /\ DOMAIN stack = 1..Len(stack)
        /\ DOMAIN stack' = 1..(Len(stack) + 1)
        /\ \A k \in 1..Len(stack) : stack'[k] = stack[k]
        /\ stack'[Len(stack) + 1] = cursor
    BY <1>1, <2>1
  <2>3. \A k \in 1..(Len(stack) + 1) : k \in 1..Len(stack) \/ k = Len(stack) + 1
    BY <2>2
  <2>4. 1..Len(stack) \subseteq 1..(Len(stack) + 1) /\ Len(stack) + 1 \in 1..(Len(stack) + 1)
    BY <2>2
  <2>5. \A s \in Held' : s \in Held \/ s = cursor
    BY <2>2, <2>3 DEF Held
  <2>6. \A s \in Held \cup {cursor} : s \in Held'
    BY <2>2, <2>4 DEF Held
  <2> QED BY <2>5, <2>6
<1>4. Read' = Read
  <2>1. Shut' = Shut
    BY <1>1 DEF Shut
  <2> QED BY <1>1, <1>2, <2>1 DEF Read
<1>5. \A o \in Open : (o \in Held' \/ cursor' <= o) <=> (o \in Held \/ cursor <= o)
  BY <1>1, <1>2, <1>3
<1> QED BY <1>1, <1>4, <1>5, MeetingMoves

(* A closer meets the innermost opener held, since all behind that one     *)
(* have met theirs; or none, if all openers read have.                     *)
LEMMA MeetingCloses == ASSUME DiagnosticsInv, MeetingInv, CloseDelimiter PROVE MeetingInv'
<1> DEFINE n == Len(tokens)
           report == AtToken("MismatchedDelimiter", cursor, Top)
<1>1. /\ pc = "Delimiters" /\ pc' = "Delimiters" /\ cursor' = cursor + 1 /\ cursor <= n
      /\ tokens[cursor] \in Closers
      /\ diagnostics' = diagnostics \o Mismatch(Top)
      /\ stack' = Popped(Top)
      /\ UNCHANGED <<tokens, accepted>>
  BY DEF CloseDelimiter, Top
<1>2. cursor \in 1..n /\ cursor \in DOMAIN tokens /\ n \in Nat
  BY <1>1, ScanFacts DEF StackInv
<1>3. Open' = Open /\ Shut' = Shut /\ cursor \in Shut /\ cursor \notin Open
  BY <1>1, <1>2, ScanFacts DEF Open, Shut
<1>4. /\ Top = NoLabel => Held = {}
      /\ Top # NoLabel => Top \in Held
      /\ \A s \in Held : s <= Top
      /\ Top \in 0..n /\ Top < cursor
      /\ Held' = Held \ {Top} /\ Held \subseteq Open
  BY <1>1, ScanFacts, PoppingTop
<1>5. /\ Open \subseteq 1..n /\ Shut \subseteq 1..n
      /\ diagnostics \in Seq(Within(n))
  BY <1>1, ScanFacts
<1>6. PICK closer \in [Open -> Read \cup {NoLabel}] :
        MetSoFar(closer) /\ FaultSet(diagnostics) = Misplaced(closer, Read)
  BY <1>1 DEF MeetingInv
<1> HIDE DEF n
<1>7. /\ \A o \in Open : o \in Int /\ o # NoLabel /\ o # cursor
      /\ \A c \in Read : c \in Int /\ c # NoLabel /\ c < cursor
      /\ cursor # NoLabel /\ cursor \in Int /\ NoLabel \in Int
      /\ Read' = Read \cup {cursor}
      /\ \A o \in Open : closer[o] \in Read \cup {NoLabel}
  <2>1. \A c \in Shut : c \in Int /\ c # NoLabel /\ (c < cursor' <=> c < cursor \/ c = cursor)
    BY <1>1, <1>2, <1>5 DEF NoLabel
  <2>2. Read' = Read \cup {cursor}
    BY <1>3, <2>1 DEF Read
  <2>3. \A o \in Open : o \in Int /\ o # NoLabel /\ o # cursor
    BY <1>2, <1>3, <1>5 DEF NoLabel
  <2>4. \A c \in Read : c \in Int /\ c # NoLabel /\ c < cursor
    BY <2>1 DEF Read
  <2> QED BY <1>2, <1>6, <2>2, <2>3, <2>4 DEF NoLabel
<1>8. /\ \A o \in Open : closer[o] = NoLabel <=> o \in Held \/ cursor <= o
      /\ \A o \in Open : closer[o] # NoLabel => o < closer[o]
      /\ \A o \in Open, c \in Read : Inside(closer, o, c) => \E p \in Open : o < p /\ closer[p] = c
      /\ \A o, p \in Open : Inside(closer, o, p) /\ closer[o] # NoLabel =>
                                closer[p] # NoLabel /\ closer[p] < closer[o]
  BY <1>6 DEF MetSoFar
<1>9. FaultsReported'
  BY <1>1 DEF FaultsReported
<1>10. Mismatch(Top) = IF Closes(Top) THEN <<>> ELSE <<report>>
  BY DEF Mismatch
<1>11. ~Closes(Top) => FaultSet(diagnostics)' = FaultSet(diagnostics) \cup {report}
  <2> SUFFICES ASSUME ~Closes(Top)
               PROVE  FaultSet(diagnostics)' = FaultSet(diagnostics) \cup {report}
    OBVIOUS
  <2>1. report \in Within(n) /\ report.code = "MismatchedDelimiter"
    <3>1. "MismatchedDelimiter" \in CodeSet \ {"TooManyErrors"}
      BY DEF CodeSet
    <3>2. report \in Within(n)
      BY <1>2, <1>4, <3>1, TokenReported
    <3> QED BY <3>2 DEF AtToken, Diagnostic
  <2> HIDE DEF report
  <2>2. diagnostics' = diagnostics \o <<report>>
    BY <1>1, <1>10
  <2>3. /\ Len(diagnostics') = Len(diagnostics) + 1 /\ Len(diagnostics) \in Nat
        /\ \A k \in 1..Len(diagnostics) : diagnostics'[k] = diagnostics[k]
        /\ diagnostics'[Len(diagnostics) + 1] = report
    BY <1>5, <2>1, <2>2
  <2>4. Faults(diagnostics') = Faults(diagnostics) \cup {Len(diagnostics) + 1}
    BY <2>1, <2>3 DEF Faults, Delimiting
  <2>5. \A k \in Faults(diagnostics) : diagnostics'[k] = diagnostics[k]
    BY <2>3 DEF Faults
  <2> QED BY <2>3, <2>4, <2>5 DEF FaultSet
<1>12. Closes(Top) => FaultSet(diagnostics)' = FaultSet(diagnostics)
  <2> SUFFICES ASSUME Closes(Top) PROVE diagnostics' = diagnostics
    BY DEF FaultSet, Faults
  <2> QED BY <1>1, <1>5, <1>10
<1> HIDE DEF report
<1>13. CASE Top = NoLabel
  <2>1. \A o \in Open : cursor' <= o <=> cursor <= o
    BY <1>1, <1>7
  <2>2. \A o \in Open : o < cursor => closer[o] # NoLabel /\ closer[o] < cursor
    BY <1>4, <1>7, <1>8, <1>13
  <2>3. \A o \in Open : ~Inside(closer, o, cursor)
    BY <1>7, <2>2 DEF Inside
  <2>4. MetSoFar(closer)'
    <3>1. \A o \in Open : closer[o] = NoLabel <=> o \in Held' \/ cursor' <= o
      BY <1>4, <1>8, <1>13, <2>1
    <3>2. \A o \in Open, c \in Read' : Inside(closer, o, c) => \E p \in Open : o < p /\ closer[p] = c
      BY <1>7, <1>8, <2>3
    <3> QED BY <1>3, <1>8, <3>1, <3>2 DEF MetSoFar, Inside
  <2>5. Misplaced(closer, Read)' = Misplaced(closer, Read) \cup {report}
    <3>1. Mistaken(closer)' = Mistaken(closer)
      BY <1>1, <1>3 DEF Mistaken
    <3>2. \A o \in Open : closer[o] # cursor
      BY <1>7
    <3>3. Unmet(closer, Read)' = Unmet(closer, Read) \cup {cursor}
      BY <1>3, <1>7, <3>2 DEF Unmet
    <3>4. report = AtToken("MismatchedDelimiter", cursor, NoLabel)
      BY <1>13 DEF report
    <3> QED BY <3>1, <3>3, <3>4 DEF Misplaced
  <2>6. ~Closes(Top)
    BY <1>13 DEF Closes
  <2>7. closer \in [Open' -> Read' \cup {NoLabel}]
    BY <1>3, <1>6, <1>7
  <2>8. FaultSet(diagnostics)' = Misplaced(closer, Read)'
    BY <1>6, <1>11, <2>5, <2>6
  <2> QED BY <1>9, <2>4, <2>7, <2>8 DEF MeetingInv
<1>14. CASE Top # NoLabel
  <2>1. Top \in Held /\ Top \in Open /\ closer[Top] = NoLabel /\ Top \in Int
    BY <1>4, <1>7, <1>8, <1>14
  <2>2. PICK new \in [Open' -> Read' \cup {NoLabel}] :
          new[Top] = cursor /\ \A o \in Open : o # Top => new[o] = closer[o]
    <3> DEFINE f == [o \in Open |-> IF o = Top THEN cursor ELSE closer[o]]
    <3>1. f \in [Open' -> Read' \cup {NoLabel}]
      BY <1>3, <1>7
    <3>2. f[Top] = cursor /\ \A o \in Open : o # Top => f[o] = closer[o]
      BY <2>1
    <3> QED BY <3>1, <3>2
  <2>3. \A o \in Open : o # Top => (new[o] # NoLabel <=> o < cursor /\ o \notin Held)
    BY <1>7, <1>8, <2>2
  <2>4. \A o \in Open : o # Top /\ new[o] # NoLabel => new[o] < cursor /\ new[o] \in Read
    BY <1>7, <2>2
  <2>5. \A o \in Open : new[o] = NoLabel <=> o \in Held' \/ cursor' <= o
    <3>1. \A o \in Open : cursor' <= o <=> cursor <= o
      BY <1>1, <1>7
    <3>2. ~(cursor' <= Top)
      BY <1>4, <1>7, <2>1, <3>1
    <3> QED BY <1>4, <1>7, <1>8, <2>2, <3>1, <3>2
  <2>6. \A o \in Open : new[o] # NoLabel => o < new[o]
    BY <1>4, <1>8, <2>2
  <2>7. \A o \in Open, c \in Read' : Inside(new, o, c) => \E p \in Open : o < p /\ new[p] = c
    <3> SUFFICES ASSUME NEW o \in Open, NEW c \in Read', Inside(new, o, c)
                 PROVE  \E p \in Open : o < p /\ new[p] = c
      OBVIOUS
    <3>1. CASE c = cursor
      <4>1. o # Top
        BY <1>7, <2>2, <3>1 DEF Inside
      <4>2. o < cursor /\ o \in Held
        <5>1. o < cursor /\ (new[o] # NoLabel => cursor < new[o])
          BY <3>1 DEF Inside
        <5>2. new[o] = NoLabel
          BY <1>7, <2>4, <4>1, <5>1
        <5> QED BY <2>3, <4>1, <5>1, <5>2
      <4>3. o < Top
        BY <1>4, <1>7, <2>1, <4>1, <4>2
      <4> QED BY <2>1, <2>2, <3>1, <4>3
    <3>2. CASE c \in Read
      <4>1. Inside(closer, o, c)
        BY <2>1, <2>2 DEF Inside
      <4>2. PICK p \in Open : o < p /\ closer[p] = c
        BY <1>8, <3>2, <4>1
      <4>3. p # Top
        BY <1>7, <2>1, <3>2, <4>2
      <4> QED BY <2>2, <4>2, <4>3
    <3> QED BY <1>7, <3>1, <3>2
  <2>8. \A o, p \in Open : Inside(new, o, p) /\ new[o] # NoLabel =>
                                new[p] # NoLabel /\ new[p] < new[o]
    <3> SUFFICES ASSUME NEW o \in Open, NEW p \in Open, Inside(new, o, p), new[o] # NoLabel
                 PROVE  new[p] # NoLabel /\ new[p] < new[o]
      OBVIOUS
    <3>1. o < p /\ p < new[o]
      BY DEF Inside
    <3>2. CASE o = Top
      <4>1. p # Top /\ p < cursor /\ p \notin Held
        BY <1>4, <1>7, <2>1, <2>2, <3>1, <3>2
      <4> QED BY <2>2, <2>3, <2>4, <3>2, <4>1
    <3>3. CASE o # Top
      <4>1. Inside(closer, o, p) /\ closer[o] # NoLabel /\ new[o] = closer[o]
        BY <2>2, <3>3 DEF Inside
      <4>2. closer[p] # NoLabel /\ closer[p] < closer[o]
        BY <1>8, <4>1
      <4>3. p # Top
        BY <2>1, <4>2
      <4> QED BY <2>2, <4>1, <4>2, <4>3
    <3> QED BY <3>2, <3>3
  <2>9. MetSoFar(new)'
    BY <1>3, <2>5, <2>6, <2>7, <2>8 DEF MetSoFar, Inside
  <2>10. Unmet(new, Read)' = Unmet(closer, Read)
    <3>1. \A c \in Read : (\E o \in Open : new[o] = c) <=> (\E o \in Open : closer[o] = c)
      BY <1>7, <2>1, <2>2
    <3>2. \E o \in Open : new[o] = cursor
      BY <2>1, <2>2
    <3> QED BY <1>3, <1>7, <3>1, <3>2 DEF Unmet
  <2>11. Mistaken(new)' = Mistaken(closer) \cup (IF Closes(Top) THEN {} ELSE {Top})
    <3>1. \A o \in Open : o # Top => (o \in Mistaken(new)' <=> o \in Mistaken(closer))
      BY <1>1, <1>3, <2>2 DEF Mistaken
    <3>2. Top \notin Mistaken(closer)
      BY <2>1 DEF Mistaken
    <3>3. Top \in Mistaken(new)' <=> ~Closes(Top)
      BY <1>1, <1>3, <1>7, <1>14, <2>1, <2>2 DEF Mistaken, Closes
    <3>4. Mistaken(new)' \subseteq Open /\ Mistaken(closer) \subseteq Open
      BY <1>3 DEF Mistaken
    <3> QED BY <2>1, <3>1, <3>2, <3>3, <3>4
  <2>12. \A o \in Mistaken(closer) : new[o] = closer[o]
    BY <2>1, <2>2 DEF Mistaken
  <2>13. FaultSet(diagnostics)' = Misplaced(new, Read)'
    <3>1. CASE Closes(Top)
      <4>1. Mistaken(new)' = Mistaken(closer)
        BY <2>11, <3>1
      <4>2. Misplaced(new, Read)' = Misplaced(closer, Read)
        BY <2>10, <2>12, <4>1 DEF Misplaced
      <4> QED BY <1>6, <1>12, <3>1, <4>2
    <3>2. CASE ~Closes(Top)
      <4>1. Mistaken(new)' = Mistaken(closer) \cup {Top}
        BY <2>11, <3>2
      <4>2. Misplaced(new, Read)' = Misplaced(closer, Read) \cup {report}
        BY <2>2, <2>10, <2>12, <4>1 DEF Misplaced, report
      <4> QED BY <1>6, <1>11, <3>2, <4>2
    <3> QED BY <3>1, <3>2
  <2> QED BY <1>9, <2>2, <2>9, <2>13 DEF MeetingInv
<1> QED BY <1>13, <1>14

(* At the end all closers are read: what is still held is what meets none. *)
LEMMA MeetingEnds == ASSUME DiagnosticsInv, MeetingInv, ReportUnclosed PROVE MeetingInv'
<1> DEFINE n == Len(tokens)
           more == {AtToken("UnclosedDelimiter", o, NoLabel) : o \in Held}
<1>1. /\ pc = "Delimiters" /\ pc' = "Normalize" /\ cursor > n
      /\ diagnostics' = diagnostics \o Unclosed
      /\ UNCHANGED <<tokens, accepted, cursor, stack>>
  BY DEF ReportUnclosed
<1>2. /\ Open \subseteq 1..n /\ Shut \subseteq 1..n /\ n \in Nat /\ cursor \in Nat
      /\ diagnostics \in Seq(Within(n)) /\ Held \subseteq Open /\ StackInv
  BY <1>1, ScanFacts
<1>3. PICK closer \in [Open -> Read \cup {NoLabel}] :
        MetSoFar(closer) /\ FaultSet(diagnostics) = Misplaced(closer, Read)
  BY <1>1 DEF MeetingInv
<1> HIDE DEF n
<1>4. Read = Shut /\ \A o \in Open : ~(cursor <= o)
  <2>1. \A i \in 1..n : i < cursor /\ ~(cursor <= i)
    BY <1>1, <1>2
  <2> QED BY <1>2, <2>1 DEF Read
<1>5. \A o \in Open : closer[o] = NoLabel <=> o \in Held
  BY <1>3, <1>4 DEF MetSoFar
<1>6. FaultSet(diagnostics') = FaultSet(diagnostics) \cup more
  <2> DEFINE m == Len(diagnostics)
             h == Len(stack)
  <2>1. /\ stack \in Seq(Open) /\ h \in Nat /\ m \in Nat /\ DOMAIN stack = 1..h
        /\ \A k \in 1..h : stack[k] \in Open
    BY <1>2 DEF StackInv
  <2> HIDE DEF m, h
  <2>2. Unclosed = [k \in 1..h |-> AtToken("UnclosedDelimiter", stack[k], NoLabel)]
    BY <2>1 DEF Unclosed
  <2>3. \A o \in Open : /\ AtToken("UnclosedDelimiter", o, NoLabel) \in Within(n)
                        /\ AtToken("UnclosedDelimiter", o, NoLabel).code = "UnclosedDelimiter"
    <3> SUFFICES ASSUME NEW o \in Open
                 PROVE  /\ AtToken("UnclosedDelimiter", o, NoLabel) \in Within(n)
                        /\ AtToken("UnclosedDelimiter", o, NoLabel).code = "UnclosedDelimiter"
      OBVIOUS
    <3>1. o \in 1..n /\ NoLabel \in 0..n /\ "UnclosedDelimiter" \in CodeSet \ {"TooManyErrors"}
      BY <1>2 DEF NoLabel, CodeSet
    <3>2. AtToken("UnclosedDelimiter", o, NoLabel) \in Within(n)
      BY <1>2, <3>1, TokenReported
    <3> QED BY <3>2 DEF AtToken, Diagnostic
  <2>4. \A k \in 1..h : /\ Unclosed[k] = AtToken("UnclosedDelimiter", stack[k], NoLabel)
                        /\ Unclosed[k] \in Within(n) /\ Unclosed[k].code = "UnclosedDelimiter"
    BY <2>1, <2>2, <2>3
  <2>5. Unclosed \in Seq(Within(n)) /\ Len(Unclosed) = h
    <3>1. Unclosed \in [1..h -> Within(n)]
      BY <2>2, <2>4
    <3> QED BY <2>1, <2>2, <3>1
  <2>6. /\ Len(diagnostics') = m + h
        /\ \A k \in 1..m : diagnostics'[k] = diagnostics[k]
        /\ \A k \in 1..h : diagnostics'[m + k] = Unclosed[k]
        /\ \A k \in 1..(m + h) : k \in 1..m \/ (k > m /\ k - m \in 1..h
                                                 /\ diagnostics'[k] = Unclosed[k - m])
    <3> DEFINE list == diagnostics \o Unclosed
    <3>1. /\ list \in Seq(Within(n))
          /\ Len(list) = Len(diagnostics) + Len(Unclosed)
          /\ \A k \in 1..Len(diagnostics) : list[k] = diagnostics[k]
          /\ \A k \in 1..Len(Unclosed) : list[Len(diagnostics) + k] = Unclosed[k]
          /\ \A k \in 1..Len(list) :
               k \in 1..Len(diagnostics)
                 \/ (k > Len(diagnostics) /\ k - Len(diagnostics) \in 1..Len(Unclosed)
                      /\ list[k] = Unclosed[k - Len(diagnostics)])
      <4>1. diagnostics \in Seq(Within(n)) /\ Unclosed \in Seq(Within(n))
        BY <1>2, <2>5
      <4> QED BY <4>1, ReportsAdded, ZenonT(40)
    <3>2. diagnostics' = list
      BY <1>1
    <3> HIDE DEF list
    <3> QED BY <2>5, <3>1, <3>2 DEF m
  <2>7. Faults(diagnostics) = {k \in 1..m : diagnostics[k].code \in Delimiting}
    BY DEF Faults, m
  <2>8. Faults(diagnostics') = {k \in 1..(m + h) : diagnostics'[k].code \in Delimiting}
    BY <2>6 DEF Faults
  <2>9. \A d \in FaultSet(diagnostics') : d \in FaultSet(diagnostics) \/ d \in more
    <3> SUFFICES ASSUME NEW k \in Faults(diagnostics')
                 PROVE  diagnostics'[k] \in FaultSet(diagnostics) \/ diagnostics'[k] \in more
      BY DEF FaultSet
    <3>1. k \in 1..(m + h) /\ diagnostics'[k].code \in Delimiting
      BY <2>8
    <3>2. CASE k \in 1..m
      BY <2>6, <2>7, <3>1, <3>2 DEF FaultSet
    <3>3. CASE k - m \in 1..h /\ diagnostics'[k] = Unclosed[k - m]
      BY <2>1, <2>4, <3>3 DEF Held
    <3> QED BY <2>6, <3>1, <3>2, <3>3
  <2>10. FaultSet(diagnostics) \subseteq FaultSet(diagnostics')
    <3>1. \A k \in Faults(diagnostics) : k \in Faults(diagnostics') /\ diagnostics'[k] = diagnostics[k]
      <4>1. \A k \in 1..m : k \in 1..(m + h)
        BY <2>1
      <4> QED BY <2>6, <2>7, <2>8, <4>1
    <3> QED BY <3>1 DEF FaultSet
  <2>11. more \subseteq FaultSet(diagnostics')
    <3> SUFFICES ASSUME NEW k \in 1..h
                 PROVE  AtToken("UnclosedDelimiter", stack[k], NoLabel) \in FaultSet(diagnostics')
      BY <2>1 DEF Held
    <3>1. m + k \in 1..(m + h)
      BY <2>1
    <3>2. m + k \in Faults(diagnostics')
      BY <2>4, <2>6, <2>8, <3>1 DEF Delimiting
    <3> QED BY <2>4, <2>6, <3>2 DEF FaultSet
  <2> QED BY <2>9, <2>10, <2>11
<1>7. OutOfPlace(closer) = FaultSet(diagnostics')
  <2>1. {o \in Open : closer[o] = NoLabel} = Held
    BY <1>2, <1>5
  <2>2. OutOfPlace(closer) = Misplaced(closer, Shut) \cup more
    BY <2>1 DEF OutOfPlace, Misplaced, Mistaken, Unmet
  <2> QED BY <1>3, <1>4, <1>6, <2>2
<1>8. Meets(closer)
  BY <1>3, <1>4 DEF Meets, MetSoFar
<1>9. Open' = Open /\ Shut' = Shut
  BY <1>1 DEF Open, Shut
<1>10. Meets(closer)' /\ OutOfPlace(closer)' = OutOfPlace(closer)
  <2>1. Meets(closer)'
    BY <1>8, <1>9 DEF Meets, Inside
  <2> QED BY <1>1, <1>9, <2>1 DEF OutOfPlace
<1>11. {diagnostics[k] : k \in Reported("MismatchedDelimiter") \cup Reported("UnclosedDelimiter")}'
         = FaultSet(diagnostics')
  <2>1. diagnostics' \in Seq(Within(n))
    BY <1>1, ReportUnclosedKeeps DEF DiagnosticsInv, ListInv, Collecting, n
  <2>2. DOMAIN diagnostics' = 1..Len(diagnostics')
    BY <2>1
  <2> QED BY <2>2 DEF Reported, FaultSet, Faults, Delimiting
<1>12. closer \in [Open' -> Shut' \cup {NoLabel}]
  BY <1>3, <1>4, <1>9
<1>13. FaultsReported'
  BY <1>7, <1>10, <1>11, <1>12 DEF FaultsReported
<1> QED BY <1>1, <1>13 DEF MeetingInv

(* Outside the scan nothing is claimed.                                    *)
LEMMA MeetingElsewhere ==
    ASSUME DiagnosticsInv, Lex \/ ParseAccepts \/ Normalize \/ Strict
    PROVE  MeetingInv'
<1>1. pc' # "Delimiters" /\ (pc' = "Normalize" => accepted')
  <2>1. CASE ParseAccepts
    BY <2>1 DEF DiagnosticsInv, ListInv, ParseAccepts, NeedsScan
  <2> QED BY <2>1 DEF Lex, Normalize, Strict
<1> QED BY <1>1 DEF MeetingInv, FaultsReported

(* Nor does a step that changes nothing.                                   *)
LEMMA MeetingStutters == ASSUME MeetingInv, UNCHANGED vars PROVE MeetingInv'
<1>1. UNCHANGED <<tokens, pc, accepted, diagnostics, cursor, stack>>
  BY DEF vars
<1>2. CASE pc = "Delimiters"
  <2>1. Read' = Read /\ Held' = Held
    BY <1>1 DEF Read, Shut, Held
  <2> QED BY <1>1, <1>2, <2>1, MeetingMoves
<1>3. CASE pc # "Delimiters"
  <2>1. FaultsReported'
    <3>1. Open' = Open /\ Shut' = Shut
      BY <1>1 DEF Open, Shut
    <3>2. \A closer : Meets(closer)' <=> Meets(closer)
      BY <1>1, <3>1 DEF Meets, Inside
    <3>3. \A closer : OutOfPlace(closer)' = OutOfPlace(closer)
      BY <1>1, <3>1 DEF OutOfPlace
    <3>4. FaultsReported
      BY DEF MeetingInv
    <3> QED BY <1>1, <3>1, <3>2, <3>3, <3>4 DEF FaultsReported, Reported
  <2> QED BY <1>1, <1>3, <2>1 DEF MeetingInv
<1> QED BY <1>2, <1>3

-----------------------------------------------------------------------------
(* The delimiter scan explains a refusal rightly.  It reports something    *)
(* exactly if the delimiters do not nest; what it reports is every closer  *)
(* that meets an opener of another kind or none, and every opener that     *)
(* meets no closer, and nothing else; and it names no delimiter twice.     *)
THEOREM DelimitersReportedRight == Spec => []DelimiterErrorsRight
<1>1. Init => MeetingInv
  BY DEF Init, MeetingInv, FaultsReported
<1>2. DiagnosticsInv /\ MeetingInv /\ [Next]_vars => MeetingInv'
  <2> SUFFICES ASSUME DiagnosticsInv, MeetingInv, [Next]_vars PROVE MeetingInv'
    OBVIOUS
  <2>1. CASE Lex \/ ParseAccepts \/ Normalize \/ Strict   BY <2>1, MeetingElsewhere
  <2>2. CASE ParseFails         BY <2>2, MeetingBegins
  <2>3. CASE PassToken          BY <2>3, MeetingPasses
  <2>4. CASE OpenDelimiter      BY <2>4, MeetingOpens
  <2>5. CASE CloseDelimiter     BY <2>5, MeetingCloses
  <2>6. CASE ReportUnclosed     BY <2>6, MeetingEnds
  <2>7. CASE UNCHANGED vars     BY <2>7, MeetingStutters
  <2> QED BY <2>1, <2>2, <2>3, <2>4, <2>5, <2>6, <2>7 DEF Next, Returned
<1>3. DiagnosticsInv /\ MeetingInv => DelimiterErrorsRight
  BY ReportedOnce DEF DiagnosticsInv, MeetingInv, DelimiterErrorsRight
<1> QED BY <1>1, <1>2, <1>3, DiagnosticsInvariant, PTL DEF Spec

(* The list of normalize_diagnostics is in strict source order and no      *)
(* longer than the cap, and the marker stands at its end and only if it is *)
(* full.                                                                   *)
THEOREM ReportsInOrder == Spec => []ReportOrderedAndCapped
<1>1. DiagnosticsInv => ReportOrderedAndCapped
  <2> SUFFICES ASSUME DiagnosticsInv, pc \in {"Recovered", "Done"} PROVE
          /\ Len(diagnostics) <= MaxDiagnostics
          /\ \A k \in 2..Len(diagnostics) : Before(diagnostics[k - 1], diagnostics[k])
          /\ \A k \in Reported("TooManyErrors") : k = Len(diagnostics) /\ k = MaxDiagnostics
    BY DEF ReportOrderedAndCapped
  <2>1. /\ diagnostics \in Seq(Known) /\ StrictlyOrdered(diagnostics)
        /\ Len(diagnostics) <= MaxDiagnostics
        /\ \A k \in 1..Len(diagnostics) :
             diagnostics[k].code = "TooManyErrors" => k = Len(diagnostics) /\ k = MaxDiagnostics
    BY DEF DiagnosticsInv, ListInv, Reporting
  <2>2. DOMAIN diagnostics = 1..Len(diagnostics) /\ Len(diagnostics) \in Nat
    BY <2>1
  <2>3. \A k \in 2..Len(diagnostics) :
          k - 1 \in 1..Len(diagnostics) /\ k \in 1..Len(diagnostics) /\ k - 1 < k
    BY <2>2
  <2> QED BY <2>1, <2>2, <2>3 DEF StrictlyOrdered, Reported
<1> QED BY <1>1, DiagnosticsInvariant, PTL

(* parse refuses with the very list parse_recovering returns, and refuses  *)
(* exactly what its parser did not accept.                                 *)
THEOREM EntryPointsReportAlike == Spec => []EntryPointsAgree
<1>1. DiagnosticsInv => EntryPointsAgree
  BY DEF DiagnosticsInv, ListInv, Early, EntryPointsAgree, StrictAgrees, RefusedOnlyForCause
<1> QED BY <1>1, DiagnosticsInvariant, PTL

(* What normalize_diagnostics drops lies behind everything it keeps.       *)
THEOREM EarliestAreKept == Spec => EarliestKept
<1> DEFINE Keeps ==
        pc = "Normalize" =>
          \A k \in DOMAIN diagnostics :
            \/ \E j \in DOMAIN diagnostics' : SameKey(diagnostics'[j], diagnostics[k])
            \/ \A j \in 1..(Len(diagnostics') - 1) : Before(diagnostics'[j], diagnostics[k])
<1>1. DiagnosticsInv /\ Next => Keeps
  <2> SUFFICES ASSUME DiagnosticsInv, Next, pc = "Normalize"
               PROVE  \A k \in DOMAIN diagnostics :
            \/ \E j \in DOMAIN diagnostics' : SameKey(diagnostics'[j], diagnostics[k])
            \/ \A j \in 1..(Len(diagnostics') - 1) : Before(diagnostics'[j], diagnostics[k])
    OBVIOUS
  <2>1. tokens \in Seq(TokenClass) /\ diagnostics \in Seq(Within(Len(tokens)))
    BY DEF DiagnosticsInv, ListInv, Collecting
  <2>2. Normalize
    BY DEF Next, Lex, ParseAccepts, ParseFails, PassToken, OpenDelimiter, CloseDelimiter,
           ReportUnclosed, Strict, Returned
  <2>3. /\ diagnostics' \in Seq(Known)
        /\ \A k \in 1..Len(diagnostics) :
             \/ \E j \in 1..Len(diagnostics') : SameKey(diagnostics'[j], diagnostics[k])
             \/ \A j \in 1..(Len(diagnostics') - 1) : Before(diagnostics'[j], diagnostics[k])
    BY <2>1, <2>2, NormalizedWell DEF Normalize
  <2>4. DOMAIN diagnostics = 1..Len(diagnostics) /\ DOMAIN diagnostics' = 1..Len(diagnostics')
    BY <2>1, <2>3
  <2> QED BY <2>3, <2>4
<1>2. DiagnosticsInv /\ [Next]_vars => [Keeps]_vars
  BY <1>1
<1> QED BY <1>2, DiagnosticsInvariant, PTL DEF Spec, EarliestKept

-----------------------------------------------------------------------------
(* The snippet: extremes of sets of numbers.                                *)

(* A nonempty set of natural numbers has the minimum Min picks.             *)
LEMMA MinIsLeast ==
    ASSUME NEW S, S \subseteq Nat, S # {}
    PROVE  Min(S) \in S /\ \A x \in S : Min(S) <= x
<1> DEFINE R == {xy \in Nat \X Nat : xy[1] < xy[2]}
<1>1. IsWellFoundedOn(R, Nat)
  BY NatLessThanWellFounded DEF OpToRel
<1>2. \A x, y \in Nat : x < y => <<x, y>> \in R
  OBVIOUS
<1> HIDE DEF R
<1>3. PICK m \in S : \A y \in S : ~(<<y, m>> \in R)
  BY <1>1, WFMin
<1>4. \A y \in S : m <= y
  <2> SUFFICES ASSUME NEW y \in S PROVE ~(y < m)
    OBVIOUS
  <2> QED BY <1>2, <1>3
<1>5. \E x \in S : \A y \in S : x <= y
  BY <1>4
<1> QED BY <1>5, Zenon DEF Min

(* A nonempty set of numbers that is bounded has the maximum Max picks.     *)
LEMMA MaxIsGreatest ==
    ASSUME NEW S, NEW b \in Int, \A x \in S : x \in Int /\ x <= b, S # {}
    PROVE  Max(S) \in S /\ \A x \in S : Max(S) >= x
<1> DEFINE T == {b - x : x \in S}
<1>1. T \subseteq Nat /\ T # {}
  <2>1. \A x \in S : b - x \in Nat
    OBVIOUS
  <2> QED BY <2>1
<1> HIDE DEF T
<1>2. Min(T) \in T /\ \A x \in T : Min(T) <= x
  BY <1>1, MinIsLeast
<1>3. PICK m \in S : Min(T) = b - m
  BY <1>2 DEF T
<1>4. \A x \in S : m >= x
  <2> SUFFICES ASSUME NEW x \in S PROVE m >= x
    OBVIOUS
  <2>1. b - x \in T
    BY DEF T
  <2> QED BY <2>1, <1>2, <1>3
<1>5. \E x \in S : \A y \in S : x >= y
  BY <1>4
<1> QED BY <1>5, Zenon DEF Max

(* What holds of a number and of each up to a bound whose predecessor it    *)
(* holds of holds of all of them.                                           *)
LEMMA Upwards ==
    ASSUME NEW a \in Nat, NEW b \in Nat, NEW P, a \in P,
           \A i \in (a + 1)..b : i - 1 \in P => i \in P
    PROVE  \A i \in a..b : i \in P
<1> DEFINE S == {i \in a..b : i \notin P}
<1> SUFFICES ASSUME S # {} PROVE FALSE
  OBVIOUS
<1>1. S \subseteq Nat
  OBVIOUS
<1>2. Min(S) \in S /\ \A x \in S : Min(S) <= x
  <2> HIDE DEF S
  <2> QED BY <1>1, MinIsLeast
<1> DEFINE i == Min(S)
<1>3. i \in a..b /\ i \notin P /\ \A x \in S : i <= x
  <2> HIDE DEF i
  <2> QED BY <1>2 DEF i
<1> HIDE DEF i
<1>4. i \in (a + 1)..b /\ i - 1 \in a..b
  BY <1>3
<1>5. i - 1 \notin S
  <2> HIDE DEF S
  <2> QED BY <1>3, <1>4
<1> QED BY <1>3, <1>4, <1>5

-----------------------------------------------------------------------------
(* The snippet: columns.                                                    *)

\* The column after byte o of a text that stands at before.
Past(o, before) ==
    CASE source[o] = "Tab" -> before + TabWidth - (before % TabWidth)
      [] source[o] = "Cont" -> before
      [] OTHER -> before + 1

\* f gives the columns of the bytes from..to.
Columns(f, from, to) ==
    f = [o \in from..to |-> IF o = from THEN 0 ELSE Past(o, f[o - 1])]

ColumnsOf(from, to) == CHOOSE f : Columns(f, from, to)

LEMMA WidthIsColumn == ASSUME NEW from, NEW to PROVE DisplayWidth(from, to) = ColumnsOf(from, to)[to]
BY DEF DisplayWidth, ColumnsOf, Columns, Past

LEMMA PastIs ==
    ASSUME NEW o, NEW before \in Nat
    PROVE  /\ Past(o, before) \in Nat /\ Past(o, before) >= before
           /\ source[o] = "Cont" => Past(o, before) = before
           /\ source[o] # "Cont" => Past(o, before) > before
           /\ source[o] = "Tab" => Past(o, before) = before + TabWidth - (before % TabWidth)
           /\ source[o] \notin {"Tab", "Cont"} => Past(o, before) = before + 1
<1>1. before % TabWidth \in 0..(TabWidth - 1) /\ TabWidth \in Nat
  BY WidthAssumption
<1>2. before + TabWidth - (before % TabWidth) \in Nat /\ before + TabWidth - (before % TabWidth) > before
  BY <1>1
<1>3. CASE source[o] = "Tab"
  BY <1>2, <1>3 DEF Past
<1>4. CASE source[o] = "Cont"
  BY <1>4 DEF Past
<1>5. CASE source[o] \notin {"Tab", "Cont"}
  BY <1>5 DEF Past
<1> QED BY <1>3, <1>4, <1>5

(* There are such columns.                                                  *)
LEMMA ColumnsExist ==
    ASSUME NEW from \in Nat, NEW to \in Nat, from <= to
    PROVE  Columns(ColumnsOf(from, to), from, to)
<1> DEFINE P == {k \in Nat : \E f : Columns(f, from, k)}
<1>1. from \in P
  <2> DEFINE f == [o \in from..from |-> 0]
  <2>1. [o \in from..from |-> IF o = from THEN 0 ELSE Past(o, f[o - 1])] = f
    OBVIOUS
  <2>2. Columns(f, from, from)
    BY <2>1 DEF Columns
  <2> QED BY <2>2
<1>2. ASSUME NEW k \in (from + 1)..to, k - 1 \in P PROVE k \in P
  <2>1. PICK f : Columns(f, from, k - 1)
    BY <1>2
  <2> DEFINE g == [o \in from..k |-> IF o = k THEN Past(k, f[k - 1]) ELSE f[o]]
  <2>2. \A o \in from..(k - 1) : f[o] = IF o = from THEN 0 ELSE Past(o, f[o - 1])
    BY <2>1 DEF Columns
  <2>3. \A o \in from..k : g[o] = IF o = from THEN 0 ELSE Past(o, g[o - 1])
    <3> SUFFICES ASSUME NEW o \in from..k PROVE g[o] = IF o = from THEN 0 ELSE Past(o, g[o - 1])
      OBVIOUS
    <3>1. CASE o = k
      <4>1. o # from /\ o - 1 \in from..k /\ o - 1 # k
        BY <3>1
      <4>2. g[o - 1] = f[k - 1] /\ g[o] = Past(k, f[k - 1])
        BY <3>1, <4>1
      <4> QED BY <3>1, <4>1, <4>2
    <3>2. CASE o # k
      <4>1. o \in from..(k - 1) /\ g[o] = f[o]
        BY <3>2
      <4>2. o # from => o - 1 \in from..k /\ o - 1 # k
        BY <3>2
      <4>3. o # from => g[o - 1] = f[o - 1]
        BY <4>2
      <4> HIDE DEF g
      <4> QED BY <4>1, <4>3, <2>2
    <3> QED BY <3>1, <3>2
  <2>4. g = [o \in from..k |-> g[o]]
    OBVIOUS
  <2> HIDE DEF g
  <2>5. Columns(g, from, k)
    <3>1. [o \in from..k |-> g[o]] = [o \in from..k |-> IF o = from THEN 0 ELSE Past(o, g[o - 1])]
      BY <2>3
    <3> QED BY <2>4, <3>1 DEF Columns
  <2> QED BY <2>5
<1>3. to \in P
  <2>1. \A i \in (from + 1)..to : i - 1 \in P => i \in P
    BY <1>2
  <2> HIDE DEF P
  <2>2. \A i \in from..to : i \in P
    BY <1>1, <2>1, Upwards
  <2> QED BY <2>2
<1>4. \E f : Columns(f, from, to)
  BY <1>3
<1> QED BY <1>4 DEF ColumnsOf

(* The width of a piece of a line follows from that of the piece without    *)
(* its last byte.                                                           *)
LEMMA WidthIs ==
    ASSUME NEW from \in Nat, NEW to \in Nat, from <= to
    PROVE  DisplayWidth(from, to) = IF to = from THEN 0 ELSE Past(to, DisplayWidth(from, to - 1))
<1> DEFINE f == ColumnsOf(from, to)
           g == ColumnsOf(from, to - 1)
<1>1. \A o \in from..to : f[o] = IF o = from THEN 0 ELSE Past(o, f[o - 1])
  BY ColumnsExist DEF Columns
<1>2. DisplayWidth(from, to) = f[to] /\ DisplayWidth(from, to - 1) = g[to - 1]
  BY WidthIsColumn
<1>3. CASE to = from
  BY <1>1, <1>2, <1>3
<1>4. CASE to # from
  <2>0. to - 1 \in Nat /\ from <= to - 1
    BY <1>4
  <2>1. \A o \in from..(to - 1) : g[o] = IF o = from THEN 0 ELSE Past(o, g[o - 1])
    BY <2>0, ColumnsExist DEF Columns
  <2> DEFINE P == {o \in Nat : f[o] = g[o]}
  <2> HIDE DEF f, g
  <2>2. from \in P
    <3>1. from \in from..to /\ from \in from..(to - 1)
      BY <2>0
    <3> QED BY <3>1, <1>1, <2>1
  <2>3. \A i \in (from + 1)..(to - 1) : i - 1 \in P => i \in P
    <3> SUFFICES ASSUME NEW i \in (from + 1)..(to - 1), f[i - 1] = g[i - 1] PROVE f[i] = g[i]
      OBVIOUS
    <3>1. i \in from..to /\ i \in from..(to - 1) /\ i # from
      BY <2>0
    <3> QED BY <3>1, <1>1, <2>1
  <2>4. to - 1 \in P
    <3> HIDE DEF P
    <3>1. \A i \in from..(to - 1) : i \in P
      BY <2>0, <2>2, <2>3, Upwards
    <3> QED BY <3>1, <2>0
  <2> QED BY <1>1, <1>2, <1>4, <2>4
<1> QED BY <1>3, <1>4

(* Widths are numbers that grow with the piece.                             *)
LEMMA WidthGrows ==
    ASSUME NEW from \in Nat, NEW to \in Nat, from <= to
    PROVE  /\ DisplayWidth(from, to) \in Nat
           /\ \A o \in from..to : DisplayWidth(from, o) <= DisplayWidth(from, to)
<1> DEFINE D(o) == DisplayWidth(from, o)
<1>1. D(from) = 0 /\ \A o \in (from + 1)..to : D(o) = Past(o, D(o - 1))
  <2>1. \A o \in (from + 1)..to : o \in Nat /\ from <= o /\ o # from
    OBVIOUS
  <2> QED BY <2>1, WidthIs
<1> HIDE DEF D
<1>2. \A o \in from..to : D(o) \in Nat
  <2> DEFINE P == {o \in Nat : D(o) \in Nat}
  <2>1. from \in P /\ \A i \in (from + 1)..to : i - 1 \in P => i \in P
    BY <1>1, PastIs
  <2> HIDE DEF P
  <2>2. \A i \in from..to : i \in P
    BY <2>1, Upwards
  <2> QED BY <2>2 DEF P
<1>3. \A o \in from..to : D(o) <= D(to)
  <2> SUFFICES ASSUME NEW o \in from..to PROVE D(o) <= D(to)
    OBVIOUS
  <2> DEFINE P == {x \in Nat : D(o) <= D(x)}
  <2>1. o \in P /\ o \in Nat /\ o <= to
    BY <1>2
  <2>2. \A i \in (o + 1)..to : i - 1 \in P => i \in P
    <3> SUFFICES ASSUME NEW i \in (o + 1)..to, D(o) <= D(i - 1) PROVE i \in Nat /\ D(o) <= D(i)
      OBVIOUS
    <3>1. i - 1 \in from..to /\ i \in (from + 1)..to /\ i \in from..to
      OBVIOUS
    <3>2. D(i - 1) \in Nat /\ D(i) \in Nat /\ D(o) \in Nat /\ D(i) = Past(i, D(i - 1))
      BY <3>1, <1>1, <1>2
    <3>3. Past(i, D(i - 1)) >= D(i - 1)
      BY <3>2, PastIs
    <3> QED BY <3>2, <3>3
  <2> HIDE DEF P
  <2>3. \A i \in o..to : i \in P
    BY <2>1, <2>2, Upwards
  <2>4. to \in P
    BY <2>1, <2>3
  <2> QED BY <2>4 DEF P
<1> QED BY <1>2, <1>3 DEF D

\* The text with the cells of byte o, when its line stands at before.
Shown(o, before) ==
    LET width == CASE source[o] = "Tab" -> TabWidth - (Len(before) % TabWidth)
                   [] source[o] = "Cont" -> 0
                   [] OTHER -> 1
    IN  before \o [c \in 1..width |-> o]

\* f gives the texts of the pieces that begin at from and end at from..to.
Texts(f, from, to) ==
    f = [o \in from..to |-> IF o = from THEN <<>> ELSE Shown(o, f[o - 1])]

TextsOf(from, to) == CHOOSE f : Texts(f, from, to)

LEMMA ExpandIsText == ASSUME NEW from, NEW to PROVE ExpandTabs(from, to) = TextsOf(from, to)[to]
BY DEF ExpandTabs, TextsOf, Texts, Shown

(* There are such texts.                                                    *)
LEMMA TextsExist ==
    ASSUME NEW from \in Nat, NEW to \in Nat, from <= to
    PROVE  Texts(TextsOf(from, to), from, to)
<1> DEFINE P == {k \in Nat : \E f : Texts(f, from, k)}
<1>1. from \in P
  <2> DEFINE f == [o \in from..from |-> <<>>]
  <2>1. [o \in from..from |-> IF o = from THEN <<>> ELSE Shown(o, f[o - 1])] = f
    OBVIOUS
  <2>2. Texts(f, from, from)
    BY <2>1 DEF Texts
  <2> QED BY <2>2
<1>2. ASSUME NEW k \in (from + 1)..to, k - 1 \in P PROVE k \in P
  <2>1. PICK f : Texts(f, from, k - 1)
    BY <1>2
  <2> DEFINE g == [o \in from..k |-> IF o = k THEN Shown(k, f[k - 1]) ELSE f[o]]
  <2>2. \A o \in from..(k - 1) : f[o] = IF o = from THEN <<>> ELSE Shown(o, f[o - 1])
    BY <2>1 DEF Texts
  <2>3. \A o \in from..k : g[o] = IF o = from THEN <<>> ELSE Shown(o, g[o - 1])
    <3> SUFFICES ASSUME NEW o \in from..k PROVE g[o] = IF o = from THEN <<>> ELSE Shown(o, g[o - 1])
      OBVIOUS
    <3>1. CASE o = k
      <4>1. o # from /\ o - 1 \in from..k /\ o - 1 # k
        BY <3>1
      <4>2. g[o - 1] = f[k - 1] /\ g[o] = Shown(k, f[k - 1])
        BY <3>1, <4>1
      <4> QED BY <3>1, <4>1, <4>2
    <3>2. CASE o # k
      <4>1. o \in from..(k - 1) /\ g[o] = f[o]
        BY <3>2
      <4>2. o # from => o - 1 \in from..k /\ o - 1 # k
        BY <3>2
      <4>3. o # from => g[o - 1] = f[o - 1]
        BY <4>2
      <4> HIDE DEF g
      <4> QED BY <4>1, <4>3, <2>2
    <3> QED BY <3>1, <3>2
  <2>4. g = [o \in from..k |-> g[o]]
    OBVIOUS
  <2> HIDE DEF g
  <2>5. Texts(g, from, k)
    <3>1. [o \in from..k |-> g[o]] = [o \in from..k |-> IF o = from THEN <<>> ELSE Shown(o, g[o - 1])]
      BY <2>3
    <3> QED BY <2>4, <3>1 DEF Texts
  <2> QED BY <2>5
<1>3. to \in P
  <2>1. \A i \in (from + 1)..to : i - 1 \in P => i \in P
    BY <1>2
  <2> HIDE DEF P
  <2>2. \A i \in from..to : i \in P
    BY <1>1, <2>1, Upwards
  <2> QED BY <2>2
<1>4. \E f : Texts(f, from, to)
  BY <1>3
<1> QED BY <1>4 DEF TextsOf

(* The text of a piece is that of the piece without its last byte and the   *)
(* cells of that byte.                                                      *)
LEMMA TextIs ==
    ASSUME NEW from \in Nat, NEW to \in Nat, from <= to
    PROVE  ExpandTabs(from, to) = IF to = from THEN <<>> ELSE Shown(to, ExpandTabs(from, to - 1))
<1> DEFINE f == TextsOf(from, to)
           g == TextsOf(from, to - 1)
<1>1. \A o \in from..to : f[o] = IF o = from THEN <<>> ELSE Shown(o, f[o - 1])
  BY TextsExist DEF Texts
<1>2. ExpandTabs(from, to) = f[to] /\ ExpandTabs(from, to - 1) = g[to - 1]
  BY ExpandIsText
<1>3. CASE to = from
  BY <1>1, <1>2, <1>3
<1>4. CASE to # from
  <2>0. to - 1 \in Nat /\ from <= to - 1
    BY <1>4
  <2>1. \A o \in from..(to - 1) : g[o] = IF o = from THEN <<>> ELSE Shown(o, g[o - 1])
    BY <2>0, TextsExist DEF Texts
  <2> DEFINE P == {o \in Nat : f[o] = g[o]}
  <2> HIDE DEF f, g
  <2>2. from \in P
    <3>1. from \in from..to /\ from \in from..(to - 1)
      BY <2>0
    <3> QED BY <3>1, <1>1, <2>1
  <2>3. \A i \in (from + 1)..(to - 1) : i - 1 \in P => i \in P
    <3> SUFFICES ASSUME NEW i \in (from + 1)..(to - 1), f[i - 1] = g[i - 1] PROVE f[i] = g[i]
      OBVIOUS
    <3>1. i \in from..to /\ i \in from..(to - 1) /\ i # from
      BY <2>0
    <3> QED BY <3>1, <1>1, <2>1
  <2>4. to - 1 \in P
    <3> HIDE DEF P
    <3>1. \A i \in from..(to - 1) : i \in P
      BY <2>0, <2>2, <2>3, Upwards
    <3> QED BY <3>1, <2>0
  <2> QED BY <1>1, <1>2, <1>4, <2>4
<1> QED BY <1>3, <1>4

(* A text with as many cells as its line has columns stays so.              *)
LEMMA ShownIs ==
    ASSUME NEW o \in Nat, NEW T, NEW before \in Seq(T)
    PROVE  /\ Shown(o, before) \in Seq(T \cup {o})
           /\ Len(Shown(o, before)) = Past(o, Len(before))
           /\ \A c \in 1..Len(before) : Shown(o, before)[c] = before[c]
           /\ \A c \in (Len(before) + 1)..Len(Shown(o, before)) : Shown(o, before)[c] = o
<1> DEFINE width == CASE source[o] = "Tab" -> TabWidth - (Len(before) % TabWidth)
                      [] source[o] = "Cont" -> 0
                      [] OTHER -> 1
           more == [c \in 1..width |-> o]
<1>1. Len(before) \in Nat /\ Len(before) % TabWidth \in 0..(TabWidth - 1) /\ TabWidth \in Nat
  BY WidthAssumption
<1>2. width \in Nat /\ Past(o, Len(before)) = Len(before) + width
  <2>1. CASE source[o] = "Tab"
    BY <1>1, <2>1 DEF Past
  <2>2. CASE source[o] = "Cont"
    BY <1>1, <2>2 DEF Past
  <2>3. CASE source[o] \notin {"Tab", "Cont"}
    BY <1>1, <2>3 DEF Past
  <2> QED BY <2>1, <2>2, <2>3
<1>3. Shown(o, before) = before \o more
  BY DEF Shown
<1> HIDE DEF width
<1>4. more \in Seq(T \cup {o}) /\ Len(more) = width /\ \A c \in 1..width : more[c] = o
  <2>1. more \in [1..width -> T \cup {o}]
    OBVIOUS
  <2> QED BY <1>2, <2>1
<1>5. before \in Seq(T \cup {o})
  OBVIOUS
<1> HIDE DEF more
<1>6. /\ before \o more \in Seq(T \cup {o})
      /\ Len(before \o more) = Len(before) + width
      /\ \A c \in 1..Len(before) : (before \o more)[c] = before[c]
      /\ \A c \in (Len(before) + 1)..(Len(before) + width) :
            c - Len(before) \in 1..width /\ (before \o more)[c] = more[c - Len(before)]
  BY <1>1, <1>2, <1>4, <1>5
<1> QED BY <1>2, <1>3, <1>4, <1>6

(* The printed text has the columns the width counts, and in it the bytes   *)
(* up to any offset fill the columns of the piece up to there.              *)
LEMMA TextFills ==
    ASSUME NEW from \in Nat, NEW to \in Nat, from <= to
    PROVE  /\ ExpandTabs(from, to) \in Seq((from + 1)..to)
           /\ Len(ExpandTabs(from, to)) = DisplayWidth(from, to)
           /\ \A o \in from..to, c \in 1..DisplayWidth(from, to) :
                ExpandTabs(from, to)[c] <= o <=> c <= DisplayWidth(from, o)
<1> DEFINE D(o) == DisplayWidth(from, o)
           E(o) == ExpandTabs(from, o)
           P == {k \in Nat : /\ E(k) \in Seq((from + 1)..k)
                             /\ Len(E(k)) = D(k)
                             /\ \A o \in from..k, c \in 1..D(k) : E(k)[c] <= o <=> c <= D(o)}
<1>1. D(from) = 0 /\ \A o \in (from + 1)..to : D(o) = Past(o, D(o - 1))
  <2>1. \A o \in (from + 1)..to : o \in Nat /\ from <= o /\ o # from
    OBVIOUS
  <2> QED BY <2>1, WidthIs
<1>2. E(from) = <<>> /\ \A o \in (from + 1)..to : E(o) = Shown(o, E(o - 1))
  <2>1. \A o \in (from + 1)..to : o \in Nat /\ from <= o /\ o # from
    OBVIOUS
  <2> QED BY <2>1, TextIs
<1>3. \A k \in from..to : D(k) \in Nat /\ \A o \in from..k : D(o) <= D(k)
  <2> SUFFICES ASSUME NEW k \in from..to PROVE D(k) \in Nat /\ \A o \in from..k : D(o) <= D(k)
    OBVIOUS
  <2>1. k \in Nat /\ from <= k
    OBVIOUS
  <2> QED BY <2>1, WidthGrows
<1> HIDE DEF D, E
<1>4. from \in P
  <2>1. E(from) \in Seq((from + 1)..from) /\ Len(E(from)) = 0 /\ D(from) = 0
    BY <1>1, <1>2
  <2> QED BY <2>1
<1>5. ASSUME NEW k \in (from + 1)..to, k - 1 \in P PROVE k \in P
  <2>1. /\ k \in Nat /\ k - 1 \in from..to /\ k \in from..to
        /\ \A o \in from..k : o = k \/ o \in from..(k - 1)
        /\ k - 1 \in from..(k - 1)
    OBVIOUS
  <2>2. /\ E(k - 1) \in Seq((from + 1)..(k - 1)) /\ Len(E(k - 1)) = D(k - 1)
        /\ \A o \in from..(k - 1), c \in 1..D(k - 1) : E(k - 1)[c] <= o <=> c <= D(o)
    BY <1>5
  <2>3. /\ E(k) \in Seq(((from + 1)..(k - 1)) \cup {k})
        /\ Len(E(k)) = D(k)
        /\ \A c \in 1..D(k - 1) : E(k)[c] = E(k - 1)[c]
        /\ \A c \in (D(k - 1) + 1)..D(k) : E(k)[c] = k
    <3> DEFINE before == E(k - 1)
               S == (from + 1)..(k - 1)
    <3>1. E(k) = Shown(k, before) /\ D(k) = Past(k, Len(before)) /\ Len(before) = D(k - 1)
          /\ before \in Seq(S)
      BY <1>1, <1>2, <2>2
    <3> HIDE DEF before, S
    <3>2. /\ Shown(k, before) \in Seq(S \cup {k})
          /\ Len(Shown(k, before)) = Past(k, Len(before))
          /\ \A c \in 1..Len(before) : Shown(k, before)[c] = before[c]
          /\ \A c \in (Len(before) + 1)..Len(Shown(k, before)) : Shown(k, before)[c] = k
      BY <2>1, <3>1, ShownIs
    <3> QED BY <3>1, <3>2 DEF before, S
  <2>4. ((from + 1)..(k - 1)) \cup {k} = (from + 1)..k
    OBVIOUS
  <2>5. D(k - 1) \in Nat /\ D(k) \in Nat /\ \A o \in from..(k - 1) : D(o) \in Nat /\ D(o) <= D(k - 1)
    BY <1>3, <2>1
  <2>6. ASSUME NEW o \in from..k, NEW c \in 1..D(k) PROVE E(k)[c] <= o <=> c <= D(o)
    <3>1. CASE o = k
      <4>1. E(k)[c] \in (from + 1)..k
        BY <2>3, <2>4
      <4> QED BY <3>1, <4>1, <2>5
    <3>2. CASE o \in from..(k - 1)
      <4>1. CASE c \in 1..D(k - 1)
        BY <2>2, <2>3, <3>2, <4>1
      <4>2. CASE c \in (D(k - 1) + 1)..D(k)
        <5>1. E(k)[c] = k /\ o < k /\ D(o) <= D(k - 1) /\ D(o) \in Nat
          BY <2>3, <2>5, <3>2, <4>2
        <5> QED BY <2>5, <4>2, <5>1
      <4> QED BY <2>5, <4>1, <4>2
    <3> QED BY <2>1, <3>1, <3>2
  <2> QED BY <2>1, <2>3, <2>4, <2>6
<1>6. to \in P
  <2>1. \A i \in (from + 1)..to : i - 1 \in P => i \in P
    BY <1>5
  <2> HIDE DEF P
  <2>2. \A i \in from..to : i \in P
    BY <1>4, <2>1, Upwards
  <2> QED BY <2>2
<1> QED BY <1>6 DEF D, E

-----------------------------------------------------------------------------
(* The snippet: tab stops.                                                  *)

LEMMA StopsDivide ==
    \A x \in Nat : /\ x = TabWidth * (x \div TabWidth) + (x % TabWidth)
                   /\ x \div TabWidth \in Nat /\ x % TabWidth \in 0..(TabWidth - 1)
BY WidthAssumption

LEMMA BehindStop == \A q, k \in Nat : k < TabWidth => (TabWidth * q + k) % TabWidth = k
BY WidthAssumption

LEMMA StopIsStop == \A x \in Nat : (x + TabWidth - (x % TabWidth)) % TabWidth = 0
BY WidthAssumption

(* How far the next column lies behind its stop.                            *)
LEMMA NextColumn ==
    ASSUME NEW x \in Nat
    PROVE  (x + 1) % TabWidth = IF x % TabWidth = TabWidth - 1 THEN 0 ELSE (x % TabWidth) + 1
<1> DEFINE q == x \div TabWidth
           k == x % TabWidth
<1>1. x = TabWidth * q + k /\ q \in Nat /\ k \in 0..(TabWidth - 1) /\ TabWidth \in Nat /\ TabWidth > 0
  BY StopsDivide, WidthAssumption
<1>2. TabWidth * (q + 1) = TabWidth * q + TabWidth /\ TabWidth * q \in Nat
  BY <1>1
<1> HIDE DEF q, k
<1>3. CASE k = TabWidth - 1
  <2>1. x + 1 = TabWidth * (q + 1) + 0
    BY <1>1, <1>2, <1>3
  <2>2. (TabWidth * (q + 1) + 0) % TabWidth = 0
    <3>1. q + 1 \in Nat /\ 0 \in Nat /\ 0 < TabWidth
      BY <1>1
    <3> QED BY <3>1, BehindStop
  <2> QED BY <2>1, <2>2, <1>3 DEF k
<1>4. CASE k # TabWidth - 1
  <2>1. x + 1 = TabWidth * q + (k + 1) /\ k + 1 \in Nat /\ k + 1 < TabWidth
    BY <1>1, <1>2, <1>4
  <2>2. (TabWidth * q + (k + 1)) % TabWidth = k + 1
    BY <2>1, <1>1, BehindStop
  <2> QED BY <2>1, <2>2, <1>4 DEF k
<1> QED BY <1>3, <1>4

(* A text that begins at a stop has its stops where its line has them.      *)
LEMMA FromStop ==
    ASSUME NEW s \in Nat, NEW d \in Nat, s % TabWidth = 0
    PROVE  (s + d) % TabWidth = d % TabWidth
<1> DEFINE p == s \div TabWidth
           q == d \div TabWidth
           k == d % TabWidth
<1>1. s = TabWidth * p /\ p \in Nat
  <2>1. s = TabWidth * p + (s % TabWidth) /\ p \in Nat /\ TabWidth \in Nat
    BY StopsDivide, WidthAssumption
  <2> HIDE DEF p
  <2>2. TabWidth * p \in Nat
    BY <2>1
  <2> QED BY <2>1, <2>2
<1>2. d = TabWidth * q + k /\ q \in Nat /\ k \in Nat /\ k < TabWidth /\ TabWidth \in Nat
  BY StopsDivide, WidthAssumption
<1> HIDE DEF p, q, k
<1>3. TabWidth * (p + q) = TabWidth * p + TabWidth * q /\ TabWidth * p \in Nat /\ TabWidth * q \in Nat
  BY <1>1, <1>2
<1>4. s + d = TabWidth * (p + q) + k
  BY <1>1, <1>2, <1>3
<1>5. (TabWidth * (p + q) + k) % TabWidth = k
  <2>1. p + q \in Nat
    BY <1>1, <1>2
  <2> QED BY <1>2, <2>1, BehindStop
<1> QED BY <1>4, <1>5 DEF k

(* A piece measured on its own is as wide as on its line, unless it has a   *)
(* tab and begins between stops: its first tab may then reach another stop, *)
(* and behind that tab the two go on in step.                               *)
LEMMA SlipIsSmall ==
    ASSUME NEW from \in Nat, NEW mid \in Nat, NEW to \in Nat, from <= mid, mid <= to
    PROVE  LET wide == DisplayWidth(from, to) - DisplayWidth(from, mid)
               alone == DisplayWidth(mid, to)
           IN  /\ wide - alone \in (1 - TabWidth)..(TabWidth - 1)
               /\ alone = 0 <=> wide = 0
               /\ wide # alone => /\ \E o \in (mid + 1)..to : source[o] = "Tab"
                                  /\ DisplayWidth(from, mid) % TabWidth # 0
<1> DEFINE s == DisplayWidth(from, mid)
           X(o) == DisplayWidth(from, o)
           M(o) == DisplayWidth(mid, o)
           tabs(k) == \E o \in (mid + 1)..k : source[o] = "Tab"
           P == {k \in Nat : /\ tabs(k) => X(k) % TabWidth = M(k) % TabWidth
                             /\ ~tabs(k) => X(k) = s + M(k)
                             /\ s % TabWidth = 0 => X(k) = s + M(k)
                             /\ X(k) - s - M(k) \in (1 - TabWidth)..(TabWidth - 1)
                             /\ M(k) = 0 <=> X(k) = s}
<1>1. M(mid) = 0 /\ \A o \in (mid + 1)..to : M(o) = Past(o, M(o - 1))
  <2>1. \A o \in (mid + 1)..to : o \in Nat /\ mid <= o /\ o # mid
    OBVIOUS
  <2> QED BY <2>1, WidthIs
<1>2. \A o \in (mid + 1)..to : X(o) = Past(o, X(o - 1))
  <2>1. \A o \in (mid + 1)..to : o \in Nat /\ from <= o /\ o # from
    OBVIOUS
  <2> QED BY <2>1, WidthIs
<1>3. \A k \in mid..to : X(k) \in Nat /\ M(k) \in Nat /\ s <= X(k)
  <2> SUFFICES ASSUME NEW k \in mid..to PROVE X(k) \in Nat /\ M(k) \in Nat /\ s <= X(k)
    OBVIOUS
  <2>1. k \in Nat /\ mid <= k /\ from <= k /\ mid \in from..k
    OBVIOUS
  <2> QED BY <2>1, WidthGrows
<1>4. X(mid) = s /\ s \in Nat /\ TabWidth \in Nat /\ TabWidth > 0
  BY <1>3, WidthAssumption
<1> HIDE DEF s, X, M
<1>5. mid \in P
  <2>1. ~tabs(mid)
    OBVIOUS
  <2> HIDE DEF tabs
  <2> QED BY <1>1, <1>4, <2>1
<1>6. ASSUME NEW k \in (mid + 1)..to, k - 1 \in P PROVE k \in P
  <2> DEFINE x == X(k - 1)
             m == M(k - 1)
  <2>1. x \in Nat /\ m \in Nat /\ s <= x /\ X(k) = Past(k, x) /\ M(k) = Past(k, m) /\ k \in Nat
    <3>1. k - 1 \in mid..to /\ k \in (mid + 1)..to
      OBVIOUS
    <3> QED BY <3>1, <1>1, <1>2, <1>3
  <2>2. tabs(k) <=> tabs(k - 1) \/ source[k] = "Tab"
    <3>1. \A o \in (mid + 1)..k : o = k \/ o \in (mid + 1)..(k - 1)
      OBVIOUS
    <3>2. k \in (mid + 1)..k /\ \A o \in (mid + 1)..(k - 1) : o \in (mid + 1)..k
      OBVIOUS
    <3> QED BY <3>1, <3>2
  <2>3. /\ tabs(k - 1) => x % TabWidth = m % TabWidth
        /\ ~tabs(k - 1) => x = s + m
        /\ s % TabWidth = 0 => x = s + m
        /\ x - s - m \in (1 - TabWidth)..(TabWidth - 1)
        /\ m = 0 <=> x = s
    BY <1>6
  <2> HIDE DEF x, m, tabs
  <2>4. CASE source[k] = "Cont"
    <3>1. X(k) = x /\ M(k) = m
      BY <2>1, <2>4, PastIs
    <3> QED BY <2>1, <2>2, <2>3, <2>4, <3>1
  <2>5. CASE source[k] \notin {"Tab", "Cont"}
    <3>1. X(k) = x + 1 /\ M(k) = m + 1
      BY <2>1, <2>5, PastIs
    <3>2. x % TabWidth = m % TabWidth => (x + 1) % TabWidth = (m + 1) % TabWidth
      BY <2>1, NextColumn
    <3> QED BY <1>4, <2>1, <2>2, <2>3, <2>5, <3>1, <3>2
  <2>6. CASE source[k] = "Tab"
    <3>1. X(k) = x + TabWidth - (x % TabWidth) /\ M(k) = m + TabWidth - (m % TabWidth)
      BY <2>1, <2>6, PastIs
    <3>2. x % TabWidth \in 0..(TabWidth - 1) /\ m % TabWidth \in 0..(TabWidth - 1)
      BY <2>1, StopsDivide
    <3>3. X(k) % TabWidth = 0 /\ M(k) % TabWidth = 0
      BY <2>1, <3>1, StopIsStop
    <3>4. s % TabWidth = 0 => X(k) = s + M(k)
      <4> SUFFICES ASSUME s % TabWidth = 0 PROVE X(k) = s + M(k)
        OBVIOUS
      <4>1. x = s + m /\ (s + m) % TabWidth = m % TabWidth
        BY <1>4, <2>1, <2>3, FromStop
      <4>2. x % TabWidth = m % TabWidth
        BY <4>1
      <4> QED BY <1>4, <2>1, <3>1, <3>2, <4>1, <4>2
    <3>5. X(k) - s - M(k) \in (1 - TabWidth)..(TabWidth - 1)
      <4>1. CASE tabs(k - 1)
        BY <1>4, <2>1, <2>3, <3>1, <3>2, <4>1
      <4>2. CASE ~tabs(k - 1)
        BY <1>4, <2>1, <2>3, <3>1, <3>2, <4>2
      <4> QED BY <4>1, <4>2
    <3>6. M(k) # 0 /\ X(k) # s
      BY <1>4, <2>1, <3>1, <3>2
    <3> QED BY <2>1, <2>2, <2>6, <3>3, <3>4, <3>5, <3>6
  <2> QED BY <2>4, <2>5, <2>6
<1>7. to \in P
  <2>1. \A i \in (mid + 1)..to : i - 1 \in P => i \in P
    BY <1>6
  <2> HIDE DEF P
  <2>2. \A i \in mid..to : i \in P
    BY <1>5, <2>1, Upwards
  <2> QED BY <2>2
<1>8. X(to) \in Nat /\ M(to) \in Nat
  BY <1>3
<1>9. /\ X(to) - s - M(to) \in (1 - TabWidth)..(TabWidth - 1)
      /\ M(to) = 0 <=> X(to) - s = 0
      /\ X(to) - s # M(to) => tabs(to) /\ s % TabWidth # 0
  BY <1>4, <1>7, <1>8
<1> QED BY <1>9 DEF s, X, M

-----------------------------------------------------------------------------
(* The snippet: where its line and its marker lie.                          *)

LEMMA SourceIs ==
    ASSUME source \in Sources
    PROVE  /\ source \in Seq(Bytes) /\ Len(source) \in Nat /\ DOMAIN source = 1..Len(source)
           /\ \A k \in 1..(Len(source) + 1) :
                (k <= Len(source) /\ source[k] = "Cont") <=> (k > 1 /\ source[k - 1] = "Lead")
<1>1. PICK n \in 0..MaxBytes : source \in [1..n -> Bytes]
  BY DEF Sources
<1>2. n \in Nat
  BY BoundsAssumption
<1>3. source \in Seq(Bytes)
  BY <1>1, <1>2
<1>4. IsUtf8(source)
  BY DEF Sources
<1>5. \A k \in 1..(Len(source) + 1) :
        (k <= Len(source) /\ source[k] = "Cont") <=> (k > 1 /\ source[k - 1] = "Lead")
  BY <1>4 DEF IsUtf8
<1> QED BY <1>3, <1>5

\* Offsets at which the source may be cut.
Offset(o) == o \in 0..Len(source) /\ IsBoundary(o)

(* The start is a boundary, and so is what follows a line feed, what comes  *)
(* before a byte that is one character, and the end.                        *)
LEMMA Boundaries ==
    ASSUME source \in Sources, NEW o \in 0..Len(source)
    PROVE  /\ o = 0 => IsBoundary(o)
           /\ o = Len(source) => IsBoundary(o)
           /\ o > 0 /\ source[o] = "Newline" => IsBoundary(o)
           /\ o < Len(source) /\ source[o + 1] \in {"Newline", "Return"} => IsBoundary(o)
<1>1. /\ Len(source) \in Nat
      /\ \A k \in 1..(Len(source) + 1) :
            (k <= Len(source) /\ source[k] = "Cont") <=> (k > 1 /\ source[k - 1] = "Lead")
  BY SourceIs
<1>2. o + 1 \in 1..(Len(source) + 1) /\ (o + 1) - 1 = o
  BY <1>1
<1>3. (o + 1 <= Len(source) /\ source[o + 1] = "Cont") <=> (o + 1 > 1 /\ source[o] = "Lead")
  BY <1>1, <1>2
<1> QED BY <1>1, <1>3 DEF IsBoundary

(* Clamped offsets are boundaries of the source, in the order they came in. *)
LEMMA ClampedIs ==
    ASSUME source \in Sources
    PROVE  /\ \A o \in Nat : Offset(Clamped(o))
           /\ \A a, b \in Nat : a <= b => Clamped(a) <= Clamped(b)
<1> DEFINE B(o) == {b \in 0..o : IsBoundary(b)}
           cut(o) == IF o > Len(source) THEN Len(source) ELSE o
<1>1. Len(source) \in Nat
  BY SourceIs
<1>2. \A o \in 0..Len(source) : FloorCharBoundary(o) \in B(o) /\ \A x \in B(o) : FloorCharBoundary(o) >= x
  <2> SUFFICES ASSUME NEW o \in 0..Len(source)
               PROVE  FloorCharBoundary(o) \in B(o) /\ \A x \in B(o) : FloorCharBoundary(o) >= x
    OBVIOUS
  <2>1. 0 \in B(o)
    BY <1>1, Boundaries
  <2>2. o \in Int /\ \A x \in B(o) : x \in Int /\ x <= o
    OBVIOUS
  <2>3. FloorCharBoundary(o) = Max(B(o))
    BY DEF FloorCharBoundary
  <2> HIDE DEF B
  <2> QED BY <2>1, <2>2, <2>3, MaxIsGreatest
<1>3. \A o \in Nat : cut(o) \in 0..Len(source) /\ Clamped(o) = FloorCharBoundary(cut(o))
  BY <1>1 DEF Clamped
<1>4. \A a, b \in Nat : a <= b => cut(a) <= cut(b)
  BY <1>1
<1> HIDE DEF cut
<1>5. ASSUME NEW o \in Nat PROVE Offset(Clamped(o))
  <2>1. Clamped(o) \in B(cut(o)) /\ cut(o) \in 0..Len(source)
    BY <1>2, <1>3
  <2> QED BY <2>1, <1>1 DEF Offset
<1>6. ASSUME NEW a \in Nat, NEW b \in Nat, a <= b PROVE Clamped(a) <= Clamped(b)
  <2>1. Clamped(a) \in B(cut(a)) /\ cut(a) \in 0..Len(source) /\ cut(b) \in 0..Len(source) /\ cut(a) <= cut(b)
    BY <1>2, <1>3, <1>4, <1>6
  <2>2. Clamped(a) \in B(cut(b))
    BY <2>1, <1>1
  <2>3. Clamped(b) >= Clamped(a) /\ Clamped(b) \in B(cut(b))
    BY <2>1, <2>2, <1>2, <1>3
  <2>4. Clamped(a) \in Int /\ Clamped(b) \in Int
    BY <2>2, <2>3
  <2> QED BY <2>3, <2>4
<1> QED BY <1>5, <1>6

(* The line of an offset begins after a line feed, or with the source, and  *)
(* no line feed lies between.                                               *)
LEMMA LineStartIs ==
    ASSUME source \in Sources, NEW a, Offset(a)
    PROVE  /\ Offset(LineStart(a)) /\ LineStart(a) <= a
           /\ LineStart(a) = 0 \/ source[LineStart(a)] = "Newline"
           /\ \A o \in (LineStart(a) + 1)..a : source[o] # "Newline"
<1> DEFINE S == {0} \cup {o \in 1..a : source[o] = "Newline"}
           m == LineStart(a)
<1>1. a \in Nat /\ Len(source) \in Nat /\ a <= Len(source)
  BY SourceIs DEF Offset
<1>2. a \in Int /\ (\A x \in S : x \in Int /\ x <= a) /\ S # {}
  BY <1>1
<1>3. m \in S /\ \A x \in S : m >= x
  <2>1. m = Max(S)
    BY DEF LineStart
  <2> HIDE DEF S, m
  <2> QED BY <1>2, <2>1, MaxIsGreatest
<1>4. m \in 0..a /\ (m = 0 \/ (m > 0 /\ source[m] = "Newline"))
  <2> HIDE DEF m
  <2> QED BY <1>1, <1>3
<1>5. \A o \in (m + 1)..a : source[o] # "Newline"
  <2> HIDE DEF m
  <2> SUFFICES ASSUME NEW o \in (m + 1)..a, source[o] = "Newline" PROVE FALSE
    OBVIOUS
  <2>1. o \in S /\ o > m
    BY <1>4
  <2> HIDE DEF S
  <2> QED BY <2>1, <1>3, <1>4
<1> HIDE DEF m
<1>6. m \in 0..Len(source) /\ m <= a
  BY <1>1, <1>4
<1>7. IsBoundary(m)
  BY <1>4, <1>6, Boundaries
<1> QED BY <1>4, <1>5, <1>6, <1>7 DEF Offset, m

LEMMA LineFeedIs ==
    ASSUME source \in Sources, NEW a, Offset(a)
    PROVE  /\ Offset(LineFeed(a)) /\ a <= LineFeed(a)
           /\ LineFeed(a) = Len(source) \/ (LineFeed(a) < Len(source) /\ source[LineFeed(a) + 1] = "Newline")
           /\ \A o \in (a + 1)..LineFeed(a) : source[o] # "Newline"
<1> DEFINE S == {Len(source)} \cup {o \in a..(Len(source) - 1) : source[o + 1] = "Newline"}
           m == LineFeed(a)
<1>1. a \in Nat /\ Len(source) \in Nat /\ a <= Len(source)
  BY SourceIs DEF Offset
<1>2. S \subseteq Nat /\ S # {}
  BY <1>1
<1>3. m \in S /\ \A x \in S : m <= x
  <2>1. m = Min(S)
    BY DEF LineFeed
  <2> HIDE DEF S, m
  <2> QED BY <1>2, <2>1, MinIsLeast
<1>4. m \in a..Len(source) /\ (m = Len(source) \/ (m < Len(source) /\ source[m + 1] = "Newline"))
  <2> HIDE DEF m
  <2> QED BY <1>1, <1>3
<1>5. \A o \in (a + 1)..m : source[o] # "Newline"
  <2> HIDE DEF m
  <2> SUFFICES ASSUME NEW o \in (a + 1)..m, source[o] = "Newline" PROVE FALSE
    OBVIOUS
  <2>1. o - 1 \in a..(Len(source) - 1) /\ (o - 1) + 1 = o /\ o - 1 < m
    BY <1>1, <1>4
  <2>2. o - 1 \in S
    BY <2>1
  <2> HIDE DEF S
  <2> QED BY <2>1, <2>2, <1>1, <1>3, <1>4
<1> HIDE DEF m
<1>6. m \in 0..Len(source) /\ a <= m
  BY <1>1, <1>4
<1>7. IsBoundary(m)
  BY <1>4, <1>6, Boundaries
<1> QED BY <1>4, <1>5, <1>6, <1>7 DEF Offset, m

(* The line ends before its line feed, and before a carriage return that    *)
(* comes before that.                                                       *)
LEMMA LineEndIs ==
    ASSUME source \in Sources, NEW a, Offset(a)
    PROVE  /\ Offset(LineEnd(a)) /\ LineStart(a) <= LineEnd(a)
           /\ \A o \in (LineStart(a) + 1)..LineEnd(a) : source[o] # "Newline"
           /\ \/ LineEnd(a) = LineFeed(a)
              \/ LineEnd(a) = LineFeed(a) - 1 /\ source[LineFeed(a)] = "Return" /\ LineFeed(a) > 0
<1> DEFINE f == LineFeed(a)
           s == LineStart(a)
           e == LineEnd(a)
<1>1. /\ Offset(f) /\ a <= f /\ \A o \in (a + 1)..f : source[o] # "Newline"
      /\ Offset(s) /\ s <= a /\ \A o \in (s + 1)..a : source[o] # "Newline"
  BY LineStartIs, LineFeedIs
<1>2. e = IF f > s /\ source[f] = "Return" THEN f - 1 ELSE f
  BY DEF LineEnd
<1> HIDE DEF f, s, e
<1>3. a \in Nat /\ s \in Nat /\ f \in Nat /\ f <= Len(source) /\ Len(source) \in Nat
  BY <1>1, SourceIs DEF Offset
<1>4. \A o \in (s + 1)..f : source[o] # "Newline"
  <2> SUFFICES ASSUME NEW o \in (s + 1)..f PROVE source[o] # "Newline"
    OBVIOUS
  <2>1. o \in (s + 1)..a \/ o \in (a + 1)..f
    BY <1>3
  <2> QED BY <2>1, <1>1
<1>5. CASE f > s /\ source[f] = "Return"
  <2>1. e = f - 1 /\ e \in 0..Len(source) /\ s <= e /\ e < Len(source) /\ e + 1 = f /\ f > 0
    BY <1>2, <1>3, <1>5
  <2>2. IsBoundary(e)
    BY <1>5, <2>1, Boundaries
  <2>3. \A o \in (s + 1)..e : source[o] # "Newline"
    BY <2>1, <1>3, <1>4
  <2> QED BY <1>5, <2>1, <2>2, <2>3 DEF Offset, f, s, e
<1>6. CASE ~(f > s /\ source[f] = "Return")
  <2>1. e = f
    BY <1>2, <1>6
  <2>2. s <= e
    BY <2>1, <1>1, <1>3
  <2> QED BY <2>1, <2>2, <1>1, <1>4 DEF f, s, e
<1> QED BY <1>5, <1>6

-----------------------------------------------------------------------------
(* The snippet: its properties.                                             *)

RenderInv ==
    /\ source \in Sources
    /\ span \in Nat \X Nat /\ span[1] <= span[2]
    /\ shown # NotYet => shown = SnippetOf(Clamped(span[1]), Clamped(span[2]))

LEMMA RenderHolds == SnippetSpec => []RenderInv
<1>1. SnippetInit => RenderInv
  BY BoundsAssumption DEF SnippetInit, RenderInv
<1>2. RenderInv /\ [SnippetNext]_snippetVars => RenderInv'
  <2> SUFFICES ASSUME RenderInv, [SnippetNext]_snippetVars PROVE RenderInv'
    OBVIOUS
  <2>1. CASE Render
    <3>0. shown' = SnippetOf(Clamped(span[1]), Clamped(span[2]))
      BY <2>1 DEF Render
    <3>1. source' = source /\ span' = span
      BY <2>1 DEF Render
    <3>2. SnippetOf(Clamped(span[1]), Clamped(span[2]))' = SnippetOf(Clamped(span[1]), Clamped(span[2]))
      BY <3>1 DEF SnippetOf, Clamped, FloorCharBoundary, IsBoundary, DisplayWidth, ExpandTabs,
                  LineStart, LineEnd, LineFeed, VisibleEnd
    <3>3. Sources' = Sources
      OBVIOUS
    <3> QED BY <3>0, <3>1, <3>2 DEF RenderInv
  <2>2. CASE UNCHANGED snippetVars
    <3>1. source' = source /\ span' = span /\ shown' = shown
      BY <2>2 DEF snippetVars
    <3>0. source' = source /\ span' = span
      BY <3>1
    <3>2. SnippetOf(Clamped(span[1]), Clamped(span[2]))' = SnippetOf(Clamped(span[1]), Clamped(span[2]))
      BY <3>0 DEF SnippetOf, Clamped, FloorCharBoundary, IsBoundary, DisplayWidth, ExpandTabs,
                  LineStart, LineEnd, LineFeed, VisibleEnd
    <3> QED BY <3>1, <3>2 DEF RenderInv
  <2> QED BY <2>1, <2>2 DEF SnippetNext, Rendered
<1> QED BY <1>1, <1>2, PTL DEF SnippetSpec

LEMMA Shows == ASSUME RenderInv PROVE ShowsTheSpan
<1> SUFFICES ASSUME shown # NotYet PROVE SlicesAreSafe /\ LineIsWhole /\ MarkerCoversSpan
  BY DEF ShowsTheSpan, SlicesAreSafe, LineIsWhole, MarkerCoversSpan
<1> DEFINE a == Clamped(span[1])
           b == Clamped(span[2])
           ls == LineStart(a)
           le == LineEnd(a)
           lf == LineFeed(a)
           vs == LesserOf(a, le)
           ve == VisibleEnd(a, b)
<1>1. source \in Sources /\ span[1] \in Nat /\ span[2] \in Nat /\ span[1] <= span[2]
  BY DEF RenderInv
<1>2. Offset(a) /\ Offset(b) /\ a <= b
  BY <1>1, ClampedIs
<1>3. /\ shown.lineNumber = 1 + Cardinality({o \in 1..a : source[o] = "Newline"})
      /\ shown.line[1] = ls /\ shown.line[2] = le
      /\ shown.visible[1] = vs /\ shown.visible[2] = ve
      /\ shown.text = ExpandTabs(ls, le)
      /\ shown.markerStart = DisplayWidth(ls, vs)
      /\ shown.markerLen = GreaterOf(DisplayWidth(vs, ve), 1)
  <2>1. shown = SnippetOf(a, b)
    BY DEF RenderInv
  <2> QED BY <2>1 DEF SnippetOf
<1> HIDE DEF a, b
<1>4. /\ Offset(ls) /\ ls <= a /\ (ls = 0 \/ source[ls] = "Newline")
      /\ \A o \in (ls + 1)..a : source[o] # "Newline"
  BY <1>1, <1>2, LineStartIs
<1>5. /\ Offset(lf) /\ a <= lf
      /\ lf = Len(source) \/ (lf < Len(source) /\ source[lf + 1] = "Newline")
  BY <1>1, <1>2, LineFeedIs
<1>6. /\ Offset(le) /\ ls <= le
      /\ \A o \in (ls + 1)..le : source[o] # "Newline"
      /\ le = lf \/ (le = lf - 1 /\ source[lf] = "Return" /\ lf > 0)
  BY <1>1, <1>2, LineEndIs
<1>7. vs = (IF a <= le THEN a ELSE le) /\ ve = GreaterOf(LesserOf(b, le), LesserOf(a, le))
  BY DEF VisibleEnd, LesserOf
<1> HIDE DEF ls, le, lf, vs, ve
<1>0. Len(source) \in Nat
  BY <1>1, SourceIs
<1>8. a \in Nat /\ b \in Nat /\ ls \in Nat /\ le \in Nat /\ lf \in Nat /\ Len(source) \in Nat
      /\ a <= Len(source) /\ b <= Len(source) /\ ls <= Len(source) /\ le <= Len(source) /\ lf <= Len(source)
  BY <1>0, <1>2, <1>4, <1>5, <1>6 DEF Offset
<1>9. /\ vs \in Nat /\ ve \in Nat /\ ls <= vs /\ vs <= ve /\ ve <= le
      /\ vs = a \/ (vs = le /\ le < a)
      /\ ve = (IF b <= le THEN b ELSE le)
  BY <1>2, <1>4, <1>6, <1>7, <1>8 DEF GreaterOf, LesserOf
<1>10. SlicesAreSafe
  <2>1. vs \in {a, le} /\ ve \in {b, le}
    BY <1>9
  <2>2. Offset(vs) /\ Offset(ve)
    BY <2>1, <1>2, <1>6
  <2> QED BY <1>3, <1>4, <1>6, <1>9, <2>2 DEF SlicesAreSafe, Offset
<1>11. LineIsWhole
  <2>1. {o \in 1..a : source[o] = "Newline"} = {o \in 1..ls : source[o] = "Newline"}
    <3>1. \A o \in 1..a : o \in 1..ls \/ o \in (ls + 1)..a
      BY <1>8
    <3>2. \A o \in 1..ls : o \in 1..a
      BY <1>4, <1>8
    <3> QED BY <3>1, <3>2, <1>4
  <2> DEFINE rest == SubSeq(source, le + 1, Len(source))
  <2>2. \/ rest = <<>> \/ rest = <<"Return">>
        \/ rest[1] = "Newline" \/ SubSeq(rest, 1, 2) = <<"Return", "Newline">>
    <3>0. source \in Seq(Bytes)
      BY <1>1, SourceIs
    <3>1. CASE le = Len(source)
      <4>1. rest = <<>>
        BY <3>0, <3>1, <1>8
      <4> QED BY <4>1
    <3>2. CASE le = lf /\ lf < Len(source)
      <4>1. rest[1] = source[le + 1]
        BY <3>0, <3>2, <1>8
      <4>2. source[le + 1] = "Newline"
        BY <3>2, <1>5, <1>8
      <4> HIDE DEF rest
      <4> QED BY <4>1, <4>2
    <3>3. CASE le = lf - 1 /\ source[lf] = "Return" /\ lf = Len(source) /\ lf > 0
      <4>1. Len(rest) = 1 /\ rest[1] = source[lf] /\ rest \in Seq(Bytes)
        BY <3>0, <3>3, <1>8
      <4> HIDE DEF rest
      <4>2. rest = <<"Return">>
        BY <4>1, <3>3
      <4> QED BY <4>2
    <3>4. CASE le = lf - 1 /\ source[lf] = "Return" /\ lf < Len(source) /\ lf > 0
      <4>1. Len(rest) >= 2 /\ rest[1] = source[lf] /\ rest[2] = source[lf + 1] /\ rest \in Seq(Bytes)
            /\ Len(rest) \in Nat
        BY <3>0, <3>4, <1>8
      <4>2. source[lf + 1] = "Newline"
        BY <3>4, <1>5, <1>8
      <4> HIDE DEF rest
      <4>3. Len(SubSeq(rest, 1, 2)) = 2 /\ SubSeq(rest, 1, 2)[1] = "Return"
            /\ SubSeq(rest, 1, 2)[2] = "Newline" /\ SubSeq(rest, 1, 2) \in Seq(Bytes)
        BY <4>1, <4>2, <3>4
      <4> DEFINE two == SubSeq(rest, 1, 2)
      <4>4. SubSeq(rest, 1, 2) = <<"Return", "Newline">>
        <5>1. two \in Seq(Bytes) /\ Len(two) = 2 /\ two[1] = "Return" /\ two[2] = "Newline"
          BY <4>3
        <5> HIDE DEF two
        <5>2. two = <<"Return", "Newline">>
          BY <5>1
        <5> QED BY <5>2 DEF two
      <4> QED BY <4>4
    <3>5. lf = Len(source) \/ lf < Len(source)
      BY <1>8
    <3> QED BY <3>1, <3>2, <3>3, <3>4, <3>5, <1>6
  <2> HIDE DEF rest
  <2>3. \A o \in (shown.line[1] + 1)..shown.line[2] : source[o] # "Newline"
    BY <1>3, <1>6
  <2>4. shown.lineNumber = 1 + Cardinality({o \in 1..shown.line[1] : source[o] = "Newline"})
    BY <1>3, <2>1
  <2>5. shown.line[1] = 0 \/ source[shown.line[1]] = "Newline"
    BY <1>3, <1>4
  <2>6. rest = SubSeq(source, shown.line[2] + 1, Len(source))
    BY <1>3 DEF rest
  <2> QED BY <2>2, <2>3, <2>4, <2>5, <2>6 DEF LineIsWhole
<1>12. MarkerCoversSpan
  <2> DEFINE T == ExpandTabs(ls, le)
             first == DisplayWidth(ls, vs)
             last == DisplayWidth(ls, ve)
             alone == DisplayWidth(vs, ve)
             cells == DisplayWidth(ls, le)
  <2>1. vs \in ls..le /\ ve \in ls..le /\ ls <= ve
    BY <1>8, <1>9
  <2>2. /\ T \in Seq((ls + 1)..le) /\ Len(T) = cells
        /\ \A o \in ls..le, c \in 1..cells : T[c] <= o <=> c <= DisplayWidth(ls, o)
    BY <1>6, <1>8, TextFills
  <2>3. first \in Nat /\ last \in Nat /\ cells \in Nat /\ alone \in Nat /\ first <= last /\ last <= cells
    <3>1. /\ DisplayWidth(ls, le) \in Nat /\ \A o \in ls..le : DisplayWidth(ls, o) <= DisplayWidth(ls, le)
      BY <1>6, <1>8, WidthGrows
    <3>2. /\ DisplayWidth(ls, ve) \in Nat /\ \A o \in ls..ve : DisplayWidth(ls, o) <= DisplayWidth(ls, ve)
      BY <1>8, <1>9, <2>1, WidthGrows
    <3>3. DisplayWidth(ls, vs) \in Nat /\ DisplayWidth(vs, ve) \in Nat
      BY <1>8, <1>9, WidthGrows
    <3>4. vs \in ls..ve
      BY <1>8, <1>9
    <3> QED BY <2>1, <3>1, <3>2, <3>3, <3>4
  <2>4. /\ (last - first) - alone \in (1 - TabWidth)..(TabWidth - 1)
        /\ alone = 0 <=> last - first = 0
        /\ last - first # alone => /\ \E o \in (vs + 1)..ve : source[o] = "Tab"
                                   /\ first % TabWidth # 0
    <3>1. ls \in Nat /\ vs \in Nat /\ ve \in Nat /\ ls <= vs /\ vs <= ve
      BY <1>8, <1>9
    <3> QED BY <3>1, SlipIsSmall
  <2> HIDE DEF T, first, last, alone, cells
  <2>5. \A c \in 1..cells : T[c] \in (ls + 1)..le
    <3> DEFINE S == (ls + 1)..le
    <3> HIDE DEF S
    <3>1. T \in Seq(S) /\ Len(T) = cells
      BY <2>2 DEF S
    <3>2. \A c \in 1..cells : T[c] \in S
      BY <3>1
    <3> QED BY <3>2 DEF S
  <2>6. \A c \in 1..cells : (T[c] <= a <=> c <= first) /\ (T[c] <= b <=> c <= last)
    <3> SUFFICES ASSUME NEW c \in 1..cells PROVE (T[c] <= a <=> c <= first) /\ (T[c] <= b <=> c <= last)
      OBVIOUS
    <3>1. T[c] \in Nat /\ T[c] <= le
      BY <1>8, <2>5
    <3>2. (T[c] <= vs <=> c <= first) /\ (T[c] <= ve <=> c <= last)
      BY <2>1, <2>2 DEF first, last
    <3>3. (T[c] <= vs <=> T[c] <= a) /\ (T[c] <= ve <=> T[c] <= b)
      BY <1>8, <1>9, <3>1
    <3> QED BY <3>2, <3>3
  <2>7. /\ shown.text = T /\ DOMAIN T = 1..cells /\ shown.markerStart = first
        /\ shown.markerLen = GreaterOf(alone, 1)
    BY <1>3, <2>2 DEF T, first, alone
  <2>8. MarkedCells = (first + 1)..last
    <3>1. MarkedCells = {c \in 1..cells : a < T[c] /\ T[c] <= b}
      BY <2>7 DEF MarkedCells, a, b
    <3>2. \A c \in 1..cells : a < T[c] <=> ~(T[c] <= a)
      BY <1>8, <2>5
    <3>3. MarkedCells = {c \in 1..cells : ~(c <= first) /\ c <= last}
      BY <2>6, <3>1, <3>2
    <3> QED BY <2>3, <3>3
  <2>9. shown.markerStart <= Len(shown.text)
        /\ \A c \in DOMAIN shown.text : c <= shown.markerStart <=> shown.text[c] <= Clamped(span[1])
    BY <2>2, <2>3, <2>6, <2>7 DEF a
  <2>10. MarkedCells = {} => shown.markerLen = 1
    <3>1. MarkedCells = {} => ~(first < last)
      BY <2>3, <2>8
    <3>2. MarkedCells = {} => alone = 0
      BY <2>3, <2>4, <3>1
    <3> QED BY <2>7, <3>2 DEF GreaterOf
  <2>11. ASSUME MarkedCells # {}
         PROVE  \E slip \in (1 - TabWidth)..(TabWidth - 1) :
                  /\ MarkedCells = (shown.markerStart + 1)..(shown.markerStart + shown.markerLen + slip)
                  /\ slip # 0 => TabMarked /\ shown.markerStart % TabWidth # 0
    <3>1. first < last
      BY <2>3, <2>8, <2>11
    <3>2. shown.markerLen = alone
      <4>1. alone # 0
        BY <2>3, <2>4, <3>1
      <4> QED BY <2>3, <2>7, <4>1 DEF GreaterOf
    <3> DEFINE slip == (last - first) - alone
    <3>3. MarkedCells = (shown.markerStart + 1)..(shown.markerStart + shown.markerLen + slip)
      BY <2>3, <2>7, <2>8, <3>2
    <3>4. slip # 0 => last - first # alone
      BY <2>3
    <3>5. (\E o \in (vs + 1)..ve : source[o] = "Tab") => TabMarked
      <4> SUFFICES ASSUME NEW o \in (vs + 1)..ve, source[o] = "Tab" PROVE TabMarked
        OBVIOUS
      <4> DEFINE c == DisplayWidth(ls, o)
      <4>1. o \in Nat /\ o - 1 \in Nat /\ ls <= o /\ ls <= o - 1 /\ o # ls
            /\ o \in ls..le /\ o - 1 \in ls..le /\ o <= ve /\ vs <= o - 1
        BY <1>8, <1>9
      <4>2. c = Past(o, DisplayWidth(ls, o - 1)) /\ DisplayWidth(ls, o - 1) \in Nat
        BY <1>8, <4>1, WidthIs, WidthGrows
      <4>3. c \in Nat /\ DisplayWidth(ls, o - 1) < c
        BY <4>2, PastIs
      <4>4. c <= last /\ first <= DisplayWidth(ls, o - 1)
        <5>1. o \in ls..ve /\ vs \in ls..(o - 1)
          BY <1>8, <1>9, <4>1
        <5>2. \A i \in ls..ve : DisplayWidth(ls, i) <= DisplayWidth(ls, ve)
          BY <1>8, <1>9, <2>1, WidthGrows
        <5>3. \A i \in ls..(o - 1) : DisplayWidth(ls, i) <= DisplayWidth(ls, o - 1)
          BY <1>8, <4>1, WidthGrows
        <5> QED BY <5>1, <5>2, <5>3 DEF first, last
      <4> HIDE DEF c
      <4>5. c \in (first + 1)..last /\ c \in 1..cells
        BY <2>3, <4>2, <4>3, <4>4
      <4>6. T[c] <= o /\ ~(T[c] <= o - 1)
        <5>1. T[c] <= o <=> c <= DisplayWidth(ls, o)
          BY <2>2, <4>1, <4>5
        <5>2. T[c] <= o - 1 <=> c <= DisplayWidth(ls, o - 1)
          BY <2>2, <4>1, <4>5
        <5>3. c <= DisplayWidth(ls, o)
          BY <4>3 DEF c
        <5> QED BY <4>2, <4>3, <5>1, <5>2, <5>3
      <4>7. T[c] = o
        BY <1>8, <2>5, <4>1, <4>5, <4>6
      <4>8. c \in MarkedCells /\ source[shown.text[c]] = "Tab"
        BY <2>7, <2>8, <4>5, <4>7
      <4> QED BY <4>8 DEF TabMarked
    <3>6. slip # 0 => TabMarked /\ shown.markerStart % TabWidth # 0
      BY <2>4, <2>7, <3>4, <3>5
    <3> QED BY <2>4, <3>3, <3>6
  <2> QED BY <2>9, <2>10, <2>11 DEF MarkerCoversSpan
<1> QED BY <1>10, <1>11, <1>12

(* Whatever source and span a diagnostic is rendered with, of any length,   *)
(* its snippet is cut at characters and shows one whole line with its       *)
(* number.  The marker begins under the first cell that shows the span, and *)
(* ends under its last; but for a span that covers a tab and begins between *)
(* tab stops, whose marker ends less than a tab before or after it.         *)
THEOREM SnippetsShowTheSpan == SnippetSpec => []ShowsTheSpan
BY RenderHolds, Shows, PTL

=============================================================================
