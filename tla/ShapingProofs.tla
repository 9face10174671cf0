---------------------------- MODULE ShapingProofs ----------------------------
(***************************************************************************)
(* Proofs about TokenShaping and NestedFragments, for every set of inputs: *)
(* the runs that the shaping merges lie end to end in the tokens, leave    *)
(* the reserved pipe alone and respect the construct they stand in, every  *)
(* split cuts a fragment into whole parts, and of the errors of a fragment *)
(* that does not parse the farthest is kept.                               *)
(*                                                                         *)
(* The scanners that recurse, over labels and over the nodes of a path,    *)
(* only ever look ahead: that such a function exists is proved here from a *)
(* least counterexample.                                                   *)
(***************************************************************************)
EXTENDS NestedFragments, FiniteSetTheorems, WellFoundedInduction, TLAPS

-----------------------------------------------------------------------------
(* Extremes of sets of numbers.                                             *)

(* A nonempty set of natural numbers has the minimum Min picks.             *)
LEMMA MinIsLeast ==
    ASSUME NEW S, S \subseteq Nat, S # {}
    PROVE  Min(S) \in S /\ \A x \in S : Min(S) <= x
<1> DEFINE R == {xy \in Nat \X Nat : xy[1] < xy[2]}
<1>1. IsWellFoundedOn(R, Nat)
  BY NatLessThanWellFounded DEF OpToRel
<1>2. \A x, y \in Nat : x < y => <<x, y>> \in R
  OBVIOUS
<1> HIDE DEF R
<1>3. PICK m \in S : \A y \in S : ~(<<y, m>> \in R)
  BY <1>1, WFMin
<1>4. \A y \in S : m <= y
  <2> SUFFICES ASSUME NEW y \in S PROVE ~(y < m)
    OBVIOUS
  <2> QED BY <1>2, <1>3
<1>5. \E x \in S : \A y \in S : x <= y
  BY <1>4
<1> QED BY <1>5, Zenon DEF Min

(* A nonempty set of numbers that is bounded has the maximum Max picks.     *)
LEMMA MaxIsGreatest ==
    ASSUME NEW S, NEW b \in Int, \A x \in S : x \in Int /\ x <= b, S # {}
    PROVE  Max(S) \in S /\ \A x \in S : Max(S) >= x
<1> DEFINE T == {b - x : x \in S}
<1>1. T \subseteq Nat /\ T # {}
  <2>1. \A x \in S : b - x \in Nat
    OBVIOUS
  <2> QED BY <2>1
<1> HIDE DEF T
<1>2. Min(T) \in T /\ \A x \in T : Min(T) <= x
  BY <1>1, MinIsLeast
<1>3. PICK m \in S : Min(T) = b - m
  BY <1>2 DEF T
<1>4. \A x \in S : m >= x
  <2> SUFFICES ASSUME NEW x \in S PROVE m >= x
    OBVIOUS
  <2>1. b - x \in T
    BY DEF T
  <2> QED BY <2>1, <1>2, <1>3
<1>5. \E x \in S : \A y \in S : x >= y
  BY <1>4
<1> QED BY <1>5, Zenon DEF Max

\* G gives the value at i from the values at the later indices.
LooksAhead(n, V, G) == \A i \in 1..n : G[i] \in [[(i + 1)..n -> V] -> V]

\* f takes the values that G gives.
Solves(n, V, G, f) ==
    \A i \in 1..n : \E h \in [(i + 1)..n -> V] :
        f[i] = G[i][h] /\ \A j \in (i + 1)..n : h[j] = f[j]

(* A function on the indices up to n that is defined at each of them from   *)
(* its values at later ones exists: take the least index down to which such *)
(* a function can be built.                                                 *)
LEMMA LookAhead ==
    ASSUME NEW n \in Nat, NEW V, NEW G, LooksAhead(n, V, G)
    PROVE  \E f \in [1..n -> V] : Solves(n, V, G, f)
<1>0. \A i \in 1..n : G[i] \in [[(i + 1)..n -> V] -> V]
  BY DEF LooksAhead
<1> DEFINE Built(k) == \E f \in [k..n -> V] :
                          \A i \in k..n : f[i] = G[i][[j \in (i + 1)..n |-> f[j]]]
           S == {k \in 1..(n + 1) : Built(k)}
<1>1. n + 1 \in S
  <2>1. (n + 1)..n = {}
    OBVIOUS
  <2>2. [j \in (n + 1)..n |-> j] \in [(n + 1)..n -> V]
    BY <2>1
  <2>3. Built(n + 1)
    BY <2>1, <2>2
  <2>4. n + 1 \in 1..(n + 1)
    OBVIOUS
  <2> HIDE DEF Built
  <2> QED BY <2>3, <2>4
<1>2. Min(S) \in S /\ \A x \in S : Min(S) <= x
  <2>1. S \subseteq Nat /\ S # {}
    BY <1>1
  <2> HIDE DEF S
  <2> QED BY <2>1, MinIsLeast
<1>3. Min(S) = 1
  <2> SUFFICES ASSUME Min(S) # 1 PROVE FALSE
    OBVIOUS
  <2> DEFINE k == Min(S)
  <2>0. k \in S
    BY <1>2
  <2> HIDE DEF k
  <2>1. k \in 2..(n + 1) /\ Built(k)
    <3>1. k # 1
      BY DEF k
    <3> HIDE DEF Built
    <3> QED BY <2>0, <3>1
  <2>2. PICK f \in [k..n -> V] : \A i \in k..n : f[i] = G[i][[j \in (i + 1)..n |-> f[j]]]
    BY <2>1
  <2> DEFINE g == [j \in (k - 1)..n |-> IF j = k - 1 THEN G[k - 1][f] ELSE f[j]]
  <2>3. ((k - 1) + 1)..n = k..n /\ k - 1 \in 1..n
    BY <2>1
  <2>4. G[k - 1][f] \in V
    BY <2>3, <2>2, <1>0
  <2>5. g \in [(k - 1)..n -> V]
    BY <2>1, <2>4
  <2>6. \A i \in (k - 1)..n : [j \in (i + 1)..n |-> g[j]] = [j \in (i + 1)..n |-> f[j]]
    BY <2>1
  <2>7. [j \in ((k - 1) + 1)..n |-> f[j]] = f
    BY <2>3
  <2>8. g[k - 1] = G[k - 1][[j \in ((k - 1) + 1)..n |-> g[j]]]
    <3>1. k - 1 \in (k - 1)..n
      BY <2>1
    <3>2. g[k - 1] = G[k - 1][f]
      BY <3>1
    <3>3. [j \in ((k - 1) + 1)..n |-> g[j]] = f
      BY <2>6, <2>7, <3>1
    <3> HIDE DEF g
    <3> QED BY <3>2, <3>3
  <2>9. \A i \in k..n : g[i] = G[i][[j \in (i + 1)..n |-> g[j]]]
    <3> SUFFICES ASSUME NEW i \in k..n PROVE g[i] = G[i][[j \in (i + 1)..n |-> g[j]]]
      OBVIOUS
    <3>1. i \in (k - 1)..n /\ i # k - 1
      BY <2>1
    <3>2. g[i] = f[i]
      BY <3>1
    <3> QED BY <3>1, <3>2, <2>2, <2>6
  <2>10. \A i \in (k - 1)..n : i = k - 1 \/ i \in k..n
    BY <2>1
  <2> HIDE DEF g
  <2>11. Built(k - 1)
    BY <2>5, <2>8, <2>9, <2>10
  <2>12. k - 1 \in S
    <3> HIDE DEF Built
    <3> QED BY <2>11, <2>1
  <2> HIDE DEF S
  <2> QED BY <2>12, <1>2, <2>1 DEF k
<1>4. PICK f \in [1..n -> V] : \A i \in 1..n : f[i] = G[i][[j \in (i + 1)..n |-> f[j]]]
  <2>1. 1 \in S
    BY <1>2, <1>3
  <2> QED BY <2>1
<1>5. \A i \in 1..n : \E h \in [(i + 1)..n -> V] :
        f[i] = G[i][h] /\ \A j \in (i + 1)..n : h[j] = f[j]
  <2> SUFFICES ASSUME NEW i \in 1..n
               PROVE  \E h \in [(i + 1)..n -> V] : f[i] = G[i][h] /\ \A j \in (i + 1)..n : h[j] = f[j]
    OBVIOUS
  <2> DEFINE h == [j \in (i + 1)..n |-> f[j]]
  <2>1. h \in [(i + 1)..n -> V] /\ \A j \in (i + 1)..n : h[j] = f[j]
    OBVIOUS
  <2>2. f[i] = G[i][h]
    BY <1>4
  <2> HIDE DEF h
  <2> QED BY <2>1, <2>2
<1> QED BY <1>5 DEF Solves

-----------------------------------------------------------------------------
(* Counting tokens.                                                         *)

(* What is counted in a range is counted in two parts of it.                *)
LEMMA NumberSplits ==
    ASSUME NEW s, NEW K, NEW a \in Int, NEW b \in Int
    PROVE  /\ Number(s, K, a, b) \in Nat
           /\ b < a => Number(s, K, a, b) = 0
           /\ Number(s, K, a, a) = IF s[a] \in K THEN 1 ELSE 0
           /\ \A m \in (a - 1)..b :
                Number(s, K, a, b) = Number(s, K, a, m) + Number(s, K, m + 1, b)
<1> DEFINE C(x, y) == {k \in x..y : s[k] \in K}
<1>1. \A x, y \in Int : IsFiniteSet(C(x, y)) /\ Cardinality(C(x, y)) \in Nat
  <2> SUFFICES ASSUME NEW x \in Int, NEW y \in Int
               PROVE  IsFiniteSet(C(x, y)) /\ Cardinality(C(x, y)) \in Nat
    OBVIOUS
  <2>1. C(x, y) \subseteq x..y /\ IsFiniteSet(x..y)
    BY FS_Interval
  <2> QED BY <2>1, FS_Subset, FS_CardinalityType
<1>2. b < a => Cardinality(C(a, b)) = 0
  <2> SUFFICES ASSUME b < a PROVE Cardinality(C(a, b)) = 0
    OBVIOUS
  <2>1. C(a, b) = {}
    OBVIOUS
  <2> QED BY <2>1, FS_EmptySet
<1>3. Cardinality(C(a, a)) = IF s[a] \in K THEN 1 ELSE 0
  <2>1. C(a, a) = IF s[a] \in K THEN {a} ELSE {}
    OBVIOUS
  <2> QED BY <2>1, FS_EmptySet, FS_Singleton
<1>4. \A m \in (a - 1)..b : Cardinality(C(a, b)) = Cardinality(C(a, m)) + Cardinality(C(m + 1, b))
  <2> SUFFICES ASSUME NEW m \in (a - 1)..b
               PROVE  Cardinality(C(a, b)) = Cardinality(C(a, m)) + Cardinality(C(m + 1, b))
    OBVIOUS
  <2>1. C(a, b) = C(a, m) \cup C(m + 1, b) /\ C(a, m) \cap C(m + 1, b) = {}
    OBVIOUS
  <2>2. /\ IsFiniteSet(C(a, m)) /\ IsFiniteSet(C(m + 1, b))
        /\ Cardinality(C(a, m)) \in Nat /\ Cardinality(C(m + 1, b)) \in Nat
    BY <1>1
  <2> HIDE DEF C
  <2>3. Cardinality(C(a, b)) = Cardinality(C(a, m)) + Cardinality(C(m + 1, b)) - Cardinality({})
    BY <2>1, <2>2, FS_Union
  <2> QED BY <2>2, <2>3, FS_EmptySet
<1>5. \A x, y \in Int : Number(s, K, x, y) = Cardinality(C(x, y))
  BY DEF Number
<1> HIDE DEF C
<1>6. Number(s, K, a, b) \in Nat
  BY <1>1, <1>5
<1>7. b < a => Number(s, K, a, b) = 0
  BY <1>2, <1>5
<1>8. Number(s, K, a, a) = IF s[a] \in K THEN 1 ELSE 0
  BY <1>3, <1>5
<1>9. \A m \in (a - 1)..b :
        Number(s, K, a, b) = Number(s, K, a, m) + Number(s, K, m + 1, b)
  <2> SUFFICES ASSUME NEW m \in (a - 1)..b
               PROVE  Number(s, K, a, b) = Number(s, K, a, m) + Number(s, K, m + 1, b)
    OBVIOUS
  <2> QED BY <1>4, <1>5
<1> QED BY <1>6, <1>7, <1>8, <1>9, Zenon

(* A single token counts or does not.                                       *)
LEMMA NumberOfOne ==
    ASSUME NEW s, NEW k, NEW a \in Int
    PROVE  Number(s, {k}, a, a) = IF s[a] = k THEN 1 ELSE 0
<1> DEFINE K == {k}
<1>1. Number(s, K, a, a) = IF s[a] \in K THEN 1 ELSE 0
  <2> HIDE DEF K
  <2> QED BY NumberSplits
<1>2. s[a] \in K <=> s[a] = k
  OBVIOUS
<1> QED BY <1>1, <1>2, Zenon

(* A matched delimiter has its partner further on.                          *)
LEMMA MatchingIsAhead ==
    ASSUME NEW s \in Seq(Kinds), NEW i \in Int, NEW open, NEW close, open # close
    PROVE  MatchingDelimiter(s, i, open, close) \subseteq (i + 1)..Len(s)
<1> SUFFICES ASSUME NEW j \in MatchingDelimiter(s, i, open, close) PROVE j \in (i + 1)..Len(s)
  OBVIOUS
<1>1. j \in i..Len(s) /\ s[i] = open /\ Number(s, {open}, i, j) = Number(s, {close}, i, j)
  BY DEF MatchingDelimiter
<1>2. j # i
  <2> SUFFICES ASSUME j = i PROVE FALSE
    OBVIOUS
  <2>1. Number(s, {open}, i, i) = IF s[i] = open THEN 1 ELSE 0
    BY NumberOfOne
  <2>2. Number(s, {close}, i, i) = IF s[i] = close THEN 1 ELSE 0
    BY NumberOfOne
  <2>3. s[i] = open /\ s[i] # close
    BY <1>1
  <2>4. Number(s, {open}, i, i) = Number(s, {close}, i, i)
    BY <1>1
  <2>5. 1 = 0
    BY <2>1, <2>2, <2>3, <2>4, Zenon
  <2> QED BY <2>5
<1> QED BY <1>1, <1>2

-----------------------------------------------------------------------------
(* How far the scanners look.                                               *)

(* A kind is read of tokens only.                                           *)
LEMMA KindOfToken ==
    ASSUME NEW s \in Seq(Kinds), NEW i \in Int
    PROVE  /\ Kind(s, i) # "None" <=> i \in DOMAIN s
           /\ Kind(s, i) # "None" => i \in 1..Len(s) /\ Kind(s, i) = s[i]
<1>1. \A k \in DOMAIN s : s[k] \in Kinds
  OBVIOUS
<1>2. "None" \notin Kinds
  BY DEF Kinds, Openers, Closers, SymbolicNames, Keywords
<1>3. DOMAIN s = 1..Len(s)
  OBVIOUS
<1> QED BY <1>1, <1>2, <1>3 DEF Kind

(* A relationship takes at least one token and ends where tokens do.        *)
LEMMA RelationshipIsAhead ==
    ASSUME NEW s \in Seq(Kinds), NEW i \in Nat
    PROVE  RelationshipSyntaxEnd(s, i) \subseteq (i + 1)..(Len(s) + 1)
<1> DEFINE head == IF Kind(s, i) \in {"Minus", "LeftArrow"} THEN {i + 1}
                   ELSE IF Kind(s, i) = "Less" /\ Kind(s, i + 1) = "Minus" THEN {i + 2}
                   ELSE {}
           detail == {c \in head : Kind(s, c) # "LeftBracket"} \cup
                     {e + 1 : e \in UNION {MatchingDelimiter(s, c, "LeftBracket", "RightBracket")
                                           : c \in head \cap DOMAIN s}}
<1>1. head \subseteq {i + 1, i + 2}
  OBVIOUS
<1>2. \A c \in detail : c \in Int /\ c >= i + 1
  <2> SUFFICES ASSUME NEW c \in detail PROVE c \in Int /\ c >= i + 1
    OBVIOUS
  <2>1. CASE c \in head
    BY <2>1, <1>1
  <2>2. CASE c \notin head
    <3>1. PICK b \in head \cap DOMAIN s :
             \E e \in MatchingDelimiter(s, b, "LeftBracket", "RightBracket") : c = e + 1
      BY <2>2
    <3>2. PICK e \in MatchingDelimiter(s, b, "LeftBracket", "RightBracket") : c = e + 1
      BY <3>1
    <3>3. b \in Int /\ b >= i + 1
      BY <1>1
    <3>4. e \in (b + 1)..Len(s)
      BY <3>2, <3>3, MatchingIsAhead
    <3> QED BY <3>2, <3>3, <3>4
  <2> QED BY <2>1, <2>2
<1>3. RelationshipSyntaxEnd(s, i) =
        {c + 2 : c \in {c \in detail : Kind(s, c) = "Minus" /\ Kind(s, c + 1) = "Greater"}}
        \cup
        {c + 1 : c \in {c \in detail : \/ Kind(s, c) = "RightArrow"
                                       \/ Kind(s, c) = "Minus" /\ Kind(s, c + 1) # "Greater"}}
  BY DEF RelationshipSyntaxEnd
<1> HIDE DEF head, detail
<1> SUFFICES ASSUME NEW r \in RelationshipSyntaxEnd(s, i) PROVE r \in (i + 1)..(Len(s) + 1)
  OBVIOUS
<1>4. PICK c \in detail :
        \/ r = c + 2 /\ Kind(s, c + 1) = "Greater"
        \/ r = c + 1 /\ Kind(s, c) \in {"RightArrow", "Minus"}
  BY <1>3
<1>5. c \in Int /\ c >= i + 1 /\ Len(s) \in Nat
  BY <1>2
<1>6. (Kind(s, c + 1) = "Greater" => c + 1 \in 1..Len(s))
      /\ (Kind(s, c) \in {"RightArrow", "Minus"} => c \in 1..Len(s))
  BY <1>5, KindOfToken
<1> QED BY <1>4, <1>5, <1>6

(* What holds at an index whenever it holds at all later ones holds at all. *)
LEMMA Backwards ==
    ASSUME NEW n \in Nat, NEW P,
           \A i \in 1..n : (\A j \in (i + 1)..n : j \in P) => i \in P
    PROVE  \A i \in 1..n : i \in P
<1> DEFINE S == {i \in 1..n : i \notin P}
<1> SUFFICES ASSUME S # {} PROVE FALSE
  OBVIOUS
<1>1. \A x \in S : x \in Int /\ x <= n
  OBVIOUS
<1>2. Max(S) \in S /\ \A x \in S : Max(S) >= x
  <2> HIDE DEF S
  <2> QED BY <1>1, MaxIsGreatest
<1> DEFINE i == Max(S)
<1>3. i \in 1..n /\ i \notin P /\ \A x \in S : i >= x
  <2> HIDE DEF i
  <2> QED BY <1>2 DEF i
<1> HIDE DEF i
<1>4. \A j \in (i + 1)..n : j \in P
  <2> SUFFICES ASSUME NEW j \in (i + 1)..n, j \notin P PROVE FALSE
    OBVIOUS
  <2>1. j \in S /\ j > i
    BY <1>3
  <2> HIDE DEF S
  <2> QED BY <2>1, <1>3
<1> QED BY <1>3, <1>4

(* After a quantifier the scan is no further back, and where tokens end at  *)
(* the latest.                                                              *)
LEMMA QuantifierIsAhead ==
    ASSUME NEW s \in Seq(Kinds), NEW i \in 1..(Len(s) + 1)
    PROVE  AfterQuantifier(s, i) \subseteq i..(Len(s) + 1)
<1>1. CASE Kind(s, i) \in {"Star", "Plus", "Question"}
  <2>1. i \in 1..Len(s)
    BY <1>1, KindOfToken
  <2> QED BY <1>1, <2>1 DEF AfterQuantifier
<1>2. CASE Kind(s, i) = "LeftBrace"
  <2>1. MatchingDelimiter(s, i, "LeftBrace", "RightBrace") \subseteq (i + 1)..Len(s)
    BY MatchingIsAhead
  <2>2. AfterQuantifier(s, i) = {e + 1 : e \in MatchingDelimiter(s, i, "LeftBrace", "RightBrace")}
    BY <1>2 DEF AfterQuantifier
  <2> QED BY <2>1, <2>2
<1>3. CASE Kind(s, i) \notin {"Star", "Plus", "Question", "LeftBrace"}
  BY <1>3 DEF AfterQuantifier
<1> QED BY <1>1, <1>2, <1>3

LEMMA NodeIsAhead ==
    ASSUME NEW s \in Seq(Kinds), NEW i \in Int
    PROVE  NodeEnd(s, i) \subseteq (i + 1)..Len(s)
BY MatchingIsAhead DEF NodeEnd

LEMMA NextIsAhead ==
    ASSUME NEW s \in Seq(Kinds), NEW e \in 1..Len(s)
    PROVE  NextNode(s, e) \subseteq (e + 1)..Len(s)
<1> SUFFICES ASSUME NEW m \in NextNode(s, e) PROVE m \in (e + 1)..Len(s)
  OBVIOUS
<1>1. PICK r \in RelationshipSyntaxEnd(s, e + 1) : \E n \in AfterQuantifier(s, r) : m \in NodeEnd(s, n)
  BY DEF NextNode, HopEnd
<1>2. PICK n \in AfterQuantifier(s, r) : m \in NodeEnd(s, n)
  BY <1>1
<1>3. r \in (e + 2)..(Len(s) + 1)
  <2>1. RelationshipSyntaxEnd(s, e + 1) \subseteq ((e + 1) + 1)..(Len(s) + 1)
    BY RelationshipIsAhead
  <2> QED BY <2>1
<1>4. n \in r..(Len(s) + 1)
  <2>1. AfterQuantifier(s, r) \subseteq r..(Len(s) + 1)
    BY <1>3, QuantifierIsAhead
  <2> QED BY <2>1, <1>2
<1>5. m \in (n + 1)..Len(s)
  BY <1>2, <1>4, NodeIsAhead
<1> QED BY <1>3, <1>4, <1>5

LEMMA PathEndUnfolds ==
    ASSUME NEW s,
           \E f : f = [e \in DOMAIN s |->
                        {x \in {e} : IsLastNode(s, x)} \cup UNION {f[m] : m \in NextNode(s, e)}]
    PROVE  PathEnd(s) = [e \in DOMAIN s |->
             {x \in {e} : IsLastNode(s, x)} \cup UNION {PathEnd(s)[m] : m \in NextNode(s, e)}]
BY DEF PathEnd

(* The function that goes from node to node exists, and what it finds lies  *)
(* ahead.                                                                   *)
LEMMA PathEndIs ==
    ASSUME NEW s \in Seq(Kinds)
    PROVE  \A e \in 1..Len(s) :
             /\ PathEnd(s)[e] = {x \in {e} : IsLastNode(s, x)}
                                \cup UNION {PathEnd(s)[m] : m \in NextNode(s, e)}
             /\ PathEnd(s)[e] \subseteq e..Len(s)
<1> DEFINE n == Len(s)
           V == SUBSET (1..n)
           Ends(f, e) == {x \in {e} : IsLastNode(s, x)} \cup UNION {f[m] : m \in NextNode(s, e)}
           G == [e \in 1..n |-> [h \in [(e + 1)..n -> V] |-> Ends(h, e)]]
<1>1. n \in Nat /\ DOMAIN s = 1..n
  OBVIOUS
<1>2. \A e \in 1..n : NextNode(s, e) \subseteq (e + 1)..n
  BY NextIsAhead
<1> HIDE DEF n
<1>3. \A e \in 1..n : \A h \in [(e + 1)..n -> V] : Ends(h, e) \in V
  BY <1>2
<1>4. ASSUME NEW e \in 1..n, NEW f, NEW h, \A j \in (e + 1)..n : h[j] = f[j]
      PROVE  Ends(h, e) = Ends(f, e)
  <2>1. \A m \in NextNode(s, e) : h[m] = f[m]
    <3> SUFFICES ASSUME NEW m \in NextNode(s, e) PROVE h[m] = f[m]
      OBVIOUS
    <3>1. m \in (e + 1)..n
      BY <1>2
    <3> QED BY <3>1, <1>4
  <2>2. \A x : x \in UNION {h[m] : m \in NextNode(s, e)} <=> x \in UNION {f[m] : m \in NextNode(s, e)}
    BY <2>1
  <2> DEFINE U(g) == UNION {g[m] : m \in NextNode(s, e)}
             L == {x \in {e} : IsLastNode(s, x)}
  <2>3. U(h) = U(f)
    BY <2>2
  <2> HIDE DEF U, L
  <2>4. L \cup U(h) = L \cup U(f)
    BY <2>3
  <2> QED BY <2>4 DEF U, L
<1>5. LooksAhead(n, V, G)
  BY <1>3 DEF LooksAhead
<1>6. PICK f \in [1..n -> V] : Solves(n, V, G, f)
  <2> HIDE DEF G, V
  <2> QED BY <1>1, <1>5, LookAhead
<1>7. \A e \in 1..n : f[e] = Ends(f, e)
  <2> SUFFICES ASSUME NEW e \in 1..n PROVE f[e] = Ends(f, e)
    OBVIOUS
  <2>1. PICK h \in [(e + 1)..n -> V] : f[e] = G[e][h] /\ \A j \in (e + 1)..n : h[j] = f[j]
    BY <1>6 DEF Solves
  <2> HIDE DEF Ends
  <2>2. Ends(h, e) = Ends(f, e)
    BY <2>1, <1>4
  <2>3. G[e][h] = Ends(h, e)
    OBVIOUS
  <2> QED BY <2>1, <2>2, <2>3
<1>8. f = [e \in DOMAIN s |-> Ends(f, e)]
  <2> HIDE DEF Ends
  <2> QED BY <1>7, <1>1
<1>9. PathEnd(s) = [e \in DOMAIN s |-> Ends(PathEnd(s), e)]
  <2>1. \E g : g = [e \in DOMAIN s |-> Ends(g, e)]
    BY <1>8, Zenon
  <2> QED BY <2>1, PathEndUnfolds
<1>10. \A e \in 1..n : PathEnd(s)[e] = Ends(PathEnd(s), e)
  <2> HIDE DEF Ends
  <2> QED BY <1>9, <1>1
<1> DEFINE P == {e \in 1..n : PathEnd(s)[e] \subseteq e..n}
<1>11. \A e \in 1..n : (\A j \in (e + 1)..n : j \in P) => e \in P
  <2> SUFFICES ASSUME NEW e \in 1..n, \A j \in (e + 1)..n : j \in P
               PROVE  PathEnd(s)[e] \subseteq e..n
    OBVIOUS
  <2>1. \A m \in NextNode(s, e) : m \in e..n /\ PathEnd(s)[m] \subseteq m..n
    BY <1>2
  <2>2. \A m \in NextNode(s, e) : PathEnd(s)[m] \subseteq e..n
    BY <2>1, <1>1
  <2>3. {x \in {e} : IsLastNode(s, x)} \subseteq e..n
    BY <1>1
  <2> QED BY <2>2, <2>3, <1>10
<1>12. \A e \in 1..n : e \in P
  <2> HIDE DEF P
  <2> QED BY <1>1, <1>11, Backwards
<1> QED BY <1>10, <1>12 DEF n

-----------------------------------------------------------------------------
(* Labels: the parts of End in LabelEnd, as it reads them from itself.      *)

LabelHead(s, i) == IF Kind(s, i) = "Bang" THEN i + 1 ELSE i

PrimaryBy(s, f, i) ==
    IF Kind(s, LabelHead(s, i)) \in SymbolicNames \cup {"Percent"} THEN {LabelHead(s, i) + 1}
    ELSE IF Kind(s, LabelHead(s, i)) = "LeftParen"
    THEN {e + 1 : e \in {e \in f[LabelHead(s, i) + 1].or : Kind(s, e) = "RightParen"}}
    ELSE {}

AndBy(s, f, i) ==
    UNION {IF Kind(s, e) \in {"Ampersand", "Colon"} THEN f[e + 1].and ELSE {e}
           : e \in PrimaryBy(s, f, i)}

OrBy(s, f, i) ==
    UNION {IF Kind(s, e) # "Pipe" THEN {e}
           ELSE f[IF Kind(s, e + 1) = "Colon" THEN e + 2 ELSE e + 1].or
           : e \in AndBy(s, f, i)}

LEMMA LabelEndUnfolds ==
    ASSUME NEW s,
           \E f : f = [i \in 1..(Len(s) + 1) |-> [or |-> OrBy(s, f, i), and |-> AndBy(s, f, i)]]
    PROVE  LabelEnd(s) = [i \in 1..(Len(s) + 1) |->
                            [or |-> OrBy(s, LabelEnd(s), i), and |-> AndBy(s, LabelEnd(s), i)]]
<1>1. LabelEnd(s) = CHOOSE f : f = [i \in 1..(Len(s) + 1) |->
                                      [or |-> OrBy(s, f, i), and |-> AndBy(s, f, i)]]
  BY DEF LabelEnd, OrBy, AndBy, PrimaryBy, LabelHead
<1> QED BY <1>1

\* What f holds at the indices from i on are sets of later indices.
FarFrom(n, f, i) ==
    \A j \in i..n : f[j].or \subseteq (j + 1)..n /\ f[j].and \subseteq (j + 1)..n

(* A label takes at least one token, and reads itself only at later ones.   *)
LEMMA LabelStep ==
    ASSUME NEW s \in Seq(Kinds), NEW i \in 1..(Len(s) + 1), NEW f, FarFrom(Len(s) + 1, f, i + 1)
    PROVE  /\ PrimaryBy(s, f, i) \subseteq (i + 1)..(Len(s) + 1)
           /\ OrBy(s, f, i) \subseteq (i + 1)..(Len(s) + 1)
           /\ AndBy(s, f, i) \subseteq (i + 1)..(Len(s) + 1)
           /\ \A g : (\A j \in (i + 1)..(Len(s) + 1) : g[j] = f[j]) =>
                OrBy(s, g, i) = OrBy(s, f, i) /\ AndBy(s, g, i) = AndBy(s, f, i)
<1> DEFINE n == Len(s) + 1
           c == LabelHead(s, i)
<1>1. n \in Nat /\ n - 1 = Len(s) /\ i \in 1..n
  OBVIOUS
<1>2. \A k \in Int : Kind(s, k) # "None" => k \in 1..(n - 1)
  BY <1>1, KindOfToken
<1>3. c \in i..n /\ (Kind(s, c) # "None" => c + 1 \in (i + 1)..n)
  <2>1. CASE Kind(s, i) = "Bang"
    <3>1. c = i + 1 /\ i \in 1..(n - 1)
      BY <2>1, <1>2 DEF LabelHead
    <3> QED BY <3>1, <1>2, <1>1
  <2>2. CASE Kind(s, i) # "Bang"
    BY <2>2, <1>1, <1>2 DEF LabelHead
  <2> QED BY <2>1, <2>2
<1>4. \A j \in (i + 1)..n : f[j].or \subseteq (j + 1)..n /\ f[j].and \subseteq (j + 1)..n
  BY DEF FarFrom
<1> HIDE DEF n, c
<1>5. PrimaryBy(s, f, i) \subseteq (i + 1)..n
  <2>1. CASE Kind(s, c) \in SymbolicNames \cup {"Percent"}
    <3>1. Kind(s, c) # "None"
      BY <2>1 DEF SymbolicNames, Keywords
    <3>2. PrimaryBy(s, f, i) = {c + 1}
      BY <2>1 DEF PrimaryBy, c
    <3> QED BY <3>1, <3>2, <1>3
  <2>2. CASE Kind(s, c) = "LeftParen"
    <3>1. PrimaryBy(s, f, i) = {e + 1 : e \in {e \in f[c + 1].or : Kind(s, e) = "RightParen"}}
      BY <2>2 DEF PrimaryBy, c, SymbolicNames, Keywords
    <3>2. f[c + 1].or \subseteq (i + 1)..n
      BY <2>2, <1>3, <1>4
    <3>3. \A e \in f[c + 1].or : Kind(s, e) = "RightParen" => e + 1 \in (i + 1)..n
      BY <3>2, <1>1, <1>2
    <3> QED BY <3>1, <3>3
  <2>3. CASE Kind(s, c) \notin SymbolicNames \cup {"Percent", "LeftParen"}
    BY <2>3 DEF PrimaryBy, c
  <2> QED BY <2>1, <2>2, <2>3
<1>6. \A e \in (i + 1)..n : Kind(s, e) \in {"Ampersand", "Colon", "Pipe"} => e + 1 \in (i + 1)..n
  BY <1>1, <1>2
<1>7. AndBy(s, f, i) \subseteq (i + 1)..n
  <2> SUFFICES ASSUME NEW e \in PrimaryBy(s, f, i)
               PROVE  (IF Kind(s, e) \in {"Ampersand", "Colon"} THEN f[e + 1].and ELSE {e}) \subseteq (i + 1)..n
    BY DEF AndBy
  <2>1. e \in (i + 1)..n
    BY <1>5
  <2>2. Kind(s, e) \in {"Ampersand", "Colon"} => f[e + 1].and \subseteq (i + 1)..n
    BY <2>1, <1>1, <1>4, <1>6
  <2> QED BY <2>1, <2>2
<1>8. \A e \in (i + 1)..n : Kind(s, e) = "Pipe" =>
        (IF Kind(s, e + 1) = "Colon" THEN e + 2 ELSE e + 1) \in (i + 1)..n
  BY <1>1, <1>2
<1>9. OrBy(s, f, i) \subseteq (i + 1)..n
  <2> SUFFICES ASSUME NEW e \in AndBy(s, f, i)
               PROVE  (IF Kind(s, e) # "Pipe" THEN {e}
                       ELSE f[IF Kind(s, e + 1) = "Colon" THEN e + 2 ELSE e + 1].or) \subseteq (i + 1)..n
    BY DEF OrBy
  <2> DEFINE b == IF Kind(s, e + 1) = "Colon" THEN e + 2 ELSE e + 1
  <2>1. e \in (i + 1)..n
    BY <1>7
  <2>2. Kind(s, e) = "Pipe" => b \in (i + 1)..n
    BY <2>1, <1>8
  <2> HIDE DEF b
  <2>3. Kind(s, e) = "Pipe" => f[b].or \subseteq (i + 1)..n
    BY <2>2, <1>1, <1>4
  <2> QED BY <2>1, <2>3 DEF b
<1>10. ASSUME NEW g, \A j \in (i + 1)..n : g[j] = f[j]
       PROVE  OrBy(s, g, i) = OrBy(s, f, i) /\ AndBy(s, g, i) = AndBy(s, f, i)
  <2>1. PrimaryBy(s, g, i) = PrimaryBy(s, f, i)
    <3>1. Kind(s, c) = "LeftParen" => g[c + 1] = f[c + 1]
      BY <1>3, <1>10
    <3> QED BY <3>1 DEF PrimaryBy, c
  <2>2. AndBy(s, g, i) = AndBy(s, f, i)
    <3>1. \A e \in PrimaryBy(s, f, i) : Kind(s, e) \in {"Ampersand", "Colon"} => g[e + 1] = f[e + 1]
      BY <1>5, <1>6, <1>10
    <3> QED BY <3>1, <2>1 DEF AndBy
  <2>3. OrBy(s, g, i) = OrBy(s, f, i)
    <3>1. \A e \in AndBy(s, f, i) : Kind(s, e) = "Pipe" =>
            g[IF Kind(s, e + 1) = "Colon" THEN e + 2 ELSE e + 1]
              = f[IF Kind(s, e + 1) = "Colon" THEN e + 2 ELSE e + 1]
      BY <1>7, <1>8, <1>10
    <3> QED BY <3>1, <2>2 DEF OrBy
  <2> QED BY <2>2, <2>3
<1> QED BY <1>5, <1>7, <1>9, <1>10 DEF n

(* The function that finds the end of a label exists, and what it finds     *)
(* lies ahead.                                                              *)
LEMMA LabelEndIs ==
    ASSUME NEW s \in Seq(Kinds)
    PROVE  \A i \in 1..(Len(s) + 1) :
             /\ LabelEnd(s)[i] = [or |-> OrBy(s, LabelEnd(s), i), and |-> AndBy(s, LabelEnd(s), i)]
             /\ LabelEnd(s)[i].or \subseteq (i + 1)..(Len(s) + 1)
             /\ LabelEnd(s)[i].and \subseteq (i + 1)..(Len(s) + 1)
<1> DEFINE n == Len(s) + 1
           V == [or : SUBSET (1..n), and : SUBSET (1..n)]
           Both(f, i) == [or |-> OrBy(s, f, i), and |-> AndBy(s, f, i)]
           None0 == [or |-> {}, and |-> {}]
           G == [i \in 1..n |-> [h \in [(i + 1)..n -> V] |->
                    IF FarFrom(n, h, i + 1) THEN Both(h, i) ELSE None0]]
           Bounded(f, i) == f[i].or \subseteq (i + 1)..n /\ f[i].and \subseteq (i + 1)..n
<1>1. n \in Nat
  OBVIOUS
<1>2. \A i \in 1..n : \A f : FarFrom(n, f, i + 1) =>
        OrBy(s, f, i) \subseteq (i + 1)..n /\ AndBy(s, f, i) \subseteq (i + 1)..n
  BY LabelStep
<1>3. ASSUME NEW i \in 1..n, NEW f, NEW g, FarFrom(n, f, i + 1), \A j \in (i + 1)..n : g[j] = f[j]
      PROVE  Both(g, i) = Both(f, i)
  <2>1. OrBy(s, g, i) = OrBy(s, f, i) /\ AndBy(s, g, i) = AndBy(s, f, i)
    BY <1>3, LabelStep
  <2> QED BY <2>1
<1> HIDE DEF n
<1>4. ASSUME NEW f, \A i \in 1..n : FarFrom(n, f, i + 1) => Bounded(f, i)
      PROVE  \A i \in 1..n : FarFrom(n, f, i + 1) /\ Bounded(f, i)
  <2> DEFINE P == {i \in 1..n : Bounded(f, i)}
  <2>1. \A i \in 1..n : (\A j \in (i + 1)..n : j \in P) => FarFrom(n, f, i + 1)
    BY DEF FarFrom
  <2>2. \A i \in 1..n : (\A j \in (i + 1)..n : j \in P) => i \in P
    <3> HIDE DEF Bounded
    <3> SUFFICES ASSUME NEW i \in 1..n, \A j \in (i + 1)..n : j \in P PROVE Bounded(f, i)
      OBVIOUS
    <3> QED BY <1>4, <2>1
  <2>3. \A i \in 1..n : i \in P
    <3> HIDE DEF P
    <3> QED BY <1>1, <2>2, Backwards
  <2> QED BY <2>1, <2>3, <1>1
<1>5. LooksAhead(n, V, G)
  <2> SUFFICES ASSUME NEW i \in 1..n, NEW h \in [(i + 1)..n -> V]
               PROVE  (IF FarFrom(n, h, i + 1) THEN Both(h, i) ELSE None0) \in V
    BY DEF LooksAhead
  <2>1. FarFrom(n, h, i + 1) => OrBy(s, h, i) \subseteq 1..n /\ AndBy(s, h, i) \subseteq 1..n
    BY <1>2, <1>1
  <2> QED BY <2>1
<1>6. PICK f \in [1..n -> V] : Solves(n, V, G, f)
  <2> HIDE DEF G, V
  <2> QED BY <1>1, <1>5, LookAhead
<1>7. \A i \in 1..n : \E h \in [(i + 1)..n -> V] :
        /\ f[i] = IF FarFrom(n, h, i + 1) THEN Both(h, i) ELSE None0
        /\ \A j \in (i + 1)..n : h[j] = f[j]
  <2> SUFFICES ASSUME NEW i \in 1..n
               PROVE  \E h \in [(i + 1)..n -> V] :
                        /\ f[i] = IF FarFrom(n, h, i + 1) THEN Both(h, i) ELSE None0
                        /\ \A j \in (i + 1)..n : h[j] = f[j]
    OBVIOUS
  <2>1. PICK h \in [(i + 1)..n -> V] : f[i] = G[i][h] /\ \A j \in (i + 1)..n : h[j] = f[j]
    BY <1>6 DEF Solves
  <2> HIDE DEF Both, V, None0
  <2>2. G[i][h] = IF FarFrom(n, h, i + 1) THEN Both(h, i) ELSE None0
    OBVIOUS
  <2> QED BY <2>1, <2>2
<1>8. \A i \in 1..n : Bounded(f, i)
  <2>1. \A i \in 1..n : FarFrom(n, f, i + 1) => Bounded(f, i)
    <3> SUFFICES ASSUME NEW i \in 1..n PROVE Bounded(f, i)
      OBVIOUS
    <3>1. PICK h \in [(i + 1)..n -> V] : f[i] = IF FarFrom(n, h, i + 1) THEN Both(h, i) ELSE None0
      BY <1>7
    <3>2. CASE FarFrom(n, h, i + 1)
      BY <3>1, <3>2, <1>2
    <3>3. CASE ~FarFrom(n, h, i + 1)
      BY <3>1, <3>3
    <3> QED BY <3>2, <3>3
  <2> HIDE DEF Bounded
  <2> QED BY <2>1, <1>4
<1>9. \A i \in 1..n : f[i] = Both(f, i)
  <2> SUFFICES ASSUME NEW i \in 1..n PROVE f[i] = Both(f, i)
    OBVIOUS
  <2>1. PICK h \in [(i + 1)..n -> V] :
          /\ f[i] = IF FarFrom(n, h, i + 1) THEN Both(h, i) ELSE None0
          /\ \A j \in (i + 1)..n : h[j] = f[j]
    BY <1>7
  <2>2. FarFrom(n, h, i + 1) /\ FarFrom(n, f, i + 1)
    BY <1>8, <2>1, <1>1 DEF FarFrom
  <2> HIDE DEF Both
  <2>3. Both(h, i) = Both(f, i)
    BY <2>1, <2>2, <1>3
  <2> QED BY <2>1, <2>2, <2>3
<1>10. f = [i \in 1..(Len(s) + 1) |-> Both(f, i)]
  <2> HIDE DEF Both
  <2> QED BY <1>9 DEF n
<1>11. LabelEnd(s) = [i \in 1..(Len(s) + 1) |-> Both(LabelEnd(s), i)]
  <2>1. \E g : g = [i \in 1..(Len(s) + 1) |-> Both(g, i)]
    BY <1>10, Zenon
  <2> QED BY <2>1, LabelEndUnfolds
<1> DEFINE ends == LabelEnd(s)
<1>12. \A i \in 1..n : ends[i] = Both(ends, i)
  <2> HIDE DEF Both
  <2> QED BY <1>11 DEF n
<1>13. \A i \in 1..n : FarFrom(n, ends, i + 1) => Bounded(ends, i)
  <2> SUFFICES ASSUME NEW i \in 1..n, FarFrom(n, ends, i + 1) PROVE Bounded(ends, i)
    OBVIOUS
  <2>1. ends[i].or = OrBy(s, ends, i) /\ ends[i].and = AndBy(s, ends, i)
    <3> HIDE DEF ends, Both
    <3>1. ends[i] = Both(ends, i)
      BY <1>12
    <3> QED BY <3>1 DEF Both
  <2>2. OrBy(s, ends, i) \subseteq (i + 1)..n /\ AndBy(s, ends, i) \subseteq (i + 1)..n
    <3> HIDE DEF ends
    <3> QED BY <1>2
  <2> QED BY <2>1, <2>2
<1>14. \A i \in 1..n : Bounded(ends, i)
  <2> HIDE DEF Bounded, ends
  <2> QED BY <1>13, <1>4
<1> QED BY <1>12, <1>14 DEF n

-----------------------------------------------------------------------------
(* Every scanner ends at a token it has seen, and starts at one of its own. *)

LEMMA LabelIsAhead ==
    ASSUME NEW s \in Seq(Kinds), NEW i \in 1..Len(s)
    PROVE  /\ LabelPredicateEnd(s, i) \subseteq i..Len(s)
           /\ RelationshipLabelEnd(s, i) \subseteq i..Len(s)
           /\ LabelPredicateEnd(s, i) # {} => s[i] \in {"Colon", "Is"}
<1>1. LabelEnd(s)[i + 1].or \subseteq ((i + 1) + 1)..(Len(s) + 1)
  <2>1. i + 1 \in 1..(Len(s) + 1)
    OBVIOUS
  <2> QED BY <2>1, LabelEndIs
<1>2. LabelPredicateEnd(s, i) \subseteq i..Len(s)
  <2> SUFFICES ASSUME NEW e \in LabelEnd(s)[i + 1].or PROVE e - 1 \in i..Len(s)
    BY DEF LabelPredicateEnd
  <2> QED BY <1>1
<1>3. LabelPredicateEnd(s, i) # {} => s[i] \in {"Colon", "Is"}
  BY DEF LabelPredicateEnd, Kind
<1>4. RelationshipLabelEnd(s, i) \subseteq LabelPredicateEnd(s, i)
  BY DEF RelationshipLabelEnd
<1> QED BY <1>2, <1>3, <1>4

LEMMA PatternIsAhead ==
    ASSUME NEW s \in Seq(Kinds), NEW i \in 1..Len(s)
    PROVE  PatternExpressionEnd(s, i) \subseteq i..Len(s)
<1> SUFFICES ASSUME NEW e \in PatternExpressionEnd(s, i) PROVE e \in i..Len(s)
  OBVIOUS
<1>1. PICK first \in NodeEnd(s, i) : e \in PathEnd(s)[first]
  BY DEF PatternExpressionEnd
<1>2. first \in (i + 1)..Len(s)
  BY NodeIsAhead
<1>3. PathEnd(s)[first] \subseteq first..Len(s)
  BY <1>2, PathEndIs
<1> QED BY <1>1, <1>2, <1>3

\* The kinds of the tokens at which the rules start a run.
Starters(rule) ==
    CASE rule = "Parameter" -> {"Dollar"}
      [] rule = "PatternComprehension" -> {"LeftBracket"}
      [] rule = "PatternExpression" -> {"LeftParen"}
      [] rule = "RelationshipLabelExpression" -> {"Colon"}
      [] rule = "LabelPredicate" -> {"Colon", "Is"}
      [] rule = "QualifiedFunctionName" -> SymbolicNames

RuleNames == {"Parameter", "PatternComprehension", "PatternExpression",
              "RelationshipLabelExpression", "LabelPredicate", "QualifiedFunctionName"}

LEMMA RulesNamed == DOMAIN Rules = 1..6 /\ \A r \in DOMAIN Rules : Rules[r] \in RuleNames
BY DEF Rules, RuleNames

LEMMA SourceTyped ==
    ASSUME IsSource(source)
    PROVE  /\ tokens \in Seq(Kinds) /\ Len(tokens) \in Nat /\ DOMAIN tokens = 1..Len(tokens)
           /\ source.boundary \in Nat /\ source.boundary <= Len(tokens)
           /\ source.boundary # NoPipe => source.nested /\ tokens[source.boundary] = "Pipe"
<1>1. tokens \in Seq(Kinds)
  BY DEF IsSource, tokens
<1>2. Len(tokens) \in Nat /\ DOMAIN tokens = 1..Len(tokens)
  BY <1>1
<1> QED BY <1>1, <1>2 DEF IsSource, tokens, NoPipe

(* What a scan may see is a beginning of the tokens that ends before the    *)
(* reserved pipe if it starts before it.                                    *)
LEMMA ScanTyped ==
    ASSUME IsSource(source), NEW i \in 1..Len(tokens)
    PROVE  /\ Scan(i) \in Seq(Kinds) /\ Len(Scan(i)) \in i..Len(tokens)
           /\ \A k \in 1..Len(Scan(i)) : Scan(i)[k] = tokens[k]
           /\ source.boundary # NoPipe /\ i < source.boundary => Len(Scan(i)) = source.boundary - 1
<1>1. /\ tokens \in Seq(Kinds) /\ Len(tokens) \in Nat
      /\ source.boundary \in Nat /\ source.boundary <= Len(tokens)
  BY SourceTyped
<1>2. CASE source.boundary # NoPipe /\ i < source.boundary
  <2>1. Scan(i) = SubSeq(tokens, 1, source.boundary - 1)
    BY <1>2 DEF Scan
  <2> QED BY <1>1, <1>2, <2>1
<1>3. CASE ~(source.boundary # NoPipe /\ i < source.boundary)
  <2>1. Scan(i) = tokens
    BY <1>3 DEF Scan
  <2> QED BY <1>1, <1>3, <2>1
<1> QED BY <1>2, <1>3

(* No rule can make the parser index past its tokens, and none sees beyond  *)
(* the reserved pipe from before it.                                        *)
LEMMA EndsAreTokens ==
    ASSUME IsSource(source), NEW i \in 1..Len(tokens), NEW rule \in RuleNames
    PROVE  /\ End(rule, i) \subseteq i..Len(Scan(i))
           /\ End(rule, i) # {} => tokens[i] \in Starters(rule)
<1> DEFINE s == Scan(i)
<1>1. s \in Seq(Kinds) /\ i \in 1..Len(s) /\ s[i] = tokens[i] /\ Len(s) \in Nat
  BY ScanTyped, SourceTyped
<1> HIDE DEF s
<1>2. CASE rule = "Parameter"
  <2>1. End(rule, i) = EscapedParameterEnd(s, i)
    BY <1>2 DEF End, s
  <2>2. \A e \in EscapedParameterEnd(s, i) : e = i + 1 /\ s[i] = "Dollar" /\ Kind(s, e) # "None"
    BY DEF EscapedParameterEnd
  <2>3. \A e \in EscapedParameterEnd(s, i) : e \in i..Len(s)
    BY <1>1, <2>2, KindOfToken
  <2> QED BY <1>1, <1>2, <2>1, <2>2, <2>3 DEF Starters, s
<1>3. CASE rule = "PatternComprehension"
  <2>1. End(rule, i) \subseteq PatternComprehensionEnd(s, i)
    BY <1>3 DEF End, s
  <2>2. \A e \in PatternComprehensionEnd(s, i) : e \in (i + 1)..Len(s) /\ s[i] = "LeftBracket"
    BY DEF PatternComprehensionEnd
  <2> QED BY <1>1, <1>3, <2>1, <2>2 DEF Starters, s
<1>4. CASE rule = "PatternExpression"
  <2>1. End(rule, i) \subseteq PatternExpressionEnd(s, i) /\ (End(rule, i) # {} => tokens[i] = "LeftParen")
    BY <1>4 DEF End, s
  <2>2. PatternExpressionEnd(s, i) \subseteq i..Len(s)
    BY <1>1, PatternIsAhead
  <2> QED BY <1>4, <2>1, <2>2 DEF Starters, s
<1>5. CASE rule = "RelationshipLabelExpression"
  <2>1. End(rule, i) \subseteq RelationshipLabelEnd(s, i)
        /\ (End(rule, i) # {} => IsRelationshipLabelStart(tokens, i))
    BY <1>5 DEF End, s
  <2>2. RelationshipLabelEnd(s, i) \subseteq i..Len(s)
    BY <1>1, LabelIsAhead
  <2>3. IsRelationshipLabelStart(tokens, i) => tokens[i] = "Colon"
    BY DEF IsRelationshipLabelStart
  <2> QED BY <1>5, <2>1, <2>2, <2>3 DEF Starters, s
<1>6. CASE rule = "LabelPredicate"
  <2>1. End(rule, i) \subseteq LabelPredicateEnd(s, i)
    BY <1>6 DEF End, s
  <2>2. LabelPredicateEnd(s, i) \subseteq i..Len(s)
        /\ (LabelPredicateEnd(s, i) # {} => s[i] \in {"Colon", "Is"})
    BY <1>1, LabelIsAhead
  <2> QED BY <1>1, <1>6, <2>1, <2>2 DEF Starters, s
<1>7. CASE rule = "QualifiedFunctionName"
  <2>1. End(rule, i) \subseteq QualifiedFunctionNameEnd(s, i)
    BY <1>7 DEF End, s
  <2>2. \A e \in QualifiedFunctionNameEnd(s, i) :
          e \in (i + 2)..Len(s) /\ \A k \in i..e : (k - i) % 2 = 0 => s[k] \in SymbolicNames
    BY DEF QualifiedFunctionNameEnd
  <2>3. (i - i) % 2 = 0
    OBVIOUS
  <2>4. \A e \in QualifiedFunctionNameEnd(s, i) : e \in i..Len(s) /\ s[i] \in SymbolicNames
    BY <1>1, <2>2, <2>3
  <2> QED BY <1>1, <1>7, <2>1, <2>4 DEF Starters, s
<1> QED BY <1>2, <1>3, <1>4, <1>5, <1>6, <1>7 DEF RuleNames

-----------------------------------------------------------------------------
(* Delimiters that nest.                                                    *)

\* The openers and the closers of a pair in a range.
Opened(s, p, a, b) == Number(s, {p[1]}, a, b)
Closed(s, p, a, b) == Number(s, {p[2]}, a, b)

StaysOpenIn(s, p, a, b) == \A k \in a..b : Closed(s, p, a, k) <= Opened(s, p, a, k)

\* Balanced of any tokens, and what WellNested says of two delimiters that
\* belong together.
BalancedIn(s, a, b) ==
    \A p \in Pairs : StaysOpenIn(s, p, a, b) /\ Opened(s, p, a, b) = Closed(s, p, a, b)

NestsIn(s) ==
    \A p \in Pairs, i, j \in DOMAIN s :
        (/\ i < j /\ s[i] = p[1] /\ s[j] = p[2]
         /\ StaysOpenIn(s, p, i + 1, j - 1) /\ Opened(s, p, i, j) = Closed(s, p, i, j)) =>
            BalancedIn(s, i, j)

LEMMA NestingIs ==
    /\ WellNested => NestsIn(tokens)
    /\ \A a, b : BalancedIn(tokens, a, b) <=> Balanced(a, b)
<1>1. \A p, a, b : StaysOpenIn(tokens, p, a, b) <=> StaysOpen(tokens, p[1], p[2], a, b)
  BY Zenon DEF StaysOpenIn, StaysOpen, Opened, Closed
<1>2. \A a, b : BalancedIn(tokens, a, b) <=> Balanced(a, b)
  BY <1>1, Zenon DEF BalancedIn, Balanced, Opened, Closed
<1>3. WellNested => NestsIn(tokens)
  BY <1>1, <1>2, Zenon DEF WellNested, NestsIn, Opened, Closed
<1> QED BY <1>2, <1>3

LEMMA PairsApart ==
    /\ \A p \in Pairs : p[1] # p[2] /\ p[1] \in Openers /\ p[2] \in Closers
    /\ \A p, q \in Pairs : p # q => p[1] # q[1] /\ p[2] # q[2]
    /\ \A p, q \in Pairs : p[1] # q[2]
BY DEF Pairs, Openers, Closers

(* Openers and closers of a range, by its parts.                            *)
LEMMA CountsSplit ==
    ASSUME NEW s, NEW p, NEW a \in Int, NEW b \in Int
    PROVE  /\ Opened(s, p, a, b) \in Nat /\ Closed(s, p, a, b) \in Nat
           /\ b < a => Opened(s, p, a, b) = 0 /\ Closed(s, p, a, b) = 0
           /\ \A m \in (a - 1)..b :
                /\ Opened(s, p, a, b) = Opened(s, p, a, m) + Opened(s, p, m + 1, b)
                /\ Closed(s, p, a, b) = Closed(s, p, a, m) + Closed(s, p, m + 1, b)
<1> DEFINE o == {p[1]}
           c == {p[2]}
<1>1. \A x, y : Opened(s, p, x, y) = Number(s, o, x, y) /\ Closed(s, p, x, y) = Number(s, c, x, y)
  BY DEF Opened, Closed
<1> HIDE DEF o, c
<1>2. /\ Number(s, o, a, b) \in Nat
      /\ b < a => Number(s, o, a, b) = 0
      /\ \A m \in (a - 1)..b : Number(s, o, a, b) = Number(s, o, a, m) + Number(s, o, m + 1, b)
  BY NumberSplits
<1>3. /\ Number(s, c, a, b) \in Nat
      /\ b < a => Number(s, c, a, b) = 0
      /\ \A m \in (a - 1)..b : Number(s, c, a, b) = Number(s, c, a, m) + Number(s, c, m + 1, b)
  BY NumberSplits
<1> QED BY <1>1, <1>2, <1>3

LEMMA CountsOne ==
    ASSUME NEW s, NEW p, NEW a \in Int
    PROVE  /\ Opened(s, p, a, a) = IF s[a] = p[1] THEN 1 ELSE 0
           /\ Closed(s, p, a, a) = IF s[a] = p[2] THEN 1 ELSE 0
<1> DEFINE o == p[1]
           c == p[2]
<1>1. Opened(s, p, a, a) = Number(s, {o}, a, a) /\ Closed(s, p, a, a) = Number(s, {c}, a, a)
  BY DEF Opened, Closed
<1> HIDE DEF o, c
<1>2. Number(s, {o}, a, a) = IF s[a] = o THEN 1 ELSE 0
  BY NumberOfOne
<1>3. Number(s, {c}, a, a) = IF s[a] = c THEN 1 ELSE 0
  BY NumberOfOne
<1> QED BY <1>1, <1>2, <1>3, Zenon DEF o, c

(* What is balanced in two parts is balanced.                               *)
LEMMA BalanceJoins ==
    ASSUME NEW s, NEW a \in Int, NEW b \in Int, NEW m \in (a - 1)..b,
           BalancedIn(s, a, m), BalancedIn(s, m + 1, b)
    PROVE  BalancedIn(s, a, b)
<1> SUFFICES ASSUME NEW p \in Pairs
             PROVE  /\ \A k \in a..b : Closed(s, p, a, k) <= Opened(s, p, a, k)
                    /\ Opened(s, p, a, b) = Closed(s, p, a, b)
  BY DEF BalancedIn, StaysOpenIn
<1> DEFINE O(x, y) == Opened(s, p, x, y)
           C(x, y) == Closed(s, p, x, y)
<1>1. \A x, y \in Int : O(x, y) \in Nat /\ C(x, y) \in Nat
  BY CountsSplit
<1>2. \A y \in Int : m <= y =>
        O(a, y) = O(a, m) + O(m + 1, y) /\ C(a, y) = C(a, m) + C(m + 1, y)
  <2> SUFFICES ASSUME NEW y \in Int, m <= y
               PROVE  O(a, y) = O(a, m) + O(m + 1, y) /\ C(a, y) = C(a, m) + C(m + 1, y)
    OBVIOUS
  <2>1. m \in (a - 1)..y
    OBVIOUS
  <2> QED BY <2>1, CountsSplit
<1>3. /\ \A k \in a..m : C(a, k) <= O(a, k)
      /\ \A k \in (m + 1)..b : C(m + 1, k) <= O(m + 1, k)
      /\ O(a, m) = C(a, m) /\ O(m + 1, b) = C(m + 1, b)
  BY DEF BalancedIn, StaysOpenIn
<1> HIDE DEF O, C
<1>4. O(a, b) = C(a, b)
  BY <1>2, <1>3
<1>5. \A k \in a..b : C(a, k) <= O(a, k)
  <2> SUFFICES ASSUME NEW k \in a..b PROVE C(a, k) <= O(a, k)
    OBVIOUS
  <2>1. CASE k <= m
    BY <2>1, <1>3
  <2>2. CASE k > m
    <3>1. O(a, k) = O(a, m) + O(m + 1, k) /\ C(a, k) = C(a, m) + C(m + 1, k)
      BY <2>2, <1>2
    <3>2. C(m + 1, k) <= O(m + 1, k)
      BY <2>2, <1>3
    <3>3. O(a, m) \in Nat /\ C(a, m) \in Nat /\ O(m + 1, k) \in Nat /\ C(m + 1, k) \in Nat
      <4>1. m \in Int /\ m + 1 \in Int /\ k \in Int
        OBVIOUS
      <4> QED BY <4>1, <1>1, Zenon
    <3> QED BY <3>1, <3>2, <3>3, <1>3
  <2> QED BY <2>1, <2>2
<1> QED BY <1>4, <1>5 DEF O, C

(* Tokens that are no delimiters are balanced, and so is nothing.           *)
LEMMA PlainBalanced ==
    ASSUME NEW s, NEW a \in Int, NEW b \in Int, \A k \in a..b : s[k] \notin Openers \cup Closers
    PROVE  BalancedIn(s, a, b)
<1>1. \A p \in Pairs : \A k \in a..b : s[k] # p[1] /\ s[k] # p[2]
  BY PairsApart
<1>2. ASSUME NEW d, NEW k \in Int, k <= b, \A i \in a..b : s[i] # d
      PROVE  Number(s, {d}, a, k) = 0
  <2>1. {i \in a..k : s[i] \in {d}} = {}
    BY <1>2
  <2> QED BY <2>1, FS_EmptySet DEF Number
<1>3. ASSUME NEW p \in Pairs, NEW k \in Int, k <= b
      PROVE  Opened(s, p, a, k) = 0 /\ Closed(s, p, a, k) = 0
  <2> DEFINE o == p[1]
             c == p[2]
  <2>1. Opened(s, p, a, k) = Number(s, {o}, a, k) /\ Closed(s, p, a, k) = Number(s, {c}, a, k)
    BY DEF Opened, Closed
  <2>2. \A i \in a..b : s[i] # o /\ s[i] # c
    BY <1>1
  <2> HIDE DEF o, c
  <2>3. Number(s, {o}, a, k) = 0
    BY <1>2, <1>3, <2>2
  <2>4. Number(s, {c}, a, k) = 0
    BY <1>2, <1>3, <2>2
  <2> QED BY <2>1, <2>3, <2>4
<1> SUFFICES ASSUME NEW p \in Pairs
             PROVE  /\ \A k \in a..b : Closed(s, p, a, k) <= Opened(s, p, a, k)
                    /\ Opened(s, p, a, b) = Closed(s, p, a, b)
  BY DEF BalancedIn, StaysOpenIn
<1>4. \A k \in a..b : Closed(s, p, a, k) <= Opened(s, p, a, k)
  <2> SUFFICES ASSUME NEW k \in a..b PROVE Closed(s, p, a, k) <= Opened(s, p, a, k)
    OBVIOUS
  <2>1. Closed(s, p, a, k) = 0 /\ Opened(s, p, a, k) = 0
    BY <1>3
  <2> QED BY <2>1
<1> QED BY <1>3, <1>4

(* One token more changes a count by one at most.                           *)
LEMMA CountsStep ==
    ASSUME NEW s, NEW p \in Pairs, NEW a \in Int, NEW k \in Int, a <= k
    PROVE  /\ Opened(s, p, a, k) = Opened(s, p, a, k - 1) + IF s[k] = p[1] THEN 1 ELSE 0
           /\ Closed(s, p, a, k) = Closed(s, p, a, k - 1) + IF s[k] = p[2] THEN 1 ELSE 0
<1>1. k - 1 \in (a - 1)..k /\ (k - 1) + 1 = k
  OBVIOUS
<1>2. /\ Opened(s, p, a, k) = Opened(s, p, a, k - 1) + Opened(s, p, (k - 1) + 1, k)
      /\ Closed(s, p, a, k) = Closed(s, p, a, k - 1) + Closed(s, p, (k - 1) + 1, k)
  BY <1>1, CountsSplit
<1>3. Opened(s, p, k, k) = IF s[k] = p[1] THEN 1 ELSE 0
  BY CountsOne
<1>4. Closed(s, p, k, k) = IF s[k] = p[2] THEN 1 ELSE 0
  BY CountsOne
<1> QED BY <1>1, <1>2, <1>3, <1>4

(* Counted from a token on, the token apart from what follows it.           *)
LEMMA CountsFrom ==
    ASSUME NEW s, NEW p \in Pairs, NEW a \in Int, NEW k \in Int, a <= k
    PROVE  /\ Opened(s, p, a, k) = (IF s[a] = p[1] THEN 1 ELSE 0) + Opened(s, p, a + 1, k)
           /\ Closed(s, p, a, k) = (IF s[a] = p[2] THEN 1 ELSE 0) + Closed(s, p, a + 1, k)
<1>1. a \in (a - 1)..k
  OBVIOUS
<1>2. /\ Opened(s, p, a, k) = Opened(s, p, a, a) + Opened(s, p, a + 1, k)
      /\ Closed(s, p, a, k) = Closed(s, p, a, a) + Closed(s, p, a + 1, k)
  BY <1>1, CountsSplit
<1>3. Opened(s, p, a, a) = IF s[a] = p[1] THEN 1 ELSE 0
  BY CountsOne
<1>4. Closed(s, p, a, a) = IF s[a] = p[2] THEN 1 ELSE 0
  BY CountsOne
<1> QED BY <1>2, <1>3, <1>4

(* The first token up to which an opener is made up for is its closer, and  *)
(* in tokens that nest what lies between them is balanced.                  *)
LEMMA FirstClose ==
    ASSUME NEW s \in Seq(Kinds), NestsIn(s), NEW p \in Pairs, NEW c \in DOMAIN s, NEW j \in c..Len(s),
           s[c] = p[1], Opened(s, p, c, j) <= Closed(s, p, c, j),
           \A k \in c..(j - 1) : Closed(s, p, c, k) < Opened(s, p, c, k)
    PROVE  s[j] = p[2] /\ BalancedIn(s, c, j)
<1> DEFINE O(k) == Opened(s, p, c, k)
           C(k) == Closed(s, p, c, k)
<1>1. c \in Int /\ j \in Int /\ c <= j /\ j \in DOMAIN s /\ p[1] # p[2]
  BY PairsApart
<1>2. \A k \in Int : O(k) \in Nat /\ C(k) \in Nat
  BY <1>1, CountsSplit
<1>3. O(c) = 1 /\ C(c) = 0
  <2>1. Opened(s, p, c, c) = IF s[c] = p[1] THEN 1 ELSE 0
    BY <1>1, CountsOne
  <2>2. Closed(s, p, c, c) = IF s[c] = p[2] THEN 1 ELSE 0
    BY <1>1, CountsOne
  <2> QED BY <2>1, <2>2, <1>1
<1>4. j # c
  <2> HIDE DEF O, C
  <2>1. O(j) <= C(j)
    BY DEF O, C
  <2> QED BY <2>1, <1>3
<1>5. /\ O(j) = O(j - 1) + IF s[j] = p[1] THEN 1 ELSE 0
      /\ C(j) = C(j - 1) + IF s[j] = p[2] THEN 1 ELSE 0
  BY <1>1, CountsStep
<1>6. C(j - 1) < O(j - 1) /\ O(j) <= C(j)
  BY <1>1, <1>4
<1>7. s[j] = p[2] /\ O(j) = C(j)
  <2>1. O(j - 1) \in Nat /\ C(j - 1) \in Nat
    BY <1>1, <1>2
  <2> HIDE DEF O, C
  <2> QED BY <2>1, <1>1, <1>5, <1>6
<1>8. StaysOpenIn(s, p, c + 1, j - 1)
  <2> SUFFICES ASSUME NEW k \in (c + 1)..(j - 1)
               PROVE  Closed(s, p, c + 1, k) <= Opened(s, p, c + 1, k)
    BY DEF StaysOpenIn
  <2>1. k \in Int /\ c <= k /\ k \in c..(j - 1) /\ c + 1 \in Int
    BY <1>1
  <2>2. /\ O(k) = (IF s[c] = p[1] THEN 1 ELSE 0) + Opened(s, p, c + 1, k)
        /\ C(k) = (IF s[c] = p[2] THEN 1 ELSE 0) + Closed(s, p, c + 1, k)
    BY <2>1, <1>1, CountsFrom
  <2>3. C(k) < O(k)
    BY <2>1
  <2>4. Opened(s, p, c + 1, k) \in Nat /\ Closed(s, p, c + 1, k) \in Nat
    BY <2>1, CountsSplit
  <2> HIDE DEF O, C
  <2> QED BY <2>2, <2>3, <2>4, <1>1
<1>9. c < j
  BY <1>1, <1>4
<1> QED BY <1>1, <1>7, <1>8, <1>9 DEF NestsIn

(* What MatchingDelimiter pairs is balanced.                                *)
LEMMA MatchBalanced ==
    ASSUME NEW s \in Seq(Kinds), NestsIn(s), NEW p \in Pairs, NEW i \in Nat \ {0},
           NEW j \in MatchingDelimiter(s, i, p[1], p[2])
    PROVE  BalancedIn(s, i, j)
<1> DEFINE O(k) == Opened(s, p, i, k)
           C(k) == Closed(s, p, i, k)
<1>1. /\ j \in i..Len(s) /\ s[i] = p[1] /\ O(j) = C(j)
      /\ \A k \in i..(j - 1) : O(k) # C(k)
  <2> DEFINE o == p[1]
             c == p[2]
  <2>1. \A k : O(k) = Number(s, {o}, i, k) /\ C(k) = Number(s, {c}, i, k)
    BY DEF Opened, Closed
  <2>2. j \in MatchingDelimiter(s, i, o, c) /\ o = p[1]
    OBVIOUS
  <2> HIDE DEF o, c, O, C
  <2>3. /\ j \in i..Len(s) /\ s[i] = o /\ Number(s, {o}, i, j) = Number(s, {c}, i, j)
        /\ \A k \in i..(j - 1) : Number(s, {o}, i, k) # Number(s, {c}, i, k)
    BY <2>2 DEF MatchingDelimiter
  <2>4. s[i] = p[1]
    BY <2>2, <2>3
  <2> QED BY <2>1, <2>3, <2>4, Zenon
<1>2. i \in DOMAIN s /\ i \in Int /\ j \in Int /\ p[1] # p[2]
  BY <1>1, PairsApart
<1>3. \A k \in Int : O(k) \in Nat /\ C(k) \in Nat
  BY <1>2, CountsSplit
<1>4. \A k \in Int : i <= k => O(k) >= O(k - 1) /\ C(k) <= C(k - 1) + 1
  <2> SUFFICES ASSUME NEW k \in Int, i <= k PROVE O(k) >= O(k - 1) /\ C(k) <= C(k - 1) + 1
    OBVIOUS
  <2>1. /\ O(k) = O(k - 1) + IF s[k] = p[1] THEN 1 ELSE 0
        /\ C(k) = C(k - 1) + IF s[k] = p[2] THEN 1 ELSE 0
    BY <1>2, CountsStep
  <2>2. O(k - 1) \in Nat /\ C(k - 1) \in Nat
    <3>1. k - 1 \in Int
      OBVIOUS
    <3> QED BY <3>1, <1>3
  <2> HIDE DEF O, C
  <2> QED BY <2>1, <2>2
<1>5. O(i) = 1 /\ C(i) = 0
  <2>1. Opened(s, p, i, i) = IF s[i] = p[1] THEN 1 ELSE 0
    BY <1>2, CountsOne
  <2>2. Closed(s, p, i, i) = IF s[i] = p[2] THEN 1 ELSE 0
    BY <1>2, CountsOne
  <2> QED BY <2>1, <2>2, <1>1, <1>2
<1> DEFINE S == {k \in i..(j - 1) : O(k) <= C(k)}
<1>6. S = {}
  <2> SUFFICES ASSUME S # {} PROVE FALSE
    OBVIOUS
  <2> DEFINE m == Min(S)
  <2>1. S \subseteq Nat
    BY <1>2
  <2>2. m \in S /\ \A x \in S : m <= x
    <3> HIDE DEF S
    <3> QED BY <2>1, MinIsLeast
  <2> HIDE DEF m, O, C
  <2>3. m \in i..(j - 1) /\ O(m) < C(m) /\ m \in Int
    <3>1. m \in i..(j - 1) /\ O(m) <= C(m) /\ m \in Int
      BY <2>2, <1>2
    <3>2. O(m) # C(m)
      BY <3>1, <1>1
    <3>3. O(m) \in Nat /\ C(m) \in Nat
      BY <3>1, <1>3
    <3> QED BY <3>1, <3>2, <3>3
  <2>4. m # i
    BY <2>3, <1>5
  <2>5. m - 1 \in i..(j - 1) /\ m - 1 \in Int /\ m - 1 < m
    BY <2>3, <2>4, <1>2
  <2>6. m - 1 \notin S
    <3> HIDE DEF S
    <3> QED BY <2>2, <2>3, <2>5
  <2>7. ~(O(m - 1) <= C(m - 1)) /\ O(m - 1) \in Nat /\ C(m - 1) \in Nat
    BY <2>5, <2>6, <1>3
  <2>8. O(m) >= O(m - 1) /\ C(m) <= C(m - 1) + 1 /\ O(m) \in Nat /\ C(m) \in Nat
    BY <2>3, <1>2, <1>3, <1>4
  <2> QED BY <2>3, <2>7, <2>8
<1>7. \A k \in i..(j - 1) : C(k) < O(k)
  <2> SUFFICES ASSUME NEW k \in i..(j - 1) PROVE C(k) < O(k)
    OBVIOUS
  <2>1. ~(O(k) <= C(k)) /\ k \in Int
    BY <1>6, <1>2
  <2>2. O(k) \in Nat /\ C(k) \in Nat
    BY <2>1, <1>3
  <2> HIDE DEF O, C
  <2> QED BY <2>1, <2>2
<1>8. O(j) <= C(j)
  <2>1. O(j) \in Nat /\ C(j) \in Nat
    BY <1>2, <1>3
  <2> HIDE DEF O, C
  <2> QED BY <2>1, <1>1
<1> QED BY <1>1, <1>2, <1>7, <1>8, FirstClose

LEMMA ThePairs ==
    /\ <<"LeftParen", "RightParen">> \in Pairs /\ <<"LeftBracket", "RightBracket">> \in Pairs
    /\ <<"LeftBrace", "RightBrace">> \in Pairs
BY DEF Pairs

LEMMA NodeBalanced ==
    ASSUME NEW s \in Seq(Kinds), NestsIn(s), NEW i \in Nat \ {0}, NEW e \in NodeEnd(s, i)
    PROVE  BalancedIn(s, i, e)
<1> DEFINE p == <<"LeftParen", "RightParen">>
<1>1. p \in Pairs /\ p[1] = "LeftParen" /\ p[2] = "RightParen"
  BY ThePairs
<1>2. e \in MatchingDelimiter(s, i, p[1], p[2])
  BY <1>1 DEF NodeEnd
<1> HIDE DEF p
<1> QED BY <1>1, <1>2, MatchBalanced

(* A relationship is balanced.                                              *)
LEMMA RelationshipBalanced ==
    ASSUME NEW s \in Seq(Kinds), NestsIn(s), NEW i \in Nat \ {0}, NEW r \in RelationshipSyntaxEnd(s, i)
    PROVE  BalancedIn(s, i, r - 1)
<1> DEFINE head == IF Kind(s, i) \in {"Minus", "LeftArrow"} THEN {i + 1}
                   ELSE IF Kind(s, i) = "Less" /\ Kind(s, i + 1) = "Minus" THEN {i + 2}
                   ELSE {}
           detail == {c \in head : Kind(s, c) # "LeftBracket"} \cup
                     {e + 1 : e \in UNION {MatchingDelimiter(s, c, "LeftBracket", "RightBracket")
                                           : c \in head \cap DOMAIN s}}
           plain == {"Minus", "LeftArrow", "Less", "Greater", "RightArrow"}
<1>1. \A h \in head : h \in {i + 1, i + 2} /\ \A k \in i..(h - 1) : Kind(s, k) \in plain
  <2>1. CASE Kind(s, i) \in {"Minus", "LeftArrow"}
    BY <2>1
  <2>2. CASE Kind(s, i) \notin {"Minus", "LeftArrow"} /\ Kind(s, i) = "Less" /\ Kind(s, i + 1) = "Minus"
    <3>1. head = {i + 2}
      BY <2>2
    <3>2. \A k \in i..(i + 1) : Kind(s, k) \in plain
      BY <2>2
    <3> QED BY <3>1, <3>2
  <2>3. CASE Kind(s, i) \notin {"Minus", "LeftArrow"} /\ ~(Kind(s, i) = "Less" /\ Kind(s, i + 1) = "Minus")
    BY <2>3
  <2> QED BY <2>1, <2>2, <2>3
<1>2. RelationshipSyntaxEnd(s, i) =
        {c + 2 : c \in {c \in detail : Kind(s, c) = "Minus" /\ Kind(s, c + 1) = "Greater"}}
        \cup
        {c + 1 : c \in {c \in detail : \/ Kind(s, c) = "RightArrow"
                                       \/ Kind(s, c) = "Minus" /\ Kind(s, c + 1) # "Greater"}}
  BY DEF RelationshipSyntaxEnd
<1>3. \A c \in detail : c \in head \/
        \E h \in head : \E e \in MatchingDelimiter(s, h, "LeftBracket", "RightBracket") : c = e + 1
  OBVIOUS
<1>4. ASSUME NEW a \in Int, NEW b \in Int, \A k \in a..b : Kind(s, k) \in plain
      PROVE  BalancedIn(s, a, b)
  <2>1. \A k \in a..b : s[k] \notin Openers \cup Closers
    <3> SUFFICES ASSUME NEW k \in a..b PROVE s[k] \notin Openers \cup Closers
      OBVIOUS
    <3>1. Kind(s, k) \in plain /\ k \in Int
      BY <1>4
    <3>2. Kind(s, k) = s[k]
      BY <3>1, KindOfToken
    <3> QED BY <3>1, <3>2 DEF Openers, Closers
  <2> QED BY <2>1, PlainBalanced
<1> HIDE DEF head, detail
<1>5. ASSUME NEW c \in detail
      PROVE  c \in Int /\ c >= i + 1 /\ BalancedIn(s, i, c - 1)
  <2>1. \A h \in head : h \in Int /\ h - 1 \in Int /\ h >= i + 1 /\ BalancedIn(s, i, h - 1)
    <3> SUFFICES ASSUME NEW h \in head
                 PROVE  h \in Int /\ h - 1 \in Int /\ h >= i + 1 /\ BalancedIn(s, i, h - 1)
      OBVIOUS
    <3>1. h \in Int /\ h - 1 \in Int /\ h >= i + 1 /\ \A k \in i..(h - 1) : Kind(s, k) \in plain
      BY <1>1
    <3> HIDE DEF plain
    <3> QED BY <3>1, <1>4
  <2>2. CASE c \in head
    BY <2>1, <2>2
  <2>3. CASE c \notin head
    <3>1. PICK h \in head : \E e \in MatchingDelimiter(s, h, "LeftBracket", "RightBracket") : c = e + 1
      BY <1>3, <2>3
    <3>2. PICK e \in MatchingDelimiter(s, h, "LeftBracket", "RightBracket") : c = e + 1
      BY <3>1
    <3>3. h \in Nat \ {0} /\ h \in Int /\ h - 1 \in Int /\ h >= i + 1 /\ BalancedIn(s, i, h - 1)
      BY <2>1
    <3>4. e \in (h + 1)..Len(s)
      BY <3>2, <3>3, MatchingIsAhead
    <3>5. BalancedIn(s, h, e)
      <4> DEFINE p == <<"LeftBracket", "RightBracket">>
      <4>1. p \in Pairs /\ p[1] = "LeftBracket" /\ p[2] = "RightBracket"
        BY ThePairs
      <4> HIDE DEF p
      <4>2. e \in MatchingDelimiter(s, h, p[1], p[2])
        BY <3>2, <4>1
      <4> QED BY <3>3, <4>1, <4>2, MatchBalanced
    <3>6. e \in Int /\ c - 1 = e /\ h - 1 \in (i - 1)..e /\ (h - 1) + 1 = h
      BY <3>2, <3>3, <3>4
    <3>7. BalancedIn(s, i, e)
      BY <3>3, <3>5, <3>6, BalanceJoins
    <3> QED BY <3>2, <3>4, <3>6, <3>7, <3>3
  <2> QED BY <2>2, <2>3
<1>6. PICK c \in detail :
        \/ r = c + 2 /\ Kind(s, c) \in plain /\ Kind(s, c + 1) \in plain
        \/ r = c + 1 /\ Kind(s, c) \in plain
  <2>1. PICK c \in detail :
          \/ r = c + 2 /\ Kind(s, c) = "Minus" /\ Kind(s, c + 1) = "Greater"
          \/ r = c + 1 /\ Kind(s, c) \in {"RightArrow", "Minus"}
    BY <1>2
  <2> QED BY <2>1
<1>7. c \in Int /\ c >= i + 1 /\ BalancedIn(s, i, c - 1)
  BY <1>5
<1>8. r - 1 \in Int /\ c - 1 \in (i - 1)..(r - 1) /\ (c - 1) + 1 = c
  BY <1>6, <1>7
<1>9. \A k \in c..(r - 1) : Kind(s, k) \in plain
  <2> HIDE DEF plain
  <2> QED BY <1>6, <1>7
<1>10. BalancedIn(s, c, r - 1)
  <2> HIDE DEF plain
  <2> QED BY <1>4, <1>7, <1>8, <1>9
<1> QED BY <1>7, <1>8, <1>10, BalanceJoins

LEMMA QuantifierBalanced ==
    ASSUME NEW s \in Seq(Kinds), NestsIn(s), NEW i \in Nat \ {0}, NEW n \in AfterQuantifier(s, i)
    PROVE  BalancedIn(s, i, n - 1)
<1>1. CASE Kind(s, i) \in {"Star", "Plus", "Question"}
  <2>1. n = i + 1
    BY <1>1 DEF AfterQuantifier
  <2>2. s[i] = Kind(s, i)
    BY <1>1, KindOfToken
  <2>3. \A k \in i..(n - 1) : s[k] \notin Openers \cup Closers
    BY <2>1, <2>2, <1>1 DEF Openers, Closers
  <2> QED BY <2>1, <2>3, PlainBalanced
<1>2. CASE Kind(s, i) = "LeftBrace"
  <2> DEFINE p == <<"LeftBrace", "RightBrace">>
  <2>1. p \in Pairs /\ p[1] = "LeftBrace" /\ p[2] = "RightBrace"
    BY ThePairs
  <2>2. PICK e \in MatchingDelimiter(s, i, "LeftBrace", "RightBrace") : n = e + 1
    BY <1>2 DEF AfterQuantifier
  <2>3. e \in (i + 1)..Len(s)
    BY <2>2, MatchingIsAhead
  <2>4. e \in MatchingDelimiter(s, i, p[1], p[2])
    BY <2>1
  <2> HIDE DEF p
  <2>5. BalancedIn(s, i, e)
    BY <2>1, <2>4, MatchBalanced
  <2>6. n - 1 = e
    BY <2>2, <2>3
  <2> QED BY <2>5, <2>6
<1>3. CASE Kind(s, i) \notin {"Star", "Plus", "Question", "LeftBrace"}
  <2>1. n = i
    BY <1>3 DEF AfterQuantifier
  <2>2. \A k \in i..(n - 1) : s[k] \notin Openers \cup Closers
    BY <2>1
  <2> QED BY <2>1, <2>2, PlainBalanced
<1> QED BY <1>1, <1>2, <1>3

(* From a node to the end of the next one all is balanced.                  *)
LEMMA NextBalanced ==
    ASSUME NEW s \in Seq(Kinds), NestsIn(s), NEW e \in 1..Len(s), NEW m \in NextNode(s, e)
    PROVE  BalancedIn(s, e + 1, m)
<1>1. PICK r \in RelationshipSyntaxEnd(s, e + 1) : \E n \in AfterQuantifier(s, r) : m \in NodeEnd(s, n)
  BY DEF NextNode, HopEnd
<1>2. PICK n \in AfterQuantifier(s, r) : m \in NodeEnd(s, n)
  BY <1>1
<1>3. r \in (e + 2)..(Len(s) + 1)
  <2>1. RelationshipSyntaxEnd(s, e + 1) \subseteq ((e + 1) + 1)..(Len(s) + 1)
    BY RelationshipIsAhead
  <2> QED BY <2>1
<1>4. n \in r..(Len(s) + 1)
  <2>1. AfterQuantifier(s, r) \subseteq r..(Len(s) + 1)
    BY <1>3, QuantifierIsAhead
  <2> QED BY <2>1, <1>2
<1>5. m \in (n + 1)..Len(s)
  BY <1>2, <1>4, NodeIsAhead
<1>6. /\ e + 1 \in Nat \ {0} /\ r \in Nat \ {0} /\ n \in Nat \ {0}
      /\ r - 1 \in Int /\ n - 1 \in Int /\ m \in Int /\ e + 1 \in Int
      /\ (r - 1) + 1 = r /\ (n - 1) + 1 = n
      /\ r - 1 \in ((e + 1) - 1)..(n - 1) /\ n - 1 \in ((e + 1) - 1)..m
  BY <1>3, <1>4, <1>5
<1>7. BalancedIn(s, e + 1, r - 1)
  BY <1>1, <1>6, RelationshipBalanced
<1>8. BalancedIn(s, r, n - 1)
  BY <1>2, <1>6, QuantifierBalanced
<1>9. BalancedIn(s, n, m)
  BY <1>2, <1>6, NodeBalanced
<1>10. BalancedIn(s, e + 1, n - 1)
  BY <1>6, <1>7, <1>8, BalanceJoins
<1> QED BY <1>6, <1>9, <1>10, BalanceJoins

LEMMA NothingBalanced ==
    ASSUME NEW s, NEW e \in Int
    PROVE  BalancedIn(s, e + 1, e)
<1>1. \A k \in (e + 1)..e : s[k] \notin Openers \cup Closers
  OBVIOUS
<1> QED BY <1>1, PlainBalanced

LEMMA PatternBalanced ==
    ASSUME NEW s \in Seq(Kinds), NestsIn(s), NEW i \in 1..Len(s), NEW x \in PatternExpressionEnd(s, i)
    PROVE  BalancedIn(s, i, x)
<1> DEFINE n == Len(s)
           P == {e \in 1..n : \A y \in PathEnd(s)[e] : BalancedIn(s, e + 1, y)}
<1>1. n \in Nat
  OBVIOUS
<1>2. \A e \in 1..n : (\A j \in (e + 1)..n : j \in P) => e \in P
  <2> SUFFICES ASSUME NEW e \in 1..n, \A j \in (e + 1)..n : j \in P, NEW y \in PathEnd(s)[e]
               PROVE  BalancedIn(s, e + 1, y)
    OBVIOUS
  <2>1. y = e \/ \E m \in NextNode(s, e) : y \in PathEnd(s)[m]
    <3>1. PathEnd(s)[e] = {z \in {e} : IsLastNode(s, z)} \cup UNION {PathEnd(s)[m] : m \in NextNode(s, e)}
      BY PathEndIs
    <3> QED BY <3>1
  <2>2. CASE y = e
    BY <2>2, NothingBalanced
  <2>3. ASSUME NEW m \in NextNode(s, e), y \in PathEnd(s)[m]
        PROVE  BalancedIn(s, e + 1, y)
    <3>1. m \in (e + 1)..n
      BY NextIsAhead
    <3>2. y \in m..n
      BY <3>1, <2>3, PathEndIs
    <3>3. BalancedIn(s, m + 1, y)
      BY <3>1, <2>3
    <3>4. BalancedIn(s, e + 1, m)
      BY NextBalanced
    <3>5. e + 1 \in Int /\ y \in Int /\ m \in ((e + 1) - 1)..y
      BY <3>1, <3>2
    <3> QED BY <3>3, <3>4, <3>5, BalanceJoins
  <2> QED BY <2>1, <2>2, <2>3
<1>3. \A e \in 1..n : e \in P
  <2> HIDE DEF n, P
  <2> QED BY <1>1, <1>2, Backwards
<1>4. PICK first \in NodeEnd(s, i) : x \in PathEnd(s)[first]
  BY DEF PatternExpressionEnd
<1>5. first \in (i + 1)..n
  BY <1>4, NodeIsAhead
<1>6. x \in first..n
  BY <1>4, <1>5, PathEndIs
<1>7. BalancedIn(s, first + 1, x)
  BY <1>3, <1>4, <1>5
<1>8. BalancedIn(s, i, first)
  BY <1>4, NodeBalanced
<1>9. i \in Int /\ x \in Int /\ first \in (i - 1)..x
  BY <1>5, <1>6
<1> QED BY <1>7, <1>8, <1>9, BalanceJoins

(* Between an opener and its closer all is balanced: so is the whole.       *)
LEMMA ParenthesesBalanced ==
    ASSUME NEW s \in Seq(Kinds), NestsIn(s), NEW c \in 1..Len(s), NEW e \in (c + 1)..Len(s),
           s[c] = "LeftParen", s[e] = "RightParen", BalancedIn(s, c + 1, e - 1)
    PROVE  BalancedIn(s, c, e)
<1> DEFINE p == <<"LeftParen", "RightParen">>
<1>1. p \in Pairs /\ p[1] = "LeftParen" /\ p[2] = "RightParen"
  BY ThePairs
<1> HIDE DEF p
<1>2. s[c] = p[1] /\ s[e] = p[2] /\ s[c] # p[2] /\ s[e] # p[1]
  BY <1>1
<1>3. c \in Int /\ e \in Int /\ c + 1 \in Int /\ e - 1 \in Int /\ c <= e /\ c + 1 <= e
      /\ c < e /\ c \in DOMAIN s /\ e \in DOMAIN s
  OBVIOUS
<1>4. /\ Opened(s, p, c, e) = 1 + Opened(s, p, c + 1, e)
      /\ Closed(s, p, c, e) = 0 + Closed(s, p, c + 1, e)
  BY <1>1, <1>2, <1>3, CountsFrom
<1>5. /\ Opened(s, p, c + 1, e) = Opened(s, p, c + 1, e - 1) + 0
      /\ Closed(s, p, c + 1, e) = Closed(s, p, c + 1, e - 1) + 1
  BY <1>1, <1>2, <1>3, CountsStep
<1>6. StaysOpenIn(s, p, c + 1, e - 1)
      /\ Opened(s, p, c + 1, e - 1) = Closed(s, p, c + 1, e - 1)
  BY <1>1 DEF BalancedIn
<1>7. Opened(s, p, c + 1, e - 1) \in Nat /\ Closed(s, p, c + 1, e - 1) \in Nat
  BY <1>3, CountsSplit
<1>8. Opened(s, p, c, e) = Closed(s, p, c, e)
  BY <1>4, <1>5, <1>6, <1>7
<1> QED BY <1>1, <1>2, <1>3, <1>6, <1>8 DEF NestsIn

(* Two balanced parts with tokens between them that are no delimiters.      *)
LEMMA BalanceBridges ==
    ASSUME NEW s, NEW a \in Int, NEW e \in Int, NEW f \in Int, NEW b \in Int,
           a <= e, e <= f, f <= b + 1,
           BalancedIn(s, a, e - 1), \A k \in e..(f - 1) : s[k] \notin Openers \cup Closers,
           BalancedIn(s, f, b)
    PROVE  BalancedIn(s, a, b)
<1>1. e - 1 \in Int /\ f - 1 \in Int /\ (e - 1) + 1 = e /\ (f - 1) + 1 = f
      /\ e - 1 \in (a - 1)..(f - 1) /\ f - 1 \in (a - 1)..b
  OBVIOUS
<1>2. BalancedIn(s, e, f - 1)
  BY <1>1, PlainBalanced
<1>3. BalancedIn(s, a, f - 1)
  BY <1>1, <1>2, BalanceJoins
<1> QED BY <1>1, <1>3, BalanceJoins

(* What a label expression takes is balanced.                               *)
LEMMA LabelPartsBalanced ==
    ASSUME NEW s \in Seq(Kinds), NestsIn(s)
    PROVE  \A i \in 1..(Len(s) + 1) :
             \A x \in LabelEnd(s)[i].or \cup LabelEnd(s)[i].and : BalancedIn(s, i, x - 1)
<1> DEFINE n == Len(s) + 1
           f == LabelEnd(s)
           P == {i \in 1..n : \A x \in f[i].or \cup f[i].and : BalancedIn(s, i, x - 1)}
<1>1. n \in Nat /\ n = Len(s) + 1
  OBVIOUS
<1>2. \A i \in 1..n : /\ f[i].or = OrBy(s, f, i) /\ f[i].and = AndBy(s, f, i)
                      /\ f[i].or \subseteq (i + 1)..n /\ f[i].and \subseteq (i + 1)..n
  <2> SUFFICES ASSUME NEW i \in 1..n
               PROVE  /\ f[i].or = OrBy(s, f, i) /\ f[i].and = AndBy(s, f, i)
                      /\ f[i].or \subseteq (i + 1)..n /\ f[i].and \subseteq (i + 1)..n
    OBVIOUS
  <2>1. /\ LabelEnd(s)[i] = [or |-> OrBy(s, LabelEnd(s), i), and |-> AndBy(s, LabelEnd(s), i)]
        /\ LabelEnd(s)[i].or \subseteq (i + 1)..(Len(s) + 1)
        /\ LabelEnd(s)[i].and \subseteq (i + 1)..(Len(s) + 1)
    BY LabelEndIs
  <2> QED BY <2>1
<1>3. \A k \in Int : Kind(s, k) # "None" => k \in 1..(n - 1) /\ Kind(s, k) = s[k]
  BY <1>1, KindOfToken
<1> HIDE DEF f, n
<1>4. \A i \in 1..n : (\A j \in (i + 1)..n : j \in P) => i \in P
  <2> SUFFICES ASSUME NEW i \in 1..n, \A j \in (i + 1)..n : j \in P PROVE i \in P
    OBVIOUS
  <2> DEFINE c == LabelHead(s, i)
             delimiters == Openers \cup Closers
  <2>1. \A j \in (i + 1)..n : \A x \in f[j].or \cup f[j].and :
          x \in (j + 1)..n /\ BalancedIn(s, j, x - 1)
    <3> SUFFICES ASSUME NEW j \in (i + 1)..n, NEW x \in f[j].or \cup f[j].and
                 PROVE  x \in (j + 1)..n /\ BalancedIn(s, j, x - 1)
      OBVIOUS
    <3>1. j \in 1..n /\ j \in P
      BY <1>1
    <3> QED BY <3>1, <1>2
  <2>2. c \in i..(i + 1) /\ \A k \in i..(c - 1) : s[k] \notin delimiters
    <3>1. CASE Kind(s, i) = "Bang"
      <4>1. c = i + 1 /\ s[i] = "Bang"
        BY <3>1, <1>3 DEF LabelHead
      <4> QED BY <4>1 DEF Openers, Closers
    <3>2. CASE Kind(s, i) # "Bang"
      BY <3>2 DEF LabelHead
    <3> QED BY <3>1, <3>2
  <2> HIDE DEF c, P
  <2>3. BalancedIn(s, i, c - 1)
    BY <2>2, PlainBalanced
  <2>4. \A x \in PrimaryBy(s, f, i) : x \in (i + 1)..n /\ BalancedIn(s, i, x - 1)
    <3> SUFFICES ASSUME NEW x \in PrimaryBy(s, f, i)
                 PROVE  x \in (i + 1)..n /\ BalancedIn(s, i, x - 1)
      OBVIOUS
    <3>1. CASE Kind(s, c) \in SymbolicNames \cup {"Percent"}
      <4>1. x = c + 1
        BY <3>1 DEF PrimaryBy, c
      <4>2. Kind(s, c) # "None" /\ Kind(s, c) \notin delimiters
        BY <3>1 DEF SymbolicNames, Keywords, Openers, Closers
      <4>3. c \in 1..(n - 1) /\ s[c] \notin delimiters
        BY <4>2, <2>2, <1>3
      <4>4. \A k \in i..(x - 1) : s[k] \notin delimiters
        BY <4>1, <4>3, <2>2
      <4>5. x \in (i + 1)..n /\ x - 1 \in Int
        BY <4>1, <4>3, <2>2, <1>1
      <4> QED BY <4>4, <4>5, PlainBalanced
    <3>2. CASE Kind(s, c) = "LeftParen"
      <4>1. PICK e \in f[c + 1].or : Kind(s, e) = "RightParen" /\ x = e + 1
        BY <3>2 DEF PrimaryBy, c, SymbolicNames, Keywords
      <4>2. c \in 1..(n - 1) /\ s[c] = "LeftParen" /\ c + 1 \in (i + 1)..n
        BY <3>2, <2>2, <1>1, <1>3
      <4>3. e \in (c + 2)..n /\ BalancedIn(s, c + 1, e - 1)
        BY <2>1, <4>1, <4>2
      <4>4. e \in (c + 1)..(n - 1) /\ s[e] = "RightParen"
        BY <4>1, <4>2, <4>3, <1>1, <1>3
      <4>5. BalancedIn(s, c, e)
        <5>1. c \in 1..Len(s) /\ e \in (c + 1)..Len(s)
          BY <4>2, <4>4, <1>1
        <5> QED BY <5>1, <4>2, <4>3, <4>4, ParenthesesBalanced
      <4>6. c - 1 \in (i - 1)..e /\ (c - 1) + 1 = c /\ e \in Int /\ x - 1 = e
        BY <4>1, <4>2, <4>4, <2>2
      <4>7. BalancedIn(s, i, e)
        BY <4>5, <4>6, <2>3, BalanceJoins
      <4>8. x \in (i + 1)..n
        BY <4>1, <4>2, <4>4, <2>2, <1>1
      <4> QED BY <4>6, <4>7, <4>8
    <3>3. CASE Kind(s, c) \notin SymbolicNames \cup {"Percent", "LeftParen"}
      BY <3>3 DEF PrimaryBy, c
    <3> QED BY <3>1, <3>2, <3>3
  <2>5. \A x \in AndBy(s, f, i) : x \in (i + 1)..n /\ BalancedIn(s, i, x - 1)
    <3> SUFFICES ASSUME NEW x \in AndBy(s, f, i)
                 PROVE  x \in (i + 1)..n /\ BalancedIn(s, i, x - 1)
      OBVIOUS
    <3>1. PICK e \in PrimaryBy(s, f, i) :
             x \in IF Kind(s, e) \in {"Ampersand", "Colon"} THEN f[e + 1].and ELSE {e}
      BY DEF AndBy
    <3>2. e \in (i + 1)..n /\ BalancedIn(s, i, e - 1)
      BY <2>4
    <3>3. CASE Kind(s, e) \in {"Ampersand", "Colon"}
      <4>1. e \in 1..(n - 1) /\ s[e] \in {"Ampersand", "Colon"}
        BY <3>2, <3>3, <1>3
      <4>2. e + 1 \in (i + 1)..n /\ x \in f[e + 1].and
        BY <3>1, <3>2, <3>3, <4>1, <1>1
      <4>3. x \in (e + 2)..n /\ BalancedIn(s, e + 1, x - 1)
        BY <2>1, <4>2, <3>2
      <4>4. \A k \in e..((e + 1) - 1) : s[k] \notin delimiters
        BY <4>1 DEF Openers, Closers
      <4>5. i \in Int /\ e \in Int /\ e + 1 \in Int /\ x - 1 \in Int /\ i <= e /\ e <= e + 1
            /\ e + 1 <= (x - 1) + 1
        BY <3>2, <4>3
      <4> HIDE DEF delimiters
      <4>6. BalancedIn(s, i, x - 1)
        BY <3>2, <4>3, <4>4, <4>5, BalanceBridges DEF delimiters
      <4> QED BY <4>3, <4>6, <3>2
    <3>4. CASE Kind(s, e) \notin {"Ampersand", "Colon"}
      BY <3>1, <3>2, <3>4
    <3> QED BY <3>3, <3>4
  <2>6. \A x \in OrBy(s, f, i) : x \in (i + 1)..n /\ BalancedIn(s, i, x - 1)
    <3> SUFFICES ASSUME NEW x \in OrBy(s, f, i)
                 PROVE  x \in (i + 1)..n /\ BalancedIn(s, i, x - 1)
      OBVIOUS
    <3>1. PICK e \in AndBy(s, f, i) :
             x \in IF Kind(s, e) # "Pipe" THEN {e}
                   ELSE f[IF Kind(s, e + 1) = "Colon" THEN e + 2 ELSE e + 1].or
      BY DEF OrBy
    <3>2. e \in (i + 1)..n /\ BalancedIn(s, i, e - 1)
      BY <2>5
    <3>3. CASE Kind(s, e) = "Pipe"
      <4> DEFINE b == IF Kind(s, e + 1) = "Colon" THEN e + 2 ELSE e + 1
      <4>1. e \in 1..(n - 1) /\ s[e] = "Pipe"
        BY <3>2, <3>3, <1>3
      <4>2. b \in (e + 1)..n /\ \A k \in e..(b - 1) : s[k] \notin delimiters
        <5>1. CASE Kind(s, e + 1) = "Colon"
          <6>1. e + 1 \in 1..(n - 1) /\ s[e + 1] = "Colon" /\ b = e + 2
            BY <5>1, <3>2, <1>3
          <6> QED BY <6>1, <4>1, <3>2, <1>1 DEF Openers, Closers
        <5>2. CASE Kind(s, e + 1) # "Colon"
          <6>1. b = e + 1
            BY <5>2
          <6> QED BY <6>1, <4>1, <3>2, <1>1 DEF Openers, Closers
        <5> QED BY <5>1, <5>2
      <4>3. x \in f[b].or
        BY <3>1, <3>3
      <4> HIDE DEF b
      <4>4. b \in (i + 1)..n
        BY <4>2, <3>2
      <4>5. x \in (b + 1)..n /\ BalancedIn(s, b, x - 1)
        BY <2>1, <4>3, <4>4
      <4>6. i \in Int /\ e \in Int /\ b \in Int /\ x - 1 \in Int /\ i <= e /\ e <= b
            /\ b <= (x - 1) + 1
        BY <3>2, <4>2, <4>5
      <4> HIDE DEF delimiters
      <4>7. BalancedIn(s, i, x - 1)
        BY <3>2, <4>2, <4>5, <4>6, BalanceBridges DEF delimiters
      <4> QED BY <4>5, <4>7, <4>4
    <3>4. CASE Kind(s, e) # "Pipe"
      BY <3>1, <3>2, <3>4
    <3> QED BY <3>3, <3>4
  <2> QED BY <2>5, <2>6, <1>2 DEF P
<1>5. \A i \in 1..n : i \in P
  <2> HIDE DEF P
  <2> QED BY <1>1, <1>4, Backwards
<1> QED BY <1>5 DEF n, f

LEMMA LabelBalanced ==
    ASSUME NEW s \in Seq(Kinds), NestsIn(s), NEW i \in 1..Len(s), NEW e \in LabelPredicateEnd(s, i)
    PROVE  BalancedIn(s, i, e)
<1>1. PICK x \in LabelEnd(s)[i + 1].or : e = x - 1
  BY DEF LabelPredicateEnd
<1>2. i + 1 \in 1..(Len(s) + 1)
  OBVIOUS
<1>3. x \in ((i + 1) + 1)..(Len(s) + 1)
  <2>1. LabelEnd(s)[i + 1].or \subseteq ((i + 1) + 1)..(Len(s) + 1)
    BY <1>2, LabelEndIs
  <2> QED BY <1>1, <2>1
<1>4. BalancedIn(s, i + 1, x - 1)
  BY <1>1, <1>2, LabelPartsBalanced
<1>5. s[i] \in {"Colon", "Is"}
  BY LabelIsAhead
<1>6. \A k \in i..i : s[k] \notin Openers \cup Closers
  BY <1>5 DEF Openers, Closers
<1>7. BalancedIn(s, i, i)
  BY <1>6, PlainBalanced
<1>8. i \in Int /\ x - 1 \in Int /\ i \in (i - 1)..(x - 1)
  BY <1>3
<1> QED BY <1>1, <1>4, <1>7, <1>8, BalanceJoins

(* How deep a counter that saturates stands: what it holds is the largest   *)
(* surplus of openers in what it has read last.                             *)
LEMMA DepthIs ==
    ASSUME NEW s, NEW p \in Pairs, NEW a \in Int, NEW b \in Int
    PROVE  /\ Depth(s, p[1], p[2], a, b) \in Nat
           /\ \A k \in a..b : Opened(s, p, k, b) - Closed(s, p, k, b) <= Depth(s, p[1], p[2], a, b)
           /\ \/ Depth(s, p[1], p[2], a, b) = 0
              \/ \E k \in a..b :
                   Depth(s, p[1], p[2], a, b) = Opened(s, p, k, b) - Closed(s, p, k, b)
<1> DEFINE O(k) == Opened(s, p, k, b)
           C(k) == Closed(s, p, k, b)
           S == {0} \cup {O(k) - C(k) : k \in a..b}
<1>1. \A k \in a..b : O(k) \in Nat /\ C(k) \in Nat /\ O(k) <= O(a)
  <2> SUFFICES ASSUME NEW k \in a..b PROVE O(k) \in Nat /\ C(k) \in Nat /\ O(k) <= O(a)
    OBVIOUS
  <2>1. k \in Int /\ k - 1 \in (a - 1)..b /\ (k - 1) + 1 = k /\ k - 1 \in Int
    OBVIOUS
  <2>2. O(k) \in Nat /\ C(k) \in Nat
    BY <2>1, CountsSplit
  <2>3. O(a) = Opened(s, p, a, k - 1) + O(k)
    BY <2>1, CountsSplit
  <2>4. Opened(s, p, a, k - 1) \in Nat
    BY <2>1, CountsSplit
  <2> HIDE DEF O, C
  <2> QED BY <2>2, <2>3, <2>4
<1>2. O(a) \in Nat
  BY CountsSplit
<1>3. \A x \in S : x \in Int /\ x <= O(a)
  <2> SUFFICES ASSUME NEW x \in S PROVE x \in Int /\ x <= O(a)
    OBVIOUS
  <2> HIDE DEF O, C
  <2> QED BY <1>1, <1>2
<1>4. S # {} /\ O(a) \in Int
  BY <1>2
<1>5. Depth(s, p[1], p[2], a, b) = Max(S)
  BY Zenon DEF Depth, Opened, Closed
<1>6. Max(S) \in S /\ \A x \in S : Max(S) >= x
  <2> HIDE DEF S, O
  <2> QED BY <1>3, <1>4, MaxIsGreatest
<1>7. Max(S) \in Nat
  <2> DEFINE m == Max(S)
  <2>1. m \in S /\ m >= 0
    BY <1>6
  <2>2. m \in Int
    <3> HIDE DEF m, S
    <3> QED BY <2>1, <1>3
  <2> HIDE DEF m
  <2>3. m \in Nat
    BY <2>1, <2>2
  <2> QED BY <2>3 DEF m
<1>8. \A k \in a..b : O(k) - C(k) <= Max(S)
  <2> SUFFICES ASSUME NEW k \in a..b PROVE O(k) - C(k) <= Max(S)
    OBVIOUS
  <2> DEFINE m == Max(S)
  <2>1. O(k) - C(k) \in S
    OBVIOUS
  <2>2. m >= O(k) - C(k)
    <3> HIDE DEF S, O, C
    <3> QED BY <2>1, <1>6
  <2>3. O(k) \in Nat /\ C(k) \in Nat /\ m \in Nat
    BY <1>1, <1>7
  <2> HIDE DEF O, C, m
  <2>4. O(k) - C(k) <= m
    BY <2>2, <2>3
  <2> QED BY <2>4 DEF m
<1>9. Max(S) = 0 \/ \E k \in a..b : Max(S) = O(k) - C(k)
  <2> HIDE DEF O, C
  <2> QED BY <1>6
<1> HIDE DEF S
<1> QED BY <1>5, <1>7, <1>8, <1>9

(* Within a bracket that is closed at m, the brackets are one deep just     *)
(* before m and the other delimiters are not open there.                    *)
LEMMA TopAtMatch ==
    ASSUME NEW s \in Seq(Kinds), NEW i \in 1..Len(s), NEW m \in (i + 1)..Len(s),
           BalancedIn(s, i, m), s[m] = "RightBracket"
    PROVE  AtTop(s, i, m)
<1>1. i \in Int /\ m \in Int /\ m - 1 \in Int /\ i <= m - 1
  OBVIOUS
<1>2. ASSUME NEW p \in Pairs, NEW k \in i..(m - 1)
      PROVE  /\ Opened(s, p, i, m - 1) = Opened(s, p, i, k - 1) + Opened(s, p, k, m - 1)
             /\ Closed(s, p, i, m - 1) = Closed(s, p, i, k - 1) + Closed(s, p, k, m - 1)
             /\ Opened(s, p, i, k - 1) \in Nat /\ Closed(s, p, i, k - 1) \in Nat
             /\ Opened(s, p, k, m - 1) \in Nat /\ Closed(s, p, k, m - 1) \in Nat
             /\ (k = i => Opened(s, p, i, k - 1) = 0 /\ Closed(s, p, i, k - 1) = 0)
             /\ (k # i => Closed(s, p, i, k - 1) <= Opened(s, p, i, k - 1))
  <2>1. k \in Int /\ k - 1 \in Int /\ k - 1 \in (i - 1)..(m - 1) /\ (k - 1) + 1 = k
        /\ (k = i => k - 1 < i) /\ (k # i => k - 1 \in i..m)
    BY <1>1
  <2>2. /\ Opened(s, p, i, m - 1) = Opened(s, p, i, k - 1) + Opened(s, p, (k - 1) + 1, m - 1)
        /\ Closed(s, p, i, m - 1) = Closed(s, p, i, k - 1) + Closed(s, p, (k - 1) + 1, m - 1)
    BY <1>1, <2>1, CountsSplit
  <2>3. /\ Opened(s, p, i, k - 1) \in Nat /\ Closed(s, p, i, k - 1) \in Nat
        /\ (k = i => Opened(s, p, i, k - 1) = 0 /\ Closed(s, p, i, k - 1) = 0)
    BY <1>1, <2>1, CountsSplit
  <2>4. Opened(s, p, k, m - 1) \in Nat /\ Closed(s, p, k, m - 1) \in Nat
    BY <1>1, <2>1, CountsSplit
  <2>5. StaysOpenIn(s, p, i, m)
    BY DEF BalancedIn
  <2>6. k # i => Closed(s, p, i, k - 1) <= Opened(s, p, i, k - 1)
    BY <2>1, <2>5 DEF StaysOpenIn
  <2>7. /\ Opened(s, p, i, m - 1) = Opened(s, p, i, k - 1) + Opened(s, p, k, m - 1)
        /\ Closed(s, p, i, m - 1) = Closed(s, p, i, k - 1) + Closed(s, p, k, m - 1)
    BY <2>1, <2>2, Zenon
  <2> QED BY <2>3, <2>4, <2>6, <2>7
<1>3. ASSUME NEW p \in Pairs
      PROVE  /\ Opened(s, p, i, m) = Opened(s, p, i, m - 1) + IF s[m] = p[1] THEN 1 ELSE 0
             /\ Closed(s, p, i, m) = Closed(s, p, i, m - 1) + IF s[m] = p[2] THEN 1 ELSE 0
             /\ Opened(s, p, i, m) = Closed(s, p, i, m)
             /\ Opened(s, p, i, m - 1) \in Nat /\ Closed(s, p, i, m - 1) \in Nat
  <2>1. i <= m
    BY <1>1
  <2>2. /\ Opened(s, p, i, m) = Opened(s, p, i, m - 1) + IF s[m] = p[1] THEN 1 ELSE 0
        /\ Closed(s, p, i, m) = Closed(s, p, i, m - 1) + IF s[m] = p[2] THEN 1 ELSE 0
    BY <1>1, <2>1, CountsStep
  <2>3. Opened(s, p, i, m - 1) \in Nat /\ Closed(s, p, i, m - 1) \in Nat
    BY <1>1, CountsSplit
  <2>4. Opened(s, p, i, m) = Closed(s, p, i, m)
    BY DEF BalancedIn
  <2> QED BY <2>2, <2>3, <2>4
<1>4. ASSUME NEW p \in Pairs, p[1] # "LeftBracket", p[2] # "RightBracket"
      PROVE  Depth(s, p[1], p[2], i, m - 1) = 0
  <2>1. p[1] # "RightBracket"
    BY PairsApart, ThePairs
  <2>2. Opened(s, p, i, m - 1) = Closed(s, p, i, m - 1)
    BY <1>3, <1>4, <2>1
  <2>3. \A k \in i..(m - 1) : Opened(s, p, k, m - 1) - Closed(s, p, k, m - 1) <= 0
    <3> SUFFICES ASSUME NEW k \in i..(m - 1)
                 PROVE  Opened(s, p, k, m - 1) - Closed(s, p, k, m - 1) <= 0
      OBVIOUS
    <3> DEFINE o == Opened(s, p, k, m - 1)
               c == Closed(s, p, k, m - 1)
               o1 == Opened(s, p, i, k - 1)
               c1 == Closed(s, p, i, k - 1)
               o2 == Opened(s, p, i, m - 1)
               c2 == Closed(s, p, i, m - 1)
    <3>1. /\ o2 = o1 + o /\ c2 = c1 + c /\ o \in Nat /\ c \in Nat /\ o1 \in Nat /\ c1 \in Nat
          /\ (k = i => o1 = 0 /\ c1 = 0) /\ (k # i => c1 <= o1)
      BY <1>2
    <3>2. o2 = c2
      BY <2>2
    <3> HIDE DEF o, c, o1, c1, o2, c2
    <3>3. o - c <= 0
      BY <3>1, <3>2
    <3> QED BY <3>3 DEF o, c
  <2> DEFINE d == Depth(s, p[1], p[2], i, m - 1)
  <2>4. d \in Nat /\ (d = 0 \/ \E k \in i..(m - 1) : d = Opened(s, p, k, m - 1) - Closed(s, p, k, m - 1))
    BY <1>1, DepthIs
  <2> HIDE DEF d
  <2>5. d = 0
    BY <2>3, <2>4
  <2> QED BY <2>5 DEF d
<1>5. Depth(s, "LeftBracket", "RightBracket", i, m - 1) = 1
  <2> DEFINE p == <<"LeftBracket", "RightBracket">>
  <2>1. p \in Pairs /\ p[1] = "LeftBracket" /\ p[2] = "RightBracket"
    BY ThePairs
  <2> HIDE DEF p
  <2>2. Opened(s, p, i, m - 1) = Closed(s, p, i, m - 1) + 1
    BY <1>3, <2>1
  <2>3. \A k \in i..(m - 1) :
          /\ Opened(s, p, k, m - 1) - Closed(s, p, k, m - 1) <= 1
          /\ k = i => Opened(s, p, k, m - 1) - Closed(s, p, k, m - 1) = 1
    <3> SUFFICES ASSUME NEW k \in i..(m - 1)
                 PROVE  /\ Opened(s, p, k, m - 1) - Closed(s, p, k, m - 1) <= 1
                        /\ k = i => Opened(s, p, k, m - 1) - Closed(s, p, k, m - 1) = 1
      OBVIOUS
    <3> DEFINE o == Opened(s, p, k, m - 1)
               c == Closed(s, p, k, m - 1)
               o1 == Opened(s, p, i, k - 1)
               c1 == Closed(s, p, i, k - 1)
               o2 == Opened(s, p, i, m - 1)
               c2 == Closed(s, p, i, m - 1)
    <3>1. /\ o2 = o1 + o /\ c2 = c1 + c /\ o \in Nat /\ c \in Nat /\ o1 \in Nat /\ c1 \in Nat
          /\ (k = i => o1 = 0 /\ c1 = 0) /\ (k # i => c1 <= o1)
      BY <1>2, <2>1
    <3>2. o2 = c2 + 1
      BY <2>2
    <3> HIDE DEF o, c, o1, c1, o2, c2
    <3>3. o - c <= 1 /\ (k = i => o - c = 1)
      BY <3>1, <3>2
    <3> QED BY <3>3 DEF o, c
  <2> DEFINE d == Depth(s, p[1], p[2], i, m - 1)
  <2>4. /\ d \in Nat
        /\ \A k \in i..(m - 1) : Opened(s, p, k, m - 1) - Closed(s, p, k, m - 1) <= d
        /\ d = 0 \/ \E k \in i..(m - 1) : d = Opened(s, p, k, m - 1) - Closed(s, p, k, m - 1)
    BY <1>1, <2>1, DepthIs
  <2> HIDE DEF d
  <2>5. i \in i..(m - 1)
    BY <1>1
  <2>6. d = 1
    BY <2>3, <2>4, <2>5
  <2> QED BY <2>1, <2>6 DEF d
<1>6. Depth(s, "LeftParen", "RightParen", i, m - 1) = 0
  <2> DEFINE p == <<"LeftParen", "RightParen">>
  <2>1. p \in Pairs /\ p[1] = "LeftParen" /\ p[2] = "RightParen"
    BY ThePairs
  <2> HIDE DEF p
  <2>2. p[1] # "LeftBracket" /\ p[2] # "RightBracket"
    BY <2>1
  <2>3. Depth(s, p[1], p[2], i, m - 1) = 0
    BY <1>4, <2>1, <2>2
  <2> QED BY <2>1, <2>3
<1>7. Depth(s, "LeftBrace", "RightBrace", i, m - 1) = 0
  <2> DEFINE p == <<"LeftBrace", "RightBrace">>
  <2>1. p \in Pairs /\ p[1] = "LeftBrace" /\ p[2] = "RightBrace"
    BY ThePairs
  <2> HIDE DEF p
  <2>2. p[1] # "LeftBracket" /\ p[2] # "RightBracket"
    BY <2>1
  <2>3. Depth(s, p[1], p[2], i, m - 1) = 0
    BY <1>4, <2>1, <2>2
  <2> QED BY <2>1, <2>3
<1> QED BY <1>5, <1>6, <1>7 DEF AtTop

(* A pattern comprehension ends at the partner of its bracket, although the *)
(* scan that finds the end counts each kind of delimiter by itself.         *)
LEMMA ComprehensionBalanced ==
    ASSUME NEW s \in Seq(Kinds), NestsIn(s), NEW i \in 1..Len(s), NEW j \in PatternComprehensionEnd(s, i)
    PROVE  /\ BalancedIn(s, i, j)
           /\ s[i] = "LeftBracket" /\ s[j] = "RightBracket" /\ j \in (i + 1)..Len(s)
           /\ \A k \in i..(j - 1) :
                Closed(s, <<"LeftBracket", "RightBracket">>, i, k)
                  < Opened(s, <<"LeftBracket", "RightBracket">>, i, k)
<1> DEFINE p == <<"LeftBracket", "RightBracket">>
           ends == {x \in (i + 1)..Len(s) : s[x] = "RightBracket" /\ AtTop(s, i, x)}
<1>1. j \in ends /\ s[i] = "LeftBracket" /\ j = Min(ends)
  BY DEF PatternComprehensionEnd
<1>2. j \in (i + 1)..Len(s) /\ s[j] = "RightBracket" /\ AtTop(s, i, j) /\ \A x \in ends : j <= x
  <2>1. ends \subseteq Nat /\ ends # {}
    BY <1>1
  <2> HIDE DEF ends
  <2>2. \A x \in ends : Min(ends) <= x
    BY <2>1, MinIsLeast
  <2> QED BY <1>1, <2>2 DEF ends
<1>3. p \in Pairs /\ p[1] = "LeftBracket" /\ p[2] = "RightBracket" /\ p[1] # p[2]
  BY ThePairs
<1>4. i \in Int /\ j \in Int /\ j - 1 \in Int /\ i <= j - 1 /\ i \in DOMAIN s /\ i <= j
  BY <1>2
<1> HIDE DEF p
<1> DEFINE O(k) == Opened(s, p, i, k)
           C(k) == Closed(s, p, i, k)
           S == {k \in i..Len(s) : O(k) <= C(k)}
<1>5. \A k \in Int : O(k) \in Nat /\ C(k) \in Nat
  BY <1>4, CountsSplit
<1>6. \A k \in i..Len(s) : k \notin S => C(k) < O(k)
  <2> SUFFICES ASSUME NEW k \in i..Len(s), ~(O(k) <= C(k)) PROVE C(k) < O(k)
    OBVIOUS
  <2>1. O(k) \in Nat /\ C(k) \in Nat
    BY <1>5
  <2> HIDE DEF O, C
  <2> QED BY <2>1
<1>7. O(j - 1) - C(j - 1) <= 1
  <2> DEFINE d == Depth(s, p[1], p[2], i, j - 1)
  <2>1. d = 1
    BY <1>2, <1>3 DEF AtTop
  <2>2. \A k \in i..(j - 1) : Opened(s, p, k, j - 1) - Closed(s, p, k, j - 1) <= d
    BY <1>3, <1>4, DepthIs
  <2>3. i \in i..(j - 1)
    BY <1>4
  <2> HIDE DEF d
  <2> QED BY <2>1, <2>2, <2>3
<1>8. j \in S
  <2>1. /\ O(j) = O(j - 1) + IF s[j] = p[1] THEN 1 ELSE 0
        /\ C(j) = C(j - 1) + IF s[j] = p[2] THEN 1 ELSE 0
    BY <1>3, <1>4, CountsStep
  <2>2. O(j - 1) \in Nat /\ C(j - 1) \in Nat
    BY <1>4, <1>5
  <2> HIDE DEF O, C
  <2>3. O(j) <= C(j)
    BY <1>2, <1>3, <1>7, <2>1, <2>2
  <2> QED BY <2>3, <1>2
<1> DEFINE m == Min(S)
<1>9. m \in S /\ \A x \in S : m <= x
  <2>1. S \subseteq Nat /\ S # {}
    BY <1>8
  <2> HIDE DEF S
  <2> QED BY <2>1, MinIsLeast
<1> HIDE DEF m
<1>10. m \in i..Len(s) /\ m \in Int /\ O(m) <= C(m) /\ m <= j
  BY <1>4, <1>8, <1>9
<1>11. \A k \in i..(m - 1) : C(k) < O(k)
  <2> SUFFICES ASSUME NEW k \in i..(m - 1) PROVE C(k) < O(k)
    OBVIOUS
  <2>1. k \in i..Len(s) /\ k < m
    BY <1>10
  <2>2. k \notin S
    <3> HIDE DEF S
    <3> QED BY <2>1, <1>9, <1>10
  <2> HIDE DEF S, O, C
  <2> QED BY <2>1, <2>2, <1>6
<1>12. s[m] = p[2] /\ BalancedIn(s, i, m)
  BY <1>1, <1>3, <1>4, <1>10, <1>11, FirstClose
<1>13. m \in (i + 1)..Len(s)
  BY <1>1, <1>3, <1>10, <1>12
<1>14. m \in ends
  BY <1>3, <1>12, <1>13, TopAtMatch
<1>15. m = j
  <2> HIDE DEF ends
  <2> QED BY <1>2, <1>4, <1>10, <1>14
<1>16. \A k \in i..(j - 1) : Closed(s, p, i, k) < Opened(s, p, i, k)
  BY <1>11, <1>15
<1> QED BY <1>1, <1>2, <1>12, <1>15, <1>16 DEF p

(* A beginning of tokens that nest nests, and what is balanced in it is     *)
(* balanced in them.                                                        *)
LEMMA BeginningNests ==
    ASSUME NEW t \in Seq(Kinds), NEW s \in Seq(Kinds), Len(s) <= Len(t),
           \A k \in 1..Len(s) : s[k] = t[k]
    PROVE  /\ \A a \in Nat \ {0} : \A b \in Int : b <= Len(s) =>
                (BalancedIn(s, a, b) <=> BalancedIn(t, a, b))
           /\ NestsIn(t) => NestsIn(s)
<1>1. ASSUME NEW K, NEW a \in Nat \ {0}, NEW b \in Int, b <= Len(s)
      PROVE  Number(s, K, a, b) = Number(t, K, a, b)
  <2>1. \A k \in a..b : s[k] = t[k]
    BY <1>1
  <2>2. {k \in a..b : s[k] \in K} = {k \in a..b : t[k] \in K}
    BY <2>1
  <2> QED BY <2>2 DEF Number
<1>2. ASSUME NEW p \in Pairs, NEW a \in Nat \ {0}, NEW b \in Int, b <= Len(s)
      PROVE  Opened(s, p, a, b) = Opened(t, p, a, b)
             /\ Closed(s, p, a, b) = Closed(t, p, a, b)
  <2> DEFINE o == {p[1]}
             c == {p[2]}
  <2>1. \A x : Opened(x, p, a, b) = Number(x, o, a, b) /\ Closed(x, p, a, b) = Number(x, c, a, b)
    BY DEF Opened, Closed
  <2> HIDE DEF o, c
  <2>2. Number(s, o, a, b) = Number(t, o, a, b)
    BY <1>1, <1>2
  <2>3. Number(s, c, a, b) = Number(t, c, a, b)
    BY <1>1, <1>2
  <2> QED BY <2>1, <2>2, <2>3
<1>3. ASSUME NEW p \in Pairs, NEW a \in Nat \ {0}, NEW b \in Int, b <= Len(s)
      PROVE  StaysOpenIn(s, p, a, b) <=> StaysOpenIn(t, p, a, b)
  <2>1. \A k \in a..b : k \in Int /\ k <= Len(s)
    BY <1>3
  <2>2. \A k \in a..b : Opened(s, p, a, k) = Opened(t, p, a, k)
                        /\ Closed(s, p, a, k) = Closed(t, p, a, k)
    BY <2>1, <1>2
  <2> QED BY <2>2 DEF StaysOpenIn
<1>4. ASSUME NEW a \in Nat \ {0}, NEW b \in Int, b <= Len(s)
      PROVE  BalancedIn(s, a, b) <=> BalancedIn(t, a, b)
  <2>1. \A p \in Pairs : StaysOpenIn(s, p, a, b) <=> StaysOpenIn(t, p, a, b)
    BY <1>3, <1>4
  <2>2. \A p \in Pairs : Opened(s, p, a, b) = Opened(t, p, a, b)
                         /\ Closed(s, p, a, b) = Closed(t, p, a, b)
    BY <1>2, <1>4
  <2> QED BY <2>1, <2>2 DEF BalancedIn
<1>5. ASSUME NestsIn(t)
      PROVE  NestsIn(s)
  <2> SUFFICES ASSUME NEW p \in Pairs, NEW i \in DOMAIN s, NEW j \in DOMAIN s,
                      i < j, s[i] = p[1], s[j] = p[2],
                      StaysOpenIn(s, p, i + 1, j - 1),
                      Opened(s, p, i, j) = Closed(s, p, i, j)
               PROVE  BalancedIn(s, i, j)
    BY DEF NestsIn
  <2>1. i \in 1..Len(s) /\ j \in 1..Len(s) /\ i \in DOMAIN t /\ j \in DOMAIN t
        /\ i \in Nat \ {0} /\ j \in Int /\ j <= Len(s) /\ i + 1 \in Nat \ {0} /\ j - 1 \in Int
        /\ j - 1 <= Len(s)
    OBVIOUS
  <2>2. t[i] = p[1] /\ t[j] = p[2]
    BY <2>1
  <2>3. StaysOpenIn(t, p, i + 1, j - 1)
    BY <2>1, <1>3
  <2>4. Opened(t, p, i, j) = Closed(t, p, i, j)
    BY <2>1, <1>2
  <2>5. BalancedIn(t, i, j)
    BY <1>5, <2>1, <2>2, <2>3, <2>4 DEF NestsIn
  <2> QED BY <2>1, <2>5, <1>4
<1> QED BY <1>4, <1>5

(* Whatever rule merges a run of tokens that nest, the run is balanced.     *)
LEMMA EndsAreBalanced ==
    ASSUME IsSource(source), NestsIn(tokens), NEW i \in 1..Len(tokens), NEW rule \in RuleNames,
           NEW end \in End(rule, i)
    PROVE  BalancedIn(tokens, i, end)
<1> DEFINE s == Scan(i)
           delimiters == Openers \cup Closers
<1>1. /\ s \in Seq(Kinds) /\ i \in 1..Len(s) /\ s[i] = tokens[i] /\ Len(s) \in Nat
      /\ Len(s) <= Len(tokens) /\ \A k \in 1..Len(s) : s[k] = tokens[k]
  BY ScanTyped, SourceTyped
<1>2. end \in i..Len(s)
  BY EndsAreTokens
<1>3. tokens \in Seq(Kinds)
  BY SourceTyped
<1> HIDE DEF s
<1>4. NestsIn(s) /\ (BalancedIn(s, i, end) => BalancedIn(tokens, i, end))
  <2>1. i \in Nat \ {0} /\ end \in Int /\ end <= Len(s)
    BY <1>1, <1>2
  <2> QED BY <1>1, <1>3, <2>1, BeginningNests
<1>5. CASE rule = "Parameter"
  <2>1. end \in EscapedParameterEnd(s, i)
    BY <1>5 DEF End, s
  <2>2. end = i + 1 /\ s[i] = "Dollar" /\ Kind(s, end) = "EscapedIdentifier"
    BY <2>1 DEF EscapedParameterEnd
  <2>3. s[end] = "EscapedIdentifier"
    BY <1>1, <1>2, <2>2, KindOfToken
  <2>4. \A k \in i..end : s[k] \notin delimiters
    BY <1>1, <2>2, <2>3 DEF Openers, Closers
  <2> QED BY <1>1, <1>2, <1>4, <2>4, PlainBalanced
<1>6. CASE rule = "PatternComprehension"
  <2>1. end \in PatternComprehensionEnd(s, i)
    BY <1>6 DEF End, s
  <2>2. BalancedIn(s, i, end)
    BY <1>1, <1>4, <2>1, ComprehensionBalanced
  <2> QED BY <1>4, <2>2
<1>7. CASE rule = "PatternExpression"
  <2>1. end \in PatternExpressionEnd(s, i)
    BY <1>7 DEF End, s
  <2> QED BY <1>1, <1>4, <2>1, PatternBalanced
<1>8. CASE rule = "RelationshipLabelExpression"
  <2>1. end \in LabelPredicateEnd(s, i)
    BY <1>8 DEF End, RelationshipLabelEnd, s
  <2> QED BY <1>1, <1>4, <2>1, LabelBalanced
<1>9. CASE rule = "LabelPredicate"
  <2>1. end \in LabelPredicateEnd(s, i)
    BY <1>9 DEF End, s
  <2> QED BY <1>1, <1>4, <2>1, LabelBalanced
<1>10. CASE rule = "QualifiedFunctionName"
  <2>1. end \in QualifiedFunctionNameEnd(s, i)
    BY <1>10 DEF End, s
  <2>2. \A k \in i..end : s[k] \in SymbolicNames \cup {"Dot"}
    BY <2>1 DEF QualifiedFunctionNameEnd
  <2>3. \A k \in i..end : s[k] \notin delimiters
    BY <2>2 DEF SymbolicNames, Keywords, Openers, Closers
  <2> QED BY <1>1, <1>2, <1>4, <2>3, PlainBalanced
<1> QED BY <1>5, <1>6, <1>7, <1>8, <1>9, <1>10 DEF RuleNames

-----------------------------------------------------------------------------
(* Labels read again: what the scan over a relationship label merges goes   *)
(* to a parser of its own without the colons of the old form, and with a    *)
(* check that is written separately.                                        *)

(* What End holds at an index, read from itself and bounded.                *)
LEMMA LabelFacts ==
    ASSUME NEW s \in Seq(Kinds), NEW i \in 1..(Len(s) + 1)
    PROVE  /\ LabelEnd(s)[i].or = OrBy(s, LabelEnd(s), i)
           /\ LabelEnd(s)[i].and = AndBy(s, LabelEnd(s), i)
           /\ LabelEnd(s)[i].or \subseteq (i + 1)..(Len(s) + 1)
           /\ LabelEnd(s)[i].and \subseteq (i + 1)..(Len(s) + 1)
           /\ PrimaryBy(s, LabelEnd(s), i) \subseteq (i + 1)..(Len(s) + 1)
<1> DEFINE F == LabelEnd(s)
           n == Len(s) + 1
<1>1. \A j \in 1..n : /\ F[j] = [or |-> OrBy(s, F, j), and |-> AndBy(s, F, j)]
                      /\ F[j].or \subseteq (j + 1)..n
                      /\ F[j].and \subseteq (j + 1)..n
  BY LabelEndIs
<1> HIDE DEF F
<1>2. FarFrom(n, F, i + 1)
  <2>1. n \in Nat /\ i \in 1..n
    OBVIOUS
  <2> HIDE DEF n
  <2>2. \A j \in (i + 1)..n : j \in 1..n
    BY <2>1
  <2> QED BY <1>1, <2>1, <2>2 DEF FarFrom
<1>3. PrimaryBy(s, F, i) \subseteq (i + 1)..n
  BY <1>2, LabelStep
<1>4. F[i] = [or |-> OrBy(s, F, i), and |-> AndBy(s, F, i)]
      /\ F[i].or \subseteq (i + 1)..n /\ F[i].and \subseteq (i + 1)..n
  BY <1>1
<1>5. F[i].or = OrBy(s, F, i) /\ F[i].and = AndBy(s, F, i)
  BY <1>4
<1> QED BY <1>3, <1>4, <1>5 DEF F

(* A label expression is over at one place at most.                         *)
LEMMA LabelEndsOnce ==
    ASSUME NEW s \in Seq(Kinds)
    PROVE  \A i \in 1..(Len(s) + 1) :
             /\ \A x, y \in LabelEnd(s)[i].or : x = y
             /\ \A x, y \in LabelEnd(s)[i].and : x = y
<1> DEFINE F == LabelEnd(s)
           n == Len(s) + 1
           Once(S) == \A x, y \in S : x = y
           P == {i \in 1..n : Once(F[i].or) /\ Once(F[i].and)}
<1>1. n \in Nat /\ n - 1 = Len(s)
  OBVIOUS
<1>2. \A i \in 1..n : /\ F[i].or = OrBy(s, F, i) /\ F[i].and = AndBy(s, F, i)
                      /\ F[i].or \subseteq (i + 1)..n /\ F[i].and \subseteq (i + 1)..n
                      /\ PrimaryBy(s, F, i) \subseteq (i + 1)..n
  BY LabelFacts
<1>3. \A k \in Int : Kind(s, k) # "None" => k \in 1..(n - 1)
  BY <1>1, KindOfToken
<1> HIDE DEF F, n
<1>4. ASSUME NEW i \in 1..n, \A j \in (i + 1)..n : Once(F[j].or) /\ Once(F[j].and)
      PROVE  Once(F[i].or) /\ Once(F[i].and)
  <2> DEFINE c == LabelHead(s, i)
  <2>1. c \in i..(n + 1) /\ (Kind(s, c) = "LeftParen" => c + 1 \in (i + 1)..n)
    <3>1. c = i \/ (c = i + 1 /\ Kind(s, i) # "None")
      BY DEF LabelHead
    <3> QED BY <3>1, <1>1, <1>3
  <2>2. Once(PrimaryBy(s, F, i))
    <3>1. CASE Kind(s, c) \in SymbolicNames \cup {"Percent"}
      BY <3>1 DEF PrimaryBy
    <3>2. CASE Kind(s, c) = "LeftParen"
      <4>1. PrimaryBy(s, F, i) = {e + 1 : e \in {e \in F[c + 1].or : Kind(s, e) = "RightParen"}}
        BY <3>2 DEF PrimaryBy, c, SymbolicNames, Keywords
      <4>2. Once(F[c + 1].or)
        BY <2>1, <3>2, <1>4
      <4> QED BY <4>1, <4>2
    <3>3. CASE Kind(s, c) \notin SymbolicNames \cup {"Percent", "LeftParen"}
      BY <3>3 DEF PrimaryBy
    <3> QED BY <3>1, <3>2, <3>3
  <2>3. Once(F[i].and)
    <3> SUFFICES ASSUME NEW e \in PrimaryBy(s, F, i)
                 PROVE  Once(IF Kind(s, e) \in {"Ampersand", "Colon"} THEN F[e + 1].and ELSE {e})
      BY <1>2, <2>2 DEF AndBy
    <3>1. e \in (i + 1)..n
      BY <1>2
    <3>2. Kind(s, e) \in {"Ampersand", "Colon"} => e + 1 \in (i + 1)..n
      BY <3>1, <1>1, <1>3
    <3>3. Kind(s, e) \in {"Ampersand", "Colon"} => Once(F[e + 1].and)
      BY <3>2, <1>4
    <3> QED BY <3>3
  <2>4. Once(F[i].or)
    <3> DEFINE B(e) == IF Kind(s, e + 1) = "Colon" THEN e + 2 ELSE e + 1
    <3>0. F[i].or = UNION {IF Kind(s, e) # "Pipe" THEN {e} ELSE F[B(e)].or : e \in F[i].and}
      BY <1>2 DEF OrBy
    <3> SUFFICES ASSUME NEW e \in F[i].and
                 PROVE  Once(IF Kind(s, e) # "Pipe" THEN {e} ELSE F[B(e)].or)
      <4> HIDE DEF B
      <4> QED BY <3>0, <2>3
    <3>1. e \in (i + 1)..n
      BY <1>2
    <3>2. Kind(s, e) = "Pipe" => B(e) \in (i + 1)..n
      BY <3>1, <1>1, <1>3
    <3> HIDE DEF B
    <3>3. Kind(s, e) = "Pipe" => Once(F[B(e)].or)
      BY <3>2, <1>4
    <3> QED BY <3>3
  <2> QED BY <2>3, <2>4
<1>5. \A i \in 1..n : (\A j \in (i + 1)..n : j \in P) => i \in P
  <2> HIDE DEF Once
  <2> QED BY <1>4
<1>6. \A i \in 1..n : i \in P
  <2> HIDE DEF P
  <2> QED BY <1>1, <1>5, Backwards
<1> QED BY <1>6 DEF F, n
(* Places between the head of a primary and its end.                        *)
LEMMA BelowEnd ==
    ASSUME NEW i \in Nat, i >= 1, NEW c \in Nat, c >= i, NEW n \in Nat, NEW e \in Nat,
           e >= c + 3, e <= n
    PROVE  e - 1 \in 1..(n - 1) /\ c + 1 \in (i + 1)..n /\ c \in 1..(n - 1)
  OBVIOUS

\* To the scanners of labels, one name is as good as another.
Alike(x, y) == x = y \/ (x \in SymbolicNames /\ y \in SymbolicNames)

(* A label expression in a piece of the tokens, up to d before it, is over  *)
(* there where it is among all of them, whatever its names are.             *)
LEMMA LabelTravels ==
    ASSUME NEW s \in Seq(Kinds), NEW t \in Seq(Kinds), NEW d \in Nat, d + Len(t) <= Len(s),
           \A k \in 1..Len(t) : Alike(s[k + d], t[k])
    PROVE  \A i, e \in 1..(Len(t) + 1) :
             /\ e + d \in LabelEnd(s)[i + d].or => e \in LabelEnd(t)[i].or
             /\ e + d \in LabelEnd(s)[i + d].and => e \in LabelEnd(t)[i].and
<1> DEFINE n == Len(t) + 1
           m == Len(s) + 1
           F == LabelEnd(s)
           T == LabelEnd(t)
           Travels(i) == \A e \in 1..n : /\ e + d \in F[i + d].or => e \in T[i].or
                                         /\ e + d \in F[i + d].and => e \in T[i].and
           P == {i \in 1..n : Travels(i)}
<1>1. n \in Nat /\ m \in Nat /\ n + d <= m /\ n >= 1
  OBVIOUS
<1>2. \A i \in 1..m : /\ F[i].or = OrBy(s, F, i) /\ F[i].and = AndBy(s, F, i)
                      /\ F[i].or \subseteq (i + 1)..m /\ F[i].and \subseteq (i + 1)..m
                      /\ PrimaryBy(s, F, i) \subseteq (i + 1)..m
  BY LabelFacts
<1>3. \A i \in 1..n : /\ T[i].or = OrBy(t, T, i) /\ T[i].and = AndBy(t, T, i)
  BY LabelFacts
<1>4. ASSUME NEW k \in 1..(n - 1)
      PROVE  /\ \A x \in {"Bang", "LeftParen", "RightParen", "Ampersand", "Colon", "Pipe"} :
                  Kind(s, k + d) = x <=> Kind(t, k) = x
             /\ Kind(s, k + d) \in SymbolicNames \cup {"Percent"} <=>
                  Kind(t, k) \in SymbolicNames \cup {"Percent"}
  <2>1. k \in DOMAIN t /\ k + d \in DOMAIN s
    OBVIOUS
  <2>2. Kind(t, k) = t[k] /\ Kind(s, k + d) = s[k + d]
    BY <2>1 DEF Kind
  <2>3. Alike(s[k + d], t[k])
    BY <2>1
  <2>4. {"Bang", "LeftParen", "RightParen", "Ampersand", "Colon", "Pipe"} \cap SymbolicNames = {}
    BY DEF SymbolicNames, Keywords
  <2> QED BY <2>2, <2>3, <2>4 DEF Alike
<1>5. Kind(t, n) = "None"
  BY DEF Kind
<1>6. \A k \in Int : Kind(s, k) # "None" => k \in 1..(m - 1)
  BY <1>1, KindOfToken
<1> HIDE DEF F, T, n, m
<1>7. ASSUME NEW i \in 1..n, \A j \in (i + 1)..n : Travels(j)
      PROVE  Travels(i)
  <2> DEFINE c == LabelHead(t, i)
  <2>0. i + d \in 1..m
    BY <1>1
  <2>1. ASSUME NEW e \in 1..n, e + d \in PrimaryBy(s, F, i + d)
        PROVE  e \in PrimaryBy(t, T, i)
    <3>1. i \in 1..(n - 1) /\ i < e
      BY <2>0, <2>1, <1>1, <1>2
    <3>2. c \in {i, i + 1} /\ LabelHead(s, i + d) = c + d
      <4>1. Kind(s, i + d) = "Bang" <=> Kind(t, i) = "Bang"
        BY <3>1, <1>4
      <4> QED BY <4>1, <3>1, <1>1 DEF LabelHead
    <3> HIDE DEF c
    <3>3. CASE Kind(s, c + d) \in SymbolicNames \cup {"Percent"}
      <4>1. e + d = (c + d) + 1
        BY <2>1, <3>2, <3>3 DEF PrimaryBy
      <4>2. c \in 1..(n - 1) /\ e = c + 1
        BY <4>1, <3>1, <3>2, <1>1
      <4>3. Kind(t, c) \in SymbolicNames \cup {"Percent"}
        BY <4>2, <3>3, <1>4
      <4> QED BY <4>2, <4>3 DEF PrimaryBy, c
    <3>4. CASE Kind(s, c + d) \notin SymbolicNames \cup {"Percent"}
      <4>1. Kind(s, c + d) = "LeftParen"
            /\ e + d \in {x + 1 : x \in {x \in F[(c + d) + 1].or : Kind(s, x) = "RightParen"}}
        BY <2>1, <3>2, <3>4 DEF PrimaryBy
      <4>2. PICK x \in F[(c + d) + 1].or : Kind(s, x) = "RightParen" /\ e + d = x + 1
        BY <4>1
      <4>3. c + d \in 1..(m - 1) /\ (c + d) + 1 \in 1..m
        BY <4>1, <3>1, <3>2, <1>1, <1>6
      <4>4. x \in ((c + d) + 2)..m
        BY <4>2, <4>3, <1>1, <1>2
      <4>5. e - 1 \in 1..(n - 1) /\ c + 1 \in (i + 1)..n /\ c \in 1..(n - 1)
        <5>1. c \in Nat /\ c >= i /\ i >= 1 /\ x \in Nat /\ x >= (c + d) + 2 /\ e + d = x + 1
              /\ e \in Nat /\ e <= n /\ i \in Nat
          BY <4>2, <4>4, <3>1, <3>2, <1>1, SMTT(30)
        <5>2. e >= c + 3
          BY <5>1
        <5>3. n \in Nat
          BY <1>1
        <5> QED BY <5>1, <5>2, <5>3, BelowEnd
      <4>6. e - 1 \in T[c + 1].or
        <5>1. (e - 1) + d = x /\ (c + 1) + d = (c + d) + 1 /\ e - 1 \in 1..n
          <6>1. x \in Int /\ c \in Int /\ e \in Int /\ e + d = x + 1
            BY <4>2, <4>4, <4>5
          <6>2. (e - 1) + d = x /\ (c + 1) + d = (c + d) + 1
            BY <6>1
          <6>3. e - 1 \in 1..n
            BY <4>5, <1>1
          <6> QED BY <6>2, <6>3
        <5>2. (e - 1) + d \in F[(c + 1) + d].or
          BY <4>2, <5>1
        <5> QED BY <5>1, <5>2, <4>5, <1>7
      <4>7. Kind(t, e - 1) = "RightParen" /\ Kind(t, c) = "LeftParen"
        <5>1. (e - 1) + d = x
          BY <4>2, <4>4, <1>1
        <5> QED BY <5>1, <4>1, <4>2, <4>5, <1>4
      <4>8. e = (e - 1) + 1
        BY <1>1
      <4>9. PrimaryBy(t, T, i) = {y + 1 : y \in {y \in T[c + 1].or : Kind(t, y) = "RightParen"}}
        BY <4>7 DEF PrimaryBy, c, SymbolicNames, Keywords
      <4> QED BY <4>6, <4>7, <4>8, <4>9
    <3> QED BY <3>3, <3>4
  <2>2. ASSUME NEW e \in 1..n, e + d \in F[i + d].and
        PROVE  e \in T[i].and
    <3>1. PICK x \in PrimaryBy(s, F, i + d) :
             e + d \in (IF Kind(s, x) \in {"Ampersand", "Colon"} THEN F[x + 1].and ELSE {x})
      <4> DEFINE W(x) == IF Kind(s, x) \in {"Ampersand", "Colon"} THEN F[x + 1].and ELSE {x}
      <4>1. F[i + d].and = UNION {W(x) : x \in PrimaryBy(s, F, i + d)}
        BY <2>0, <1>2 DEF AndBy
      <4>2. \E x \in PrimaryBy(s, F, i + d) : e + d \in W(x)
        <5> HIDE DEF W
        <5> QED BY <4>1, <2>2
      <4> QED BY <4>2
    <3>2. x \in ((i + d) + 1)..m
      BY <2>0, <1>2
    <3>3. CASE Kind(s, x) \in {"Ampersand", "Colon"}
      <4>1. x \in 1..(m - 1) /\ x + 1 \in 1..m
        BY <3>2, <3>3, <1>1, <1>6
      <4>2. e + d \in F[x + 1].and /\ F[x + 1].and \subseteq ((x + 1) + 1)..m
        BY <3>1, <3>3, <4>1, <1>2
      <4> DEFINE y == x - d
      <4>3. y \in 1..(n - 1) /\ y + d = x /\ y + 1 \in (i + 1)..n /\ x + 1 = (y + 1) + d
        BY <3>2, <4>1, <4>2, <1>1
      <4> HIDE DEF y
      <4>4. y \in 1..n
        BY <4>3, <1>1
      <4>5. y \in PrimaryBy(t, T, i)
        BY <2>1, <4>3, <4>4
      <4>6. Kind(t, y) \in {"Ampersand", "Colon"}
        BY <3>3, <4>3, <1>4
      <4>7. e \in T[y + 1].and
        BY <4>2, <4>3, <1>7
      <4> QED BY <4>5, <4>6, <4>7, <1>3 DEF AndBy
    <3>4. CASE Kind(s, x) \notin {"Ampersand", "Colon"}
      <4>1. e + d = x
        BY <3>1, <3>4
      <4>2. e \in PrimaryBy(t, T, i)
        BY <2>1, <4>1
      <4>3. Kind(t, e) \notin {"Ampersand", "Colon"}
        <5>1. CASE e = n
          BY <5>1, <1>5
        <5>2. CASE e # n
          <6>1. e \in 1..(n - 1)
            BY <5>2, <1>1
          <6> QED BY <6>1, <3>4, <4>1, <1>4
        <5> QED BY <5>1, <5>2
      <4> QED BY <4>2, <4>3, <1>3 DEF AndBy
    <3> QED BY <3>3, <3>4
  <2>3. ASSUME NEW e \in 1..n, e + d \in F[i + d].or
        PROVE  e \in T[i].or
    <3> DEFINE B(x) == IF Kind(s, x + 1) = "Colon" THEN x + 2 ELSE x + 1
               C(y) == IF Kind(t, y + 1) = "Colon" THEN y + 2 ELSE y + 1
    <3>1. PICK x \in F[i + d].and :
             e + d \in (IF Kind(s, x) # "Pipe" THEN {x} ELSE F[B(x)].or)
      <4> DEFINE W(x) == IF Kind(s, x) # "Pipe" THEN {x} ELSE F[B(x)].or
      <4>1. F[i + d].or = UNION {W(x) : x \in F[i + d].and}
        BY <2>0, <1>2 DEF OrBy
      <4>2. \E x \in F[i + d].and : e + d \in W(x)
        <5> HIDE DEF W
        <5> QED BY <4>1, <2>3
      <4> QED BY <4>2
    <3>2. x \in ((i + d) + 1)..m
      BY <2>0, <1>2
    <3>0. T[i].or = UNION {IF Kind(t, y) # "Pipe" THEN {y} ELSE T[C(y)].or : y \in T[i].and}
      BY <1>3 DEF OrBy
    <3>3. CASE Kind(s, x) = "Pipe"
      <4>1. x \in 1..(m - 1) /\ B(x) \in (x + 1)..m /\ B(x) \in 1..m
            /\ B(x) \in {x + 1, x + 2} /\ (B(x) = x + 2 <=> Kind(s, x + 1) = "Colon")
        <5>1. x \in 1..(m - 1) /\ x \in Nat
          BY <3>2, <3>3, <1>1, <1>6
        <5>2. Kind(s, x + 1) = "Colon" => x + 1 \in 1..(m - 1)
          BY <5>1, <1>6
        <5>3. CASE Kind(s, x + 1) = "Colon"
          <6>1. B(x) = x + 2
            BY <5>3
          <6> HIDE DEF B
          <6> QED BY <5>1, <5>2, <5>3, <6>1, <1>1
        <5>4. CASE Kind(s, x + 1) # "Colon"
          <6>1. B(x) = x + 1
            BY <5>4
          <6> HIDE DEF B
          <6> QED BY <5>1, <5>4, <6>1, <1>1
        <5> QED BY <5>3, <5>4
      <4> HIDE DEF B
      <4>2. e + d \in F[B(x)].or /\ F[B(x)].or \subseteq (B(x) + 1)..m
        BY <3>1, <3>3, <4>1, <1>2
      <4> DEFINE y == x - d
      <4>3. y \in 1..(n - 1) /\ y + d = x /\ y + 1 \in 1..(n - 1) /\ x + 1 = (y + 1) + d
            /\ B(x) - d \in (i + 1)..n /\ (B(x) - d) + d = B(x)
        <5> DEFINE b == B(x)
        <5>1. b \in Nat /\ x \in Nat /\ b >= x + 1 /\ x >= (i + d) + 1 /\ e + d >= b + 1
              /\ e <= n /\ e \in Nat
          BY <3>2, <4>1, <4>2, <1>1
        <5> HIDE DEF b
        <5>2. b - d \in (i + 1)..n /\ (b - d) + d = b
          BY <5>1, <1>1
        <5>3. y \in 1..(n - 1) /\ y + d = x /\ y + 1 \in 1..(n - 1) /\ x + 1 = (y + 1) + d
          BY <5>1, <1>1, SMTT(30)
        <5> QED BY <5>2, <5>3 DEF b
      <4>4. C(y) = B(x) - d
        <5>1. Kind(s, x + 1) = "Colon" <=> Kind(t, y + 1) = "Colon"
          BY <4>3, <1>4
        <5> QED BY <5>1, <4>1, <4>3
      <4> HIDE DEF y, C
      <4>5. y \in 1..n
        BY <4>3, <1>1
      <4>6. y \in T[i].and
        BY <2>2, <4>3, <4>5
      <4>7. Kind(t, y) = "Pipe"
        BY <3>3, <4>3, <1>4
      <4>8. e \in T[C(y)].or
        BY <4>2, <4>3, <4>4, <1>7
      <4> QED BY <4>6, <4>7, <4>8, <3>0
    <3>4. CASE Kind(s, x) # "Pipe"
      <4>1. e + d = x
        BY <3>1, <3>4
      <4>2. e \in T[i].and
        BY <2>2, <4>1
      <4>3. Kind(t, e) # "Pipe"
        <5>1. CASE e = n
          BY <5>1, <1>5
        <5>2. CASE e # n
          <6>1. e \in 1..(n - 1)
            BY <5>2, <1>1
          <6> QED BY <6>1, <3>4, <4>1, <1>4
        <5> QED BY <5>1, <5>2
      <4> HIDE DEF C
      <4> QED BY <4>2, <4>3, <3>0
    <3> QED BY <3>3, <3>4
  <2> QED BY <2>2, <2>3
<1>8. \A i \in 1..n : (\A j \in (i + 1)..n : j \in P) => i \in P
  <2> HIDE DEF Travels
  <2> QED BY <1>7
<1>9. \A i \in 1..n : i \in P
  <2> HIDE DEF P
  <2> QED BY <1>1, <1>8, Backwards
<1> QED BY <1>9 DEF n, F, T

\* The places that NormalizedLabel keeps.
Kept(s) == {k \in DOMAIN s : ~(k > 1 /\ s[k] = "Colon" /\ s[k - 1] = "Pipe")}

\* K lists the numbers in S in order.
Lists(K, m, S) ==
    /\ K \in [1..m -> S]
    /\ \A x, y \in 1..m : x < y => K[x] < K[y]
    /\ \A k \in S : \E x \in 1..m : K[x] = k

(* What is listed n-th is the one that n do not exceed.                     *)
LEMMA RankIsPlace ==
    ASSUME NEW S \in SUBSET Nat, NEW m \in Nat, NEW K, Lists(K, m, S), NEW n \in 1..m
    PROVE  Cardinality({j \in S : j <= K[n]}) = n
<1> DEFINE T == {j \in S : j <= K[n]}
           f == [x \in 1..n |-> K[x]]
<1>1. /\ \A x \in 1..m : K[x] \in S /\ K[x] \in Nat
      /\ \A x, y \in 1..m : x < y => K[x] < K[y]
      /\ \A k \in S : \E x \in 1..m : K[x] = k
  BY DEF Lists
<1>2. f \in [1..n -> T]
  <2>1. \A x \in 1..n : x \in 1..m /\ (x < n \/ x = n)
    OBVIOUS
  <2>2. \A x \in 1..n : K[x] \in S /\ K[x] <= K[n]
    BY <2>1, <1>1
  <2> QED BY <2>2
<1>3. \A x, y \in 1..n : f[x] = f[y] => x = y
  <2> SUFFICES ASSUME NEW x \in 1..n, NEW y \in 1..n, K[x] = K[y] PROVE x = y
    OBVIOUS
  <2>1. x \in 1..m /\ y \in 1..m
    OBVIOUS
  <2>2. ~(x < y) /\ ~(y < x)
    BY <2>1, <1>1
  <2> QED BY <2>2
<1>4. \A j \in T : \E x \in 1..n : f[x] = j
  <2> SUFFICES ASSUME NEW j \in T PROVE \E x \in 1..n : f[x] = j
    OBVIOUS
  <2>1. PICK x \in 1..m : K[x] = j
    BY <1>1
  <2>2. ~(n < x)
    <3>1. K[n] \in Nat /\ K[x] <= K[n]
      BY <1>1, <2>1
    <3> QED BY <3>1, <1>1
  <2> QED BY <2>1, <2>2
<1> HIDE DEF T, f
<1>5. f \in Bijection(1..n, T)
  BY <1>2, <1>3, <1>4 DEF Bijection, Injection, Surjection, IsInjective
<1>6. ExistsBijection(1..n, T)
  BY <1>5 DEF ExistsBijection
<1>7. IsFiniteSet(1..n) /\ Cardinality(1..n) = n
  BY FS_Interval
<1>8. Cardinality(T) = n
  BY <1>6, <1>7, FS_Bijection
<1> QED BY <1>8 DEF T

(* Dropping the colons of the old form leaves the kept tokens in order.     *)
LEMMA NormalizedIs ==
    ASSUME NEW s \in Seq(Kinds), NEW m \in Nat, NEW K, Lists(K, m, Kept(s))
    PROVE  /\ NormalizedLabel(s) \in Seq(Kinds) /\ Len(NormalizedLabel(s)) = m
           /\ \A n \in 1..m :
                NormalizedLabel(s)[n] = IF K[n] > 1 /\ s[K[n]] \in Keywords THEN "Identifier" ELSE s[K[n]]
<1> DEFINE kept == Kept(s)
           Named(k) == IF k > 1 /\ s[k] \in Keywords THEN "Identifier" ELSE s[k]
           At(n) == CHOOSE k \in kept : Cardinality({j \in kept : j <= k}) = n
<1>1. kept \in SUBSET Nat /\ kept \subseteq DOMAIN s
  BY DEF Kept
<1>2. NormalizedLabel(s) = [n \in 1..Cardinality(kept) |-> Named(At(n))]
  BY DEF NormalizedLabel, Kept
<1> HIDE DEF kept
<1>0. Lists(K, m, kept)
  BY DEF kept
<1>3. \A n \in 1..m : K[n] \in kept /\ Cardinality({j \in kept : j <= K[n]}) = n
  <2>1. \A n \in 1..m : Cardinality({j \in kept : j <= K[n]}) = n
    BY <1>0, <1>1, RankIsPlace
  <2> QED BY <2>1, <1>0 DEF Lists
<1>4. \A n \in 1..m : At(n) = K[n]
  <2> SUFFICES ASSUME NEW n \in 1..m PROVE At(n) = K[n]
    OBVIOUS
  <2> DEFINE k == At(n)
  <2>1. k \in kept /\ Cardinality({j \in kept : j <= k}) = n
    BY <1>3
  <2> HIDE DEF k
  <2>2. PICK x \in 1..m : K[x] = k
    BY <2>1, <1>0 DEF Lists
  <2>3. x = n
    BY <2>1, <2>2, <1>3
  <2> QED BY <2>2, <2>3 DEF k
<1>5. Cardinality(kept) = m
  <2>1. CASE m = 0
    <3>1. kept = {}
      BY <2>1, <1>0 DEF Lists
    <3> QED BY <3>1, <2>1, FS_EmptySet
  <2>2. CASE m # 0
    <3>1. m \in 1..m
      BY <2>2
    <3>2. {j \in kept : j <= K[m]} = kept
      <4> SUFFICES ASSUME NEW j \in kept PROVE j <= K[m]
        OBVIOUS
      <4>1. PICK x \in 1..m : K[x] = j
        BY <1>0 DEF Lists
      <4>2. x = m \/ x < m
        OBVIOUS
      <4>3. K[x] \in Nat /\ K[m] \in Nat
        BY <1>1, <1>3, <3>1
      <4> QED BY <4>1, <4>2, <4>3, <3>1, <1>0 DEF Lists
    <3> QED BY <3>1, <3>2, <1>3
  <2> QED BY <2>1, <2>2
<1> HIDE DEF At
<1>6. NormalizedLabel(s) = [n \in 1..m |-> Named(K[n])]
  <2>1. \A n \in 1..m : Named(At(n)) = Named(K[n])
    BY <1>4
  <2> HIDE DEF Named
  <2> QED BY <2>1, <1>2, <1>5
<1>7. \A n \in 1..m : Named(K[n]) \in Kinds
  <2>1. \A k \in DOMAIN s : s[k] \in Kinds
    OBVIOUS
  <2>2. "Identifier" \in Kinds
    BY DEF Kinds, SymbolicNames
  <2> QED BY <2>1, <2>2, <1>1, <1>3
<1> DEFINE N == [n \in 1..m |-> Named(K[n])]
<1>8. N \in [1..m -> Kinds]
  <2> HIDE DEF Named
  <2> QED BY <1>7
<1>9. \A n \in 1..m : N[n] = IF K[n] > 1 /\ s[K[n]] \in Keywords THEN "Identifier" ELSE s[K[n]]
  OBVIOUS
<1> HIDE DEF N
<1>10. N \in Seq(Kinds) /\ Len(N) = m
  BY <1>8
<1> QED BY <1>6, <1>9, <1>10 DEF N
\* What LegacyLabelsConsistent says of a run.
LabelFits(run) ==
    /\ LegacyLabelTokensAreConsistent(run)
    /\ LabelPredicateEnd(NormalizedLabel(run), 1) = {Len(NormalizedLabel(run))}
    /\ \A i \in 2..Len(NormalizedLabel(run)) : NormalizedLabel(run)[i] # "Colon"

(* A label that is over where its tokens are is one label, and no other.    *)
LEMMA WholeLabel ==
    ASSUME NEW t \in Seq(Kinds), Len(t) > 0, t[1] = "Colon", Len(t) + 1 \in LabelEnd(t)[2].or
    PROVE  LabelPredicateEnd(t, 1) = {Len(t)}
<1>1. Len(t) \in Nat /\ 1 \in DOMAIN t /\ 2 \in 1..(Len(t) + 1)
  OBVIOUS
<1>2. LabelEnd(t)[2].or = {Len(t) + 1}
  BY <1>1, LabelEndsOnce
<1>3. Kind(t, 1) = "Colon" /\ ~IsNullTest(t, 1)
  BY <1>1 DEF Kind, IsNullTest
<1>4. LabelPredicateEnd(t, 1) = {e - 1 : e \in LabelEnd(t)[1 + 1].or}
  BY <1>3 DEF LabelPredicateEnd
<1> DEFINE n == Len(t)
<1>5. n \in Nat /\ LabelEnd(t)[1 + 1].or = {n + 1}
  BY <1>1, <1>2
<1> HIDE DEF n
<1>6. \A e \in {n + 1} : e - 1 = n
  BY <1>5
<1>7. {e - 1 : e \in {n + 1}} = {n}
  BY <1>6
<1> QED BY <1>4, <1>5, <1>7 DEF n

(* A label without a colon but its first is read alike by its own parser.   *)
LEMMA PlainLabel ==
    ASSUME NEW s \in Seq(Kinds), NEW i \in 1..Len(s), NEW e \in i..Len(s), s[i] = "Colon",
           e + 1 \in LabelEnd(s)[i + 1].or, \A k \in (i + 1)..e : s[k] # "Colon"
    PROVE  LabelFits(SubSeq(s, i, e))
<1> DEFINE run == SubSeq(s, i, e)
           L == (e - i) + 1
           K == [n \in 1..L |-> n]
<1>1. L \in Nat /\ L > 0 /\ i \in Nat /\ e \in Nat /\ (i - 1) + L = e /\ e <= Len(s)
  OBVIOUS
<1>2. run \in Seq(Kinds) /\ Len(run) = L /\ \A k \in 1..L : run[k] = s[k + (i - 1)]
  OBVIOUS
<1> HIDE DEF run, L
<1>3. DOMAIN run = 1..L
  BY <1>1, <1>2
<1>4. run[1] = "Colon" /\ \A k \in 2..L : run[k] # "Colon"
  <2>1. run[1] = s[1 + (i - 1)] /\ 1 + (i - 1) = i
    BY <1>1, <1>2
  <2>2. \A k \in 2..L : k + (i - 1) \in (i + 1)..e /\ k \in 1..L
    BY <1>1
  <2> QED BY <2>1, <2>2, <1>2
<1>5. Kept(run) = 1..L
  BY <1>3, <1>4 DEF Kept
<1>6. Lists(K, L, Kept(run))
  BY <1>5 DEF Lists
<1> DEFINE t == NormalizedLabel(run)
<1>7. t \in Seq(Kinds) /\ Len(t) = L
      /\ \A n \in 1..L : t[n] = IF n > 1 /\ run[n] \in Keywords THEN "Identifier" ELSE run[n]
  <2>1. t \in Seq(Kinds) /\ Len(t) = L
        /\ \A n \in 1..L : t[n] = IF K[n] > 1 /\ run[K[n]] \in Keywords THEN "Identifier" ELSE run[K[n]]
    <3> HIDE DEF K
    <3> QED BY <1>1, <1>2, <1>6, NormalizedIs
  <2> HIDE DEF t
  <2> QED BY <2>1
<1> HIDE DEF t, K
<1>8. t[1] = "Colon" /\ \A n \in 2..L : t[n] # "Colon"
  BY <1>1, <1>4, <1>7
<1>9. \A n \in 1..Len(t) : Alike(s[n + (i - 1)], t[n])
  <2>1. \A n \in 1..L : Alike(run[n], t[n])
    BY <1>7 DEF Alike, SymbolicNames
  <2> QED BY <2>1, <1>2, <1>7
<1>10. L + 1 \in LabelEnd(t)[2].or
  <2>1. \A x, y \in 1..(Len(t) + 1) : y + (i - 1) \in LabelEnd(s)[x + (i - 1)].or => y \in LabelEnd(t)[x].or
    <3> DEFINE d == i - 1
    <3>1. d \in Nat /\ d + Len(t) <= Len(s) /\ \A n \in 1..Len(t) : Alike(s[n + d], t[n])
      BY <1>1, <1>7, <1>9
    <3> HIDE DEF d
    <3>2. \A x, y \in 1..(Len(t) + 1) : y + d \in LabelEnd(s)[x + d].or => y \in LabelEnd(t)[x].or
      BY <3>1, <1>7, LabelTravels
    <3> QED BY <3>2 DEF d
  <2>2. 2 \in 1..(Len(t) + 1) /\ L + 1 \in 1..(Len(t) + 1)
        /\ (L + 1) + (i - 1) = e + 1 /\ 2 + (i - 1) = i + 1
    BY <1>1, <1>7
  <2>3. (L + 1) + (i - 1) \in LabelEnd(s)[2 + (i - 1)].or
    BY <2>2
  <2> QED BY <2>1, <2>2, <2>3
<1>11. LabelPredicateEnd(t, 1) = {Len(t)}
  BY <1>1, <1>7, <1>8, <1>10, WholeLabel
<1>12. LegacyLabelTokensAreConsistent(run)
  BY <1>2, <1>4 DEF LegacyLabelTokensAreConsistent
<1> QED BY <1>7, <1>8, <1>11, <1>12 DEF LabelFits, t, run

(* Division by three, by two, and by three one place before.                *)
LEMMA ThreeApart ==
    ASSUME NEW x \in Nat
    PROVE  /\ x % 3 \in {0, 1, 2}
           /\ \E q \in Nat : x = 3 * q + (x % 3)
<1>1. x % 3 \in {0, 1, 2} /\ x = 3 * (x \div 3) + (x % 3) /\ x \div 3 \in Nat
  OBVIOUS
<1> QED BY <1>1

LEMMA TwoApart ==
    ASSUME NEW x \in Nat
    PROVE  \E q \in Nat : \/ x = 2 * q /\ x % 2 = 0
                          \/ x = 2 * q + 1 /\ x % 2 = 1
<1>1. x % 2 \in {0, 1} /\ x = 2 * (x \div 2) + (x % 2) /\ x \div 2 \in Nat
  OBVIOUS
<1> QED BY <1>1

\* A label in the old form, colon first: :A|:B|:C.
OldForm(s) ==
    \A k \in 1..Len(s) :
        /\ k % 3 = 2 => s[k] \in SymbolicNames
        /\ k % 3 = 0 => s[k] = "Pipe"
        /\ k % 3 = 1 => s[k] = "Colon"

(* The names and the pipes between them are kept.                           *)
LEMMA OldFormKept ==
    ASSUME NEW s \in Seq(Kinds), OldForm(s), NEW Q \in Nat, Len(s) = 3 * Q + 2
    PROVE  \E K : /\ Lists(K, 2 * Q + 2, Kept(s))
                  /\ K[1] = 1
                  /\ \A q \in 0..Q : K[2 * q + 2] = 3 * q + 2
                  /\ \A q \in 1..Q : K[2 * q + 1] = 3 * q
<1> DEFINE m == 2 * Q + 2
           L == 3 * Q + 2
           K == [n \in 1..m |-> IF n = 1 THEN 1
                                ELSE IF n % 2 = 0 THEN 3 * (n \div 2) - 1 ELSE 3 * (n \div 2)]
<1>1. DOMAIN s = 1..L /\ m \in Nat /\ L \in Nat
  OBVIOUS
<1>2. \A k \in 1..L : k \in Kept(s) <=> (k = 1 \/ k % 3 # 1)
  <2> SUFFICES ASSUME NEW k \in 1..L PROVE k \in Kept(s) <=> (k = 1 \/ k % 3 # 1)
    OBVIOUS
  <2>1. CASE k = 1
    BY <2>1, <1>1 DEF Kept
  <2>2. CASE k % 3 # 1
    <3>1. k % 3 \in {0, 2}
      BY <2>2, ThreeApart
    <3>2. s[k] \in SymbolicNames \cup {"Pipe"}
      BY <3>1 DEF OldForm
    <3>3. s[k] # "Colon"
      BY <3>2 DEF SymbolicNames, Keywords
    <3> QED BY <3>3, <2>2, <1>1 DEF Kept
  <2>3. CASE k # 1 /\ k % 3 = 1
    <3>1. k - 1 \in 1..L /\ (k - 1) % 3 = 0
      BY <2>3
    <3>2. s[k] = "Colon" /\ s[k - 1] = "Pipe"
      BY <3>1, <2>3 DEF OldForm
    <3> QED BY <3>2, <2>3, <1>1 DEF Kept
  <2> QED BY <2>1, <2>2, <2>3
<1>3. Kept(s) \subseteq 1..L
  BY <1>1 DEF Kept
<1>4. K[1] = 1
  OBVIOUS
<1>5. \A q \in 0..Q : K[2 * q + 2] = 3 * q + 2
  <2> SUFFICES ASSUME NEW q \in 0..Q PROVE K[2 * q + 2] = 3 * q + 2
    OBVIOUS
  <2>1. 2 * q + 2 \in 1..m /\ (2 * q + 2) % 2 = 0 /\ (2 * q + 2) \div 2 = q + 1 /\ 2 * q + 2 # 1
    OBVIOUS
  <2>2. 3 * (q + 1) - 1 = 3 * q + 2
    OBVIOUS
  <2> QED BY <2>1, <2>2
<1>6. \A q \in 1..Q : K[2 * q + 1] = 3 * q
  <2> SUFFICES ASSUME NEW q \in 1..Q PROVE K[2 * q + 1] = 3 * q
    OBVIOUS
  <2>1. 2 * q + 1 \in 1..m /\ (2 * q + 1) % 2 = 1 /\ (2 * q + 1) \div 2 = q /\ 2 * q + 1 # 1
    OBVIOUS
  <2> QED BY <2>1
<1>0. DOMAIN K = 1..m /\ K = [n \in 1..m |-> K[n]]
  OBVIOUS
<1> HIDE DEF K
<1>7. \A n \in 1..m : \/ n = 1
                      \/ \E q \in 0..Q : n = 2 * q + 2
                      \/ \E q \in 1..Q : n = 2 * q + 1
  <2> SUFFICES ASSUME NEW n \in 1..m, n # 1
               PROVE  (\E q \in 0..Q : n = 2 * q + 2) \/ (\E q \in 1..Q : n = 2 * q + 1)
    OBVIOUS
  <2>1. PICK q \in Nat : n = 2 * q \/ n = 2 * q + 1
    <3>1. n \in Nat
      OBVIOUS
    <3>2. \E q \in Nat : \/ n = 2 * q /\ n % 2 = 0
                         \/ n = 2 * q + 1 /\ n % 2 = 1
      BY <3>1, TwoApart
    <3> QED BY <3>2
  <2>2. CASE n = 2 * q
    <3>1. q - 1 \in 0..Q /\ n = 2 * (q - 1) + 2
      BY <2>2
    <3> QED BY <3>1
  <2>3. CASE n = 2 * q + 1
    <3>1. q \in 1..Q
      BY <2>3
    <3> QED BY <3>1, <2>3
  <2> QED BY <2>1, <2>2, <2>3
<1>8. \A n \in 1..m : K[n] \in 1..L /\ (K[n] = 1 \/ K[n] % 3 # 1)
  <2> SUFFICES ASSUME NEW n \in 1..m PROVE K[n] \in 1..L /\ (K[n] = 1 \/ K[n] % 3 # 1)
    OBVIOUS
  <2>1. CASE n = 1
    BY <2>1, <1>4
  <2>2. ASSUME NEW q \in 0..Q, n = 2 * q + 2 PROVE K[n] \in 1..L /\ (K[n] = 1 \/ K[n] % 3 # 1)
    <3>1. 3 * q + 2 \in 1..L /\ (3 * q + 2) % 3 = 2
      OBVIOUS
    <3> QED BY <3>1, <2>2, <1>5
  <2>3. ASSUME NEW q \in 1..Q, n = 2 * q + 1 PROVE K[n] \in 1..L /\ (K[n] = 1 \/ K[n] % 3 # 1)
    <3>1. 3 * q \in 1..L /\ (3 * q) % 3 = 0
      OBVIOUS
    <3> QED BY <3>1, <2>3, <1>6
  <2> QED BY <2>1, <2>2, <2>3, <1>7
<1>9. \A x, y \in 1..m : x < y => K[x] < K[y]
  <2> SUFFICES ASSUME NEW x \in 1..m, NEW y \in 1..m, x < y PROVE K[x] < K[y]
    OBVIOUS
  <2>1. \/ y = 1 /\ K[y] = 1
        \/ \E q \in 0..Q : y = 2 * q + 2 /\ K[y] = 3 * q + 2
        \/ \E q \in 1..Q : y = 2 * q + 1 /\ K[y] = 3 * q
    BY <1>4, <1>5, <1>6, <1>7
  <2>2. \/ x = 1 /\ K[x] = 1
        \/ \E q \in 0..Q : x = 2 * q + 2 /\ K[x] = 3 * q + 2
        \/ \E q \in 1..Q : x = 2 * q + 1 /\ K[x] = 3 * q
    BY <1>4, <1>5, <1>6, <1>7
  <2> QED BY <2>1, <2>2
<1>10. \A k \in Kept(s) : \E x \in 1..m : K[x] = k
  <2> SUFFICES ASSUME NEW k \in Kept(s) PROVE \E x \in 1..m : K[x] = k
    OBVIOUS
  <2>1. k \in 1..L /\ (k = 1 \/ k % 3 # 1)
    BY <1>2, <1>3
  <2>2. PICK q \in Nat : k = 3 * q + (k % 3)
    BY <2>1, ThreeApart
  <2>3. CASE k = 1
    BY <2>3, <1>4
  <2>4. CASE k % 3 = 2
    <3>1. q \in 0..Q /\ 2 * q + 2 \in 1..m
      BY <2>1, <2>2, <2>4
    <3> QED BY <3>1, <2>2, <2>4, <1>5
  <2>5. CASE k % 3 = 0
    <3>1. q \in 1..Q /\ 2 * q + 1 \in 1..m
      BY <2>1, <2>2, <2>5
    <3> QED BY <3>1, <2>2, <2>5, <1>6
  <2> QED BY <2>1, <2>3, <2>4, <2>5, ThreeApart
<1>11. Lists(K, m, Kept(s))
  BY <1>0, <1>2, <1>8, <1>9, <1>10 DEF Lists
<1> QED BY <1>4, <1>5, <1>6, <1>11

LEMMA ThreeBack ==
    ASSUME NEW x \in Nat, x - 1 \in Nat
    PROVE  /\ x % 3 = 2 => (x - 1) % 3 = 1
           /\ x % 3 = 0 => (x - 1) % 3 = 2
           /\ x % 3 = 1 => (x - 1) % 3 = 0
OBVIOUS

(* Names with a pipe between any two are one label expression, and what the *)
(* fragment's parser checks of the old form is its form.                    *)
LEMMA OldLabel ==
    ASSUME NEW s \in Seq(Kinds), OldForm(s), NEW Q \in Nat, Len(s) = 3 * Q + 2
    PROVE  LabelFits(s)
<1> DEFINE m == 2 * Q + 2
           L == 3 * Q + 2
           t == NormalizedLabel(s)
<1>1. m \in Nat /\ L \in Nat /\ Len(s) = L /\ 1 \in 1..m /\ 2 \in 1..m
  OBVIOUS
<1>2. PICK K : /\ Lists(K, m, Kept(s))
               /\ K[1] = 1
               /\ \A q \in 0..Q : K[2 * q + 2] = 3 * q + 2
               /\ \A q \in 1..Q : K[2 * q + 1] = 3 * q
  BY OldFormKept
<1>3. t \in Seq(Kinds) /\ Len(t) = m
      /\ \A n \in 1..m : t[n] = IF K[n] > 1 /\ s[K[n]] \in Keywords THEN "Identifier" ELSE s[K[n]]
  BY <1>1, <1>2, NormalizedIs
<1> HIDE DEF t
<1>4. t[1] = "Colon"
  <2>1. 1 % 3 = 1 /\ 1 \in 1..Len(s)
    BY <1>1
  <2>2. s[1] = "Colon"
    BY <2>1 DEF OldForm
  <2> QED BY <2>2, <1>1, <1>2, <1>3
<1>5. \A q \in 0..Q : t[2 * q + 2] \in SymbolicNames
  <2> SUFFICES ASSUME NEW q \in 0..Q PROVE t[2 * q + 2] \in SymbolicNames
    OBVIOUS
  <2>1. 3 * q + 2 \in 1..Len(s) /\ (3 * q + 2) % 3 = 2 /\ 2 * q + 2 \in 1..m
    OBVIOUS
  <2>2. s[3 * q + 2] \in SymbolicNames
    BY <2>1 DEF OldForm
  <2>3. K[2 * q + 2] = 3 * q + 2
    BY <1>2
  <2>4. "Identifier" \in SymbolicNames
    BY DEF SymbolicNames
  <2> QED BY <2>1, <2>2, <2>3, <2>4, <1>3
<1>6. \A q \in 1..Q : t[2 * q + 1] = "Pipe"
  <2> SUFFICES ASSUME NEW q \in 1..Q PROVE t[2 * q + 1] = "Pipe"
    OBVIOUS
  <2>1. 3 * q \in 1..Len(s) /\ (3 * q) % 3 = 0 /\ 2 * q + 1 \in 1..m
    OBVIOUS
  <2>2. s[3 * q] = "Pipe"
    BY <2>1 DEF OldForm
  <2>3. K[2 * q + 1] = 3 * q
    BY <1>2
  <2>4. "Pipe" \notin Keywords
    BY DEF Keywords
  <2> QED BY <2>1, <2>2, <2>3, <2>4, <1>3
<1> HIDE DEF m, L
<1>7. ASSUME NEW n \in 2..m
      PROVE  \/ \E q \in 0..Q : n = 2 * q + 2
             \/ \E q \in 1..Q : n = 2 * q + 1
  <2>0. n \in Nat
    OBVIOUS
  <2>1. \E q \in Nat : \/ n = 2 * q /\ n % 2 = 0
                       \/ n = 2 * q + 1 /\ n % 2 = 1
    BY <2>0, TwoApart
  <2>2. PICK q \in Nat : n = 2 * q \/ n = 2 * q + 1
    BY <2>1
  <2>3. CASE n = 2 * q
    <3>1. q - 1 \in 0..Q /\ n = 2 * (q - 1) + 2
      BY <2>3 DEF m
    <3> QED BY <3>1
  <2>4. CASE n = 2 * q + 1
    <3>1. q \in 1..Q
      BY <2>4 DEF m
    <3> QED BY <3>1, <2>4
  <2> QED BY <2>2, <2>3, <2>4
<1>8. \A n \in 2..Len(t) : t[n] # "Colon"
  <2> SUFFICES ASSUME NEW n \in 2..m PROVE t[n] # "Colon"
    BY <1>3
  <2>1. t[n] \in SymbolicNames \cup {"Pipe"}
    BY <1>5, <1>6, <1>7
  <2> QED BY <2>1 DEF SymbolicNames, Keywords
<1>9. m + 1 \in LabelEnd(t)[2].or
  <2> DEFINE T == LabelEnd(t)
             N(q) == 2 * q + 2
             R == {j \in 1..(Q + 1) : m + 1 \in T[N(j - 1)].or}
  <2>1. ASSUME NEW j \in 1..(Q + 1), \A k \in (j + 1)..(Q + 1) : k \in R
        PROVE  j \in R
    <3> DEFINE q == j - 1
               a == N(q)
    <3>1. q \in 0..Q /\ a \in 2..m /\ a \in 1..Len(t) /\ a + 1 \in 1..(Len(t) + 1)
      BY <1>3 DEF m
    <3>2. T[a].or = OrBy(t, T, a)
      BY <3>1, <1>3, LabelFacts
    <3>3. Kind(t, a) \in SymbolicNames
      <4>1. t[a] \in SymbolicNames
        BY <3>1, <1>5
      <4>2. a \in DOMAIN t
        BY <3>1, <1>3
      <4> QED BY <4>1, <4>2 DEF Kind
    <3> HIDE DEF T, a, q
    <3>4. LabelHead(t, a) = a
      BY <3>3 DEF LabelHead, SymbolicNames, Keywords
    <3>5. PrimaryBy(t, T, a) = {a + 1}
      BY <3>3, <3>4 DEF PrimaryBy
    <3>6. CASE q = Q
      <4>1. a = m
        BY <3>6 DEF a, m
      <4>2. Kind(t, a + 1) = "None"
        BY <4>1, <1>3, <1>1 DEF Kind
      <4>3. a + 1 \in AndBy(t, T, a)
        BY <4>2, <3>5 DEF AndBy
      <4>4. a + 1 \in OrBy(t, T, a)
        BY <4>2, <4>3 DEF OrBy
      <4> QED BY <4>1, <4>4, <3>2 DEF a, q, T
    <3>7. CASE q # Q
      <4>1. q + 1 \in 1..Q /\ q + 1 \in 0..Q /\ a + 1 = 2 * (q + 1) + 1 /\ a + 2 = 2 * (q + 1) + 2
            /\ a + 1 \in DOMAIN t /\ a + 2 \in DOMAIN t /\ j + 1 \in (j + 1)..(Q + 1)
            /\ (j + 1) - 1 = q + 1 /\ (a + 1) + 1 = a + 2
        BY <3>1, <3>7, <1>3 DEF q, a, m
      <4>2. Kind(t, a + 1) = "Pipe" /\ Kind(t, a + 2) \in SymbolicNames
        <5>1. t[2 * (q + 1) + 1] = "Pipe" /\ t[2 * (q + 1) + 2] \in SymbolicNames
          BY <4>1, <1>5, <1>6
        <5> QED BY <5>1, <4>1 DEF Kind
      <4>3. Kind(t, (a + 1) + 1) # "Colon"
        BY <4>1, <4>2 DEF SymbolicNames, Keywords
      <4>4. a + 1 \in AndBy(t, T, a)
        BY <4>2, <3>5 DEF AndBy
      <4>5. T[a + 2].or \subseteq OrBy(t, T, a)
        BY <4>1, <4>2, <4>3, <4>4 DEF OrBy
      <4>6. m + 1 \in T[a + 2].or
        <5>1. j + 1 \in R
          BY <4>1, <2>1
        <5>2. m + 1 \in T[N((j + 1) - 1)].or
          BY <5>1
        <5>3. N((j + 1) - 1) = a + 2
          BY <4>1
        <5> QED BY <5>2, <5>3
      <4> QED BY <4>5, <4>6, <3>2 DEF a, q
    <3> QED BY <3>6, <3>7
  <2>2. \A j \in 1..(Q + 1) : (\A k \in (j + 1)..(Q + 1) : k \in R) => j \in R
    <3> HIDE DEF R
    <3> QED BY <2>1
  <2>3. \A j \in 1..(Q + 1) : j \in R
    <3> HIDE DEF R
    <3>1. Q + 1 \in Nat
      OBVIOUS
    <3> QED BY <2>2, <3>1, Backwards
  <2>4. 1 \in R
    <3> HIDE DEF R
    <3>1. 1 \in 1..(Q + 1)
      OBVIOUS
    <3> QED BY <2>3, <3>1
  <2>5. N(1 - 1) = 2
    OBVIOUS
  <2>6. m + 1 \in T[N(1 - 1)].or
    BY <2>4
  <2> QED BY <2>5, <2>6
<1>10. LabelPredicateEnd(t, 1) = {Len(t)}
  <2>1. Len(t) > 0 /\ Len(t) + 1 \in LabelEnd(t)[2].or
    BY <1>1, <1>3, <1>9 DEF m
  <2> QED BY <2>1, <1>3, <1>4, WholeLabel
<1>11. LegacyLabelTokensAreConsistent(s)
  <2>1. Kind(s, 1) = "Colon" /\ Kind(s, 2) \in SymbolicNames
    <3>1. 1 \in 1..Len(s) /\ 2 \in 1..Len(s) /\ 1 % 3 = 1 /\ 2 % 3 = 2
      BY <1>1 DEF L
    <3>2. s[1] = "Colon" /\ s[2] \in SymbolicNames
      BY <3>1 DEF OldForm
    <3> QED BY <3>1, <3>2 DEF Kind
  <2>2. CASE Q = 0
    <3>1. Len(s) = 2
      BY <2>2
    <3>2. Kind(s, 3) # "Pipe"
      <4>0. DOMAIN s = 1..Len(s)
        OBVIOUS
      <4>1. 3 \notin DOMAIN s
        BY <3>1, <4>0
      <4> QED BY <4>1 DEF Kind
    <3>3. 3..Len(s) = {} /\ (Len(s) - 2) % Len(<<"Colon", "Name">>) = 0
      <4>0. 3..2 = {} /\ 2 - 2 = 0
        OBVIOUS
      <4>1. Len(s) - 2 = 0 /\ 3..Len(s) = {}
        BY <3>1, <4>0, Zenon
      <4>2. Len(<<"Colon", "Name">>) = 2 /\ 0 % 2 = 0
        OBVIOUS
      <4> QED BY <4>1, <4>2
    <3> QED BY <2>1, <3>2, <3>3 DEF LegacyLabelTokensAreConsistent
  <2>3. CASE Q # 0
    <3> DEFINE step == <<"Pipe", "Colon", "Name">>
    <3>1. 3 \in 1..Len(s) /\ 3 % 3 = 0
      BY <2>3
    <3>2. Kind(s, 3) = "Pipe"
      BY <3>1 DEF Kind, OldForm
    <3>3. Len(step) = 3 /\ step[1] = "Pipe" /\ step[2] = "Colon" /\ step[3] = "Name"
      OBVIOUS
    <3>4. (Len(s) - 2) % 3 = 0
      OBVIOUS
    <3> HIDE DEF step
    <3>5. ASSUME NEW k \in 3..Len(s)
          PROVE  IF step[1 + ((k - 3) % 3)] = "Name" THEN s[k] \in SymbolicNames
                                                     ELSE s[k] = step[1 + ((k - 3) % 3)]
      <4>1. k \in Nat /\ k \in 1..Len(s) /\ (k - 3) % 3 = k % 3
        BY <1>1
      <4>2. k % 3 \in {0, 1, 2}
        BY <4>1, ThreeApart
      <4>3. \/ k % 3 = 0 /\ s[k] = "Pipe"
            \/ k % 3 = 1 /\ s[k] = "Colon"
            \/ k % 3 = 2 /\ s[k] \in SymbolicNames
        BY <4>1, <4>2 DEF OldForm
      <4> QED BY <4>1, <4>3, <3>3
    <3>6. /\ (Len(s) - 2) % Len(step) = 0
          /\ \A k \in 3..Len(s) :
                LET wanted == step[1 + ((k - 3) % Len(step))]
                IN  IF wanted = "Name" THEN s[k] \in SymbolicNames ELSE s[k] = wanted
      BY <3>3, <3>4, <3>5
    <3> QED BY <2>1, <3>2, <3>6 DEF LegacyLabelTokensAreConsistent, step
  <2> QED BY <2>2, <2>3
<1> QED BY <1>8, <1>10, <1>11 DEF LabelFits, t

(* What the scan over a relationship label merges, its own parser lets      *)
(* through as one label.                                                    *)
LEMMA LabelsAgree ==
    ASSUME NEW s \in Seq(Kinds), NEW i \in 1..Len(s), s[i] = "Colon", NEW e \in RelationshipLabelEnd(s, i)
    PROVE  e \in (i + 1)..Len(s) /\ LabelFits(SubSeq(s, i, e))
<1>1. e \in LabelPredicateEnd(s, i)
  BY DEF RelationshipLabelEnd
<1>2. PICK x \in LabelEnd(s)[i + 1].or : e = x - 1
  BY <1>1 DEF LabelPredicateEnd
<1>3. x \in ((i + 1) + 1)..(Len(s) + 1)
  <2>1. i + 1 \in 1..(Len(s) + 1)
    OBVIOUS
  <2> QED BY <2>1, <1>2, LabelFacts
<1>4. e \in (i + 1)..Len(s) /\ e + 1 \in LabelEnd(s)[i + 1].or /\ i \in Nat /\ Len(s) \in Nat
  <2>1. e + 1 = x
    BY <1>2, <1>3
  <2> QED BY <2>1, <1>2, <1>3
<1>5. CASE \A k \in (i + 1)..e : s[k] # "Colon"
  <2>1. e \in i..Len(s)
    BY <1>4
  <2> QED BY <2>1, <1>4, <1>5, PlainLabel
<1>6. CASE ~ \A k \in (i + 1)..e : s[k] # "Colon"
  <2> DEFINE run == SubSeq(s, i, e)
  <2>1. /\ (e - i) % 3 = 1
        /\ \A k \in (i + 1)..e :
             /\ (k - i) % 3 = 1 => s[k] \in SymbolicNames
             /\ (k - i) % 3 = 2 => s[k] = "Pipe"
             /\ (k - i) % 3 = 0 => s[k] = "Colon"
    <3>1. /\ (e - i) % 3 = 1
          /\ \A k \in (i + 1)..e :
               CASE (k - i) % 3 = 1 -> s[k] \in SymbolicNames
                 [] (k - i) % 3 = 2 -> s[k] = "Pipe"
                 [] (k - i) % 3 = 0 -> s[k] = "Colon"
      BY <1>6 DEF RelationshipLabelEnd
    <3> SUFFICES ASSUME NEW k \in (i + 1)..e
                 PROVE  /\ (k - i) % 3 = 1 => s[k] \in SymbolicNames
                        /\ (k - i) % 3 = 2 => s[k] = "Pipe"
                        /\ (k - i) % 3 = 0 => s[k] = "Colon"
      BY <3>1
    <3> DEFINE r == (k - i) % 3
    <3>2. (CASE r = 1 -> s[k] \in SymbolicNames
             [] r = 2 -> s[k] = "Pipe"
             [] r = 0 -> s[k] = "Colon")
      BY <3>1
    <3> HIDE DEF r
    <3>3. r = 1 => s[k] \in SymbolicNames
      BY <3>2
    <3>4. r = 2 => s[k] = "Pipe"
      BY <3>2
    <3>5. r = 0 => s[k] = "Colon"
      BY <3>2
    <3> QED BY <3>3, <3>4, <3>5, Zenon DEF r
  <2>2. run \in Seq(Kinds) /\ Len(run) = (e - i) + 1 /\ \A k \in 1..Len(run) : run[k] = s[k + (i - 1)]
    BY <1>4
  <2> HIDE DEF run
  <2>3. OldForm(run)
    <3> SUFFICES ASSUME NEW k \in 1..Len(run)
                 PROVE  /\ k % 3 = 2 => run[k] \in SymbolicNames
                        /\ k % 3 = 0 => run[k] = "Pipe"
                        /\ k % 3 = 1 => run[k] = "Colon"
      BY DEF OldForm
    <3> DEFINE p == k + (i - 1)
    <3>1. run[k] = s[p]
      BY <2>2
    <3>2. p - i = k - 1 /\ p \in i..e /\ (p = i \/ p \in (i + 1)..e)
      BY <1>4, <2>2
    <3>3. /\ k % 3 = 2 => (k - 1) % 3 = 1
          /\ k % 3 = 0 => (k - 1) % 3 = 2
          /\ k % 3 = 1 => (k - 1) % 3 = 0
      <4>1. k \in Nat /\ k - 1 \in Nat
        BY <2>2, <1>4
      <4> QED BY <4>1, ThreeBack
    <3>4. p = i => k % 3 = 1
      BY <1>4, <2>2
    <3> HIDE DEF p
    <3>5. p - i = k - 1
      BY <3>2
    <3> QED BY <3>1, <3>2, <3>3, <3>4, <2>1
  <2>4. \E Q \in Nat : Len(run) = 3 * Q + 2
    <3>1. e - i \in Nat
      BY <1>4
    <3>2. PICK Q \in Nat : e - i = 3 * Q + ((e - i) % 3)
      BY <3>1, ThreeApart
    <3> QED BY <3>1, <3>2, <2>1, <2>2
  <2>5. LabelFits(run)
    BY <2>2, <2>3, <2>4, OldLabel
  <2> QED BY <2>5, <1>4 DEF run
<1> QED BY <1>5, <1>6

-----------------------------------------------------------------------------
(* The runs.                                                                *)

\* What is known of a run for good, once it is written.
RunFits(src, run) ==
    /\ run.first \in 1..Len(src.tokens) /\ run.last \in run.first..Len(src.tokens)
    /\ src.boundary \in run.first..run.last => run = Run("Pipe", src.boundary, src.boundary)
    /\ src.nested /\ run.rule \in {"PatternComprehension", "PatternExpression"} =>
         run.last - run.first + 1 < Len(src.tokens)
    /\ run.rule = "QualifiedFunctionName" =>
         src.tokens[run.first] \in SymbolicNames /\ ~IsProcedureNameStart(src.tokens, run.first)
    /\ run.rule = "PatternExpression" => IsPatternExpressionContext(src.tokens, run.first)
    /\ run.rule = "LabelPredicate" => IsLabelPredicateContext(src.tokens, run.first)
    /\ run.rule = "RelationshipLabelExpression" =>
         LabelFits(SubSeq(src.tokens, run.first, run.last))
    /\ run.rule \in RuleNames =>
         /\ NestsIn(src.tokens) => BalancedIn(src.tokens, run.first, run.last)
         /\ src.nested /\ src.tokens[1] = "LeftBracket" => run.first # 1
    /\ run.rule \notin RuleNames =>
         /\ run.last = run.first
         /\ \/ run.rule = src.tokens[run.first]
            \/ run.rule = "SetAll" /\ src.tokens[run.first] = "All"

RunType == [rule : RunKinds, first : 1..Len(tokens), last : 1..Len(tokens)]

ShapingInv ==
    /\ IsSource(source)
    /\ index \in 1..(Len(tokens) + 1)
    /\ result \in Seq(RunType)
    /\ RunsTile
    /\ \A k \in DOMAIN result : RunFits(source, result[k])

\* The kinds that a rule's name must not be mistaken for.
LEMMA RulesAreNoKinds == RuleNames \cap (Kinds \cup {"SetAll"}) = {}
BY DEF RuleNames, Kinds, Openers, Closers, SymbolicNames, Keywords

LEMMA RunKindsNamed == Kinds \cup {"SetAll"} \subseteq RunKinds /\ RuleNames \subseteq RunKinds
<1>1. RuleNames = {Rules[r] : r \in DOMAIN Rules}
  <2>1. DOMAIN Rules = 1..6
    BY RulesNamed
  <2>2. /\ Rules[1] = "Parameter" /\ Rules[2] = "PatternComprehension" /\ Rules[3] = "PatternExpression"
        /\ Rules[4] = "RelationshipLabelExpression" /\ Rules[5] = "LabelPredicate"
        /\ Rules[6] = "QualifiedFunctionName"
    BY DEF Rules
  <2>3. \A name \in RuleNames : \E r \in 1..6 : Rules[r] = name
    BY <2>2 DEF RuleNames
  <2> QED BY <2>1, <2>3, RulesNamed
<1> QED BY <1>1 DEF RunKinds

LEMMA InitShaping == Init => ShapingInv
<1> SUFFICES ASSUME Init PROVE ShapingInv
  OBVIOUS
<1>1. IsSource(source)
  BY SourcesAssumption DEF Init
<1>2. Len(tokens) \in Nat
  BY <1>1, SourceTyped
<1>3. index = 1 /\ result = <<>>
  BY DEF Init
<1> QED BY <1>1, <1>2, <1>3 DEF ShapingInv, RunsTile

(* A run that a rule merges.                                                *)
LEMMA MergedFits ==
    ASSUME IsSource(source), NEW i \in 1..Len(tokens), NEW rule \in RuleNames, NEW end \in End(rule, i)
    PROVE  end \in i..Len(tokens) /\ RunFits(source, Run(rule, i, end))
<1> DEFINE run == Run(rule, i, end)
<1>1. /\ Len(tokens) \in Nat /\ source.boundary \in Nat /\ source.boundary <= Len(tokens)
      /\ source.boundary # NoPipe => source.nested /\ tokens[source.boundary] = "Pipe"
  BY SourceTyped
<1>2. end \in i..Len(Scan(i)) /\ tokens[i] \in Starters(rule)
  BY EndsAreTokens
<1>3. Len(Scan(i)) \in i..Len(tokens)
      /\ (source.boundary # NoPipe /\ i < source.boundary => Len(Scan(i)) = source.boundary - 1)
  BY ScanTyped
<1>4. end \in i..Len(tokens)
  BY <1>1, <1>2, <1>3
<1>5. source.boundary \notin i..end
  <2>1. "Pipe" \notin Starters(rule)
    BY DEF Starters, RuleNames, SymbolicNames, Keywords
  <2>2. source.boundary # NoPipe => i # source.boundary
    BY <1>1, <1>2, <2>1
  <2> QED BY <1>1, <1>2, <1>3, <2>2 DEF NoPipe
<1>6. source.nested /\ rule \in {"PatternComprehension", "PatternExpression"} => i # 1
  BY DEF End, WholeFragment
<1>7. rule = "QualifiedFunctionName" =>
        tokens[i] \in SymbolicNames /\ ~IsProcedureNameStart(tokens, i)
  <2>1. rule = "QualifiedFunctionName" => tokens[i] \in SymbolicNames
    BY <1>2 DEF Starters
  <2> QED BY <2>1 DEF End
<1>8. rule = "PatternExpression" => IsPatternExpressionContext(tokens, i)
  BY DEF End
<1>9. rule = "LabelPredicate" => IsLabelPredicateContext(tokens, i)
  BY DEF End
<1>10. run.rule = rule /\ run.first = i /\ run.last = end
  BY DEF Run
<1>11. NestsIn(tokens) => BalancedIn(tokens, i, end)
  BY EndsAreBalanced
<1> HIDE DEF run
<1>12. source.nested /\ tokens[1] = "LeftBracket" => i # 1
  <2>1. tokens[1] = "LeftBracket" /\ i = 1 => rule = "PatternComprehension"
    BY <1>2 DEF Starters, RuleNames, SymbolicNames, Keywords
  <2> QED BY <2>1, <1>6
<1>13. rule = "RelationshipLabelExpression" => LabelFits(SubSeq(tokens, i, end))
  <2> SUFFICES ASSUME rule = "RelationshipLabelExpression" PROVE LabelFits(SubSeq(tokens, i, end))
    OBVIOUS
  <2> DEFINE s == Scan(i)
  <2>1. s \in Seq(Kinds) /\ i \in 1..Len(s) /\ Len(s) \in Nat /\ \A k \in 1..Len(s) : s[k] = tokens[k]
    BY ScanTyped, SourceTyped
  <2>2. end \in RelationshipLabelEnd(s, i) /\ s[i] = "Colon"
    BY <2>1 DEF End, IsRelationshipLabelStart
  <2> HIDE DEF s
  <2>3. end \in (i + 1)..Len(s) /\ LabelFits(SubSeq(s, i, end))
    BY <2>1, <2>2, LabelsAgree
  <2>4. SubSeq(s, i, end) = SubSeq(tokens, i, end)
    <3>1. \A k \in 1..((end - i) + 1) : s[(i + k) - 1] = tokens[(i + k) - 1]
      BY <2>1, <2>3
    <3> QED BY <3>1, <2>1, <2>3, <1>1, <1>4
  <2> QED BY <2>3, <2>4
<1>14. RunFits(source, run)
  BY <1>1, <1>4, <1>5, <1>6, <1>7, <1>8, <1>9, <1>10, <1>11, <1>12, <1>13 DEF RunFits, tokens
<1> QED BY <1>4, <1>14 DEF run

(* A token that is passed on.                                               *)
LEMMA PlainFits ==
    ASSUME IsSource(source), NEW i \in 1..Len(tokens)
    PROVE  RunFits(source, Run(PlainKind(i), i, i)) /\ PlainKind(i) \in RunKinds
<1> DEFINE run == Run(PlainKind(i), i, i)
<1>1. /\ tokens \in Seq(Kinds) /\ Len(tokens) \in Nat /\ source.boundary \in Nat
      /\ source.boundary # NoPipe => tokens[source.boundary] = "Pipe"
  BY SourceTyped
<1>2. tokens[i] \in Kinds
  BY <1>1
<1>3. PlainKind(i) \in Kinds \cup {"SetAll"}
  BY <1>2 DEF PlainKind
<1>4. PlainKind(i) \notin RuleNames
  BY <1>3, RulesAreNoKinds
<1>5. i = source.boundary => PlainKind(i) = "Pipe"
  BY <1>1 DEF PlainKind, IsExplicitSetAll, NoPipe
<1>6. run.rule = PlainKind(i) /\ run.first = i /\ run.last = i
  BY DEF Run
<1>7. source.boundary \in i..i => run = Run("Pipe", source.boundary, source.boundary)
  BY <1>5
<1> HIDE DEF run
<1>8. PlainKind(i) = tokens[i] \/ (PlainKind(i) = "SetAll" /\ tokens[i] = "All")
  BY DEF PlainKind, IsExplicitSetAll
<1>9. run.rule \notin RuleNames
  BY <1>4, <1>6
<1>10. RunFits(source, run)
  BY <1>1, <1>6, <1>7, <1>8, <1>9 DEF RunFits, tokens, RuleNames
<1>11. PlainKind(i) \in RunKinds
  BY <1>3, RunKindsNamed
<1> QED BY <1>10, <1>11 DEF run

(* A run is written where the last one ended.                               *)
LEMMA AppendFits ==
    ASSUME ShapingInv, index <= Len(tokens), NEW rule \in RunKinds, NEW end \in index..Len(tokens),
           RunFits(source, Run(rule, index, end)),
           source' = source, index' = end + 1, result' = Append(result, Run(rule, index, end))
    PROVE  ShapingInv'
<1> DEFINE run == Run(rule, index, end)
<1>1. IsSource(source) /\ index \in 1..(Len(tokens) + 1) /\ result \in Seq(RunType) /\ RunsTile
      /\ \A k \in DOMAIN result : RunFits(source, result[k])
  BY DEF ShapingInv
<1>2. Len(tokens) \in Nat
  BY <1>1, SourceTyped
<1>3. tokens' = tokens /\ RunType' = RunType
  BY DEF tokens, RunType
<1>4. run \in RunType /\ run.first = index /\ run.last = end
  BY <1>1, <1>2 DEF Run, RunType
<1> HIDE DEF run
<1>5. result' = Append(result, run)
  BY DEF run
<1>6. result' \in Seq(RunType) /\ Len(result) \in Nat
      /\ DOMAIN result = 1..Len(result) /\ DOMAIN result' = 1..(Len(result) + 1)
      /\ result' # <<>> /\ Len(result') = Len(result) + 1
  BY <1>1, <1>4, <1>5
<1>7. (\A k \in DOMAIN result : result'[k] = result[k]) /\ result'[Len(result) + 1] = run
  BY <1>1, <1>4, <1>5
<1>8. \A k \in DOMAIN result' : k \in DOMAIN result \/ k = Len(result) + 1
  BY <1>6
<1>9. \A k \in DOMAIN result' : RunFits(source, result'[k])
  BY <1>1, <1>7, <1>8 DEF run
<1>10. RunsTile'
  <2>1. \A k \in DOMAIN result' :
          /\ result'[k].first <= result'[k].last
          /\ result'[k].first = IF k = 1 THEN 1 ELSE result'[k - 1].last + 1
    <3> SUFFICES ASSUME NEW k \in DOMAIN result'
                 PROVE  /\ result'[k].first <= result'[k].last
                        /\ result'[k].first = IF k = 1 THEN 1 ELSE result'[k - 1].last + 1
      OBVIOUS
    <3>1. CASE k \in DOMAIN result
      <4>1. result'[k] = result[k] /\ (k # 1 => k - 1 \in DOMAIN result)
        BY <1>6, <1>7, <3>1
      <4>2. k # 1 => result'[k - 1] = result[k - 1]
        BY <4>1, <1>7
      <4> QED BY <4>1, <4>2, <3>1, <1>1 DEF RunsTile
    <3>2. CASE k = Len(result) + 1
      <4>1. result'[k] = run /\ index = IF result = <<>> THEN 1 ELSE result[Len(result)].last + 1
        BY <1>1, <1>7, <3>2 DEF RunsTile
      <4>2. k = 1 <=> result = <<>>
        BY <1>1, <1>6, <3>2
      <4>3. k # 1 => k - 1 = Len(result) /\ k - 1 \in DOMAIN result
        BY <1>6, <3>2
      <4>4. k # 1 => result'[k - 1] = result[Len(result)]
        BY <4>3, <1>7
      <4> QED BY <4>1, <4>2, <4>4, <1>4
    <3> QED BY <3>1, <3>2, <1>8
  <2>2. index' = IF result' = <<>> THEN 1 ELSE result'[Len(result')].last + 1
    BY <1>4, <1>6, <1>7
  <2> QED BY <2>1, <2>2 DEF RunsTile
<1>11. index' \in 1..(Len(tokens) + 1)
  BY <1>1, <1>2
<1> QED BY <1>1, <1>3, <1>6, <1>9, <1>10, <1>11 DEF ShapingInv

LEMMA ShapeTokenFits == ShapingInv /\ ShapeToken => ShapingInv'
<1> SUFFICES ASSUME ShapingInv, ShapeToken PROVE ShapingInv'
  OBVIOUS
<1>1. IsSource(source) /\ index \in 1..(Len(tokens) + 1) /\ Len(tokens) \in Nat
  BY SourceTyped DEF ShapingInv
<1>2. CASE PushToken
  <2>1. index \in 1..Len(tokens)
    BY <1>1, <1>2 DEF PushToken
  <2>2. RunFits(source, Run(PlainKind(index), index, index)) /\ PlainKind(index) \in RunKinds
    BY <1>1, <2>1, PlainFits
  <2>3. index <= Len(tokens) /\ index \in index..Len(tokens)
    BY <2>1, <1>1
  <2>4. source' = source /\ index' = index + 1
        /\ result' = Append(result, Run(PlainKind(index), index, index))
    BY <1>2 DEF PushToken
  <2> HIDE DEF ShapingInv
  <2> QED BY <2>2, <2>3, <2>4, AppendFits
<1>3. ASSUME NEW r \in DOMAIN Rules, Merge(r)
      PROVE  ShapingInv'
  <2>1. index \in 1..Len(tokens)
    BY <1>1, <1>3 DEF Merge
  <2>2. PICK end \in index..Len(tokens) :
          /\ end \in End(Rules[r], index)
          /\ result' = Append(result, Run(Rules[r], index, end))
          /\ index' = end + 1
    BY <1>3 DEF Merge, After
  <2>3. Rules[r] \in RuleNames
    BY RulesNamed
  <2>4. RunFits(source, Run(Rules[r], index, end))
    BY <1>1, <2>1, <2>2, <2>3, MergedFits
  <2>5. Rules[r] \in RunKinds
    BY <2>3, RunKindsNamed
  <2>6. source' = source
    BY <1>3 DEF Merge
  <2>7. index <= Len(tokens)
    BY <2>1, <1>1
  <2> QED BY <2>2, <2>4, <2>5, <2>6, <2>7, AppendFits
<1> QED BY <1>2, <1>3 DEF ShapeToken

-----------------------------------------------------------------------------
(* The splits of a fragment.                                                *)

PartNames == {"pattern", "predicate", "projection"}

Locations == StartOf(1)..EndOf(Len(tokens))

\* A fragment has tokens, and only a comprehension reserves pipes.
FragmentKnown ==
    /\ pc \in {"Query", "Start", "Reserve", "Shape", "Ok", "Err"} \cup PartNames
    /\ pc # "Query" => source.nested /\ Len(tokens) >= 1
    /\ pc # "Query" /\ IsComprehension => Len(tokens) \in PatternComprehensionEnd(tokens, 1)
    /\ pc = "Reserve" => IsComprehension
    /\ pc \in {"Query", "Start"} => failures = {} /\ error = NoError /\ splits = 0
    /\ pc = "Start" => source.boundary = NoPipe

\* The parts lie among the runs, and the one being parsed is not empty.
PartsInRange ==
    pc \in PartNames =>
        /\ \A p \in PartNames : /\ part[p][1] \in Nat /\ part[p][1] >= 1
                                /\ part[p][2] \in Int /\ part[p][2] <= Len(result)
        /\ part[pc][1] <= part[pc][2]
        /\ IsComprehension => part.projection[1] >= 2 /\ part.projection[1] <= part.projection[2]

\* The error is the farthest of those met.
ErrorKept ==
    /\ failures \subseteq Locations
    /\ failures = {} => error = NoError \/ (pc = "Err" /\ error = StartOf(1))
    /\ failures # {} => error \in failures /\ \A location \in failures : location <= error

PipesBefore(b) == {j \in TopLevelPipes : j < b}
PipesUpTo(b) == {j \in TopLevelPipes : j <= b}

\* A split was made at every pipe before the one at hand.
PipesTried ==
    IsComprehension =>
        /\ pc \in {"Start", "Reserve"} => splits = Cardinality(PipesUpTo(source.boundary))
        /\ pc \in {"Shape"} \cup PartNames =>
             /\ source.boundary \in TopLevelPipes
             /\ splits = Cardinality(PipesBefore(source.boundary))
        /\ pc = "Err" => failures = {} \/ splits = Cardinality(TopLevelPipes)

FragmentInv == ShapingInv /\ FragmentKnown /\ PartsInRange /\ ErrorKept /\ PipesTried

LEMMA PipesCounted ==
    ASSUME IsSource(source), NEW b \in Int
    PROVE  /\ TopLevelPipes \subseteq 1..Len(tokens) /\ IsFiniteSet(TopLevelPipes)
           /\ Cardinality(PipesBefore(b)) \in Nat
           /\ b \in TopLevelPipes => Cardinality(PipesUpTo(b)) = Cardinality(PipesBefore(b)) + 1
           /\ (\A j \in TopLevelPipes : j <= b) => PipesUpTo(b) = TopLevelPipes
<1>1. DOMAIN tokens = 1..Len(tokens) /\ Len(tokens) \in Nat
  BY SourceTyped
<1>2. TopLevelPipes \subseteq 1..Len(tokens)
  BY <1>1 DEF TopLevelPipes
<1>3. IsFiniteSet(TopLevelPipes)
  <2>1. IsFiniteSet(1..Len(tokens))
    BY <1>1, FS_Interval
  <2> QED BY <2>1, <1>2, FS_Subset
<1>4. IsFiniteSet(PipesBefore(b)) /\ Cardinality(PipesBefore(b)) \in Nat
  <2>1. PipesBefore(b) \subseteq TopLevelPipes
    BY DEF PipesBefore
  <2> QED BY <2>1, <1>3, FS_Subset, FS_CardinalityType
<1>5. ASSUME b \in TopLevelPipes PROVE Cardinality(PipesUpTo(b)) = Cardinality(PipesBefore(b)) + 1
  <2>1. PipesUpTo(b) = PipesBefore(b) \cup {b} /\ b \notin PipesBefore(b)
    <3>1. \A j \in TopLevelPipes : j \in Int
      BY <1>1, <1>2
    <3>2. \A j \in TopLevelPipes : j <= b <=> j < b \/ j = b
      BY <3>1
    <3>3. \A j : j \in PipesUpTo(b) <=> j \in PipesBefore(b) \/ j = b
      BY <3>2, <1>5 DEF PipesUpTo, PipesBefore
    <3>4. b \notin PipesBefore(b)
      BY DEF PipesBefore
    <3> QED BY <3>3, <3>4
  <2> QED BY <2>1, <1>4, FS_AddElement
<1>6. (\A j \in TopLevelPipes : j <= b) => PipesUpTo(b) = TopLevelPipes
  BY DEF PipesUpTo
<1> QED BY <1>2, <1>3, <1>4, <1>5, <1>6

LEMMA InitFragment == FragmentInit => FragmentInv
<1> SUFFICES ASSUME FragmentInit PROVE FragmentInv
  OBVIOUS
<1>1. ShapingInv
  BY InitShaping DEF FragmentInit
<1>2. IsSource(source) /\ tokens \in Seq(Kinds) /\ Len(tokens) \in Nat
  BY <1>1, SourceTyped DEF ShapingInv
<1>3. /\ pc \in {"Query", "Start"}
      /\ pc = "Start" => IsFragment
      /\ part = Nothing /\ error = NoError /\ failures = {} /\ splits = 0
  BY DEF FragmentInit
<1>4. IsFragment => source.nested /\ source.boundary = NoPipe /\ Len(tokens) >= 1
  <2> SUFFICES ASSUME IsFragment PROVE Len(tokens) >= 1
    BY DEF IsFragment
  <2>1. PatternComprehensionEnd(tokens, 1) \subseteq 2..Len(tokens)
    BY DEF PatternComprehensionEnd
  <2>2. PatternExpressionEnd(tokens, 1) # {} => Len(tokens) >= 1
    <3> SUFFICES ASSUME NEW e \in PatternExpressionEnd(tokens, 1) PROVE Len(tokens) >= 1
      OBVIOUS
    <3>1. PICK first \in NodeEnd(tokens, 1) : TRUE
      BY DEF PatternExpressionEnd
    <3>2. first \in 2..Len(tokens)
      BY <1>2, NodeIsAhead
    <3> QED BY <3>2, <1>2
  <2>3. Len(tokens) \in PatternComprehensionEnd(tokens, 1) \cup PatternExpressionEnd(tokens, 1)
    BY DEF IsFragment
  <2> QED BY <2>1, <2>2, <2>3, <1>2
<1>5. FragmentKnown
  <2>1. PatternExpressionEnd(tokens, 1) # {} => ~IsComprehension
    BY DEF PatternExpressionEnd, NodeEnd, IsComprehension
  <2>2. IsFragment /\ IsComprehension => Len(tokens) \in PatternComprehensionEnd(tokens, 1)
    BY <2>1 DEF IsFragment
  <2> QED BY <1>3, <1>4, <2>2 DEF FragmentKnown, PartNames
<1>6. PartsInRange /\ ErrorKept
  BY <1>3 DEF PartsInRange, ErrorKept, PartNames
<1>7. PipesTried
  <2> SUFFICES ASSUME pc = "Start" PROVE Cardinality(PipesUpTo(source.boundary)) = 0
    BY <1>3 DEF PipesTried, PartNames
  <2>1. source.boundary = 0
    BY <1>3, <1>4 DEF NoPipe
  <2>2. TopLevelPipes \subseteq 1..Len(tokens)
    BY <1>2, PipesCounted
  <2>3. \A j \in TopLevelPipes : ~(j <= 0)
    BY <2>2, <1>2
  <2>4. PipesUpTo(0) = {}
    BY <2>3 DEF PipesUpTo
  <2> QED BY <2>1, <2>4, FS_EmptySet
<1> QED BY <1>1, <1>5, <1>6, <1>7 DEF FragmentInv

LEMMA SameTokens ==
    ASSUME tokens' = tokens
    PROVE  TopLevelPipes' = TopLevelPipes /\ IsComprehension' = IsComprehension /\ Locations' = Locations
BY DEF TopLevelPipes, IsComprehension, Locations

LEMMA ShapingStutters == ShapingInv /\ UNCHANGED vars => ShapingInv'
BY DEF ShapingInv, vars, tokens, RunsTile, RunType

LEMMA LexFits == FragmentInv /\ Lex => FragmentInv'
<1> SUFFICES ASSUME FragmentInv, Lex PROVE FragmentInv'
  OBVIOUS
<1>1. ShapingInv /\ FragmentKnown /\ PartsInRange /\ ErrorKept /\ PipesTried
  BY DEF FragmentInv
<1>2. /\ pc = "Start" /\ UNCHANGED vars /\ source' = source
      /\ part' = part /\ failures' = failures /\ splits' = splits
      /\ pc' \in {"Err", "Reserve", "Shape"}
      /\ pc' = "Reserve" => IsComprehension
      /\ pc' = "Shape" => ~IsComprehension
      /\ IF pc' = "Err" THEN error' = StartOf(1) ELSE error' = error
  BY DEF Lex, vars
<1>3. tokens' = tokens
  BY <1>2 DEF tokens
<1>4. TopLevelPipes' = TopLevelPipes /\ IsComprehension' = IsComprehension /\ Locations' = Locations
  BY <1>3, SameTokens
<1>5. ShapingInv'
  BY <1>1, <1>2, ShapingStutters
<1>6. FragmentKnown'
  BY <1>1, <1>2, <1>3, <1>4 DEF FragmentKnown, PartNames
<1>7. PartsInRange' /\ ErrorKept'
  BY <1>1, <1>2, <1>4 DEF PartsInRange, ErrorKept, PartNames, FragmentKnown
<1>8. PipesTried'
  BY <1>1, <1>2, <1>4 DEF PipesTried, PartNames, PipesUpTo, PipesBefore, FragmentKnown
<1> QED BY <1>5, <1>6, <1>7, <1>8 DEF FragmentInv

LEMMA ReserveFits == FragmentInv /\ Reserve => FragmentInv'
<1> SUFFICES ASSUME FragmentInv, Reserve PROVE FragmentInv'
  OBVIOUS
<1>1. ShapingInv /\ FragmentKnown /\ PartsInRange /\ ErrorKept /\ PipesTried
  BY DEF FragmentInv
<1> DEFINE b == Min(Candidates)
<1>2. /\ pc = "Reserve" /\ Candidates # {}
      /\ source' = [source EXCEPT !.boundary = b] /\ index' = 1 /\ result' = <<>>
      /\ pc' = "Shape" /\ part' = Nothing
      /\ error' = error /\ failures' = failures /\ splits' = splits
  BY DEF Reserve
<1>3. IsSource(source) /\ Len(tokens) \in Nat /\ DOMAIN tokens = 1..Len(tokens)
      /\ TopLevelPipes \subseteq 1..Len(tokens) /\ source.boundary \in Nat
  <2>1. IsSource(source)
    BY <1>1 DEF ShapingInv
  <2>2. Len(tokens) \in Nat /\ DOMAIN tokens = 1..Len(tokens) /\ source.boundary \in Nat
    BY <2>1, SourceTyped
  <2>3. TopLevelPipes \subseteq 1..Len(tokens)
    BY <2>2 DEF TopLevelPipes
  <2> QED BY <2>1, <2>2, <2>3
<1>4. b \in Candidates /\ \A j \in Candidates : b <= j
  <2>1. Candidates \subseteq Nat
    <3>1. \A j \in TopLevelPipes : j \in Nat
      BY <1>3
    <3> QED BY <3>1 DEF Candidates
  <2> QED BY <2>1, <1>2, MinIsLeast
<1> HIDE DEF b
<1>5. b \in TopLevelPipes /\ b \in 1..Len(tokens) /\ b > source.boundary /\ tokens[b] = "Pipe"
  BY <1>3, <1>4 DEF Candidates, TopLevelPipes
<1>6. IsComprehension /\ source.nested
  BY <1>1, <1>2 DEF FragmentKnown
<1>7. source'.tokens = source.tokens /\ source'.spaced = source.spaced
      /\ source'.nested = source.nested
  BY <1>2
<1>8. source'.boundary = b
  <2>1. "boundary" \in DOMAIN source
    BY <1>3 DEF IsSource
  <2> QED BY <2>1, <1>2
<1>9. tokens' = tokens
  BY <1>7 DEF tokens
<1>10. TopLevelPipes' = TopLevelPipes /\ IsComprehension' = IsComprehension /\ Locations' = Locations
  BY <1>9, SameTokens
<1>11. IsSource(source')
  <2> DEFINE Record == [tokens : Seq(Kinds), spaced : SUBSET Nat, nested : BOOLEAN, boundary : Nat]
  <2>1. source \in Record /\ b \in Nat
    BY <1>3, <1>5 DEF IsSource
  <2>2. source' \in Record
    BY <2>1, <1>2
  <2>3. source'.spaced \subseteq DOMAIN source'.tokens
    BY <1>3, <1>7 DEF IsSource
  <2>4. source'.nested /\ source'.boundary \in DOMAIN source'.tokens
        /\ source'.tokens[source'.boundary] = "Pipe"
    BY <1>3, <1>5, <1>6, <1>7, <1>8 DEF tokens
  <2> QED BY <2>2, <2>3, <2>4 DEF IsSource
<1>12. ShapingInv'
  BY <1>2, <1>3, <1>9, <1>11 DEF ShapingInv, RunsTile
<1>13. FragmentKnown'
  BY <1>1, <1>2, <1>6, <1>7, <1>9, <1>10 DEF FragmentKnown, PartNames
<1>14. PartsInRange' /\ ErrorKept'
  BY <1>1, <1>2, <1>10 DEF PartsInRange, ErrorKept, PartNames
<1>15. PipesTried'
  <2>1. \A j \in TopLevelPipes : j <= source.boundary <=> j < b
    <3> SUFFICES ASSUME NEW j \in TopLevelPipes PROVE j <= source.boundary <=> j < b
      OBVIOUS
    <3>1. j > source.boundary => j \in Candidates
      BY DEF Candidates
    <3> QED BY <3>1, <1>3, <1>4, <1>5
  <2>2. PipesUpTo(source.boundary) = {j \in TopLevelPipes : j < b}
    BY <2>1 DEF PipesUpTo
  <2>3. splits = Cardinality(PipesUpTo(source.boundary))
    BY <1>1, <1>2, <1>6 DEF PipesTried
  <2>4. splits' = Cardinality({j \in TopLevelPipes' : j < b})
    BY <1>2, <1>10, <2>2, <2>3
  <2> QED BY <1>2, <1>5, <1>8, <1>10, <2>4 DEF PipesTried, PipesBefore, PartNames
<1> QED BY <1>12, <1>13, <1>14, <1>15 DEF FragmentInv

LEMMA GiveUpFits == FragmentInv /\ GiveUp => FragmentInv'
<1> SUFFICES ASSUME FragmentInv, GiveUp PROVE FragmentInv'
  OBVIOUS
<1>1. ShapingInv /\ FragmentKnown /\ PartsInRange /\ ErrorKept /\ PipesTried
  BY DEF FragmentInv
<1>2. /\ pc = "Reserve" /\ Candidates = {} /\ pc' = "Err" /\ UNCHANGED vars /\ source' = source
      /\ part' = part /\ failures' = failures /\ splits' = splits
      /\ error' = IF error = NoError THEN StartOf(1) ELSE error
  BY DEF GiveUp, vars
<1>3. tokens' = tokens /\ IsSource(source)
  BY <1>1, <1>2 DEF tokens, ShapingInv
<1>4. TopLevelPipes' = TopLevelPipes /\ IsComprehension' = IsComprehension /\ Locations' = Locations
  BY <1>3, SameTokens
<1>5. ShapingInv'
  BY <1>1, <1>2, ShapingStutters
<1>6. FragmentKnown' /\ PartsInRange'
  BY <1>1, <1>2, <1>3, <1>4 DEF FragmentKnown, PartsInRange, PartNames
<1>7. ErrorKept'
  <2>1. failures # {} => error # NoError
    <3>1. \A location \in Locations : location # NoError
      BY DEF Locations, StartOf, EndOf, NoError
    <3> QED BY <3>1, <1>1 DEF ErrorKept
  <2> QED BY <2>1, <1>1, <1>2, <1>4 DEF ErrorKept
<1>8. IsComprehension => splits = Cardinality(TopLevelPipes)
  <2>1. TopLevelPipes \subseteq 1..Len(tokens) /\ source.boundary \in Nat /\ Len(tokens) \in Nat
    BY <1>3, PipesCounted, SourceTyped
  <2>2. \A j \in TopLevelPipes : j <= source.boundary
    BY <1>2, <2>1 DEF Candidates
  <2>3. PipesUpTo(source.boundary) = TopLevelPipes
    BY <2>2 DEF PipesUpTo
  <2> QED BY <1>1, <1>2, <2>3 DEF PipesTried
<1>9. PipesTried'
  BY <1>2, <1>4, <1>8 DEF PipesTried, PartNames
<1> QED BY <1>5, <1>6, <1>7, <1>9 DEF FragmentInv

LEMMA ShapeFits == FragmentInv /\ Shape => FragmentInv'
<1> SUFFICES ASSUME FragmentInv, Shape PROVE FragmentInv'
  OBVIOUS
<1>1. ShapingInv /\ FragmentKnown /\ PartsInRange /\ ErrorKept /\ PipesTried
  BY DEF FragmentInv
<1>2. /\ pc \in {"Query", "Shape"} /\ ShapeToken /\ pc' = pc /\ part' = part
      /\ error' = error /\ failures' = failures /\ splits' = splits
  BY DEF Shape, fragment
<1>3. source' = source
  BY <1>2 DEF ShapeToken, PushToken, Merge
<1>4. tokens' = tokens
  BY <1>3 DEF tokens
<1>5. TopLevelPipes' = TopLevelPipes /\ IsComprehension' = IsComprehension /\ Locations' = Locations
  BY <1>4, SameTokens
<1>6. ShapingInv'
  BY <1>1, <1>2, ShapeTokenFits
<1>7. FragmentKnown'
  BY <1>1, <1>2, <1>3, <1>4, <1>5 DEF FragmentKnown, PartNames
<1>8. PartsInRange' /\ ErrorKept'
  BY <1>1, <1>2, <1>5 DEF PartsInRange, ErrorKept, PartNames
<1>9. PipesTried'
  BY <1>1, <1>2, <1>3, <1>5 DEF PipesTried, PartNames, PipesUpTo, PipesBefore
<1> QED BY <1>6, <1>7, <1>8, <1>9 DEF FragmentInv

\* Where runs start and end, as offsets.
LEMMA RunsLocated ==
    ASSUME ShapingInv, Len(tokens) >= 1
    PROVE  /\ Len(result) \in Nat /\ DOMAIN result = 1..Len(result)
           /\ \A k \in 1..Len(result) :
                StartOf(result[k].first) \in Locations /\ EndOf(result[k].last) \in Locations
           /\ StartOf(1) \in Locations
           /\ index > Len(tokens) => Len(result) >= 1
<1>1. IsSource(source) /\ result \in Seq(RunType) /\ RunsTile
  BY DEF ShapingInv
<1>2. Len(tokens) \in Nat
  BY <1>1, SourceTyped
<1>3. Len(result) \in Nat /\ DOMAIN result = 1..Len(result)
  BY <1>1
<1>4. \A k \in 1..Len(result) : result[k] \in RunType
  BY <1>1
<1>5. \A k \in 1..Len(result) : result[k].first \in 1..Len(tokens) /\ result[k].last \in 1..Len(tokens)
  BY <1>4 DEF RunType
<1>6. \A i \in 1..Len(tokens) : StartOf(i) \in Locations /\ EndOf(i) \in Locations
  BY <1>2 DEF Locations, StartOf, EndOf
<1>7. StartOf(1) \in Locations
  BY <1>2, <1>6
<1>8. index > Len(tokens) => Len(result) >= 1
  <2> SUFFICES ASSUME index > Len(tokens), Len(result) = 0 PROVE FALSE
    BY <1>3
  <2>1. result = <<>>
    BY <1>1
  <2>2. index = 1
    BY <1>1, <2>1 DEF RunsTile
  <2> QED BY <2>2, <1>2
<1> QED BY <1>3, <1>5, <1>6, <1>7, <1>8

(* A split that fails: its error is met, and it is one more of those made.  *)
LEMMA FailureFits ==
    ASSUME FragmentInv, NEW location \in Locations, FailAt(location), UNCHANGED <<vars, part>>,
           pc \in {"Shape"} \cup PartNames
    PROVE  FragmentInv'
<1>1. ShapingInv /\ FragmentKnown /\ PartsInRange /\ ErrorKept /\ PipesTried
  BY DEF FragmentInv
<1>2. /\ failures' = failures \cup {location} /\ splits' = splits + 1
      /\ error' = (IF location >= error THEN location ELSE error)
      /\ pc' = (IF IsComprehension THEN "Reserve" ELSE "Err")
      /\ UNCHANGED vars /\ source' = source
  BY DEF FailAt, Farthest, vars
<1>3. tokens' = tokens /\ IsSource(source) /\ Len(tokens) \in Nat
  BY <1>1, <1>2, SourceTyped DEF tokens, ShapingInv
<1>4. TopLevelPipes' = TopLevelPipes /\ IsComprehension' = IsComprehension /\ Locations' = Locations
  BY <1>3, SameTokens
<1>5. ShapingInv'
  BY <1>1, <1>2, ShapingStutters
<1>6. FragmentKnown' /\ PartsInRange'
  BY <1>1, <1>2, <1>3, <1>4 DEF FragmentKnown, PartsInRange, PartNames
<1>7. ErrorKept'
  <2>1. \A x \in Locations : x \in Nat
    BY <1>3 DEF Locations, StartOf, EndOf
  <2>2. failures \subseteq Locations /\ location \in Nat
    BY <1>1, <2>1 DEF ErrorKept
  <2>3. CASE failures = {}
    <3>1. error = 0
      BY <1>1, <2>3 DEF ErrorKept, NoError, PartNames
    <3>2. error' = location
      BY <1>2, <2>2, <3>1
    <3> QED BY <1>2, <1>4, <2>2, <2>3, <3>2 DEF ErrorKept
  <2>4. CASE failures # {}
    <3>1. error \in failures /\ \A x \in failures : x <= error
      BY <1>1, <2>4 DEF ErrorKept
    <3>2. error \in Nat /\ \A x \in failures : x \in Nat
      BY <2>1, <2>2, <3>1
    <3>3. error' \in failures' /\ \A x \in failures' : x <= error'
      BY <1>2, <2>2, <3>1, <3>2
    <3> QED BY <1>2, <1>4, <2>2, <3>3 DEF ErrorKept
  <2> QED BY <2>3, <2>4
<1>8. PipesTried'
  <2> SUFFICES ASSUME IsComprehension
               PROVE  splits' = Cardinality({j \in TopLevelPipes : j <= source.boundary})
    BY <1>2, <1>4 DEF PipesTried, PipesUpTo, PartNames
  <2>1. source.boundary \in TopLevelPipes /\ splits = Cardinality(PipesBefore(source.boundary))
    BY <1>1 DEF PipesTried
  <2>2. source.boundary \in Int
    BY <1>3, SourceTyped
  <2>3. Cardinality(PipesUpTo(source.boundary)) = Cardinality(PipesBefore(source.boundary)) + 1
    BY <1>3, <2>1, <2>2, PipesCounted
  <2> QED BY <1>2, <2>1, <2>3 DEF PipesUpTo
<1> QED BY <1>5, <1>6, <1>7, <1>8 DEF FragmentInv

(* What stays as it is while the parts are parsed one after another.        *)
LEMMA PartsFit ==
    ASSUME FragmentInv, UNCHANGED <<vars, error, failures, splits>>,
           pc \in {"Shape"} \cup PartNames, pc' \in {"Ok"} \cup PartNames, PartsInRange'
    PROVE  FragmentInv'
<1>1. ShapingInv /\ FragmentKnown /\ PartsInRange /\ ErrorKept /\ PipesTried
  BY DEF FragmentInv
<1>2. UNCHANGED vars /\ source' = source /\ error' = error /\ failures' = failures /\ splits' = splits
  BY DEF vars
<1>3. tokens' = tokens
  BY <1>2 DEF tokens
<1>4. TopLevelPipes' = TopLevelPipes /\ IsComprehension' = IsComprehension /\ Locations' = Locations
  BY <1>3, SameTokens
<1>5. ShapingInv'
  BY <1>1, <1>2, ShapingStutters
<1>6. FragmentKnown'
  BY <1>1, <1>2, <1>3, <1>4 DEF FragmentKnown, PartNames
<1>7. ErrorKept'
  BY <1>1, <1>2, <1>4 DEF ErrorKept, PartNames
<1>8. PipesTried'
  BY <1>1, <1>2, <1>4 DEF PipesTried, PartNames, PipesBefore
<1> QED BY <1>5, <1>6, <1>7, <1>8 DEF FragmentInv

LEMMA WholePatternFits == FragmentInv /\ WholePattern => FragmentInv'
<1> SUFFICES ASSUME FragmentInv, WholePattern PROVE FragmentInv'
  OBVIOUS
<1>1. /\ pc = "Shape" /\ index > Len(tokens) /\ ~IsComprehension /\ pc' = "pattern"
      /\ part' = [pattern |-> <<1, Len(result)>>, predicate |-> <<1, 0>>, projection |-> <<1, 0>>]
      /\ UNCHANGED <<vars, error, failures, splits>>
  BY DEF WholePattern, Nothing
<1>2. Len(result) \in Nat /\ Len(result) >= 1
  <2>1. ShapingInv /\ Len(tokens) >= 1
    BY <1>1 DEF FragmentInv, FragmentKnown
  <2> QED BY <2>1, <1>1, RunsLocated
<1>3. IsComprehension' = IsComprehension /\ result' = result
  BY <1>1, SameTokens DEF vars, tokens
<1>4. PartsInRange'
  BY <1>1, <1>2, <1>3 DEF PartsInRange, PartNames
<1> QED BY <1>1, <1>4, PartsFit DEF PartNames

(* The split is made inside the outer brackets.                             *)
LEMMA SplitPlaced ==
    ASSUME Len(result) \in Nat, NEW pipe \in Separator
    PROVE  /\ pipe \in 2..(Len(result) - 1)
           /\ PatternStart(pipe) \in {2, 4}
           /\ PatternEnd(pipe) \in 1..pipe
<1>1. pipe \in 2..(Len(result) - 1)
  BY DEF Separator, FindTopLevel
<1>2. PatternStart(pipe) \in {2, 4}
  BY DEF PatternStart
<1>3. PatternEnd(pipe) \in 1..pipe
  <2>1. CASE WhereAt(pipe) = {}
    BY <1>1, <2>1 DEF PatternEnd
  <2>2. CASE WhereAt(pipe) # {}
    <3>1. WhereAt(pipe) \subseteq PatternStart(pipe)..(pipe - 1)
      BY DEF WhereAt, FindTopLevel
    <3>2. WhereAt(pipe) \subseteq Nat
      BY <1>1, <1>2, <3>1
    <3>3. Min(WhereAt(pipe)) \in WhereAt(pipe)
      BY <2>2, <3>2, MinIsLeast
    <3>4. PatternEnd(pipe) = Min(WhereAt(pipe))
      BY <2>2 DEF PatternEnd
    <3> QED BY <1>1, <1>2, <3>1, <3>3, <3>4
  <2> QED BY <2>1, <2>2
<1> QED BY <1>1, <1>2, <1>3

(* A split without an error has a pattern and a projection.                 *)
LEMMA SplitChecked ==
    ASSUME Len(result) \in Nat, SplitErrors = {}, NEW pipe \in Separator
    PROVE  PatternStart(pipe) < PatternEnd(pipe) /\ pipe + 1 < Len(result)
<1> DEFINE Wrong(p) == IF PatternStart(p) >= PatternEnd(p)
                       THEN {StartOf(result[PatternEnd(p)].first)}
                       ELSE IF p + 1 >= Len(result) THEN {StartOf(result[Len(result)].first)}
                       ELSE {}
<1>1. SplitErrors = IF ~OuterBracketsFound \/ Separator = {} THEN {StartOf(1)}
                    ELSE UNION {Wrong(p) : p \in Separator}
  BY DEF SplitErrors
<1>2. UNION {Wrong(p) : p \in Separator} = {}
  <2> HIDE DEF Wrong
  <2> QED BY <1>1
<1>3. Wrong(pipe) = {}
  <2> HIDE DEF Wrong
  <2> QED BY <1>2
<1>4. ~(PatternStart(pipe) >= PatternEnd(pipe)) /\ ~(pipe + 1 >= Len(result))
  BY <1>3
<1>5. pipe \in 2..(Len(result) - 1) /\ PatternStart(pipe) \in {2, 4} /\ PatternEnd(pipe) \in 1..pipe
  BY SplitPlaced
<1> QED BY <1>4, <1>5

LEMMA SplitFits == FragmentInv /\ Split => FragmentInv'
<1> SUFFICES ASSUME FragmentInv, Split PROVE FragmentInv'
  OBVIOUS
<1>1. /\ pc = "Shape" /\ IsComprehension /\ pc' = "pattern" /\ SplitErrors = {}
      /\ UNCHANGED <<vars, error, failures, splits>>
  BY DEF Split
<1>2. PICK pipe \in Separator : part' = SplitAt(pipe)
  BY DEF Split
<1>3. Len(result) \in Nat
  <2>1. ShapingInv /\ Len(tokens) >= 1
    BY <1>1 DEF FragmentInv, FragmentKnown
  <2> QED BY <2>1, RunsLocated
<1>4. pipe \in 2..(Len(result) - 1) /\ PatternStart(pipe) \in {2, 4} /\ PatternEnd(pipe) \in 1..pipe
  BY <1>2, <1>3, SplitPlaced
<1>5. PatternStart(pipe) < PatternEnd(pipe) /\ pipe + 1 < Len(result)
  BY <1>1, <1>2, <1>3, SplitChecked
<1>6. part' = [pattern |-> <<PatternStart(pipe), PatternEnd(pipe) - 1>>,
               predicate |-> <<PatternEnd(pipe) + 1, pipe - 1>>,
               projection |-> <<pipe + 1, Len(result) - 1>>]
  BY <1>2 DEF SplitAt
<1>7. IsComprehension' = IsComprehension /\ result' = result
  BY <1>1, SameTokens DEF vars, tokens
<1>8. PartsInRange'
  BY <1>1, <1>3, <1>4, <1>5, <1>6, <1>7 DEF PartsInRange, PartNames
<1> QED BY <1>1, <1>8, PartsFit DEF PartNames

LEMMA UnsplitFits == FragmentInv /\ Unsplit => FragmentInv'
<1> SUFFICES ASSUME FragmentInv, Unsplit PROVE FragmentInv'
  OBVIOUS
<1>1. pc = "Shape" /\ UNCHANGED <<vars, part>>
  BY DEF Unsplit
<1>2. PICK location \in SplitErrors : FailAt(location)
  BY DEF Unsplit
<1>3. /\ Len(result) \in Nat
      /\ \A k \in 1..Len(result) : StartOf(result[k].first) \in Locations
      /\ StartOf(1) \in Locations
  <2>1. ShapingInv /\ Len(tokens) >= 1
    BY <1>1 DEF FragmentInv, FragmentKnown
  <2> QED BY <2>1, RunsLocated
<1>4. location \in Locations
  <2>1. CASE ~OuterBracketsFound \/ Separator = {}
    BY <1>2, <1>3, <2>1 DEF SplitErrors
  <2>2. CASE ~(~OuterBracketsFound \/ Separator = {})
    <3>1. PICK pipe \in Separator :
            location \in {StartOf(result[PatternEnd(pipe)].first), StartOf(result[Len(result)].first)}
      BY <1>2, <2>2 DEF SplitErrors
    <3>2. pipe \in 2..(Len(result) - 1) /\ PatternEnd(pipe) \in 1..pipe
      BY <1>3, SplitPlaced
    <3>3. PatternEnd(pipe) \in 1..Len(result) /\ Len(result) \in 1..Len(result)
      BY <1>3, <3>2
    <3> QED BY <1>3, <3>1, <3>3
  <2> QED BY <2>1, <2>2
<1> QED BY <1>1, <1>2, <1>4, FailureFits

LEMMA ParsePartFits ==
    ASSUME FragmentInv, NEW p \in PartNames, ParsePart(p)
    PROVE  FragmentInv'
<1>1. ShapingInv /\ FragmentKnown /\ PartsInRange
  BY DEF FragmentInv
<1>2. pc = p /\ UNCHANGED <<vars, part>>
  BY DEF ParsePart
<1>3. /\ Len(result) \in Nat
      /\ \A k \in 1..Len(result) : StartOf(result[k].first) \in Locations /\ EndOf(result[k].last) \in Locations
  <2>1. Len(tokens) >= 1
    BY <1>1, <1>2 DEF FragmentKnown, PartNames
  <2> QED BY <2>1, <1>1, RunsLocated
<1>4. /\ \A q \in PartNames : /\ part[q][1] \in Nat /\ part[q][1] >= 1
                              /\ part[q][2] \in Int /\ part[q][2] <= Len(result)
      /\ part[p][1] <= part[p][2]
      /\ IsComprehension => part.projection[1] >= 2 /\ part.projection[1] <= part.projection[2]
  BY <1>1, <1>2 DEF PartsInRange
<1>5. CASE Parsed(p) /\ UNCHANGED <<error, failures, splits>>
  <2>1. pc' = CASE p = "pattern" /\ IsComprehension /\ ~IsEmpty("predicate") -> "predicate"
                [] p = "projection" \/ ~IsComprehension -> "Ok"
                [] OTHER -> "projection"
    BY <1>5 DEF Parsed
  <2>2. /\ pc' \in {"Ok", "predicate", "projection"}
        /\ pc' = "predicate" => ~IsEmpty("predicate")
        /\ pc' = "projection" => IsComprehension
    BY <2>1
  <2>3. IsComprehension' = IsComprehension /\ result' = result /\ part' = part
    BY <1>2, SameTokens DEF vars, tokens
  <2>4. pc' = "predicate" => part["predicate"][1] <= part["predicate"][2]
    BY <2>2, <1>4 DEF IsEmpty, PartNames
  <2>5. pc' = "projection" => part["projection"][1] <= part["projection"][2]
    BY <2>2, <1>4
  <2>6. PartsInRange'
    BY <1>4, <2>2, <2>3, <2>4, <2>5 DEF PartsInRange, PartNames
  <2> QED BY <1>2, <1>5, <2>2, <2>6, PartsFit DEF PartNames
<1>6. CASE HasEmptyWhere /\ FailAt(StartOf(result[part.predicate[1]].first))
  <2>1. part.predicate[1] \in 1..Len(result)
    <3>1. IsComprehension /\ part.predicate[1] = part.projection[1] - 1
      BY <1>6 DEF HasEmptyWhere
    <3>2. part["predicate"][1] \in Nat /\ part["predicate"][1] >= 1
          /\ part["projection"][1] \in Nat /\ part["projection"][2] \in Int
          /\ part["projection"][2] <= Len(result)
      BY <1>4 DEF PartNames
    <3> QED BY <3>1, <3>2, <1>3, <1>4
  <2>2. StartOf(result[part.predicate[1]].first) \in Locations
    BY <2>1, <1>3
  <2> QED BY <1>2, <1>6, <2>2, FailureFits
<1>7. ASSUME NEW k \in part[p][1]..part[p][2], FailAt(StartOf(result[k].first))
      PROVE  FragmentInv'
  <2>1. k \in 1..Len(result)
    BY <1>3, <1>4
  <2>2. StartOf(result[k].first) \in Locations
    BY <2>1, <1>3
  <2> QED BY <1>2, <1>7, <2>2, FailureFits
<1>8. CASE FailAt(EndOf(result[part[p][2]].last))
  <2>1. part[p][2] \in 1..Len(result)
    BY <1>3, <1>4
  <2>2. EndOf(result[part[p][2]].last) \in Locations
    BY <2>1, <1>3
  <2> QED BY <1>2, <1>8, <2>2, FailureFits
<1> QED BY <1>5, <1>6, <1>7, <1>8 DEF ParsePart

-----------------------------------------------------------------------------
(* What a split takes.                                                      *)

\* By how much the openers of a pair in a range outnumber its closers.
Surplus(s, p, a, b) == Opened(s, p, a, b) - Closed(s, p, a, b)

\* The surplus in a comprehension, at its top.
Base(p) == IF p[1] = "LeftBracket" THEN 1 ELSE 0

LEMMA SurplusSplits ==
    ASSUME NEW s, NEW p \in Pairs, NEW a \in Int, NEW b \in Int
    PROVE  /\ Surplus(s, p, a, b) \in Int
           /\ b < a => Surplus(s, p, a, b) = 0
           /\ \A m \in (a - 1)..b :
                Surplus(s, p, a, b) = Surplus(s, p, a, m) + Surplus(s, p, m + 1, b)
<1>1. \A x, y \in Int : Opened(s, p, x, y) \in Nat /\ Closed(s, p, x, y) \in Nat
  BY CountsSplit
<1>2. ASSUME NEW m \in (a - 1)..b
      PROVE  Surplus(s, p, a, b) = Surplus(s, p, a, m) + Surplus(s, p, m + 1, b)
  <2>1. m \in Int /\ m + 1 \in Int
    OBVIOUS
  <2>2. /\ Opened(s, p, a, b) = Opened(s, p, a, m) + Opened(s, p, m + 1, b)
        /\ Closed(s, p, a, b) = Closed(s, p, a, m) + Closed(s, p, m + 1, b)
    BY CountsSplit
  <2>3. /\ Opened(s, p, a, m) \in Nat /\ Closed(s, p, a, m) \in Nat
        /\ Opened(s, p, m + 1, b) \in Nat /\ Closed(s, p, m + 1, b) \in Nat
    BY <2>1, <1>1
  <2> QED BY <2>2, <2>3 DEF Surplus
<1>3. b < a => Surplus(s, p, a, b) = 0
  <2>1. b < a => Opened(s, p, a, b) = 0 /\ Closed(s, p, a, b) = 0
    BY CountsSplit
  <2> QED BY <2>1 DEF Surplus
<1> QED BY <1>1, <1>2, <1>3 DEF Surplus

LEMMA SurplusOne ==
    ASSUME NEW s, NEW p \in Pairs, NEW a \in Int
    PROVE  Surplus(s, p, a, a) = IF s[a] = p[1] THEN 1 ELSE IF s[a] = p[2] THEN -1 ELSE 0
<1>1. p[1] # p[2]
  BY PairsApart
<1> QED BY <1>1, CountsOne DEF Surplus

LEMMA BalancedBySurplus ==
    ASSUME NEW s, NEW a \in Int, NEW b \in Int
    PROVE  BalancedIn(s, a, b) <=>
             \A p \in Pairs : Surplus(s, p, a, b) = 0 /\ \A k \in a..b : Surplus(s, p, a, k) >= 0
<1>1. ASSUME NEW p \in Pairs, NEW k \in Int
      PROVE  /\ Surplus(s, p, a, k) = 0 <=> Opened(s, p, a, k) = Closed(s, p, a, k)
             /\ Surplus(s, p, a, k) >= 0 <=> Closed(s, p, a, k) <= Opened(s, p, a, k)
  <2>1. Opened(s, p, a, k) \in Nat /\ Closed(s, p, a, k) \in Nat
    BY CountsSplit
  <2> QED BY <2>1 DEF Surplus
<1>2. \A p \in Pairs : \A k \in a..b : k \in Int
  OBVIOUS
<1> QED BY <1>1, <1>2 DEF BalancedIn, StaysOpenIn

(* A counter that saturates stands at the largest surplus.                  *)
LEMMA DepthBySurplus ==
    ASSUME NEW s, NEW p \in Pairs, NEW a \in Int, NEW b \in Int
    PROVE  /\ Depth(s, p[1], p[2], a, b) \in Nat
           /\ \A k \in a..b : Surplus(s, p, k, b) <= Depth(s, p[1], p[2], a, b)
           /\ \/ Depth(s, p[1], p[2], a, b) = 0
              \/ \E k \in a..b : Depth(s, p[1], p[2], a, b) = Surplus(s, p, k, b)
BY DepthIs DEF Surplus

\* How deep a position is in all pairs.
AtDepth(s, a, b, bracket) ==
    \A p \in Pairs : Depth(s, p[1], p[2], a, b) = IF p[1] = "LeftBracket" THEN bracket ELSE 0

LEMMA DepthsAre ==
    ASSUME NEW s, NEW a, NEW b, NEW bracket
    PROVE  AtDepth(s, a, b, bracket) <=>
             /\ Depth(s, "LeftBracket", "RightBracket", a, b) = bracket
             /\ Depth(s, "LeftParen", "RightParen", a, b) = 0
             /\ Depth(s, "LeftBrace", "RightBrace", a, b) = 0
<1> DEFINE D(p) == Depth(s, p[1], p[2], a, b)
           P == <<"LeftParen", "RightParen">>
           K == <<"LeftBracket", "RightBracket">>
           C == <<"LeftBrace", "RightBrace">>
<1>1. /\ D(P) = Depth(s, "LeftParen", "RightParen", a, b)
      /\ D(K) = Depth(s, "LeftBracket", "RightBracket", a, b)
      /\ D(C) = Depth(s, "LeftBrace", "RightBrace", a, b)
  OBVIOUS
<1>2. P[1] # "LeftBracket" /\ K[1] = "LeftBracket" /\ C[1] # "LeftBracket"
  OBVIOUS
<1>3. \A p : p \in Pairs <=> p = P \/ p = K \/ p = C
  BY DEF Pairs
<1>4. AtDepth(s, a, b, bracket) <=>
        \A p \in Pairs : D(p) = IF p[1] = "LeftBracket" THEN bracket ELSE 0
  BY DEF AtDepth
<1> HIDE DEF D, P, K, C
<1> QED BY <1>1, <1>2, <1>3, <1>4

\* A fragment in brackets: between them its surplus is that of its top or more.
Enclosed ==
    /\ Len(tokens) \in Nat /\ Len(tokens) >= 2
    /\ tokens[1] = "LeftBracket" /\ tokens[Len(tokens)] = "RightBracket"
    /\ \A p \in Pairs :
        /\ Surplus(tokens, p, 1, Len(tokens)) = 0
        /\ Surplus(tokens, p, 1, 1) = Base(p) /\ Surplus(tokens, p, 1, Len(tokens) - 1) = Base(p)
        /\ \A k \in 1..(Len(tokens) - 1) : Surplus(tokens, p, 1, k) >= Base(p)

LEMMA ComprehensionEncloses ==
    ASSUME IsSource(source), NestsIn(tokens), Len(tokens) >= 1,
           Len(tokens) \in PatternComprehensionEnd(tokens, 1)
    PROVE  Enclosed
<1> DEFINE n == Len(tokens)
           q == <<"LeftBracket", "RightBracket">>
<1>1. tokens \in Seq(Kinds) /\ n \in Nat /\ 1 \in 1..n
  BY SourceTyped
<1>2. /\ BalancedIn(tokens, 1, n) /\ tokens[1] = "LeftBracket" /\ tokens[n] = "RightBracket"
      /\ n \in 2..n /\ \A k \in 1..(n - 1) : Closed(tokens, q, 1, k) < Opened(tokens, q, 1, k)
  BY <1>1, ComprehensionBalanced
<1>3. q \in Pairs /\ q[1] = "LeftBracket" /\ q[2] = "RightBracket"
  BY ThePairs
<1>4. \A p \in Pairs : p # q => p[1] # "LeftBracket" /\ p[1] # "RightBracket"
                                /\ p[2] # "LeftBracket" /\ p[2] # "RightBracket"
  BY <1>3, PairsApart
<1>5. q[1] # q[2]
  BY <1>3
<1> HIDE DEF n, q
<1>6. n >= 2 /\ n - 1 \in Int /\ n \in Int /\ n - 1 \in (1 - 1)..n /\ (n - 1) + 1 = n /\ 1 \in Int
  BY <1>1, <1>2
<1>7. ASSUME NEW p \in Pairs
      PROVE  /\ Surplus(tokens, p, 1, n) = 0
             /\ Surplus(tokens, p, 1, 1) = Base(p) /\ Surplus(tokens, p, 1, n - 1) = Base(p)
             /\ \A k \in 1..(n - 1) : Surplus(tokens, p, 1, k) >= Base(p)
  <2>1. Surplus(tokens, p, 1, n) = 0 /\ \A k \in 1..n : Surplus(tokens, p, 1, k) >= 0
    BY <1>2, <1>6, BalancedBySurplus
  <2>2. Base(p) = IF p = q THEN 1 ELSE 0
    BY <1>3, <1>4 DEF Base
  <2>3. Surplus(tokens, p, 1, 1) = Base(p)
    <3>1. Surplus(tokens, p, 1, 1) = IF tokens[1] = p[1] THEN 1 ELSE IF tokens[1] = p[2] THEN -1 ELSE 0
      BY <1>6, SurplusOne
    <3> QED BY <3>1, <2>2, <1>2, <1>3, <1>4, <1>5
  <2>4. Surplus(tokens, p, 1, n - 1) = Base(p)
    <3>1. Surplus(tokens, p, n, n) = IF tokens[n] = p[1] THEN 1 ELSE IF tokens[n] = p[2] THEN -1 ELSE 0
      BY <1>6, SurplusOne
    <3>2. Surplus(tokens, p, 1, n) = Surplus(tokens, p, 1, n - 1) + Surplus(tokens, p, (n - 1) + 1, n)
      BY <1>6, SurplusSplits
    <3>3. Surplus(tokens, p, 1, n - 1) \in Int
      BY <1>6, SurplusSplits
    <3>4. Surplus(tokens, p, n, n) = -Base(p)
      BY <3>1, <2>2, <1>2, <1>3, <1>4, <1>5
    <3>5. Base(p) \in Int
      BY <2>2
    <3> QED BY <3>2, <3>3, <3>4, <3>5, <2>1, <1>6
  <2>5. ASSUME NEW k \in 1..(n - 1)
        PROVE  Surplus(tokens, p, 1, k) >= Base(p)
    <3>1. k \in Int /\ k \in 1..n
      BY <1>6
    <3>2. CASE p = q
      <4>1. Closed(tokens, q, 1, k) < Opened(tokens, q, 1, k)
        BY <1>2
      <4>2. Closed(tokens, q, 1, k) \in Nat /\ Opened(tokens, q, 1, k) \in Nat
        BY <3>1, <1>6, CountsSplit
      <4>3. Surplus(tokens, q, 1, k) >= 1
        BY <4>1, <4>2 DEF Surplus
      <4> QED BY <4>3, <3>2, <2>2
    <3>3. CASE p # q
      <4>1. Surplus(tokens, p, 1, k) >= 0
        BY <2>1, <3>1
      <4> QED BY <4>1, <3>3, <2>2
    <3> QED BY <3>2, <3>3
  <2> QED BY <2>1, <2>3, <2>4, <2>5
<1> QED BY <1>1, <1>2, <1>6, <1>7 DEF Enclosed, n

\* A place between tokens where no construct inside the outer brackets is open.
IsTop(x) == x \in 1..(Len(tokens) - 1) /\ \A p \in Pairs : Surplus(tokens, p, 1, x) = Base(p)

(* What the counters of top_level_pipes find at their ground is at the top. *)
LEMMA TopIsAtTop ==
    ASSUME Enclosed, NEW f \in 2..Len(tokens)
    PROVE  AtTop(tokens, 1, f) <=> IsTop(f - 1)
<1> DEFINE n == Len(tokens)
<1>1. n \in Nat /\ f \in Int /\ f - 1 \in Int /\ f - 1 \in 1..(n - 1) /\ 1 \in Int /\ 1 \in 1..(f - 1)
  BY DEF Enclosed
<1>2. AtTop(tokens, 1, f) <=> AtDepth(tokens, 1, f - 1, 1)
  BY DepthsAre DEF AtTop
<1>3. \A p \in Pairs : \A k \in 1..(n - 1) : Surplus(tokens, p, 1, k) >= Base(p)
  BY DEF Enclosed
<1>4. \A p : Base(p) \in {0, 1}
  BY DEF Base
<1>5. ASSUME AtDepth(tokens, 1, f - 1, 1)
      PROVE  IsTop(f - 1)
  <2> SUFFICES ASSUME NEW p \in Pairs PROVE Surplus(tokens, p, 1, f - 1) = Base(p)
    BY <1>1 DEF IsTop
  <2>1. Depth(tokens, p[1], p[2], 1, f - 1) = Base(p)
    BY <1>5 DEF AtDepth, Base
  <2>2. Surplus(tokens, p, 1, f - 1) <= Depth(tokens, p[1], p[2], 1, f - 1)
    BY <1>1, DepthBySurplus
  <2>3. Surplus(tokens, p, 1, f - 1) \in Int
    BY <1>1, SurplusSplits
  <2>4. Surplus(tokens, p, 1, f - 1) >= Base(p)
    BY <1>1, <1>3
  <2> QED BY <2>1, <2>2, <2>3, <2>4, <1>4
<1>6. ASSUME IsTop(f - 1)
      PROVE  AtDepth(tokens, 1, f - 1, 1)
  <2> SUFFICES ASSUME NEW p \in Pairs PROVE Depth(tokens, p[1], p[2], 1, f - 1) = Base(p)
    BY DEF AtDepth, Base
  <2>1. Surplus(tokens, p, 1, f - 1) = Base(p)
    BY <1>6 DEF IsTop
  <2>2. \A k \in 1..(f - 1) : Surplus(tokens, p, k, f - 1) <= Base(p)
    <3> SUFFICES ASSUME NEW k \in 1..(f - 1) PROVE Surplus(tokens, p, k, f - 1) <= Base(p)
      OBVIOUS
    <3>1. CASE k = 1
      BY <3>1, <2>1, <1>4
    <3>2. CASE k # 1
      <4>1. k - 1 \in Int /\ k - 1 \in (1 - 1)..(f - 1) /\ (k - 1) + 1 = k /\ k \in Int
            /\ k - 1 \in 1..(n - 1)
        BY <3>2, <1>1
      <4>2. Surplus(tokens, p, 1, f - 1) = Surplus(tokens, p, 1, k - 1) + Surplus(tokens, p, (k - 1) + 1, f - 1)
        BY <4>1, <1>1, SurplusSplits, ZenonT(40)
      <4>3. Surplus(tokens, p, 1, k - 1) >= Base(p)
        BY <4>1, <1>3
      <4>4. Surplus(tokens, p, 1, k - 1) \in Int /\ Surplus(tokens, p, k, f - 1) \in Int
        BY <4>1, <1>1, SurplusSplits
      <4> QED BY <4>1, <4>2, <4>3, <4>4, <2>1, <1>4
    <3> QED BY <3>1, <3>2
  <2> DEFINE d == Depth(tokens, p[1], p[2], 1, f - 1)
  <2>3. /\ d \in Nat /\ Surplus(tokens, p, 1, f - 1) <= d
        /\ d = 0 \/ \E k \in 1..(f - 1) : d = Surplus(tokens, p, k, f - 1)
    BY <1>1, DepthBySurplus
  <2> HIDE DEF d
  <2>4. d <= Base(p) \/ d = 0
    BY <2>2, <2>3
  <2>5. d = Base(p)
    BY <2>1, <2>3, <2>4, <1>4
  <2> QED BY <2>5 DEF d
<1> QED BY <1>2, <1>5, <1>6

(* What lies between two places at the top is balanced.                     *)
LEMMA TopsBalance ==
    ASSUME Enclosed, NEW x, NEW y, IsTop(x), IsTop(y), x <= y
    PROVE  BalancedIn(tokens, x + 1, y)
<1>1. x \in 1..(Len(tokens) - 1) /\ y \in 1..(Len(tokens) - 1) /\ Len(tokens) \in Nat
  BY DEF IsTop, Enclosed
<1>2. x \in Int /\ y \in Int /\ x + 1 \in Int
  BY <1>1
<1>3. ASSUME NEW p \in Pairs, NEW k \in x..y
      PROVE  Surplus(tokens, p, 1, k) = Base(p) + Surplus(tokens, p, x + 1, k)
             /\ Surplus(tokens, p, x + 1, k) \in Int /\ Base(p) \in Int
             /\ Surplus(tokens, p, 1, k) >= Base(p)
  <2>1. k \in Int /\ x \in (1 - 1)..k /\ k \in 1..(Len(tokens) - 1)
    BY <1>1, <1>2
  <2>2. Surplus(tokens, p, 1, k) = Surplus(tokens, p, 1, x) + Surplus(tokens, p, x + 1, k)
    BY <2>1, SurplusSplits
  <2>3. Surplus(tokens, p, x + 1, k) \in Int
    BY <2>1, <1>2, SurplusSplits
  <2>4. Surplus(tokens, p, 1, x) = Base(p)
    BY DEF IsTop
  <2>5. Surplus(tokens, p, 1, k) >= Base(p)
    BY <2>1 DEF Enclosed
  <2> QED BY <2>2, <2>3, <2>4, <2>5 DEF Base
<1>4. ASSUME NEW p \in Pairs
      PROVE  Surplus(tokens, p, x + 1, y) = 0 /\ \A k \in (x + 1)..y : Surplus(tokens, p, x + 1, k) >= 0
  <2>1. y \in x..y /\ \A k \in (x + 1)..y : k \in x..y
    BY <1>2
  <2>2. Surplus(tokens, p, 1, y) = Base(p)
    BY DEF IsTop
  <2>3. Surplus(tokens, p, x + 1, y) = 0
    <3>1. Surplus(tokens, p, 1, y) = Base(p) + Surplus(tokens, p, x + 1, y)
          /\ Surplus(tokens, p, x + 1, y) \in Int /\ Base(p) \in Int
      BY <2>1, <1>3
    <3> QED BY <3>1, <2>2
  <2>4. ASSUME NEW k \in (x + 1)..y
        PROVE  Surplus(tokens, p, x + 1, k) >= 0
    <3>1. Surplus(tokens, p, 1, k) = Base(p) + Surplus(tokens, p, x + 1, k)
          /\ Surplus(tokens, p, x + 1, k) \in Int /\ Base(p) \in Int
          /\ Surplus(tokens, p, 1, k) >= Base(p)
      BY <2>1, <1>3
    <3> QED BY <3>1
  <2> QED BY <2>3, <2>4
<1> QED BY <1>2, <1>4, BalancedBySurplus

\* The last token of the first q runs.
Reach(q) == IF q = 0 THEN 0 ELSE result[q].last

LEMMA RunsReach ==
    ASSUME ShapingInv
    PROVE  /\ Len(result) \in Nat /\ DOMAIN result = 1..Len(result) /\ Len(tokens) \in Nat
           /\ index = Reach(Len(result)) + 1 /\ Reach(0) = 0
           /\ \A q \in 0..Len(result) : Reach(q) \in 0..Len(tokens)
           /\ \A k \in 1..Len(result) :
                /\ result[k].first = Reach(k - 1) + 1 /\ result[k].last = Reach(k)
                /\ Reach(k - 1) < Reach(k)
<1>1. IsSource(source) /\ result \in Seq(RunType) /\ RunsTile
  BY DEF ShapingInv
<1>2. Len(tokens) \in Nat /\ Len(result) \in Nat /\ DOMAIN result = 1..Len(result)
  BY <1>1, SourceTyped
<1>3. \A k \in 1..Len(result) : result[k].first \in 1..Len(tokens) /\ result[k].last \in 1..Len(tokens)
  <2>1. \A k \in 1..Len(result) : result[k] \in RunType
    BY <1>1
  <2> QED BY <2>1 DEF RunType
<1>4. Reach(0) = 0 /\ \A k \in 1..Len(result) : Reach(k) = result[k].last
  BY DEF Reach
<1>5. \A q \in 0..Len(result) : Reach(q) \in 0..Len(tokens)
  <2> SUFFICES ASSUME NEW q \in 0..Len(result) PROVE Reach(q) \in 0..Len(tokens)
    OBVIOUS
  <2>1. q = 0 \/ q \in 1..Len(result)
    BY <1>2
  <2> QED BY <2>1, <1>2, <1>3, <1>4
<1>6. ASSUME NEW k \in 1..Len(result)
      PROVE  /\ result[k].first = Reach(k - 1) + 1 /\ result[k].last = Reach(k)
             /\ Reach(k - 1) < Reach(k)
  <2>1. result[k].first <= result[k].last
        /\ result[k].first = IF k = 1 THEN 1 ELSE result[k - 1].last + 1
    BY <1>1, <1>2 DEF RunsTile
  <2>2. k - 1 \in 0..Len(result)
    BY <1>2
  <2>3. k # 1 => k - 1 # 0
    OBVIOUS
  <2>4. result[k].first = Reach(k - 1) + 1
    BY <2>1, <2>3 DEF Reach
  <2>5. Reach(k - 1) \in Int /\ result[k].first \in Int /\ result[k].last \in Int
    BY <2>2, <1>5, <1>3
  <2> QED BY <2>1, <2>4, <2>5, <1>4
<1>7. index = Reach(Len(result)) + 1
  <2>1. index = IF result = <<>> THEN 1 ELSE result[Len(result)].last + 1
    BY <1>1 DEF RunsTile
  <2>2. result = <<>> <=> Len(result) = 0
    BY <1>1
  <2> QED BY <2>1, <2>2 DEF Reach
<1> QED BY <1>2, <1>4, <1>5, <1>6, <1>7

(* A run opens as much as its tokens do.                                    *)
LEMMA RunSurplus ==
    ASSUME ShapingInv, NestsIn(tokens), NEW p \in Pairs, NEW k \in DOMAIN result
    PROVE  Surplus(RunRules, p, k, k) = Surplus(tokens, p, result[k].first, result[k].last)
<1> DEFINE f == result[k].first
           l == result[k].last
           r == result[k].rule
<1>1. RunFits(source, result[k]) /\ IsSource(source) /\ result \in Seq(RunType)
  BY DEF ShapingInv
<1>2. f \in 1..Len(tokens) /\ l \in 1..Len(tokens) /\ k \in Int
  <2>1. result[k] \in RunType /\ k \in Int
    BY <1>1
  <2> QED BY <2>1 DEF RunType
<1>3. f \in Int /\ l \in Int
  BY <1>2
<1>4. RunRules[k] = r
  BY DEF RunRules
<1>5. Surplus(RunRules, p, k, k) = IF r = p[1] THEN 1 ELSE IF r = p[2] THEN -1 ELSE 0
  BY <1>2, <1>4, SurplusOne
<1>6. p[1] \in Openers /\ p[2] \in Closers
  BY PairsApart
<1>7. CASE r \in RuleNames
  <2>1. r # p[1] /\ r # p[2]
    BY <1>6, <1>7 DEF RuleNames, Openers, Closers
  <2>2. BalancedIn(tokens, f, l)
    BY <1>1, <1>7 DEF RunFits, tokens
  <2> HIDE DEF f, l, r
  <2>3. Surplus(tokens, p, f, l) = 0
    BY <2>2, <1>3, BalancedBySurplus
  <2> QED BY <2>1, <2>3, <1>5 DEF f, l
<1>8. CASE r \notin RuleNames
  <2>1. l = f /\ (r = tokens[f] \/ (r = "SetAll" /\ tokens[f] = "All"))
    BY <1>1, <1>8 DEF RunFits, tokens
  <2>2. "SetAll" \notin Openers \cup Closers /\ "All" \notin Openers \cup Closers
    BY DEF Openers, Closers
  <2> HIDE DEF f, l, r
  <2>3. Surplus(tokens, p, f, f) = IF tokens[f] = p[1] THEN 1 ELSE IF tokens[f] = p[2] THEN -1 ELSE 0
    BY <1>3, SurplusOne
  <2>4. Surplus(tokens, p, f, f) = Surplus(RunRules, p, k, k)
    BY <2>1, <2>2, <2>3, <1>5, <1>6
  <2> QED BY <2>1, <2>4 DEF f, l
<1> QED BY <1>7, <1>8

(* What holds of a number and of each up to a bound whose predecessor it    *)
(* holds of holds of all of them.                                           *)
LEMMA Forwards ==
    ASSUME NEW n \in Int, NEW a \in Nat, NEW P, a \in P,
           \A i \in (a + 1)..n : i - 1 \in P => i \in P
    PROVE  \A i \in a..n : i \in P
<1> DEFINE S == {i \in a..n : i \notin P}
<1> SUFFICES ASSUME S # {} PROVE FALSE
  OBVIOUS
<1>1. S \subseteq Nat
  OBVIOUS
<1>2. Min(S) \in S /\ \A x \in S : Min(S) <= x
  <2> HIDE DEF S
  <2> QED BY <1>1, MinIsLeast
<1> DEFINE i == Min(S)
<1>3. i \in a..n /\ i \notin P /\ \A x \in S : i <= x
  <2> HIDE DEF i
  <2> QED BY <1>2 DEF i
<1> HIDE DEF i
<1>4. i \in (a + 1)..n /\ i - 1 \in a..n
  BY <1>3
<1>5. i - 1 \notin S
  <2> HIDE DEF S
  <2> QED BY <1>3, <1>4
<1> QED BY <1>3, <1>4, <1>5

(* Counted over runs or over tokens, the surplus is the same.               *)
LEMMA RunsSurplus ==
    ASSUME ShapingInv, NestsIn(tokens), NEW a \in 1..(Len(result) + 1)
    PROVE  \A q \in (a - 1)..Len(result) :
             /\ Reach(a - 1) <= Reach(q)
             /\ \A p \in Pairs :
                  Surplus(RunRules, p, a, q) = Surplus(tokens, p, Reach(a - 1) + 1, Reach(q))
<1> DEFINE m == Len(result)
           from == Reach(a - 1)
           P == {q \in (a - 1)..m :
                    /\ from <= Reach(q)
                    /\ \A p \in Pairs : Surplus(RunRules, p, a, q) = Surplus(tokens, p, from + 1, Reach(q))}
<1>1. /\ m \in Nat /\ DOMAIN result = 1..m
      /\ \A q \in 0..m : Reach(q) \in 0..Len(tokens)
      /\ \A k \in 1..m : /\ result[k].first = Reach(k - 1) + 1 /\ result[k].last = Reach(k)
                         /\ Reach(k - 1) < Reach(k)
  BY RunsReach
<1>2. \A q \in 0..m : Reach(q) \in Int
  BY <1>1
<1>3. a \in Int /\ a - 1 \in Nat /\ a - 1 \in 0..m /\ from \in Int /\ from + 1 \in Int
  BY <1>1, <1>2
<1>4. a - 1 \in P
  <2>1. from <= Reach(a - 1) /\ a - 1 \in (a - 1)..m
    BY <1>3
  <2>2. ASSUME NEW p \in Pairs
        PROVE  Surplus(RunRules, p, a, a - 1) = Surplus(tokens, p, from + 1, Reach(a - 1))
    <3>1. a - 1 < a /\ from < from + 1 /\ a - 1 \in Int
      BY <1>3
    <3>2. Surplus(RunRules, p, a, a - 1) = 0
      BY <3>1, <1>3, SurplusSplits
    <3> HIDE DEF from
    <3>3. Surplus(tokens, p, from + 1, from) = 0
      BY <3>1, <1>3, SurplusSplits
    <3> QED BY <3>2, <3>3 DEF from
  <2> QED BY <2>1, <2>2
<1>5. ASSUME NEW i \in ((a - 1) + 1)..m, i - 1 \in P
      PROVE  i \in P
  <2>1. i \in a..m /\ i \in 1..m /\ i - 1 \in 0..m /\ i \in 0..m /\ i \in Int /\ i - 1 \in Int
        /\ i \in (a - 1)..m
    BY <1>3
  <2>2. from <= Reach(i - 1) /\ Reach(i - 1) < Reach(i) /\ Reach(i - 1) \in Int /\ Reach(i) \in Int
        /\ result[i].first = Reach(i - 1) + 1 /\ result[i].last = Reach(i)
    BY <1>1, <1>2, <1>5, <2>1
  <2>3. ASSUME NEW p \in Pairs
        PROVE  Surplus(RunRules, p, a, i) = Surplus(tokens, p, from + 1, Reach(i))
    <3>1. Surplus(RunRules, p, a, i - 1) = Surplus(tokens, p, from + 1, Reach(i - 1))
      BY <1>5
    <3>2. Surplus(RunRules, p, i, i) = Surplus(tokens, p, Reach(i - 1) + 1, Reach(i))
      BY <2>1, <2>2, <1>1, RunSurplus
    <3>3. i - 1 \in (a - 1)..i /\ (i - 1) + 1 = i
      BY <1>3, <2>1
    <3>4. Surplus(RunRules, p, a, i) = Surplus(RunRules, p, a, i - 1) + Surplus(RunRules, p, (i - 1) + 1, i)
      BY <3>3, <2>1, <1>3, SurplusSplits
    <3> DEFINE x == Reach(i - 1)
               y == Reach(i)
    <3>5. x \in ((from + 1) - 1)..y /\ y \in Int
      BY <2>2, <1>3
    <3> HIDE DEF x, y, from
    <3>6. Surplus(tokens, p, from + 1, y) = Surplus(tokens, p, from + 1, x) + Surplus(tokens, p, x + 1, y)
      BY <3>5, <1>3, SurplusSplits
    <3> QED BY <3>1, <3>2, <3>3, <3>4, <3>6 DEF x, y
  <2>4. from <= Reach(i)
    BY <2>2, <1>3
  <2> QED BY <2>1, <2>3, <2>4
<1> HIDE DEF P
<1>6. \A q \in (a - 1)..m : q \in P
  <2> HIDE DEF m
  <2>1. m \in Int /\ a - 1 \in Nat
    BY <1>1, <1>3
  <2> QED BY <2>1, <1>4, <1>5, Forwards
<1> QED BY <1>6 DEF P

(* The brackets of a comprehension come through the shaping.                *)
LEMMA BracketsShaped ==
    ASSUME ShapingInv, NestsIn(tokens), Enclosed, source.nested, index > Len(tokens)
    PROVE  /\ Len(result) >= 2 /\ Reach(1) = 1
           /\ Reach(Len(result) - 1) = Len(tokens) - 1 /\ Reach(Len(result)) = Len(tokens)
           /\ RunRules[1] = "LeftBracket" /\ RunRules[Len(result)] = "RightBracket"
<1> DEFINE m == Len(result)
           n == Len(tokens)
<1>1. /\ m \in Nat /\ DOMAIN result = 1..m /\ n \in Nat /\ index = Reach(m) + 1 /\ Reach(0) = 0
      /\ \A q \in 0..m : Reach(q) \in 0..n
      /\ \A k \in 1..m : /\ result[k].first = Reach(k - 1) + 1 /\ result[k].last = Reach(k)
                         /\ Reach(k - 1) < Reach(k)
  BY RunsReach
<1>2. n >= 2 /\ tokens[1] = "LeftBracket" /\ tokens[n] = "RightBracket"
  BY DEF Enclosed
<1>3. \A k \in 1..m : RunFits(source, result[k]) /\ RunRules[k] = result[k].rule
  BY <1>1 DEF ShapingInv, RunRules
<1>4. Reach(m) = n
  <2>1. m \in 0..m
    BY <1>1
  <2>2. Reach(m) \in 0..n
    BY <1>1, <2>1
  <2> QED BY <2>2, <1>1
<1>5. m >= 1
  BY <1>1, <1>2, <1>4
<1>6. 1 \in 1..m /\ 1 - 1 = 0
  BY <1>1, <1>5
<1>7. result[1].first = 1 /\ result[1].last = Reach(1)
  BY <1>1, <1>6
<1>8. result[1].rule \notin RuleNames
  BY <1>2, <1>3, <1>6, <1>7 DEF RunFits, tokens
<1>9. Reach(1) = 1 /\ RunRules[1] = "LeftBracket"
  <2>1. RunFits(source, result[1])
    BY <1>3, <1>6
  <2>2. result[1].last = result[1].first /\ (result[1].rule = tokens[1] \/ tokens[1] = "All")
    BY <2>1, <1>7, <1>8 DEF RunFits, tokens
  <2> QED BY <2>2, <1>2, <1>3, <1>6, <1>7
<1>10. m >= 2
  BY <1>1, <1>2, <1>4, <1>5, <1>9
<1>11. m \in 1..m /\ m - 1 \in 1..m /\ m - 1 \in 0..m /\ (m - 1) - 1 \in 0..m
  BY <1>1, <1>10
<1>12. result[m].first = Reach(m - 1) + 1 /\ result[m].last = n /\ Reach(m - 1) \in Int
       /\ Reach(m - 1) < n /\ Reach(m - 1) >= 1
  <2>1. Reach(m - 1) \in 0..n /\ Reach((m - 1) - 1) \in 0..n
    BY <1>1, <1>11
  <2>2. Reach((m - 1) - 1) < Reach(m - 1)
    BY <1>1, <1>11
  <2>3. Reach(m - 1) < Reach(m) /\ result[m].first = Reach(m - 1) + 1 /\ result[m].last = Reach(m)
    BY <1>1, <1>11
  <2> QED BY <2>1, <2>2, <2>3, <1>1, <1>4
<1>13. result[m].rule \notin RuleNames
  <2> SUFFICES ASSUME result[m].rule \in RuleNames PROVE FALSE
    OBVIOUS
  <2> DEFINE x == Reach(m - 1)
             q == <<"LeftBracket", "RightBracket">>
  <2>1. BalancedIn(tokens, x + 1, n)
    <3>1. RunFits(source, result[m])
      BY <1>3, <1>11
    <3>2. BalancedIn(tokens, result[m].first, result[m].last)
      BY <3>1 DEF RunFits, tokens
    <3> QED BY <3>2, <1>12
  <2>2. q \in Pairs /\ Base(q) = 1
    BY ThePairs DEF Base
  <2>3. x \in Int /\ x >= 1 /\ x < n /\ x + 1 \in Int /\ x \in 1..(n - 1) /\ x \in (1 - 1)..n /\ n \in Int
    BY <1>1, <1>12
  <2> HIDE DEF x, q
  <2>4. Surplus(tokens, q, x + 1, n) = 0
    BY <2>1, <2>2, <2>3, BalancedBySurplus
  <2>5. Surplus(tokens, q, 1, n) = Surplus(tokens, q, 1, x) + Surplus(tokens, q, x + 1, n)
    BY <2>2, <2>3, SurplusSplits
  <2>6. Surplus(tokens, q, 1, x) \in Int
    <3>1. 1 \in Int
      OBVIOUS
    <3> QED BY <3>1, <2>2, <2>3, SurplusSplits
  <2>7. Surplus(tokens, q, 1, n) = 0 /\ Surplus(tokens, q, 1, x) >= 1
    BY <2>2, <2>3 DEF Enclosed
  <2> QED BY <2>4, <2>5, <2>6, <2>7
<1>14. Reach(m - 1) = n - 1 /\ RunRules[m] = "RightBracket"
  <2>1. RunFits(source, result[m])
    BY <1>3, <1>11
  <2>2. result[m].last = result[m].first
        /\ (result[m].rule = tokens[result[m].first] \/ tokens[result[m].first] = "All")
    BY <2>1, <1>13 DEF RunFits, tokens
  <2>3. result[m].first = n /\ Reach(m - 1) = n - 1
    <3> DEFINE x == Reach(m - 1)
    <3>1. x \in Int /\ result[m].first = x + 1 /\ result[m].last = n
      BY <1>12
    <3>2. n \in Int /\ result[m].last = result[m].first
      BY <2>2, <1>1
    <3> HIDE DEF x, n
    <3> QED BY <3>1, <3>2 DEF x
  <2>4. result[m].rule = "RightBracket"
    BY <2>2, <2>3, <1>2
  <2>5. RunRules[m] = result[m].rule
    BY <1>3, <1>11
  <2> QED BY <2>3, <2>4, <2>5
<1> QED BY <1>4, <1>9, <1>10, <1>14

\* What is known once the text of a comprehension has been shaped.
ShapedFragment ==
    /\ ShapingInv /\ NestsIn(tokens) /\ Enclosed
    /\ Len(result) >= 2 /\ Reach(1) = 1 /\ Reach(Len(result) - 1) = Len(tokens) - 1
    /\ RunRules[1] = "LeftBracket" /\ RunRules[Len(result)] = "RightBracket"

(* From the end of one run to that of another, by what their rules open.    *)
LEMMA SurplusBetween ==
    ASSUME ShapedFragment, NEW p \in Pairs, NEW a \in 2..Len(result), NEW q \in (a - 1)..(Len(result) - 1)
    PROVE  /\ Surplus(RunRules, p, a, q) \in Int
           /\ Reach(a - 1) \in 1..(Len(tokens) - 1) /\ Reach(q) \in 1..(Len(tokens) - 1)
           /\ Reach(a - 1) <= Reach(q)
           /\ Surplus(tokens, p, 1, Reach(q)) =
                Surplus(tokens, p, 1, Reach(a - 1)) + Surplus(RunRules, p, a, q)
           /\ Surplus(tokens, p, 1, Reach(a - 1)) >= Base(p) /\ Surplus(tokens, p, 1, Reach(q)) >= Base(p)
           /\ Surplus(tokens, p, 1, Reach(a - 1)) \in Int /\ Surplus(tokens, p, 1, Reach(q)) \in Int
           /\ Base(p) \in Int
<1> DEFINE m == Len(result)
           n == Len(tokens)
           x == Reach(a - 1)
           y == Reach(q)
<1>1. ShapingInv /\ NestsIn(tokens) /\ Enclosed /\ m >= 2 /\ Reach(1) = 1 /\ Reach(m - 1) = n - 1
  BY DEF ShapedFragment
<1>2. /\ m \in Nat /\ n \in Nat /\ \A k \in 0..m : Reach(k) \in 0..n
  BY <1>1, RunsReach
<1>3. a - 1 \in 0..m /\ q \in 0..m /\ a \in 1..(m + 1) /\ q \in (a - 1)..m /\ a \in Int /\ q \in Int
  BY <1>2
<1>4. x <= y /\ Surplus(RunRules, p, a, q) = Surplus(tokens, p, x + 1, y)
  BY <1>1, <1>3, RunsSurplus
<1>5. x \in Int /\ y \in Int
  BY <1>2, <1>3
<1>6. x >= 1
  <2>1. 2 \in 1..(m + 1) /\ a - 1 \in (2 - 1)..m
    BY <1>1, <1>2
  <2>2. Reach(2 - 1) <= Reach(a - 1)
    BY <1>1, <2>1, RunsSurplus
  <2> QED BY <2>2, <1>1
<1>7. y <= n - 1
  <2>1. q + 1 \in 1..(m + 1) /\ m - 1 \in ((q + 1) - 1)..m /\ (q + 1) - 1 = q
    BY <1>1, <1>2, <1>3
  <2>2. Reach((q + 1) - 1) <= Reach(m - 1)
    BY <1>1, <2>1, RunsSurplus
  <2> QED BY <2>1, <2>2, <1>1
<1> HIDE DEF x, y
<1>8. x \in 1..(n - 1) /\ y \in 1..(n - 1) /\ x \in (1 - 1)..y /\ 1 \in Int /\ x + 1 \in Int
  BY <1>2, <1>4, <1>5, <1>6, <1>7
<1>9. Surplus(tokens, p, 1, y) = Surplus(tokens, p, 1, x) + Surplus(tokens, p, x + 1, y)
  BY <1>5, <1>8, SurplusSplits
<1>10. Surplus(tokens, p, 1, x) \in Int /\ Surplus(tokens, p, 1, y) \in Int
       /\ Surplus(tokens, p, x + 1, y) \in Int
  BY <1>5, <1>8, SurplusSplits
<1>11. Surplus(tokens, p, 1, x) >= Base(p) /\ Surplus(tokens, p, 1, y) >= Base(p)
  BY <1>1, <1>8 DEF Enclosed
<1>12. Base(p) \in Int
  BY DEF Base
<1> QED BY <1>4, <1>8, <1>9, <1>10, <1>11, <1>12 DEF x, y

\* The first q runs end at the top.
TopAfter(q) == IsTop(Reach(q))

LEMMA TopsMeet ==
    ASSUME ShapedFragment, NEW a \in 2..Len(result), NEW q \in (a - 1)..(Len(result) - 1), TopAfter(a - 1)
    PROVE  TopAfter(q) <=> \A p \in Pairs : Surplus(RunRules, p, a, q) = 0
<1>1. \A p \in Pairs : Surplus(tokens, p, 1, Reach(a - 1)) = Base(p)
  BY DEF TopAfter, IsTop
<1>2. ASSUME NEW p \in Pairs
      PROVE  Surplus(tokens, p, 1, Reach(q)) = Base(p) <=> Surplus(RunRules, p, a, q) = 0
  <2>1. /\ Surplus(RunRules, p, a, q) \in Int /\ Base(p) \in Int
        /\ Surplus(tokens, p, 1, Reach(q)) =
             Surplus(tokens, p, 1, Reach(a - 1)) + Surplus(RunRules, p, a, q)
    BY SurplusBetween
  <2> QED BY <2>1, <1>1
<1>3. Reach(q) \in 1..(Len(tokens) - 1)
  <2>1. <<"LeftBracket", "RightBracket">> \in Pairs
    BY ThePairs
  <2> QED BY <2>1, SurplusBetween
<1> QED BY <1>2, <1>3 DEF TopAfter, IsTop

(* A run that is no delimiter stays at the top.                             *)
LEMMA TopPasses ==
    ASSUME ShapedFragment, NEW k \in 2..(Len(result) - 1), TopAfter(k - 1),
           RunRules[k] \notin Openers \cup Closers
    PROVE  TopAfter(k)
<1>1. ShapingInv
  BY DEF ShapedFragment
<1>2. Len(result) \in Nat
  BY <1>1, RunsReach
<1>3. k \in 2..Len(result) /\ k \in (k - 1)..(Len(result) - 1) /\ k \in Int
  BY <1>2
<1>4. ASSUME NEW p \in Pairs PROVE Surplus(RunRules, p, k, k) = 0
  <2>1. RunRules[k] # p[1] /\ RunRules[k] # p[2]
    BY PairsApart
  <2> QED BY <2>1, <1>3, SurplusOne
<1> QED BY <1>3, <1>4, TopsMeet

(* The ends of a fragment between its brackets are at the top.              *)
LEMMA OuterTops == ShapedFragment => TopAfter(1) /\ TopAfter(Len(result) - 1)
<1> SUFFICES ASSUME ShapedFragment PROVE TopAfter(1) /\ TopAfter(Len(result) - 1)
  OBVIOUS
<1>1. Enclosed /\ Reach(1) = 1 /\ Reach(Len(result) - 1) = Len(tokens) - 1
  BY DEF ShapedFragment
<1>2. 1 \in 1..(Len(tokens) - 1) /\ Len(tokens) - 1 \in 1..(Len(tokens) - 1)
  BY <1>1 DEF Enclosed
<1> QED BY <1>1, <1>2 DEF TopAfter, IsTop, Enclosed

(* find_top_level_token counts the delimiters of the runs, from where it    *)
(* starts; the runs it finds at its ground are at the top of the tokens.    *)
LEMMA GroundIsTop ==
    ASSUME ShapedFragment, NEW a \in 2..Len(result), NEW k \in a..Len(result), TopAfter(a - 1)
    PROVE  AtDepth(RunRules, a, k - 1, 0) <=> TopAfter(k - 1)
<1>1. ShapingInv
  BY DEF ShapedFragment
<1>2. Len(result) \in Nat
  BY <1>1, RunsReach
<1>3. k \in Int /\ a \in Int /\ k - 1 \in Int /\ k - 1 \in (a - 1)..(Len(result) - 1)
  BY <1>2
<1>4. ASSUME AtDepth(RunRules, a, k - 1, 0)
      PROVE  TopAfter(k - 1)
  <2>1. ASSUME NEW p \in Pairs PROVE Surplus(RunRules, p, a, k - 1) = 0
    <3>1. Depth(RunRules, p[1], p[2], a, k - 1) = 0
      BY <1>4 DEF AtDepth
    <3>2. k - 1 < a => Surplus(RunRules, p, a, k - 1) = 0
      BY <1>3, SurplusSplits
    <3>3. k - 1 >= a => Surplus(RunRules, p, a, k - 1) <= 0
      <4>1. k - 1 >= a => a \in a..(k - 1)
        BY <1>3
      <4>2. \A j \in a..(k - 1) : Surplus(RunRules, p, j, k - 1) <= Depth(RunRules, p[1], p[2], a, k - 1)
        BY <1>3, DepthBySurplus
      <4> QED BY <4>1, <4>2, <3>1
    <3>4. /\ Surplus(RunRules, p, a, k - 1) \in Int /\ Base(p) \in Int
          /\ Surplus(tokens, p, 1, Reach(k - 1)) =
               Surplus(tokens, p, 1, Reach(a - 1)) + Surplus(RunRules, p, a, k - 1)
          /\ Surplus(tokens, p, 1, Reach(k - 1)) >= Base(p)
      BY <1>3, SurplusBetween
    <3>5. Surplus(tokens, p, 1, Reach(a - 1)) = Base(p)
      BY DEF TopAfter, IsTop
    <3> QED BY <3>2, <3>3, <3>4, <3>5, <1>3
  <2> QED BY <2>1, <1>3, TopsMeet
<1>5. ASSUME TopAfter(k - 1)
      PROVE  AtDepth(RunRules, a, k - 1, 0)
  <2> SUFFICES ASSUME NEW p \in Pairs PROVE Depth(RunRules, p[1], p[2], a, k - 1) = 0
    BY DEF AtDepth
  <2> DEFINE d == Depth(RunRules, p[1], p[2], a, k - 1)
  <2>1. /\ d \in Nat
        /\ d = 0 \/ \E j \in a..(k - 1) : d = Surplus(RunRules, p, j, k - 1)
    BY <1>3, DepthBySurplus
  <2>2. ASSUME NEW j \in a..(k - 1) PROVE Surplus(RunRules, p, j, k - 1) <= 0
    <3>1. j \in 2..Len(result) /\ k - 1 \in (j - 1)..(Len(result) - 1)
      BY <1>2, <1>3
    <3>2. /\ Surplus(RunRules, p, j, k - 1) \in Int /\ Base(p) \in Int
          /\ Surplus(tokens, p, 1, Reach(k - 1)) =
               Surplus(tokens, p, 1, Reach(j - 1)) + Surplus(RunRules, p, j, k - 1)
          /\ Surplus(tokens, p, 1, Reach(j - 1)) >= Base(p)
          /\ Surplus(tokens, p, 1, Reach(j - 1)) \in Int
      BY <3>1, SurplusBetween
    <3>3. Surplus(tokens, p, 1, Reach(k - 1)) = Base(p)
      BY <1>5 DEF TopAfter, IsTop
    <3> QED BY <3>2, <3>3
  <2> HIDE DEF d
  <2> QED BY <2>1, <2>2 DEF d
<1> QED BY <1>4, <1>5

LEMMA FoundIs ==
    ASSUME NEW needle, NEW a \in Nat, NEW b \in Int
    PROVE  /\ \A k \in FindTopLevel(needle, a, b) :
                k \in a..b /\ RunRules[k] = needle /\ AtDepth(RunRules, a, k - 1, 0)
           /\ \A q \in a..b : RunRules[q] = needle /\ AtDepth(RunRules, a, q - 1, 0) =>
                FindTopLevel(needle, a, b) # {} /\ \A k \in FindTopLevel(needle, a, b) : k <= q
<1> DEFINE found == {k \in a..b : RunRules[k] = needle /\ AtDepth(RunRules, a, k - 1, 0)}
<1>1. FindTopLevel(needle, a, b) = {k \in found : \A j \in found : k <= j}
  <2>1. found = {k \in a..b : RunRules[k] = needle
                    /\ Depth(RunRules, "LeftParen", "RightParen", a, k - 1) = 0
                    /\ Depth(RunRules, "LeftBracket", "RightBracket", a, k - 1) = 0
                    /\ Depth(RunRules, "LeftBrace", "RightBrace", a, k - 1) = 0}
    BY DepthsAre
  <2> QED BY <2>1 DEF FindTopLevel
<1>2. found \subseteq Nat
  OBVIOUS
<1>3. \A k \in found : k \in a..b /\ RunRules[k] = needle /\ AtDepth(RunRules, a, k - 1, 0)
  OBVIOUS
<1>4. \A q \in a..b : RunRules[q] = needle /\ AtDepth(RunRules, a, q - 1, 0) => q \in found
  OBVIOUS
<1> HIDE DEF found
<1>5. found # {} => Min(found) \in found /\ \A x \in found : Min(found) <= x
  BY <1>2, MinIsLeast
<1> QED BY <1>1, <1>3, <1>4, <1>5

(* What find_top_level_token finds is at the top, and it finds something    *)
(* when something is there, no later than that.                             *)
LEMMA FoundAtTop ==
    ASSUME ShapedFragment, NEW needle, NEW a \in 2..Len(result), NEW b \in Int, b <= Len(result), TopAfter(a - 1)
    PROVE  /\ \A k \in FindTopLevel(needle, a, b) :
                k \in a..b /\ RunRules[k] = needle /\ TopAfter(k - 1)
           /\ \A q \in a..b : RunRules[q] = needle /\ TopAfter(q - 1) =>
                FindTopLevel(needle, a, b) # {} /\ \A k \in FindTopLevel(needle, a, b) : k <= q
<1>1. ShapingInv
  BY DEF ShapedFragment
<1>2. Len(result) \in Nat
  BY <1>1, RunsReach
<1>3. a \in Nat
  OBVIOUS
<1>4. \A k \in a..b : k \in a..Len(result)
  BY <1>2
<1>5. \A k \in a..b : AtDepth(RunRules, a, k - 1, 0) <=> TopAfter(k - 1)
  BY <1>4, GroundIsTop
<1> HIDE DEF ShapedFragment
<1>6. /\ \A k \in FindTopLevel(needle, a, b) :
           k \in a..b /\ RunRules[k] = needle /\ AtDepth(RunRules, a, k - 1, 0)
      /\ \A q \in a..b : RunRules[q] = needle /\ AtDepth(RunRules, a, q - 1, 0) =>
           FindTopLevel(needle, a, b) # {} /\ \A k \in FindTopLevel(needle, a, b) : k <= q
  BY <1>3, FoundIs
<1> QED BY <1>5, <1>6

LEMMA FragmentShaped ==
    ASSUME FragmentInv, pc = "Shape", index > Len(tokens), IsComprehension, NestsIn(tokens)
    PROVE  ShapedFragment
<1>1. ShapingInv /\ IsSource(source) /\ source.nested /\ Len(tokens) >= 1
      /\ Len(tokens) \in PatternComprehensionEnd(tokens, 1)
  BY DEF FragmentInv, FragmentKnown, ShapingInv
<1>2. Enclosed
  BY <1>1, ComprehensionEncloses
<1> QED BY <1>1, <1>2, BracketsShaped DEF ShapedFragment

(* The reserved pipe is a run at the top: a separator is found there or     *)
(* before it.                                                               *)
LEMMA SeparatorFound ==
    ASSUME ShapedFragment, index > Len(tokens), source.boundary \in TopLevelPipes
    PROVE  /\ Separator # {}
           /\ \A pipe \in Separator :
                /\ pipe \in 2..(Len(result) - 1) /\ RunRules[pipe] = "Pipe" /\ TopAfter(pipe - 1)
                /\ result[pipe].first \in TopLevelPipes /\ result[pipe].first <= source.boundary
<1> DEFINE b == source.boundary
           m == Len(result)
           n == Len(tokens)
<1>1. ShapingInv /\ Enclosed /\ m >= 2 /\ Reach(1) = 1 /\ Reach(m - 1) = n - 1
      /\ RunRules[1] = "LeftBracket" /\ RunRules[m] = "RightBracket"
  BY DEF ShapedFragment
<1>2. /\ m \in Nat /\ DOMAIN result = 1..m /\ n \in Nat /\ index = Reach(m) + 1 /\ Reach(0) = 0
      /\ \A q \in 0..m : Reach(q) \in 0..n
      /\ \A k \in 1..m : /\ result[k].first = Reach(k - 1) + 1 /\ result[k].last = Reach(k)
                         /\ Reach(k - 1) < Reach(k)
  BY <1>1, RunsReach
<1>3. \A k \in 1..m : RunFits(source, result[k]) /\ RunRules[k] = result[k].rule
  BY <1>1, <1>2 DEF ShapingInv, RunRules
<1>4. b \in 2..n /\ tokens[b] = "Pipe" /\ AtTop(tokens, 1, b)
  <2>1. b \in DOMAIN tokens /\ tokens[b] = "Pipe" /\ AtTop(tokens, 1, b)
    BY DEF TopLevelPipes
  <2>2. IsSource(source) /\ tokens[1] = "LeftBracket"
    BY <1>1 DEF ShapingInv, Enclosed
  <2>3. b \in 1..n
    BY <2>1, <2>2, SourceTyped
  <2> QED BY <2>1, <2>2, <2>3
<1>5. IsTop(b - 1)
  BY <1>1, <1>4, TopIsAtTop
<1>6. PICK q \in 1..m : Reach(q - 1) < b /\ b <= Reach(q) /\ \A k \in 1..m : b <= Reach(k) => q <= k
  <2> DEFINE S == {k \in 0..m : b <= Reach(k)}
  <2>1. m \in S /\ S \subseteq Nat /\ 0 \notin S
    <3>1. m \in 0..m /\ Reach(m) \in 0..n
      BY <1>2
    <3>2. Reach(m) >= n
      BY <1>2, <3>1
    <3> QED BY <3>1, <3>2, <1>2, <1>4
  <2>2. Min(S) \in S /\ \A x \in S : Min(S) <= x
    <3> HIDE DEF S
    <3> QED BY <2>1, MinIsLeast
  <2> DEFINE q == Min(S)
  <2>3. q \in S /\ \A x \in S : q <= x
    <3> HIDE DEF q
    <3> QED BY <2>2 DEF q
  <2> HIDE DEF q
  <2>4. q \in 1..m /\ b <= Reach(q) /\ q - 1 \in 0..m /\ q - 1 \notin S
    <3>1. q \in 0..m /\ q # 0 /\ b <= Reach(q)
      BY <2>1, <2>3
    <3>2. q \in 1..m /\ q - 1 \in 0..m
      BY <3>1, <1>2
    <3>3. q - 1 \notin S
      <4> HIDE DEF S
      <4> QED BY <2>3, <3>2
    <3> QED BY <3>1, <3>2, <3>3
  <2>5. Reach(q - 1) < b
    <3>1. Reach(q - 1) \in Int /\ ~(b <= Reach(q - 1))
      BY <2>4, <1>2
    <3> QED BY <3>1, <1>4
  <2>6. \A k \in 1..m : b <= Reach(k) => q <= k
    BY <2>3, <1>2
  <2> QED BY <2>4, <2>5, <2>6
<1>7. q - 1 \in 0..m /\ q \in 0..m /\ Reach(q - 1) \in Int /\ Reach(q) \in Int /\ q \in Int
  <2>1. q - 1 \in 0..m /\ q \in 0..m
    BY <1>2
  <2>2. Reach(q - 1) \in 0..n /\ Reach(q) \in 0..n
    BY <2>1, <1>2
  <2> QED BY <2>1, <2>2
<1>8. b \in result[q].first..result[q].last
  <2>1. result[q].first = Reach(q - 1) + 1 /\ result[q].last = Reach(q)
    BY <1>2
  <2> QED BY <2>1, <1>4, <1>6, <1>7
<1>9. result[q].rule = "Pipe" /\ result[q].first = b
  <2>1. RunFits(source, result[q])
    BY <1>3
  <2>2. result[q] = Run("Pipe", b, b)
    BY <2>1, <1>8 DEF RunFits
  <2> QED BY <2>2 DEF Run
<1>10. RunRules[q] = "Pipe" /\ Reach(q - 1) = b - 1
  <2>1. RunRules[q] = result[q].rule /\ result[q].first = Reach(q - 1) + 1
    BY <1>2, <1>3
  <2> QED BY <2>1, <1>4, <1>7, <1>9
<1>11. q \in 2..(m - 1) /\ TopAfter(q - 1)
  <2>1. q # 1 /\ q # m
    BY <1>1, <1>10
  <2>2. q \in 2..(m - 1)
    <3> HIDE DEF m
    <3> QED BY <2>1, <1>2
  <2>3. TopAfter(q - 1)
    BY <1>5, <1>10, Zenon DEF TopAfter
  <2> QED BY <2>2, <2>3
<1>12. 2 \in 2..m /\ m - 1 \in Int /\ m - 1 <= m /\ TopAfter(2 - 1)
  BY <1>1, <1>2, OuterTops
<1>13. /\ \A k \in Separator : k \in 2..(m - 1) /\ RunRules[k] = "Pipe" /\ TopAfter(k - 1)
       /\ Separator # {} /\ \A k \in Separator : k <= q
  <2> HIDE DEF m
  <2>1. /\ \A k \in FindTopLevel("Pipe", 2, m - 1) :
             k \in 2..(m - 1) /\ RunRules[k] = "Pipe" /\ TopAfter(k - 1)
        /\ \A x \in 2..(m - 1) : RunRules[x] = "Pipe" /\ TopAfter(x - 1) =>
             FindTopLevel("Pipe", 2, m - 1) # {} /\ \A k \in FindTopLevel("Pipe", 2, m - 1) : k <= x
    BY <1>12, FoundAtTop DEF m
  <2> QED BY <2>1, <1>10, <1>11 DEF Separator, m
<1>14. ASSUME NEW k \in Separator
       PROVE  result[k].first \in TopLevelPipes /\ result[k].first <= b
  <2> DEFINE f == result[k].first
  <2>1. k \in 2..(m - 1) /\ RunRules[k] = "Pipe" /\ TopAfter(k - 1) /\ k <= q
    BY <1>13
  <2>2. k \in 1..m /\ k - 1 \in 0..m /\ k \in 0..m
    BY <2>1, <1>2
  <2>3. f = Reach(k - 1) + 1 /\ Reach(k - 1) \in 0..n /\ Reach(k) \in 0..n /\ Reach(k - 1) < Reach(k)
    BY <2>2, <1>2
  <2>4. tokens[f] = "Pipe"
    <3>1. RunFits(source, result[k]) /\ result[k].rule = "Pipe"
      BY <2>1, <2>2, <1>3
    <3>2. "Pipe" \notin RuleNames
      BY DEF RuleNames
    <3> QED BY <3>1, <3>2 DEF RunFits, tokens
  <2>5. IsTop(f - 1)
    BY <2>1, <2>3 DEF TopAfter
  <2> HIDE DEF f
  <2>6. f - 1 \in 1..(n - 1)
    BY <2>5 DEF IsTop
  <2>7. f \in 2..n
    BY <2>3, <2>6, <1>2
  <2>8. AtTop(tokens, 1, f)
    BY <2>5, <2>7, <1>1, TopIsAtTop
  <2>9. f \in DOMAIN tokens
    <3>1. DOMAIN tokens = 1..n
      BY <1>1, SourceTyped DEF ShapingInv
    <3> QED BY <3>1, <2>7, <1>2
  <2>10. f <= b
    <3>1. CASE k = q
      BY <3>1, <1>9, <1>4 DEF f
    <3>2. CASE k # q
      <4>1. ~(q <= k)
        BY <3>2, <2>1, <2>2, <1>7
      <4>2. ~(b <= Reach(k))
        BY <4>1, <2>2, <1>6
      <4> QED BY <4>2, <2>3, <1>4
    <3> QED BY <3>1, <3>2
  <2> QED BY <2>4, <2>8, <2>9, <2>10 DEF TopLevelPipes, f
<1> QED BY <1>13, <1>14

LEMMA SeparatorPlaced == FragmentInv => SeparatorStandsAtTop
<1> SUFFICES ASSUME FragmentInv, WellNested, pc = "Shape", index > Len(tokens), IsComprehension
             PROVE  /\ OuterBracketsFound
                    /\ \E pipe \in Separator :
                         result[pipe].first \in TopLevelPipes /\ result[pipe].first <= source.boundary
  BY DEF SeparatorStandsAtTop
<1>1. ShapedFragment
  BY NestingIs, FragmentShaped
<1>2. source.boundary \in TopLevelPipes
  BY DEF FragmentInv, PipesTried
<1>3. OuterBracketsFound
  <2>1. Len(result) >= 2 /\ RunRules[1] = "LeftBracket" /\ RunRules[Len(result)] = "RightBracket"
    BY <1>1 DEF ShapedFragment
  <2>2. result # <<>>
    BY <2>1
  <2> QED BY <2>1, <2>2 DEF OuterBracketsFound
<1>4. /\ Separator # {}
      /\ \A pipe \in Separator :
           result[pipe].first \in TopLevelPipes /\ result[pipe].first <= source.boundary
  BY <1>1, <1>2, SeparatorFound
<1> QED BY <1>3, <1>4

\* The parts pt cover the runs rs of the tokens ts, whose rules are rr.
Covers(pt, rs, rr, ts) ==
    /\ pt.pattern[1] = 2 \/ (pt.pattern[1] = 4 /\ rr[3] = "Equal")
    /\ rr[pt.projection[1] - 1] = "Pipe"
    /\ \/ pt.pattern[2] + 1 = pt.projection[1] - 1
       \/ /\ rr[pt.pattern[2] + 1] = "Where"
          /\ pt.predicate = <<pt.pattern[2] + 2, pt.projection[1] - 2>>
    /\ \A p \in DOMAIN pt :
        NestsIn(ts) /\ ~(pt[p][1] > pt[p][2]) =>
            BalancedIn(ts, rs[pt[p][1]].first, rs[pt[p][2]].last)

\* The parts pt are ranges that end at one of the first len runs or at none.
Placed(pt, rs, len) ==
    \A p \in DOMAIN pt : pt[p][1] \in 1..(Len(rs) + 1) /\ pt[p][2] \in 0..len

\* What lies between two places at the top that runs end at is balanced.
LEMMA PartBalanced ==
    ASSUME ShapedFragment, NEW a \in 2..Len(result), NEW b \in a..(Len(result) - 1),
           TopAfter(a - 1), TopAfter(b)
    PROVE  BalancedIn(tokens, result[a].first, result[b].last)
<1>1. ShapingInv /\ Enclosed
  BY DEF ShapedFragment
<1>2. /\ Len(result) \in Nat
      /\ \A k \in 1..Len(result) : result[k].first = Reach(k - 1) + 1 /\ result[k].last = Reach(k)
  BY <1>1, RunsReach
<1>3. a \in 1..Len(result) /\ b \in 1..Len(result) /\ b \in (a - 1)..(Len(result) - 1)
  BY <1>2
<1>4. result[a].first = Reach(a - 1) + 1 /\ result[b].last = Reach(b)
  BY <1>2, <1>3
<1>5. Reach(a - 1) <= Reach(b)
  <2>1. <<"LeftBracket", "RightBracket">> \in Pairs
    BY ThePairs
  <2> QED BY <2>1, <1>3, SurplusBetween
<1>6. IsTop(Reach(a - 1)) /\ IsTop(Reach(b))
  BY DEF TopAfter
<1>7. BalancedIn(tokens, Reach(a - 1) + 1, Reach(b))
  BY <1>1, <1>5, <1>6, TopsBalance
<1> QED BY <1>4, <1>7

(* The parts of a split begin and end at the top.                           *)
LEMMA SplitBalanced ==
    ASSUME ShapedFragment, index > Len(tokens), source.boundary \in TopLevelPipes,
           NEW pipe \in Separator, PatternStart(pipe) < PatternEnd(pipe), pipe + 1 < Len(result),
           NEW p \in PartNames, ~(SplitAt(pipe)[p][1] > SplitAt(pipe)[p][2])
    PROVE  BalancedIn(tokens, result[SplitAt(pipe)[p][1]].first, result[SplitAt(pipe)[p][2]].last)
<1> DEFINE m == Len(result)
           s == PatternStart(pipe)
           e == PatternEnd(pipe)
<1>1. ShapingInv
  BY DEF ShapedFragment
<1>2. m \in Nat
  BY <1>1, RunsReach
<1>3. pipe \in 2..(m - 1) /\ s \in {2, 4} /\ e \in 1..pipe
  BY <1>2, SplitPlaced
<1>4. RunRules[pipe] = "Pipe" /\ TopAfter(pipe - 1)
  BY SeparatorFound
<1>5. TopAfter(1) /\ TopAfter(m - 1)
  BY OuterTops
<1>6. "Equal" \notin Openers \cup Closers /\ "Pipe" \notin Openers \cup Closers
      /\ "Where" \notin Openers \cup Closers /\ SymbolicNames \cap (Openers \cup Closers) = {}
  BY DEF Openers, Closers, SymbolicNames, Keywords
<1>7. TopAfter(s - 1)
  <2>1. CASE HasBinding(pipe)
    <3>1. s = 4 /\ 3 < pipe /\ RunRules[3] = "Equal" /\ RunRules[2] \in SymbolicNames
      BY <2>1 DEF PatternStart, HasBinding
    <3>2. 2 \in 2..(m - 1) /\ 3 \in 2..(m - 1) /\ 2 - 1 = 1 /\ 3 - 1 = 2 /\ s - 1 = 3
      BY <1>2, <1>3, <3>1
    <3>3. TopAfter(2)
      <4>1. TopAfter(2 - 1) /\ RunRules[2] \notin Openers \cup Closers
        BY <1>5, <1>6, <3>1, <3>2
      <4> QED BY <4>1, <3>2, TopPasses
    <3>4. TopAfter(3)
      <4>1. TopAfter(3 - 1) /\ RunRules[3] \notin Openers \cup Closers
        BY <1>6, <3>1, <3>2, <3>3
      <4> QED BY <4>1, <3>2, TopPasses
    <3> QED BY <3>2, <3>4
  <2>2. CASE ~HasBinding(pipe)
    BY <2>2, <1>5 DEF PatternStart
  <2> QED BY <2>1, <2>2
<1>8. s \in Int /\ e \in Int /\ pipe \in Int /\ s \in 2..m
  BY <1>2, <1>3
<1>9. TopAfter(e - 1) /\ (e # pipe => RunRules[e] = "Where")
  <2>1. CASE WhereAt(pipe) = {}
    BY <2>1, <1>4 DEF PatternEnd
  <2>2. CASE WhereAt(pipe) # {}
    <3>1. pipe - 1 \in Int /\ pipe - 1 <= m
      BY <1>2, <1>3
    <3>2. \A k \in WhereAt(pipe) : k \in s..(pipe - 1) /\ RunRules[k] = "Where" /\ TopAfter(k - 1)
      <4> HIDE DEF s
      <4>1. \A k \in FindTopLevel("Where", s, pipe - 1) :
              k \in s..(pipe - 1) /\ RunRules[k] = "Where" /\ TopAfter(k - 1)
        BY <3>1, <1>7, <1>8, FoundAtTop
      <4> QED BY <4>1 DEF WhereAt, s
    <3>3. WhereAt(pipe) \subseteq Nat
      BY <3>2, <1>8, <1>3
    <3>4. e \in WhereAt(pipe)
      BY <2>2, <3>3, MinIsLeast DEF PatternEnd
    <3> QED BY <3>2, <3>4
  <2> QED BY <2>1, <2>2
<1>10. SplitAt(pipe) = [pattern |-> <<s, e - 1>>, predicate |-> <<e + 1, pipe - 1>>,
                        projection |-> <<pipe + 1, m - 1>>]
  BY DEF SplitAt
<1> HIDE DEF s, e, m
<1>11. CASE p = "pattern"
  <2>1. SplitAt(pipe)[p] = <<s, e - 1>>
    BY <1>10, <1>11
  <2>2. s < e
    BY DEF s, e
  <2>3. e - 1 \in s..(m - 1)
    BY <2>2, <1>2, <1>3, <1>8
  <2>4. BalancedIn(tokens, result[s].first, result[e - 1].last)
    BY <2>3, <1>7, <1>8, <1>9, PartBalanced DEF m
  <2> QED BY <2>1, <2>4
<1>12. CASE p = "predicate"
  <2>1. SplitAt(pipe)[p] = <<e + 1, pipe - 1>>
    BY <1>10, <1>12
  <2>2. ~(e + 1 > pipe - 1)
    BY <2>1
  <2>3. e + 1 \in 2..m /\ pipe - 1 \in (e + 1)..(m - 1) /\ (e + 1) - 1 = e /\ e # pipe
    BY <2>2, <1>2, <1>3, <1>8
  <2>4. e \in 2..(m - 1)
    <3>1. s < e
      BY DEF s, e
    <3> QED BY <3>1, <2>3, <1>2, <1>3, <1>8
  <2>5. TopAfter(e)
    <3>1. TopAfter(e - 1) /\ RunRules[e] \notin Openers \cup Closers
      BY <1>6, <1>9, <2>3
    <3> QED BY <3>1, <2>4, TopPasses DEF m
  <2>6. BalancedIn(tokens, result[e + 1].first, result[pipe - 1].last)
    <3>1. TopAfter((e + 1) - 1)
      BY <2>3, <2>5
    <3> QED BY <3>1, <2>3, <1>4, PartBalanced DEF m
  <2> QED BY <2>1, <2>6
<1>13. CASE p = "projection"
  <2>1. SplitAt(pipe)[p] = <<pipe + 1, m - 1>>
    BY <1>10, <1>13
  <2>2. ~(pipe + 1 > m - 1)
    BY <2>1
  <2>3. pipe + 1 \in 2..m /\ m - 1 \in (pipe + 1)..(m - 1) /\ (pipe + 1) - 1 = pipe
    BY <2>2, <1>2, <1>3, <1>8
  <2>4. TopAfter(pipe)
    <3>1. RunRules[pipe] \notin Openers \cup Closers
      BY <1>4, <1>6
    <3> QED BY <3>1, <1>3, <1>4, TopPasses DEF m
  <2>5. BalancedIn(tokens, result[pipe + 1].first, result[m - 1].last)
    <3>1. TopAfter((pipe + 1) - 1)
      BY <2>3, <2>4
    <3> QED BY <3>1, <2>3, <1>5, PartBalanced DEF m
  <2> QED BY <2>1, <2>5
<1> QED BY <1>11, <1>12, <1>13 DEF PartNames

LEMMA SplitCovers ==
    ASSUME FragmentInv, pc = "Shape", index > Len(tokens), IsComprehension, SplitErrors = {},
           NEW pipe \in Separator
    PROVE  /\ Covers(SplitAt(pipe), result, RunRules, tokens)
           /\ Placed(SplitAt(pipe), result, Len(result) - 1)
<1> DEFINE m == Len(result)
           s == PatternStart(pipe)
           e == PatternEnd(pipe)
<1>1. m \in Nat /\ ShapingInv
  BY RunsReach DEF FragmentInv
<1>2. pipe \in 2..(m - 1) /\ s \in {2, 4} /\ e \in 1..pipe
  BY <1>1, SplitPlaced
<1>3. s < e /\ pipe + 1 < m
  BY <1>1, SplitChecked
<1>4. SplitAt(pipe) = [pattern |-> <<s, e - 1>>, predicate |-> <<e + 1, pipe - 1>>,
                       projection |-> <<pipe + 1, m - 1>>]
  BY DEF SplitAt
<1>5. s = 2 \/ (s = 4 /\ RunRules[3] = "Equal")
  BY DEF PatternStart, HasBinding
<1>6. RunRules[pipe] = "Pipe"
  BY DEF Separator, FindTopLevel
<1>7. e = pipe \/ RunRules[e] = "Where"
  <2>1. CASE WhereAt(pipe) = {}
    BY <2>1 DEF PatternEnd
  <2>2. CASE WhereAt(pipe) # {}
    <3>1. \A k \in WhereAt(pipe) : k \in s..(pipe - 1) /\ RunRules[k] = "Where"
      BY DEF WhereAt, FindTopLevel
    <3>2. WhereAt(pipe) \subseteq Nat
      BY <3>1, <1>2
    <3>3. e \in WhereAt(pipe)
      BY <2>2, <3>2, MinIsLeast DEF PatternEnd
    <3> QED BY <3>1, <3>3
  <2> QED BY <2>1, <2>2
<1>8. ASSUME NestsIn(tokens), NEW p \in PartNames, ~(SplitAt(pipe)[p][1] > SplitAt(pipe)[p][2])
      PROVE  BalancedIn(tokens, result[SplitAt(pipe)[p][1]].first, result[SplitAt(pipe)[p][2]].last)
  <2>1. ShapedFragment
    BY <1>8, FragmentShaped
  <2>2. source.boundary \in TopLevelPipes
    BY DEF FragmentInv, PipesTried
  <2> QED BY <2>1, <2>2, <1>3, <1>8, SplitBalanced
<1> HIDE DEF m, s, e
<1>9. DOMAIN SplitAt(pipe) = PartNames
  BY <1>4 DEF PartNames
<1>10. /\ SplitAt(pipe).pattern[1] = s /\ SplitAt(pipe).pattern[2] = e - 1
       /\ SplitAt(pipe).predicate = <<e + 1, pipe - 1>>
       /\ SplitAt(pipe).projection[1] = pipe + 1 /\ SplitAt(pipe).projection[2] = m - 1
       /\ SplitAt(pipe).predicate[1] = e + 1 /\ SplitAt(pipe).predicate[2] = pipe - 1
  BY <1>4
<1>11. (e - 1) + 1 = e /\ (pipe + 1) - 1 = pipe /\ (e - 1) + 2 = e + 1 /\ (pipe + 1) - 2 = pipe - 1
  BY <1>1, <1>2
<1>12. Covers(SplitAt(pipe), result, RunRules, tokens)
  <2>1. SplitAt(pipe).pattern[1] = 2 \/ (SplitAt(pipe).pattern[1] = 4 /\ RunRules[3] = "Equal")
    BY <1>5, <1>10
  <2>2. RunRules[SplitAt(pipe).projection[1] - 1] = "Pipe"
    BY <1>6, <1>10, <1>11
  <2>3. \/ SplitAt(pipe).pattern[2] + 1 = SplitAt(pipe).projection[1] - 1
        \/ /\ RunRules[SplitAt(pipe).pattern[2] + 1] = "Where"
           /\ SplitAt(pipe).predicate
                = <<SplitAt(pipe).pattern[2] + 2, SplitAt(pipe).projection[1] - 2>>
    BY <1>7, <1>10, <1>11
  <2> QED BY <2>1, <2>2, <2>3, <1>8, <1>9 DEF Covers
<1>13. Placed(SplitAt(pipe), result, Len(result) - 1)
  <2>1. \A p \in PartNames : SplitAt(pipe)[p][1] \in 1..(m + 1) /\ SplitAt(pipe)[p][2] \in 0..(m - 1)
    BY <1>1, <1>2, <1>3, <1>10 DEF PartNames
  <2> QED BY <2>1, <1>9 DEF Placed, m
<1> QED BY <1>12, <1>13

\* How far the parts may reach: a comprehension keeps its closing bracket out.
LastPart == IF IsComprehension THEN Len(result) - 1 ELSE Len(result)

\* The parts of the split at hand, or of the last one made.
PartsKept ==
    /\ pc \in {"Query", "Start", "Shape"} => part = Nothing
    /\ part # Nothing => Placed(part, result, LastPart)
    /\ pc = "pattern" /\ IsComprehension => Covers(part, result, RunRules, tokens)

SplitInv == FragmentInv /\ PartsKept

LEMMA SplitIsKept == SplitInv /\ [FragmentNext]_<<vars, fragment>> => PartsKept'
<1> SUFFICES ASSUME FragmentInv, PartsKept, [FragmentNext]_<<vars, fragment>> PROVE PartsKept'
  BY DEF SplitInv
<1>1. ASSUME UNCHANGED <<vars, part>>, pc' \notin {"Query", "Start", "Shape", "pattern"} \/ pc' = pc
      PROVE  PartsKept'
  <2>1. tokens' = tokens /\ result' = result /\ part' = part
    BY <1>1 DEF vars, tokens
  <2>2. IsComprehension' = IsComprehension /\ RunRules' = RunRules
    BY <2>1, SameTokens DEF RunRules
  <2>3. LastPart' = LastPart
    BY <2>1, <2>2 DEF LastPart
  <2>4. part' # Nothing => Placed(part', result', LastPart')
    BY <2>1, <2>3 DEF PartsKept
  <2>5. pc' = "pattern" /\ IsComprehension' => Covers(part', result', RunRules', tokens')
    BY <1>1, <2>1, <2>2 DEF PartsKept
  <2>6. pc' \in {"Query", "Start", "Shape"} => part' = Nothing
    BY <1>1, <2>1 DEF PartsKept
  <2> QED BY <2>4, <2>5, <2>6 DEF PartsKept, Nothing
<1>2. ASSUME part' = Nothing, pc' # "pattern" PROVE PartsKept'
  BY <1>2 DEF PartsKept, Nothing
<1>3. CASE UNCHANGED <<vars, fragment>> \/ Answered \/ ShapedQuery
  <2>1. UNCHANGED <<vars, part>> /\ pc' = pc
    BY <1>3 DEF Answered, ShapedQuery, Shaped, fragment
  <2> QED BY <2>1, <1>1
<1>4. CASE Lex
  <2>1. part = Nothing /\ part' = part /\ pc' # "pattern"
    BY <1>4 DEF Lex, PartsKept
  <2> QED BY <2>1, <1>2
<1>5. CASE Reserve
  BY <1>2, <1>5 DEF Reserve
<1>6. CASE GiveUp
  <2>1. UNCHANGED <<vars, part>> /\ pc' = "Err"
    BY <1>6 DEF GiveUp
  <2> QED BY <2>1, <1>1
<1>7. CASE Shape
  <2>1. part = Nothing /\ part' = part /\ pc' = pc /\ pc # "pattern"
    BY <1>7 DEF Shape, PartsKept, fragment
  <2> QED BY <2>1, <1>2
<1>8. CASE WholePattern
  <2>1. /\ ~IsComprehension /\ pc' = "pattern" /\ UNCHANGED vars
        /\ part' = [pattern |-> <<1, Len(result)>>, predicate |-> <<1, 0>>, projection |-> <<1, 0>>]
    BY <1>8 DEF WholePattern, Nothing
  <2>2. tokens' = tokens /\ result' = result /\ Len(result) \in Nat
    BY <2>1, RunsReach DEF vars, tokens, FragmentInv
  <2>3. ~IsComprehension'
    BY <2>1, <2>2, SameTokens
  <2>4. LastPart' = Len(result)
    BY <2>2, <2>3 DEF LastPart
  <2>5. Placed(part', result', LastPart')
    BY <2>1, <2>2, <2>4 DEF Placed
  <2> QED BY <2>1, <2>3, <2>5 DEF PartsKept
<1>9. CASE Split
  <2>1. /\ pc = "Shape" /\ index > Len(tokens) /\ IsComprehension /\ SplitErrors = {}
        /\ pc' = "pattern" /\ UNCHANGED vars
    BY <1>9 DEF Split
  <2>2. PICK pipe \in Separator : part' = SplitAt(pipe)
    BY <1>9 DEF Split
  <2>3. tokens' = tokens /\ result' = result
    BY <2>1 DEF vars, tokens
  <2>4. IsComprehension' = IsComprehension /\ RunRules' = RunRules
    BY <2>3, SameTokens DEF RunRules
  <2>5. LastPart' = Len(result) - 1
    BY <2>1, <2>3, <2>4 DEF LastPart
  <2>6. Covers(part', result', RunRules', tokens') /\ Placed(part', result', LastPart')
    BY <2>1, <2>2, <2>3, <2>4, <2>5, SplitCovers
  <2> QED BY <2>1, <2>6 DEF PartsKept
<1>10. CASE Unsplit
  <2>1. UNCHANGED <<vars, part>> /\ pc' \in {"Reserve", "Err"}
    BY <1>10 DEF Unsplit, FailAt
  <2> QED BY <2>1, <1>1
<1>11. ASSUME NEW p \in PartNames, ParsePart(p) PROVE PartsKept'
  <2>1. UNCHANGED <<vars, part>> /\ pc' \in {"Reserve", "Err", "predicate", "Ok", "projection"}
    BY <1>11 DEF ParsePart, Parsed, FailAt
  <2> QED BY <2>1, <1>1
<1> QED BY <1>3, <1>4, <1>5, <1>6, <1>7, <1>8, <1>9, <1>10, <1>11 DEF FragmentNext, PartNames

LEMMA PartsCovered == PartsKept => PartsCoverFragment
<1> SUFFICES ASSUME PartsKept, pc = "pattern", IsComprehension
             PROVE  /\ part.pattern[1] = 2 \/ (part.pattern[1] = 4 /\ RunRules[3] = "Equal")
                    /\ RunRules[part.projection[1] - 1] = "Pipe"
                    /\ \/ part.pattern[2] + 1 = part.projection[1] - 1
                       \/ /\ RunRules[part.pattern[2] + 1] = "Where"
                          /\ part.predicate = <<part.pattern[2] + 2, part.projection[1] - 2>>
                    /\ \A p \in DOMAIN part :
                        (WellNested /\ ~IsEmpty(p)) =>
                            Balanced(result[part[p][1]].first, result[part[p][2]].last)
  BY DEF PartsCoverFragment
<1>1. Covers(part, result, RunRules, tokens)
  BY DEF PartsKept
<1>2. WellNested => NestsIn(tokens)
  BY NestingIs
<1>3. ASSUME NEW p \in DOMAIN part, WellNested, ~IsEmpty(p)
      PROVE  Balanced(result[part[p][1]].first, result[part[p][2]].last)
  <2>1. BalancedIn(tokens, result[part[p][1]].first, result[part[p][2]].last)
    BY <1>1, <1>2, <1>3 DEF Covers, IsEmpty
  <2> QED BY <2>1, NestingIs
<1> QED BY <1>1, <1>3 DEF Covers

-----------------------------------------------------------------------------
(* What a run is taken for.                                                 *)

(* A construct that is open before a token other than its closer, and not   *)
(* closed after it, is open throughout.                                     *)
LEMMA OpenAcross ==
    ASSUME NEW s, NEW open, NEW close, NEW a \in Int, NEW b \in Int, NEW j \in a..b,
           s[j] # close, StaysOpen(s, open, close, a, j - 1), StaysOpen(s, open, close, j + 1, b)
    PROVE  StaysOpen(s, open, close, a, b)
<1> DEFINE O(x, y) == Number(s, {open}, x, y)
           C(x, y) == Number(s, {close}, x, y)
<1>1. \A K : \A x, y \in Int :
        /\ Number(s, K, x, y) \in Nat
        /\ y < x => Number(s, K, x, y) = 0
        /\ \A m \in (x - 1)..y : Number(s, K, x, y) = Number(s, K, x, m) + Number(s, K, m + 1, y)
  BY NumberSplits
<1>2. \A x, y \in Int : O(x, y) \in Nat /\ C(x, y) \in Nat
                        /\ (y < x => O(x, y) = 0 /\ C(x, y) = 0)
  BY <1>1
<1>3. \A x, y \in Int : \A m \in (x - 1)..y :
        O(x, y) = O(x, m) + O(m + 1, y) /\ C(x, y) = C(x, m) + C(m + 1, y)
  BY <1>1
<1>4. C(j, j) = 0
  <2>1. j \in Int
    OBVIOUS
  <2>2. Number(s, {close}, j, j) = IF s[j] = close THEN 1 ELSE 0
    BY <2>1, NumberOfOne, Zenon
  <2> QED BY <2>2
<1>5. (\A k \in a..(j - 1) : C(a, k) <= O(a, k)) /\ (\A k \in (j + 1)..b : C(j + 1, k) <= O(j + 1, k))
  BY DEF StaysOpen
<1> HIDE DEF O, C
<1>6. C(a, j - 1) <= O(a, j - 1)
  <2>1. CASE j = a
    <3>1. C(a, j - 1) = 0 /\ O(a, j - 1) = 0
      BY <2>1, <1>2
    <3> QED BY <3>1
  <2>2. CASE j # a
    BY <2>2, <1>5
  <2> QED BY <2>1, <2>2
<1>7. C(a, j) <= O(a, j)
  <2>1. j - 1 \in (a - 1)..j /\ (j - 1) + 1 = j
    OBVIOUS
  <2>2. O(a, j) = O(a, j - 1) + O(j, j) /\ C(a, j) = C(a, j - 1) + C(j, j)
    BY <2>1, <1>3
  <2>3. O(a, j - 1) \in Nat /\ O(j, j) \in Nat /\ C(a, j - 1) \in Nat
    <3>1. a \in Int /\ j \in Int /\ j - 1 \in Int
      OBVIOUS
    <3> QED BY <3>1, <1>2, Zenon
  <2> QED BY <2>2, <2>3, <1>4, <1>6
<1>8. \A k \in a..b : C(a, k) <= O(a, k)
  <2> SUFFICES ASSUME NEW k \in a..b PROVE C(a, k) <= O(a, k)
    OBVIOUS
  <2>1. CASE k < j
    BY <2>1, <1>5
  <2>2. CASE k = j
    BY <2>2, <1>7
  <2>3. CASE k > j
    <3>1. O(a, k) = O(a, j) + O(j + 1, k) /\ C(a, k) = C(a, j) + C(j + 1, k)
      BY <2>3, <1>3
    <3>2. C(j + 1, k) <= O(j + 1, k)
      BY <2>3, <1>5
    <3>3. O(a, j) \in Nat /\ C(a, j) \in Nat /\ O(j + 1, k) \in Nat /\ C(j + 1, k) \in Nat
      <4>1. a \in Int /\ j \in Int /\ j + 1 \in Int /\ k \in Int
        OBVIOUS
      <4> QED BY <4>1, <1>2, Zenon
    <3> QED BY <3>1, <3>2, <3>3, <1>7
  <2> QED BY <2>1, <2>2, <2>3
<1> QED BY <1>8 DEF StaysOpen, O, C

(* The kinds that announce an expression or a pattern are no delimiters.    *)
LEMMA MarkersAreNoDelimiters ==
    \A kind \in ExpressionMarkers \cup {"Set"} : \A p \in Pairs : kind # p[1] /\ kind # p[2]
BY DEF ExpressionMarkers, Pairs

LEMMA Parity == ASSUME NEW x \in Int PROVE (x - 1) % 2 = 0 <=> x % 2 = 1
OBVIOUS

LEMMA NamesStayPlain == ShapingInv => ProcedureNamesStayPlain
<1> SUFFICES ASSUME ShapingInv, NEW call \in DOMAIN tokens, NEW end \in DOMAIN tokens,
                    tokens[call] = "Call", end > call,
                    \A k \in (call + 1)..end :
                        IF (k - call) % 2 = 1 THEN tokens[k] \in SymbolicNames ELSE tokens[k] = "Dot",
                    NEW k \in DOMAIN result, result[k].rule = "QualifiedFunctionName",
                    result[k].first \in (call + 1)..end
             PROVE  FALSE
  BY DEF ProcedureNamesStayPlain
<1> DEFINE first == result[k].first
<1>1. IsSource(source) /\ RunFits(source, result[k])
  BY DEF ShapingInv
<1>2. DOMAIN tokens = 1..Len(tokens) /\ Len(tokens) \in Nat
  BY <1>1, SourceTyped
<1>3. tokens[first] \in SymbolicNames /\ ~IsProcedureNameStart(tokens, first)
  BY <1>1 DEF RunFits, tokens
<1>4. first \in (call + 1)..end
  OBVIOUS
<1> HIDE DEF first
<1>5. "Dot" \notin SymbolicNames
  BY DEF SymbolicNames, Keywords
<1>6. (first - call) % 2 = 1
  BY <1>3, <1>4, <1>5
<1>7. call \in 1..Len(tokens)
  BY <1>2
<1> DEFINE start == call + 1
<1>8. start \in 2..first /\ (first - start) % 2 = 0 /\ tokens[start - 1] = "Call"
  <2>1. first - call \in Int /\ first - start = (first - call) - 1
    BY <1>4, <1>7
  <2>2. (first - start) % 2 = 0
    BY <2>1, <1>6, Parity
  <2>3. start \in 2..first /\ start - 1 = call
    BY <1>4, <1>7
  <2> QED BY <2>2, <2>3
<1>9. \A j \in start..(first - 1) : IF (j - start) % 2 = 0 THEN tokens[j] \in SymbolicNames
                                                           ELSE tokens[j] = "Dot"
  <2> SUFFICES ASSUME NEW j \in start..(first - 1)
               PROVE  IF (j - start) % 2 = 0 THEN tokens[j] \in SymbolicNames ELSE tokens[j] = "Dot"
    OBVIOUS
  <2>1. j \in (call + 1)..end
    BY <1>4, <1>7
  <2>2. (j - start) % 2 = 0 <=> (j - call) % 2 = 1
    <3>1. j - call \in Int /\ j - start = (j - call) - 1
      BY <2>1, <1>7
    <3> QED BY <3>1, Parity
  <2> QED BY <2>1, <2>2
<1> HIDE DEF start
<1>10. IsProcedureNameStart(tokens, first)
  BY <1>8, <1>9 DEF IsProcedureNameStart
<1> QED BY <1>3, <1>10

LEMMA BracketsHide == ShapingInv => CompletedBracketsHide
<1> SUFFICES ASSUME ShapingInv,
                    \A j \in DOMAIN tokens : tokens[j] \in ExpressionMarkers \cup {"Set"} => InBrackets(j),
                    NEW k \in DOMAIN result, result[k].rule \in {"PatternExpression", "LabelPredicate"}
             PROVE  InBrackets(result[k].first)
  BY DEF CompletedBracketsHide
<1> DEFINE i == result[k].first
<1>1. IsSource(source) /\ RunFits(source, result[k])
  BY DEF ShapingInv
<1>2. DOMAIN tokens = 1..Len(tokens) /\ Len(tokens) \in Nat
  BY <1>1, SourceTyped
<1>3. i \in 1..Len(tokens)
  BY <1>1 DEF RunFits, tokens
<1>4. \/ IsInMapEntryValue(tokens, i)
      \/ \E expression \in SUBSET (ExpressionMarkers \cup {"Set"}), pattern \in {PatternMarkers, PatternMarkers \cup {"Set"}} :
            ExpressionExpected(tokens, i, expression, pattern)
  <2>1. CASE result[k].rule = "PatternExpression"
    <3>1. IsPatternExpressionContext(tokens, i)
      BY <1>1, <2>1 DEF RunFits, tokens
    <3> QED BY <3>1 DEF IsPatternExpressionContext
  <2>2. CASE result[k].rule = "LabelPredicate"
    <3>1. IsLabelPredicateContext(tokens, i)
      BY <1>1, <2>2 DEF RunFits, tokens
    <3>2. IsInMapEntryValue(tokens, i)
          \/ ExpressionExpected(tokens, i, ExpressionMarkers, PatternMarkers \cup {"Set"})
      BY <3>1 DEF IsLabelPredicateContext
    <3> QED BY <3>2
  <2> QED BY <2>1, <2>2
<1> HIDE DEF i
<1>5. CASE IsInMapEntryValue(tokens, i)
  <2>1. PICK j \in 1..(i - 1) : tokens[j] = "LeftBrace"
          /\ StaysOpen(tokens, "LeftBrace", "RightBrace", j + 1, i - 1)
    BY <1>5 DEF IsInMapEntryValue, IsInsideBraces, EnclosingBraces
  <2> DEFINE p == <<"LeftBrace", "RightBrace">>
  <2>2. p \in Pairs /\ p[1] = "LeftBrace" /\ p[2] = "RightBrace"
    BY DEF Pairs
  <2>3. p[1] # "LeftParen"
    BY <2>2
  <2> HIDE DEF p
  <2>4. tokens[j] = p[1] /\ StaysOpen(tokens, p[1], p[2], j + 1, i - 1)
    BY <2>1, <2>2
  <2> QED BY <2>2, <2>3, <2>4 DEF InBrackets, i
<1>6. ASSUME NEW expression \in SUBSET (ExpressionMarkers \cup {"Set"}), NEW pattern,
             ExpressionExpected(tokens, i, expression, pattern)
      PROVE  InBrackets(i)
  <2>1. PICK j \in 1..(i - 1) : tokens[j] \in expression /\ Visible(tokens, j, i)
    BY <1>6 DEF ExpressionExpected
  <2>2. j \in DOMAIN tokens /\ tokens[j] \in ExpressionMarkers \cup {"Set"}
    BY <2>1, <1>2, <1>3
  <2>3. InBrackets(j)
    BY <2>2
  <2>4. PICK p \in Pairs : /\ p[1] # "LeftParen"
                           /\ \E open \in 1..(j - 1) :
                                tokens[open] = p[1] /\ StaysOpen(tokens, p[1], p[2], open + 1, j - 1)
    BY <2>3 DEF InBrackets
  <2>5. PICK open \in 1..(j - 1) :
          tokens[open] = p[1] /\ StaysOpen(tokens, p[1], p[2], open + 1, j - 1)
    BY <2>4
  <2>6. StaysOpen(tokens, p[1], p[2], j + 1, i - 1)
    <3>1. p = <<"LeftBracket", "RightBracket">> \/ p = <<"LeftBrace", "RightBrace">>
      BY <2>4 DEF Pairs
    <3>2. /\ StaysOpen(tokens, "LeftBracket", "RightBracket", j + 1, i - 1)
          /\ StaysOpen(tokens, "LeftBrace", "RightBrace", j + 1, i - 1)
      BY <2>1 DEF Visible
    <3> QED BY <3>1, <3>2
  <2>7. tokens[j] # p[2]
    BY <2>2, MarkersAreNoDelimiters
  <2>8. open + 1 \in Int /\ i - 1 \in Int /\ j \in (open + 1)..(i - 1)
    BY <1>3
  <2>9. StaysOpen(tokens, p[1], p[2], open + 1, i - 1)
    BY <2>5, <2>6, <2>7, <2>8, OpenAcross
  <2>10. open \in 1..(i - 1)
    BY <1>3
  <2> QED BY <2>4, <2>5, <2>9, <2>10 DEF InBrackets
<1> QED BY <1>4, <1>5, <1>6 DEF i

-----------------------------------------------------------------------------
(* The theorems.                                                            *)

LEMMA NextFragment == FragmentInv /\ [FragmentNext]_<<vars, fragment>> => FragmentInv'
<1> SUFFICES ASSUME FragmentInv, [FragmentNext]_<<vars, fragment>> PROVE FragmentInv'
  OBVIOUS
<1>1. CASE UNCHANGED <<vars, fragment>>
  <2>1. ShapingInv' /\ tokens' = tokens
    BY <1>1, ShapingStutters DEF FragmentInv, vars, tokens
  <2>2. TopLevelPipes' = TopLevelPipes /\ IsComprehension' = IsComprehension /\ Locations' = Locations
    BY <2>1, SameTokens
  <2> QED BY <1>1, <2>1, <2>2 DEF FragmentInv, FragmentKnown, PartsInRange, ErrorKept, PipesTried,
                                   PipesUpTo, PipesBefore, PartNames, vars, fragment
<1>2. CASE Lex
  BY <1>2, LexFits
<1>3. CASE Reserve
  BY <1>3, ReserveFits
<1>4. CASE GiveUp
  BY <1>4, GiveUpFits
<1>5. CASE Shape
  BY <1>5, ShapeFits
<1>6. CASE WholePattern
  BY <1>6, WholePatternFits
<1>7. CASE Split
  BY <1>7, SplitFits
<1>8. CASE Unsplit
  BY <1>8, UnsplitFits
<1>9. CASE \E p \in PartNames : ParsePart(p)
  BY <1>9, ParsePartFits
<1>10. CASE Answered \/ ShapedQuery
  BY <1>1, <1>10 DEF Answered, ShapedQuery, Shaped
<1> QED BY <1>1, <1>2, <1>3, <1>4, <1>5, <1>6, <1>7, <1>8, <1>9, <1>10 DEF FragmentNext, PartNames

(* What the properties below rest on: the runs lie end to end, each fits    *)
(* the rule it was merged by, the parts of a split are ranges of runs, and  *)
(* a split was tried at every pipe before the one at hand.                  *)
THEOREM FragmentInvariant == FragmentSpec => []FragmentInv
<1>1. FragmentInit => FragmentInv
  BY InitFragment
<1>2. FragmentInv /\ [FragmentNext]_<<vars, fragment>> => FragmentInv'
  BY NextFragment
<1> QED BY <1>1, <1>2, PTL DEF FragmentSpec

\* At no token does a rule answer an index that is none: parser_tokens indexes
\* the significant tokens with it.
EndsAreIndices ==
    index \in DOMAIN tokens => \A rule \in RuleNames : End(rule, index) \subseteq index..Len(tokens)

(* parser_tokens cannot panic: whatever a scanner returns is the index of a *)
(* token, at or after the one that it was asked about.                      *)
THEOREM ScansStayInside == FragmentSpec => []EndsAreIndices
<1>1. FragmentInv => EndsAreIndices
  <2> SUFFICES ASSUME FragmentInv, index \in DOMAIN tokens, NEW rule \in RuleNames, NEW e \in End(rule, index)
               PROVE  e \in index..Len(tokens)
    BY DEF EndsAreIndices
  <2>1. IsSource(source)
    BY DEF FragmentInv, ShapingInv
  <2>2. index \in 1..Len(tokens) /\ Len(tokens) \in Nat
    BY <2>1, SourceTyped
  <2>3. e \in index..Len(Scan(index)) /\ Len(Scan(index)) \in index..Len(tokens)
    BY <2>1, <2>2, EndsAreTokens, ScanTyped
  <2> QED BY <2>2, <2>3
<1> QED BY <1>1, FragmentInvariant, PTL

(* The runs tile the tokens, none panics the parser, a fragment yields only *)
(* shorter ones, and in tokens whose delimiters nest each run closes what   *)
(* it opens, although every scanner counts delimiters in its own way.       *)
THEOREM RunsAreWhole == FragmentSpec => []RunsAreSound
<1>1. FragmentInv => RunsAreSound
  <2> SUFFICES ASSUME FragmentInv PROVE RunsAreSound
    OBVIOUS
  <2>1. /\ IsSource(source) /\ index \in 1..(Len(tokens) + 1) /\ result \in Seq(RunType) /\ RunsTile
        /\ \A k \in DOMAIN result : RunFits(source, result[k])
    BY DEF FragmentInv, ShapingInv
  <2>2. TypeOK
    BY <2>1 DEF TypeOK, RunType
  <2>3. FragmentsShrink
    BY <2>1 DEF FragmentsShrink, RunFits, tokens
  <2>4. MergedRunsAreBalanced
    <3> SUFFICES ASSUME WellNested, NEW k \in DOMAIN result
                 PROVE  Balanced(result[k].first, result[k].last) \/ result[k].first = result[k].last
      BY DEF MergedRunsAreBalanced
    <3> DEFINE run == result[k]
    <3>1. NestsIn(tokens) => run.first = run.last \/ BalancedIn(tokens, run.first, run.last)
      BY <2>1 DEF RunFits, tokens
    <3>2. run \in RunType
      BY <2>1
    <3>3. run.first \in Int /\ run.last \in Int
      <4>1. run.first \in 1..Len(tokens) /\ run.last \in 1..Len(tokens)
        BY <3>2 DEF RunType
      <4> QED BY <4>1
    <3> HIDE DEF run
    <3>4. BalancedIn(tokens, run.first, run.last) <=> Balanced(run.first, run.last)
      BY <3>3, NestingIs
    <3>5. NestsIn(tokens)
      BY NestingIs
    <3> QED BY <3>1, <3>4, <3>5 DEF run
  <2> QED BY <2>1, <2>2, <2>3, <2>4 DEF RunsAreSound
<1> QED BY <1>1, FragmentInvariant, PTL

(* The pipe reserved as the separator of a pattern comprehension comes      *)
(* through the shaping as a plain Pipe, for every input.                    *)
THEOREM ReservedPipeComesThrough == FragmentSpec => []ReservedPipeSurvives
<1>1. FragmentInv => ReservedPipeSurvives
  BY DEF FragmentInv, ShapingInv, RunFits, ReservedPipeSurvives
<1> QED BY <1>1, FragmentInvariant, PTL

(* A dotted name after CALL is never merged into the name of a function,    *)
(* and what stands in completed brackets is no context for a pattern or a   *)
(* label after them, for every input.                                       *)
THEOREM ContextsAreRespected == FragmentSpec => []ContextsRespected
<1>1. FragmentInv => ContextsRespected
  BY NamesStayPlain, BracketsHide DEF FragmentInv, ContextsRespected
<1> QED BY <1>1, FragmentInvariant, PTL

(* A relationship label that the scan merges passes the check that the      *)
(* fragment's parser makes of it and, without the colons of the old form,   *)
(* is one label expression from end to end, for every input.                *)
THEOREM LabelsReadAlike == FragmentSpec => []LegacyLabelsConsistent
<1>1. FragmentInv => LegacyLabelsConsistent
  <2> SUFFICES ASSUME FragmentInv, NEW k \in DOMAIN result,
                      result[k].rule = "RelationshipLabelExpression"
               PROVE  LabelFits(SubSeq(tokens, result[k].first, result[k].last))
    BY DEF LegacyLabelsConsistent, LabelFits
  <2> QED BY DEF FragmentInv, ShapingInv, RunFits, tokens
<1> QED BY <1>1, FragmentInvariant, PTL

(* When no split parses, every pipe at the top was tried and the error that *)
(* is reported is the farthest of theirs, for every fragment and whatever   *)
(* the parsers of the parts answer.                                         *)
THEOREM FarthestIsReported == FragmentSpec => []ReportsFarthestSplit
<1>1. FragmentInv => ReportsFarthestSplit
  <2> SUFFICES ASSUME FragmentInv, pc = "Err", failures # {}
               PROVE  /\ error = Max(failures)
                      /\ IsComprehension => splits = Cardinality(TopLevelPipes)
    BY DEF ReportsFarthestSplit
  <2>1. IsSource(source) /\ ErrorKept /\ PipesTried
    BY DEF FragmentInv, ShapingInv
  <2>2. Len(tokens) \in Nat
    BY <2>1, SourceTyped
  <2>3. failures \subseteq Locations /\ error \in failures /\ \A x \in failures : x <= error
    BY <2>1 DEF ErrorKept
  <2> DEFINE b == EndOf(Len(tokens))
  <2>4. b \in Nat /\ Locations \subseteq 0..b
    BY <2>2 DEF Locations, StartOf, EndOf
  <2> HIDE DEF b
  <2>5. \A x \in failures : x \in Int /\ x <= b
    BY <2>3, <2>4
  <2>6. Max(failures) \in failures /\ \A x \in failures : Max(failures) >= x
    BY <2>4, <2>5, MaxIsGreatest
  <2>7. error = Max(failures)
    <3>0. \A x \in failures : x \in Int
      BY <2>5
    <3>1. error \in Int /\ Max(failures) \in Int
      BY <2>3, <2>6, <3>0
    <3>2. error <= Max(failures) /\ Max(failures) <= error
      BY <2>3, <2>6, <3>1
    <3> QED BY <3>1, <3>2
  <2> QED BY <2>1, <2>7 DEF PipesTried
<1> QED BY <1>1, FragmentInvariant, PTL

(* The parts of a split and the error lie where the fragment does; in input *)
(* whose delimiters nest, every split finds a separator at the top, at the  *)
(* reserved pipe or before it, and hands each parser whole groups: what the *)
(* counters find at their ground among the runs is at the top of the tokens *)
(* as they were lexed, whatever was merged in between.                      *)
THEOREM SplitsAreWhole == FragmentSpec => []SplitsAreSound
<1>1. FragmentInit => SplitInv
  <2>1. FragmentInit => PartsKept
    BY DEF FragmentInit, PartsKept
  <2> QED BY <2>1, InitFragment DEF SplitInv
<1>2. SplitInv /\ [FragmentNext]_<<vars, fragment>> => SplitInv'
  BY NextFragment, SplitIsKept DEF SplitInv
<1>3. SplitInv => SplitsAreSound
  <2> SUFFICES ASSUME FragmentInv, PartsKept PROVE SplitsAreSound
    BY DEF SplitInv
  <2>1. SeparatorStandsAtTop /\ PartsCoverFragment
    BY SeparatorPlaced, PartsCovered
  <2>2. IsSource(source) /\ index \in 1..(Len(tokens) + 1) /\ Len(tokens) \in Nat
        /\ FragmentKnown /\ ErrorKept
    BY SourceTyped DEF FragmentInv, ShapingInv
  <2>3. error \in 0..EndOf(Len(tokens))
    <3>1. Locations \subseteq 0..EndOf(Len(tokens))
      BY <2>2 DEF Locations, StartOf, EndOf
    <3>2. pc = "Err" => StartOf(1) \in Locations
      BY <2>2 DEF FragmentKnown, Locations, StartOf, EndOf
    <3>3. 0 \in 0..EndOf(Len(tokens))
      BY <2>2 DEF EndOf
    <3> QED BY <3>1, <3>2, <3>3, <2>2 DEF ErrorKept, NoError
  <2>4. part # Nothing => \A p \in DOMAIN part :
          /\ part[p][1] \in 1..(Len(result) + 1)
          /\ part[p][2] \in 0..(IF IsComprehension THEN Len(result) - 1 ELSE Len(result))
    BY DEF PartsKept, Placed, LastPart
  <2>5. pc \in {"Query", "Start", "Reserve", "Shape", "pattern", "predicate", "projection", "Ok", "Err"}
    BY <2>2 DEF FragmentKnown, PartNames
  <2> QED BY <2>1, <2>2, <2>3, <2>4, <2>5 DEF SplitsAreSound, FragmentTypeOK
<1> QED BY <1>1, <1>2, <1>3, PTL DEF FragmentSpec

=============================================================================
