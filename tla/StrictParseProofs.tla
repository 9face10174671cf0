-------------------------- MODULE StrictParseProofs --------------------------
(***************************************************************************)
(* Proofs about StrictParse, for every input and every clause parser that  *)
(* answers as an LR(1) machine does: the short cuts of the search change   *)
(* neither a query nor an error, and a query that is accepted leaves no    *)
(* token out.                                                              *)
(*                                                                         *)
(* Both searches, the one with short cuts and the one without, are shown   *)
(* to compute the same functions of the clause parser, Reading and Query,  *)
(* which are then reasoned about.                                          *)
(*                                                                         *)
(* And proofs about ExpressionTrees, for every sentence: a tree stands for *)
(* exactly the tokens it was built from, and is grouped by the levels of   *)
(* the grammar.  They start at "Expression trees" below.                   *)
(***************************************************************************)
EXTENDS StrictParse, ExpressionTrees, WellFoundedInduction, SequenceTheorems, TLAPS

-----------------------------------------------------------------------------
(* Extremes of sets of numbers.                                             *)

(* A nonempty set of natural numbers has the minimum Min picks.             *)
LEMMA MinIsLeast ==
    ASSUME NEW S, S \subseteq Nat, S # {}
    PROVE  Min(S) \in S /\ \A x \in S : Min(S) <= x
<1> DEFINE R == {xy \in Nat \X Nat : xy[1] < xy[2]}
<1>1. IsWellFoundedOn(R, Nat)
  BY NatLessThanWellFounded DEF OpToRel
<1>2. \A x, y \in Nat : x < y => <<x, y>> \in R
  OBVIOUS
<1> HIDE DEF R
<1>3. PICK m \in S : \A y \in S : ~(<<y, m>> \in R)
  BY <1>1, WFMin
<1>4. \A y \in S : m <= y
  <2> SUFFICES ASSUME NEW y \in S PROVE ~(y < m)
    OBVIOUS
  <2> QED BY <1>2, <1>3
<1>5. \E x \in S : \A y \in S : x <= y
  BY <1>4
<1> QED BY <1>5, Zenon DEF Min

(* A nonempty set of numbers that is bounded has the maximum Max picks.     *)
LEMMA MaxIsGreatest ==
    ASSUME NEW S, NEW b \in Int, \A x \in S : x \in Int /\ x <= b, S # {}
    PROVE  Max(S) \in S /\ \A x \in S : Max(S) >= x
<1> DEFINE T == {b - x : x \in S}
<1>1. T \subseteq Nat /\ T # {}
  <2>1. \A x \in S : b - x \in Nat
    OBVIOUS
  <2> QED BY <2>1
<1> HIDE DEF T
<1>2. Min(T) \in T /\ \A x \in T : Min(T) <= x
  BY <1>1, MinIsLeast
<1>3. PICK m \in S : Min(T) = b - m
  BY <1>2 DEF T
<1>4. \A x \in S : m >= x
  <2> SUFFICES ASSUME NEW x \in S PROVE m >= x
    OBVIOUS
  <2>1. b - x \in T
    BY DEF T
  <2> QED BY <2>1, <1>2, <1>3
<1>5. \E x \in S : \A y \in S : x >= y
  BY <1>4
<1> QED BY <1>5, Zenon DEF Max

\* G gives the value at i from the values at the later indices.
LooksAhead(n, V, G) == \A i \in 1..n : G[i] \in [[(i + 1)..n -> V] -> V]

\* f takes the values that G gives.
Solves(n, V, G, f) ==
    \A i \in 1..n : \E h \in [(i + 1)..n -> V] :
        f[i] = G[i][h] /\ \A j \in (i + 1)..n : h[j] = f[j]

(* A function on the indices up to n that is defined at each of them from   *)
(* its values at later ones exists: take the least index down to which such *)
(* a function can be built.                                                 *)
LEMMA LookAhead ==
    ASSUME NEW n \in Nat, NEW V, NEW G, LooksAhead(n, V, G)
    PROVE  \E f \in [1..n -> V] : Solves(n, V, G, f)
<1>0. \A i \in 1..n : G[i] \in [[(i + 1)..n -> V] -> V]
  BY DEF LooksAhead
<1> DEFINE Built(k) == \E f \in [k..n -> V] :
                          \A i \in k..n : f[i] = G[i][[j \in (i + 1)..n |-> f[j]]]
           S == {k \in 1..(n + 1) : Built(k)}
<1>1. n + 1 \in S
  <2>1. (n + 1)..n = {}
    OBVIOUS
  <2>2. [j \in (n + 1)..n |-> j] \in [(n + 1)..n -> V]
    BY <2>1
  <2>3. Built(n + 1)
    BY <2>1, <2>2
  <2>4. n + 1 \in 1..(n + 1)
    OBVIOUS
  <2> HIDE DEF Built
  <2> QED BY <2>3, <2>4
<1>2. Min(S) \in S /\ \A x \in S : Min(S) <= x
  <2>1. S \subseteq Nat /\ S # {}
    BY <1>1
  <2> HIDE DEF S
  <2> QED BY <2>1, MinIsLeast
<1>3. Min(S) = 1
  <2> SUFFICES ASSUME Min(S) # 1 PROVE FALSE
    OBVIOUS
  <2> DEFINE k == Min(S)
  <2>0. k \in S
    BY <1>2
  <2> HIDE DEF k
  <2>1. k \in 2..(n + 1) /\ Built(k)
    <3>1. k # 1
      BY DEF k
    <3> HIDE DEF Built
    <3> QED BY <2>0, <3>1
  <2>2. PICK f \in [k..n -> V] : \A i \in k..n : f[i] = G[i][[j \in (i + 1)..n |-> f[j]]]
    BY <2>1
  <2> DEFINE g == [j \in (k - 1)..n |-> IF j = k - 1 THEN G[k - 1][f] ELSE f[j]]
  <2>3. ((k - 1) + 1)..n = k..n /\ k - 1 \in 1..n
    BY <2>1
  <2>4. G[k - 1][f] \in V
    BY <2>3, <2>2, <1>0
  <2>5. g \in [(k - 1)..n -> V]
    BY <2>1, <2>4
  <2>6. \A i \in (k - 1)..n : [j \in (i + 1)..n |-> g[j]] = [j \in (i + 1)..n |-> f[j]]
    BY <2>1
  <2>7. [j \in ((k - 1) + 1)..n |-> f[j]] = f
    BY <2>3
  <2>8. g[k - 1] = G[k - 1][[j \in ((k - 1) + 1)..n |-> g[j]]]
    <3>1. k - 1 \in (k - 1)..n
      BY <2>1
    <3>2. g[k - 1] = G[k - 1][f]
      BY <3>1
    <3>3. [j \in ((k - 1) + 1)..n |-> g[j]] = f
      BY <2>6, <2>7, <3>1
    <3> HIDE DEF g
    <3> QED BY <3>2, <3>3
  <2>9. \A i \in k..n : g[i] = G[i][[j \in (i + 1)..n |-> g[j]]]
    <3> SUFFICES ASSUME NEW i \in k..n PROVE g[i] = G[i][[j \in (i + 1)..n |-> g[j]]]
      OBVIOUS
    <3>1. i \in (k - 1)..n /\ i # k - 1
      BY <2>1
    <3>2. g[i] = f[i]
      BY <3>1
    <3> QED BY <3>1, <3>2, <2>2, <2>6
  <2>10. \A i \in (k - 1)..n : i = k - 1 \/ i \in k..n
    BY <2>1
  <2> HIDE DEF g
  <2>11. Built(k - 1)
    BY <2>5, <2>8, <2>9, <2>10
  <2>12. k - 1 \in S
    <3> HIDE DEF Built
    <3> QED BY <2>11, <2>1
  <2> HIDE DEF S
  <2> QED BY <2>12, <1>2, <2>1 DEF k
<1>4. PICK f \in [1..n -> V] : \A i \in 1..n : f[i] = G[i][[j \in (i + 1)..n |-> f[j]]]
  <2>1. 1 \in S
    BY <1>2, <1>3
  <2> QED BY <2>1
<1>5. \A i \in 1..n : \E h \in [(i + 1)..n -> V] :
        f[i] = G[i][h] /\ \A j \in (i + 1)..n : h[j] = f[j]
  <2> SUFFICES ASSUME NEW i \in 1..n
               PROVE  \E h \in [(i + 1)..n -> V] : f[i] = G[i][h] /\ \A j \in (i + 1)..n : h[j] = f[j]
    OBVIOUS
  <2> DEFINE h == [j \in (i + 1)..n |-> f[j]]
  <2>1. h \in [(i + 1)..n -> V] /\ \A j \in (i + 1)..n : h[j] = f[j]
    OBVIOUS
  <2>2. f[i] = G[i][h]
    BY <1>4
  <2> HIDE DEF h
  <2> QED BY <2>1, <2>2
<1> QED BY <1>5 DEF Solves

(* What holds at an index whenever it holds at all later ones holds at all. *)
LEMMA Backwards ==
    ASSUME NEW n \in Nat, NEW P,
           \A i \in 1..n : (\A j \in (i + 1)..n : j \in P) => i \in P
    PROVE  \A i \in 1..n : i \in P
<1> DEFINE S == {i \in 1..n : i \notin P}
<1> SUFFICES ASSUME S # {} PROVE FALSE
  OBVIOUS
<1>1. \A x \in S : x \in Int /\ x <= n
  OBVIOUS
<1>2. Max(S) \in S /\ \A x \in S : Max(S) >= x
  <2> HIDE DEF S
  <2> QED BY <1>1, MaxIsGreatest
<1> DEFINE i == Max(S)
<1>3. i \in 1..n /\ i \notin P /\ \A x \in S : i >= x
  <2> HIDE DEF i
  <2> QED BY <1>2 DEF i
<1> HIDE DEF i
<1>4. \A j \in (i + 1)..n : j \in P
  <2> SUFFICES ASSUME NEW j \in (i + 1)..n, j \notin P PROVE FALSE
    OBVIOUS
  <2>1. j \in S /\ j > i
    BY <1>3
  <2> HIDE DEF S
  <2> QED BY <2>1, <1>3
<1> QED BY <1>3, <1>4

-----------------------------------------------------------------------------
(* The clause parser, as a value.                                           *)

\* All that parse_regular_query is given: the tokens, without the semicolon,
\* and what the clause parser does with them.
Machine == [tokens |-> Tokens, rejects |-> grammar.rejects,
            accepts |-> grammar.accepts, user |-> userErrors]

IsMachine(m) ==
    /\ m.tokens \in Seq(TokenClass) /\ Len(m.tokens) \in 0..MaxTokens
    /\ m.user \in BOOLEAN
    /\ \A c \in 1..Len(m.tokens) : m.rejects[c] \in Int /\ c <= m.rejects[c]
    /\ \A c \in 1..Len(m.tokens) : \A e :
        <<c, e>> \in m.accepts => e \in Int /\ c < e /\ e <= m.rejects[c]

TypeInv ==
    /\ input \in Seq(TokenClass) /\ Len(input) <= MaxTokens
    /\ grammar \in Grammars(input)
    /\ userErrors \in BOOLEAN /\ standalone \in BOOLEAN

(* Tokens are the input, or all of it but its last token.                   *)
LEMMA TokensAre ==
    ASSUME TypeInv
    PROVE  /\ Tokens \in Seq(TokenClass) /\ Size \in 0..MaxTokens
           /\ Size = Len(Tokens) /\ Size <= Len(input)
           /\ input = <<>> => Size = 0
<1>1. input \in Seq(TokenClass) /\ Len(input) \in Nat /\ Len(input) <= MaxTokens /\ MaxTokens \in Nat
  BY BoundAssumption DEF TypeInv
<1>2. CASE Terminated
  <2>1. Len(input) >= 1 /\ input # <<>>
    BY <1>1, <1>2 DEF Terminated
  <2>2. Tokens = SubSeq(input, 1, Len(input) - 1)
    BY <1>2 DEF Tokens
  <2>3. /\ SubSeq(input, 1, Len(input) - 1) \in Seq(TokenClass)
        /\ Len(SubSeq(input, 1, Len(input) - 1)) = Len(input) - 1
    <3>1. \A i \in 1..(Len(input) - 1) : input[i] \in TokenClass
      BY <1>1
    <3>2. PICK n \in Nat : n = Len(input) - 1
      BY <1>1, <2>1
    <3>3. n \in Int /\ n - 1 + 1 = n /\ (1 <= n \/ n = 0) /\ \A i \in 1..n : input[i] \in TokenClass
      BY <3>1, <3>2
    <3>4. /\ SubSeq(input, 1, n) \in Seq(TokenClass)
          /\ Len(SubSeq(input, 1, n)) = IF 1 <= n THEN n - 1 + 1 ELSE 0
      BY <3>3, SubSeqProperties
    <3> QED BY <3>2, <3>3, <3>4
  <2> QED BY <2>1, <2>2, <2>3, <1>1 DEF Size
<1>3. CASE ~Terminated
  <2>1. Tokens = input
    BY <1>3 DEF Tokens
  <2> QED BY <2>1, <1>1 DEF Size
<1> QED BY <1>2, <1>3

(* The clause parser of a state is a machine: it accepts nothing beyond the *)
(* token it rejects, and rejects none before the one it starts at.          *)
LEMMA MachineTyped ==
    ASSUME TypeInv
    PROVE  IsMachine(Machine) /\ Len(Machine.tokens) = Size
<1>1. /\ Tokens \in Seq(TokenClass) /\ Len(Tokens) \in 0..MaxTokens
      /\ Len(Tokens) = Size /\ Size <= Len(input) /\ Len(input) \in Nat
  BY TokensAre DEF TypeInv
<1>2. PICK f \in Rejections(input) : grammar \in [rejects : {f}, accepts : SUBSET Slices(input, f)]
  BY DEF TypeInv, Grammars
<1>3. grammar.rejects = f /\ grammar.accepts \subseteq Slices(input, f)
  BY <1>2
<1>4. \A c \in 1..Len(input) : f[c] \in Int /\ c <= f[c]
  <2>1. DOMAIN input = 1..Len(input)
    BY DEF TypeInv
  <2> QED BY <2>1, <1>2 DEF Rejections
<1>5. \A c, e : <<c, e>> \in grammar.accepts => e \in Int /\ c < e /\ e <= f[c]
  <2> SUFFICES ASSUME NEW c, NEW e, <<c, e>> \in grammar.accepts
               PROVE  e \in Int /\ c < e /\ e <= f[c]
    OBVIOUS
  <2>1. <<c, e>> \in Slices(input, f)
    BY <1>3
  <2>2. e \in CutPoints(input) /\ c < e /\ e <= f[c]
    BY <2>1 DEF Slices
  <2>3. DOMAIN input = 1..Len(input)
    BY DEF TypeInv
  <2> QED BY <2>2, <2>3, <1>1 DEF CutPoints
<1> QED BY <1>1, <1>3, <1>4, <1>5 DEF Machine, IsMachine, TypeInv

-----------------------------------------------------------------------------
(* Candidates.                                                              *)

\* The nesting depth at each token, counted from lo.
Depth(ts, lo) ==
    CHOOSE depth : depth = [i \in Nat |->
        IF i <= lo THEN 0
        ELSE IF ts[i - 1] = "Open" THEN depth[i - 1] + 1
        ELSE IF ts[i - 1] = "Close" /\ depth[i - 1] > 0 THEN depth[i - 1] - 1
        ELSE depth[i - 1]]

(* An index is at the top whatever the end of the slice.                    *)
LEMMA TopLevelIs ==
    ASSUME NEW ts, NEW lo, NEW hi, NEW classes
    PROVE  TopLevelIndices(ts, lo, hi, classes) =
             {i \in lo..(hi - 1) : ts[i] \in classes /\ Depth(ts, lo)[i] = 0}
BY DEF TopLevelIndices, Depth

\* The ends at which a clause from c can end, and those at which it does.
EndsOf(m, c, hi) == TopLevelIndices(m.tokens, c + 1, hi, ClauseStarts) \cup {hi}
OkEnds(m, c, hi) == {e \in EndsOf(m, c, hi) : <<c, e>> \in m.accepts}
First(m, c, hi) == Min(OkEnds(m, c, hi))

(* Candidates end after the clause starts and within the branch.            *)
LEMMA EndsAre ==
    ASSUME NEW m, IsMachine(m), NEW hi \in 1..(Len(m.tokens) + 1), NEW c \in 1..(hi - 1)
    PROVE  /\ EndsOf(m, c, hi) \subseteq (c + 1)..hi /\ hi \in EndsOf(m, c, hi)
           /\ OkEnds(m, c, hi) \subseteq EndsOf(m, c, hi)
           /\ OkEnds(m, c, hi) # {} =>
                /\ First(m, c, hi) \in OkEnds(m, c, hi) /\ First(m, c, hi) \in (c + 1)..hi
                /\ \A e \in OkEnds(m, c, hi) : First(m, c, hi) <= e
<1>0. Len(m.tokens) \in Nat
  BY DEF IsMachine
<1>1. EndsOf(m, c, hi) \subseteq (c + 1)..hi /\ hi \in EndsOf(m, c, hi)
  BY <1>0, TopLevelIs DEF EndsOf
<1>2. OkEnds(m, c, hi) \subseteq EndsOf(m, c, hi)
  BY DEF OkEnds
<1>3. ASSUME OkEnds(m, c, hi) # {}
      PROVE  First(m, c, hi) \in OkEnds(m, c, hi) /\ \A e \in OkEnds(m, c, hi) : First(m, c, hi) <= e
  <2>1. OkEnds(m, c, hi) \subseteq Nat
    BY <1>1, <1>2, <1>0
  <2> QED BY <2>1, <1>3, MinIsLeast DEF First
<1> QED BY <1>1, <1>2, <1>3

\* The error of the whole slice from c to hi.
Fault(m, c, hi) ==
    IF m.rejects[c] < hi THEN Err("UnrecognizedToken", StartOf(m.rejects[c]))
    ELSE IF m.user THEN Err("User", StartOf(c))
    ELSE Err("UnrecognizedEof", EndOf(hi - 1))

(* The attempt at one slice, in terms of the machine.                       *)
LEMMA AttemptIs ==
    ASSUME TypeInv, NEW c \in Int, NEW e \in Int
    PROVE  /\ ParseClause(c, e) = IF <<c, e>> \in Machine.accepts THEN Ok(<<>>) ELSE Fault(Machine, c, e)
           /\ ParseClause(c, e).ok <=> <<c, e>> \in Machine.accepts
<1>1. Machine.accepts = grammar.accepts /\ Machine.rejects = grammar.rejects
      /\ Machine.user = userErrors
  BY DEF Machine
<1>2. ParseClause(c, e) = IF <<c, e>> \in Machine.accepts THEN Ok(<<>>) ELSE Fault(Machine, c, e)
  BY <1>1 DEF ParseClause, Fault
<1>3. Ok(<<>>).ok = TRUE /\ Fault(Machine, c, e).ok = FALSE
  BY DEF Ok, Err, Fault
<1> QED BY <1>2, <1>3

(* Tokens are apart, in the order in which they come.                       *)
LEMMA OffsetsGrow ==
    ASSUME NEW i \in 1..MaxTokens, NEW j \in 1..MaxTokens, i <= j
    PROVE  /\ StartOf(i) \in Int /\ EndOf(i) \in Int /\ StartOf(i) < EndOf(i)
           /\ StartOf(i) <= StartOf(j) /\ EndOf(i) <= EndOf(j)
           /\ i < j => StartOf(i) < StartOf(j) /\ EndOf(i) <= StartOf(j)
<1>1. /\ StartOf(i) \in Nat /\ EndOf(i) \in Nat /\ StartOf(i) < EndOf(i)
      /\ StartOf(j) \in Nat /\ EndOf(j) \in Nat /\ StartOf(j) < EndOf(j)
  BY OffsetAssumption
<1>2. i < j => EndOf(i) <= StartOf(j)
  BY OffsetAssumption
<1>3. i = j \/ i < j
  BY BoundAssumption
<1> QED BY <1>1, <1>2, <1>3

(* When every candidate fails, no error is farther than that of the whole   *)
(* branch.                                                                  *)
LEMMA WholeIsFarthest ==
    ASSUME NEW m, IsMachine(m), NEW hi \in 1..(Len(m.tokens) + 1), NEW c \in 1..(hi - 1),
           NEW d \in (c + 1)..hi
    PROVE  /\ Fault(m, c, d).location \in Int /\ Fault(m, c, hi).location \in Int
           /\ Fault(m, c, d).location <= Fault(m, c, hi).location
<1>1. /\ Len(m.tokens) \in Nat /\ Len(m.tokens) <= MaxTokens /\ MaxTokens \in Nat
      /\ m.rejects[c] \in Int /\ c <= m.rejects[c] /\ m.user \in BOOLEAN
  BY BoundAssumption DEF IsMachine
<1> DEFINE r == m.rejects[c]
<1>2. /\ c \in 1..MaxTokens /\ d - 1 \in 1..MaxTokens /\ hi - 1 \in 1..MaxTokens /\ c <= d - 1 /\ d - 1 <= hi - 1
      /\ r < hi => r \in 1..MaxTokens /\ c <= r
  BY <1>1
<1>3. /\ StartOf(c) \in Int /\ EndOf(d - 1) \in Int /\ EndOf(hi - 1) \in Int /\ EndOf(d - 1) <= EndOf(hi - 1)
  BY <1>2, OffsetsGrow
<1>4. r < hi => StartOf(r) \in Int /\ StartOf(c) <= StartOf(r)
  BY <1>2, OffsetsGrow
<1>5. r < hi /\ d <= r => EndOf(d - 1) <= StartOf(r)
  <2> SUFFICES ASSUME r < hi, d <= r PROVE EndOf(d - 1) <= StartOf(r)
    OBVIOUS
  <2>1. d - 1 < r /\ r \in 1..MaxTokens /\ d - 1 \in 1..MaxTokens /\ d - 1 <= r
    BY <1>1, <1>2
  <2> QED BY <2>1, OffsetsGrow
<1>6. \A e : Fault(m, c, e).location = IF r < e THEN StartOf(r) ELSE IF m.user THEN StartOf(c) ELSE EndOf(e - 1)
  BY DEF Fault, Err
<1>7. d < hi \/ d = hi
  OBVIOUS
<1>8. r \in Int /\ d \in Int /\ hi \in Int /\ (r < d => r < hi)
  BY <1>1
<1> HIDE DEF r
<1> QED BY <1>1, <1>3, <1>4, <1>5, <1>6, <1>7, <1>8, SMTT(30)

-----------------------------------------------------------------------------
(* What is read of a branch, from each of its tokens.                       *)

ErrorKinds == {"UnrecognizedToken", "UnrecognizedEof", "User", "ExtraToken"}
Errors == [ok : {FALSE}, kind : ErrorKinds, location : Int]

Clauses == [start : Int, end : Int]
Readings == [ok : {TRUE}, branches : Seq(Clauses)] \cup Errors

\* The clauses of a branch from c to hi, given those from each later token.
Parsed(m, c, hi, f) ==
    IF OkEnds(m, c, hi) = {} THEN Fault(m, c, hi)
    ELSE IF m.tokens[c] = "Return" /\ First(m, c, hi) < hi
      THEN Err("ExtraToken", StartOf(First(m, c, hi)))
    ELSE IF f[First(m, c, hi)].ok
      THEN Ok(<<[start |-> c, end |-> First(m, c, hi)]>> \o f[First(m, c, hi)].branches)
    ELSE f[First(m, c, hi)]

Reads(m, hi, f) ==
    /\ f[hi] = Ok(<<>>)
    /\ \A c \in 1..(hi - 1) : f[c] = Parsed(m, c, hi, f)

Reading(m, hi) == CHOOSE f \in [1..hi -> Readings] : Reads(m, hi, f)

(* The error of a slice is one, and lies at a token.                        *)
LEMMA FaultTyped ==
    ASSUME NEW m, IsMachine(m), NEW hi \in 1..(Len(m.tokens) + 1), NEW c \in 1..(hi - 1)
    PROVE  Fault(m, c, hi) \in Errors
<1>1. Fault(m, c, hi).location \in Int
  <2>1. hi \in (c + 1)..hi
    BY DEF IsMachine
  <2> QED BY <2>1, WholeIsFarthest
<1>2. \E k \in ErrorKinds : \E l : Fault(m, c, hi) = [ok |-> FALSE, kind |-> k, location |-> l]
  BY DEF Fault, Err, ErrorKinds
<1> QED BY <1>1, <1>2 DEF Errors

(* A clause and the clauses after it are clauses.                           *)
LEMMA ParsedTyped ==
    ASSUME NEW m, IsMachine(m), NEW hi \in 1..(Len(m.tokens) + 1), NEW c \in 1..(hi - 1),
           NEW f, \A e \in (c + 1)..hi : f[e] \in Readings
    PROVE  Parsed(m, c, hi, f) \in Readings
<1>0. Len(m.tokens) \in Nat /\ Len(m.tokens) <= MaxTokens /\ MaxTokens \in Nat
  BY BoundAssumption DEF IsMachine
<1>1. CASE OkEnds(m, c, hi) = {}
  BY <1>1, FaultTyped DEF Parsed, Readings
<1>2. CASE OkEnds(m, c, hi) # {}
  <2>1. PICK e \in (c + 1)..hi : e = First(m, c, hi)
    BY <1>2, EndsAre
  <2>2. f[e] \in Readings
    OBVIOUS
  <2>3. e < hi => Err("ExtraToken", StartOf(e)) \in Readings
    <3> SUFFICES ASSUME e < hi PROVE Err("ExtraToken", StartOf(e)) \in Readings
      OBVIOUS
    <3>1. e \in 1..MaxTokens
      BY <1>0
    <3>2. StartOf(e) \in Int
      BY <3>1, OffsetAssumption
    <3> QED BY <3>2 DEF Err, Readings, Errors, ErrorKinds
  <2>4. ASSUME f[e].ok
        PROVE  Ok(<<[start |-> c, end |-> e]>> \o f[e].branches) \in Readings
    <3>1. f[e].branches \in Seq(Clauses)
      BY <2>2, <2>4 DEF Readings, Errors
    <3>2. [start |-> c, end |-> e] \in Clauses
      BY <1>0 DEF Clauses
    <3>3. <<[start |-> c, end |-> e]>> \o f[e].branches \in Seq(Clauses)
      BY <3>1, <3>2
    <3> QED BY <3>3 DEF Ok, Readings
  <2> QED BY <1>2, <2>1, <2>2, <2>3, <2>4 DEF Parsed
<1> QED BY <1>1, <1>2

(* Only later tokens matter.                                                *)
LEMMA ParsedFrom ==
    ASSUME NEW m, IsMachine(m), NEW hi \in 1..(Len(m.tokens) + 1), NEW c \in 1..(hi - 1),
           NEW f, NEW g, \A e \in (c + 1)..hi : f[e] = g[e]
    PROVE  Parsed(m, c, hi, f) = Parsed(m, c, hi, g)
<1>1. CASE OkEnds(m, c, hi) = {}
  BY <1>1 DEF Parsed
<1>2. CASE OkEnds(m, c, hi) # {}
  <2>1. f[First(m, c, hi)] = g[First(m, c, hi)]
    BY <1>2, EndsAre
  <2> QED BY <1>2, <2>1 DEF Parsed
<1> QED BY <1>1, <1>2

(* There is one reading of a branch.                                        *)
LEMMA OneReading ==
    ASSUME NEW m, IsMachine(m), NEW hi \in 1..(Len(m.tokens) + 1),
           NEW f, NEW g, Reads(m, hi, f), Reads(m, hi, g)
    PROVE  \A c \in 1..hi : f[c] = g[c]
<1> DEFINE P == {c \in 1..hi : f[c] = g[c]}
<1>0. hi \in Nat
  BY DEF IsMachine
<1>1. \A i \in 1..hi : (\A j \in (i + 1)..hi : j \in P) => i \in P
  <2> SUFFICES ASSUME NEW i \in 1..hi, \A j \in (i + 1)..hi : f[j] = g[j]
               PROVE  f[i] = g[i]
    OBVIOUS
  <2>1. CASE i = hi
    BY <2>1 DEF Reads
  <2>2. CASE i # hi
    <3>1. i \in 1..(hi - 1)
      BY <1>0, <2>2
    <3>2. Parsed(m, i, hi, f) = Parsed(m, i, hi, g)
      BY <3>1, ParsedFrom
    <3> QED BY <3>1, <3>2 DEF Reads
  <2> QED BY <2>1, <2>2
<1> HIDE DEF P
<1>2. \A i \in 1..hi : i \in P
  BY <1>0, <1>1, Backwards
<1> QED BY <1>2 DEF P

(* There is a reading of every branch.                                      *)
LEMMA ReadingExists ==
    ASSUME NEW m, IsMachine(m), NEW hi \in 1..(Len(m.tokens) + 1)
    PROVE  \E f \in [1..hi -> Readings] : Reads(m, hi, f)
<1>0. hi \in Nat
  BY DEF IsMachine
<1> DEFINE V == Readings
           G == [i \in 1..hi |-> [h \in [(i + 1)..hi -> V] |->
                    IF i = hi THEN Ok(<<>>) ELSE Parsed(m, i, hi, h)]]
<1>1. Ok(<<>>) \in V
  BY DEF Ok, Readings
<1>2. ASSUME NEW i \in 1..hi, NEW h \in [(i + 1)..hi -> V]
      PROVE  (IF i = hi THEN Ok(<<>>) ELSE Parsed(m, i, hi, h)) \in V
  <2>1. CASE i = hi
    BY <2>1, <1>1
  <2>2. CASE i # hi
    <3>1. i \in 1..(hi - 1) /\ \A e \in (i + 1)..hi : h[e] \in Readings
      BY <1>0, <2>2
    <3> QED BY <3>1, <2>2, ParsedTyped
  <2> QED BY <2>1, <2>2
<1> HIDE DEF V
<1>3. \A i \in 1..hi : G[i] \in [[(i + 1)..hi -> V] -> V]
  BY <1>2
<1>4. \A i \in 1..hi : \A h \in [(i + 1)..hi -> V] :
         G[i][h] = IF i = hi THEN Ok(<<>>) ELSE Parsed(m, i, hi, h)
  OBVIOUS
<1> HIDE DEF G
<1>5. PICK f \in [1..hi -> V] : Solves(hi, V, G, f)
  BY <1>0, <1>3, LookAhead DEF LooksAhead
<1>6. ASSUME NEW i \in 1..hi
      PROVE  f[i] = IF i = hi THEN Ok(<<>>) ELSE Parsed(m, i, hi, f)
  <2>1. PICK h \in [(i + 1)..hi -> V] : f[i] = G[i][h] /\ \A j \in (i + 1)..hi : h[j] = f[j]
    BY <1>5 DEF Solves
  <2>2. i = hi \/ i \in 1..(hi - 1)
    BY <1>0
  <2>3. i \in 1..(hi - 1) => Parsed(m, i, hi, h) = Parsed(m, i, hi, f)
    BY <2>1, ParsedFrom
  <2> QED BY <2>1, <2>2, <2>3, <1>4
<1>7. f[hi] = Ok(<<>>) /\ \A c \in 1..(hi - 1) : f[c] = Parsed(m, c, hi, f)
  BY <1>0, <1>6
<1> QED BY <1>7 DEF Reads, V

LEMMA ReadingIs ==
    ASSUME NEW m, IsMachine(m), NEW hi \in 1..(Len(m.tokens) + 1)
    PROVE  Reading(m, hi) \in [1..hi -> Readings] /\ Reads(m, hi, Reading(m, hi))
BY ReadingExists DEF Reading

-----------------------------------------------------------------------------
(* parse_single_query computes the reading, with short cuts or without.     *)

\* What is read of a branch from lo to hi.
Branch(m, lo, hi) == IF lo = hi THEN Err("UnrecognizedEof", 0) ELSE Reading(m, hi)[lo]

\* The clauses from c as parse_single_query finds them.
Searched(c, hi, pruning, f) ==
    LET ends == CandidateEnds(c, hi)
        decisive == {e \in ends : ParseClause(c, e).ok} \cup (IF pruning THEN Rejected(c, ends) ELSE {})
        end == Min(decisive)
    IN  IF decisive = {} THEN FarthestError(c, ends)
        ELSE IF ~ParseClause(c, end).ok THEN ParseClause(c, end)
        ELSE IF LeavesClauses(c, end, hi)
          THEN Err("ExtraToken", StartOf(end))
        ELSE IF f[end].ok
          THEN Ok(<<[start |-> c, end |-> end]>> \o f[end].branches)
        ELSE f[end]

(* When every candidate fails the error kept is that of the whole branch.   *)
LEMMA FarthestIsWhole ==
    ASSUME TypeInv, NEW hi \in 1..(Size + 1), NEW c \in 1..(hi - 1),
           OkEnds(Machine, c, hi) = {}
    PROVE  FarthestError(c, CandidateEnds(c, hi)) = Fault(Machine, c, hi)
<1>1. IsMachine(Machine) /\ Len(Machine.tokens) = Size /\ Machine.tokens = Tokens /\ Size \in Nat
  BY MachineTyped, TokensAre DEF Machine
<1> DEFINE ends == CandidateEnds(c, hi)
           errors == {e \in ends : ~ParseClause(c, e).ok}
           Best(e) == \A d \in errors :
                        \/ ParseClause(c, d).location < ParseClause(c, e).location
                        \/ ParseClause(c, d).location = ParseClause(c, e).location /\ d <= e
<1>2. ends = EndsOf(Machine, c, hi) /\ ends \subseteq (c + 1)..hi /\ hi \in ends
  BY <1>1, EndsAre DEF CandidateEnds, EndsOf
<1>3. \A e \in ends : e \in Int /\ ~ParseClause(c, e).ok /\ ParseClause(c, e) = Fault(Machine, c, e)
  <2> SUFFICES ASSUME NEW e \in ends
               PROVE  e \in Int /\ ~ParseClause(c, e).ok /\ ParseClause(c, e) = Fault(Machine, c, e)
    OBVIOUS
  <2>1. e \in Int /\ c \in Int
    BY <1>1, <1>2
  <2>2. <<c, e>> \notin Machine.accepts
    BY <1>2 DEF OkEnds
  <2> QED BY <2>1, <2>2, AttemptIs
<1>4. errors = ends
  BY <1>3
<1>5. \A e \in ends : /\ ParseClause(c, e).location \in Int
                      /\ ParseClause(c, e).location <= ParseClause(c, hi).location
                      /\ e <= hi
  <2> SUFFICES ASSUME NEW e \in ends
               PROVE  /\ ParseClause(c, e).location \in Int
                      /\ ParseClause(c, e).location <= ParseClause(c, hi).location
                      /\ e <= hi
    OBVIOUS
  <2>1. e \in (c + 1)..hi
    BY <1>2
  <2>2. /\ Fault(Machine, c, e).location \in Int
        /\ Fault(Machine, c, e).location <= Fault(Machine, c, hi).location
    BY <1>1, <2>1, WholeIsFarthest
  <2>3. ParseClause(c, e) = Fault(Machine, c, e) /\ ParseClause(c, hi) = Fault(Machine, c, hi)
    BY <1>2, <1>3
  <2> QED BY <2>1, <2>2, <2>3, <1>1
<1>6. Best(hi) /\ hi \in errors
  BY <1>2, <1>3, <1>4, <1>5
<1> DEFINE best == CHOOSE e \in errors : Best(e)
<1>7. best \in errors /\ Best(best)
  BY <1>6
<1>8. FarthestError(c, ends) = ParseClause(c, best)
  BY DEF FarthestError
<1> HIDE DEF best, ends
<1>9. best = hi
  BY <1>2, <1>3, <1>4, <1>5, <1>7
<1> QED BY <1>2, <1>3, <1>8, <1>9 DEF ends

(* The search from one token finds what is parsed there: of the candidates  *)
(* the first that parses, for a token once rejected stays rejected.         *)
LEMMA SearchedIsParsed ==
    ASSUME TypeInv, NEW hi \in 1..(Size + 1), NEW c \in 1..(hi - 1), NEW pruning \in BOOLEAN, NEW f
    PROVE  Searched(c, hi, pruning, f) = Parsed(Machine, c, hi, f)
<1>1. IsMachine(Machine) /\ Len(Machine.tokens) = Size /\ Machine.tokens = Tokens /\ Size \in Nat
  BY MachineTyped, TokensAre DEF Machine
<1> DEFINE ends == CandidateEnds(c, hi)
           oks == {e \in ends : ParseClause(c, e).ok}
           rejections == IF pruning THEN Rejected(c, ends) ELSE {}
           decisive == oks \cup rejections
           r == Machine.rejects[c]
<1>2. ends = EndsOf(Machine, c, hi) /\ ends \subseteq (c + 1)..hi /\ hi \in ends
  BY <1>1, EndsAre DEF CandidateEnds, EndsOf
<1>3. \A e \in ends : e \in Int
  BY <1>1, <1>2
<1>4. oks = OkEnds(Machine, c, hi)
  <2>1. \A e \in ends : ParseClause(c, e).ok <=> <<c, e>> \in Machine.accepts
    BY <1>1, <1>3, AttemptIs
  <2> QED BY <1>2, <2>1 DEF OkEnds
<1>5. r \in Int /\ \A e \in oks : e <= r
  <2>1. c \in 1..Len(Machine.tokens) /\ c \in Int
    BY <1>1
  <2>2. r \in Int /\ \A e : <<c, e>> \in Machine.accepts => e <= r
    BY <1>1, <2>1 DEF IsMachine
  <2>3. \A e \in OkEnds(Machine, c, hi) : <<c, e>> \in Machine.accepts
    BY DEF OkEnds
  <2> HIDE DEF r, oks
  <2> QED BY <1>4, <2>2, <2>3
<1>6. \A e \in rejections : /\ e \in ends /\ ~ParseClause(c, e).ok /\ r < e
                            /\ ParseClause(c, e) = Err("UnrecognizedToken", StartOf(r))
  <2> SUFFICES ASSUME NEW e \in rejections
               PROVE  /\ e \in ends /\ ~ParseClause(c, e).ok /\ r < e
                      /\ ParseClause(c, e) = Err("UnrecognizedToken", StartOf(r))
    OBVIOUS
  <2>1. e \in ends /\ ~ParseClause(c, e).ok /\ ParseClause(c, e).kind = "UnrecognizedToken"
    BY DEF Rejected
  <2>2. ParseClause(c, e) = Fault(Machine, c, e)
    <3>1. e \in Int /\ c \in Int
      BY <1>1, <1>3, <2>1
    <3> QED BY <3>1, <2>1, AttemptIs
  <2> QED BY <2>1, <2>2 DEF Fault, Err
<1>7. Searched(c, hi, pruning, f) =
        IF decisive = {} THEN FarthestError(c, ends)
        ELSE IF ~ParseClause(c, Min(decisive)).ok THEN ParseClause(c, Min(decisive))
        ELSE IF LeavesClauses(c, Min(decisive), hi) THEN Err("ExtraToken", StartOf(Min(decisive)))
        ELSE IF f[Min(decisive)].ok
          THEN Ok(<<[start |-> c, end |-> Min(decisive)]>> \o f[Min(decisive)].branches)
        ELSE f[Min(decisive)]
  BY DEF Searched
<1>8. decisive # {} => Min(decisive) \in decisive /\ \A e \in decisive : Min(decisive) <= e
  <2>1. decisive \subseteq Nat
    BY <1>1, <1>2, <1>6
  <2> HIDE DEF decisive
  <2> QED BY <2>1, MinIsLeast
<1>9. CASE oks = {}
  <2>1. Parsed(Machine, c, hi, f) = Fault(Machine, c, hi)
    BY <1>4, <1>9 DEF Parsed
  <2>2. CASE rejections = {}
    <3>1. decisive = {}
      BY <1>9, <2>2
    <3>2. FarthestError(c, ends) = Fault(Machine, c, hi)
      BY <1>4, <1>9, FarthestIsWhole
    <3> QED BY <1>7, <2>1, <3>1, <3>2
  <2>3. CASE rejections # {}
    <3>1. PICK e \in rejections : e = Min(decisive)
      BY <1>8, <1>9, <2>3
    <3>2. decisive # {} /\ Searched(c, hi, pruning, f) = ParseClause(c, e)
      <4> HIDE DEF oks, rejections
      <4> QED BY <1>6, <1>7, <1>9, <2>3, <3>1
    <3>3. r < hi
      BY <1>1, <1>2, <1>3, <1>5, <1>6
    <3> QED BY <1>6, <2>1, <3>2, <3>3 DEF Fault
  <2> QED BY <2>2, <2>3
<1>10. CASE oks # {}
  <2> DEFINE end == First(Machine, c, hi)
  <2>1. end \in oks /\ end \in (c + 1)..hi /\ \A e \in oks : end <= e
    BY <1>1, <1>4, <1>10, EndsAre
  <2>2. Min(decisive) = end
    <3>1. end \in decisive /\ Min(decisive) <= end
      BY <2>1, <1>8
    <3>2. Min(decisive) \notin rejections
      <4> SUFFICES ASSUME NEW e \in rejections, e = Min(decisive) PROVE FALSE
        OBVIOUS
      <4>1. r < e /\ e \in Int /\ end <= r /\ end \in Int /\ e <= end
        BY <1>3, <1>5, <1>6, <2>1, <3>1
      <4> QED BY <4>1, <1>5
    <3>3. Min(decisive) \in oks
      <4> HIDE DEF oks, rejections
      <4> QED BY <1>8, <3>1, <3>2
    <3>4. end <= Min(decisive) /\ Min(decisive) \in Int /\ end \in Int
      BY <2>1, <3>3, <1>3
    <3> HIDE DEF decisive, end
    <3> QED BY <3>1, <3>4
  <2>3. decisive # {} /\ ParseClause(c, end).ok
    BY <2>1
  <2>4. LeavesClauses(c, end, hi) <=> Machine.tokens[c] = "Return" /\ end < hi
    BY <1>1 DEF LeavesClauses
  <2>5. Parsed(Machine, c, hi, f) =
          IF Machine.tokens[c] = "Return" /\ end < hi THEN Err("ExtraToken", StartOf(end))
          ELSE IF f[end].ok THEN Ok(<<[start |-> c, end |-> end]>> \o f[end].branches)
          ELSE f[end]
    BY <1>4, <1>10 DEF Parsed
  <2> HIDE DEF decisive, end
  <2> QED BY <1>7, <2>2, <2>3, <2>4, <2>5
<1> QED BY <1>9, <1>10

\* The search from every token of a branch that ends at hi.
From(hi, pruning) ==
    CHOOSE from : from = [c \in 1..hi |-> IF c = hi THEN Ok(<<>>) ELSE Searched(c, hi, pruning, from)]

(* parse_single_query reads the branch.                                     *)
LEMMA SingleQueryIsBranch ==
    ASSUME TypeInv, NEW hi \in 1..(Size + 1), NEW lo \in 1..hi, NEW pruning \in BOOLEAN
    PROVE  SingleQuery(lo, hi, pruning) = Branch(Machine, lo, hi)
<1>1. IsMachine(Machine) /\ Len(Machine.tokens) = Size /\ Size \in Nat
  BY MachineTyped, TokensAre
<1>2. SingleQuery(lo, hi, pruning) = IF lo = hi THEN Err("UnrecognizedEof", 0) ELSE From(hi, pruning)[lo]
  BY DEF SingleQuery, From, Searched
<1> DEFINE R == Reading(Machine, hi)
           F == From(hi, pruning)
           Step(f) == [c \in 1..hi |-> IF c = hi THEN Ok(<<>>) ELSE Searched(c, hi, pruning, f)]
<1>3. R \in [1..hi -> Readings] /\ Reads(Machine, hi, R)
  BY <1>1, ReadingIs
<1> HIDE DEF R
<1>4. ASSUME NEW f
      PROVE  \A c \in 1..hi : Step(f)[c] = IF c = hi THEN Ok(<<>>) ELSE Parsed(Machine, c, hi, f)
  <2> SUFFICES ASSUME NEW c \in 1..hi
               PROVE  Step(f)[c] = IF c = hi THEN Ok(<<>>) ELSE Parsed(Machine, c, hi, f)
    OBVIOUS
  <2>1. Step(f)[c] = IF c = hi THEN Ok(<<>>) ELSE Searched(c, hi, pruning, f)
    OBVIOUS
  <2>2. c # hi => Searched(c, hi, pruning, f) = Parsed(Machine, c, hi, f)
    <3> SUFFICES ASSUME c # hi PROVE Searched(c, hi, pruning, f) = Parsed(Machine, c, hi, f)
      OBVIOUS
    <3>1. c \in 1..(hi - 1)
      BY <1>1
    <3> QED BY <3>1, SearchedIsParsed
  <2> HIDE DEF Step
  <2> QED BY <2>1, <2>2
<1>5. R = Step(R)
  <2>1. \A c \in 1..hi : R[c] = Step(R)[c]
    <3> SUFFICES ASSUME NEW c \in 1..hi PROVE R[c] = Step(R)[c]
      OBVIOUS
    <3>1. c = hi \/ c \in 1..(hi - 1)
      BY <1>1
    <3>2. R[c] = IF c = hi THEN Ok(<<>>) ELSE Parsed(Machine, c, hi, R)
      BY <1>3, <3>1 DEF Reads
    <3> HIDE DEF Step
    <3> QED BY <3>2, <1>4
  <2> QED BY <2>1, <1>3
<1>6. F = Step(F)
  <2>1. \E f : f = Step(f)
    BY <1>5
  <2>2. F = CHOOSE f : f = Step(f)
    BY DEF From
  <2> HIDE DEF F, Step
  <2> QED BY <2>1, <2>2
<1>7. Reads(Machine, hi, F)
  <2>1. \A c \in 1..hi : F[c] = IF c = hi THEN Ok(<<>>) ELSE Parsed(Machine, c, hi, F)
    <3> HIDE DEF Step, F
    <3> QED BY <1>4, <1>6
  <2>2. hi \in 1..hi /\ \A c \in 1..(hi - 1) : c \in 1..hi /\ c # hi
    BY <1>1
  <2> HIDE DEF F
  <2> QED BY <2>1, <2>2 DEF Reads
<1>8. F[lo] = R[lo]
  <2> HIDE DEF F
  <2> QED BY <1>1, <1>3, <1>7, OneReading
<1> QED BY <1>2, <1>8 DEF Branch, R

-----------------------------------------------------------------------------
(* Splits at a UNION.                                                       *)

(* A token that is rejected is not before where the reading starts.         *)
LEMMA RejectedAhead ==
    ASSUME NEW m, IsMachine(m), NEW hi \in 1..(Len(m.tokens) + 1), NEW lo \in 1..hi,
           ~Reading(m, hi)[lo].ok, Reading(m, hi)[lo].kind = "UnrecognizedToken"
    PROVE  \E r \in lo..Len(m.tokens) : Reading(m, hi)[lo].location = StartOf(r)
<1> DEFINE f == Reading(m, hi)
           Ahead(c) == (~f[c].ok /\ f[c].kind = "UnrecognizedToken")
                          => \E r \in c..Len(m.tokens) : f[c].location = StartOf(r)
           P == {c \in 1..hi : Ahead(c)}
<1>0. hi \in Nat /\ Len(m.tokens) \in Nat
  BY DEF IsMachine
<1>1. f \in [1..hi -> Readings] /\ Reads(m, hi, f)
  BY ReadingIs
<1> HIDE DEF f
<1>2. ASSUME NEW i \in 1..hi, \A j \in (i + 1)..hi : Ahead(j)
      PROVE  Ahead(i)
  <2> SUFFICES ASSUME ~f[i].ok, f[i].kind = "UnrecognizedToken"
               PROVE  \E r \in i..Len(m.tokens) : f[i].location = StartOf(r)
    OBVIOUS
  <2>1. i # hi
    BY <1>1 DEF Reads, Ok
  <2>2. i \in 1..(hi - 1) /\ f[i] = Parsed(m, i, hi, f)
    BY <1>0, <1>1, <2>1 DEF Reads
  <2>3. CASE OkEnds(m, i, hi) = {}
    <3>1. f[i] = Fault(m, i, hi)
      BY <2>2, <2>3 DEF Parsed
    <3>2. m.rejects[i] < hi /\ f[i].location = StartOf(m.rejects[i])
      BY <2>2, <3>1 DEF Fault, Err
    <3>3. m.rejects[i] \in i..Len(m.tokens)
      BY <1>0, <2>2, <3>2 DEF IsMachine
    <3> QED BY <3>2, <3>3
  <2>4. CASE OkEnds(m, i, hi) # {}
    <3>1. PICK e \in (i + 1)..hi : e = First(m, i, hi)
      BY <2>2, <2>4, EndsAre
    <3>2. f[i] = f[e] /\ ~f[e].ok
      BY <2>2, <2>4, <3>1 DEF Parsed, Ok, Err
    <3>3. PICK r \in e..Len(m.tokens) : f[i].location = StartOf(r)
      BY <1>2, <3>1, <3>2
    <3>4. r \in i..Len(m.tokens)
      BY <1>0, <3>1
    <3> QED BY <3>3, <3>4
  <2> QED BY <2>3, <2>4
<1> HIDE DEF Ahead
<1>3. \A i \in 1..hi : (\A j \in (i + 1)..hi : j \in P) => i \in P
  BY <1>2
<1> HIDE DEF P
<1>4. \A i \in 1..hi : i \in P
  BY <1>0, <1>3, Backwards
<1>5. Ahead(lo)
  BY <1>4 DEF P
<1> QED BY <1>5 DEF Ahead, f

(* A prefix in which a token is rejected stays malformed if it is cut       *)
(* further on: a split beyond the rejected token never parses.              *)
LEMMA NoRepairBeyond ==
    ASSUME NEW m, IsMachine(m), NEW u \in 1..Len(m.tokens), m.tokens[u] \notin ClauseStarts,
           NEW lo \in 1..u, Branch(m, lo, u).ok,
           ~Branch(m, lo, Len(m.tokens) + 1).ok,
           Branch(m, lo, Len(m.tokens) + 1).kind = "UnrecognizedToken"
    PROVE  StartOf(u) <= Branch(m, lo, Len(m.tokens) + 1).location
<1> DEFINE n == Len(m.tokens)
           f == Reading(m, u)
           g == Reading(m, n + 1)
           Holds(c) == (f[c].ok /\ ~g[c].ok /\ g[c].kind = "UnrecognizedToken")
                          => StartOf(u) <= g[c].location
           P == {c \in 1..u : Holds(c)}
<1>0. n \in Nat /\ n <= MaxTokens /\ u \in 1..n /\ u \in Nat /\ u # n + 1 /\ MaxTokens \in Nat
      /\ u \in 1..(n + 1) /\ n + 1 \in 1..(n + 1)
  BY BoundAssumption DEF IsMachine
<1>1. Reads(m, u, f) /\ Reads(m, n + 1, g)
  BY <1>0, ReadingIs
<1>2. ASSUME NEW c \in 1..(n + 1), c >= u, ~g[c].ok, g[c].kind = "UnrecognizedToken"
      PROVE  StartOf(u) <= g[c].location
  <2>1. PICK r \in c..n : g[c].location = StartOf(r)
    BY <1>0, <1>2, RejectedAhead
  <2>2. r \in 1..MaxTokens /\ u \in 1..MaxTokens /\ u <= r
    BY <1>0, <1>2
  <2> QED BY <2>1, <2>2, OffsetsGrow
<1>3. \A c \in 1..(u - 1) : /\ c \in 1..n
                            /\ EndsOf(m, c, n + 1) \subseteq (c + 1)..(n + 1)
                            /\ u \in EndsOf(m, c, u) /\ u \notin EndsOf(m, c, n + 1)
                            /\ \A e : e < u => (e \in EndsOf(m, c, u) <=> e \in EndsOf(m, c, n + 1))
  <2> SUFFICES ASSUME NEW c \in 1..(u - 1)
               PROVE  /\ c \in 1..n /\ EndsOf(m, c, n + 1) \subseteq (c + 1)..(n + 1)
                      /\ u \in EndsOf(m, c, u) /\ u \notin EndsOf(m, c, n + 1)
                      /\ \A e : e < u => (e \in EndsOf(m, c, u) <=> e \in EndsOf(m, c, n + 1))
    OBVIOUS
  <2>1. c \in 1..n
    BY <1>0
  <2>2. EndsOf(m, c, n + 1) \subseteq (c + 1)..(n + 1)
    BY <1>0, <2>1, EndsAre
  <2>3. EndsOf(m, c, u) = {i \in (c + 1)..(u - 1) : m.tokens[i] \in ClauseStarts /\ Depth(m.tokens, c + 1)[i] = 0} \cup {u}
    BY TopLevelIs DEF EndsOf
  <2>4. EndsOf(m, c, n + 1) = {i \in (c + 1)..((n + 1) - 1) : m.tokens[i] \in ClauseStarts /\ Depth(m.tokens, c + 1)[i] = 0} \cup {n + 1}
    BY TopLevelIs DEF EndsOf
  <2>5. u \in EndsOf(m, c, u) /\ u \notin EndsOf(m, c, n + 1)
    BY <1>0, <2>3, <2>4
  <2>6. ASSUME NEW e, e < u
        PROVE  e \in EndsOf(m, c, u) <=> e \in EndsOf(m, c, n + 1)
    BY <1>0, <2>1, <2>3, <2>4, <2>6
  <2> HIDE DEF n
  <2> QED BY <2>1, <2>2, <2>5, <2>6
<1> HIDE DEF f, g
<1>4. ASSUME NEW i \in 1..u, \A j \in (i + 1)..u : Holds(j)
      PROVE  Holds(i)
  <2> SUFFICES ASSUME f[i].ok, ~g[i].ok, g[i].kind = "UnrecognizedToken"
               PROVE  StartOf(u) <= g[i].location
    OBVIOUS
  <2>1. CASE i = u
    BY <1>0, <1>2, <2>1
  <2>2. CASE i # u
    <3>1. i \in 1..(u - 1) /\ i \in 1..n /\ i \in 1..(n + 1) /\ i \in 1..((n + 1) - 1)
      BY <1>0, <2>2
    <3>2. f[i] = Parsed(m, i, u, f) /\ g[i] = Parsed(m, i, n + 1, g)
      BY <1>1, <3>1 DEF Reads
    <3>3. OkEnds(m, i, u) # {}
      <4>1. Fault(m, i, u).ok = FALSE
        BY DEF Fault, Err
      <4> QED BY <3>2, <4>1 DEF Parsed
    <3>4. PICK e \in (i + 1)..u : /\ e = First(m, i, u) /\ e \in OkEnds(m, i, u)
                                  /\ \A d \in OkEnds(m, i, u) : e <= d
      BY <1>0, <3>1, <3>3, EndsAre
    <3>5. /\ <<i, e>> \in m.accepts /\ e \in EndsOf(m, i, u)
          /\ ~(m.tokens[i] = "Return" /\ e < u)
          /\ f[e].ok
      BY <3>2, <3>3, <3>4 DEF Parsed, OkEnds, Err
    <3>6. \A d \in OkEnds(m, i, n + 1) : e <= d /\ d # u /\ d \in Int
      <4> SUFFICES ASSUME NEW d \in OkEnds(m, i, n + 1) PROVE e <= d /\ d # u /\ d \in Int
        OBVIOUS
      <4>1. d \in EndsOf(m, i, n + 1) /\ <<i, d>> \in m.accepts
        BY DEF OkEnds
      <4>2. d \in Int /\ d # u
        BY <1>0, <1>3, <3>1, <4>1
      <4>3. d < u => d \in OkEnds(m, i, u)
        BY <1>3, <3>1, <4>1 DEF OkEnds
      <4> QED BY <1>0, <3>4, <4>2, <4>3
    <3>7. CASE e < u
      <4>1. e \in OkEnds(m, i, n + 1)
        BY <1>3, <3>1, <3>5, <3>7 DEF OkEnds
      <4>2. First(m, i, n + 1) = e
        <5> DEFINE d == First(m, i, n + 1)
        <5>1. d \in OkEnds(m, i, n + 1) /\ d <= e
          BY <1>0, <3>1, <4>1, EndsAre
        <5> HIDE DEF d
        <5>2. e <= d /\ d \in Int /\ e \in Int
          BY <1>0, <3>1, <3>4, <3>6, <5>1
        <5>3. d = e
          BY <5>1, <5>2
        <5> QED BY <5>3 DEF d
      <4>3. g[i] = g[e] /\ ~g[e].ok
        BY <3>2, <3>5, <3>7, <4>1, <4>2 DEF Parsed, Ok
      <4>4. Holds(e)
        BY <1>4, <3>4
      <4> QED BY <3>5, <4>3, <4>4
    <3>8. CASE e = u
      <4>1. CASE OkEnds(m, i, n + 1) = {}
        <5>1. g[i] = Fault(m, i, n + 1)
          BY <3>2, <4>1 DEF Parsed
        <5>2. m.rejects[i] < n + 1 /\ g[i].location = StartOf(m.rejects[i])
          BY <5>1 DEF Fault, Err
        <5>3. u <= m.rejects[i] /\ m.rejects[i] \in Int
          BY <3>1, <3>5, <3>8 DEF IsMachine
        <5>4. m.rejects[i] \in 1..MaxTokens /\ u \in 1..MaxTokens
          BY <1>0, <5>2, <5>3
        <5> QED BY <5>2, <5>3, <5>4, OffsetsGrow
      <4>2. CASE OkEnds(m, i, n + 1) # {}
        <5> DEFINE d == First(m, i, n + 1)
        <5>1. d \in (i + 1)..(n + 1) /\ d >= u
          BY <1>0, <3>1, <3>6, <3>8, <4>2, EndsAre
        <5>2. g[i] = g[d] /\ ~g[d].ok
          BY <3>2, <4>2 DEF Parsed, Ok, Err
        <5>3. d \in 1..(n + 1)
          BY <1>0, <3>1, <5>1
        <5> HIDE DEF d
        <5> QED BY <1>2, <5>1, <5>2, <5>3
      <4> QED BY <4>1, <4>2
    <3> QED BY <1>0, <3>4, <3>7, <3>8
  <2> QED BY <2>1, <2>2
<1> HIDE DEF Holds
<1>5. \A i \in 1..u : (\A j \in (i + 1)..u : j \in P) => i \in P
  BY <1>4
<1> HIDE DEF P
<1>6. \A i \in 1..u : i \in P
  BY <1>0, <1>5, Backwards
<1>7. Holds(lo)
  BY <1>6 DEF P
<1>8. lo # u /\ lo # n + 1
  BY <1>0 DEF Branch, Err
<1> QED BY <1>7, <1>8 DEF Holds, Branch, f, g

-----------------------------------------------------------------------------
(* parse_regular_query.                                                     *)

Queries == [ok : {TRUE}, branches : Seq(Seq(Clauses))] \cup Errors

\* Where the branch after the UNION at u starts.
NextBranch(m, u) ==
    IF u + 1 <= Len(m.tokens) /\ m.tokens[u + 1] \in {"All", "Distinct"} THEN u + 2 ELSE u + 1

\* The UNIONs on both sides of which there is a query.
Splits(m, lo, f) ==
    {u \in TopLevelIndices(m.tokens, lo, Len(m.tokens) + 1, {"Union"}) :
        /\ Branch(m, lo, u).ok
        /\ NextBranch(m, u) <= Len(m.tokens)
        /\ f[NextBranch(m, u)].ok}

Cut(m, lo, f) == Min(Splits(m, lo, f))

Whole(m, lo) == Branch(m, lo, Len(m.tokens) + 1)

Divided(m, lo, f) ==
    IF Whole(m, lo).ok THEN Ok(<<Whole(m, lo).branches>>)
    ELSE IF Splits(m, lo, f) = {} THEN Whole(m, lo)
    ELSE Ok(<<Branch(m, lo, Cut(m, lo, f)).branches>> \o f[NextBranch(m, Cut(m, lo, f))].branches)

Divides(m, f) == \A lo \in 1..Len(m.tokens) : f[lo] = Divided(m, lo, f)

Query(m) == CHOOSE f \in [1..Len(m.tokens) -> Queries] : Divides(m, f)

(* A branch is a sequence of clauses or an error.                           *)
LEMMA BranchTyped ==
    ASSUME NEW m, IsMachine(m), NEW hi \in 1..(Len(m.tokens) + 1), NEW lo \in 1..hi
    PROVE  /\ Branch(m, lo, hi) \in Readings
           /\ Branch(m, lo, hi).ok => Branch(m, lo, hi).branches \in Seq(Clauses)
<1>1. Branch(m, lo, hi) \in Readings
  <2>1. Err("UnrecognizedEof", 0) \in Readings
    BY DEF Err, Readings, Errors, ErrorKinds
  <2>2. Reading(m, hi)[lo] \in Readings
    BY ReadingIs
  <2> QED BY <2>1, <2>2 DEF Branch
<1> QED BY <1>1 DEF Readings, Errors

(* A split lies at a UNION, with tokens on its right.                       *)
LEMMA SplitsAre ==
    ASSUME NEW m, IsMachine(m), NEW lo \in 1..Len(m.tokens), NEW f
    PROVE  /\ \A u \in Splits(m, lo, f) :
                /\ u \in lo..Len(m.tokens) /\ m.tokens[u] = "Union" /\ Branch(m, lo, u).ok
                /\ NextBranch(m, u) \in (u + 1)..Len(m.tokens) /\ f[NextBranch(m, u)].ok
           /\ Splits(m, lo, f) # {} => Cut(m, lo, f) \in Splits(m, lo, f)
<1>0. Len(m.tokens) \in Nat
  BY DEF IsMachine
<1>1. ASSUME NEW u \in Splits(m, lo, f)
      PROVE  /\ u \in lo..Len(m.tokens) /\ m.tokens[u] = "Union" /\ Branch(m, lo, u).ok
             /\ NextBranch(m, u) \in (u + 1)..Len(m.tokens) /\ f[NextBranch(m, u)].ok
  <2>1. /\ u \in TopLevelIndices(m.tokens, lo, Len(m.tokens) + 1, {"Union"})
        /\ Branch(m, lo, u).ok /\ NextBranch(m, u) <= Len(m.tokens) /\ f[NextBranch(m, u)].ok
    BY DEF Splits
  <2>2. u \in lo..Len(m.tokens) /\ m.tokens[u] = "Union"
    BY <1>0, <2>1, TopLevelIs
  <2>3. NextBranch(m, u) \in {u + 1, u + 2}
    BY DEF NextBranch
  <2> QED BY <1>0, <2>1, <2>2, <2>3
<1>2. ASSUME Splits(m, lo, f) # {} PROVE Cut(m, lo, f) \in Splits(m, lo, f)
  <2>1. Splits(m, lo, f) \subseteq Nat
    BY <1>0, <1>1
  <2> QED BY <1>2, <2>1, MinIsLeast DEF Cut
<1> QED BY <1>1, <1>2

(* Branches and the branches after them are branches.                       *)
LEMMA DividedTyped ==
    ASSUME NEW m, IsMachine(m), NEW lo \in 1..Len(m.tokens),
           NEW f, \A e \in (lo + 1)..Len(m.tokens) : f[e] \in Queries
    PROVE  Divided(m, lo, f) \in Queries
<1>0. Len(m.tokens) \in Nat /\ lo \in 1..(Len(m.tokens) + 1) /\ Len(m.tokens) + 1 \in 1..(Len(m.tokens) + 1)
  BY DEF IsMachine
<1>1. /\ Whole(m, lo) \in Readings
      /\ Whole(m, lo).ok => Whole(m, lo).branches \in Seq(Clauses)
  BY <1>0, BranchTyped DEF Whole
<1>2. CASE Whole(m, lo).ok
  <2>1. <<Whole(m, lo).branches>> \in Seq(Seq(Clauses))
    BY <1>1, <1>2
  <2> QED BY <1>2, <2>1 DEF Divided, Ok, Queries
<1>3. CASE ~Whole(m, lo).ok /\ Splits(m, lo, f) = {}
  BY <1>1, <1>3 DEF Divided, Readings, Queries
<1>4. CASE ~Whole(m, lo).ok /\ Splits(m, lo, f) # {}
  <2>1. PICK u \in Splits(m, lo, f) : u = Cut(m, lo, f)
    BY <1>4, SplitsAre
  <2>2. PICK e \in (u + 1)..Len(m.tokens) : e = NextBranch(m, u) /\ f[e].ok
    BY SplitsAre
  <2>3. u \in lo..Len(m.tokens) /\ Branch(m, lo, u).ok
    BY SplitsAre
  <2>4. e \in (lo + 1)..Len(m.tokens) /\ u \in 1..(Len(m.tokens) + 1) /\ lo \in 1..u
    BY <1>0, <2>2, <2>3
  <2>5. f[e].branches \in Seq(Seq(Clauses))
    BY <2>2, <2>4 DEF Queries, Errors
  <2>6. Branch(m, lo, u).branches \in Seq(Clauses)
    BY <2>3, <2>4, BranchTyped
  <2>7. <<Branch(m, lo, u).branches>> \o f[e].branches \in Seq(Seq(Clauses))
    BY <2>5, <2>6
  <2>8. Divided(m, lo, f) = Ok(<<Branch(m, lo, u).branches>> \o f[e].branches)
    BY <1>4, <2>1, <2>2 DEF Divided
  <2> QED BY <2>7, <2>8 DEF Ok, Queries
<1> QED BY <1>2, <1>3, <1>4

(* Only later branches matter.                                              *)
LEMMA DividedFrom ==
    ASSUME NEW m, IsMachine(m), NEW lo \in 1..Len(m.tokens),
           NEW f, NEW g, \A e \in (lo + 1)..Len(m.tokens) : f[e] = g[e]
    PROVE  Splits(m, lo, f) = Splits(m, lo, g) /\ Divided(m, lo, f) = Divided(m, lo, g)
<1>0. Len(m.tokens) \in Nat
  BY DEF IsMachine
<1>1. ASSUME NEW u \in TopLevelIndices(m.tokens, lo, Len(m.tokens) + 1, {"Union"}),
             NextBranch(m, u) <= Len(m.tokens)
      PROVE  f[NextBranch(m, u)] = g[NextBranch(m, u)]
  <2>1. u \in lo..Len(m.tokens)
    BY <1>0, TopLevelIs
  <2>2. NextBranch(m, u) \in {u + 1, u + 2}
    BY DEF NextBranch
  <2> QED BY <1>0, <1>1, <2>1, <2>2
<1>2. Splits(m, lo, f) = Splits(m, lo, g)
  BY <1>1 DEF Splits
<1>3. Splits(m, lo, f) # {} => f[NextBranch(m, Cut(m, lo, f))] = g[NextBranch(m, Cut(m, lo, f))]
  <2> SUFFICES ASSUME Splits(m, lo, f) # {}
               PROVE  f[NextBranch(m, Cut(m, lo, f))] = g[NextBranch(m, Cut(m, lo, f))]
    OBVIOUS
  <2>1. PICK u \in Splits(m, lo, f) : u = Cut(m, lo, f)
    BY SplitsAre
  <2>2. /\ u \in TopLevelIndices(m.tokens, lo, Len(m.tokens) + 1, {"Union"})
        /\ NextBranch(m, u) <= Len(m.tokens)
    BY DEF Splits
  <2> QED BY <1>1, <2>1, <2>2
<1>4. Cut(m, lo, f) = Cut(m, lo, g)
  BY <1>2 DEF Cut
<1> QED BY <1>2, <1>3, <1>4 DEF Divided

(* There is one way to divide the tokens.                                   *)
LEMMA OneQuery ==
    ASSUME NEW m, IsMachine(m), NEW f, NEW g, Divides(m, f), Divides(m, g)
    PROVE  \A lo \in 1..Len(m.tokens) : f[lo] = g[lo]
<1> DEFINE n == Len(m.tokens)
           P == {lo \in 1..n : f[lo] = g[lo]}
<1>0. n \in Nat
  BY DEF IsMachine
<1>1. \A i \in 1..n : (\A j \in (i + 1)..n : j \in P) => i \in P
  <2> SUFFICES ASSUME NEW i \in 1..n, \A j \in (i + 1)..n : f[j] = g[j]
               PROVE  f[i] = g[i]
    OBVIOUS
  <2>1. Divided(m, i, f) = Divided(m, i, g)
    BY DividedFrom
  <2> QED BY <2>1 DEF Divides
<1> HIDE DEF P
<1>2. \A i \in 1..n : i \in P
  BY <1>0, <1>1, Backwards
<1> QED BY <1>2 DEF P

(* There is a way to divide them.                                           *)
LEMMA QueryExists ==
    ASSUME NEW m, IsMachine(m)
    PROVE  \E f \in [1..Len(m.tokens) -> Queries] : Divides(m, f)
<1> DEFINE n == Len(m.tokens)
           V == Queries
           G == [i \in 1..n |-> [h \in [(i + 1)..n -> V] |-> Divided(m, i, h)]]
<1>0. n \in Nat
  BY DEF IsMachine
<1>1. \A i \in 1..n : \A h \in [(i + 1)..n -> V] : Divided(m, i, h) \in V
  BY DividedTyped
<1> HIDE DEF V
<1>2. \A i \in 1..n : G[i] \in [[(i + 1)..n -> V] -> V]
  BY <1>1
<1>3. \A i \in 1..n : \A h \in [(i + 1)..n -> V] : G[i][h] = Divided(m, i, h)
  OBVIOUS
<1> HIDE DEF G
<1>4. PICK f \in [1..n -> V] : Solves(n, V, G, f)
  BY <1>0, <1>2, LookAhead DEF LooksAhead
<1>5. ASSUME NEW i \in 1..n PROVE f[i] = Divided(m, i, f)
  <2>1. PICK h \in [(i + 1)..n -> V] : f[i] = G[i][h] /\ \A j \in (i + 1)..n : h[j] = f[j]
    BY <1>4 DEF Solves
  <2>2. Divided(m, i, h) = Divided(m, i, f)
    BY <2>1, DividedFrom
  <2> QED BY <2>1, <2>2, <1>3
<1> QED BY <1>5 DEF Divides, V

LEMMA QueryIs ==
    ASSUME NEW m, IsMachine(m)
    PROVE  Query(m) \in [1..Len(m.tokens) -> Queries] /\ Divides(m, Query(m))
BY QueryExists DEF Query

\* The UNIONs that parse_regular_query can split at, and what it makes of them.
SplitsTried(lo, pruning, f) ==
    LET unsplit == SingleQuery(lo, Size + 1, pruning)
    IN  {u \in TopLevelIndices(Tokens, lo, Size + 1, {"Union"}) :
            /\ ~(pruning /\ Pruned(u, unsplit))
            /\ SingleQuery(lo, u, pruning).ok
            /\ RightStart(u) <= Size
            /\ f[RightStart(u)].ok}

Tried(lo, pruning, f) ==
    LET unsplit == SingleQuery(lo, Size + 1, pruning)
        u == Min(SplitsTried(lo, pruning, f))
    IN  IF unsplit.ok THEN Ok(<<unsplit.branches>>)
        ELSE IF SplitsTried(lo, pruning, f) = {} THEN unsplit
        ELSE Ok(<<SingleQuery(lo, u, pruning).branches>> \o f[RightStart(u)].branches)

(* The splits that are skipped are splits that do not parse.                *)
LEMMA TriedIsDivided ==
    ASSUME TypeInv, NEW lo \in 1..Size, NEW pruning \in BOOLEAN, NEW f
    PROVE  Tried(lo, pruning, f) = Divided(Machine, lo, f)
<1> DEFINE m == Machine
           unsplit == SingleQuery(lo, Size + 1, pruning)
           top == TopLevelIndices(Tokens, lo, Size + 1, {"Union"})
<1>1. /\ IsMachine(m) /\ Len(m.tokens) = Size /\ m.tokens = Tokens /\ Size \in 0..MaxTokens
      /\ MaxTokens \in Nat
  BY MachineTyped, TokensAre, BoundAssumption DEF Machine
<1>2. unsplit = Whole(m, lo)
  <2>1. Size + 1 \in 1..(Size + 1) /\ lo \in 1..(Size + 1)
    BY <1>1
  <2> QED BY <1>1, <2>1, SingleQueryIsBranch DEF Whole
<1>3. \A u \in top : /\ u \in lo..Size /\ Tokens[u] = "Union"
                     /\ SingleQuery(lo, u, pruning) = Branch(m, lo, u)
                     /\ RightStart(u) = NextBranch(m, u)
  <2> SUFFICES ASSUME NEW u \in top
               PROVE  /\ u \in lo..Size /\ Tokens[u] = "Union"
                      /\ SingleQuery(lo, u, pruning) = Branch(m, lo, u)
                      /\ RightStart(u) = NextBranch(m, u)
    OBVIOUS
  <2>1. u \in lo..Size /\ Tokens[u] = "Union"
    BY <1>1, TopLevelIs
  <2>2. u \in 1..(Size + 1) /\ lo \in 1..u
    BY <1>1, <2>1
  <2>3. SingleQuery(lo, u, pruning) = Branch(m, lo, u)
    BY <2>2, SingleQueryIsBranch
  <2>4. RightStart(u) = NextBranch(m, u)
    BY <1>1 DEF RightStart, NextBranch
  <2> QED BY <2>1, <2>3, <2>4
<1>4. CASE unsplit.ok
  BY <1>2, <1>4 DEF Tried, Divided
<1>5. CASE ~unsplit.ok
  <2>1. ASSUME NEW u \in top, Branch(m, lo, u).ok
        PROVE  ~Pruned(u, unsplit)
    <3> SUFFICES ASSUME Pruned(u, unsplit) PROVE FALSE
      OBVIOUS
    <3>1. unsplit.kind = "UnrecognizedToken" /\ StartOf(u) > unsplit.location
      BY DEF Pruned
    <3>2. u \in lo..Size /\ Tokens[u] = "Union"
      BY <1>3
    <3>3. u \in 1..Len(m.tokens) /\ lo \in 1..u /\ m.tokens[u] \notin ClauseStarts /\ u \in 1..MaxTokens
      BY <1>1, <3>2 DEF ClauseStarts
    <3>4. StartOf(u) <= unsplit.location
      <4> HIDE DEF m, unsplit
      <4> QED BY <1>1, <1>2, <1>5, <2>1, <3>1, <3>3, NoRepairBeyond DEF Whole
    <3>5. StartOf(u) \in Int
      BY <3>3, OffsetAssumption
    <3>6. unsplit.location \in Int
      <4>1. Size + 1 \in 1..(Len(m.tokens) + 1) /\ lo \in 1..(Size + 1)
        BY <1>1
      <4>2. Whole(m, lo) \in Readings
        BY <1>1, <4>1, BranchTyped DEF Whole
      <4> HIDE DEF unsplit, m
      <4> QED BY <1>2, <1>5, <4>2 DEF Readings, Errors
    <3> HIDE DEF unsplit
    <3> QED BY <3>1, <3>4, <3>5, <3>6
  <2>2. SplitsTried(lo, pruning, f) = Splits(m, lo, f)
    <3>1. SplitsTried(lo, pruning, f) =
            {u \in top : /\ ~(pruning /\ Pruned(u, unsplit))
                         /\ SingleQuery(lo, u, pruning).ok
                         /\ RightStart(u) <= Size
                         /\ f[RightStart(u)].ok}
      BY DEF SplitsTried
    <3>2. Splits(m, lo, f) = {u \in top : /\ Branch(m, lo, u).ok
                                          /\ NextBranch(m, u) <= Size
                                          /\ f[NextBranch(m, u)].ok}
      BY <1>1 DEF Splits
    <3> HIDE DEF top, unsplit, m
    <3> QED BY <1>3, <2>1, <3>1, <3>2
  <2>3. Tried(lo, pruning, f) =
          IF Splits(m, lo, f) = {} THEN unsplit
          ELSE Ok(<<SingleQuery(lo, Cut(m, lo, f), pruning).branches>> \o f[RightStart(Cut(m, lo, f))].branches)
    BY <1>5, <2>2 DEF Tried, Cut
  <2>4. Divided(m, lo, f) =
          IF Splits(m, lo, f) = {} THEN unsplit
          ELSE Ok(<<Branch(m, lo, Cut(m, lo, f)).branches>> \o f[NextBranch(m, Cut(m, lo, f))].branches)
    BY <1>2, <1>5 DEF Divided
  <2>5. Splits(m, lo, f) # {} => Cut(m, lo, f) \in top
    <3>1. Splits(m, lo, f) # {} => Cut(m, lo, f) \in Splits(m, lo, f)
      BY <1>1, SplitsAre
    <3> QED BY <1>1, <3>1 DEF Splits
  <2>6. ASSUME Splits(m, lo, f) # {}
        PROVE  /\ SingleQuery(lo, Cut(m, lo, f), pruning) = Branch(m, lo, Cut(m, lo, f))
               /\ RightStart(Cut(m, lo, f)) = NextBranch(m, Cut(m, lo, f))
    <3> DEFINE u == Cut(m, lo, f)
    <3>1. u \in top
      BY <2>5, <2>6
    <3> HIDE DEF m, top, u
    <3> QED BY <1>3, <3>1 DEF u
  <2> HIDE DEF top, unsplit
  <2> QED BY <2>3, <2>4, <2>6
<1> QED BY <1>4, <1>5

\* The search over every branch.
ParseFrom(pruning) == CHOOSE parse : parse = [lo \in 1..Size |-> Tried(lo, pruning, parse)]

(* parse_regular_query divides the tokens.                                  *)
LEMMA RegularQueryIsQuery ==
    ASSUME TypeInv, Size > 0, NEW pruning \in BOOLEAN
    PROVE  RegularQuery(pruning) = Query(Machine)[1]
<1>1. IsMachine(Machine) /\ Len(Machine.tokens) = Size /\ Size \in Nat
  BY MachineTyped, TokensAre
<1>2. RegularQuery(pruning) = ParseFrom(pruning)[1]
  BY DEF RegularQuery, ParseFrom, Tried, SplitsTried
<1> DEFINE Q == Query(Machine)
           F == ParseFrom(pruning)
           Step(f) == [lo \in 1..Size |-> Tried(lo, pruning, f)]
<1>3. Q \in [1..Size -> Queries] /\ Divides(Machine, Q)
  BY <1>1, QueryIs
<1> HIDE DEF Q
<1>4. ASSUME NEW f
      PROVE  \A lo \in 1..Size : Step(f)[lo] = Divided(Machine, lo, f)
  BY TriedIsDivided
<1>5. Q = Step(Q)
  <2>1. \A lo \in 1..Size : Q[lo] = Step(Q)[lo]
    <3> HIDE DEF Step
    <3> QED BY <1>1, <1>3, <1>4 DEF Divides
  <2> QED BY <2>1, <1>3
<1>6. F = Step(F)
  <2>1. \E f : f = Step(f)
    BY <1>5
  <2>2. F = CHOOSE f : f = Step(f)
    BY DEF ParseFrom
  <2> HIDE DEF F, Step
  <2> QED BY <2>1, <2>2
<1>7. Divides(Machine, F)
  <2> HIDE DEF F, Step
  <2> QED BY <1>1, <1>4, <1>6 DEF Divides
<1>8. F[1] = Q[1]
  <2>1. 1 \in 1..Size
    BY <1>1
  <2> HIDE DEF F
  <2> QED BY <1>1, <1>3, <1>7, <2>1, OneQuery
<1> QED BY <1>2, <1>8 DEF Q

-----------------------------------------------------------------------------
(* parse_program, with short cuts or without.                               *)

Outcome ==
    IF input = <<>> THEN Ok(<<>>)
    ELSE IF Size = 0 THEN Err("UnrecognizedEof", StartOf(1))
    ELSE IF ~Query(Machine)[1].ok /\ standalone THEN Ok(<<<<[start |-> 1, end |-> Size + 1]>>>>)
    ELSE Query(Machine)[1]

(* Both searches come to the same outcome.                                  *)
LEMMA ProgramIsOutcome ==
    ASSUME TypeInv, NEW pruning \in BOOLEAN
    PROVE  Program(pruning) = Outcome
<1>1. Size \in Nat
  BY TokensAre
<1>2. CASE input = <<>> \/ Size = 0
  BY <1>2 DEF Program, Outcome
<1>3. CASE ~(input = <<>> \/ Size = 0)
  <2>1. RegularQuery(pruning) = Query(Machine)[1]
    BY <1>1, <1>3, RegularQueryIsQuery
  <2> QED BY <1>3, <2>1 DEF Program, Outcome
<1> QED BY <1>2, <1>3

Inv == TypeInv /\ (result = Pending \/ result = Outcome)

(* What parse_program is given is an input and a clause parser, and what it *)
(* returns is their outcome.                                                *)
LEMMA Invariant == Spec => []Inv
<1>1. Init => Inv
  <2> SUFFICES ASSUME Init PROVE Inv
    OBVIOUS
  <2>1. PICK n \in 0..MaxTokens : input \in [1..n -> Alphabet]
    BY DEF Init
  <2>2. input \in Seq(TokenClass) /\ Len(input) <= MaxTokens
    BY <2>1, BoundAssumption, AlphabetAssumption
  <2> QED BY <2>2 DEF Init, Inv, TypeInv
<1>2. Inv /\ [Next]_vars => Inv'
  <2> SUFFICES ASSUME Inv, [Next]_vars PROVE Inv'
    OBVIOUS
  <2>1. UNCHANGED <<input, grammar, userErrors, standalone>>
    BY DEF Next, ParseProgram, Returned, vars
  <2>2. TypeInv'
    BY <2>1 DEF Inv, TypeInv
  <2>3. Outcome' = Outcome
    <3>1. Tokens' = Tokens
      BY <2>1 DEF Tokens, Terminated
    <3>2. Size' = Size /\ Machine' = Machine
      BY <2>1, <3>1 DEF Size, Machine
    <3> QED BY <2>1, <3>2 DEF Outcome
  <2>4. CASE ParseProgram
    <3>1. result' = Outcome
      BY <2>4, ProgramIsOutcome DEF ParseProgram, Inv
    <3> QED BY <2>2, <2>3, <3>1 DEF Inv
  <2>5. CASE result' = result
    <3>1. Pending' = Pending
      BY DEF Pending
    <3> QED BY <2>2, <2>3, <2>5, <3>1 DEF Inv
  <2> QED BY <2>4, <2>5 DEF Next, Returned, vars
<1> QED BY <1>1, <1>2, PTL DEF Spec

(* Giving up candidates and splits on the strength of a rejected token      *)
(* changes neither the query nor the error that parse_program returns,      *)
(* whatever the input and whatever the clause parser does with it.          *)
THEOREM PruningIsSound == Spec => []PruningPreservesResult
<1>1. Inv => PruningPreservesResult
  BY ProgramIsOutcome DEF Inv, PruningPreservesResult
<1> QED BY <1>1, Invariant, PTL

-----------------------------------------------------------------------------
(* What an accepted query is made of.                                       *)

\* A clause before other clauses.
LEMMA Prepended ==
    ASSUME NEW S, NEW x \in S, NEW t \in Seq(S)
    PROVE  /\ <<x>> \o t \in Seq(S) /\ Len(<<x>> \o t) = Len(t) + 1 /\ Len(t) \in Nat
           /\ (<<x>> \o t)[1] = x
           /\ \A k \in 1..Len(t) : (<<x>> \o t)[k + 1] = t[k]
OBVIOUS

Ending(clauses) == clauses[Len(clauses)].end

\* Clauses that meet, of which only the last is a RETURN.
Meets(m, clauses) ==
    /\ clauses \in Seq(Clauses)
    /\ \A k \in 2..Len(clauses) : clauses[k].start = clauses[k - 1].end
    /\ \A k \in 1..Len(clauses) : m.tokens[clauses[k].start] = "Return" => k = Len(clauses)

\* Clauses that are all of c..(hi - 1).
Fills(m, c, hi, clauses) ==
    /\ Meets(m, clauses)
    /\ IF c = hi THEN clauses = <<>>
       ELSE clauses # <<>> /\ clauses[1].start = c /\ Ending(clauses) = hi

(* A clause that ends where clauses start fills the branch with them.       *)
LEMMA FilledFurther ==
    ASSUME NEW m, IsMachine(m), NEW hi \in 1..(Len(m.tokens) + 1), NEW c \in 1..(hi - 1),
           NEW e \in (c + 1)..hi, NEW t, Fills(m, e, hi, t),
           m.tokens[c] = "Return" => e = hi
    PROVE  Fills(m, c, hi, <<[start |-> c, end |-> e]>> \o t)
<1> DEFINE x == [start |-> c, end |-> e]
           s == <<x>> \o t
<1>0. Len(m.tokens) \in Nat /\ c \in Int /\ e \in Int /\ hi \in Int /\ c # hi /\ c < e
  BY DEF IsMachine
<1>1. t \in Seq(Clauses) /\ x \in Clauses /\ x.start = c /\ x.end = e
  BY <1>0 DEF Fills, Meets, Clauses
<1> HIDE DEF x
<1>2. /\ s \in Seq(Clauses) /\ Len(s) = Len(t) + 1 /\ Len(t) \in Nat
      /\ s[1] = x /\ \A k \in 1..Len(t) : s[k + 1] = t[k]
  BY <1>1, Prepended
<1> HIDE DEF s
<1>3. t = <<>> <=> Len(t) = 0
  BY <1>1
<1>4. CASE e = hi
  <2>1. Len(t) = 0 /\ Len(s) = 1
    BY <1>2, <1>3, <1>4 DEF Fills
  <2>2. Meets(m, s)
    BY <1>2, <2>1 DEF Meets
  <2>3. s # <<>> /\ s[1].start = c /\ Ending(s) = hi
    <3>1. Ending(s) = s[1].end
      BY <2>1 DEF Ending
    <3>2. s # <<>>
      BY <1>2, <2>1
    <3> QED BY <1>1, <1>2, <1>4, <3>1, <3>2
  <2> QED BY <1>0, <2>2, <2>3 DEF Fills, s, x
<1>5. CASE e # hi
  <2>1. /\ Len(t) >= 1 /\ t[1].start = e /\ t[Len(t)].end = hi
        /\ \A k \in 2..Len(t) : t[k].start = t[k - 1].end
        /\ \A k \in 1..Len(t) : m.tokens[t[k].start] = "Return" => k = Len(t)
    BY <1>2, <1>3, <1>5 DEF Fills, Meets, Ending
  <2>2. s[2] = t[1] /\ s[Len(s)] = t[Len(t)]
    BY <1>2, <2>1, SMTT(30)
  <2>3. \A k \in 2..Len(s) : s[k].start = s[k - 1].end
    <3> SUFFICES ASSUME NEW k \in 2..Len(s) PROVE s[k].start = s[k - 1].end
      OBVIOUS
    <3>1. CASE k = 2
      BY <1>1, <1>2, <2>1, <2>2, <3>1
    <3>2. CASE k > 2
      <4>1. PICK j \in 2..Len(t) : k = j + 1
        BY <1>2, <3>2
      <4>2. j \in 1..Len(t) /\ j - 1 \in 1..Len(t) /\ k - 1 = (j - 1) + 1
        BY <1>2, <4>1
      <4> QED BY <1>2, <2>1, <4>1, <4>2
    <3> QED BY <3>1, <3>2
  <2>4. \A k \in 1..Len(s) : m.tokens[s[k].start] = "Return" => k = Len(s)
    <3> SUFFICES ASSUME NEW k \in 1..Len(s), m.tokens[s[k].start] = "Return" PROVE k = Len(s)
      OBVIOUS
    <3>1. k # 1
      BY <1>1, <1>2, <1>5
    <3>2. PICK j \in 1..Len(t) : k = j + 1
      BY <1>2, <3>1
    <3> QED BY <1>2, <2>1, <3>2
  <2>5. Meets(m, s)
    BY <1>2, <2>3, <2>4 DEF Meets
  <2>6. s # <<>> /\ s[1].start = c /\ Ending(s) = hi
    <3>1. Ending(s) = hi
      BY <2>1, <2>2 DEF Ending
    <3>2. s # <<>>
      BY <1>2, <2>1
    <3> QED BY <1>1, <1>2, <3>1, <3>2
  <2> QED BY <1>0, <2>5, <2>6 DEF Fills, s, x
<1> QED BY <1>4, <1>5

(* What is read of a branch fills it.                                       *)
LEMMA ReadingFills ==
    ASSUME NEW m, IsMachine(m), NEW hi \in 1..(Len(m.tokens) + 1), NEW lo \in 1..hi,
           Reading(m, hi)[lo].ok
    PROVE  Fills(m, lo, hi, Reading(m, hi)[lo].branches)
<1> DEFINE f == Reading(m, hi)
           Holds(c) == f[c].ok => Fills(m, c, hi, f[c].branches)
           P == {c \in 1..hi : Holds(c)}
<1>0. hi \in Nat /\ Len(m.tokens) \in Nat
  BY DEF IsMachine
<1>1. Reads(m, hi, f)
  BY ReadingIs
<1> HIDE DEF f
<1>2. ASSUME NEW i \in 1..hi, \A j \in (i + 1)..hi : Holds(j)
      PROVE  Holds(i)
  <2> SUFFICES ASSUME f[i].ok PROVE Fills(m, i, hi, f[i].branches)
    OBVIOUS
  <2>1. CASE i = hi
    <3>1. f[i].branches = <<>>
      BY <1>1, <2>1 DEF Reads, Ok
    <3> QED BY <2>1, <3>1 DEF Fills, Meets
  <2>2. CASE i # hi
    <3>1. i \in 1..(hi - 1) /\ f[i] = Parsed(m, i, hi, f)
      BY <1>0, <1>1, <2>2 DEF Reads
    <3>2. OkEnds(m, i, hi) # {}
      <4>1. Fault(m, i, hi).ok = FALSE
        BY DEF Fault, Err
      <4> QED BY <3>1, <4>1 DEF Parsed
    <3>3. PICK e \in (i + 1)..hi : e = First(m, i, hi)
      BY <3>1, <3>2, EndsAre
    <3>4. /\ f[e].ok /\ ~(m.tokens[i] = "Return" /\ e < hi)
          /\ f[i] = Ok(<<[start |-> i, end |-> e]>> \o f[e].branches)
      BY <3>1, <3>2, <3>3 DEF Parsed, Err
    <3>5. Fills(m, e, hi, f[e].branches)
      BY <1>2, <3>3, <3>4
    <3>6. m.tokens[i] = "Return" => e = hi
      BY <1>0, <3>3, <3>4
    <3>7. Fills(m, i, hi, <<[start |-> i, end |-> e]>> \o f[e].branches)
      BY <3>1, <3>5, <3>6, FilledFurther
    <3> QED BY <3>4, <3>7 DEF Ok
  <2> QED BY <2>1, <2>2
<1> HIDE DEF Holds
<1>3. \A i \in 1..hi : (\A j \in (i + 1)..hi : j \in P) => i \in P
  BY <1>2
<1> HIDE DEF P
<1>4. \A i \in 1..hi : i \in P
  BY <1>0, <1>3, Backwards
<1>5. Holds(lo)
  BY <1>4 DEF P
<1> QED BY <1>5 DEF Holds, f

\* Of two branches, the second starts past the UNION that follows the first.
Joined(m, left, right) ==
    /\ m.tokens[Ending(left)] = "Union"
    /\ \/ right[1].start = Ending(left) + 1
       \/ /\ right[1].start = Ending(left) + 2
          /\ m.tokens[Ending(left) + 1] \in {"All", "Distinct"}

\* Branches that are all of the tokens from lo, but for what joins them.
Covered(m, lo, branches) ==
    /\ branches \in Seq(Seq(Clauses)) /\ branches # <<>>
    /\ \A b \in 1..Len(branches) : Meets(m, branches[b]) /\ branches[b] # <<>>
    /\ \A b \in 2..Len(branches) : Joined(m, branches[b - 1], branches[b])
    /\ branches[1][1].start = lo
    /\ Ending(branches[Len(branches)]) = Len(m.tokens) + 1

(* A branch before a UNION and the branches after it cover the tokens.      *)
LEMMA CoveredFurther ==
    ASSUME NEW m, IsMachine(m), NEW lo \in 1..Len(m.tokens), NEW u \in lo..Len(m.tokens),
           m.tokens[u] = "Union", lo # u, NEW left, Fills(m, lo, u, left),
           NEW rest, Covered(m, NextBranch(m, u), rest)
    PROVE  Covered(m, lo, <<left>> \o rest)
<1> DEFINE s == <<left>> \o rest
           n == Len(m.tokens)
<1>0. n \in Nat /\ u \in Int
  BY DEF IsMachine
<1>1. /\ left \in Seq(Clauses) /\ Meets(m, left) /\ left # <<>>
      /\ left[1].start = lo /\ Ending(left) = u
  BY DEF Fills, Meets
<1>2. /\ rest \in Seq(Seq(Clauses)) /\ rest # <<>>
      /\ rest[1][1].start = NextBranch(m, u) /\ Ending(rest[Len(rest)]) = n + 1
  BY DEF Covered
<1>3. \A b \in 1..Len(rest) : Meets(m, rest[b]) /\ rest[b] # <<>>
  BY DEF Covered
<1>4. \A b \in 2..Len(rest) : Joined(m, rest[b - 1], rest[b])
  BY DEF Covered
<1>5. /\ s \in Seq(Seq(Clauses)) /\ Len(s) = Len(rest) + 1 /\ Len(rest) \in Nat
      /\ s[1] = left /\ \A k \in 1..Len(rest) : s[k + 1] = rest[k]
  <2> DEFINE S == Seq(Clauses)
  <2>1. left \in S /\ rest \in Seq(S)
    BY <1>1, <1>2
  <2> HIDE DEF S
  <2>2. /\ s \in Seq(S) /\ Len(s) = Len(rest) + 1 /\ Len(rest) \in Nat
        /\ s[1] = left /\ \A k \in 1..Len(rest) : s[k + 1] = rest[k]
    BY <2>1, Prepended
  <2> QED BY <2>2 DEF S
<1> HIDE DEF s, n
<1>6. Len(rest) >= 1
  BY <1>2, <1>5
<1>7. s[2] = rest[1] /\ s[Len(s)] = rest[Len(rest)]
  <2>1. 1 \in 1..Len(rest) /\ Len(rest) \in 1..Len(rest) /\ 2 = 1 + 1
    BY <1>5, <1>6
  <2>2. s[1 + 1] = rest[1] /\ s[Len(rest) + 1] = rest[Len(rest)]
    BY <1>5, <2>1
  <2> QED BY <1>5, <2>1, <2>2
<1>8. Joined(m, left, rest[1])
  <2>1. \/ NextBranch(m, u) = u + 1
        \/ NextBranch(m, u) = u + 2 /\ m.tokens[u + 1] \in {"All", "Distinct"}
    BY DEF NextBranch
  <2> QED BY <1>1, <1>2, <2>1 DEF Joined
<1>9. \A b \in 1..Len(s) : Meets(m, s[b]) /\ s[b] # <<>>
  <2> SUFFICES ASSUME NEW b \in 1..Len(s) PROVE Meets(m, s[b]) /\ s[b] # <<>>
    OBVIOUS
  <2>1. b = 1 \/ \E k \in 1..Len(rest) : b = k + 1
    BY <1>5
  <2> QED BY <1>1, <1>3, <1>5, <2>1
<1>10. \A b \in 2..Len(s) : Joined(m, s[b - 1], s[b])
  <2> SUFFICES ASSUME NEW b \in 2..Len(s) PROVE Joined(m, s[b - 1], s[b])
    OBVIOUS
  <2>1. CASE b = 2
    <3>1. b - 1 = 1
      BY <2>1
    <3> QED BY <1>5, <1>7, <1>8, <2>1, <3>1
  <2>2. CASE b # 2
    <3>1. PICK k \in 2..Len(rest) : b = k + 1
      BY <1>5, <2>2
    <3>2. k \in 1..Len(rest) /\ k - 1 \in 1..Len(rest) /\ b - 1 = (k - 1) + 1
      BY <1>5, <3>1
    <3>3. s[b] = rest[k] /\ s[b - 1] = rest[k - 1]
      BY <1>5, <3>1, <3>2
    <3> QED BY <1>4, <3>1, <3>3
  <2> QED BY <2>1, <2>2
<1>11. s # <<>>
  BY <1>5, <1>6
<1> QED BY <1>1, <1>2, <1>5, <1>7, <1>9, <1>10, <1>11 DEF Covered, s, n

(* An accepted query covers the tokens.                                     *)
LEMMA QueryCovers ==
    ASSUME NEW m, IsMachine(m), NEW lo \in 1..Len(m.tokens), Query(m)[lo].ok
    PROVE  Covered(m, lo, Query(m)[lo].branches)
<1> DEFINE n == Len(m.tokens)
           f == Query(m)
           Holds(c) == f[c].ok => Covered(m, c, f[c].branches)
           P == {c \in 1..n : Holds(c)}
<1>0. n \in Nat
  BY DEF IsMachine
<1>1. Divides(m, f)
  BY QueryIs
<1> HIDE DEF f
<1>2. ASSUME NEW i \in 1..n, \A j \in (i + 1)..n : Holds(j)
      PROVE  Holds(i)
  <2> SUFFICES ASSUME f[i].ok PROVE Covered(m, i, f[i].branches)
    OBVIOUS
  <2>1. f[i] = Divided(m, i, f)
    BY <1>1 DEF Divides
  <2>2. CASE Whole(m, i).ok
    <3>1. f[i].branches = <<Whole(m, i).branches>>
      BY <2>1, <2>2 DEF Divided, Ok
    <3>2. n + 1 \in 1..(n + 1) /\ i \in 1..(n + 1) /\ i # n + 1
      BY <1>0
    <3>3. Reading(m, n + 1)[i].ok /\ Whole(m, i) = Reading(m, n + 1)[i]
      BY <2>2, <3>2 DEF Whole, Branch
    <3>4. PICK s : s = Whole(m, i).branches
      OBVIOUS
    <3>5. Fills(m, i, n + 1, s)
      BY <3>2, <3>3, <3>4, ReadingFills
    <3>6. s \in Seq(Clauses) /\ Meets(m, s) /\ s # <<>> /\ s[1].start = i /\ Ending(s) = n + 1
      BY <3>2, <3>5 DEF Fills, Meets
    <3>7. /\ <<s>> \in Seq(Seq(Clauses)) /\ <<s>> # <<>> /\ Len(<<s>>) = 1 /\ <<s>>[1] = s
      BY <3>6
    <3>8. Covered(m, i, <<s>>)
      BY <3>6, <3>7 DEF Covered
    <3> QED BY <3>1, <3>4, <3>8
  <2>3. CASE ~Whole(m, i).ok
    <3>1. Splits(m, i, f) # {}
      BY <2>1, <2>3 DEF Divided
    <3>2. PICK u \in Splits(m, i, f) : u = Cut(m, i, f)
      BY <3>1, SplitsAre
    <3>3. /\ u \in i..n /\ m.tokens[u] = "Union" /\ Branch(m, i, u).ok
          /\ NextBranch(m, u) \in (u + 1)..n /\ f[NextBranch(m, u)].ok
      BY SplitsAre
    <3>4. NextBranch(m, u) \in (i + 1)..n /\ u \in 1..(n + 1) /\ i \in 1..u
      BY <1>0, <3>3
    <3>5. i # u /\ Branch(m, i, u) = Reading(m, u)[i]
      BY <3>3 DEF Branch, Err
    <3>6. Fills(m, i, u, Branch(m, i, u).branches)
      BY <3>3, <3>4, <3>5, ReadingFills
    <3>7. Covered(m, NextBranch(m, u), f[NextBranch(m, u)].branches)
      BY <1>2, <3>3, <3>4
    <3>8. f[i].branches = <<Branch(m, i, u).branches>> \o f[NextBranch(m, u)].branches
      BY <2>1, <2>3, <3>1, <3>2 DEF Divided, Ok
    <3>9. Covered(m, i, <<Branch(m, i, u).branches>> \o f[NextBranch(m, u)].branches)
      BY <3>3, <3>5, <3>6, <3>7, CoveredFurther
    <3> QED BY <3>8, <3>9
  <2> QED BY <2>2, <2>3
<1> HIDE DEF Holds
<1>3. \A i \in 1..n : (\A j \in (i + 1)..n : j \in P) => i \in P
  BY <1>2
<1> HIDE DEF P
<1>4. \A i \in 1..n : i \in P
  BY <1>0, <1>3, Backwards
<1>5. Holds(lo)
  BY <1>4 DEF P
<1> QED BY <1>5 DEF Holds, f

(* A query that is accepted leaves no token out: its clauses meet, a RETURN *)
(* ends its branch, and between branches stands a UNION and no more.        *)
THEOREM AcceptedQueriesAreWhole == Spec => []AcceptedInWhole
<1>1. Inv => AcceptedInWhole
  <2> SUFFICES ASSUME Inv PROVE AcceptedInWhole
    OBVIOUS
  <2>1. /\ IsMachine(Machine) /\ Len(Machine.tokens) = Size /\ Machine.tokens = Tokens
        /\ Size \in Nat /\ (input = <<>> => Size = 0)
    BY MachineTyped, TokensAre DEF Inv, Machine
  <2>2. CASE ~result.ok
    BY <2>2 DEF AcceptedInWhole, BranchesTileTokens, ReturnEndsBranch
  <2>3. CASE result.ok
    <3>1. result = Outcome
      BY <2>3 DEF Inv, Pending
    <3>2. CASE Size = 0
      <4>1. result.branches = <<>>
        BY <2>3, <3>1, <3>2 DEF Outcome, Ok, Err
      <4>2. DOMAIN result.branches = {}
        BY <4>1
      <4> QED BY <3>2, <4>2 DEF AcceptedInWhole, BranchesTileTokens, ReturnEndsBranch
    <3>3. CASE Size # 0 /\ ~Query(Machine)[1].ok
      <4>1. standalone /\ result.branches = <<<<[start |-> 1, end |-> Size + 1]>>>>
        BY <2>1, <2>3, <3>1, <3>3 DEF Outcome, Ok
      <4> DEFINE bs == <<<<[start |-> 1, end |-> Size + 1]>>>>
      <4>2. /\ DOMAIN bs = {1} /\ Len(bs) = 1 /\ Len(bs[1]) = 1
            /\ bs[1][1].start = 1 /\ bs[1][1].end = Size + 1
        BY <2>1
      <4> HIDE DEF bs
      <4>3. BranchesTileTokens
        BY <4>1, <4>2 DEF BranchesTileTokens, bs
      <4> QED BY <4>1, <4>3 DEF AcceptedInWhole, ReturnEndsBranch
    <3>4. CASE Size # 0 /\ Query(Machine)[1].ok
      <4> DEFINE bs == result.branches
      <4>1. result = Query(Machine)[1]
        BY <2>1, <3>1, <3>4 DEF Outcome
      <4>2. Covered(Machine, 1, bs)
        BY <2>1, <3>4, <4>1, QueryCovers
      <4> HIDE DEF bs
      <4>3. /\ bs \in Seq(Seq(Clauses)) /\ bs # <<>> /\ DOMAIN bs = 1..Len(bs) /\ Len(bs) \in Nat
            /\ \A b \in 1..Len(bs) : /\ bs[b] \in Seq(Clauses) /\ Len(bs[b]) \in Nat
                                     /\ bs[b] # <<>> /\ DOMAIN bs[b] = 1..Len(bs[b])
                                     /\ Meets(Machine, bs[b])
        BY <4>2 DEF Covered, Meets
      <4>4. \A b \in 1..Len(bs) : \A k \in 2..Len(bs[b]) : bs[b][k].start = bs[b][k - 1].end
        BY <4>3 DEF Meets
      <4>5. \A b \in 1..Len(bs) : \A k \in 1..Len(bs[b]) :
              Tokens[bs[b][k].start] = "Return" => k = Len(bs[b])
        BY <2>1, <4>3 DEF Meets
      <4>6. \A b \in 2..Len(bs) :
              /\ Tokens[bs[b - 1][Len(bs[b - 1])].end] = "Union"
              /\ \/ bs[b][1].start = bs[b - 1][Len(bs[b - 1])].end + 1
                 \/ /\ bs[b][1].start = bs[b - 1][Len(bs[b - 1])].end + 2
                    /\ Tokens[bs[b][1].start - 1] \in {"All", "Distinct"}
        <5> SUFFICES ASSUME NEW b \in 2..Len(bs)
                     PROVE  /\ Tokens[bs[b - 1][Len(bs[b - 1])].end] = "Union"
                            /\ \/ bs[b][1].start = bs[b - 1][Len(bs[b - 1])].end + 1
                               \/ /\ bs[b][1].start = bs[b - 1][Len(bs[b - 1])].end + 2
                                  /\ Tokens[bs[b][1].start - 1] \in {"All", "Distinct"}
          OBVIOUS
        <5>1. Joined(Machine, bs[b - 1], bs[b])
          BY <4>2 DEF Covered
        <5>2. b - 1 \in 1..Len(bs) /\ b \in 1..Len(bs)
          BY <4>3
        <5>3. bs[b - 1][Len(bs[b - 1])].end \in Int
          <6>1. bs[b - 1] \in Seq(Clauses) /\ bs[b - 1] # <<>>
            BY <4>3, <5>2
          <6>2. bs[b - 1][Len(bs[b - 1])] \in Clauses
            BY <6>1
          <6> QED BY <6>2 DEF Clauses
        <5>4. PICK e \in Int : e = bs[b - 1][Len(bs[b - 1])].end
          BY <5>3
        <5>5. /\ Tokens[e] = "Union"
              /\ \/ bs[b][1].start = e + 1
                 \/ bs[b][1].start = e + 2 /\ Tokens[e + 1] \in {"All", "Distinct"}
          BY <2>1, <5>1, <5>4 DEF Joined, Ending
        <5>6. (e + 2) - 1 = e + 1
          OBVIOUS
        <5> QED BY <5>4, <5>5, <5>6
      <4>7. bs[1][1].start = 1 /\ bs[Len(bs)][Len(bs[Len(bs)])].end = Size + 1
        BY <2>1, <4>2 DEF Covered, Ending
      <4>8. BranchesTileTokens
        <5>1. \A b \in 1..Len(bs) : b > 1 => b \in 2..Len(bs)
          BY <4>3
        <5> QED BY <4>3, <4>4, <4>6, <4>7, <5>1 DEF BranchesTileTokens, bs
      <4>9. ReturnEndsBranch
        BY <4>3, <4>5 DEF ReturnEndsBranch, bs
      <4> QED BY <4>8, <4>9 DEF AcceptedInWhole
    <3> QED BY <3>2, <3>3, <3>4
  <2> QED BY <2>2, <2>3
<1> QED BY <1>1, Invariant, PTL

-----------------------------------------------------------------------------
(* Expression trees.                                                        *)
(*                                                                          *)
(* The invariant TreesSound: every node is a tree over the tokens it spans; *)
(* the open constructs, with the operand that has been completed, lie side  *)
(* by side from the first token to the last one read; and the operands of   *)
(* an open construct have the levels that its rule asks for.                *)

NodeKinds == {"OR", "XOR", "AND", "=", "<", "IN", "||", "+", "-", "*", "^", "NOT", "sign", "IS",
              "property", "index", "slice", "v", "parens", "list", "comprehension"}
InfixFrames == {"fold", "folding", "index", ".."}
BracketFrames == {"(", "[", ",", "WHERE", "|", "index", ".."}
FrameKinds == InfixFrames \cup BracketFrames \cup {"NOT", "sign"}

TreeNodes == [kind : NodeKinds, span : [start : Nat, end : Nat], own : SUBSET Nat,
              parts : Seq(Nat), reads : SUBSET Nat]
TreeFrames == [kind : FrameKinds, level : 1..11, own : Seq(Nat), parts : Seq(Nat)]

TreesTyped ==
    /\ sentence \in Seq(Terminals)
    /\ next \in 1..(Len(sentence) + 1)
    /\ nodes \in Seq(TreeNodes)
    /\ frames \in Seq(TreeFrames)
    /\ operand \in 0..Len(nodes)

-----------------------------------------------------------------------------
(* Nodes.                                                                   *)

Arity(node) ==
    /\ node.kind \in {"NOT", "sign", "IS", "property", "index", "slice"} => Len(node.parts) >= 1
    /\ node.kind = "comprehension" => Len(node.parts) >= 2

Operation(node) ==
    IsOperator(node.kind) =>
        /\ Len(node.parts) = 2
        /\ node.own = {nodes[node.parts[1]].span.end + 1}
        /\ sentence[nodes[node.parts[1]].span.end + 1] = node.kind
        /\ node.span.start = nodes[node.parts[1]].span.start

NameToken(node) ==
    node.kind = "v" => node.span.start = node.span.end /\ sentence[node.span.start] = "v"

SoundNode(node) ==
    /\ node.reads = node.own \cup ReadFor(node.parts)
    /\ node.span.start >= 1
    /\ Spanned(node) /\ OwnTokens(node)
    /\ GroupsToTheLeft(node) /\ ParenthesesMakeAList(node)
    /\ Arity(node) /\ Operation(node) /\ NameToken(node)

NodeSound(n) ==
    /\ nodes[n].parts \in Seq(1..(n - 1))
    /\ nodes[n].span.end < next
    /\ SoundNode(nodes[n])

NodesSound == \A n \in DOMAIN nodes : NodeSound(n)

-----------------------------------------------------------------------------
(* Frames.                                                                  *)

Start(frame) ==
    IF frame.kind \in InfixFrames THEN nodes[frame.parts[1]].span.start ELSE frame.own[1]

Filled(k) ==
    IF k < Len(frames) THEN Start(frames[k + 1]) - 1
    ELSE IF operand = 0 THEN next - 1 ELSE nodes[operand].span.start - 1

Outer(k) == IF k = 1 THEN 1 ELSE frames[k - 1].level

Tiles(frame, to) ==
    /\ 1 <= Start(frame) /\ Start(frame) <= to
    /\ Elements(frame.own) \cup ReadFor(frame.parts) = Start(frame)..to
    /\ \A part \in Elements(frame.parts) : Elements(frame.own) \cap nodes[part].reads = {}
    /\ \A j \in 2..Len(frame.parts) :
         nodes[frame.parts[j - 1]].span.end < nodes[frame.parts[j]].span.start

LooserFirst(frame) == frame.kind = "folding" /\ frame.level # 7

Turns(frame) ==
    /\ frame.level - 1 \in (1..3) \cup (5..10)
    /\ frame.level = 7 => Len(frame.own) = 1
    /\ \A i, j \in DOMAIN frame.own : i < j => frame.own[i] < frame.own[j]
    /\ \A j \in DOMAIN frame.own :
         /\ frame.own[j] = nodes[frame.parts[j]].span.end + 1
         /\ j + 1 \in DOMAIN frame.parts =>
              nodes[frame.parts[j + 1]].span.start = frame.own[j] + 1
         /\ IsOperator(sentence[frame.own[j]])
         /\ Level(sentence[frame.own[j]]) = frame.level - 1
    /\ \A j \in DOMAIN frame.parts :
         Rank(nodes[frame.parts[j]].kind)
           >= IF j = 1 /\ LooserFirst(frame) THEN frame.level - 1 ELSE frame.level

Prefixed(frame, outer) ==
    /\ frame.kind \in {"(", "[", "NOT", "sign"} => Len(frame.own) = 1 /\ frame.parts = <<>>
    /\ frame.kind = "NOT" => frame.level = 4 /\ outer <= 4
    /\ frame.kind = "sign" => frame.level = 11 /\ outer <= 11

Bracketed(frame, outer) ==
    /\ frame.kind \in BracketFrames => frame.level = 1
    /\ frame.kind = "," => Len(frame.parts) >= 1
    /\ frame.kind \in {"WHERE", "|"} =>
         /\ Len(frame.parts) \in {1, 2}
         /\ nodes[frame.parts[1]].span.start = frame.own[1] + 1
    /\ frame.kind = "WHERE" => Len(frame.parts) = 1
    /\ frame.kind \in {"index", ".."} =>
         Len(frame.parts) >= 1 /\ Rank(nodes[frame.parts[1]].kind) >= 12 /\ outer <= 12

Folded(frame, to, outer) ==
    /\ frame.kind \in {"fold", "folding"} => Turns(frame) /\ outer < frame.level
    /\ frame.kind = "fold" =>
         Len(frame.parts) = Len(frame.own) /\ frame.own[Len(frame.own)] = to
    /\ frame.kind = "folding" => Len(frame.parts) = Len(frame.own) + 1

SoundFrame(frame, to, outer) ==
    /\ frame.own \in Seq(Nat) /\ frame.own # <<>>
    /\ frame.parts \in Seq(DOMAIN nodes)
    /\ Tiles(frame, to)
    /\ Prefixed(frame, outer) /\ Bracketed(frame, outer) /\ Folded(frame, to, outer)

FrameSound(k) ==
    /\ SoundFrame(frames[k], Filled(k), Outer(k))
    /\ frames[k].kind = "folding" => k = Len(frames) /\ operand = 0

OperandSound ==
    operand # 0 => nodes[operand].span.end = next - 1 /\ Rank(nodes[operand].kind) >= Wanted

TreesSound ==
    /\ TreesTyped /\ NodesSound
    /\ \A k \in DOMAIN frames : FrameSound(k)
    /\ Filled(0) = 0
    /\ OperandSound

-----------------------------------------------------------------------------
LEMMA LevelRange == \A token : Level(token) \in 0..12 /\ Rank(token) \in 0..13
BY DEF Level, Rank

LEMMA OperatorRank ==
    \A token : IsOperator(token) =>
        /\ token \in {"OR", "XOR", "AND", "=", "<", "IN", "||", "+", "-", "*", "^"}
        /\ Rank(token) = Level(token)
        /\ Level(token) \in (1..3) \cup (5..10)
        /\ Level(token) = 6 <=> token = "IN"
BY DEF Level, Rank, IsOperator

LEMMA ElementsAppend ==
    ASSUME NEW S, NEW s \in Seq(S), NEW x \in S
    PROVE  Elements(Append(s, x)) = Elements(s) \cup {x}
<1>1. Append(s, x) \in Seq(S) /\ Len(Append(s, x)) = Len(s) + 1
  OBVIOUS
<1>2. \A k \in 1..Len(s) : Append(s, x)[k] = s[k]
  OBVIOUS
<1>3. Append(s, x)[Len(s) + 1] = x
  OBVIOUS
<1>4. ASSUME NEW y \in Elements(Append(s, x)) PROVE y \in Elements(s) \cup {x}
  BY <1>1, <1>2, <1>3 DEF Elements
<1>5. x \in Elements(Append(s, x))
  BY <1>1, <1>3 DEF Elements
<1>6. ASSUME NEW y \in Elements(s) PROVE y \in Elements(Append(s, x))
  BY <1>1, <1>2 DEF Elements
<1> QED BY <1>4, <1>5, <1>6

LEMMA ElementsIn ==
    ASSUME NEW S, NEW s \in Seq(S)
    PROVE  Elements(s) \subseteq S /\ \A k \in DOMAIN s : s[k] \in Elements(s) /\ s[k] \in S
BY DEF Elements

LEMMA ElementsOfFew ==
    /\ Elements(<<>>) = {}
    /\ \A a : Elements(<<a>>) = {a}
    /\ \A a, b : Elements(<<a, b>>) = {a, b}
<1>1. Elements(<<>>) = {}
  BY DEF Elements
<1>2. ASSUME NEW a PROVE Elements(<<a>>) = {a}
  BY DEF Elements
<1>3. ASSUME NEW a, NEW b PROVE Elements(<<a, b>>) = {a, b}
  BY DEF Elements
<1> QED BY <1>1, <1>2, <1>3

LEMMA ReadForAppend ==
    ASSUME NEW S, NEW s \in Seq(S), NEW x \in S
    PROVE  ReadFor(Append(s, x)) = ReadFor(s) \cup nodes[x].reads
<1>1. Elements(Append(s, x)) = Elements(s) \cup {x}
  BY ElementsAppend
<1> QED BY <1>1 DEF ReadFor

LEMMA ReadForFew ==
    /\ ReadFor(<<>>) = {}
    /\ \A a : ReadFor(<<a>>) = nodes[a].reads
    /\ \A a, b : ReadFor(<<a, b>>) = nodes[a].reads \cup nodes[b].reads
BY ElementsOfFew DEF ReadFor

LEMMA ReadForPart ==
    ASSUME NEW parts, NEW k \in DOMAIN parts
    PROVE  parts[k] \in Elements(parts) /\ nodes[parts[k]].reads \subseteq ReadFor(parts)
BY DEF ReadFor, Elements

-----------------------------------------------------------------------------
Grows ==
    /\ sentence' = sentence
    /\ next' \in Nat /\ next <= next'
    /\ DOMAIN nodes \subseteq DOMAIN nodes'
    /\ \A n \in DOMAIN nodes : nodes'[n] = nodes[n]

LEMMA ReadForKept ==
    ASSUME Grows, NEW parts \in Seq(DOMAIN nodes)
    PROVE  ReadFor(parts)' = ReadFor(parts)
<1>1. \A part \in Elements(parts) : nodes'[part].reads = nodes[part].reads
  BY ElementsIn DEF Grows
<1> QED BY <1>1 DEF ReadFor

LEMMA SourceParts ==
    ASSUME TreesTyped, NodesSound, NEW n \in DOMAIN nodes, nodes[n].kind = "IN"
    PROVE  /\ Len(nodes[n].parts) = 2
           /\ nodes[n].parts[1] \in DOMAIN nodes /\ nodes[n].parts[2] \in DOMAIN nodes
<1>1. NodeSound(n)
  BY DEF NodesSound
<1>2. nodes[n].parts \in Seq(1..(n - 1)) /\ Operation(nodes[n])
  BY <1>1 DEF NodeSound, SoundNode
<1>3. IsOperator("IN")
  BY DEF IsOperator, Level
<1>4. Len(nodes[n].parts) = 2
  BY <1>2, <1>3 DEF Operation
<1>5. DOMAIN nodes = 1..Len(nodes) /\ Len(nodes) \in Nat
  BY DEF TreesTyped
<1> DEFINE parts == nodes[n].parts
<1>6. parts \in Seq(1..(n - 1)) /\ Len(parts) = 2
  BY <1>2, <1>4
<1> HIDE DEF parts
<1>7. parts[1] \in 1..(n - 1) /\ parts[2] \in 1..(n - 1)
  <2>1. \A k \in DOMAIN parts : parts[k] \in 1..(n - 1)
    BY <1>6, ElementsIn
  <2>2. 1 \in DOMAIN parts /\ 2 \in DOMAIN parts
    BY <1>6
  <2> QED BY <2>1, <2>2
<1> QED BY <1>5, <1>6, <1>7 DEF parts

LEMMA SoundNodeKept ==
    ASSUME TreesTyped, NodesSound, Grows, NEW node,
           node.kind \in NodeKinds, node.parts \in Seq(DOMAIN nodes), SoundNode(node)
    PROVE  SoundNode(node)'
<1>1. \A k \in 1..Len(node.parts) :
        node.parts[k] \in DOMAIN nodes /\ nodes'[node.parts[k]] = nodes[node.parts[k]]
  BY DEF Grows
<1>2. \A part \in Elements(node.parts) : nodes'[part] = nodes[part]
  BY ElementsIn DEF Grows
<1>3. Len(node.parts) \in Nat
  OBVIOUS
<1>4. node.reads = node.own \cup ReadFor(node.parts)'
  BY ReadForKept DEF SoundNode
<1>5. Spanned(node)'
  <2>1. Spanned(node)
    BY DEF SoundNode
  <2>2. ASSUME NEW k \in 2..Len(node.parts)
        PROVE  nodes'[node.parts[k - 1]].span.end < nodes'[node.parts[k]].span.start
    <3>1. k \in 1..Len(node.parts) /\ k - 1 \in 1..Len(node.parts)
      BY <1>3
    <3> QED BY <3>1, <1>1, <2>1 DEF Spanned
  <2> QED BY <2>1, <2>2 DEF Spanned
<1>6. OwnTokens(node)'
  BY <1>2 DEF SoundNode, OwnTokens
<1>7. Arity(node)' /\ Arity(node)
  BY DEF SoundNode, Arity
<1>8. GroupsToTheLeft(node)'
  <2>1. GroupsToTheLeft(node) /\ Operation(node)
    BY DEF SoundNode
  <2>2. CASE IsOperator(node.kind)
    <3>1. Len(node.parts) = 2
      BY <2>1, <2>2 DEF Operation
    <3>2. nodes'[node.parts[1]] = nodes[node.parts[1]] /\ nodes'[node.parts[2]] = nodes[node.parts[2]]
      BY <3>1, <1>1
    <3> QED BY <3>2, <2>1 DEF GroupsToTheLeft
  <2>3. CASE ~IsOperator(node.kind)
    <3>1. CASE Len(node.parts) >= 1
      <4>1. nodes'[node.parts[1]] = nodes[node.parts[1]]
        BY <3>1, <1>1, <1>3
      <4> QED BY <4>1, <2>1, <2>3 DEF GroupsToTheLeft
    <3>2. CASE ~(Len(node.parts) >= 1)
      <4>1. node.kind \notin {"NOT", "sign", "IS", "property", "index", "slice"}
        BY <1>7, <3>2 DEF Arity
      <4>2. Rank(node.kind) \notin {4, 11, 12}
        BY <4>1, <2>3 DEF Rank, Level, IsOperator, NodeKinds
      <4> QED BY <4>1, <4>2, <2>3 DEF GroupsToTheLeft
    <3> QED BY <3>1, <3>2
  <2> QED BY <2>2, <2>3
<1>9. ParenthesesMakeAList(node)'
  <2>1. ParenthesesMakeAList(node)
    BY DEF SoundNode
  <2>2. ASSUME node.kind = "comprehension"
        PROVE  nodes'[node.parts[2]] = nodes[node.parts[2]]
    BY <2>2, <1>7, <1>1, <1>3 DEF Arity
  <2>3. ASSUME Len(node.parts) = 1, nodes'[node.parts[1]].kind = "IN"
        PROVE  /\ nodes[node.parts[1]].kind = "IN"
               /\ nodes'[nodes'[node.parts[1]].parts[1]] = nodes[nodes[node.parts[1]].parts[1]]
    <3>1. nodes'[node.parts[1]] = nodes[node.parts[1]] /\ node.parts[1] \in DOMAIN nodes
      BY <2>3, <1>1
    <3>2. nodes[node.parts[1]].parts[1] \in DOMAIN nodes
      BY <3>1, <2>3, SourceParts
    <3> QED BY <3>1, <3>2, <2>3 DEF Grows
  <2>4. sentence' = sentence
    BY DEF Grows
  <2> QED BY <2>1, <2>2, <2>3, <2>4 DEF ParenthesesMakeAList
<1>10. Operation(node)'
  <2>1. Operation(node)
    BY DEF SoundNode
  <2>2. ASSUME IsOperator(node.kind) PROVE nodes'[node.parts[1]] = nodes[node.parts[1]]
    BY <2>1, <2>2, <1>1 DEF Operation
  <2> QED BY <2>1, <2>2 DEF Operation, Grows
<1>11. NameToken(node)'
  BY DEF SoundNode, NameToken, Grows
<1> QED BY <1>4, <1>5, <1>6, <1>7, <1>8, <1>9, <1>10, <1>11 DEF SoundNode

(* A node built from what is there keeps the nodes sound.                   *)
LEMMA BuiltSound ==
    ASSUME TreesTyped, NodesSound, NEW node \in TreeNodes,
           nodes' = Append(nodes, node), sentence' = sentence,
           next' \in Nat, next <= next',
           node.parts \in Seq(DOMAIN nodes), SoundNode(node), node.span.end < next'
    PROVE  /\ Grows /\ NodesSound' /\ nodes' \in Seq(TreeNodes)
           /\ Len(nodes') = Len(nodes) + 1 /\ nodes'[Len(nodes) + 1] = node
<1>1. /\ nodes \in Seq(TreeNodes) /\ Len(nodes) \in Nat /\ DOMAIN nodes = 1..Len(nodes)
      /\ next \in Nat
  BY DEF TreesTyped
<1>2. /\ nodes' \in Seq(TreeNodes) /\ Len(nodes') = Len(nodes) + 1
      /\ DOMAIN nodes' = 1..(Len(nodes) + 1)
      /\ nodes'[Len(nodes) + 1] = node
      /\ \A n \in 1..Len(nodes) : nodes'[n] = nodes[n]
  BY <1>1
<1>3. Grows
  BY <1>1, <1>2 DEF Grows
<1>4. ASSUME NEW n \in DOMAIN nodes PROVE NodeSound(n)'
  <2>1. NodeSound(n)
    BY DEF NodesSound
  <2>2. nodes'[n] = nodes[n] /\ nodes[n] \in TreeNodes
    BY <1>1, <1>2
  <2>3. nodes[n].parts \in Seq(1..(n - 1)) /\ SoundNode(nodes[n]) /\ nodes[n].span.end < next
    BY <2>1 DEF NodeSound
  <2>4. nodes[n].parts \in Seq(DOMAIN nodes)
    <3>1. 1..(n - 1) \subseteq DOMAIN nodes
      BY <1>1
    <3> QED BY <3>1, <2>3
  <2>5. PICK old : old = nodes[n]
    OBVIOUS
  <2>6. SoundNode(old)'
    <3>1. old.kind \in NodeKinds
      BY <2>2, <2>5 DEF TreeNodes
    <3> QED BY <1>3, <2>3, <2>4, <2>5, <3>1, SoundNodeKept
  <2>7. SoundNode(nodes[n])'
    BY <2>6, <2>5, <2>2
  <2>8. nodes[n].span.end < next'
    <3>1. nodes[n].span.end \in Nat
      BY <2>2 DEF TreeNodes
    <3> QED BY <3>1, <2>3, <1>1
  <2> QED BY <2>2, <2>3, <2>7, <2>8 DEF NodeSound
<1>5. PICK new : new = Len(nodes) + 1
  OBVIOUS
<1>6. NodeSound(new)'
  <2>1. SoundNode(node)'
    <3>1. node.kind \in NodeKinds
      BY DEF TreeNodes
    <3> QED BY <1>3, <3>1, SoundNodeKept
  <2>2. node.parts \in Seq(1..(new - 1))
    BY <1>1, <1>5
  <2>3. nodes'[new] = node
    BY <1>2, <1>5
  <2>4. SoundNode(nodes[new])'
    BY <2>1, <2>3
  <2> QED BY <2>2, <2>3, <2>4 DEF NodeSound
<1>7. DOMAIN nodes' = DOMAIN nodes \cup {new}
  BY <1>1, <1>2, <1>5
<1> QED BY <1>2, <1>3, <1>4, <1>6, <1>7 DEF NodesSound

-----------------------------------------------------------------------------
LEMMA SeqWidens ==
    ASSUME NEW S, NEW T, S \subseteq T, NEW s \in Seq(S)
    PROVE  s \in Seq(T)
<1>1. s \in [1..Len(s) -> T] /\ Len(s) \in Nat
  OBVIOUS
<1> QED BY <1>1

LEMMA InfixParts ==
    ASSUME NEW frame, NEW to, NEW outer, SoundFrame(frame, to, outer),
           frame.kind \in InfixFrames
    PROVE  1 \in DOMAIN frame.parts /\ frame.parts[1] \in DOMAIN nodes
<1>1. /\ frame.own \in Seq(Nat) /\ frame.own # <<>>
      /\ frame.parts \in Seq(DOMAIN nodes)
  BY DEF SoundFrame
<1>2. Len(frame.own) >= 1 /\ Len(frame.own) \in Nat /\ Len(frame.parts) \in Nat
  BY <1>1
<1>3. Len(frame.parts) >= 1
  <2>1. Bracketed(frame, outer) /\ Folded(frame, to, outer)
    BY DEF SoundFrame
  <2>2. CASE frame.kind \in {"index", ".."}
    BY <2>1, <2>2 DEF Bracketed
  <2>3. CASE frame.kind \in {"fold", "folding"}
    BY <1>2, <2>1, <2>3 DEF Folded
  <2> QED BY <2>2, <2>3 DEF InfixFrames
<1> QED BY <1>1, <1>2, <1>3

LEMMA FromKept ==
    ASSUME Grows, NEW frame, NEW to, NEW outer, SoundFrame(frame, to, outer)
    PROVE  Start(frame)' = Start(frame)
<1>1. CASE frame.kind \in InfixFrames
  BY <1>1, InfixParts DEF Start, Grows
<1>2. CASE frame.kind \notin InfixFrames
  BY <1>2 DEF Start
<1> QED BY <1>1, <1>2

LEMMA SoundFrameKept ==
    ASSUME TreesTyped, Grows, NEW frame, NEW to, NEW outer, SoundFrame(frame, to, outer)
    PROVE  SoundFrame(frame, to, outer)'
<1>1. /\ frame.own \in Seq(Nat) /\ frame.own # <<>>
      /\ frame.parts \in Seq(DOMAIN nodes)
  BY DEF SoundFrame
<1>2. Len(frame.own) \in Nat /\ Len(frame.own) >= 1 /\ Len(frame.parts) \in Nat
  BY <1>1
<1>3. frame.parts \in Seq(DOMAIN nodes')
  BY <1>1, SeqWidens DEF Grows
<1>4. \A k \in 1..Len(frame.parts) : nodes'[frame.parts[k]] = nodes[frame.parts[k]]
  BY <1>1 DEF Grows
<1>5. Tiles(frame, to)'
  <2>1. Tiles(frame, to)
    BY DEF SoundFrame
  <2>2. Start(frame)' = Start(frame)
    BY FromKept
  <2>3. ReadFor(frame.parts)' = ReadFor(frame.parts)
    BY <1>1, ReadForKept
  <2>4. \A part \in Elements(frame.parts) : nodes'[part] = nodes[part]
    BY <1>1, ElementsIn DEF Grows
  <2>5. \A j \in 2..Len(frame.parts) :
          nodes'[frame.parts[j - 1]].span.end < nodes'[frame.parts[j]].span.start
    <3> TAKE j \in 2..Len(frame.parts)
    <3>1. j \in 1..Len(frame.parts) /\ j - 1 \in 1..Len(frame.parts)
      BY <1>2
    <3>2. nodes[frame.parts[j - 1]].span.end < nodes[frame.parts[j]].span.start
      BY <2>1 DEF Tiles
    <3> QED BY <3>1, <3>2, <1>4
  <2>6. \A part \in Elements(frame.parts) : Elements(frame.own) \cap nodes'[part].reads = {}
    BY <2>1, <2>4 DEF Tiles
  <2> QED BY <2>1, <2>2, <2>3, <2>5, <2>6 DEF Tiles
<1>6. Prefixed(frame, outer)'
  BY DEF SoundFrame, Prefixed
<1>7. Bracketed(frame, outer)'
  <2>1. Bracketed(frame, outer)
    BY DEF SoundFrame
  <2>2. CASE Len(frame.parts) >= 1
    <3>1. nodes'[frame.parts[1]] = nodes[frame.parts[1]]
      BY <1>2, <1>4, <2>2
    <3> QED BY <2>1, <3>1 DEF Bracketed
  <2>3. CASE ~(Len(frame.parts) >= 1)
    <3>1. frame.kind \notin {",", "index", ".."}
      BY <2>1, <2>3 DEF Bracketed
    <3>2. frame.kind \notin {"WHERE", "|"}
      <4>1. Len(frame.parts) \notin {1, 2}
        BY <2>3
      <4> QED BY <2>1, <4>1 DEF Bracketed
    <3> QED BY <2>1, <3>1, <3>2 DEF Bracketed
  <2> QED BY <2>2, <2>3
<1>8. Folded(frame, to, outer)'
  <2>1. Folded(frame, to, outer)
    BY DEF SoundFrame
  <2>2. ASSUME frame.kind \in {"fold", "folding"} PROVE Turns(frame)'
    <3>1. Turns(frame)
      BY <2>1, <2>2 DEF Folded
    <3>2. DOMAIN frame.own \subseteq DOMAIN frame.parts /\ DOMAIN frame.parts = 1..Len(frame.parts)
      BY <2>1, <2>2, <1>1, <1>2 DEF Folded
    <3>3. \A j \in DOMAIN frame.own :
            /\ frame.own[j] = nodes'[frame.parts[j]].span.end + 1
            /\ j + 1 \in DOMAIN frame.parts =>
                 nodes'[frame.parts[j + 1]].span.start = frame.own[j] + 1
      BY <3>1, <3>2, <1>4 DEF Turns
    <3>4. \A j \in DOMAIN frame.parts :
            Rank(nodes'[frame.parts[j]].kind)
              >= IF j = 1 /\ LooserFirst(frame) THEN frame.level - 1 ELSE frame.level
      BY <3>1, <3>2, <1>4 DEF Turns
    <3>5. sentence' = sentence
      BY DEF Grows
    <3> QED BY <3>1, <3>3, <3>4, <3>5 DEF Turns, LooserFirst
  <2> QED BY <2>1, <2>2 DEF Folded
<1> QED BY <1>1, <1>3, <1>5, <1>6, <1>7, <1>8 DEF SoundFrame

-----------------------------------------------------------------------------
(* What is left of the frames after a step.                                 *)
LEMMA OldFrames ==
    ASSUME TreesSound, Grows, NEW m \in 0..Len(frames),
           frames' \in Seq(TreeFrames), Len(frames') \in {m, m + 1},
           \A k \in 1..m : frames'[k] = frames[k] /\ frames[k].kind # "folding",
           Filled(m)' = Filled(m)
    PROVE  (\A k \in 1..m : FrameSound(k)') /\ Filled(0)' = 0
<1>1. Len(frames) \in Nat /\ DOMAIN frames = 1..Len(frames) /\ Len(frames') \in Nat
  BY DEF TreesSound, TreesTyped
<1>2. \A k \in 1..m : FrameSound(k)
  BY <1>1 DEF TreesSound
<1>3. ASSUME NEW k \in 1..m PROVE Start(frames[k])' = Start(frames[k])
  <2>1. PICK old : old = frames[k]
    OBVIOUS
  <2>2. PICK to : to = Filled(k)
    OBVIOUS
  <2>3. PICK outer : outer = Outer(k)
    OBVIOUS
  <2>4. SoundFrame(old, to, outer)
    BY <1>2, <2>1, <2>2, <2>3 DEF FrameSound
  <2>5. Start(old)' = Start(old)
    BY <2>4, FromKept
  <2> QED BY <2>1, <2>5
<1>4. ASSUME NEW k \in 0..m PROVE Filled(k)' = Filled(k)
  <2>1. CASE k = m
    BY <2>1
  <2>2. CASE k < m
    <3>1. k < Len(frames) /\ k < Len(frames') /\ k + 1 \in 1..m
      BY <1>1, <2>2
    <3>2. Filled(k)' = Start(frames[k + 1])' - 1
      BY <3>1 DEF Filled
    <3>3. Filled(k) = Start(frames[k + 1]) - 1
      BY <3>1 DEF Filled
    <3> QED BY <3>1, <3>2, <3>3, <1>3
  <2> QED BY <2>1, <2>2
<1>5. Filled(0)' = 0
  BY <1>4 DEF TreesSound
<1>6. ASSUME NEW k \in 1..m PROVE FrameSound(k)'
  <2>1. PICK old : old = frames[k]
    OBVIOUS
  <2>2. PICK to : to = Filled(k)
    OBVIOUS
  <2>3. PICK outer : outer = Outer(k)
    OBVIOUS
  <2>4. SoundFrame(old, to, outer)'
    <3>1. SoundFrame(old, to, outer)
      BY <1>2, <2>1, <2>2, <2>3 DEF FrameSound
    <3>2. TreesTyped
      BY DEF TreesSound
    <3> QED BY <3>1, <3>2, SoundFrameKept
  <2>5. frames'[k] = old /\ Filled(k)' = to /\ old.kind # "folding"
    BY <1>4, <2>1, <2>2
  <2>6. Outer(k)' = outer
    <3>1. k # 1 => k - 1 \in 1..m
      OBVIOUS
    <3> QED BY <3>1, <2>3 DEF Outer
  <2> QED BY <2>4, <2>5, <2>6 DEF FrameSound
<1> QED BY <1>5, <1>6

Front == IF operand = 0 THEN next ELSE nodes[operand].span.start

LEMMA FramesFacts ==
    ASSUME TreesSound
    PROVE  /\ Len(frames) \in Nat /\ DOMAIN frames = 1..Len(frames)
           /\ \A k \in DOMAIN frames : frames[k] \in TreeFrames
           /\ \A k \in 1..(Len(frames) - 1) : frames[k].kind # "folding"
           /\ Filled(Len(frames)) = Front - 1
           /\ Wanted = Outer(Len(frames) + 1)
           /\ operand # 0 /\ frames # <<>> => Top.kind # "folding"
           /\ frames # <<>> => Len(frames) >= 1 /\ Top = frames[Len(frames)]
<1>1. Len(frames) \in Nat /\ DOMAIN frames = 1..Len(frames) /\ frames \in Seq(TreeFrames)
  BY DEF TreesSound, TreesTyped
<1>2. \A k \in 1..Len(frames) : frames[k].kind = "folding" => k = Len(frames) /\ operand = 0
  BY <1>1 DEF TreesSound, FrameSound
<1>3. Filled(Len(frames)) = Front - 1
  BY <1>1 DEF Filled, Front
<1>4. frames # <<>> => Len(frames) >= 1
  BY <1>1
<1>5. Wanted = Outer(Len(frames) + 1)
  BY <1>1, <1>4 DEF Wanted, Outer, Top
<1>6. \A k \in DOMAIN frames : frames[k] \in TreeFrames
  BY <1>1
<1>7. operand # 0 /\ frames # <<>> => Top.kind # "folding"
  <2> SUFFICES ASSUME operand # 0, frames # <<>> PROVE Top.kind # "folding"
    OBVIOUS
  <2>1. Len(frames) \in 1..Len(frames)
    BY <1>1, <1>4
  <2> QED BY <1>2, <2>1 DEF Top
<1>8. ASSUME NEW k \in 1..(Len(frames) - 1) PROVE frames[k].kind # "folding"
  <2>1. Len(frames) \in Nat
    BY <1>1
  <2>2. k \in 1..Len(frames) /\ k # Len(frames)
    BY <2>1
  <2> QED BY <1>2, <2>2
<1> QED BY <1>1, <1>3, <1>4, <1>5, <1>6, <1>7, <1>8 DEF Top

(* An operand is completed where it was expected.                           *)
LEMMA OperandStep ==
    ASSUME TreesSound, Grows, TreesTyped', NodesSound', OperandSound',
           UNCHANGED frames, ~In({"folding"}),
           operand' # 0, nodes'[operand'].span.start = Front
    PROVE  TreesSound'
<1>1. PICK m : m = Len(frames)
  OBVIOUS
<1>2. m \in Nat /\ DOMAIN frames = 1..m /\ Len(frames') = m /\ frames' \in Seq(TreeFrames)
  BY <1>1, FramesFacts DEF TreesTyped
<1>3. \A k \in 1..m : frames'[k] = frames[k] /\ frames[k].kind # "folding"
  <2>1. \A k \in 1..(m - 1) : frames[k].kind # "folding"
    BY <1>1, FramesFacts
  <2>2. m >= 1 => frames[m].kind # "folding"
    BY <1>1 DEF In, Top
  <2> QED BY <1>2, <2>1, <2>2
<1>4. Filled(m)' = Filled(m)
  <2>1. Filled(m)' = nodes'[operand'].span.start - 1
    BY <1>2 DEF Filled
  <2>2. Filled(m) = Front - 1
    BY <1>1, FramesFacts
  <2> QED BY <2>1, <2>2
<1>5. (\A k \in 1..m : FrameSound(k)') /\ Filled(0)' = 0
  BY <1>1, <1>2, <1>3, <1>4, OldFrames
<1> QED BY <1>2, <1>5 DEF TreesSound

(* A construct is opened.                                                   *)
LEMMA PushStep ==
    ASSUME TreesSound, Grows, TreesTyped', NodesSound', NEW frame \in TreeFrames,
           Push(frame), ~In({"folding"}), frame.kind # "folding", Start(frame)' = Front,
           NEW to, to = next' - 1, NEW outer, outer = Wanted, SoundFrame(frame, to, outer)'
    PROVE  TreesSound'
<1>1. PICK m : m = Len(frames)
  OBVIOUS
<1>2. m \in Nat /\ DOMAIN frames = 1..m /\ frames \in Seq(TreeFrames)
  BY <1>1, FramesFacts DEF TreesTyped, TreesSound
<1>3. /\ frames' = Append(frames, frame) /\ operand' = 0
      /\ frames' \in Seq(TreeFrames) /\ Len(frames') = m + 1 /\ DOMAIN frames' = 1..(m + 1)
      /\ frames'[m + 1] = frame /\ \A k \in 1..m : frames'[k] = frames[k]
  BY <1>1, <1>2 DEF Push
<1>4. \A k \in 1..m : frames[k].kind # "folding"
  <2>1. \A k \in 1..(m - 1) : frames[k].kind # "folding"
    BY <1>1, FramesFacts
  <2>2. m >= 1 => frames[m].kind # "folding"
    BY <1>1 DEF In, Top
  <2> QED BY <1>2, <2>1, <2>2
<1>5. Filled(m)' = Filled(m)
  <2>1. Filled(m)' = Start(frame)' - 1
    BY <1>2, <1>3 DEF Filled
  <2>2. Filled(m) = Front - 1
    BY <1>1, FramesFacts
  <2> QED BY <2>1, <2>2
<1>6. (\A k \in 1..m : FrameSound(k)') /\ Filled(0)' = 0
  BY <1>1, <1>2, <1>3, <1>4, <1>5, OldFrames
<1>7. PICK n : n = m + 1
  OBVIOUS
<1>8. FrameSound(n)'
  <2>1. Filled(n)' = to
    BY <1>2, <1>3, <1>7 DEF Filled
  <2>2. Outer(n)' = outer
    <3>1. Outer(m + 1) = outer
      BY <1>1, FramesFacts
    <3> QED BY <1>2, <1>3, <1>7, <3>1 DEF Outer
  <2>3. frames'[n] = frame
    BY <1>3, <1>7
  <2> QED BY <2>1, <2>2, <2>3 DEF FrameSound
<1>9. OperandSound'
  BY <1>3 DEF OperandSound
<1>10. \A k \in DOMAIN frames' : FrameSound(k)'
  BY <1>2, <1>3, <1>6, <1>7, <1>8
<1> QED BY <1>6, <1>9, <1>10 DEF TreesSound

LEMMA SeqBelow ==
    ASSUME NEW S, NEW seq \in Seq(S), NEW n, n = Len(seq), n >= 1
    PROVE  /\ SubSeq(seq, 1, n - 1) \in Seq(S) /\ Len(SubSeq(seq, 1, n - 1)) = n - 1
           /\ \A k \in 1..(n - 1) : SubSeq(seq, 1, n - 1)[k] = seq[k]
<1>1. n \in Nat /\ n - 1 \in Int /\ 1 \in Int
  OBVIOUS
<1>2. \A k \in 1..(n - 1) : seq[k] \in S
  OBVIOUS
<1> QED BY <1>1, <1>2, SubSeqProperties

LEMMA FramesBelow ==
    ASSUME TreesSound, frames # <<>>
    PROVE  /\ Below \in Seq(TreeFrames) /\ Len(Below) = Len(frames) - 1
           /\ \A k \in 1..(Len(frames) - 1) : Below[k] = frames[k]
<1>1. Len(frames) >= 1
  BY FramesFacts
<1>2. frames \in Seq(TreeFrames)
  BY DEF TreesSound, TreesTyped
<1> QED BY <1>1, <1>2, SeqBelow DEF Below

(* The innermost construct goes on.                                         *)
LEMMA ReplaceStep ==
    ASSUME TreesSound, Grows, TreesTyped', NodesSound', NEW frame \in TreeFrames,
           frames # <<>>, Replace(frame), Start(frame)' = Start(Top),
           NEW to, to = next' - 1, NEW outer, outer = Outer(Len(frames)),
           SoundFrame(frame, to, outer)'
    PROVE  TreesSound'
<1>1. PICK m : m = Len(frames) - 1
  OBVIOUS
<1>2. m \in Nat /\ DOMAIN frames = 1..(m + 1) /\ Len(frames) = m + 1 /\ Top = frames[m + 1]
  BY <1>1, FramesFacts
<1>3. /\ frames' = Append(Below, frame) /\ operand' = 0
      /\ frames' \in Seq(TreeFrames) /\ Len(frames') = m + 1 /\ DOMAIN frames' = 1..(m + 1)
      /\ frames'[m + 1] = frame /\ \A k \in 1..m : frames'[k] = frames[k]
  <2>1. Below \in Seq(TreeFrames) /\ Len(Below) = m /\ \A k \in 1..m : Below[k] = frames[k]
    BY <1>1, FramesBelow
  <2>2. frames' = Append(Below, frame) /\ operand' = 0
    BY DEF Replace
  <2> QED BY <1>2, <2>1, <2>2
<1>4. \A k \in 1..m : frames[k].kind # "folding"
  BY <1>1, FramesFacts
<1>5. Filled(m)' = Filled(m)
  <2>1. Filled(m)' = Start(frame)' - 1
    BY <1>2, <1>3 DEF Filled
  <2>2. Filled(m) = Start(Top) - 1
    BY <1>2 DEF Filled
  <2> QED BY <2>1, <2>2
<1>6. (\A k \in 1..m : FrameSound(k)') /\ Filled(0)' = 0
  BY <1>2, <1>3, <1>4, <1>5, OldFrames
<1>7. PICK n : n = m + 1
  OBVIOUS
<1>8. FrameSound(n)'
  <2>1. Filled(n)' = to
    BY <1>2, <1>3, <1>7 DEF Filled
  <2>2. Outer(n)' = outer
    BY <1>2, <1>3, <1>7 DEF Outer
  <2>3. frames'[n] = frame /\ n = Len(frames') /\ operand' = 0
    BY <1>3, <1>7
  <2> QED BY <2>1, <2>2, <2>3 DEF FrameSound
<1>9. OperandSound'
  BY <1>3 DEF OperandSound
<1>10. \A k \in DOMAIN frames' : FrameSound(k)'
  BY <1>2, <1>3, <1>6, <1>7, <1>8
<1> QED BY <1>6, <1>9, <1>10 DEF TreesSound

(* The innermost construct is completed, as an operand.                     *)
LEMMA PopStep ==
    ASSUME TreesSound, Grows, TreesTyped', NodesSound', frames # <<>>, frames' = Below,
           operand' # 0, nodes'[operand'].span.start = Start(Top),
           nodes'[operand'].span.end = next' - 1,
           Rank(nodes'[operand'].kind) >= Outer(Len(frames))
    PROVE  TreesSound'
<1>1. PICK m : m = Len(frames) - 1
  OBVIOUS
<1>2. m \in Nat /\ DOMAIN frames = 1..(m + 1) /\ Len(frames) = m + 1 /\ Top = frames[m + 1]
  BY <1>1, FramesFacts
<1>3. /\ frames' \in Seq(TreeFrames) /\ Len(frames') = m /\ DOMAIN frames' = 1..m
      /\ \A k \in 1..m : frames'[k] = frames[k]
  <2>1. /\ frames' \in Seq(TreeFrames) /\ Len(frames') = Len(frames) - 1
        /\ \A k \in 1..(Len(frames) - 1) : frames'[k] = frames[k]
    <3>1. /\ Below \in Seq(TreeFrames) /\ Len(Below) = Len(frames) - 1
          /\ \A k \in 1..(Len(frames) - 1) : Below[k] = frames[k]
      BY FramesBelow
    <3>2. frames' = Below
      OBVIOUS
    <3> HIDE DEF Below
    <3> QED BY <3>1, <3>2
  <2>2. /\ frames' \in Seq(TreeFrames) /\ Len(frames') = m
        /\ \A k \in 1..m : frames'[k] = frames[k]
    BY <1>1, <2>1
  <2>3. DOMAIN frames' = 1..m
    BY <2>2
  <2> QED BY <2>2, <2>3
<1>4. \A k \in 1..m : frames[k].kind # "folding"
  BY <1>1, FramesFacts
<1>5. Filled(m)' = Filled(m)
  <2>1. Filled(m)' = nodes'[operand'].span.start - 1
    BY <1>2, <1>3 DEF Filled
  <2>2. Filled(m) = Start(Top) - 1
    BY <1>2 DEF Filled
  <2> QED BY <2>1, <2>2
<1>6. (\A k \in 1..m : FrameSound(k)') /\ Filled(0)' = 0
  BY <1>2, <1>3, <1>4, <1>5, OldFrames
<1>7. OperandSound'
  <2>1. Wanted' = Outer(m + 1)
    BY <1>2, <1>3 DEF Wanted, Top, Outer
  <2> QED BY <1>2, <2>1 DEF OperandSound
<1> QED BY <1>3, <1>6, <1>7 DEF TreesSound

-----------------------------------------------------------------------------
(* Facts of a sound state.                                                  *)
LEMMA StateFacts ==
    ASSUME TreesSound
    PROVE  /\ next \in Nat /\ next >= 1 /\ next <= Len(sentence) + 1
           /\ Len(sentence) \in Nat /\ DOMAIN sentence = 1..Len(sentence)
           /\ Len(nodes) \in Nat /\ DOMAIN nodes = 1..Len(nodes)
           /\ \A n \in DOMAIN nodes : nodes[n] \in TreeNodes
           /\ operand \in Nat /\ (operand # 0 => operand \in DOMAIN nodes)
           /\ Front \in Nat /\ 1 <= Front /\ Front <= next
           /\ Wanted \in 1..11
<1>1. /\ next \in Nat /\ next >= 1 /\ next <= Len(sentence) + 1
      /\ Len(sentence) \in Nat /\ DOMAIN sentence = 1..Len(sentence)
      /\ Len(nodes) \in Nat /\ DOMAIN nodes = 1..Len(nodes)
      /\ operand \in Nat /\ (operand # 0 => operand \in DOMAIN nodes)
  BY DEF TreesSound, TreesTyped
<1>2. \A n \in DOMAIN nodes : nodes[n] \in TreeNodes
  BY DEF TreesSound, TreesTyped
<1>3. Front \in Nat /\ 1 <= Front /\ Front <= next
  <2>1. CASE operand = 0
    BY <1>1, <2>1 DEF Front
  <2>2. CASE operand # 0
    <3>1. nodes[operand].span.start \in Nat
      BY <1>1, <1>2, <2>2 DEF TreeNodes
    <3>2. NodeSound(operand)
      BY <1>1, <2>2 DEF TreesSound, NodesSound
    <3>3. nodes[operand].span.start >= 1 /\ nodes[operand].span.start <= nodes[operand].span.end
      BY <3>2 DEF NodeSound, SoundNode, Spanned
    <3>4. nodes[operand].span.end = next - 1
      BY <2>2 DEF TreesSound, OperandSound
    <3> QED BY <1>1, <2>2, <3>1, <3>3, <3>4 DEF Front
  <2> QED BY <2>1, <2>2
<1>4. Wanted \in 1..11
  <2>1. CASE frames = <<>>
    BY <2>1 DEF Wanted
  <2>2. CASE frames # <<>>
    <3>1. Top \in TreeFrames
      BY <2>2, FramesFacts
    <3> QED BY <2>2, <3>1 DEF Wanted, TreeFrames
  <2> QED BY <2>1, <2>2
<1> QED BY <1>1, <1>2, <1>3, <1>4

LEMMA OperandFacts ==
    ASSUME TreesSound, operand # 0
    PROVE  /\ operand \in DOMAIN nodes /\ nodes[operand] \in TreeNodes
           /\ nodes[operand].span.start = Front /\ nodes[operand].span.end = next - 1
           /\ Front < next
           /\ nodes[operand].reads = Front..(next - 1)
           /\ Rank(nodes[operand].kind) >= Wanted
           /\ SoundNode(nodes[operand])
<1>1. operand \in DOMAIN nodes /\ nodes[operand] \in TreeNodes
  BY StateFacts
<1>2. NodeSound(operand)
  BY <1>1 DEF TreesSound, NodesSound
<1>3. SoundNode(nodes[operand]) /\ Spanned(nodes[operand])
  BY <1>2 DEF NodeSound, SoundNode
<1>4. nodes[operand].span.end = next - 1 /\ Rank(nodes[operand].kind) >= Wanted
  BY DEF TreesSound, OperandSound
<1>5. nodes[operand].span.start = Front
  BY DEF Front
<1>6. Front <= next - 1 /\ nodes[operand].reads = Front..(next - 1)
  BY <1>3, <1>4, <1>5 DEF Spanned
<1>7. Front < next
  BY <1>6, StateFacts
<1> QED BY <1>1, <1>3, <1>4, <1>5, <1>6, <1>7

LEMMA TopFacts ==
    ASSUME TreesSound, frames # <<>>
    PROVE  /\ Top \in TreeFrames /\ SoundFrame(Top, Front - 1, Outer(Len(frames)))
           /\ Wanted = Top.level
           /\ Outer(Len(frames)) \in 1..11
<1>1. Len(frames) \in DOMAIN frames /\ Len(frames) \in Nat /\ DOMAIN frames = 1..Len(frames)
  BY FramesFacts
<1>2. FrameSound(Len(frames))
  BY <1>1 DEF TreesSound
<1>3. Outer(Len(frames)) \in 1..11
  <2>1. CASE Len(frames) = 1
    BY <2>1 DEF Outer
  <2>2. CASE Len(frames) # 1
    <3>1. Len(frames) - 1 \in DOMAIN frames
      BY <1>1, <2>2
    <3>2. frames[Len(frames) - 1] \in TreeFrames
      BY <3>1, FramesFacts
    <3> QED BY <2>2, <3>2 DEF Outer, TreeFrames
  <2> QED BY <2>1, <2>2
<1> QED BY <1>2, <1>3, FramesFacts DEF FrameSound, Wanted

LEMMA TokenRead ==
    ASSUME TreesSound, NEW i \in Nat, Token(i) # "end"
    PROVE  i \in 1..Len(sentence) /\ sentence[i] = Token(i)
BY StateFacts DEF Token

LEMMA ReadForIn ==
    ASSUME TreesSound, NEW parts \in Seq(DOMAIN nodes)
    PROVE  ReadFor(parts) \subseteq Nat /\ parts \in Seq(Nat)
<1>1. \A part \in Elements(parts) : nodes[part].reads \subseteq Nat
  BY ElementsIn, StateFacts DEF TreeNodes
<1>2. DOMAIN nodes \subseteq Nat
  BY StateFacts
<1> QED BY <1>1, <1>2, SeqWidens DEF ReadFor

LEMMA NodeInTreeNodes ==
    ASSUME TreesSound, NEW kind \in NodeKinds, NEW first \in Nat, NEW last \in Nat,
           NEW own \in SUBSET Nat, NEW parts \in Seq(DOMAIN nodes)
    PROVE  Node(kind, Span(first, last), own, parts) \in TreeNodes
BY ReadForIn DEF Node, Span, TreeNodes

(* A step that builds a sound node.                                         *)
LEMMA BuildStep ==
    ASSUME TreesSound, NEW node \in TreeNodes, Build(node), sentence' = sentence,
           next' \in Nat, next <= next', next' <= Len(sentence) + 1,
           frames' \in Seq(TreeFrames),
           node.parts \in Seq(DOMAIN nodes), SoundNode(node), node.span.end < next'
    PROVE  /\ Grows /\ TreesTyped' /\ NodesSound'
           /\ operand' # 0 /\ nodes'[operand'] = node
<1>1. TreesTyped /\ NodesSound /\ sentence \in Seq(Terminals)
  BY DEF TreesSound, TreesTyped
<1>2. nodes' = Append(nodes, node) /\ operand' = Len(nodes) + 1
  BY DEF Build
<1>3. /\ Grows /\ NodesSound' /\ nodes' \in Seq(TreeNodes)
      /\ Len(nodes') = Len(nodes) + 1 /\ nodes'[Len(nodes) + 1] = node
  BY <1>1, <1>2, BuiltSound
<1>4. operand' # 0 /\ operand' \in 0..Len(nodes')
  BY <1>2, <1>3, StateFacts
<1>5. next' \in 1..(Len(sentence') + 1)
  BY StateFacts
<1> QED BY <1>1, <1>2, <1>3, <1>4, <1>5 DEF TreesTyped

(* A step that builds nothing.                                              *)
LEMMA ReadStep ==
    ASSUME TreesSound, UNCHANGED <<sentence, nodes>>,
           next' \in Nat, next <= next', next' <= Len(sentence) + 1,
           frames' \in Seq(TreeFrames), operand' = 0
    PROVE  Grows /\ TreesTyped' /\ NodesSound'
<1>1. Grows
  BY DEF Grows
<1>2. TreesTyped'
  <2>1. sentence \in Seq(Terminals) /\ nodes \in Seq(TreeNodes)
    BY DEF TreesSound, TreesTyped
  <2>2. next' \in 1..(Len(sentence) + 1) /\ operand' \in 0..Len(nodes)
    BY StateFacts
  <2> QED BY <2>1, <2>2 DEF TreesTyped
<1>3. ASSUME NEW n \in DOMAIN nodes PROVE NodeSound(n)'
  <2>1. NodeSound(n) /\ nodes[n] \in TreeNodes
    BY StateFacts DEF TreesSound, NodesSound
  <2>2. nodes[n].parts \in Seq(1..(n - 1)) /\ SoundNode(nodes[n]) /\ nodes[n].span.end < next
    BY <2>1 DEF NodeSound
  <2>3. nodes[n].parts \in Seq(DOMAIN nodes)
    <3>1. 1..(n - 1) \subseteq DOMAIN nodes
      BY StateFacts
    <3> QED BY <3>1, <2>2, SeqWidens
  <2>4. PICK old : old = nodes[n]
    OBVIOUS
  <2>5. SoundNode(old)'
    <3>1. old.kind \in NodeKinds /\ TreesTyped /\ NodesSound
      BY <2>1, <2>4 DEF TreeNodes, TreesSound
    <3> QED BY <1>1, <2>2, <2>3, <2>4, <3>1, SoundNodeKept
  <2>6. SoundNode(nodes[n])'
    BY <2>4, <2>5
  <2>7. nodes[n].span.end < next'
    <3>1. nodes[n].span.end \in Nat
      BY <2>1 DEF TreeNodes
    <3> QED BY <3>1, <2>2, StateFacts
  <2> QED BY <2>2, <2>6, <2>7 DEF NodeSound
<1> QED BY <1>1, <1>2, <1>3 DEF NodesSound

-----------------------------------------------------------------------------
LEMMA KindRanks ==
    /\ Rank("NOT") = 4 /\ ~IsOperator("NOT")
    /\ Rank("IS") = 6 /\ ~IsOperator("IS")
    /\ Rank("sign") = 11 /\ ~IsOperator("sign")
    /\ \A kind \in {"property", "index", "slice"} : Rank(kind) = 12 /\ ~IsOperator(kind)
    /\ \A kind \in {"v", "parens", "list", "comprehension"} : Rank(kind) = 13 /\ ~IsOperator(kind)
BY DEF Rank, Level, IsOperator

LEMMA NameSound ==
    ASSUME TreesSound, Name
    PROVE  TreesSound'
<1> DEFINE node == Node("v", Span(next, next), {next}, <<>>)
<1>1. next \in Nat /\ next >= 1 /\ next \in 1..Len(sentence) /\ sentence[next] = "v"
  BY StateFacts, TokenRead DEF Name
<1>2. operand = 0 /\ ~In({"folding"}) /\ Build(node) /\ next' = next + 1
      /\ UNCHANGED <<frames, sentence>>
  BY DEF Name, Expecting, Read
<1>3. node \in TreeNodes /\ <<>> \in Seq(DOMAIN nodes)
  <2>1. <<>> \in Seq(DOMAIN nodes)
    OBVIOUS
  <2>2. "v" \in NodeKinds
    BY DEF NodeKinds
  <2> QED BY <1>1, <2>1, <2>2, NodeInTreeNodes
<1>4. /\ node.kind = "v" /\ node.span.start = next /\ node.span.end = next
      /\ node.parts = <<>> /\ node.own = {next} /\ node.reads = {next} \cup ReadFor(<<>>)
  BY DEF Node, Span
<1>5. SoundNode(node)
  <2>1. {next} \cup ReadFor(<<>>) = next..next
    BY <1>1, ReadForFew
  <2>2. /\ \A k \in 2..Len(<<>>) : nodes[<<>>[k - 1]].span.end < nodes[<<>>[k]].span.start
        /\ \A part \in Elements(<<>>) : {next} \cap nodes[part].reads = {}
    BY ElementsOfFew
  <2> HIDE DEF node
  <2>3. Spanned(node) /\ OwnTokens(node)
    BY <1>1, <1>4, <2>1, <2>2 DEF Spanned, OwnTokens
  <2>4. GroupsToTheLeft(node) /\ ParenthesesMakeAList(node)
    BY <1>4, KindRanks DEF GroupsToTheLeft, ParenthesesMakeAList
  <2>5. Arity(node) /\ Operation(node) /\ NameToken(node)
    BY <1>1, <1>4, KindRanks DEF Arity, Operation, NameToken
  <2> QED BY <1>1, <1>4, <2>3, <2>4, <2>5 DEF SoundNode
<1> HIDE DEF node
<1>6. frames \in Seq(TreeFrames)
  BY DEF TreesSound, TreesTyped
<1>7. Grows /\ TreesTyped' /\ NodesSound' /\ operand' # 0 /\ nodes'[operand'] = node
  <2>1. node.parts \in Seq(DOMAIN nodes) /\ node.span.end < next'
    BY <1>1, <1>2, <1>3, <1>4
  <2>2. next' \in Nat /\ next <= next' /\ next' <= Len(sentence) + 1
    BY <1>1, <1>2, StateFacts
  <2> QED BY <1>2, <1>3, <1>5, <1>6, <2>1, <2>2, BuildStep
<1>8. OperandSound'
  <2>1. Wanted' = Wanted
    BY <1>2 DEF Wanted, Top
  <2>2. Rank(node.kind) >= Wanted
    BY <1>4, KindRanks, StateFacts
  <2>3. node.span.end = next' - 1
    BY <1>1, <1>2, <1>4
  <2> QED BY <1>7, <2>1, <2>2, <2>3 DEF OperandSound
<1>9. nodes'[operand'].span.start = Front
  BY <1>2, <1>4, <1>7 DEF Front
<1> QED BY <1>2, <1>7, <1>8, <1>9, OperandStep

(* A construct that is opened with its first token.                         *)
LEMMA OpeningSound ==
    ASSUME TreesSound, Expecting, NEW kind \in {"(", "[", "NOT", "sign"}, NEW level \in 1..11,
           kind \in {"(", "["} => level = 1,
           kind = "NOT" => level = 4 /\ Wanted <= 4,
           kind = "sign" => level = 11 /\ Wanted <= 11,
           Push(Frame(kind, level, <<next>>, <<>>)), Token(next) # "end",
           Read(1), UNCHANGED nodes
    PROVE  TreesSound'
<1>1. next \in Nat /\ next >= 1 /\ next \in 1..Len(sentence) /\ next' = next + 1
      /\ sentence' = sentence
  BY StateFacts, TokenRead DEF Read
<1>2. operand = 0 /\ ~In({"folding"})
  BY DEF Expecting
<1>3. PICK frame : frame = Frame(kind, level, <<next>>, <<>>)
  OBVIOUS
<1>4. /\ frame.kind = kind /\ frame.level = level /\ frame.own = <<next>> /\ frame.parts = <<>>
      /\ frame \in TreeFrames
  <2>1. kind \in FrameKinds
    BY DEF FrameKinds, BracketFrames
  <2>2. <<next>> \in Seq(Nat) /\ <<>> \in Seq(Nat)
    BY <1>1
  <2>3. frame = [kind |-> kind, level |-> level, own |-> <<next>>, parts |-> <<>>]
    BY <1>3 DEF Frame
  <2> QED BY <2>1, <2>2, <2>3 DEF TreeFrames
<1>5. kind \notin InfixFrames /\ kind # "folding" /\ Start(frame) = next
  BY <1>4 DEF InfixFrames, Start
<1>6. PICK to : to = next
  OBVIOUS
<1>7. PICK outer : outer = Wanted
  OBVIOUS
<1>8. SoundFrame(frame, to, outer)
  <2>1. Elements(frame.own) = {next} /\ Elements(frame.parts) = {} /\ ReadFor(frame.parts) = {}
    BY <1>4, ElementsOfFew, ReadForFew
  <2>2. Tiles(frame, to)
    <3>1. {next} \cup {} = next..to
      BY <1>1, <1>6
    <3>2. 2..Len(frame.parts) = {}
      BY <1>4
    <3>3. 1 <= Start(frame) /\ Start(frame) <= to
      BY <1>1, <1>5, <1>6
    <3> QED BY <1>5, <2>1, <3>1, <3>2, <3>3 DEF Tiles
  <2>3. frame.own \in Seq(Nat) /\ frame.own # <<>> /\ frame.parts \in Seq(DOMAIN nodes)
    BY <1>1, <1>4
  <2>4. Prefixed(frame, outer)
    BY <1>4, <1>7 DEF Prefixed
  <2>5. Bracketed(frame, outer) /\ Folded(frame, to, outer)
    BY <1>4 DEF Bracketed, Folded, BracketFrames
  <2> QED BY <2>2, <2>3, <2>4, <2>5 DEF SoundFrame
<1>9. frames' = Append(frames, frame) /\ operand' = 0 /\ frames' \in Seq(TreeFrames) /\ Push(frame)
  <2>1. frames \in Seq(TreeFrames)
    BY DEF TreesSound, TreesTyped
  <2>2. frames' = Append(frames, frame) /\ operand' = 0 /\ Push(frame)
    BY <1>3 DEF Push
  <2> QED BY <1>4, <2>1, <2>2
<1>10. Grows /\ TreesTyped' /\ NodesSound'
  <2>1. next' \in Nat /\ next <= next' /\ next' <= Len(sentence) + 1
    BY <1>1, StateFacts
  <2> QED BY <1>1, <1>9, <2>1, ReadStep
<1>11. SoundFrame(frame, to, outer)' /\ Start(frame)' = Start(frame)
  <2>1. TreesTyped
    BY DEF TreesSound
  <2> QED BY <1>8, <1>10, <2>1, SoundFrameKept, FromKept
<1>12. Start(frame)' = Front /\ to = next' - 1
  BY <1>1, <1>2, <1>5, <1>6, <1>11 DEF Front
<1> QED BY <1>2, <1>4, <1>5, <1>7, <1>9, <1>10, <1>11, <1>12, PushStep

LEMMA OpenSound ==
    ASSUME TreesSound, Open
    PROVE  TreesSound'
<1>1. PICK kind \in {"(", "["} : kind = Token(next)
  BY DEF Open
<1> QED BY <1>1, OpeningSound DEF Open

LEMMA PrefixSound ==
    ASSUME TreesSound, Prefix
    PROVE  TreesSound'
<1>1. Expecting /\ Read(1) /\ UNCHANGED nodes
  BY DEF Prefix
<1>2. CASE Token(next) = "NOT" /\ Wanted <= 4 /\ Push(Frame("NOT", 4, <<next>>, <<>>))
  BY <1>1, <1>2, OpeningSound
<1>3. CASE Token(next) \in {"+", "-"} /\ Wanted <= 11 /\ Push(Frame("sign", 11, <<next>>, <<>>))
  BY <1>1, <1>3, OpeningSound
<1> QED BY <1>2, <1>3 DEF Prefix

(* A construct that is opened behind its first operand.                     *)
LEMMA SuffixOpened ==
    ASSUME TreesSound, operand # 0, NEW kind \in {"fold", "index"}, NEW level \in 1..11,
           kind = "index" =>
               level = 1 /\ Rank(nodes[operand].kind) >= 12 /\ Wanted <= 12,
           kind = "fold" =>
               /\ IsOperator(Token(next)) /\ level = Level(Token(next)) + 1
               /\ Rank(nodes[operand].kind) >= level /\ Wanted < level,
           Push(Frame(kind, level, <<next>>, <<operand>>)), Token(next) # "end",
           Read(1), UNCHANGED nodes
    PROVE  TreesSound'
<1>1. next \in Nat /\ next >= 1 /\ next \in 1..Len(sentence) /\ next' = next + 1
      /\ sentence' = sentence /\ sentence[next] = Token(next)
  BY StateFacts, TokenRead DEF Read
<1>2. ~In({"folding"})
  BY FramesFacts DEF In
<1>3. PICK frame : frame = Frame(kind, level, <<next>>, <<operand>>)
  OBVIOUS
<1>4. operand \in DOMAIN nodes /\ operand \in Nat /\ DOMAIN nodes = 1..Len(nodes)
      /\ Front \in Nat /\ Front < next
  BY StateFacts, OperandFacts
<1>5. /\ frame.kind = kind /\ frame.level = level /\ frame.own = <<next>>
      /\ frame.parts = <<operand>> /\ frame \in TreeFrames
  <2>1. kind \in FrameKinds
    BY DEF FrameKinds, InfixFrames
  <2>2. <<next>> \in Seq(Nat) /\ <<operand>> \in Seq(Nat)
    BY <1>1, <1>4
  <2>3. frame = [kind |-> kind, level |-> level, own |-> <<next>>, parts |-> <<operand>>]
    BY <1>3 DEF Frame
  <2> QED BY <2>1, <2>2, <2>3 DEF TreeFrames
<1>6. kind \in InfixFrames /\ kind # "folding" /\ Start(frame) = Front
  BY <1>5, OperandFacts DEF InfixFrames, Start
<1>7. PICK to : to = next
  OBVIOUS
<1>8. PICK outer : outer = Wanted
  OBVIOUS
<1>9. SoundFrame(frame, to, outer)
  <2>1. Elements(frame.own) = {next} /\ Elements(frame.parts) = {operand}
        /\ ReadFor(frame.parts) = nodes[operand].reads
    BY <1>5, ElementsOfFew, ReadForFew
  <2>2. Tiles(frame, to)
    <3>1. nodes[operand].reads = Front..(next - 1)
      BY OperandFacts
    <3>2. {next} \cup Front..(next - 1) = Front..to /\ {next} \cap Front..(next - 1) = {}
      BY <1>1, <1>4, <1>7
    <3>3. 2..Len(frame.parts) = {}
      BY <1>5
    <3>4. 1 <= Start(frame) /\ Start(frame) <= to
      BY <1>1, <1>4, <1>6, <1>7, StateFacts
    <3> QED BY <1>6, <2>1, <3>1, <3>2, <3>3, <3>4 DEF Tiles
  <2>3. frame.own \in Seq(Nat) /\ frame.own # <<>> /\ frame.parts \in Seq(DOMAIN nodes)
    BY <1>1, <1>4, <1>5
  <2>4. Prefixed(frame, outer)
    BY <1>5 DEF Prefixed
  <2>5. Bracketed(frame, outer)
    <3>1. Len(frame.parts) = 1 /\ frame.parts[1] = operand
      BY <1>5
    <3>2. CASE kind = "index"
      BY <1>5, <1>8, <3>1, <3>2 DEF Bracketed, BracketFrames
    <3>3. CASE kind = "fold"
      BY <1>5, <3>3 DEF Bracketed, BracketFrames
    <3> QED BY <3>2, <3>3
  <2>6. Folded(frame, to, outer)
    <3>1. CASE kind = "index"
      BY <1>5, <3>1 DEF Folded
    <3>2. CASE kind = "fold"
      <4>1. /\ IsOperator(Token(next)) /\ level = Level(Token(next)) + 1
            /\ Rank(nodes[operand].kind) >= level /\ Wanted < level
        BY <3>2
      <4>2. level - 1 \in (1..3) \cup (5..10) /\ level - 1 = Level(Token(next))
        BY <4>1, OperatorRank
      <4>3. next = nodes[operand].span.end + 1
        BY <1>1, OperandFacts
      <4>4. Turns(frame)
        <5>1. DOMAIN frame.own = {1} /\ DOMAIN frame.parts = {1} /\ Len(frame.own) = 1
              /\ frame.own[1] = next /\ frame.parts[1] = operand
          BY <1>5
        <5>2. ~LooserFirst(frame)
          BY <1>5, <3>2 DEF LooserFirst
        <5>3. /\ Rank(nodes[frame.parts[1]].kind) >= frame.level
              /\ frame.own[1] = nodes[frame.parts[1]].span.end + 1
              /\ IsOperator(sentence[frame.own[1]])
              /\ Level(sentence[frame.own[1]]) = frame.level - 1
          BY <1>1, <1>5, <4>1, <4>2, <4>3, <5>1
        <5>4. frame.level - 1 \in (1..3) \cup (5..10)
          BY <1>5, <4>2
        <5>5. 2 \notin DOMAIN frame.parts
          BY <5>1
        <5> QED BY <5>1, <5>2, <5>3, <5>4, <5>5 DEF Turns
      <4> QED BY <1>5, <1>7, <1>8, <3>2, <4>1, <4>4 DEF Folded
    <3> QED BY <3>1, <3>2
  <2> QED BY <2>2, <2>3, <2>4, <2>5, <2>6 DEF SoundFrame
<1>10. frames' = Append(frames, frame) /\ operand' = 0 /\ frames' \in Seq(TreeFrames) /\ Push(frame)
  <2>1. frames \in Seq(TreeFrames)
    BY DEF TreesSound, TreesTyped
  <2>2. frames' = Append(frames, frame) /\ operand' = 0 /\ Push(frame)
    BY <1>3 DEF Push
  <2> QED BY <1>5, <2>1, <2>2
<1>11. Grows /\ TreesTyped' /\ NodesSound'
  <2>1. next' \in Nat /\ next <= next' /\ next' <= Len(sentence) + 1
    BY <1>1, StateFacts
  <2> QED BY <1>1, <1>10, <2>1, ReadStep
<1>12. SoundFrame(frame, to, outer)' /\ Start(frame)' = Start(frame)
  <2>1. TreesTyped
    BY DEF TreesSound
  <2> QED BY <1>9, <1>11, <2>1, SoundFrameKept, FromKept
<1>13. Start(frame)' = Front /\ to = next' - 1
  BY <1>1, <1>6, <1>7, <1>12
<1> QED BY <1>2, <1>5, <1>6, <1>8, <1>10, <1>11, <1>12, <1>13, PushStep

LEMMA OperatorSound ==
    ASSUME TreesSound, Operator
    PROVE  TreesSound'
<1>1. /\ operand # 0 /\ IsOperator(Token(next)) /\ Level(Token(next)) >= Wanted
      /\ Rank(nodes[operand].kind) > Level(Token(next))
      /\ Push(Frame("fold", Level(Token(next)) + 1, <<next>>, <<operand>>))
      /\ Read(1) /\ UNCHANGED nodes
  BY DEF Operator, Continues
<1>2. Level(Token(next)) + 1 \in 1..11 /\ Token(next) # "end"
  BY <1>1, OperatorRank
<1>3. PICK level : level = Level(Token(next)) + 1
  OBVIOUS
<1>4. Rank(nodes[operand].kind) >= level /\ Wanted < level /\ level \in 1..11
  <2>1. Level(Token(next)) \in 0..12 /\ Rank(nodes[operand].kind) \in 0..13
    BY LevelRange
  <2>2. Wanted \in 1..11
    BY StateFacts
  <2> QED BY <1>1, <1>2, <1>3, <2>1, <2>2
<1> QED BY <1>1, <1>2, <1>3, <1>4, SuffixOpened

LEMMA SubscriptSound ==
    ASSUME TreesSound, Subscript
    PROVE  TreesSound'
<1>1. Wanted <= 12
  BY StateFacts
<1> QED BY <1>1, SuffixOpened DEF Subscript, Continues

-----------------------------------------------------------------------------
LEMMA OneNumber ==
    ASSUME NEW a \in Int, NEW b \in Int, a <= b, {a} = a..b
    PROVE  b = a
<1>1. b \in a..b
  OBVIOUS
<1> QED BY <1>1

LEMMA EndPrefixSound ==
    ASSUME TreesSound, EndPrefix
    PROVE  TreesSound'
<1>1. /\ operand # 0 /\ frames # <<>> /\ Top.kind \in {"NOT", "sign"}
      /\ Build(Node(Top.kind, Span(Top.own[1], nodes[operand].span.end),
                    Elements(Top.own), <<operand>>))
      /\ frames' = Below /\ sentence' = sentence /\ next' = next
  BY DEF EndPrefix, Complete, In
<1>2. /\ operand \in DOMAIN nodes /\ nodes[operand].span.end = next - 1
      /\ nodes[operand].span.start = Front
      /\ nodes[operand].reads = Front..(next - 1)
      /\ Front \in Nat /\ Front < next /\ next \in Nat /\ next <= Len(sentence) + 1
      /\ Rank(nodes[operand].kind) >= Wanted
  BY <1>1, OperandFacts, StateFacts
<1>3. /\ Top \in TreeFrames /\ SoundFrame(Top, Front - 1, Outer(Len(frames)))
      /\ Wanted = Top.level /\ Outer(Len(frames)) \in 1..11
  BY <1>1, TopFacts
<1>4. PICK first : first = Top.own[1]
  OBVIOUS
<1>5. /\ Top.own \in Seq(Nat) /\ Len(Top.own) = 1 /\ Top.parts = <<>>
      /\ Tiles(Top, Front - 1)
      /\ Top.kind = "NOT" => Top.level = 4 /\ Outer(Len(frames)) <= 4
      /\ Top.kind = "sign" => Top.level = 11 /\ Outer(Len(frames)) <= 11
  BY <1>1, <1>3 DEF SoundFrame, Prefixed
<1>6. first \in Nat /\ Elements(Top.own) = {first} /\ Start(Top) = first
  <2>1. Start(Top) = first
    BY <1>1, <1>4 DEF Start, InfixFrames
  <2>2. first \in Nat /\ Elements(Top.own) = {first}
    BY <1>4, <1>5 DEF Elements
  <2> QED BY <2>1, <2>2
<1>7. {first} = first..(Front - 1) /\ first <= Front - 1
  BY <1>5, <1>6, ReadForFew DEF Tiles
<1>8. Front - 1 = first /\ first >= 1
  <2>1. Front - 1 \in Int
    BY <1>2
  <2>2. first >= 1
    BY <1>5, <1>6 DEF Tiles
  <2> QED BY <1>6, <1>7, <2>1, <2>2, OneNumber
<1>9. PICK node : node = Node(Top.kind, Span(first, next - 1), {first}, <<operand>>)
  OBVIOUS
<1>10. /\ node.kind = Top.kind /\ node.span.start = first /\ node.span.end = next - 1
       /\ node.parts = <<operand>> /\ node.own = {first}
       /\ node.reads = {first} \cup nodes[operand].reads
  BY <1>9, ReadForFew DEF Node, Span
<1>11. <<operand>> \in Seq(DOMAIN nodes) /\ node \in TreeNodes
  <2>1. <<operand>> \in Seq(DOMAIN nodes)
    BY <1>2
  <2>2. Top.kind \in NodeKinds
    BY <1>1 DEF NodeKinds
  <2>3. next - 1 \in Nat /\ {first} \in SUBSET Nat
    BY <1>2, <1>6
  <2> QED BY <1>6, <1>9, <2>1, <2>2, <2>3, NodeInTreeNodes
<1>12. SoundNode(node)
  <2>1. Spanned(node) /\ OwnTokens(node)
    <3>1. node.reads = first..(next - 1) /\ {first} \cap nodes[operand].reads = {}
      BY <1>2, <1>6, <1>8, <1>10
    <3>2. Elements(node.parts) = {operand} /\ 2..Len(node.parts) = {}
      BY <1>10, ElementsOfFew
    <3>3. first <= next - 1
      BY <1>2, <1>6, <1>8
    <3>4. Spanned(node)
      BY <1>10, <3>1, <3>2, <3>3 DEF Spanned
    <3>5. OwnTokens(node)
      BY <1>10, <3>1, <3>2 DEF OwnTokens
    <3> QED BY <3>4, <3>5
  <2>2. node.reads = node.own \cup ReadFor(node.parts)
    BY <1>10, ReadForFew
  <2>3. node.parts[1] = operand /\ Len(node.parts) = 1
    BY <1>10
  <2>4. GroupsToTheLeft(node)
    BY <1>1, <1>2, <1>3, <1>5, <1>10, <2>3, KindRanks DEF GroupsToTheLeft
  <2>5. ParenthesesMakeAList(node)
    BY <1>1, <1>10 DEF ParenthesesMakeAList
  <2>6. Arity(node) /\ Operation(node) /\ NameToken(node)
    BY <1>1, <1>10, <2>3, KindRanks DEF Arity, Operation, NameToken
  <2> QED BY <1>8, <1>10, <2>1, <2>2, <2>4, <2>5, <2>6 DEF SoundNode
<1>13. Grows /\ TreesTyped' /\ NodesSound' /\ operand' # 0 /\ nodes'[operand'] = node
  <2>1. Build(node)
    BY <1>1, <1>2, <1>4, <1>6, <1>9
  <2>2. node.parts \in Seq(DOMAIN nodes) /\ node.span.end < next'
    BY <1>1, <1>2, <1>10, <1>11
  <2>3. frames' \in Seq(TreeFrames)
    BY <1>1, FramesBelow
  <2>4. next' \in Nat /\ next <= next' /\ next' <= Len(sentence) + 1
    BY <1>1, <1>2
  <2> QED BY <1>1, <1>11, <1>12, <2>1, <2>2, <2>3, <2>4, BuildStep
<1>14. Rank(node.kind) >= Outer(Len(frames))
  BY <1>1, <1>3, <1>5, <1>10, KindRanks
<1> QED BY <1>1, <1>6, <1>10, <1>13, <1>14, PopStep

(* A suffix that is read at once.                                           *)
LEMMA SuffixBuilt ==
    ASSUME TreesSound, operand # 0, NEW kind \in {"IS", "property"},
           NEW last \in Nat, next <= last, last <= Len(sentence),
           kind = "IS" => Rank(nodes[operand].kind) > 6 /\ Wanted <= 6,
           kind = "property" => Rank(nodes[operand].kind) >= 12,
           Build(Node(kind, Span(Front, last), next..last, <<operand>>)),
           next' = last + 1, UNCHANGED <<sentence, frames>>
    PROVE  TreesSound'
<1>1. /\ operand \in DOMAIN nodes /\ nodes[operand].span.end = next - 1
      /\ nodes[operand].span.start = Front
      /\ nodes[operand].reads = Front..(next - 1)
      /\ Front \in Nat /\ Front >= 1 /\ Front < next /\ next \in Nat
      /\ Len(sentence) \in Nat
  BY OperandFacts, StateFacts
<1>2. PICK node : node = Node(kind, Span(Front, last), next..last, <<operand>>)
  OBVIOUS
<1>3. /\ node.kind = kind /\ node.span.start = Front /\ node.span.end = last
      /\ node.parts = <<operand>> /\ node.own = next..last
      /\ node.reads = next..last \cup nodes[operand].reads
  BY <1>2, ReadForFew DEF Node, Span
<1>4. <<operand>> \in Seq(DOMAIN nodes) /\ node \in TreeNodes
  <2>1. <<operand>> \in Seq(DOMAIN nodes)
    BY <1>1
  <2>2. kind \in NodeKinds
    BY DEF NodeKinds
  <2>3. next..last \in SUBSET Nat
    BY <1>1
  <2> QED BY <1>1, <1>2, <2>1, <2>2, <2>3, NodeInTreeNodes
<1>5. SoundNode(node)
  <2>1. node.reads = Front..last /\ next..last \cap nodes[operand].reads = {}
    BY <1>1, <1>3
  <2>2. Elements(node.parts) = {operand} /\ 2..Len(node.parts) = {}
    BY <1>3, ElementsOfFew
  <2>3. Front <= last
    BY <1>1
  <2>4. Spanned(node)
    BY <1>3, <2>1, <2>2, <2>3 DEF Spanned
  <2>5. OwnTokens(node)
    BY <1>3, <2>1, <2>2 DEF OwnTokens
  <2>6. node.reads = node.own \cup ReadFor(node.parts)
    BY <1>3, ReadForFew
  <2>7. node.parts[1] = operand /\ Len(node.parts) = 1
    BY <1>3
  <2>8. GroupsToTheLeft(node)
    BY <1>3, <2>7, KindRanks DEF GroupsToTheLeft
  <2>9. ParenthesesMakeAList(node)
    BY <1>3 DEF ParenthesesMakeAList
  <2>10. Arity(node) /\ Operation(node) /\ NameToken(node)
    BY <1>3, <2>7, KindRanks DEF Arity, Operation, NameToken
  <2> QED BY <1>1, <1>3, <2>4, <2>5, <2>6, <2>8, <2>9, <2>10 DEF SoundNode
<1>6. Grows /\ TreesTyped' /\ NodesSound' /\ operand' # 0 /\ nodes'[operand'] = node
  <2>1. Build(node)
    BY <1>2
  <2>2. node.parts \in Seq(DOMAIN nodes) /\ node.span.end < next'
    BY <1>3, <1>4
  <2>3. frames' \in Seq(TreeFrames)
    BY DEF TreesSound, TreesTyped
  <2>4. next' \in Nat /\ next <= next' /\ next' <= Len(sentence) + 1
    BY <1>1
  <2> QED BY <1>4, <1>5, <2>1, <2>2, <2>3, <2>4, BuildStep
<1>7. OperandSound'
  <2>1. Wanted' = Wanted
    BY DEF Wanted, Top
  <2>2. Rank(node.kind) >= Wanted
    BY <1>3, KindRanks, StateFacts
  <2>3. node.span.end = next' - 1
    BY <1>3
  <2> QED BY <1>6, <2>1, <2>2, <2>3 DEF OperandSound
<1>8. ~In({"folding"})
  BY FramesFacts DEF In
<1> QED BY <1>3, <1>6, <1>7, <1>8, OperandStep

LEMMA NullTestSound ==
    ASSUME TreesSound, NullTest
    PROVE  TreesSound'
<1>1. /\ operand # 0 /\ Level("IS") >= Wanted /\ Rank(nodes[operand].kind) > 6
      /\ UNCHANGED frames
  BY DEF NullTest, Continues
<1>2. PICK last \in {next + 1, next + 2} :
        /\ Token(last) = "NULL"
        /\ Build(Suffixed("IS", next..last, last, <<operand>>))
        /\ next' = next + (last + 1 - next) /\ sentence' = sentence
  BY DEF NullTest, Read
<1>3. next \in Nat /\ last \in Nat /\ next <= last /\ Front \in Nat
  BY StateFacts
<1>4. last <= Len(sentence)
  BY <1>2, <1>3, TokenRead
<1>5. Suffixed("IS", next..last, last, <<operand>>)
        = Node("IS", Span(Front, last), next..last, <<operand>>)
  BY <1>1 DEF Suffixed, Front
<1>6. Wanted <= 6
  BY <1>1 DEF Level
<1>7. next' = last + 1
  BY <1>2, <1>3
<1> QED BY <1>1, <1>2, <1>3, <1>4, <1>5, <1>6, <1>7, SuffixBuilt

LEMMA PropertySound ==
    ASSUME TreesSound, Property
    PROVE  TreesSound'
<1>1. /\ operand # 0 /\ Rank(nodes[operand].kind) >= 12 /\ Token(next + 1) = "v"
      /\ Build(Node("property", Cover(nodes[operand].span, Span(next + 1, next + 1)),
                    {next, next + 1}, <<operand>>))
      /\ next' = next + 2 /\ UNCHANGED <<sentence, frames>>
  BY DEF Property, Continues, Read
<1>2. /\ next \in Nat /\ next + 1 \in Nat /\ Front \in Nat /\ Front < next
      /\ nodes[operand].span.start = Front /\ nodes[operand].span.end = next - 1
  BY <1>1, StateFacts, OperandFacts
<1>3. next + 1 <= Len(sentence)
  BY <1>1, <1>2, TokenRead
<1>4. Cover(nodes[operand].span, Span(next + 1, next + 1)) = Span(Front, next + 1)
  BY <1>2 DEF Cover, Span
<1>5. {next, next + 1} = next..(next + 1)
  BY <1>2
<1>6. Build(Node("property", Span(Front, next + 1), next..(next + 1), <<operand>>))
  BY <1>1, <1>4, <1>5
<1>7. next' = (next + 1) + 1 /\ next <= next + 1
  BY <1>1, <1>2
<1>8. PICK last \in Nat : last = next + 1
  BY <1>2
<1> QED BY <1>1, <1>3, <1>6, <1>7, <1>8, SuffixBuilt

-----------------------------------------------------------------------------
(* What an open construct holds, with the operand if there is one.          *)
LEMMA PartFacts ==
    ASSUME TreesSound, NEW n \in DOMAIN nodes
    PROVE  /\ nodes[n] \in TreeNodes /\ SoundNode(nodes[n])
           /\ nodes[n].span.start \in Nat /\ nodes[n].span.end \in Nat
           /\ 1 <= nodes[n].span.start /\ nodes[n].span.start <= nodes[n].span.end
           /\ nodes[n].reads = nodes[n].span.start..nodes[n].span.end
           /\ nodes[n].span.start \in nodes[n].reads /\ nodes[n].span.end \in nodes[n].reads
<1>1. nodes[n] \in TreeNodes
  BY StateFacts
<1>2. nodes[n].span.start \in Nat /\ nodes[n].span.end \in Nat
  BY <1>1 DEF TreeNodes
<1>3. SoundNode(nodes[n])
  BY DEF TreesSound, NodesSound, NodeSound
<1>4. /\ 1 <= nodes[n].span.start /\ nodes[n].span.start <= nodes[n].span.end
      /\ nodes[n].reads = nodes[n].span.start..nodes[n].span.end
  BY <1>3 DEF SoundNode, Spanned
<1> QED BY <1>1, <1>2, <1>3, <1>4

LEMMA FromFacts ==
    ASSUME TreesSound, frames # <<>>
    PROVE  Start(Top) \in Nat /\ 1 <= Start(Top) /\ Start(Top) < Front /\ Start(Top) < next
<1>1. SoundFrame(Top, Front - 1, Outer(Len(frames)))
  BY TopFacts
<1>2. Top.own \in Seq(Nat) /\ Top.own # <<>> /\ Tiles(Top, Front - 1)
  BY <1>1 DEF SoundFrame
<1>3. Start(Top) \in Nat
  <2>1. CASE Top.kind \in InfixFrames
    <3>1. Top.parts[1] \in DOMAIN nodes
      BY <1>1, <2>1, InfixParts
    <3> QED BY <2>1, <3>1, PartFacts DEF Start
  <2>2. CASE Top.kind \notin InfixFrames
    BY <1>2, <2>2 DEF Start
  <2> QED BY <2>1, <2>2
<1>4. 1 <= Start(Top) /\ Start(Top) <= Front - 1
  BY <1>2 DEF Tiles
<1> QED BY <1>3, <1>4, StateFacts

LEMMA ContentsTile ==
    ASSUME TreesSound, frames # <<>>
    PROVE  /\ Contents \in Seq(DOMAIN nodes)
           /\ Elements(Top.own) \cup ReadFor(Contents) = Start(Top)..(next - 1)
           /\ \A part \in Elements(Contents) : Elements(Top.own) \cap nodes[part].reads = {}
           /\ \A j \in 2..Len(Contents) :
                nodes[Contents[j - 1]].span.end < nodes[Contents[j]].span.start
<1>1. /\ Top.own \in Seq(Nat) /\ Top.parts \in Seq(DOMAIN nodes) /\ Tiles(Top, Front - 1)
  BY TopFacts DEF SoundFrame
<1>2. /\ Elements(Top.own) \cup ReadFor(Top.parts) = Start(Top)..(Front - 1)
      /\ \A part \in Elements(Top.parts) : Elements(Top.own) \cap nodes[part].reads = {}
      /\ \A j \in 2..Len(Top.parts) :
           nodes[Top.parts[j - 1]].span.end < nodes[Top.parts[j]].span.start
  BY <1>1 DEF Tiles
<1>3. Start(Top) \in Nat /\ Start(Top) < Front /\ Front \in Nat /\ next \in Nat
  BY FromFacts, StateFacts
<1>4. CASE operand = 0
  BY <1>1, <1>2, <1>4 DEF Contents, Front
<1>5. CASE operand # 0
  <2>1. /\ operand \in DOMAIN nodes /\ nodes[operand].reads = Front..(next - 1)
        /\ nodes[operand].span.start = Front /\ Front < next
    BY <1>5, OperandFacts
  <2>2. Contents = Append(Top.parts, operand) /\ Contents \in Seq(DOMAIN nodes)
    BY <1>1, <1>5, <2>1 DEF Contents
  <2>3. ReadFor(Contents) = ReadFor(Top.parts) \cup Front..(next - 1)
    <3>1. PICK S : S = DOMAIN nodes
      OBVIOUS
    <3>2. Top.parts \in Seq(S) /\ operand \in S
      BY <1>1, <2>1, <3>1
    <3>3. ReadFor(Append(Top.parts, operand)) = ReadFor(Top.parts) \cup nodes[operand].reads
      BY <3>2, ReadForAppend
    <3> QED BY <2>1, <2>2, <3>3
  <2>4. Elements(Top.own) \cup ReadFor(Contents) = Start(Top)..(next - 1)
    <3>1. Start(Top)..(Front - 1) \cup Front..(next - 1) = Start(Top)..(next - 1)
      BY <1>3, <2>1
    <3> QED BY <1>2, <2>3, <3>1
  <2>5. \A part \in Elements(Contents) : Elements(Top.own) \cap nodes[part].reads = {}
    <3>1. Elements(Contents) = Elements(Top.parts) \cup {operand}
      BY <1>1, <2>1, <2>2, ElementsAppend
    <3>2. Elements(Top.own) \cap Front..(next - 1) = {}
      BY <1>2, <1>3
    <3> QED BY <1>2, <2>1, <3>1, <3>2
  <2>6. ASSUME NEW j \in 2..Len(Contents)
        PROVE  nodes[Contents[j - 1]].span.end < nodes[Contents[j]].span.start
    <3>1. Len(Contents) = Len(Top.parts) + 1 /\ Len(Top.parts) \in Nat
      BY <1>1, <2>1, <2>2
    <3>2. \A k \in 1..Len(Top.parts) : Contents[k] = Top.parts[k]
      BY <1>1, <2>1, <2>2
    <3>3. CASE j \in 2..Len(Top.parts)
      <4>1. j - 1 \in 1..Len(Top.parts) /\ j \in 1..Len(Top.parts)
        BY <3>1, <3>3
      <4> QED BY <1>2, <3>2, <3>3, <4>1
    <3>4. CASE j = Len(Contents)
      <4>1. j - 1 \in 1..Len(Top.parts) /\ j - 1 \in DOMAIN Top.parts
        BY <1>1, <3>1, <3>4
      <4>2. Contents[j] = operand
        BY <1>1, <2>1, <2>2, <3>1, <3>4
      <4>3. Contents[j - 1] = Top.parts[j - 1] /\ Top.parts[j - 1] \in DOMAIN nodes
        BY <1>1, <3>2, <4>1
      <4>4. PICK last \in DOMAIN nodes : last = Top.parts[j - 1]
        BY <4>3
      <4>5. nodes[last].span.end \in nodes[last].reads /\ nodes[last].span.end \in Nat
        BY PartFacts
      <4>6. nodes[last].reads \subseteq ReadFor(Top.parts)
        BY <4>1, <4>4, ReadForPart
      <4>7. nodes[last].span.end \in Start(Top)..(Front - 1)
        BY <1>2, <4>5, <4>6
      <4>8. nodes[last].span.end < Front
        BY <1>3, <4>5, <4>7
      <4> QED BY <2>1, <4>2, <4>3, <4>4, <4>8
    <3> QED BY <3>1, <3>3, <3>4
  <2> QED BY <2>2, <2>4, <2>5, <2>6
<1> QED BY <1>4, <1>5

-----------------------------------------------------------------------------
(* Operands and operators in turn.                                          *)
LEMMA FoldFacts ==
    ASSUME TreesSound, frames # <<>>, operand # 0, Top.kind = "fold",
           NEW n, n = Len(Top.own)
    PROVE  /\ n \in Nat /\ n >= 1 /\ Top.own \in Seq(Nat) /\ Top.parts \in Seq(DOMAIN nodes)
           /\ Len(Top.parts) = n /\ Top.own[n] = Front - 1
           /\ Turns(Top) /\ Outer(Len(frames)) < Top.level
           /\ Contents = Append(Top.parts, operand) /\ Len(Contents) = n + 1
           /\ Contents[n + 1] = operand
           /\ \A k \in 1..n : Contents[k] = Top.parts[k]
<1>1. /\ Top.own \in Seq(Nat) /\ Top.own # <<>> /\ Top.parts \in Seq(DOMAIN nodes)
      /\ Folded(Top, Front - 1, Outer(Len(frames)))
  BY TopFacts DEF SoundFrame
<1>2. n \in Nat /\ n >= 1
  BY <1>1
<1>3. /\ Len(Top.parts) = n /\ Top.own[n] = Front - 1
      /\ Turns(Top) /\ Outer(Len(frames)) < Top.level
  BY <1>1 DEF Folded
<1>4. Contents = Append(Top.parts, operand)
  BY DEF Contents
<1>5. /\ Len(Contents) = n + 1 /\ Contents[n + 1] = operand
      /\ \A k \in 1..n : Contents[k] = Top.parts[k]
  BY <1>1, <1>3, <1>4
<1> QED BY <1>1, <1>2, <1>3, <1>4, <1>5

(* Every operator is followed by its right operand.                         *)
LEMMA ContentsTurn ==
    ASSUME TreesSound, frames # <<>>, operand # 0, Top.kind = "fold",
           NEW n, n = Len(Top.own)
    PROVE  /\ \A j \in 1..n :
                /\ Top.own[j] = nodes[Contents[j]].span.end + 1
                /\ nodes[Contents[j + 1]].span.start = Top.own[j] + 1
                /\ IsOperator(sentence[Top.own[j]])
                /\ Level(sentence[Top.own[j]]) = Top.level - 1
           /\ \A j \in 1..(n + 1) : Rank(nodes[Contents[j]].kind) >= Top.level
<1>1. /\ n \in Nat /\ n >= 1 /\ Top.own \in Seq(Nat) /\ Top.parts \in Seq(DOMAIN nodes)
      /\ Len(Top.parts) = n /\ Top.own[n] = Front - 1 /\ Turns(Top)
      /\ Contents[n + 1] = operand
      /\ \A k \in 1..n : Contents[k] = Top.parts[k]
  BY FoldFacts
<1>2. DOMAIN Top.own = 1..n /\ DOMAIN Top.parts = 1..n
  BY <1>1
<1>3. nodes[operand].span.start = Front /\ Front \in Nat
      /\ Rank(nodes[operand].kind) >= Top.level
  BY OperandFacts, StateFacts, TopFacts
<1>4. ~LooserFirst(Top)
  BY DEF LooserFirst
<1>5. ASSUME NEW j \in 1..n
      PROVE  /\ Top.own[j] = nodes[Contents[j]].span.end + 1
             /\ nodes[Contents[j + 1]].span.start = Top.own[j] + 1
             /\ IsOperator(sentence[Top.own[j]])
             /\ Level(sentence[Top.own[j]]) = Top.level - 1
  <2>1. /\ Top.own[j] = nodes[Top.parts[j]].span.end + 1
        /\ j + 1 \in DOMAIN Top.parts => nodes[Top.parts[j + 1]].span.start = Top.own[j] + 1
        /\ IsOperator(sentence[Top.own[j]])
        /\ Level(sentence[Top.own[j]]) = Top.level - 1
    BY <1>1, <1>2 DEF Turns
  <2>2. CASE j = n
    <3>1. nodes[Contents[j + 1]].span.start = Top.own[j] + 1
      <4>1. Top.own[n] = Front - 1 /\ Contents[n + 1] = operand
        BY <1>1
      <4>2. (Front - 1) + 1 = Front
        BY <1>3
      <4> QED BY <1>3, <2>2, <4>1, <4>2
    <3>2. Contents[j] = Top.parts[j]
      BY <1>1
    <3> QED BY <2>1, <3>1, <3>2
  <2>3. CASE j # n
    <3>1. j + 1 \in 1..n
      BY <1>1, <2>3
    <3>2. Contents[j + 1] = Top.parts[j + 1] /\ Contents[j] = Top.parts[j]
      BY <1>1, <3>1
    <3>3. nodes[Top.parts[j + 1]].span.start = Top.own[j] + 1
      BY <1>2, <2>1, <3>1
    <3> QED BY <2>1, <3>2, <3>3
  <2> QED BY <2>2, <2>3
<1>6. ASSUME NEW j \in 1..(n + 1) PROVE Rank(nodes[Contents[j]].kind) >= Top.level
  <2>1. CASE j = n + 1
    BY <1>1, <1>3, <2>1
  <2>2. CASE j \in 1..n
    BY <1>1, <1>2, <1>4, <2>2 DEF Turns
  <2> QED BY <1>1, <2>1, <2>2
<1> QED BY <1>5, <1>6

(* The construct with the token read, and the operand before it.            *)
LEMMA TokenAdded ==
    ASSUME TreesSound, frames # <<>>, NEW frame, frame.own = Append(Top.own, next),
           frame.parts = Contents, Start(frame) = Start(Top), NEW n, n = Len(Top.own)
    PROVE  /\ n \in Nat /\ n >= 1 /\ Top.own \in Seq(Nat)
           /\ frame.own \in Seq(Nat) /\ frame.own # <<>> /\ Len(frame.own) = n + 1
           /\ frame.own[n + 1] = next /\ \A j \in 1..n : frame.own[j] = Top.own[j]
           /\ frame.parts \in Seq(DOMAIN nodes) /\ Tiles(frame, next)
<1>1. Top.own \in Seq(Nat) /\ Top.own # <<>>
  BY TopFacts DEF SoundFrame
<1>2. next \in Nat /\ Start(Top) \in Nat /\ 1 <= Start(Top) /\ Start(Top) < next
  BY StateFacts, FromFacts
<1>3. n \in Nat /\ n >= 1
  BY <1>1
<1>4. /\ frame.own \in Seq(Nat) /\ frame.own # <<>> /\ Len(frame.own) = n + 1
      /\ frame.own[n + 1] = next /\ \A j \in 1..n : frame.own[j] = Top.own[j]
  BY <1>1, <1>2, <1>3
<1>5. Elements(frame.own) = Elements(Top.own) \cup {next}
  BY <1>1, <1>2, ElementsAppend
<1>6. /\ Contents \in Seq(DOMAIN nodes)
      /\ Elements(Top.own) \cup ReadFor(Contents) = Start(Top)..(next - 1)
      /\ \A part \in Elements(Contents) : Elements(Top.own) \cap nodes[part].reads = {}
      /\ \A j \in 2..Len(Contents) :
           nodes[Contents[j - 1]].span.end < nodes[Contents[j]].span.start
  BY ContentsTile
<1>7. Elements(frame.own) \cup ReadFor(frame.parts) = Start(frame)..next
  <2>1. Start(Top)..(next - 1) \cup {next} = Start(Top)..next
    BY <1>2
  <2> QED BY <1>5, <1>6, <2>1
<1>8. ASSUME NEW part \in Elements(frame.parts)
      PROVE  Elements(frame.own) \cap nodes[part].reads = {}
  <2>1. nodes[part].reads \subseteq ReadFor(Contents)
    BY DEF ReadFor
  <2>2. next \notin nodes[part].reads
    BY <1>2, <1>6, <2>1
  <2> QED BY <1>5, <1>6, <2>2
<1>9. Tiles(frame, next)
  BY <1>2, <1>6, <1>7, <1>8 DEF Tiles
<1> QED BY <1>1, <1>3, <1>4, <1>6, <1>9

(* The innermost construct goes on, and no node is built.                   *)
LEMMA GoesOn ==
    ASSUME TreesSound, frames # <<>>, UNCHANGED <<sentence, nodes>>,
           next' \in Nat, next <= next', next' <= Len(sentence) + 1,
           NEW kind \in FrameKinds, NEW level \in 1..11, NEW own \in Seq(Nat), NEW parts,
           Replace(Frame(kind, level, own, parts)),
           NEW frame, frame = Frame(kind, level, own, parts), Start(frame) = Start(Top),
           NEW to, to = next' - 1, NEW outer, outer = Outer(Len(frames)),
           SoundFrame(frame, to, outer)
    PROVE  TreesSound'
<1>1. frame = [kind |-> kind, level |-> level, own |-> own, parts |-> parts]
  BY DEF Frame
<1>2. frame \in TreeFrames
  <2>1. frame.parts \in Seq(Nat) /\ frame.parts = parts
    BY <1>1, ReadForIn DEF SoundFrame
  <2> QED BY <1>1, <2>1 DEF TreeFrames
<1>3. Replace(frame)
  OBVIOUS
<1>4. frames' \in Seq(TreeFrames) /\ operand' = 0
  BY <1>2, <1>3, FramesBelow DEF Replace
<1>5. Grows /\ TreesTyped' /\ NodesSound'
  BY <1>4, ReadStep
<1>6. SoundFrame(frame, to, outer)' /\ Start(frame)' = Start(frame)
  BY <1>5, SoundFrameKept, FromKept DEF TreesSound
<1>7. Start(frame)' = Start(Top)
  BY <1>6
<1> QED BY <1>2, <1>3, <1>5, <1>6, <1>7, ReplaceStep

LEMMA OwnBefore ==
    ASSUME TreesSound, frames # <<>>, NEW n, n = Len(Top.own), NEW i \in 1..n
    PROVE  Top.own[i] < Front /\ Top.own[i] \in Nat
<1>1. Top.own \in Seq(Nat) /\ Tiles(Top, Front - 1)
  BY TopFacts DEF SoundFrame
<1>2. Top.own[i] \in Elements(Top.own) /\ Top.own[i] \in Nat
  BY <1>1 DEF Elements
<1>3. Top.own[i] \in Start(Top)..(Front - 1)
  BY <1>1, <1>2 DEF Tiles
<1> QED BY <1>2, <1>3, FromFacts, StateFacts

LEMMA MoreOperandsSound ==
    ASSUME TreesSound, MoreOperands
    PROVE  TreesSound'
<1>1. /\ operand # 0 /\ frames # <<>> /\ Top.kind = "fold"
      /\ Level(Token(next)) = Wanted - 1 /\ Wanted # 7
      /\ Replace(Frame("fold", Wanted, Append(Top.own, next), Append(Top.parts, operand)))
      /\ next' = next + 1 /\ sentence' = sentence /\ nodes' = nodes
  BY DEF MoreOperands, Complete, In, Read
<1>2. PICK n : n = Len(Top.own)
  OBVIOUS
<1>3. /\ n \in Nat /\ n >= 1 /\ Len(Top.parts) = n
      /\ Turns(Top) /\ Outer(Len(frames)) < Top.level
      /\ Contents = Append(Top.parts, operand) /\ Len(Contents) = n + 1
      /\ Contents[n + 1] = operand
      /\ \A k \in 1..n : Contents[k] = Top.parts[k]
      /\ Contents \in Seq(DOMAIN nodes)
  BY <1>1, <1>2, FoldFacts, ContentsTile
<1>4. Wanted = Top.level /\ Wanted \in 1..11 /\ Wanted - 1 \in (1..3) \cup (5..10)
  BY <1>1, <1>3, TopFacts, StateFacts DEF Turns
<1>5. Token(next) \notin {"end", "IS"} /\ IsOperator(Token(next))
  BY <1>1, <1>4 DEF Level, IsOperator
<1>6. /\ next \in Nat /\ next \in 1..Len(sentence) /\ sentence[next] = Token(next)
  BY <1>5, StateFacts, TokenRead
<1>7. PICK frame : frame = Frame("fold", Wanted, Append(Top.own, next), Contents)
  OBVIOUS
<1>8. /\ frame.kind = "fold" /\ frame.level = Wanted /\ frame.own = Append(Top.own, next)
      /\ frame.parts = Contents
  BY <1>7 DEF Frame
<1>9. Start(frame) = Start(Top)
  <2>1. frame.parts[1] = Top.parts[1]
    BY <1>3, <1>8
  <2> QED BY <1>1, <1>8, <2>1 DEF Start, InfixFrames
<1>10. /\ frame.own \in Seq(Nat) /\ frame.own # <<>> /\ Len(frame.own) = n + 1
       /\ frame.own[n + 1] = next /\ \A j \in 1..n : frame.own[j] = Top.own[j]
       /\ frame.parts \in Seq(DOMAIN nodes) /\ Tiles(frame, next)
  BY <1>1, <1>2, <1>8, <1>9, TokenAdded
<1>11. PICK to : to = next
  OBVIOUS
<1>12. PICK outer : outer = Outer(Len(frames))
  OBVIOUS
<1>13. Turns(frame)
  <2>1. /\ \A j \in 1..n :
             /\ Top.own[j] = nodes[Contents[j]].span.end + 1
             /\ nodes[Contents[j + 1]].span.start = Top.own[j] + 1
             /\ IsOperator(sentence[Top.own[j]])
             /\ Level(sentence[Top.own[j]]) = Top.level - 1
        /\ \A j \in 1..(n + 1) : Rank(nodes[Contents[j]].kind) >= Top.level
    BY <1>1, <1>2, ContentsTurn
  <2>2. next = nodes[Contents[n + 1]].span.end + 1
    BY <1>1, <1>3, <1>6, OperandFacts
  <2>3. DOMAIN frame.own = 1..(n + 1) /\ DOMAIN frame.parts = 1..(n + 1)
    BY <1>3, <1>8, <1>10
  <2>4. ~LooserFirst(frame)
    BY <1>8 DEF LooserFirst
  <2>5. ASSUME NEW j \in DOMAIN frame.own
        PROVE  /\ frame.own[j] = nodes[frame.parts[j]].span.end + 1
               /\ j + 1 \in DOMAIN frame.parts =>
                    nodes[frame.parts[j + 1]].span.start = frame.own[j] + 1
               /\ IsOperator(sentence[frame.own[j]])
               /\ Level(sentence[frame.own[j]]) = frame.level - 1
    <3>1. CASE j = n + 1
      <4>1. j + 1 \notin DOMAIN frame.parts
        BY <1>3, <2>3, <3>1
      <4> QED BY <1>1, <1>4, <1>5, <1>6, <1>8, <1>10, <2>2, <3>1, <4>1
    <3>2. CASE j \in 1..n
      BY <1>4, <1>8, <1>10, <2>1, <3>2
    <3> QED BY <1>3, <2>3, <3>1, <3>2
  <2>6. ASSUME NEW i \in DOMAIN frame.own, NEW j \in DOMAIN frame.own, i < j
        PROVE  frame.own[i] < frame.own[j]
    <3>1. i \in 1..n /\ j \in 1..(n + 1)
      BY <1>3, <2>3, <2>6
    <3>2. CASE j = n + 1
      <4>1. Top.own[i] < Front /\ Top.own[i] \in Nat /\ Front <= next /\ Front \in Nat
        BY <1>1, <1>2, <3>1, OwnBefore, StateFacts
      <4>2. frame.own[i] = Top.own[i] /\ frame.own[j] = next
        BY <1>10, <3>1, <3>2
      <4> QED BY <1>6, <4>1, <4>2
    <3>3. CASE j \in 1..n
      <4>1. DOMAIN Top.own = 1..n
        BY <1>1, <1>2, FoldFacts
      <4> QED BY <1>3, <1>10, <2>6, <3>1, <3>3, <4>1 DEF Turns
    <3> QED BY <1>3, <3>1, <3>2, <3>3
  <2> QED BY <1>1, <1>4, <1>8, <2>1, <2>3, <2>4, <2>5, <2>6 DEF Turns
<1>14. SoundFrame(frame, to, outer)
  <2>1. Prefixed(frame, outer) /\ Bracketed(frame, outer)
    BY <1>8 DEF Prefixed, Bracketed, BracketFrames
  <2>2. Folded(frame, to, outer)
    BY <1>3, <1>4, <1>8, <1>10, <1>11, <1>12, <1>13 DEF Folded
  <2> QED BY <1>10, <1>11, <2>1, <2>2 DEF SoundFrame
<1>15. "fold" \in FrameKinds
  BY DEF FrameKinds, InfixFrames
<1>16. /\ next' \in Nat /\ next <= next' /\ next' <= Len(sentence) + 1 /\ to = next' - 1
       /\ UNCHANGED <<sentence, nodes>>
  BY <1>1, <1>6, <1>11, StateFacts
<1>17. Replace(Frame("fold", Wanted, Append(Top.own, next), Contents))
  BY <1>1, <1>3
<1>18. Append(Top.own, next) \in Seq(Nat)
  BY <1>8, <1>10
<1>19. PICK level \in 1..11 : level = Wanted
  BY <1>4
<1>20. PICK own \in Seq(Nat) : own = Append(Top.own, next)
  BY <1>18
<1>21. PICK parts : parts = Contents
  OBVIOUS
<1>22. Replace(Frame("fold", level, own, parts)) /\ frame = Frame("fold", level, own, parts)
  BY <1>7, <1>17, <1>19, <1>20, <1>21
<1> QED BY <1>1, <1>9, <1>12, <1>14, <1>15, <1>16, <1>22, GoesOn

LEMMA EndOperandsSound ==
    ASSUME TreesSound, EndOperands
    PROVE  TreesSound'
<1>1. /\ operand # 0 /\ frames # <<>> /\ Top.kind = "fold"
      /\ Replace(Frame("folding", Wanted, Top.own, Append(Top.parts, operand)))
      /\ next' = next /\ UNCHANGED <<sentence, nodes>>
  BY DEF EndOperands, Complete, In
<1>2. PICK n : n = Len(Top.own)
  OBVIOUS
<1>3. /\ n \in Nat /\ n >= 1 /\ Len(Top.parts) = n /\ Top.own \in Seq(Nat)
      /\ Turns(Top) /\ Outer(Len(frames)) < Top.level
      /\ Contents = Append(Top.parts, operand) /\ Len(Contents) = n + 1
      /\ \A k \in 1..n : Contents[k] = Top.parts[k]
      /\ Contents \in Seq(DOMAIN nodes)
      /\ Top.own # <<>>
  <2>1. Top.own # <<>>
    BY <1>1, TopFacts DEF SoundFrame
  <2> QED BY <1>1, <1>2, <2>1, FoldFacts, ContentsTile
<1>4. Wanted = Top.level /\ Wanted \in 1..11
  BY <1>1, <1>3, TopFacts, StateFacts
<1>5. PICK frame : frame = Frame("folding", Wanted, Top.own, Contents)
  OBVIOUS
<1>6. /\ frame.kind = "folding" /\ frame.level = Wanted /\ frame.own = Top.own
      /\ frame.parts = Contents
  BY <1>5 DEF Frame
<1>7. Start(frame) = Start(Top)
  <2>1. frame.parts[1] = Top.parts[1]
    BY <1>3, <1>6
  <2> QED BY <1>1, <1>6, <2>1 DEF Start, InfixFrames
<1>8. PICK to : to = next - 1
  OBVIOUS
<1>9. PICK outer : outer = Outer(Len(frames))
  OBVIOUS
<1>10. Turns(frame)
  <2>1. /\ \A j \in 1..n :
             /\ Top.own[j] = nodes[Contents[j]].span.end + 1
             /\ nodes[Contents[j + 1]].span.start = Top.own[j] + 1
             /\ IsOperator(sentence[Top.own[j]])
             /\ Level(sentence[Top.own[j]]) = Top.level - 1
        /\ \A j \in 1..(n + 1) : Rank(nodes[Contents[j]].kind) >= Top.level
    BY <1>1, <1>2, ContentsTurn
  <2>2. DOMAIN frame.own = 1..n /\ DOMAIN frame.parts = 1..(n + 1) /\ Len(frame.own) = n
    BY <1>2, <1>3, <1>6
  <2>3. /\ frame.level - 1 \in (1..3) \cup (5..10)
        /\ frame.level = 7 => Len(frame.own) = 1
        /\ \A i, j \in DOMAIN frame.own : i < j => frame.own[i] < frame.own[j]
    BY <1>3, <1>4, <1>6 DEF Turns
  <2>4. ASSUME NEW j \in DOMAIN frame.parts
        PROVE  Rank(nodes[frame.parts[j]].kind)
                 >= IF j = 1 /\ LooserFirst(frame) THEN frame.level - 1 ELSE frame.level
    <3>1. Rank(nodes[Contents[j]].kind) >= Top.level
      BY <2>1, <2>2
    <3>2. Rank(nodes[Contents[j]].kind) \in 0..13
      BY LevelRange
    <3> QED BY <1>4, <1>6, <3>1, <3>2
  <2> QED BY <1>4, <1>6, <2>1, <2>2, <2>3, <2>4 DEF Turns
<1>11. Tiles(frame, to)
  <2>1. /\ Elements(Top.own) \cup ReadFor(Contents) = Start(Top)..(next - 1)
        /\ \A part \in Elements(Contents) : Elements(Top.own) \cap nodes[part].reads = {}
        /\ \A j \in 2..Len(Contents) :
             nodes[Contents[j - 1]].span.end < nodes[Contents[j]].span.start
    BY <1>1, ContentsTile
  <2>2. 1 <= Start(Top) /\ Start(Top) <= to
    BY <1>1, <1>8, FromFacts, StateFacts
  <2> QED BY <1>6, <1>7, <1>8, <2>1, <2>2 DEF Tiles
<1>12. SoundFrame(frame, to, outer)
  <2>1. Prefixed(frame, outer) /\ Bracketed(frame, outer)
    BY <1>6 DEF Prefixed, Bracketed, BracketFrames
  <2>2. Folded(frame, to, outer)
    BY <1>2, <1>3, <1>4, <1>6, <1>9, <1>10 DEF Folded
  <2> QED BY <1>3, <1>6, <1>11, <2>1, <2>2 DEF SoundFrame
<1>13. "folding" \in FrameKinds
  BY DEF FrameKinds, InfixFrames
<1>14. next' \in Nat /\ next <= next' /\ next' <= Len(sentence) + 1 /\ to = next' - 1
  BY <1>1, <1>8, StateFacts
<1>15. PICK level \in 1..11 : level = Wanted
  BY <1>4
<1>16. PICK own \in Seq(Nat) : own = Top.own
  BY <1>3
<1>17. PICK parts : parts = Contents
  OBVIOUS
<1>18. Replace(Frame("folding", level, own, parts)) /\ frame = Frame("folding", level, own, parts)
  BY <1>1, <1>3, <1>5, <1>15, <1>16, <1>17
<1> QED BY <1>1, <1>7, <1>9, <1>12, <1>13, <1>14, <1>18, GoesOn

(* Something else comes between brackets.                                   *)
LEMMA SeparateSound ==
    ASSUME TreesSound, Separate
    PROVE  TreesSound'
<1>1. /\ frames # <<>> /\ <<Top.kind, Token(next)>> \in Separators
      /\ operand # 0 \/ Top.kind = "index"
      /\ Replace(Frame(Token(next), 1, Append(Top.own, next), Contents))
      /\ next' = next + 1 /\ UNCHANGED <<sentence, nodes>>
  BY DEF Separate, Read
<1>2. PICK kind : kind = Token(next)
  OBVIOUS
<1>3. /\ Top.kind \in {"[", ",", "WHERE", "index"} /\ kind \in {",", "WHERE", "|", ".."}
      /\ kind = "," => Top.kind \in {"[", ","}
      /\ kind = "WHERE" => Top.kind = "["
      /\ kind = "|" => Top.kind \in {"[", "WHERE"}
      /\ kind = ".." <=> Top.kind = "index"
  BY <1>1, <1>2 DEF Separators
<1>4. next \in Nat /\ next \in 1..Len(sentence)
  BY <1>2, <1>3, StateFacts, TokenRead
<1>5. PICK frame : frame = Frame(kind, 1, Append(Top.own, next), Contents)
  OBVIOUS
<1>6. /\ frame.kind = kind /\ frame.level = 1 /\ frame.own = Append(Top.own, next)
      /\ frame.parts = Contents
  BY <1>5 DEF Frame
<1>7. PICK n : n = Len(Top.own)
  OBVIOUS
<1>8. /\ Top.own \in Seq(Nat) /\ Top.own # <<>> /\ Top.parts \in Seq(DOMAIN nodes)
      /\ Prefixed(Top, Outer(Len(frames))) /\ Bracketed(Top, Outer(Len(frames)))
      /\ Tiles(Top, Front - 1)
  BY <1>1, TopFacts DEF SoundFrame
<1>9. /\ n \in Nat /\ n >= 1 /\ Append(Top.own, next)[1] = Top.own[1]
  BY <1>4, <1>7, <1>8
<1>10. PICK m : m = Len(Top.parts)
  OBVIOUS
<1>11. /\ m \in Nat
       /\ operand # 0 => Len(Contents) = m + 1 /\ Contents[m + 1] = operand
       /\ operand = 0 => Len(Contents) = m
       /\ m >= 1 => Contents[1] = Top.parts[1]
  <2>1. operand # 0 => operand \in DOMAIN nodes
    BY StateFacts
  <2>2. CASE operand = 0
    BY <1>8, <1>10, <2>2 DEF Contents
  <2>3. CASE operand # 0
    BY <1>8, <1>10, <2>1, <2>3 DEF Contents
  <2> QED BY <2>2, <2>3
<1>12. Start(frame) = Start(Top)
  <2>1. CASE kind = ".."
    <3>1. m >= 1
      BY <1>3, <1>8, <1>10, <2>1 DEF Bracketed
    <3> QED BY <1>3, <1>6, <1>11, <2>1, <3>1 DEF Start, InfixFrames
  <2>2. CASE kind # ".."
    BY <1>3, <1>6, <1>9, <2>2 DEF Start, InfixFrames
  <2> QED BY <2>1, <2>2
<1>13. PICK to : to = next
  OBVIOUS
<1>14. PICK outer : outer = Outer(Len(frames))
  OBVIOUS
<1>15. /\ frame.own \in Seq(Nat) /\ frame.own # <<>>
       /\ frame.parts \in Seq(DOMAIN nodes) /\ Tiles(frame, next)
  BY <1>1, <1>6, <1>7, <1>12, TokenAdded
<1>16. Bracketed(frame, outer)
  <2>1. frame.kind = "," => Len(frame.parts) >= 1
    <3>1. operand # 0 => Len(Contents) >= 1
      BY <1>11
    <3>2. frame.kind = "," => operand # 0
      BY <1>1, <1>3, <1>6, Zenon
    <3> QED BY <1>6, <3>1, <3>2, Zenon
  <2>2. ASSUME frame.kind \in {"WHERE", "|"}
        PROVE  /\ Len(frame.parts) \in {1, 2}
               /\ nodes[frame.parts[1]].span.start = frame.own[1] + 1
    <3>1. operand # 0
      BY <1>1, <1>3, <1>6, <2>2
    <3>2. CASE Top.kind = "["
      <4>1. Len(Top.own) = 1 /\ Top.parts = <<>>
        BY <1>8, <3>2 DEF Prefixed
      <4>2. frame.parts[1] = operand /\ Len(frame.parts) = 1
        BY <1>6, <1>10, <1>11, <3>1, <4>1
      <4>3. Front = Top.own[1] + 1
        <5>1. Elements(Top.own) = {Top.own[1]} /\ Start(Top) = Top.own[1] /\ Top.own[1] \in Nat
          BY <1>8, <3>2, <4>1 DEF Elements, Start, InfixFrames
        <5>2. {Top.own[1]} = Top.own[1]..(Front - 1)
          BY <1>8, <4>1, <5>1, ReadForFew DEF Tiles
        <5>3. Top.own[1] <= Front - 1 /\ Front - 1 \in Int
          BY <1>1, <5>1, FromFacts, StateFacts
        <5>4. Front - 1 = Top.own[1]
          BY <5>1, <5>2, <5>3, OneNumber
        <5> QED BY <5>1, <5>4, StateFacts
      <4> QED BY <1>6, <1>9, <3>1, <4>2, <4>3, OperandFacts
    <3>3. CASE Top.kind = "WHERE"
      <4>1. m = 1 /\ nodes[Top.parts[1]].span.start = Top.own[1] + 1
        BY <1>8, <1>10, <3>3 DEF Bracketed
      <4> QED BY <1>6, <1>9, <1>11, <3>1, <4>1
    <3> QED BY <1>3, <1>6, <2>2, <3>2, <3>3
  <2>3. frame.kind = "WHERE" => Len(frame.parts) = 1
    <3> SUFFICES ASSUME frame.kind = "WHERE" PROVE Len(frame.parts) = 1
      OBVIOUS
    <3>1. Top.kind = "[" /\ operand # 0
      BY <1>1, <1>3, <1>6
    <3>2. m = 0
      BY <1>8, <1>10, <3>1 DEF Prefixed
    <3> QED BY <1>6, <1>11, <3>1, <3>2
  <2>4. ASSUME frame.kind \in {"index", ".."}
        PROVE  Len(frame.parts) >= 1 /\ Rank(nodes[frame.parts[1]].kind) >= 12 /\ outer <= 12
    <3>1. Top.kind = "index"
      BY <1>3, <1>6, <2>4
    <3>2. m >= 1 /\ Rank(nodes[Top.parts[1]].kind) >= 12 /\ Outer(Len(frames)) <= 12
      BY <1>8, <1>10, <3>1 DEF Bracketed
    <3>3. Len(Contents) >= 1
      BY <1>11, <3>2
    <3> QED BY <1>6, <1>11, <1>14, <3>2, <3>3
  <2> QED BY <1>6, <2>1, <2>2, <2>3, <2>4 DEF Bracketed
<1>17. SoundFrame(frame, to, outer)
  <2>1. Prefixed(frame, outer) /\ Folded(frame, to, outer)
    BY <1>3, <1>6 DEF Prefixed, Folded
  <2> QED BY <1>13, <1>15, <1>16, <2>1 DEF SoundFrame
<1>18. kind \in FrameKinds
  BY <1>3 DEF FrameKinds, InfixFrames, BracketFrames
<1>19. next' \in Nat /\ next <= next' /\ next' <= Len(sentence) + 1 /\ to = next' - 1
  BY <1>1, <1>4, <1>13, StateFacts
<1>20. PICK level \in 1..11 : level = 1
  OBVIOUS
<1>21. PICK own \in Seq(Nat) : own = Append(Top.own, next)
  BY <1>6, <1>15
<1>22. PICK parts : parts = Contents
  OBVIOUS
<1>23. Replace(Frame(kind, level, own, parts)) /\ frame = Frame(kind, level, own, parts)
  BY <1>1, <1>2, <1>5, <1>20, <1>21, <1>22
<1> QED BY <1>1, <1>12, <1>14, <1>17, <1>18, <1>19, <1>23, GoesOn

-----------------------------------------------------------------------------
(* One turn of the fold: the first operation.                               *)
FirstOperation == Binary(Top.parts[1], Top.own[1], Top.parts[2])

LEMMA FoldingFacts ==
    ASSUME TreesSound, Fold, NEW n, n = Len(Top.own)
    PROVE  /\ operand = 0 /\ frames # <<>> /\ Top.kind = "folding" /\ Front = next
           /\ n \in Nat /\ n >= 1 /\ Top.own \in Seq(Nat) /\ Top.parts \in Seq(DOMAIN nodes)
           /\ DOMAIN Top.own = 1..n
           /\ Len(Top.parts) = n + 1 /\ DOMAIN Top.parts = 1..(n + 1)
           /\ Turns(Top) /\ Tiles(Top, next - 1) /\ Top.level \in 1..11
           /\ Outer(Len(frames)) < Top.level
           /\ Start(Top) = nodes[Top.parts[1]].span.start
           /\ Top.parts[1] \in DOMAIN nodes /\ Top.parts[2] \in DOMAIN nodes
<1>1. frames # <<>> /\ Top.kind = "folding"
  BY DEF Fold, In
<1>2. operand = 0
  BY <1>1, FramesFacts
<1>3. Front = next
  BY <1>2 DEF Front
<1>4. /\ Top.own \in Seq(Nat) /\ Top.own # <<>> /\ Top.parts \in Seq(DOMAIN nodes)
      /\ Folded(Top, Front - 1, Outer(Len(frames))) /\ Tiles(Top, Front - 1)
      /\ Top \in TreeFrames
  BY <1>1, TopFacts DEF SoundFrame
<1>5. n \in Nat /\ n >= 1 /\ DOMAIN Top.own = 1..n
  BY <1>4
<1>6. Turns(Top) /\ Outer(Len(frames)) < Top.level /\ Len(Top.parts) = n + 1
  BY <1>1, <1>4 DEF Folded
<1>7. DOMAIN Top.parts = 1..(n + 1)
  BY <1>4, <1>6
<1>8. Top.parts[1] \in DOMAIN nodes /\ Top.parts[2] \in DOMAIN nodes
  <2>1. 1 \in DOMAIN Top.parts /\ 2 \in DOMAIN Top.parts
    BY <1>5, <1>7
  <2> QED BY <1>4, <2>1, ElementsIn
<1>9. Start(Top) = nodes[Top.parts[1]].span.start /\ Top.level \in 1..11
  BY <1>1, <1>4 DEF Start, InfixFrames, TreeFrames
<1> QED BY <1>1, <1>2, <1>3, <1>4, <1>5, <1>6, <1>7, <1>8, <1>9

LEMMA FirstOperationSound ==
    ASSUME TreesSound, Fold, NEW node, node = FirstOperation
    PROVE  /\ node \in TreeNodes /\ SoundNode(node) /\ node.parts \in Seq(DOMAIN nodes)
           /\ node.span.start = Start(Top)
           /\ node.span.end = nodes[Top.parts[2]].span.end
           /\ node.reads = {Top.own[1]} \cup nodes[Top.parts[1]].reads
                               \cup nodes[Top.parts[2]].reads
           /\ Rank(node.kind) = Top.level - 1
<1>1. PICK n : n = Len(Top.own)
  OBVIOUS
<1>2. /\ n \in Nat /\ n >= 1 /\ DOMAIN Top.own = 1..n /\ DOMAIN Top.parts = 1..(n + 1)
      /\ Turns(Top) /\ Top.level \in 1..11
      /\ Start(Top) = nodes[Top.parts[1]].span.start
      /\ Top.parts[1] \in DOMAIN nodes /\ Top.parts[2] \in DOMAIN nodes
  BY <1>1, FoldingFacts
<1>3. PICK left \in DOMAIN nodes : left = Top.parts[1]
  BY <1>2
<1>4. PICK right \in DOMAIN nodes : right = Top.parts[2]
  BY <1>2
<1>5. PICK op : op = Top.own[1]
  OBVIOUS
<1>6. /\ op = nodes[left].span.end + 1 /\ nodes[right].span.start = op + 1
      /\ IsOperator(sentence[op]) /\ Level(sentence[op]) = Top.level - 1
  <2>1. 1 \in DOMAIN Top.own /\ 1 + 1 \in DOMAIN Top.parts /\ 1 + 1 = 2
    BY <1>2
  <2>2. /\ Top.own[1] = nodes[Top.parts[1]].span.end + 1
        /\ 1 + 1 \in DOMAIN Top.parts => nodes[Top.parts[1 + 1]].span.start = Top.own[1] + 1
        /\ IsOperator(sentence[Top.own[1]])
        /\ Level(sentence[Top.own[1]]) = Top.level - 1
    BY <1>2, <2>1 DEF Turns
  <2> QED BY <1>3, <1>4, <1>5, <2>1, <2>2
<1>7. /\ Top.level = 7 => Rank(nodes[left].kind) >= 7
      /\ Rank(nodes[left].kind) >= Top.level - 1
      /\ Rank(nodes[right].kind) >= Top.level
  <2>1. 1 \in DOMAIN Top.parts /\ 2 \in DOMAIN Top.parts
    BY <1>2
  <2>2. /\ Rank(nodes[left].kind) >= IF LooserFirst(Top) THEN Top.level - 1 ELSE Top.level
        /\ Rank(nodes[right].kind) >= Top.level
    BY <1>2, <1>3, <1>4, <2>1 DEF Turns
  <2>3. Top.level = 7 => ~LooserFirst(Top)
    BY DEF LooserFirst
  <2>4. Rank(nodes[left].kind) \in 0..13
    BY LevelRange
  <2> QED BY <1>2, <2>2, <2>3, <2>4, SMTT(30)
<1>8. /\ sentence[op] \in {"OR", "XOR", "AND", "=", "<", "IN", "||", "+", "-", "*", "^"}
      /\ Rank(sentence[op]) = Top.level - 1
  BY <1>6, OperatorRank
<1>9. /\ nodes[left].span.start \in Nat /\ nodes[left].span.end \in Nat
      /\ 1 <= nodes[left].span.start /\ nodes[left].span.start <= nodes[left].span.end
      /\ nodes[left].reads = nodes[left].span.start..nodes[left].span.end
  BY PartFacts
<1>10. /\ nodes[right].span.start \in Nat /\ nodes[right].span.end \in Nat
       /\ nodes[right].span.start <= nodes[right].span.end
       /\ nodes[right].reads = nodes[right].span.start..nodes[right].span.end
  BY PartFacts
<1>11. PICK a : a = nodes[left].span.start
  OBVIOUS
<1>12. PICK b : b = nodes[right].span.end
  OBVIOUS
<1>13. Cover(nodes[left].span, nodes[right].span) = Span(a, b)
  BY <1>6, <1>9, <1>10, <1>11, <1>12 DEF Cover
<1>14. node = Node(sentence[op], Span(a, b), {op}, <<left, right>>)
  BY <1>3, <1>4, <1>5, <1>13 DEF FirstOperation, Binary
<1>15. /\ node.kind = sentence[op] /\ node.span.start = a /\ node.span.end = b
       /\ node.own = {op} /\ node.parts = <<left, right>>
       /\ node.reads = {op} \cup (nodes[left].reads \cup nodes[right].reads)
  BY <1>14, ReadForFew DEF Node, Span
<1>16. <<left, right>> \in Seq(DOMAIN nodes)
  OBVIOUS
<1>17. node \in TreeNodes
  <2>1. sentence[op] \in NodeKinds
    BY <1>8 DEF NodeKinds
  <2>2. a \in Nat /\ b \in Nat /\ {op} \in SUBSET Nat
    BY <1>6, <1>9, <1>10, <1>11, <1>12
  <2> QED BY <1>14, <1>16, <2>1, <2>2, NodeInTreeNodes
<1>18. SoundNode(node)
  <2>1. /\ node.parts[1] = left /\ node.parts[2] = right /\ Len(node.parts) = 2
        /\ Elements(node.parts) = {left, right}
    BY <1>15, ElementsOfFew
  <2>2. node.reads = node.own \cup ReadFor(node.parts)
    BY <1>15, ReadForFew
  <2>3. Spanned(node)
    <3>1. node.reads = a..b /\ a <= b
      BY <1>6, <1>9, <1>10, <1>11, <1>12, <1>15, SMTT(30)
    <3>2. \A k \in 2..Len(node.parts) :
            nodes[node.parts[k - 1]].span.end < nodes[node.parts[k]].span.start
      <4>1. \A k \in 2..2 : k = 2 /\ k - 1 = 1
        OBVIOUS
      <4>2. nodes[left].span.end < nodes[right].span.start
        BY <1>6, <1>9
      <4> QED BY <2>1, <4>1, <4>2
    <3> QED BY <1>15, <3>1, <3>2 DEF Spanned
  <2>4. OwnTokens(node)
    <3>1. op \notin nodes[left].reads /\ op \notin nodes[right].reads
      BY <1>6, <1>9, <1>10
    <3> QED BY <1>15, <2>1, <3>1 DEF OwnTokens
  <2>5. GroupsToTheLeft(node)
    <3>1. Rank(node.kind) = Top.level - 1
      BY <1>8, <1>15
    <3>2. IF Rank(node.kind) = 6 THEN Rank(nodes[left].kind) > 6
          ELSE Rank(nodes[left].kind) >= Rank(node.kind)
      <4>1. Rank(nodes[left].kind) \in 0..13
        BY LevelRange
      <4>2. PICK rank : rank = Rank(nodes[left].kind)
        OBVIOUS
      <4>3. Top.level - 1 = 6 => rank > 6
        BY <1>2, <1>7, <4>1, <4>2
      <4>4. rank >= Top.level - 1
        BY <1>7, <4>2
      <4> QED BY <3>1, <4>2, <4>3, <4>4
    <3>3. Rank(nodes[right].kind) > Rank(node.kind)
      <4>1. Rank(nodes[right].kind) \in 0..13
        BY LevelRange
      <4> QED BY <1>2, <1>7, <3>1, <4>1, SMTT(30)
    <3>4. node.kind # "IS" /\ Rank(node.kind) \notin {4, 11, 12}
      <4>1. Rank(sentence[op]) \in (1..3) \cup (5..10)
        BY <1>6, OperatorRank
      <4> QED BY <1>8, <1>15, <4>1
    <3> QED BY <2>1, <3>2, <3>3, <3>4 DEF GroupsToTheLeft
  <2>6. ParenthesesMakeAList(node) /\ Arity(node) /\ NameToken(node)
    BY <1>8, <1>15 DEF ParenthesesMakeAList, Arity, NameToken
  <2>7. Operation(node)
    BY <1>6, <1>11, <1>15, <2>1 DEF Operation
  <2> QED BY <1>9, <1>11, <1>15, <2>2, <2>3, <2>4, <2>5, <2>6, <2>7 DEF SoundNode
<1> QED BY <1>2, <1>3, <1>4, <1>5, <1>8, <1>11, <1>12, <1>15, <1>16, <1>17, <1>18

LEMMA ReadForIndex ==
    ASSUME NEW parts
    PROVE  \A t : t \in ReadFor(parts) <=> \E k \in DOMAIN parts : t \in nodes[parts[k]].reads
BY DEF ReadFor, Elements

LEMMA SameInterval ==
    ASSUME NEW a \in Int, NEW b \in Int, NEW c \in Int, a <= b, a <= c, a..b = a..c
    PROVE  b = c
<1>1. b \in a..c /\ c \in a..b
  OBVIOUS
<1> QED BY <1>1

LEMMA LastFold ==
    ASSUME TreesSound, Fold, Len(Top.own) = 1, Build(FirstOperation), frames' = Below,
           UNCHANGED <<sentence, next>>
    PROVE  TreesSound'
<1>1. PICK n : n = Len(Top.own)
  OBVIOUS
<1>2. /\ operand = 0 /\ frames # <<>> /\ n = 1 /\ Top.own \in Seq(Nat)
      /\ Top.parts \in Seq(DOMAIN nodes) /\ Len(Top.parts) = 2
      /\ Tiles(Top, next - 1) /\ Top.level \in 1..11 /\ Outer(Len(frames)) < Top.level
      /\ Top.parts[2] \in DOMAIN nodes
  <2>1. /\ operand = 0 /\ frames # <<>> /\ n = 1 /\ Top.own \in Seq(Nat)
        /\ Top.parts \in Seq(DOMAIN nodes) /\ Len(Top.parts) = n + 1
    BY <1>1, FoldingFacts
  <2>2. /\ Tiles(Top, next - 1) /\ Top.level \in 1..11 /\ Outer(Len(frames)) < Top.level
        /\ Top.parts[2] \in DOMAIN nodes
    BY <1>1, FoldingFacts
  <2> QED BY <2>1, <2>2
<1>3. PICK node : node = FirstOperation
  OBVIOUS
<1>4. /\ node \in TreeNodes /\ SoundNode(node) /\ node.parts \in Seq(DOMAIN nodes)
      /\ node.span.start = Start(Top)
      /\ node.reads = {Top.own[1]} \cup nodes[Top.parts[1]].reads
                          \cup nodes[Top.parts[2]].reads
      /\ Rank(node.kind) = Top.level - 1
  BY <1>3, FirstOperationSound
<1>5. node.reads = Start(Top)..(next - 1)
  <2>1. Elements(Top.own) = {Top.own[1]}
    BY <1>1, <1>2 DEF Elements
  <2>2. ReadFor(Top.parts) = nodes[Top.parts[1]].reads \cup nodes[Top.parts[2]].reads
    <3>1. DOMAIN Top.parts = {1, 2}
      BY <1>2
    <3>2. Elements(Top.parts) = {Top.parts[1], Top.parts[2]}
      BY <3>1 DEF Elements
    <3> QED BY <3>2 DEF ReadFor
  <2> QED BY <1>2, <1>4, <2>1, <2>2 DEF Tiles
<1>6. node.span.end = next - 1
  <2>1. node.span.start <= node.span.end /\ node.reads = node.span.start..node.span.end
    BY <1>4 DEF SoundNode, Spanned
  <2>2. node.span.end \in Nat
    BY <1>4 DEF TreeNodes
  <2>3. Start(Top) \in Nat /\ Start(Top) <= next - 1 /\ next - 1 \in Int
    BY <1>2, FromFacts, StateFacts
  <2> QED BY <1>4, <1>5, <2>1, <2>2, <2>3, SameInterval
<1>7. Grows /\ TreesTyped' /\ NodesSound' /\ operand' # 0 /\ nodes'[operand'] = node
  <2>1. Build(node)
    BY <1>3
  <2>2. frames' \in Seq(TreeFrames)
    BY <1>2, FramesBelow
  <2>3. next' \in Nat /\ next <= next' /\ next' <= Len(sentence) + 1 /\ node.span.end < next'
    BY <1>6, StateFacts
  <2> QED BY <1>4, <2>1, <2>2, <2>3, BuildStep
<1>8. Rank(node.kind) >= Outer(Len(frames))
  <2>1. Outer(Len(frames)) \in 1..11
    BY <1>2, TopFacts
  <2> QED BY <1>2, <1>4, <2>1, SMTT(30)
<1> QED BY <1>2, <1>4, <1>6, <1>7, <1>8, PopStep

LEMMA FunctionSeq ==
    ASSUME NEW S, NEW m \in Nat, NEW f \in [1..m -> S]
    PROVE  f \in Seq(S) /\ Len(f) = m /\ DOMAIN f = 1..m /\ (m >= 1 => f # <<>>)
<1>1. f \in Seq(S)
  OBVIOUS
<1>2. DOMAIN f = 1..m
  OBVIOUS
<1>3. Len(f) = m
  BY <1>1, <1>2, LenProperties
<1> QED BY <1>1, <1>2, <1>3

LEMMA MoreThanOne ==
    ASSUME NEW n \in Nat, n >= 1, n # 1
    PROVE  n >= 2 /\ n - 1 \in Nat /\ n - 1 >= 1
OBVIOUS

LEMMA FoldTurn ==
    ASSUME TreesSound, Fold, NEW n, n = Len(Top.own), n # 1,
           NEW rest, rest = [j \in 1..(n - 1) |-> Top.own[j + 1]],
           NEW parts, parts = [j \in 1..n |-> IF j = 1 THEN Len(nodes) + 1 ELSE Top.parts[j + 1]],
           nodes' = Append(nodes, FirstOperation), Replace(Frame("folding", Top.level, rest, parts)),
           UNCHANGED <<sentence, next>>
    PROVE  TreesSound'
<1>1. /\ operand = 0 /\ frames # <<>> /\ Top.kind = "folding" /\ Front = next
      /\ n \in Nat /\ n >= 1 /\ Top.own \in Seq(Nat) /\ Top.parts \in Seq(DOMAIN nodes)
      /\ DOMAIN Top.own = 1..n /\ Len(Top.parts) = n + 1
      /\ DOMAIN Top.parts = 1..(n + 1)
      /\ Turns(Top) /\ Tiles(Top, next - 1) /\ Top.level \in 1..11
      /\ Outer(Len(frames)) < Top.level
      /\ Start(Top) = nodes[Top.parts[1]].span.start
  BY FoldingFacts
<1>2. n >= 2 /\ n - 1 \in Nat /\ n - 1 >= 1 /\ Top.level # 7
  <2>1. n \in Nat /\ n >= 1
    BY <1>1
  <2>2. Top.level # 7
    BY <1>1 DEF Turns
  <2> QED BY <2>1, <2>2, MoreThanOne
<1>3. PICK node : node = FirstOperation
  OBVIOUS
<1>4. /\ node \in TreeNodes /\ SoundNode(node) /\ node.parts \in Seq(DOMAIN nodes)
      /\ node.span.start = Start(Top)
      /\ node.span.end = nodes[Top.parts[2]].span.end
      /\ node.reads = {Top.own[1]} \cup nodes[Top.parts[1]].reads
                          \cup nodes[Top.parts[2]].reads
      /\ Rank(node.kind) = Top.level - 1
  BY <1>3, FirstOperationSound
<1>5. PICK new : new = Len(nodes) + 1
  OBVIOUS
<1>6. /\ next \in Nat /\ next >= 1 /\ next <= Len(sentence) + 1 /\ Len(sentence) \in Nat
      /\ Len(nodes) \in Nat /\ DOMAIN nodes = 1..Len(nodes) /\ new \in Nat
      /\ TreesTyped /\ NodesSound /\ nodes \in Seq(TreeNodes)
  BY <1>5, StateFacts DEF TreesSound, TreesTyped
<1>7. \A k \in 1..(n + 1) : Top.parts[k] \in DOMAIN nodes
  BY <1>1
<1>8. /\ Grows /\ NodesSound' /\ nodes' \in Seq(TreeNodes) /\ Len(nodes') = new
      /\ nodes'[new] = node /\ \A m \in DOMAIN nodes : nodes'[m] = nodes[m]
      /\ DOMAIN nodes' = 1..new
  <2>1. node.span.end < next
    <3>1. Top.parts[2] \in DOMAIN nodes
      BY <1>1, <1>7
    <3>2. NodeSound(Top.parts[2])
      BY <1>6, <3>1 DEF NodesSound
    <3> QED BY <1>4, <3>2 DEF NodeSound
  <2>2. nodes' = Append(nodes, node)
    BY <1>3
  <2>3. /\ Grows /\ NodesSound' /\ nodes' \in Seq(TreeNodes)
        /\ Len(nodes') = Len(nodes) + 1 /\ nodes'[Len(nodes) + 1] = node
    BY <1>4, <1>6, <2>1, <2>2, BuiltSound, SMTT(30)
  <2> QED BY <1>5, <2>3 DEF Grows
<1>9. /\ rest \in Seq(Nat) /\ Len(rest) = n - 1 /\ DOMAIN rest = 1..(n - 1) /\ rest # <<>>
      /\ \A j \in 1..(n - 1) : rest[j] = Top.own[j + 1]
  <2>1. \A j \in 1..(n - 1) : rest[j] = Top.own[j + 1] /\ rest[j] \in Nat
    BY <1>1, SMTT(30)
  <2>2. rest \in [1..(n - 1) -> Nat]
    BY <2>1
  <2>3. PICK m : m = n - 1
    OBVIOUS
  <2>4. m \in Nat /\ m >= 1 /\ rest \in [1..m -> Nat]
    BY <1>2, <2>2, <2>3
  <2>5. rest \in Seq(Nat) /\ Len(rest) = m /\ DOMAIN rest = 1..m /\ rest # <<>>
    <3>1. \A f \in [1..m -> Nat] : f \in Seq(Nat) /\ Len(f) = m /\ DOMAIN f = 1..m
      BY <2>4, FunctionSeq
    <3>2. rest \in Seq(Nat) /\ Len(rest) = m /\ DOMAIN rest = 1..m
      BY <2>4, <3>1, Zenon
    <3>3. m # 0
      BY <2>4
    <3>4. Len(<<>>) = 0
      OBVIOUS
    <3> QED BY <3>2, <3>3, <3>4, Zenon
  <2> QED BY <2>1, <2>3, <2>5
<1>10. /\ parts \in Seq(DOMAIN nodes') /\ Len(parts) = n /\ DOMAIN parts = 1..n
       /\ parts[1] = new /\ \A j \in 2..n : parts[j] = Top.parts[j + 1]
  <2>1. parts[1] = new /\ \A j \in 2..n : parts[j] = Top.parts[j + 1]
    BY <1>1, <1>5
  <2>2. \A j \in 1..n : parts[j] \in DOMAIN nodes'
    <3> TAKE j \in 1..n
    <3>1. CASE j = 1
      BY <1>6, <1>8, <2>1, <3>1, <1>5
    <3>2. CASE j # 1
      <4>1. j \in 2..n /\ j + 1 \in 1..(n + 1)
        BY <1>1, <3>2
      <4>2. parts[j] \in DOMAIN nodes
        BY <1>7, <2>1, <4>1
      <4> QED BY <1>6, <1>8, <4>2, <1>5
    <3> QED BY <3>1, <3>2
  <2>3. parts \in [1..n -> DOMAIN nodes']
    BY <2>2
  <2>4. n \in Nat
    BY <1>1
  <2>5. PICK S : S = DOMAIN nodes'
    OBVIOUS
  <2>6. parts \in [1..n -> S]
    BY <2>3, <2>5
  <2>7. \A f \in [1..n -> S] : f \in Seq(S) /\ Len(f) = n /\ DOMAIN f = 1..n
    BY <2>4, FunctionSeq
  <2>8. parts \in Seq(S) /\ Len(parts) = n /\ DOMAIN parts = 1..n
    BY <2>6, <2>7, Zenon
  <2> QED BY <2>1, <2>5, <2>8
<1>11. /\ nodes'[parts[1]] = node
       /\ \A j \in 2..n : /\ j + 1 \in 1..(n + 1) /\ Top.parts[j + 1] \in DOMAIN nodes
                          /\ nodes'[parts[j]] = nodes[Top.parts[j + 1]]
  <2>1. nodes'[parts[1]] = node
    BY <1>8, <1>10
  <2>2. ASSUME NEW j \in 2..n
        PROVE  /\ j + 1 \in 1..(n + 1) /\ Top.parts[j + 1] \in DOMAIN nodes
               /\ nodes'[parts[j]] = nodes[Top.parts[j + 1]]
    <3>1. j + 1 \in 1..(n + 1)
      BY <1>1
    <3> QED BY <1>7, <1>8, <1>10, <3>1
  <2> QED BY <2>1, <2>2
<1>12. PICK frame : frame = Frame("folding", Top.level, rest, parts)
  OBVIOUS
<1>13. /\ frame.kind = "folding" /\ frame.level = Top.level /\ frame.own = rest
       /\ frame.parts = parts
  BY <1>12 DEF Frame
<1>14. Start(frame)' = Start(Top)
  BY <1>4, <1>11, <1>13 DEF Start, InfixFrames
<1>15. PICK to : to = next' - 1
  OBVIOUS
<1>16. PICK outer : outer = Outer(Len(frames))
  OBVIOUS
<1>17. PICK first : first = Top.own[1]
  OBVIOUS
<1>18. /\ Elements(Top.own) \cup ReadFor(Top.parts) = Start(Top)..to
       /\ \A part \in Elements(Top.parts) : Elements(Top.own) \cap nodes[part].reads = {}
       /\ \A j \in 2..Len(Top.parts) :
            nodes[Top.parts[j - 1]].span.end < nodes[Top.parts[j]].span.start
       /\ 1 <= Start(Top) /\ Start(Top) <= to
  BY <1>1, <1>15 DEF Tiles
<1>19. Elements(Top.own) = {first} \cup Elements(rest)
  <2>1. ASSUME NEW t \in Elements(Top.own) PROVE t \in {first} \cup Elements(rest)
    <3>1. PICK j \in 1..n : t = Top.own[j]
      BY <1>1 DEF Elements
    <3>2. CASE j = 1
      BY <1>17, <3>1, <3>2
    <3>3. CASE j # 1
      <4>1. j - 1 \in 1..(n - 1) /\ (j - 1) + 1 = j
        BY <1>1, <3>3
      <4>2. rest[j - 1] = t
        BY <1>9, <3>1, <4>1
      <4> QED BY <1>9, <4>1, <4>2 DEF Elements
    <3> QED BY <3>2, <3>3
  <2>2. ASSUME NEW t \in Elements(rest) PROVE t \in Elements(Top.own)
    <3>1. PICK j \in 1..(n - 1) : t = rest[j]
      BY <1>9 DEF Elements
    <3>2. j + 1 \in 1..n /\ t = Top.own[j + 1]
      BY <1>1, <1>9, <3>1
    <3> QED BY <1>1, <3>2 DEF Elements
  <2>3. 1 \in 1..n
    BY <1>1
  <2>4. first \in Elements(Top.own)
    BY <1>1, <1>17, <2>3 DEF Elements
  <2> QED BY <2>1, <2>2, <2>4
<1>20. first \notin Elements(rest)
  <2> SUFFICES ASSUME first \in Elements(rest) PROVE FALSE
    OBVIOUS
  <2>1. PICK j \in 1..(n - 1) : first = rest[j]
    BY <1>9 DEF Elements
  <2>2. 1 \in 1..n /\ j + 1 \in 1..n /\ 1 < j + 1 /\ first = Top.own[j + 1]
    BY <1>1, <1>9, <2>1
  <2>3. Top.own[1] < Top.own[j + 1]
    BY <1>1, <2>2 DEF Turns
  <2>4. first \in Nat
    <3>1. Top.own \in Seq(Nat) /\ 1 \in DOMAIN Top.own
      BY <1>1, <2>2
    <3>2. Top.own[1] \in Nat
      BY <3>1, ElementsIn
    <3> QED BY <1>17, <3>2
  <2> QED BY <1>17, <2>2, <2>3, <2>4
<1>21. PICK left \in DOMAIN nodes : left = Top.parts[1]
  <2>1. 1 \in 1..(n + 1)
    BY <1>1
  <2> QED BY <1>7, <2>1
<1>22. PICK right \in DOMAIN nodes : right = Top.parts[2]
  <2>1. 2 \in 1..(n + 1)
    BY <1>1
  <2> QED BY <1>7, <2>1
<1>23. node.reads = {first} \cup nodes[left].reads \cup nodes[right].reads
  BY <1>4, <1>17, <1>21, <1>22
<1>24. ReadFor(parts)' \cup {first} = ReadFor(Top.parts) \cup {first}
  <2>1. ASSUME NEW t \in ReadFor(parts)' PROVE t \in ReadFor(Top.parts) \cup {first}
    <3>0. PICK part \in Elements(parts) : t \in nodes'[part].reads
      BY DEF ReadFor
    <3>1. PICK j \in 1..n : t \in nodes'[parts[j]].reads
      BY <1>10, <3>0 DEF Elements
    <3>2. CASE j = 1
      <4>1. t \in {first} \cup nodes[left].reads \cup nodes[right].reads
        BY <1>11, <1>23, <3>1, <3>2
      <4>2. 1 \in DOMAIN Top.parts /\ 2 \in DOMAIN Top.parts
        BY <1>1
      <4>3. nodes[left].reads \subseteq ReadFor(Top.parts) /\ nodes[right].reads \subseteq ReadFor(Top.parts)
        BY <1>21, <1>22, <4>2, ReadForPart
      <4> QED BY <4>1, <4>3
    <3>3. CASE j # 1
      <4>1. j \in 2..n
        BY <3>3
      <4>2. j + 1 \in DOMAIN Top.parts /\ t \in nodes[Top.parts[j + 1]].reads
        BY <1>1, <1>11, <3>1, <4>1
      <4> QED BY <4>2, ReadForPart
    <3> QED BY <3>2, <3>3
  <2>2. ASSUME NEW t \in ReadFor(Top.parts) PROVE t \in ReadFor(parts)'
    <3>1. PICK k \in 1..(n + 1) : t \in nodes[Top.parts[k]].reads
      BY <1>1, ReadForIndex
    <3>2. \A j \in 1..n : nodes'[parts[j]].reads \subseteq ReadFor(parts)'
      <4> TAKE j \in 1..n
      <4>1. parts[j] \in Elements(parts)
        BY <1>10 DEF Elements
      <4> QED BY <4>1 DEF ReadFor
    <3>3. CASE k = 1 \/ k = 2
      <4>1. t \in node.reads
        BY <1>21, <1>22, <1>23, <3>1, <3>3
      <4>2. 1 \in 1..n
        BY <1>1
      <4> QED BY <1>11, <3>2, <4>1, <4>2
    <3>4. CASE k # 1 /\ k # 2
      <4>0. n \in Nat
        BY <1>1
      <4>1. k - 1 \in 2..n /\ (k - 1) + 1 = k /\ k - 1 \in 1..n
        BY <3>4, <4>0
      <4>2. PICK j : j = k - 1
        OBVIOUS
      <4>3. nodes'[parts[j]] = nodes[Top.parts[j + 1]]
        BY <1>11, <4>1, <4>2
      <4>4. t \in nodes'[parts[j]].reads
        BY <3>1, <4>1, <4>2, <4>3
      <4> QED BY <3>2, <4>1, <4>2, <4>4
    <3> QED BY <3>3, <3>4
  <2> QED BY <2>1, <2>2
<1>25. first \in ReadFor(parts)'
  <2>1. 1 \in DOMAIN parts
    BY <1>1, <1>10
  <2>2. nodes'[parts[1]].reads \subseteq ReadFor(parts)'
    BY <2>1 DEF ReadFor, Elements
  <2> QED BY <1>11, <1>23, <2>2
<1>26. Elements(rest) \cup ReadFor(parts)' = Start(Top)..to
  BY <1>18, <1>19, <1>24, <1>25
<1>27. ASSUME NEW part \in Elements(parts) PROVE Elements(rest) \cap nodes'[part].reads = {}
  <2>1. PICK j \in 1..n : part = parts[j]
    BY <1>10 DEF Elements
  <2>2. \A k \in 1..(n + 1) : Elements(Top.own) \cap nodes[Top.parts[k]].reads = {}
    BY <1>1, <1>18 DEF Elements
  <2>3. CASE j = 1
    <3>1. 1 \in 1..(n + 1) /\ 2 \in 1..(n + 1)
      BY <1>1
    <3>2. nodes'[part].reads = {first} \cup nodes[left].reads \cup nodes[right].reads
      BY <1>11, <1>23, <2>1, <2>3
    <3> QED BY <1>19, <1>20, <1>21, <1>22, <2>2, <3>1, <3>2
  <2>4. CASE j # 1
    <3>1. j \in 2..n
      BY <2>4
    <3> QED BY <1>11, <1>19, <2>1, <2>2, <3>1
  <2> QED BY <2>3, <2>4
<1>28. ASSUME NEW j \in 2..n
       PROVE  nodes'[parts[j - 1]].span.end < nodes'[parts[j]].span.start
  <2>1. /\ j + 1 \in 2..Len(Top.parts) /\ (j + 1) - 1 = j
    BY <1>1
  <2>2. nodes[Top.parts[j]].span.end < nodes[Top.parts[j + 1]].span.start
    BY <1>18, <2>1
  <2>3. nodes'[parts[j]] = nodes[Top.parts[j + 1]]
    BY <1>11
  <2>4. CASE j = 2
    <3>1. nodes'[parts[j - 1]] = node
      BY <1>11, <2>4
    <3> QED BY <1>4, <2>2, <2>3, <2>4, <3>1
  <2>5. CASE j # 2
    <3>1. j - 1 \in 2..n /\ (j - 1) + 1 = j
      BY <2>5
    <3>2. nodes'[parts[j - 1]] = nodes[Top.parts[j]]
      <4>1. PICK k : k = j - 1
        OBVIOUS
      <4>2. nodes'[parts[k]] = nodes[Top.parts[k + 1]]
        BY <1>11, <3>1, <4>1
      <4> QED BY <3>1, <4>1, <4>2
    <3> QED BY <2>2, <2>3, <3>2
  <2> QED BY <2>4, <2>5
<1>29. Tiles(frame, to)'
  <2>1. Len(parts) = n
    BY <1>10
  <2> QED BY <1>13, <1>14, <1>18, <1>26, <1>27, <1>28, <2>1 DEF Tiles
<1>30. \A j \in 1..(n - 1) : j + 1 \in 1..n /\ j \in 1..n /\ (j + 1) + 1 \in 1..(n + 1)
  <2>1. n \in Nat
    BY <1>1
  <2> QED BY <2>1
<1>31. ASSUME NEW j \in 1..(n - 1)
       PROVE  /\ rest[j] = nodes'[parts[j]].span.end + 1
              /\ nodes'[parts[j + 1]].span.start = rest[j] + 1
              /\ IsOperator(sentence[rest[j]])
              /\ Level(sentence[rest[j]]) = Top.level - 1
  <2>1. PICK k \in 1..n : k = j + 1
    BY <1>30
  <2>2. /\ Top.own[k] = nodes[Top.parts[k]].span.end + 1
        /\ k + 1 \in DOMAIN Top.parts => nodes[Top.parts[k + 1]].span.start = Top.own[k] + 1
        /\ IsOperator(sentence[Top.own[k]])
        /\ Level(sentence[Top.own[k]]) = Top.level - 1
    BY <1>1 DEF Turns
  <2>3. rest[j] = Top.own[k]
    BY <1>9, <2>1
  <2>4. k \in 2..n /\ k + 1 \in DOMAIN Top.parts
    <3>1. k # 1
      BY <2>1
    <3>2. k + 1 \in 1..(n + 1)
      BY <1>30, <2>1
    <3> QED BY <1>1, <3>1, <3>2
  <2>5. nodes'[parts[j + 1]] = nodes[Top.parts[k + 1]]
    BY <1>11, <2>1, <2>4
  <2>6. nodes'[parts[j]].span.end = nodes[Top.parts[k]].span.end
    <3>1. CASE j = 1
      BY <1>4, <1>11, <2>1, <3>1
    <3>2. CASE j # 1
      <4>1. j \in 2..n
        BY <1>30, <3>2
      <4> QED BY <1>11, <2>1, <4>1
    <3> QED BY <3>1, <3>2
  <2> QED BY <2>2, <2>3, <2>4, <2>5, <2>6
<1>32. ASSUME NEW j \in 1..n
       PROVE  Rank(nodes'[parts[j]].kind) >= IF j = 1 THEN Top.level - 1 ELSE Top.level
  <2>1. CASE j = 1
    <3>1. Rank(nodes'[parts[j]].kind) = Top.level - 1
      BY <1>4, <1>11, <2>1
    <3>2. Top.level - 1 >= Top.level - 1
      <4>1. Top.level \in 1..11
        BY <1>1
      <4> QED BY <4>1
    <3> QED BY <2>1, <3>1, <3>2
  <2>2. CASE j # 1
    <3>1. j \in 2..n
      BY <2>2
    <3>2. j + 1 \in DOMAIN Top.parts /\ j + 1 # 1
      BY <1>1, <1>11, <3>1
    <3>3. Rank(nodes[Top.parts[j + 1]].kind) >= Top.level
      BY <1>1, <3>2 DEF Turns
    <3> QED BY <1>11, <2>2, <3>1, <3>3
  <2> QED BY <2>1, <2>2
<1>33. Turns(frame)'
  <2>1. \A j \in DOMAIN rest :
          /\ rest[j] = nodes'[parts[j]].span.end + 1
          /\ j + 1 \in DOMAIN parts => nodes'[parts[j + 1]].span.start = rest[j] + 1
          /\ IsOperator(sentence[rest[j]])
          /\ Level(sentence[rest[j]]) = Top.level - 1
    BY <1>9, <1>31
  <2>2. \A i, j \in DOMAIN rest : i < j => rest[i] < rest[j]
    <3> TAKE i, j \in DOMAIN rest
    <3>1. i \in 1..(n - 1) /\ j \in 1..(n - 1)
      BY <1>9
    <3>2. i < j => i + 1 < j + 1
      BY <3>1
    <3>3. i + 1 \in DOMAIN Top.own /\ j + 1 \in DOMAIN Top.own
      BY <1>1, <1>30, <3>1
    <3>4. i + 1 < j + 1 => Top.own[i + 1] < Top.own[j + 1]
      BY <1>1, <3>3 DEF Turns
    <3> QED BY <1>9, <3>1, <3>2, <3>4
  <2>3. \A j \in DOMAIN parts :
          Rank(nodes'[parts[j]].kind) >= IF j = 1 THEN Top.level - 1 ELSE Top.level
    BY <1>10, <1>32
  <2>4. LooserFirst(frame)
    BY <1>2, <1>13 DEF LooserFirst
  <2>5. Top.level - 1 \in (1..3) \cup (5..10)
    BY <1>1 DEF Turns
  <2>6. Turns(frame)'
    <3>1. /\ frame.level - 1 \in (1..3) \cup (5..10)
          /\ frame.level = 7 => Len(frame.own) = 1
          /\ \A i, j \in DOMAIN frame.own : i < j => frame.own[i] < frame.own[j]
      BY <1>2, <1>13, <2>2, <2>5
    <3>2. \A j \in DOMAIN frame.own :
            /\ frame.own[j] = nodes'[frame.parts[j]].span.end + 1
            /\ j + 1 \in DOMAIN frame.parts =>
                 nodes'[frame.parts[j + 1]].span.start = frame.own[j] + 1
            /\ IsOperator(sentence'[frame.own[j]])
            /\ Level(sentence'[frame.own[j]]) = frame.level - 1
      <4>1. sentence' = sentence
        BY DEF Fold
      <4> QED BY <1>13, <2>1, <4>1
    <3>3. \A j \in DOMAIN frame.parts :
            Rank(nodes'[frame.parts[j]].kind)
              >= IF j = 1 /\ LooserFirst(frame) THEN frame.level - 1 ELSE frame.level
      <4> TAKE j \in DOMAIN frame.parts
      <4>1. j \in DOMAIN parts
        BY <1>13
      <4>2. Rank(nodes'[parts[j]].kind) >= IF j = 1 THEN Top.level - 1 ELSE Top.level
        BY <2>3, <4>1
      <4> QED BY <1>13, <2>4, <4>2
    <3> QED BY <3>1, <3>2, <3>3, <2>4 DEF Turns, LooserFirst
  <2> QED BY <2>6
<1>34. SoundFrame(frame, to, outer)'
  <2>1. frame.own \in Seq(Nat) /\ frame.own # <<>> /\ frame.parts \in Seq(DOMAIN nodes')
    BY <1>9, <1>10, <1>13
  <2>2. Prefixed(frame, outer)' /\ Bracketed(frame, outer)'
    BY <1>13 DEF Prefixed, Bracketed, BracketFrames
  <2>3. Len(frame.parts) = Len(frame.own) + 1
    <3>1. Len(parts) = n /\ Len(rest) = n - 1 /\ n \in Nat
      BY <1>1, <1>9, <1>10
    <3>2. (n - 1) + 1 = n
      BY <3>1
    <3>3. frame.parts = parts /\ frame.own = rest
      BY <1>13
    <3> QED BY <3>1, <3>2, <3>3
  <2>4. Folded(frame, to, outer)'
    BY <1>1, <1>13, <1>16, <1>33, <2>3 DEF Folded
  <2> QED BY <1>29, <2>1, <2>2, <2>4 DEF SoundFrame
<1>35. frame \in TreeFrames
  <2>1. parts \in Seq(Nat)
    <3>1. DOMAIN nodes' \subseteq Nat
      BY <1>8
    <3> QED BY <1>10, <3>1, SeqWidens
  <2> QED BY <1>1, <1>9, <1>12, <2>1 DEF TreeFrames, Frame, FrameKinds, InfixFrames
<1>36. Replace(frame)
  BY <1>12
<1>37. TreesTyped'
  <2>1. frames' \in Seq(TreeFrames) /\ operand' = 0
    BY <1>1, <1>35, <1>36, FramesBelow DEF Replace
  <2>2. operand' \in 0..Len(nodes')
    BY <1>6, <1>8, <2>1
  <2> QED BY <1>6, <1>8, <2>1, <2>2 DEF TreesTyped
<1> QED BY <1>1, <1>8, <1>14, <1>15, <1>16, <1>34, <1>35, <1>36, <1>37, ReplaceStep

LEMMA FoldSound ==
    ASSUME TreesSound, Fold
    PROVE  TreesSound'
<1>1. PICK n : n = Len(Top.own)
  OBVIOUS
<1>2. n \in Nat /\ n >= 1 /\ DOMAIN Top.own = 1..n
  BY <1>1, FoldingFacts
<1>3. UNCHANGED <<sentence, next>>
  BY DEF Fold
<1>4. CASE n = 1
  <2>1. Build(FirstOperation) /\ frames' = Below
    BY <1>1, <1>4 DEF Fold, NextPair, FirstOperation
  <2> QED BY <1>1, <1>3, <1>4, <2>1, LastFold
<1>5. CASE n # 1
  <2>1. PICK rest : rest = [j \in 1..(n - 1) |-> Top.own[j + 1]]
    OBVIOUS
  <2>2. PICK parts : parts = [j \in 1..n |-> IF j = 1 THEN Len(nodes) + 1 ELSE Top.parts[j + 1]]
    OBVIOUS
  <2>3. rest = [j \in 1..(n - 1) |-> Top.own[IF j < 1 THEN j ELSE j + 1]]
    <3>1. \A j \in 1..(n - 1) : ~(j < 1)
      BY <1>2
    <3> QED BY <2>1, <3>1
  <2>4. parts = [j \in 1..n |->
                   IF j = 1 THEN Len(nodes) + 1 ELSE Top.parts[IF j < 1 THEN j ELSE j + 1]]
    <3>1. \A j \in 1..n : ~(j < 1)
      BY <1>2
    <3> QED BY <2>2, <3>1
  <2>5. nodes' = Append(nodes, FirstOperation) /\ Replace(Frame("folding", Top.level, rest, parts))
    BY <1>1, <1>5, <2>3, <2>4 DEF Fold, NextPair, FirstOperation
  <2> QED BY <1>1, <1>3, <1>5, <2>1, <2>2, <2>5, FoldTurn
<1> QED BY <1>4, <1>5

-----------------------------------------------------------------------------
(* A bracket that closes.                                                   *)
LEMMA ClosingFacts ==
    ASSUME TreesSound, Close
    PROVE  /\ frames # <<>> /\ Top.kind \in BracketFrames
           /\ next \in Nat /\ next \in 1..Len(sentence)
           /\ Build(Closed) /\ next' = next + 1 /\ sentence' = sentence /\ frames' = Below
           /\ operand # 0 \/ Top.kind \in {"..", "["}
           /\ Top.kind \in {"WHERE", "|"} => IsSource(Top.parts[1])
<1>1. frames # <<>> /\ Top.kind \in BracketFrames
  BY Zenon DEF Close, In, BracketFrames
<1>2. Token(next) # "end"
  BY Zenon DEF Close
<1>3. next \in Nat /\ next \in 1..Len(sentence)
  BY <1>2, StateFacts, TokenRead, Zenon
<1>4. /\ Build(Closed) /\ next' = next + 1 /\ sentence' = sentence /\ frames' = Below
      /\ operand # 0 \/ Top.kind \in {"..", "["}
      /\ Top.kind \in {"WHERE", "|"} => IsSource(Top.parts[1])
  BY Zenon DEF Close, Read
<1> QED BY <1>1, <1>3, <1>4, Zenon

LEMMA ContentsFacts ==
    ASSUME TreesSound, frames # <<>>, NEW m, m = Len(Top.parts)
    PROVE  /\ m \in Nat /\ Top.parts \in Seq(DOMAIN nodes)
           /\ operand # 0 => Len(Contents) = m + 1 /\ Contents[m + 1] = operand
           /\ operand = 0 => Len(Contents) = m
           /\ \A k \in 1..m : Contents[k] = Top.parts[k]
<1>1. Top.parts \in Seq(DOMAIN nodes)
  BY TopFacts DEF SoundFrame
<1>2. operand # 0 => operand \in DOMAIN nodes
  BY StateFacts
<1>3. CASE operand = 0
  BY <1>1, <1>3 DEF Contents
<1>4. CASE operand # 0
  BY <1>1, <1>2, <1>4 DEF Contents
<1> QED BY <1>3, <1>4, <1>1

(* The brackets and what is between them.                                   *)
LEMMA EnclosedFacts ==
    ASSUME TreesSound, frames # <<>>, next \in 1..Len(sentence), NEW kind \in NodeKinds,
           NEW node,
           node = Node(kind, Span(Start(Top), next), Elements(Top.own) \cup {next}, Contents)
    PROVE  /\ node \in TreeNodes /\ node.kind = kind
           /\ node.span.start = Start(Top) /\ node.span.end = next
           /\ node.parts = Contents /\ node.parts \in Seq(DOMAIN nodes)
           /\ node.reads = node.own \cup ReadFor(node.parts)
           /\ node.span.start >= 1
           /\ Spanned(node) /\ OwnTokens(node)
<1>1. /\ node.kind = kind /\ node.span.start = Start(Top) /\ node.span.end = next
      /\ node.parts = Contents /\ node.own = Elements(Top.own) \cup {next}
      /\ node.reads = node.own \cup ReadFor(node.parts)
  BY DEF Node, Span
<1>2. /\ Contents \in Seq(DOMAIN nodes)
      /\ Elements(Top.own) \cup ReadFor(Contents) = Start(Top)..(next - 1)
      /\ \A part \in Elements(Contents) : Elements(Top.own) \cap nodes[part].reads = {}
      /\ \A j \in 2..Len(Contents) :
           nodes[Contents[j - 1]].span.end < nodes[Contents[j]].span.start
  BY ContentsTile
<1>3. Start(Top) \in Nat /\ 1 <= Start(Top) /\ Start(Top) < next /\ next \in Nat
  BY FromFacts, StateFacts
<1>4. node \in TreeNodes
  <2>1. Elements(Top.own) \cup {next} \in SUBSET Nat
    <3>1. Top.own \in Seq(Nat)
      BY TopFacts DEF SoundFrame
    <3> QED BY <1>3, <3>1, ElementsIn
  <2>2. PICK first \in Nat : first = Start(Top)
    BY <1>3
  <2>3. PICK own \in SUBSET Nat : own = Elements(Top.own) \cup {next}
    BY <2>1
  <2>4. PICK parts \in Seq(DOMAIN nodes) : parts = Contents
    BY <1>2
  <2>5. Node(kind, Span(first, next), own, parts) \in TreeNodes
    BY <1>3, NodeInTreeNodes
  <2> QED BY <2>2, <2>3, <2>4, <2>5
<1>5. Start(Top)..(next - 1) \cup {next} = Start(Top)..next
  BY <1>3
<1>6. node.reads = Start(Top)..next
  BY <1>1, <1>2, <1>5
<1>7. Spanned(node)
  <2>1. node.span.start <= node.span.end
    BY <1>1, <1>3
  <2>2. node.reads = node.span.start..node.span.end
    BY <1>1, <1>6
  <2>3. \A j \in 2..Len(node.parts) :
          nodes[node.parts[j - 1]].span.end < nodes[node.parts[j]].span.start
    BY <1>1, <1>2
  <2> QED BY <2>1, <2>2, <2>3 DEF Spanned
<1>8. OwnTokens(node)
  <2> SUFFICES ASSUME NEW part \in Elements(Contents) PROVE node.own \cap nodes[part].reads = {}
    BY <1>1 DEF OwnTokens
  <2>1. nodes[part].reads \subseteq ReadFor(Contents)
    BY DEF ReadFor
  <2>2. next \notin nodes[part].reads
    BY <1>2, <1>3, <2>1
  <2> QED BY <1>1, <1>2, <2>2
<1> QED BY <1>1, <1>2, <1>3, <1>4, <1>7, <1>8

LEMMA ClosingStep ==
    ASSUME TreesSound, frames # <<>>, next \in 1..Len(sentence), NEW node \in TreeNodes,
           Build(node), next' = next + 1, sentence' = sentence, frames' = Below,
           node.parts \in Seq(DOMAIN nodes), SoundNode(node),
           node.span.start = Start(Top), node.span.end = next, Rank(node.kind) >= 12
    PROVE  TreesSound'
<1>1. next \in Nat /\ Len(sentence) \in Nat
  BY StateFacts
<1>2. next' \in Nat /\ next <= next' /\ next' <= Len(sentence) + 1 /\ node.span.end < next'
      /\ node.span.end = next' - 1
  BY <1>1
<1>3. frames' \in Seq(TreeFrames)
  BY FramesBelow
<1>4. Grows /\ TreesTyped' /\ NodesSound' /\ operand' # 0 /\ nodes'[operand'] = node
  BY <1>2, <1>3, BuildStep
<1>5. Rank(node.kind) >= Outer(Len(frames))
  <2>1. Outer(Len(frames)) \in 1..11 /\ Rank(node.kind) \in 0..13
    BY TopFacts, LevelRange
  <2> QED BY <2>1
<1> QED BY <1>2, <1>4, <1>5, PopStep

LEMMA EnclosedSound ==
    ASSUME TreesSound, Close, NEW kind \in {"parens", "list", "index", "slice"},
           Closed = Node(kind, Span(Start(Top), next), Elements(Top.own) \cup {next}, Contents),
           kind \in {"index", "slice"} =>
               Len(Contents) >= 1 /\ Rank(nodes[Contents[1]].kind) >= 12,
           kind = "list" /\ Len(Contents) = 1 => ~IsSource(Contents[1])
    PROVE  TreesSound'
<1>1. /\ frames # <<>> /\ next \in 1..Len(sentence)
      /\ Build(Closed) /\ next' = next + 1 /\ sentence' = sentence /\ frames' = Below
  BY ClosingFacts
<1>2. PICK node : node = Closed
  OBVIOUS
<1>3. kind \in NodeKinds
  BY DEF NodeKinds
<1>4. /\ node \in TreeNodes /\ node.kind = kind
      /\ node.span.start = Start(Top) /\ node.span.end = next
      /\ node.parts = Contents /\ node.parts \in Seq(DOMAIN nodes)
      /\ node.reads = node.own \cup ReadFor(node.parts)
      /\ node.span.start >= 1
      /\ Spanned(node) /\ OwnTokens(node)
  BY <1>1, <1>2, <1>3, EnclosedFacts
<1>5. Rank(kind) >= 12 /\ ~IsOperator(kind) /\ (Rank(kind) = 12 => kind \in {"index", "slice"})
      /\ Rank(kind) \notin {4, 11}
  BY KindRanks
<1>6. GroupsToTheLeft(node)
  BY <1>4, <1>5 DEF GroupsToTheLeft
<1>7. ParenthesesMakeAList(node)
  BY <1>4 DEF ParenthesesMakeAList, IsSource
<1>8. Arity(node) /\ Operation(node) /\ NameToken(node)
  BY <1>4, <1>5 DEF Arity, Operation, NameToken
<1>9. SoundNode(node)
  BY <1>4, <1>6, <1>7, <1>8 DEF SoundNode
<1>10. Build(node)
  BY <1>1, <1>2
<1> QED BY <1>1, <1>4, <1>5, <1>9, <1>10, ClosingStep

(* Inside the first bracket.                                                *)
LEMMA BracketFirst ==
    ASSUME TreesSound, frames # <<>>, Top.kind = "["
    PROVE  Len(Top.own) = 1 /\ Top.parts = <<>> /\ Front = Top.own[1] + 1
<1>1. Top.own \in Seq(Nat) /\ Prefixed(Top, Outer(Len(frames))) /\ Tiles(Top, Front - 1)
  BY TopFacts DEF SoundFrame
<1>2. Len(Top.own) = 1 /\ Top.parts = <<>>
  BY <1>1 DEF Prefixed
<1>3. Elements(Top.own) = {Top.own[1]} /\ Start(Top) = Top.own[1] /\ Top.own[1] \in Nat
  BY <1>1, <1>2 DEF Elements, Start, InfixFrames
<1>4. {Top.own[1]} = Top.own[1]..(Front - 1)
  BY <1>1, <1>2, <1>3, ReadForFew DEF Tiles
<1>5. Top.own[1] <= Front - 1 /\ Front - 1 \in Int
  BY <1>3, FromFacts, StateFacts
<1>6. Front - 1 = Top.own[1]
  BY <1>3, <1>4, <1>5, OneNumber
<1> QED BY <1>2, <1>3, <1>6, StateFacts

LEMMA ReplacedFirst ==
    ASSUME NEW S, NEW s \in Seq(S), NEW t \in Seq(S), Len(s) = 2, NEW m \in Nat, m >= 1,
           Len(t) = m
    PROVE  /\ s \o Tail(t) \in Seq(S) /\ Len(s \o Tail(t)) = m + 1
           /\ (s \o Tail(t))[1] = s[1] /\ (s \o Tail(t))[2] = s[2]
           /\ \A j \in 3..(m + 1) : (s \o Tail(t))[j] = t[j - 1]
<1>1. t # <<>>
  OBVIOUS
<1>2. /\ Tail(t) \in Seq(S) /\ Len(Tail(t)) = m - 1
      /\ \A i \in 1..(m - 1) : Tail(t)[i] = t[i + 1]
  BY <1>1, HeadTailProperties
<1>3. PICK u \in Seq(S) : u = Tail(t)
  BY <1>2
<1>4. /\ s \o u \in Seq(S) /\ Len(s \o u) = 2 + (m - 1)
      /\ \A i \in 1..2 + (m - 1) : (s \o u)[i] = IF i <= 2 THEN s[i] ELSE u[i - 2]
  <2>1. /\ s \o u \in Seq(S) /\ Len(s \o u) = Len(s) + Len(u)
        /\ \A i \in 1..Len(s) + Len(u) :
             (s \o u)[i] = IF i <= Len(s) THEN s[i] ELSE u[i - Len(s)]
    BY ConcatProperties
  <2>2. Len(s) = 2 /\ Len(u) = m - 1
    BY <1>2, <1>3
  <2> QED BY <2>1, <2>2
<1>5. 2 + (m - 1) = m + 1
  OBVIOUS
<1>6. (s \o u)[1] = s[1] /\ (s \o u)[2] = s[2]
  BY <1>4, <1>5
<1>7. ASSUME NEW j \in 3..(m + 1) PROVE (s \o u)[j] = t[j - 1]
  <2>1. j \in 1..2 + (m - 1) /\ ~(j <= 2) /\ j - 2 \in 1..(m - 1) /\ (j - 2) + 1 = j - 1
    OBVIOUS
  <2> QED BY <1>2, <1>3, <1>4, <2>1
<1> QED BY <1>3, <1>4, <1>5, <1>6, <1>7

LEMMA SourceFacts ==
    ASSUME TreesSound, NEW n \in DOMAIN nodes, IsSource(n), NEW source, source = nodes[n],
           NEW p, p = source.parts[1], NEW q, q = source.parts[2]
    PROVE  /\ p \in DOMAIN nodes /\ q \in DOMAIN nodes
           /\ Len(source.parts) = 2 /\ source.parts \in Seq(DOMAIN nodes)
           /\ source.reads = source.own \cup nodes[p].reads \cup nodes[q].reads
           /\ source.own \cap nodes[p].reads = {} /\ source.own \cap nodes[q].reads = {}
           /\ nodes[p].span.end < nodes[q].span.start
           /\ nodes[q].span.end <= source.span.end
           /\ sentence[source.span.start] = "v" /\ sentence[source.span.start + 1] = "IN"
           /\ Rank(nodes[q].kind) > 6
<1>1. source.kind = "IN" /\ nodes[p].kind = "v"
  BY DEF IsSource
<1>2. NodeSound(n) /\ TreesTyped /\ NodesSound
  BY DEF TreesSound, NodesSound
<1>3. /\ Len(source.parts) = 2 /\ p \in DOMAIN nodes /\ q \in DOMAIN nodes
  BY <1>1, <1>2, SourceParts
<1>4. source.parts \in Seq(DOMAIN nodes)
  <2>1. source.parts \in Seq(1..(n - 1))
    BY <1>2 DEF NodeSound
  <2>2. 1..(n - 1) \subseteq DOMAIN nodes
    BY StateFacts
  <2> QED BY <2>1, <2>2, SeqWidens
<1>5. SoundNode(source)
  BY <1>2 DEF NodeSound
<1>6. Elements(source.parts) = {p, q}
  <2>1. DOMAIN source.parts = {1, 2}
    BY <1>3, <1>4
  <2> QED BY <2>1 DEF Elements
<1>7. source.reads = source.own \cup nodes[p].reads \cup nodes[q].reads
  <2>1. ReadFor(source.parts) = nodes[p].reads \cup nodes[q].reads
    BY <1>6 DEF ReadFor
  <2> QED BY <1>5, <2>1 DEF SoundNode
<1>8. source.own \cap nodes[p].reads = {} /\ source.own \cap nodes[q].reads = {}
  BY <1>5, <1>6 DEF SoundNode, OwnTokens
<1>9. nodes[p].span.end < nodes[q].span.start
  <2>1. 2 \in 2..Len(source.parts) /\ 2 - 1 = 1
    BY <1>3
  <2>2. nodes[source.parts[2 - 1]].span.end < nodes[source.parts[2]].span.start
    BY <1>5, <2>1 DEF SoundNode, Spanned
  <2> QED BY <2>1, <2>2
<1>10. nodes[q].span.end <= source.span.end
  <2>1. nodes[q].span.end \in nodes[q].reads
    BY <1>3, PartFacts
  <2>2. /\ source.reads = source.span.start..source.span.end
        /\ source.span.start \in Nat /\ source.span.end \in Nat
    BY PartFacts
  <2>3. nodes[q].span.end \in source.span.start..source.span.end
    BY <1>7, <2>1, <2>2
  <2> QED BY <2>2, <2>3
<1>11. IsOperator("IN") /\ Rank("IN") = 6
  BY DEF IsOperator, Rank, Level
<1>12. /\ sentence[nodes[p].span.end + 1] = "IN"
       /\ source.span.start = nodes[p].span.start
  BY <1>1, <1>5, <1>11 DEF SoundNode, Operation
<1>13. nodes[p].span.start = nodes[p].span.end /\ sentence[nodes[p].span.start] = "v"
  <2>1. SoundNode(nodes[p])
    BY <1>3, PartFacts
  <2> QED BY <1>1, <2>1 DEF SoundNode, NameToken
<1>14. Rank(nodes[q].kind) > 6
  BY <1>1, <1>5, <1>11 DEF SoundNode, GroupsToTheLeft
<1> QED BY <1>3, <1>4, <1>7, <1>8, <1>9, <1>10, <1>12, <1>13, <1>14

(* The parts of the source, and what comes after them.                      *)
LEMMA ComprehensionSound ==
    ASSUME TreesSound, Close, Closed = Comprehension(Top.own, Contents),
           NEW m, m = Len(Contents), m \in 1..3,
           IsSource(Contents[1]), Start(Top) = Top.own[1],
           nodes[Contents[1]].span.start = Start(Top) + 1
    PROVE  TreesSound'
<1>1. /\ frames # <<>> /\ next \in 1..Len(sentence) /\ next \in Nat
      /\ Build(Closed) /\ next' = next + 1 /\ sentence' = sentence /\ frames' = Below
  BY ClosingFacts
<1>2. /\ Contents \in Seq(DOMAIN nodes)
      /\ Elements(Top.own) \cup ReadFor(Contents) = Start(Top)..(next - 1)
      /\ \A part \in Elements(Contents) : Elements(Top.own) \cap nodes[part].reads = {}
      /\ \A j \in 2..Len(Contents) :
           nodes[Contents[j - 1]].span.end < nodes[Contents[j]].span.start
  BY <1>1, ContentsTile
<1>3. Start(Top) \in Nat /\ 1 <= Start(Top) /\ Start(Top) < next
  BY <1>1, FromFacts
<1>4. /\ DOMAIN Contents = 1..m /\ \A k \in 1..m : Contents[k] \in DOMAIN nodes
      /\ \A k \in 1..m : Contents[k] \in Elements(Contents)
  BY <1>2 DEF Elements
<1>5. PICK n \in DOMAIN nodes : n = Contents[1]
  <2>1. 1 \in 1..m
    OBVIOUS
  <2> QED BY <1>4, <2>1
<1>6. PICK source : source = nodes[n]
  OBVIOUS
<1>7. PICK p : p = source.parts[1]
  OBVIOUS
<1>8. PICK q : q = source.parts[2]
  OBVIOUS
<1>9. /\ p \in DOMAIN nodes /\ q \in DOMAIN nodes
      /\ Len(source.parts) = 2 /\ source.parts \in Seq(DOMAIN nodes)
      /\ source.reads = source.own \cup nodes[p].reads \cup nodes[q].reads
      /\ source.own \cap nodes[p].reads = {} /\ source.own \cap nodes[q].reads = {}
      /\ nodes[p].span.end < nodes[q].span.start
      /\ nodes[q].span.end <= source.span.end
      /\ sentence[source.span.start] = "v" /\ sentence[source.span.start + 1] = "IN"
      /\ Rank(nodes[q].kind) > 6
  BY <1>5, <1>6, <1>7, <1>8, SourceFacts
<1>10. PICK parts : parts = source.parts \o Tail(Contents)
  OBVIOUS
<1>11. /\ parts \in Seq(DOMAIN nodes) /\ Len(parts) = m + 1
       /\ parts[1] = p /\ parts[2] = q
       /\ \A j \in 3..(m + 1) : parts[j] = Contents[j - 1]
  <2>1. m \in Nat /\ m >= 1
    OBVIOUS
  <2>2. PICK S : S = DOMAIN nodes
    OBVIOUS
  <2>3. source.parts \in Seq(S) /\ Contents \in Seq(S)
    BY <1>2, <1>9, <2>2
  <2>4. PICK s \in Seq(S) : s = source.parts
    BY <2>3
  <2>5. PICK t \in Seq(S) : t = Contents
    BY <2>3
  <2>6. Len(s) = 2 /\ Len(t) = m
    BY <1>9, <2>4, <2>5
  <2>7. /\ s \o Tail(t) \in Seq(S) /\ Len(s \o Tail(t)) = m + 1
        /\ (s \o Tail(t))[1] = s[1] /\ (s \o Tail(t))[2] = s[2]
        /\ \A j \in 3..(m + 1) : (s \o Tail(t))[j] = t[j - 1]
    BY <2>1, <2>6, ReplacedFirst
  <2> QED BY <1>7, <1>8, <1>10, <2>2, <2>4, <2>5, <2>7
<1>12. PICK own : own = Elements(Top.own) \cup {next} \cup source.own
  OBVIOUS
<1>13. PICK node : node = Closed
  OBVIOUS
<1>14. node = Node("comprehension", Span(Start(Top), next), own, parts)
  BY <1>5, <1>6, <1>10, <1>12, <1>13 DEF Comprehension
<1>15. /\ node.kind = "comprehension" /\ node.span.start = Start(Top) /\ node.span.end = next
       /\ node.parts = parts /\ node.own = own /\ node.reads = own \cup ReadFor(parts)
  BY <1>14 DEF Node, Span
<1>16. PICK Rest : Rest = {Contents[k] : k \in 2..m}
  OBVIOUS
<1>17. Elements(Contents) = {n} \cup Rest
  <2>1. 1..m = {1} \cup 2..m
    OBVIOUS
  <2> QED BY <1>4, <1>5, <1>16, <2>1 DEF Elements
<1>18. Elements(parts) = {p, q} \cup Rest
  <2>1. DOMAIN parts = 1..(m + 1)
    BY <1>11
  <2>2. ASSUME NEW x \in Elements(parts) PROVE x \in {p, q} \cup Rest
    <3>1. PICK j \in 1..(m + 1) : x = parts[j]
      BY <2>1 DEF Elements
    <3>2. CASE j \in {1, 2}
      BY <1>11, <3>1, <3>2
    <3>3. CASE j \notin {1, 2}
      <4>1. j \in 3..(m + 1) /\ j - 1 \in 2..m
        BY <3>3
      <4> QED BY <1>11, <1>16, <3>1, <4>1
    <3> QED BY <3>2, <3>3
  <2>3. ASSUME NEW x \in Rest PROVE x \in Elements(parts)
    <3>1. PICK k \in 2..m : x = Contents[k]
      BY <1>16
    <3>2. k + 1 \in 3..(m + 1) /\ (k + 1) - 1 = k /\ k + 1 \in 1..(m + 1)
      OBVIOUS
    <3>3. parts[k + 1] = x
      BY <1>11, <3>1, <3>2
    <3> QED BY <2>1, <3>2, <3>3 DEF Elements
  <2>4. 1 \in 1..(m + 1) /\ 2 \in 1..(m + 1)
    OBVIOUS
  <2>5. p \in Elements(parts) /\ q \in Elements(parts)
    BY <1>11, <2>1, <2>4 DEF Elements
  <2> QED BY <2>2, <2>3, <2>5
<1>19. PICK R : R = UNION {nodes[part].reads : part \in Rest}
  OBVIOUS
<1>20. ReadFor(Contents) = source.reads \cup R
  BY <1>6, <1>17, <1>19 DEF ReadFor
<1>21. ReadFor(parts) = nodes[p].reads \cup nodes[q].reads \cup R
  BY <1>18, <1>19 DEF ReadFor
<1>22. own \cup ReadFor(parts) = Start(Top)..next
  <2>1. own \cup ReadFor(parts) = (Elements(Top.own) \cup ReadFor(Contents)) \cup {next}
    BY <1>9, <1>12, <1>20, <1>21
  <2>2. Start(Top)..(next - 1) \cup {next} = Start(Top)..next
    BY <1>1, <1>3
  <2> QED BY <1>2, <2>1, <2>2
<1>23. Spanned(node)
  <2>1. node.span.start <= node.span.end
    BY <1>1, <1>3, <1>15
  <2>2. node.reads = node.span.start..node.span.end
    BY <1>15, <1>22
  <2>3. ASSUME NEW j \in 2..(m + 1)
        PROVE  nodes[parts[j - 1]].span.end < nodes[parts[j]].span.start
    <3>1. CASE j = 2
      BY <1>9, <1>11, <3>1
    <3>2. CASE j # 2
      <4>1. j \in 3..(m + 1) /\ j - 1 \in 2..m
        BY <3>2
      <4>2. parts[j] = Contents[j - 1]
        BY <1>11, <4>1
      <4>3. PICK k \in 2..m : k = j - 1
        BY <4>1
      <4>4. nodes[Contents[k - 1]].span.end < nodes[Contents[k]].span.start
        BY <1>2
      <4>5. CASE k = 2
        <5>1. nodes[parts[j - 1]].span.end <= source.span.end
          BY <1>9, <1>11, <4>3, <4>5
        <5>2. source.span.end < nodes[Contents[k]].span.start
          BY <1>5, <1>6, <4>4, <4>5
        <5>3. /\ nodes[q].span.end \in Nat /\ source.span.end \in Nat
              /\ nodes[Contents[k]].span.start \in Nat
          <6>1. Contents[k] \in DOMAIN nodes
            BY <1>4
          <6> QED BY <1>5, <1>6, <1>9, <6>1, PartFacts
        <5>4. parts[j - 1] = q
          BY <1>11, <4>3, <4>5
        <5> QED BY <4>2, <4>3, <5>1, <5>2, <5>3, <5>4
      <4>6. CASE k # 2
        <5>1. j - 1 \in 3..(m + 1)
          BY <4>1, <4>3, <4>6
        <5>2. parts[k] = Contents[k - 1]
          BY <1>11, <4>3, <5>1
        <5> QED BY <4>2, <4>3, <4>4, <5>2
      <4> QED BY <4>5, <4>6
    <3> QED BY <3>1, <3>2
  <2>4. \A j \in 2..Len(node.parts) :
          nodes[node.parts[j - 1]].span.end < nodes[node.parts[j]].span.start
    BY <1>11, <1>15, <2>3
  <2> QED BY <2>1, <2>2, <2>4 DEF Spanned
<1>24. ASSUME NEW k \in 2..m PROVE source.reads \cap nodes[Contents[k]].reads = {}
  <2>1. /\ source.reads = source.span.start..source.span.end
        /\ source.span.start \in Nat /\ source.span.end \in Nat
    BY <1>6, PartFacts
  <2>2. \A j \in 1..m : LET part == nodes[Contents[j]] IN
          /\ part.span.start \in Nat /\ part.span.end \in Nat
          /\ part.span.start <= part.span.end /\ part.reads = part.span.start..part.span.end
    BY <1>4, PartFacts
  <2>3. source.span.end < nodes[Contents[k]].span.start
    <3>1. 2 \in 2..m /\ 2 - 1 = 1 /\ 2 \in 1..m
      OBVIOUS
    <3>2. nodes[Contents[2 - 1]].span.end < nodes[Contents[2]].span.start
      BY <1>2, <3>1
    <3>3. source.span.end < nodes[Contents[2]].span.start
      BY <1>5, <1>6, <3>1, <3>2
    <3>4. CASE k = 2
      BY <3>3, <3>4
    <3>5. CASE k = 3
      <4>1. 3 \in 2..m /\ 3 - 1 = 2 /\ 3 \in 1..m
        BY <3>5
      <4>2. nodes[Contents[3 - 1]].span.end < nodes[Contents[3]].span.start
        BY <1>2, <4>1
      <4>3. /\ nodes[Contents[2]].span.start \in Nat /\ nodes[Contents[2]].span.end \in Nat
            /\ nodes[Contents[2]].span.start <= nodes[Contents[2]].span.end
            /\ nodes[Contents[3]].span.start \in Nat
        BY <2>2, <3>1, <4>1
      <4> QED BY <2>1, <3>3, <3>5, <4>1, <4>2, <4>3
    <3> QED BY <3>4, <3>5
  <2>4. PICK part : part = nodes[Contents[k]]
    OBVIOUS
  <2>5. /\ part.span.start \in Nat /\ part.span.end \in Nat
        /\ part.reads = part.span.start..part.span.end
    <3>1. k \in 1..m
      OBVIOUS
    <3> QED BY <2>2, <2>4, <3>1
  <2>6. source.span.end < part.span.start
    BY <2>3, <2>4
  <2>7. source.reads \cap part.reads = {}
    BY <2>1, <2>5, <2>6
  <2> QED BY <2>4, <2>7
<1>25. OwnTokens(node)
  <2> SUFFICES ASSUME NEW part \in Elements(parts) PROVE own \cap nodes[part].reads = {}
    BY <1>15 DEF OwnTokens
  <2>1. next \notin ReadFor(Contents)
    BY <1>1, <1>2, <1>3
  <2>2. Elements(Top.own) \cap source.reads = {}
    BY <1>2, <1>6, <1>17
  <2>3. CASE part \in {p, q}
    <3>1. nodes[part].reads \subseteq source.reads /\ source.own \cap nodes[part].reads = {}
      BY <1>9, <2>3
    <3> QED BY <1>12, <1>20, <2>1, <2>2, <3>1
  <2>4. CASE part \in Rest
    <3>1. source.own \subseteq source.reads
      BY <1>9
    <3>2. source.reads \cap nodes[part].reads = {}
      BY <1>16, <1>24, <2>4
    <3>3. Elements(Top.own) \cap nodes[part].reads = {}
      BY <1>2, <1>17, <2>4
    <3>4. nodes[part].reads \subseteq ReadFor(Contents)
      BY <1>19, <1>20, <2>4
    <3> QED BY <1>12, <2>1, <3>1, <3>2, <3>3, <3>4
  <2> QED BY <1>18, <2>3, <2>4
<1>26. ParenthesesMakeAList(node)
  <2>1. source.span.start = Start(Top) + 1
    BY <1>5, <1>6
  <2>2. sentence[node.span.start + 1] = "v"
    BY <1>9, <1>15, <2>1
  <2>3. sentence[node.span.start + 2] = "IN"
    <3>1. node.span.start + 2 = source.span.start + 1
      BY <1>3, <1>15, <2>1
    <3> QED BY <1>9, <3>1
  <2>4. Rank(nodes[node.parts[2]].kind) > 6
    BY <1>9, <1>11, <1>15
  <2> QED BY <1>15, <2>2, <2>3, <2>4 DEF ParenthesesMakeAList
<1>27. GroupsToTheLeft(node) /\ Operation(node) /\ NameToken(node)
  BY <1>15, KindRanks DEF GroupsToTheLeft, Operation, NameToken
<1>28. Arity(node)
  <2>1. Len(node.parts) >= 2
    BY <1>11, <1>15
  <2> QED BY <1>15, <2>1 DEF Arity
<1>29. SoundNode(node)
  BY <1>3, <1>15, <1>23, <1>25, <1>26, <1>27, <1>28 DEF SoundNode
<1>30. node \in TreeNodes
  <2>1. own \in SUBSET Nat
    <3>1. Top.own \in Seq(Nat)
      BY <1>1, TopFacts DEF SoundFrame
    <3>2. Elements(Top.own) \subseteq Nat
      BY <3>1, ElementsIn
    <3>3. source.reads \subseteq Nat
      BY <1>6, StateFacts DEF TreeNodes
    <3> QED BY <1>1, <1>9, <1>12, <3>2, <3>3
  <2>2. PICK first \in Nat : first = Start(Top)
    BY <1>3
  <2>3. "comprehension" \in NodeKinds
    BY DEF NodeKinds
  <2>4. Node("comprehension", Span(first, next), own, parts) \in TreeNodes
    BY <1>1, <1>11, <2>1, <2>3, NodeInTreeNodes
  <2> QED BY <1>14, <2>2, <2>4
<1>31. Build(node) /\ node.parts \in Seq(DOMAIN nodes) /\ Rank(node.kind) >= 12
  BY <1>1, <1>11, <1>13, <1>15, KindRanks
<1> QED BY <1>1, <1>15, <1>29, <1>30, <1>31, ClosingStep

LEMMA CloseSound ==
    ASSUME TreesSound, Close
    PROVE  TreesSound'
<1>1. /\ frames # <<>> /\ Top.kind \in BracketFrames /\ next \in Nat
      /\ operand # 0 \/ Top.kind \in {"..", "["}
      /\ Top.kind \in {"WHERE", "|"} => IsSource(Top.parts[1])
  BY ClosingFacts
<1>2. PICK m : m = Len(Top.parts)
  OBVIOUS
<1>3. /\ m \in Nat /\ Top.parts \in Seq(DOMAIN nodes)
      /\ operand # 0 => Len(Contents) = m + 1 /\ Contents[m + 1] = operand
      /\ operand = 0 => Len(Contents) = m
      /\ \A k \in 1..m : Contents[k] = Top.parts[k]
  BY <1>1, <1>2, ContentsFacts
<1>4. /\ Top.own \in Seq(Nat) /\ Bracketed(Top, Outer(Len(frames)))
  BY <1>1, TopFacts DEF SoundFrame
<1>5. Elements(Append(Top.own, next)) = Elements(Top.own) \cup {next}
  BY <1>1, <1>4, ElementsAppend
<1>6. m >= 1 => Contents[1] = Top.parts[1] /\ Len(Contents) >= 1
  <2>1. m >= 1 => 1 \in 1..m
    BY <1>3
  <2> QED BY <1>3, <2>1
<1>7. Top.kind \notin InfixFrames => Start(Top) = Top.own[1]
  BY DEF Start
<1>8. CASE Top.kind = "("
  <2>1. Top.kind \notin InfixFrames
    BY <1>8 DEF InfixFrames
  <2>2. Closed = Node("parens", Span(Start(Top), next), Elements(Top.own) \cup {next}, Contents)
    BY <1>7, <1>8, <2>1 DEF Closed, Enclosed
  <2> QED BY <2>2, EnclosedSound
<1>9. CASE Top.kind \in {"index", ".."}
  <2>1. PICK kind \in {"index", "slice"} : kind = IF Top.kind = "index" THEN "index" ELSE "slice"
    OBVIOUS
  <2>2. m >= 1 /\ Rank(nodes[Top.parts[1]].kind) >= 12
    BY <1>2, <1>4, <1>9 DEF Bracketed
  <2>3. Start(Top) = nodes[Contents[1]].span.start
    BY <1>6, <1>9, <2>2 DEF Start, InfixFrames
  <2>4. Closed = Suffixed(kind, Elements(Append(Top.own, next)), next, Contents)
    BY <1>9, <2>1 DEF Closed
  <2>5. Closed = Node(kind, Span(Start(Top), next), Elements(Top.own) \cup {next}, Contents)
    BY <1>5, <2>3, <2>4 DEF Suffixed
  <2>6. Len(Contents) >= 1 /\ Rank(nodes[Contents[1]].kind) >= 12
    BY <1>6, <2>2
  <2> QED BY <2>5, <2>6, EnclosedSound
<1>10. CASE Top.kind = "[" /\ operand # 0 /\ IsSource(operand)
  <2>1. Top.kind \notin InfixFrames
    BY <1>10 DEF InfixFrames
  <2>2. Closed = Comprehension(Top.own, Contents)
    BY <1>10 DEF Closed
  <2>3. Top.parts = <<>> /\ Front = Top.own[1] + 1
    BY <1>1, <1>10, BracketFirst
  <2>4. m = 0
    BY <1>2, <2>3
  <2>5. Len(Contents) = 1 /\ Contents[1] = operand
    BY <1>3, <1>10, <2>4
  <2>6. nodes[Contents[1]].span.start = Start(Top) + 1
    BY <1>7, <1>10, <2>1, <2>3, <2>5, OperandFacts
  <2>7. PICK len \in 1..3 : len = Len(Contents)
    BY <2>5
  <2> QED BY <1>7, <1>10, <2>1, <2>2, <2>5, <2>6, <2>7, ComprehensionSound
<1>11. CASE Top.kind \in {"WHERE", "|"}
  <2>1. Top.kind \notin InfixFrames
    BY <1>11 DEF InfixFrames
  <2>2. Closed = Comprehension(Top.own, Contents)
    BY <1>11 DEF Closed
  <2>3. m \in {1, 2} /\ nodes[Top.parts[1]].span.start = Top.own[1] + 1
    BY <1>2, <1>4, <1>11 DEF Bracketed
  <2>4. operand # 0
    BY <1>1, <1>11
  <2>5. Len(Contents) \in 1..3 /\ Contents[1] = Top.parts[1]
    BY <1>3, <1>6, <2>3, <2>4
  <2>6. nodes[Contents[1]].span.start = Start(Top) + 1
    BY <1>7, <2>1, <2>3, <2>5
  <2>7. PICK len \in 1..3 : len = Len(Contents)
    BY <2>5
  <2> QED BY <1>1, <1>7, <1>11, <2>1, <2>2, <2>5, <2>6, <2>7, ComprehensionSound
<1>12. CASE /\ Top.kind \notin {"(", "WHERE", "|", "index", ".."}
            /\ ~(Top.kind = "[" /\ operand # 0 /\ IsSource(operand))
  <2>1. Closed = Enclosed("list", Top.own, Contents)
    BY <1>12, Zenon DEF Closed
  <2>2. Top.kind \notin InfixFrames
    BY <1>1, <1>12, Zenon DEF InfixFrames, BracketFrames
  <2>3. Closed = Node("list", Span(Start(Top), next), Elements(Top.own) \cup {next}, Contents)
    BY <1>7, <2>1, <2>2 DEF Enclosed
  <2>4. Len(Contents) = 1 => ~IsSource(Contents[1])
    <3>1. CASE Top.kind = "["
      <4>1. Top.parts = <<>>
        BY <1>1, <3>1, BracketFirst
      <4>2. m = 0
        BY <1>2, <4>1
      <4> QED BY <1>3, <1>12, <3>1, <4>2
    <3>2. CASE Top.kind # "["
      <4>1. Len(Top.parts) >= 1 /\ operand # 0
        BY <1>1, <1>4, <1>12, <3>2, Zenon DEF Bracketed, BracketFrames
      <4>2. Len(Contents) # 1
        BY <1>2, <1>3, <4>1
      <4> QED BY <4>2
    <3> QED BY <3>1, <3>2
  <2> QED BY <2>3, <2>4, EnclosedSound
<1> QED BY <1>8, <1>9, <1>10, <1>11, <1>12

-----------------------------------------------------------------------------
LEMMA InitSound ==
    ASSUME TreeInit
    PROVE  TreesSound
<1>1. sentence \in Seq(Terminals)
  BY SentencesAssumption DEF TreeInit
<1>2. next = 1 /\ nodes = <<>> /\ frames = <<>> /\ operand = 0
  BY DEF TreeInit
<1>3. Len(frames) = 0 /\ DOMAIN frames = {} /\ DOMAIN nodes = {} /\ Len(nodes) = 0
  BY <1>2
<1>4. TreesTyped
  <2>1. Len(sentence) \in Nat
    BY <1>1
  <2>2. next \in 1..(Len(sentence) + 1)
    BY <1>2, <2>1
  <2>3. nodes \in Seq(TreeNodes) /\ frames \in Seq(TreeFrames) /\ operand \in 0..Len(nodes)
    BY <1>2, <1>3
  <2> QED BY <1>1, <2>2, <2>3 DEF TreesTyped
<1>5. Filled(0) = 0
  BY <1>2, <1>3 DEF Filled
<1> QED BY <1>2, <1>3, <1>4, <1>5 DEF TreesSound, NodesSound, OperandSound

LEMMA NothingHappens ==
    ASSUME TreesSound, UNCHANGED treeVars
    PROVE  TreesSound'
<1>1. UNCHANGED <<sentence, next, nodes, frames, operand>>
  BY DEF treeVars
<1>2. TreesTyped'
  BY <1>1 DEF TreesSound, TreesTyped
<1>3. ASSUME NEW n \in DOMAIN nodes PROVE NodeSound(n)'
  <2>1. Grows
    BY <1>1, StateFacts DEF Grows
  <2>2. PICK node : node = nodes[n]
    OBVIOUS
  <2>3. NodeSound(n) /\ node \in TreeNodes
    BY <2>2, StateFacts DEF TreesSound, NodesSound
  <2>4. node.parts \in Seq(1..(n - 1)) /\ SoundNode(node) /\ node.span.end < next
    BY <2>2, <2>3 DEF NodeSound
  <2>5. node.parts \in Seq(DOMAIN nodes) /\ node.kind \in NodeKinds
    <3>1. 1..(n - 1) \subseteq DOMAIN nodes
      BY StateFacts
    <3> QED BY <2>3, <2>4, <3>1, SeqWidens DEF TreeNodes
  <2>6. SoundNode(node)'
    BY <2>1, <2>4, <2>5, SoundNodeKept DEF TreesSound
  <2>7. nodes'[n] = node /\ next' = next
    BY <1>1, <2>2
  <2> QED BY <2>4, <2>6, <2>7 DEF NodeSound
<1>4. ASSUME NEW k \in DOMAIN frames PROVE FrameSound(k)'
  <2>1. Grows
    BY <1>1, StateFacts DEF Grows
  <2>2. PICK frame : frame = frames[k]
    OBVIOUS
  <2>3. PICK to : to = Filled(k)
    OBVIOUS
  <2>4. PICK outer : outer = Outer(k)
    OBVIOUS
  <2>5. FrameSound(k)
    BY DEF TreesSound
  <2>6. SoundFrame(frame, to, outer) /\ TreesTyped
    BY <2>2, <2>3, <2>4, <2>5 DEF FrameSound, TreesSound
  <2>7. SoundFrame(frame, to, outer)'
    BY <2>1, <2>6, SoundFrameKept
  <2>8. frames'[k] = frame /\ Filled(k)' = to /\ Outer(k)' = outer
    BY <1>1, <2>2, <2>3, <2>4 DEF Filled, Start, Outer
  <2> QED BY <1>1, <2>2, <2>5, <2>7, <2>8 DEF FrameSound
<1>5. Filled(0)' = 0 /\ OperandSound'
  BY <1>1 DEF TreesSound, Filled, Start, OperandSound, Wanted, Top
<1> QED BY <1>1, <1>2, <1>3, <1>4, <1>5 DEF TreesSound, NodesSound

LEMMA StepSound ==
    ASSUME TreesSound, TreeNext
    PROVE  TreesSound'
<1>1. CASE Name
  BY <1>1, NameSound
<1>2. CASE Open
  BY <1>2, OpenSound
<1>3. CASE Prefix
  BY <1>3, PrefixSound
<1>4. CASE EndPrefix
  BY <1>4, EndPrefixSound
<1>5. CASE Operator
  BY <1>5, OperatorSound
<1>6. CASE MoreOperands
  BY <1>6, MoreOperandsSound
<1>7. CASE EndOperands
  BY <1>7, EndOperandsSound
<1>8. CASE Fold
  BY <1>8, FoldSound
<1>9. CASE NullTest
  BY <1>9, NullTestSound
<1>10. CASE Property
  BY <1>10, PropertySound
<1>11. CASE Subscript
  BY <1>11, SubscriptSound
<1>12. CASE Separate
  BY <1>12, SeparateSound
<1>13. CASE Close
  BY <1>13, CloseSound
<1> QED BY <1>1, <1>2, <1>3, <1>4, <1>5, <1>6, <1>7, <1>8, <1>9, <1>10, <1>11, <1>12, <1>13
        DEF TreeNext

(* At every step the nodes built so far are trees over the tokens they     *)
(* span, and the open constructs tile the sentence up to the next token.   *)
THEOREM TreesAreSound == TreeSpec => []TreesSound
<1>1. TreeInit => TreesSound
  BY InitSound
<1>2. TreesSound /\ [TreeNext]_treeVars => TreesSound'
  BY StepSound, NothingHappens
<1> QED BY <1>1, <1>2, PTL DEF TreeSpec

LEMMA WholeSentence ==
    ASSUME TreesSound, Accepted
    PROVE  nodes[operand].span = Span(1, Len(sentence))
<1>1. operand # 0 /\ frames = <<>> /\ next = Len(sentence) + 1 /\ Len(frames) = 0
  BY DEF Accepted
<1>2. /\ nodes[operand] \in TreeNodes /\ nodes[operand].span.start = Front
      /\ nodes[operand].span.end = next - 1 /\ Front \in Nat /\ Len(sentence) \in Nat
  BY <1>1, OperandFacts, StateFacts
<1>3. Front = 1
  <2>1. Filled(0) = 0
    BY DEF TreesSound
  <2>2. Filled(0) = Front - 1
    BY <1>1, FramesFacts
  <2> QED BY <1>2, <2>1, <2>2
<1>4. nodes[operand].span = Span(nodes[operand].span.start, nodes[operand].span.end)
  BY <1>2 DEF TreeNodes, Span
<1>5. nodes[operand].span.start = 1 /\ nodes[operand].span.end = Len(sentence)
  BY <1>1, <1>2, <1>3
<1> QED BY <1>4, <1>5

(* Every node of the trees that the fold functions and the grammar's        *)
(* actions build spans exactly the tokens read for it, no token is used    *)
(* twice, and the tree of an accepted expression spans the whole of it.    *)
THEOREM TreesStandForTokens == TreeSpec => []TreesCoverTokens
<1>1. TreesSound => TreesCoverTokens
  BY WholeSentence DEF TreesCoverTokens, TreesSound, NodesSound, NodeSound, SoundNode
<1> QED BY <1>1, TreesAreSound, PTL

(* Operators group by the levels of the grammar and to the left, and        *)
(* brackets hold a comprehension exactly when IN after a variable holds    *)
(* their content together (split_comprehension_source).                    *)
THEOREM TreesAreGrouped == TreeSpec => []GroupedAsRead
<1>1. TreesSound => GroupedAsRead
  BY DEF GroupedAsRead, TreesSound, NodesSound, NodeSound, SoundNode
<1> QED BY <1>1, TreesAreSound, PTL
=============================================================================
