----------------------------- MODULE LexingProofs -----------------------------
(***************************************************************************)
(* What Lexer says of the tokens of a text holds for every text and every  *)
(* part of it that is lexed by itself (lex, consume_quoted and             *)
(* lex_block_comment of src/lexer.rs, decode_delimited of src/parser.rs),  *)
(* and what ScriptSplit says of the statements of a script holds for every *)
(* script (split_cypher_script of xtask/src/tck.rs).                       *)
(*                                                                         *)
(* The argument is that no scanner sees beyond the token it returns: cut   *)
(* the text anywhere after that token, and the same token comes out.  So a *)
(* fragment has the tokens it had in the text, and the decoder, which is   *)
(* given a literal without its closing delimiter, meets the units the      *)
(* lexer met.  The scanners are recursive functions that look ahead only;  *)
(* that they have values is shown as for the scanners of TokenScans.       *)
(*                                                                         *)
(* The splitter is somewhere in a token whenever it reads: its state says  *)
(* of what kind, and the scan of the lexer from there on says where it     *)
(* ends.  In a string with a doubled delimiter the two differ, the         *)
(* splitter has closed it and opens it again; they agree one character     *)
(* later.  So it cuts at the semicolon tokens, and what it has cut are the *)
(* pieces that end before the statement it reads.                          *)
(***************************************************************************)
EXTENDS ScriptSplit, FiniteSetTheorems, WellFoundedInduction, TLAPS

-----------------------------------------------------------------------------
(* Numbers and recursive functions.                                         *)

(* A nonempty set of natural numbers has the minimum Min picks.             *)
LEMMA MinIsLeast ==
    ASSUME NEW S, S \subseteq Nat, S # {}
    PROVE  Min(S) \in S /\ \A x \in S : Min(S) <= x
<1> DEFINE R == {xy \in Nat \X Nat : xy[1] < xy[2]}
<1>1. IsWellFoundedOn(R, Nat)
  BY NatLessThanWellFounded DEF OpToRel
<1>2. \A x, y \in Nat : x < y => <<x, y>> \in R
  OBVIOUS
<1> HIDE DEF R
<1>3. PICK m \in S : \A y \in S : ~(<<y, m>> \in R)
  BY <1>1, WFMin
<1>4. \A y \in S : m <= y
  <2> SUFFICES ASSUME NEW y \in S PROVE ~(y < m)
    OBVIOUS
  <2> QED BY <1>2, <1>3
<1>5. \E x \in S : \A y \in S : x <= y
  BY <1>4
<1> QED BY <1>5, Zenon DEF Min

(* A nonempty set of numbers that is bounded has the maximum Max picks.     *)
LEMMA MaxIsGreatest ==
    ASSUME NEW S, NEW b \in Int, \A x \in S : x \in Int /\ x <= b, S # {}
    PROVE  Max(S) \in S /\ \A x \in S : Max(S) >= x
<1> DEFINE T == {b - x : x \in S}
<1>1. T \subseteq Nat /\ T # {}
  <2>1. \A x \in S : b - x \in Nat
    OBVIOUS
  <2> QED BY <2>1
<1> HIDE DEF T
<1>2. Min(T) \in T /\ \A x \in T : Min(T) <= x
  BY <1>1, MinIsLeast
<1>3. PICK m \in S : Min(T) = b - m
  BY <1>2 DEF T
<1>4. \A x \in S : m >= x
  <2> SUFFICES ASSUME NEW x \in S PROVE m >= x
    OBVIOUS
  <2>1. b - x \in T
    BY DEF T
  <2> QED BY <2>1, <1>2, <1>3
<1>5. \E x \in S : \A y \in S : x >= y
  BY <1>4
<1> QED BY <1>5, Zenon DEF Max

\* G gives the value at i from the values at the later indices.
LooksAhead(n, V, G) == \A i \in 1..n : G[i] \in [[(i + 1)..n -> V] -> V]

\* f takes the values that G gives.
Solves(n, V, G, f) ==
    \A i \in 1..n : \E h \in [(i + 1)..n -> V] :
        f[i] = G[i][h] /\ \A j \in (i + 1)..n : h[j] = f[j]

(* A function on the indices up to n that is defined at each of them from   *)
(* its values at later ones exists: take the least index down to which such *)
(* a function can be built.                                                 *)
LEMMA LookAhead ==
    ASSUME NEW n \in Nat, NEW V, NEW G, LooksAhead(n, V, G)
    PROVE  \E f \in [1..n -> V] : Solves(n, V, G, f)
<1>0. \A i \in 1..n : G[i] \in [[(i + 1)..n -> V] -> V]
  BY DEF LooksAhead
<1> DEFINE Built(k) == \E f \in [k..n -> V] :
                          \A i \in k..n : f[i] = G[i][[j \in (i + 1)..n |-> f[j]]]
           S == {k \in 1..(n + 1) : Built(k)}
<1>1. n + 1 \in S
  <2>1. (n + 1)..n = {}
    OBVIOUS
  <2>2. [j \in (n + 1)..n |-> j] \in [(n + 1)..n -> V]
    BY <2>1
  <2>3. Built(n + 1)
    BY <2>1, <2>2
  <2>4. n + 1 \in 1..(n + 1)
    OBVIOUS
  <2> HIDE DEF Built
  <2> QED BY <2>3, <2>4
<1>2. Min(S) \in S /\ \A x \in S : Min(S) <= x
  <2>1. S \subseteq Nat /\ S # {}
    BY <1>1
  <2> HIDE DEF S
  <2> QED BY <2>1, MinIsLeast
<1>3. Min(S) = 1
  <2> SUFFICES ASSUME Min(S) # 1 PROVE FALSE
    OBVIOUS
  <2> DEFINE k == Min(S)
  <2>0. k \in S
    BY <1>2
  <2> HIDE DEF k
  <2>1. k \in 2..(n + 1) /\ Built(k)
    <3>1. k # 1
      BY DEF k
    <3> HIDE DEF Built
    <3> QED BY <2>0, <3>1
  <2>2. PICK f \in [k..n -> V] : \A i \in k..n : f[i] = G[i][[j \in (i + 1)..n |-> f[j]]]
    BY <2>1
  <2> DEFINE g == [j \in (k - 1)..n |-> IF j = k - 1 THEN G[k - 1][f] ELSE f[j]]
  <2>3. ((k - 1) + 1)..n = k..n /\ k - 1 \in 1..n
    BY <2>1
  <2>4. G[k - 1][f] \in V
    BY <2>3, <2>2, <1>0
  <2>5. g \in [(k - 1)..n -> V]
    BY <2>1, <2>4
  <2>6. \A i \in (k - 1)..n : [j \in (i + 1)..n |-> g[j]] = [j \in (i + 1)..n |-> f[j]]
    BY <2>1
  <2>7. [j \in ((k - 1) + 1)..n |-> f[j]] = f
    BY <2>3
  <2>8. g[k - 1] = G[k - 1][[j \in ((k - 1) + 1)..n |-> g[j]]]
    <3>1. k - 1 \in (k - 1)..n
      BY <2>1
    <3>2. g[k - 1] = G[k - 1][f]
      BY <3>1
    <3>3. [j \in ((k - 1) + 1)..n |-> g[j]] = f
      BY <2>6, <2>7, <3>1
    <3> HIDE DEF g
    <3> QED BY <3>2, <3>3
  <2>9. \A i \in k..n : g[i] = G[i][[j \in (i + 1)..n |-> g[j]]]
    <3> SUFFICES ASSUME NEW i \in k..n PROVE g[i] = G[i][[j \in (i + 1)..n |-> g[j]]]
      OBVIOUS
    <3>1. i \in (k - 1)..n /\ i # k - 1
      BY <2>1
    <3>2. g[i] = f[i]
      BY <3>1
    <3> QED BY <3>1, <3>2, <2>2, <2>6
  <2>10. \A i \in (k - 1)..n : i = k - 1 \/ i \in k..n
    BY <2>1
  <2> HIDE DEF g
  <2>11. Built(k - 1)
    BY <2>5, <2>8, <2>9, <2>10
  <2>12. k - 1 \in S
    <3> HIDE DEF Built
    <3> QED BY <2>11, <2>1
  <2> HIDE DEF S
  <2> QED BY <2>12, <1>2, <2>1 DEF k
<1>4. PICK f \in [1..n -> V] : \A i \in 1..n : f[i] = G[i][[j \in (i + 1)..n |-> f[j]]]
  <2>1. 1 \in S
    BY <1>2, <1>3
  <2> QED BY <2>1
<1>5. \A i \in 1..n : \E h \in [(i + 1)..n -> V] :
        f[i] = G[i][h] /\ \A j \in (i + 1)..n : h[j] = f[j]
  <2> SUFFICES ASSUME NEW i \in 1..n
               PROVE  \E h \in [(i + 1)..n -> V] : f[i] = G[i][h] /\ \A j \in (i + 1)..n : h[j] = f[j]
    OBVIOUS
  <2> DEFINE h == [j \in (i + 1)..n |-> f[j]]
  <2>1. h \in [(i + 1)..n -> V] /\ \A j \in (i + 1)..n : h[j] = f[j]
    OBVIOUS
  <2>2. f[i] = G[i][h]
    BY <1>4
  <2> HIDE DEF h
  <2> QED BY <2>1, <2>2
<1> QED BY <1>5 DEF Solves

(* What holds at an index whenever it holds at all later ones holds at all. *)
LEMMA Backwards ==
    ASSUME NEW n \in Nat, NEW P,
           \A i \in 1..n : (\A j \in (i + 1)..n : j \in P) => i \in P
    PROVE  \A i \in 1..n : i \in P
<1> DEFINE S == {i \in 1..n : i \notin P}
<1> SUFFICES ASSUME S # {} PROVE FALSE
  OBVIOUS
<1>1. \A x \in S : x \in Int /\ x <= n
  OBVIOUS
<1>2. Max(S) \in S /\ \A x \in S : Max(S) >= x
  <2> HIDE DEF S
  <2> QED BY <1>1, MaxIsGreatest
<1> DEFINE i == Max(S)
<1>3. i \in 1..n /\ i \notin P /\ \A x \in S : i >= x
  <2> HIDE DEF i
  <2> QED BY <1>2 DEF i
<1> HIDE DEF i
<1>4. \A j \in (i + 1)..n : j \in P
  <2> SUFFICES ASSUME NEW j \in (i + 1)..n, j \notin P PROVE FALSE
    OBVIOUS
  <2>1. j \in S /\ j > i
    BY <1>3
  <2> HIDE DEF S
  <2> QED BY <2>1, <1>3
<1> QED BY <1>3, <1>4

-----------------------------------------------------------------------------
(* Quoted tokens.                                                           *)

(* A run of digits is as long as the text, the digits and the escape allow. *)
LEMMA HexRunIs ==
    ASSUME NEW p \in Nat, NEW to \in Nat, p <= to + 1
    PROVE  /\ HexRun(p, to) \in 0..Digits /\ p + HexRun(p, to) - 1 <= to
           /\ \A k \in p..(p + HexRun(p, to) - 1) : text[k] \in HexDigits
           /\ \A n \in 0..Digits :
                p + n - 1 <= to /\ (\A k \in p..(p + n - 1) : text[k] \in HexDigits)
                  => n <= HexRun(p, to)
<1> DEFINE S == {n \in 0..Digits : p + n - 1 <= to /\ \A k \in p..(p + n - 1) : text[k] \in HexDigits}
<1>1. Digits \in Nat
  BY DigitsAssumption
<1>2. 0 \in S /\ \A n \in S : n \in Int /\ n <= Digits
  BY <1>1
<1>3. HexRun(p, to) = Max(S)
  BY DEF HexRun
<1>4. Max(S) \in S /\ \A n \in S : Max(S) >= n
  <2> HIDE DEF S
  <2> QED BY <1>1, <1>2, MaxIsGreatest
<1> DEFINE m == Max(S)
<1>5. m \in S /\ \A n \in S : n <= m
  <2>1. Max(S) \in 0..Digits
    BY <1>4
  <2> HIDE DEF S
  <2> QED BY <1>1, <1>2, <1>4, <2>1
<1> HIDE DEF m
<1> QED BY <1>3, <1>5 DEF m

(* Where the text ends makes no difference to a run that ends before.       *)
LEMMA HexRunCut ==
    ASSUME NEW p \in Nat, NEW to \in Nat, NEW cut \in Nat, p <= cut + 1, cut <= to,
           p + HexRun(p, to) - 1 <= cut
    PROVE  HexRun(p, cut) = HexRun(p, to)
<1> DEFINE m == HexRun(p, to)
           n == HexRun(p, cut)
<1>1. /\ m \in 0..Digits
      /\ \A k \in p..(p + m - 1) : text[k] \in HexDigits
      /\ \A i \in 0..Digits :
           p + i - 1 <= to /\ (\A k \in p..(p + i - 1) : text[k] \in HexDigits) => i <= m
  <2>1. p <= to + 1
    OBVIOUS
  <2> QED BY <2>1, HexRunIs
<1>2. /\ n \in 0..Digits /\ p + n - 1 <= cut
      /\ \A k \in p..(p + n - 1) : text[k] \in HexDigits
      /\ \A i \in 0..Digits :
           p + i - 1 <= cut /\ (\A k \in p..(p + i - 1) : text[k] \in HexDigits) => i <= n
  BY HexRunIs
<1>3. p + m - 1 <= cut /\ Digits \in Nat
  BY DigitsAssumption
<1> HIDE DEF m, n
<1>4. m <= n
  BY <1>1, <1>2, <1>3
<1>5. n <= m
  <2>1. p + n - 1 <= to
    BY <1>2, <1>3
  <2> QED BY <1>1, <1>2, <2>1
<1> QED BY <1>1, <1>2, <1>3, <1>4, <1>5 DEF m, n

(* A unit is not empty and ends in the text.                                *)
LEMMA UnitIs ==
    ASSUME NEW to \in Nat, NEW q \in 1..to, NEW delimiter
    PROVE  /\ QuotedUnit(q, delimiter, to).next \in (q + 1)..(to + 1)
           /\ QuotedUnit(q, delimiter, to).kind \in
                {"Plain", "Doubled", "Close", "Cut", "Escape", "BadEscape"}
           /\ QuotedUnit(q, delimiter, to).kind = "Cut" => q = to
           /\ QuotedUnit(q, delimiter, to).kind = "Close" => text[q] = delimiter
<1>1. ASSUME q < to
      PROVE  /\ EscapeAt(q, to).next \in (q + 2)..(to + 1)
             /\ EscapeAt(q, to).kind \in {"Escape", "BadEscape"}
  <2> DEFINE n == HexRun(q + 2, to)
  <2>1. n \in 0..Digits /\ (q + 2) + n - 1 <= to
    <3>1. q + 2 \in Nat /\ q + 2 <= to + 1
      BY <1>1
    <3> QED BY <3>1, HexRunIs
  <2>2. n \in Nat /\ q + 2 + n \in (q + 2)..(to + 1) /\ q + 2 \in (q + 2)..(to + 1)
    <3>1. n \in Nat
      BY <2>1, DigitsAssumption
    <3> HIDE DEF n
    <3> QED BY <1>1, <2>1, <3>1
  <2>3. EscapeAt(q, to) \in {Unit("Escape", q + 2), Unit("BadEscape", q + 2),
                             Unit("Escape", q + 2 + n), Unit("BadEscape", q + 2 + n)}
    BY DEF EscapeAt
  <2> HIDE DEF n
  <2> QED BY <2>2, <2>3 DEF Unit
<1>2. CASE text[q] = "Backslash" /\ q = to
  BY <1>2 DEF QuotedUnit, Unit
<1>3. CASE text[q] = "Backslash" /\ q # to
  <2>1. QuotedUnit(q, delimiter, to) = EscapeAt(q, to)
    BY <1>3 DEF QuotedUnit
  <2>2. q < to
    BY <1>3
  <2> QED BY <1>1, <2>1, <2>2
<1>4. CASE text[q] # "Backslash"
  BY <1>4 DEF QuotedUnit, Unit
<1> QED BY <1>2, <1>3, <1>4

(* A unit that ends before the text is cut is there when it is.             *)
LEMMA UnitCut ==
    ASSUME NEW to \in Nat, NEW cut \in Nat, cut <= to, NEW q \in 1..cut, NEW delimiter,
           QuotedUnit(q, delimiter, to).next <= cut + 1
    PROVE  QuotedUnit(q, delimiter, cut) = QuotedUnit(q, delimiter, to)
<1>0. q \in Nat /\ q >= 1 /\ q <= cut /\ q <= to
  OBVIOUS
<1>1. CASE text[q] = "Backslash" /\ q = to
  BY <1>1, <1>0
<1>2. CASE text[q] = "Backslash" /\ q # to
  <2>1. QuotedUnit(q, delimiter, to) = EscapeAt(q, to)
    BY <1>2 DEF QuotedUnit
  <2>2. q + 2 \in Nat /\ q + 2 <= to + 1
    BY <1>0, <1>2
  <2> DEFINE n == HexRun(q + 2, to)
  <2>3. n \in Nat
    <3>1. n \in 0..Digits
      BY <2>2, HexRunIs
    <3> HIDE DEF n
    <3> QED BY <3>1, DigitsAssumption
  <2>4. EscapeAt(q, to).next \in {q + 2, q + 2 + n}
    BY DEF EscapeAt, Unit
  <2>5. q + 2 <= cut + 1
    <3> HIDE DEF n
    <3> QED BY <2>1, <2>3, <2>4, <1>0
  <2>6. EscapeAt(q, cut) = EscapeAt(q, to)
    <3>1. CASE text[q + 1] \in SimpleEscapes \/ text[q + 1] # "u"
      BY <3>1 DEF EscapeAt
    <3>2. CASE text[q + 1] \notin SimpleEscapes /\ text[q + 1] = "u"
      <4>1. EscapeAt(q, to).next = q + 2 + n
        BY <3>2 DEF EscapeAt, Unit
      <4>2. (q + 2) + n - 1 <= cut
        <5> HIDE DEF n
        <5> QED BY <4>1, <2>1, <2>3, <1>0
      <4>3. HexRun(q + 2, cut) = n
        BY <4>2, <2>2, <2>5, HexRunCut
      <4> QED BY <4>3 DEF EscapeAt
    <3> QED BY <3>1, <3>2
  <2>7. q # cut
    BY <2>5
  <2>8. QuotedUnit(q, delimiter, cut) = EscapeAt(q, cut)
    BY <1>2, <2>7 DEF QuotedUnit
  <2> QED BY <2>1, <2>6, <2>8
<1>3. CASE text[q] # "Backslash" /\ text[q] # delimiter
  BY <1>3 DEF QuotedUnit
<1>4. CASE text[q] # "Backslash" /\ text[q] = delimiter
  <2>1. CASE q < to /\ text[q + 1] = delimiter
    <3>1. QuotedUnit(q, delimiter, to) = Unit("Doubled", q + 2)
      BY <1>4, <2>1 DEF QuotedUnit
    <3>2. q + 2 <= cut + 1
      BY <3>1 DEF Unit
    <3>3. q < cut
      BY <3>2, <1>0
    <3> QED BY <1>4, <2>1, <3>1, <3>3 DEF QuotedUnit
  <2>2. CASE ~(q < to /\ text[q + 1] = delimiter)
    <3>1. QuotedUnit(q, delimiter, to) = Unit("Close", q + 1)
      BY <1>4, <2>2 DEF QuotedUnit
    <3>2. ~(q < cut /\ text[q + 1] = delimiter)
      BY <2>2, <1>0
    <3> QED BY <1>4, <3>1, <3>2 DEF QuotedUnit
  <2> QED BY <2>1, <2>2
<1> QED BY <1>1, <1>2, <1>3, <1>4

(* The decoder, given the text up to stop, reads the lexer's unit if that   *)
(* is accepted and ends there.                                              *)
LEMMA DecodedAsLexed ==
    ASSUME NEW to \in Nat, NEW stop \in Nat, stop <= to, NEW q \in 1..stop,
           NEW delimiter \in Delimiters,
           QuotedUnit(q, delimiter, to).next <= stop + 1,
           QuotedUnit(q, delimiter, to).kind \in {"Plain", "Doubled", "Escape"}
    PROVE  DecodedUnit(q, delimiter, stop) = QuotedUnit(q, delimiter, to)
<1>1. QuotedUnit(q, delimiter, stop) = QuotedUnit(q, delimiter, to)
  BY UnitCut
<1>2. QuotedUnit(q, delimiter, stop).kind \in {"Plain", "Doubled", "Escape"}
  BY <1>1
<1>3. delimiter # "Backslash"
  BY DEF Delimiters
<1>4. CASE text[q] = delimiter
  <2>1. q < stop /\ text[q + 1] = delimiter
    BY <1>2, <1>3, <1>4 DEF QuotedUnit, Unit
  <2> QED BY <1>1, <1>3, <1>4, <2>1 DEF QuotedUnit, DecodedUnit
<1>5. CASE text[q] # delimiter /\ text[q] # "Backslash"
  BY <1>1, <1>5 DEF QuotedUnit, DecodedUnit
<1>6. CASE text[q] # delimiter /\ text[q] = "Backslash"
  <2>1. q # stop
    BY <1>2, <1>6 DEF QuotedUnit, Unit
  <2>2. QuotedUnit(q, delimiter, stop) = EscapeAt(q, stop) /\ EscapeAt(q, stop).kind = "Escape"
    <3>1. QuotedUnit(q, delimiter, stop) = EscapeAt(q, stop)
      BY <1>6, <2>1 DEF QuotedUnit
    <3>2. EscapeAt(q, stop).kind \in {"Escape", "BadEscape"}
      BY DEF EscapeAt, Unit
    <3> QED BY <3>1, <3>2, <1>2
  <2>3. CASE text[q + 1] \in SimpleEscapes
    BY <1>1, <1>6, <2>1, <2>2, <2>3 DEF EscapeAt, DecodedUnit
  <2>4. CASE text[q + 1] \notin SimpleEscapes
    <3>1. /\ text[q + 1] = "u" /\ HexRun(q + 2, stop) = Digits /\ IsScalar(q + 2)
          /\ EscapeAt(q, stop) = Unit("Escape", q + 2 + HexRun(q + 2, stop))
      BY <2>2, <2>4 DEF EscapeAt, Unit
    <3>2. ~(HexRun(q + 2, stop) < Digits)
      BY <3>1, DigitsAssumption
    <3> QED BY <1>1, <1>6, <2>1, <2>2, <2>4, <3>1, <3>2 DEF DecodedUnit
  <2> QED BY <2>3, <2>4
<1> QED BY <1>4, <1>5, <1>6

(* Where the decoder's unit is the lexer's it ends before stop.             *)
LEMMA DecodedInside ==
    ASSUME NEW to \in Nat, NEW stop \in Nat, NEW q \in 1..stop, NEW delimiter,
           DecodedUnit(q, delimiter, stop).kind \in {"Plain", "Doubled", "Escape"}
    PROVE  DecodedUnit(q, delimiter, stop).next \in (q + 1)..(stop + 1)
<1>0. q \in Nat /\ q >= 1 /\ q <= stop
  OBVIOUS
<1> DEFINE n == HexRun(q + 2, stop)
<1>1. ASSUME q < stop PROVE n \in Nat /\ q + 2 + n <= stop + 1
  <2>1. q + 2 \in Nat /\ q + 2 <= stop + 1
    BY <1>1, <1>0
  <2>2. n \in 0..Digits /\ (q + 2) + n - 1 <= stop
    BY <2>1, HexRunIs
  <2>3. n \in Nat
    BY <2>2, DigitsAssumption
  <2> HIDE DEF n
  <2> QED BY <2>2, <2>3, <1>0
<1>2. \/ DecodedUnit(q, delimiter, stop) = Unit("Plain", q + 1)
      \/ q < stop /\ DecodedUnit(q, delimiter, stop) \in
           {Unit("Doubled", q + 2), Unit("Escape", q + 2), Unit("Escape", q + 2 + n)}
  BY <1>0 DEF DecodedUnit, Unit
<1> HIDE DEF n
<1>3. CASE DecodedUnit(q, delimiter, stop) = Unit("Plain", q + 1)
  BY <1>3, <1>0 DEF Unit
<1>4. CASE q < stop /\ DecodedUnit(q, delimiter, stop) \in
             {Unit("Doubled", q + 2), Unit("Escape", q + 2), Unit("Escape", q + 2 + n)}
  BY <1>4, <1>1, <1>0 DEF Unit
<1> QED BY <1>2, <1>3, <1>4

\* What a quoted token is from q on, in terms of what it is further on.
QuotedRest(later, p, q, to) ==
    LET unit == QuotedUnit(q, text[p], to)
        rest == later[unit.next]
    IN  IF q > to THEN Token("Unterminated", p, to)
        ELSE IF unit.kind = "Close" THEN Token(text[p], p, q)
        ELSE IF unit.kind = "BadEscape" /\ rest.kind # "Unterminated"
        THEN Token("InvalidEscape", p, rest.last)
        ELSE rest
QuotedScan(p, to) == CHOOSE f : f = [q \in 1..(to + 1) |-> QuotedRest(f, p, q, to)]
QuotedKinds(p) == {text[p], "Unterminated", "InvalidEscape"}
QuotedTokens(p, to) == [kind : QuotedKinds(p), first : {p}, last : 0..to]

(* The scan of a quoted token has a value everywhere.                       *)
LEMMA QuotedUnfolds ==
    ASSUME NEW to \in Nat, NEW p \in 1..to, text[p] \in Delimiters
    PROVE  /\ Quoted(p, to) = QuotedScan(p, to)[p + 1]
           /\ \A q \in 1..(to + 1) :
                /\ QuotedScan(p, to)[q] \in QuotedTokens(p, to)
                /\ QuotedScan(p, to)[q] = QuotedRest(QuotedScan(p, to), p, q, to)
<1> DEFINE V == QuotedTokens(p, to)
           G == [i \in 1..(to + 1) |-> [h \in [(i + 1)..(to + 1) -> V] |-> QuotedRest(h, p, i, to)]]
<1>1. LooksAhead(to + 1, V, G)
  <2> SUFFICES ASSUME NEW i \in 1..(to + 1), NEW h \in [(i + 1)..(to + 1) -> V]
               PROVE  QuotedRest(h, p, i, to) \in V
    BY DEF LooksAhead
  <2>1. Token("Unterminated", p, to) \in V
    BY DEF Token, QuotedTokens, QuotedKinds
  <2>2. ASSUME i <= to PROVE QuotedRest(h, p, i, to) \in V
    <3> DEFINE unit == QuotedUnit(i, text[p], to)
               rest == h[unit.next]
    <3>1. unit.next \in (i + 1)..(to + 1)
      <4>1. i \in 1..to
        BY <2>2
      <4> QED BY <4>1, UnitIs
    <3>2. rest \in V
      BY <3>1
    <3>3. rest.last \in 0..to
      BY <3>2 DEF QuotedTokens
    <3>4. Token(text[p], p, i) \in V /\ Token("InvalidEscape", p, rest.last) \in V
      BY <2>2, <3>3 DEF Token, QuotedTokens, QuotedKinds
    <3>5. QuotedRest(h, p, i, to) \in {Token(text[p], p, i), Token("InvalidEscape", p, rest.last), rest}
      BY <2>2 DEF QuotedRest
    <3> HIDE DEF rest, unit, V
    <3> QED BY <3>2, <3>4, <3>5
  <2>3. ASSUME ~(i <= to) PROVE QuotedRest(h, p, i, to) = Token("Unterminated", p, to)
    BY <2>3 DEF QuotedRest
  <2> HIDE DEF V
  <2> QED BY <2>1, <2>2, <2>3
<1>2. PICK f \in [1..(to + 1) -> V] : Solves(to + 1, V, G, f)
  <2> HIDE DEF V, G
  <2> QED BY <1>1, LookAhead
<1>3. \A i \in 1..(to + 1) : f[i] = QuotedRest(f, p, i, to)
  <2> SUFFICES ASSUME NEW i \in 1..(to + 1) PROVE f[i] = QuotedRest(f, p, i, to)
    OBVIOUS
  <2>1. PICK h \in [(i + 1)..(to + 1) -> V] :
          f[i] = G[i][h] /\ \A j \in (i + 1)..(to + 1) : h[j] = f[j]
    BY <1>2 DEF Solves
  <2>2. G[i][h] = QuotedRest(h, p, i, to)
    OBVIOUS
  <2>3. CASE i > to
    BY <2>1, <2>2, <2>3 DEF QuotedRest
  <2>4. CASE ~(i > to)
    <3>1. i \in 1..to
      BY <2>4
    <3>2. QuotedUnit(i, text[p], to).next \in (i + 1)..(to + 1)
      BY <3>1, UnitIs
    <3>3. h[QuotedUnit(i, text[p], to).next] = f[QuotedUnit(i, text[p], to).next]
      BY <2>1, <3>2
    <3>4. QuotedRest(h, p, i, to) = QuotedRest(f, p, i, to)
      BY <3>3 DEF QuotedRest
    <3> QED BY <2>1, <2>2, <3>4
  <2> QED BY <2>3, <2>4
<1>4. f = [q \in 1..(to + 1) |-> QuotedRest(f, p, q, to)]
  BY <1>3
<1> DEFINE F == QuotedScan(p, to)
<1>5. F = [q \in 1..(to + 1) |-> QuotedRest(F, p, q, to)]
  BY <1>4 DEF QuotedScan
<1>6. \A q \in 1..(to + 1) : F[q] = QuotedRest(F, p, q, to)
  <2> HIDE DEF F
  <2> QED BY <1>5
<1>7. Quoted(p, to) = F[p + 1]
  BY DEF Quoted, QuotedScan, QuotedRest
<1>8. \A q \in 1..(to + 1) : F[q] \in V
  <2> DEFINE P == {q \in 1..(to + 1) : F[q] \in V}
  <2>1. ASSUME NEW i \in 1..(to + 1), \A j \in (i + 1)..(to + 1) : j \in P
        PROVE  i \in P
    <3> DEFINE h == [j \in (i + 1)..(to + 1) |-> F[j]]
    <3>0. h \in [(i + 1)..(to + 1) -> V]
      <4>1. \A j \in (i + 1)..(to + 1) : F[j] \in V
        BY <2>1
      <4> HIDE DEF F, V
      <4> QED BY <4>1
    <3>1. G[i][h] = QuotedRest(h, p, i, to)
      <4> HIDE DEF h, F, V
      <4> QED BY <3>0
    <3>2. G[i][h] \in V
      <4> HIDE DEF h, G, V
      <4> QED BY <1>1, <3>0 DEF LooksAhead
    <3>3. QuotedRest(h, p, i, to) = QuotedRest(F, p, i, to)
      <4>1. CASE i > to
        BY <4>1 DEF QuotedRest
      <4>2. CASE ~(i > to)
        <5>1. i \in 1..to
          BY <4>2
        <5>2. QuotedUnit(i, text[p], to).next \in (i + 1)..(to + 1)
          BY <5>1, UnitIs
        <5>3. h[QuotedUnit(i, text[p], to).next] = F[QuotedUnit(i, text[p], to).next]
          <6> HIDE DEF F
          <6> QED BY <5>2
        <5> HIDE DEF F, h
        <5> QED BY <5>3 DEF QuotedRest
      <4> QED BY <4>1, <4>2
    <3>4. F[i] \in V
      <4> HIDE DEF F, G, h, V
      <4> QED BY <3>1, <3>2, <3>3, <1>6
    <3> QED BY <3>4
  <2>2. to + 1 \in Nat
    OBVIOUS
  <2>3. \A i \in 1..(to + 1) : i \in P
    <3> HIDE DEF P
    <3> QED BY <2>1, <2>2, Backwards
  <2> HIDE DEF F, V
  <2> QED BY <2>3
<1> HIDE DEF F, V
<1> QED BY <1>6, <1>7, <1>8 DEF F, V

(* A quoted token that is terminated ends where the scan can still get to,  *)
(* one that is not ends with the text.                                      *)
LEMMA QuotedReach ==
    ASSUME NEW to \in Nat, NEW p \in 1..to, text[p] \in Delimiters, NEW q \in 1..(to + 1)
    PROVE  LET token == QuotedScan(p, to)[q]
           IN  IF token.kind = "Unterminated" THEN token.last = to ELSE token.last \in q..to
<1> DEFINE F == QuotedScan(p, to)
           P == {i \in 1..(to + 1) : IF F[i].kind = "Unterminated" THEN F[i].last = to
                                     ELSE F[i].last \in i..to}
<1>1. \A i \in 1..(to + 1) : F[i] = QuotedRest(F, p, i, to)
  BY QuotedUnfolds
<1>2. "Unterminated" \notin Delimiters
  BY DEF Delimiters
<1> HIDE DEF F
<1>3. ASSUME NEW i \in 1..(to + 1), \A j \in (i + 1)..(to + 1) : j \in P
      PROVE  i \in P
  <2> DEFINE unit == QuotedUnit(i, text[p], to)
  <2>1. CASE i > to
    <3>1. F[i] = Token("Unterminated", p, to)
      BY <1>1, <2>1 DEF QuotedRest
    <3> QED BY <3>1 DEF Token
  <2>2. CASE i <= to /\ unit.kind = "Close"
    <3>1. F[i] = Token(text[p], p, i)
      BY <1>1, <2>2 DEF QuotedRest
    <3> QED BY <3>1, <2>2, <1>2 DEF Token
  <2>3. CASE i <= to /\ unit.kind # "Close"
    <3> DEFINE rest == F[unit.next]
    <3>1. unit.next \in (i + 1)..(to + 1)
      <4>1. i \in 1..to
        BY <2>3
      <4> QED BY <4>1, UnitIs
    <3>2. unit.next \in P
      BY <3>1, <1>3
    <3>3. F[i] \in {rest, Token("InvalidEscape", p, rest.last)}
          /\ (F[i] # rest => rest.kind # "Unterminated")
      BY <1>1, <2>3 DEF QuotedRest
    <3>4. rest.kind = "Unterminated" => rest.last = to
      BY <3>2
    <3>5. rest.kind # "Unterminated" => rest.last \in i..to
      BY <3>1, <3>2
    <3> HIDE DEF rest
    <3> QED BY <3>3, <3>4, <3>5 DEF Token
  <2> QED BY <2>1, <2>2, <2>3
<1>4. \A i \in 1..(to + 1) : i \in P
  <2>1. to + 1 \in Nat
    OBVIOUS
  <2> HIDE DEF P
  <2> QED BY <1>3, <2>1, Backwards
<1> QED BY <1>4 DEF F

(* A terminated token comes out of any text that is cut behind it.          *)
LEMMA QuotedCut ==
    ASSUME NEW to \in Nat, NEW cut \in Nat, cut <= to, NEW p \in 1..cut, text[p] \in Delimiters,
           NEW q \in 1..(cut + 1),
           QuotedScan(p, to)[q].kind # "Unterminated", QuotedScan(p, to)[q].last <= cut
    PROVE  QuotedScan(p, cut)[q] = QuotedScan(p, to)[q]
<1> DEFINE F == QuotedScan(p, to)
           T == QuotedScan(p, cut)
           P == {i \in 1..(cut + 1) : F[i].kind # "Unterminated" /\ F[i].last <= cut => T[i] = F[i]}
<1>0. p \in 1..to
  OBVIOUS
<1>1. \A i \in 1..(to + 1) : F[i] = QuotedRest(F, p, i, to) /\ F[i].last \in Nat
  BY <1>0, QuotedUnfolds DEF QuotedTokens
<1>2. \A i \in 1..(cut + 1) : T[i] = QuotedRest(T, p, i, cut)
  BY QuotedUnfolds
<1>3. \A i \in 1..(to + 1) : F[i].kind # "Unterminated" => F[i].last \in i..to
  BY <1>0, QuotedReach
<1> HIDE DEF F, T
<1>4. ASSUME NEW i \in 1..(cut + 1), \A j \in (i + 1)..(cut + 1) : j \in P
      PROVE  i \in P
  <2> SUFFICES ASSUME F[i].kind # "Unterminated", F[i].last <= cut PROVE T[i] = F[i]
    OBVIOUS
  <2> DEFINE unit == QuotedUnit(i, text[p], to)
             rest == F[unit.next]
  <2>1. i \in 1..cut /\ i \in 1..to /\ i \in 1..(to + 1)
    <3>1. F[i].last \in i..to
      BY <1>3
    <3> QED BY <3>1
  <2>2. unit.next \in (i + 1)..(to + 1)
    BY <2>1, UnitIs
  <2>3. CASE unit.kind = "Close"
    <3>1. F[i] = Token(text[p], p, i)
      BY <1>1, <2>1, <2>3 DEF QuotedRest
    <3>2. unit.next = i + 1
      <4>1. unit.kind = "Close" => unit = Unit("Close", i + 1)
        BY DEF QuotedUnit, EscapeAt, Unit
      <4> QED BY <4>1, <2>3 DEF Unit
    <3>3. QuotedUnit(i, text[p], cut) = unit
      <4>1. unit.next <= cut + 1
        BY <3>2, <2>1
      <4> QED BY <4>1, <2>1, UnitCut
    <3>4. T[i] = Token(text[p], p, i)
      BY <1>2, <2>1, <2>3, <3>3 DEF QuotedRest
    <3> QED BY <3>1, <3>4
  <2>4. CASE unit.kind # "Close"
    <3>1. F[i] = IF unit.kind = "BadEscape" /\ rest.kind # "Unterminated"
                 THEN Token("InvalidEscape", p, rest.last) ELSE rest
      BY <1>1, <2>1, <2>4 DEF QuotedRest
    <3>2. rest.kind # "Unterminated" /\ rest.last = F[i].last
      <4> HIDE DEF rest, unit
      <4> QED BY <3>1 DEF Token
    <3>3. rest.last \in unit.next..to
      BY <3>2, <2>2, <1>3
    <3>4. unit.next \in (i + 1)..(cut + 1) /\ unit.next <= cut + 1
      <4> HIDE DEF unit, rest
      <4> QED BY <3>2, <3>3, <2>2
    <3>5. QuotedUnit(i, text[p], cut) = unit
      BY <3>4, <2>1, UnitCut
    <3>6. T[unit.next] = rest
      BY <3>2, <3>4, <1>4
    <3>7. T[i] = IF unit.kind = "BadEscape" /\ rest.kind # "Unterminated"
                 THEN Token("InvalidEscape", p, rest.last) ELSE rest
      BY <1>2, <2>1, <2>4, <3>5, <3>6 DEF QuotedRest
    <3> QED BY <3>1, <3>7
  <2> QED BY <2>3, <2>4
<1>5. \A i \in 1..(cut + 1) : i \in P
  <2>1. cut + 1 \in Nat
    OBVIOUS
  <2> HIDE DEF P
  <2> QED BY <1>4, <2>1, Backwards
<1>6. q \in P /\ F[q].kind # "Unterminated" /\ F[q].last <= cut
  BY <1>5 DEF F
<1> QED BY <1>6 DEF F, T

(* Inside an accepted token each unit is accepted, and leads to the closing *)
(* delimiter.                                                               *)
LEMMA AcceptedUnit ==
    ASSUME NEW to \in Nat, NEW p \in 1..to, text[p] \in Delimiters, NEW q \in 1..to,
           QuotedScan(p, to)[q].kind \in Delimiters, q < QuotedScan(p, to)[q].last
    PROVE  LET unit == QuotedUnit(q, text[p], to)
           IN  /\ unit.kind \in {"Plain", "Doubled", "Escape"}
               /\ unit.next \in (q + 1)..(to + 1)
               /\ QuotedScan(p, to)[unit.next] = QuotedScan(p, to)[q]
               /\ unit.next <= QuotedScan(p, to)[q].last
<1> DEFINE F == QuotedScan(p, to)
           unit == QuotedUnit(q, text[p], to)
           rest == F[unit.next]
<1>1. F[q] = QuotedRest(F, p, q, to)
  <2>1. q \in 1..(to + 1)
    OBVIOUS
  <2> QED BY <2>1, QuotedUnfolds
<1>2. /\ unit.next \in (q + 1)..(to + 1)
      /\ unit.kind \in {"Plain", "Doubled", "Close", "Cut", "Escape", "BadEscape"}
      /\ unit.kind = "Cut" => q = to
  BY UnitIs
<1>3. rest.kind # "Unterminated" => rest.last \in unit.next..to
  <2>1. unit.next \in 1..(to + 1)
    BY <1>2
  <2> QED BY <2>1, QuotedReach
<1>4. Delimiters \cap {"Unterminated", "InvalidEscape"} = {}
  BY DEF Delimiters
<1>5. F[q] = IF unit.kind = "Close" THEN Token(text[p], p, q)
             ELSE IF unit.kind = "BadEscape" /\ rest.kind # "Unterminated"
             THEN Token("InvalidEscape", p, rest.last)
             ELSE rest
  BY <1>1 DEF QuotedRest
<1>6. F[q].kind \in Delimiters /\ q < F[q].last
  OBVIOUS
<1> HIDE DEF F, unit, rest
<1>7. unit.kind # "Close"
  BY <1>5, <1>6 DEF Token
<1>8. F[q] = rest /\ rest.kind # "Unterminated"
  BY <1>4, <1>5, <1>6, <1>7 DEF Token
<1>9. unit.kind # "BadEscape"
  BY <1>4, <1>5, <1>6, <1>7, <1>8 DEF Token
<1>10. unit.next <= F[q].last
  BY <1>2, <1>3, <1>8
<1>11. unit.kind # "Cut"
  <2> SUFFICES ASSUME unit.kind = "Cut" PROVE FALSE
    OBVIOUS
  <2> QED BY <1>2, <1>3, <1>8
<1> QED BY <1>2, <1>7, <1>8, <1>9, <1>10, <1>11 DEF F, unit, rest

-----------------------------------------------------------------------------
(* Block comments.                                                          *)

Depths == Nat \ {0}

\* What a comment is from q on at some depth, in terms of what it is further on.
CommentRest(later, p, q, d, to) ==
    IF q >= to THEN Token("Unterminated", p, to)
    ELSE IF CommentPair(q, to, <<"Slash", "Star">>) THEN later[q + 2][d + 1]
    ELSE IF ~CommentPair(q, to, <<"Star", "Slash">>) THEN later[q + 1][d]
    ELSE IF d = 1 THEN Token("BlockComment", p, q + 1)
    ELSE later[q + 2][d - 1]
CommentScan(p, to) ==
    CHOOSE f : f = [q \in 1..(to + 1) |-> [d \in Depths |-> CommentRest(f, p, q, d, to)]]
CommentTokens(p, to) == [kind : {"BlockComment", "Unterminated"}, first : {p}, last : 0..to]

(* Further on is behind q, and within the text.                             *)
LEMMA CommentLooksAhead ==
    ASSUME NEW to \in Nat, NEW p \in Nat, NEW q \in 1..(to + 1), NEW d \in Depths,
           NEW f, NEW h, \A j \in (q + 1)..(to + 1) : h[j] = f[j]
    PROVE  CommentRest(h, p, q, d, to) = CommentRest(f, p, q, d, to)
<1>1. CASE q >= to
  BY <1>1 DEF CommentRest
<1>2. CASE ~(q >= to)
  <2>1. q + 1 \in (q + 1)..(to + 1) /\ q + 2 \in (q + 1)..(to + 1)
    BY <1>2
  <2>2. h[q + 1] = f[q + 1] /\ h[q + 2] = f[q + 2]
    BY <2>1
  <2> QED BY <2>2 DEF CommentRest
<1> QED BY <1>1, <1>2

(* What it is further on is a token, and so it is one from q on.            *)
LEMMA CommentTyped ==
    ASSUME NEW to \in Nat, NEW p \in Nat, NEW q \in 1..(to + 1), NEW d \in Depths,
           NEW h \in [(q + 1)..(to + 1) -> [Depths -> CommentTokens(p, to)]]
    PROVE  CommentRest(h, p, q, d, to) \in CommentTokens(p, to)
<1>1. CASE q >= to
  BY <1>1 DEF CommentRest, Token, CommentTokens
<1>2. CASE ~(q >= to)
  <2> DEFINE W == CommentTokens(p, to)
  <2>1. q + 1 \in (q + 1)..(to + 1) /\ q + 2 \in (q + 1)..(to + 1)
    BY <1>2
  <2>2. d \in Depths /\ d + 1 \in Depths /\ (d # 1 => d - 1 \in Depths)
    BY DEF Depths
  <2>0. h \in [(q + 1)..(to + 1) -> [Depths -> W]]
    OBVIOUS
  <2>3. h[q + 1] \in [Depths -> W] /\ h[q + 2] \in [Depths -> W]
    <3> HIDE DEF W
    <3> QED BY <2>0, <2>1
  <2>4. h[q + 2][d + 1] \in W /\ h[q + 1][d] \in W /\ (d # 1 => h[q + 2][d - 1] \in W)
    <3> HIDE DEF W
    <3> QED BY <2>2, <2>3
  <2>5. Token("BlockComment", p, q + 1) \in W
    BY <1>2 DEF Token, CommentTokens
  <2> HIDE DEF W
  <2>6. CommentRest(h, p, q, d, to) \in W
    BY <1>2, <2>4, <2>5 DEF CommentRest
  <2> QED BY <2>6 DEF W
<1> QED BY <1>1, <1>2

(* The scan of a comment has a value everywhere.                            *)
LEMMA CommentUnfolds ==
    ASSUME NEW to \in Nat, NEW p \in 1..to
    PROVE  /\ BlockComment(p, to) = CommentScan(p, to)[p + 2][1]
           /\ \A q \in 1..(to + 1) : \A d \in Depths :
                /\ CommentScan(p, to)[q][d] \in CommentTokens(p, to)
                /\ CommentScan(p, to)[q][d] = CommentRest(CommentScan(p, to), p, q, d, to)
<1> DEFINE W == CommentTokens(p, to)
           V == [Depths -> W]
           G == [i \in 1..(to + 1) |-> [h \in [(i + 1)..(to + 1) -> V] |->
                   [d \in Depths |-> CommentRest(h, p, i, d, to)]]]
<1>1. LooksAhead(to + 1, V, G)
  <2> SUFFICES ASSUME NEW i \in 1..(to + 1), NEW h \in [(i + 1)..(to + 1) -> V], NEW d \in Depths
               PROVE  CommentRest(h, p, i, d, to) \in W
    BY DEF LooksAhead
  <2>1. p \in Nat
    OBVIOUS
  <2> QED BY <2>1, CommentTyped
<1>2. PICK f \in [1..(to + 1) -> V] : Solves(to + 1, V, G, f)
  <2>1. to + 1 \in Nat
    OBVIOUS
  <2> HIDE DEF V, G
  <2> QED BY <1>1, <2>1, LookAhead
<1>3. ASSUME NEW i \in 1..(to + 1) PROVE f[i] = [d \in Depths |-> CommentRest(f, p, i, d, to)]
  <2>1. PICK h \in [(i + 1)..(to + 1) -> V] :
          f[i] = G[i][h] /\ \A j \in (i + 1)..(to + 1) : h[j] = f[j]
    <3> HIDE DEF V, G
    <3> QED BY <1>2 DEF Solves
  <2>2. G[i][h] = [d \in Depths |-> CommentRest(h, p, i, d, to)]
    <3> HIDE DEF V
    <3> QED OBVIOUS
  <2>3. \A d \in Depths : CommentRest(h, p, i, d, to) = CommentRest(f, p, i, d, to)
    <3>1. p \in Nat /\ \A j \in (i + 1)..(to + 1) : h[j] = f[j]
      BY <2>1
    <3> HIDE DEF V, G
    <3> QED BY <3>1, CommentLooksAhead
  <2> HIDE DEF V, G
  <2> QED BY <2>1, <2>2, <2>3
<1>4. f = [q \in 1..(to + 1) |-> [d \in Depths |-> CommentRest(f, p, q, d, to)]]
  <2> HIDE DEF V, G
  <2> QED BY <1>3
<1> DEFINE F == CommentScan(p, to)
<1>5. F = [q \in 1..(to + 1) |-> [d \in Depths |-> CommentRest(F, p, q, d, to)]]
  <2> HIDE DEF V, G
  <2> QED BY <1>4 DEF CommentScan
<1>6. \A q \in 1..(to + 1) : F[q] = [d \in Depths |-> CommentRest(F, p, q, d, to)]
  <2> HIDE DEF F, V, G
  <2> QED BY <1>5
<1>7. BlockComment(p, to) = F[p + 2][1]
  BY DEF BlockComment, CommentScan, CommentRest, Depths
<1>8. \A q \in 1..(to + 1) : F[q] \in V
  <2> DEFINE P == {q \in 1..(to + 1) : F[q] \in V}
  <2>1. ASSUME NEW i \in 1..(to + 1), \A j \in (i + 1)..(to + 1) : j \in P
        PROVE  i \in P
    <3> DEFINE h == [j \in (i + 1)..(to + 1) |-> F[j]]
    <3>0. h \in [(i + 1)..(to + 1) -> V]
      <4>1. \A j \in (i + 1)..(to + 1) : F[j] \in V
        BY <2>1
      <4> HIDE DEF F, V
      <4> QED BY <4>1
    <3>1. \A d \in Depths : CommentRest(h, p, i, d, to) \in W
      <4>1. p \in Nat
        OBVIOUS
      <4> HIDE DEF h
      <4> QED BY <3>0, <4>1, CommentTyped
    <3>2. \A d \in Depths : CommentRest(h, p, i, d, to) = CommentRest(F, p, i, d, to)
      <4>1. p \in Nat /\ \A j \in (i + 1)..(to + 1) : h[j] = F[j]
        OBVIOUS
      <4> HIDE DEF F, h
      <4> QED BY <4>1, CommentLooksAhead
    <3>3. F[i] \in V
      <4>1. F[i] = [d \in Depths |-> CommentRest(F, p, i, d, to)]
        BY <1>6
      <4> HIDE DEF F, h, W
      <4> QED BY <4>1, <3>1, <3>2
    <3> QED BY <3>3
  <2>2. to + 1 \in Nat
    OBVIOUS
  <2>3. \A i \in 1..(to + 1) : i \in P
    <3> HIDE DEF P
    <3> QED BY <2>1, <2>2, Backwards
  <2> HIDE DEF F, V
  <2> QED BY <2>3
<1>9. ASSUME NEW q \in 1..(to + 1), NEW d \in Depths
      PROVE  F[q][d] \in W /\ F[q][d] = CommentRest(F, p, q, d, to)
  <2> HIDE DEF F, W, G
  <2> QED BY <1>6, <1>8
<1> HIDE DEF F, W
<1> QED BY <1>7, <1>9 DEF F, W

(* A comment that is closed ends behind where the scan is, one that is not  *)
(* ends with the text.                                                      *)
LEMMA CommentReach ==
    ASSUME NEW to \in Nat, NEW p \in 1..to, NEW q \in 1..(to + 1), NEW d \in Depths
    PROVE  LET token == CommentScan(p, to)[q][d]
           IN  IF token.kind = "Unterminated" THEN token.last = to ELSE token.last \in (q + 1)..to
<1> DEFINE F == CommentScan(p, to)
           Fits(i, token) == IF token.kind = "Unterminated" THEN token.last = to
                             ELSE token.last \in (i + 1)..to
           P == {i \in 1..(to + 1) : \A e \in Depths : Fits(i, F[i][e])}
<1>1. \A i \in 1..(to + 1), e \in Depths : F[i][e] = CommentRest(F, p, i, e, to)
  BY CommentUnfolds
<1> HIDE DEF F
<1>2. ASSUME NEW i \in 1..(to + 1), \A j \in (i + 1)..(to + 1) : j \in P
      PROVE  i \in P
  <2> SUFFICES ASSUME NEW e \in Depths PROVE Fits(i, F[i][e])
    OBVIOUS
  <2>1. CASE i >= to
    <3>1. F[i][e] = Token("Unterminated", p, to)
      BY <1>1, <2>1 DEF CommentRest
    <3> QED BY <3>1 DEF Token
  <2>2. CASE ~(i >= to)
    <3>1. i + 1 \in (i + 1)..(to + 1) /\ i + 2 \in (i + 1)..(to + 1)
      BY <2>2
    <3>2. e + 1 \in Depths /\ (e # 1 => e - 1 \in Depths)
      BY DEF Depths
    <3>3. /\ Fits(i + 1, F[i + 1][e]) /\ Fits(i + 2, F[i + 2][e + 1])
          /\ e # 1 => Fits(i + 2, F[i + 2][e - 1])
      <4>1. i + 1 \in P /\ i + 2 \in P
        BY <3>1, <1>2
      <4> HIDE DEF Fits
      <4> QED BY <4>1, <3>2
    <3>4. \A token : Fits(i + 1, token) \/ Fits(i + 2, token) => Fits(i, token)
      OBVIOUS
    <3>5. Fits(i, Token("BlockComment", p, i + 1))
      BY <2>2 DEF Token
    <3> HIDE DEF Fits
    <3> QED BY <1>1, <2>2, <3>3, <3>4, <3>5 DEF CommentRest
  <2> QED BY <2>1, <2>2
<1>3. \A i \in 1..(to + 1) : i \in P
  <2>1. to + 1 \in Nat
    OBVIOUS
  <2> HIDE DEF P
  <2> QED BY <1>2, <2>1, Backwards
<1> QED BY <1>3 DEF F

(* A closed comment comes out of any text that is cut behind it.            *)
LEMMA CommentCut ==
    ASSUME NEW to \in Nat, NEW cut \in Nat, cut <= to, NEW p \in 1..cut,
           NEW q \in 1..(cut + 1), NEW d \in Depths,
           CommentScan(p, to)[q][d].kind # "Unterminated", CommentScan(p, to)[q][d].last <= cut
    PROVE  CommentScan(p, cut)[q][d] = CommentScan(p, to)[q][d]
<1> DEFINE F == CommentScan(p, to)
           T == CommentScan(p, cut)
           Closed(token) == token.kind # "Unterminated" /\ token.last <= cut
           P == {i \in 1..(cut + 1) : \A e \in Depths : Closed(F[i][e]) => T[i][e] = F[i][e]}
<1>0. p \in 1..to
  OBVIOUS
<1>1. \A i \in 1..(to + 1), e \in Depths : F[i][e] = CommentRest(F, p, i, e, to)
  BY <1>0, CommentUnfolds
<1>2. \A i \in 1..(cut + 1), e \in Depths : T[i][e] = CommentRest(T, p, i, e, cut)
  BY CommentUnfolds
<1>3. \A i \in 1..(to + 1), e \in Depths :
        F[i][e].kind # "Unterminated" => F[i][e].last \in (i + 1)..to
  BY <1>0, CommentReach
<1> HIDE DEF F, T
<1>4. ASSUME NEW i \in 1..(cut + 1), \A j \in (i + 1)..(cut + 1) : j \in P
      PROVE  i \in P
  <2> SUFFICES ASSUME NEW e \in Depths, Closed(F[i][e]) PROVE T[i][e] = F[i][e]
    OBVIOUS
  <2>1. i \in 1..(to + 1) /\ i < cut /\ i < to
    <3>1. i \in 1..(to + 1)
      OBVIOUS
    <3>2. F[i][e].last \in (i + 1)..to
      BY <3>1, <1>3
    <3> QED BY <3>1, <3>2
  <2>2. \A pair : CommentPair(i, cut, pair) <=> CommentPair(i, to, pair)
    BY <2>1 DEF CommentPair, At
  <2>3. i + 1 \in (i + 1)..(cut + 1) /\ i + 2 \in (i + 1)..(cut + 1)
    BY <2>1
  <2>4. e + 1 \in Depths /\ (e # 1 => e - 1 \in Depths)
    BY DEF Depths
  <2>5. /\ Closed(F[i + 1][e]) => T[i + 1][e] = F[i + 1][e]
        /\ Closed(F[i + 2][e + 1]) => T[i + 2][e + 1] = F[i + 2][e + 1]
        /\ e # 1 => (Closed(F[i + 2][e - 1]) => T[i + 2][e - 1] = F[i + 2][e - 1])
    <3>1. i + 1 \in P /\ i + 2 \in P
      BY <2>3, <1>4
    <3> HIDE DEF Closed
    <3> QED BY <3>1, <2>4
  <2>6. F[i][e] = CommentRest(F, p, i, e, to) /\ T[i][e] = CommentRest(T, p, i, e, cut)
    BY <1>1, <1>2, <2>1
  <2>7. ~(i >= to) /\ ~(i >= cut)
    BY <2>1
  <2> HIDE DEF Closed
  <2> QED BY <2>2, <2>5, <2>6, <2>7 DEF CommentRest
<1>5. \A i \in 1..(cut + 1) : i \in P
  <2>1. cut + 1 \in Nat
    OBVIOUS
  <2> HIDE DEF P
  <2> QED BY <1>4, <2>1, Backwards
<1> QED BY <1>5 DEF F, T

-----------------------------------------------------------------------------
(* The other tokens.                                                        *)

(* A run goes on as long as the characters allow.                           *)
LEMMA RunIs ==
    ASSUME NEW to \in Nat, NEW p \in 1..to, NEW chars
    PROVE  /\ RunOf(p, to, chars) \in p..to
           /\ \A k \in (p + 1)..RunOf(p, to, chars) : text[k] \in chars
           /\ \A q \in p..to : (\A k \in (p + 1)..q : text[k] \in chars) => q <= RunOf(p, to, chars)
<1> DEFINE S == {q \in p..to : \A k \in (p + 1)..q : text[k] \in chars}
<1>0. \A q \in S : q \in Int /\ q <= to
  OBVIOUS
<1>1. p \in S
  OBVIOUS
<1>2. Max(S) \in S /\ \A q \in S : Max(S) >= q
  <2>1. to \in Int /\ S # {}
    BY <1>1
  <2> HIDE DEF S
  <2> QED BY <1>0, <2>1, MaxIsGreatest
<1>3. RunOf(p, to, chars) = Max(S)
  BY DEF RunOf
<1> DEFINE m == Max(S)
<1>4. m \in S /\ \A q \in S : q <= m
  <2> HIDE DEF S
  <2> QED BY <1>0, <1>2
<1> HIDE DEF m
<1> QED BY <1>3, <1>4 DEF m

LEMMA RunCut ==
    ASSUME NEW to \in Nat, NEW cut \in Nat, cut <= to, NEW p \in 1..cut, NEW chars,
           RunOf(p, to, chars) <= cut
    PROVE  RunOf(p, cut, chars) = RunOf(p, to, chars)
<1> DEFINE m == RunOf(p, to, chars)
           n == RunOf(p, cut, chars)
<1>1. /\ m \in p..to /\ \A k \in (p + 1)..m : text[k] \in chars
      /\ \A q \in p..to : (\A k \in (p + 1)..q : text[k] \in chars) => q <= m
  <2>1. p \in 1..to
    OBVIOUS
  <2> QED BY <2>1, RunIs
<1>2. /\ n \in p..cut /\ \A k \in (p + 1)..n : text[k] \in chars
      /\ \A q \in p..cut : (\A k \in (p + 1)..q : text[k] \in chars) => q <= n
  BY RunIs
<1>3. m <= cut
  OBVIOUS
<1> HIDE DEF m, n
<1>4. m <= n /\ n <= m
  BY <1>1, <1>2, <1>3
<1> QED BY <1>1, <1>2, <1>4 DEF m, n

\* The tokens that are not scanned by hand, by their first character.
PlainToken(p, to) ==
    IF At(p, to, <<"Slash", "Slash">>)
    THEN Token("LineComment", p, RunOf(p, to, Chars \ {"Newline"}))
    ELSE IF text[p] \in Spaces THEN Token("Whitespace", p, RunOf(p, to, Spaces))
    ELSE IF text[p] \in Letters THEN Token("Word", p, RunOf(p, to, Letters))
    ELSE IF text[p] \in {"Other", "Backslash"} THEN Token("Invalid", p, p)
    ELSE Token(text[p], p, p)

(* The three ways to a token.                                               *)
LEMMA NextTokenIs ==
    ASSUME NEW p, NEW to
    PROVE  /\ text[p] \in Delimiters => NextToken(p, to) = Quoted(p, to)
           /\ text[p] \notin Delimiters /\ At(p, to, <<"Slash", "Star">>) =>
                NextToken(p, to) = BlockComment(p, to)
           /\ text[p] \notin Delimiters /\ ~At(p, to, <<"Slash", "Star">>) =>
                NextToken(p, to) = PlainToken(p, to)
<1>1. text[p] \in Delimiters =>
        ~At(p, to, <<"Slash", "Star">>) /\ ~At(p, to, <<"Slash", "Slash">>)
        /\ text[p] \notin Spaces /\ text[p] \notin Letters /\ text[p] \notin {"Other", "Backslash"}
  BY DEF Delimiters, At, Spaces, Letters, HexDigits
<1>2. At(p, to, <<"Slash", "Star">>) =>
        ~At(p, to, <<"Slash", "Slash">>)
        /\ text[p] \notin Spaces /\ text[p] \notin Letters /\ text[p] \notin {"Other", "Backslash"}
  BY DEF At, Spaces, Letters, HexDigits
<1>3. At(p, to, <<"Slash", "Slash">>) =>
        text[p] \notin Spaces /\ text[p] \notin Letters /\ text[p] \notin {"Other", "Backslash"}
  BY DEF At, Spaces, Letters, HexDigits
<1>4. text[p] \in Spaces => text[p] \notin Letters /\ text[p] \notin {"Other", "Backslash"}
  BY DEF Spaces, Letters, HexDigits
<1>5. text[p] \in Letters => text[p] \notin {"Other", "Backslash"}
  BY DEF Letters, HexDigits
<1>6. CASE text[p] \in Delimiters
  BY <1>1, <1>6 DEF NextToken
<1>7. CASE text[p] \notin Delimiters /\ At(p, to, <<"Slash", "Star">>)
  BY <1>2, <1>7 DEF NextToken
<1>8. CASE text[p] \notin Delimiters /\ ~At(p, to, <<"Slash", "Star">>)
  BY <1>3, <1>4, <1>5, <1>8 DEF NextToken, PlainToken
<1> QED BY <1>6, <1>7, <1>8

(* A token starts where it is looked for and ends within the text.          *)
LEMMA NextTokenTyped ==
    ASSUME text \in Seq(Chars), NEW to \in 0..Len(text), NEW p \in 1..to
    PROVE  /\ NextToken(p, to) \in Tokens
           /\ NextToken(p, to).first = p /\ NextToken(p, to).last \in p..to
<1>0. to \in Nat /\ p \in 1..to /\ p \in Nat /\ p \in p..to
  OBVIOUS
<1>1. CASE text[p] \in Delimiters
  <2> DEFINE t == QuotedScan(p, to)[p + 1]
  <2>1. NextToken(p, to) = t
    BY <1>0, <1>1, NextTokenIs, QuotedUnfolds
  <2>2. t \in QuotedTokens(p, to)
    <3>1. p + 1 \in 1..(to + 1)
      OBVIOUS
    <3> QED BY <1>0, <1>1, <3>1, QuotedUnfolds
  <2>3. IF t.kind = "Unterminated" THEN t.last = to ELSE t.last \in (p + 1)..to
    <3>1. p + 1 \in 1..(to + 1)
      OBVIOUS
    <3> QED BY <1>0, <1>1, <3>1, QuotedReach
  <2>4. t.last \in p..to
    <3> HIDE DEF t
    <3> QED BY <2>3
  <2> HIDE DEF t
  <2>5. t \in Tokens /\ t.first = p
    BY <1>1, <2>2 DEF QuotedTokens, QuotedKinds, Tokens, TokenKinds
  <2> QED BY <2>1, <2>4, <2>5
<1>2. CASE text[p] \notin Delimiters /\ At(p, to, <<"Slash", "Star">>)
  <2> DEFINE t == CommentScan(p, to)[p + 2][1]
  <2>0. p + 2 \in 1..(to + 1) /\ 1 \in Depths
    BY <1>2 DEF At, Depths
  <2>1. NextToken(p, to) = t
    <3>1. NextToken(p, to) = BlockComment(p, to)
      BY <1>2, NextTokenIs
    <3>2. BlockComment(p, to) = t
      BY <1>0, CommentUnfolds
    <3> QED BY <3>1, <3>2
  <2>2. t \in CommentTokens(p, to)
    BY <1>0, <2>0, CommentUnfolds
  <2>3. IF t.kind = "Unterminated" THEN t.last = to ELSE t.last \in ((p + 2) + 1)..to
    BY <1>0, <2>0, CommentReach
  <2>4. t.last \in p..to
    <3> HIDE DEF t
    <3> QED BY <2>3
  <2> HIDE DEF t
  <2>5. t \in Tokens /\ t.first = p
    BY <2>2 DEF CommentTokens, Tokens, TokenKinds
  <2> QED BY <2>1, <2>4, <2>5
<1>3. CASE text[p] \notin Delimiters /\ ~At(p, to, <<"Slash", "Star">>)
  <2>1. NextToken(p, to) = PlainToken(p, to)
    BY <1>3, NextTokenIs
  <2>2. \A chars : RunOf(p, to, chars) \in p..to
    BY <1>0, RunIs
  <2>3. text[p] \in Chars
    OBVIOUS
  <2>4. PICK kind \in TokenKinds, e \in p..to : PlainToken(p, to) = Token(kind, p, e)
    <3>1. CASE At(p, to, <<"Slash", "Slash">>)
      <4>1. PlainToken(p, to) = Token("LineComment", p, RunOf(p, to, Chars \ {"Newline"}))
        BY <3>1 DEF PlainToken
      <4> QED BY <4>1, <2>2 DEF TokenKinds
    <3>2. CASE ~At(p, to, <<"Slash", "Slash">>) /\ text[p] \in Spaces
      <4>1. PlainToken(p, to) = Token("Whitespace", p, RunOf(p, to, Spaces))
        BY <3>2 DEF PlainToken
      <4> QED BY <4>1, <2>2 DEF TokenKinds
    <3>3. CASE ~At(p, to, <<"Slash", "Slash">>) /\ text[p] \notin Spaces /\ text[p] \in Letters
      <4>1. PlainToken(p, to) = Token("Word", p, RunOf(p, to, Letters))
        BY <3>3 DEF PlainToken
      <4> QED BY <4>1, <2>2 DEF TokenKinds
    <3>4. CASE ~At(p, to, <<"Slash", "Slash">>) /\ text[p] \notin Spaces \cup Letters
      <4>1. PlainToken(p, to) \in {Token("Invalid", p, p), Token(text[p], p, p)}
            /\ (text[p] \in {"Other", "Backslash"} => PlainToken(p, to) = Token("Invalid", p, p))
        BY <3>4 DEF PlainToken
      <4>2. text[p] \in {"Other", "Backslash"} \/ text[p] \in TokenKinds
        BY <1>3, <2>3, <3>4 DEF Chars, TokenKinds
      <4>3. "Invalid" \in TokenKinds
        BY DEF TokenKinds
      <4> QED BY <1>0, <4>1, <4>2, <4>3
    <3> QED BY <3>1, <3>2, <3>3, <3>4
  <2> QED BY <2>1, <2>4 DEF Token, Tokens
<1> QED BY <1>1, <1>2, <1>3

(* No scanner sees beyond its token: it comes out of any text that is cut   *)
(* behind it.                                                               *)
LEMMA NextTokenCut ==
    ASSUME text \in Seq(Chars), NEW to \in 0..Len(text), NEW cut \in Nat, cut <= to,
           NEW p \in 1..cut, NextToken(p, to).last <= cut
    PROVE  NextToken(p, cut) = NextToken(p, to)
<1>0. to \in Nat /\ p \in 1..to
  OBVIOUS
<1>1. CASE cut = to
  BY <1>1
<1>2. CASE cut # to /\ text[p] \in Delimiters
  <2>1. NextToken(p, to) = QuotedScan(p, to)[p + 1]
    BY <1>0, <1>2, NextTokenIs, QuotedUnfolds
  <2>2. NextToken(p, cut) = QuotedScan(p, cut)[p + 1]
    BY <1>0, <1>2, NextTokenIs, QuotedUnfolds
  <2>3. QuotedScan(p, to)[p + 1].kind # "Unterminated"
    <3>1. p + 1 \in 1..(to + 1)
      OBVIOUS
    <3>2. QuotedScan(p, to)[p + 1].kind = "Unterminated" => QuotedScan(p, to)[p + 1].last = to
      BY <1>0, <1>2, <3>1, QuotedReach
    <3> QED BY <1>2, <2>1, <3>2
  <2>4. p + 1 \in 1..(cut + 1)
    OBVIOUS
  <2> QED BY <1>0, <1>2, <2>1, <2>2, <2>3, <2>4, QuotedCut
<1>3. CASE cut # to /\ text[p] \notin Delimiters /\ At(p, to, <<"Slash", "Star">>)
  <2> DEFINE t == CommentScan(p, to)[p + 2][1]
  <2>0. p + 2 \in 1..(to + 1) /\ 1 \in Depths
    BY <1>3 DEF At, Depths
  <2>1. NextToken(p, to) = t
    <3>1. NextToken(p, to) = BlockComment(p, to)
      BY <1>3, NextTokenIs
    <3>2. BlockComment(p, to) = t
      BY <1>0, CommentUnfolds
    <3> QED BY <3>1, <3>2
  <2>2. t.kind # "Unterminated" /\ t.last \in ((p + 2) + 1)..to
    <3>1. IF t.kind = "Unterminated" THEN t.last = to ELSE t.last \in ((p + 2) + 1)..to
      BY <1>0, <2>0, CommentReach
    <3> HIDE DEF t
    <3> QED BY <1>3, <2>1, <3>1
  <2>3. p + 2 \in 1..(cut + 1) /\ At(p, cut, <<"Slash", "Star">>)
    <3>1. p + 3 <= cut
      <4> HIDE DEF t
      <4> QED BY <2>1, <2>2
    <3> QED BY <3>1, <1>3 DEF At
  <2>4. NextToken(p, cut) = CommentScan(p, cut)[p + 2][1]
    <3>1. NextToken(p, cut) = BlockComment(p, cut)
      BY <1>3, <2>3, NextTokenIs
    <3>2. BlockComment(p, cut) = CommentScan(p, cut)[p + 2][1]
      BY CommentUnfolds
    <3> QED BY <3>1, <3>2
  <2> QED BY <1>0, <2>0, <2>1, <2>2, <2>3, <2>4, CommentCut
<1>4. CASE text[p] \notin Delimiters /\ ~At(p, to, <<"Slash", "Star">>)
  <2>1. ~At(p, cut, <<"Slash", "Star">>)
    BY <1>4, <1>0 DEF At
  <2>2. NextToken(p, to) = PlainToken(p, to) /\ NextToken(p, cut) = PlainToken(p, cut)
    BY <1>4, <2>1, NextTokenIs
  <2>3. \A chars : RunOf(p, to, chars) <= cut => RunOf(p, cut, chars) = RunOf(p, to, chars)
    BY <1>0, RunCut
  <2>4. CASE At(p, to, <<"Slash", "Slash">>)
    <3>1. PlainToken(p, to) = Token("LineComment", p, RunOf(p, to, Chars \ {"Newline"}))
      BY <2>4 DEF PlainToken
    <3> DEFINE m == RunOf(p, to, Chars \ {"Newline"})
    <3>2. p + 1 <= m
      <4>1. \A q \in p..to : (\A k \in (p + 1)..q : text[k] \in Chars \ {"Newline"}) => q <= m
        BY <1>0, RunIs
      <4>2. p + 1 \in p..to /\ text[p + 1] \in Chars \ {"Newline"}
        BY <1>0, <2>4 DEF At, Chars
      <4>3. \A k \in (p + 1)..(p + 1) : k = p + 1
        OBVIOUS
      <4> HIDE DEF m
      <4> QED BY <4>1, <4>2, <4>3
    <3>3. m <= cut /\ m \in Int
      <4>1. m \in p..to
        BY <1>0, RunIs
      <4> QED BY <4>1, <2>2, <3>1 DEF Token
    <3>4. At(p, cut, <<"Slash", "Slash">>)
      <4>1. p + 1 <= cut
        <5> HIDE DEF m
        <5> QED BY <3>2, <3>3
      <4> QED BY <4>1, <2>4 DEF At
    <3>5. PlainToken(p, cut) = Token("LineComment", p, RunOf(p, cut, Chars \ {"Newline"}))
      BY <3>4 DEF PlainToken
    <3> QED BY <2>2, <2>3, <3>1, <3>3, <3>5
  <2>5. CASE ~At(p, to, <<"Slash", "Slash">>)
    <3>1. ~At(p, cut, <<"Slash", "Slash">>)
      BY <2>5, <1>0 DEF At
    <3>2. CASE text[p] \in Spaces
      <4>1. PlainToken(p, to).last = RunOf(p, to, Spaces)
        BY <2>5, <3>2 DEF PlainToken, Token
      <4>2. RunOf(p, cut, Spaces) = RunOf(p, to, Spaces)
        BY <2>2, <2>3, <4>1
      <4> QED BY <2>2, <2>5, <3>1, <3>2, <4>2 DEF PlainToken
    <3>3. CASE text[p] \notin Spaces /\ text[p] \in Letters
      <4>1. PlainToken(p, to).last = RunOf(p, to, Letters)
        BY <2>5, <3>3 DEF PlainToken, Token
      <4>2. RunOf(p, cut, Letters) = RunOf(p, to, Letters)
        BY <2>2, <2>3, <4>1
      <4> QED BY <2>2, <2>5, <3>1, <3>3, <4>2 DEF PlainToken
    <3>4. CASE text[p] \notin Spaces /\ text[p] \notin Letters
      BY <2>2, <2>5, <3>1, <3>4 DEF PlainToken
    <3> QED BY <3>2, <3>3, <3>4
  <2> QED BY <2>4, <2>5
<1> QED BY <1>1, <1>2, <1>3, <1>4

-----------------------------------------------------------------------------
(* The tokens of a text.                                                    *)

\* What the scanners return, as a value that no step changes.
Lexemes ==
    [range \in (1..Len(text)) \X (0..Len(text)) |-> Clean(NextToken(range[1], range[2]))]

LEMMA LexemesStay == ASSUME text' = text PROVE Lexemes' = Lexemes
<1>1. text' = text
  OBVIOUS
<1> QED BY <1>1 DEF Lexemes, NextToken, Quoted, BlockComment, RunOf, At, QuotedUnit, EscapeAt,
     HexRun, IsScalar, Max, CommentPair, Clean, IsError

\* The tokens follow one another, each as it comes out of the text up to to.
Chain(lexemes, ts, from, to) ==
    /\ \A k \in DOMAIN ts :
        /\ ts[k].first \in from..to /\ ts[k].last \in ts[k].first..to
        /\ ts[k] = lexemes[<<ts[k].first, to>>]
        /\ k + 1 \in DOMAIN ts => ts[k + 1].first = ts[k].last + 1
    /\ \A j, k \in DOMAIN ts : j < k => ts[j].last < ts[k].first

\* The tokens are those of the whole text from the i-th on, up to the j-th.
Follows(i, j) ==
    /\ i <= j /\ outer[i].first = first /\ outer[j].last = last
    /\ Len(tokens) <= j - i + 1
    /\ \A k \in DOMAIN tokens : tokens[k] = outer[i + k - 1]

FragmentInv ==
    /\ outer = <<>> => first = 1 /\ last = Len(text)
    /\ outer # <<>> => /\ Chain(Lexemes, outer, 1, Len(text))
                       /\ \E i, j \in DOMAIN outer : Follows(i, j)

LexInv == TypeOK /\ Lossless /\ Chain(Lexemes, tokens, first, last) /\ FragmentInv

\* The invalid ones among the first k.
Bad(ts, k) == {i \in 1..k : ts[i].kind = "Invalid"}

(* Invalid tokens are counted one by one.                                   *)
LEMMA BadCounted ==
    ASSUME NEW ts, NEW k \in Nat
    PROVE  /\ Cardinality(Bad(ts, k)) \in 0..k
           /\ Cardinality(Bad(ts, 0)) = 0
           /\ Cardinality(Bad(ts, k + 1)) =
                IF ts[k + 1].kind = "Invalid" THEN Cardinality(Bad(ts, k)) + 1
                ELSE Cardinality(Bad(ts, k))
<1>1. IsFiniteSet(Bad(ts, k)) /\ Cardinality(Bad(ts, k)) \in 0..k
  <2>1. Bad(ts, k) \subseteq 1..k /\ IsFiniteSet(1..k) /\ Cardinality(1..k) = k
    BY FS_Interval DEF Bad
  <2>2. Cardinality(Bad(ts, k)) <= Cardinality(1..k) /\ IsFiniteSet(Bad(ts, k))
    BY <2>1, FS_Subset
  <2> QED BY <2>1, <2>2, FS_CardinalityType
<1>2. Cardinality(Bad(ts, 0)) = 0
  <2>1. Bad(ts, 0) = {}
    BY DEF Bad
  <2> QED BY <2>1, FS_EmptySet
<1>3. CASE ts[k + 1].kind = "Invalid"
  <2>1. Bad(ts, k + 1) = Bad(ts, k) \cup {k + 1} /\ k + 1 \notin Bad(ts, k)
    BY <1>3 DEF Bad
  <2>2. Cardinality(Bad(ts, k) \cup {k + 1}) = Cardinality(Bad(ts, k)) + 1
    BY <1>1, <2>1, FS_AddElement
  <2> QED BY <1>1, <1>2, <1>3, <2>1, <2>2
<1>4. CASE ts[k + 1].kind # "Invalid"
  <2>1. Bad(ts, k + 1) = Bad(ts, k)
    BY <1>4 DEF Bad
  <2> QED BY <1>1, <1>2, <1>4, <2>1
<1> QED BY <1>3, <1>4

(* Of the first ones there are no more invalid ones than there are in all.  *)
LEMMA BadGrows ==
    ASSUME NEW ts, NEW n \in Nat, NEW k \in Bad(ts, n)
    PROVE  Cardinality(Bad(ts, k)) \in 1..Cardinality(Bad(ts, n))
<1>1. k \in 1..n
  BY DEF Bad
<1>2. Bad(ts, k) \subseteq Bad(ts, n) /\ Bad(ts, n) \subseteq 1..n /\ k \in Bad(ts, k)
  BY <1>1 DEF Bad
<1>3. IsFiniteSet(Bad(ts, n))
  BY <1>2, FS_Interval, FS_Subset
<1>4. IsFiniteSet(Bad(ts, k)) /\ Cardinality(Bad(ts, k)) <= Cardinality(Bad(ts, n))
  BY <1>2, <1>3, FS_Subset
<1>5. Cardinality(Bad(ts, k)) # 0
  BY <1>2, <1>4, FS_EmptySet
<1> QED BY <1>3, <1>4, <1>5, FS_CardinalityType

(* What is invalid for one reason or another is an invalid token.           *)
LEMMA Cleaned ==
    ASSUME NEW token \in Tokens
    PROVE  /\ Clean(token) \in Tokens
           /\ Clean(token).first = token.first /\ Clean(token).last = token.last
           /\ Clean(token).kind = "Invalid" <=> IsError(token)
           /\ ~IsError(token) => Clean(token) = token
<1>1. CASE IsError(token)
  <2>1. Clean(token) = [kind |-> "Invalid", first |-> token.first, last |-> token.last]
    BY <1>1 DEF Clean, Tokens
  <2> QED BY <1>1, <2>1 DEF Tokens, TokenKinds
<1>2. CASE ~IsError(token)
  BY <1>2 DEF Clean, IsError
<1> QED BY <1>1, <1>2

(* The lexeme at a place of the text.                                       *)
LEMMA LexemeIs ==
    ASSUME text \in Seq(Chars), NEW to \in 0..Len(text), NEW p \in 1..to
    PROVE  /\ Lexemes[<<p, to>>] = Clean(NextToken(p, to))
           /\ Lexemes[<<p, to>>] \in Tokens
           /\ Lexemes[<<p, to>>].first = p
           /\ Lexemes[<<p, to>>].last = NextToken(p, to).last
           /\ Lexemes[<<p, to>>].last \in p..to
<1>1. p \in 1..Len(text) /\ <<p, to>> \in (1..Len(text)) \X (0..Len(text))
  OBVIOUS
<1>2. Lexemes[<<p, to>>] = Clean(NextToken(p, to))
  BY <1>1 DEF Lexemes
<1>3. /\ NextToken(p, to) \in Tokens
      /\ NextToken(p, to).first = p /\ NextToken(p, to).last \in p..to
  BY NextTokenTyped
<1> QED BY <1>2, <1>3, Cleaned

LEMMA LexemeCut ==
    ASSUME text \in Seq(Chars), NEW to \in 0..Len(text), NEW cut \in 0..to, NEW p \in 1..cut,
           Lexemes[<<p, to>>].last <= cut
    PROVE  Lexemes[<<p, cut>>] = Lexemes[<<p, to>>]
<1>1. p \in 1..to /\ cut \in 0..Len(text) /\ cut \in Nat /\ cut <= to
  OBVIOUS
<1>2. /\ Lexemes[<<p, to>>] = Clean(NextToken(p, to))
      /\ Lexemes[<<p, to>>].last = NextToken(p, to).last
  BY <1>1, LexemeIs
<1>3. Lexemes[<<p, cut>>] = Clean(NextToken(p, cut))
  BY <1>1, LexemeIs
<1>4. NextToken(p, cut) = NextToken(p, to)
  BY <1>1, <1>2, NextTokenCut
<1> QED BY <1>2, <1>3, <1>4

LEMMA InitLexes == Init => LexInv
<1> SUFFICES ASSUME Init PROVE LexInv
  OBVIOUS
<1>1. /\ text \in Seq(Chars) /\ first = 1 /\ last = Len(text) /\ position = 1
      /\ tokens = <<>> /\ diagnostics = <<>> /\ outer = <<>>
  BY TextsAssumption DEF Init
<1>2. TypeOK
  BY <1>1 DEF TypeOK
<1>3. Lossless
  <2>1. InvalidUpTo(0) = {} /\ Cardinality({}) = 0
    BY FS_EmptySet DEF InvalidUpTo
  <2>2. Len(tokens) = 0 /\ Len(diagnostics) = 0 /\ DOMAIN tokens = {}
    BY <1>1
  <2> QED BY <1>1, <2>1, <2>2 DEF Lossless
<1>4. Chain(Lexemes, tokens, first, last)
  BY <1>1 DEF Chain
<1>5. FragmentInv
  BY <1>1 DEF FragmentInv
<1> QED BY <1>2, <1>3, <1>4, <1>5 DEF LexInv

(* The next token of the chain.                                             *)
LEMMA ChainGrows ==
    ASSUME NEW lexemes, NEW ts \in Seq(Tokens), NEW from \in Nat, NEW to \in Nat,
           Chain(lexemes, ts, from, to), NEW token \in Tokens,
           token = lexemes[<<token.first, to>>],
           token.first \in from..to, token.last \in token.first..to,
           token.first = IF ts = <<>> THEN from ELSE ts[Len(ts)].last + 1
    PROVE  Chain(lexemes, Append(ts, token), from, to)
<1> DEFINE n == Len(ts)
           more == Append(ts, token)
<1>1. /\ n \in Nat /\ DOMAIN ts = 1..n /\ DOMAIN more = 1..(n + 1)
      /\ more[n + 1] = token /\ \A k \in 1..n : more[k] = ts[k]
  OBVIOUS
<1>2. /\ \A k \in 1..n :
           /\ ts[k].first \in from..to /\ ts[k].last \in ts[k].first..to
           /\ ts[k] = lexemes[<<ts[k].first, to>>]
           /\ k + 1 \in 1..n => ts[k + 1].first = ts[k].last + 1
      /\ \A j, k \in 1..n : j < k => ts[j].last < ts[k].first
  BY <1>1 DEF Chain
<1>3. n # 0 => ts # <<>>
  OBVIOUS
<1> HIDE DEF more, n
<1>4. n # 0 => token.first = ts[n].last + 1
  BY <1>3 DEF n
<1>9. \A k \in 1..n : ts[k].first \in Nat /\ ts[k].last \in Nat /\ ts[k].first <= ts[k].last
  <2> SUFFICES ASSUME NEW k \in 1..n
               PROVE  ts[k].first \in Nat /\ ts[k].last \in Nat /\ ts[k].first <= ts[k].last
    OBVIOUS
  <2>1. ts[k].first \in from..to /\ ts[k].last \in ts[k].first..to
    BY <1>2
  <2> QED BY <2>1
<1>5. \A k \in 1..n : ts[k].last < token.first
  <2> SUFFICES ASSUME NEW k \in 1..n PROVE ts[k].last < token.first
    OBVIOUS
  <2>1. n \in 1..n /\ n # 0
    BY <1>1
  <2>2. ts[k].last <= ts[n].last
    <3>1. k = n \/ k < n
      BY <1>1
    <3>2. k < n => ts[k].last < ts[n].first
      BY <1>2, <2>1
    <3>3. /\ ts[k].last \in Nat /\ ts[n].first \in Nat /\ ts[n].last \in Nat
          /\ ts[n].first <= ts[n].last
      BY <1>9, <2>1
    <3> QED BY <3>1, <3>2, <3>3
  <2>3. ts[k].last \in Nat /\ ts[n].last \in Nat
    BY <1>9, <2>1
  <2> QED BY <1>4, <2>1, <2>2, <2>3
<1>6. ASSUME NEW k \in 1..(n + 1)
      PROVE  /\ more[k].first \in from..to /\ more[k].last \in more[k].first..to
             /\ more[k] = lexemes[<<more[k].first, to>>]
             /\ k + 1 \in 1..(n + 1) => more[k + 1].first = more[k].last + 1
  <2>1. CASE k = n + 1
    BY <2>1, <1>1
  <2>2. CASE k # n + 1
    <3>1. k \in 1..n /\ (k = n \/ k + 1 \in 1..n)
      BY <2>2, <1>1
    <3>2. more[k] = ts[k]
      BY <3>1, <1>1
    <3>3. CASE k = n
      <4>1. more[k + 1] = token /\ n # 0
        BY <3>1, <3>3, <1>1
      <4> QED BY <1>2, <1>4, <3>1, <3>2, <3>3, <4>1
    <3>4. CASE k # n
      <4>1. k + 1 \in 1..n
        BY <3>1, <3>4
      <4>2. more[k + 1] = ts[k + 1]
        BY <4>1, <1>1
      <4> QED BY <1>2, <3>1, <3>2, <4>1, <4>2
    <3> QED BY <3>3, <3>4
  <2> QED BY <2>1, <2>2
<1>7. ASSUME NEW j \in 1..(n + 1), NEW k \in 1..(n + 1), j < k
      PROVE  more[j].last < more[k].first
  <2>1. j \in 1..n
    BY <1>7, <1>1
  <2>2. CASE k = n + 1
    BY <2>1, <2>2, <1>1, <1>5
  <2>3. CASE k # n + 1
    <3>1. k \in 1..n
      BY <2>3, <1>1
    <3> QED BY <2>1, <3>1, <1>1, <1>2, <1>7
  <2> QED BY <2>2, <2>3
<1> QED BY <1>1, <1>6, <1>7 DEF Chain, more

(* In a chain the last token ends last.                                     *)
LEMMA ChainOrdered ==
    ASSUME NEW lexemes, NEW ts \in Seq(Tokens), NEW from \in Nat, NEW to \in Nat,
           Chain(lexemes, ts, from, to), NEW j \in DOMAIN ts, NEW k \in DOMAIN ts
    PROVE  /\ ts[j].last <= ts[k].last <=> j <= k
           /\ ts[j].first \in Nat /\ ts[j].last \in Nat /\ ts[j].first <= ts[j].last
<1>1. DOMAIN ts = 1..Len(ts) /\ Len(ts) \in Nat
  OBVIOUS
<1>2. \A i \in DOMAIN ts : ts[i].first \in from..to /\ ts[i].last \in ts[i].first..to
  BY DEF Chain
<1>3. \A i, l \in DOMAIN ts : i < l => ts[i].last < ts[l].first
  BY DEF Chain
<1>4. \A i \in DOMAIN ts : ts[i].first \in Nat /\ ts[i].last \in Nat /\ ts[i].first <= ts[i].last
  BY <1>2
<1>5. j \in Nat /\ k \in Nat
  BY <1>1
<1>6. CASE j = k
  BY <1>4, <1>6
<1>7. CASE j < k
  BY <1>3, <1>4, <1>5, <1>7
<1>8. CASE k < j
  BY <1>3, <1>4, <1>5, <1>8
<1> QED BY <1>4, <1>5, <1>6, <1>7, <1>8

(* A step of the lexer adds the lexeme at the position.                     *)
LEMMA LexTokenIs ==
    ASSUME LexInv, LexToken
    PROVE  LET token == NextToken(position, last)
           IN  /\ position \in first..last /\ first \in Nat /\ last \in 0..Len(text)
               /\ token \in Tokens /\ token.first = position /\ token.last \in position..last
               /\ Clean(token) = Lexemes[<<position, last>>]
               /\ tokens' = Append(tokens, Clean(token))
               /\ diagnostics' = IF IsError(token) THEN Append(diagnostics, token) ELSE diagnostics
               /\ position' = token.last + 1
               /\ text' = text /\ first' = first /\ last' = last /\ outer' = outer
<1>1. /\ text \in Seq(Chars) /\ first \in 1..(last + 1) /\ last \in 0..Len(text)
      /\ position \in first..(last + 1) /\ position <= last
  BY DEF LexInv, TypeOK, LexToken
<1>2. position \in 1..last
  BY <1>1
<1>3. /\ NextToken(position, last) \in Tokens /\ NextToken(position, last).first = position
      /\ NextToken(position, last).last \in position..last
  BY <1>1, <1>2, NextTokenTyped
<1>4. Clean(NextToken(position, last)) = Lexemes[<<position, last>>]
  BY <1>1, <1>2, LexemeIs
<1>5. /\ tokens' = Append(tokens, Clean(NextToken(position, last)))
      /\ diagnostics' = IF IsError(NextToken(position, last))
                        THEN Append(diagnostics, NextToken(position, last)) ELSE diagnostics
      /\ position' = NextToken(position, last).last + 1
      /\ text' = text /\ first' = first /\ last' = last /\ outer' = outer
  BY DEF LexToken, PositionAfter
<1>6. position \in first..last /\ first \in Nat
  BY <1>1
<1> QED BY <1>1, <1>3, <1>4, <1>5, <1>6

LEMMA LexTokenTyped == ASSUME LexInv, LexToken PROVE TypeOK'
<1> DEFINE token == NextToken(position, last)
<1>1. /\ position \in first..last /\ first \in Nat /\ last \in 0..Len(text)
      /\ token \in Tokens /\ token.first = position /\ token.last \in position..last
      /\ tokens' = Append(tokens, Clean(token))
      /\ diagnostics' = IF IsError(token) THEN Append(diagnostics, token) ELSE diagnostics
      /\ position' = token.last + 1
      /\ text' = text /\ first' = first /\ last' = last /\ outer' = outer
  BY LexTokenIs
<1>2. /\ text \in Seq(Chars) /\ tokens \in Seq(Tokens) /\ outer \in Seq(Tokens)
      /\ first \in 1..(last + 1) /\ last \in 0..Len(text)
      /\ diagnostics \in Seq({t \in Tokens : IsError(t)})
  BY DEF LexInv, TypeOK
<1> HIDE DEF token
<1>3. tokens' \in Seq(Tokens)
  BY <1>1, <1>2, Cleaned
<1>4. diagnostics' \in Seq({t \in Tokens : IsError(t)})
  <2> DEFINE E == {t \in Tokens : IsError(t)}
  <2>1. IsError(token) => token \in E
    BY <1>1
  <2>2. diagnostics \in Seq(E)
    BY <1>2
  <2> HIDE DEF E
  <2>3. diagnostics' \in Seq(E)
    BY <1>1, <2>1, <2>2
  <2> QED BY <2>3 DEF E
<1>5. position' \in first'..(last' + 1)
  BY <1>1
<1>6. \A t : IsError(t)' <=> IsError(t)
  BY DEF IsError
<1> QED BY <1>1, <1>2, <1>3, <1>4, <1>5 DEF TypeOK, IsError

LEMMA LexTokenLossless == ASSUME LexInv, LexToken PROVE Lossless'
<1> DEFINE token == NextToken(position, last)
           n == Len(tokens)
           clean == Clean(token)
<1>1. /\ position \in first..last /\ first \in Nat /\ last \in 0..Len(text)
      /\ token \in Tokens /\ token.first = position /\ token.last \in position..last
      /\ tokens' = Append(tokens, clean)
      /\ diagnostics' = IF IsError(token) THEN Append(diagnostics, token) ELSE diagnostics
      /\ position' = token.last + 1
      /\ text' = text /\ first' = first /\ last' = last /\ outer' = outer
  BY LexTokenIs
<1>2. /\ tokens \in Seq(Tokens) /\ n \in Nat /\ DOMAIN tokens = 1..n
      /\ diagnostics \in Seq({t \in Tokens : IsError(t)})
  BY DEF LexInv, TypeOK
<1>3. /\ clean \in Tokens /\ clean.first = position /\ clean.last = token.last
      /\ clean.kind = "Invalid" <=> IsError(token)
  BY <1>1, Cleaned
<1>4. /\ \A k \in 1..n :
           /\ tokens[k].first = IF k = 1 THEN first ELSE tokens[k - 1].last + 1
           /\ tokens[k].last \in tokens[k].first..last
      /\ position = IF tokens = <<>> THEN first ELSE tokens[n].last + 1
      /\ Len(diagnostics) = Cardinality(Bad(tokens, n))
      /\ \A k \in Bad(tokens, n) : Clean(diagnostics[Cardinality(Bad(tokens, k))]) = tokens[k]
  BY <1>2 DEF LexInv, Lossless, InvalidUpTo, Bad
<1> HIDE DEF token, clean
<1>5. /\ tokens' \in Seq(Tokens) /\ DOMAIN tokens' = 1..(n + 1) /\ Len(tokens') = n + 1
      /\ tokens'[n + 1] = clean /\ \A k \in 1..n : tokens'[k] = tokens[k]
      /\ tokens' # <<>> /\ (n = 0 <=> tokens = <<>>)
  BY <1>1, <1>2, <1>3, SMTT(30)
<1> HIDE DEF n
<1>6. ASSUME NEW k \in 1..(n + 1)
      PROVE  /\ tokens'[k].first = IF k = 1 THEN first ELSE tokens'[k - 1].last + 1
             /\ tokens'[k].last \in tokens'[k].first..last
  <2>1. CASE k = n + 1
    <3>1. tokens'[k] = clean
      BY <2>1, <1>5
    <3>2. position = IF k = 1 THEN first ELSE tokens'[k - 1].last + 1
      <4>1. CASE n = 0
        BY <4>1, <2>1, <1>4, <1>5
      <4>2. CASE n # 0
        <5>1. k # 1 /\ k - 1 = n /\ n \in 1..n
          BY <4>2, <2>1, <1>2
        <5> QED BY <4>2, <5>1, <1>4, <1>5
      <4> QED BY <4>1, <4>2
    <3> QED BY <3>1, <3>2, <1>1, <1>3
  <2>2. CASE k # n + 1
    <3>1. k \in 1..n /\ (k # 1 => k - 1 \in 1..n)
      BY <2>2, <1>2
    <3>2. tokens'[k] = tokens[k] /\ (k # 1 => tokens'[k - 1] = tokens[k - 1])
      BY <3>1, <1>5
    <3> QED BY <3>1, <3>2, <1>4
  <2> QED BY <2>1, <2>2
<1>7. \A k \in 0..n : Bad(tokens', k) = Bad(tokens, k)
  BY <1>2, <1>5 DEF Bad
<1>8. /\ Cardinality(Bad(tokens, n)) \in Nat
      /\ Cardinality(Bad(tokens', n + 1)) =
           IF IsError(token) THEN Cardinality(Bad(tokens, n)) + 1 ELSE Cardinality(Bad(tokens, n))
  <2>1. /\ Cardinality(Bad(tokens', n)) \in 0..n
        /\ Cardinality(Bad(tokens', n + 1)) =
             IF tokens'[n + 1].kind = "Invalid" THEN Cardinality(Bad(tokens', n)) + 1
             ELSE Cardinality(Bad(tokens', n))
    BY <1>2, BadCounted
  <2>2. Bad(tokens', n) = Bad(tokens, n)
    BY <1>2, <1>7
  <2> QED BY <2>1, <2>2, <1>3, <1>5
<1>9. Len(diagnostics') = Cardinality(Bad(tokens', n + 1))
  BY <1>1, <1>2, <1>4, <1>8
<1>10. ASSUME NEW k \in Bad(tokens', n + 1)
       PROVE  Clean(diagnostics'[Cardinality(Bad(tokens', k))]) = tokens'[k]
  <2>1. k \in 1..(n + 1) /\ tokens'[k].kind = "Invalid"
    BY DEF Bad
  <2>2. CASE k = n + 1
    <3>1. IsError(token) /\ tokens'[k] = clean
      BY <2>1, <2>2, <1>3, <1>5
    <3>2. diagnostics'[Len(diagnostics) + 1] = token
      BY <3>1, <1>1, <1>2
    <3>3. Cardinality(Bad(tokens', k)) = Len(diagnostics) + 1
      BY <2>2, <3>1, <1>4, <1>8
    <3> QED BY <3>1, <3>2, <3>3 DEF clean
  <2>3. CASE k # n + 1
    <3>1. k \in 1..n /\ k \in 0..n
      BY <2>1, <2>3, <1>2
    <3>2. tokens'[k] = tokens[k] /\ Bad(tokens', k) = Bad(tokens, k)
      BY <3>1, <1>5, <1>7
    <3>3. k \in Bad(tokens, n)
      BY <2>1, <3>1, <3>2 DEF Bad
    <3>4. Cardinality(Bad(tokens, k)) \in 1..Len(diagnostics)
      BY <3>3, <1>2, <1>4, BadGrows
    <3>5. diagnostics'[Cardinality(Bad(tokens, k))] = diagnostics[Cardinality(Bad(tokens, k))]
      BY <3>4, <1>1, <1>2
    <3> QED BY <3>2, <3>3, <3>5, <1>4
  <2> QED BY <2>2, <2>3
<1>11. \A t : Clean(t)' = Clean(t)
  BY DEF Clean, IsError
<1>12. \A k : InvalidUpTo(k)' = Bad(tokens', k)
  BY DEF InvalidUpTo, Bad
<1>13. position' = IF tokens' = <<>> THEN first' ELSE tokens'[Len(tokens')].last + 1
  BY <1>1, <1>3, <1>5
<1>14. \A k \in InvalidUpTo(Len(tokens))' :
          Clean(diagnostics'[Cardinality(InvalidUpTo(k)')]) = tokens'[k]
  BY <1>5, <1>10, <1>12
<1> QED BY <1>1, <1>5, <1>6, <1>9, <1>12, <1>13, <1>14 DEF Lossless, Clean, IsError

(* The part of a fragment that is lexed already is found in the whole text, *)
(* and so is the next token.                                                *)
LEMMA LexTokenFollows ==
    ASSUME LexInv, LexToken, NEW i \in DOMAIN outer, NEW j \in DOMAIN outer, Follows(i, j),
           Chain(Lexemes, outer, 1, Len(text))
    PROVE  Follows(i, j)'
<1> DEFINE n == Len(tokens)
           token == Lexemes[<<position, last>>]
           whole == Len(text)
<1>1. /\ position \in first..last /\ first \in Nat /\ last \in 0..whole
      /\ tokens' = Append(tokens, token)
      /\ text' = text /\ first' = first /\ last' = last /\ outer' = outer
  BY LexTokenIs
<1>2. /\ text \in Seq(Chars) /\ tokens \in Seq(Tokens) /\ outer \in Seq(Tokens) /\ first \in Nat \ {0}
      /\ n \in Nat /\ DOMAIN tokens = 1..n /\ whole \in Nat
  BY DEF LexInv, TypeOK
<1>3. /\ i <= j /\ outer[i].first = first /\ outer[j].last = last /\ n <= j - i + 1
      /\ \A k \in 1..n : tokens[k] = outer[i + k - 1]
  BY <1>2 DEF Follows
<1>4. position = IF n = 0 THEN first ELSE tokens[n].last + 1
  <2>1. n = 0 <=> tokens = <<>>
    BY <1>2
  <2> QED BY <2>1 DEF LexInv, Lossless
<1>5. i \in Nat \ {0} /\ j \in Nat /\ DOMAIN outer = 1..Len(outer) /\ Len(outer) \in Nat /\ j <= Len(outer)
  BY <1>2
<1>6. token \in Tokens
  <2>1. position \in 1..last
    BY <1>1, <1>2
  <2> QED BY <1>1, <1>2, <2>1, LexemeIs
<1> DEFINE m == i + n
<1> HIDE DEF n, token, whole
<1>7. m <= j /\ m \in DOMAIN outer /\ outer[m].first = position
  <2>1. CASE n = 0
    <3>1. m = i
      BY <2>1, <1>5
    <3> QED BY <2>1, <3>1, <1>3, <1>4, <1>5
  <2>2. CASE n # 0
    <3>1. n \in 1..n /\ m - 1 = i + n - 1 /\ m - 1 \in Nat /\ m - 1 <= j /\ m - 1 \in DOMAIN outer
      BY <2>2, <1>2, <1>3, <1>5
    <3>2. position = outer[m - 1].last + 1
      BY <2>2, <3>1, <1>3, <1>4
    <3>3. Len(text) \in Nat
      BY <1>2
    <3>4. outer[j].last <= outer[m - 1].last <=> j <= m - 1
      BY <3>1, <3>3, <1>2, ChainOrdered
    <3>5. outer[m - 1].last \in Nat /\ outer[j].last \in Nat
      <4> DEFINE k == m - 1
      <4>1. k \in DOMAIN outer
        BY <3>1
      <4> HIDE DEF k
      <4>2. outer[k].last \in Nat
        BY <4>1, <3>3, <1>2, ChainOrdered
      <4>3. outer[j].last \in Nat
        BY <3>3, <1>2, ChainOrdered
      <4> QED BY <4>2, <4>3 DEF k
    <3>6. ~(j <= m - 1)
      BY <3>2, <3>4, <3>5, <1>1, <1>3
    <3>7. m <= j /\ m \in DOMAIN outer
      BY <3>1, <3>6, <1>5
    <3>8. (m - 1) + 1 = m
      BY <3>1, <1>5, <1>2
    <3>9. (m - 1) + 1 \in DOMAIN outer => outer[(m - 1) + 1].first = outer[m - 1].last + 1
      BY <3>1 DEF Chain
    <3> QED BY <3>2, <3>7, <3>8, <3>9
  <2> QED BY <2>1, <2>2
<1>8. outer[m] = token
  <2>1. outer[m] = Lexemes[<<position, whole>>]
    BY <1>7 DEF Chain, whole
  <2>2. outer[m].last <= last
    BY <1>2, <1>3, <1>7, ChainOrdered
  <2>3. whole \in 0..Len(text) /\ last \in 0..whole /\ position \in 1..last
    BY <1>1, <1>2 DEF whole
  <2>4. Lexemes[<<position, last>>] = Lexemes[<<position, whole>>]
    BY <1>2, <2>1, <2>2, <2>3, LexemeCut
  <2> QED BY <2>1, <2>4 DEF token
<1>9. /\ DOMAIN tokens' = 1..(n + 1) /\ Len(tokens') = n + 1
      /\ tokens'[n + 1] = token /\ \A k \in 1..n : tokens'[k] = tokens[k]
  BY <1>1, <1>2, <1>6 DEF n
<1>10. \A k \in 1..(n + 1) : tokens'[k] = outer[i + k - 1]
  <2> SUFFICES ASSUME NEW k \in 1..(n + 1) PROVE tokens'[k] = outer[i + k - 1]
    OBVIOUS
  <2>1. CASE k = n + 1
    <3>1. i + k - 1 = m
      BY <2>1, <1>2, <1>5
    <3> QED BY <2>1, <3>1, <1>8, <1>9
  <2>2. CASE k # n + 1
    <3>1. k \in 1..n
      BY <2>2, <1>2
    <3> QED BY <3>1, <1>3, <1>9
  <2> QED BY <2>1, <2>2
<1>11. n + 1 <= j - i + 1
  BY <1>2, <1>5, <1>7
<1> QED BY <1>1, <1>3, <1>9, <1>10, <1>11 DEF Follows

LEMMA LexTokenKeeps == ASSUME LexInv, LexToken PROVE LexInv'
<1>1. TypeOK' /\ Lossless'
  BY LexTokenTyped, LexTokenLossless
<1>2. /\ position \in first..last /\ first \in Nat /\ last \in 0..Len(text)
      /\ tokens' = Append(tokens, Lexemes[<<position, last>>])
      /\ text' = text /\ first' = first /\ last' = last /\ outer' = outer
  BY LexTokenIs
<1>3. Lexemes' = Lexemes
  BY <1>2, LexemesStay
<1>4. Chain(Lexemes, Append(tokens, Lexemes[<<position, last>>]), first, last)
  <2> DEFINE token == Lexemes[<<position, last>>]
  <2>1. /\ text \in Seq(Chars) /\ tokens \in Seq(Tokens) /\ first \in 1..(last + 1)
        /\ Chain(Lexemes, tokens, first, last)
        /\ position = IF tokens = <<>> THEN first ELSE tokens[Len(tokens)].last + 1
    BY DEF LexInv, TypeOK, Lossless
  <2>2. position \in 1..last /\ last \in Nat
    BY <1>2, <2>1
  <2>3. token \in Tokens /\ token.first = position /\ token.last \in position..last
    BY <1>2, <2>1, <2>2, LexemeIs
  <2>4. token = Lexemes[<<token.first, last>>]
    BY <2>3
  <2> HIDE DEF token
  <2>5. token.first \in first..last /\ token.last \in token.first..last
        /\ token.first = IF tokens = <<>> THEN first ELSE tokens[Len(tokens)].last + 1
    BY <1>2, <2>1, <2>3
  <2>6. Chain(Lexemes, Append(tokens, token), first, last)
    BY <1>2, <2>1, <2>2, <2>3, <2>4, <2>5, ChainGrows
  <2> QED BY <2>6 DEF token
<1>5. Chain(Lexemes, tokens, first, last)'
  BY <1>2, <1>3, <1>4 DEF Chain
<1>6. FragmentInv'
  <2>1. outer' = <<>> => first' = 1 /\ last' = Len(text')
    BY <1>2 DEF LexInv, FragmentInv
  <2>2. ASSUME outer' # <<>>
        PROVE  Chain(Lexemes', outer', 1, Len(text')) /\ \E i, j \in DOMAIN outer' : Follows(i, j)'
    <3>1. Chain(Lexemes, outer, 1, Len(text)) /\ \E i, j \in DOMAIN outer : Follows(i, j)
      BY <1>2, <2>2 DEF LexInv, FragmentInv
    <3>2. PICK i \in DOMAIN outer, j \in DOMAIN outer : Follows(i, j)
      BY <3>1
    <3>3. Follows(i, j)'
      BY <3>1, <3>2, LexTokenFollows
    <3> QED BY <3>1, <3>3, <1>2, <1>3
  <2>3. (\E i, j \in DOMAIN outer : Follows(i, j))' <=> \E i, j \in DOMAIN outer' : Follows(i, j)'
    OBVIOUS
  <2> QED BY <2>1, <2>2, <2>3 DEF FragmentInv, Chain
<1> QED BY <1>1, <1>5, <1>6 DEF LexInv

(* A fragment begins: nothing of it is lexed yet.                           *)
LEMMA LexFragmentKeeps == ASSUME LexInv, LexFragment PROVE LexInv'
<1>1. PICK i \in DOMAIN tokens, j \in DOMAIN tokens :
        i <= j /\ first' = tokens[i].first /\ last' = tokens[j].last /\ position' = tokens[i].first
  BY DEF LexFragment
<1>2. /\ outer' = tokens /\ tokens' = <<>> /\ diagnostics' = <<>> /\ text' = text
      /\ outer = <<>>
  BY DEF LexFragment
<1>3. /\ text \in Seq(Chars) /\ tokens \in Seq(Tokens) /\ first = 1 /\ last = Len(text)
      /\ Chain(Lexemes, tokens, 1, Len(text))
  BY <1>2 DEF LexInv, TypeOK, FragmentInv
<1>4. /\ tokens[i].first \in 1..Len(text) /\ tokens[j].last \in 0..Len(text)
      /\ tokens[i].first <= tokens[j].last
  <2>1. /\ tokens[i].first \in 1..Len(text) /\ tokens[i].last \in tokens[i].first..Len(text)
        /\ tokens[j].first \in 1..Len(text) /\ tokens[j].last \in tokens[j].first..Len(text)
    BY <1>3 DEF Chain
  <2>2. tokens[i].last <= tokens[j].last
    BY <1>1, <1>3, ChainOrdered
  <2> QED BY <2>1, <2>2
<1>5. TypeOK'
  BY <1>1, <1>2, <1>3, <1>4 DEF TypeOK
<1>6. Lossless'
  <2>1. InvalidUpTo(0)' = {} /\ Cardinality({}) = 0
    BY FS_EmptySet DEF InvalidUpTo
  <2>2. Len(tokens') = 0 /\ Len(diagnostics') = 0 /\ DOMAIN tokens' = {}
    BY <1>2
  <2>3. InvalidUpTo(Len(tokens))' = {}
    BY <2>2 DEF InvalidUpTo
  <2> QED BY <1>1, <1>2, <2>1, <2>2, <2>3 DEF Lossless
<1>7. Lexemes' = Lexemes
  BY <1>2, LexemesStay
<1>8. Chain(Lexemes, tokens, first, last)'
  BY <1>2 DEF Chain
<1>9. FragmentInv'
  <2>1. outer' # <<>>
    BY <1>2, <1>1
  <2>2. Chain(Lexemes', outer', 1, Len(text'))
    BY <1>2, <1>3, <1>7
  <2>3. Follows(i, j)'
    <3>1. i \in Nat /\ j \in Nat
      BY <1>3
    <3>2. Len(tokens') = 0 /\ DOMAIN tokens' = {}
      BY <1>2
    <3> QED BY <1>1, <1>2, <3>1, <3>2 DEF Follows
  <2>4. \E a, b \in DOMAIN outer' : Follows(a, b)'
    BY <2>3, <1>2
  <2> QED BY <2>1, <2>2, <2>4 DEF FragmentInv, Chain
<1> QED BY <1>5, <1>6, <1>8, <1>9 DEF LexInv

LEMMA LexStutters == ASSUME LexInv, UNCHANGED vars PROVE LexInv'
<1>1. /\ text' = text /\ first' = first /\ last' = last /\ position' = position
      /\ tokens' = tokens /\ diagnostics' = diagnostics /\ outer' = outer
  BY DEF vars
<1>2. Lexemes' = Lexemes
  BY <1>1, LexemesStay
<1>3. TypeOK' <=> TypeOK
  BY <1>1 DEF TypeOK, IsError
<1>4. Lossless' <=> Lossless
  BY <1>1 DEF Lossless, InvalidUpTo, Clean, IsError
<1>5. FragmentInv' <=> FragmentInv
  BY <1>1, <1>2 DEF FragmentInv, Chain, Follows
<1>6. Chain(Lexemes, tokens, first, last)' <=> Chain(Lexemes, tokens, first, last)
  BY <1>1, <1>2 DEF Chain
<1> QED BY <1>3, <1>4, <1>5, <1>6 DEF LexInv

(* Every step of a lexer that is followed by the splitter is one of the     *)
(* lexer or leaves it alone.                                                *)
LEMMA SplitLexes == SplitNext => LexToken \/ LexFragment \/ UNCHANGED vars
  BY DEF SplitNext, Lex, LexAgain, LexedAgain, Finished, StartComment, StartQuote, Cut, Pass,
         InString, InBacktick, InLineComment, InBlockComment, Finish, Split

(* The tokens read so far are those of the text, one after the other, and   *)
(* those of a fragment are among those of the whole text (lex of            *)
(* src/lexer.rs).                                                           *)
THEOREM LexerInvariant == SplitSpec => []LexInv
<1>1. SplitInit => LexInv
  BY InitLexes DEF SplitInit
<1>2. LexInv /\ [SplitNext]_<<vars, splitVars>> => LexInv'
  <2> SUFFICES ASSUME LexInv, [SplitNext]_<<vars, splitVars>> PROVE LexInv'
    OBVIOUS
  <2>1. LexToken \/ LexFragment \/ UNCHANGED vars
    BY SplitLexes
  <2> QED BY <2>1, LexTokenKeeps, LexFragmentKeeps, LexStutters
<1> QED BY <1>1, <1>2, PTL DEF SplitSpec

(* The tokens tile the text, every invalid region is reported once and in   *)
(* order, and a fragment cut at token boundaries lexes to the tokens it had *)
(* in the whole text (lex of src/lexer.rs, and its use for nested patterns  *)
(* in src/parser.rs).                                                       *)
THEOREM TokensAreFaithful == SplitSpec => []LexesFaithfully
<1>1. ASSUME LexInv PROVE LexesFaithfully
  <2>1. TypeOK /\ Lossless
    BY <1>1 DEF LexInv
  <2>2. ASSUME Lexed, outer # <<>>
        PROVE  \E i, j \in DOMAIN outer :
                 outer[i].first = first /\ outer[j].last = last /\ tokens = SubSeq(outer, i, j)
    <3>1. PICK i \in DOMAIN outer, j \in DOMAIN outer : Follows(i, j)
      BY <1>1, <2>2 DEF LexInv, FragmentInv
    <3>2. Chain(Lexemes, outer, 1, Len(text))
      BY <1>1, <2>2 DEF LexInv, FragmentInv
    <3> DEFINE n == Len(tokens)
    <3>3. /\ tokens \in Seq(Tokens) /\ outer \in Seq(Tokens) /\ n \in Nat /\ DOMAIN tokens = 1..n
          /\ position > last /\ Len(text) \in Nat
      BY <1>1, <2>2 DEF LexInv, TypeOK, Lexed
    <3>4. /\ i <= j /\ outer[i].first = first /\ outer[j].last = last /\ n <= j - i + 1
          /\ \A k \in 1..n : tokens[k] = outer[i + k - 1]
      BY <3>1, <3>3 DEF Follows
    <3>5. position = IF n = 0 THEN first ELSE tokens[n].last + 1
      <4>1. n = 0 <=> tokens = <<>>
        BY <3>3
      <4> QED BY <1>1, <4>1 DEF LexInv, Lossless
    <3>6. i \in Nat \ {0} /\ j \in Nat /\ DOMAIN outer = 1..Len(outer) /\ Len(outer) \in Nat
          /\ j <= Len(outer)
      BY <3>3
    <3> HIDE DEF n
    <3>7. n # 0
      <4>1. outer[i].last <= outer[j].last <=> i <= j
        BY <3>2, <3>3, ChainOrdered
      <4>2. outer[i].first \in Nat /\ outer[i].last \in Nat /\ outer[i].first <= outer[i].last
        BY <3>2, <3>3, ChainOrdered
      <4>3. outer[j].last \in Nat
        BY <3>2, <3>3, ChainOrdered
      <4> QED BY <3>3, <3>4, <3>5, <4>1, <4>2, <4>3
    <3>8. n = j - i + 1
      <4> DEFINE m == i + n - 1
      <4>1. m \in DOMAIN outer /\ m <= j /\ n \in 1..n
        BY <3>3, <3>4, <3>6, <3>7
      <4>2. position = outer[m].last + 1
        BY <3>4, <3>5, <3>7, <4>1
      <4>3. outer[j].last <= outer[m].last <=> j <= m
        BY <3>2, <3>3, <4>1, ChainOrdered
      <4>4. outer[j].last \in Nat /\ outer[m].last \in Nat
        BY <3>2, <3>3, <4>1, ChainOrdered
      <4>5. j <= m
        <5> HIDE DEF m
        <5> QED BY <3>3, <3>4, <4>2, <4>3, <4>4, SMTT(30)
      <4> QED BY <3>3, <3>6, <4>1, <4>5
    <3>9. tokens = SubSeq(outer, i, j)
      <4>1. SubSeq(outer, i, j) = [k \in 1..(j - i + 1) |-> outer[i + k - 1]]
        BY <3>6
      <4>2. tokens = [k \in 1..n |-> tokens[k]]
        BY <3>3
      <4> QED BY <3>4, <3>8, <4>1, <4>2
    <3> QED BY <3>4, <3>9
  <2> QED BY <2>1, <2>2 DEF LexesFaithfully, FragmentsRelexAlike
<1> QED BY <1>1, LexerInvariant, PTL

-----------------------------------------------------------------------------
(* The decoder.                                                             *)

\* What DecoderAgrees says of a token from q on, in terms of what it says further on.
Agreement(later, delimiter, stop, q) ==
    \/ q > stop
    \/ /\ QuotedUnit(q, delimiter, last) = DecodedUnit(q, delimiter, stop)
       /\ later[DecodedUnit(q, delimiter, stop).next]
AgreementScan(token) ==
    CHOOSE f : f = [q \in 1..token.last |-> Agreement(f, token.kind, token.last - 1, q)]

(* Units of the two that agree are accepted ones.                           *)
LEMMA AgreedUnit ==
    ASSUME last \in Nat, NEW stop \in Nat, stop <= last, NEW q \in 1..stop, NEW delimiter,
           QuotedUnit(q, delimiter, last) = DecodedUnit(q, delimiter, stop)
    PROVE  DecodedUnit(q, delimiter, stop).next \in (q + 1)..(stop + 1)
<1>1. QuotedUnit(q, delimiter, last).kind \in
        {"Plain", "Doubled", "Close", "Cut", "Escape", "BadEscape"}
  <2>1. q \in 1..last
    OBVIOUS
  <2> QED BY <2>1, UnitIs
<1>2. DecodedUnit(q, delimiter, stop).kind \in {"Plain", "Doubled", "Fallback", "Escape", "Dropped"}
  BY DEF DecodedUnit, Unit
<1>3. DecodedUnit(q, delimiter, stop).kind \in {"Plain", "Doubled", "Escape"}
  BY <1>1, <1>2
<1> QED BY <1>3, DecodedInside

(* The comparison of decoder and lexer has a value everywhere.              *)
LEMMA AgreementUnfolds ==
    ASSUME NEW token \in Tokens, token.last \in 1..last, last \in Nat, NEW q \in 1..token.last
    PROVE  AgreementScan(token)[q]
             <=> Agreement(AgreementScan(token), token.kind, token.last - 1, q)
<1> DEFINE n == token.last
           d == token.kind
           V == BOOLEAN
           G == [i \in 1..n |-> [h \in [(i + 1)..n -> V] |-> Agreement(h, d, n - 1, i)]]
<1>0. n \in Nat /\ n - 1 \in Nat /\ n - 1 <= last
  OBVIOUS
<1>1. LooksAhead(n, V, G)
  <2> SUFFICES ASSUME NEW i \in 1..n, NEW h \in [(i + 1)..n -> V]
               PROVE  Agreement(h, d, n - 1, i) \in V
    BY DEF LooksAhead
  <2> QED BY DEF Agreement
<1>2. PICK f \in [1..n -> V] : Solves(n, V, G, f)
  <2> HIDE DEF V, G, n
  <2> QED BY <1>0, <1>1, LookAhead
<1>3. ASSUME NEW i \in 1..n PROVE f[i] = Agreement(f, d, n - 1, i)
  <2>1. PICK h \in [(i + 1)..n -> V] :
          f[i] = G[i][h] /\ \A j \in (i + 1)..n : h[j] = f[j]
    <3> HIDE DEF V, G
    <3> QED BY <1>2 DEF Solves
  <2>2. G[i][h] = Agreement(h, d, n - 1, i)
    OBVIOUS
  <2>3. Agreement(h, d, n - 1, i) = Agreement(f, d, n - 1, i)
    <3>1. CASE i > n - 1
      BY <3>1 DEF Agreement
    <3>2. CASE ~(i > n - 1) /\ QuotedUnit(i, d, last) # DecodedUnit(i, d, n - 1)
      BY <3>2 DEF Agreement
    <3>3. CASE ~(i > n - 1) /\ QuotedUnit(i, d, last) = DecodedUnit(i, d, n - 1)
      <4>1. i \in 1..(n - 1) /\ (n - 1) + 1 = n
        BY <3>3, <1>0
      <4>2. DecodedUnit(i, d, n - 1).next \in (i + 1)..((n - 1) + 1)
        <5> HIDE DEF d, n
        <5> QED BY <3>3, <4>1, <1>0, AgreedUnit
      <4>3. h[DecodedUnit(i, d, n - 1).next] = f[DecodedUnit(i, d, n - 1).next]
        <5> HIDE DEF d, n
        <5> QED BY <2>1, <4>1, <4>2
      <4> HIDE DEF d, n
      <4> QED BY <4>3 DEF Agreement
    <3> QED BY <3>1, <3>2, <3>3
  <2> HIDE DEF V, G, n, d
  <2> QED BY <2>1, <2>2, <2>3
<1>4. f = [i \in 1..n |-> Agreement(f, d, n - 1, i)]
  <2> HIDE DEF V, G
  <2> QED BY <1>3
<1> DEFINE F == AgreementScan(token)
<1>5. F = [i \in 1..n |-> Agreement(F, d, n - 1, i)]
  <2> HIDE DEF V, G
  <2> QED BY <1>4 DEF AgreementScan
<1>6. F[q] = Agreement(F, d, n - 1, q)
  <2> HIDE DEF F, V, G
  <2> QED BY <1>5
<1> QED BY <1>6

(* An accepted quoted token comes from the scan of quoted tokens.           *)
LEMMA AcceptedIsQuoted ==
    ASSUME text \in Seq(Chars), last \in 0..Len(text), NEW p \in 1..last,
           Lexemes[<<p, last>>].kind \in Delimiters
    PROVE  /\ text[p] = Lexemes[<<p, last>>].kind
           /\ QuotedScan(p, last)[p + 1] = Lexemes[<<p, last>>]
<1>0. last \in Nat /\ p \in 1..last
  OBVIOUS
<1>1. Lexemes[<<p, last>>] = Clean(NextToken(p, last)) /\ NextToken(p, last) \in Tokens
  BY LexemeIs, NextTokenTyped
<1>2. Lexemes[<<p, last>>] = NextToken(p, last)
  <2>1. "Invalid" \notin Delimiters
    BY DEF Delimiters
  <2> QED BY <1>1, <2>1, Cleaned
<1>3. text[p] \in Delimiters
  <2> SUFFICES ASSUME text[p] \notin Delimiters PROVE NextToken(p, last).kind \notin Delimiters
    BY <1>2
  <2>1. CASE At(p, last, <<"Slash", "Star">>)
    <3>1. p + 2 \in 1..(last + 1) /\ 1 \in Depths
      BY <2>1 DEF At, Depths
    <3>2. CommentScan(p, last)[p + 2][1] \in CommentTokens(p, last)
      BY <1>0, <3>1, CommentUnfolds
    <3>3. NextToken(p, last) = BlockComment(p, last)
      BY <2>1, NextTokenIs
    <3>4. BlockComment(p, last) = CommentScan(p, last)[p + 2][1]
      BY <1>0, CommentUnfolds
    <3> QED BY <3>2, <3>3, <3>4 DEF CommentTokens, Delimiters
  <2>2. CASE ~At(p, last, <<"Slash", "Star">>)
    <3>1. NextToken(p, last) = PlainToken(p, last)
      BY <2>2, NextTokenIs
    <3>2. PlainToken(p, last).kind \in {"LineComment", "Whitespace", "Word", "Invalid", text[p]}
      BY DEF PlainToken, Token
    <3> QED BY <3>1, <3>2 DEF Delimiters
  <2> QED BY <2>1, <2>2
<1>4. NextToken(p, last) = QuotedScan(p, last)[p + 1]
  BY <1>0, <1>3, NextTokenIs, QuotedUnfolds
<1>5. QuotedScan(p, last)[p + 1] \in QuotedTokens(p, last)
  <2>1. p + 1 \in 1..(last + 1)
    OBVIOUS
  <2> QED BY <1>0, <1>3, <2>1, QuotedUnfolds
<1>6. NextToken(p, last).kind = text[p]
  BY <1>2, <1>4, <1>5 DEF QuotedTokens, QuotedKinds, Delimiters
<1> QED BY <1>2, <1>4, <1>6

(* From wherever the scan of an accepted token comes by, the decoder reads  *)
(* what the lexer read.                                                     *)
LEMMA AcceptedIsDecoded ==
    ASSUME text \in Seq(Chars), last \in 0..Len(text), NEW p \in 1..last,
           Lexemes[<<p, last>>].kind \in Delimiters
    PROVE  AgreementScan(Lexemes[<<p, last>>])[p + 1]
<1> DEFINE token == Lexemes[<<p, last>>]
           F == QuotedScan(p, last)
           A == AgreementScan(token)
           e == token.last
           d == token.kind
<1>1. text[p] = d /\ F[p + 1] = token /\ d \in Delimiters
  BY AcceptedIsQuoted
<1>2. token \in Tokens /\ e \in p..last /\ last \in Nat
  BY LexemeIs
<1>3. e \in 1..last /\ e \in Nat /\ e - 1 \in Nat /\ e - 1 <= last /\ (e - 1) + 1 = e
  <2> HIDE DEF token
  <2> QED BY <1>2
<1>4. p + 1 <= e
  <2>1. p + 1 \in 1..(last + 1)
    OBVIOUS
  <2>2. IF F[p + 1].kind = "Unterminated" THEN F[p + 1].last = last ELSE F[p + 1].last \in (p + 1)..last
    BY <1>1, <1>2, <2>1, QuotedReach
  <2>3. F[p + 1].kind # "Unterminated"
    BY <1>1 DEF Delimiters
  <2> HIDE DEF token, F
  <2> QED BY <1>1, <2>2, <2>3
<1> DEFINE P == {q \in 1..e : F[q] = token => A[q]}
<1>5. ASSUME NEW q \in 1..e, \A j \in (q + 1)..e : j \in P
      PROVE  q \in P
  <2> SUFFICES ASSUME F[q] = token PROVE A[q]
    OBVIOUS
  <2>1. A[q] <=> Agreement(A, d, e - 1, q)
    <3> HIDE DEF token
    <3> QED BY <1>2, <1>3, AgreementUnfolds
  <2>2. CASE q > e - 1
    <3> HIDE DEF A, d, e
    <3> QED BY <2>1, <2>2 DEF Agreement
  <2>3. CASE ~(q > e - 1)
    <3> DEFINE unit == QuotedUnit(q, d, last)
    <3>1. q \in 1..(e - 1) /\ q \in 1..last /\ q < e
      <4> HIDE DEF e
      <4> QED BY <2>3, <1>3
    <3>2. unit.kind \in {"Plain", "Doubled", "Escape"} /\ unit.next \in (q + 1)..(last + 1)
          /\ F[unit.next] = F[q] /\ unit.next <= F[q].last
      <4>1. F[q].kind \in Delimiters /\ q < F[q].last
        BY <1>1, <3>1
      <4> QED BY <1>1, <1>2, <3>1, <4>1, AcceptedUnit
    <3>3. DecodedUnit(q, d, e - 1) = unit
      <4>1. unit.next <= (e - 1) + 1
        <5> HIDE DEF unit, d
        <5> QED BY <3>2, <1>3
      <4> HIDE DEF e, token, F
      <4> QED BY <1>1, <1>2, <1>3, <3>1, <3>2, <4>1, DecodedAsLexed
    <3>4. unit.next \in (q + 1)..e
      <4>1. unit.next <= e
        BY <3>2
      <4> HIDE DEF unit, e
      <4> QED BY <3>2, <4>1, <1>3
    <3>5. A[unit.next]
      <4>1. unit.next \in P
        BY <3>4, <1>5
      <4>2. F[unit.next] = token
        BY <3>2
      <4> HIDE DEF A, F, token, unit
      <4> QED BY <4>1, <4>2
    <3> HIDE DEF A, d, e
    <3> QED BY <2>1, <3>3, <3>5 DEF Agreement
  <2> QED BY <2>2, <2>3
<1>6. \A q \in 1..e : q \in P
  <2> HIDE DEF P, e
  <2> QED BY <1>3, <1>5, Backwards
<1>7. p + 1 \in 1..e
  <2> HIDE DEF e
  <2> QED BY <1>3, <1>4
<1>8. p + 1 \in P
  <2> HIDE DEF P
  <2> QED BY <1>6, <1>7
<1> HIDE DEF A, F, token
<1> QED BY <1>1, <1>8 DEF A, token

(* The decoder reads every accepted literal unit by unit as the lexer did,  *)
(* and none of its fallbacks for bad escapes is ever taken                  *)
(* (decode_delimited of src/parser.rs against consume_quoted).              *)
THEOREM DecoderFollowsLexer == SplitSpec => []DecoderAgrees
<1>1. ASSUME LexInv PROVE DecoderAgrees
  <2> SUFFICES ASSUME NEW k \in DOMAIN tokens, tokens[k].kind \in Delimiters
               PROVE  AgreementScan(tokens[k])[tokens[k].first + 1]
    BY DEF DecoderAgrees, AgreementScan, Agreement
  <2>1. /\ text \in Seq(Chars) /\ last \in 0..Len(text) /\ first \in 1..(last + 1)
        /\ Chain(Lexemes, tokens, first, last)
    BY <1>1 DEF LexInv, TypeOK
  <2>2. tokens[k].first \in first..last /\ tokens[k] = Lexemes[<<tokens[k].first, last>>]
    BY <2>1 DEF Chain
  <2>3. tokens[k].first \in 1..last
    BY <2>1, <2>2
  <2> QED BY <2>1, <2>2, <2>3, AcceptedIsDecoded
<1> QED BY <1>1, LexerInvariant, PTL

-----------------------------------------------------------------------------
(* Statements of a script.                                                  *)

\* What the scanners return before invalid tokens lose their reason.
Raws == [range \in (1..Len(text)) \X (0..Len(text)) |-> NextToken(range[1], range[2])]

Raw(p) == Raws[<<p, Len(text)>>]

LEMMA RawsStay == ASSUME text' = text PROVE Raws' = Raws
<1>1. text' = text
  OBVIOUS
<1> QED BY <1>1 DEF Raws, NextToken, Quoted, BlockComment, RunOf, At, QuotedUnit, EscapeAt,
     HexRun, IsScalar, Max, CommentPair

\* The diagnostics are the invalid tokens, with the reason.
Reported ==
    /\ \A k \in DOMAIN diagnostics : \E j \in DOMAIN tokens :
        diagnostics[k] = Raws[<<tokens[j].first, last>>]
    /\ \A j \in DOMAIN tokens : IsError(Raws[<<tokens[j].first, last>>]) =>
        \E k \in DOMAIN diagnostics : diagnostics[k] = Raws[<<tokens[j].first, last>>]

Starts == {tokens[k].first : k \in DOMAIN tokens}

\* A text that is lexed, as what the scanners see from the starts of its tokens.
Tiled ==
    /\ text \in Seq(Chars)
    /\ IF text = <<>> THEN Starts = {} ELSE 1 \in Starts
    /\ \A p \in Starts :
        /\ p \in 1..Len(text) /\ Raw(p) = NextToken(p, Len(text))
        /\ Raw(p) \in Tokens /\ Raw(p).first = p /\ Raw(p).last \in p..Len(text)
        /\ Raw(p).last = Len(text) \/ Raw(p).last + 1 \in Starts
    /\ \A p, q \in Starts : p < q => Raw(p).last < q
    /\ SemicolonTokens = {p \in Starts : Raw(p).kind = "Semicolon"}

Tells ==
    /\ (\E k \in DOMAIN diagnostics : diagnostics[k].kind = "Unterminated")
         <=> \E p \in Starts : Raw(p).kind = "Unterminated"
    /\ diagnostics = <<>> => \A p \in Starts : ~IsError(Raw(p))
    /\ NamesUnescaped => \A p \in Starts : text[p] = "Tick" =>
                            \A x \in p..Raw(p).last : text[x] # "Backslash"

(* Once it is lexed, a whole text is tiled by its tokens.                   *)
LEMMA LexedIsTiled ==
    ASSUME LexInv, Lexed, outer = <<>>
    PROVE  /\ Tiled
           /\ \A k \in DOMAIN tokens : /\ Raw(tokens[k].first) \in Tokens
                                       /\ tokens[k] = Clean(Raw(tokens[k].first))
                                       /\ tokens[k].last = Raw(tokens[k].first).last
<1> DEFINE n == Len(text)
           m == Len(tokens)
<1>1. /\ text \in Seq(Chars) /\ tokens \in Seq(Tokens) /\ n \in Nat /\ m \in Nat
      /\ DOMAIN tokens = 1..m /\ first = 1 /\ last = n /\ position > n
      /\ Chain(Lexemes, tokens, 1, n)
  BY DEF LexInv, TypeOK, FragmentInv, Lexed
<1>2. /\ \A k \in 1..m : tokens[k].first = IF k = 1 THEN 1 ELSE tokens[k - 1].last + 1
      /\ position = IF tokens = <<>> THEN 1 ELSE tokens[m].last + 1
  BY <1>1 DEF LexInv, Lossless
<1>3. ASSUME NEW p \in 1..n
      PROVE  /\ Raw(p) = NextToken(p, n) /\ Raw(p) \in Tokens /\ Raw(p).first = p
             /\ Raw(p).last \in p..n
             /\ Lexemes[<<p, n>>] = Clean(Raw(p)) /\ Lexemes[<<p, n>>].last = Raw(p).last
  <2>1. n \in 0..n /\ <<p, n>> \in (1..n) \X (0..n)
    BY <1>1
  <2>2. Raw(p) = NextToken(p, n)
    BY <2>1 DEF Raw, Raws
  <2>3. NextToken(p, n) \in Tokens /\ NextToken(p, n).first = p /\ NextToken(p, n).last \in p..n
    BY <1>1, <2>1, NextTokenTyped
  <2>4. /\ Lexemes[<<p, n>>] = Clean(NextToken(p, n))
        /\ Lexemes[<<p, n>>].last = NextToken(p, n).last
    BY <1>1, <2>1, LexemeIs
  <2> QED BY <2>2, <2>3, <2>4
<1>4. /\ \A k \in 1..m : tokens[k].first \in 1..n /\ tokens[k] = Lexemes[<<tokens[k].first, n>>]
      /\ \A j, k \in 1..m : j < k => tokens[j].last < tokens[k].first
  BY <1>1 DEF Chain
<1> HIDE DEF n, m
<1>5. \A k \in 1..m : /\ Raw(tokens[k].first) \in Tokens
                      /\ tokens[k] = Clean(Raw(tokens[k].first))
                      /\ tokens[k].last = Raw(tokens[k].first).last
  BY <1>3, <1>4
<1>6. Starts = {tokens[k].first : k \in 1..m}
  BY <1>1 DEF Starts
<1>7. \A p \in Starts : p \in 1..n
  BY <1>4, <1>6
<1>8. ASSUME NEW p \in Starts, Raw(p).last # n PROVE Raw(p).last + 1 \in Starts
  <2>1. PICK k \in 1..m : p = tokens[k].first
    BY <1>6
  <2>2. tokens[k].last = Raw(p).last
    BY <1>5, <2>1
  <2>3. k # m
    <3> SUFFICES ASSUME k = m PROVE FALSE
      OBVIOUS
    <3>1. tokens # <<>>
      BY <2>1, <1>1 DEF m
    <3>2. tokens[m].last + 1 > n
      BY <3>1, <1>1, <1>2
    <3>3. Raw(p).last \in p..n /\ p \in 1..n
      BY <1>3, <1>7
    <3> QED BY <3>2, <3>3, <1>8, <2>2, <1>1
  <2>4. k + 1 \in 1..m /\ k + 1 # 1 /\ (k + 1) - 1 = k
    BY <2>1, <2>3, <1>1
  <2>5. tokens[k + 1].first = tokens[k].last + 1
    BY <1>2, <2>4
  <2> QED BY <1>6, <2>2, <2>4, <2>5
<1>9. \A p, q \in Starts : p < q => Raw(p).last < q
  <2> SUFFICES ASSUME NEW p \in Starts, NEW q \in Starts, p < q PROVE Raw(p).last < q
    OBVIOUS
  <2>1. PICK j \in 1..m : p = tokens[j].first
    BY <1>6
  <2>2. PICK k \in 1..m : q = tokens[k].first
    BY <1>6
  <2>3. tokens[j].last = Raw(p).last /\ tokens[k].last = Raw(q).last
    BY <1>5, <2>1, <2>2
  <2>4. p \in 1..n /\ q \in 1..n /\ Raw(q).last \in q..n
    BY <1>3, <1>7
  <2>5. ~(k < j) /\ k # j
    BY <1>4, <2>1, <2>2, <2>3, <2>4
  <2>6. j < k
    BY <2>5, <2>1, <2>2, <1>1
  <2> QED BY <1>4, <2>2, <2>3, <2>6
<1>10. IF text = <<>> THEN Starts = {} ELSE 1 \in Starts
  <2>1. CASE text = <<>>
    BY <2>1, <1>7, <1>1 DEF n
  <2>2. CASE text # <<>>
    <3>1. n > 0
      BY <2>2, <1>1 DEF n
    <3>2. m # 0
      BY <3>1, <1>1, <1>2 DEF m
    <3>3. 1 \in 1..m /\ tokens[1].first = 1
      BY <3>2, <1>1, <1>2
    <3> QED BY <3>3, <1>6, <2>2
  <2> QED BY <2>1, <2>2
<1>11. SemicolonTokens = {p \in Starts : Raw(p).kind = "Semicolon"}
  <2>1. \A token \in Tokens : Clean(token).kind = "Semicolon" <=> token.kind = "Semicolon"
    BY DEF Clean, IsError, Tokens
  <2>2. \A k \in 1..m : tokens[k].kind = "Semicolon" <=> Raw(tokens[k].first).kind = "Semicolon"
    BY <1>5, <2>1
  <2> QED BY <1>1, <1>6, <2>2 DEF SemicolonTokens
<1>12. Tiled
  <2>1. \A p \in Starts :
          /\ p \in 1..n /\ Raw(p) = NextToken(p, n)
          /\ Raw(p) \in Tokens /\ Raw(p).first = p /\ Raw(p).last \in p..n
    BY <1>3, <1>7
  <2> QED BY <1>1, <1>8, <1>9, <1>10, <1>11, <2>1 DEF Tiled, n
<1> QED BY <1>1, <1>5, <1>12

(* What is reported is what is wrong with the tokens.                       *)
LEMMA ReportsTell ==
    ASSUME LexInv, Lexed, outer = <<>>, Reported
    PROVE  Tells
<1> DEFINE n == Len(text)
<1>1. /\ first = 1 /\ last = n /\ \A k \in DOMAIN tokens : tokens[k].last = Raw(tokens[k].first).last
  BY LexedIsTiled DEF LexInv, FragmentInv
<1>2. \A k \in DOMAIN tokens : Raws[<<tokens[k].first, last>>] = Raw(tokens[k].first)
  BY <1>1 DEF Raw
<1>3. \A k \in DOMAIN tokens : Raw(tokens[k].first).kind = "Unterminated" => IsError(Raw(tokens[k].first))
  BY DEF IsError
<1> HIDE DEF n
<1>4. /\ \A k \in DOMAIN diagnostics : \E p \in Starts : diagnostics[k] = Raw(p)
      /\ \A p \in Starts : IsError(Raw(p)) => \E k \in DOMAIN diagnostics : diagnostics[k] = Raw(p)
      /\ \A p \in Starts : Raw(p).kind = "Unterminated" => IsError(Raw(p))
  <2>1. ASSUME NEW k \in DOMAIN diagnostics PROVE \E p \in Starts : diagnostics[k] = Raw(p)
    <3>1. PICK j \in DOMAIN tokens : diagnostics[k] = Raws[<<tokens[j].first, last>>]
      BY DEF Reported
    <3> QED BY <3>1, <1>2 DEF Starts
  <2>2. ASSUME NEW p \in Starts, IsError(Raw(p))
        PROVE  \E k \in DOMAIN diagnostics : diagnostics[k] = Raw(p)
    <3>1. PICK j \in DOMAIN tokens : p = tokens[j].first
      BY DEF Starts
    <3>2. IsError(Raws[<<tokens[j].first, last>>])
      BY <2>2, <3>1, <1>2
    <3> QED BY <3>1, <3>2, <1>2 DEF Reported
  <2>3. \A p \in Starts : Raw(p).kind = "Unterminated" => IsError(Raw(p))
    BY <1>3 DEF Starts
  <2> QED BY <2>1, <2>2, <2>3
<1>5. /\ (\E k \in DOMAIN diagnostics : diagnostics[k].kind = "Unterminated")
           <=> \E p \in Starts : Raw(p).kind = "Unterminated"
      /\ diagnostics = <<>> => \A p \in Starts : ~IsError(Raw(p))
  <2>1. diagnostics = <<>> => DOMAIN diagnostics = {}
    OBVIOUS
  <2>2. (\E k \in DOMAIN diagnostics : diagnostics[k].kind = "Unterminated")
           <=> \E p \in Starts : Raw(p).kind = "Unterminated"
    <3>1. ASSUME NEW k \in DOMAIN diagnostics, diagnostics[k].kind = "Unterminated"
          PROVE  \E p \in Starts : Raw(p).kind = "Unterminated"
      BY <3>1, <1>4
    <3>2. ASSUME NEW p \in Starts, Raw(p).kind = "Unterminated"
          PROVE  \E k \in DOMAIN diagnostics : diagnostics[k].kind = "Unterminated"
      BY <3>2, <1>4
    <3> QED BY <3>1, <3>2
  <2> QED BY <2>1, <2>2, <1>4
<1>6. NamesUnescaped => \A p \in Starts : text[p] = "Tick" =>
                            \A x \in p..Raw(p).last : text[x] # "Backslash"
  <2> SUFFICES ASSUME NamesUnescaped, NEW k \in DOMAIN tokens, text[tokens[k].first] = "Tick"
               PROVE  \A x \in tokens[k].first..Raw(tokens[k].first).last : text[x] # "Backslash"
    BY DEF Starts
  <2> QED BY <1>1 DEF NamesUnescaped
<1> QED BY <1>5, <1>6 DEF Tells

-----------------------------------------------------------------------------
(* What the tokens look like to the splitter.                               *)

\* What is known of a token that is not scanned by hand.
PlainFacts(p, token) ==
    /\ token.kind \notin {"Unterminated", "BlockComment"} \cup Delimiters
    /\ token.kind = "Semicolon" <=> text[p] = "Semicolon"
    /\ token.kind = "LineComment" <=> At(p, Len(text), <<"Slash", "Slash">>)
    /\ token.kind = "LineComment" =>
        /\ token.last >= p + 1 /\ \A x \in (p + 1)..token.last : text[x] # "Newline"
        /\ token.last = Len(text) \/ text[token.last + 1] = "Newline"
    /\ token.kind = "Whitespace" => \A x \in p..token.last : text[x] \in Spaces
    /\ token.kind = "Word" => \A x \in p..token.last : text[x] \in Letters
    /\ text[p] \in Spaces => token.kind = "Whitespace"
    /\ token.kind \notin {"LineComment", "Whitespace", "Word"} => token.last = p

(* A run of spaces or letters is one, and a line comment ends with its line.*)
LEMMA PlainIs ==
    ASSUME text \in Seq(Chars), NEW p \in 1..Len(text), text[p] \notin Delimiters,
           ~At(p, Len(text), <<"Slash", "Star">>)
    PROVE  PlainFacts(p, NextToken(p, Len(text)))
<1> DEFINE n == Len(text)
           token == NextToken(p, n)
<1>0. n \in Nat /\ p \in 1..n /\ p \in Nat /\ text[p] \in Chars
  OBVIOUS
<1>1. token = PlainToken(p, n)
  BY NextTokenIs
<1>2. At(p, n, <<"Slash", "Slash">>) => text[p] = "Slash" /\ text[p + 1] = "Slash" /\ p + 1 <= n
  BY DEF At
<1> SUFFICES PlainFacts(p, token)
  OBVIOUS
<1> HIDE DEF token
<1>3. CASE At(p, n, <<"Slash", "Slash">>)
  <2> DEFINE m == RunOf(p, n, Chars \ {"Newline"})
  <2>1. token = Token("LineComment", p, m)
    BY <1>1, <1>3 DEF PlainToken
  <2>2. /\ m \in p..n /\ \A k \in (p + 1)..m : text[k] \in Chars \ {"Newline"}
        /\ \A q \in p..n : (\A k \in (p + 1)..q : text[k] \in Chars \ {"Newline"}) => q <= m
    BY <1>0, RunIs
  <2> HIDE DEF m
  <2>3. token.kind = "LineComment" /\ token.last = m
    BY <2>1 DEF Token
  <2>4. m >= p + 1
    <3>1. p + 1 \in p..n /\ \A k \in (p + 1)..(p + 1) : text[k] \in Chars \ {"Newline"}
      BY <1>0, <1>2, <1>3 DEF Chars
    <3> QED BY <2>2, <3>1
  <2>5. m = n \/ text[m + 1] = "Newline"
    <3> SUFFICES ASSUME m # n, text[m + 1] # "Newline" PROVE FALSE
      OBVIOUS
    <3>1. m + 1 \in p..n /\ m + 1 \in 1..n
      BY <1>0, <2>2
    <3>2. text[m + 1] \in Chars \ {"Newline"}
      BY <3>1
    <3>3. \A k \in (p + 1)..(m + 1) : text[k] \in Chars \ {"Newline"}
      BY <2>2, <3>2
    <3> QED BY <2>2, <3>1, <3>3
  <2>6. text[p] \notin Spaces
    BY <1>2, <1>3 DEF Spaces
  <2>7. token.kind \notin {"Unterminated", "BlockComment", "Semicolon", "Whitespace", "Word"} \cup Delimiters
    BY <2>3 DEF Delimiters
  <2>8. text[p] # "Semicolon"
    BY <1>2, <1>3
  <2>9. \A x \in (p + 1)..m : text[x] # "Newline"
    BY <2>2
  <2> QED BY <1>3, <2>3, <2>4, <2>5, <2>6, <2>7, <2>8, <2>9 DEF PlainFacts, n
<1>4. CASE ~At(p, n, <<"Slash", "Slash">>) /\ text[p] \in Spaces
  <2> DEFINE m == RunOf(p, n, Spaces)
  <2>1. token = Token("Whitespace", p, m)
    BY <1>1, <1>4 DEF PlainToken
  <2>2. m \in p..n /\ \A k \in (p + 1)..m : text[k] \in Spaces
    BY <1>0, RunIs
  <2> HIDE DEF m
  <2>3. token.kind = "Whitespace" /\ token.last = m
    BY <2>1 DEF Token
  <2>4. \A x \in p..m : text[x] \in Spaces
    BY <1>4, <2>2
  <2>5. text[p] # "Semicolon" /\ token.kind \notin Delimiters
    BY <1>4, <2>3 DEF Spaces, Delimiters
  <2> QED BY <1>4, <2>3, <2>4, <2>5 DEF PlainFacts, n
<1>5. CASE ~At(p, n, <<"Slash", "Slash">>) /\ text[p] \notin Spaces /\ text[p] \in Letters
  <2> DEFINE m == RunOf(p, n, Letters)
  <2>1. token = Token("Word", p, m)
    BY <1>1, <1>5 DEF PlainToken
  <2>2. m \in p..n /\ \A k \in (p + 1)..m : text[k] \in Letters
    BY <1>0, RunIs
  <2> HIDE DEF m
  <2>3. token.kind = "Word" /\ token.last = m
    BY <2>1 DEF Token
  <2>4. \A x \in p..m : text[x] \in Letters
    BY <1>5, <2>2
  <2>5. text[p] # "Semicolon" /\ token.kind \notin Delimiters
    BY <1>5, <2>3 DEF Letters, HexDigits, Delimiters
  <2> QED BY <1>5, <2>3, <2>4, <2>5 DEF PlainFacts, n
<1>6. CASE ~At(p, n, <<"Slash", "Slash">>) /\ text[p] \notin Spaces /\ text[p] \notin Letters
  <2>1. /\ token.last = p
        /\ token.kind = IF text[p] \in {"Other", "Backslash"} THEN "Invalid" ELSE text[p]
    BY <1>1, <1>6 DEF PlainToken, Token
  <2>2. text[p] \in {"Backslash", "Slash", "Star", "Semicolon", "Other"}
    BY <1>0, <1>6 DEF Chars
  <2>3. token.kind \notin {"Unterminated", "BlockComment", "LineComment", "Whitespace", "Word"} \cup Delimiters
    BY <2>1, <2>2 DEF Delimiters
  <2>4. token.kind = "Semicolon" <=> text[p] = "Semicolon"
    BY <2>1, <2>2
  <2> QED BY <1>6, <2>1, <2>3, <2>4 DEF PlainFacts, n
<1> QED BY <1>3, <1>4, <1>5, <1>6

\* What a token tells by its first character.
LEMMA TokenFacts ==
    ASSUME Tiled, NEW p \in Starts
    PROVE  /\ text[p] \in Delimiters => Raw(p) = QuotedScan(p, Len(text))[p + 1]
           /\ text[p] \notin Delimiters /\ At(p, Len(text), <<"Slash", "Star">>) =>
                Raw(p) = CommentScan(p, Len(text))[p + 2][1]
           /\ text[p] \notin Delimiters /\ ~At(p, Len(text), <<"Slash", "Star">>) =>
                PlainFacts(p, Raw(p))
           /\ Raw(p).kind = "Semicolon" => text[p] = "Semicolon" /\ Raw(p).last = p
           /\ text[p] = "Semicolon" => Raw(p).kind = "Semicolon"
           /\ Raw(p).kind \in {"Word", "Whitespace", "LineComment"} => PlainFacts(p, Raw(p))
<1> DEFINE n == Len(text)
<1>1. /\ text \in Seq(Chars) /\ p \in 1..n /\ Raw(p) = NextToken(p, n) /\ n \in Nat
  BY DEF Tiled
<1>2. text[p] \in Delimiters => Raw(p) = QuotedScan(p, n)[p + 1] /\ Raw(p).kind \in QuotedKinds(p)
  <2> SUFFICES ASSUME text[p] \in Delimiters
               PROVE  Raw(p) = QuotedScan(p, n)[p + 1] /\ Raw(p).kind \in QuotedKinds(p)
    OBVIOUS
  <2>1. Raw(p) = Quoted(p, n)
    BY <1>1, NextTokenIs
  <2>2. p + 1 \in 1..(n + 1)
    BY <1>1
  <2>3. Quoted(p, n) = QuotedScan(p, n)[p + 1] /\ QuotedScan(p, n)[p + 1] \in QuotedTokens(p, n)
    BY <1>1, <2>2, QuotedUnfolds
  <2> QED BY <2>1, <2>3 DEF QuotedTokens
<1>3. text[p] \notin Delimiters /\ At(p, n, <<"Slash", "Star">>) =>
        Raw(p) = CommentScan(p, n)[p + 2][1] /\ Raw(p).kind \in {"BlockComment", "Unterminated"}
  <2> SUFFICES ASSUME text[p] \notin Delimiters, At(p, n, <<"Slash", "Star">>)
               PROVE  Raw(p) = CommentScan(p, n)[p + 2][1] /\ Raw(p).kind \in {"BlockComment", "Unterminated"}
    OBVIOUS
  <2>1. Raw(p) = BlockComment(p, n)
    BY <1>1, NextTokenIs
  <2>2. p + 2 \in 1..(n + 1) /\ 1 \in Depths
    BY <1>1 DEF At, Depths
  <2>3. BlockComment(p, n) = CommentScan(p, n)[p + 2][1] /\ CommentScan(p, n)[p + 2][1] \in CommentTokens(p, n)
    BY <1>1, <2>2, CommentUnfolds
  <2> QED BY <2>1, <2>3 DEF CommentTokens
<1>4. text[p] \notin Delimiters /\ ~At(p, n, <<"Slash", "Star">>) => PlainFacts(p, Raw(p))
  BY <1>1, PlainIs
<1>5. text[p] = "Semicolon" => text[p] \notin Delimiters /\ ~At(p, n, <<"Slash", "Star">>)
  BY DEF Delimiters, At
<1>6. Raw(p).kind \in {"Semicolon", "Word", "Whitespace", "LineComment"} =>
        text[p] \notin Delimiters /\ ~At(p, n, <<"Slash", "Star">>)
  BY <1>2, <1>3 DEF QuotedKinds, Delimiters
<1>7. PlainFacts(p, Raw(p)) =>
        /\ Raw(p).kind = "Semicolon" => text[p] = "Semicolon" /\ Raw(p).last = p
        /\ text[p] = "Semicolon" => Raw(p).kind = "Semicolon"
  BY DEF PlainFacts
<1> QED BY <1>2, <1>3, <1>4, <1>5, <1>6, <1>7

(* No statement is cut inside a token, whatever it consists of.             *)
LEMMA NoCutInside ==
    ASSUME Tiled, NEW p \in Starts, Raw(p).kind # "Semicolon", NEW x \in p..Raw(p).last
    PROVE  x \notin SemicolonTokens
<1> SUFFICES ASSUME x \in SemicolonTokens PROVE FALSE
  OBVIOUS
<1>1. x \in Starts /\ Raw(x).kind = "Semicolon" /\ p \in 1..Len(text) /\ Raw(p).last \in p..Len(text)
  BY DEF Tiled
<1>2. x # p
  BY <1>1
<1>3. p < x
  BY <1>1, <1>2
<1>4. Raw(p).last < x
  BY <1>1, <1>3 DEF Tiled
<1> QED BY <1>1, <1>4

\* Two views of a quoted token: where it ends, and whether and how it does.
Alike(seen, token, delimiter) ==
    /\ seen.last = token.last
    /\ seen.kind = "Unterminated" <=> token.kind = "Unterminated"
    /\ token.kind = delimiter => seen = token

(* A unit that does not close the token leaves its end where it was.        *)
LEMMA UnitKeepsEnd ==
    ASSUME NEW to \in Nat, NEW p \in 1..to, text[p] \in Delimiters, NEW q \in 1..to,
           QuotedUnit(q, text[p], to).kind # "Close"
    PROVE  LET unit == QuotedUnit(q, text[p], to)
           IN  /\ Alike(QuotedScan(p, to)[unit.next], QuotedScan(p, to)[q], text[p])
               /\ unit.kind = "BadEscape" => QuotedScan(p, to)[q].kind # text[p]
<1> DEFINE F == QuotedScan(p, to)
           unit == QuotedUnit(q, text[p], to)
           rest == F[unit.next]
<1>1. F[q] = QuotedRest(F, p, q, to)
  <2>1. q \in 1..(to + 1)
    OBVIOUS
  <2> QED BY <2>1, QuotedUnfolds
<1>2. F[q] = IF unit.kind = "BadEscape" /\ rest.kind # "Unterminated"
             THEN Token("InvalidEscape", p, rest.last) ELSE rest
  BY <1>1 DEF QuotedRest
<1>3. text[p] # "InvalidEscape" /\ text[p] # "Unterminated"
  BY DEF Delimiters
<1> SUFFICES Alike(rest, F[q], text[p]) /\ (unit.kind = "BadEscape" => F[q].kind # text[p])
  OBVIOUS
<1> HIDE DEF rest, unit, F
<1>4. CASE unit.kind = "BadEscape" /\ rest.kind # "Unterminated"
  <2>1. F[q].kind = "InvalidEscape" /\ F[q].last = rest.last
    BY <1>2, <1>4 DEF Token
  <2> QED BY <2>1, <1>3, <1>4 DEF Alike
<1>5. CASE ~(unit.kind = "BadEscape" /\ rest.kind # "Unterminated")
  BY <1>2, <1>3, <1>5 DEF Alike
<1> QED BY <1>4, <1>5

(* Digits are read one by one or as a run, with the same result.            *)
LEMMA DigitsAreRead ==
    ASSUME NEW to \in Nat, NEW p \in 1..to, text[p] \in Delimiters,
           NEW q \in 1..(to + 1), NEW r \in q..(to + 1),
           \A k \in q..(r - 1) : text[k] \in HexDigits
    PROVE  QuotedScan(p, to)[q] = QuotedScan(p, to)[r]
<1> DEFINE F == QuotedScan(p, to)
           P == {i \in 1..(to + 1) : i \in q..r => F[i] = F[r]}
<1>1. \A i \in 1..(to + 1) : F[i] = QuotedRest(F, p, i, to)
  BY QuotedUnfolds
<1> HIDE DEF F
<1>2. ASSUME NEW i \in 1..(to + 1), \A j \in (i + 1)..(to + 1) : j \in P PROVE i \in P
  <2> SUFFICES ASSUME i \in q..r, i # r PROVE F[i] = F[r]
    OBVIOUS
  <2>1. text[i] \in HexDigits /\ i \in 1..to
    OBVIOUS
  <2>2. QuotedUnit(i, text[p], to) = Unit("Plain", i + 1)
    BY <2>1 DEF QuotedUnit, HexDigits, Delimiters
  <2>3. F[i] = F[i + 1]
    BY <1>1, <2>1, <2>2 DEF QuotedRest, Unit
  <2>4. i + 1 \in (i + 1)..(to + 1) /\ i + 1 \in q..r
    OBVIOUS
  <2> QED BY <1>2, <2>3, <2>4
<1>3. \A i \in 1..(to + 1) : i \in P
  <2>1. to + 1 \in Nat
    OBVIOUS
  <2> HIDE DEF P
  <2> QED BY <1>2, <2>1, Backwards
<1>4. q \in 1..(to + 1) /\ q \in q..r
  OBVIOUS
<1> QED BY <1>3, <1>4 DEF F

(* A backslash takes the next character with it: whatever the lexer makes   *)
(* of them, the token ends where it did.                                    *)
LEMMA BackslashKeepsEnd ==
    ASSUME NEW to \in Nat, NEW p \in 1..to, text[p] \in Delimiters, NEW q \in 1..to,
           text[q] = "Backslash"
    PROVE  LET F == QuotedScan(p, to)
           IN  /\ q = to => Alike(F[q + 1], F[q], text[p])
               /\ q < to => Alike(F[q + 2], F[q], text[p])
               /\ q < to /\ text[q + 1] = "Newline" => F[q].kind # text[p]
<1> DEFINE F == QuotedScan(p, to)
           unit == QuotedUnit(q, text[p], to)
<1>1. unit.kind # "Close" =>
        Alike(F[unit.next], F[q], text[p]) /\ (unit.kind = "BadEscape" => F[q].kind # text[p])
  BY UnitKeepsEnd
<1>2. CASE q = to
  <2>1. unit = Unit("Cut", q + 1)
    BY <1>2 DEF QuotedUnit
  <2>2. unit.kind = "Cut" /\ unit.next = q + 1
    BY <2>1 DEF Unit
  <2> QED BY <1>1, <1>2, <2>2
<1>3. CASE q < to
  <2> DEFINE digits == HexRun(q + 2, to)
  <2>1. unit = EscapeAt(q, to)
    BY <1>3 DEF QuotedUnit
  <2>2. /\ digits \in Nat /\ q + 2 + digits <= to + 1
        /\ \A k \in (q + 2)..(q + 2 + digits - 1) : text[k] \in HexDigits
    <3>1. q + 2 \in Nat /\ q + 2 <= to + 1
      BY <1>3
    <3>2. digits \in 0..Digits /\ q + 2 + digits - 1 <= to
          /\ \A k \in (q + 2)..(q + 2 + digits - 1) : text[k] \in HexDigits
      BY <3>1, HexRunIs
    <3> HIDE DEF digits
    <3> QED BY <3>1, <3>2, DigitsAssumption
  <2>3. /\ unit.kind \in {"Escape", "BadEscape"}
        /\ unit.next \in {q + 2, q + 2 + digits}
        /\ text[q + 1] = "Newline" => unit.kind = "BadEscape"
    BY <2>1 DEF EscapeAt, Unit, SimpleEscapes, Delimiters
  <2> HIDE DEF digits
  <2>4. F[q + 2] = F[q + 2 + digits]
    <3>1. q + 2 \in 1..(to + 1) /\ q + 2 + digits \in (q + 2)..(to + 1)
      BY <1>3, <2>2
    <3> QED BY <2>2, <3>1, DigitsAreRead
  <2> HIDE DEF unit, F
  <2>5. F[unit.next] = F[q + 2]
    BY <2>3, <2>4
  <2>6. Alike(F[q + 2], F[q], text[p]) /\ (text[q + 1] = "Newline" => F[q].kind # text[p])
    BY <1>1, <2>3, <2>5
  <2> QED BY <1>3, <2>6 DEF F
<1> QED BY <1>2, <1>3

(* Other characters, and the delimiter, single or doubled.                  *)
LEMMA CharacterKeepsEnd ==
    ASSUME NEW to \in Nat, NEW p \in 1..to, text[p] \in Delimiters, NEW q \in 1..to,
           text[q] # "Backslash"
    PROVE  LET F == QuotedScan(p, to)
           IN  /\ text[q] # text[p] => Alike(F[q + 1], F[q], text[p])
               /\ text[q] = text[p] /\ q < to /\ text[q + 1] = text[p] =>
                    Alike(F[q + 2], F[q], text[p])
               /\ text[q] = text[p] /\ ~(q < to /\ text[q + 1] = text[p]) =>
                    F[q] = Token(text[p], p, q)
<1> DEFINE F == QuotedScan(p, to)
           unit == QuotedUnit(q, text[p], to)
<1>1. unit.kind # "Close" => Alike(F[unit.next], F[q], text[p])
  BY UnitKeepsEnd
<1>2. CASE text[q] # text[p]
  <2>1. unit.kind = "Plain" /\ unit.next = q + 1
    BY <1>2 DEF QuotedUnit, Unit
  <2> QED BY <1>1, <1>2, <2>1
<1>3. CASE text[q] = text[p] /\ q < to /\ text[q + 1] = text[p]
  <2>1. unit.kind = "Doubled" /\ unit.next = q + 2
    BY <1>3 DEF QuotedUnit, Unit
  <2> QED BY <1>1, <1>3, <2>1
<1>4. CASE text[q] = text[p] /\ ~(q < to /\ text[q + 1] = text[p])
  <2>1. unit.kind = "Close"
    BY <1>4 DEF QuotedUnit, Unit
  <2>2. q \in 1..(to + 1)
    OBVIOUS
  <2>3. F[q] = QuotedRest(F, p, q, to)
    BY <2>2, QuotedUnfolds
  <2>4. F[q] = Token(text[p], p, q)
    BY <2>1, <2>3 DEF QuotedRest
  <2> QED BY <1>4, <2>4
<1> QED BY <1>2, <1>3, <1>4

-----------------------------------------------------------------------------
(* Where the splitter is in the tokens.                                     *)

\* Past the end there is a boundary if the last token is whole.
Boundary(i) ==
    i \in Starts \/ (i = Len(text) + 1 /\ \A p \in Starts : Raw(p).kind # "Unterminated")

InPlain(i) ==
    \E p \in Starts : Raw(p).kind \in {"Word", "Whitespace"} /\ i \in p..Raw(p).last

\* What is seen from q on of the quoted token at p is its end.
QuotedFrom(p, q) == Alike(QuotedScan(p, Len(text))[q], Raw(p), text[p])

InQuoted(delimiter, i) ==
    \E p \in Starts : text[p] = delimiter /\ i \in (p + 1)..(Len(text) + 1) /\ QuotedFrom(p, i)

\* A doubled delimiter closes a string and opens the next one.
Reopened(i) ==
    \E p \in Starts :
        /\ text[p] \in {"Quote", "DoubleQuote"} /\ i \in (p + 1)..Len(text)
        /\ text[i] = text[p] /\ QuotedFrom(p, i + 1)

InLine(i) ==
    \E p \in Starts : Raw(p).kind = "LineComment" /\ i \in (p + 1)..(Raw(p).last + 1)

InBlock(d, i) ==
    \E p \in Starts :
        /\ text[p] \notin Delimiters /\ At(p, Len(text), <<"Slash", "Star">>)
        /\ i \in (p + 2)..(Len(text) + 1) /\ d \in Depths
        /\ CommentScan(p, Len(text))[i][d] = Raw(p)

Placed(s, d, i) ==
    \/ s = "Normal" /\ d = 0 /\ (Boundary(i) \/ InPlain(i) \/ Reopened(i))
    \/ s \in Delimiters /\ d = 0 /\ InQuoted(s, i)
    \/ s = "LineComment" /\ d = 0 /\ InLine(i)
    \/ s = "BlockComment" /\ InBlock(d, i)

NoCut(i, j) == \A x \in i..j : x \notin SemicolonTokens

(* What is inside a quoted token is not behind its end; the end of the text *)
(* is inside only if the token is not terminated.                           *)
LEMMA QuotedInside ==
    ASSUME Tiled, NEW p \in Starts, text[p] \in Delimiters,
           NEW i \in (p + 1)..(Len(text) + 1), QuotedFrom(p, i)
    PROVE  /\ Raw(p).kind \in {text[p], "Unterminated", "InvalidEscape"}
           /\ Raw(p).kind = "Unterminated" => Raw(p).last = Len(text)
           /\ i <= Len(text) => i <= Raw(p).last
           /\ i = Len(text) + 1 => Raw(p).kind = "Unterminated"
           /\ NoCut(p, IF i <= Len(text) THEN i ELSE Len(text))
<1> DEFINE n == Len(text)
           seen == QuotedScan(p, n)[i]
           raw == Raw(p)
<1>1. p \in 1..n /\ n \in Nat /\ i \in 1..(n + 1) /\ raw.last \in p..n
  BY DEF Tiled
<1>2. raw.kind \in {text[p], "Unterminated", "InvalidEscape"}
  <2>1. p + 1 \in 1..(n + 1)
    BY <1>1
  <2>2. QuotedScan(p, n)[p + 1] \in QuotedTokens(p, n)
    BY <1>1, <2>1, QuotedUnfolds
  <2>3. raw = QuotedScan(p, n)[p + 1]
    BY TokenFacts
  <2> QED BY <2>2, <2>3 DEF QuotedTokens, QuotedKinds
<1>3. IF seen.kind = "Unterminated" THEN seen.last = n ELSE seen.last \in i..n
  BY <1>1, QuotedReach
<1>4. seen.last = raw.last /\ (seen.kind = "Unterminated" <=> raw.kind = "Unterminated")
  BY DEF QuotedFrom, Alike
<1>5. /\ raw.kind = "Unterminated" => raw.last = n
      /\ i <= n => i <= raw.last
      /\ i = n + 1 => raw.kind = "Unterminated"
  <2> HIDE DEF seen, raw, n
  <2> QED BY <1>1, <1>3, <1>4
<1>6. raw.kind # "Semicolon"
  BY <1>2 DEF Delimiters
<1>7. ASSUME NEW x \in p..(IF i <= n THEN i ELSE n) PROVE x \in p..raw.last
  <2> HIDE DEF raw, n
  <2> QED BY <1>1, <1>5, <1>7
<1> QED BY <1>2, <1>5, <1>6, <1>7, NoCutInside DEF NoCut

(* The same of a block comment.                                             *)
LEMMA BlockInside ==
    ASSUME Tiled, NEW p \in Starts, text[p] \notin Delimiters,
           At(p, Len(text), <<"Slash", "Star">>),
           NEW i \in (p + 2)..(Len(text) + 1), NEW d \in Depths,
           CommentScan(p, Len(text))[i][d] = Raw(p)
    PROVE  /\ Raw(p).kind \in {"BlockComment", "Unterminated"}
           /\ Raw(p).kind = "Unterminated" => Raw(p).last = Len(text)
           /\ i < Len(text) => i + 1 <= Raw(p).last
           /\ i >= Len(text) => Raw(p).kind = "Unterminated"
           /\ NoCut(p, IF i < Len(text) THEN i + 1 ELSE Len(text))
<1> DEFINE n == Len(text)
           raw == Raw(p)
<1>1. p \in 1..n /\ n \in Nat /\ i \in 1..(n + 1) /\ raw.last \in p..n
  BY DEF Tiled
<1>2. raw.kind \in {"BlockComment", "Unterminated"}
  BY <1>1, CommentUnfolds DEF CommentTokens
<1>3. IF raw.kind = "Unterminated" THEN raw.last = n ELSE raw.last \in (i + 1)..n
  BY <1>1, CommentReach
<1>4. /\ raw.kind = "Unterminated" => raw.last = n
      /\ i < n => i + 1 <= raw.last
      /\ i >= n => raw.kind = "Unterminated"
  <2> HIDE DEF raw, n
  <2> QED BY <1>1, <1>3
<1>5. raw.kind # "Semicolon"
  BY <1>2
<1>6. ASSUME NEW x \in p..(IF i < n THEN i + 1 ELSE n) PROVE x \in p..raw.last
  <2> HIDE DEF raw, n
  <2> QED BY <1>1, <1>4, <1>6
<1> QED BY <1>2, <1>4, <1>5, <1>6, NoCutInside DEF NoCut

(* Only the last token can be unterminated, as it takes all that is left.   *)
LEMMA UnterminatedIsLast ==
    ASSUME Tiled, NEW p \in Starts, Raw(p).kind = "Unterminated"
    PROVE  Raw(p).last = Len(text)
<1>0. p \in 1..Len(text) /\ Len(text) \in Nat
  BY DEF Tiled
<1>1. CASE text[p] \in Delimiters
  <2>1. Raw(p) = QuotedScan(p, Len(text))[p + 1]
    BY <1>1, TokenFacts
  <2>2. QuotedFrom(p, p + 1) /\ p + 1 \in (p + 1)..(Len(text) + 1)
    BY <1>0, <2>1 DEF QuotedFrom, Alike
  <2> QED BY <1>1, <2>2, QuotedInside
<1>2. CASE text[p] \notin Delimiters /\ At(p, Len(text), <<"Slash", "Star">>)
  <2>1. Raw(p) = CommentScan(p, Len(text))[p + 2][1]
    BY <1>2, TokenFacts
  <2>2. p + 2 \in (p + 2)..(Len(text) + 1) /\ 1 \in Depths
    BY <1>0, <1>2 DEF At, Depths
  <2> QED BY <1>2, <2>1, <2>2, BlockInside
<1>3. CASE text[p] \notin Delimiters /\ ~At(p, Len(text), <<"Slash", "Star">>)
  BY <1>3, TokenFacts DEF PlainFacts
<1> QED BY <1>1, <1>2, <1>3

(* Behind a token that is terminated there is a boundary.                   *)
LEMMA BoundaryAfter ==
    ASSUME Tiled, NEW p \in Starts, Raw(p).kind # "Unterminated"
    PROVE  Boundary(Raw(p).last + 1)
<1> DEFINE n == Len(text)
<1>1. n \in Nat /\ p \in 1..n /\ (Raw(p).last = n \/ Raw(p).last + 1 \in Starts)
  BY DEF Tiled
<1>2. CASE Raw(p).last + 1 \in Starts
  BY <1>2 DEF Boundary
<1>3. CASE Raw(p).last = n
  <2>1. ASSUME NEW q \in Starts, Raw(q).kind = "Unterminated" PROVE FALSE
    <3>1. Raw(q).last = n /\ q \in 1..n
      BY <2>1, UnterminatedIsLast DEF Tiled
    <3>2. q # p
      BY <2>1
    <3>3. ~(q < p)
      <4>1. q < p => Raw(q).last < p
        BY DEF Tiled
      <4> QED BY <4>1, <3>1, <1>1
    <3>4. ~(p < q)
      <4>1. p < q => Raw(p).last < q
        BY DEF Tiled
      <4> QED BY <4>1, <3>1, <1>1, <1>3
    <3> QED BY <3>1, <3>2, <3>3, <3>4, <1>1
  <2> QED BY <1>3, <2>1 DEF Boundary
<1> QED BY <1>1, <1>2, <1>3

\* Where a statement is being read, at a character.
NormalAt(i) == i \in 1..Len(text) /\ (i \in Starts \/ InPlain(i) \/ Reopened(i))

LEMMA NormalIs ==
    ASSUME NEW d, NEW i \in 1..Len(text), Placed("Normal", d, i), text \in Seq(Chars)
    PROVE  d = 0 /\ NormalAt(i)
<1>1. d = 0 /\ (Boundary(i) \/ InPlain(i) \/ Reopened(i))
  BY DEF Placed, Delimiters
<1>2. i # Len(text) + 1
  OBVIOUS
<1> QED BY <1>1, <1>2 DEF NormalAt, Boundary

(* Letters and spaces start nothing, and strings reopen at a delimiter.     *)
LEMMA InsideIs ==
    ASSUME Tiled, NEW i \in 1..Len(text)
    PROVE  /\ InPlain(i) => text[i] \in Spaces \cup Letters
           /\ Reopened(i) => text[i] \in {"Quote", "DoubleQuote"}
<1>1. ASSUME NEW p \in Starts, Raw(p).kind \in {"Word", "Whitespace"}, i \in p..Raw(p).last
      PROVE  text[i] \in Spaces \cup Letters
  <2>1. PlainFacts(p, Raw(p))
    BY <1>1, TokenFacts
  <2> QED BY <1>1, <2>1 DEF PlainFacts
<1> QED BY <1>1 DEF InPlain, Reopened

LEMMA StartsBy ==
    ASSUME Tiled, NEW i, NormalAt(i), text[i] \in {"Slash", "Star", "Semicolon", "Backslash", "Other"}
    PROVE  i \in Starts
<1>1. text[i] \notin Spaces \cup Letters /\ text[i] \notin {"Quote", "DoubleQuote"}
  BY DEF Spaces, Letters, HexDigits
<1> QED BY <1>1, InsideIs DEF NormalAt

(* A delimiter opens a quoted token, or goes on with one.                   *)
LEMMA QuoteOpens ==
    ASSUME Tiled, NEW i, NormalAt(i), text[i] \in Delimiters
    PROVE  Placed(text[i], 0, i + 1) /\ NoCut(i, i)
<1>0. i \in 1..Len(text) /\ Len(text) \in Nat
  BY DEF Tiled, NormalAt
<1>1. InQuoted(text[i], i + 1) /\ NoCut(i, i)
  <2>1. CASE i \in Starts
    <3>1. QuotedFrom(i, i + 1)
      BY <2>1, TokenFacts DEF QuotedFrom, Alike
    <3>2. i + 1 \in (i + 1)..(Len(text) + 1)
      BY <1>0
    <3>3. NoCut(i, IF i + 1 <= Len(text) THEN i + 1 ELSE Len(text))
      BY <2>1, <3>1, <3>2, QuotedInside
    <3> QED BY <2>1, <3>1, <3>2, <3>3, <1>0 DEF InQuoted, NoCut
  <2>2. CASE InPlain(i)
    BY <2>2, <1>0, InsideIs DEF Delimiters, Spaces, Letters, HexDigits
  <2>3. CASE Reopened(i)
    <3>1. PICK p \in Starts :
            /\ text[p] \in {"Quote", "DoubleQuote"} /\ i \in (p + 1)..Len(text)
            /\ text[i] = text[p] /\ QuotedFrom(p, i + 1)
      BY <2>3 DEF Reopened
    <3>2. p \in Nat /\ i + 1 \in (p + 1)..(Len(text) + 1) /\ text[p] \in Delimiters
      BY <3>1, <1>0 DEF Tiled, Delimiters
    <3>3. NoCut(p, IF i + 1 <= Len(text) THEN i + 1 ELSE Len(text))
      BY <3>1, <3>2, QuotedInside
    <3>4. NoCut(i, i)
      BY <3>1, <3>2, <3>3, <1>0 DEF NoCut
    <3> QED BY <3>1, <3>2, <3>4 DEF InQuoted
  <2> QED BY <2>1, <2>2, <2>3 DEF NormalAt
<1> QED BY <1>1 DEF Placed

(* Two slashes, or a slash and a star, open a comment.                      *)
LEMMA CommentOpens ==
    ASSUME Tiled, NEW i, NormalAt(i), text[i] = "Slash", i < Len(text)
    PROVE  /\ text[i + 1] = "Slash" => Placed("LineComment", 0, i + 2) /\ NoCut(i, i + 1)
           /\ text[i + 1] = "Star" => Placed("BlockComment", 1, i + 2) /\ NoCut(i, i + 1)
<1>0. i \in 1..Len(text) /\ Len(text) \in Nat /\ i \in Starts /\ text[i] \notin Delimiters
  BY StartsBy DEF Tiled, NormalAt, Delimiters
<1>1. CASE text[i + 1] = "Slash"
  <2>1. At(i, Len(text), <<"Slash", "Slash">>) /\ ~At(i, Len(text), <<"Slash", "Star">>)
    BY <1>0, <1>1 DEF At
  <2>2. Raw(i).kind = "LineComment" /\ Raw(i).last >= i + 1
    BY <1>0, <2>1, TokenFacts DEF PlainFacts
  <2>3. Raw(i).last \in Nat
    BY <1>0 DEF Tiled
  <2>4. i + 2 \in (i + 1)..(Raw(i).last + 1)
    BY <1>0, <2>2, <2>3
  <2>5. InLine(i + 2)
    BY <1>0, <2>2, <2>4 DEF InLine
  <2>6. NoCut(i, i + 1)
    <3>1. \A x \in i..(i + 1) : x \in i..Raw(i).last
      BY <1>0, <2>2, <2>3
    <3> QED BY <1>0, <2>2, <3>1, NoCutInside DEF NoCut
  <2> QED BY <1>1, <2>5, <2>6 DEF Placed
<1>2. CASE text[i + 1] = "Star"
  <2>1. At(i, Len(text), <<"Slash", "Star">>)
    BY <1>0, <1>2 DEF At
  <2>2. CommentScan(i, Len(text))[i + 2][1] = Raw(i)
    BY <1>0, <2>1, TokenFacts
  <2>3. i + 2 \in (i + 2)..(Len(text) + 1) /\ 1 \in Depths
    BY <1>0 DEF Depths
  <2>4. InBlock(1, i + 2)
    BY <1>0, <2>1, <2>2, <2>3 DEF InBlock
  <2>5. NoCut(i, IF i + 2 < Len(text) THEN i + 2 + 1 ELSE Len(text))
    BY <1>0, <2>1, <2>2, <2>3, BlockInside
  <2>6. NoCut(i, i + 1)
    BY <1>0, <2>5 DEF NoCut
  <2> QED BY <1>2, <2>4, <2>6 DEF Placed
<1> QED BY <1>1, <1>2

(* From one character of a token to the next, or to the next token.         *)
LEMMA PlainGoesOn ==
    ASSUME Tiled, NEW p \in Starts, NEW i \in p..Raw(p).last,
           Raw(p).kind # "Unterminated",
           Raw(p).kind \in {"Word", "Whitespace"} \/ Raw(p).last = p
    PROVE  Placed("Normal", 0, i + 1)
<1>0. p \in Nat /\ Raw(p).last \in Nat
  BY DEF Tiled
<1>1. CASE i = Raw(p).last
  BY <1>1, BoundaryAfter DEF Placed
<1>2. CASE i # Raw(p).last
  <2>1. i + 1 \in p..Raw(p).last /\ Raw(p).kind \in {"Word", "Whitespace"}
    BY <1>0, <1>2
  <2> QED BY <2>1 DEF Placed, InPlain
<1> QED BY <1>1, <1>2

(* Anything else is passed over.                                            *)
LEMMA NormalPasses ==
    ASSUME Tiled, NEW i, NormalAt(i), text[i] \notin Delimiters \cup {"Semicolon"},
           ~(text[i] = "Slash" /\ i < Len(text) /\ text[i + 1] \in {"Slash", "Star"})
    PROVE  Placed("Normal", 0, i + 1) /\ NoCut(i, i)
<1>0. i \in 1..Len(text) /\ Len(text) \in Nat
  BY DEF Tiled, NormalAt
<1>1. CASE i \in Starts
  <2>1. ~At(i, Len(text), <<"Slash", "Star">>) /\ ~At(i, Len(text), <<"Slash", "Slash">>)
    BY <1>0 DEF At
  <2>2. PlainFacts(i, Raw(i)) /\ Raw(i).kind # "Semicolon"
    BY <1>1, <2>1, TokenFacts
  <2>3. Raw(i).kind # "Unterminated" /\ (Raw(i).kind \in {"Word", "Whitespace"} \/ Raw(i).last = i)
    BY <2>1, <2>2 DEF PlainFacts
  <2>4. i \in i..Raw(i).last
    BY <1>1, <1>0 DEF Tiled
  <2> QED BY <1>1, <1>0, <2>2, <2>3, <2>4, PlainGoesOn, NoCutInside DEF NoCut
<1>2. CASE InPlain(i)
  <2>1. PICK p \in Starts : Raw(p).kind \in {"Word", "Whitespace"} /\ i \in p..Raw(p).last
    BY <1>2 DEF InPlain
  <2>2. Raw(p).kind # "Semicolon" /\ Raw(p).kind # "Unterminated"
    BY <2>1
  <2>3. Placed("Normal", 0, i + 1) /\ i \notin SemicolonTokens
    BY <2>1, <2>2, PlainGoesOn, NoCutInside
  <2> QED BY <2>3, <1>0 DEF NoCut
<1>3. CASE Reopened(i)
  BY <1>3, <1>0, InsideIs DEF Delimiters
<1> QED BY <1>1, <1>2, <1>3 DEF NormalAt

(* A semicolon read in a statement is one of the lexer's.                   *)
LEMMA SemicolonCuts ==
    ASSUME Tiled, NEW i, NormalAt(i), text[i] = "Semicolon"
    PROVE  Placed("Normal", 0, i + 1) /\ i \in SemicolonTokens
<1>1. i \in Starts
  BY StartsBy
<1>2. Raw(i).kind = "Semicolon" /\ Raw(i).last = i
  BY <1>1, TokenFacts
<1>3. i \in i..Raw(i).last
  BY <1>1, <1>2 DEF Tiled
<1> QED BY <1>1, <1>2, <1>3, PlainGoesOn DEF Tiled

\* The splitter moves on inside a quoted token that ends where it did.
LEMMA QuotedGoesOn ==
    ASSUME Tiled, NEW p \in Starts, text[p] \in Delimiters,
           NEW i \in (p + 1)..Len(text), QuotedFrom(p, i), NEW w \in 1..2, i + w <= Len(text) + 1,
           Alike(QuotedScan(p, Len(text))[i + w], QuotedScan(p, Len(text))[i], text[p])
    PROVE  QuotedFrom(p, i + w) /\ InQuoted(text[p], i + w) /\ NoCut(i, i + w - 1)
<1>0. p \in Nat /\ Len(text) \in Nat /\ i + w \in (p + 1)..(Len(text) + 1)
  BY DEF Tiled
<1>1. QuotedFrom(p, i + w)
  BY DEF QuotedFrom, Alike
<1>2. NoCut(p, IF i + w <= Len(text) THEN i + w ELSE Len(text))
  BY <1>0, <1>1, QuotedInside
<1>3. NoCut(i, i + w - 1)
  BY <1>0, <1>2 DEF NoCut
<1> QED BY <1>0, <1>1, <1>3 DEF InQuoted

(* In a string the splitter skips what a backslash escapes, and closes and  *)
(* reopens at a doubled delimiter where the lexer goes on.  A line end it   *)
(* skips is in a token the lexer refuses.                                   *)
LEMMA StringGoesOn ==
    ASSUME Tiled, NEW s \in {"Quote", "DoubleQuote"}, NEW i \in 1..Len(text), InQuoted(s, i)
    PROVE  /\ text[i] = "Backslash" /\ i < Len(text) =>
                /\ Placed(s, 0, i + 2) /\ NoCut(i, i + 1)
                /\ text[i + 1] = "Newline" => \E p \in Starts : IsError(Raw(p))
           /\ text[i] = "Backslash" /\ i = Len(text) => Placed(s, 0, i + 1) /\ NoCut(i, i)
           /\ text[i] = s => Placed("Normal", 0, i + 1) /\ NoCut(i, i)
           /\ text[i] \notin {s, "Backslash"} => Placed(s, 0, i + 1) /\ NoCut(i, i)
<1> DEFINE n == Len(text)
<1>1. PICK p \in Starts : text[p] = s /\ i \in (p + 1)..(n + 1) /\ QuotedFrom(p, i)
  BY DEF InQuoted
<1>2. /\ n \in Nat /\ p \in 1..n /\ i \in (p + 1)..n /\ text[p] \in Delimiters
      /\ s \in Delimiters /\ s # "Backslash"
  BY <1>1 DEF Tiled, Delimiters
<1> DEFINE F == QuotedScan(p, n)
<1>3. CASE text[i] = "Backslash" /\ i < n
  <2>1. Alike(F[i + 2], F[i], text[p]) /\ (text[i + 1] = "Newline" => F[i].kind # text[p])
    BY <1>2, <1>3, BackslashKeepsEnd
  <2>2. InQuoted(s, i + 2) /\ NoCut(i, i + 1)
    <3>1. 2 \in 1..2 /\ i + 2 <= n + 1 /\ i + 2 - 1 = i + 1
      BY <1>2, <1>3
    <3> HIDE DEF F
    <3>2. InQuoted(text[p], i + 2) /\ NoCut(i, i + 2 - 1)
      BY <1>1, <1>2, <2>1, <3>1, QuotedGoesOn DEF F
    <3> QED BY <1>1, <3>1, <3>2
  <2>3. text[i + 1] = "Newline" => IsError(Raw(p))
    <3>1. Raw(p).kind \in {text[p], "Unterminated", "InvalidEscape"}
      BY <1>1, <1>2, QuotedInside
    <3>2. Raw(p).kind = text[p] => F[i] = Raw(p)
      BY <1>1 DEF QuotedFrom, Alike
    <3> HIDE DEF F
    <3> QED BY <2>1, <3>1, <3>2 DEF IsError
  <2> QED BY <1>2, <1>3, <2>2, <2>3 DEF Placed
<1>4. CASE text[i] = "Backslash" /\ i = n
  <2>1. Alike(F[i + 1], F[i], text[p])
    BY <1>2, <1>4, BackslashKeepsEnd
  <2>2. 1 \in 1..2 /\ i + 1 <= n + 1 /\ i + 1 - 1 = i
    BY <1>2
  <2>3. InQuoted(s, i + 1) /\ NoCut(i, i)
    BY <1>1, <1>2, <2>1, <2>2, QuotedGoesOn
  <2> QED BY <1>2, <1>4, <2>3 DEF Placed
<1>5. CASE text[i] = s
  <2>1. NoCut(i, i)
    <3>1. NoCut(p, IF i <= n THEN i ELSE n)
      BY <1>1, <1>2, QuotedInside
    <3> QED BY <1>2, <3>1 DEF NoCut
  <2>2. CASE i < n /\ text[i + 1] = s
    <3>1. Alike(F[i + 2], F[i], text[p])
      BY <1>1, <1>2, <1>5, <2>2, CharacterKeepsEnd
    <3>2. 2 \in 1..2 /\ i + 2 <= n + 1 /\ (i + 1) + 1 = i + 2
      BY <1>2, <2>2
    <3>3. QuotedFrom(p, (i + 1) + 1)
      BY <1>1, <1>2, <3>1, <3>2, QuotedGoesOn
    <3>4. i + 1 \in (p + 1)..n
      BY <1>2, <2>2
    <3>5. Reopened(i + 1)
      BY <1>1, <2>2, <3>3, <3>4 DEF Reopened
    <3> QED BY <1>2, <1>5, <2>1, <3>5 DEF Placed
  <2>3. CASE ~(i < n /\ text[i + 1] = s)
    <3>1. F[i] = Token(text[p], p, i)
      BY <1>1, <1>2, <1>5, <2>3, CharacterKeepsEnd
    <3>2. Raw(p).last = i /\ Raw(p).kind # "Unterminated"
      <4>1. text[p] # "Unterminated"
        BY <1>2 DEF Delimiters
      <4> HIDE DEF F
      <4>2. Alike(F[i], Raw(p), text[p])
        BY <1>1 DEF QuotedFrom, F
      <4> QED BY <3>1, <4>1, <4>2 DEF Alike, Token
    <3>3. Boundary(i + 1)
      BY <3>2, BoundaryAfter
    <3> QED BY <1>2, <1>5, <2>1, <3>3 DEF Placed
  <2> QED BY <2>2, <2>3
<1>6. CASE text[i] \notin {s, "Backslash"}
  <2>1. Alike(F[i + 1], F[i], text[p])
    BY <1>1, <1>2, <1>6, CharacterKeepsEnd
  <2>2. 1 \in 1..2 /\ i + 1 <= n + 1 /\ i + 1 - 1 = i
    BY <1>2
  <2>3. InQuoted(s, i + 1) /\ NoCut(i, i)
    BY <1>1, <1>2, <2>1, <2>2, QuotedGoesOn
  <2> QED BY <1>2, <1>6, <2>3 DEF Placed
<1> QED BY <1>2, <1>3, <1>4, <1>5, <1>6

(* A name is read as the lexer reads it, as long as it has no escape.       *)
LEMMA NameGoesOn ==
    ASSUME Tiled, Tells, NamesUnescaped, NEW i \in 1..Len(text), InQuoted("Tick", i)
    PROVE  /\ text[i] = "Tick" /\ i < Len(text) /\ text[i + 1] = "Tick" =>
                Placed("Tick", 0, i + 2) /\ NoCut(i, i + 1)
           /\ text[i] = "Tick" /\ ~(i < Len(text) /\ text[i + 1] = "Tick") =>
                Placed("Normal", 0, i + 1) /\ NoCut(i, i)
           /\ text[i] # "Tick" => Placed("Tick", 0, i + 1) /\ NoCut(i, i)
<1> DEFINE n == Len(text)
<1>1. PICK p \in Starts : text[p] = "Tick" /\ i \in (p + 1)..(n + 1) /\ QuotedFrom(p, i)
  BY DEF InQuoted
<1>2. n \in Nat /\ p \in 1..n /\ i \in (p + 1)..n /\ text[p] \in Delimiters /\ "Tick" \in Delimiters
  BY <1>1 DEF Tiled, Delimiters
<1> DEFINE F == QuotedScan(p, n)
<1>3. text[i] # "Backslash" /\ NoCut(i, i)
  <2>1. i <= Raw(p).last /\ NoCut(p, IF i <= n THEN i ELSE n)
    BY <1>1, <1>2, QuotedInside
  <2>2. i \in p..Raw(p).last
    BY <1>2, <2>1 DEF Tiled
  <2> QED BY <1>1, <1>2, <2>1, <2>2 DEF Tells, NoCut
<1>4. CASE text[i] = "Tick" /\ i < n /\ text[i + 1] = "Tick"
  <2>1. Alike(F[i + 2], F[i], text[p])
    BY <1>1, <1>2, <1>3, <1>4, CharacterKeepsEnd
  <2>2. 2 \in 1..2 /\ i + 2 <= n + 1 /\ i + 2 - 1 = i + 1
    BY <1>2, <1>4
  <2>3. InQuoted("Tick", i + 2) /\ NoCut(i, i + 1)
    BY <1>1, <1>2, <2>1, <2>2, QuotedGoesOn
  <2> QED BY <1>2, <1>4, <2>3 DEF Placed
<1>5. CASE text[i] = "Tick" /\ ~(i < n /\ text[i + 1] = "Tick")
  <2>1. F[i] = Token(text[p], p, i)
    BY <1>1, <1>2, <1>3, <1>5, CharacterKeepsEnd
  <2>2. Raw(p).last = i /\ Raw(p).kind # "Unterminated"
    <3> HIDE DEF F
    <3>1. Alike(F[i], Raw(p), text[p])
      BY <1>1 DEF QuotedFrom, F
    <3> QED BY <1>1, <2>1, <3>1 DEF Alike, Token
  <2>3. Boundary(i + 1)
    BY <2>2, BoundaryAfter
  <2> QED BY <1>3, <1>5, <2>3 DEF Placed
<1>6. CASE text[i] # "Tick"
  <2>1. Alike(F[i + 1], F[i], text[p])
    BY <1>1, <1>2, <1>3, <1>6, CharacterKeepsEnd
  <2>2. 1 \in 1..2 /\ i + 1 <= n + 1 /\ i + 1 - 1 = i
    BY <1>2
  <2>3. InQuoted("Tick", i + 1) /\ NoCut(i, i)
    BY <1>1, <1>2, <2>1, <2>2, QuotedGoesOn
  <2> QED BY <1>2, <1>6, <2>3 DEF Placed
<1> QED BY <1>3, <1>4, <1>5, <1>6

(* A line comment ends before the line end the splitter takes with it.      *)
LEMMA LineGoesOn ==
    ASSUME Tiled, NEW i \in 1..Len(text), InLine(i)
    PROVE  /\ NoCut(i, i)
           /\ text[i] = "Newline" => Placed("Normal", 0, i + 1)
           /\ text[i] # "Newline" => Placed("LineComment", 0, i + 1)
<1> DEFINE n == Len(text)
<1>1. PICK p \in Starts : Raw(p).kind = "LineComment" /\ i \in (p + 1)..(Raw(p).last + 1)
  BY DEF InLine
<1>2. /\ n \in Nat /\ p \in 1..n /\ Raw(p).last \in p..n
      /\ (Raw(p).last = n \/ Raw(p).last + 1 \in Starts)
  BY DEF Tiled
<1>3. /\ \A x \in (p + 1)..Raw(p).last : text[x] # "Newline"
      /\ Raw(p).last = n \/ text[Raw(p).last + 1] = "Newline"
  BY <1>1, TokenFacts DEF PlainFacts
<1>4. CASE i = Raw(p).last + 1
  <2>1. i \in Starts /\ text[i] = "Newline"
    BY <1>2, <1>3, <1>4
  <2>2. text[i] \in Spaces /\ text[i] \notin Delimiters /\ ~At(i, n, <<"Slash", "Star">>)
    BY <2>1 DEF Spaces, Delimiters, At
  <2>3. Raw(i).kind = "Whitespace"
    BY <2>1, <2>2, TokenFacts DEF PlainFacts
  <2>4. i \in i..Raw(i).last
    BY <2>1 DEF Tiled
  <2>5. Placed("Normal", 0, i + 1)
    BY <2>1, <2>3, <2>4, PlainGoesOn
  <2>6. NoCut(i, i)
    BY <2>1, <2>3, <2>4, NoCutInside DEF NoCut
  <2> QED BY <2>1, <2>5, <2>6
<1>5. CASE i # Raw(p).last + 1
  <2>1. i \in (p + 1)..Raw(p).last /\ i \in p..Raw(p).last /\ i + 1 \in (p + 1)..(Raw(p).last + 1)
    BY <1>1, <1>2, <1>5
  <2>2. text[i] # "Newline"
    BY <1>3, <2>1
  <2>3. NoCut(i, i)
    BY <1>1, <2>1, NoCutInside DEF NoCut
  <2>4. InLine(i + 1)
    BY <1>1, <2>1 DEF InLine
  <2> QED BY <2>2, <2>3, <2>4 DEF Placed
<1> QED BY <1>4, <1>5

(* Comments nest for the splitter as they do for the lexer.                 *)
LEMMA BlockGoesOn ==
    ASSUME Tiled, NEW i \in 1..Len(text), NEW d, InBlock(d, i)
    PROVE  LET Pair(a, b) == text[i] = a /\ i < Len(text) /\ text[i + 1] = b
           IN  /\ d \in Nat \ {0}
               /\ i < Len(text) => NoCut(i, i + 1)
               /\ NoCut(i, i)
               /\ Pair("Slash", "Star") => Placed("BlockComment", d + 1, i + 2)
               /\ Pair("Star", "Slash") /\ d = 1 => Placed("Normal", 0, i + 2)
               /\ Pair("Star", "Slash") /\ d # 1 => Placed("BlockComment", d - 1, i + 2)
               /\ ~Pair("Slash", "Star") /\ ~Pair("Star", "Slash") =>
                    Placed("BlockComment", d, i + 1)
<1> DEFINE n == Len(text)
           Pair(a, b) == text[i] = a /\ i < n /\ text[i + 1] = b
<1>1. PICK p \in Starts :
        /\ text[p] \notin Delimiters /\ At(p, n, <<"Slash", "Star">>)
        /\ i \in (p + 2)..(n + 1) /\ d \in Depths
        /\ CommentScan(p, n)[i][d] = Raw(p)
  BY DEF InBlock
<1>2. n \in Nat /\ p \in 1..n /\ i \in 1..(n + 1) /\ d \in Nat \ {0}
  BY <1>1 DEF Tiled, Depths
<1> DEFINE F == CommentScan(p, n)
<1>3. \A q \in 1..(n + 1) : \A e \in Depths : F[q][e] = CommentRest(F, p, q, e, n)
  BY <1>2, CommentUnfolds
<1>4. \A a, b : CommentPair(i, n, <<a, b>>) <=> Pair(a, b)
  BY <1>2 DEF CommentPair, At
<1>5. NoCut(p, IF i < n THEN i + 1 ELSE n)
  BY <1>1, BlockInside
<1>6. NoCut(i, i) /\ (i < n => NoCut(i, i + 1))
  BY <1>1, <1>2, <1>5 DEF NoCut
<1> HIDE DEF F
<1>7. Raw(p) = CommentRest(F, p, i, d, n)
  BY <1>1, <1>2, <1>3 DEF F
<1>8. ASSUME NEW e \in Depths, NEW j \in {i + 1, i + 2}, j <= n + 1, Raw(p) = F[j][e]
      PROVE  Placed("BlockComment", e, j)
  <2>1. j \in (p + 2)..(n + 1)
    BY <1>1, <1>2, <1>8
  <2>2. InBlock(e, j)
    BY <1>1, <1>8, <2>1 DEF InBlock, F
  <2> QED BY <2>2 DEF Placed
<1>9. CASE Pair("Slash", "Star")
  <2>1. Raw(p) = F[i + 2][d + 1] /\ d + 1 \in Depths /\ i + 2 <= n + 1
    BY <1>2, <1>4, <1>7, <1>9 DEF CommentRest, Depths
  <2>2. Placed("BlockComment", d + 1, i + 2)
    BY <1>8, <2>1
  <2> QED BY <1>2, <1>6, <1>9, <2>2
<1>10. CASE Pair("Star", "Slash") /\ d = 1
  <2>1. Raw(p) = Token("BlockComment", p, i + 1)
    BY <1>2, <1>4, <1>7, <1>10 DEF CommentRest
  <2>2. Raw(p).last + 1 = i + 2 /\ Raw(p).kind # "Unterminated"
    BY <1>2, <2>1 DEF Token
  <2>3. Placed("Normal", 0, i + 2)
    BY <2>2, BoundaryAfter DEF Placed
  <2> QED BY <1>2, <1>6, <1>10, <2>3
<1>11. CASE Pair("Star", "Slash") /\ d # 1
  <2>1. Raw(p) = F[i + 2][d - 1] /\ d - 1 \in Depths /\ i + 2 <= n + 1
    BY <1>2, <1>4, <1>7, <1>11 DEF CommentRest, Depths
  <2>2. Placed("BlockComment", d - 1, i + 2)
    BY <1>8, <2>1
  <2> QED BY <1>2, <1>6, <1>11, <2>2
<1>12. CASE ~Pair("Slash", "Star") /\ ~Pair("Star", "Slash")
  <2>1. Raw(p) = F[i + 1][d]
    <3>1. CASE i < n
      BY <1>2, <1>4, <1>7, <1>12, <3>1 DEF CommentRest
    <3>2. CASE ~(i < n)
      <4>1. i + 1 \in 1..(n + 1) /\ i >= n /\ i + 1 >= n /\ d \in Depths
        BY <1>1, <1>2, <3>2
      <4>2. Raw(p) = Token("Unterminated", p, n)
        BY <1>7, <4>1 DEF CommentRest
      <4>3. F[i + 1][d] = CommentRest(F, p, i + 1, d, n)
        BY <1>3, <4>1 DEF F
      <4>4. F[i + 1][d] = Token("Unterminated", p, n)
        BY <4>1, <4>3 DEF CommentRest
      <4> QED BY <4>2, <4>4
    <3> QED BY <3>1, <3>2
  <2>2. d \in Depths /\ i + 1 <= n + 1
    BY <1>1, <1>2
  <2>3. Placed("BlockComment", d, i + 1)
    BY <1>8, <2>1, <2>2
  <2> QED BY <1>2, <1>6, <1>12, <2>3
<1> QED BY <1>9, <1>10, <1>11, <1>12

(* At the end of the script the splitter complains if the lexer does.       *)
LEMMA EndsAlike ==
    ASSUME Tiled, NEW s, NEW d, Placed(s, d, Len(text) + 1)
    PROVE  s \in {"Normal", "LineComment"} <=> \A p \in Starts : Raw(p).kind # "Unterminated"
<1> DEFINE n == Len(text)
<1>1. n \in Nat /\ \A p \in Starts : p \in 1..n /\ Raw(p).last \in p..n
  BY DEF Tiled
<1>2. CASE s = "Normal"
  <2>1. Boundary(n + 1) \/ InPlain(n + 1) \/ Reopened(n + 1)
    BY <1>2 DEF Placed, Delimiters
  <2>2. ~InPlain(n + 1) /\ ~Reopened(n + 1) /\ n + 1 \notin Starts
    BY <1>1 DEF InPlain, Reopened
  <2> QED BY <1>2, <2>1, <2>2 DEF Boundary
<1>3. CASE s = "LineComment"
  <2>1. PICK p \in Starts : Raw(p).kind = "LineComment" /\ n + 1 \in (p + 1)..(Raw(p).last + 1)
    BY <1>3 DEF Placed, InLine, Delimiters
  <2>2. Raw(p).last + 1 = n + 1 /\ Raw(p).kind # "Unterminated"
    BY <1>1, <2>1
  <2>3. Boundary(n + 1) /\ n + 1 \notin Starts
    BY <1>1, <2>2, BoundaryAfter
  <2> QED BY <1>3, <2>3 DEF Boundary
<1>4. CASE s \in Delimiters
  <2>1. PICK p \in Starts : text[p] = s /\ n + 1 \in (p + 1)..(n + 1) /\ QuotedFrom(p, n + 1)
    BY <1>4 DEF Placed, InQuoted, Delimiters
  <2>2. Raw(p).kind = "Unterminated"
    BY <1>4, <2>1, QuotedInside
  <2> QED BY <1>4, <2>2 DEF Delimiters
<1>5. CASE s = "BlockComment"
  <2>1. PICK p \in Starts :
          /\ text[p] \notin Delimiters /\ At(p, n, <<"Slash", "Star">>)
          /\ n + 1 \in (p + 2)..(n + 1) /\ d \in Depths
          /\ CommentScan(p, n)[n + 1][d] = Raw(p)
    BY <1>5 DEF Placed, InBlock, Delimiters
  <2>2. Raw(p).kind = "Unterminated"
    BY <1>1, <2>1, BlockInside
  <2> QED BY <1>5, <2>2
<1> QED BY <1>2, <1>3, <1>4, <1>5 DEF Placed

-----------------------------------------------------------------------------
(* Lines and pieces.                                                        *)

\* The line of each character.
Lines ==
    [x \in 1..(Len(text) + 1) |-> 1 + Cardinality({m \in 1..(x - 1) : text[m] = "Newline"})]

LEMMA LinesGrow ==
    ASSUME text \in Seq(Chars)
    PROVE  /\ Lines[1] = 1
           /\ \A x \in 1..Len(text) :
                /\ Lines[x] \in Nat \ {0}
                /\ text[x] = "Newline" => Lines[x + 1] = Lines[x] + 1
                /\ text[x] # "Newline" => Lines[x + 1] = Lines[x]
<1> DEFINE n == Len(text)
           Ends(x) == {m \in 1..(x - 1) : text[m] = "Newline"}
<1>1. n \in Nat
  OBVIOUS
<1>2. \A x \in 1..(n + 1) : Lines[x] = 1 + Cardinality(Ends(x))
  BY DEF Lines
<1>3. \A x \in 1..(n + 1) : IsFiniteSet(Ends(x)) /\ Cardinality(Ends(x)) \in Nat
  <2> SUFFICES ASSUME NEW x \in 1..(n + 1) PROVE IsFiniteSet(Ends(x)) /\ Cardinality(Ends(x)) \in Nat
    OBVIOUS
  <2>1. Ends(x) \subseteq 1..(x - 1)
    OBVIOUS
  <2>3. x - 1 \in Int /\ 1 \in Int
    BY <1>1
  <2>4. IsFiniteSet(1..(x - 1))
    BY <2>3, FS_Interval
  <2> HIDE DEF Ends
  <2>2. IsFiniteSet(Ends(x))
    BY <2>1, <2>4, FS_Subset
  <2> QED BY <2>2, FS_CardinalityType
<1>4. Lines[1] = 1
  <2>1. Ends(1) = {} /\ 1 \in 1..(n + 1)
    BY <1>1
  <2> QED BY <1>2, <2>1, FS_EmptySet
<1>5. ASSUME NEW x \in 1..n
      PROVE  /\ Lines[x] \in Nat \ {0}
             /\ text[x] = "Newline" => Lines[x + 1] = Lines[x] + 1
             /\ text[x] # "Newline" => Lines[x + 1] = Lines[x]
  <2>1. x \in 1..(n + 1) /\ x + 1 \in 1..(n + 1)
    BY <1>1
  <2>2. text[x] # "Newline" => Ends(x + 1) = Ends(x)
    OBVIOUS
  <2>3. text[x] = "Newline" => Ends(x + 1) = Ends(x) \cup {x}
    OBVIOUS
  <2>4. x \notin Ends(x)
    OBVIOUS
  <2> HIDE DEF Ends, n
  <2>5. Cardinality(Ends(x) \cup {x}) = Cardinality(Ends(x)) + 1
    BY <1>3, <2>1, <2>4, FS_AddElement
  <2>6. Lines[x] = 1 + Cardinality(Ends(x)) /\ Lines[x + 1] = 1 + Cardinality(Ends(x + 1))
    BY <1>2, <2>1
  <2>7. Cardinality(Ends(x)) \in Nat
    BY <1>3, <2>1
  <2>8. Lines[x] \in Nat \ {0}
    BY <2>6, <2>7
  <2>9. text[x] = "Newline" => Lines[x + 1] = Lines[x] + 1
    <3> SUFFICES ASSUME text[x] = "Newline" PROVE Lines[x + 1] = Lines[x] + 1
      OBVIOUS
    <3>1. Cardinality(Ends(x + 1)) = Cardinality(Ends(x)) + 1
      BY <2>3, <2>5
    <3> QED BY <2>6, <2>7, <3>1
  <2>10. text[x] # "Newline" => Lines[x + 1] = Lines[x]
    BY <2>2, <2>6
  <2> QED BY <2>8, <2>9, <2>10
<1> QED BY <1>4, <1>5

Piece(from, to) == [first |-> from, last |-> to]

\* The statements of the script that end before a place.
PiecesBefore ==
    [x \in 1..(Len(text) + 1) |->
        {piece \in Pieces :
            /\ ~IsBlank(piece.first, piece.last)
            /\ piece.first..piece.last \cap SemicolonTokens = {}
            /\ piece.last + 1 \in SemicolonTokens /\ piece.last + 1 < x}]

AllPieces ==
    {piece \in Pieces :
        ~IsBlank(piece.first, piece.last) /\ piece.first..piece.last \cap SemicolonTokens = {}}

LEMMA PiecesAre ==
    ASSUME NEW piece \in Pieces, SemicolonTokens \subseteq Nat, text \in Seq(Chars)
    PROVE  /\ piece.first \in Int /\ piece.last \in Int /\ piece = Piece(piece.first, piece.last)
           /\ piece.first - 1 \in {0} \cup SemicolonTokens
           /\ piece.last + 1 \in SemicolonTokens \cup {Len(text) + 1}
<1>1. PICK a \in {0} \cup SemicolonTokens, b \in SemicolonTokens \cup {Len(text) + 1} :
        piece = [first |-> a + 1, last |-> b - 1]
  BY DEF Pieces
<1>2. a \in Int /\ b \in Int
  OBVIOUS
<1>3. piece.first = a + 1 /\ piece.last = b - 1
  BY <1>1
<1> QED BY <1>1, <1>2, <1>3 DEF Piece

LEMMA PieceIn ==
    ASSUME NEW u \in {0} \cup SemicolonTokens, NEW v \in SemicolonTokens \cup {Len(text) + 1}
    PROVE  [first |-> u + 1, last |-> v - 1] \in Pieces
  BY DEF Pieces

LEMMA SemicolonsInText ==
    ASSUME Tiled
    PROVE  SemicolonTokens \subseteq 1..Len(text) /\ Len(text) \in Nat /\ text \in Seq(Chars)
<1>1. text \in Seq(Chars) /\ \A p \in Starts : p \in 1..Len(text)
  BY DEF Tiled
<1>2. \A p \in SemicolonTokens : p \in Starts
  BY DEF Tiled
<1> QED BY <1>1, <1>2

(* Between the start of a statement and the next place to cut there is one  *)
(* piece and no other.                                                      *)
LEMMA OnePiece ==
    ASSUME Tiled, NEW a \in 1..(Len(text) + 1), NEW x \in a..(Len(text) + 1),
           a - 1 \in {0} \cup SemicolonTokens, NoCut(a, x - 1),
           x \in SemicolonTokens \cup {Len(text) + 1}
    PROVE  {piece \in AllPieces : piece.last + 1 = x}
             = IF IsBlank(a, x - 1) THEN {} ELSE {Piece(a, x - 1)}
<1>0. SemicolonTokens \subseteq Nat /\ Len(text) \in Nat /\ text \in Seq(Chars)
  BY SemicolonsInText
<1>1. ASSUME NEW piece \in AllPieces, piece.last + 1 = x
      PROVE  piece = Piece(a, x - 1) /\ ~IsBlank(a, x - 1)
  <2>1. /\ piece \in Pieces /\ ~IsBlank(piece.first, piece.last)
        /\ piece.first..piece.last \cap SemicolonTokens = {}
    BY DEF AllPieces
  <2>2. /\ piece.first \in Int /\ piece.last \in Int /\ piece = Piece(piece.first, piece.last)
        /\ piece.first - 1 \in {0} \cup SemicolonTokens
    BY <1>0, <2>1, PiecesAre
  <2>3. piece.last = x - 1 /\ piece.first <= piece.last
    <3>1. piece.last = x - 1
      BY <1>1, <2>2
    <3>2. \E k \in piece.first..piece.last : TRUE
      BY <2>1 DEF IsBlank
    <3> QED BY <3>1, <3>2, <2>2
  <2>4. ~(piece.first < a)
    <3> SUFFICES ASSUME piece.first < a PROVE FALSE
      OBVIOUS
    <3>1. piece.first >= 1
      BY <1>0, <2>2
    <3>2. a - 1 \in piece.first..piece.last /\ a - 1 # 0
      BY <2>2, <2>3, <3>1
    <3> QED BY <2>1, <3>2
  <2>5. ~(a < piece.first)
    <3> SUFFICES ASSUME a < piece.first PROVE FALSE
      OBVIOUS
    <3>1. piece.first - 1 \in a..(x - 1) /\ piece.first - 1 # 0
      BY <2>2, <2>3
    <3> QED BY <2>2, <3>1 DEF NoCut
  <2>6. piece.first = a
    BY <2>2, <2>4, <2>5
  <2> QED BY <2>1, <2>2, <2>3, <2>6
<1>2. ASSUME ~IsBlank(a, x - 1) PROVE Piece(a, x - 1) \in AllPieces /\ Piece(a, x - 1).last + 1 = x
  <2>1. Piece(a, x - 1) = [first |-> (a - 1) + 1, last |-> x - 1]
    BY DEF Piece
  <2>2. Piece(a, x - 1) \in Pieces
    BY <2>1, PieceIn
  <2>3. Piece(a, x - 1).first = a /\ Piece(a, x - 1).last = x - 1
    BY DEF Piece
  <2>4. (a..(x - 1)) \cap SemicolonTokens = {}
    BY DEF NoCut
  <2> QED BY <1>2, <2>2, <2>3, <2>4 DEF AllPieces
<1> QED BY <1>1, <1>2

LEMMA PiecesGrow ==
    ASSUME Tiled, NEW a \in 1..(Len(text) + 1), NEW x \in a..(Len(text) + 1),
           a - 1 \in {0} \cup SemicolonTokens, NoCut(a, x - 1)
    PROVE  LET new == IF IsBlank(a, x - 1) THEN {} ELSE {Piece(a, x - 1)}
           IN  /\ x \in SemicolonTokens => PiecesBefore[x + 1] = PiecesBefore[a] \cup new
               /\ x = Len(text) + 1 => AllPieces = PiecesBefore[a] \cup new
<1> DEFINE n == Len(text)
           new == IF IsBlank(a, x - 1) THEN {} ELSE {Piece(a, x - 1)}
<1>0. SemicolonTokens \subseteq 1..n /\ n \in Nat /\ text \in Seq(Chars)
  BY SemicolonsInText
<1>1. \A y \in 1..(n + 1) : PiecesBefore[y] =
        {piece \in AllPieces : piece.last + 1 \in SemicolonTokens /\ piece.last + 1 < y}
  BY DEF PiecesBefore, AllPieces
<1>2. x \in SemicolonTokens \cup {n + 1} => {piece \in AllPieces : piece.last + 1 = x} = new
  BY OnePiece
<1>3. \A piece \in AllPieces : piece.last \in Int /\ piece.last + 1 \in SemicolonTokens \cup {n + 1}
  BY <1>0, PiecesAre DEF AllPieces
<1>4. \A y \in SemicolonTokens : y < x => y < a
  BY <1>0 DEF NoCut
<1> HIDE DEF new, n
<1>5. ASSUME x \in SemicolonTokens PROVE PiecesBefore[x + 1] = PiecesBefore[a] \cup new
  <2>1. x \in 1..n /\ x + 1 \in 1..(n + 1) /\ a \in 1..(n + 1)
    BY <1>0, <1>5
  <2>2. \A y \in SemicolonTokens : y < x + 1 <=> (y < a \/ y = x)
    BY <1>0, <1>4, <2>1
  <2>3. \A piece \in AllPieces :
          (piece.last + 1 \in SemicolonTokens /\ piece.last + 1 < x + 1)
            <=> \/ piece.last + 1 \in SemicolonTokens /\ piece.last + 1 < a
                \/ piece.last + 1 = x
    BY <1>5, <2>2
  <2> QED BY <1>1, <1>2, <1>5, <2>1, <2>3
<1>6. ASSUME x = n + 1 PROVE AllPieces = PiecesBefore[a] \cup new
  <2>1. \A piece \in AllPieces :
          \/ piece.last + 1 \in SemicolonTokens /\ piece.last + 1 < a
          \/ piece.last + 1 = x
    <3> SUFFICES ASSUME NEW piece \in AllPieces, piece.last + 1 # x
                 PROVE  piece.last + 1 \in SemicolonTokens /\ piece.last + 1 < a
      OBVIOUS
    <3>1. piece.last + 1 \in SemicolonTokens
      BY <1>3, <1>6
    <3>2. piece.last + 1 \in 1..n
      BY <1>0, <3>1
    <3>3. piece.last + 1 < x
      BY <1>0, <1>6, <3>2
    <3> QED BY <1>4, <3>1, <3>3
  <2>2. a \in 1..(n + 1)
    BY DEF n
  <2> QED BY <1>1, <1>2, <1>6, <2>1, <2>2
<1> QED BY <1>5, <1>6 DEF new, n

-----------------------------------------------------------------------------
(* The splitter step by step.                                               *)

States == {"Normal", "LineComment", "BlockComment"} \cup Delimiters

Places == {place \in States \X Nat \X Nat : Placed(place[1], place[2], place[3])}

Statements == [line : Nat, first : 1..(Len(text) + 1), last : Nat]

Told == {Piece(statements[k].first, statements[k].last) : k \in DOMAIN statements}

Fresh ==
    /\ state = "Normal" /\ depth = 0 /\ start = 1 /\ startLine = 1 /\ line = 1
    /\ statements = <<>>

Counters ==
    /\ SplitTypeOK /\ line \in Nat /\ 2 * depth < index
    /\ statements \in Seq(Statements) /\ outcome \in {"Running", "Ok", "Err"}

\* The splitter waits for the lexer, and a fragment is lexed before it starts.
Waits ==
    /\ (~Lexed \/ outer # <<>>) => index = 1 /\ outcome = "Running"
    /\ index = 1 /\ outcome = "Running" => Fresh

\* It is in the token the lexer has there, and has cut at the semicolons.
Following ==
    /\ <<state, depth, index>> \in Places
    /\ start - 1 \in {0} \cup SemicolonTokens /\ NoCut(start, index - 1)
    /\ Told = PiecesBefore[start]
    /\ diagnostics = <<>> =>
        /\ line = Lines[index] /\ startLine = Lines[start]
        /\ \A k \in DOMAIN statements : statements[k].line = Lines[statements[k].first]

FollowsLexer == outcome = "Running" /\ NamesUnescaped => index = 1 \/ Following

SplitInv ==
    /\ LexInv /\ Reported /\ Counters /\ Waits /\ FollowsLexer
    /\ SplitsAtSemicolonTokens /\ LinesCounted

(* While nothing is lexed, what is known of the text stays.                 *)
LEMMA TextStays ==
    ASSUME UNCHANGED vars
    PROVE  /\ Places' = Places /\ Lines' = Lines /\ PiecesBefore' = PiecesBefore
           /\ SemicolonTokens' = SemicolonTokens /\ (NamesUnescaped' <=> NamesUnescaped)
           /\ (Reported' <=> Reported) /\ (Lexed' <=> Lexed) /\ Len(text') = Len(text)
           /\ Statements' = Statements /\ outer' = outer /\ diagnostics' = diagnostics
           /\ AllPieces' = AllPieces
<1>1. /\ text' = text /\ first' = first /\ last' = last /\ position' = position
      /\ tokens' = tokens /\ diagnostics' = diagnostics /\ outer' = outer
  BY DEF vars
<1>2. Raws' = Raws
  BY <1>1, RawsStay
<1>3. Places' = Places
  BY <1>1, <1>2 DEF Places, Placed, Boundary, InPlain, Reopened, InQuoted, InLine, InBlock,
       QuotedFrom, Alike,
     Raw, Starts, At, States, QuotedScan, QuotedRest, QuotedUnit, EscapeAt, HexRun, IsScalar,
     CommentScan, CommentRest, CommentPair
<1>4. Lines' = Lines
  BY <1>1 DEF Lines
<1>5. SemicolonTokens' = SemicolonTokens
  BY <1>1 DEF SemicolonTokens
<1>6. PiecesBefore' = PiecesBefore
  BY <1>1 DEF PiecesBefore, Pieces, SemicolonTokens, IsBlank
<1>7. NamesUnescaped' <=> NamesUnescaped
  BY <1>1 DEF NamesUnescaped
<1>8. Reported' <=> Reported
  BY <1>1, <1>2 DEF Reported, IsError
<1>9. Lexed' <=> Lexed
  BY <1>1 DEF Lexed
<1>10. AllPieces' = AllPieces
  BY <1>1 DEF AllPieces, Pieces, SemicolonTokens, IsBlank
<1> QED BY <1>1, <1>3, <1>4, <1>5, <1>6, <1>7, <1>8, <1>9, <1>10 DEF Statements

(* At its start it is where the lexer starts.                               *)
LEMMA StartFollows ==
    ASSUME Tiled, Counters, Fresh, index = 1
    PROVE  Following
<1>0. text \in Seq(Chars) /\ SemicolonTokens \subseteq 1..Len(text) /\ Len(text) \in Nat
  BY SemicolonsInText
<1>1. Boundary(1)
  <2>1. CASE text = <<>>
    <3>1. Starts = {} /\ Len(text) + 1 = 1
      BY <2>1 DEF Tiled
    <3> QED BY <3>1 DEF Boundary
  <2>2. CASE text # <<>>
    BY <2>2 DEF Tiled, Boundary
  <2> QED BY <2>1, <2>2
<1>2. Placed("Normal", 0, 1)
  BY <1>1 DEF Placed
<1>3. <<state, depth, index>> \in Places
  <2>1. state \in States /\ depth \in Nat /\ index \in Nat
    BY <1>0 DEF Counters, SplitTypeOK, States
  <2> QED BY <1>2, <2>1 DEF Places, Fresh
<1>4. start - 1 \in {0} \cup SemicolonTokens /\ NoCut(start, index - 1)
  BY DEF Fresh, NoCut
<1>5. Told = {} /\ PiecesBefore[1] = {}
  <2>1. DOMAIN statements = {}
    BY DEF Fresh
  <2>2. 1 \in 1..(Len(text) + 1)
    BY <1>0
  <2>3. \A y \in SemicolonTokens : ~(y < 1)
    BY <1>0
  <2> QED BY <2>1, <2>2, <2>3 DEF Told, PiecesBefore
<1>6. Lines[1] = 1
  BY <1>0, LinesGrow
<1>7. start = 1 /\ startLine = 1 /\ line = 1 /\ DOMAIN statements = {}
  BY DEF Fresh
<1> QED BY <1>3, <1>4, <1>5, <1>6, <1>7 DEF Following

(* What is known when a character is read.                                  *)
LEMMA ReadingIs ==
    ASSUME SplitInv, Lexed, outer = <<>>, outcome = "Running"
    PROVE  Tiled /\ Tells /\ (NamesUnescaped => Following)
<1>1. Tiled /\ Tells
  BY LexedIsTiled, ReportsTell DEF SplitInv
<1>2. ASSUME NamesUnescaped PROVE Following
  <2>1. CASE index = 1
    BY <1>1, <2>1, StartFollows DEF SplitInv, Waits
  <2>2. CASE index # 1
    BY <1>2, <2>2 DEF SplitInv, FollowsLexer
  <2> QED BY <2>1, <2>2
<1> QED BY <1>1, <1>2

LEMMA HalfIsLess ==
    ASSUME NEW n \in Nat, NEW d \in Nat, NEW i \in Nat, 2 * d < i, i <= n + 1
    PROVE  d <= n
  OBVIOUS

LEMMA HalfMore ==
    ASSUME NEW d \in Nat, NEW e \in Nat, NEW i \in Nat, e <= d + 1, 2 * d < i
    PROVE  2 * e < i + 2
  OBVIOUS

LEMMA NothingBetween == ASSUME NEW i \in Int PROVE \A x \in i..(i - 1) : FALSE
  OBVIOUS

LEMMA RangesJoin ==
    ASSUME NEW a \in Int, NEW b \in Int, NEW c \in Int
    PROVE  \A x \in a..(c - 1) : x \in a..(b - 1) \/ x \in b..(c - 1)
  OBVIOUS

(* A character or two are read, no statement is cut.                        *)
LEMMA MovesKeep ==
    ASSUME SplitInv, Lexed, outer = <<>>, outcome = "Running",
           UNCHANGED vars, UNCHANGED <<start, startLine, statements, outcome>>,
           index \in 1..Len(text), index' \in {index + 1, index + 2}, index' <= Len(text) + 1,
           state' \in States, depth' \in Nat, state' = "BlockComment" <=> depth' > 0,
           2 * depth' < index', line' \in {line, line + 1},
           NamesUnescaped =>
             /\ Placed(state', depth', index') /\ NoCut(index, index' - 1)
             /\ diagnostics = <<>> /\ line = Lines[index] => line' = Lines[index']
    PROVE  SplitInv'
<1>1. /\ Places' = Places /\ Lines' = Lines /\ PiecesBefore' = PiecesBefore
      /\ SemicolonTokens' = SemicolonTokens /\ (NamesUnescaped' <=> NamesUnescaped)
      /\ (Reported' <=> Reported) /\ (Lexed' <=> Lexed) /\ Len(text') = Len(text)
      /\ Statements' = Statements /\ outer' = outer /\ diagnostics' = diagnostics
  BY TextStays
<1>2. start' = start /\ startLine' = startLine /\ statements' = statements /\ outcome' = outcome
  OBVIOUS
<1>3. Tiled /\ (NamesUnescaped => Following)
  BY ReadingIs
<1>4. /\ index \in Nat /\ Len(text) \in Nat /\ start \in 1..index /\ line \in Nat /\ startLine \in 1..line
      /\ statements \in Seq(Statements)
  BY SemicolonsInText, <1>3 DEF SplitInv, Counters, SplitTypeOK
<1>5. LexInv' /\ Reported'
  BY <1>1, LexStutters DEF SplitInv
<1>6. Counters'
  <2>0. index' \in Nat /\ index' > index /\ index' <= Len(text) + 1
    BY <1>4
  <2>4. depth' <= Len(text) /\ depth' \in Nat
    BY <1>4, <2>0, HalfIsLess
  <2>5. start \in 1..index' /\ index' \in 1..(Len(text) + 1)
    BY <1>4, <2>0
  <2>1. depth' \in 0..Len(text') /\ start' \in 1..index' /\ index' \in 1..(Len(text') + 1)
    BY <1>1, <1>2, <1>4, <2>4, <2>5
  <2>2. startLine' \in 1..line' /\ line' \in Nat
    BY <1>2, <1>4
  <2>3. SplitTypeOK'
    BY <2>1, <2>2 DEF SplitTypeOK, States
  <2> QED BY <1>1, <1>2, <1>4, <2>2, <2>3 DEF Counters
<1>7. Waits'
  BY <1>1, <1>4 DEF Waits
<1>8. ASSUME NamesUnescaped' PROVE Following'
  <2>1. Following /\ Placed(state', depth', index') /\ NoCut(index, index' - 1)
    BY <1>1, <1>3, <1>8
  <2>2. <<state', depth', index'>> \in Places
    <3>1. index' \in Nat
      BY <1>4
    <3> QED BY <2>1, <3>1 DEF Places
  <2>3. NoCut(start, index' - 1)
    <3>1. NoCut(start, index - 1)
      BY <2>1 DEF Following
    <3>2. start \in Int /\ index \in Int /\ index' \in Int
      BY <1>4
    <3>3. \A x \in start..(index' - 1) : x \in start..(index - 1) \/ x \in index..(index' - 1)
      BY <3>2, RangesJoin
    <3> QED BY <2>1, <3>1, <3>3 DEF NoCut
  <2>4. NoCut(start, index - 1)'
    BY <1>1, <1>2, <2>3 DEF NoCut
  <2>5. Told' = Told
    BY <1>2 DEF Told, Piece
  <2>6. start' - 1 \in {0} \cup SemicolonTokens' /\ Told' = PiecesBefore'[start']
    BY <1>1, <1>2, <2>1, <2>5 DEF Following
  <2>7. diagnostics' = <<>> =>
        /\ line' = Lines'[index'] /\ startLine' = Lines'[start']
        /\ \A k \in DOMAIN statements' : statements'[k].line = Lines'[statements'[k].first]
    BY <1>1, <1>2, <1>8, <2>1 DEF Following
  <2> QED BY <1>1, <2>2, <2>4, <2>6, <2>7 DEF Following
<1>9. FollowsLexer'
  BY <1>8 DEF FollowsLexer
<1>10. SplitsAtSemicolonTokens' /\ LinesCounted'
  BY <1>2 DEF SplitsAtSemicolonTokens, LinesCounted
<1> QED BY <1>5, <1>6, <1>7, <1>9, <1>10 DEF SplitInv

(* What is common to the steps that read.                                   *)
LEMMA ReadingFacts ==
    ASSUME SplitInv, NEW s, Reading(s)
    PROVE  /\ Lexed /\ outer = <<>> /\ outcome = "Running" /\ state = s /\ s \in States
           /\ Tiled /\ Tells /\ text \in Seq(Chars) /\ Len(text) \in Nat
           /\ index \in 1..Len(text) /\ line \in Nat /\ depth \in Nat /\ 2 * depth < index
           /\ s = "BlockComment" <=> depth > 0
           /\ NamesUnescaped => Following /\ Placed(s, depth, index)
           /\ index < Len(text) => Next2 = text[index + 1]
           /\ ~(index < Len(text)) => Next2 = "None"
<1>1. /\ Lexed /\ outer = <<>> /\ outcome = "Running" /\ state = s /\ index <= Len(text)
  BY DEF Reading
<1>2. Tiled /\ Tells /\ (NamesUnescaped => Following)
  BY <1>1, ReadingIs
<1>3. /\ s \in States /\ depth \in 0..Len(text) /\ (s = "BlockComment" <=> depth > 0)
      /\ index \in 1..(Len(text) + 1) /\ line \in Nat /\ 2 * depth < index
  BY <1>1 DEF SplitInv, Counters, SplitTypeOK, States
<1>4. text \in Seq(Chars) /\ Len(text) \in Nat
  BY <1>2, SemicolonsInText
<1>5. Following => Placed(s, depth, index)
  BY <1>1 DEF Following, Places
<1>6. /\ index < Len(text) => Next2 = text[index + 1]
      /\ ~(index < Len(text)) => Next2 = "None"
  BY DEF Next2
<1>7. index \in 1..Len(text) /\ depth \in Nat
  BY <1>1, <1>3, <1>4
<1> QED BY <1>1, <1>2, <1>3, <1>4, <1>5, <1>6, <1>7

(* Line ends are counted where they are passed.                             *)
LEMMA LineCounts ==
    ASSUME text \in Seq(Chars), index \in 1..Len(text), line \in Nat
    PROVE  /\ Advance(1) => /\ index' = index + 1 /\ line' \in {line, line + 1}
                            /\ line = Lines[index] => line' = Lines[index']
           /\ Advance(2) => /\ index' = index + 2 /\ line' = line
           /\ index < Len(text) /\ text[index] # "Newline" /\ text[index + 1] # "Newline" =>
                Lines[index + 2] = Lines[index]
<1>0. index \in Nat /\ Len(text) \in Nat
  OBVIOUS
<1>1. /\ text[index] = "Newline" => Lines[index + 1] = Lines[index] + 1
      /\ text[index] # "Newline" => Lines[index + 1] = Lines[index]
  BY LinesGrow
<1>2. ASSUME Advance(1)
      PROVE  /\ index' = index + 1 /\ line' \in {line, line + 1}
             /\ line = Lines[index] => line' = Lines[index']
  <2>1. index' = index + 1 /\ line' = IF text[index] = "Newline" THEN line + 1 ELSE line
    BY <1>2 DEF Advance
  <2> QED BY <1>1, <2>1
<1>3. Advance(2) => index' = index + 2 /\ line' = line
  BY DEF Advance
<1>4. ASSUME index < Len(text), text[index] # "Newline", text[index + 1] # "Newline"
      PROVE  Lines[index + 2] = Lines[index]
  <2>1. index + 1 \in 1..Len(text) /\ (index + 1) + 1 = index + 2
    BY <1>0, <1>4
  <2>2. Lines[(index + 1) + 1] = Lines[index + 1]
    BY <1>4, <2>1, LinesGrow
  <2> QED BY <1>1, <1>4, <2>1, <2>2
<1> QED BY <1>2, <1>3, <1>4

LEMMA StartCommentKeeps == ASSUME SplitInv, StartComment PROVE SplitInv'
<1>1. Reading("Normal") /\ text[index] = "Slash" /\ Advance(2)
  BY DEF StartComment
<1>2. /\ Lexed /\ outer = <<>> /\ outcome = "Running" /\ Tiled
      /\ text \in Seq(Chars) /\ Len(text) \in Nat /\ index \in 1..Len(text) /\ line \in Nat
      /\ depth = 0 /\ (NamesUnescaped => Placed("Normal", depth, index))
      /\ index < Len(text) => Next2 = text[index + 1]
      /\ ~(index < Len(text)) => Next2 = "None"
  BY <1>1, ReadingFacts
<1>3. NamesUnescaped => NormalAt(index)
  BY <1>2, NormalIs
<1>4. /\ index' = index + 2 /\ line' = line
      /\ index < Len(text) /\ text[index] # "Newline" /\ text[index + 1] # "Newline" =>
           Lines[index + 2] = Lines[index]
  BY <1>1, <1>2, LineCounts
<1>5. UNCHANGED vars /\ UNCHANGED <<start, startLine, statements, outcome>>
  BY DEF StartComment
<1>6. Next2 \in {"Slash", "Star"}
  BY DEF StartComment
<1>7. index < Len(text) /\ text[index + 1] = Next2
  BY <1>2, <1>6
<1>8. index' \in {index + 1, index + 2} /\ index' <= Len(text) + 1 /\ line' \in {line, line + 1}
      /\ index + 2 - 1 = index + 1
  BY <1>2, <1>4, <1>7
<1>9. CASE Next2 = "Slash"
  <2>1. state' = "LineComment" /\ depth' = 0
    BY <1>2, <1>9 DEF StartComment, Enter
  <2>2. state' \in States /\ depth' \in Nat /\ (state' = "BlockComment" <=> depth' > 0) /\ 2 * depth' < index'
    BY <1>2, <1>4, <2>1 DEF States
  <2>3. NamesUnescaped =>
          /\ Placed(state', depth', index') /\ NoCut(index, index' - 1)
          /\ diagnostics = <<>> /\ line = Lines[index] => line' = Lines[index']
    BY <1>1, <1>2, <1>3, <1>4, <1>7, <1>8, <1>9, <2>1, CommentOpens
  <2> QED BY <1>2, <1>5, <1>8, <2>2, <2>3, MovesKeep
<1>10. CASE Next2 = "Star"
  <2>1. state' = "BlockComment" /\ depth' = 1
    BY <1>2, <1>10 DEF StartComment, Enter
  <2>2. state' \in States /\ depth' \in Nat /\ (state' = "BlockComment" <=> depth' > 0) /\ 2 * depth' < index'
    BY <1>2, <1>4, <2>1 DEF States
  <2>3. NamesUnescaped =>
          /\ Placed(state', depth', index') /\ NoCut(index, index' - 1)
          /\ diagnostics = <<>> /\ line = Lines[index] => line' = Lines[index']
    BY <1>1, <1>2, <1>3, <1>4, <1>7, <1>8, <1>10, <2>1, CommentOpens
  <2> QED BY <1>2, <1>5, <1>8, <2>2, <2>3, MovesKeep
<1> QED BY <1>6, <1>9, <1>10

\* What a step over one character needs that leaves the depth alone.
LEMMA OneKeeps ==
    ASSUME SplitInv, NEW s \in States \ {"BlockComment"}, Reading(s), Advance(1), Still, UNCHANGED vars,
           state' \in States \ {"BlockComment"},
           NamesUnescaped => Placed(state', 0, index + 1) /\ NoCut(index, index)
    PROVE  SplitInv'
<1>1. /\ Lexed /\ outer = <<>> /\ outcome = "Running"
      /\ text \in Seq(Chars) /\ Len(text) \in Nat /\ index \in 1..Len(text) /\ line \in Nat
      /\ depth = 0
  BY ReadingFacts
<1>2. /\ index' = index + 1 /\ line' \in {line, line + 1}
      /\ line = Lines[index] => line' = Lines[index']
  BY <1>1, LineCounts
<1>3. UNCHANGED <<start, startLine, statements, outcome>> /\ depth' = 0
  BY <1>1 DEF Still
<1>4. /\ index' \in {index + 1, index + 2} /\ index' <= Len(text) + 1
      /\ depth' \in Nat /\ 2 * depth' < index' /\ index + 1 - 1 = index
  BY <1>1, <1>2, <1>3
<1>5. state' = "BlockComment" <=> depth' > 0
  BY <1>3
<1>6. ASSUME NamesUnescaped
      PROVE  /\ Placed(state', depth', index') /\ NoCut(index, index' - 1)
             /\ diagnostics = <<>> /\ line = Lines[index] => line' = Lines[index']
  <2>1. Placed(state', depth', index')
    <3>1. Placed(state', 0, index + 1)
      BY <1>6
    <3> QED BY <3>1, <1>2, <1>3
  <2>2. NoCut(index, index' - 1)
    <3>1. index' - 1 = index
      BY <1>1, <1>2
    <3>2. NoCut(index, index)
      BY <1>6
    <3> QED BY <3>1, <3>2
  <2> QED BY <1>2, <2>1, <2>2
<1> QED BY <1>1, <1>2, <1>3, <1>4, <1>5, <1>6, MovesKeep

LEMMA StartQuoteKeeps == ASSUME SplitInv, StartQuote PROVE SplitInv'
<1>1. /\ Reading("Normal") /\ text[index] \in Delimiters /\ state' = text[index] /\ Advance(1)
      /\ Still /\ UNCHANGED vars
  BY DEF StartQuote, Enter
<1>2. /\ text \in Seq(Chars) /\ index \in 1..Len(text) /\ Tiled
      /\ NamesUnescaped => Placed("Normal", depth, index)
  BY <1>1, ReadingFacts
<1>3. NamesUnescaped => Placed(state', 0, index + 1) /\ NoCut(index, index)
  BY <1>1, <1>2, NormalIs, QuoteOpens
<1>4. "Normal" \in States \ {"BlockComment"} /\ state' \in States \ {"BlockComment"}
  BY <1>1 DEF States, Delimiters
<1> QED BY <1>1, <1>3, <1>4, OneKeeps

LEMMA PassKeeps == ASSUME SplitInv, Pass PROVE SplitInv'
<1>1. /\ Reading("Normal") /\ text[index] \notin Delimiters \cup {"Semicolon"}
      /\ ~(text[index] = "Slash" /\ Next2 \in {"Slash", "Star"}) /\ Advance(1)
      /\ Still /\ UNCHANGED vars /\ state' = state
  BY DEF Pass
<1>2. /\ text \in Seq(Chars) /\ index \in 1..Len(text) /\ Tiled /\ state = "Normal"
      /\ NamesUnescaped => Placed("Normal", depth, index)
      /\ index < Len(text) => Next2 = text[index + 1]
  BY <1>1, ReadingFacts
<1>3. NamesUnescaped => Placed(state', 0, index + 1) /\ NoCut(index, index)
  <2>1. ~(text[index] = "Slash" /\ index < Len(text) /\ text[index + 1] \in {"Slash", "Star"})
    BY <1>1, <1>2
  <2>2. state' = "Normal"
    BY <1>1, <1>2
  <2> QED BY <1>1, <1>2, <2>1, <2>2, NormalIs, NormalPasses
<1>4. "Normal" \in States \ {"BlockComment"} /\ state' \in States \ {"BlockComment"}
  BY <1>1, <1>2 DEF States, Delimiters
<1> QED BY <1>1, <1>3, <1>4, OneKeeps

LEMMA InLineCommentKeeps == ASSUME SplitInv, InLineComment PROVE SplitInv'
<1>1. /\ Reading("LineComment") /\ Advance(1) /\ Still /\ UNCHANGED vars
      /\ state' = IF text[index] = "Newline" THEN "Normal" ELSE state
  BY DEF InLineComment
<1>2. /\ text \in Seq(Chars) /\ index \in 1..Len(text) /\ Tiled /\ state = "LineComment"
      /\ NamesUnescaped => Placed("LineComment", depth, index)
  BY <1>1, ReadingFacts
<1>3. Placed("LineComment", depth, index) => InLine(index)
  BY DEF Placed, Delimiters
<1>4. NamesUnescaped => Placed(state', 0, index + 1) /\ NoCut(index, index)
  BY <1>1, <1>2, <1>3, LineGoesOn
<1>5. "LineComment" \in States \ {"BlockComment"} /\ state' \in States \ {"BlockComment"}
  BY <1>1, <1>2 DEF States, Delimiters
<1> QED BY <1>1, <1>4, <1>5, OneKeeps

LEMMA InStringKeeps ==
    ASSUME SplitInv, NEW delimiter \in {"Quote", "DoubleQuote"}, InString(delimiter)
    PROVE  SplitInv'
<1>1. Reading(delimiter) /\ Still /\ UNCHANGED vars
  BY DEF InString
<1>2. /\ Lexed /\ outer = <<>> /\ outcome = "Running" /\ Tiled /\ Tells /\ state = delimiter
      /\ text \in Seq(Chars) /\ Len(text) \in Nat /\ index \in 1..Len(text) /\ line \in Nat
      /\ delimiter \in States \ {"BlockComment"} /\ depth = 0
      /\ NamesUnescaped => Placed(delimiter, depth, index)
      /\ index < Len(text) => Next2 = text[index + 1]
      /\ ~(index < Len(text)) => Next2 = "None"
  <2>1. delimiter # "BlockComment"
    OBVIOUS
  <2> QED BY <1>1, <2>1, ReadingFacts
<1>3. Placed(delimiter, depth, index) => InQuoted(delimiter, index)
  BY DEF Placed
<1>4. UNCHANGED <<start, startLine, statements, outcome>> /\ depth' = 0
  BY <1>1, <1>2 DEF Still
<1>5. CASE text[index] = "Backslash"
  <2>1. index' = index + EscapeWidth /\ line' = line /\ state' = delimiter
    BY <1>2, <1>5 DEF InString
  <2>2. /\ state' \in States /\ depth' \in Nat /\ (state' = "BlockComment" <=> depth' > 0)
        /\ line' \in {line, line + 1}
    BY <1>2, <1>4, <2>1
  <2>3. CASE index < Len(text)
    <3>1. Next2 # "None"
      BY <1>2, <2>3 DEF Chars, Delimiters, Letters, HexDigits, Spaces
    <3>2. index' = index + 2
      BY <2>1, <3>1 DEF EscapeWidth
    <3>3. /\ index' \in {index + 1, index + 2} /\ index' <= Len(text) + 1
          /\ 2 * depth' < index' /\ index' - 1 = index + 1
      BY <1>2, <1>4, <2>3, <3>2
    <3>4. ASSUME NamesUnescaped
          PROVE  /\ Placed(state', depth', index') /\ NoCut(index, index' - 1)
                 /\ diagnostics = <<>> /\ line = Lines[index] => line' = Lines[index']
      <4>1. InQuoted(delimiter, index)
        BY <1>2, <1>3, <3>4
      <4>2. /\ Placed(delimiter, 0, index + 2) /\ NoCut(index, index + 1)
            /\ text[index + 1] = "Newline" => \E p \in Starts : IsError(Raw(p))
        BY <1>2, <1>5, <2>3, <4>1, StringGoesOn
      <4>3. Placed(state', depth', index') /\ NoCut(index, index' - 1)
        BY <1>4, <2>1, <3>2, <3>3, <4>2
      <4>4. diagnostics = <<>> => text[index + 1] # "Newline"
        BY <1>2, <4>2 DEF Tells
      <4>5. text[index] # "Newline"
        BY <1>5
      <4>6. diagnostics = <<>> => Lines[index + 2] = Lines[index]
        BY <1>2, <2>3, <4>4, <4>5, LineCounts
      <4> QED BY <2>1, <3>2, <4>3, <4>6
    <3> QED BY <1>1, <1>2, <1>4, <2>2, <3>3, <3>4, MovesKeep
  <2>4. CASE ~(index < Len(text))
    <3>1. index' = index + 1 /\ index = Len(text)
      BY <1>2, <2>1, <2>4 DEF EscapeWidth
    <3>3. /\ index' \in {index + 1, index + 2} /\ index' <= Len(text) + 1
          /\ 2 * depth' < index' /\ index' - 1 = index
      BY <1>2, <1>4, <3>1
    <3>4. ASSUME NamesUnescaped
          PROVE  /\ Placed(state', depth', index') /\ NoCut(index, index' - 1)
                 /\ diagnostics = <<>> /\ line = Lines[index] => line' = Lines[index']
      <4>1. InQuoted(delimiter, index)
        BY <1>2, <1>3, <3>4
      <4>2. Placed(delimiter, 0, index + 1) /\ NoCut(index, index)
        BY <1>2, <1>5, <3>1, <4>1, StringGoesOn
      <4>3. Placed(state', depth', index') /\ NoCut(index, index' - 1)
        BY <1>4, <2>1, <3>1, <3>3, <4>2
      <4>4. text[index] # "Newline"
        BY <1>5
      <4>5. Lines[index + 1] = Lines[index]
        BY <1>2, <4>4, LinesGrow
      <4> QED BY <2>1, <3>1, <4>3, <4>5
    <3> QED BY <1>1, <1>2, <1>4, <2>2, <3>3, <3>4, MovesKeep
  <2> QED BY <2>3, <2>4
<1>6. CASE text[index] # "Backslash"
  <2>1. Advance(1) /\ state' = IF text[index] = delimiter THEN "Normal" ELSE delimiter
    BY <1>2, <1>6 DEF InString
  <2>2. state' \in States \ {"BlockComment"}
    BY <1>2, <2>1 DEF States
  <2>3. ASSUME NamesUnescaped PROVE Placed(state', 0, index + 1) /\ NoCut(index, index)
    <3>1. InQuoted(delimiter, index)
      BY <1>2, <1>3, <2>3
    <3>2. /\ text[index] = delimiter => Placed("Normal", 0, index + 1) /\ NoCut(index, index)
          /\ text[index] \notin {delimiter, "Backslash"} =>
                Placed(delimiter, 0, index + 1) /\ NoCut(index, index)
      BY <1>2, <3>1, StringGoesOn
    <3> QED BY <1>6, <2>1, <3>2
  <2> QED BY <1>1, <1>2, <2>1, <2>2, <2>3, OneKeeps
<1> QED BY <1>5, <1>6

LEMMA InBacktickKeeps == ASSUME SplitInv, InBacktick PROVE SplitInv'
<1>1. Reading("Tick") /\ Still /\ UNCHANGED vars
  BY DEF InBacktick
<1>2. /\ Lexed /\ outer = <<>> /\ outcome = "Running" /\ Tiled /\ Tells /\ state = "Tick"
      /\ text \in Seq(Chars) /\ Len(text) \in Nat /\ index \in 1..Len(text) /\ line \in Nat
      /\ depth = 0 /\ (NamesUnescaped => Placed("Tick", depth, index))
      /\ index < Len(text) => Next2 = text[index + 1]
      /\ ~(index < Len(text)) => Next2 = "None"
  BY <1>1, ReadingFacts
<1>3. Placed("Tick", depth, index) => InQuoted("Tick", index)
  BY DEF Placed
<1>4. UNCHANGED <<start, startLine, statements, outcome>> /\ depth' = 0
  BY <1>1, <1>2 DEF Still
<1>5. DoubledTick <=> text[index] = "Tick" /\ index < Len(text) /\ text[index + 1] = "Tick"
  BY <1>2 DEF DoubledTick
<1>6. CASE DoubledTick
  <2>1. Advance(2) /\ state' = "Tick"
    BY <1>2, <1>6 DEF InBacktick
  <2>2. /\ index' = index + 2 /\ line' = line
        /\ index < Len(text) /\ text[index] # "Newline" /\ text[index + 1] # "Newline" =>
             Lines[index + 2] = Lines[index]
    BY <1>2, <2>1, LineCounts
  <2>3. /\ state' \in States /\ depth' \in Nat /\ (state' = "BlockComment" <=> depth' > 0)
        /\ line' \in {line, line + 1}
    BY <1>4, <2>1, <2>2 DEF States, Delimiters
  <2>4. /\ index' \in {index + 1, index + 2} /\ index' <= Len(text) + 1
        /\ 2 * depth' < index' /\ index' - 1 = index + 1
    BY <1>2, <1>4, <1>5, <1>6, <2>2
  <2>5. ASSUME NamesUnescaped
        PROVE  /\ Placed(state', depth', index') /\ NoCut(index, index' - 1)
               /\ diagnostics = <<>> /\ line = Lines[index] => line' = Lines[index']
    <3>1. InQuoted("Tick", index)
      BY <1>2, <1>3, <2>5
    <3>2. Placed("Tick", 0, index + 2) /\ NoCut(index, index + 1)
      BY <1>2, <1>5, <1>6, <2>5, <3>1, NameGoesOn
    <3>3. Placed(state', depth', index') /\ NoCut(index, index' - 1)
      BY <1>4, <2>1, <2>2, <2>4, <3>2
    <3> QED BY <1>5, <1>6, <2>2, <3>3
  <2> QED BY <1>1, <1>2, <1>4, <2>3, <2>4, <2>5, MovesKeep
<1>7. CASE ~DoubledTick
  <2>1. Advance(1) /\ state' = IF text[index] = "Tick" THEN "Normal" ELSE "Tick"
    BY <1>2, <1>7 DEF InBacktick
  <2>2. "Tick" \in States \ {"BlockComment"} /\ state' \in States \ {"BlockComment"}
    BY <2>1 DEF States, Delimiters
  <2>3. ASSUME NamesUnescaped PROVE Placed(state', 0, index + 1) /\ NoCut(index, index)
    <3>1. InQuoted("Tick", index)
      BY <1>2, <1>3, <2>3
    <3>2. /\ text[index] = "Tick" => Placed("Normal", 0, index + 1) /\ NoCut(index, index)
          /\ text[index] # "Tick" => Placed("Tick", 0, index + 1) /\ NoCut(index, index)
      BY <1>2, <1>5, <1>7, <2>3, <3>1, NameGoesOn
    <3> QED BY <2>1, <3>2
  <2> QED BY <1>1, <2>1, <2>2, <2>3, OneKeeps
<1> QED BY <1>6, <1>7

LEMMA InBlockCommentKeeps == ASSUME SplitInv, InBlockComment PROVE SplitInv'
<1> DEFINE Pair(a, b) == text[index] = a /\ index < Len(text) /\ text[index + 1] = b
<1>1. Reading("BlockComment") /\ UNCHANGED vars /\ UNCHANGED <<start, startLine, statements, outcome>>
  BY DEF InBlockComment
<1>2. /\ Lexed /\ outer = <<>> /\ outcome = "Running" /\ Tiled /\ state = "BlockComment"
      /\ text \in Seq(Chars) /\ Len(text) \in Nat /\ index \in 1..Len(text) /\ line \in Nat
      /\ depth \in Nat /\ depth > 0 /\ 2 * depth < index
      /\ NamesUnescaped => Placed("BlockComment", depth, index)
      /\ index < Len(text) => Next2 = text[index + 1]
      /\ ~(index < Len(text)) => Next2 = "None"
  BY <1>1, ReadingFacts
<1>3. Placed("BlockComment", depth, index) => InBlock(depth, index)
  BY DEF Placed, Delimiters
<1>4. /\ text[index] = "Slash" /\ Next2 = "Star" <=> Pair("Slash", "Star")
      /\ text[index] = "Star" /\ Next2 = "Slash" <=> Pair("Star", "Slash")
  BY <1>2
<1>5. ASSUME NamesUnescaped
      PROVE  /\ index < Len(text) => NoCut(index, index + 1)
             /\ NoCut(index, index)
             /\ Pair("Slash", "Star") => Placed("BlockComment", depth + 1, index + 2)
             /\ Pair("Star", "Slash") /\ depth = 1 => Placed("Normal", 0, index + 2)
             /\ Pair("Star", "Slash") /\ depth # 1 => Placed("BlockComment", depth - 1, index + 2)
             /\ ~Pair("Slash", "Star") /\ ~Pair("Star", "Slash") =>
                  Placed("BlockComment", depth, index + 1)
  BY <1>2, <1>3, <1>5, BlockGoesOn
<1>6. CASE Pair("Slash", "Star") \/ Pair("Star", "Slash")
  <2>1. /\ Advance(2)
        /\ Pair("Slash", "Star") => depth' = depth + 1 /\ state' = "BlockComment"
        /\ ~Pair("Slash", "Star") =>
             depth' = depth - 1 /\ state' = IF depth = 1 THEN "Normal" ELSE "BlockComment"
    BY <1>2, <1>4, <1>6 DEF InBlockComment, Deeper
  <2>2. /\ index' = index + 2 /\ line' = line
        /\ index < Len(text) /\ text[index] # "Newline" /\ text[index + 1] # "Newline" =>
             Lines[index + 2] = Lines[index]
    BY <1>2, <2>1, LineCounts
  <2>3. /\ state' \in States /\ depth' \in Nat /\ (state' = "BlockComment" <=> depth' > 0)
        /\ line' \in {line, line + 1} /\ depth' <= depth + 1
    BY <1>2, <2>1, <2>2 DEF States
  <2>4. /\ index' \in {index + 1, index + 2} /\ index' <= Len(text) + 1
        /\ 2 * depth' < index' /\ index' - 1 = index + 1
    <3>1. index < Len(text)
      BY <1>6
    <3>2. index \in Nat /\ depth' \in Nat /\ depth' <= depth + 1
      BY <1>2, <2>3
    <3>3. 2 * depth' < index + 2
      BY <1>2, <3>2, HalfMore
    <3> HIDE DEF Pair
    <3> QED BY <1>2, <2>2, <3>1, <3>3
  <2>5. ASSUME NamesUnescaped
        PROVE  /\ Placed(state', depth', index') /\ NoCut(index, index' - 1)
               /\ diagnostics = <<>> /\ line = Lines[index] => line' = Lines[index']
    <3>1. Placed(state', depth', index + 2)
      <4>1. CASE Pair("Slash", "Star")
        BY <1>5, <2>1, <2>5, <4>1
      <4>2. CASE ~Pair("Slash", "Star") /\ depth = 1
        BY <1>5, <1>6, <2>1, <2>5, <4>2
      <4>3. CASE ~Pair("Slash", "Star") /\ depth # 1
        BY <1>5, <1>6, <2>1, <2>5, <4>3
      <4> QED BY <4>1, <4>2, <4>3
    <3>2. NoCut(index, index + 1)
      BY <1>5, <1>6, <2>5
    <3>3. NoCut(index, index' - 1) /\ Placed(state', depth', index')
      BY <2>2, <2>4, <3>1, <3>2
    <3> QED BY <1>6, <2>2, <3>3
  <2> HIDE DEF Pair
  <2> QED BY <1>1, <1>2, <2>3, <2>4, <2>5, MovesKeep
<1>7. CASE ~Pair("Slash", "Star") /\ ~Pair("Star", "Slash")
  <2>1. Advance(1) /\ depth' = depth /\ state' = "BlockComment"
    BY <1>2, <1>4, <1>7 DEF InBlockComment
  <2>2. /\ index' = index + 1 /\ line' \in {line, line + 1}
        /\ line = Lines[index] => line' = Lines[index']
    BY <1>2, <2>1, LineCounts
  <2>3. /\ state' \in States /\ depth' \in Nat /\ (state' = "BlockComment" <=> depth' > 0)
    BY <1>2, <2>1 DEF States
  <2>4. /\ index' \in {index + 1, index + 2} /\ index' <= Len(text) + 1
        /\ 2 * depth' < index' /\ index' - 1 = index
    BY <1>2, <2>1, <2>2
  <2>5. ASSUME NamesUnescaped
        PROVE  /\ Placed(state', depth', index') /\ NoCut(index, index' - 1)
               /\ diagnostics = <<>> /\ line = Lines[index] => line' = Lines[index']
    <3>1. Placed("BlockComment", depth, index + 1) /\ NoCut(index, index)
      BY <1>5, <1>7, <2>5
    <3>3. NoCut(index, index' - 1) /\ Placed(state', depth', index')
      BY <2>1, <2>2, <2>4, <3>1
    <3> QED BY <2>2, <3>3
  <2> HIDE DEF Pair
  <2> QED BY <1>1, <1>2, <2>2, <2>3, <2>4, <2>5, MovesKeep
<1> QED BY <1>6, <1>7

(* What is between two semicolons is added as a statement, with its line,   *)
(* unless it is blank.                                                      *)
LEMMA TrimmedAdds ==
    ASSUME text \in Seq(Chars), statements \in Seq(Statements), startLine \in Nat,
           start \in 1..(Len(text) + 1), NEW to \in Nat, statements' = statements \o Trimmed(start, to)
    PROVE  /\ statements' \in Seq(Statements)
           /\ Told' = Told \cup IF IsBlank(start, to) THEN {} ELSE {Piece(start, to)}
           /\ \A k \in DOMAIN statements' :
                \/ k \in DOMAIN statements /\ statements'[k] = statements[k]
                \/ statements'[k].first = start /\ statements'[k].line = startLine
<1> DEFINE ts == statements'
<1>0. Told' = {Piece(ts[k].first, ts[k].last) : k \in DOMAIN ts}
  BY DEF Told, Piece
<1> HIDE DEF ts
<1>9. ts = statements \o Trimmed(start, to)
  BY DEF ts
<1>1. CASE IsBlank(start, to)
  <2>1. ts = statements
    BY <1>1, <1>9 DEF Trimmed
  <2>2. {Piece(ts[k].first, ts[k].last) : k \in DOMAIN ts} = Told
    BY <2>1 DEF Told
  <2> QED BY <1>0, <1>1, <2>1, <2>2 DEF ts
<1>2. CASE ~IsBlank(start, to)
  <2> DEFINE new == [line |-> startLine, first |-> start, last |-> to]
             n == Len(statements)
  <2>1. new \in Statements
    BY DEF Statements
  <2>2. Trimmed(start, to) = <<new>>
    BY <1>2 DEF Trimmed
  <2>3. new.first = start /\ new.last = to /\ new.line = startLine
    OBVIOUS
  <2> HIDE DEF new
  <2>4. /\ ts \in Seq(Statements) /\ n \in Nat /\ Len(ts) = n + 1
        /\ ts[n + 1] = new /\ \A k \in 1..n : ts[k] = statements[k]
    BY <1>9, <2>1, <2>2
  <2>5. DOMAIN ts = 1..(n + 1) /\ DOMAIN statements = 1..n
    BY <2>4
  <2>6. \A k \in 1..(n + 1) : k \in 1..n \/ k = n + 1
    BY <2>4
  <2>7. n + 1 \in 1..(n + 1) /\ \A k \in 1..n : k \in 1..(n + 1)
    BY <2>4
  <2> HIDE DEF n
  <2>8. {Piece(ts[k].first, ts[k].last) : k \in DOMAIN ts} = Told \cup {Piece(start, to)}
    <3>1. \A k \in 1..(n + 1) :
             Piece(ts[k].first, ts[k].last) \in Told \cup {Piece(start, to)}
      BY <2>3, <2>4, <2>5, <2>6 DEF Told
    <3>2. Piece(start, to) = Piece(ts[n + 1].first, ts[n + 1].last)
      BY <2>3, <2>4
    <3>3. \A k \in 1..n : Piece(statements[k].first, statements[k].last) = Piece(ts[k].first, ts[k].last)
      BY <2>4
    <3> QED BY <2>5, <2>7, <3>1, <3>2, <3>3 DEF Told
  <2>9. \A k \in DOMAIN ts :
          \/ k \in DOMAIN statements /\ ts[k] = statements[k]
          \/ ts[k].first = start /\ ts[k].line = startLine
    BY <2>3, <2>4, <2>5, <2>6
  <2> QED BY <1>0, <1>2, <2>4, <2>8, <2>9 DEF ts
<1> QED BY <1>1, <1>2

LEMMA CutKeeps == ASSUME SplitInv, Cut PROVE SplitInv'
<1>1. /\ Reading("Normal") /\ text[index] = "Semicolon" /\ Advance(1)
      /\ statements' = statements \o Trimmed(start, index - 1)
      /\ start' = index + 1 /\ startLine' = line
      /\ UNCHANGED vars /\ state' = state /\ depth' = depth /\ outcome' = outcome
  BY DEF Cut
<1>2. /\ Lexed /\ outer = <<>> /\ outcome = "Running" /\ Tiled /\ state = "Normal"
      /\ text \in Seq(Chars) /\ Len(text) \in Nat /\ index \in 1..Len(text) /\ line \in Nat
      /\ depth = 0 /\ (NamesUnescaped => Following /\ Placed("Normal", depth, index))
  BY <1>1, ReadingFacts
<1>3. /\ Places' = Places /\ Lines' = Lines /\ PiecesBefore' = PiecesBefore
      /\ SemicolonTokens' = SemicolonTokens /\ (NamesUnescaped' <=> NamesUnescaped)
      /\ (Reported' <=> Reported) /\ (Lexed' <=> Lexed) /\ Len(text') = Len(text)
      /\ Statements' = Statements /\ outer' = outer /\ diagnostics' = diagnostics
  BY <1>1, TextStays
<1>4. index' = index + 1 /\ line' = line
  BY <1>1, <1>2 DEF Advance
<1>5. /\ start \in 1..index /\ startLine \in 1..line /\ statements \in Seq(Statements)
      /\ start \in 1..(Len(text) + 1) /\ startLine \in Nat /\ index - 1 \in Nat
  BY <1>2 DEF SplitInv, Counters, SplitTypeOK
<1>6. /\ statements' \in Seq(Statements)
      /\ Told' = Told \cup IF IsBlank(start, index - 1) THEN {} ELSE {Piece(start, index - 1)}
      /\ \A k \in DOMAIN statements' :
           \/ k \in DOMAIN statements /\ statements'[k] = statements[k]
           \/ statements'[k].first = start /\ statements'[k].line = startLine
  <2>1. text \in Seq(Chars) /\ statements' = statements \o Trimmed(start, index - 1)
    BY <1>1, <1>2
  <2> QED BY <1>5, <2>1, TrimmedAdds
<1>7. LexInv' /\ Reported'
  BY <1>1, <1>3, LexStutters DEF SplitInv
<1>8. Counters'
  <2>1. 2 * depth' < index'
    BY <1>1, <1>2, <1>4
  <2>2. /\ state' = "Normal" /\ depth' = 0 /\ 0 \in 0..Len(text')
        /\ start' \in 1..index' /\ index' \in 1..(Len(text') + 1) /\ line' \in Nat
    BY <1>1, <1>2, <1>3, <1>4
  <2>3. startLine' \in 1..line'
    BY <1>1, <1>2, <1>4, <1>5
  <2>4. SplitTypeOK'
    BY <2>2, <2>3 DEF SplitTypeOK
  <2> QED BY <1>1, <1>2, <1>3, <1>6, <2>1, <2>2, <2>4 DEF Counters
<1>9. Waits'
  <2>1. index' # 1
    BY <1>2, <1>4
  <2> QED BY <1>2, <1>3, <2>1 DEF Waits
<1>10. ASSUME NamesUnescaped' PROVE Following'
  <2>0. NamesUnescaped /\ Following /\ NormalAt(index)
    BY <1>2, <1>3, <1>10, NormalIs
  <2>1. Placed("Normal", 0, index + 1) /\ index \in SemicolonTokens
    BY <1>1, <1>2, <2>0, SemicolonCuts
  <2>2. <<state', depth', index'>> \in Places
    BY <1>1, <1>2, <1>4, <2>1 DEF Places, States
  <2>3. start' - 1 \in SemicolonTokens /\ NoCut(start, index - 1)'
    <3>1. start' - 1 = index /\ start' = index' /\ index' \in Int
      BY <1>1, <1>2, <1>4
    <3>2. NoCut(index, index - 1)'
      BY <3>1, NothingBetween DEF NoCut
    <3>3. NoCut(start, index - 1)'
      BY <3>1, <3>2 DEF NoCut
    <3> QED BY <2>1, <3>1, <3>3
  <2>4. Told' = PiecesBefore[index + 1]
    <3>1. /\ start - 1 \in {0} \cup SemicolonTokens /\ NoCut(start, index - 1)
          /\ Told = PiecesBefore[start]
      BY <2>0 DEF Following
    <3>2. index \in start..(Len(text) + 1)
      BY <1>2, <1>5
    <3>3. PiecesBefore[index + 1]
            = PiecesBefore[start] \cup IF IsBlank(start, index - 1) THEN {} ELSE {Piece(start, index - 1)}
      BY <1>2, <1>5, <2>1, <3>1, <3>2, PiecesGrow
    <3> QED BY <1>6, <3>1, <3>3
  <2>5. ASSUME diagnostics' = <<>>
        PROVE  /\ line' = Lines'[index'] /\ startLine' = Lines'[start']
               /\ \A k \in DOMAIN statements' : statements'[k].line = Lines'[statements'[k].first]
    <3>1. /\ line = Lines[index] /\ startLine = Lines[start]
          /\ \A k \in DOMAIN statements : statements[k].line = Lines[statements[k].first]
      BY <1>3, <2>0, <2>5 DEF Following
    <3>2. text[index] # "Newline"
      BY <1>1
    <3>3. Lines[index + 1] = Lines[index]
      BY <1>2, <3>2, LinesGrow
    <3>4. \A k \in DOMAIN statements' : statements'[k].line = Lines[statements'[k].first]
      BY <1>6, <3>1
    <3> QED BY <1>1, <1>3, <1>4, <3>1, <3>3, <3>4
  <2> QED BY <1>1, <1>3, <2>2, <2>3, <2>4, <2>5 DEF Following
<1>11. FollowsLexer'
  BY <1>10 DEF FollowsLexer
<1>12. SplitsAtSemicolonTokens' /\ LinesCounted'
  BY <1>1, <1>2 DEF SplitsAtSemicolonTokens, LinesCounted
<1> QED BY <1>7, <1>8, <1>9, <1>11, <1>12 DEF SplitInv

(* The two properties, as the statements told so far.                       *)
LEMMA AgreementIs ==
    AgreesWithLexer <=>
        /\ (outcome = "Err") = (\E k \in DOMAIN diagnostics : diagnostics[k].kind = "Unterminated")
        /\ outcome = "Ok" => Told = AllPieces
  BY DEF AgreesWithLexer, Told, Piece, AllPieces

LEMMA LinesAre ==
    ASSUME text \in Seq(Chars), statements \in Seq(Statements)
    PROVE  LinesCounted <=>
             ((outcome # "Running" /\ NamesUnescaped /\ diagnostics = <<>>) =>
                \A k \in DOMAIN statements : statements[k].line = Lines[statements[k].first])
<1>1. \A k \in DOMAIN statements : statements[k].first \in 1..(Len(text) + 1)
  <2>1. \A k \in DOMAIN statements : statements[k] \in Statements
    OBVIOUS
  <2> QED BY <2>1 DEF Statements
<1>2. \A k \in DOMAIN statements : Lines[statements[k].first] =
        1 + Cardinality({n \in 1..(statements[k].first - 1) : text[n] = "Newline"})
  BY <1>1 DEF Lines
<1> QED BY <1>2 DEF LinesCounted

\* What is left to show of the last step.
LEMMA Finishes ==
    ASSUME text \in Seq(Chars), UNCHANGED vars, LexInv', Reported', SplitTypeOK,
           line \in Nat, 2 * depth < index, UNCHANGED <<state, depth, index, start, startLine, line>>,
           statements' \in Seq(Statements), outcome' \in {"Ok", "Err"},
           NamesUnescaped =>
             /\ (outcome' = "Err") = (\E k \in DOMAIN diagnostics : diagnostics[k].kind = "Unterminated")
             /\ outcome' = "Ok" => Told' = AllPieces
             /\ diagnostics = <<>> =>
                  \A k \in DOMAIN statements' : statements'[k].line = Lines[statements'[k].first],
           Lexed, outer = <<>>
    PROVE  SplitInv'
<1>1. /\ Lines' = Lines /\ (NamesUnescaped' <=> NamesUnescaped) /\ (Lexed' <=> Lexed)
      /\ Statements' = Statements /\ outer' = outer /\ diagnostics' = diagnostics
      /\ AllPieces' = AllPieces
  BY TextStays
<1>2. text' = text
  BY DEF vars
<1>3. Counters'
  <2>1. SplitTypeOK'
    BY <1>2 DEF SplitTypeOK
  <2> QED BY <1>1, <2>1 DEF Counters
<1>4. Waits'
  BY <1>1 DEF Waits
<1>5. FollowsLexer'
  BY DEF FollowsLexer
<1>6. SplitsAtSemicolonTokens'
  <2>1. (AgreesWithLexer <=>
          /\ (outcome = "Err") = (\E k \in DOMAIN diagnostics : diagnostics[k].kind = "Unterminated")
          /\ outcome = "Ok" => Told = AllPieces)'
    BY AgreementIs, PTL
  <2>2. NamesUnescaped' => AgreesWithLexer'
    BY <1>1, <2>1
  <2> QED BY <2>2 DEF SplitsAtSemicolonTokens
<1>7. LinesCounted'
  <2>1. (text \in Seq(Chars) /\ statements \in Seq(Statements) =>
          (LinesCounted <=>
             ((outcome # "Running" /\ NamesUnescaped /\ diagnostics = <<>>) =>
                \A k \in DOMAIN statements : statements[k].line = Lines[statements[k].first])))'
    BY LinesAre, PTL
  <2> QED BY <1>1, <1>2, <2>1
<1> QED BY <1>3, <1>4, <1>5, <1>6, <1>7 DEF SplitInv

LEMMA FinishKeeps == ASSUME SplitInv, Finish PROVE SplitInv'
<1>1. /\ Lexed /\ outer = <<>> /\ outcome = "Running" /\ index > Len(text) /\ UNCHANGED vars
      /\ state' = state /\ depth' = depth /\ index' = index /\ start' = start
      /\ startLine' = startLine /\ line' = line
  BY DEF Finish
<1>2. Tiled /\ Tells /\ (NamesUnescaped => Following)
  BY <1>1, ReadingIs
<1>3. /\ text \in Seq(Chars) /\ Len(text) \in Nat /\ index = Len(text) + 1 /\ start \in 1..index
      /\ startLine \in Nat /\ statements \in Seq(Statements) /\ start \in 1..(Len(text) + 1)
      /\ SplitTypeOK /\ line \in Nat /\ 2 * depth < index
  BY <1>1, <1>2, SemicolonsInText DEF SplitInv, Counters, SplitTypeOK
<1>4. /\ Places' = Places /\ Lines' = Lines /\ PiecesBefore' = PiecesBefore
      /\ SemicolonTokens' = SemicolonTokens /\ (NamesUnescaped' <=> NamesUnescaped)
      /\ (Reported' <=> Reported) /\ (Lexed' <=> Lexed) /\ Len(text') = Len(text)
      /\ Statements' = Statements /\ outer' = outer /\ diagnostics' = diagnostics
      /\ AllPieces' = AllPieces
  BY <1>1, TextStays
<1>5. LexInv' /\ Reported'
  BY <1>1, <1>4, LexStutters DEF SplitInv
<1>6. CASE state \in {"Normal", "LineComment"}
  <2>1. outcome' = "Ok" /\ statements' = statements \o Trimmed(start, Len(text))
    BY <1>6 DEF Finish
  <2> DEFINE new == IF IsBlank(start, Len(text)) THEN {} ELSE {Piece(start, Len(text))}
  <2>2. /\ statements' \in Seq(Statements)
        /\ Told' = Told \cup new
        /\ \A k \in DOMAIN statements' :
             \/ k \in DOMAIN statements /\ statements'[k] = statements[k]
             \/ statements'[k].first = start /\ statements'[k].line = startLine
    BY <1>3, <2>1, TrimmedAdds
  <2>3. ASSUME NamesUnescaped
        PROVE  /\ ~\E k \in DOMAIN diagnostics : diagnostics[k].kind = "Unterminated"
               /\ Told' = AllPieces
               /\ diagnostics = <<>> =>
                    \A k \in DOMAIN statements' : statements'[k].line = Lines[statements'[k].first]
    <3>1. Following
      BY <1>2, <2>3
    <3>2. Placed(state, depth, Len(text) + 1)
      BY <1>3, <3>1 DEF Following, Places
    <3>3. \A p \in Starts : Raw(p).kind # "Unterminated"
      BY <1>2, <1>6, <3>2, EndsAlike
    <3>4. ~\E k \in DOMAIN diagnostics : diagnostics[k].kind = "Unterminated"
      BY <1>2, <3>3 DEF Tells
    <3>5. AllPieces = PiecesBefore[start] \cup new
      <4>1. start - 1 \in {0} \cup SemicolonTokens /\ NoCut(start, Len(text))
        <5>1. index - 1 = Len(text)
          BY <1>3
        <5> QED BY <3>1, <5>1 DEF Following
      <4>2. Len(text) + 1 \in start..(Len(text) + 1) /\ (Len(text) + 1) - 1 = Len(text)
        BY <1>3
      <4>3. NoCut(start, (Len(text) + 1) - 1)
        BY <4>1, <4>2
      <4>4. AllPieces = PiecesBefore[start] \cup
              IF IsBlank(start, (Len(text) + 1) - 1) THEN {} ELSE {Piece(start, (Len(text) + 1) - 1)}
        BY <1>2, <1>3, <4>1, <4>2, <4>3, PiecesGrow
      <4> QED BY <4>2, <4>4
    <3>6. Told = PiecesBefore[start]
      BY <3>1 DEF Following
    <3>7. ASSUME diagnostics = <<>>
          PROVE  \A k \in DOMAIN statements' : statements'[k].line = Lines[statements'[k].first]
      <4>1. /\ startLine = Lines[start]
            /\ \A k \in DOMAIN statements : statements[k].line = Lines[statements[k].first]
        BY <3>1, <3>7 DEF Following
      <4> QED BY <2>2, <4>1
    <3> HIDE DEF new
    <3> QED BY <2>2, <3>4, <3>5, <3>6, <3>7
  <2>4. outcome' = "Ok" /\ outcome' # "Err" /\ outcome' \in {"Ok", "Err"}
    BY <2>1
  <2> HIDE DEF new
  <2> QED BY <1>1, <1>3, <1>4, <1>5, <2>2, <2>3, <2>4, Finishes
<1>7. CASE state \notin {"Normal", "LineComment"}
  <2>1. outcome' = "Err" /\ statements' = statements
    BY <1>7 DEF Finish
  <2>2. ASSUME NamesUnescaped
        PROVE  /\ \E k \in DOMAIN diagnostics : diagnostics[k].kind = "Unterminated"
               /\ diagnostics = <<>> =>
                    \A k \in DOMAIN statements' : statements'[k].line = Lines[statements'[k].first]
    <3>1. Following
      BY <1>2, <2>2
    <3>2. Placed(state, depth, Len(text) + 1)
      BY <1>3, <3>1 DEF Following, Places
    <3>3. \E p \in Starts : Raw(p).kind = "Unterminated"
      BY <1>2, <1>7, <3>2, EndsAlike
    <3>4. \E k \in DOMAIN diagnostics : diagnostics[k].kind = "Unterminated"
      BY <1>2, <3>3 DEF Tells
    <3> QED BY <2>1, <3>1, <3>4 DEF Following
  <2>3. outcome' = "Err" /\ outcome' # "Ok" /\ outcome' \in {"Ok", "Err"}
    BY <2>1
  <2>4. statements' \in Seq(Statements)
    BY <1>3, <2>1
  <2> QED BY <1>1, <1>3, <1>4, <1>5, <2>2, <2>3, <2>4, Finishes
<1> QED BY <1>6, <1>7

\* What is left to show of a step of the lexer: the splitter has not started.
LEMMA NotStarted ==
    ASSUME SplitInv, UNCHANGED splitVars, text' = text, LexInv', Reported', index = 1, outcome = "Running"
    PROVE  SplitInv'
<1>1. /\ state' = state /\ depth' = depth /\ index' = index /\ start' = start /\ startLine' = startLine
      /\ line' = line /\ statements' = statements /\ outcome' = outcome
  BY DEF splitVars
<1>2. Counters'
  <2>1. SplitTypeOK'
    BY <1>1 DEF SplitInv, Counters, SplitTypeOK
  <2>2. Statements' = Statements
    BY DEF Statements
  <2> QED BY <1>1, <2>1, <2>2 DEF SplitInv, Counters
<1>3. Waits'
  <2>1. Fresh
    BY DEF SplitInv, Waits
  <2>2. Fresh'
    BY <1>1, <2>1 DEF Fresh
  <2> QED BY <1>1, <2>2 DEF Waits
<1>4. FollowsLexer'
  BY <1>1 DEF FollowsLexer
<1>5. SplitsAtSemicolonTokens' /\ LinesCounted'
  BY <1>1 DEF SplitsAtSemicolonTokens, LinesCounted
<1> QED BY <1>2, <1>3, <1>4, <1>5 DEF SplitInv

LEMMA LexKeeps == ASSUME SplitInv, Lex PROVE SplitInv'
<1> DEFINE token == NextToken(position, last)
<1>1. LexToken /\ UNCHANGED splitVars
  BY DEF Lex
<1>2. LexInv
  BY DEF SplitInv
<1>3. /\ position \in first..last /\ first \in Nat /\ last \in 0..Len(text)
      /\ token \in Tokens /\ token.first = position
      /\ tokens' = Append(tokens, Clean(token))
      /\ diagnostics' = IF IsError(token) THEN Append(diagnostics, token) ELSE diagnostics
      /\ text' = text /\ last' = last
  BY <1>1, <1>2, LexTokenIs
<1>4. LexInv'
  BY <1>1, <1>2, LexTokenKeeps
<1>5. index = 1 /\ outcome = "Running"
  <2>1. ~Lexed
    <3>1. position \in Int /\ last \in Int /\ position <= last
      BY <1>3
    <3> QED BY <3>1 DEF Lexed
  <2> QED BY <2>1 DEF SplitInv, Waits
<1>6. Reported'
  <2>1. Raws' = Raws
    BY <1>3, RawsStay
  <2>2. token = Raws[<<position, last>>] /\ Clean(token).first = position
    <3>1. <<position, last>> \in (1..Len(text)) \X (0..Len(text))
      <4>1. first >= 1 /\ Len(text) \in Nat
        BY <1>2 DEF LexInv, TypeOK
      <4> HIDE DEF token
      <4> QED BY <1>3, <4>1
    <3>2. Raws[<<position, last>>] = token
      BY <3>1 DEF Raws
    <3> QED BY <1>3, <3>2, Cleaned
  <2>3. /\ tokens \in Seq(Tokens) /\ diagnostics \in Seq({t \in Tokens : IsError(t)})
        /\ Clean(token) \in Tokens /\ token \in Tokens
    BY <1>2, <1>3, Cleaned DEF LexInv, TypeOK
  <2> DEFINE m == Len(tokens)
             n == Len(diagnostics)
  <2> HIDE DEF token
  <2>4. /\ m \in Nat /\ DOMAIN tokens = 1..m /\ DOMAIN tokens' = 1..(m + 1)
        /\ tokens'[m + 1] = Clean(token) /\ \A j \in 1..m : tokens'[j] = tokens[j]
    BY <1>3, <2>3
  <2>5. /\ \A j \in 1..(m + 1) : j \in 1..m \/ j = m + 1
        /\ m + 1 \in 1..(m + 1) /\ \A j \in 1..m : j \in 1..(m + 1)
    BY <2>4
  <2>6. \A j \in 1..m : Raws'[<<tokens'[j].first, last'>>] = Raws[<<tokens[j].first, last>>]
    BY <1>3, <2>1, <2>4
  <2>7. Raws'[<<tokens'[m + 1].first, last'>>] = token
    BY <1>3, <2>1, <2>2, <2>4
  <2>8. /\ \A k \in DOMAIN diagnostics : \E j \in 1..m :
            diagnostics[k] = Raws[<<tokens[j].first, last>>]
        /\ \A j \in 1..m : IsError(Raws[<<tokens[j].first, last>>]) =>
            \E k \in DOMAIN diagnostics : diagnostics[k] = Raws[<<tokens[j].first, last>>]
    BY <2>4 DEF SplitInv, Reported
  <2>9. /\ \A k \in DOMAIN diagnostics : k \in DOMAIN diagnostics' /\ diagnostics'[k] = diagnostics[k]
        /\ IsError(token) => \E k \in DOMAIN diagnostics' : diagnostics'[k] = token
        /\ \A k \in DOMAIN diagnostics' :
             \/ k \in DOMAIN diagnostics /\ diagnostics'[k] = diagnostics[k]
             \/ diagnostics'[k] = token
    <3>1. CASE IsError(token)
      <4>1. /\ n \in Nat /\ DOMAIN diagnostics = 1..n /\ DOMAIN diagnostics' = 1..(n + 1)
            /\ diagnostics'[n + 1] = token /\ \A k \in 1..n : diagnostics'[k] = diagnostics[k]
        BY <1>3, <2>3, <3>1
      <4>2. /\ \A k \in 1..(n + 1) : k \in 1..n \/ k = n + 1
            /\ n + 1 \in 1..(n + 1) /\ \A k \in 1..n : k \in 1..(n + 1)
        BY <4>1
      <4> HIDE DEF n
      <4> QED BY <4>1, <4>2
    <3>2. CASE ~IsError(token)
      BY <1>3, <3>2
    <3> QED BY <3>1, <3>2
  <2> HIDE DEF m, n
  <2>10. \A k \in DOMAIN diagnostics' : \E j \in 1..(m + 1) :
           diagnostics'[k] = Raws'[<<tokens'[j].first, last'>>]
    <3> SUFFICES ASSUME NEW k \in DOMAIN diagnostics'
                 PROVE  \E j \in 1..(m + 1) : diagnostics'[k] = Raws'[<<tokens'[j].first, last'>>]
      OBVIOUS
    <3>1. CASE k \in DOMAIN diagnostics /\ diagnostics'[k] = diagnostics[k]
      <4>1. PICK j \in 1..m : diagnostics[k] = Raws[<<tokens[j].first, last>>]
        BY <2>8, <3>1
      <4>2. j \in 1..(m + 1) /\ diagnostics'[k] = Raws'[<<tokens'[j].first, last'>>]
        BY <2>5, <2>6, <3>1, <4>1
      <4> QED BY <4>2
    <3>2. CASE diagnostics'[k] = token
      BY <2>5, <2>7, <3>2
    <3> QED BY <2>9, <3>1, <3>2
  <2>11. \A j \in 1..(m + 1) : IsError(Raws'[<<tokens'[j].first, last'>>]) =>
           \E k \in DOMAIN diagnostics' : diagnostics'[k] = Raws'[<<tokens'[j].first, last'>>]
    <3> SUFFICES ASSUME NEW j \in 1..(m + 1), IsError(Raws'[<<tokens'[j].first, last'>>])
                 PROVE  \E k \in DOMAIN diagnostics' : diagnostics'[k] = Raws'[<<tokens'[j].first, last'>>]
      OBVIOUS
    <3>1. CASE j \in 1..m
      <4>1. Raws'[<<tokens'[j].first, last'>>] = Raws[<<tokens[j].first, last>>]
        BY <2>6, <3>1
      <4>2. PICK k \in DOMAIN diagnostics : diagnostics[k] = Raws[<<tokens[j].first, last>>]
        BY <2>8, <3>1, <4>1
      <4> QED BY <2>9, <4>1, <4>2
    <3>2. CASE j = m + 1
      BY <2>7, <2>9, <3>2
    <3> QED BY <2>5, <3>1, <3>2
  <2>12. \A t : IsError(t)' <=> IsError(t)
    BY DEF IsError
  <2> QED BY <2>4, <2>10, <2>11, <2>12 DEF Reported
<1> QED BY <1>1, <1>3, <1>4, <1>5, <1>6, NotStarted

LEMMA LexAgainKeeps == ASSUME SplitInv, LexAgain PROVE SplitInv'
<1>1. /\ LexFragment /\ UNCHANGED splitVars /\ index = 1 /\ outcome = "Running"
  BY DEF LexAgain
<1>2. text' = text /\ tokens' = <<>> /\ diagnostics' = <<>>
  BY <1>1 DEF LexFragment
<1>3. LexInv'
  BY <1>1, LexFragmentKeeps DEF SplitInv
<1>4. Reported'
  BY <1>2 DEF Reported
<1> QED BY <1>1, <1>2, <1>3, <1>4, NotStarted

LEMMA SplitStutters == ASSUME SplitInv, UNCHANGED <<vars, splitVars>> PROVE SplitInv'
<1>1. /\ state' = state /\ depth' = depth /\ index' = index /\ start' = start /\ startLine' = startLine
      /\ line' = line /\ statements' = statements /\ outcome' = outcome
      /\ text' = text /\ tokens' = tokens /\ UNCHANGED vars
  BY DEF splitVars, vars
<1>2. /\ Places' = Places /\ Lines' = Lines /\ PiecesBefore' = PiecesBefore
      /\ SemicolonTokens' = SemicolonTokens /\ (NamesUnescaped' <=> NamesUnescaped)
      /\ (Reported' <=> Reported) /\ (Lexed' <=> Lexed) /\ Len(text') = Len(text)
      /\ Statements' = Statements /\ outer' = outer /\ diagnostics' = diagnostics
  BY <1>1, TextStays
<1>3. LexInv' /\ Reported'
  BY <1>1, <1>2, LexStutters DEF SplitInv
<1>4. Counters'
  <2>1. SplitTypeOK'
    BY <1>1 DEF SplitInv, Counters, SplitTypeOK
  <2> QED BY <1>1, <1>2, <2>1 DEF SplitInv, Counters
<1>5. Waits'
  <2>1. Fresh' <=> Fresh
    BY <1>1 DEF Fresh
  <2> QED BY <1>1, <1>2, <2>1 DEF SplitInv, Waits
<1>6. FollowsLexer'
  <2>1. Told' = Told
    BY <1>1 DEF Told, Piece
  <2>2. NoCut(start, index - 1)' <=> NoCut(start, index - 1)
    BY <1>1, <1>2 DEF NoCut
  <2>3. Following' <=> Following
    BY <1>1, <1>2, <2>1, <2>2 DEF Following
  <2> QED BY <1>1, <1>2, <2>3 DEF SplitInv, FollowsLexer
<1>7. SplitsAtSemicolonTokens' /\ LinesCounted'
  <2>1. AgreesWithLexer' <=> AgreesWithLexer
    BY <1>1, <1>2 DEF AgreesWithLexer, Pieces, IsBlank
  <2>2. SplitsAtSemicolonTokens'
    BY <1>1, <1>2, <2>1 DEF SplitInv, SplitsAtSemicolonTokens
  <2>3. LinesCounted'
    BY <1>1, <1>2 DEF SplitInv, LinesCounted
  <2> QED BY <2>2, <2>3
<1> QED BY <1>3, <1>4, <1>5, <1>6, <1>7 DEF SplitInv

LEMMA InitSplits == SplitInit => SplitInv
<1> SUFFICES ASSUME SplitInit PROVE SplitInv
  OBVIOUS
<1>1. /\ Init /\ state = "Normal" /\ depth = 0 /\ index = 1 /\ start = 1 /\ startLine = 1
      /\ line = 1 /\ statements = <<>> /\ outcome = "Running"
  BY DEF SplitInit
<1>2. LexInv
  BY <1>1, InitLexes
<1>3. tokens = <<>> /\ diagnostics = <<>> /\ Len(text) \in Nat
  BY <1>1, <1>2 DEF Init, LexInv, TypeOK
<1>4. Reported
  BY <1>3 DEF Reported
<1>5. Counters
  <2>1. SplitTypeOK
    BY <1>1, <1>3 DEF SplitTypeOK
  <2> QED BY <1>1, <2>1 DEF Counters
<1>6. Waits /\ FollowsLexer /\ SplitsAtSemicolonTokens /\ LinesCounted
  BY <1>1 DEF Waits, Fresh, FollowsLexer, SplitsAtSemicolonTokens, LinesCounted
<1> QED BY <1>2, <1>4, <1>5, <1>6 DEF SplitInv

(* While a script is split, the scanner is where the lexer is: in a string, *)
(* name or comment that ends where its token does, or between tokens, with  *)
(* its statements cut at the semicolons before it and the lines counted.    *)
THEOREM SplitterInvariant == SplitSpec => []SplitInv
<1>1. SplitInit => SplitInv
  BY InitSplits
<1>2. SplitInv /\ [SplitNext]_<<vars, splitVars>> => SplitInv'
  <2> SUFFICES ASSUME SplitInv, [SplitNext]_<<vars, splitVars>> PROVE SplitInv'
    OBVIOUS
  <2>1. CASE Lex
    BY <2>1, LexKeeps
  <2>2. CASE LexAgain
    BY <2>2, LexAgainKeeps
  <2>3. CASE LexedAgain
    <3>1. UNCHANGED <<vars, splitVars>>
      BY <2>3 DEF LexedAgain, Finished
    <3> QED BY <3>1, SplitStutters
  <2>4. CASE StartComment
    BY <2>4, StartCommentKeeps
  <2>5. CASE StartQuote
    BY <2>5, StartQuoteKeeps
  <2>6. CASE Cut
    BY <2>6, CutKeeps
  <2>7. CASE Pass
    BY <2>7, PassKeeps
  <2>8. CASE InString("Quote") \/ InString("DoubleQuote")
    BY <2>8, InStringKeeps
  <2>9. CASE InBacktick
    BY <2>9, InBacktickKeeps
  <2>10. CASE InLineComment
    BY <2>10, InLineCommentKeeps
  <2>11. CASE InBlockComment
    BY <2>11, InBlockCommentKeeps
  <2>12. CASE Finish
    BY <2>12, FinishKeeps
  <2>13. CASE Split \/ UNCHANGED <<vars, splitVars>>
    <3>1. UNCHANGED <<vars, splitVars>>
      BY <2>13 DEF Split
    <3> QED BY <3>1, SplitStutters
  <2> QED BY <2>1, <2>2, <2>3, <2>4, <2>5, <2>6, <2>7, <2>8, <2>9, <2>10, <2>11, <2>12, <2>13
          DEF SplitNext
<1> QED BY <1>1, <1>2, PTL DEF SplitSpec

(* What split_cypher_script cuts out of a script are its statements as the  *)
(* library's lexer sees them, each with its line, in every script without a *)
(* backslash in a backtick name; it refuses what the lexer finds open.      *)
THEOREM StatementsAreAsLexed == SplitSpec => []StatementsAsLexed
<1>1. SplitInv => StatementsAsLexed
  BY DEF SplitInv, Counters, StatementsAsLexed
<1> QED BY <1>1, SplitterInvariant, PTL

=============================================================================
