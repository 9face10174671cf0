------------------------ MODULE ClauseRecoveryProofs ------------------------
(***************************************************************************)
(* Proofs about ClauseRecovery, for inputs of any length over any          *)
(* alphabet, any budget, any placement of the tokens in the source and any *)
(* grammar: its typing, the shape of its branches and the choice of its    *)
(* clauses; then the tree it builds, which accounts for the source it has  *)
(* read, the refinement of TokenPartition, and a bound on its steps.       *)
(***************************************************************************)
EXTENDS ClauseRecovery, WellFoundedInduction, SequenceTheorems,
        FiniteSetTheorems, TLAPS

-----------------------------------------------------------------------------
(* The input.                                                              *)

InputTyped == input \in Seq(Alphabet) /\ Len(input) <= MaxTokens

(* A nonempty set of natural numbers has the minimum Min picks. *)
LEMMA MinIsLeast ==
    ASSUME NEW S, S \subseteq Nat, S # {}
    PROVE  Min(S) \in S /\ \A x \in S : Min(S) <= x
<1> DEFINE R == {xy \in Nat \X Nat : xy[1] < xy[2]}
<1>1. IsWellFoundedOn(R, Nat)
  BY NatLessThanWellFounded DEF OpToRel
<1>2. \A x, y \in Nat : x < y => <<x, y>> \in R
  OBVIOUS
<1> HIDE DEF R
<1>3. PICK m \in S : \A y \in S : ~(<<y, m>> \in R)
  BY <1>1, WFMin
<1>4. \A y \in S : m <= y
  <2> SUFFICES ASSUME NEW y \in S PROVE ~(y < m)
    OBVIOUS
  <2> QED BY <1>2, <1>3
<1>5. \E x \in S : \A y \in S : x <= y
  BY <1>4
<1> QED BY <1>5, Zenon DEF Min

(* What the function calls its tokens is the input without its terminator. *)
LEMMA TokensBounded ==
    ASSUME InputTyped
    PROVE  /\ Tokens \in Seq(Alphabet)
           /\ Size \in Nat /\ Size <= MaxTokens
           /\ Terminated => Size + 1 <= MaxTokens
<1>1. MaxTokens \in Nat
  BY BoundAssumption
<1>2. CASE Terminated
  <2>1. Len(input) \in Nat /\ Len(input) >= 1
    BY <1>2 DEF InputTyped, Terminated
  <2>2. Tokens = SubSeq(input, 1, Len(input) - 1)
    BY <1>2 DEF Tokens
  <2>3. \A i \in 1..(Len(input) - 1) : input[i] \in Alphabet
    BY <2>1 DEF InputTyped
  <2>4. Tokens \in Seq(Alphabet) /\ Len(Tokens) = Len(input) - 1
    <3> DEFINE n == Len(input) - 1
    <3>1. n \in Int /\ 1 \in Int /\ n >= 0 /\ \A i \in 1..n : input[i] \in Alphabet
      BY <2>1, <2>3
    <3> HIDE DEF n
    <3>2. /\ SubSeq(input, 1, n) \in Seq(Alphabet)
          /\ Len(SubSeq(input, 1, n)) = IF 1 <= n THEN n - 1 + 1 ELSE 0
      BY <3>1, SubSeqProperties
    <3>3. Len(SubSeq(input, 1, n)) = n
      BY <3>1, <3>2
    <3> QED BY <2>2, <3>2, <3>3 DEF n
  <2> QED BY <1>1, <2>1, <2>4 DEF Size, InputTyped
<1>3. CASE ~Terminated
  BY <1>1, <1>3 DEF Tokens, Size, InputTyped
<1> QED BY <1>2, <1>3

(* Boundaries are tokens or the end of the input, which is one of them. *)
LEMMA BoundariesInRange ==
    ASSUME InputTyped
    PROVE  /\ UnionIndices \subseteq 1..Size
           /\ Boundaries \subseteq 1..(Size + 1)
           /\ Size + 1 \in Boundaries
<1>1. Size \in Nat
  BY TokensBounded
<1>2. /\ TopLevelIndices(Tokens, {"Union"}) \subseteq 1..Size
      /\ TopLevelIndices(Tokens, ClauseStarts) \subseteq 1..Size
  BY DEF TopLevelIndices, Size
<1>3. UnionIndices \subseteq 1..Size
  BY <1>2 DEF UnionIndices
<1>4. 1..Size \subseteq 1..(Size + 1) /\ Size + 1 \in 1..(Size + 1)
  BY <1>1
<1> QED BY <1>2, <1>3, <1>4 DEF Boundaries

(* Source offsets grow with the token index. *)
LEMMA OffsetsGrow ==
    ASSUME InputTyped, NEW i \in 1..Size, NEW j \in 1..Size, i <= j
    PROVE  /\ StartOf(i) \in Nat /\ EndOf(i) \in Nat
           /\ StartOf(i) < EndOf(j) /\ EndOf(i) <= EndOf(j)
           /\ i < j => EndOf(i) <= StartOf(j)
<1>1. i \in 1..(MaxTokens + 1) /\ j \in 1..(MaxTokens + 1)
  BY TokensBounded, BoundAssumption
<1>2. /\ StartOf(i) \in Nat /\ EndOf(i) \in Nat /\ StartOf(i) < EndOf(i)
      /\ StartOf(j) \in Nat /\ EndOf(j) \in Nat /\ StartOf(j) < EndOf(j)
  BY <1>1, OffsetAssumption
<1>3. i < j => EndOf(i) <= StartOf(j)
  BY <1>1, OffsetAssumption
<1>4. CASE i = j
  BY <1>2, <1>4
<1>5. CASE i < j
  BY <1>2, <1>3, <1>5
<1> QED BY <1>2, <1>3, <1>4, <1>5

(* No step changes the input, nor what is computed from it. *)
LEMMA InputFixed ==
    ASSUME input' = input
    PROVE  /\ Tokens' = Tokens /\ Size' = Size /\ Terminated' = Terminated
           /\ UnionIndices' = UnionIndices /\ Boundaries' = Boundaries
<1>1. Terminated' = Terminated
  BY DEF Terminated
<1>2. Tokens' = Tokens
  BY <1>1 DEF Tokens
<1>3. Size' = Size
  BY <1>2 DEF Size
<1>4. UnionIndices' = UnionIndices
  BY <1>2 DEF UnionIndices
<1> QED BY <1>1, <1>2, <1>3, <1>4 DEF Boundaries

-----------------------------------------------------------------------------
(* Type correctness.                                                       *)

AtClause == pc \in {"Try", "Repair", "Settle"}

Running == pc = "Scan" \/ AtClause

\* The branch starts at the cursor as long as nothing of it has been read.
BranchOpen ==
    \/ /\ cursor <= Size /\ branchStart = StartOf(cursor)
       /\ clauses = <<>> /\ skipped = None
    \/ cursor > 1 /\ branchStart \in Nat /\ branchStart <= EndOf(cursor - 1)

\* A pending error region holds a token.
RegionOpen == skipped # None => cursor > 1 /\ skipped \in Nat /\ skipped < EndOf(cursor - 1)

\* The search for a clause at the cursor, which only an open branch makes.
ClauseSearch ==
    /\ cursor <= Size /\ ~returned
    /\ cursor <= scanned
    /\ verdict \in [After(Boundaries) -> BOOLEAN]
    /\ failed \subseteq After(Boundaries)
    /\ parsed # NoClause => parsed \in [end : After(Boundaries), repaired : BOOLEAN]
    /\ pc = "Repair" => failed # {} /\ parsed = NoClause

Position ==
    /\ pc = "Prepare" => cursor = 1 /\ clauses = <<>> /\ skipped = None
    /\ Running => Size >= 1 /\ BranchOpen /\ RegionOpen
    /\ AtClause => ClauseSearch

TypeInv == TypeOK /\ Position

(* What holds of the constants and of the input in every typed state. *)
LEMMA TypedInput ==
    ASSUME TypeOK
    PROVE  /\ InputTyped
           /\ Size \in Nat /\ Size <= MaxTokens
           /\ UnionIndices \subseteq 1..Size
           /\ Boundaries \subseteq 1..(Size + 1) /\ Size + 1 \in Boundaries
<1>1. InputTyped
  BY DEF TypeOK, InputTyped
<1> QED BY <1>1, TokensBounded, BoundariesInRange

LEMMA SpanTyped ==
    ASSUME NEW start \in Nat, NEW end \in Nat, start <= end
    PROVE  SpanOf(start, end) \in Span
BY DEF SpanOf, Span

LEMMA NodeTyped ==
    ASSUME NEW kind \in {"Return", "Other", "Error"}, NEW repaired \in BOOLEAN, NEW span \in Span
    PROVE  ClauseNode(kind, repaired, span) \in ClauseNodes
BY DEF ClauseNode, ClauseNodes

LEMMA FlushTyped ==
    ASSUME clauses \in Seq(ClauseNodes), NEW end \in Nat,
           skipped # None => skipped \in Nat /\ skipped <= end
    PROVE  FlushSkipped(end) \in Seq(ClauseNodes)
<1>1. CASE skipped = None
  BY <1>1 DEF FlushSkipped
<1>2. CASE skipped # None
  <2>1. ErrorNode(SpanOf(skipped, end)) \in ClauseNodes
    BY <1>2, SpanTyped, NodeTyped DEF ErrorNode
  <2> QED BY <1>2, <2>1 DEF FlushSkipped
<1> QED BY <1>1, <1>2

LEMMA BranchTyped ==
    ASSUME NEW nodes \in Seq(ClauseNodes), NEW span \in Span
    PROVE  RecoveredBranch(nodes, span) \in [clauses : Seq(ClauseNodes), span : Span]
<1>1. ErrorNode(span) \in ClauseNodes
  BY NodeTyped DEF ErrorNode
<1> QED BY <1>1 DEF RecoveredBranch

LEMMA InitTyped == Init => TypeInv
<1> SUFFICES ASSUME Init PROVE TypeInv
  OBVIOUS
<1>1. PICK n \in 0..MaxTokens : input \in [1..n -> Alphabet]
  BY DEF Init
<1>2. n \in Nat /\ n <= MaxTokens
  BY BoundAssumption
<1>3. input \in Seq(Alphabet) /\ Len(input) <= MaxTokens
  BY <1>1, <1>2
<1>4. Size \in Nat
  BY <1>3, TokensBounded DEF InputTyped
<1>5. TypeOK
  <2>1. /\ cursor \in 1..(Size + 1) /\ scanned \in 1..(Size + 1)
        /\ attempts \in 0..Budget /\ insertions \in 0..MaxInsertions
    BY <1>4, BoundAssumption DEF Init
  <2>2. /\ clauses = <<>> /\ branches = <<>> /\ operators = <<>>
        /\ pc = "Prepare" /\ branchStart = None /\ skipped = None
        /\ retained = FALSE /\ returned = FALSE /\ parsed = NoClause /\ failed = {}
    BY DEF Init
  <2>3. /\ clauses \in Seq(ClauseNodes)
        /\ branches \in Seq([clauses : Seq(ClauseNodes), span : Span])
        /\ operators \in Seq([kind : {"Default", "All", "Distinct"}, span : Span])
    BY <2>2
  <2>4. /\ parsed \in [end : 1..(Size + 1), repaired : BOOLEAN] \cup {NoClause}
        /\ failed \subseteq Boundaries
    BY <2>2
  <2> QED BY <1>3, <2>1, <2>2, <2>3, <2>4 DEF TypeOK
<1>6. Position
  BY DEF Init, Position, Running, AtClause
<1> QED BY <1>5, <1>6 DEF TypeInv

LEMMA PrepareTyped == TypeInv /\ Prepare => TypeInv'
<1> SUFFICES ASSUME TypeInv, Prepare PROVE TypeInv'
  OBVIOUS
<1>1. InputTyped /\ Size \in Nat /\ Size >= 1 /\ cursor = 1
  BY TypedInput DEF TypeInv, Position, Prepare
<1>2. Size' = Size /\ Boundaries' = Boundaries
  BY InputFixed DEF Prepare
<1>3. StartOf(1) \in Nat
  BY <1>1, OffsetsGrow
<1>4. TypeOK'
  BY <1>2, <1>3 DEF TypeInv, TypeOK, Prepare, search
<1>5. Position'
  BY <1>1, <1>2 DEF TypeInv, Position, Running, AtClause, BranchOpen, RegionOpen, Prepare
<1> QED BY <1>4, <1>5 DEF TypeInv

LEMMA RejectInputTyped == TypeInv /\ RejectInput => TypeInv'
<1> SUFFICES ASSUME TypeInv, RejectInput PROVE TypeInv'
  OBVIOUS
<1>1. Size' = Size /\ Boundaries' = Boundaries
  BY InputFixed DEF RejectInput
<1>2. TypeOK'
  BY <1>1 DEF TypeInv, TypeOK, RejectInput, tree, search
<1>3. Position'
  BY DEF Position, Running, AtClause, RejectInput
<1> QED BY <1>2, <1>3 DEF TypeInv

(* Where a UNION closes its branch lies past all the branch holds. *)
LEMMA BranchEndTyped ==
    ASSUME TypeInv, pc = "Scan", cursor <= Size
    PROVE  /\ branchStart \in Nat
           /\ BranchEnd \in Nat /\ branchStart <= BranchEnd
           /\ skipped # None => skipped \in Nat /\ skipped < BranchEnd
<1>1. InputTyped /\ Size \in Nat /\ cursor \in 1..Size /\ BranchOpen /\ RegionOpen
  BY TypedInput DEF TypeInv, TypeOK, Position, Running
<1>2. StartOf(cursor) \in Nat
  BY <1>1, OffsetsGrow
<1>3. cursor > 1 => EndOf(cursor - 1) \in Nat
  <2> SUFFICES ASSUME cursor > 1 PROVE EndOf(cursor - 1) \in Nat
    OBVIOUS
  <2>1. cursor - 1 \in 1..Size
    BY <1>1
  <2> QED BY <1>1, <2>1, OffsetsGrow
<1>4. branchStart \in Nat
  BY <1>1, <1>2 DEF BranchOpen
<1>5. CASE clauses = <<>> /\ skipped = None
  BY <1>4, <1>5 DEF BranchEnd
<1>6. CASE ~(clauses = <<>> /\ skipped = None)
  BY <1>1, <1>3, <1>4, <1>6 DEF BranchEnd, BranchOpen, RegionOpen
<1> QED BY <1>4, <1>5, <1>6

LEMMA SplitUnionTyped == TypeInv /\ SplitUnion => TypeInv'
<1> SUFFICES ASSUME TypeInv, SplitUnion PROVE TypeInv'
  OBVIOUS
<1> DEFINE qualified == cursor + 1 <= Size /\ Tokens[cursor + 1] \in {"All", "Distinct"}
           next == IF qualified THEN cursor + 2 ELSE cursor + 1
           kind == IF qualified THEN Tokens[cursor + 1] ELSE "Default"
<1>1. /\ InputTyped /\ Size \in Nat /\ cursor \in 1..Size /\ pc = "Scan" /\ pc' = "Scan"
      /\ cursor' = next
  BY TypedInput DEF TypeInv, TypeOK, SplitUnion
<1>2. Size' = Size /\ Boundaries' = Boundaries
  BY InputFixed DEF SplitUnion
<1>3. /\ next \in (cursor + 1)..(Size + 1) /\ next - 1 \in 1..Size /\ cursor <= next - 1
      /\ kind \in {"Default", "All", "Distinct"}
  BY <1>1
<1>4. /\ StartOf(cursor) \in Nat /\ EndOf(next - 1) \in Nat /\ StartOf(cursor) < EndOf(next - 1)
      /\ next <= Size => StartOf(next) \in Nat
  <2>1. StartOf(cursor) \in Nat /\ StartOf(cursor) < EndOf(next - 1)
    BY <1>1, <1>3, OffsetsGrow
  <2>2. EndOf(next - 1) \in Nat
    BY <1>1, <1>3, OffsetsGrow
  <2>3. next <= Size => StartOf(next) \in Nat
    <3> SUFFICES ASSUME next <= Size PROVE StartOf(next) \in Nat
      OBVIOUS
    <3>1. next \in 1..Size
      BY <1>1, <1>3
    <3> QED BY <1>1, <3>1, OffsetsGrow
  <2> QED BY <2>1, <2>2, <2>3
<1> HIDE DEF next, kind
<1>5. branches' \in Seq([clauses : Seq(ClauseNodes), span : Span])
  <2>1. /\ branchStart \in Nat /\ BranchEnd \in Nat /\ branchStart <= BranchEnd
        /\ skipped # None => skipped \in Nat /\ skipped <= BranchEnd
    BY <1>1, BranchEndTyped
  <2>2. FlushSkipped(BranchEnd) \in Seq(ClauseNodes)
    BY <2>1, FlushTyped DEF TypeInv, TypeOK
  <2>3. RecoveredBranch(FlushSkipped(BranchEnd), SpanOf(branchStart, BranchEnd))
            \in [clauses : Seq(ClauseNodes), span : Span]
    BY <2>1, <2>2, SpanTyped, BranchTyped
  <2> QED BY <2>3 DEF TypeInv, TypeOK, SplitUnion
<1>6. operators' \in Seq([kind : {"Default", "All", "Distinct"}, span : Span])
  <2>1. SpanOf(StartOf(cursor), EndOf(next - 1)) \in Span
    BY <1>4, SpanTyped
  <2>2. operators' = Append(operators, [kind |-> kind, span |-> SpanOf(StartOf(cursor), EndOf(next - 1))])
    BY DEF SplitUnion, next, kind
  <2> QED BY <1>3, <2>1, <2>2 DEF TypeInv, TypeOK
<1>7. branchStart' = IF next <= Size THEN StartOf(next) ELSE EndOf(next - 1)
  BY DEF SplitUnion, next
<1>8. TypeOK'
  <2>1. /\ clauses' = <<>> /\ skipped' = None /\ returned' = FALSE
        /\ attempts' = attempts - 1 /\ attempts > 0
        /\ UNCHANGED <<input, pc, retained, search>>
    BY DEF SplitUnion, AtUnion
  <2>2. attempts' \in 0..Budget
    BY <2>1, BoundAssumption DEF TypeInv, TypeOK
  <2>3. branchStart' \in Nat \cup {None} /\ cursor' \in 1..(Size + 1)
    BY <1>1, <1>3, <1>4, <1>7
  <2>4. clauses' \in Seq(ClauseNodes)
    BY <2>1
  <2>5. /\ input' = input /\ pc' = pc /\ retained' = retained
        /\ scanned' = scanned /\ parsed' = parsed /\ failed' = failed /\ insertions' = insertions
    BY <2>1 DEF search
  <2> QED BY <1>2, <1>5, <1>6, <2>1, <2>2, <2>3, <2>4, <2>5 DEF TypeInv, TypeOK
<1>9. Position'
  <2>1. clauses' = <<>> /\ skipped' = None
    BY DEF SplitUnion
  <2>2. BranchOpen'
    <3>1. CASE next <= Size
      BY <1>1, <1>2, <1>7, <2>1, <3>1 DEF BranchOpen
    <3>2. CASE ~(next <= Size)
      BY <1>1, <1>3, <1>4, <1>7, <3>2 DEF BranchOpen
    <3> QED BY <3>1, <3>2
  <2>3. RegionOpen'
    BY <2>1 DEF RegionOpen
  <2> QED BY <1>1, <1>2, <2>2, <2>3 DEF Position, Running, AtClause
<1> QED BY <1>8, <1>9 DEF TypeInv

(* Candidate ends lie past the cursor, and there is always one to stop at. *)
LEMMA EndsAhead ==
    ASSUME TypeOK
    PROVE  /\ After(Boundaries) \subseteq (cursor + 1)..(Size + 1)
           /\ After(Boundaries) \subseteq Nat
           /\ cursor <= Size => Size + 1 \in After(Boundaries)
           /\ \A end \in After(Boundaries) : end - 1 \in 1..Size /\ cursor <= end - 1
<1>1. Size \in Nat /\ cursor \in 1..(Size + 1) /\ Boundaries \subseteq 1..(Size + 1)
      /\ Size + 1 \in Boundaries
  BY TypedInput DEF TypeOK
<1>2. \A end \in After(Boundaries) : end \in 1..(Size + 1) /\ end > cursor
  BY <1>1 DEF After
<1>3. cursor <= Size => Size + 1 \in After(Boundaries)
  BY <1>1 DEF After
<1>4. After(Boundaries) \subseteq (cursor + 1)..(Size + 1) /\ After(Boundaries) \subseteq Nat
  BY <1>1, <1>2
<1>5. \A end \in After(Boundaries) : end - 1 \in 1..Size /\ cursor <= end - 1
  BY <1>1, <1>2
<1> QED BY <1>3, <1>4, <1>5

LEMMA BeginClauseTyped == TypeInv /\ BeginClause => TypeInv'
<1> SUFFICES ASSUME TypeInv, BeginClause PROVE TypeInv'
  OBVIOUS
<1>1. /\ pc = "Scan" /\ pc' = "Try" /\ cursor <= Size /\ ~returned /\ cursor \in 1..(Size + 1)
      /\ input' = input /\ cursor' = cursor /\ attempts' = attempts /\ UNCHANGED tree
      /\ scanned' = cursor /\ parsed' = NoClause /\ failed' = {} /\ insertions' = 0
      /\ verdict' \in [After(Boundaries) -> BOOLEAN]
  BY DEF TypeInv, TypeOK, BeginClause, Searching
<1>2. Size' = Size /\ Boundaries' = Boundaries /\ After(Boundaries)' = After(Boundaries)
  BY <1>1, InputFixed DEF After
<1>3. TypeOK'
  BY <1>1, <1>2, BoundAssumption DEF TypeInv, TypeOK, tree
<1>4. ClauseSearch'
  BY <1>1, <1>2 DEF ClauseSearch, tree
<1>5. Size' >= 1 /\ BranchOpen' /\ RegionOpen'
  BY <1>1, <1>2 DEF TypeInv, Position, Running, BranchOpen, RegionOpen, tree
<1> QED BY <1>1, <1>3, <1>4, <1>5 DEF TypeInv, Position, Running, AtClause

LEMMA TryCandidateTyped == TypeInv /\ TryCandidate => TypeInv'
<1> SUFFICES ASSUME TypeInv, TryCandidate PROVE TypeInv'
  OBVIOUS
<1> DEFINE end == Min(Untried)
<1>1. /\ pc = "Try" /\ pc' = "Try" /\ attempts > 0 /\ attempts' = attempts - 1
      /\ input' = input /\ cursor' = cursor /\ UNCHANGED tree /\ verdict' = verdict
      /\ insertions' = insertions
      /\ ClauseSearch /\ scanned' = end
      /\ parsed' = (IF verdict[end] THEN [end |-> end, repaired |-> FALSE] ELSE parsed)
      /\ failed' = (IF verdict[end] THEN failed ELSE failed \cup {end})
  BY DEF TypeInv, Position, AtClause, TryCandidate, MayTry, Accept
<1>2. Size' = Size /\ Boundaries' = Boundaries /\ After(Boundaries)' = After(Boundaries)
  BY <1>1, InputFixed DEF After
<1>3. end \in Untried
  <2>1. Untried \subseteq Nat /\ Untried # {}
    BY TypedInput DEF TypeInv, Untried, TryCandidate, MayTry
  <2> QED BY <2>1, MinIsLeast
<1>4. end \in After(Boundaries) /\ end \in 1..(Size + 1) /\ end \in Boundaries /\ cursor <= end
  BY <1>1, <1>3, TypedInput DEF TypeInv, TypeOK, Untried, After, ClauseSearch
<1> HIDE DEF end
<1>5. ClauseSearch'
  BY <1>1, <1>2, <1>4 DEF ClauseSearch, tree
<1>6. TypeOK'
  <2>1. attempts' \in 0..Budget
    BY <1>1, BoundAssumption DEF TypeInv, TypeOK
  <2>2. parsed' \in [end : 1..(Size + 1), repaired : BOOLEAN] \cup {NoClause}
    BY <1>1, <1>4 DEF TypeInv, TypeOK
  <2>3. failed' \subseteq Boundaries
    BY <1>1, <1>4 DEF TypeInv, TypeOK
  <2> QED BY <1>1, <1>2, <1>4, <2>1, <2>2, <2>3 DEF TypeInv, TypeOK, tree
<1>7. Size' >= 1 /\ BranchOpen' /\ RegionOpen'
  BY <1>1, <1>2 DEF TypeInv, Position, Running, AtClause, BranchOpen, RegionOpen, tree
<1> QED BY <1>1, <1>5, <1>6, <1>7 DEF TypeInv, Position, Running, AtClause

LEMMA EndCandidatesTyped == TypeInv /\ EndCandidates => TypeInv'
<1> SUFFICES ASSUME TypeInv, EndCandidates PROVE TypeInv'
  OBVIOUS
<1>1. /\ pc = "Try" /\ pc' \in {"Repair", "Settle"}
      /\ pc' = "Repair" => failed # {} /\ parsed = NoClause
      /\ input' = input /\ cursor' = cursor /\ attempts' = attempts
      /\ UNCHANGED tree /\ UNCHANGED search /\ ClauseSearch
  BY DEF TypeInv, Position, AtClause, EndCandidates
<1>2. Size' = Size /\ Boundaries' = Boundaries /\ After(Boundaries)' = After(Boundaries)
  BY <1>1, InputFixed DEF After
<1>3. TypeOK'
  BY <1>1, <1>2 DEF TypeInv, TypeOK, tree, search
<1>4. ClauseSearch'
  BY <1>1, <1>2 DEF ClauseSearch, tree, search
<1>5. Size' >= 1 /\ BranchOpen' /\ RegionOpen'
  BY <1>1, <1>2 DEF TypeInv, Position, Running, AtClause, BranchOpen, RegionOpen, tree
<1> QED BY <1>1, <1>3, <1>4, <1>5 DEF TypeInv, Position, Running, AtClause

LEMMA InsertOperandTyped == TypeInv /\ InsertOperand => TypeInv'
<1> SUFFICES ASSUME TypeInv, InsertOperand PROVE TypeInv'
  OBVIOUS
<1> DEFINE repair == [end |-> Min(failed), repaired |-> TRUE]
<1>1. /\ pc = "Repair" /\ attempts > 0 /\ attempts' = attempts - 1
      /\ insertions < MaxInsertions /\ insertions' = insertions + 1
      /\ \/ parsed' = repair /\ pc' = "Settle"
         \/ parsed' = parsed /\ pc' = pc
      /\ input' = input /\ cursor' = cursor /\ UNCHANGED tree
      /\ verdict' = verdict /\ scanned' = scanned /\ failed' = failed
      /\ ClauseSearch
  BY DEF TypeInv, Position, AtClause, InsertOperand
<1>2. Size' = Size /\ Boundaries' = Boundaries /\ After(Boundaries)' = After(Boundaries)
  BY <1>1, InputFixed DEF After
<1>3. Min(failed) \in After(Boundaries) /\ Min(failed) \in 1..(Size + 1)
  <2>1. failed \subseteq After(Boundaries) /\ failed # {}
    BY <1>1 DEF ClauseSearch
  <2>2. failed \subseteq Nat
    BY <2>1, EndsAhead DEF TypeInv
  <2>3. Min(failed) \in failed
    BY <2>1, <2>2, MinIsLeast
  <2> QED BY <2>1, <2>3, EndsAhead, TypedInput DEF TypeInv, After
<1>4. /\ repair \in [end : After(Boundaries), repaired : BOOLEAN]
      /\ repair \in [end : 1..(Size + 1), repaired : BOOLEAN]
  BY <1>3
<1> HIDE DEF repair
<1>5. TypeOK'
  <2>1. attempts' \in 0..Budget /\ insertions' \in 0..MaxInsertions
    BY <1>1, BoundAssumption DEF TypeInv, TypeOK
  <2> QED BY <1>1, <1>2, <1>4, <2>1 DEF TypeInv, TypeOK, tree
<1>6. ClauseSearch'
  BY <1>1, <1>2, <1>4 DEF ClauseSearch, tree
<1>7. Size' >= 1 /\ BranchOpen' /\ RegionOpen'
  BY <1>1, <1>2 DEF TypeInv, Position, Running, AtClause, BranchOpen, RegionOpen, tree
<1> QED BY <1>1, <1>5, <1>6, <1>7 DEF TypeInv, Position, Running, AtClause

LEMMA AbandonRepairTyped == TypeInv /\ AbandonRepair => TypeInv'
<1> SUFFICES ASSUME TypeInv, AbandonRepair PROVE TypeInv'
  OBVIOUS
<1>1. /\ pc = "Repair" /\ failed' \subseteq failed /\ insertions' = 0
      /\ pc' = (IF failed' = {} THEN "Settle" ELSE "Repair")
      /\ input' = input /\ cursor' = cursor /\ attempts' = attempts /\ UNCHANGED tree
      /\ verdict' = verdict /\ scanned' = scanned /\ parsed' = parsed
      /\ ClauseSearch
  BY DEF TypeInv, Position, AtClause, AbandonRepair
<1>2. Size' = Size /\ Boundaries' = Boundaries /\ After(Boundaries)' = After(Boundaries)
  BY <1>1, InputFixed DEF After
<1>3. TypeOK'
  BY <1>1, <1>2, BoundAssumption DEF TypeInv, TypeOK, tree
<1>4. ClauseSearch'
  BY <1>1, <1>2 DEF ClauseSearch, tree
<1>5. Size' >= 1 /\ BranchOpen' /\ RegionOpen'
  BY <1>1, <1>2 DEF TypeInv, Position, Running, AtClause, BranchOpen, RegionOpen, tree
<1> QED BY <1>1, <1>3, <1>4, <1>5 DEF TypeInv, Position, Running, AtClause

(* Whatever the branch holds ends where the token before the cursor does. *)
LEMMA OpenEnds ==
    ASSUME TypeInv, Running
    PROVE  /\ cursor > 1 => EndOf(cursor - 1) \in Nat
           /\ branchStart \in Nat
           /\ skipped # None => cursor > 1 /\ skipped \in Nat /\ skipped < EndOf(cursor - 1)
           /\ \A i \in 1..Size : cursor <= i =>
                EndOf(i) \in Nat /\ branchStart <= EndOf(i) /\ (cursor > 1 => EndOf(cursor - 1) <= EndOf(i))
<1>1. InputTyped /\ Size \in Nat /\ cursor \in 1..(Size + 1) /\ BranchOpen /\ RegionOpen
  BY TypedInput DEF TypeInv, TypeOK, Position
<1>2. cursor > 1 => EndOf(cursor - 1) \in Nat
  <2> SUFFICES ASSUME cursor > 1 PROVE EndOf(cursor - 1) \in Nat
    OBVIOUS
  <2>1. cursor - 1 \in 1..Size
    BY <1>1
  <2> QED BY <1>1, <2>1, OffsetsGrow
<1>3. cursor <= Size => StartOf(cursor) \in Nat
  <2> SUFFICES ASSUME cursor <= Size PROVE StartOf(cursor) \in Nat
    OBVIOUS
  <2>1. cursor \in 1..Size
    BY <1>1
  <2> QED BY <1>1, <2>1, OffsetsGrow
<1>4. ASSUME NEW i \in 1..Size, cursor <= i
      PROVE  /\ EndOf(i) \in Nat /\ branchStart <= EndOf(i)
             /\ cursor > 1 => EndOf(cursor - 1) <= EndOf(i)
  <2>1. EndOf(i) \in Nat
    BY <1>1, OffsetsGrow
  <2>2. cursor \in 1..Size
    BY <1>1, <1>4
  <2>3. StartOf(cursor) < EndOf(i) /\ StartOf(cursor) \in Nat
    BY <1>1, <1>4, <2>2, OffsetsGrow
  <2>4. cursor > 1 => EndOf(cursor - 1) <= EndOf(i)
    <3> SUFFICES ASSUME cursor > 1 PROVE EndOf(cursor - 1) <= EndOf(i)
      OBVIOUS
    <3>1. cursor - 1 \in 1..Size /\ cursor - 1 <= i
      BY <1>1, <1>4
    <3> QED BY <1>1, <3>1, OffsetsGrow
  <2> QED BY <1>1, <1>2, <2>1, <2>3, <2>4 DEF BranchOpen
<1> QED BY <1>1, <1>2, <1>3, <1>4 DEF BranchOpen, RegionOpen

(* The clause found at the cursor and the region before it. *)
LEMMA FoundClause ==
    ASSUME TypeInv, pc = "Settle", parsed # NoClause
    PROVE  /\ cursor \in 1..Size /\ ~returned
           /\ parsed.end \in (cursor + 1)..(Size + 1) /\ parsed.repaired \in BOOLEAN
           /\ SpanOf(StartOf(cursor), EndOf(parsed.end - 1)) \in Span
           /\ FlushSkipped(EndOf(cursor - 1)) \in Seq(ClauseNodes)
<1>1. /\ InputTyped /\ Size \in Nat /\ cursor \in 1..Size /\ ~returned
      /\ parsed.end \in After(Boundaries) /\ parsed.repaired \in BOOLEAN
  BY TypedInput DEF TypeInv, TypeOK, Position, AtClause, ClauseSearch
<1>2. /\ parsed.end \in (cursor + 1)..(Size + 1)
      /\ parsed.end - 1 \in 1..Size /\ cursor <= parsed.end - 1
  BY <1>1, EndsAhead DEF TypeInv
<1>3. SpanOf(StartOf(cursor), EndOf(parsed.end - 1)) \in Span
  <2>1. /\ StartOf(cursor) \in Nat /\ EndOf(parsed.end - 1) \in Nat
        /\ StartOf(cursor) < EndOf(parsed.end - 1)
    BY <1>1, <1>2, OffsetsGrow
  <2> QED BY <2>1, SpanTyped
<1>4. FlushSkipped(EndOf(cursor - 1)) \in Seq(ClauseNodes)
  <2>1. CASE skipped = None
    BY <2>1 DEF FlushSkipped, TypeInv, TypeOK
  <2>2. CASE skipped # None
    <3>1. EndOf(cursor - 1) \in Nat /\ skipped \in Nat /\ skipped <= EndOf(cursor - 1)
      BY <2>2, OpenEnds DEF Running, AtClause
    <3> QED BY <3>1, FlushTyped DEF TypeInv, TypeOK
  <2> QED BY <2>1, <2>2
<1> QED BY <1>1, <1>2, <1>3, <1>4

LEMMA RetainClauseTyped == TypeInv /\ RetainClause => TypeInv'
<1> SUFFICES ASSUME TypeInv, RetainClause PROVE TypeInv'
  OBVIOUS
<1> DEFINE kind == IF Tokens[cursor] = "Return" THEN "Return" ELSE "Other"
           node == ClauseNode(kind, parsed.repaired, SpanOf(StartOf(cursor), EndOf(parsed.end - 1)))
<1>1. /\ pc = "Settle" /\ pc' = "Scan" /\ parsed # NoClause
      /\ clauses' = Append(FlushSkipped(EndOf(cursor - 1)), node)
      /\ skipped' = None /\ returned' \in BOOLEAN /\ retained' = TRUE /\ cursor' = parsed.end
      /\ UNCHANGED <<input, branches, operators, branchStart, attempts, search>>
  BY DEF RetainClause
<1>2. /\ cursor \in 1..Size
      /\ parsed.end \in (cursor + 1)..(Size + 1) /\ parsed.repaired \in BOOLEAN
      /\ SpanOf(StartOf(cursor), EndOf(parsed.end - 1)) \in Span
      /\ FlushSkipped(EndOf(cursor - 1)) \in Seq(ClauseNodes)
  BY <1>1, FoundClause
<1>3. Size' = Size /\ Boundaries' = Boundaries /\ Size \in Nat
  BY <1>1, InputFixed, TypedInput DEF TypeInv
<1>4. clauses' \in Seq(ClauseNodes)
  <2>1. node \in ClauseNodes
    BY <1>2, NodeTyped
  <2> QED BY <1>1, <1>2, <2>1
<1> HIDE DEF node
<1>5. TypeOK'
  BY <1>1, <1>2, <1>3, <1>4 DEF TypeInv, TypeOK, search
<1>6. BranchOpen'
  <2>1. parsed.end - 1 \in 1..Size /\ cursor <= parsed.end - 1
    BY <1>2, <1>3
  <2>2. branchStart \in Nat /\ branchStart <= EndOf(parsed.end - 1)
    BY <1>1, <2>1, OpenEnds DEF Running, AtClause
  <2> QED BY <1>1, <1>2, <2>2 DEF BranchOpen
<1>7. Size' >= 1 /\ RegionOpen'
  BY <1>1, <1>2, <1>3 DEF RegionOpen
<1> QED BY <1>1, <1>5, <1>6, <1>7 DEF TypeInv, Position, Running, AtClause

LEMMA SkipTyped ==
    ASSUME TypeInv, Running, cursor <= Size,
           NEW stops, stops \subseteq 1..(Size + 1), Size + 1 \in stops, Skip(stops)
    PROVE  TypeInv' /\ cursor < cursor'
<1>1. /\ InputTyped /\ Size \in Nat /\ cursor \in 1..Size
  BY TypedInput DEF TypeInv, TypeOK
<1>2. Resume(stops) \in (cursor + 1)..(Size + 1)
  <2>1. After(stops) \subseteq (cursor + 1)..(Size + 1) /\ Size + 1 \in After(stops)
    <3>1. \A i \in After(stops) : i \in 1..(Size + 1) /\ i > cursor
      BY DEF After
    <3>2. Size + 1 \in After(stops)
      BY <1>1 DEF After
    <3> QED BY <1>1, <3>1, <3>2
  <2>2. Min(After(stops)) \in After(stops)
    BY <1>1, <2>1, MinIsLeast
  <2> QED BY <1>1, <2>1, <2>2 DEF Resume
<1>3. /\ pc' = "Scan" /\ cursor' = Resume(stops)
      /\ skipped' = (IF skipped = None THEN StartOf(cursor) ELSE skipped)
      /\ UNCHANGED <<input, clauses, branches, operators, branchStart, retained,
                     returned, attempts, search>>
  BY DEF Skip
<1>4. Size' = Size /\ Boundaries' = Boundaries
  BY <1>3, InputFixed
<1>5. cursor' - 1 \in 1..Size /\ cursor <= cursor' - 1
  BY <1>1, <1>2, <1>3
<1>6. StartOf(cursor) \in Nat /\ StartOf(cursor) < EndOf(cursor' - 1) /\ EndOf(cursor' - 1) \in Nat
  BY <1>1, <1>5, OffsetsGrow
<1>7. TypeOK'
  BY <1>1, <1>2, <1>3, <1>4, <1>6 DEF TypeInv, TypeOK, search
<1>8. BranchOpen'
  <2>1. branchStart \in Nat /\ branchStart <= EndOf(cursor' - 1)
    BY <1>5, OpenEnds
  <2> QED BY <1>1, <1>2, <1>3, <2>1 DEF BranchOpen
<1>9. RegionOpen'
  <2>1. CASE skipped = None
    BY <1>1, <1>2, <1>3, <1>6, <2>1 DEF RegionOpen
  <2>2. CASE skipped # None
    <3>1. /\ skipped \in Nat /\ skipped < EndOf(cursor - 1) /\ EndOf(cursor - 1) \in Nat
          /\ EndOf(cursor - 1) <= EndOf(cursor' - 1)
      BY <1>5, <2>2, OpenEnds
    <3> QED BY <1>1, <1>2, <1>3, <1>6, <2>2, <3>1 DEF RegionOpen
  <2> QED BY <2>1, <2>2
<1>10. Size' >= 1
  BY <1>1, <1>4
<1> QED BY <1>1, <1>2, <1>3, <1>7, <1>8, <1>9, <1>10 DEF TypeInv, Position, Running, AtClause

LEMMA SkippingTyped ==
    ASSUME TypeInv, SkipToBoundary \/ SkipAfterReturn
    PROVE  TypeInv' /\ cursor < cursor'
<1>1. /\ UnionIndices \subseteq 1..Size /\ Boundaries \subseteq 1..(Size + 1)
      /\ Size + 1 \in Boundaries /\ Size \in Nat
  BY TypedInput DEF TypeInv
<1>2. CASE SkipToBoundary
  <2>1. Running /\ cursor <= Size /\ Skip(Boundaries)
    BY <1>2 DEF SkipToBoundary, Running, AtClause, TypeInv, Position, ClauseSearch
  <2> QED BY <1>1, <2>1, SkipTyped
<1>3. CASE SkipAfterReturn
  <2>1. Running /\ cursor <= Size /\ Skip(UnionIndices \cup {Size + 1})
    BY <1>3 DEF SkipAfterReturn, Running
  <2>2. /\ UnionIndices \cup {Size + 1} \subseteq 1..(Size + 1)
        /\ Size + 1 \in UnionIndices \cup {Size + 1}
    BY <1>1
  <2> QED BY <2>1, <2>2, SkipTyped
<1> QED BY <1>2, <1>3

LEMMA FinishTyped == TypeInv /\ Finish => TypeInv'
<1> SUFFICES ASSUME TypeInv, Finish PROVE TypeInv'
  OBVIOUS
<1>1. /\ InputTyped /\ Size \in Nat /\ pc = "Scan" /\ cursor = Size + 1 /\ Size >= 1
      /\ pc' = "Done" /\ clauses' = <<>> /\ skipped' = None
      /\ UNCHANGED <<input, cursor, operators, branchStart, retained, returned,
                     attempts, search>>
  BY TypedInput DEF TypeInv, TypeOK, Position, Running, Finish
<1>2. Size' = Size /\ Boundaries' = Boundaries
  BY <1>1, InputFixed
<1>3. /\ EndOf(Size) \in Nat /\ branchStart \in Nat /\ branchStart <= EndOf(Size)
      /\ skipped # None => skipped \in Nat /\ skipped <= EndOf(Size)
  <2>1. cursor - 1 = Size /\ cursor > 1 /\ BranchOpen
    BY <1>1 DEF TypeInv, Position, Running
  <2>2. branchStart \in Nat /\ branchStart <= EndOf(Size)
    BY <1>1, <2>1 DEF BranchOpen
  <2> QED BY <1>1, <2>1, <2>2, OpenEnds DEF Running
<1>4. branches' \in Seq([clauses : Seq(ClauseNodes), span : Span])
  <2>1. FlushSkipped(EndOf(Size)) \in Seq(ClauseNodes)
    BY <1>3, FlushTyped DEF TypeInv, TypeOK
  <2>2. RecoveredBranch(FlushSkipped(EndOf(Size)), SpanOf(branchStart, EndOf(Size)))
            \in [clauses : Seq(ClauseNodes), span : Span]
    BY <1>3, <2>1, SpanTyped, BranchTyped
  <2> QED BY <2>2 DEF TypeInv, TypeOK, Finish
<1>5. TypeOK'
  <2>1. clauses' \in Seq(ClauseNodes)
    BY <1>1
  <2> QED BY <1>1, <1>2, <1>4, <2>1 DEF TypeInv, TypeOK, search
<1>6. Position'
  BY <1>1 DEF Position, Running, AtClause
<1> QED BY <1>5, <1>6 DEF TypeInv

LEMMA FinishEmptyTyped == TypeInv /\ FinishEmpty => TypeInv'
<1> SUFFICES ASSUME TypeInv, FinishEmpty PROVE TypeInv'
  OBVIOUS
<1>1. Size' = Size /\ Boundaries' = Boundaries
  BY InputFixed DEF FinishEmpty
<1>2. TypeOK'
  BY <1>1 DEF TypeInv, TypeOK, FinishEmpty, tree, search
<1>3. Position'
  BY DEF Position, Running, AtClause, FinishEmpty
<1> QED BY <1>2, <1>3 DEF TypeInv

LEMMA StutterTyped == TypeInv /\ UNCHANGED vars => TypeInv'
<1> SUFFICES ASSUME TypeInv, UNCHANGED vars PROVE TypeInv'
  OBVIOUS
<1>1. Size' = Size /\ Boundaries' = Boundaries /\ After(Boundaries)' = After(Boundaries)
  BY InputFixed DEF vars, After
<1>2. TypeOK'
  BY <1>1 DEF TypeInv, TypeOK, vars
<1>3. Position'
  BY <1>1 DEF TypeInv, Position, Running, AtClause, BranchOpen, RegionOpen, ClauseSearch, vars
<1> QED BY <1>2, <1>3 DEF TypeInv

LEMMA NextTyped == TypeInv /\ [Next]_vars => TypeInv'
<1> SUFFICES ASSUME TypeInv, [Next]_vars PROVE TypeInv'
  OBVIOUS
<1>1. CASE RejectInput \/ Prepare
  BY <1>1, RejectInputTyped, PrepareTyped
<1>2. CASE SplitUnion
  BY <1>2, SplitUnionTyped
<1>3. CASE BeginClause \/ TryCandidate \/ EndCandidates
  BY <1>3, BeginClauseTyped, TryCandidateTyped, EndCandidatesTyped
<1>4. CASE InsertOperand \/ AbandonRepair
  BY <1>4, InsertOperandTyped, AbandonRepairTyped
<1>5. CASE RetainClause
  BY <1>5, RetainClauseTyped
<1>6. CASE SkipToBoundary \/ SkipAfterReturn
  BY <1>6, SkippingTyped
<1>7. CASE Finish \/ FinishEmpty
  BY <1>7, FinishTyped, FinishEmptyTyped
<1>8. CASE Returned \/ UNCHANGED vars
  BY <1>8, StutterTyped DEF Returned
<1> QED BY <1>1, <1>2, <1>3, <1>4, <1>5, <1>6, <1>7, <1>8 DEF Next

THEOREM TypeInvariant == Spec => []TypeInv
<1>1. Init => TypeInv
  BY InitTyped
<1>2. TypeInv /\ [Next]_vars => TypeInv'
  BY NextTyped
<1> QED BY <1>1, <1>2, PTL DEF Spec

(* Every span recover_clauses computes from token offsets has start <= end, *)
(* so that the assertion in Span::new never fails, and the budget never     *)
(* goes below zero.                                                         *)
THEOREM TypeCorrect == Spec => []TypeOK
<1>1. TypeInv => TypeOK
  BY DEF TypeInv
<1> QED BY <1>1, TypeInvariant, PTL

-----------------------------------------------------------------------------
(* The shape of the branches that are built, and which clause is kept where *)
(* several candidates parse.                                                *)

ReturnLast(nodes) ==
    \A c \in DOMAIN nodes : nodes[c].kind = "Return" =>
        \A d \in (c + 1)..Len(nodes) : d = c + 1 /\ nodes[d].kind = "Error"

RegionsApart(nodes) ==
    \A c \in DOMAIN nodes : nodes[c].kind = "Error" =>
        /\ c > 1 => nodes[c - 1].kind # "Error"
        /\ nodes[c].span.start = nodes[c].span.end => Len(nodes) = 1

WellShaped(nodes) == ReturnLast(nodes) /\ RegionsApart(nodes)

\* The open branch is stricter: a region is written only with the clause that
\* follows it, and a RETURN is still to be followed by anything.
OpenShape ==
    \A c \in DOMAIN clauses :
        /\ clauses[c].kind = "Return" => c = Len(clauses) /\ returned
        /\ clauses[c].kind = "Error" =>
             /\ c < Len(clauses)
             /\ clauses[c].span.start < clauses[c].span.end
             /\ c > 1 => clauses[c - 1].kind # "Error"

ShapeInv ==
    /\ TypeInv
    /\ OpenShape
    /\ \A b \in DOMAIN branches : WellShaped(branches[b].clauses)

LEMMA NodesTyped ==
    ASSUME NEW nodes \in Seq(ClauseNodes)
    PROVE  /\ Len(nodes) \in Nat /\ DOMAIN nodes = 1..Len(nodes)
           /\ \A c \in DOMAIN nodes : nodes[c].span.start \in Nat /\ nodes[c].span.end \in Nat
<1>1. \A c \in DOMAIN nodes : nodes[c] \in ClauseNodes
  OBVIOUS
<1>2. \A node \in ClauseNodes : node.span.start \in Nat /\ node.span.end \in Nat
  BY DEF ClauseNodes, Span
<1> QED BY <1>1, <1>2

LEMMA OpenIsWellShaped ==
    ASSUME clauses \in Seq(ClauseNodes), OpenShape
    PROVE  WellShaped(clauses)
<1>1. /\ Len(clauses) \in Nat /\ DOMAIN clauses = 1..Len(clauses)
      /\ \A c \in DOMAIN clauses : clauses[c].span.start \in Nat /\ clauses[c].span.end \in Nat
  BY NodesTyped
<1>2. ReturnLast(clauses)
  BY <1>1 DEF OpenShape, ReturnLast
<1>3. RegionsApart(clauses)
  BY <1>1 DEF OpenShape, RegionsApart
<1> QED BY <1>2, <1>3 DEF WellShaped

(* Closing the open branch, with its pending region if any. *)
LEMMA ClosedIsWellShaped ==
    ASSUME clauses \in Seq(ClauseNodes), OpenShape, NEW end, NEW span,
           skipped # None => skipped \in Nat /\ end \in Nat /\ skipped < end
    PROVE  WellShaped(RecoveredBranch(FlushSkipped(end), span).clauses)
<1>1. CASE skipped = None /\ clauses = <<>>
  <2>1. RecoveredBranch(FlushSkipped(end), span).clauses = <<ErrorNode(span)>>
    BY <1>1 DEF RecoveredBranch, FlushSkipped
  <2>2. ErrorNode(span).kind = "Error"
    BY DEF ErrorNode, ClauseNode
  <2> QED BY <2>1, <2>2 DEF WellShaped, ReturnLast, RegionsApart
<1>2. CASE skipped = None /\ clauses # <<>>
  <2>1. RecoveredBranch(FlushSkipped(end), span).clauses = clauses
    BY <1>2 DEF RecoveredBranch, FlushSkipped
  <2> QED BY <2>1, OpenIsWellShaped
<1>3. CASE skipped # None
  <2> DEFINE region == ErrorNode(SpanOf(skipped, end))
             nodes == Append(clauses, region)
             n == Len(clauses)
  <2>1. RecoveredBranch(FlushSkipped(end), span).clauses = nodes
    BY <1>3 DEF RecoveredBranch, FlushSkipped
  <2>2. /\ region.kind = "Error" /\ region.span.start < region.span.end
        /\ region.span.start \in Nat /\ region.span.end \in Nat
    BY <1>3 DEF ErrorNode, ClauseNode, SpanOf
  <2>3. /\ n \in Nat /\ Len(nodes) = n + 1 /\ DOMAIN nodes = 1..(n + 1) /\ DOMAIN clauses = 1..n
        /\ nodes[n + 1] = region
        /\ \A c \in 1..n : nodes[c] = clauses[c]
                           /\ clauses[c].span.start \in Nat /\ clauses[c].span.end \in Nat
    BY NodesTyped
  <2> HIDE DEF region, nodes, n
  <2>4. /\ \A c \in 1..n : nodes[c].kind = "Return" => c = n
        /\ \A c \in 1..n : nodes[c].kind = "Error" =>
             c < n /\ nodes[c].span.start < nodes[c].span.end /\ (c > 1 => nodes[c - 1].kind # "Error")
    <3>1. \A c \in 1..n : clauses[c].kind = "Return" => c = n
      BY <2>3 DEF OpenShape, n
    <3>2. \A c \in 1..n : clauses[c].kind = "Error" =>
             c < n /\ clauses[c].span.start < clauses[c].span.end /\ (c > 1 => clauses[c - 1].kind # "Error")
      BY <2>3 DEF OpenShape, n
    <3> QED BY <2>3, <3>1, <3>2
  <2>5. ReturnLast(nodes)
    BY <2>2, <2>3, <2>4 DEF ReturnLast
  <2>6. RegionsApart(nodes)
    BY <2>2, <2>3, <2>4 DEF RegionsApart
  <2> QED BY <2>1, <2>5, <2>6 DEF WellShaped
<1> QED BY <1>1, <1>2, <1>3

LEMMA InitShape == Init => ShapeInv
<1>1. Init => clauses = <<>> /\ branches = <<>>
  BY DEF Init
<1> QED BY <1>1, InitTyped DEF ShapeInv, OpenShape

(* A closed branch joins those before it. *)
LEMMA CloseShape ==
    ASSUME ShapeInv, NEW end, NEW span,
           skipped # None => skipped \in Nat /\ end \in Nat /\ skipped < end,
           branches' = Append(branches, RecoveredBranch(FlushSkipped(end), span)),
           clauses' = <<>>
    PROVE  OpenShape' /\ \A b \in DOMAIN branches' : WellShaped(branches'[b].clauses)
<1> DEFINE closed == RecoveredBranch(FlushSkipped(end), span)
<1>1. WellShaped(closed.clauses)
  BY ClosedIsWellShaped DEF ShapeInv, TypeInv, TypeOK
<1>2. OpenShape'
  BY DEF OpenShape
<1>3. branches \in Seq([clauses : Seq(ClauseNodes), span : Span])
  BY DEF ShapeInv, TypeInv, TypeOK
<1> HIDE DEF closed
<1>4. \A b \in DOMAIN branches' : branches'[b] = closed \/ (b \in DOMAIN branches /\ branches'[b] = branches[b])
  BY <1>3 DEF closed
<1> QED BY <1>1, <1>2, <1>4 DEF ShapeInv

LEMMA RetainShape == ShapeInv /\ RetainClause => OpenShape'
<1> SUFFICES ASSUME ShapeInv, RetainClause PROVE OpenShape'
  OBVIOUS
<1> DEFINE kind == IF Tokens[cursor] = "Return" THEN "Return" ELSE "Other"
           node == ClauseNode(kind, parsed.repaired, SpanOf(StartOf(cursor), EndOf(parsed.end - 1)))
           nodes == FlushSkipped(EndOf(cursor - 1))
           n == Len(nodes)
<1>1. /\ clauses' = Append(nodes, node) /\ returned' = (kind = "Return")
      /\ pc = "Settle" /\ parsed # NoClause
  BY DEF RetainClause
<1>2. node.kind = kind /\ kind \in {"Return", "Other"}
  BY DEF ClauseNode
<1>3. /\ nodes \in Seq(ClauseNodes) /\ ~returned /\ clauses \in Seq(ClauseNodes)
      /\ skipped # None => skipped \in Nat /\ EndOf(cursor - 1) \in Nat /\ skipped < EndOf(cursor - 1)
  BY <1>1, FoundClause, OpenEnds DEF ShapeInv, TypeInv, TypeOK, Running, AtClause
<1>4. \A c \in DOMAIN nodes :
        /\ nodes[c].kind # "Return"
        /\ nodes[c].kind = "Error" =>
             /\ nodes[c].span.start < nodes[c].span.end
             /\ c > 1 => nodes[c - 1].kind # "Error"
  <2>1. \A c \in DOMAIN clauses :
          /\ clauses[c].kind # "Return"
          /\ clauses[c].kind = "Error" =>
               /\ c < Len(clauses) /\ clauses[c].span.start < clauses[c].span.end
               /\ c > 1 => clauses[c - 1].kind # "Error"
    BY <1>3 DEF ShapeInv, OpenShape
  <2>2. CASE skipped = None
    BY <2>1, <2>2 DEF FlushSkipped
  <2>3. CASE skipped # None
    <3> DEFINE region == ErrorNode(SpanOf(skipped, EndOf(cursor - 1)))
    <3>1. /\ nodes = Append(clauses, region)
          /\ region.kind = "Error" /\ region.span.start < region.span.end
      BY <1>3, <2>3 DEF FlushSkipped, ErrorNode, ClauseNode, SpanOf
    <3> HIDE DEF region, nodes
    <3>2. /\ Len(clauses) \in Nat /\ DOMAIN clauses = 1..Len(clauses)
          /\ DOMAIN nodes = 1..(Len(clauses) + 1)
          /\ nodes[Len(clauses) + 1] = region
          /\ \A c \in 1..Len(clauses) : nodes[c] = clauses[c]
      BY <1>3, <3>1
    <3> QED BY <2>1, <3>1, <3>2
  <2> QED BY <2>2, <2>3
<1> HIDE DEF node, nodes, kind, n
<1>5. /\ n \in Nat /\ DOMAIN nodes = 1..n /\ DOMAIN clauses' = 1..(n + 1) /\ Len(clauses') = n + 1
      /\ clauses'[n + 1] = node
      /\ \A c \in 1..n : clauses'[c] = nodes[c]
  BY <1>1, <1>3 DEF n
<1>6. ASSUME NEW c \in 1..(n + 1)
      PROVE  /\ clauses'[c].kind = "Return" => c = n + 1 /\ returned'
             /\ clauses'[c].kind = "Error" =>
                  /\ c < n + 1 /\ clauses'[c].span.start < clauses'[c].span.end
                  /\ c > 1 => clauses'[c - 1].kind # "Error"
  <2>1. CASE c = n + 1
    BY <1>1, <1>2, <1>5, <2>1
  <2>2. CASE c \in 1..n
    <3>1. clauses'[c] = nodes[c] /\ nodes[c].kind # "Return" /\ c < n + 1
      BY <1>4, <1>5, <2>2
    <3>2. c > 1 => clauses'[c - 1] = nodes[c - 1]
      BY <1>5, <2>2
    <3> QED BY <1>4, <1>5, <2>2, <3>1, <3>2
  <2> QED BY <1>5, <2>1, <2>2
<1> QED BY <1>5, <1>6 DEF OpenShape

LEMMA NextShape == ShapeInv /\ [Next]_vars => ShapeInv'
<1> SUFFICES ASSUME ShapeInv, [Next]_vars PROVE ShapeInv'
  OBVIOUS
<1>1. TypeInv'
  BY NextTyped DEF ShapeInv
<1> DEFINE BranchesShaped == \A b \in DOMAIN branches : WellShaped(branches[b].clauses)
<1> SUFFICES OpenShape' /\ BranchesShaped'
  BY <1>1 DEF ShapeInv
<1>2. CASE UNCHANGED <<clauses, branches, returned>>
  BY <1>2 DEF ShapeInv, OpenShape
<1>3. CASE SplitUnion
  <2>1. skipped # None => skipped \in Nat /\ BranchEnd \in Nat /\ skipped < BranchEnd
    BY <1>3, BranchEndTyped DEF ShapeInv, SplitUnion
  <2>2. /\ clauses' = <<>>
        /\ branches' = Append(branches,
                          RecoveredBranch(FlushSkipped(BranchEnd), SpanOf(branchStart, BranchEnd)))
    BY <1>3 DEF SplitUnion
  <2> QED BY <2>1, <2>2, CloseShape
<1>4. CASE RetainClause
  BY <1>2, <1>4, RetainShape DEF ShapeInv, RetainClause
<1>5. CASE Finish
  <2>1. Running /\ cursor = Size + 1 /\ Size \in Nat
    BY <1>5, TypedInput DEF Finish, Running, ShapeInv, TypeInv, TypeOK
  <2>2. cursor - 1 = Size
    BY <2>1
  <2>3. skipped # None => skipped \in Nat /\ EndOf(Size) \in Nat /\ skipped < EndOf(Size)
    BY <2>1, <2>2, OpenEnds DEF ShapeInv
  <2>4. /\ clauses' = <<>>
        /\ branches' = Append(branches,
                          RecoveredBranch(FlushSkipped(EndOf(Size)), SpanOf(branchStart, EndOf(Size))))
    BY <1>5 DEF Finish
  <2> QED BY <2>3, <2>4, CloseShape
<1>6. CASE RejectInput \/ Prepare
  BY <1>2, <1>6 DEF RejectInput, Prepare, tree
<1>7. CASE BeginClause \/ TryCandidate \/ EndCandidates
  BY <1>2, <1>7 DEF BeginClause, TryCandidate, EndCandidates, tree
<1>8. CASE InsertOperand \/ AbandonRepair
  BY <1>2, <1>8 DEF InsertOperand, AbandonRepair, tree
<1>9. CASE SkipToBoundary \/ SkipAfterReturn
  BY <1>2, <1>9 DEF SkipToBoundary, SkipAfterReturn, Skip
<1>10. CASE FinishEmpty
  BY <1>2, <1>10 DEF FinishEmpty, tree
<1>11. CASE Returned \/ UNCHANGED vars
  BY <1>2, <1>11 DEF Returned, vars
<1> QED BY <1>3, <1>4, <1>5, <1>6, <1>7, <1>8, <1>9, <1>10, <1>11 DEF Next

(* Every branch of the tree, the open one included, is well shaped. *)
LEMMA ShapeOfParts ==
    ASSUME ShapeInv, NEW b \in DOMAIN Parts
    PROVE  WellShaped(Parts[b])
<1>1. Len(branches) \in Nat /\ DOMAIN branches = 1..Len(branches)
  BY DEF ShapeInv, TypeInv, TypeOK
<1>2. Parts[b] = IF b <= Len(branches) THEN branches[b].clauses ELSE clauses
  BY DEF Parts
<1>3. CASE b <= Len(branches)
  <2>1. b \in DOMAIN branches
    BY <1>1, <1>3 DEF Parts
  <2> QED BY <1>2, <1>3, <2>1 DEF ShapeInv
<1>4. CASE ~(b <= Len(branches))
  BY <1>2, <1>4, OpenIsWellShaped DEF ShapeInv, TypeInv, TypeOK
<1> QED BY <1>3, <1>4

THEOREM ShapeInvariant == Spec => []ShapeInv
<1>1. Init => ShapeInv
  BY InitShape
<1>2. ShapeInv /\ [Next]_vars => ShapeInv'
  BY NextShape
<1> QED BY <1>1, <1>2, PTL DEF Spec

(* In the tree of recover_clauses only one error region may follow a RETURN *)
(* in its branch, whatever the input, the grammar and the budget.           *)
THEOREM NothingFollowsReturn == Spec => []ReturnClosesBranch
<1>1. ShapeInv => ReturnClosesBranch
  BY ShapeOfParts DEF ReturnClosesBranch, WellShaped, ReturnLast
<1> QED BY <1>1, ShapeInvariant, PTL

(* Error clauses are maximal: two never stand side by side, and one that    *)
(* covers no source is alone in its branch.                                 *)
THEOREM RegionsAreMaximal == Spec => []ErrorRegionsMaximal
<1>1. ShapeInv => ErrorRegionsMaximal
  BY ShapeOfParts DEF ErrorRegionsMaximal, WellShaped, RegionsApart
<1> QED BY <1>1, ShapeInvariant, PTL

-----------------------------------------------------------------------------
(* Which clause is kept.                                                   *)

\* The candidates tried so far that parsed.
ValidSoFar == {end \in After(Boundaries) : end <= scanned /\ verdict[end]}

\* The clause found is the longest of them; a repaired one takes its place
\* only where there is none, and only after all were tried.
LongestSoFar ==
    AtClause =>
        /\ ValidSoFar # {} =>
             /\ parsed.end \in ValidSoFar /\ parsed = [end |-> parsed.end, repaired |-> FALSE]
             /\ \A end \in ValidSoFar : end <= parsed.end
        /\ ValidSoFar = {} => parsed = NoClause \/ (pc = "Settle" /\ parsed.repaired)

SearchInv == TypeInv /\ LongestSoFar

LEMMA BeginSearch == SearchInv /\ BeginClause => LongestSoFar'
<1> SUFFICES ASSUME SearchInv, BeginClause PROVE LongestSoFar'
  OBVIOUS
<1>1. /\ input' = input /\ cursor' = cursor /\ scanned' = cursor /\ parsed' = NoClause
  BY DEF BeginClause
<1>2. After(Boundaries)' = After(Boundaries)
  BY <1>1, InputFixed DEF After
<1>3. cursor \in Nat /\ \A end \in After(Boundaries) : end \in Nat /\ end > cursor
  BY EndsAhead, TypedInput DEF SearchInv, TypeInv, TypeOK, After
<1>4. ValidSoFar' = {}
  BY <1>1, <1>2, <1>3 DEF ValidSoFar
<1> QED BY <1>1, <1>4 DEF LongestSoFar

LEMMA TrySearch == SearchInv /\ TryCandidate => LongestSoFar'
<1> SUFFICES ASSUME SearchInv, TryCandidate PROVE LongestSoFar'
  OBVIOUS
<1> DEFINE end == Min(Untried)
<1>1. /\ pc = "Try" /\ pc' = "Try" /\ input' = input /\ cursor' = cursor /\ verdict' = verdict
      /\ scanned' = end
      /\ parsed' = (IF verdict[end] THEN [end |-> end, repaired |-> FALSE] ELSE parsed)
      /\ ClauseSearch
  BY DEF SearchInv, TypeInv, Position, AtClause, TryCandidate, Accept
<1>2. After(Boundaries)' = After(Boundaries)
  BY <1>1, InputFixed DEF After
<1>3. /\ end \in Untried /\ \A e \in Untried : end <= e
      /\ Untried \subseteq Nat /\ scanned \in Nat /\ cursor \in Nat /\ cursor <= scanned
  <2>1. Untried \subseteq Nat /\ Untried # {} /\ scanned \in Nat /\ cursor \in Nat
    BY TypedInput DEF SearchInv, TypeInv, TypeOK, Untried, TryCandidate, MayTry
  <2> QED BY <1>1, <2>1, MinIsLeast DEF ClauseSearch
<1>4. /\ end \in After(Boundaries) /\ scanned < end
      /\ \A e \in After(Boundaries) : e \in Nat /\ (e > scanned => e \in Untried)
  BY <1>3, EndsAhead DEF SearchInv, TypeInv, Untried, After
<1> HIDE DEF end
<1>5. ValidSoFar' = IF verdict[end] THEN ValidSoFar \cup {end} ELSE ValidSoFar
  <2>1. \A e \in After(Boundaries) : e <= end <=> (e <= scanned \/ e = end)
    BY <1>3, <1>4
  <2>2. ValidSoFar' = {e \in After(Boundaries) : e <= end /\ verdict[e]}
    BY <1>1, <1>2 DEF ValidSoFar
  <2> QED BY <1>4, <2>1, <2>2 DEF ValidSoFar
<1>6. \A e \in ValidSoFar : e <= end
  BY <1>3, <1>4 DEF ValidSoFar
<1>7. LongestSoFar /\ AtClause
  BY <1>1 DEF SearchInv, AtClause
<1>8. CASE verdict[end]
  BY <1>1, <1>3, <1>5, <1>6, <1>8 DEF LongestSoFar
<1>9. CASE ~verdict[end]
  BY <1>1, <1>5, <1>7, <1>9 DEF LongestSoFar
<1> QED BY <1>8, <1>9

LEMMA NextSearch == SearchInv /\ [Next]_vars => SearchInv'
<1> SUFFICES ASSUME SearchInv, [Next]_vars PROVE SearchInv'
  OBVIOUS
<1>1. TypeInv'
  BY NextTyped DEF SearchInv
<1> SUFFICES LongestSoFar'
  BY <1>1 DEF SearchInv
<1>2. CASE ~AtClause'
  BY <1>2 DEF LongestSoFar
<1>3. ASSUME AtClause, UNCHANGED <<input, cursor, scanned, verdict>>
      PROVE  ValidSoFar' = ValidSoFar
  <2>1. After(Boundaries)' = After(Boundaries)
    BY <1>3, InputFixed DEF After
  <2> QED BY <1>3, <2>1 DEF ValidSoFar
<1>4. CASE EndCandidates
  <2>1. ValidSoFar' = ValidSoFar /\ parsed' = parsed /\ pc = "Try" /\ AtClause
    BY <1>3, <1>4 DEF EndCandidates, search, AtClause
  <2> QED BY <2>1 DEF SearchInv, LongestSoFar
<1>5. CASE InsertOperand \/ AbandonRepair
  <2>1. ValidSoFar' = ValidSoFar /\ pc = "Repair" /\ AtClause /\ parsed = NoClause
    BY <1>3, <1>5 DEF InsertOperand, AbandonRepair, AtClause, SearchInv, TypeInv, Position, ClauseSearch
  <2>2. ValidSoFar = {}
    <3>1. ValidSoFar \subseteq Nat
      BY EndsAhead DEF SearchInv, TypeInv, ValidSoFar
    <3>2. NoClause.end \notin Nat
      BY DEF NoClause, None
    <3> QED BY <2>1, <3>1, <3>2 DEF SearchInv, LongestSoFar
  <2>3. parsed' = NoClause \/ (pc' = "Settle" /\ parsed'.repaired)
    BY <1>5, <2>1 DEF InsertOperand, AbandonRepair
  <2> QED BY <2>1, <2>2, <2>3 DEF LongestSoFar
<1>6. CASE BeginClause \/ TryCandidate
  BY <1>6, BeginSearch, TrySearch
<1>7. CASE UNCHANGED vars
  <2>1. AtClause => ValidSoFar' = ValidSoFar
    BY <1>3, <1>7 DEF vars
  <2> QED BY <1>7, <2>1 DEF SearchInv, LongestSoFar, AtClause, vars
<1>8. CASE RejectInput \/ Prepare \/ SplitUnion \/ RetainClause \/ Finish \/ FinishEmpty \/ Returned
  BY <1>2, <1>7, <1>8 DEF RejectInput, Prepare, SplitUnion, RetainClause, Finish, FinishEmpty,
                          Returned, AtClause
<1>9. CASE SkipToBoundary \/ SkipAfterReturn
  BY <1>2, <1>9 DEF SkipToBoundary, SkipAfterReturn, Skip, AtClause
<1> QED BY <1>4, <1>5, <1>6, <1>7, <1>8, <1>9 DEF Next

(* "A valid clause always wins over a repaired one", and the longest of the *)
(* valid candidates that the budget let recover_clauses try is kept.        *)
THEOREM LongestClauseKept == Spec => []LongestValidClauseWins
<1>1. Init => SearchInv
  BY InitTyped DEF Init, SearchInv, LongestSoFar, AtClause
<1>2. SearchInv /\ [Next]_vars => SearchInv'
  BY NextSearch
<1>3. SearchInv => LongestValidClauseWins
  <2> SUFFICES ASSUME SearchInv, pc = "Settle"
               PROVE  IF ValidSoFar # {} THEN parsed = [end |-> Max(ValidSoFar), repaired |-> FALSE]
                      ELSE parsed = NoClause \/ parsed.repaired
    BY DEF LongestValidClauseWins, ValidSoFar
  <2>1. CASE ValidSoFar = {}
    BY <2>1 DEF SearchInv, LongestSoFar, AtClause
  <2>2. CASE ValidSoFar # {}
    <3>1. /\ parsed.end \in ValidSoFar /\ parsed = [end |-> parsed.end, repaired |-> FALSE]
          /\ \A end \in ValidSoFar : end <= parsed.end
      BY <2>2 DEF SearchInv, LongestSoFar, AtClause
    <3>2. ValidSoFar \subseteq Nat
      BY EndsAhead DEF SearchInv, TypeInv, ValidSoFar
    <3>3. \A m \in ValidSoFar : (\A end \in ValidSoFar : m >= end) => m = parsed.end
      BY <3>1, <3>2
    <3>4. \A end \in ValidSoFar : parsed.end >= end
      BY <3>1, <3>2
    <3>5. Max(ValidSoFar) = parsed.end
      BY <3>1, <3>3, <3>4 DEF Max
    <3> QED BY <2>2, <3>1, <3>5
  <2> QED BY <2>1, <2>2
<1> QED BY <1>1, <1>2, <1>3, PTL DEF Spec


-----------------------------------------------------------------------------
(* Who accounts for a token, as a relation.                                 *)

\* The positions in a sequence of nodes, or of operators, whose span holds i.
CoveringIn(nodes, i) == {c \in DOMAIN nodes : Covers(nodes[c].span, i)}

InRegion(i) == skipped # None /\ skipped <= StartOf(i) /\ i < cursor

\* The clauses, error clauses and operators that hold token i.
ClosedNodes(i) == UNION {{b} \X CoveringIn(branches[b].clauses, i) : b \in DOMAIN branches}
OpenNodes(i) == {Len(branches) + 1} \X CoveringIn(clauses, i)
OperatorNodes(i) == {0} \X CoveringIn(operators, i)

NodesOf(i) == ClosedNodes(i) \cup OpenNodes(i) \cup OperatorNodes(i)

\* A token that was read is in the pending region or in one node, never in both.
Accounted(i) ==
    IF i < cursor /\ ~InRegion(i) THEN \E o : NodesOf(i) = {o} ELSE NodesOf(i) = {}

Owned == \A i \in 1..Size : Accounted(i)

\* A branch of which nothing has been read starts after all that was read.
BranchFresh ==
    clauses = <<>> /\ skipped = None /\ cursor > 1 => EndOf(cursor - 1) <= branchStart

OwnerInv == TypeInv /\ Owned /\ (Running => BranchFresh)

LEMMA OwnersAre ==
    ASSUME TypeOK, NEW i
    PROVE  Owners(i) = NodesOf(i) \cup IF InRegion(i) THEN {<<-1, 0>>} ELSE {}
<1> DEFINE inPart(b) == {<<b, c>> : c \in {c \in DOMAIN Parts[b] : Covers(Parts[b][c].span, i)}}
           inParts == UNION {inPart(b) : b \in DOMAIN Parts}
           inOperators == {<<0, k>> : k \in {k \in DOMAIN operators : Covers(operators[k].span, i)}}
           inRegion == {<<-1, 0>> : k \in {k \in {skipped} : k # None /\ k <= StartOf(i) /\ i < cursor}}
<1>1. Owners(i) = inParts \cup inOperators \cup inRegion
  BY Zenon DEF Owners
<1>2. /\ Len(branches) \in Nat /\ DOMAIN branches = 1..Len(branches)
      /\ DOMAIN Parts = 1..(Len(branches) + 1)
      /\ \A b \in DOMAIN branches : Parts[b] = branches[b].clauses
      /\ Parts[Len(branches) + 1] = clauses
  BY DEF TypeOK, Parts
<1>3. DOMAIN Parts = DOMAIN branches \cup {Len(branches) + 1}
  BY <1>2
<1>4. \A b : inPart(b) = {b} \X CoveringIn(Parts[b], i)
  BY DEF CoveringIn
<1>5. inOperators = OperatorNodes(i)
  BY DEF OperatorNodes, CoveringIn
<1>6. inRegion = IF InRegion(i) THEN {<<-1, 0>>} ELSE {}
  BY DEF InRegion
<1> HIDE DEF inPart, inOperators, inRegion
<1>7. inParts = (UNION {inPart(b) : b \in DOMAIN branches}) \cup inPart(Len(branches) + 1)
  BY <1>3
<1>8. UNION {inPart(b) : b \in DOMAIN branches} = ClosedNodes(i)
  BY <1>2, <1>4 DEF ClosedNodes
<1>9. inPart(Len(branches) + 1) = OpenNodes(i)
  BY <1>2, <1>4 DEF OpenNodes
<1> HIDE DEF inParts
<1> QED BY <1>1, <1>5, <1>6, <1>7, <1>8, <1>9 DEF NodesOf

(* A span that starts with one token and ends with another holds those     *)
(* between them and no other.                                              *)
LEMMA CoversInterval ==
    ASSUME InputTyped, NEW i \in 1..Size, NEW first \in 1..Size, NEW last \in 1..Size,
           first <= last
    PROVE  Covers(SpanOf(StartOf(first), EndOf(last)), i) <=> first <= i /\ i <= last
<1>1. Size \in Nat
  BY TokensBounded
<1>2. /\ StartOf(i) \in Nat /\ EndOf(i) \in Nat /\ StartOf(i) < EndOf(i)
      /\ StartOf(first) \in Nat /\ EndOf(first) \in Nat /\ StartOf(first) < EndOf(first)
      /\ StartOf(last) \in Nat /\ EndOf(last) \in Nat /\ StartOf(last) < EndOf(last)
  <2>1. \A k \in 1..Size : StartOf(k) \in Nat /\ EndOf(k) \in Nat /\ StartOf(k) < EndOf(k)
    <3> TAKE k \in 1..Size
    <3>1. k <= k
      BY <1>1
    <3> QED BY <3>1, OffsetsGrow
  <2> QED BY <2>1
<1>3. /\ first <= i => StartOf(first) <= StartOf(i)
      /\ i < first => EndOf(i) <= StartOf(first)
      /\ i <= last => EndOf(i) <= EndOf(last)
      /\ last < i => EndOf(last) <= StartOf(i)
  <2>1. first < i => EndOf(first) <= StartOf(i)
    BY OffsetsGrow
  <2>2. i < first => EndOf(i) <= StartOf(first)
    BY OffsetsGrow
  <2>3. i <= last => EndOf(i) <= EndOf(last)
    BY OffsetsGrow
  <2>4. last < i => EndOf(last) <= StartOf(i)
    BY OffsetsGrow
  <2> QED BY <1>1, <1>2, <2>1, <2>2, <2>3, <2>4
<1> QED BY <1>1, <1>2, <1>3 DEF Covers, SpanOf

LEMMA TokenOffsets ==
    ASSUME InputTyped, NEW i \in 1..Size
    PROVE  StartOf(i) \in Nat /\ EndOf(i) \in Nat /\ StartOf(i) < EndOf(i)
<1>1. Size \in Nat /\ i <= i
  BY TokensBounded
<1> QED BY <1>1, OffsetsGrow

(* The token at the cursor starts past the branch that is being built.     *)
LEMMA AtCursor ==
    ASSUME TypeInv, Running, cursor <= Size
    PROVE  /\ StartOf(cursor) \in Nat /\ branchStart \in Nat /\ branchStart <= StartOf(cursor)
           /\ cursor > 1 => EndOf(cursor - 1) \in Nat /\ EndOf(cursor - 1) <= StartOf(cursor)
           /\ ~(cursor > 1) => clauses = <<>> /\ skipped = None
<1>1. InputTyped /\ Size \in Nat /\ cursor \in 1..Size /\ BranchOpen /\ RegionOpen
  BY TypedInput DEF TypeInv, TypeOK, Position
<1>2. StartOf(cursor) \in Nat /\ branchStart \in Nat
  BY <1>1, TokenOffsets, OpenEnds
<1>3. cursor > 1 => EndOf(cursor - 1) \in Nat /\ EndOf(cursor - 1) <= StartOf(cursor)
  <2> SUFFICES ASSUME cursor > 1
               PROVE  EndOf(cursor - 1) \in Nat /\ EndOf(cursor - 1) <= StartOf(cursor)
    OBVIOUS
  <2>1. cursor - 1 \in 1..Size /\ cursor - 1 <= cursor /\ cursor - 1 < cursor
    BY <1>1
  <2> QED BY <1>1, <2>1, OffsetsGrow
<1> QED BY <1>1, <1>2, <1>3 DEF BranchOpen, RegionOpen

(* A span with nothing in it covers no token. *)
LEMMA EmptyCoversNone ==
    ASSUME InputTyped, NEW i \in 1..Size, NEW span \in Span, span.end <= span.start
    PROVE  ~Covers(span, i)
<1>1. StartOf(i) \in Nat /\ EndOf(i) \in Nat /\ StartOf(i) < EndOf(i)
  BY TokenOffsets
<1>2. span.start \in Nat /\ span.end \in Nat
  BY DEF Span
<1> QED BY <1>1, <1>2 DEF Covers

LEMMA AppendCovering ==
    ASSUME NEW S, NEW nodes \in Seq(S), NEW node, NEW i
    PROVE  CoveringIn(Append(nodes, node), i) =
             IF Covers(node.span, i) THEN CoveringIn(nodes, i) \cup {Len(nodes) + 1}
             ELSE CoveringIn(nodes, i)
<1> DEFINE longer == Append(nodes, node)
           n == Len(nodes)
<1>1. /\ n \in Nat /\ DOMAIN nodes = 1..n /\ DOMAIN longer = 1..(n + 1)
      /\ longer[n + 1] = node
      /\ \A c \in 1..n : longer[c] = nodes[c]
  OBVIOUS
<1> HIDE DEF longer, n
<1>2. DOMAIN longer = DOMAIN nodes \cup {n + 1} /\ n + 1 \notin DOMAIN nodes
  BY <1>1
<1>3. \A c \in DOMAIN nodes : longer[c] = nodes[c]
  BY <1>1
<1>4. CoveringIn(longer, i) = IF Covers(node.span, i) THEN CoveringIn(nodes, i) \cup {n + 1}
                              ELSE CoveringIn(nodes, i)
  BY <1>1, <1>2, <1>3 DEF CoveringIn
<1> QED BY <1>4 DEF longer, n

LEMMA AppendNonempty ==
    ASSUME NEW S, NEW nodes \in Seq(S), NEW node
    PROVE  Append(nodes, node) # <<>>
<1>1. Len(Append(nodes, node)) = Len(nodes) + 1 /\ Len(nodes) \in Nat
  OBVIOUS
<1>2. Len(<<>>) = 0
  OBVIOUS
<1> QED BY <1>1, <1>2

(* A region or not, a branch with something in it stays so.                *)
LEMMA FlushNonempty ==
    ASSUME TypeInv, NEW end, ~(clauses = <<>> /\ skipped = None)
    PROVE  FlushSkipped(end) # <<>>
<1>1. clauses \in Seq(ClauseNodes)
  BY DEF TypeInv, TypeOK
<1>2. Append(clauses, ErrorNode(SpanOf(skipped, end))) # <<>>
  BY <1>1, AppendNonempty
<1> QED BY <1>2 DEF FlushSkipped

(* Ending the pending region at the last token read turns it into a node   *)
(* that covers the same tokens.                                            *)
LEMMA FlushCovering ==
    ASSUME TypeInv, Running, NEW i \in 1..Size
    PROVE  CoveringIn(FlushSkipped(EndOf(cursor - 1)), i) =
             IF InRegion(i) THEN CoveringIn(clauses, i) \cup {Len(clauses) + 1}
             ELSE CoveringIn(clauses, i)
<1>1. CASE skipped = None
  BY <1>1 DEF FlushSkipped, InRegion
<1>2. CASE skipped # None
  <2> DEFINE region == ErrorNode(SpanOf(skipped, EndOf(cursor - 1)))
  <2>1. /\ InputTyped /\ Size \in Nat /\ cursor \in 1..(Size + 1) /\ cursor > 1
        /\ clauses \in Seq(ClauseNodes)
    BY <1>2, TypedInput, OpenEnds DEF TypeInv, TypeOK
  <2>2. cursor - 1 \in 1..Size
    BY <2>1
  <2>3. EndOf(i) <= EndOf(cursor - 1) <=> i < cursor
    <3>1. i < cursor => EndOf(i) <= EndOf(cursor - 1)
      <4>1. i < cursor => i <= cursor - 1
        BY <2>1
      <4> QED BY <2>1, <2>2, <4>1, OffsetsGrow
    <3>2. cursor <= i => EndOf(cursor - 1) <= StartOf(i)
      <4>1. cursor <= i => cursor - 1 < i /\ cursor - 1 <= i
        BY <2>1
      <4> QED BY <2>1, <2>2, <4>1, OffsetsGrow
    <3>3. StartOf(i) \in Nat /\ EndOf(i) \in Nat /\ StartOf(i) < EndOf(i) /\ EndOf(cursor - 1) \in Nat
      BY <2>1, <2>2, TokenOffsets
    <3> QED BY <2>1, <3>1, <3>2, <3>3
  <2>4. Covers(region.span, i) <=> InRegion(i)
    BY <1>2, <2>3 DEF Covers, ErrorNode, ClauseNode, SpanOf, InRegion
  <2>5. FlushSkipped(EndOf(cursor - 1)) = Append(clauses, region)
    BY <1>2 DEF FlushSkipped
  <2> HIDE DEF region
  <2>6. CoveringIn(Append(clauses, region), i) =
          IF Covers(region.span, i) THEN CoveringIn(clauses, i) \cup {Len(clauses) + 1}
          ELSE CoveringIn(clauses, i)
    BY <2>1, AppendCovering
  <2> QED BY <2>4, <2>5, <2>6
<1> QED BY <1>1, <1>2

(* A step that gives the pending region and the run of tokens it reads a   *)
(* node each, and leaves no region pending, accounts for both.             *)
LEMMA ClaimAccounts ==
    ASSUME OwnerInv, NEW i \in 1..Size, cursor <= cursor', cursor' \in Nat, ~InRegion(i)',
           NEW x, NEW y,
           NodesOf(i)' = NodesOf(i) \cup (IF InRegion(i) THEN {x} ELSE {})
                         \cup (IF cursor <= i /\ i < cursor' THEN {y} ELSE {})
    PROVE  Accounted(i)'
<1>1. Accounted(i) /\ cursor \in Nat /\ i \in Nat
  BY TypedInput DEF OwnerInv, Owned, TypeInv, TypeOK
<1>2. CASE i < cursor /\ InRegion(i)
  <2>1. i < cursor' /\ NodesOf(i) = {} /\ ~(cursor <= i /\ i < cursor')
    BY <1>1, <1>2 DEF Accounted
  <2>2. NodesOf(i)' = {x}
    BY <1>2, <2>1
  <2> QED BY <2>1, <2>2 DEF Accounted
<1>3. CASE i < cursor /\ ~InRegion(i)
  <2>1. i < cursor' /\ ~(cursor <= i /\ i < cursor')
    BY <1>1, <1>3
  <2>2. NodesOf(i)' = NodesOf(i)
    BY <1>3, <2>1
  <2> QED BY <1>1, <1>3, <2>1, <2>2 DEF Accounted
<1>4. CASE cursor <= i
  <2>1. ~InRegion(i) /\ NodesOf(i) = {}
    BY <1>1, <1>4 DEF Accounted, InRegion
  <2>2. NodesOf(i)' = IF i < cursor' THEN {y} ELSE {}
    BY <1>4, <2>1
  <2> QED BY <2>2 DEF Accounted
<1> QED BY <1>1, <1>2, <1>3, <1>4

LEMMA InitOwned == Init => OwnerInv
<1> SUFFICES ASSUME Init PROVE OwnerInv
  OBVIOUS
<1>1. TypeInv
  BY InitTyped
<1>2. /\ clauses = <<>> /\ branches = <<>> /\ operators = <<>> /\ skipped = None /\ cursor = 1
      /\ pc = "Prepare"
  BY DEF Init
<1>3. ASSUME NEW i \in 1..Size PROVE Accounted(i)
  <2>1. i \in Nat /\ ~(i < cursor)
    BY <1>1, <1>2, TypedInput DEF TypeInv
  <2>2. CoveringIn(clauses, i) = {} /\ CoveringIn(operators, i) = {} /\ DOMAIN branches = {}
    BY <1>2 DEF CoveringIn
  <2>3. NodesOf(i) = {}
    BY <2>2 DEF NodesOf, ClosedNodes, OpenNodes, OperatorNodes
  <2> QED BY <2>1, <2>3 DEF Accounted
<1>4. ~Running
  BY <1>2 DEF Running, AtClause
<1> QED BY <1>1, <1>3, <1>4 DEF OwnerInv, Owned

(* In the branch a step closes, the pending region has become a node, and  *)
(* the placeholder for a missing branch covers no token.                   *)
LEMMA ClosedCovering ==
    ASSUME TypeInv, Running, NEW i \in 1..Size, NEW span,
           clauses = <<>> /\ skipped = None => ~Covers(span, i)
    PROVE  CoveringIn(RecoveredBranch(FlushSkipped(EndOf(cursor - 1)), span).clauses, i) =
             IF InRegion(i) THEN CoveringIn(clauses, i) \cup {Len(clauses) + 1}
             ELSE CoveringIn(clauses, i)
<1> DEFINE nodes == FlushSkipped(EndOf(cursor - 1))
           closed == RecoveredBranch(nodes, span)
<1>1. CASE clauses = <<>> /\ skipped = None
  <2>1. nodes = <<>> /\ ~InRegion(i) /\ CoveringIn(clauses, i) = {}
    BY <1>1 DEF FlushSkipped, InRegion, CoveringIn
  <2>2. closed.clauses = <<ErrorNode(span)>> /\ ErrorNode(span).span = span
    BY <2>1 DEF RecoveredBranch, ErrorNode, ClauseNode
  <2>3. CoveringIn(<<ErrorNode(span)>>, i) = {}
    BY <1>1, <2>2 DEF CoveringIn
  <2> QED BY <2>1, <2>2, <2>3
<1>2. CASE ~(clauses = <<>> /\ skipped = None)
  <2>1. nodes # <<>>
    BY <1>2, FlushNonempty
  <2>2. closed.clauses = nodes
    BY <2>1 DEF RecoveredBranch
  <2> QED BY <2>2, FlushCovering
<1> QED BY <1>1, <1>2

(* Closing the open branch keeps the nodes of its tokens and turns the     *)
(* pending region into one.                                                *)
LEMMA CloseNodes ==
    ASSUME TypeInv, Running, NEW i \in 1..Size, NEW span,
           clauses = <<>> /\ skipped = None => ~Covers(span, i),
           branches' = Append(branches, RecoveredBranch(FlushSkipped(EndOf(cursor - 1)), span)),
           clauses' = <<>>
    PROVE  /\ OpenNodes(i)' = {}
           /\ ClosedNodes(i)' = ClosedNodes(i) \cup OpenNodes(i)
                \cup (IF InRegion(i) THEN {<<Len(branches) + 1, Len(clauses) + 1>>} ELSE {})
<1> DEFINE nodes == FlushSkipped(EndOf(cursor - 1))
           closed == RecoveredBranch(nodes, span)
           n == Len(branches)
<1>1. CoveringIn(closed.clauses, i) =
        IF InRegion(i) THEN CoveringIn(clauses, i) \cup {Len(clauses) + 1} ELSE CoveringIn(clauses, i)
  BY ClosedCovering
<1>2. branches \in Seq([clauses : Seq(ClauseNodes), span : Span])
  BY DEF TypeInv, TypeOK
<1> HIDE DEF closed, n
<1>3. /\ n \in Nat /\ DOMAIN branches = 1..n /\ DOMAIN branches' = 1..(n + 1)
      /\ branches'[n + 1] = closed
      /\ \A b \in 1..n : branches'[b] = branches[b]
  BY <1>2 DEF closed, n
<1>4. DOMAIN branches' = DOMAIN branches \cup {n + 1}
  BY <1>3
<1>5. OpenNodes(i)' = {}
  BY DEF OpenNodes, CoveringIn
<1>6. ClosedNodes(i)' = ClosedNodes(i) \cup ({n + 1} \X CoveringIn(closed.clauses, i))
  <2> DEFINE here(b) == {b} \X CoveringIn(branches'[b].clauses, i)
             was(b) == {b} \X CoveringIn(branches[b].clauses, i)
  <2>1. ClosedNodes(i)' = UNION {here(b) : b \in DOMAIN branches'}
    BY DEF ClosedNodes, CoveringIn, Covers
  <2>2. ClosedNodes(i) = UNION {was(b) : b \in DOMAIN branches}
    BY DEF ClosedNodes
  <2>3. \A b \in DOMAIN branches : here(b) = was(b)
    BY <1>3
  <2>4. here(n + 1) = {n + 1} \X CoveringIn(closed.clauses, i)
    BY <1>3
  <2> HIDE DEF here, was
  <2> QED BY <1>4, <2>1, <2>2, <2>3, <2>4
<1>7. {n + 1} \X CoveringIn(closed.clauses, i) = OpenNodes(i)
        \cup (IF InRegion(i) THEN {<<n + 1, Len(clauses) + 1>>} ELSE {})
  BY <1>1 DEF OpenNodes, n
<1> QED BY <1>5, <1>6, <1>7 DEF n

(* Only the branch end a UNION computes for an empty branch differs from   *)
(* the end of the last token read, and then no region is pending.          *)
LEMMA BranchEndFlush ==
    FlushSkipped(BranchEnd) = FlushSkipped(EndOf(cursor - 1))
BY DEF FlushSkipped, BranchEnd

LEMMA SplitPlaceholder ==
    ASSUME TypeInv, pc = "Scan", cursor <= Size, NEW i \in 1..Size,
           clauses = <<>>, skipped = None
    PROVE  ~Covers(SpanOf(branchStart, BranchEnd), i)
<1> DEFINE span == SpanOf(branchStart, BranchEnd)
<1>1. InputTyped
  BY TypedInput DEF TypeInv
<1>2. branchStart \in Nat /\ BranchEnd = branchStart
  BY BranchEndTyped DEF BranchEnd
<1>3. span \in Span /\ span.end <= span.start
  BY <1>2 DEF SpanOf, Span
<1> QED BY <1>1, <1>3, EmptyCoversNone

LEMMA FinishPlaceholder ==
    ASSUME OwnerInv, pc = "Scan", cursor > Size, NEW i \in 1..Size,
           clauses = <<>>, skipped = None
    PROVE  ~Covers(SpanOf(branchStart, EndOf(Size)), i)
<1>1. /\ TypeInv /\ Running /\ InputTyped /\ Size \in Nat /\ cursor - 1 = Size /\ cursor > 1
      /\ Size >= 1 /\ BranchFresh
  BY TypedInput DEF OwnerInv, TypeInv, TypeOK, Position, Running
<1>2. StartOf(i) \in Nat /\ EndOf(i) \in Nat /\ StartOf(i) < EndOf(i)
  BY <1>1, TokenOffsets
<1>3. EndOf(i) <= EndOf(Size) /\ EndOf(Size) \in Nat
  <2>1. Size \in 1..Size /\ i <= Size
    BY <1>1
  <2> QED BY <1>1, <2>1, OffsetsGrow
<1>4. EndOf(Size) <= branchStart /\ branchStart \in Nat
  BY <1>1, OpenEnds DEF BranchFresh
<1> QED BY <1>2, <1>3, <1>4 DEF Covers, SpanOf

LEMMA SplitOwned == OwnerInv /\ SplitUnion => Owned' /\ BranchFresh'
<1> SUFFICES ASSUME OwnerInv, SplitUnion PROVE Owned' /\ BranchFresh'
  OBVIOUS
<1> DEFINE qualified == cursor + 1 <= Size /\ Tokens[cursor + 1] \in {"All", "Distinct"}
           next == IF qualified THEN cursor + 2 ELSE cursor + 1
           kind == IF qualified THEN Tokens[cursor + 1] ELSE "Default"
           operator == [kind |-> kind, span |-> SpanOf(StartOf(cursor), EndOf(next - 1))]
           span == SpanOf(branchStart, BranchEnd)
           x == <<Len(branches) + 1, Len(clauses) + 1>>
           y == <<0, Len(operators) + 1>>
<1>1. /\ TypeInv /\ Running /\ InputTyped /\ Size \in Nat /\ cursor \in 1..Size /\ pc = "Scan"
      /\ cursor' = next /\ clauses' = <<>> /\ skipped' = None /\ input' = input
      /\ operators' = Append(operators, operator)
      /\ branches' = Append(branches, RecoveredBranch(FlushSkipped(BranchEnd), span))
      /\ branchStart' = IF next <= Size THEN StartOf(next) ELSE EndOf(next - 1)
  BY TypedInput DEF OwnerInv, TypeInv, TypeOK, SplitUnion, Running
<1>2. Size' = Size
  BY <1>1, InputFixed
<1>3. next \in (cursor + 1)..(Size + 1) /\ next - 1 \in 1..Size /\ cursor <= next - 1
  BY <1>1
<1>4. operator.span = SpanOf(StartOf(cursor), EndOf(next - 1))
  OBVIOUS
<1> HIDE DEF next, operator, span
<1>5. ASSUME NEW i \in 1..Size PROVE Accounted(i)'
  <2>1. clauses = <<>> /\ skipped = None => ~Covers(span, i)
    BY <1>1, SplitPlaceholder DEF span
  <2>2. /\ OpenNodes(i)' = {}
        /\ ClosedNodes(i)' = ClosedNodes(i) \cup OpenNodes(i) \cup (IF InRegion(i) THEN {x} ELSE {})
    BY <1>1, <2>1, BranchEndFlush, CloseNodes
  <2>3. OperatorNodes(i)' = OperatorNodes(i) \cup (IF cursor <= i /\ i < next THEN {y} ELSE {})
    <3>1. Covers(operator.span, i) <=> cursor <= i /\ i < next
      <4>1. Covers(operator.span, i) <=> cursor <= i /\ i <= next - 1
        BY <1>1, <1>3, <1>4, CoversInterval
      <4> QED BY <1>1, <1>3, <4>1
    <3>2. operators \in Seq([kind : {"Default", "All", "Distinct"}, span : Span])
      BY <1>1 DEF TypeInv, TypeOK
    <3>3. CoveringIn(Append(operators, operator), i) =
            IF Covers(operator.span, i) THEN CoveringIn(operators, i) \cup {Len(operators) + 1}
            ELSE CoveringIn(operators, i)
      BY <3>2, AppendCovering
    <3>4. CoveringIn(operators, i)' = CoveringIn(Append(operators, operator), i)
      BY <1>1 DEF CoveringIn, Covers
    <3> QED BY <3>1, <3>3, <3>4 DEF OperatorNodes
  <2>4. NodesOf(i)' = NodesOf(i) \cup (IF InRegion(i) THEN {x} ELSE {})
                      \cup (IF cursor <= i /\ i < cursor' THEN {y} ELSE {})
    BY <1>1, <2>2, <2>3 DEF NodesOf
  <2>5. ~InRegion(i)' /\ cursor <= cursor' /\ cursor' \in Nat
    BY <1>1, <1>3 DEF InRegion
  <2> HIDE DEF x, y
  <2> QED BY <2>4, <2>5, ClaimAccounts
<1>6. BranchFresh'
  <2>1. EndOf(next - 1) <= branchStart'
    <3>1. EndOf(next - 1) \in Nat
      BY <1>1, <1>3, TokenOffsets
    <3>2. CASE next <= Size
      <4>1. next \in 1..Size /\ next - 1 <= next /\ next - 1 < next
        BY <1>1, <1>3, <3>2
      <4>2. EndOf(next - 1) <= StartOf(next)
        BY <1>1, <1>3, <4>1, OffsetsGrow
      <4> QED BY <1>1, <3>2, <4>2
    <3> QED BY <1>1, <3>1, <3>2
  <2> QED BY <1>1, <2>1 DEF BranchFresh
<1> QED BY <1>2, <1>5, <1>6 DEF Owned

LEMMA RetainOwned == OwnerInv /\ RetainClause => Owned' /\ BranchFresh'
<1> SUFFICES ASSUME OwnerInv, RetainClause PROVE Owned' /\ BranchFresh'
  OBVIOUS
<1> DEFINE kind == IF Tokens[cursor] = "Return" THEN "Return" ELSE "Other"
           node == ClauseNode(kind, parsed.repaired, SpanOf(StartOf(cursor), EndOf(parsed.end - 1)))
           nodes == FlushSkipped(EndOf(cursor - 1))
           x == <<Len(branches) + 1, Len(clauses) + 1>>
           y == <<Len(branches) + 1, Len(nodes) + 1>>
<1>1. /\ TypeInv /\ Running /\ pc = "Settle" /\ parsed # NoClause
      /\ clauses' = Append(nodes, node) /\ cursor' = parsed.end
      /\ skipped' = None
      /\ UNCHANGED <<input, branches, operators, branchStart>>
  BY DEF OwnerInv, RetainClause, Running, AtClause
<1>2. /\ cursor \in 1..Size /\ Size \in Nat /\ InputTyped
      /\ parsed.end \in (cursor + 1)..(Size + 1)
      /\ nodes \in Seq(ClauseNodes)
  BY <1>1, FoundClause, TypedInput DEF TypeInv
<1>3. parsed.end - 1 \in 1..Size /\ cursor <= parsed.end - 1
  BY <1>2
<1>4. Size' = Size
  BY <1>1, InputFixed
<1>5. node.span = SpanOf(StartOf(cursor), EndOf(parsed.end - 1))
  BY DEF ClauseNode
<1> HIDE DEF node, nodes
<1>6. ASSUME NEW i \in 1..Size PROVE Accounted(i)'
  <2>1. Covers(node.span, i) <=> cursor <= i /\ i < cursor'
    <3>1. Covers(node.span, i) <=> cursor <= i /\ i <= parsed.end - 1
      BY <1>2, <1>3, <1>5, CoversInterval
    <3> QED BY <1>1, <1>2, <3>1
  <2>2. CoveringIn(nodes, i) =
          IF InRegion(i) THEN CoveringIn(clauses, i) \cup {Len(clauses) + 1} ELSE CoveringIn(clauses, i)
    BY <1>1, FlushCovering DEF nodes
  <2>3. CoveringIn(clauses, i)' =
          IF Covers(node.span, i) THEN CoveringIn(nodes, i) \cup {Len(nodes) + 1} ELSE CoveringIn(nodes, i)
    <3>1. CoveringIn(Append(nodes, node), i) =
            IF Covers(node.span, i) THEN CoveringIn(nodes, i) \cup {Len(nodes) + 1} ELSE CoveringIn(nodes, i)
      BY <1>2, AppendCovering
    <3>2. CoveringIn(clauses, i)' = CoveringIn(Append(nodes, node), i)
      BY <1>1 DEF CoveringIn, Covers
    <3> QED BY <3>1, <3>2
  <2>4. OpenNodes(i)' = OpenNodes(i) \cup (IF InRegion(i) THEN {x} ELSE {})
                        \cup (IF cursor <= i /\ i < cursor' THEN {y} ELSE {})
    BY <1>1, <2>1, <2>2, <2>3 DEF OpenNodes
  <2>5. ClosedNodes(i)' = ClosedNodes(i) /\ OperatorNodes(i)' = OperatorNodes(i)
    BY <1>1 DEF ClosedNodes, OperatorNodes, CoveringIn, Covers
  <2>6. NodesOf(i)' = NodesOf(i) \cup (IF InRegion(i) THEN {x} ELSE {})
                      \cup (IF cursor <= i /\ i < cursor' THEN {y} ELSE {})
    BY <2>4, <2>5 DEF NodesOf
  <2>7. ~InRegion(i)' /\ cursor <= cursor' /\ cursor' \in Nat
    BY <1>1, <1>2 DEF InRegion
  <2> HIDE DEF x, y
  <2> QED BY <2>6, <2>7, ClaimAccounts
<1>7. BranchFresh'
  <2>1. clauses' # <<>>
    BY <1>1, <1>2, AppendNonempty
  <2> QED BY <2>1 DEF BranchFresh
<1> QED BY <1>4, <1>6, <1>7 DEF Owned

(* Skipping adds to the region the tokens from the cursor on, no earlier one. *)
LEMMA SkipRegion ==
    ASSUME TypeInv, Running, cursor <= Size, cursor < cursor', cursor' \in Nat,
           skipped' = IF skipped = None THEN StartOf(cursor) ELSE skipped,
           NEW i \in 1..Size
    PROVE  InRegion(i)' <=> InRegion(i) \/ (cursor <= i /\ i < cursor')
<1>1. /\ InputTyped /\ Size \in Nat /\ cursor \in 1..Size
      /\ StartOf(i) \in Nat /\ EndOf(i) \in Nat /\ StartOf(i) < EndOf(i) /\ i \in Nat
  BY TypedInput, TokenOffsets DEF TypeInv, TypeOK
<1>2. StartOf(cursor) \in Nat /\ EndOf(cursor) \in Nat /\ StartOf(cursor) < EndOf(cursor)
  BY <1>1, TokenOffsets
<1>3. skipped' \in Nat /\ skipped' # None
  BY <1>2, OpenEnds DEF None
<1>4. CASE i < cursor
  <2>1. EndOf(i) <= StartOf(cursor)
    <3>1. i <= cursor
      BY <1>1, <1>4
    <3> QED BY <1>1, <1>4, <3>1, OffsetsGrow
  <2>2. skipped = None => ~(skipped' <= StartOf(i))
    BY <1>1, <1>2, <2>1
  <2>3. i < cursor'
    BY <1>1, <1>4
  <2> QED BY <1>1, <1>3, <1>4, <2>2, <2>3 DEF InRegion
<1>5. CASE cursor <= i
  <2>1. StartOf(cursor) <= StartOf(i)
    <3>1. cursor < i => EndOf(cursor) <= StartOf(i)
      BY <1>1, <1>5, OffsetsGrow
    <3> QED BY <1>1, <1>2, <1>5, <3>1
  <2>2. skipped # None => skipped <= StartOf(i)
    <3> SUFFICES ASSUME skipped # None PROVE skipped <= StartOf(i)
      OBVIOUS
    <3>1. cursor > 1 /\ skipped \in Nat /\ skipped < EndOf(cursor - 1)
      BY OpenEnds
    <3>2. cursor - 1 \in 1..Size /\ cursor - 1 <= i /\ cursor - 1 < i
      BY <1>1, <1>5, <3>1
    <3>3. EndOf(cursor - 1) <= StartOf(i) /\ EndOf(cursor - 1) \in Nat
      BY <1>1, <3>2, OffsetsGrow
    <3> QED BY <1>1, <3>1, <3>3
  <2> QED BY <1>1, <1>3, <1>5, <2>1, <2>2 DEF InRegion
<1> QED BY <1>1, <1>4, <1>5

LEMMA SkipOwned ==
    ASSUME OwnerInv, Running, cursor <= Size, cursor < cursor', cursor' \in Nat,
           skipped' = IF skipped = None THEN StartOf(cursor) ELSE skipped,
           UNCHANGED <<input, clauses, branches, operators>>
    PROVE  Owned' /\ BranchFresh'
<1>1. TypeInv /\ Size \in Nat /\ cursor \in Nat
  BY TypedInput DEF OwnerInv, TypeInv, TypeOK
<1>2. ASSUME NEW i \in 1..Size PROVE Accounted(i)'
  <2>1. NodesOf(i)' = NodesOf(i)
    BY DEF NodesOf, ClosedNodes, OpenNodes, OperatorNodes, CoveringIn, Covers
  <2>2. InRegion(i)' <=> InRegion(i) \/ (cursor <= i /\ i < cursor')
    BY <1>1, SkipRegion
  <2>3. Accounted(i) /\ i \in Nat
    BY <1>1 DEF OwnerInv, Owned
  <2>4. CASE i < cursor
    <3>1. i < cursor' /\ ~(cursor <= i)
      BY <1>1, <2>3, <2>4
    <3> QED BY <2>1, <2>2, <2>3, <2>4, <3>1 DEF Accounted
  <2>5. CASE cursor <= i
    <3>1. NodesOf(i) = {}
      BY <1>1, <2>3, <2>5 DEF Accounted
    <3> QED BY <2>1, <2>2, <2>5, <3>1 DEF Accounted
  <2> QED BY <1>1, <2>3, <2>4, <2>5
<1>3. Size' = Size
  BY InputFixed
<1>4. skipped' # None
  BY <1>1, AtCursor, OpenEnds DEF None
<1> QED BY <1>2, <1>3, <1>4 DEF Owned, BranchFresh

LEMMA FinishOwned == OwnerInv /\ Finish => Owned'
<1> SUFFICES ASSUME OwnerInv, Finish PROVE Owned'
  OBVIOUS
<1> DEFINE span == SpanOf(branchStart, EndOf(Size))
           x == <<Len(branches) + 1, Len(clauses) + 1>>
<1>1. /\ TypeInv /\ Running /\ InputTyped /\ Size \in Nat /\ cursor = Size + 1 /\ cursor - 1 = Size
      /\ pc = "Scan" /\ cursor > Size
      /\ branches' = Append(branches, RecoveredBranch(FlushSkipped(EndOf(Size)), span))
      /\ clauses' = <<>> /\ skipped' = None
      /\ UNCHANGED <<input, cursor, operators>>
  BY TypedInput, SMTT(30) DEF OwnerInv, TypeInv, TypeOK, Position, Finish, Running
<1>2. Size' = Size
  BY <1>1, InputFixed
<1>3. ASSUME NEW i \in 1..Size PROVE Accounted(i)'
  <2>1. clauses = <<>> /\ skipped = None => ~Covers(span, i)
    BY <1>1, FinishPlaceholder
  <2>2. /\ OpenNodes(i)' = {}
        /\ ClosedNodes(i)' = ClosedNodes(i) \cup OpenNodes(i) \cup (IF InRegion(i) THEN {x} ELSE {})
    BY <1>1, <2>1, CloseNodes
  <2>3. OperatorNodes(i)' = OperatorNodes(i)
    BY <1>1 DEF OperatorNodes, CoveringIn, Covers
  <2>4. ~(cursor <= i /\ i < cursor')
    BY <1>1
  <2>5. NodesOf(i)' = NodesOf(i) \cup (IF InRegion(i) THEN {x} ELSE {})
                      \cup (IF cursor <= i /\ i < cursor' THEN {x} ELSE {})
    BY <2>2, <2>3, <2>4 DEF NodesOf
  <2>6. ~InRegion(i)' /\ cursor <= cursor' /\ cursor' \in Nat
    BY <1>1 DEF InRegion
  <2> HIDE DEF x
  <2> QED BY <2>5, <2>6, ClaimAccounts
<1> QED BY <1>2, <1>3 DEF Owned

LEMMA KeepOwned ==
    ASSUME OwnerInv, UNCHANGED <<input, cursor, clauses, branches, operators, branchStart, skipped>>,
           Running' => Running
    PROVE  Owned' /\ (Running' => BranchFresh')
<1>1. Size' = Size
  BY InputFixed
<1>2. ASSUME NEW i \in 1..Size PROVE Accounted(i)'
  <2>1. NodesOf(i)' = NodesOf(i) /\ InRegion(i)' = InRegion(i)
    BY DEF NodesOf, ClosedNodes, OpenNodes, OperatorNodes, CoveringIn, Covers, InRegion
  <2> QED BY <2>1 DEF Accounted, OwnerInv, Owned
<1> QED BY <1>1, <1>2 DEF OwnerInv, Owned, BranchFresh

(* The steps of the search for a clause touch neither the tree nor the     *)
(* result.                                                                 *)
LEMMA SearchSteps ==
    ASSUME BeginClause \/ TryCandidate \/ EndCandidates \/ InsertOperand \/ AbandonRepair
    PROVE  Running /\ Running' /\ UNCHANGED <<input, cursor, tree, outcome>>
<1>1. CASE BeginClause
  BY <1>1 DEF BeginClause, Running, AtClause
<1>2. CASE TryCandidate
  BY <1>2 DEF TryCandidate, Running, AtClause
<1>3. CASE EndCandidates
  BY <1>3 DEF EndCandidates, Running, AtClause
<1>4. CASE InsertOperand
  BY <1>4 DEF InsertOperand, Running, AtClause
<1>5. CASE AbandonRepair
  BY <1>5 DEF AbandonRepair, Running, AtClause
<1> QED BY <1>1, <1>2, <1>3, <1>4, <1>5

(* Both ways of skipping start or extend the pending region.               *)
LEMMA SkipSteps ==
    ASSUME TypeInv, SkipToBoundary \/ SkipAfterReturn
    PROVE  /\ Running /\ pc' = "Scan" /\ cursor <= Size /\ cursor < cursor' /\ cursor' \in Nat
           /\ skipped' = IF skipped = None THEN StartOf(cursor) ELSE skipped
           /\ UNCHANGED <<input, clauses, branches, operators, branchStart, retained, attempts, outcome>>
<1>1. TypeInv' /\ cursor < cursor'
  BY SkippingTyped
<1>2. cursor' \in Nat
  BY <1>1, TypedInput DEF TypeInv, TypeOK
<1>3. Running /\ cursor <= Size
  BY DEF SkipToBoundary, SkipAfterReturn, Running, AtClause, TypeInv, Position, ClauseSearch
<1> QED BY <1>1, <1>2, <1>3 DEF SkipToBoundary, SkipAfterReturn, Skip

LEMMA NextOwned == OwnerInv /\ [Next]_vars => OwnerInv'
<1> SUFFICES ASSUME OwnerInv, [Next]_vars PROVE Owned' /\ (Running' => BranchFresh')
  BY NextTyped DEF OwnerInv
<1>1. CASE RejectInput \/ FinishEmpty
  <2>1. UNCHANGED <<input, cursor, tree>> /\ ~Running'
    BY <1>1 DEF RejectInput, FinishEmpty, Running, AtClause
  <2> QED BY <2>1, KeepOwned DEF tree
<1>2. CASE Prepare
  <2>1. UNCHANGED <<input, cursor, clauses, branches, operators, skipped>> /\ cursor = 1
    BY <1>2 DEF Prepare, OwnerInv, TypeInv, Position
  <2>2. Size' = Size
    BY <2>1, InputFixed
  <2>3. ASSUME NEW i \in 1..Size PROVE Accounted(i)'
    <3>1. NodesOf(i)' = NodesOf(i) /\ InRegion(i)' = InRegion(i)
      BY <2>1 DEF NodesOf, ClosedNodes, OpenNodes, OperatorNodes, CoveringIn, Covers, InRegion
    <3> QED BY <2>1, <3>1 DEF Accounted, OwnerInv, Owned
  <2>4. BranchFresh'
    BY <2>1 DEF BranchFresh
  <2> QED BY <2>2, <2>3, <2>4 DEF Owned
<1>3. CASE SplitUnion
  BY <1>3, SplitOwned
<1>4. CASE BeginClause \/ TryCandidate \/ EndCandidates \/ InsertOperand \/ AbandonRepair
  BY <1>4, SearchSteps, KeepOwned DEF tree
<1>5. CASE RetainClause
  BY <1>5, RetainOwned
<1>6. CASE SkipToBoundary \/ SkipAfterReturn
  BY <1>6, SkipSteps, SkipOwned DEF OwnerInv
<1>7. CASE Finish
  BY <1>7, FinishOwned DEF Finish, Running, AtClause
<1>8. CASE Returned \/ UNCHANGED vars
  BY <1>8, KeepOwned DEF Returned, vars, Running, AtClause
<1> QED BY <1>1, <1>2, <1>3, <1>4, <1>5, <1>6, <1>7, <1>8 DEF Next

THEOREM OwnerInvariant == Spec => []OwnerInv
<1>1. Init => OwnerInv
  BY InitOwned
<1>2. OwnerInv /\ [Next]_vars => OwnerInv'
  BY NextOwned
<1> QED BY <1>1, <1>2, PTL DEF Spec

(* Each token recover_clauses has read belongs to exactly one clause, UNION *)
(* operator or error region, and no token it has not read belongs to any.   *)
LEMMA OwnedIsPartitioned == OwnerInv => TokensPartitioned
<1> SUFFICES ASSUME OwnerInv, NEW i \in 1..Size
             PROVE  Cardinality(Owners(i)) = IF i < cursor THEN 1 ELSE 0
  BY DEF TokensPartitioned
<1>1. Owners(i) = NodesOf(i) \cup IF InRegion(i) THEN {<<-1, 0>>} ELSE {}
  BY OwnersAre DEF OwnerInv, TypeInv
<1>2. Accounted(i)
  BY DEF OwnerInv, Owned
<1>3. CASE i < cursor
  <2>1. \E o : Owners(i) = {o}
    BY <1>1, <1>2, <1>3 DEF Accounted
  <2> QED BY <1>3, <2>1, FS_Singleton
<1>4. CASE ~(i < cursor)
  <2>1. Owners(i) = {}
    BY <1>1, <1>2, <1>4 DEF Accounted, InRegion
  <2> QED BY <1>4, <2>1, FS_EmptySet
<1> QED BY <1>3, <1>4

-----------------------------------------------------------------------------
(* The order of the tree.                                                  *)

\* Nodes that follow each other between two offsets.
InOrder(nodes, start, end) ==
    \A c \in DOMAIN nodes :
        /\ start <= nodes[c].span.start /\ nodes[c].span.end <= end
        /\ c > 1 => nodes[c - 1].span.end <= nodes[c].span.start

\* Where the nodes of the open branch end.
OpenEnd == IF skipped = None THEN EndOf(cursor - 1) ELSE skipped

OpenOrder ==
    /\ InOrder(clauses, branchStart, OpenEnd)
    /\ skipped # None => branchStart <= skipped
    /\ operators # <<>> => operators[Len(operators)].span.end <= branchStart

\* A finished branch lies between the operators that join it to its neighbours.
Joined(b) ==
    /\ branches[b].clauses # <<>>
    /\ InOrder(branches[b].clauses, branches[b].span.start, branches[b].span.end)
    /\ b \in DOMAIN operators => branches[b].span.end <= operators[b].span.start
    /\ b > 1 => operators[b - 1].span.end <= branches[b].span.start

\* Every split adds a branch and an operator, the end of the input a branch.
OrderInv ==
    /\ OwnerInv
    /\ \A b \in DOMAIN branches : Joined(b)
    /\ Running => OpenOrder
    /\ pc = "Prepare" => operators = <<>> /\ ~retained
    /\ Len(operators) = Len(branches) - IF retained /\ pc = "Done" THEN 1 ELSE 0

LEMMA OrderWidens ==
    ASSUME NEW nodes \in Seq(ClauseNodes), NEW start \in Nat, NEW end \in Nat, NEW wider \in Nat,
           InOrder(nodes, start, end), end <= wider
    PROVE  InOrder(nodes, start, wider)
<1>1. \A c \in DOMAIN nodes : nodes[c].span.end \in Nat
  <2>1. \A c \in DOMAIN nodes : nodes[c] \in ClauseNodes
    OBVIOUS
  <2> QED BY <2>1 DEF ClauseNodes, Span
<1> QED BY <1>1 DEF InOrder

LEMMA AppendOrder ==
    ASSUME NEW nodes \in Seq(ClauseNodes), NEW node, node.span \in Span,
           NEW start \in Nat, NEW end \in Nat,
           InOrder(nodes, start, node.span.start), start <= node.span.start, node.span.end <= end
    PROVE  InOrder(Append(nodes, node), start, end)
<1> DEFINE longer == Append(nodes, node)
           n == Len(nodes)
<1>1. /\ n \in Nat /\ DOMAIN nodes = 1..n /\ DOMAIN longer = 1..(n + 1)
      /\ longer[n + 1] = node
      /\ \A c \in 1..n : longer[c] = nodes[c] /\ nodes[c] \in ClauseNodes
  OBVIOUS
<1>2. /\ node.span.start \in Nat /\ node.span.end \in Nat /\ node.span.start <= node.span.end
      /\ \A c \in 1..n : nodes[c].span.start \in Nat /\ nodes[c].span.end \in Nat
  BY <1>1 DEF ClauseNodes, Span
<1> HIDE DEF longer, n
<1>3. \A c \in 1..n : /\ start <= nodes[c].span.start /\ nodes[c].span.end <= node.span.start
                      /\ c > 1 => nodes[c - 1].span.end <= nodes[c].span.start
  BY <1>1 DEF InOrder
<1>4. ASSUME NEW c \in 1..(n + 1)
      PROVE  /\ start <= longer[c].span.start /\ longer[c].span.end <= end
             /\ c > 1 => longer[c - 1].span.end <= longer[c].span.start
  <2>1. CASE c = n + 1
    <3>1. c > 1 => c - 1 = n /\ n \in 1..n
      BY <1>1, <2>1
    <3>2. c > 1 => longer[c - 1].span.end <= node.span.start
      BY <1>1, <1>3, <3>1
    <3> QED BY <1>1, <2>1, <3>2
  <2>2. CASE c \in 1..n
    <3>1. longer[c] = nodes[c] /\ (c > 1 => c - 1 \in 1..n /\ longer[c - 1] = nodes[c - 1])
      BY <1>1, <2>2
    <3>2. nodes[c].span.end <= end
      BY <1>2, <1>3, <2>2
    <3> QED BY <1>3, <2>2, <3>1, <3>2
  <2> QED BY <1>1, <2>1, <2>2
<1>5. InOrder(longer, start, end)
  BY <1>1, <1>4 DEF InOrder
<1> QED BY <1>5 DEF longer

(* The open branch with its region closed is in order up to the cursor.    *)
LEMMA FlushOrder ==
    ASSUME TypeInv, Running, OpenOrder
    PROVE  InOrder(FlushSkipped(EndOf(cursor - 1)), branchStart, EndOf(cursor - 1))
<1>1. CASE skipped = None
  BY <1>1 DEF FlushSkipped, OpenOrder, OpenEnd
<1>2. CASE skipped # None
  <2> DEFINE node == ErrorNode(SpanOf(skipped, EndOf(cursor - 1)))
  <2>1. /\ clauses \in Seq(ClauseNodes) /\ branchStart \in Nat /\ EndOf(cursor - 1) \in Nat
        /\ skipped \in Nat /\ skipped < EndOf(cursor - 1)
    BY <1>2, OpenEnds DEF TypeInv, TypeOK
  <2>2. /\ node.span.start = skipped /\ node.span.end = EndOf(cursor - 1)
        /\ node.span \in Span
    BY <2>1 DEF ErrorNode, ClauseNode, SpanOf, Span
  <2>3. InOrder(clauses, branchStart, skipped) /\ branchStart <= skipped
    BY <1>2 DEF OpenOrder, OpenEnd
  <2>4. FlushSkipped(EndOf(cursor - 1)) = Append(clauses, node)
    BY <1>2 DEF FlushSkipped
  <2> HIDE DEF node
  <2>5. InOrder(Append(clauses, node), branchStart, EndOf(cursor - 1))
    BY <2>1, <2>2, <2>3, AppendOrder
  <2> QED BY <2>4, <2>5
<1> QED BY <1>1, <1>2

(* A branch closed at `end` holds a node and keeps to its span.            *)
LEMMA ClosedOrder ==
    ASSUME TypeInv, Running, OpenOrder, NEW end \in Nat, branchStart <= end,
           ~(clauses = <<>> /\ skipped = None) => end = EndOf(cursor - 1),
           NEW closed, closed = RecoveredBranch(FlushSkipped(end), SpanOf(branchStart, end))
    PROVE  /\ closed.clauses # <<>>
           /\ closed.span.start = branchStart /\ closed.span.end = end
           /\ InOrder(closed.clauses, branchStart, end)
<1>1. closed.span.start = branchStart /\ closed.span.end = end
  BY DEF RecoveredBranch, SpanOf
<1>2. CASE clauses = <<>> /\ skipped = None
  <2>1. /\ closed.clauses = <<ErrorNode(SpanOf(branchStart, end))>>
        /\ ErrorNode(SpanOf(branchStart, end)).span = SpanOf(branchStart, end)
    BY <1>2 DEF RecoveredBranch, FlushSkipped, ErrorNode, ClauseNode
  <2>2. branchStart \in Nat
    BY OpenEnds
  <2> QED BY <1>1, <2>1, <2>2 DEF InOrder, SpanOf
<1>3. CASE ~(clauses = <<>> /\ skipped = None)
  <2>1. FlushSkipped(end) # <<>>
    BY <1>3, FlushNonempty
  <2>2. closed.clauses = FlushSkipped(end)
    BY <2>1 DEF RecoveredBranch
  <2> QED BY <1>1, <1>3, <2>1, <2>2, FlushOrder
<1> QED BY <1>2, <1>3

LEMMA SplitOrder == OrderInv /\ SplitUnion => OrderInv'
<1> SUFFICES ASSUME OrderInv, SplitUnion PROVE OrderInv'
  OBVIOUS
<1> DEFINE qualified == cursor + 1 <= Size /\ Tokens[cursor + 1] \in {"All", "Distinct"}
           next == IF qualified THEN cursor + 2 ELSE cursor + 1
           kind == IF qualified THEN Tokens[cursor + 1] ELSE "Default"
           operator == [kind |-> kind, span |-> SpanOf(StartOf(cursor), EndOf(next - 1))]
           closed == RecoveredBranch(FlushSkipped(BranchEnd), SpanOf(branchStart, BranchEnd))
           n == Len(branches)
<1>1. /\ TypeInv /\ Running /\ InputTyped /\ Size \in Nat /\ cursor \in 1..Size
      /\ pc = "Scan" /\ pc' = "Scan" /\ OpenOrder
      /\ cursor' = next /\ clauses' = <<>> /\ skipped' = None
      /\ operators' = Append(operators, operator) /\ branches' = Append(branches, closed)
      /\ branchStart' = IF next <= Size THEN StartOf(next) ELSE EndOf(next - 1)
  BY TypedInput DEF OrderInv, OwnerInv, TypeInv, TypeOK, SplitUnion, Running
<1>2. OwnerInv'
  BY NextOwned DEF Next, OrderInv
<1>3. next \in (cursor + 1)..(Size + 1) /\ next - 1 \in 1..Size /\ cursor <= next - 1
  BY <1>1
<1>4. /\ branchStart \in Nat /\ BranchEnd \in Nat /\ branchStart <= BranchEnd
      /\ ~(clauses = <<>> /\ skipped = None) => BranchEnd = EndOf(cursor - 1)
      /\ BranchEnd <= StartOf(cursor)
  <2>1. BranchEnd <= StartOf(cursor)
    BY <1>1, AtCursor DEF BranchEnd
  <2> QED BY <1>1, <2>1, BranchEndTyped DEF BranchEnd
<1>5. /\ closed.clauses # <<>>
      /\ closed.span.start = branchStart /\ closed.span.end = BranchEnd
      /\ InOrder(closed.clauses, branchStart, BranchEnd)
  BY <1>1, <1>4, ClosedOrder
<1>6. operator.span.start = StartOf(cursor) /\ operator.span.end = EndOf(next - 1)
  BY DEF SpanOf
<1>7. /\ branches \in Seq([clauses : Seq(ClauseNodes), span : Span])
      /\ operators \in Seq([kind : {"Default", "All", "Distinct"}, span : Span])
      /\ Len(operators) = n
  BY <1>1 DEF OrderInv, TypeInv, TypeOK
<1>8. EndOf(next - 1) <= branchStart'
  <2>1. CASE next <= Size
    <3>1. next \in 1..Size /\ next - 1 <= next /\ next - 1 < next
      BY <1>1, <1>3, <2>1
    <3>2. EndOf(next - 1) <= StartOf(next)
      BY <1>1, <1>3, <3>1, OffsetsGrow
    <3> QED BY <1>1, <2>1, <3>2
  <2>2. CASE ~(next <= Size)
    <3>1. EndOf(next - 1) \in Nat
      BY <1>1, <1>3, TokenOffsets
    <3> QED BY <1>1, <2>2, <3>1
  <2> QED BY <2>1, <2>2
<1> HIDE DEF next, kind, operator, closed, n
<1>9. /\ n \in Nat /\ DOMAIN branches = 1..n /\ DOMAIN branches' = 1..(n + 1)
      /\ branches'[n + 1] = closed
      /\ \A b \in 1..n : branches'[b] = branches[b]
      /\ DOMAIN operators = 1..n /\ DOMAIN operators' = 1..(n + 1)
      /\ operators'[n + 1] = operator
      /\ \A b \in 1..n : operators'[b] = operators[b]
      /\ Len(branches') = n + 1 /\ Len(operators') = n + 1
  BY <1>1, <1>7 DEF n
<1>10. ASSUME NEW b \in 1..(n + 1) PROVE Joined(b)'
  <2>1. CASE b \in 1..n
    <3>1. branches'[b] = branches[b] /\ operators'[b] = operators[b]
          /\ (b > 1 => operators'[b - 1] = operators[b - 1])
      BY <1>9, <2>1
    <3>2. Joined(b)
      BY <1>9, <2>1 DEF OrderInv
    <3> QED BY <1>9, <2>1, <3>1, <3>2 DEF Joined, InOrder
  <2>2. CASE b = n + 1
    <3>1. b > 1 => operators'[b - 1].span.end <= branchStart
      <4> SUFFICES ASSUME b > 1 PROVE operators'[b - 1].span.end <= branchStart
        OBVIOUS
      <4>1. b - 1 = n /\ n \in 1..n /\ operators # <<>>
        BY <1>7, <1>9, <2>2
      <4>2. operators'[b - 1] = operators[Len(operators)]
        BY <1>7, <1>9, <4>1 DEF n
      <4> QED BY <1>1, <4>1, <4>2 DEF OpenOrder
    <3>2. branches'[b] = closed /\ operators'[b] = operator
      BY <1>9, <2>2
    <3> QED BY <1>4, <1>5, <1>6, <3>1, <3>2 DEF Joined, InOrder
  <2> QED BY <1>9, <2>1, <2>2
<1>11. OpenOrder'
  <2>1. DOMAIN clauses' = {} /\ Len(operators') = n + 1 /\ operators'[n + 1] = operator
    BY <1>1, <1>9
  <2> QED BY <1>1, <1>6, <1>8, <2>1 DEF OpenOrder, InOrder
<1> QED BY <1>1, <1>2, <1>9, <1>10, <1>11 DEF OrderInv

LEMMA FinishOrder == OrderInv /\ Finish => OrderInv'
<1> SUFFICES ASSUME OrderInv, Finish PROVE OrderInv'
  OBVIOUS
<1> DEFINE closed == RecoveredBranch(FlushSkipped(EndOf(Size)), SpanOf(branchStart, EndOf(Size)))
           n == Len(branches)
<1>1. /\ TypeInv /\ Running /\ InputTyped /\ Size \in Nat /\ cursor = Size + 1 /\ cursor - 1 = Size
      /\ Size >= 1 /\ OpenOrder /\ pc = "Scan" /\ pc' = "Done" /\ retained /\ retained' = retained
      /\ branches' = Append(branches, closed) /\ operators' = operators
  BY TypedInput DEF OrderInv, OwnerInv, TypeInv, TypeOK, Position, Finish, Running
<1>2. OwnerInv'
  BY NextOwned DEF Next, OrderInv
<1>3. EndOf(Size) \in Nat /\ branchStart \in Nat /\ branchStart <= EndOf(Size)
  <2>1. BranchOpen /\ cursor > 1 /\ EndOf(Size) \in Nat
    BY <1>1, OpenEnds DEF TypeInv, Position
  <2> QED BY <1>1, <2>1 DEF BranchOpen
<1>4. /\ closed.clauses # <<>>
      /\ closed.span.start = branchStart /\ closed.span.end = EndOf(Size)
      /\ InOrder(closed.clauses, branchStart, EndOf(Size))
  BY <1>1, <1>3, ClosedOrder
<1>5. /\ branches \in Seq([clauses : Seq(ClauseNodes), span : Span])
      /\ operators \in Seq([kind : {"Default", "All", "Distinct"}, span : Span])
      /\ Len(operators) = n
  BY <1>1 DEF OrderInv, TypeInv, TypeOK
<1> HIDE DEF closed, n
<1>6. /\ n \in Nat /\ DOMAIN branches = 1..n /\ DOMAIN branches' = 1..(n + 1)
      /\ branches'[n + 1] = closed
      /\ \A b \in 1..n : branches'[b] = branches[b]
      /\ DOMAIN operators = 1..n
      /\ Len(branches') = n + 1
  BY <1>1, <1>5 DEF n
<1>7. ASSUME NEW b \in 1..(n + 1) PROVE Joined(b)'
  <2>1. CASE b \in 1..n
    <3>1. branches'[b] = branches[b] /\ Joined(b)
      BY <1>6, <2>1 DEF OrderInv
    <3> QED BY <1>1, <3>1 DEF Joined, InOrder
  <2>2. CASE b = n + 1
    <3>1. b > 1 => operators[b - 1].span.end <= branchStart
      <4> SUFFICES ASSUME b > 1 PROVE operators[b - 1].span.end <= branchStart
        OBVIOUS
      <4>1. b - 1 = Len(operators) /\ operators # <<>>
        BY <1>5, <1>6, <2>2
      <4> QED BY <1>1, <4>1 DEF OpenOrder
    <3>2. branches'[b] = closed /\ b \notin DOMAIN operators'
      BY <1>1, <1>6, <2>2
    <3> QED BY <1>1, <1>4, <3>1, <3>2 DEF Joined, InOrder
  <2> QED BY <1>6, <2>1, <2>2
<1>8. ~Running' /\ Len(operators') = Len(branches') - 1
  BY <1>1, <1>5, <1>6 DEF Running, AtClause
<1> QED BY <1>1, <1>2, <1>6, <1>7, <1>8 DEF OrderInv

LEMMA RetainOrder == OrderInv /\ RetainClause => OrderInv'
<1> SUFFICES ASSUME OrderInv, RetainClause PROVE OrderInv'
  OBVIOUS
<1> DEFINE kind == IF Tokens[cursor] = "Return" THEN "Return" ELSE "Other"
           node == ClauseNode(kind, parsed.repaired, SpanOf(StartOf(cursor), EndOf(parsed.end - 1)))
           nodes == FlushSkipped(EndOf(cursor - 1))
           end == EndOf(parsed.end - 1)
<1>1. /\ TypeInv /\ Running /\ pc = "Settle" /\ pc' = "Scan" /\ parsed # NoClause /\ OpenOrder
      /\ clauses' = Append(nodes, node) /\ cursor' = parsed.end /\ skipped' = None
      /\ UNCHANGED <<input, branches, operators, branchStart>>
  BY DEF OrderInv, OwnerInv, RetainClause, Running, AtClause
<1>2. OwnerInv'
  BY NextOwned DEF Next, OrderInv
<1>3. /\ cursor \in 1..Size /\ Size \in Nat /\ InputTyped
      /\ parsed.end \in (cursor + 1)..(Size + 1)
      /\ nodes \in Seq(ClauseNodes) /\ node.span \in Span
  BY <1>1, FoundClause, TypedInput DEF TypeInv, ClauseNode
<1>4. /\ node.span.start = StartOf(cursor) /\ node.span.end = end
  BY DEF ClauseNode, SpanOf
<1>5. StartOf(cursor) \in Nat /\ end \in Nat /\ branchStart \in Nat /\ branchStart <= StartOf(cursor)
  <2>1. parsed.end - 1 \in 1..Size
    BY <1>3
  <2> QED BY <1>1, <1>3, <2>1, AtCursor, TokenOffsets, SMTT(30)
<1>6. InOrder(nodes, branchStart, StartOf(cursor))
  <2>1. CASE cursor > 1
    <3>1. InOrder(nodes, branchStart, EndOf(cursor - 1))
      BY <1>1, FlushOrder
    <3>2. EndOf(cursor - 1) \in Nat /\ EndOf(cursor - 1) <= StartOf(cursor)
      BY <1>1, <1>3, <2>1, AtCursor
    <3> HIDE DEF nodes
    <3> QED BY <1>3, <1>5, <3>1, <3>2, OrderWidens
  <2>2. CASE ~(cursor > 1)
    <3>1. nodes = <<>>
      BY <1>1, <1>3, <2>2, AtCursor DEF FlushSkipped
    <3> QED BY <3>1 DEF InOrder
  <2> QED BY <2>1, <2>2
<1> HIDE DEF node, nodes, end
<1>7. InOrder(Append(nodes, node), branchStart, end)
  <2>1. end <= end
    BY <1>5
  <2> QED BY <1>3, <1>4, <1>5, <1>6, <2>1, AppendOrder
<1>8. OpenOrder'
  <2>1. OpenEnd' = end /\ branchStart' = branchStart
    BY <1>1 DEF OpenEnd, end
  <2>2. InOrder(clauses, branchStart, OpenEnd)'
    BY <1>1, <1>7, <2>1 DEF InOrder
  <2> QED BY <1>1, <2>2 DEF OpenOrder
<1>9. \A b \in DOMAIN branches' : Joined(b)'
  BY <1>1 DEF OrderInv, Joined, InOrder
<1> QED BY <1>1, <1>2, <1>8, <1>9 DEF OrderInv

LEMMA SkipOrder == OrderInv /\ (SkipToBoundary \/ SkipAfterReturn) => OrderInv'
<1> SUFFICES ASSUME OrderInv, SkipToBoundary \/ SkipAfterReturn PROVE OrderInv'
  OBVIOUS
<1>1. /\ TypeInv /\ Running /\ OpenOrder /\ pc # "Done" /\ pc' = "Scan" /\ cursor <= Size
      /\ skipped' = (IF skipped = None THEN StartOf(cursor) ELSE skipped)
      /\ UNCHANGED <<clauses, branches, operators, branchStart>>
  BY SkipSteps DEF OrderInv, OwnerInv, Running, AtClause
<1>2. OwnerInv'
  BY NextOwned DEF Next, OrderInv
<1>3. skipped # None => skipped \in Nat
  BY <1>1, OpenEnds
<1>4. /\ StartOf(cursor) \in Nat /\ branchStart \in Nat /\ branchStart <= StartOf(cursor)
      /\ clauses \in Seq(ClauseNodes)
  BY <1>1, AtCursor DEF TypeInv, TypeOK
<1>5. InOrder(clauses, branchStart, skipped') /\ branchStart <= skipped' /\ skipped' # None
  <2>1. CASE skipped # None
    BY <1>1, <2>1 DEF OpenOrder, OpenEnd
  <2>2. CASE skipped = None /\ cursor > 1
    <3>1. InOrder(clauses, branchStart, EndOf(cursor - 1))
      BY <1>1, <2>2 DEF OpenOrder, OpenEnd
    <3>2. EndOf(cursor - 1) \in Nat /\ EndOf(cursor - 1) <= StartOf(cursor)
      BY <1>1, <2>2, AtCursor
    <3>3. InOrder(clauses, branchStart, StartOf(cursor))
      BY <1>4, <3>1, <3>2, OrderWidens
    <3> QED BY <1>1, <1>4, <2>2, <3>3 DEF None
  <2>3. CASE skipped = None /\ ~(cursor > 1)
    <3>1. clauses = <<>>
      BY <1>1, <2>3, AtCursor
    <3> QED BY <1>1, <1>4, <2>3, <3>1 DEF InOrder, None
  <2> QED BY <2>1, <2>2, <2>3
<1>6. OpenOrder'
  <2>1. OpenEnd' = skipped'
    BY <1>5 DEF OpenEnd
  <2>2. InOrder(clauses, branchStart, OpenEnd)'
    BY <1>1, <1>5, <2>1 DEF InOrder
  <2> QED BY <1>1, <1>5, <2>2 DEF OpenOrder
<1>7. \A b \in DOMAIN branches' : Joined(b)'
  BY <1>1 DEF OrderInv, Joined, InOrder
<1> QED BY <1>1, <1>2, <1>6, <1>7 DEF OrderInv

LEMMA NextOrder == OrderInv /\ [Next]_vars => OrderInv'
<1> SUFFICES ASSUME OrderInv, [Next]_vars PROVE OrderInv'
  OBVIOUS
<1>1. OwnerInv'
  BY NextOwned DEF OrderInv
<1> DEFINE Rest == /\ \A b \in DOMAIN branches : Joined(b)
                   /\ Running => OpenOrder
                   /\ pc = "Prepare" => operators = <<>> /\ ~retained
                   /\ Len(operators) = Len(branches) - IF retained /\ pc = "Done" THEN 1 ELSE 0
<1> SUFFICES Rest'
  BY <1>1 DEF OrderInv
<1>2. UNCHANGED <<branches, operators>> => \A b \in DOMAIN branches' : Joined(b)'
  BY DEF OrderInv, Joined, InOrder
<1>3. CASE RejectInput
  <2>1. ~retained
      BY <1>3 DEF RejectInput, OrderInv
  <2> QED BY <1>2, <1>3, <2>1 DEF RejectInput, tree, OrderInv, Running, AtClause
<1>4. CASE Prepare
  <2>1. /\ UNCHANGED <<clauses, branches, operators, skipped>> /\ pc = "Prepare" /\ pc' = "Scan"
        /\ clauses = <<>> /\ skipped = None /\ operators = <<>>
    BY <1>4 DEF Prepare, OrderInv, OwnerInv, TypeInv, Position
  <2>2. OpenOrder'
    BY <2>1 DEF OpenOrder, InOrder
  <2> QED BY <1>2, <2>1, <2>2 DEF OrderInv
<1>5. CASE SplitUnion
  BY <1>5, SplitOrder DEF OrderInv
<1>6. CASE BeginClause \/ TryCandidate \/ EndCandidates \/ InsertOperand \/ AbandonRepair
  <2>1. Running /\ Running' /\ UNCHANGED <<input, cursor, tree>>
    BY <1>6, SearchSteps
  <2>2. OpenOrder'
    BY <2>1 DEF OrderInv, OpenOrder, OpenEnd, InOrder, tree
  <2> QED BY <1>2, <2>1, <2>2 DEF OrderInv, tree, Running, AtClause
<1>7. CASE RetainClause
  BY <1>7, RetainOrder DEF OrderInv
<1>8. CASE SkipToBoundary \/ SkipAfterReturn
  BY <1>8, SkipOrder DEF OrderInv
<1>9. CASE Finish
  BY <1>9, FinishOrder DEF OrderInv
<1>10. CASE FinishEmpty
  BY <1>2, <1>10 DEF FinishEmpty, tree, OrderInv, Running, AtClause
<1>11. CASE Returned \/ UNCHANGED vars
  <2>1. UNCHANGED vars
    BY <1>11 DEF Returned
  <2>2. OpenOrder' = OpenOrder /\ Running' = Running
    BY <2>1 DEF vars, OpenOrder, OpenEnd, InOrder, Running, AtClause
  <2> QED BY <1>2, <2>1, <2>2 DEF vars, OrderInv
<1> QED BY <1>3, <1>4, <1>5, <1>6, <1>7, <1>8, <1>9, <1>10, <1>11 DEF Next

-----------------------------------------------------------------------------
(* What the tree keeps.                                                    *)

KeptIn(nodes) == {node \in Range(nodes) : node.kind # "Error"}

ClosedKept == UNION {KeptIn(branches[b].clauses) : b \in DOMAIN branches}

LEMMA KeptIs == TypeOK => Kept = ClosedKept \cup KeptIn(clauses)
<1> SUFFICES ASSUME TypeOK PROVE Kept = ClosedKept \cup KeptIn(clauses)
  OBVIOUS
<1>1. /\ Len(branches) \in Nat /\ DOMAIN branches = 1..Len(branches)
      /\ DOMAIN Parts = 1..(Len(branches) + 1)
      /\ \A b \in DOMAIN branches : Parts[b] = branches[b].clauses
      /\ Parts[Len(branches) + 1] = clauses
  BY DEF TypeOK, Parts
<1>2. DOMAIN Parts = DOMAIN branches \cup {Len(branches) + 1}
  BY <1>1
<1> DEFINE nodes(b) == Range(Parts[b])
<1>3. Nodes = UNION {nodes(b) : b \in DOMAIN Parts}
  BY DEF Nodes
<1>4. \A b \in DOMAIN branches : nodes(b) = Range(branches[b].clauses)
  BY <1>1
<1>5. nodes(Len(branches) + 1) = Range(clauses)
  BY <1>1
<1> HIDE DEF nodes
<1>6. Nodes = (UNION {Range(branches[b].clauses) : b \in DOMAIN branches}) \cup Range(clauses)
  BY <1>2, <1>3, <1>4, <1>5
<1> QED BY <1>6 DEF Kept, KeptIn, ClosedKept

LEMMA AppendKept ==
    ASSUME NEW S, NEW nodes \in Seq(S), NEW node
    PROVE  KeptIn(Append(nodes, node)) = KeptIn(nodes) \cup (IF node.kind = "Error" THEN {} ELSE {node})
<1> DEFINE longer == Append(nodes, node)
           n == Len(nodes)
<1>1. /\ n \in Nat /\ DOMAIN nodes = 1..n /\ DOMAIN longer = 1..(n + 1)
      /\ longer[n + 1] = node
      /\ \A c \in 1..n : longer[c] = nodes[c]
  OBVIOUS
<1> HIDE DEF longer, n
<1>2. DOMAIN longer = DOMAIN nodes \cup {n + 1}
  BY <1>1
<1>3. Range(longer) = Range(nodes) \cup {node}
  BY <1>1, <1>2 DEF Range
<1>4. KeptIn(longer) = KeptIn(nodes) \cup (IF node.kind = "Error" THEN {} ELSE {node})
  BY <1>3 DEF KeptIn
<1> QED BY <1>4 DEF longer

LEMMA FlushKept ==
    ASSUME TypeInv, NEW end
    PROVE  KeptIn(FlushSkipped(end)) = KeptIn(clauses)
<1> DEFINE region == ErrorNode(SpanOf(skipped, end))
<1>1. clauses \in Seq(ClauseNodes) /\ region.kind = "Error"
  BY DEF TypeInv, TypeOK, ErrorNode, ClauseNode
<1> HIDE DEF region
<1>2. KeptIn(Append(clauses, region)) = KeptIn(clauses)
  BY <1>1, AppendKept, ZenonT(40)
<1> QED BY <1>2 DEF FlushSkipped, region

(* Closing a branch keeps what it keeps.                                   *)
LEMMA CloseKept ==
    ASSUME TypeInv, TypeInv', NEW end, NEW span,
           branches' = Append(branches, RecoveredBranch(FlushSkipped(end), span)),
           clauses' = <<>>
    PROVE  Kept' = Kept
<1> DEFINE closed == RecoveredBranch(FlushSkipped(end), span)
           n == Len(branches)
<1>1. KeptIn(closed.clauses) = KeptIn(clauses)
  <2>1. CASE FlushSkipped(end) = <<>>
    <3>1. closed.clauses = <<ErrorNode(span)>> /\ ErrorNode(span).kind = "Error"
      BY <2>1 DEF RecoveredBranch, ErrorNode, ClauseNode
    <3>2. KeptIn(<<ErrorNode(span)>>) = {} /\ KeptIn(<<>>) = {}
      BY <3>1 DEF KeptIn, Range
    <3> QED BY <2>1, <3>1, <3>2, FlushKept
  <2>2. CASE FlushSkipped(end) # <<>>
    <3>1. closed.clauses = FlushSkipped(end)
      BY <2>2 DEF RecoveredBranch
    <3> QED BY <3>1, FlushKept
  <2> QED BY <2>1, <2>2
<1>2. branches \in Seq([clauses : Seq(ClauseNodes), span : Span])
  BY DEF TypeInv, TypeOK
<1> HIDE DEF closed, n
<1>3. /\ n \in Nat /\ DOMAIN branches = 1..n /\ DOMAIN branches' = 1..(n + 1)
      /\ branches'[n + 1] = closed
      /\ \A b \in 1..n : branches'[b] = branches[b]
  BY <1>2 DEF closed, n
<1>4. DOMAIN branches' = DOMAIN branches \cup {n + 1}
  BY <1>3
<1>5. ClosedKept' = ClosedKept \cup KeptIn(closed.clauses)
  <2> DEFINE here(b) == KeptIn(branches'[b].clauses)
             was(b) == KeptIn(branches[b].clauses)
  <2>1. ClosedKept' = UNION {here(b) : b \in DOMAIN branches'}
    BY DEF ClosedKept, KeptIn
  <2>2. ClosedKept = UNION {was(b) : b \in DOMAIN branches}
    BY DEF ClosedKept
  <2>3. \A b \in DOMAIN branches : here(b) = was(b)
    BY <1>3
  <2>4. here(n + 1) = KeptIn(closed.clauses)
    BY <1>3
  <2> HIDE DEF here, was
  <2> QED BY <1>4, <2>1, <2>2, <2>3, <2>4
<1>6. KeptIn(clauses)' = {}
  BY DEF KeptIn, Range
<1>7. Kept' = ClosedKept' \cup KeptIn(clauses)'
  <2>1. (TypeOK => Kept = ClosedKept \cup KeptIn(clauses))'
    BY KeptIs, PTL
  <2>2. TypeOK'
    BY DEF TypeInv
  <2> QED BY <2>1, <2>2
<1> QED BY <1>1, <1>5, <1>6, <1>7, KeptIs DEF TypeInv

(* Keeping a clause adds one node, which spans the candidate that parsed.   *)
LEMMA RetainKept ==
    ASSUME TypeInv, TypeInv', RetainClause
    PROVE  /\ retained'
           /\ \E node : /\ Kept' = Kept \cup {node}
                        /\ node.span = SpanOf(StartOf(cursor), EndOf(parsed.end - 1))
<1> DEFINE kind == IF Tokens[cursor] = "Return" THEN "Return" ELSE "Other"
           node == ClauseNode(kind, parsed.repaired, SpanOf(StartOf(cursor), EndOf(parsed.end - 1)))
           nodes == FlushSkipped(EndOf(cursor - 1))
<1>1. /\ clauses' = Append(nodes, node) /\ retained' /\ pc = "Settle" /\ parsed # NoClause
      /\ branches' = branches
  BY DEF RetainClause
<1>2. node.kind # "Error" /\ node.span = SpanOf(StartOf(cursor), EndOf(parsed.end - 1))
  BY DEF ClauseNode
<1>3. nodes \in Seq(ClauseNodes)
  BY <1>1, FoundClause
<1>4. KeptIn(nodes) = KeptIn(clauses)
  BY FlushKept
<1> HIDE DEF node, nodes
<1>5. KeptIn(Append(nodes, node)) = KeptIn(clauses) \cup {node}
  BY <1>2, <1>3, <1>4, AppendKept
<1>6. KeptIn(clauses)' = KeptIn(Append(nodes, node)) /\ ClosedKept' = ClosedKept
  BY <1>1 DEF KeptIn, ClosedKept
<1>7. Kept' = ClosedKept' \cup KeptIn(clauses)'
  <2>1. (TypeOK => Kept = ClosedKept \cup KeptIn(clauses))'
    BY KeptIs, PTL
  <2>2. TypeOK'
    BY DEF TypeInv
  <2> QED BY <2>1, <2>2
<1>8. Kept = ClosedKept \cup KeptIn(clauses)
  BY KeptIs DEF TypeInv
<1>9. Kept' = Kept \cup {node}
  BY <1>1, <1>5, <1>6, <1>7, <1>8
<1> QED BY <1>1, <1>2, <1>9

(* Keeping a clause is the only step that changes what is kept.            *)
LEMMA OnlyRetainKeeps ==
    ASSUME TypeInv, [Next]_vars, ~RetainClause
    PROVE  Kept' = Kept /\ retained' = retained
<1>1. UNCHANGED <<clauses, branches, retained>> => Kept' = Kept /\ retained' = retained
  BY DEF Kept, Nodes, Parts
<1>2. CASE SplitUnion
  <2>1. /\ clauses' = <<>> /\ retained' = retained
        /\ branches' = Append(branches,
                          RecoveredBranch(FlushSkipped(BranchEnd), SpanOf(branchStart, BranchEnd)))
    BY <1>2 DEF SplitUnion
  <2> QED BY <2>1, NextTyped, CloseKept
<1>3. CASE Finish
  <2>1. /\ clauses' = <<>> /\ retained' = retained
        /\ branches' = Append(branches,
                          RecoveredBranch(FlushSkipped(EndOf(Size)), SpanOf(branchStart, EndOf(Size))))
    BY <1>3 DEF Finish
  <2> QED BY <2>1, NextTyped, CloseKept
<1>4. CASE RejectInput \/ Prepare \/ FinishEmpty
  BY <1>1, <1>4 DEF RejectInput, Prepare, FinishEmpty, tree
<1>5. CASE BeginClause \/ TryCandidate \/ EndCandidates \/ InsertOperand \/ AbandonRepair
  BY <1>1, <1>5, SearchSteps DEF tree
<1>6. CASE SkipToBoundary \/ SkipAfterReturn
  BY <1>1, <1>6, SkipSteps
<1>7. CASE Returned \/ UNCHANGED vars
  BY <1>1, <1>7 DEF Returned, vars
<1> QED BY <1>2, <1>3, <1>4, <1>5, <1>6, <1>7 DEF Next

TreeInv == OrderInv /\ (retained <=> Kept # {})

THEOREM TreeInvariant == Spec => []TreeInv
<1>1. Init => TreeInv
  <2> SUFFICES ASSUME Init PROVE TreeInv
    OBVIOUS
  <2>1. /\ clauses = <<>> /\ branches = <<>> /\ operators = <<>> /\ pc = "Prepare"
        /\ retained = FALSE
    BY DEF Init
  <2>2. OwnerInv /\ TypeOK
    BY InitOwned DEF OwnerInv, TypeInv
  <2>3. KeptIn(clauses) = {} /\ ClosedKept = {}
    BY <2>1 DEF KeptIn, Range, ClosedKept
  <2>4. Kept = {}
    BY <2>2, <2>3, KeptIs
  <2>5. ~Running /\ Len(operators) = 0 /\ Len(branches) = 0 /\ DOMAIN branches = {}
    BY <2>1 DEF Running, AtClause
  <2> QED BY <2>1, <2>2, <2>4, <2>5 DEF TreeInv, OrderInv
<1>2. TreeInv /\ [Next]_vars => TreeInv'
  <2> SUFFICES ASSUME TreeInv, [Next]_vars PROVE TreeInv'
    OBVIOUS
  <2>1. OrderInv' /\ TypeInv /\ TypeInv'
    BY NextOrder, NextTyped DEF TreeInv, OrderInv, OwnerInv
  <2>2. CASE RetainClause
    BY <2>1, <2>2, RetainKept DEF TreeInv
  <2>3. CASE ~RetainClause
    BY <2>1, <2>3, OnlyRetainKeeps DEF TreeInv
  <2> QED BY <2>2, <2>3
<1> QED BY <1>1, <1>2, PTL DEF Spec

(* The partial tree of recover_clauses accounts for every token read, once *)
(* and in source order, whatever the input, the grammar and the budget.    *)
THEOREM TreeAccountsForSource == Spec => []TreeFollowsSource
<1>1. TreeInv => TreeFollowsSource
  <2> SUFFICES ASSUME TreeInv PROVE SourceOrder
    BY OwnedIsPartitioned DEF TreeInv, OrderInv, TreeFollowsSource
  <2>1. \A b \in DOMAIN branches : Joined(b)
    BY DEF TreeInv, OrderInv
  <2>2. Len(operators) = Len(branches) - IF Kept # {} /\ pc = "Done" THEN 1 ELSE 0
    BY DEF TreeInv, OrderInv
  <2> QED BY <2>1, <2>2 DEF SourceOrder, Joined, InOrder
<1> QED BY <1>1, TreeInvariant, PTL

-----------------------------------------------------------------------------
(* After the budget is spent.                                              *)

(* A spent budget stays spent.                                             *)
LEMMA AttemptsFall ==
    ASSUME TypeInv, [Next]_vars, attempts' # 0
    PROVE  attempts # 0
<1>1. attempts \in Nat
  BY BoundAssumption DEF TypeInv, TypeOK
<1>2. CASE SplitUnion \/ TryCandidate \/ InsertOperand
  BY <1>1, <1>2 DEF SplitUnion, AtUnion, TryCandidate, MayTry, InsertOperand
<1>3. CASE ~(SplitUnion \/ TryCandidate \/ InsertOperand)
  <2>1. attempts' = attempts
    BY <1>3 DEF Next, RejectInput, Prepare, BeginClause, EndCandidates, AbandonRepair, RetainClause,
                SkipToBoundary, SkipAfterReturn, Skip, Finish, FinishEmpty, Returned, vars
  <2> QED BY <2>1
<1> QED BY <1>2, <1>3

(* No step touches the input.                                              *)
LEMMA StepKeepsInput ==
    ASSUME [Next]_vars
    PROVE  input' = input
BY DEF Next, RejectInput, Prepare, SplitUnion, BeginClause, TryCandidate, EndCandidates,
       InsertOperand, AbandonRepair, RetainClause, SkipToBoundary, SkipAfterReturn, Skip,
       Finish, FinishEmpty, Returned, vars

\* Where the suffix is, once the head of the loop was reached without budget:
\* still ahead, with no clause found at its first token, ...
SuffixAhead ==
    /\ cursor = spent.cursor
    /\ pc = "Scan" \/ (pc \in {"Try", "Settle"} /\ parsed = NoClause)
    /\ pc = "Try" => failed = {}

\* ... in the pending region, ...
SuffixSkipped ==
    /\ pc = "Scan" /\ cursor = Size + 1
    /\ \A i \in spent.cursor..Size : InRegion(i)

\* ... or in the last node of the result, if there is one.
SuffixClosed ==
    /\ pc = "Done"
    /\ outcome.kind = "Recovered" =>
        \A i \in spent.cursor..Size : LastNode.kind = "Error" /\ Covers(LastNode.span, i)

SuffixHeld ==
    /\ attempts = 0 /\ spent.cursor \in 1..(Size + 1)
    /\ Kept = spent.kept /\ operators = spent.operators
    /\ SuffixAhead \/ SuffixSkipped \/ SuffixClosed

SpentInv ==
    /\ TypeInv
    /\ pc = "Scan" /\ attempts = 0 => spent.cursor # None
    /\ spent.cursor # None => SuffixHeld
    /\ outcome.kind = "Recovered" => pc = "Done"

(* The five steps that reach the head of the loop take the mark there.     *)
LEMMA HeadMarks ==
    ASSUME TypeInv, TypeInv', Prepare \/ SplitUnion \/ RetainClause \/ SkipToBoundary \/ SkipAfterReturn
    PROVE  MarkSpent /\ pc' = "Scan" /\ UNCHANGED <<input, outcome>>
<1>1. CASE Prepare
  BY <1>1 DEF Prepare
<1>2. CASE SplitUnion
  BY <1>2 DEF SplitUnion
<1>3. CASE RetainClause
  BY <1>3 DEF RetainClause
<1>4. CASE SkipToBoundary \/ SkipAfterReturn
  BY <1>4 DEF SkipToBoundary, SkipAfterReturn, Skip
<1> QED BY <1>1, <1>2, <1>3, <1>4

(* No other step does, and none of them touches the mark.                  *)
LEMMA MarkStays ==
    ASSUME [Next]_vars, ~(Prepare \/ SplitUnion \/ RetainClause \/ SkipToBoundary \/ SkipAfterReturn)
    PROVE  /\ spent' = spent /\ operators' = operators
           /\ pc' = "Scan" => pc = "Scan" /\ attempts' = attempts
<1>1. CASE RejectInput \/ Finish \/ FinishEmpty
  BY <1>1 DEF RejectInput, Finish, FinishEmpty, tree
<1>2. CASE BeginClause
  BY <1>2 DEF BeginClause, tree
<1>3. CASE TryCandidate \/ EndCandidates
  BY <1>3 DEF TryCandidate, EndCandidates, tree
<1>4. CASE InsertOperand \/ AbandonRepair
  BY <1>4 DEF InsertOperand, AbandonRepair, tree
<1>5. CASE Returned \/ UNCHANGED vars
  BY <1>5 DEF Returned, vars
<1> QED BY <1>1, <1>2, <1>3, <1>4, <1>5 DEF Next

(* The mark, once taken, says what it should.                              *)
LEMMA MarkTaken ==
    ASSUME SpentInv, [Next]_vars, spent.cursor = None
    PROVE  SpentInv'
<1>1. TypeInv /\ TypeInv' /\ (outcome.kind = "Recovered" => pc = "Done")
      /\ (pc = "Scan" => attempts # 0)
  BY NextTyped DEF SpentInv
<1>2. CASE Prepare \/ SplitUnion \/ RetainClause \/ SkipToBoundary \/ SkipAfterReturn
  <2>1. MarkSpent /\ pc' = "Scan" /\ outcome' = outcome
    BY <1>1, <1>2, HeadMarks
  <2>2. pc # "Done"
    BY <1>2 DEF Prepare, SplitUnion, RetainClause, SkipToBoundary, SkipAfterReturn
  <2>3. CASE attempts' = 0
    <3>1. spent' = [cursor |-> cursor', kept |-> Kept', operators |-> operators']
      BY <2>1, <2>3 DEF MarkSpent
    <3>2. cursor' \in 1..(Size' + 1) /\ Size' \in Nat
      <4>1. (TypeOK => Size \in Nat)'
        BY TypedInput, PTL
      <4> QED BY <1>1, <4>1 DEF TypeInv, TypeOK
    <3>3. spent'.cursor # None
      BY <3>1, <3>2 DEF None
    <3>4. SuffixAhead'
      BY <2>1, <3>1 DEF SuffixAhead
    <3>5. SuffixHeld'
      BY <2>3, <3>1, <3>2, <3>4 DEF SuffixHeld
    <3> QED BY <1>1, <2>1, <2>2, <3>3, <3>5 DEF SpentInv
  <2>4. CASE attempts' # 0
    <3>1. spent' = spent
      BY <2>1, <2>4 DEF MarkSpent
    <3> QED BY <1>1, <2>1, <2>2, <2>4, <3>1 DEF SpentInv
  <2> QED BY <2>3, <2>4
<1>3. CASE ~(Prepare \/ SplitUnion \/ RetainClause \/ SkipToBoundary \/ SkipAfterReturn)
  <2>1. spent' = spent /\ (pc' = "Scan" => pc = "Scan" /\ attempts' = attempts)
    BY <1>3, MarkStays
  <2>2. outcome'.kind = "Recovered" => pc' = "Done"
    <3>1. CASE RejectInput \/ Finish \/ FinishEmpty
      BY <3>1 DEF RejectInput, Finish, FinishEmpty
    <3>2. CASE BeginClause \/ TryCandidate \/ EndCandidates \/ InsertOperand \/ AbandonRepair
      BY <1>1, <3>2, SearchSteps DEF Running, AtClause
    <3>3. CASE Returned \/ UNCHANGED vars
      BY <1>1, <3>3 DEF Returned, vars
    <3> QED BY <1>3, <3>1, <3>2, <3>3 DEF Next
  <2> QED BY <1>1, <2>1, <2>2 DEF SpentInv
<1> QED BY <1>2, <1>3

(* With the mark taken, nothing is paid for, found or kept any more.       *)
LEMMA NothingAfterMark ==
    ASSUME SpentInv, [Next]_vars, spent.cursor # None
    PROVE  /\ ~SplitUnion /\ ~RetainClause /\ ~TryCandidate /\ ~Prepare /\ ~InsertOperand
           /\ ~AbandonRepair /\ ~RejectInput
           /\ attempts' = 0 /\ spent' = spent /\ Kept' = Kept /\ operators' = operators
<1>1. attempts = 0 /\ TypeInv /\ (SuffixAhead \/ SuffixSkipped \/ SuffixClosed)
  BY DEF SpentInv, SuffixHeld
<1>2. /\ pc \notin {"Prepare", "Repair"}
      /\ pc = "Settle" => parsed = NoClause
  BY <1>1 DEF SuffixAhead, SuffixSkipped, SuffixClosed
<1>3. /\ ~SplitUnion /\ ~TryCandidate /\ ~Prepare /\ ~InsertOperand /\ ~AbandonRepair /\ ~RejectInput
  BY <1>1, <1>2 DEF SplitUnion, AtUnion, TryCandidate, MayTry, Prepare, InsertOperand,
                    AbandonRepair, RejectInput
<1>4. ~RetainClause
  BY <1>2 DEF RetainClause
<1>5. Kept' = Kept
  BY <1>1, <1>4, OnlyRetainKeeps
<1>6. attempts' = 0
  BY <1>1, AttemptsFall
<1>7. spent' = spent /\ operators' = operators
  <2>1. CASE SkipToBoundary \/ SkipAfterReturn
    BY <2>1 DEF SkipToBoundary, SkipAfterReturn, Skip, MarkSpent
  <2>2. CASE ~(SkipToBoundary \/ SkipAfterReturn)
    BY <1>3, <1>4, <2>2, MarkStays
  <2> QED BY <2>1, <2>2
<1> QED BY <1>3, <1>4, <1>5, <1>6, <1>7

(* Skipping without budget takes the whole suffix into the pending region. *)
LEMMA SuffixSkips ==
    ASSUME SpentInv, spent.cursor # None, SkipToBoundary \/ SkipAfterReturn, spent' = spent
    PROVE  SuffixSkipped'
<1>1. TypeInv /\ attempts = 0 /\ spent.cursor \in 1..(Size + 1) /\ Size \in Nat
      /\ (SuffixAhead \/ SuffixSkipped \/ SuffixClosed)
  BY TypedInput DEF SpentInv, SuffixHeld, TypeInv
<1>2. /\ Running /\ pc' = "Scan" /\ cursor <= Size /\ cursor < cursor' /\ cursor' \in Nat
      /\ skipped' = IF skipped = None THEN StartOf(cursor) ELSE skipped
      /\ input' = input
  BY <1>1, SkipSteps
<1>3. cursor' = Size + 1
  BY <1>1 DEF SkipToBoundary, SkipAfterReturn, Skip, Resume
<1>4. cursor = spent.cursor
  <2>1. cursor \in 1..(Size + 1) /\ pc # "Done"
    BY <1>1, <1>2 DEF TypeInv, TypeOK, Running, AtClause
  <2> QED BY <1>1, <1>2, <2>1 DEF SuffixAhead, SuffixSkipped, SuffixClosed
<1>5. ASSUME NEW i \in spent.cursor..Size PROVE InRegion(i)'
  <2>1. i \in 1..Size /\ cursor <= i /\ i < cursor'
    BY <1>1, <1>3, <1>4
  <2> QED BY <1>1, <1>2, <2>1, SkipRegion
<1>6. Size' = Size
  BY <1>2, InputFixed
<1> QED BY <1>2, <1>3, <1>5, <1>6 DEF SuffixSkipped

(* At the end of the input the pending region becomes the last node.       *)
LEMMA SuffixCloses ==
    ASSUME SpentInv, spent.cursor # None, Finish, spent' = spent
    PROVE  SuffixClosed'
<1>1. /\ TypeInv /\ spent.cursor \in 1..(Size + 1) /\ InputTyped /\ Size \in Nat
      /\ cursor \in 1..(Size + 1) /\ cursor > Size /\ pc = "Scan" /\ pc' = "Done"
      /\ (SuffixAhead \/ SuffixSkipped) /\ input' = input
  BY TypedInput DEF SpentInv, SuffixHeld, SuffixClosed, TypeInv, TypeOK, Finish
<1>2. Size' = Size
  BY <1>1, InputFixed
<1> SUFFICES ASSUME NEW i \in spent.cursor..Size
             PROVE  (LastNode.kind = "Error" /\ Covers(LastNode.span, i))'
  BY <1>1, <1>2 DEF SuffixClosed
<1>3. i \in 1..Size /\ SuffixSkipped /\ InRegion(i)
  BY <1>1 DEF SuffixAhead, SuffixSkipped
<1> DEFINE span == SpanOf(branchStart, EndOf(Size))
           region == ErrorNode(SpanOf(skipped, EndOf(Size)))
           closed == RecoveredBranch(FlushSkipped(EndOf(Size)), span)
<1>4. /\ clauses \in Seq(ClauseNodes)
      /\ branches \in Seq([clauses : Seq(ClauseNodes), span : Span])
      /\ skipped # None /\ skipped <= StartOf(i)
  BY <1>1, <1>3 DEF TypeInv, TypeOK, InRegion
<1>5. FlushSkipped(EndOf(Size)) = Append(clauses, region)
  BY <1>4 DEF FlushSkipped
<1> DEFINE nodes == Append(clauses, region)
<1>6. nodes # <<>> /\ Len(nodes) = Len(clauses) + 1 /\ nodes[Len(nodes)] = region
  BY <1>4
<1> HIDE DEF nodes, region
<1>7. closed.clauses = nodes
  BY <1>5, <1>6 DEF RecoveredBranch, nodes
<1>8. branches' = Append(branches, closed)
  BY DEF Finish
<1> HIDE DEF closed
<1>9. branches'[Len(branches')] = closed
  BY <1>4, <1>8
<1>10. LastNode' = region
  BY <1>6, <1>7, <1>9 DEF LastNode
<1>11. region.kind = "Error" /\ region.span.start = skipped /\ region.span.end = EndOf(Size)
  BY DEF region, ErrorNode, ClauseNode, SpanOf
<1>12. EndOf(i) <= EndOf(Size)
  BY <1>1, <1>3, OffsetsGrow
<1> QED BY <1>4, <1>10, <1>11, <1>12 DEF Covers

LEMMA MarkHolds ==
    ASSUME SpentInv, [Next]_vars, spent.cursor # None
    PROVE  SpentInv'
<1>1. /\ ~SplitUnion /\ ~RetainClause /\ ~TryCandidate /\ ~Prepare /\ ~InsertOperand
      /\ ~AbandonRepair /\ ~RejectInput
      /\ attempts' = 0 /\ spent' = spent /\ Kept' = Kept /\ operators' = operators
  BY NothingAfterMark
<1>2. /\ TypeInv /\ TypeInv' /\ attempts = 0 /\ spent.cursor \in 1..(Size + 1)
      /\ Kept = spent.kept /\ operators = spent.operators
      /\ (SuffixAhead \/ SuffixSkipped \/ SuffixClosed)
      /\ (outcome.kind = "Recovered" => pc = "Done")
  BY NextTyped DEF SpentInv, SuffixHeld
<1>3. input' = input /\ Size' = Size
  <2>1. input' = input
    BY <1>1, StepKeepsInput
  <2> QED BY <2>1, InputFixed
<1>4. SUFFICES /\ SuffixAhead' \/ SuffixSkipped' \/ SuffixClosed'
               /\ outcome'.kind = "Recovered" => pc' = "Done"
  BY <1>1, <1>2, <1>3 DEF SpentInv, SuffixHeld
<1>5. CASE BeginClause
  <2>1. pc = "Scan" /\ pc' = "Try" /\ cursor <= Size /\ UNCHANGED <<cursor, outcome>>
        /\ parsed' = NoClause /\ failed' = {}
    BY <1>5 DEF BeginClause
  <2>2. cursor = spent.cursor
    BY <1>2, <2>1, TypedInput DEF SuffixAhead, SuffixSkipped, SuffixClosed, TypeInv, TypeOK
  <2> QED BY <1>1, <1>2, <2>1, <2>2 DEF SuffixAhead
<1>6. CASE EndCandidates
  <2>1. pc = "Try" /\ UNCHANGED <<cursor, outcome, parsed, failed>>
        /\ pc' = IF parsed = NoClause /\ failed # {} THEN "Repair" ELSE "Settle"
    BY <1>6 DEF EndCandidates, search
  <2>2. cursor = spent.cursor /\ parsed = NoClause /\ failed = {}
    BY <1>2, <2>1 DEF SuffixAhead, SuffixSkipped, SuffixClosed
  <2> QED BY <1>1, <1>2, <2>1, <2>2 DEF SuffixAhead
<1>7. CASE SkipToBoundary \/ SkipAfterReturn
  <2>1. SuffixSkipped' /\ outcome' = outcome /\ pc # "Done"
    BY <1>1, <1>2, <1>7, SuffixSkips, SkipSteps DEF Running, AtClause
  <2> QED BY <1>2, <2>1
<1>8. CASE Finish
  BY <1>1, <1>8, SuffixCloses DEF SuffixClosed
<1>9. CASE FinishEmpty
  BY <1>9 DEF FinishEmpty, SuffixClosed, Fallback
<1>10. CASE Returned \/ UNCHANGED vars
  <2>1. UNCHANGED vars
    BY <1>10 DEF Returned
  <2>2. UNCHANGED <<pc, cursor, parsed, failed, skipped, branches, outcome, spent>>
    BY <2>1 DEF vars
  <2> QED BY <1>2, <1>3, <2>2 DEF SuffixAhead, SuffixSkipped, SuffixClosed, InRegion, LastNode
<1> QED BY <1>1, <1>5, <1>6, <1>7, <1>8, <1>9, <1>10 DEF Next

(* From the moment the head of the loop is reached with the budget spent,  *)
(* recovery adds no clause and no operator to the tree, and the last node  *)
(* of the result is an error that holds every token then unread: for every *)
(* input, grammar and budget, wherever in the search the budget ran out.   *)
THEOREM SpentBudgetKeepsNothing == Spec => []ExhaustedSuffix
<1>1. Init => SpentInv
  <2> SUFFICES ASSUME Init PROVE SpentInv
    OBVIOUS
  <2>1. TypeInv
    BY InitTyped
  <2>2. pc = "Prepare" /\ outcome.kind # "Recovered" /\ spent.cursor = None
    BY DEF Init, Pending, NotSpent
  <2> QED BY <2>1, <2>2 DEF SpentInv
<1>2. SpentInv /\ [Next]_vars => SpentInv'
  BY MarkTaken, MarkHolds
<1>3. SpentInv => ExhaustedSuffix
  BY DEF SpentInv, SuffixHeld, SuffixAhead, SuffixSkipped, SuffixClosed, ExhaustedSuffix
<1> QED BY <1>1, <1>2, <1>3, PTL DEF Spec

-----------------------------------------------------------------------------
(* What must not be lost.                                                  *)

\* No error clause among the nodes holds a UNION.
SparesUnions(nodes) ==
    \A i \in UnionIndices : \A c \in CoveringIn(nodes, i) : nodes[c].kind # "Error"

\* Until the budget is spent, no UNION is in an error region, nor about to be.
UnionInv ==
    attempts # 0 =>
        /\ \A b \in DOMAIN branches : SparesUnions(branches[b].clauses)
        /\ SparesUnions(clauses)
        /\ \A i \in UnionIndices : ~InRegion(i)
        /\ AtClause => cursor \notin UnionIndices

(* With no UNION in the pending region, closing it spares the UNIONs.      *)
LEMMA FlushSpares ==
    ASSUME TypeInv, Running, SparesUnions(clauses), \A i \in UnionIndices : ~InRegion(i)
    PROVE  SparesUnions(FlushSkipped(EndOf(cursor - 1)))
<1> DEFINE nodes == FlushSkipped(EndOf(cursor - 1))
<1>1. clauses \in Seq(ClauseNodes) /\ UnionIndices \subseteq 1..Size
  BY TypedInput DEF TypeInv, TypeOK
<1>2. \A c \in DOMAIN clauses : nodes[c] = clauses[c]
  BY <1>1 DEF FlushSkipped
<1>3. ASSUME NEW i \in UnionIndices PROVE CoveringIn(nodes, i) = CoveringIn(clauses, i)
  BY <1>1, <1>3, FlushCovering
<1> HIDE DEF nodes
<1>4. SparesUnions(nodes)
  BY <1>2, <1>3 DEF SparesUnions, CoveringIn
<1> QED BY <1>4 DEF nodes

LEMMA ClosedSpares ==
    ASSUME TypeInv, Running, SparesUnions(clauses), \A i \in UnionIndices : ~InRegion(i),
           NEW span, clauses = <<>> /\ skipped = None => \A i \in 1..Size : ~Covers(span, i)
    PROVE  SparesUnions(RecoveredBranch(FlushSkipped(EndOf(cursor - 1)), span).clauses)
<1> DEFINE nodes == FlushSkipped(EndOf(cursor - 1))
<1>1. CASE clauses = <<>> /\ skipped = None
  <2>1. UnionIndices \subseteq 1..Size
    BY TypedInput DEF TypeInv
  <2>2. RecoveredBranch(nodes, span).clauses = <<ErrorNode(span)>> /\ ErrorNode(span).span = span
    BY <1>1 DEF FlushSkipped, RecoveredBranch, ErrorNode, ClauseNode
  <2> QED BY <1>1, <2>1, <2>2 DEF SparesUnions, CoveringIn
<1>2. CASE ~(clauses = <<>> /\ skipped = None)
  <2>1. nodes # <<>>
    BY <1>2, FlushNonempty
  <2>2. RecoveredBranch(nodes, span).clauses = nodes
    BY <2>1 DEF RecoveredBranch
  <2> QED BY <2>2, FlushSpares
<1> QED BY <1>1, <1>2

LEMMA CloseUnions ==
    ASSUME TypeInv, Running, SparesUnions(clauses), \A i \in UnionIndices : ~InRegion(i),
           \A b \in DOMAIN branches : SparesUnions(branches[b].clauses),
           NEW span, clauses = <<>> /\ skipped = None => \A i \in 1..Size : ~Covers(span, i),
           branches' = Append(branches, RecoveredBranch(FlushSkipped(EndOf(cursor - 1)), span)),
           clauses' = <<>>, skipped' = None, input' = input, ~AtClause'
    PROVE  UnionInv'
<1> DEFINE closed == RecoveredBranch(FlushSkipped(EndOf(cursor - 1)), span)
<1>1. SparesUnions(closed.clauses)
  BY ClosedSpares
<1>2. UnionIndices' = UnionIndices
  BY InputFixed
<1>3. branches \in Seq([clauses : Seq(ClauseNodes), span : Span])
  BY DEF TypeInv, TypeOK
<1> HIDE DEF closed
<1>4. \A b \in DOMAIN branches' : branches'[b] = closed \/ (b \in DOMAIN branches /\ branches'[b] = branches[b])
  BY <1>3 DEF closed
<1>5. \A b \in DOMAIN branches' : SparesUnions(branches'[b].clauses)
  BY <1>1, <1>4
<1>6. \A b \in DOMAIN branches' : SparesUnions(branches[b].clauses)'
  BY <1>2, <1>5 DEF SparesUnions, CoveringIn, Covers
<1>7. SparesUnions(clauses)' /\ \A i : ~InRegion(i)'
  BY DEF SparesUnions, CoveringIn, InRegion
<1> QED BY <1>6, <1>7 DEF UnionInv

LEMMA NextUnions == OwnerInv /\ UnionInv /\ [Next]_vars => UnionInv'
<1> SUFFICES ASSUME OwnerInv, UnionInv, [Next]_vars, attempts' # 0 PROVE UnionInv'
  BY DEF UnionInv
<1>1. /\ TypeInv /\ attempts # 0
      /\ \A b \in DOMAIN branches : SparesUnions(branches[b].clauses)
      /\ SparesUnions(clauses)
      /\ \A i \in UnionIndices : ~InRegion(i)
      /\ AtClause => cursor \notin UnionIndices
      /\ attempts \in Nat /\ UnionIndices \subseteq 1..Size
  BY AttemptsFall, TypedInput, BoundAssumption DEF OwnerInv, UnionInv, TypeInv, TypeOK
<1>2. ASSUME UNCHANGED <<input, cursor, clauses, branches, skipped>>,
             AtClause' => AtClause \/ cursor \notin UnionIndices
      PROVE  UnionInv'
  <2>1. UnionIndices' = UnionIndices
    BY <1>2, InputFixed
  <2> QED BY <1>1, <1>2, <2>1 DEF UnionInv, SparesUnions, CoveringIn, Covers, InRegion
<1>3. CASE RejectInput \/ Prepare \/ FinishEmpty
  BY <1>2, <1>3 DEF RejectInput, Prepare, FinishEmpty, tree, AtClause
<1>4. CASE SplitUnion
  <2>1. /\ pc = "Scan" /\ pc' = "Scan" /\ cursor <= Size /\ clauses' = <<>> /\ skipped' = None
        /\ input' = input
        /\ branches' = Append(branches,
             RecoveredBranch(FlushSkipped(EndOf(cursor - 1)), SpanOf(branchStart, BranchEnd)))
    BY <1>4, BranchEndFlush DEF SplitUnion
  <2>2. clauses = <<>> /\ skipped = None => \A i \in 1..Size : ~Covers(SpanOf(branchStart, BranchEnd), i)
    BY <1>1, <2>1, SplitPlaceholder
  <2> QED BY <1>1, <2>1, <2>2, CloseUnions DEF Running, AtClause
<1>5. CASE BeginClause
  <2>1. cursor \notin UnionIndices
    BY <1>1, <1>5 DEF BeginClause, Searching, AtUnion
  <2> QED BY <1>2, <1>5, <2>1 DEF BeginClause, tree
<1>6. CASE TryCandidate \/ EndCandidates \/ InsertOperand \/ AbandonRepair
  <2>1. AtClause
    BY <1>6 DEF TryCandidate, EndCandidates, InsertOperand, AbandonRepair, AtClause
  <2> QED BY <1>2, <1>6, <2>1, SearchSteps DEF tree
<1>7. CASE RetainClause
  <2> DEFINE kind == IF Tokens[cursor] = "Return" THEN "Return" ELSE "Other"
             node == ClauseNode(kind, parsed.repaired, SpanOf(StartOf(cursor), EndOf(parsed.end - 1)))
             nodes == FlushSkipped(EndOf(cursor - 1))
  <2>1. /\ clauses' = Append(nodes, node) /\ pc = "Settle" /\ pc' = "Scan" /\ parsed # NoClause
        /\ branches' = branches /\ skipped' = None /\ input' = input
    BY <1>7 DEF RetainClause
  <2>2. node.kind # "Error"
    BY DEF ClauseNode
  <2>3. nodes \in Seq(ClauseNodes) /\ SparesUnions(nodes)
    BY <1>1, <2>1, FoundClause, FlushSpares DEF Running, AtClause
  <2>4. UnionIndices' = UnionIndices
    BY <2>1, InputFixed
  <2> HIDE DEF node, nodes
  <2>5. SparesUnions(Append(nodes, node))
    <3> DEFINE longer == Append(nodes, node)
    <3>1. \A c \in DOMAIN longer : longer[c] = node \/ (c \in DOMAIN nodes /\ longer[c] = nodes[c])
      BY <2>3
    <3> HIDE DEF longer
    <3>2. SparesUnions(longer)
      BY <2>2, <2>3, <3>1 DEF SparesUnions, CoveringIn
    <3> QED BY <3>2 DEF longer
  <2>6. SparesUnions(clauses)'
    BY <2>1, <2>4, <2>5 DEF SparesUnions, CoveringIn, Covers
  <2>7. \A b \in DOMAIN branches' : SparesUnions(branches[b].clauses)'
    BY <1>1, <2>1, <2>4 DEF SparesUnions, CoveringIn, Covers
  <2>8. (\A i : ~InRegion(i)') /\ ~AtClause'
    BY <2>1 DEF InRegion, AtClause
  <2> QED BY <2>6, <2>7, <2>8 DEF UnionInv
<1>8. CASE SkipToBoundary \/ SkipAfterReturn
  <2>1. /\ Running /\ pc' = "Scan" /\ cursor <= Size /\ cursor < cursor' /\ cursor' \in Nat
        /\ skipped' = (IF skipped = None THEN StartOf(cursor) ELSE skipped)
        /\ UNCHANGED <<input, clauses, branches>>
        /\ Size \in Nat /\ cursor \in Nat
    BY <1>1, <1>8, SkipSteps, TypedInput DEF TypeInv, TypeOK
  <2>2. UnionIndices' = UnionIndices
    BY <2>1, InputFixed
  <2>3. PICK stops \in SUBSET (1..(Size + 1)) :
          UnionIndices \subseteq stops /\ Size + 1 \in stops /\ cursor' = Resume(stops)
    <3>1. CASE SkipToBoundary
      <4>1. UnionIndices \subseteq Boundaries /\ Boundaries \subseteq 1..(Size + 1) /\ Size + 1 \in Boundaries
        BY <1>1, TypedInput DEF TypeInv, Boundaries
      <4> QED BY <3>1, <4>1 DEF SkipToBoundary, Skip
    <3>2. CASE SkipAfterReturn
      <4>1. UnionIndices \cup {Size + 1} \subseteq 1..(Size + 1)
        BY <1>1, <2>1
      <4> QED BY <3>2, <4>1 DEF SkipAfterReturn, Skip
    <3> QED BY <1>8, <3>1, <3>2
  <2>4. \A i \in UnionIndices : cursor < i => cursor' <= i
    <3>1. After(stops) \subseteq Nat /\ Size + 1 \in After(stops)
      <4>1. 1..(Size + 1) \subseteq Nat /\ Size + 1 > cursor
        BY <2>1
      <4> QED BY <2>3, <4>1 DEF After
    <3>2. \A i \in After(stops) : Min(After(stops)) <= i
      BY <3>1, MinIsLeast
    <3> QED BY <1>1, <2>3, <3>2 DEF Resume, After
  <2>5. cursor \notin UnionIndices
    BY <1>1, <1>8 DEF SkipToBoundary, SkipAfterReturn, AtUnion, AtClause
  <2>6. ASSUME NEW i \in UnionIndices PROVE ~InRegion(i)'
    <3>1. i \in 1..Size /\ i \in Nat /\ i # cursor /\ ~InRegion(i)
      BY <1>1, <2>5
    <3>2. ~(cursor <= i /\ i < cursor')
      BY <2>1, <2>4, <3>1
    <3> QED BY <1>1, <2>1, <3>1, <3>2, SkipRegion
  <2>7. SparesUnions(clauses)' /\ \A b \in DOMAIN branches' : SparesUnions(branches[b].clauses)'
    BY <1>1, <2>1, <2>2 DEF SparesUnions, CoveringIn, Covers
  <2> QED BY <2>1, <2>2, <2>6, <2>7 DEF UnionInv, AtClause
<1>9. CASE Finish
  <2>1. /\ pc = "Scan" /\ pc' = "Done" /\ cursor > Size /\ clauses' = <<>> /\ skipped' = None
        /\ input' = input /\ cursor - 1 = Size
        /\ branches' = Append(branches,
             RecoveredBranch(FlushSkipped(EndOf(cursor - 1)), SpanOf(branchStart, EndOf(Size))))
    <3>1. cursor - 1 = Size
      BY <1>1, <1>9, TypedInput DEF Finish, TypeInv, TypeOK
    <3> QED BY <1>9, <3>1 DEF Finish
  <2>2. clauses = <<>> /\ skipped = None => \A i \in 1..Size : ~Covers(SpanOf(branchStart, EndOf(Size)), i)
    BY <2>1, FinishPlaceholder
  <2> QED BY <1>1, <2>1, <2>2, CloseUnions DEF Running, AtClause
<1>10. CASE Returned \/ UNCHANGED vars
  BY <1>2, <1>10 DEF Returned, vars, AtClause
<1> QED BY <1>3, <1>4, <1>5, <1>6, <1>7, <1>8, <1>9, <1>10 DEF Next

(* Pairing as many operators as joins with the branches drops neither.     *)
LEMMA AssembleKeepsAll ==
    ASSUME NEW S, NEW parts \in Seq(S), NEW T, NEW ops \in Seq(T), parts # <<>>,
           Len(ops) = Len(parts) - 1,
           NEW query, query = AssembleQuery(parts, ops)
    PROVE  <<query.head>> \o [i \in DOMAIN query.unions |-> query.unions[i].query] = parts
<1> DEFINE k == Len(parts) - 1
           rest == [i \in 1..k |-> parts[i + 1]]
<1>1. Len(parts) \in Nat /\ k \in Nat /\ DOMAIN parts = 1..(k + 1) /\ Len(ops) = k
  <2>1. Len(parts) \in Nat /\ DOMAIN parts = 1..Len(parts) /\ Len(parts) # 0
    OBVIOUS
  <2> QED BY <2>1
<1>2. Min({Len(ops), Len(parts) - 1}) = k
  <2>1. {Len(ops), Len(parts) - 1} \subseteq Nat /\ {Len(ops), Len(parts) - 1} # {}
    BY <1>1
  <2>2. Min({Len(ops), Len(parts) - 1}) \in {Len(ops), Len(parts) - 1}
    BY <2>1, MinIsLeast
  <2> QED BY <1>1, <2>2
<1>3. /\ query.head = Head(parts)
      /\ query.unions = [i \in 1..k |-> [operator |-> ops[i], query |-> parts[i + 1]]]
  BY <1>2 DEF AssembleQuery
<1>4. [i \in DOMAIN query.unions |-> query.unions[i].query] = rest
  BY <1>3
<1>5. parts \in Seq(S) /\ Head(parts) = parts[1] /\ parts[1] \in S
  BY <1>1
<1> HIDE DEF k
<1>6. rest \in Seq(S) /\ Len(rest) = k
  <2>1. \A i \in 1..k : i + 1 \in 1..(k + 1) /\ parts[i + 1] \in S
    BY <1>1
  <2> QED BY <1>1, <2>1
<1> DEFINE all == <<parts[1]>> \o rest
<1>7. /\ all \in Seq(S) /\ Len(all) = k + 1
      /\ \A i \in 1..(k + 1) : all[i] = IF i <= 1 THEN parts[1] ELSE rest[i - 1]
  <2>1. <<parts[1]>> \in Seq(S) /\ Len(<<parts[1]>>) = 1 /\ <<parts[1]>>[1] = parts[1]
    BY <1>5
  <2> HIDE DEF rest
  <2> QED BY <1>1, <1>6, <2>1
<1>8. \A i \in 1..(k + 1) : all[i] = parts[i]
  <2> TAKE i \in 1..(k + 1)
  <2>1. CASE i = 1
    BY <1>1, <1>7, <2>1
  <2>2. CASE i # 1
    <3>1. i - 1 \in 1..k /\ ~(i <= 1) /\ (i - 1) + 1 = i
      BY <1>1, <2>2
    <3>2. rest[i - 1] = parts[(i - 1) + 1]
      BY <3>1
    <3> HIDE DEF rest, all
    <3> QED BY <1>7, <3>1, <3>2
  <2> QED BY <2>1, <2>2
<1> HIDE DEF rest, all
<1>9. all = parts
  <2>1. Len(parts) = k + 1
    BY <1>1 DEF k
  <2> QED BY <1>1, <1>5, <1>7, <1>8, <2>1, SeqEqual
<1> QED BY <1>3, <1>4, <1>5, <1>9 DEF all

\* A result is given once, and is made of what the tree holds then.
ResultInv ==
    \/ outcome = Pending
    \/ outcome = Fallback /\ pc = "Done" /\ ~retained
    \/ /\ outcome.kind = "Recovered" /\ pc = "Done" /\ retained
       /\ outcome.query = AssembleQuery(branches, operators) /\ branches # <<>>

LEMMA NextResult == OrderInv /\ ResultInv /\ [Next]_vars => ResultInv'
<1> SUFFICES ASSUME OrderInv, ResultInv, [Next]_vars PROVE ResultInv'
  OBVIOUS
<1>1. pc # "Done" => outcome = Pending
  BY DEF ResultInv
<1>2. CASE RejectInput
  BY <1>2 DEF RejectInput, OrderInv, ResultInv, tree
<1>3. CASE FinishEmpty
  BY <1>3 DEF FinishEmpty, ResultInv, tree
<1>4. CASE Finish
  <2> DEFINE closed == RecoveredBranch(FlushSkipped(EndOf(Size)), SpanOf(branchStart, EndOf(Size)))
  <2>1. /\ branches' = Append(branches, closed) /\ operators' = operators
        /\ pc' = "Done" /\ retained /\ retained' = retained
        /\ outcome'.kind = "Recovered"
        /\ outcome'.query = AssembleQuery(branches', operators)
    BY <1>4 DEF Finish
  <2>2. branches \in Seq([clauses : Seq(ClauseNodes), span : Span])
    BY DEF OrderInv, OwnerInv, TypeInv, TypeOK
  <2> HIDE DEF closed
  <2>3. branches' # <<>>
    BY <2>1, <2>2, AppendNonempty
  <2>4. AssembleQuery(branches', operators) = AssembleQuery(branches, operators)'
    BY <2>1 DEF AssembleQuery
  <2> QED BY <2>1, <2>3, <2>4 DEF ResultInv
<1>5. CASE Returned \/ UNCHANGED vars
  <2>1. UNCHANGED vars
    BY <1>5 DEF Returned
  <2>2. AssembleQuery(branches, operators)' = AssembleQuery(branches, operators)
    BY <2>1 DEF vars, AssembleQuery
  <2> QED BY <2>1, <2>2 DEF ResultInv, vars
<1>6. CASE ~(RejectInput \/ FinishEmpty \/ Finish \/ Returned \/ UNCHANGED vars)
  <2>1. outcome' = outcome /\ pc # "Done"
    BY <1>6 DEF Next, Prepare, SplitUnion, BeginClause, TryCandidate, EndCandidates, InsertOperand,
                AbandonRepair, RetainClause, SkipToBoundary, SkipAfterReturn, Skip
  <2> QED BY <1>1, <2>1 DEF ResultInv
<1> QED BY <1>2, <1>3, <1>4, <1>5, <1>6

(* A UNION is in an error region only once the budget is spent, a whole-   *)
(* input error is reported only with nothing kept, and the query that is   *)
(* returned holds every branch.                                            *)
THEOREM NothingIsLost == Spec => []NothingKeptIsLost
<1>1. Init => UnionInv /\ ResultInv
  BY DEF Init, UnionInv, ResultInv, SparesUnions, CoveringIn, InRegion, AtClause
<1>2. OwnerInv /\ OrderInv /\ UnionInv /\ ResultInv /\ [Next]_vars => UnionInv' /\ ResultInv'
  BY NextUnions, NextResult
<1>3. TreeInv => OwnerInv /\ OrderInv
  BY DEF TreeInv, OrderInv
<1>4. TreeInv /\ UnionInv /\ ResultInv => NothingKeptIsLost
  <2> SUFFICES ASSUME TreeInv, UnionInv, ResultInv PROVE UnionsKept /\ ResultComplete
    BY DEF NothingKeptIsLost
  <2>1. UnionsKept
    <3> SUFFICES ASSUME NEW i \in UnionIndices, NEW b \in DOMAIN Parts, NEW c \in DOMAIN Parts[b],
                        Parts[b][c].kind = "Error", Covers(Parts[b][c].span, i), attempts # 0
                 PROVE  FALSE
      BY DEF UnionsKept
    <3>1. /\ Len(branches) \in Nat /\ DOMAIN branches = 1..Len(branches)
          /\ b \in 1..(Len(branches) + 1)
          /\ Parts[b] = IF b <= Len(branches) THEN branches[b].clauses ELSE clauses
      BY DEF TreeInv, OrderInv, OwnerInv, TypeInv, TypeOK, Parts
    <3>2. SparesUnions(Parts[b])
      <4>1. CASE b <= Len(branches)
        <5>1. b \in DOMAIN branches
          BY <3>1, <4>1
        <5> QED BY <3>1, <4>1, <5>1 DEF UnionInv
      <4>2. CASE ~(b <= Len(branches))
        BY <3>1, <4>2 DEF UnionInv
      <4> QED BY <4>1, <4>2
    <3> QED BY <3>2 DEF SparesUnions, CoveringIn
  <2>2. ResultComplete
    <3>1. outcome.kind = "Fallback" => Kept = {}
      BY DEF TreeInv, ResultInv, Pending
    <3>2. ASSUME outcome.kind = "Recovered"
          PROVE  <<outcome.query.head>> \o
                   [i \in DOMAIN outcome.query.unions |-> outcome.query.unions[i].query] = branches
      <4>1. /\ outcome.query = AssembleQuery(branches, operators) /\ branches # <<>>
            /\ retained /\ pc = "Done"
        BY <3>2 DEF ResultInv, Pending, Fallback
      <4>2. /\ branches \in Seq([clauses : Seq(ClauseNodes), span : Span])
            /\ operators \in Seq([kind : {"Default", "All", "Distinct"}, span : Span])
            /\ Len(operators) = Len(branches) - 1
        BY <4>1 DEF TreeInv, OrderInv, OwnerInv, TypeInv, TypeOK
      <4> QED BY <4>1, <4>2, AssembleKeepsAll
    <3> QED BY <3>1, <3>2 DEF ResultComplete
  <2> QED BY <2>1, <2>2
<1> QED BY <1>1, <1>2, <1>3, <1>4, TreeInvariant, PTL DEF Spec

-----------------------------------------------------------------------------
(* The refinement: each step gives the next run of tokens a role, ends the  *)
(* parse, or changes no role at all.  The role of a token is read off the   *)
(* tree, so that no auxiliary variable is needed; that a tree that only     *)
(* grows takes no role back follows from what was proved above.             *)

Role == [i \in 1..Size |-> RoleOf(i)]

OperatorTokens == {i \in 1..Size : \E o \in DOMAIN operators : Covers(operators[o].span, i)}
ClauseTokens == {i \in 1..Size : \E node \in Kept : Covers(node.span, i)}

RoleRead ==
    [i \in 1..Size |->
        IF cursor <= i THEN "Unread"
        ELSE IF i \in OperatorTokens THEN "Operator"
        ELSE IF i \in ClauseTokens THEN "Clause" ELSE "Error"]

(* A token has a role exactly when it was read, and no token is lost.      *)
LEMMA RoleIs ==
    OwnerInv => /\ Role = RoleRead
                /\ \A i \in OperatorTokens \cup ClauseTokens : i < cursor
<1> SUFFICES ASSUME OwnerInv
             PROVE  /\ Role = RoleRead
                    /\ \A i \in OperatorTokens \cup ClauseTokens : i < cursor
  OBVIOUS
<1>1. cursor \in Nat /\ Size \in Nat
  BY TypedInput DEF OwnerInv, TypeInv, TypeOK
<1>2. ASSUME NEW i \in 1..Size, cursor <= i
      PROVE  RoleOf(i) = "Unread" /\ i \notin OperatorTokens /\ i \notin ClauseTokens
  <2>1. NodesOf(i) = {} /\ i >= cursor
    BY <1>1, <1>2 DEF OwnerInv, Owned, Accounted
  <2>2. i \notin OperatorTokens
    <3>1. \A k \in CoveringIn(operators, i) : <<0, k>> \in NodesOf(i)
      BY DEF OperatorNodes, NodesOf
    <3> QED BY <2>1, <3>1 DEF OperatorTokens, CoveringIn
  <2>3. i \notin ClauseTokens
    <3>1. /\ \A b \in DOMAIN branches : \A c \in CoveringIn(branches[b].clauses, i) :
               <<b, c>> \in ClosedNodes(i)
          /\ \A c \in CoveringIn(clauses, i) : <<Len(branches) + 1, c>> \in OpenNodes(i)
      BY DEF ClosedNodes, OpenNodes
    <3>2. /\ \A b \in DOMAIN branches : CoveringIn(branches[b].clauses, i) = {}
          /\ CoveringIn(clauses, i) = {}
      BY <2>1, <3>1 DEF NodesOf
    <3>3. Kept = ClosedKept \cup KeptIn(clauses)
      BY KeptIs DEF OwnerInv, TypeInv
    <3> QED BY <3>2, <3>3 DEF ClauseTokens, ClosedKept, KeptIn, Range, CoveringIn
  <2> QED BY <2>1, <2>2, <2>3 DEF RoleOf, OperatorTokens, ClauseTokens
<1>3. ASSUME NEW i \in 1..Size, i < cursor
      PROVE  RoleOf(i) = IF i \in OperatorTokens THEN "Operator"
                         ELSE IF i \in ClauseTokens THEN "Clause" ELSE "Error"
  <2>1. /\ Owners(i) = NodesOf(i) \cup IF InRegion(i) THEN {<<-1, 0>>} ELSE {}
        /\ Accounted(i)
    BY OwnersAre DEF OwnerInv, Owned, TypeInv
  <2>2. Owners(i) # {}
    BY <1>3, <2>1 DEF Accounted
  <2>3. ~(i >= cursor)
    BY <1>1, <1>3
  <2> QED BY <2>2, <2>3 DEF RoleOf, OperatorTokens, ClauseTokens
<1>4. \A i \in 1..Size : i \in Nat /\ (i < cursor <=> ~(cursor <= i))
  BY <1>1
<1>5. Role = RoleRead
  BY <1>2, <1>3, <1>4 DEF Role, RoleRead
<1>6. OperatorTokens \cup ClauseTokens \subseteq 1..Size
  BY DEF OperatorTokens, ClauseTokens
<1> QED BY <1>2, <1>4, <1>5, <1>6

LEMMA RunIs ==
    ASSUME NEW n \in Nat, NEW c \in 1..n, NEW d \in (c + 1)..(n + 1)
    PROVE  /\ d - c \in 1..n /\ (c + (d - c)) - 1 = d - 1 /\ d - 1 <= n
           /\ \A i \in 1..n :
                /\ i \in c..(d - 1) <=> c <= i /\ i < d
                /\ i < c => ~(c <= i) /\ ~(d <= i) /\ i \notin c..(d - 1)
                /\ i \in c..(d - 1) => c <= i /\ ~(d <= i) /\ ~(i < c)
                /\ d <= i => c <= i /\ i \notin c..(d - 1) /\ ~(i < c)
                /\ i < c \/ i \in c..(d - 1) \/ d <= i
OBVIOUS

(* A step that reads a run of tokens and adds at most that run to the      *)
(* operators or to the clauses gives it one role and changes no other.     *)
LEMMA ClaimStep ==
    ASSUME OwnerInv, OwnerInv', input' = input, pc # "Done", pc' # "Done",
           cursor \in 1..Size, cursor' \in (cursor + 1)..(Size + 1),
           NEW r \in {"Operator", "Clause", "Error"},
           OperatorTokens' = OperatorTokens \cup IF r = "Operator" THEN cursor..(cursor' - 1) ELSE {},
           ClauseTokens' = ClauseTokens \cup IF r = "Clause" THEN cursor..(cursor' - 1) ELSE {}
    PROVE  /\ Partition!Claim(r, cursor' - cursor)
           /\ cursor' - cursor \in 1..Len(Role)
<1>1. /\ Size \in Nat /\ Size' = Size /\ cursor \in Nat /\ cursor' \in Nat
      /\ 1 <= cursor /\ cursor <= Size /\ cursor + 1 <= cursor' /\ cursor' <= Size + 1
  <2>1. Size \in Nat /\ Size' = Size
    BY InputFixed, TypedInput DEF OwnerInv, TypeInv
  <2> QED BY <2>1
<1>2. Role = RoleRead /\ \A i \in OperatorTokens \cup ClauseTokens : i < cursor
  BY RoleIs
<1>3. Role' = RoleRead'
  <2>1. (OwnerInv => /\ Role = RoleRead
                     /\ \A i \in OperatorTokens \cup ClauseTokens : i < cursor)'
    BY RoleIs, PTL
  <2> QED BY <2>1
<1>4. DOMAIN Role = 1..Size /\ Len(Role) = Size /\ Partition!Unread = {i \in 1..Size : Role[i] = "Unread"}
  BY <1>1 DEF Role, Partition!Unread
<1> DEFINE run == cursor..(cursor' - 1)
<1>5. /\ cursor' - cursor \in 1..Size /\ (cursor + (cursor' - cursor)) - 1 = cursor' - 1
      /\ cursor' - 1 <= Size
      /\ \A i \in 1..Size :
           /\ i < cursor => ~(cursor <= i) /\ ~(cursor' <= i) /\ i \notin run
           /\ i \in run => cursor <= i /\ ~(cursor' <= i) /\ ~(i < cursor)
           /\ cursor' <= i => cursor <= i /\ i \notin run /\ ~(i < cursor)
           /\ i < cursor \/ i \in run \/ cursor' <= i
  BY <1>1, RunIs, ZenonT(40)
<1>6. /\ OperatorTokens' = OperatorTokens \cup IF r = "Operator" THEN run ELSE {}
      /\ ClauseTokens' = ClauseTokens \cup IF r = "Clause" THEN run ELSE {}
  OBVIOUS
<1>7. \A i \in 1..Size : RoleRead'[i] = IF cursor' <= i THEN "Unread"
                                          ELSE IF i \in OperatorTokens' THEN "Operator"
                                          ELSE IF i \in ClauseTokens' THEN "Clause" ELSE "Error"
  BY <1>1 DEF RoleRead
<1>8. \A i \in 1..Size : RoleRead[i] = IF cursor <= i THEN "Unread"
                                          ELSE IF i \in OperatorTokens THEN "Operator"
                                          ELSE IF i \in ClauseTokens THEN "Clause" ELSE "Error"
  BY DEF RoleRead
<1> HIDE DEF run
<1>9. \A i \in 1..Size : RoleRead'[i] = IF i \in run THEN r ELSE RoleRead[i]
  BY <1>2, <1>5, <1>6, <1>7, <1>8
<1>10. cursor \in Partition!Unread /\ \A i \in Partition!Unread : cursor <= i
  <2>1. \A i \in 1..Size : Role[i] = "Unread" <=> cursor <= i
    BY <1>2 DEF RoleRead
  <2> QED BY <1>1, <1>4, <2>1
<1>11. Role' = [i \in DOMAIN Role |-> IF i \in run THEN r ELSE Role[i]]
  BY <1>1, <1>2, <1>3, <1>4, <1>9 DEF RoleRead
<1>12. /\ cursor + (cursor' - cursor) - 1 <= Len(Role)
      /\ Role' = [i \in DOMAIN Role |->
                     IF i \in cursor..(cursor + (cursor' - cursor) - 1) THEN r ELSE Role[i]]
  BY <1>4, <1>5, <1>11 DEF run
<1> QED BY <1>4, <1>5, <1>10, <1>12 DEF Partition!Claim, Role

LEMMA SameTokens ==
    ASSUME input' = input
    PROVE  /\ operators' = operators => OperatorTokens' = OperatorTokens
           /\ Kept' = Kept => ClauseTokens' = ClauseTokens
<1>1. Size' = Size
  BY InputFixed
<1>2. operators' = operators => OperatorTokens' = OperatorTokens
  BY <1>1 DEF OperatorTokens, Covers
<1>3. Kept' = Kept => ClauseTokens' = ClauseTokens
  BY <1>1 DEF ClauseTokens, Covers
<1> QED BY <1>2, <1>3

LEMMA RoleKept ==
    ASSUME OwnerInv, OwnerInv', input' = input, cursor' = cursor, operators' = operators, Kept' = Kept
    PROVE  Role' = Role
<1>1. Role = RoleRead
  BY RoleIs
<1>2. Role' = RoleRead'
  <2>1. (OwnerInv => /\ Role = RoleRead
                     /\ \A i \in OperatorTokens \cup ClauseTokens : i < cursor)'
    BY RoleIs, PTL
  <2> QED BY <2>1
<1>3. Size' = Size /\ OperatorTokens' = OperatorTokens /\ ClauseTokens' = ClauseTokens
  BY InputFixed, SameTokens
<1> QED BY <1>1, <1>2, <1>3 DEF RoleRead

(* A UNION gives its token, and the ALL or DISTINCT after it, to an        *)
(* operator and opens the next branch.                                     *)
LEMMA SplitJoins ==
    ASSUME OwnerInv, OwnerInv', SplitUnion
    PROVE  Partition!Join
<1> DEFINE qualified == cursor + 1 <= Size /\ Tokens[cursor + 1] \in {"All", "Distinct"}
           next == IF qualified THEN cursor + 2 ELSE cursor + 1
           kind == IF qualified THEN Tokens[cursor + 1] ELSE "Default"
           operator == [kind |-> kind, span |-> SpanOf(StartOf(cursor), EndOf(next - 1))]
<1>1. /\ TypeInv /\ InputTyped /\ Size \in Nat /\ cursor \in 1..Size /\ pc = "Scan" /\ pc' = pc
      /\ cursor' = next /\ input' = input /\ returned' = FALSE
      /\ operators' = Append(operators, operator)
  BY TypedInput DEF OwnerInv, TypeInv, TypeOK, SplitUnion
<1>2. next \in (cursor + 1)..(Size + 1) /\ next - 1 \in 1..Size /\ cursor <= next - 1
      /\ next - cursor \in 1..2
  BY <1>1
<1>3. operator.span = SpanOf(StartOf(cursor), EndOf(next - 1))
  OBVIOUS
<1> HIDE DEF next, operator
<1>4. Kept' = Kept
  <2>1. ~RetainClause /\ Next
    BY <1>1 DEF RetainClause, Next
  <2> QED BY <1>1, <2>1, OnlyRetainKeeps
<1>5. OperatorTokens' = OperatorTokens \cup cursor..(next - 1)
  <2>1. operators \in Seq([kind : {"Default", "All", "Distinct"}, span : Span])
    BY <1>1 DEF TypeInv, TypeOK
  <2>2. \A i \in 1..Size : CoveringIn(Append(operators, operator), i) =
          IF Covers(operator.span, i) THEN CoveringIn(operators, i) \cup {Len(operators) + 1}
          ELSE CoveringIn(operators, i)
    BY <2>1, AppendCovering
  <2>3. \A i \in 1..Size : Covers(operator.span, i) <=> cursor <= i /\ i <= next - 1
    BY <1>1, <1>2, <1>3, CoversInterval
  <2>4. OperatorTokens = {i \in 1..Size : CoveringIn(operators, i) # {}}
    BY DEF OperatorTokens, CoveringIn
  <2>5. OperatorTokens' = {i \in 1..Size : CoveringIn(Append(operators, operator), i) # {}}
    <3>1. Size' = Size
      BY <1>1, InputFixed
    <3> QED BY <1>1, <3>1 DEF OperatorTokens, CoveringIn, Covers
  <2>6. \A i : i \in cursor..(next - 1) <=> i \in 1..Size /\ cursor <= i /\ i <= next - 1
    BY <1>1, <1>2
  <2> QED BY <2>2, <2>3, <2>4, <2>5, <2>6
<1>6. ClauseTokens' = ClauseTokens
  BY <1>1, <1>4, SameTokens
<1>7. Partition!Claim("Operator", cursor' - cursor)
  BY <1>1, <1>2, <1>5, <1>6, ClaimStep
<1> QED BY <1>1, <1>2, <1>7 DEF Partition!Join

LEMMA RetainRetains ==
    ASSUME OwnerInv, OwnerInv', RetainClause
    PROVE  Partition!Retain
<1>1. /\ TypeInv /\ TypeInv' /\ InputTyped /\ Size \in Nat /\ pc = "Settle" /\ pc' = "Scan"
      /\ parsed # NoClause /\ cursor' = parsed.end /\ returned' \in BOOLEAN
      /\ UNCHANGED <<input, operators>>
  BY TypedInput DEF OwnerInv, TypeInv, RetainClause
<1>2. cursor \in 1..Size /\ ~returned /\ parsed.end \in (cursor + 1)..(Size + 1)
  BY <1>1, FoundClause
<1>3. parsed.end - 1 \in 1..Size /\ cursor <= parsed.end - 1
  BY <1>1, <1>2
<1>4. PICK node : /\ Kept' = Kept \cup {node}
                  /\ node.span = SpanOf(StartOf(cursor), EndOf(parsed.end - 1))
  BY <1>1, RetainKept
<1>5. ClauseTokens' = ClauseTokens \cup cursor..(parsed.end - 1)
  <2>1. \A i \in 1..Size : Covers(node.span, i) <=> cursor <= i /\ i <= parsed.end - 1
    BY <1>1, <1>2, <1>3, <1>4, CoversInterval
  <2>2. ClauseTokens' = {i \in 1..Size : \E kept \in Kept \cup {node} : Covers(kept.span, i)}
    <3>1. Size' = Size
      BY <1>1, InputFixed
    <3> QED BY <1>4, <3>1 DEF ClauseTokens, Covers
  <2>3. \A i : i \in cursor..(parsed.end - 1) <=> i \in 1..Size /\ cursor <= i /\ i <= parsed.end - 1
    BY <1>1, <1>2, <1>3
  <2> QED BY <2>1, <2>2, <2>3 DEF ClauseTokens
<1>6. OperatorTokens' = OperatorTokens
  BY <1>1, SameTokens
<1>7. /\ Partition!Claim("Clause", cursor' - cursor)
      /\ cursor' - cursor \in 1..Len(Role)
  BY <1>1, <1>2, <1>5, <1>6, ClaimStep
<1> QED BY <1>1, <1>2, <1>7 DEF Partition!Retain, Role

LEMMA SkipSkips ==
    ASSUME OwnerInv, OwnerInv', SkipToBoundary \/ SkipAfterReturn
    PROVE  Partition!Skip
<1>1. /\ TypeInv /\ TypeInv' /\ Size \in Nat /\ pc # "Done" /\ pc' # "Done" /\ cursor <= Size
      /\ cursor < cursor' /\ UNCHANGED <<input, operators, returned>>
  BY SkipSteps, TypedInput DEF OwnerInv, TypeInv, SkipToBoundary, SkipAfterReturn, Skip
<1>2. cursor \in 1..Size /\ cursor' \in (cursor + 1)..(Size + 1)
  <2>1. Size' = Size
    BY <1>1, InputFixed
  <2>2. cursor \in 1..(Size + 1) /\ cursor' \in 1..(Size + 1)
    BY <1>1, <2>1 DEF TypeInv, TypeOK
  <2> QED BY <1>1, <2>2
<1>3. Kept' = Kept
  <2>1. ~RetainClause /\ Next
    BY DEF RetainClause, SkipToBoundary, SkipAfterReturn, Next
  <2> QED BY <1>1, <2>1, OnlyRetainKeeps
<1>4. OperatorTokens' = OperatorTokens /\ ClauseTokens' = ClauseTokens
  BY <1>1, <1>3, SameTokens
<1>5. /\ Partition!Claim("Error", cursor' - cursor)
      /\ cursor' - cursor \in 1..Len(Role)
  BY <1>1, <1>2, <1>4, ClaimStep
<1> QED BY <1>1, <1>5 DEF Partition!Skip, Role

(* The parse ends with all tokens read, or before any.                     *)
LEMMA EndFinishes ==
    ASSUME OwnerInv, OwnerInv', RejectInput \/ Finish \/ FinishEmpty
    PROVE  Partition!Finish
<1>1. /\ pc # "Done" /\ pc' = "Done" /\ UNCHANGED <<input, cursor, operators, returned>>
      /\ cursor = 1 \/ cursor > Size
      /\ cursor \in Nat /\ Size \in Nat
  BY TypedInput, SMTT(30) DEF RejectInput, Finish, FinishEmpty, tree, OwnerInv, TypeInv, TypeOK, Position
<1>2. Kept' = Kept
  <2>1. ~RetainClause /\ Next
    BY DEF RetainClause, RejectInput, Finish, FinishEmpty, Next
  <2> QED BY <2>1, OnlyRetainKeeps DEF OwnerInv
<1>3. Role' = Role
  BY <1>1, <1>2, RoleKept
<1>4. Size \in Nat /\ Role = RoleRead
  BY TypedInput, RoleIs DEF OwnerInv, TypeInv
<1>5. \A i \in 1..Size : Role[i] = "Unread" <=> cursor <= i
  BY <1>4 DEF RoleRead
<1>6. DOMAIN Role = 1..Size
  BY DEF Role
<1>7. {i \in DOMAIN Role : Role[i] = "Unread"} \in {{}, DOMAIN Role}
  <2>1. CASE cursor = 1
    <3>1. \A i \in 1..Size : cursor <= i
      BY <1>4, <2>1
    <3> QED BY <1>5, <1>6, <3>1
  <2>2. CASE cursor > Size /\ cursor \in Nat
    <3>1. \A i \in 1..Size : ~(cursor <= i)
      BY <1>4, <2>2
    <3> QED BY <1>5, <1>6, <3>1
  <2> QED BY <1>1, <2>1, <2>2
<1> QED BY <1>1, <1>3, <1>7 DEF Partition!Finish, Partition!Unread, Role

LEMMA InitImplements == Init => Partition!Init
<1> SUFFICES ASSUME Init PROVE Partition!Init
  OBVIOUS
<1>1. OwnerInv /\ cursor = 1 /\ pc # "Done" /\ returned = FALSE
  BY InitOwned DEF Init
<1>2. Size \in Nat /\ Role = RoleRead
  BY <1>1, TypedInput, RoleIs DEF OwnerInv, TypeInv
<1>3. \A i \in 1..Size : cursor <= i
  BY <1>1, <1>2
<1>4. Role = [i \in 1..Size |-> "Unread"]
  BY <1>2, <1>3 DEF RoleRead
<1>5. Role \in Seq({"Unread"})
  BY <1>2, <1>4
<1> QED BY <1>1, <1>5 DEF Partition!Init, Role

LEMMA StepImplements ==
    ASSUME OwnerInv, OwnerInv', [Next]_vars
    PROVE  [Partition!Next]_(Partition!vars)
<1>1. ASSUME UNCHANGED <<input, cursor, operators, returned>>, Kept' = Kept, pc # "Done", pc' # "Done"
      PROVE  UNCHANGED Partition!vars
  BY <1>1, RoleKept DEF Partition!vars, Role
<1>2. CASE RejectInput \/ Finish \/ FinishEmpty
  BY <1>2, EndFinishes DEF Partition!Next
<1>3. CASE SplitUnion
  BY <1>3, SplitJoins DEF Partition!Next
<1>4. CASE RetainClause
  BY <1>4, RetainRetains DEF Partition!Next
<1>5. CASE SkipToBoundary \/ SkipAfterReturn
  BY <1>5, SkipSkips DEF Partition!Next
<1>6. CASE Prepare
  <2>1. Kept' = Kept
    BY <1>6, OnlyRetainKeeps DEF Prepare, RetainClause, OwnerInv
  <2> QED BY <1>1, <1>6, <2>1 DEF Prepare, search
<1>7. CASE BeginClause \/ TryCandidate \/ EndCandidates \/ InsertOperand \/ AbandonRepair
  <2>1. Running /\ Running' /\ UNCHANGED <<input, cursor, tree>>
    BY <1>7, SearchSteps
  <2>2. Kept' = Kept
    BY <2>1 DEF tree, Kept, Nodes, Parts
  <2> QED BY <1>1, <2>1, <2>2 DEF tree, Running, AtClause
<1>8. CASE Returned \/ UNCHANGED vars
  <2>1. UNCHANGED vars
    BY <1>8 DEF Returned
  <2>2. Kept' = Kept
    BY <2>1 DEF vars, Kept, Nodes, Parts
  <2>3. Role' = Role
    BY <2>1, <2>2, RoleKept DEF vars
  <2> QED BY <2>1, <2>3 DEF Partition!vars, Role, vars
<1> QED BY <1>2, <1>3, <1>4, <1>5, <1>6, <1>7, <1>8 DEF Next

(* recover_clauses implements TokenPartition, for every input, grammar and *)
(* budget: its loop reads tokens from left to right, gives each run one    *)
(* role, and never takes a role back when it closes a region or a branch.  *)
THEOREM RecoveryImplementsPartition == Spec => ImplementsPartition
<1>1. Init => Partition!Init
  BY InitImplements
<1>2. OwnerInv /\ OwnerInv' /\ [Next]_vars => [Partition!Next]_(Partition!vars)
  BY StepImplements
<1> QED BY <1>1, <1>2, OwnerInvariant, PTL DEF Spec, ImplementsPartition, Partition!Spec

-----------------------------------------------------------------------------
(* How long recovery takes.                                                *)

PhasesLeft ==
    CASE pc = "Prepare" -> 5 [] pc = "Scan" -> 4 [] pc = "Try" -> 3
      [] pc = "Repair" -> 2 [] pc = "Settle" -> 1 [] OTHER -> 0

\* An attempt is made once, and its candidate may have to be given up later; a
\* token that the cursor passes costs at most the phases of one search.
StepsLeft == 2 * attempts + 5 * (Size + 1 - cursor) + Cardinality(failed) + PhasesLeft

\* The steps of the function that its input and its budget allow.
StepBound == 2 * Budget + 5 * Size + 5

LEMMA FailedCounted ==
    ASSUME TypeOK
    PROVE  IsFiniteSet(failed) /\ Cardinality(failed) \in Nat
<1>1. Size \in Nat /\ failed \subseteq 1..(Size + 1)
  BY TypedInput DEF TypeOK
<1>2. IsFiniteSet(1..(Size + 1))
  BY <1>1, FS_Interval
<1>3. IsFiniteSet(failed)
  BY <1>1, <1>2, FS_Subset
<1> QED BY <1>3, FS_CardinalityType

LEMMA StepsCounted ==
    ASSUME TypeOK
    PROVE  /\ Size \in Nat /\ cursor \in Nat /\ cursor <= Size + 1 /\ attempts \in Nat
           /\ attempts <= Budget /\ Cardinality(failed) \in Nat
           /\ PhasesLeft \in 0..5 /\ StepsLeft \in Nat
<1>1. /\ Size \in Nat /\ cursor \in Nat /\ cursor <= Size + 1 /\ attempts \in Nat
      /\ attempts <= Budget /\ Cardinality(failed) \in Nat
  BY TypedInput, FailedCounted, BoundAssumption DEF TypeOK
<1>2. PhasesLeft \in 0..5
  BY DEF PhasesLeft
<1>3. 2 * attempts + 5 * (Size + 1 - cursor) \in Nat
  BY <1>1
<1> QED BY <1>1, <1>2, <1>3 DEF StepsLeft

LEMMA StepsTyped ==
    TypeOK => /\ cursor \in Nat /\ attempts \in Nat /\ Cardinality(failed) \in Nat
              /\ PhasesLeft \in 0..5 /\ StepsLeft \in Nat
BY StepsCounted

LEMMA StepsTypedAfter ==
    TypeOK' => (/\ cursor \in Nat /\ attempts \in Nat /\ Cardinality(failed) \in Nat
                /\ PhasesLeft \in 0..5 /\ StepsLeft \in Nat)'
BY StepsTyped, PTL

(* A step that spends less on one thing than it saves on the others.       *)
LEMMA FewerLeft ==
    ASSUME TypeOK, TypeOK', input' = input,
           2 * attempts' + 5 * (cursor - cursor') + Cardinality(failed') + PhasesLeft'
             < 2 * attempts + Cardinality(failed) + PhasesLeft
    PROVE  StepsLeft' < StepsLeft
<1>1. Size' = Size
  BY InputFixed
<1>2. /\ cursor' \in Nat /\ attempts' \in Nat /\ Cardinality(failed') \in Nat
      /\ PhasesLeft' \in 0..5
  BY StepsTypedAfter
<1>3. StepsLeft' = 2 * attempts' + 5 * (Size + 1 - cursor') + Cardinality(failed') + PhasesLeft'
  BY <1>1 DEF StepsLeft
<1> QED BY <1>2, <1>3, StepsCounted DEF StepsLeft

LEMMA SearchShrinks ==
    ASSUME TypeInv, TypeInv',
           BeginClause \/ TryCandidate \/ EndCandidates \/ InsertOperand \/ AbandonRepair
    PROVE  StepsLeft' < StepsLeft
<1> USE DEF PhasesLeft
<1>1. TypeOK /\ TypeOK'
  BY DEF TypeInv
<1>2. /\ Cardinality(failed) \in Nat /\ IsFiniteSet(failed) /\ attempts \in Nat /\ cursor \in Nat
      /\ Cardinality(failed') \in Nat
  BY <1>1, FailedCounted, StepsCounted, StepsTypedAfter
<1>3. CASE BeginClause
  <2>1. Cardinality(failed') = 0
    BY <1>3, FS_EmptySet DEF BeginClause
  <2>2. UNCHANGED <<input, attempts, cursor>> /\ PhasesLeft = 4 /\ PhasesLeft' = 3
    BY <1>3 DEF BeginClause
  <2> HIDE DEF PhasesLeft
  <2> QED BY <1>1, <1>2, <2>1, <2>2, FewerLeft
<1>4. CASE TryCandidate
  <2>1. Cardinality(failed') <= Cardinality(failed) + 1
    <3>1. PICK end : failed' = failed \/ failed' = failed \cup {end}
      BY <1>4 DEF TryCandidate
    <3>2. Cardinality(failed \cup {end}) <= Cardinality(failed) + 1
      <4>1. /\ end \in failed => Cardinality(failed \cup {end}) = Cardinality(failed)
            /\ end \notin failed => Cardinality(failed \cup {end}) = Cardinality(failed) + 1
        BY <1>2, FS_AddElement
      <4> QED BY <1>2, <4>1
    <3> QED BY <1>2, <3>1, <3>2
  <2>2. UNCHANGED <<input, cursor>> /\ attempts' = attempts - 1 /\ PhasesLeft' = PhasesLeft
        /\ PhasesLeft = 3
    BY <1>4 DEF TryCandidate
  <2> HIDE DEF PhasesLeft
  <2> QED BY <1>1, <1>2, <2>1, <2>2, FewerLeft
<1>5. CASE EndCandidates
  <2>1. UNCHANGED <<input, cursor, attempts, failed>> /\ PhasesLeft = 3 /\ PhasesLeft' \in 1..2
    BY <1>5 DEF EndCandidates, search
  <2> HIDE DEF PhasesLeft
  <2> QED BY <1>1, <1>2, <2>1, FewerLeft
<1>6. CASE InsertOperand
  <2>1. UNCHANGED <<input, cursor, failed>> /\ attempts' = attempts - 1
        /\ PhasesLeft = 2 /\ PhasesLeft' \in 1..2
    BY <1>6 DEF InsertOperand
  <2> HIDE DEF PhasesLeft
  <2> QED BY <1>1, <1>2, <2>1, FewerLeft
<1>7. CASE AbandonRepair
  <2>1. Min(failed) \in failed
    <3>1. failed # {} /\ failed \subseteq Nat
      BY <1>7, EndsAhead DEF AbandonRepair, TypeInv, Position, AtClause, ClauseSearch
    <3> QED BY <3>1, MinIsLeast
  <2>2. Cardinality(failed') = Cardinality(failed) - 1
    BY <1>2, <1>7, <2>1, FS_RemoveElement DEF AbandonRepair
  <2>3. UNCHANGED <<input, cursor, attempts>> /\ PhasesLeft = 2 /\ PhasesLeft' \in 1..2
    BY <1>7 DEF AbandonRepair
  <2> HIDE DEF PhasesLeft
  <2> QED BY <1>1, <1>2, <2>2, <2>3, FewerLeft
<1> QED BY <1>3, <1>4, <1>5, <1>6, <1>7

LEMMA CursorMoves ==
    ASSUME TypeInv, RetainClause \/ SkipToBoundary \/ SkipAfterReturn
    PROVE  /\ cursor < cursor' /\ UNCHANGED <<input, attempts, failed>> /\ pc' = "Scan"
           /\ pc \in {"Settle", "Scan"}
<1>1. CASE RetainClause
  <2>1. cursor < parsed.end
    BY <1>1, FoundClause DEF RetainClause, TypeInv, TypeOK
  <2> QED BY <1>1, <2>1 DEF RetainClause, search
<1>2. CASE SkipToBoundary
  <2>1. Running /\ cursor <= Size
    BY <1>2 DEF SkipToBoundary, Running, AtClause, TypeInv, Position, ClauseSearch
  <2>2. Boundaries \subseteq 1..(Size + 1) /\ Size + 1 \in Boundaries
    BY TypedInput DEF TypeInv
  <2>3. cursor < cursor'
    BY <1>2, <2>1, <2>2, SkipTyped DEF SkipToBoundary
  <2> QED BY <1>2, <2>3 DEF SkipToBoundary, Skip, search
<1>3. CASE SkipAfterReturn
  <2>1. Running /\ cursor <= Size
    BY <1>3 DEF SkipAfterReturn, Running
  <2>2. /\ UnionIndices \cup {Size + 1} \subseteq 1..(Size + 1)
        /\ Size + 1 \in UnionIndices \cup {Size + 1}
    BY TypedInput DEF TypeInv
  <2>3. cursor < cursor'
    BY <1>3, <2>1, <2>2, SkipTyped DEF SkipAfterReturn
  <2> QED BY <1>3, <2>3 DEF SkipAfterReturn, Skip, search
<1> QED BY <1>1, <1>2, <1>3

LEMMA LoopShrinks ==
    ASSUME TypeInv, TypeInv', SplitUnion \/ RetainClause \/ SkipToBoundary \/ SkipAfterReturn
    PROVE  StepsLeft' < StepsLeft
<1>1. TypeOK /\ TypeOK'
  BY DEF TypeInv
<1>2. /\ Cardinality(failed) \in Nat /\ attempts \in Nat /\ cursor \in Nat /\ cursor' \in Nat
      /\ PhasesLeft \in 0..5
  BY <1>1, StepsCounted, StepsTypedAfter
<1>3. CASE SplitUnion
  <2>1. /\ cursor < cursor' /\ attempts' = attempts - 1 /\ UNCHANGED <<input, failed, pc>>
    BY <1>2, <1>3 DEF SplitUnion, search
  <2>2. PhasesLeft' = PhasesLeft
    BY <2>1 DEF PhasesLeft
  <2> QED BY <1>1, <1>2, <2>1, <2>2, FewerLeft
<1>4. CASE RetainClause \/ SkipToBoundary \/ SkipAfterReturn
  <2>1. /\ cursor < cursor' /\ UNCHANGED <<input, attempts, failed>> /\ pc' = "Scan"
        /\ pc \in {"Settle", "Scan"}
    BY <1>4, CursorMoves
  <2>2. PhasesLeft' = 4 /\ PhasesLeft >= 1
    BY <2>1 DEF PhasesLeft
  <2>3. cursor' >= cursor + 1
    BY <1>2, <2>1
  <2> QED BY <1>1, <1>2, <2>1, <2>2, <2>3, FewerLeft
<1> QED BY <1>3, <1>4

LEMMA StepShrinks ==
    ASSUME TypeInv, TypeInv', [Next]_vars
    PROVE  [StepsLeft' < StepsLeft]_vars
<1>1. CASE RejectInput \/ Prepare \/ Finish \/ FinishEmpty
  <2>1. UNCHANGED <<input, cursor, attempts, failed>> /\ PhasesLeft' < PhasesLeft
    BY <1>1 DEF RejectInput, Prepare, Finish, FinishEmpty, PhasesLeft, search
  <2>2. PhasesLeft \in 0..5 /\ cursor \in Nat /\ attempts \in Nat /\ Cardinality(failed) \in Nat
        /\ PhasesLeft' \in 0..5
    BY StepsCounted, StepsTypedAfter DEF TypeInv
  <2> QED BY <2>1, <2>2, FewerLeft DEF TypeInv
<1>2. CASE SplitUnion \/ RetainClause \/ SkipToBoundary \/ SkipAfterReturn
  BY <1>2, LoopShrinks
<1>3. CASE BeginClause \/ TryCandidate \/ EndCandidates \/ InsertOperand \/ AbandonRepair
  BY <1>3, SearchShrinks
<1>4. CASE Returned \/ UNCHANGED vars
  BY <1>4 DEF Returned
<1> QED BY <1>1, <1>2, <1>3, <1>4 DEF Next

(* recover_clauses returns, whatever the grammar answers, after a number of *)
(* steps that is linear in the tokens and in the budget: each step leaves   *)
(* fewer of them, also when control goes back to the head of the            *)
(* loop, and before the first there are as many as StepBound says.          *)
THEOREM RecoveryIsBounded ==
    Spec => [](StepsLeft \in 0..StepBound) /\ [][StepsLeft' < StepsLeft]_vars
<1> DEFINE Bounded == TypeInv /\ StepsLeft <= StepBound
           Shrinks == [StepsLeft' < StepsLeft]_vars
<1>1. Init => Bounded
  <2> SUFFICES ASSUME Init PROVE Bounded
    OBVIOUS
  <2>1. TypeInv /\ Size \in Nat /\ Budget \in Nat
    BY InitTyped, StepsCounted, BoundAssumption DEF TypeInv
  <2>2. attempts = Budget /\ cursor = 1 /\ Cardinality(failed) = 0 /\ PhasesLeft = 5
    BY FS_EmptySet DEF Init, PhasesLeft
  <2> QED BY <2>1, <2>2 DEF StepsLeft, StepBound
<1>2. Bounded /\ [Next]_vars => Bounded' /\ Shrinks
  <2> SUFFICES ASSUME Bounded, [Next]_vars PROVE Bounded' /\ Shrinks
    OBVIOUS
  <2>1. TypeInv'
    BY NextTyped
  <2>2. Shrinks
    BY <2>1, StepShrinks
  <2>3. Size' = Size
    BY StepKeepsInput, InputFixed
  <2>4. StepBound' = StepBound /\ StepBound \in Nat
    <3>1. Size \in Nat /\ Budget \in Nat
      BY StepsCounted, BoundAssumption DEF TypeInv
    <3> QED BY <2>3, <3>1 DEF StepBound
  <2>5. StepsLeft \in Nat /\ StepsLeft' \in Nat
    BY <2>1, StepsCounted, StepsTypedAfter DEF TypeInv
  <2>6. CASE UNCHANGED vars
    <3>1. StepsLeft' = StepsLeft
      BY <2>3, <2>6 DEF vars, StepsLeft, PhasesLeft
    <3> QED BY <2>1, <2>2, <2>4, <3>1
  <2>7. CASE StepsLeft' < StepsLeft
    BY <2>1, <2>2, <2>4, <2>5, <2>7
  <2>8. UNCHANGED vars \/ StepsLeft' < StepsLeft
    BY <2>2
  <2> QED BY <2>6, <2>7, <2>8
<1>3. Bounded => StepsLeft \in 0..StepBound
  <2> SUFFICES ASSUME Bounded PROVE StepsLeft \in 0..StepBound
    OBVIOUS
  <2>1. StepsLeft \in Nat /\ Size \in Nat /\ Budget \in Nat
    BY StepsCounted, BoundAssumption DEF TypeInv
  <2>2. StepBound \in Nat
    BY <2>1 DEF StepBound
  <2> QED BY <2>1, <2>2
<1> HIDE DEF Bounded
<1> QED BY <1>1, <1>2, <1>3, PTL DEF Spec
=============================================================================
