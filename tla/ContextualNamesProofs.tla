----------------------- MODULE ContextualNamesProofs -----------------------
(***************************************************************************)
(* Proofs about ContextualNames, for inputs of any length over any         *)
(* alphabet and for any parser.                                            *)
(***************************************************************************)
EXTENDS ContextualNames, FiniteSetTheorems, TLAPS

\* What control has done by the time it reaches each point of the loop.
Progress ==
    /\ pc = "Classify" => /\ contextual = tokens
                          /\ resolved = [i \in DOMAIN tokens |-> FALSE]
                          /\ passes = 0
    /\ pc # "Classify" => \A i \in DOMAIN tokens : KeepsLiteral(tokens, i) => resolved[i]
    /\ passes = 0 => bestError = None /\ error = None /\ reclassified = {}
                     /\ pc \in {"Classify", "Parse"}
    /\ pc # "Done" => result = "Pending"
    /\ passes > 0 /\ result # "Ok" => error \in Nat /\ bestError \in Nat
    /\ pc = "Parse" /\ passes > 0 => bestError = error
    /\ result = "Err" => bestError = error
    /\ pc = "Choose" => bestError <= error
    /\ pc = "Choose" => \A i \in reclassified : ~Inside(error, i)

IInv == TypeOK /\ Progress /\ SignatureUniform /\ NamesAreDecidedKeywords

(* Token kinds are kinds, and offsets of tokens are natural numbers. *)
LEMMA LocationsAreOffsets ==
    ASSUME tokens \in Seq(Kinds), Len(tokens) <= MaxTokens
    PROVE  Locations \subseteq Nat
<1>1. CASE tokens = <<>>
  BY <1>1 DEF Locations
<1>2. CASE tokens # <<>>
  <2>1. Len(tokens) \in 1..MaxTokens
    BY <1>2, BoundAssumption
  <2>2. EndOf(Len(tokens)) \in Nat
    BY <2>1, OffsetAssumption
  <2> QED BY <1>2, <2>2 DEF Locations
<1> QED BY <1>1, <1>2

LEMMA InputTyped ==
    ASSUME NEW ts \in UNION {[1..n -> Alphabet] : n \in 0..MaxTokens}
    PROVE  ts \in Seq(Kinds) /\ Len(ts) <= MaxTokens /\ DOMAIN ts = 1..Len(ts)
<1>1. PICK n \in 0..MaxTokens : ts \in [1..n -> Alphabet]
  OBVIOUS
<1>2. n \in Nat /\ n <= MaxTokens
  BY BoundAssumption
<1>3. ts \in [1..n -> Kinds]
  BY <1>1, AlphabetAssumption
<1>4. ts \in Seq(Kinds) /\ Len(ts) = n
  BY <1>2, <1>3
<1> QED BY <1>2, <1>4

(* Reading a set of tokens as identifiers keeps every kind a kind. *)
LEMMA ReadTyped ==
    ASSUME NEW D, NEW kinds \in [D -> Kinds], NEW S
    PROVE  Read(S, kinds) \in [D -> Kinds]
BY DEF Read, Kinds

LEMMA InitEstablishes == Init => IInv
<1> SUFFICES ASSUME Init PROVE IInv
  OBVIOUS
<1>1. tokens \in Seq(Kinds) /\ Len(tokens) <= MaxTokens
  BY InputTyped DEF Init
<1>2. contextual \in [DOMAIN tokens -> Kinds]
  BY <1>1 DEF Init
<1>3. TypeOK
  BY <1>1, <1>2 DEF Init, TypeOK, None
<1>4. Progress
  BY DEF Init, Progress
<1>5. SignatureUniform
  <2> SUFFICES ASSUME NEW i \in DOMAIN tokens, NEW j \in DOMAIN tokens,
                      Signature(tokens, i) = Signature(tokens, j)
               PROVE  contextual[i] = contextual[j] /\ resolved[i] = resolved[j]
    BY DEF SignatureUniform
  <2>1. tokens[i] = tokens[j]
    BY DEF Signature
  <2> QED BY <2>1 DEF Init
<1>6. NamesAreDecidedKeywords
  BY DEF Init, NamesAreDecidedKeywords
<1> QED BY <1>3, <1>4, <1>5, <1>6 DEF IInv

(* The first pass decides by the lexical context alone. *)
LEMMA NamedBySignature ==
    ASSUME NEW i \in DOMAIN tokens, NEW j \in DOMAIN tokens,
           Signature(tokens, i) = Signature(tokens, j)
    PROVE  /\ tokens[i] = tokens[j]
           /\ NamedAtOnce(tokens, i) = NamedAtOnce(tokens, j)
           /\ KeepsLiteral(tokens, i) = KeepsLiteral(tokens, j)
<1>1. /\ KindAt(tokens, i - 1) = KindAt(tokens, j - 1)
      /\ tokens[i] = tokens[j]
      /\ KindAt(tokens, i + 1) = KindAt(tokens, j + 1)
  BY DEF Signature
<1>2. IsAliasedBareExpression(tokens, i) = IsAliasedBareExpression(tokens, j)
  BY <1>1 DEF IsAliasedBareExpression
<1>3. FollowsNameMarker(tokens, i) = FollowsNameMarker(tokens, j)
  BY <1>1 DEF FollowsNameMarker
<1>4. IsSoloProjectionKeyword(tokens, i) = IsSoloProjectionKeyword(tokens, j)
  BY <1>1 DEF IsSoloProjectionKeyword
<1>5. KeepsLiteral(tokens, i) = KeepsLiteral(tokens, j)
  BY <1>1, <1>2 DEF KeepsLiteral
<1> QED BY <1>1, <1>2, <1>3, <1>4, <1>5 DEF NamedAtOnce

LEMMA ClassifyPreserves == IInv /\ Classify => IInv'
<1> SUFFICES ASSUME IInv, Classify PROVE IInv'
  OBVIOUS
<1> USE DEF IInv
<1>1. contextual' \in [DOMAIN tokens -> Kinds]
  <2>1. tokens \in [DOMAIN tokens -> Kinds]
    BY DEF TypeOK
  <2> QED BY <2>1, ReadTyped DEF Classify
<1>2. resolved' \in [DOMAIN tokens -> BOOLEAN]
  BY DEF Classify, KeepsLiteral, NamedAtOnce, IsAliasedBareExpression, FollowsNameMarker,
         IsSoloProjectionKeyword
<1>3. TypeOK'
  BY <1>1, <1>2 DEF TypeOK, Classify
<1>4. Progress'
  BY DEF Progress, Classify
<1>5. \A i \in DOMAIN tokens :
        /\ contextual'[i] = IF NamedAtOnce(tokens, i) THEN "Identifier" ELSE tokens[i]
        /\ resolved'[i] = (KeepsLiteral(tokens, i) \/ NamedAtOnce(tokens, i))
  BY DEF Classify, Read
<1>6. SignatureUniform'
  <2> SUFFICES ASSUME NEW i \in DOMAIN tokens, NEW j \in DOMAIN tokens,
                      Signature(tokens, i) = Signature(tokens, j)
               PROVE  contextual'[i] = contextual'[j] /\ resolved'[i] = resolved'[j]
    BY DEF SignatureUniform, Classify
  <2> QED BY <1>5, NamedBySignature
<1>7. NamesAreDecidedKeywords'
  <2> SUFFICES ASSUME NEW i \in DOMAIN tokens, contextual'[i] # tokens[i]
               PROVE  /\ contextual'[i] = "Identifier" /\ tokens[i] \in Candidates
                      /\ resolved'[i] /\ ~KeepsLiteral(tokens, i)
    BY DEF NamesAreDecidedKeywords, Classify, KeepsLiteral, IsAliasedBareExpression
  <2>1. NamedAtOnce(tokens, i)
    BY <1>5
  <2> QED BY <1>5, <2>1 DEF NamedAtOnce
<1> QED BY <1>3, <1>4, <1>6, <1>7

(* A retry decides a whole lexical context at once, and only undecided keywords. *)
LEMMA ReclassifyPreserves == IInv /\ Reclassify => IInv'
<1> SUFFICES ASSUME IInv, Reclassify PROVE IInv'
  OBVIOUS
<1> USE DEF IInv
<1>1. PICK k \in Unresolved :
        /\ reclassified' = Peers(k)
        /\ resolved' = [j \in DOMAIN tokens |-> resolved[j] \/ j \in Peers(k)]
        /\ contextual' = Read(Peers(k), contextual)
  BY DEF Reclassify
<1>2. Peers(k) \subseteq DOMAIN tokens
  BY DEF Peers, Unresolved
<1>3. contextual' \in [DOMAIN tokens -> Kinds]
  BY <1>1, ReadTyped DEF TypeOK
<1>4. resolved' \in [DOMAIN tokens -> BOOLEAN]
  BY <1>1 DEF TypeOK
<1>5. passes > 0 /\ error \in Nat /\ bestError \in Nat
  BY DEF Reclassify, Progress, TypeOK
<1>6. TypeOK'
  BY <1>1, <1>2, <1>3, <1>4, <1>5 DEF TypeOK, Reclassify, Farther
<1>7. Progress'
  BY <1>5 DEF Progress, Reclassify, Farther
<1>8. \A i \in DOMAIN tokens :
        /\ contextual'[i] = IF i \in Peers(k) THEN "Identifier" ELSE contextual[i]
        /\ resolved'[i] = (resolved[i] \/ i \in Peers(k))
  BY <1>1 DEF Read, TypeOK
<1>9. SignatureUniform'
  <2> SUFFICES ASSUME NEW i \in DOMAIN tokens, NEW j \in DOMAIN tokens,
                      tokens[i] \in Candidates, Signature(tokens, i) = Signature(tokens, j)
               PROVE  contextual'[i] = contextual'[j] /\ resolved'[i] = resolved'[j]
    BY DEF SignatureUniform, Reclassify
  <2>1. tokens[i] = tokens[j]
    BY DEF Signature
  <2>2. contextual[i] = contextual[j] /\ resolved[i] = resolved[j]
    BY DEF SignatureUniform
  <2>3. i \in Peers(k) <=> j \in Peers(k)
    BY <2>1, <2>2 DEF Peers, Unresolved
  <2> QED BY <1>8, <2>2, <2>3
<1>10. NamesAreDecidedKeywords'
  <2> SUFFICES ASSUME NEW i \in DOMAIN tokens, contextual'[i] # tokens[i]
               PROVE  /\ contextual'[i] = "Identifier" /\ tokens[i] \in Candidates
                      /\ resolved'[i] /\ ~KeepsLiteral(tokens, i)
    BY DEF NamesAreDecidedKeywords, Reclassify, KeepsLiteral, IsAliasedBareExpression
  <2>1. CASE i \notin Peers(k)
    BY <1>8, <2>1 DEF NamesAreDecidedKeywords
  <2>2. CASE i \in Peers(k)
    BY <1>8, <2>2 DEF Peers, Unresolved, Progress, Reclassify
  <2> QED BY <2>1, <2>2
<1> QED BY <1>6, <1>7, <1>9, <1>10

(* Parser calls change the two error offsets only. *)
LEMMA ParsePreserves ==
    IInv /\ (Accept \/ FailFirst \/ FailFarther \/ FailWithoutProgress \/ GiveUp) => IInv'
<1> SUFFICES ASSUME IInv, Accept \/ FailFirst \/ FailFarther \/ FailWithoutProgress \/ GiveUp
             PROVE  IInv'
  OBVIOUS
<1> USE DEF IInv
<1>1. UNCHANGED <<tokens, contextual, resolved, reclassified>>
  BY DEF Accept, FailFirst, FailFarther, FailWithoutProgress, GiveUp
<1>2. SignatureUniform' /\ NamesAreDecidedKeywords'
  BY <1>1 DEF SignatureUniform, NamesAreDecidedKeywords, KeepsLiteral, IsAliasedBareExpression
<1>3. Locations \subseteq Nat
  BY LocationsAreOffsets DEF TypeOK
<1>4. CASE Accept
  <2>1. TypeOK'
    BY <1>1, <1>4 DEF TypeOK, Accept
  <2>2. Progress'
    BY <1>1, <1>4 DEF Progress, Accept, TypeOK
  <2> QED BY <1>2, <2>1, <2>2
<1>5. CASE FailFirst
  <2>1. TypeOK'
    BY <1>1, <1>3, <1>5 DEF TypeOK, FailFirst
  <2>2. Progress'
    BY <1>1, <1>3, <1>5 DEF Progress, FailFirst, TypeOK
  <2> QED BY <1>2, <2>1, <2>2
<1>6. CASE FailFarther
  <2>1. TypeOK'
    BY <1>1, <1>3, <1>6 DEF TypeOK, FailFarther
  <2>2. Progress'
    BY <1>1, <1>3, <1>6 DEF Progress, FailFarther, TypeOK, IsProgress, Inside
  <2> QED BY <1>2, <2>1, <2>2
<1>7. CASE FailWithoutProgress
  <2>1. TypeOK'
    BY <1>1, <1>7 DEF TypeOK, FailWithoutProgress
  <2>2. Progress'
    BY <1>1, <1>7 DEF Progress, FailWithoutProgress, TypeOK
  <2> QED BY <1>2, <2>1, <2>2
<1>8. CASE GiveUp
  <2>1. passes > 0 /\ error \in Nat /\ bestError \in Nat
    BY <1>8 DEF GiveUp, Progress, TypeOK
  <2>2. TypeOK'
    BY <1>1, <1>8, <2>1 DEF TypeOK, GiveUp, Farther
  <2>3. Progress'
    BY <1>1, <1>8, <2>1 DEF Progress, GiveUp, Farther
  <2> QED BY <1>2, <2>2, <2>3
<1> QED BY <1>4, <1>5, <1>6, <1>7, <1>8

LEMMA StutterPreserves == IInv /\ UNCHANGED vars => IInv'
BY DEF IInv, TypeOK, Progress, SignatureUniform, NamesAreDecidedKeywords, vars,
       KeepsLiteral, IsAliasedBareExpression, Inside

LEMMA StepPreserves == IInv /\ [Next]_vars => IInv'
BY ClassifyPreserves, ParsePreserves, ReclassifyPreserves, StutterPreserves DEF Next, Returned

LEMMA Invariance == Spec => []IInv
BY InitEstablishes, StepPreserves, PTL DEF Spec

(* Every variable keeps its type, whatever the parser answers. *)
THEOREM TypeCorrect == Spec => []TypeOK
<1>1. IInv => TypeOK
  BY DEF IInv
<1> QED BY <1>1, Invariance, PTL

(* Keywords in the same lexical context are always read alike. *)
THEOREM ContextsReadAlike == Spec => []SignatureUniform
<1>1. IInv => SignatureUniform
  BY DEF IInv
<1> QED BY <1>1, Invariance, PTL

(* Only decided keywords become names, and a protected literal never does. *)
THEOREM OnlyKeywordsBecomeNames == Spec => []NamesAreDecidedKeywords
<1>1. IInv => NamesAreDecidedKeywords
  BY DEF IInv
<1> QED BY <1>1, Invariance, PTL

(* Together: what the retry loop turns into names it turns by context.     *)
THEOREM NamesAreContextual == Spec => []NamesFollowContext
BY ContextsReadAlike, OnlyKeywordsBecomeNames, PTL DEF NamesFollowContext

(* The reported error moves forward, never into a name just made. *)
THEOREM ErrorsAdvance == Spec => BestErrorAdvances
<1>1. IInv /\ [Next]_vars =>
        [bestError' # bestError =>
            bestError' > bestError /\ \A i \in reclassified : ~Inside(bestError', i)]_vars
  <2> SUFFICES ASSUME IInv, Next, bestError' # bestError
               PROVE  /\ bestError' > bestError
                      /\ \A i \in reclassified : ~Inside(bestError', i)
    OBVIOUS
  <2>1. CASE FailFirst
    <3>1. bestError' \in Nat
      BY <2>1, LocationsAreOffsets DEF FailFirst, IInv, TypeOK
    <3>2. bestError = None /\ reclassified = {}
      BY <2>1 DEF FailFirst, IInv, Progress
    <3> QED BY <3>1, <3>2 DEF None
  <2>2. CASE Reclassify \/ GiveUp
    <3>1. bestError' = error /\ error > bestError
      <4>1. error \in Nat /\ bestError \in Nat
        BY <2>2 DEF Reclassify, GiveUp, IInv, Progress, TypeOK
      <4> QED BY <2>2, <4>1 DEF Reclassify, GiveUp, Farther
    <3>2. \A i \in reclassified : ~Inside(error, i)
      BY <2>2 DEF Reclassify, GiveUp, IInv, Progress
    <3> QED BY <3>1, <3>2 DEF Inside
  <2> QED BY <2>1, <2>2 DEF Next, Classify, Accept, FailFarther, FailWithoutProgress,
                          Returned, vars
<1> QED BY <1>1, Invariance, PTL DEF Spec, BestErrorAdvances

(* A failing call reports the failure that got farthest. *)
THEOREM ReportsFarthest == Spec => []ReportsLastProgress
<1>1. IInv => ReportsLastProgress
  BY DEF IInv, Progress, ReportsLastProgress
<1> QED BY <1>1, Invariance, PTL

-----------------------------------------------------------------------------
(* The number of parser calls.                                             *)

\* The lexical contexts some keyword of which has been decided.
DecidedSignatures ==
    {Signature(tokens, i) : i \in {i \in DOMAIN tokens : tokens[i] \in Candidates /\ resolved[i]}}

\* Each retry has paid with a lexical context of its own.
PassesPaid ==
    passes <= Cardinality(DecidedSignatures) + IF pc = "Parse" THEN 0 ELSE 1

LEMMA SignatureSetFinite ==
    ASSUME NEW ts \in Seq(Kinds), NEW S \in SUBSET DOMAIN ts
    PROVE  /\ IsFiniteSet({Signature(ts, i) : i \in S})
           /\ Cardinality({Signature(ts, i) : i \in S}) \in Nat
<1>1. IsFiniteSet(DOMAIN ts)
  <2>1. DOMAIN ts = 1..Len(ts) /\ Len(ts) \in Nat
    OBVIOUS
  <2> QED BY <2>1, FS_Interval
<1>2. IsFiniteSet(S)
  BY <1>1, FS_Subset
<1>3. IsFiniteSet({Signature(ts, i) : i \in S})
  <2> DEFINE T == {Signature(ts, i) : i \in S}
             f == [i \in S |-> Signature(ts, i)]
  <2>1. f \in [S -> T] /\ \A t \in T : \E i \in S : f[i] = t
    OBVIOUS
  <2>2. f \in Surjection(S, T)
    BY <2>1 DEF Surjection
  <2> HIDE DEF f, T
  <2>3. IsFiniteSet(T)
    BY <1>2, <2>2, FS_Surjection
  <2> QED BY <2>3 DEF T
<1> QED BY <1>3, FS_CardinalityType

LEMMA SignaturesFinite ==
    ASSUME tokens \in Seq(Kinds)
    PROVE  /\ IsFiniteSet(DecidedSignatures) /\ Cardinality(DecidedSignatures) \in Nat
           /\ Cardinality(Signatures) \in Nat
           /\ Cardinality(DecidedSignatures) <= Cardinality(Signatures)
<1>1. IsFiniteSet(Signatures) /\ Cardinality(Signatures) \in Nat
  BY SignatureSetFinite DEF Signatures
<1>2. IsFiniteSet(DecidedSignatures) /\ Cardinality(DecidedSignatures) \in Nat
  BY SignatureSetFinite DEF DecidedSignatures
<1>3. DecidedSignatures \subseteq Signatures
  BY DEF DecidedSignatures, Signatures
<1>4. Cardinality(DecidedSignatures) <= Cardinality(Signatures)
  BY <1>1, <1>3, FS_Subset
<1> QED BY <1>1, <1>2, <1>4

LEMMA SignaturesFiniteNext ==
    ASSUME tokens' \in Seq(Kinds)
    PROVE  IsFiniteSet(DecidedSignatures') /\ Cardinality(DecidedSignatures') \in Nat
BY SignatureSetFinite DEF DecidedSignatures

(* A retry decides a lexical context no earlier pass had decided. *)
LEMMA ReclassifyPays ==
    ASSUME IInv, Reclassify
    PROVE  Cardinality(DecidedSignatures') >= Cardinality(DecidedSignatures) + 1
<1> USE DEF IInv
<1>1. PICK k \in Unresolved :
        resolved' = [j \in DOMAIN tokens |-> resolved[j] \/ j \in Peers(k)]
  BY DEF Reclassify
<1>2. k \in DOMAIN tokens /\ tokens[k] \in Candidates /\ ~resolved[k] /\ k \in Peers(k)
  BY DEF Unresolved, Peers
<1>3. Signature(tokens, k) \notin DecidedSignatures
  <2> SUFFICES ASSUME NEW i \in DOMAIN tokens, tokens[i] \in Candidates, resolved[i],
                      Signature(tokens, i) = Signature(tokens, k)
               PROVE  FALSE
    BY DEF DecidedSignatures
  <2> QED BY <1>2 DEF SignatureUniform
<1>4. DecidedSignatures \cup {Signature(tokens, k)} \subseteq DecidedSignatures'
  <2>1. tokens' = tokens
    BY DEF Reclassify
  <2>2. \A i \in DOMAIN tokens : (resolved[i] \/ i = k) => resolved'[i]
    BY <1>1, <1>2 DEF TypeOK
  <2> QED BY <1>2, <2>1, <2>2 DEF DecidedSignatures
<1>5. IsFiniteSet(DecidedSignatures) /\ IsFiniteSet(DecidedSignatures')
  <2>1. tokens' \in Seq(Kinds)
    BY DEF Reclassify, TypeOK
  <2> QED BY <2>1, SignaturesFinite, SignaturesFiniteNext DEF TypeOK
<1>6. Cardinality(DecidedSignatures \cup {Signature(tokens, k)})
        = Cardinality(DecidedSignatures) + 1
  BY <1>3, <1>5, FS_AddElement
<1>7. Cardinality(DecidedSignatures \cup {Signature(tokens, k)})
        <= Cardinality(DecidedSignatures')
  BY <1>4, <1>5, FS_Subset
<1>8. Cardinality(DecidedSignatures) \in Nat /\ Cardinality(DecidedSignatures') \in Nat
  BY <1>5, FS_CardinalityType
<1> QED BY <1>6, <1>7, <1>8

LEMMA StepPays == IInv /\ PassesPaid /\ [Next]_vars => PassesPaid'
<1> SUFFICES ASSUME IInv, PassesPaid, [Next]_vars PROVE PassesPaid'
  OBVIOUS
<1>1. Cardinality(DecidedSignatures) \in Nat
  BY SignaturesFinite DEF IInv, TypeOK
<1>2. passes \in Nat
  BY DEF IInv, TypeOK
<1>3. CASE Reclassify
  <2>1. Cardinality(DecidedSignatures') \in Nat
    <3>1. tokens' \in Seq(Kinds)
      BY <1>3 DEF Reclassify, IInv, TypeOK
    <3> QED BY <3>1, SignaturesFiniteNext
  <2>2. Cardinality(DecidedSignatures') >= Cardinality(DecidedSignatures) + 1
    BY <1>3, ReclassifyPays
  <2>3. passes' = passes /\ pc = "Choose" /\ pc' = "Parse"
    BY <1>3 DEF Reclassify
  <2> QED BY <1>1, <1>2, <2>1, <2>2, <2>3 DEF PassesPaid
<1>4. CASE Classify
  <2>1. passes' = 0 /\ pc' = "Parse"
    BY <1>4 DEF Classify, IInv, Progress
  <2>2. Cardinality(DecidedSignatures') \in Nat
    <3>1. tokens' \in Seq(Kinds)
      BY <1>4 DEF Classify, IInv, TypeOK
    <3> QED BY <3>1, SignaturesFiniteNext
  <2> QED BY <2>1, <2>2 DEF PassesPaid
<1>5. CASE Accept \/ FailFirst \/ FailFarther \/ FailWithoutProgress
  <2>1. DecidedSignatures' = DecidedSignatures
    BY <1>5 DEF Accept, FailFirst, FailFarther, FailWithoutProgress, DecidedSignatures
  <2>2. pc = "Parse" /\ passes' = passes + 1 /\ pc' # "Parse"
    BY <1>5 DEF Accept, FailFirst, FailFarther, FailWithoutProgress
  <2> QED BY <1>1, <1>2, <2>1, <2>2 DEF PassesPaid
<1>6. CASE GiveUp \/ UNCHANGED vars
  <2>1. DecidedSignatures' = DecidedSignatures
    BY <1>6 DEF GiveUp, vars, DecidedSignatures
  <2> QED BY <1>6, <2>1 DEF PassesPaid, GiveUp, vars
<1> QED BY <1>3, <1>4, <1>5, <1>6 DEF Next, Returned

(* However the parser fails, it is called at most once per lexical context *)
(* of a keyword after the first call: no exponential search.               *)
THEOREM ParserCallsBounded == Spec => []PassesBounded
<1>1. Init => PassesPaid
  <2> SUFFICES ASSUME Init PROVE PassesPaid
    OBVIOUS
  <2>1. Cardinality(DecidedSignatures) \in Nat
    BY InitEstablishes, SignaturesFinite DEF IInv, TypeOK
  <2> QED BY <2>1 DEF Init, PassesPaid
<1>2. IInv /\ PassesPaid => PassesBounded
  <2> SUFFICES ASSUME IInv, PassesPaid PROVE PassesBounded
    OBVIOUS
  <2> QED BY SignaturesFinite DEF IInv, TypeOK, PassesPaid, PassesBounded
<1> QED BY <1>1, <1>2, StepPays, Invariance, PTL DEF Spec

-----------------------------------------------------------------------------
(* How long the loop takes.                                                *)

Stage ==
    CASE pc = "Classify" -> 3 [] pc = "Parse" -> 2 [] pc = "Choose" -> 1 [] OTHER -> 0

\* A context is decided once, and costs one parse and one choice.
StepsLeft == 2 * (Cardinality(Signatures) - Cardinality(DecidedSignatures)) + Stage

LEMMA StepsCounted ==
    TypeOK => /\ Cardinality(Signatures) \in Nat /\ Cardinality(DecidedSignatures) \in Nat
              /\ Cardinality(DecidedSignatures) <= Cardinality(Signatures)
              /\ Stage \in 0..3 /\ StepsLeft \in 0..(2 * Cardinality(Signatures) + 3)
<1> SUFFICES ASSUME TypeOK
             PROVE  /\ Cardinality(Signatures) \in Nat /\ Cardinality(DecidedSignatures) \in Nat
                    /\ Cardinality(DecidedSignatures) <= Cardinality(Signatures)
                    /\ Stage \in 0..3 /\ StepsLeft \in 0..(2 * Cardinality(Signatures) + 3)
  OBVIOUS
<1>1. /\ Cardinality(Signatures) \in Nat /\ Cardinality(DecidedSignatures) \in Nat
      /\ Cardinality(DecidedSignatures) <= Cardinality(Signatures)
  BY SignaturesFinite DEF TypeOK
<1>2. Stage \in 0..3
  BY DEF Stage
<1> QED BY <1>1, <1>2 DEF StepsLeft

LEMMA StepsCountedAfter ==
    TypeOK' => (/\ Cardinality(Signatures) \in Nat /\ Cardinality(DecidedSignatures) \in Nat
                /\ Cardinality(DecidedSignatures) <= Cardinality(Signatures)
                /\ Stage \in 0..3 /\ StepsLeft \in 0..(2 * Cardinality(Signatures) + 3))'
BY StepsCounted, PTL

LEMMA StepShrinks ==
    ASSUME IInv, IInv', [Next]_vars
    PROVE  [StepsLeft' < StepsLeft]_vars
<1>1. /\ Cardinality(Signatures) \in Nat /\ Cardinality(DecidedSignatures) \in Nat
      /\ Stage \in 0..3 /\ Cardinality(DecidedSignatures') \in Nat /\ Stage' \in 0..3
  BY StepsCounted, StepsCountedAfter DEF IInv
<1>2. tokens' = tokens
  BY DEF Next, Classify, Accept, FailFirst, FailFarther, FailWithoutProgress, Reclassify,
         GiveUp, Returned, vars
<1>3. Cardinality(Signatures') = Cardinality(Signatures)
  BY <1>2 DEF Signatures
<1>4. StepsLeft' = 2 * (Cardinality(Signatures) - Cardinality(DecidedSignatures')) + Stage'
  BY <1>3 DEF StepsLeft
<1>5. CASE Classify
  <2>1. DecidedSignatures = {}
    BY <1>5 DEF Classify, IInv, Progress, DecidedSignatures
  <2>2. Cardinality(DecidedSignatures) = 0
    BY <2>1, FS_EmptySet
  <2>3. Stage = 3 /\ Stage' = 2
    BY <1>5 DEF Classify, Stage
  <2>4. StepsLeft' < StepsLeft
    BY <1>1, <1>4, <2>2, <2>3 DEF StepsLeft
  <2> QED BY <2>4
<1>6. CASE Reclassify
  <2>1. Cardinality(DecidedSignatures') >= Cardinality(DecidedSignatures) + 1
    BY <1>6, ReclassifyPays
  <2>2. Stage = 1 /\ Stage' = 2
    BY <1>6 DEF Reclassify, Stage
  <2>3. StepsLeft' < StepsLeft
    BY <1>1, <1>4, <2>1, <2>2 DEF StepsLeft
  <2> QED BY <2>3
<1>7. CASE Accept \/ FailFirst \/ FailFarther \/ FailWithoutProgress \/ GiveUp
  <2>1. resolved' = resolved
    BY <1>7 DEF Accept, FailFirst, FailFarther, FailWithoutProgress, GiveUp
  <2>2. DecidedSignatures' = DecidedSignatures
    BY <1>2, <2>1 DEF DecidedSignatures
  <2>3. Stage' < Stage
    BY <1>7 DEF Accept, FailFirst, FailFarther, FailWithoutProgress, GiveUp, Stage
  <2>4. StepsLeft' < StepsLeft
    BY <1>1, <1>4, <2>2, <2>3 DEF StepsLeft
  <2> QED BY <2>4
<1>8. CASE Returned \/ UNCHANGED vars
  BY <1>8 DEF Returned
<1> QED BY <1>5, <1>6, <1>7, <1>8 DEF Next

(* parse_tokens_with_contextual_names returns, however the parser fails,   *)
(* after a number of steps that is linear in the lexical contexts of the   *)
(* keywords: a failure that counts as progress decides a context, for good. *)
THEOREM LoopIsBounded ==
    Spec => [](StepsLeft \in 0..(2 * Cardinality(Signatures) + 3))
            /\ [][StepsLeft' < StepsLeft]_vars
<1>1. IInv => StepsLeft \in 0..(2 * Cardinality(Signatures) + 3)
  BY StepsCounted DEF IInv
<1>2. IInv /\ IInv' /\ [Next]_vars => [StepsLeft' < StepsLeft]_vars
  BY StepShrinks
<1> QED BY <1>1, <1>2, Invariance, PTL DEF Spec
=============================================================================
