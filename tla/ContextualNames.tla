--------------------------- MODULE ContextualNames ---------------------------
(***************************************************************************)
(* parse_tokens_with_contextual_names of src/parser.rs: every parse of a   *)
(* query, a branch or a recovered clause goes through this loop.  openCypher *)
(* keywords are not reserved, so a keyword may have to be read as a name.  *)
(* A first pass settles what neighbouring tokens decide; then, while the   *)
(* parser fails, the loop turns the keyword nearest to the failure, with   *)
(* all keywords in the same lexical context, into identifiers and parses   *)
(* again, as long as the failure moves forward.                            *)
(*                                                                         *)
(* The parser is external: each call may succeed or fail at any offset.    *)
(* Every call sees another token sequence, so a free choice per call       *)
(* stands for every deterministic parser.                                  *)
(***************************************************************************)
EXTENDS Integers, Sequences, FiniteSets

CONSTANTS
    Alphabet,    \* the token kinds an input is drawn from
    MaxTokens,   \* bound on the length of an input
    StartOf(_),  \* byte offset at which token i starts
    EndOf(_)     \* byte offset just after token i

(***************************************************************************)
(* Token kinds the loop tells apart.  Literal stands for the six keyword   *)
(* literals, Match for the clause keywords other than RETURN and WITH,     *)
(* Order for the other keywords that end a projection item, Keyword for    *)
(* the remaining keywords (COUNT, CASE, EXISTS, ...), Word for tokens that *)
(* are neither keywords nor listed.                                        *)
(***************************************************************************)
Candidates == {"As", "Return", "With", "Yield", "SetAll", "Distinct",
               "Literal", "Match", "Order", "Keyword"}

Kinds == Candidates \cup {"Dot", "Comma", "Semicolon", "Word", "Identifier"}

ASSUME AlphabetAssumption == Alphabet \subseteq Kinds
ASSUME BoundAssumption == MaxTokens \in Nat
ASSUME OffsetAssumption ==
    \A i \in 1..MaxTokens :
        StartOf(i) \in Nat /\ EndOf(i) \in Nat /\ StartOf(i) <= EndOf(i)

NoToken == "None"
None == -1

VARIABLES
    tokens,        \* the tokens to parse
    contextual,    \* the same tokens, some keywords read as identifiers
    resolved,      \* which keywords have been decided
    pc,            \* where in the function control is
    error,         \* offset of the last failure that counted as progress
    bestError,     \* offset of the failure to report
    reclassified,  \* what the last pass turned into identifiers
    passes,        \* number of parser calls so far
    result         \* "Ok", "Err" or, while running, "Pending"

vars == <<tokens, contextual, resolved, pc, error, bestError, reclassified,
          passes, result>>

-----------------------------------------------------------------------------
KindAt(ts, i) == IF i \in DOMAIN ts THEN ts[i] ELSE NoToken

\* The keyword and its two neighbours, in the tokens as they were lexed.
Signature(ts, i) == <<KindAt(ts, i - 1), ts[i], KindAt(ts, i + 1)>>

FollowsNameMarker(ts, i) ==
    KindAt(ts, i - 1) \in {"As", "Dot"} /\ ~(ts[i] = "As" /\ KindAt(ts, i - 1) = "As")

IsAliasedBareExpression(ts, i) ==
    /\ KindAt(ts, i - 1) \in {"Return", "With", "Yield", "Comma"}
    /\ KindAt(ts, i + 1) = "As"

IsSoloProjectionKeyword(ts, i) ==
    /\ ts[i] \in {"SetAll", "Distinct"}
    /\ KindAt(ts, i - 1) \in {"Return", "With"}
    /\ KindAt(ts, i + 1) \in {NoToken, "As", "Comma", "Order", "Semicolon",
                              "Match", "Return", "With"}

\* A keyword literal that is a whole projection item keeps its meaning.
KeepsLiteral(ts, i) == ts[i] = "Literal" /\ IsAliasedBareExpression(ts, i)

NamedAtOnce(ts, i) ==
    /\ ts[i] \in Candidates /\ ~KeepsLiteral(ts, i)
    /\ \/ FollowsNameMarker(ts, i)
       \/ IsSoloProjectionKeyword(ts, i)
       \/ IsAliasedBareExpression(ts, i)

AllKeywords ==   \* faulty: decided keywords are decided again
    {i \in DOMAIN tokens : tokens[i] \in Candidates}

Unresolved == {i \in DOMAIN tokens : tokens[i] \in Candidates /\ ~resolved[i]}

Inside(location, i) == StartOf(i) <= location /\ location < EndOf(i)

Distance(i) ==
    IF error < StartOf(i) THEN StartOf(i) - error
    ELSE IF error > EndOf(i) THEN error - EndOf(i) ELSE 0

Priority(i) ==
    LET followedByAs == KindAt(tokens, i + 1) = "As"
    IN  IF Inside(error, i) /\ (tokens[i] # "As" \/ followedByAs) THEN 0
        ELSE IF followedByAs /\ tokens[i] # "As" THEN 1
        ELSE IF Inside(error, i) THEN 2
        ELSE 3

\* Lexicographic order on (priority, distance, index).
Precedes(i, j) ==
    \/ Priority(i) < Priority(j)
    \/ Priority(i) = Priority(j) /\ Distance(i) < Distance(j)
    \/ Priority(i) = Priority(j) /\ Distance(i) = Distance(j) /\ i <= j

OnlyItself(i) == {i}   \* faulty: one keyword per retry

\* Undecided keywords in the same lexical context as token i.
Peers(i) == {j \in Unresolved : Signature(tokens, j) = Signature(tokens, i)}

IsFarther(location) == location > error   \* faulty: may land on a new name

\* A retry counts only when it fails farther on, and not on a token this
\* pass has just turned into an identifier.
IsProgress(location) ==
    location > error /\ \A i \in reclassified : ~Inside(location, i)

Read(S, kinds) ==
    [i \in DOMAIN kinds |-> IF i \in S THEN "Identifier" ELSE kinds[i]]

\* Where a parser call can fail: anywhere in the input, or at its end.
Locations == 0..(IF tokens = <<>> THEN 0 ELSE EndOf(Len(tokens)))

-----------------------------------------------------------------------------
Init ==
    /\ tokens \in UNION {[1..n -> Alphabet] : n \in 0..MaxTokens}
    /\ contextual = tokens
    /\ resolved = [i \in DOMAIN tokens |-> FALSE]
    /\ pc = "Classify"
    /\ error = None /\ bestError = None
    /\ reclassified = {}
    /\ passes = 0
    /\ result = "Pending"

\* What the neighbouring tokens decide before any parse.
Classify ==
    /\ pc = "Classify"
    /\ resolved' = [i \in DOMAIN tokens |-> KeepsLiteral(tokens, i) \/ NamedAtOnce(tokens, i)]
    /\ contextual' = Read({i \in DOMAIN tokens : NamedAtOnce(tokens, i)}, tokens)
    /\ pc' = "Parse"
    /\ UNCHANGED <<tokens, error, bestError, reclassified, passes, result>>

Accept ==
    /\ pc = "Parse"
    /\ passes' = passes + 1
    /\ result' = "Ok"
    /\ pc' = "Done"
    /\ UNCHANGED <<tokens, contextual, resolved, error, bestError, reclassified>>

\* The first failure is the one to report unless a retry gets farther.
FailFirst ==
    /\ pc = "Parse" /\ passes = 0
    /\ passes' = 1
    /\ \E location \in Locations : error' = location /\ bestError' = location
    /\ pc' = "Choose"
    /\ UNCHANGED <<tokens, contextual, resolved, reclassified, result>>

FailFarther ==
    /\ pc = "Parse" /\ passes > 0
    /\ passes' = passes + 1
    /\ \E location \in Locations : IsProgress(location) /\ error' = location
    /\ pc' = "Choose"
    /\ UNCHANGED <<tokens, contextual, resolved, bestError, reclassified, result>>

FailWithoutProgress ==
    /\ pc = "Parse" /\ passes > 0
    /\ passes' = passes + 1
    /\ \E location \in Locations : ~IsProgress(location)
    /\ result' = "Err"
    /\ pc' = "Done"
    /\ UNCHANGED <<tokens, contextual, resolved, error, bestError, reclassified>>

FirstError == bestError   \* faulty: progress is not remembered

Farther == IF error >= bestError THEN error ELSE bestError

\* Turn the nearest undecided keyword and its peers into identifiers.
Reclassify ==
    /\ pc = "Choose"
    /\ bestError' = Farther
    /\ \E i \in Unresolved :
        /\ \A j \in Unresolved : Precedes(i, j)
        /\ reclassified' = Peers(i)
        /\ resolved' = [j \in DOMAIN tokens |-> resolved[j] \/ j \in Peers(i)]
        /\ contextual' = Read(Peers(i), contextual)
    /\ pc' = "Parse"
    /\ UNCHANGED <<tokens, error, passes, result>>

KeepTrying ==   \* faulty: no way out once every keyword is decided
    pc = "Choose" /\ Unresolved = {} /\ UNCHANGED vars

GiveUp ==
    /\ pc = "Choose" /\ Unresolved = {}
    /\ bestError' = Farther
    /\ result' = "Err"
    /\ pc' = "Done"
    /\ UNCHANGED <<tokens, contextual, resolved, error, reclassified, passes>>

Returned == pc = "Done" /\ UNCHANGED vars

Next ==
    \/ Classify
    \/ Accept \/ FailFirst \/ FailFarther \/ FailWithoutProgress
    \/ Reclassify \/ GiveUp
    \/ Returned

Spec == Init /\ [][Next]_vars

\* Control never leaves the loop before it returns.
FairSpec == Spec /\ WF_vars(Next)

-----------------------------------------------------------------------------
(* Properties.                                                             *)

TypeOK ==
    /\ tokens \in Seq(Kinds) /\ Len(tokens) <= MaxTokens
    /\ contextual \in [DOMAIN tokens -> Kinds]
    /\ resolved \in [DOMAIN tokens -> BOOLEAN]
    /\ pc \in {"Classify", "Parse", "Choose", "Done"}
    /\ error \in Nat \cup {None} /\ bestError \in Nat \cup {None}
    /\ reclassified \subseteq DOMAIN tokens
    /\ passes \in Nat
    /\ result \in {"Pending", "Ok", "Err"}

(* Keywords in the same lexical context are always read alike: whatever    *)
(* the loop did to one, it did to all of them, in the first pass and in    *)
(* every retry.                                                            *)
SignatureUniform ==
    \A i, j \in DOMAIN tokens :
        (tokens[i] \in Candidates /\ Signature(tokens, i) = Signature(tokens, j)) =>
            contextual[i] = contextual[j] /\ resolved[i] = resolved[j]

(* Only keywords become names, a keyword the loop decided against keeps    *)
(* its meaning, and one it has not decided is still read as lexed.         *)
NamesAreDecidedKeywords ==
    \A i \in DOMAIN tokens :
        contextual[i] # tokens[i] =>
            /\ contextual[i] = "Identifier" /\ tokens[i] \in Candidates
            /\ resolved[i] /\ ~KeepsLiteral(tokens, i)

(* A keyword becomes a name by what stands next to it and in no other way.  *)
NamesFollowContext == SignatureUniform /\ NamesAreDecidedKeywords

Signatures == {Signature(tokens, i) : i \in {i \in DOMAIN tokens : tokens[i] \in Candidates}}

(* Malformed input costs at most one parser call per distinct lexical      *)
(* context of a keyword, plus the first.                                   *)
PassesBounded == passes <= 1 + Cardinality(Signatures)

(* The error to report only ever moves to a farther offset, and never into *)
(* a token that the pass which failed there had just made an identifier.   *)
BestErrorAdvances ==
    [][bestError' # bestError =>
        bestError' > bestError /\ \A i \in reclassified : ~Inside(bestError', i)]_vars

(* A failing call reports the farthest failure that counted as progress.   *)
ReportsLastProgress == result = "Err" => bestError = error

(* The loop ends: each retry decides at least one keyword.                 *)
Terminates == <>(pc = "Done")

=============================================================================
