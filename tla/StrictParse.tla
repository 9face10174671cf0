----------------------------- MODULE StrictParse -----------------------------
(***************************************************************************)
(* parse_program, parse_regular_query and parse_single_query of            *)
(* src/parser.rs: how the strict parser cuts a query into UNION branches   *)
(* and clauses before the generated clause parser sees any of it, and      *)
(* which error it reports.                                                 *)
(*                                                                         *)
(* The clause parser is an LR(1) machine, so it is described by what such  *)
(* a machine can do from each token: it either rejects some token, the     *)
(* same one however long the slice is, or reads to the end of the slice    *)
(* and accepts it or not.  The code skips attempts on the strength of that *)
(* fact; the reference definitions below skip none.                        *)
(***************************************************************************)
EXTENDS Integers, Sequences, FiniteSetsExt

CONSTANTS
    Alphabet,    \* the token classes an input is drawn from
    MaxTokens,   \* bound on the length of an input
    StartOf(_),  \* byte offset at which token i starts
    EndOf(_)     \* byte offset just after token i

TokenClass == {"Clause", "Return", "Call", "Union", "All", "Distinct",
               "Open", "Close", "Semicolon", "Word"}

ClauseStarts == {"Clause", "Return", "Call"}

ASSUME BoundAssumption == MaxTokens \in Nat
ASSUME AlphabetAssumption == Alphabet \subseteq TokenClass
ASSUME OffsetAssumption ==
    \A i \in 1..MaxTokens :
        /\ StartOf(i) \in Nat /\ EndOf(i) \in Nat /\ StartOf(i) < EndOf(i)
        /\ \A j \in 1..MaxTokens : i < j => EndOf(i) <= StartOf(j)

VARIABLES
    input,      \* the significant tokens, terminator included
    grammar,    \* what the clause parser does from each token
    userErrors, \* do its actions, not the end of input, refuse a slice?
    standalone, \* does the input parse as a standalone CALL?
    result      \* the outcome of parse_program, once it has returned

vars == <<input, grammar, userErrors, standalone, result>>

-----------------------------------------------------------------------------
Terminated == input # <<>> /\ input[Len(input)] = "Semicolon"

Tokens == IF Terminated THEN SubSeq(input, 1, Len(input) - 1) ELSE input

Size == Len(Tokens)

\* Indices in lo..(hi - 1) outside brackets, counting depth from lo.
TopLevelIndices(ts, lo, hi, classes) ==
    LET depth[i \in Nat] ==
          IF i <= lo THEN 0
          ELSE IF ts[i - 1] = "Open" THEN depth[i - 1] + 1
          ELSE IF ts[i - 1] = "Close" /\ depth[i - 1] > 0 THEN depth[i - 1] - 1
          ELSE depth[i - 1]
    IN  {i \in lo..(hi - 1) : ts[i] \in classes /\ depth[i] = 0}

Ok(branches) == [ok |-> TRUE, branches |-> branches]

Err(kind, location) == [ok |-> FALSE, kind |-> kind, location |-> location]

-----------------------------------------------------------------------------
(* The clause parser.                                                      *)

\* Where slices that the code ever parses can end.
CutPoints(ts) ==
    {i \in DOMAIN ts : ts[i] \in ClauseStarts \cup {"Union", "Semicolon"}} \cup {Len(ts) + 1}

\* From each token: the first token it rejects, past the end if none, and at
\* once where no clause starts.
Rejections(ts) ==
    {f \in [DOMAIN ts -> 1..(Len(ts) + 1)] :
        \A c \in DOMAIN ts : IF ts[c] \in ClauseStarts THEN c < f[c] ELSE f[c] = c}

\* The slices it accepts, given by both ends; none goes beyond that token.
Slices(ts, rejects) ==
    {slice \in (1..Len(ts)) \X CutPoints(ts) : slice[1] < slice[2] /\ slice[2] <= rejects[slice[1]]}

Grammars(ts) ==
    UNION {[rejects : {f}, accepts : SUBSET Slices(ts, f)] : f \in Rejections(ts)}

\* Parse tokens c..(end - 1) as one clause.  A slice read to its end and not
\* accepted is refused there, or by an action, at the clause.
ParseClause(c, end) ==
    IF <<c, end>> \in grammar.accepts THEN Ok(<<>>)
    ELSE IF grammar.rejects[c] < end
      THEN Err("UnrecognizedToken", StartOf(grammar.rejects[c]))
    ELSE IF userErrors THEN Err("User", StartOf(c))
    ELSE Err("UnrecognizedEof", EndOf(end - 1))

-----------------------------------------------------------------------------
(* One branch: clauses cut at top-level clause keywords.                   *)

CandidateEnds(c, hi) == TopLevelIndices(Tokens, c + 1, hi, ClauseStarts) \cup {hi}

\* The farthest error; of equal ones the one of the longest candidate.
FarthestError(c, ends) ==
    LET errors == {e \in ends : ~ParseClause(c, e).ok}
        best == CHOOSE e \in errors : \A d \in errors :
                    \/ ParseClause(c, d).location < ParseClause(c, e).location
                    \/ ParseClause(c, d).location = ParseClause(c, e).location /\ d <= e
    IN  ParseClause(c, best)

\* Candidates after which the code tries no longer one.
Rejected(c, ends) ==
    {e \in ends : ~ParseClause(c, e).ok /\ ParseClause(c, e).kind = "UnrecognizedToken"}

NothingLeft(c, end, hi) == FALSE   \* faulty: clauses may follow a RETURN

\* A RETURN that parses before the end of its branch.
LeavesClauses(c, end, hi) == Tokens[c] = "Return" /\ end < hi

\* Tokens lo..(hi - 1) as a branch; without pruning every candidate is tried.
SingleQuery(lo, hi, pruning) ==
    LET from[c \in 1..hi] ==
          IF c = hi THEN Ok(<<>>)
          ELSE LET ends == CandidateEnds(c, hi)
                   decisive == {e \in ends : ParseClause(c, e).ok} \cup (IF pruning THEN Rejected(c, ends) ELSE {})
                   end == Min(decisive)
               IN  IF decisive = {} THEN FarthestError(c, ends)
                   ELSE IF ~ParseClause(c, end).ok THEN ParseClause(c, end)
                   ELSE IF LeavesClauses(c, end, hi)
                     THEN Err("ExtraToken", StartOf(end))
                   ELSE IF from[end].ok
                     THEN Ok(<<[start |-> c, end |-> end]>> \o from[end].branches)
                   ELSE from[end]
    IN  IF lo = hi THEN Err("UnrecognizedEof", 0) ELSE from[lo]

-----------------------------------------------------------------------------
(* A regular query: branches cut at top-level UNIONs.                      *)

PrunedAlways(u, error) ==   \* faulty: any error prunes, not only a token's
    StartOf(u) > error.location

\* A split beyond a rejected token cannot repair the prefix before it.
Pruned(u, error) == error.kind = "UnrecognizedToken" /\ StartOf(u) > error.location

AfterTwo(u) == IF u + 1 <= Size THEN u + 2 ELSE u + 1   \* faulty: skips any token

\* Where the branch after the UNION at u starts: past ALL or DISTINCT.
RightStart(u) ==
    IF u + 1 <= Size /\ Tokens[u + 1] \in {"All", "Distinct"} THEN u + 2 ELSE u + 1

\* Without pruning every split is tried.
RegularQuery(pruning) ==
    LET parse[lo \in 1..Size] ==
          LET unsplit == SingleQuery(lo, Size + 1, pruning)
              splits == {u \in TopLevelIndices(Tokens, lo, Size + 1, {"Union"}) :
                           /\ ~(pruning /\ Pruned(u, unsplit))
                           /\ SingleQuery(lo, u, pruning).ok
                           /\ RightStart(u) <= Size
                           /\ parse[RightStart(u)].ok}
              u == Min(splits)
          IN  IF unsplit.ok THEN Ok(<<unsplit.branches>>)
              ELSE IF splits = {} THEN unsplit
              ELSE Ok(<<SingleQuery(lo, u, pruning).branches>>
                        \o parse[RightStart(u)].branches)
    IN  parse[1]

\* parse_program: a query the branches cannot explain may be a lone CALL.
Program(pruning) ==
    IF input = <<>> THEN Ok(<<>>)
    ELSE IF Size = 0 THEN Err("UnrecognizedEof", StartOf(1))
    ELSE LET regular == RegularQuery(pruning)
         IN  IF ~regular.ok /\ standalone
               THEN Ok(<<<<[start |-> 1, end |-> Size + 1]>>>>)
               ELSE regular

-----------------------------------------------------------------------------
Pending == [ok |-> FALSE, kind |-> "Pending", location |-> 0]

Init ==
    /\ input \in UNION {[1..n -> Alphabet] : n \in 0..MaxTokens}
    /\ grammar \in Grammars(input)
    /\ userErrors \in BOOLEAN
    /\ standalone \in IF input # <<>> /\ input[1] = "Call" THEN BOOLEAN ELSE {FALSE}
    /\ result = Pending

ParseProgram ==
    /\ result = Pending
    /\ result' = Program(TRUE)
    /\ UNCHANGED <<input, grammar, userErrors, standalone>>

Returned == result # Pending /\ UNCHANGED vars

Next == ParseProgram \/ Returned

Spec == Init /\ [][Next]_vars

-----------------------------------------------------------------------------
(* Properties.                                                             *)

(* Cutting the search short changes nothing: the query found, and for a    *)
(* malformed input the error reported, are those of a search that tries    *)
(* every candidate clause and every UNION split.                           *)
PruningPreservesResult ==
    result # Pending => result = Program(FALSE)

(* An accepted query leaves no token out: clauses meet inside a branch,    *)
(* and only UNION with its ALL or DISTINCT lies between two branches.      *)
BranchesTileTokens ==
    (result.ok /\ Size > 0) =>
        LET branches == result.branches
            first(b) == branches[b][1].start
            last(b) == branches[b][Len(branches[b])].end
        IN  /\ first(1) = 1 /\ last(Len(branches)) = Size + 1
            /\ \A b \in DOMAIN branches :
                /\ \A k \in 2..Len(branches[b]) :
                    branches[b][k].start = branches[b][k - 1].end
                /\ b > 1 => /\ Tokens[last(b - 1)] = "Union"
                            /\ \/ first(b) = last(b - 1) + 1
                               \/ /\ first(b) = last(b - 1) + 2
                                  /\ Tokens[first(b) - 1] \in {"All", "Distinct"}

(* In an accepted query RETURN is the last clause of its branch.           *)
ReturnEndsBranch ==
    (result.ok /\ ~standalone) =>
        \A b \in DOMAIN result.branches : \A k \in DOMAIN result.branches[b] :
            Tokens[result.branches[b][k].start] = "Return" => k = Len(result.branches[b])

(* An accepted query is made of whole branches, each ended by its RETURN.  *)
AcceptedInWhole == BranchesTileTokens /\ ReturnEndsBranch

=============================================================================
