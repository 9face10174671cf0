--------------------------- MODULE ClauseRecovery ---------------------------
(***************************************************************************)
(* recover_clauses of src/parser.rs: how parse_recovering builds a partial *)
(* query from an input the strict parser refused.                          *)
(*                                                                         *)
(* The function walks the significant tokens once.  At a top-level UNION   *)
(* it closes a branch; elsewhere it tries to parse a clause that starts at *)
(* the cursor and ends at each later boundary, then to repair one of the   *)
(* failed candidates by inserting error operands, and skips to the next    *)
(* boundary when nothing can be kept.  Clause parses, repairs and UNION    *)
(* splits all draw on one budget.                                          *)
(*                                                                         *)
(* The LALRPOP grammar is external: whether a slice of tokens is a clause  *)
(* is chosen freely (every slice is parsed at most once, so the choice per *)
(* attempt stands for every grammar), except for the one fact the code     *)
(* relies on, that a clause begins with a clause keyword.                  *)
(***************************************************************************)
EXTENDS Integers, Sequences, FiniteSetsExt, Functions

CONSTANTS
    Alphabet,       \* the token classes an input is drawn from
    MaxTokens,      \* bound on the length of an input
    Budget,         \* attempts shared by splits, clause parses and repairs
    MaxInsertions,  \* error operands one candidate may receive
    StartOf(_),     \* byte offset at which token i starts
    EndOf(_)        \* byte offset just after token i

(***************************************************************************)
(* Token classes: what recover_clauses tells apart.  Clause stands for the *)
(* ten clause keywords other than RETURN and CALL, NameMarker for AS, the  *)
(* dot and the colon, Word for every other token.                          *)
(***************************************************************************)
TokenClass == {"Clause", "Return", "Call", "Union", "All", "Distinct",
               "NameMarker", "Open", "Close", "Semicolon", "Word"}

ClauseStarts == {"Clause", "Return", "Call"}

ASSUME AlphabetAssumption == Alphabet \subseteq TokenClass
ASSUME BoundAssumption ==
    MaxTokens \in Nat /\ Budget \in Nat /\ MaxInsertions \in Nat

\* Tokens are nonempty and follow each other in the source.
ASSUME OffsetAssumption ==
    \A i \in 1..(MaxTokens + 1) :
        /\ StartOf(i) \in Nat /\ EndOf(i) \in Nat /\ StartOf(i) < EndOf(i)
        /\ \A j \in 1..(MaxTokens + 1) : i < j => EndOf(i) <= StartOf(j)

None == -1

VARIABLES
    input,       \* the significant tokens, terminator included
    pc,          \* where in the function control is
    cursor,      \* the next token to account for
    clauses,     \* nodes of the branch being built
    branches,    \* finished branches
    operators,   \* UNION operators between them
    branchStart, \* offset at which the current branch starts
    skipped,     \* offset of the pending error region, or None
    retained,    \* has any clause been kept?
    returned,    \* was the last kept clause of this branch a RETURN?
    attempts,    \* what is left of the budget
    verdict,     \* the grammar's answer for each candidate end at the cursor
    scanned,     \* the last candidate end tried at the cursor
    parsed,      \* the clause found at the cursor, if any
    failed,      \* candidate ends the grammar refused
    insertions,  \* error operands inserted into the candidate under repair
    outcome,     \* the result, once control has left the function
    spent        \* history: the head of the loop first reached without budget

vars == <<input, pc, cursor, clauses, branches, operators, branchStart,
          skipped, retained, returned, attempts, verdict, scanned, parsed,
          failed, insertions, outcome, spent>>

tree == <<clauses, branches, operators, branchStart, skipped, retained,
          returned>>
search == <<verdict, scanned, parsed, failed, insertions>>

-----------------------------------------------------------------------------
(* The input as the function's let-bindings see it.                        *)

Terminated == input # <<>> /\ input[Len(input)] = "Semicolon"

Tokens == IF Terminated THEN SubSeq(input, 1, Len(input) - 1) ELSE input

Size == Len(Tokens)

\* Bracket depth before each token; a stray closer leaves it at zero.
DepthBefore(ts) ==
    LET depth[i \in Nat] ==
          IF i <= 1 THEN 0
          ELSE IF ts[i - 1] = "Open" THEN depth[i - 1] + 1
          ELSE IF ts[i - 1] = "Close" /\ depth[i - 1] > 0 THEN depth[i - 1] - 1
          ELSE depth[i - 1]
    IN  depth

TopLevelIndices(ts, classes) ==
    {i \in 1..Len(ts) : ts[i] \in classes /\ DepthBefore(ts)[i] = 0}

UnionIndices ==
    {i \in TopLevelIndices(Tokens, {"Union"}) :
        ~ (i > 1 /\ Tokens[i - 1] \in {"NameMarker", "Call"})}

BoundariesWithoutUnions ==   \* faulty: a split point is not a stop
    TopLevelIndices(Tokens, ClauseStarts) \cup {Size + 1}

Boundaries ==
    TopLevelIndices(Tokens, ClauseStarts) \cup UnionIndices \cup {Size + 1}

After(S) == {i \in S : i > cursor}

-----------------------------------------------------------------------------
(* Syntax tree nodes.                                                      *)

SpanOf(start, end) == [start |-> start, end |-> end]

ClauseNode(kind, repaired, span) ==
    [kind |-> kind, repaired |-> repaired, span |-> span]

ErrorNode(span) == ClauseNode("Error", FALSE, span)

NoClause == [end |-> None, repaired |-> FALSE]

FlushNothing(end) == clauses   \* faulty: the pending region is forgotten

\* The clauses once the pending error region, if any, ends at `end`.
FlushSkipped(end) ==
    IF skipped = None THEN clauses
    ELSE Append(clauses, ErrorNode(SpanOf(skipped, end)))

BareBranch(nodes, span) ==   \* faulty: no placeholder for a missing branch
    [clauses |-> nodes, span |-> span]

MarkedBranch(nodes, span) ==   \* faulty: a placeholder in every branch
    [clauses |-> Append(nodes, ErrorNode(span)), span |-> span]

CollapsedBranch(nodes, span) ==   \* faulty: one error spoils its branch
    [clauses |-> IF \E node \in Range(nodes) : node.kind = "Error"
                   THEN <<ErrorNode(span)>> ELSE nodes,
     span    |-> span]

RecoveredBranch(nodes, span) ==
    [clauses |-> IF nodes = <<>> THEN <<ErrorNode(span)>> ELSE nodes,
     span    |-> span]

AssembleQueryShort(parts, ops) ==   \* faulty: the last branch is dropped
    [head   |-> Head(parts),
     unions |-> [i \in 1..Min({Len(ops), Len(parts) - 2}) |->
                    [operator |-> ops[i], query |-> parts[i + 1]]]]

\* head and zip(operators, rest): a surplus on either side is dropped.
AssembleQuery(parts, ops) ==
    [head   |-> Head(parts),
     unions |-> [i \in 1..Min({Len(ops), Len(parts) - 1}) |->
                    [operator |-> ops[i], query |-> parts[i + 1]]]]

Pending == [kind |-> "Pending"]
Fallback == [kind |-> "Fallback"]

-----------------------------------------------------------------------------
(* Views of the tree built so far: parts[b] is branch b, the last one still *)
(* open while the function runs.                                            *)

Parts ==
    [b \in 1..(Len(branches) + 1) |->
        IF b <= Len(branches) THEN branches[b].clauses ELSE clauses]

Nodes == UNION {Range(Parts[b]) : b \in DOMAIN Parts}

Kept == {node \in Nodes : node.kind # "Error"}

Covers(span, i) == span.start <= StartOf(i) /\ EndOf(i) <= span.end

NotSpent == [cursor |-> None, kept |-> {}, operators |-> <<>>]

\* Back at the head of the loop: if the budget is spent for the first time there,
\* remember the token the suffix starts at and what the tree keeps so far.
MarkSpent ==
    spent' = IF spent.cursor = None /\ attempts' = 0
               THEN [cursor |-> cursor', kept |-> Kept', operators |-> operators']
               ELSE spent

-----------------------------------------------------------------------------
Init ==
    /\ input \in UNION {[1..n -> Alphabet] : n \in 0..MaxTokens}
    /\ pc = "Prepare" /\ cursor = 1
    /\ clauses = <<>> /\ branches = <<>> /\ operators = <<>>
    /\ branchStart = None /\ skipped = None
    /\ retained = FALSE /\ returned = FALSE
    /\ attempts = Budget
    /\ verdict = <<>> /\ scanned = 1 /\ parsed = NoClause
    /\ failed = {} /\ insertions = 0
    /\ outcome = Pending /\ spent = NotSpent

\* Nothing to recover: no token, or more than one statement.
RejectInput ==
    /\ pc = "Prepare"
    /\ Size = 0 \/ TopLevelIndices(Tokens, {"Semicolon"}) # {}
    /\ outcome' = Fallback
    /\ pc' = "Done"
    /\ UNCHANGED <<input, cursor, attempts, tree, search, spent>>

Prepare ==
    /\ pc = "Prepare"
    /\ Size > 0 /\ TopLevelIndices(Tokens, {"Semicolon"}) = {}
    /\ branchStart' = StartOf(1)
    /\ pc' = "Scan"
    /\ UNCHANGED <<input, cursor, clauses, branches, operators, skipped,
                   retained, returned, attempts, search, outcome>>
    /\ MarkSpent

AtUnion == attempts > 0 /\ cursor \in UnionIndices

BranchEndAtToken == EndOf(cursor - 1)   \* faulty: a missing branch has no end

\* Where a branch closed by the UNION at the cursor ends.
BranchEnd ==
    IF clauses = <<>> /\ skipped = None THEN branchStart ELSE EndOf(cursor - 1)

\* A UNION left at the cursor closes the branch; ALL or DISTINCT belongs to it.
SplitUnion ==
    LET qualified == cursor + 1 <= Size /\ Tokens[cursor + 1] \in {"All", "Distinct"}
        next == IF qualified THEN cursor + 2 ELSE cursor + 1
        kind == IF qualified THEN Tokens[cursor + 1] ELSE "Default"
        operatorEnd == EndOf(next - 1)
    IN  /\ pc = "Scan" /\ cursor <= Size /\ AtUnion
        /\ attempts' = attempts - 1
        /\ branches' = Append(branches,
                          RecoveredBranch(FlushSkipped(BranchEnd), SpanOf(branchStart, BranchEnd)))
        /\ clauses' = <<>>
        /\ skipped' = None
        /\ operators' = Append(operators,
                           [kind |-> kind, span |-> SpanOf(StartOf(cursor), operatorEnd)])
        /\ cursor' = next
        /\ branchStart' = IF next <= Size THEN StartOf(next) ELSE operatorEnd
        /\ returned' = FALSE
        /\ UNCHANGED <<input, pc, retained, search, outcome>>
        /\ MarkSpent

SearchingAnyway == ~AtUnion   \* faulty: RETURN does not close the branch

Searching == ~AtUnion /\ ~returned

\* Candidates at the cursor: the grammar accepts some set of them, none unless
\* the slice begins with a clause keyword.
BeginClause ==
    /\ pc = "Scan" /\ cursor <= Size /\ Searching
    /\ verdict' \in [After(Boundaries) -> BOOLEAN]
    /\ Tokens[cursor] \notin ClauseStarts => \A end \in After(Boundaries) : ~verdict'[end]
    /\ scanned' = cursor /\ parsed' = NoClause /\ failed' = {} /\ insertions' = 0
    /\ pc' = "Try"
    /\ UNCHANGED <<input, cursor, attempts, tree, outcome, spent>>

Untried == {end \in Boundaries : end > scanned}

AcceptFirst(end) ==   \* faulty: the shortest valid clause wins
    IF parsed = NoClause THEN [end |-> end, repaired |-> FALSE] ELSE parsed

\* A longer valid clause replaces a shorter one.
Accept(end) == [end |-> end, repaired |-> FALSE]

MayTryUnpaid == Untried # {}   \* faulty: parses go on once the budget is spent

MayTry == attempts > 0 /\ Untried # {}

\* One candidate slice, shortest first.
TryCandidate ==
    /\ pc = "Try" /\ MayTry
    /\ LET end == Min(Untried)
       IN  /\ scanned' = end
           /\ IF verdict[end]
                THEN /\ parsed' = Accept(end)
                     /\ failed' = failed
                ELSE /\ failed' = failed \cup {end}
                     /\ parsed' = parsed
    /\ attempts' = attempts - 1
    /\ UNCHANGED <<input, pc, cursor, tree, verdict, insertions, outcome, spent>>

EndCandidates ==
    /\ pc = "Try" /\ ~MayTry
    /\ pc' = IF parsed = NoClause /\ failed # {} THEN "Repair" ELSE "Settle"
    /\ UNCHANGED <<input, cursor, attempts, tree, search, outcome, spent>>

\* recover_expression_operands inserts one error operand and parses again.
\* The error is never at an operand when the first token starts no clause.
InsertOperand ==
    /\ pc = "Repair" /\ attempts > 0 /\ insertions < MaxInsertions
    /\ Tokens[cursor] \in ClauseStarts
    /\ attempts' = attempts - 1
    /\ insertions' = insertions + 1
    /\ \/ /\ parsed' = [end |-> Min(failed), repaired |-> TRUE]
          /\ pc' = "Settle"
       \/ UNCHANGED <<parsed, pc>>
    /\ UNCHANGED <<input, cursor, tree, verdict, scanned, failed, outcome, spent>>

\* recover_expression_operands returns None: out of budget, out of insertions,
\* or an error no operand can repair.  The next failed candidate is tried.
AbandonRepair ==
    /\ pc = "Repair"
    /\ failed' = failed \ {Min(failed)}
    /\ insertions' = 0
    /\ pc' = IF failed' = {} THEN "Settle" ELSE "Repair"
    /\ UNCHANGED <<input, cursor, attempts, tree, verdict, scanned, parsed, outcome,
                   spent>>

RetainClause ==
    LET kind == IF Tokens[cursor] = "Return" THEN "Return" ELSE "Other"
        span == SpanOf(StartOf(cursor), EndOf(parsed.end - 1))
    IN  /\ pc = "Settle" /\ parsed # NoClause
        /\ clauses' = Append(FlushSkipped(EndOf(cursor - 1)),
                             ClauseNode(kind, parsed.repaired, span))
        /\ skipped' = None
        /\ returned' = (kind = "Return")
        /\ retained' = TRUE
        /\ cursor' = parsed.end
        /\ pc' = "Scan"
        /\ UNCHANGED <<input, branches, operators, branchStart, attempts, search, outcome>>
        /\ MarkSpent

ResumeInPlace(stops) ==   \* faulty: the exhausted loop stays where it is
    IF attempts = 0 THEN cursor ELSE Min(After(stops))

\* Where the loop goes on when nothing at the cursor is kept.  The end of the
\* input is among the stops, so there always is one.
Resume(stops) == IF attempts = 0 THEN Size + 1 ELSE Min(After(stops))

Skip(stops) ==
    /\ skipped' = IF skipped = None THEN StartOf(cursor) ELSE skipped
    /\ cursor' = Resume(stops)
    /\ pc' = "Scan"
    /\ UNCHANGED <<input, clauses, branches, operators, branchStart, retained,
                   returned, attempts, search, outcome>>
    /\ MarkSpent

SkipToBoundary == pc = "Settle" /\ parsed = NoClause /\ Skip(Boundaries)

\* Nothing but a UNION may follow a RETURN.
SkipAfterReturn ==
    /\ pc = "Scan" /\ cursor <= Size /\ ~AtUnion /\ returned
    /\ Skip(UnionIndices \cup {Size + 1})

\* The end of the input: close the last branch and assemble the query.
Finish ==
    LET end == EndOf(Size)
        all == Append(branches,
                  RecoveredBranch(FlushSkipped(end), SpanOf(branchStart, end)))
    IN  /\ pc = "Scan" /\ cursor > Size /\ retained
        /\ branches' = all
        /\ clauses' = <<>> /\ skipped' = None
        /\ outcome' = [kind  |-> "Recovered",
                       query |-> AssembleQuery(all, operators),
                       span  |-> SpanOf(StartOf(1),
                                   IF Terminated THEN EndOf(Size + 1) ELSE end)]
        /\ pc' = "Done"
        /\ UNCHANGED <<input, cursor, operators, branchStart, retained, returned,
                       attempts, search, spent>>

\* No clause could be kept: parse_recovering reports one whole-input error.
FinishEmpty ==
    /\ pc = "Scan" /\ cursor > Size /\ ~retained
    /\ outcome' = Fallback
    /\ pc' = "Done"
    /\ UNCHANGED <<input, cursor, attempts, tree, search, spent>>

Returned == pc = "Done" /\ UNCHANGED vars

Next ==
    \/ RejectInput \/ Prepare
    \/ SplitUnion
    \/ BeginClause \/ TryCandidate \/ EndCandidates
    \/ InsertOperand \/ AbandonRepair
    \/ RetainClause \/ SkipToBoundary \/ SkipAfterReturn
    \/ Finish \/ FinishEmpty
    \/ Returned

Spec == Init /\ [][Next]_vars

\* The function runs to its end once called: nothing can suspend it.
FairSpec == Spec /\ WF_vars(Next)

-----------------------------------------------------------------------------
(* Properties.                                                             *)

\* Whatever accounts for token i: a clause node, an operator (part 0), or the
\* pending error region (part -1).
Owners(i) ==
    (UNION {{<<b, c>> : c \in {c \in DOMAIN Parts[b] : Covers(Parts[b][c].span, i)}} :
              b \in DOMAIN Parts})
    \cup {<<0, o>> : o \in {o \in DOMAIN operators : Covers(operators[o].span, i)}}
    \cup {<<-1, 0>> : k \in {k \in {skipped} : k # None /\ k <= StartOf(i) /\ i < cursor}}

Span == {span \in [start : Nat, end : Nat] : span.start <= span.end}

ClauseNodes == [kind : {"Return", "Other", "Error"}, repaired : BOOLEAN, span : Span]

(* Every variable of the code has the shape it gives it; in particular every *)
(* span satisfies the assertion start <= end of Span::new, so recovery     *)
(* never panics on a span it computes from token offsets.                  *)
TypeOK ==
    /\ input \in Seq(Alphabet) /\ Len(input) <= MaxTokens
    /\ pc \in {"Prepare", "Scan", "Try", "Repair", "Settle", "Done"}
    /\ cursor \in 1..(Size + 1)
    /\ clauses \in Seq(ClauseNodes)
    /\ branches \in Seq([clauses : Seq(ClauseNodes), span : Span])
    /\ operators \in Seq([kind : {"Default", "All", "Distinct"}, span : Span])
    /\ branchStart \in Nat \cup {None}
    /\ skipped \in Nat \cup {None}
    /\ retained \in BOOLEAN /\ returned \in BOOLEAN
    /\ attempts \in 0..Budget
    /\ scanned \in 1..(Size + 1)
    /\ parsed \in [end : 1..(Size + 1), repaired : BOOLEAN] \cup {NoClause}
    /\ failed \subseteq Boundaries
    /\ insertions \in 0..MaxInsertions

(* Recovery loses no token and claims none twice: each token before the    *)
(* cursor belongs to exactly one clause, UNION operator or error region.   *)
TokensPartitioned ==
    \A i \in 1..Size : Cardinality(Owners(i)) = IF i < cursor THEN 1 ELSE 0

(* The tree follows the source: clauses lie in order inside their branch,  *)
(* operators between the branches they join, one operator per join.        *)
SourceOrder ==
    /\ Len(operators) = Len(branches) - IF Kept # {} /\ pc = "Done" THEN 1 ELSE 0
    /\ \A b \in DOMAIN branches :
        LET span == branches[b].span
            nodes == branches[b].clauses
        IN  /\ nodes # <<>>
            /\ \A c \in DOMAIN nodes :
                /\ span.start <= nodes[c].span.start
                /\ nodes[c].span.end <= span.end
                /\ c > 1 => nodes[c - 1].span.end <= nodes[c].span.start
            /\ b \in DOMAIN operators => span.end <= operators[b].span.start
            /\ b > 1 => operators[b - 1].span.end <= span.start

(* The partial tree accounts for every token read, once and in order.      *)
TreeFollowsSource == TokensPartitioned /\ SourceOrder

(* Nothing but one error region may follow a RETURN in its branch: the     *)
(* partial tree never has a clause after the projection that ends a query. *)
ReturnClosesBranch ==
    \A b \in DOMAIN Parts : \A c \in DOMAIN Parts[b] :
        Parts[b][c].kind = "Return" =>
            \A d \in (c + 1)..Len(Parts[b]) :
                d = c + 1 /\ Parts[b][d].kind = "Error"

(* Consecutive skipped tokens form one error clause, and an error clause   *)
(* covers no token only where it stands for a missing branch.              *)
ErrorRegionsMaximal ==
    \A b \in DOMAIN Parts : \A c \in DOMAIN Parts[b] :
        Parts[b][c].kind = "Error" =>
            /\ c > 1 => Parts[b][c - 1].kind # "Error"
            /\ Parts[b][c].span.start = Parts[b][c].span.end => Len(Parts[b]) = 1

(* Of the candidates the budget let it try, the longest valid clause is    *)
(* kept, and a repaired clause only where no candidate was valid: "a valid *)
(* clause always wins over a repaired one".                                *)
LongestValidClauseWins ==
    pc = "Settle" =>
        LET valid == {end \in After(Boundaries) : end <= scanned /\ verdict[end]}
        IN  IF valid # {} THEN parsed = [end |-> Max(valid), repaired |-> FALSE]
            ELSE parsed = NoClause \/ parsed.repaired

(* A top-level UNION outside a name position is an operator, or is part of *)
(* a clause that parsed with it; it ends up in an error region only when   *)
(* the budget is spent.                                                    *)
UnionsKept ==
    \A i \in UnionIndices : \A b \in DOMAIN Parts : \A c \in DOMAIN Parts[b] :
        (Parts[b][c].kind = "Error" /\ Covers(Parts[b][c].span, i)) => attempts = 0

LastNode == LET nodes == branches[Len(branches)].clauses IN nodes[Len(nodes)]

(* "Exhaustion preserves the suffix as one error region": from the moment  *)
(* the head of the loop is reached with the budget spent to the end of the *)
(* call, no clause, parsed or repaired, and no operator is added to the    *)
(* tree, and the last node of the result is an error that holds every      *)
(* token then unread.                                                      *)
ExhaustedSuffix ==
    spent.cursor # None =>
        /\ Kept = spent.kept /\ operators = spent.operators
        /\ outcome.kind = "Recovered" =>
            \A i \in spent.cursor..Size : LastNode.kind = "Error" /\ Covers(LastNode.span, i)

(* The result holds all that was kept: recovery falls back to a            *)
(* whole-input error only with nothing kept, and pairing operators with    *)
(* branches drops neither.                                                 *)
ResultComplete ==
    /\ outcome.kind = "Fallback" => Kept = {}
    /\ outcome.kind = "Recovered" =>
        <<outcome.query.head>> \o
            [i \in DOMAIN outcome.query.unions |-> outcome.query.unions[i].query] = branches

(* What was recognised is not lost again: UNIONs are not swallowed by error *)
(* regions and the assembled query holds every branch.                      *)
NothingKeptIsLost == UnionsKept /\ ResultComplete

(* Every call of recover_clauses returns.                                  *)
Terminates == <>(pc = "Done")

(* src/lib.rs lists expression-level recovery as out of scope: "malformed  *)
(* expressions are not locally repaired".                                  *)
ExpressionsNotRepaired == \A node \in Nodes : ~node.repaired

-----------------------------------------------------------------------------
(* Refinement: the role a token has is read off the tree.                  *)

RoleOf(i) ==
    IF \E o \in DOMAIN operators : Covers(operators[o].span, i) THEN "Operator"
    ELSE IF \E node \in Kept : Covers(node.span, i) THEN "Clause"
    ELSE IF i >= cursor THEN "Unread"
    ELSE IF Owners(i) # {} THEN "Error"
    ELSE "Lost"

Partition == INSTANCE TokenPartition WITH
    role     <- [i \in 1..Size |-> RoleOf(i)],
    closed   <- returned,
    finished <- (pc = "Done")

(* recover_clauses implements TokenPartition: its loop only ever gives the *)
(* next run of tokens a role, and closing an error region, a branch or the *)
(* whole query changes the role of no token already read.                  *)
ImplementsPartition == Partition!Spec

=============================================================================
