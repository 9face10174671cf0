---------------------------- MODULE TokenShaping ----------------------------
(***************************************************************************)
(* parser_tokens and nested_parser_tokens of src/parser.rs: one pass over  *)
(* the significant tokens of a query, or of a fragment of it, that merges  *)
(* the runs the LR(1) grammar cannot recognise by itself.  At each index   *)
(* the rules are tried in a fixed order and the first with an end wins; a  *)
(* token no rule merges is passed on.  A fragment is not merged again as a *)
(* whole, and a pattern comprehension may reserve one of its pipes, which  *)
(* no run that starts before it may consume.                               *)
(***************************************************************************)
EXTENDS TokenScans

CONSTANT Sources   \* the inputs: records as in Source

NoPipe == 0

Rules == <<"Parameter", "PatternComprehension", "PatternExpression",
           "RelationshipLabelExpression", "LabelPredicate", "QualifiedFunctionName">>

\* spaced: the tokens that do not start where the one before them ends.
\* nested: the input is a fragment.  boundary: index of the reserved pipe.
IsSource(src) ==
    /\ src \in [tokens : Seq(Kinds), spaced : SUBSET Nat, nested : BOOLEAN, boundary : Nat]
    /\ src.spaced \subseteq DOMAIN src.tokens
    /\ \/ src.boundary = NoPipe
       \/ src.nested /\ src.boundary \in DOMAIN src.tokens
                     /\ src.tokens[src.boundary] = "Pipe"

ASSUME SourcesAssumption == \A src \in Sources : IsSource(src)

VARIABLES
    source,   \* the input
    index,    \* the next token to shape
    result    \* what the grammar will see: runs [rule, first, last]

vars == <<source, index, result>>

tokens == source.tokens

-----------------------------------------------------------------------------
AllTokens(i) == tokens   \* faulty: the reserved pipe is in sight

\* What a forward scan from i may see.
Scan(i) ==
    IF source.boundary # NoPipe /\ i < source.boundary
    THEN SubSeq(tokens, 1, source.boundary - 1) ELSE tokens

EscapedParameterEnd(s, i) ==
    {e \in {i + 1} : s[i] = "Dollar" /\ Kind(s, e) = "EscapedIdentifier" /\ e \notin source.spaced}

Anywhere(i) == FALSE   \* faulty: a fragment is merged as a whole again

WholeFragment(i) == source.nested /\ i = 1

\* The context is read from all tokens, the end from those in sight.
End(rule, i) ==
    CASE rule = "Parameter" -> EscapedParameterEnd(Scan(i), i)
      [] rule = "PatternComprehension" ->
            IF WholeFragment(i) THEN {} ELSE PatternComprehensionEnd(Scan(i), i)
      [] rule = "PatternExpression" ->
            IF ~WholeFragment(i) /\ tokens[i] = "LeftParen" /\ IsPatternExpressionContext(tokens, i)
            THEN PatternExpressionEnd(Scan(i), i) ELSE {}
      [] rule = "RelationshipLabelExpression" ->
            IF ~WholeFragment(i) /\ IsRelationshipLabelStart(tokens, i)
            THEN RelationshipLabelEnd(Scan(i), i) ELSE {}
      [] rule = "LabelPredicate" ->
            IF ~WholeFragment(i) /\ IsLabelPredicateContext(tokens, i)
            THEN LabelPredicateEnd(Scan(i), i) ELSE {}
      [] rule = "QualifiedFunctionName" ->
            IF IsProcedureNameStart(tokens, i) THEN {} ELSE QualifiedFunctionNameEnd(Scan(i), i)

Run(rule, first, last) == [rule |-> rule, first |-> first, last |-> last]

AtEnd(end) == end         \* faulty: the last token of a run is shaped again
PastEnd(end) == end + 2   \* faulty: the token after a run is skipped

After(end) == end + 1

PlainKind(i) == IF IsExplicitSetAll(tokens, i) THEN "SetAll" ELSE tokens[i]

Init ==
    /\ source \in Sources
    /\ index = 1
    /\ result = <<>>

\* An end that is no index of the tokens would panic in significant[end].
Merge(r) ==
    /\ index <= Len(tokens)
    /\ \A earlier \in 1..(r - 1) : End(Rules[earlier], index) = {}
    /\ \E end \in index..Len(tokens) :
        /\ end \in End(Rules[r], index)
        /\ result' = Append(result, Run(Rules[r], index, end))
        /\ index' = After(end)
    /\ UNCHANGED source

PushToken ==
    /\ index <= Len(tokens)
    /\ \A r \in DOMAIN Rules : End(Rules[r], index) = {}
    /\ result' = Append(result, Run(PlainKind(index), index, index))
    /\ index' = index + 1
    /\ UNCHANGED source

ShapeToken == PushToken \/ \E r \in DOMAIN Rules : Merge(r)

Shaped == index > Len(tokens) /\ UNCHANGED vars

Next == ShapeToken \/ Shaped

Spec == Init /\ [][Next]_vars

-----------------------------------------------------------------------------
(* Properties.                                                             *)

\* What a run is to the grammar: a kind of its own, or one of its token's.
RunKinds == Kinds \cup {"SetAll"} \cup {Rules[r] : r \in DOMAIN Rules}

(* The shaper stays within the significant tokens: no scan returns an end   *)
(* that is not the index of one, so that significant[end] cannot panic.     *)
TypeOK ==
    /\ IsSource(source)
    /\ index \in 1..(Len(tokens) + 1)
    /\ result \in Seq([rule : RunKinds, first : 1..Len(tokens), last : 1..Len(tokens)])

(* The grammar sees every token once and in order: the runs written so far *)
(* follow one another from the first token to the index, none is empty and *)
(* none reaches back into the one before.                                  *)
RunsTile ==
    /\ \A k \in DOMAIN result :
        /\ result[k].first <= result[k].last
        /\ result[k].first = IF k = 1 THEN 1 ELSE result[k - 1].last + 1
    /\ index = IF result = <<>> THEN 1 ELSE result[Len(result)].last + 1

(* The pipe reserved as the separator of a pattern comprehension comes     *)
(* through as a plain Pipe, whatever label disjunction could take it.      *)
ReservedPipeSurvives ==
    \A k \in DOMAIN result :
        source.boundary \in result[k].first..result[k].last =>
            result[k] = Run("Pipe", source.boundary, source.boundary)

(* Shaping a fragment never yields the fragment itself: parsing nested     *)
(* fragments descends into ever shorter texts.                             *)
FragmentsShrink ==
    source.nested => \A k \in DOMAIN result :
        result[k].rule \in {"PatternComprehension", "PatternExpression"} =>
            result[k].last - result[k].first + 1 < Len(tokens)

Pairs == {<<"LeftParen", "RightParen">>, <<"LeftBracket", "RightBracket">>,
          <<"LeftBrace", "RightBrace">>}

\* a..b closes nothing it has not opened and opens nothing it leaves open.
Balanced(a, b) ==
    \A p \in Pairs : /\ Number(tokens, {p[1]}, a, b) = Number(tokens, {p[2]}, a, b)
                    /\ StaysOpen(tokens, p[1], p[2], a, b)

WellNested ==
    /\ Balanced(1, Len(tokens))
    /\ \A p \in Pairs, i, j \in DOMAIN tokens :
        (/\ i < j /\ tokens[i] = p[1] /\ tokens[j] = p[2]
         /\ Number(tokens, {p[1]}, i, j) = Number(tokens, {p[2]}, i, j)
         /\ StaysOpen(tokens, p[1], p[2], i + 1, j - 1)) => Balanced(i, j)

(* In a query whose delimiters are well nested, a merged run closes what   *)
(* it opens: the delimiters left to the grammar, and those in the fragment *)
(* that is parsed again, are balanced too.                                 *)
MergedRunsAreBalanced ==
    (index > Len(tokens) /\ WellNested) =>
        \A k \in DOMAIN result : Balanced(result[k].first, result[k].last)
                                    \/ result[k].first = result[k].last

(* Merged runs are whole pieces of the input, and shorter than a fragment. *)
RunsAreSound == TypeOK /\ RunsTile /\ FragmentsShrink /\ MergedRunsAreBalanced

(* A relationship label the scan merges is one its own fragment parser     *)
(* lets through: the scan and the check on the fragment, written           *)
(* separately, agree on what the old form :A|:B may look like, and without *)
(* its extra colons the run is one label expression from end to end.       *)
LegacyLabelsConsistent ==
    \A k \in DOMAIN result :
        result[k].rule = "RelationshipLabelExpression" =>
            LET run == SubSeq(tokens, result[k].first, result[k].last)
                normal == NormalizedLabel(run)
            IN  /\ LegacyLabelTokensAreConsistent(run)
                /\ LabelPredicateEnd(normal, 1) = {Len(normal)}
                /\ \A i \in 2..Len(normal) : normal[i] # "Colon"

(* The dotted name after CALL reaches the grammar token by token, however  *)
(* long it is: no part of it is taken for the name of a function.          *)
ProcedureNamesStayPlain ==
    \A call \in DOMAIN tokens, end \in DOMAIN tokens :
        (tokens[call] = "Call" /\ end > call
            /\ \A k \in (call + 1)..end :
                IF (k - call) % 2 = 1 THEN tokens[k] \in SymbolicNames ELSE tokens[k] = "Dot") =>
        \A k \in DOMAIN result :
            result[k].rule = "QualifiedFunctionName" => result[k].first \notin (call + 1)..end

InBrackets(j) ==
    \E p \in Pairs :
        /\ p[1] # "LeftParen"
        /\ \E open \in 1..(j - 1) :
            tokens[open] = p[1] /\ StaysOpen(tokens, p[1], p[2], open + 1, j - 1)

(* A relationship-type pipe, or a CASE in a property map, does not make an *)
(* expression of the patterns and node labels of a MATCH after it: what    *)
(* stands inside completed brackets and braces is no context.  (A WHERE    *)
(* inside completed parentheses is one: the scan back does not skip them.) *)
CompletedBracketsHide ==
    (/\ index > Len(tokens) /\ ~source.nested /\ Kind(tokens, 1) = "Match" /\ WellNested
     /\ \A j \in DOMAIN tokens :
            tokens[j] \in ExpressionMarkers \cup {"Set"} => InBrackets(j)) =>
        \A k \in DOMAIN result :
            result[k].rule \in {"PatternExpression", "LabelPredicate"} =>
                InBrackets(result[k].first)

(* What a run is taken for depends on the construct it stands in.          *)
ContextsRespected == ProcedureNamesStayPlain /\ CompletedBracketsHide

=============================================================================
