--------------------------- MODULE NestedFragments ---------------------------
(***************************************************************************)
(* pattern_comprehension and pattern_expression of src/parser.rs: the      *)
(* grammar hands back the text of a merged run, which is lexed, shaped and *)
(* parsed again.  A comprehension does so once for each pipe at its top,   *)
(* reserved in turn as the separator of the projection; the first split    *)
(* whose parts all parse wins, and if none does the error that got         *)
(* farthest is reported.                                                   *)
(*                                                                         *)
(* Shaping is the machine of TokenShaping, started anew for every split.   *)
(* The fragment parsers are external: each part may parse or fail anywhere *)
(* in it or at its end.                                                    *)
(***************************************************************************)
EXTENDS TokenShaping

VARIABLES
    pc,        \* "Query", "Start", "Reserve", "Shape", a part being parsed, "Ok" or "Err"
    part,      \* the parts of the split: ranges of runs
    error,     \* the error to report
    failures,  \* history: the errors of the splits tried
    splits     \* history: how many that were

fragment == <<pc, part, error, failures, splits>>

NoError == 0
Nothing == [pattern |-> <<1, 0>>, predicate |-> <<1, 0>>, projection |-> <<1, 0>>]

\* Offsets of the start and of the end of token i, in token order.
StartOf(i) == 2 * i
EndOf(i) == 2 * i + 1

IsComprehension == Kind(tokens, 1) = "LeftBracket"

-----------------------------------------------------------------------------
TopLevelPipes == {j \in DOMAIN tokens : tokens[j] = "Pipe" /\ AtTop(tokens, 1, j)}

Candidates == {j \in TopLevelPipes : j > source.boundary}

RunRules == [k \in DOMAIN result |-> result[k].rule]

FindAnywhere(needle, a, b) ==   \* faulty: nested delimiters are looked into
    {k \in a..b : RunRules[k] = needle /\ \A j \in a..(k - 1) : RunRules[j] # needle}

\* The first run of a..b, counting delimiters from a, that is the needle.
FindTopLevel(needle, a, b) ==
    LET found == {k \in a..b : RunRules[k] = needle
                    /\ Depth(RunRules, "LeftParen", "RightParen", a, k - 1) = 0
                    /\ Depth(RunRules, "LeftBracket", "RightBracket", a, k - 1) = 0
                    /\ Depth(RunRules, "LeftBrace", "RightBrace", a, k - 1) = 0}
    IN  {k \in found : \A j \in found : k <= j}

OuterBracketsFound ==
    result # <<>> /\ RunRules[1] = "LeftBracket" /\ RunRules[Len(result)] = "RightBracket"

Separator == FindTopLevel("Pipe", 2, Len(result) - 1)

HasBinding(pipe) ==
    3 < pipe /\ RunRules[3] = "Equal" /\ RunRules[2] \in SymbolicNames

\* Where the pattern starts, the top-level WHERE after it, and where it ends.
PatternStart(pipe) == IF HasBinding(pipe) THEN 4 ELSE 2
WhereAt(pipe) == FindTopLevel("Where", PatternStart(pipe), pipe - 1)
PatternEnd(pipe) == IF WhereAt(pipe) = {} THEN pipe ELSE Min(WhereAt(pipe))

SplitWithBracket(pipe) ==   \* faulty: the closing bracket joins the projection
    [pattern |-> <<PatternStart(pipe), PatternEnd(pipe) - 1>>,
     predicate |-> <<PatternEnd(pipe) + 1, pipe - 1>>, projection |-> <<pipe + 1, Len(result)>>]

SplitAt(pipe) ==
    [pattern |-> <<PatternStart(pipe), PatternEnd(pipe) - 1>>,
     predicate |-> <<PatternEnd(pipe) + 1, pipe - 1>>,
     projection |-> <<pipe + 1, Len(result) - 1>>]

LastError(location) == location   \* faulty: later errors displace earlier ones

\* Of errors as far as each other the later one is kept.
Farthest(location) == IF location >= error THEN location ELSE error

FailAt(location) ==
    /\ failures' = failures \cup {location} /\ splits' = splits + 1
    /\ error' = Farthest(location)
    /\ pc' = IF IsComprehension THEN "Reserve" ELSE "Err"

-----------------------------------------------------------------------------
\* The text of a run that the shaping merged.
IsFragment ==
    /\ source.nested /\ source.boundary = NoPipe
    /\ Len(tokens) \in PatternComprehensionEnd(tokens, 1) \cup PatternExpressionEnd(tokens, 1)

\* Any input is shaped; a fragment is split and parsed as well.
FragmentInit ==
    /\ Init
    /\ pc \in {"Query"} \cup {s \in {"Start"} : IsFragment}
    /\ part = Nothing /\ error = NoError /\ failures = {} /\ splits = 0

\* The lexer is run on the fragment; any diagnostic refuses it.
Lex ==
    /\ pc = "Start"
    /\ IF \E i \in DOMAIN tokens : tokens[i] = "Invalid"
       THEN pc' = "Err" /\ error' = StartOf(1)
       ELSE pc' = (IF IsComprehension THEN "Reserve" ELSE "Shape") /\ UNCHANGED error
    /\ UNCHANGED <<vars, part, failures, splits>>

Reserve ==
    /\ pc = "Reserve" /\ Candidates # {}
    /\ source' = [source EXCEPT !.boundary = Min(Candidates)]
    /\ index' = 1 /\ result' = <<>>
    /\ pc' = "Shape" /\ part' = Nothing
    /\ UNCHANGED <<error, failures, splits>>

GiveUp ==
    /\ pc = "Reserve" /\ Candidates = {}
    /\ pc' = "Err"
    /\ error' = IF error = NoError THEN StartOf(1) ELSE error
    /\ UNCHANGED <<vars, part, failures, splits>>

Shape ==
    /\ pc \in {"Query", "Shape"}
    /\ ShapeToken
    /\ UNCHANGED fragment

WholePattern ==
    /\ pc = "Shape" /\ index > Len(tokens) /\ ~IsComprehension
    /\ part' = [Nothing EXCEPT !.pattern = <<1, Len(result)>>]
    /\ pc' = "pattern"
    /\ UNCHANGED <<vars, error, failures, splits>>

\* What is wrong with the split, by the checks made before anything is parsed.
SplitErrors ==
    IF ~OuterBracketsFound \/ Separator = {} THEN {StartOf(1)}
    ELSE UNION {IF PatternStart(pipe) >= PatternEnd(pipe)
                THEN {StartOf(result[PatternEnd(pipe)].first)}
                ELSE IF pipe + 1 >= Len(result) THEN {StartOf(result[Len(result)].first)}
                ELSE {} : pipe \in Separator}

Split ==
    /\ pc = "Shape" /\ index > Len(tokens) /\ IsComprehension
    /\ SplitErrors = {}
    /\ \E pipe \in Separator : part' = SplitAt(pipe)
    /\ pc' = "pattern"
    /\ UNCHANGED <<vars, error, failures, splits>>

Unsplit ==
    /\ pc = "Shape" /\ index > Len(tokens) /\ IsComprehension
    /\ \E location \in SplitErrors : FailAt(location)
    /\ UNCHANGED <<vars, part>>

IsEmpty(p) == part[p][1] > part[p][2]

\* A WHERE with nothing after it fails at the pipe, once the pattern parsed.
HasEmptyWhere == IsComprehension /\ part.predicate[1] = part.projection[1] - 1

Parsed(p) ==
    pc' = CASE p = "pattern" /\ IsComprehension /\ ~IsEmpty("predicate") -> "predicate"
            [] p = "projection" \/ ~IsComprehension -> "Ok"
            [] OTHER -> "projection"

ParsePart(p) ==
    /\ pc = p
    /\ \/ /\ ~(p = "pattern" /\ HasEmptyWhere) /\ Parsed(p) /\ UNCHANGED <<error, failures, splits>>
       \/ p = "pattern" /\ HasEmptyWhere /\ FailAt(StartOf(result[part.predicate[1]].first))
       \/ \E k \in part[p][1]..part[p][2] : FailAt(StartOf(result[k].first))
       \/ FailAt(EndOf(result[part[p][2]].last))
    /\ UNCHANGED <<vars, part>>

Answered == pc \in {"Ok", "Err"} /\ UNCHANGED <<vars, fragment>>

ShapedQuery == pc = "Query" /\ Shaped /\ UNCHANGED fragment

FragmentNext ==
    \/ Lex \/ Reserve \/ GiveUp
    \/ Shape \/ WholePattern \/ Split \/ Unsplit
    \/ \E p \in {"pattern", "predicate", "projection"} : ParsePart(p)
    \/ Answered \/ ShapedQuery

FragmentSpec == FragmentInit /\ [][FragmentNext]_<<vars, fragment>>

-----------------------------------------------------------------------------
(* Properties.                                                             *)

(* Parts of a split are ranges of the shaped tokens without the closing    *)
(* bracket, and the error lies in the fragment.                            *)
FragmentTypeOK ==
    /\ IsSource(source) /\ index \in 1..(Len(tokens) + 1)
    /\ pc \in {"Query", "Start", "Reserve", "Shape", "pattern", "predicate", "projection", "Ok", "Err"}
    /\ part # Nothing => \A p \in DOMAIN part :
        /\ part[p][1] \in 1..Len(result) + 1
        /\ part[p][2] \in 0..(IF IsComprehension THEN Len(result) - 1 ELSE Len(result))
    /\ error \in 0..EndOf(Len(tokens))

(* When no split parses, all of them have been tried and the error that is *)
(* reported is the farthest of theirs; it lies in the fragment.            *)
ReportsFarthestSplit ==
    (pc = "Err" /\ failures # {}) =>
        /\ error = Max(failures)
        /\ IsComprehension => splits = Cardinality(TopLevelPipes)

(* In well-nested input the shaping never hides the outer brackets or the  *)
(* pipes: every split finds a separator at the top of the tokens as they   *)
(* were lexed, at the reserved pipe or before it.  (In [->|(][)->|x] it    *)
(* does: the rest from the second bracket on is merged into one run, and   *)
(* the fragment is refused at its start.)                                  *)
SeparatorStandsAtTop ==
    (pc = "Shape" /\ index > Len(tokens) /\ IsComprehension /\ WellNested) =>
        /\ OuterBracketsFound
        /\ \E pipe \in Separator :
            result[pipe].first \in TopLevelPipes /\ result[pipe].first <= source.boundary

(* The parts of a split are all of the fragment but its brackets, binding, *)
(* WHERE and separator, in this order, and in well-nested input each part  *)
(* closes what it opens: no parser is handed half a group.                 *)
PartsCoverFragment ==
    (pc = "pattern" /\ IsComprehension) =>
        /\ part.pattern[1] = 2 \/ (part.pattern[1] = 4 /\ RunRules[3] = "Equal")
        /\ RunRules[part.projection[1] - 1] = "Pipe"
        /\ \/ part.pattern[2] + 1 = part.projection[1] - 1
           \/ /\ RunRules[part.pattern[2] + 1] = "Where"
              /\ part.predicate = <<part.pattern[2] + 2, part.projection[1] - 2>>
        /\ \A p \in DOMAIN part :
            (WellNested /\ ~IsEmpty(p)) =>
                Balanced(result[part[p][1]].first, result[part[p][2]].last)

(* What is parsed of a comprehension is what it is made of.                 *)
SplitsAreSound == FragmentTypeOK /\ SeparatorStandsAtTop /\ PartsCoverFragment

=============================================================================
