----------------------------- MODULE TokenScans -----------------------------
(***************************************************************************)
(* The look-ahead scanners of src/parser.rs: which runs of lexer tokens    *)
(* the grammar sees as one token.  The scanners are pure functions of the  *)
(* significant tokens s (trivia filtered out).  An Option<usize> is a set  *)
(* of at most one index; indices are those of TLA+ sequences, from 1.      *)
(***************************************************************************)
EXTENDS Integers, Sequences, FiniteSetsExt

Openers == {"LeftParen", "LeftBracket", "LeftBrace"}
Closers == {"RightParen", "RightBracket", "RightBrace"}

\* The keywords some scanner looks for; "Keyword" is any other one.
Keywords == {"Where", "Return", "With", "Unwind", "Set", "Delete", "Then",
             "Else", "When", "Case", "Match", "Create", "Merge", "Call",
             "Remove", "Exists", "Count", "Collect", "Path", "All", "Is", "As",
             "Not", "Null", "ShortestPath", "AllShortestPaths", "Keyword"}

SymbolicNames == Keywords \cup {"Identifier", "EscapedIdentifier"}

\* "Word" is a literal or an operator no scanner looks for.
Kinds == Openers \cup Closers \cup SymbolicNames \cup
    {"Dollar", "Dot", "Comma", "Colon", "Pipe", "Ampersand", "Bang", "Percent",
     "Equal", "Minus", "Less", "Greater", "LeftArrow", "RightArrow", "Star",
     "Plus", "Question", "Word", "Invalid"}

Kind(s, i) == IF i \in DOMAIN s THEN s[i] ELSE "None"

Number(s, kinds, a, b) == Cardinality({k \in a..b : s[k] \in kinds})

\* A counter that starts at a, adds the openers and saturates at zero on the
\* closers, as it stands after b.
Depth(s, open, close, a, b) ==
    Max({0} \cup {Number(s, {open}, k, b) - Number(s, {close}, k, b) : k \in a..b})

\* No closer of a..b closes what was open before a.
StaysOpen(s, open, close, a, b) ==
    \A k \in a..b : Number(s, {close}, a, k) <= Number(s, {open}, a, k)

FirstCloser(s, i, open, close) ==   \* faulty: nested pairs are not counted
    {j \in i..Len(s) : s[i] = open /\ s[j] = close /\ \A k \in i..(j - 1) : s[k] # close}

MatchingDelimiter(s, i, open, close) ==
    LET balanced(j) == Number(s, {open}, i, j) = Number(s, {close}, i, j)
    IN  {j \in i..Len(s) :
            s[i] = open /\ balanced(j) /\ \A k \in i..(j - 1) : ~balanced(k)}

-----------------------------------------------------------------------------
(* Qualified function names.                                               *)

QualifiedFunctionNameEnd(s, i) ==
    {e \in (i + 2)..Len(s) :
        /\ (e - i) % 2 = 0 /\ Kind(s, e + 1) = "LeftParen"
        /\ \A k \in i..e : IF (k - i) % 2 = 0 THEN s[k] \in SymbolicNames
                                              ELSE s[k] = "Dot"}

FollowsCall(s, i) ==   \* faulty: only the first component is exempt
    Kind(s, i - 1) = "Call"

\* The name i belongs to started right after CALL; walking back over a dotted name
\* ends there, CALL being no dot.
IsProcedureNameStart(s, i) ==
    \E first \in 2..i :
        /\ (i - first) % 2 = 0 /\ s[first - 1] = "Call"
        /\ \A k \in first..(i - 1) : IF (k - first) % 2 = 0 THEN s[k] \in SymbolicNames
                                                          ELSE s[k] = "Dot"

IsExplicitSetAll(s, i) ==
    /\ s[i] = "All" /\ Kind(s, i + 1) # "LeftParen"
    /\ \/ Kind(s, i - 1) \in {"Return", "With"}
       \/ /\ Kind(s, i - 1) = "LeftParen"
          /\ Kind(s, i - 2) \in {"Identifier", "EscapedIdentifier", "Count",
                                 "Match", "Path", "Return"}

-----------------------------------------------------------------------------
(* Lexical context: whether an expression or a pattern is expected at i.   *)

EnclosingBraces(s, i) ==
    {j \in 1..(i - 1) : s[j] = "LeftBrace"
        /\ StaysOpen(s, "LeftBrace", "RightBrace", j + 1, i - 1)}

IsInsideBraces(s, i) == EnclosingBraces(s, i) # {}

\* Since the last comma of the enclosing map, a colon has been seen.
IsInMapEntryValue(s, i) ==
    /\ IsInsideBraces(s, i)
    /\ LET open == Max(EnclosingBraces(s, i))
           own(k) == \A a \in (open + 1)..(k - 1) :
               Number(s, Openers, a, k - 1) <= Number(s, Closers, a, k - 1)
           separators == {k \in (open + 1)..(i - 1) : s[k] \in {"Comma", "Colon"} /\ own(k)}
       IN  separators # {} /\ s[Max(separators)] = "Colon"

AnyMarker(s, j, i) ==   \* faulty: completed constructs are not skipped
    Kind(s, j + 1) # "Equal"

\* A marker counts unless it lies in a bracketed or braced construct that is
\* complete before i, or is the name of a binding.
Visible(s, j, i) ==
    /\ StaysOpen(s, "LeftBracket", "RightBracket", j + 1, i - 1)
    /\ StaysOpen(s, "LeftBrace", "RightBrace", j + 1, i - 1)
    /\ Kind(s, j + 1) # "Equal"

ExpressionMarkers == {"Pipe", "Where", "Return", "With", "Unwind", "Delete",
                      "Then", "Else", "When", "Case"}
PatternMarkers == {"Match", "Create", "Merge", "Call", "Remove"}

\* The nearest visible marker before i announces an expression.
ExpressionExpected(s, i, expression, pattern) ==
    \E j \in 1..(i - 1) :
        /\ s[j] \in expression /\ Visible(s, j, i)
        /\ ~\E k \in (j + 1)..(i - 1) : s[k] \in pattern /\ Visible(s, k, i)

IsPatternExpressionContext(s, i) ==
    /\ ~(Kind(s, i - 1) = "LeftParen"
            /\ Kind(s, i - 2) \in {"ShortestPath", "AllShortestPaths"})
    /\ ~(Kind(s, i - 1) = "LeftBrace" /\ Kind(s, i - 2) \in {"Exists", "Count", "Collect"})
    /\ \/ IsInMapEntryValue(s, i)
       \/ ExpressionExpected(s, i, ExpressionMarkers \cup {"Set"}, PatternMarkers)

IsLabelPredicateContext(s, i) ==
    LET isKey == s[i] = "Colon" /\ Kind(s, i - 1) \in SymbolicNames
    IN  /\ s[i] \in {"Colon", "Is"}
        /\ ~(s[i] = "Is" /\ Kind(s, i + 1) = "As" /\ Kind(s, i + 2) \in SymbolicNames)
        /\ ~(isKey /\ Kind(s, i - 2) = "LeftBrace")
        /\ \/ IsInMapEntryValue(s, i)
           \/ /\ ~(isKey /\ Kind(s, i - 2) = "Comma" /\ IsInsideBraces(s, i))
              /\ ExpressionExpected(s, i, ExpressionMarkers, PatternMarkers \cup {"Set"})

-----------------------------------------------------------------------------
(* Labels.  What End holds at i is where an expression that starts at i is  *)
(* over: a whole one, and one of its alternatives.                          *)

LabelEnd(s) ==
    LET End[i \in 1..(Len(s) + 1)] ==
        LET c == IF Kind(s, i) = "Bang" THEN i + 1 ELSE i
            primary == IF Kind(s, c) \in SymbolicNames \cup {"Percent"} THEN {c + 1}
                       ELSE IF Kind(s, c) = "LeftParen"
                       THEN {e + 1 : e \in {e \in End[c + 1].or : Kind(s, e) = "RightParen"}}
                       ELSE {}
            and == UNION {IF Kind(s, e) \in {"Ampersand", "Colon"} THEN End[e + 1].and ELSE {e}
                          : e \in primary}
            or == UNION {IF Kind(s, e) # "Pipe" THEN {e}
                         ELSE End[IF Kind(s, e + 1) = "Colon" THEN e + 2 ELSE e + 1].or
                         : e \in and}
        IN  [or |-> or, and |-> and]
    IN  End

IsNullTest(s, i) ==
    /\ s[i] = "Is"
    /\ \/ Kind(s, i + 1) = "Null" /\ Kind(s, i + 2) \notin {"Pipe", "Ampersand"}
       \/ Kind(s, i + 1) = "Not" /\ Kind(s, i + 2) = "Null"

LabelPredicateEnd(s, i) ==
    {e - 1 : e \in IF Kind(s, i) \notin {"Colon", "Is"} \/ IsNullTest(s, i) THEN {}
                   ELSE LabelEnd(s)[i + 1].or}

IsRelationshipLabelStart(s, i) ==
    /\ s[i] = "Colon"
    /\ \/ Kind(s, i - 1) = "LeftBracket"
       \/ Kind(s, i - 1) \in SymbolicNames /\ Kind(s, i - 2) = "LeftBracket"

\* The old form A|:B|:C may not be mixed with label operators.
RelationshipLabelEnd(s, i) ==
    {e \in LabelPredicateEnd(s, i) :
        \/ \A k \in (i + 1)..e : s[k] # "Colon"
        \/ /\ (e - i) % 3 = 1
           /\ \A k \in (i + 1)..e :
                CASE (k - i) % 3 = 1 -> s[k] \in SymbolicNames
                  [] (k - i) % 3 = 2 -> s[k] = "Pipe"
                  [] (k - i) % 3 = 0 -> s[k] = "Colon"}

\* The check the fragment parser makes of such a run, colon first.
LegacyLabelTokensAreConsistent(s) ==
    \/ \A k \in 2..Len(s) : s[k] # "Colon"
    \/ /\ Kind(s, 1) = "Colon" /\ Kind(s, 2) \in SymbolicNames
       /\ LET step == IF Kind(s, 3) = "Pipe" THEN <<"Pipe", "Colon", "Name">>
                                            ELSE <<"Colon", "Name">>
          IN  /\ (Len(s) - 2) % Len(step) = 0
              /\ \A k \in 3..Len(s) :
                    LET wanted == step[1 + ((k - 3) % Len(step))]
                    IN  IF wanted = "Name" THEN s[k] \in SymbolicNames ELSE s[k] = wanted

\* The run as its parser gets it: without the colons of the old form.
NormalizedLabel(s) ==
    LET kept == {k \in DOMAIN s : ~(k > 1 /\ s[k] = "Colon" /\ s[k - 1] = "Pipe")}
    IN  [n \in 1..Cardinality(kept) |->
            LET k == CHOOSE k \in kept : Cardinality({j \in kept : j <= k}) = n
            IN  IF k > 1 /\ s[k] \in Keywords THEN "Identifier" ELSE s[k]]

-----------------------------------------------------------------------------
(* Patterns.                                                               *)

\* Index after the relationship that starts at i.
RelationshipSyntaxEnd(s, i) ==
    LET head == IF Kind(s, i) \in {"Minus", "LeftArrow"} THEN {i + 1}
                ELSE IF Kind(s, i) = "Less" /\ Kind(s, i + 1) = "Minus" THEN {i + 2}
                ELSE {}
        detail == {c \in head : Kind(s, c) # "LeftBracket"} \cup
                  {e + 1 : e \in UNION {MatchingDelimiter(s, c, "LeftBracket", "RightBracket")
                                        : c \in head \cap DOMAIN s}}
    IN  {c + 2 : c \in {c \in detail : Kind(s, c) = "Minus" /\ Kind(s, c + 1) = "Greater"}}
        \cup
        {c + 1 : c \in {c \in detail : \/ Kind(s, c) = "RightArrow"
                                       \/ Kind(s, c) = "Minus" /\ Kind(s, c + 1) # "Greater"}}

AfterQuantifier(s, i) ==
    IF Kind(s, i) \in {"Star", "Plus", "Question"} THEN {i + 1}
    ELSE IF Kind(s, i) = "LeftBrace"
    THEN {e + 1 : e \in MatchingDelimiter(s, i, "LeftBrace", "RightBrace")}
    ELSE {i}

NodeEnd(s, i) ==
    IF Kind(s, i) = "LeftParen" THEN MatchingDelimiter(s, i, "LeftParen", "RightParen") ELSE {}

\* Index after the relationship that follows a node which ends at e.
HopEnd(s, e) == UNION {AfterQuantifier(s, r) : r \in RelationshipSyntaxEnd(s, e + 1)}

\* The end of the node after that relationship.
NextNode(s, e) == UNION {NodeEnd(s, n) : n \in HopEnd(s, e)}

\* A path stops at a node that no relationship with a node after it follows.
IsLastNode(s, e) ==
    \/ RelationshipSyntaxEnd(s, e + 1) = {}
    \/ \E n \in HopEnd(s, e) : Kind(s, n) # "LeftParen"

\* From node to node as far as they reach; a node or a quantifier that is not
\* closed refuses the whole pattern.
PathEnd(s) ==
    LET Reach[e \in DOMAIN s] ==
            {x \in {e} : IsLastNode(s, x)} \cup UNION {Reach[m] : m \in NextNode(s, e)}
    IN  Reach

PatternExpressionEnd(s, i) == UNION {PathEnd(s)[first] \ {first} : first \in NodeEnd(s, i)}

AtTop(s, i, j) ==
    /\ Depth(s, "LeftBracket", "RightBracket", i, j - 1) = 1
    /\ Depth(s, "LeftParen", "RightParen", i, j - 1) = 0
    /\ Depth(s, "LeftBrace", "RightBrace", i, j - 1) = 0

\* [ pattern WHERE predicate | projection ]: a bracket whose region before
\* the first WHERE or | at its top holds an arrow, or two nodes and two dashes.
PatternComprehensionEnd(s, i) ==
    LET ends == {j \in (i + 1)..Len(s) : s[j] = "RightBracket" /\ AtTop(s, i, j)}
        end == Min(ends)
        pipes == {j \in i..end : s[j] = "Pipe" /\ AtTop(s, i, j)}
        wheres == {j \in i..end : s[j] = "Where" /\ AtTop(s, i, j) /\ Kind(s, j + 1) # "Equal"}
        region == {j \in (i + 1)..end : \A m \in pipes \cup wheres : j <= m}
        minuses == {j \in region : s[j] = "Minus" /\ AtTop(s, i, j)}
        nodes == {j \in region : s[j] = "LeftParen" /\ AtTop(s, i, j)
                                    /\ s[j - 1] \notin Closers \cup SymbolicNames}
        arrow == \E j \in region : s[j] \in {"LeftArrow", "RightArrow"}
                        /\ Depth(s, "LeftBracket", "RightBracket", i, j - 1) = 1
        evidence == arrow \/ (Cardinality(nodes) >= 2 /\ Cardinality(minuses) >= 2)
    IN  {j \in ends : s[i] = "LeftBracket" /\ j = end
            /\ pipes # {} /\ Max(pipes) + 1 < end /\ evidence}

=============================================================================
