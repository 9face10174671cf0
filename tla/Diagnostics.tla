----------------------------- MODULE Diagnostics -----------------------------
(***************************************************************************)
(* The diagnostics of parse_recovering and parse in src/parser.rs: lexer   *)
(* errors, the one strict parse error, what the delimiter stack finds when *)
(* something is wrong, the normalization that orders and caps the list,    *)
(* and the second sort ParseErrors::new does for the strict entry point.   *)
(*                                                                         *)
(* Offsets count tokens: trivia included they tile the source, token i     *)
(* spanning [i - 1, i).  The parser is external: it may accept, or fail at *)
(* any token, at the end of any slice, or in a fragment (a user error);    *)
(* it accepts no token the lexer refused, which no production names.       *)
(***************************************************************************)
EXTENDS Integers, SequencesExt

CONSTANTS
    Alphabet,       \* the token classes an input is drawn from
    MaxTokens,      \* bound on the length of an input
    MaxDiagnostics  \* MAX_DIAGNOSTICS

ASSUME BoundAssumption == MaxTokens \in Nat /\ MaxDiagnostics \in Nat \ {0}

Openers == {"(", "[", "{"}
Closers == {")", "]", "}"}

\* Invalid is a token the lexer refused, Trivia white space or a comment.
TokenClass == Openers \cup Closers \cup {"Invalid", "Word", "Trivia"}

ASSUME AlphabetAssumption == Alphabet \subseteq TokenClass

VARIABLES
    tokens,       \* the lexed tokens
    pc,           \* where in the entry point control is
    accepted,     \* did the strict parser build a program?
    diagnostics,  \* the list so far
    cursor,       \* next token of the delimiter scan
    stack,        \* indices of the delimiters still open
    strict        \* the list of the strict entry point's ParseErrors, if any

vars == <<tokens, pc, accepted, diagnostics, cursor, stack, strict>>

-----------------------------------------------------------------------------
\* DiagnosticCode, in declaration order, by which codes compare.
Codes == <<"InvalidToken", "UnexpectedToken", "UnexpectedEof", "ExtraToken",
           "UnclosedDelimiter", "MismatchedDelimiter", "TooManyErrors">>

CodeRank(code) == CHOOSE r \in DOMAIN Codes : Codes[r] = code

StartOf(i) == i - 1
EndOf(i) == i
SourceLength == Len(tokens)

NoLabel == 0

Diagnostic(code, start, end, label) ==
    [code |-> code, start |-> start, end |-> end, label |-> label]

AtToken(code, i, label) == Diagnostic(code, StartOf(i), EndOf(i), label)

Significant == {i \in DOMAIN tokens : tokens[i] # "Trivia"}

\* parse_diagnostic: a rejected or a surplus token, the end of a slice, or a
\* user error, the last two at an offset.
ParseDiagnostics ==
    LET At(code, offset) == Diagnostic(code, offset, offset, NoLabel)
    IN  {AtToken(code, i, NoLabel) : code \in {"UnexpectedToken", "ExtraToken"}, i \in Significant}
        \cup {At("UnexpectedToken", StartOf(i)) : i \in Significant}
        \cup {At("UnexpectedEof", offset) : offset \in {0} \cup {EndOf(i) : i \in Significant}}

Refused == {i \in DOMAIN tokens : tokens[i] = "Invalid"}

\* The numbers of a finite set, the least first.
InOrder(S) ==
    [r \in 1..Cardinality(S) |-> CHOOSE k \in S : Cardinality({j \in S : j <= k}) = r]

\* One diagnostic for each token the lexer refused, in source order.
LexerDiagnostics ==
    LET order == InOrder(Refused)
    IN  [k \in DOMAIN order |-> AtToken("InvalidToken", order[k], NoLabel)]

OpenerOf(closer) ==
    CASE closer = ")" -> "(" [] closer = "]" -> "[" [] closer = "}" -> "{"

SameKey(a, b) == a.code = b.code /\ a.start = b.start /\ a.end = b.end

\* Source order, then code; messages follow from these here.
Before(a, b) ==
    \/ a.start < b.start
    \/ a.start = b.start /\ a.end < b.end
    \/ a.start = b.start /\ a.end = b.end /\ CodeRank(a.code) < CodeRank(b.code)

\* sort_by is stable: what compares equal keeps its order.
NotAfter(list, j, k) ==
    \/ Before(list[j], list[k])
    \/ ~Before(list[k], list[j]) /\ j <= k

Place(list, k) == Cardinality({j \in DOMAIN list : NotAfter(list, j, k)})

Sorted(list) ==
    [r \in DOMAIN list |-> list[CHOOSE k \in DOMAIN list : Place(list, k) = r]]

\* dedup_by on a sorted list: drop what equals its predecessor.
Dedup(list) ==
    LET keep == {k \in DOMAIN list : k = 1 \/ ~SameKey(list[k - 1], list[k])}
        order == InOrder(keep)
    IN  [k \in DOMAIN order |-> list[order[k]]]

MarkerAtCut(list) ==   \* faulty: at the first diagnostic left out
    Diagnostic("TooManyErrors", list[MaxDiagnostics].start, list[MaxDiagnostics].start, NoLabel)

\* Stands for what is left out, at the end of the source.
Marker(list) == Diagnostic("TooManyErrors", SourceLength, SourceLength, NoLabel)

CappedAndMarked(list) ==   \* faulty: no room is made for the marker
    IF Len(list) <= MaxDiagnostics THEN list
    ELSE Append(SubSeq(list, 1, MaxDiagnostics), Marker(list))

Capped(list) ==
    IF Len(list) <= MaxDiagnostics THEN list
    ELSE Append(SubSeq(list, 1, MaxDiagnostics - 1), Marker(list))

CappedFirst(list) ==   \* faulty: capped in the order of discovery
    Sorted(Dedup(Capped(list)))

Normalized(list) == Capped(Dedup(Sorted(list)))

-----------------------------------------------------------------------------
Init ==
    /\ tokens \in UNION {[1..n -> Alphabet] : n \in 0..MaxTokens}
    /\ pc = "Lex"
    /\ accepted = FALSE
    /\ diagnostics = <<>>
    /\ cursor = 1 /\ stack = <<>>
    /\ strict = <<>>

Lex ==
    /\ pc = "Lex"
    /\ diagnostics' = LexerDiagnostics
    /\ pc' = "Parse"
    /\ UNCHANGED <<tokens, accepted, cursor, stack, strict>>

ScanAlways(program, list) == TRUE   \* faulty: accepted input is scanned too

\* Delimiters are looked at only to explain a refusal.
NeedsScan(program, list) == ~program \/ list # <<>>

ParseAccepts ==
    /\ pc = "Parse" /\ Refused = {}
    /\ accepted' = TRUE
    /\ pc' = IF NeedsScan(accepted', diagnostics) THEN "Delimiters" ELSE "Normalize"
    /\ UNCHANGED <<tokens, diagnostics, cursor, stack, strict>>

ParseFails ==
    /\ pc = "Parse"
    /\ \E d \in ParseDiagnostics : diagnostics' = Append(diagnostics, d)
    /\ pc' = IF NeedsScan(accepted, diagnostics') THEN "Delimiters" ELSE "Normalize"
    /\ UNCHANGED <<tokens, accepted, cursor, stack, strict>>

\* One token of collect_delimiter_diagnostics that opens nothing, closes nothing.
PassToken ==
    /\ pc = "Delimiters" /\ cursor <= Len(tokens)
    /\ tokens[cursor] \notin Openers \cup Closers
    /\ cursor' = cursor + 1
    /\ UNCHANGED <<tokens, pc, accepted, diagnostics, stack, strict>>

OpenDelimiter ==
    /\ pc = "Delimiters" /\ cursor <= Len(tokens)
    /\ tokens[cursor] \in Openers
    /\ stack' = Append(stack, cursor)
    /\ cursor' = cursor + 1
    /\ UNCHANGED <<tokens, pc, accepted, diagnostics, strict>>

Closes(top) == top # NoLabel /\ tokens[top] = OpenerOf(tokens[cursor])

MismatchOpen(top) ==   \* faulty: a closer with nothing open goes unnoticed
    IF Closes(top) \/ top = NoLabel THEN <<>>
    ELSE <<AtToken("MismatchedDelimiter", cursor, top)>>

\* What a closer that meets the open delimiter `top` (NoLabel: none) reports.
Mismatch(top) ==
    IF Closes(top) THEN <<>> ELSE <<AtToken("MismatchedDelimiter", cursor, top)>>

KeptOpen(top) ==   \* faulty: only a matching closer pops
    IF Closes(top) THEN Front(stack) ELSE stack

\* A mismatched closer pops too: it is taken to close what it meets.
Popped(top) == IF stack = <<>> THEN stack ELSE Front(stack)

CloseDelimiter ==
    LET top == IF stack = <<>> THEN NoLabel ELSE Last(stack)
    IN  /\ pc = "Delimiters" /\ cursor <= Len(tokens)
        /\ tokens[cursor] \in Closers
        /\ diagnostics' = diagnostics \o Mismatch(top)
        /\ stack' = Popped(top)
        /\ cursor' = cursor + 1
        /\ UNCHANGED <<tokens, pc, accepted, strict>>

Unclosed == [k \in DOMAIN stack |-> AtToken("UnclosedDelimiter", stack[k], NoLabel)]

ReportUnclosed ==
    /\ pc = "Delimiters" /\ cursor > Len(tokens)
    /\ diagnostics' = diagnostics \o Unclosed
    /\ pc' = "Normalize"
    /\ UNCHANGED <<tokens, accepted, cursor, stack, strict>>

\* The list of ParseOutcome.
Normalize ==
    /\ pc = "Normalize"
    /\ diagnostics' = Normalized(diagnostics)
    /\ pc' = "Recovered"
    /\ UNCHANGED <<tokens, accepted, cursor, stack, strict>>

\* parse: any diagnostic (all are errors) rejects, and ParseErrors::new sorts
\* again; without one the program is returned, and strict stays empty.
Strict ==
    /\ pc = "Recovered"
    /\ strict' = Sorted(diagnostics)
    /\ pc' = "Done"
    /\ UNCHANGED <<tokens, accepted, diagnostics, cursor, stack>>

Returned == pc = "Done" /\ UNCHANGED vars

Next ==
    \/ Lex \/ ParseAccepts \/ ParseFails
    \/ PassToken \/ OpenDelimiter \/ CloseDelimiter \/ ReportUnclosed
    \/ Normalize \/ Strict
    \/ Returned

Spec == Init /\ [][Next]_vars

-----------------------------------------------------------------------------
(* Properties.                                                             *)

Open == {i \in DOMAIN tokens : tokens[i] \in Openers}
Shut == {i \in DOMAIN tokens : tokens[i] \in Closers}

\* A closer for each opener: of its kind, behind it, each taken, no two pairs crossed.
Nests(closer) ==
    /\ \A c \in Shut : \E o \in Open : closer[o] = c
    /\ \A o \in Open : o < closer[o] /\ tokens[o] = OpenerOf(tokens[closer[o]])
    /\ \A o, p \in Open : o < p => closer[o] < p \/ closer[p] < closer[o]

WellNested == \E closer \in [Open -> Shut] : Nests(closer)

Reported(code) == {k \in DOMAIN diagnostics : diagnostics[k].code = code}

(* A sound input is never blamed, and an unsound one never passes: some    *)
(* delimiter is reported exactly when the delimiters do not nest.          *)
DelimitersSound ==
    pc = "Normalize" /\ ~accepted =>
        (WellNested <=> Reported("MismatchedDelimiter") \cup Reported("UnclosedDelimiter") = {})

\* i lies behind opener o and before its closer, if it has one.
Inside(closer, o, i) == o < i /\ (closer[o] # NoLabel => i < closer[o])

\* Which closer each opener meets, by position alone and whatever their kinds: all
\* between the two meet each other, and an opener meets none only if all behind it do.
Meets(closer) ==
    \A o \in Open :
        /\ closer[o] # NoLabel => o < closer[o]
        /\ \A c \in Shut : Inside(closer, o, c) => \E p \in Open : o < p /\ closer[p] = c
        /\ \A p \in Open : Inside(closer, o, p) /\ closer[o] # NoLabel =>
                                closer[p] # NoLabel /\ closer[p] < closer[o]

\* A closer at fault has an opener of another kind, or none; an opener, no closer.
OutOfPlace(closer) ==
    {AtToken("MismatchedDelimiter", closer[o], o) :
        o \in {o \in Open : closer[o] # NoLabel /\ tokens[o] # OpenerOf(tokens[closer[o]])}}
    \cup {AtToken("MismatchedDelimiter", c, NoLabel) :
        c \in {c \in Shut : \A o \in Open : closer[o] # c}}
    \cup {AtToken("UnclosedDelimiter", o, NoLabel) :
        o \in {o \in Open : closer[o] = NoLabel}}

(* Of a refused input the stack scan reports every closer that meets an    *)
(* opener of another kind or none, naming both, and every opener that      *)
(* meets no closer: each of them, and nothing else.                        *)
FaultsReported ==
    pc = "Normalize" /\ ~accepted =>
        \E closer \in [Open -> Shut \cup {NoLabel}] :
            /\ Meets(closer)
            /\ {diagnostics[k] : k \in Reported("MismatchedDelimiter") \cup Reported("UnclosedDelimiter")}
                 = OutOfPlace(closer)

\* The reports that name delimiter i, as what they are about or as its opener.
Naming(i) ==
    {k \in Reported("MismatchedDelimiter") \cup Reported("UnclosedDelimiter") :
        diagnostics[k].start = StartOf(i) \/ diagnostics[k].label = i}

(* No delimiter is reported twice: an opener taken by a mismatched closer  *)
(* is not reported as unclosed as well.                                    *)
DelimitersReportedOnce ==
    pc = "Normalize" => \A i \in DOMAIN tokens : Cardinality(Naming(i)) <= 1

(* Each delimiter that is out of place is reported, in one report, and no  *)
(* other delimiter is named; none is where the delimiters nest.            *)
DelimiterErrorsRight == DelimitersSound /\ FaultsReported /\ DelimitersReportedOnce

(* What is reported is capped, in strictly increasing source order, and    *)
(* the marker stands at its end and nowhere else, in a full list only.     *)
ReportOrderedAndCapped ==
    pc \in {"Recovered", "Done"} =>
        /\ Len(diagnostics) <= MaxDiagnostics
        /\ \A k \in 2..Len(diagnostics) : Before(diagnostics[k - 1], diagnostics[k])
        /\ \A k \in Reported("TooManyErrors") : k = Len(diagnostics) /\ k = MaxDiagnostics

(* Strict and recovering entry points report the same list: the strict     *)
(* one's second sort moves nothing, the marker least of all.               *)
StrictAgrees == pc = "Done" => strict = diagnostics

(* Normalization keeps the earliest defects: what it drops lies no earlier *)
(* than anything it keeps, the marker aside.                               *)
EarliestKept ==
    [][pc = "Normalize" =>
        \A k \in DOMAIN diagnostics :
            \/ \E j \in DOMAIN diagnostics' : SameKey(diagnostics'[j], diagnostics[k])
            \/ \A j \in 1..(Len(diagnostics') - 1) :
                    Before(diagnostics'[j], diagnostics[k])]_vars

(* parse returns errors exactly when its parser built no program: the      *)
(* delimiter scan only explains a refusal, and the cap never hides one.    *)
RefusedOnlyForCause == pc = "Done" => (strict = <<>> <=> accepted)

(* The two entry points differ in nothing but the partial tree.            *)
EntryPointsAgree == StrictAgrees /\ RefusedOnlyForCause

=============================================================================
