----------------------------- MODULE ScriptSplit -----------------------------
(***************************************************************************)
(* split_cypher_script of xtask/src/tck.rs: the maintenance tool cuts the  *)
(* scripts of the TCK's named graphs into statements at the semicolons,    *)
(* with a scanner of quotes and comments of its own.  It runs here over a  *)
(* text the library's lexer has already cut into tokens, so that the two   *)
(* can be compared.  Line ends are normalized before, by the code as here. *)
(***************************************************************************)
EXTENDS Lexer

VARIABLES
    state,       \* "Normal", a delimiter, "LineComment" or "BlockComment"
    depth,       \* of nested block comments
    index,       \* the next character
    start,       \* where the statement being read starts
    startLine,   \* the line recorded for it
    line,        \* line ends seen so far, plus one
    statements,  \* the statements: [line, first, last]
    outcome      \* "Running", "Ok" or "Err"

splitVars == <<state, depth, index, start, startLine, line, statements, outcome>>

Next2 == IF index < Len(text) THEN text[index + 1] ELSE "None"

AdvanceUnquoted(n) ==   \* faulty: line ends in quotes and comments do not count
    /\ index' = index + n
    /\ line' = IF state = "Normal" /\ text[index] = "Newline" THEN line + 1 ELSE line

\* Moving over n characters counts the line end at index and no other.
Advance(n) ==
    /\ index' = index + n
    /\ line' = IF n = 1 /\ text[index] = "Newline" THEN line + 1 ELSE line

IsBlank(from, to) == \A k \in from..to : text[k] \in Spaces

Trimmed(from, to) ==
    IF IsBlank(from, to) THEN <<>> ELSE <<[line |-> startLine, first |-> from, last |-> to]>>

Reading(s) == outcome = "Running" /\ Lexed /\ outer = <<>> /\ index <= Len(text) /\ state = s

Enter(s) == state' = s
Still == UNCHANGED <<depth, start, startLine, statements, outcome>>

-----------------------------------------------------------------------------
SplitInit ==
    /\ Init
    /\ state = "Normal" /\ depth = 0
    /\ index = 1 /\ start = 1
    /\ startLine = 1 /\ line = 1
    /\ statements = <<>> /\ outcome = "Running"

\* The library's lexer runs first; a fragment is lexed again instead of a split.
Lex == LexToken /\ UNCHANGED splitVars

LexAgain == outcome = "Running" /\ index = 1 /\ LexFragment /\ UNCHANGED splitVars

StartComment ==
    /\ Reading("Normal") /\ text[index] = "Slash"
    /\ \/ Next2 = "Slash" /\ Enter("LineComment") /\ UNCHANGED depth
       \/ Next2 = "Star" /\ Enter("BlockComment") /\ depth' = 1
    /\ Advance(2)
    /\ UNCHANGED <<vars, start, startLine, statements, outcome>>

StartQuote ==
    /\ Reading("Normal") /\ text[index] \in Delimiters
    /\ Enter(text[index]) /\ Advance(1)
    /\ Still /\ UNCHANGED vars

Cut ==
    /\ Reading("Normal") /\ text[index] = "Semicolon"
    /\ statements' = statements \o Trimmed(start, index - 1)
    /\ start' = index + 1 /\ startLine' = line
    /\ Advance(1)
    /\ UNCHANGED <<vars, state, depth, outcome>>

Pass ==
    /\ Reading("Normal") /\ text[index] \notin Delimiters \cup {"Semicolon"}
    /\ ~(text[index] = "Slash" /\ Next2 \in {"Slash", "Star"})
    /\ Advance(1) /\ Still /\ UNCHANGED <<vars, state>>

AlwaysTwo == 2   \* faulty: a backslash that ends the text takes one more

EscapeWidth == IF Next2 = "None" THEN 1 ELSE 2

\* A backslash takes the next character with it, unless it is the last one.
InString(delimiter) ==
    /\ Reading(delimiter)
    /\ IF text[index] = "Backslash"
       THEN /\ index' = index + EscapeWidth
            /\ UNCHANGED <<line, state>>
       ELSE Advance(1) /\ state' = IF text[index] = delimiter THEN "Normal" ELSE state
    /\ Still /\ UNCHANGED vars

DoubledTick == text[index] = "Tick" /\ Next2 = "Tick"

InBacktick ==
    /\ Reading("Tick")
    /\ IF DoubledTick THEN Advance(2) /\ UNCHANGED state
       ELSE Advance(1) /\ state' = IF text[index] = "Tick" THEN "Normal" ELSE state
    /\ Still /\ UNCHANGED vars

InLineComment ==
    /\ Reading("LineComment")
    /\ Advance(1) /\ state' = IF text[index] = "Newline" THEN "Normal" ELSE state
    /\ Still /\ UNCHANGED vars

Flat == 1   \* faulty: comments do not nest

Deeper == depth + 1

InBlockComment ==
    /\ Reading("BlockComment")
    /\ CASE text[index] = "Slash" /\ Next2 = "Star" ->
                Advance(2) /\ depth' = Deeper /\ UNCHANGED state
         [] text[index] = "Star" /\ Next2 = "Slash" ->
                Advance(2) /\ depth' = depth - 1
                /\ state' = IF depth = 1 THEN "Normal" ELSE state
         [] OTHER -> Advance(1) /\ UNCHANGED <<depth, state>>
    /\ UNCHANGED <<vars, start, startLine, statements, outcome>>

Finish ==
    /\ outcome = "Running" /\ Lexed /\ outer = <<>> /\ index > Len(text)
    /\ IF state \in {"Normal", "LineComment"}
       THEN outcome' = "Ok" /\ statements' = statements \o Trimmed(start, Len(text))
       ELSE outcome' = "Err" /\ UNCHANGED statements
    /\ UNCHANGED <<vars, state, depth, index, start, startLine, line>>

Split == outcome # "Running" /\ UNCHANGED <<vars, splitVars>>

LexedAgain == outer # <<>> /\ Finished /\ UNCHANGED splitVars

SplitNext ==
    \/ Lex \/ LexAgain \/ LexedAgain
    \/ StartComment \/ StartQuote \/ Cut \/ Pass
    \/ InString("Quote") \/ InString("DoubleQuote") \/ InBacktick
    \/ InLineComment \/ InBlockComment
    \/ Finish \/ Split

SplitSpec == SplitInit /\ [][SplitNext]_<<vars, splitVars>>

-----------------------------------------------------------------------------
(* Properties.                                                             *)

(* The scan never steps past the end of the script, the depth counts open  *)
(* comments only, and no statement starts ahead of the index.              *)
SplitTypeOK ==
    /\ state \in {"Normal", "LineComment", "BlockComment"} \cup Delimiters
    /\ depth \in 0..Len(text) /\ (state = "BlockComment" <=> depth > 0)
    /\ start \in 1..index /\ index \in 1..(Len(text) + 1)
    /\ startLine \in 1..line

SemicolonTokens == {tokens[k].first : k \in {k \in DOMAIN tokens : tokens[k].kind = "Semicolon"}}

\* The tokens between two semicolons, as the statements of the script.
Pieces ==
    {[first |-> a + 1, last |-> b - 1] :
        a \in {0} \cup SemicolonTokens, b \in SemicolonTokens \cup {Len(text) + 1}}

AgreesWithLexer ==
    /\ (outcome = "Err") = (\E k \in DOMAIN diagnostics : diagnostics[k].kind = "Unterminated")
    /\ outcome = "Ok" =>
        {[first |-> statements[k].first, last |-> statements[k].last] : k \in DOMAIN statements}
        = {piece \in Pieces :
            ~IsBlank(piece.first, piece.last) /\ piece.first..piece.last \cap SemicolonTokens = {}}

\* No backtick name has a backslash in it: the lexer reads escapes there.
NamesUnescaped ==
    \A k \in DOMAIN tokens : text[tokens[k].first] = "Tick" =>
        \A p \in tokens[k].first..tokens[k].last : text[p] # "Backslash"

(* In a script without a backslash in a backtick name, the splitter cuts   *)
(* at the lexer's semicolon tokens and nowhere else, and refuses what the  *)
(* lexer finds unterminated: what is parsed later are whole statements.    *)
SplitsAtSemicolonTokens ==
    (outcome # "Running" /\ NamesUnescaped) => AgreesWithLexer

(* The line recorded for a statement is the one its cut was made on, in    *)
(* any such script the lexer accepts.                                      *)
LinesCounted ==
    (outcome # "Running" /\ NamesUnescaped /\ diagnostics = <<>>) =>
        \A k \in DOMAIN statements :
            statements[k].line =
                1 + Cardinality({n \in 1..(statements[k].first - 1) : text[n] = "Newline"})

(* What is cut out of a script are its statements, each with its line.     *)
StatementsAsLexed == SplitTypeOK /\ SplitsAtSemicolonTokens /\ LinesCounted

=============================================================================
