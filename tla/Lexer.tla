-------------------------------- MODULE Lexer --------------------------------
(***************************************************************************)
(* lex of src/lexer.rs: a text is cut into tokens from left to right, with *)
(* trivia and invalid regions as tokens of their own, and each invalid     *)
(* region is reported.  The quoted tokens and block comments are scanned   *)
(* by hand (consume_quoted, lex_block_comment); the rest is a generated    *)
(* lexer, of which runs of letters and spaces and line comments are kept.  *)
(* decode_delimited of src/parser.rs reads quoted tokens a second time,    *)
(* and the grammar has fragments of the text lexed again.                  *)
(*                                                                         *)
(* A text is a sequence of character classes.                              *)
(***************************************************************************)
EXTENDS Integers, Sequences, FiniteSetsExt

CONSTANTS
    Texts,   \* the inputs
    Digits   \* how many hexadecimal digits an escape \u takes

Delimiters == {"Quote", "DoubleQuote", "Tick"}

\* Surrogate: a digit that, coming first, makes the escape no character.
HexDigits == {"Hex", "Surrogate"}

\* "u" starts a numeric escape, "Escape" is one of t, n, r.
Letters == {"u", "Escape", "Letter"} \cup HexDigits
Spaces == {"Space", "Newline"}
Chars == Delimiters \cup Letters \cup Spaces
            \cup {"Backslash", "Slash", "Star", "Semicolon", "Other"}

ASSUME TextsAssumption == Texts \subseteq Seq(Chars)
ASSUME DigitsAssumption == Digits \in Nat \ {0}

VARIABLES
    text,         \* the characters
    first, last,  \* the part of the text that is lexed
    position,     \* the next character
    tokens,       \* the tokens so far: [kind, first, last]
    diagnostics,  \* the tokens reported as invalid, with the reason
    outer         \* the tokens of the whole text, while a fragment is lexed again

vars == <<text, first, last, position, tokens, diagnostics, outer>>

-----------------------------------------------------------------------------
(* Quoted tokens.                                                          *)

SimpleEscapes == Delimiters \cup {"Backslash", "Escape"}

HexRun(p, to) ==
    Max({n \in 0..Digits : p + n - 1 <= to /\ \A k \in p..(p + n - 1) : text[k] \in HexDigits})

IsScalar(p) == text[p] # "Surrogate"

Unit(kind, next) == [kind |-> kind, next |-> next]

EscapeAt(p, to) ==
    LET digits == HexRun(p + 2, to)
    IN  IF text[p + 1] \in SimpleEscapes THEN Unit("Escape", p + 2)
        ELSE IF text[p + 1] # "u" THEN Unit("BadEscape", p + 2)
        ELSE IF digits = Digits /\ IsScalar(p + 2) THEN Unit("Escape", p + 2 + digits)
        ELSE Unit("BadEscape", p + 2 + digits)

\* One turn of the loop of consume_quoted, at p.
QuotedUnit(p, delimiter, to) ==
    IF text[p] = "Backslash"
    THEN IF p = to THEN Unit("Cut", p + 1) ELSE EscapeAt(p, to)
    ELSE IF text[p] # delimiter THEN Unit("Plain", p + 1)
    ELSE IF p < to /\ text[p + 1] = delimiter THEN Unit("Doubled", p + 2)
    ELSE Unit("Close", p + 1)

Token(kind, from, to) == [kind |-> kind, first |-> from, last |-> to]

Quoted(p, to) ==
    LET Scan[q \in 1..(to + 1)] ==   \* the token, as far as it follows from q on
            LET unit == QuotedUnit(q, text[p], to)
                rest == Scan[unit.next]
            IN  IF q > to THEN Token("Unterminated", p, to)
                ELSE IF unit.kind = "Close" THEN Token(text[p], p, q)
                ELSE IF unit.kind = "BadEscape" /\ rest.kind # "Unterminated"
                THEN Token("InvalidEscape", p, rest.last)
                ELSE rest
    IN  Scan[p + 1]

-----------------------------------------------------------------------------
(* Comments and the other tokens.                                          *)

At(p, to, pair) == p + 1 <= to /\ text[p] = pair[1] /\ text[p + 1] = pair[2]

StrictlyInside(p, to, pair) ==   \* faulty: a pair that ends the text is not seen
    p + 1 < to /\ text[p] = pair[1] /\ text[p + 1] = pair[2]

CommentPair(p, to, pair) == At(p, to, pair)

BlockComment(p, to) ==
    LET Scan[q \in 1..(to + 1)] ==   \* the token, by the depth at q
            [depth \in Nat \ {0} |->
                IF q >= to THEN Token("Unterminated", p, to)
                ELSE IF CommentPair(q, to, <<"Slash", "Star">>) THEN Scan[q + 2][depth + 1]
                ELSE IF ~CommentPair(q, to, <<"Star", "Slash">>) THEN Scan[q + 1][depth]
                ELSE IF depth = 1 THEN Token("BlockComment", p, q + 1)
                ELSE Scan[q + 2][depth - 1]]
    IN  Scan[p + 2][1]

\* The longest run of the given characters from p.
RunOf(p, to, chars) == Max({q \in p..to : \A k \in (p + 1)..q : text[k] \in chars})

NextToken(p, to) ==
    CASE text[p] \in Delimiters -> Quoted(p, to)
      [] At(p, to, <<"Slash", "Star">>) -> BlockComment(p, to)
      [] At(p, to, <<"Slash", "Slash">>) ->
            Token("LineComment", p, RunOf(p, to, Chars \ {"Newline"}))
      [] text[p] \in Spaces -> Token("Whitespace", p, RunOf(p, to, Spaces))
      [] text[p] \in Letters -> Token("Word", p, RunOf(p, to, Letters))
      [] text[p] \in {"Other", "Backslash"} -> Token("Invalid", p, p)
      [] OTHER -> Token(text[p], p, p)

IsError(token) == token.kind \in {"Unterminated", "InvalidEscape", "Invalid"}

KeepKind(token) == token   \* faulty: invalid regions look like tokens

Clean(token) == IF IsError(token) THEN [token EXCEPT !.kind = "Invalid"] ELSE token

-----------------------------------------------------------------------------
SkipOne(token) == token.last + 2   \* faulty: the character after a token is lost

PositionAfter(token) == token.last + 1

Init ==
    /\ text \in Texts
    /\ first = 1 /\ last = Len(text) /\ position = 1
    /\ tokens = <<>> /\ diagnostics = <<>> /\ outer = <<>>

LexToken ==
    /\ position <= last
    /\ LET token == NextToken(position, last)
       IN  /\ tokens' = Append(tokens, Clean(token))
           /\ diagnostics' = IF IsError(token) THEN Append(diagnostics, token) ELSE diagnostics
           /\ position' = PositionAfter(token)
    /\ UNCHANGED <<text, first, last, outer>>

Lexed == position > last

\* A nested fragment: the text of some tokens is lexed by itself.
LexFragment ==
    /\ Lexed /\ outer = <<>>
    /\ \E i, j \in DOMAIN tokens :
        /\ i <= j
        /\ first' = tokens[i].first /\ last' = tokens[j].last /\ position' = tokens[i].first
    /\ outer' = tokens
    /\ tokens' = <<>> /\ diagnostics' = <<>>
    /\ UNCHANGED text

Finished == Lexed /\ (outer # <<>> \/ text = <<>>) /\ UNCHANGED vars

Next == LexToken \/ LexFragment \/ Finished

Spec == Init /\ [][Next]_vars

-----------------------------------------------------------------------------
(* decode_delimited, at p in a token whose closing delimiter is after stop. *)

DecodedPlain(p, delimiter, stop) ==   \* faulty: doubled delimiters are kept
    IF text[p] # "Backslash" THEN Unit("Plain", p + 1)
    ELSE Unit("Escape", EscapeAt(p, stop).next)

DecodedUnit(p, delimiter, stop) ==
    LET digits == HexRun(p + 2, stop)
    IN  IF text[p] = delimiter /\ p < stop /\ text[p + 1] = delimiter THEN Unit("Doubled", p + 2)
        ELSE IF text[p] # "Backslash" THEN Unit("Plain", p + 1)
        ELSE IF p = stop THEN Unit("Fallback", p + 1)
        ELSE IF text[p + 1] \in SimpleEscapes THEN Unit("Escape", p + 2)
        ELSE IF text[p + 1] # "u" THEN Unit("Fallback", p + 2)
        ELSE IF digits < Digits THEN Unit("Dropped", p + 2 + digits + 1)
        ELSE IF IsScalar(p + 2) THEN Unit("Escape", p + 2 + digits)
        ELSE Unit("Dropped", p + 2 + digits)

-----------------------------------------------------------------------------
(* Properties.                                                             *)

TokenKinds ==
    Delimiters \cup {"Unterminated", "InvalidEscape", "BlockComment", "LineComment",
                     "Whitespace", "Word", "Invalid", "Slash", "Star", "Semicolon"}
Tokens == [kind : TokenKinds, first : Nat, last : Nat]

(* The scanners never leave the part of the text that is lexed, and only   *)
(* invalid tokens are reported.                                            *)
TypeOK ==
    /\ text \in Seq(Chars) /\ tokens \in Seq(Tokens) /\ outer \in Seq(Tokens)
    /\ first \in 1..(last + 1) /\ last \in 0..Len(text)
    /\ position \in first..(last + 1)
    /\ diagnostics \in Seq({t \in Tokens : IsError(t)})

(* Nothing of the text is dropped: the tokens follow one another without a *)
(* gap, trivia and invalid regions included, and the diagnostics are the   *)
(* invalid ones, one each, in the order of the source.                     *)
InvalidUpTo(k) == {i \in 1..k : tokens[i].kind = "Invalid"}
Lossless ==
    /\ \A k \in DOMAIN tokens :
        /\ tokens[k].first = IF k = 1 THEN first ELSE tokens[k - 1].last + 1
        /\ tokens[k].last \in tokens[k].first..last
    /\ position = IF tokens = <<>> THEN first ELSE tokens[Len(tokens)].last + 1
    /\ Len(diagnostics) = Cardinality(InvalidUpTo(Len(tokens)))
    /\ \A k \in InvalidUpTo(Len(tokens)) :
        Clean(diagnostics[Cardinality(InvalidUpTo(k))]) = tokens[k]

(* A fragment cut at token boundaries lexes to the tokens it had in the    *)
(* text: the spans of a nested pattern are right once its start is added.  *)
FragmentsRelexAlike ==
    (Lexed /\ outer # <<>>) =>
        \E i, j \in DOMAIN outer :
            outer[i].first = first /\ outer[j].last = last /\ tokens = SubSeq(outer, i, j)

(* Tokens stand for the text, that of a fragment as well.                  *)
LexesFaithfully == TypeOK /\ Lossless /\ FragmentsRelexAlike

(* The decoder reads an accepted literal unit by unit as the lexer did, up *)
(* to the closing delimiter, and never meets what the lexer rejects: its   *)
(* fallbacks for bad escapes lose or invent nothing.                       *)
DecoderAgrees ==
    \A k \in DOMAIN tokens :
        tokens[k].kind \in Delimiters =>
            LET stop == tokens[k].last - 1
                Agree[p \in 1..tokens[k].last] ==
                    \/ p > stop
                    \/ /\ QuotedUnit(p, tokens[k].kind, last) = DecodedUnit(p, tokens[k].kind, stop)
                       /\ Agree[DecodedUnit(p, tokens[k].kind, stop).next]
            IN  Agree[tokens[k].first + 1]

=============================================================================
