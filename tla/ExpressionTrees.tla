--------------------------- MODULE ExpressionTrees ---------------------------
(***************************************************************************)
(* The expression trees that the grammar's actions build: the levels of    *)
(* operators (grammar/cypher.lalrpop), the left folds over their tails     *)
(* (fold_binary, fold_comparison and fold_postfix in src/parser.rs), and   *)
(* the decision whether brackets hold a list or a list comprehension       *)
(* (split_comprehension_source).                                           *)
(*                                                                         *)
(* The parser keeps a stack.  Here it is cut into frames, one for each     *)
(* construct that is open, with its tokens and its finished operands; a    *)
(* rule that only passes an operand on to a looser level takes no step.    *)
(* The sentence is refused where no step is possible.                      *)
(*                                                                         *)
(* Offsets count tokens: a span is its first and its last token.  A node   *)
(* keeps, as history, the tokens of its own, which the program drops in    *)
(* part, and all those read for it.                                        *)
(***************************************************************************)
EXTENDS Integers, Sequences

CONSTANT Sentences     \* the token sequences to parse

Terminals ==
    {"v", "OR", "XOR", "AND", "NOT", "=", "<", "IN", "IS", "NULL", "||", "+", "-", "*", "^",
     ".", "..", "[", "]", "(", ")", ",", "|", "WHERE"}

ASSUME SentencesAssumption == Sentences \subseteq Seq(Terminals)

VARIABLES
    sentence,   \* the tokens
    next,       \* the token to read
    nodes,      \* the nodes built, operands before the nodes they are part of
    frames,     \* the open constructs, the innermost last
    operand     \* the node that has just been completed, or 0

treeVars == <<sentence, next, nodes, frames, operand>>

-----------------------------------------------------------------------------
(* Levels: 1 to 3 are OR, XOR and AND, 4 is NOT, 5 and 6 the comparisons, 7 *)
(* to 10 the arithmetic operators, 11 the signs, 12 the suffixes, and 13    *)
(* what is whole by itself.                                                 *)

\* The level at which a token goes on with an operand, 0 if it does not.
Level(token) ==
    CASE token = "OR" -> 1
      [] token = "XOR" -> 2
      [] token = "AND" -> 3
      [] token \in {"=", "<"} -> 5
      [] token \in {"IN", "IS"} -> 6
      [] token = "||" -> 7
      [] token \in {"+", "-"} -> 8
      [] token = "*" -> 9
      [] token = "^" -> 10
      [] token \in {".", "["} -> 12
      [] OTHER -> 0

\* The level of a node; a binary one is named after its operator.
Rank(kind) ==
    CASE kind = "NOT" -> 4
      [] kind = "sign" -> 11
      [] kind \in {"property", "index", "slice"} -> 12
      [] kind \in {"v", "parens", "list", "comprehension"} -> 13
      [] OTHER -> Level(kind)

\* A binary operator.
IsOperator(token) == Level(token) \in (1..3) \cup (5..10) /\ token # "IS"

Token(i) == IF i \in DOMAIN sentence THEN sentence[i] ELSE "end"

Elements(seq) == {seq[k] : k \in DOMAIN seq}

Span(first, last) == [start |-> first, end |-> last]
CoverLast(a, b) == b   \* faulty: the left operand is not covered
Cover(a, b) == Span(IF a.start < b.start THEN a.start ELSE b.start,
                    IF a.end < b.end THEN b.end ELSE a.end)

ReadFor(parts) == UNION {nodes[part].reads : part \in Elements(parts)}
Node(kind, span, own, parts) ==
    [kind |-> kind, span |-> span, own |-> own, parts |-> parts,
     reads |-> own \cup ReadFor(parts)]

Binary(left, operator, right) ==
    Node(sentence[operator], Cover(nodes[left].span, nodes[right].span), {operator},
         <<left, right>>)

\* From the start of what comes before a suffix to the end of the suffix.
Suffixed(kind, own, last, parts) ==
    Node(kind, Span(nodes[parts[1]].span.start, last), own, parts)

IsSourceUnwrapped(n) ==   \* faulty: parentheses are looked through
    LET inner == IF nodes[n].kind = "parens" THEN nodes[n].parts[1] ELSE n
    IN  nodes[inner].kind = "IN" /\ nodes[nodes[inner].parts[1]].kind = "v"

\* split_comprehension_source: the loosest operator is IN, after a variable.
IsSource(n) == nodes[n].kind = "IN" /\ nodes[nodes[n].parts[1]].kind = "v"

Enclosed(kind, own, parts) == Node(kind, Span(own[1], next), Elements(own) \cup {next}, parts)

\* The parts of the source take its place.
Comprehension(own, parts) ==
    LET source == nodes[parts[1]]
    IN  Node("comprehension", Span(own[1], next), Elements(own) \cup {next} \cup source.own,
             source.parts \o Tail(parts))

-----------------------------------------------------------------------------
(* Frames.                                                                 *)

Frame(kind, level, own, parts) == [kind |-> kind, level |-> level, own |-> own, parts |-> parts]

Top == frames[Len(frames)]
Below == SubSeq(frames, 1, Len(frames) - 1)
In(kinds) == frames # <<>> /\ Top.kind \in kinds

\* The loosest level at which an operand may be continued here.
Wanted == IF frames = <<>> THEN 1 ELSE Top.level

Expecting == operand = 0 /\ ~In({"folding"})
Continues == operand # 0 /\ Level(Token(next)) >= Wanted
Complete == operand # 0 /\ Level(Token(next)) < Wanted

Push(frame) == frames' = Append(frames, frame) /\ operand' = 0
Replace(frame) == frames' = Append(Below, frame) /\ operand' = 0
Build(node) == nodes' = Append(nodes, node) /\ operand' = Len(nodes) + 1
Read(n) == next' = next + n /\ UNCHANGED sentence

-----------------------------------------------------------------------------
TreeInit ==
    /\ sentence \in Sentences
    /\ next = 1 /\ nodes = <<>> /\ frames = <<>> /\ operand = 0

Name ==
    /\ Expecting /\ Token(next) = "v"
    /\ Build(Node("v", Span(next, next), {next}, <<>>))
    /\ Read(1) /\ UNCHANGED frames

Open ==
    /\ Expecting /\ Token(next) \in {"(", "["}
    /\ Push(Frame(Token(next), 1, <<next>>, <<>>))
    /\ Read(1) /\ UNCHANGED nodes

Prefix ==
    /\ Expecting
    /\ \/ Token(next) = "NOT" /\ Wanted <= 4 /\ Push(Frame("NOT", 4, <<next>>, <<>>))
       \/ Token(next) \in {"+", "-"} /\ Wanted <= 11 /\ Push(Frame("sign", 11, <<next>>, <<>>))
    /\ Read(1) /\ UNCHANGED nodes

\* NotExpr and UnaryExpr: to the end of the operand.
EndPrefix ==
    /\ Complete /\ In({"NOT", "sign"})
    /\ Build(Node(Top.kind, Span(Top.own[1], nodes[operand].span.end), Elements(Top.own), <<operand>>))
    /\ frames' = Below /\ UNCHANGED <<sentence, next>>

\* The operand is the head of a tail of operators, each with its right operand.
Operator ==
    /\ Continues /\ IsOperator(Token(next))
    /\ Rank(nodes[operand].kind) > Level(Token(next))
    /\ Push(Frame("fold", Level(Token(next)) + 1, <<next>>, <<operand>>))
    /\ Read(1) /\ UNCHANGED nodes

\* Comparisons with IN have one right operand.
MoreOperands ==
    /\ Complete /\ In({"fold"}) /\ Level(Token(next)) = Wanted - 1 /\ Wanted # 7
    /\ Replace(Frame("fold", Wanted, Append(Top.own, next), Append(Top.parts, operand)))
    /\ Read(1) /\ UNCHANGED nodes

EndOperands ==
    /\ Complete /\ In({"fold"}) /\ (Level(Token(next)) # Wanted - 1 \/ Wanted = 7)
    /\ Replace(Frame("folding", Wanted, Top.own, Append(Top.parts, operand)))
    /\ UNCHANGED <<sentence, next, nodes>>

LastPair(own) == Len(own)   \* faulty: operators group to the right
NextPair(own) == 1

\* One turn of the loop of fold_binary, or of fold_comparison.
Fold ==
    /\ In({"folding"})
    /\ LET k == NextPair(Top.own)
           joined == Binary(Top.parts[k], Top.own[k], Top.parts[k + 1])
           rest == [j \in 1..(Len(Top.own) - 1) |-> Top.own[IF j < k THEN j ELSE j + 1]]
           parts == [j \in 1..Len(Top.own) |->
                        IF j = k THEN Len(nodes) + 1 ELSE Top.parts[IF j < k THEN j ELSE j + 1]]
       IN  IF Len(Top.own) = 1
           THEN Build(joined) /\ frames' = Below
           ELSE /\ nodes' = Append(nodes, joined)
                /\ Replace(Frame("folding", Top.level, rest, parts))
    /\ UNCHANGED <<sentence, next>>

NullTest ==
    /\ Continues /\ Token(next) = "IS" /\ Rank(nodes[operand].kind) > 6
    /\ \E last \in {next + 1, next + 2} :
        /\ last = next + 2 => Token(next + 1) = "NOT"
        /\ Token(last) = "NULL"
        /\ Build(Suffixed("IS", next..last, last, <<operand>>))
        /\ Read(last + 1 - next)
    /\ UNCHANGED frames

\* Suffixes are folded as they come: each needs only what is before it.
Property ==
    /\ Continues /\ Token(next) = "." /\ Token(next + 1) = "v"
    /\ Rank(nodes[operand].kind) >= 12
    /\ Build(Node("property", Cover(nodes[operand].span, Span(next + 1, next + 1)),
                  {next, next + 1}, <<operand>>))
    /\ Read(2) /\ UNCHANGED frames

Subscript ==
    /\ Continues /\ Token(next) = "[" /\ Rank(nodes[operand].kind) >= 12
    /\ Push(Frame("index", 1, <<next>>, <<operand>>))
    /\ Read(1) /\ UNCHANGED nodes

Separators == {<<"[", ",">>, <<",", ",">>, <<"[", "WHERE">>, <<"[", "|">>, <<"WHERE", "|">>, <<"index", "..">>}

\* What has been read between brackets, with the operand if there is one.
Contents == IF operand = 0 THEN Top.parts ELSE Append(Top.parts, operand)

Separate ==
    /\ frames # <<>> /\ <<Top.kind, Token(next)>> \in Separators
    /\ operand # 0 \/ Top.kind = "index"
    /\ Replace(Frame(Token(next), 1, Append(Top.own, next), Contents))
    /\ Read(1) /\ UNCHANGED nodes

\* list_singleton_or_comprehension decides on what is read without a separator,
\* list_comprehension_expr refuses what is no source.
Closed ==
    LET own == Append(Top.own, next)
    IN  CASE Top.kind = "(" -> Enclosed("parens", Top.own, Contents)
          [] Top.kind = "[" /\ operand # 0 /\ IsSource(operand) -> Comprehension(Top.own, Contents)
          [] Top.kind \in {"WHERE", "|"} -> Comprehension(Top.own, Contents)
          [] Top.kind = "index" -> Suffixed("index", Elements(own), next, Contents)
          [] Top.kind = ".." -> Suffixed("slice", Elements(own), next, Contents)
          [] OTHER -> Enclosed("list", Top.own, Contents)

Close ==
    /\ In({"(", "[", ",", "WHERE", "|", "index", ".."})
    /\ Token(next) = IF Top.kind = "(" THEN ")" ELSE "]"
    /\ operand # 0 \/ Top.kind = ".." \/ Top.kind = "["
    /\ Top.kind \in {"WHERE", "|"} => IsSource(Top.parts[1])
    /\ Build(Closed)
    /\ Read(1) /\ frames' = Below

TreeNext ==
    \/ Name \/ Open \/ Prefix \/ EndPrefix
    \/ Operator \/ MoreOperands \/ EndOperands \/ Fold
    \/ NullTest \/ Property \/ Subscript \/ Separate \/ Close

TreeSpec == TreeInit /\ [][TreeNext]_treeVars

-----------------------------------------------------------------------------
(* Properties.                                                             *)

Accepted == operand # 0 /\ frames = <<>> /\ next = Len(sentence) + 1

\* A node spans exactly the tokens read for it, and its children come one after
\* the other.
Spanned(node) ==
    /\ node.span.start <= node.span.end
    /\ node.reads = node.span.start..node.span.end
    /\ \A k \in 2..Len(node.parts) :
         nodes[node.parts[k - 1]].span.end < nodes[node.parts[k]].span.start

\* No token is used twice: a node's own tokens are not those of its children.
OwnTokens(node) == \A part \in Elements(node.parts) : node.own \cap nodes[part].reads = {}

(* A tree stands for the tokens it was built from, in their order: every   *)
(* node for those it spans, and the whole expression for all of them.      *)
TreesCoverTokens ==
    /\ \A n \in DOMAIN nodes : Spanned(nodes[n]) /\ OwnTokens(nodes[n])
    /\ Accepted => nodes[operand].span = Span(1, Len(sentence))

\* Operators group by their level and to the left, and no comparison of the
\* advanced kind is an operand of another: with OwnTokens this leaves one tree
\* for a sentence.
GroupsToTheLeft(node) ==
    LET rank == Rank(node.kind)
        Part(k) == Rank(nodes[node.parts[k]].kind)
    IN  /\ IsOperator(node.kind) =>
             /\ IF rank = 6 THEN Part(1) > 6 ELSE Part(1) >= rank
             /\ Part(2) > rank
        /\ node.kind = "IS" => Part(1) > 6
        /\ rank \in {4, 11, 12} => Part(1) >= rank

\* Brackets around `x IN list` are a comprehension, and a list when the same
\* expression is in parentheses or IN is not what holds it together.
ParenthesesMakeAList(node) ==
    /\ node.kind = "comprehension" =>
         /\ sentence[node.span.start + 1] = "v"
         /\ sentence[node.span.start + 2] = "IN"
         /\ Rank(nodes[node.parts[2]].kind) > 6
    /\ node.kind = "list" /\ Len(node.parts) = 1 =>
         ~(nodes[node.parts[1]].kind = "IN"
             /\ nodes[nodes[node.parts[1]].parts[1]].kind = "v")

(* A tree has the shape a reader of the grammar expects.                   *)
GroupedAsRead ==
    \A n \in DOMAIN nodes : GroupsToTheLeft(nodes[n]) /\ ParenthesesMakeAList(nodes[n])

=============================================================================
