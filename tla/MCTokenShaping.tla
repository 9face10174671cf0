--------------------------- MODULE MCTokenShaping ---------------------------
(* Instances of TokenShaping and NestedFragments for TLC.  Inputs are put   *)
(* together from pieces, so that runs as long as a pattern comprehension    *)
(* occur.                                                                   *)
EXTENDS NestedFragments

CONSTANTS LabelTokens,   \* bound on the tokens of a label expression
          NameTokens     \* bound on the tokens around a dotted name

Concat3(A, B, C) == {a \o b \o c : a \in A, b \in B, c \in C}
Strings(S, n) == UNION {[1..k -> S] : k \in 0..n}

Query(ts) == [tokens |-> ts, spaced |-> DOMAIN ts, nested |-> FALSE, boundary |-> NoPipe]

\* A fragment, with none or one of its pipes reserved.
Fragments(ts) ==
    {[tokens |-> ts, spaced |-> {}, nested |-> TRUE, boundary |-> b] :
        b \in {NoPipe} \cup {i \in DOMAIN ts : ts[i] = "Pipe"}}

Node == <<"LeftParen", "RightParen">>
Labelled == <<"LeftParen", "Identifier", "Colon", "Keyword", "RightParen">>
Dashes == <<"Minus", "Minus">>
Typed == <<"Minus", "LeftBracket", "Colon", "Identifier", "Pipe", "Identifier", "RightBracket", "RightArrow">>
Path == Node \o Dashes \o Labelled

-----------------------------------------------------------------------------
LabelSites ==
    {<<"Return", "Identifier", "Colon">>, <<"Where", "Identifier", "Is">>,
     <<"Match", "LeftParen", "Identifier", "Colon">>,
     <<"LeftBracket", "Colon">>, <<"LeftBracket", "Identifier", "Colon">>,
     <<"Return", "LeftBrace", "Identifier", "Colon", "Identifier", "Comma", "Identifier", "Colon">>}

LabelSources ==
    {Query(ts) : ts \in Concat3(LabelSites,
        Strings({"Identifier", "Pipe", "Colon", "Ampersand", "LeftParen", "RightParen"}, LabelTokens),
        {<<>>})}
    \cup {Query(ts) : ts \in Concat3({<<"Where", "Identifier">>},
        Strings({"Is", "As", "Not", "Null", "Pipe", "Bang", "Percent"}, LabelTokens), {<<"Identifier">>})}

\* tokens after a dollar sign touch it or not
NameSources ==
    {Query(ts) : ts \in Concat3({<<>>, <<"Call">>, <<"Call", "Identifier", "Dot">>},
        Strings({"Call", "Identifier", "Dot", "LeftParen", "All"}, NameTokens), {<<>>})}
    \cup {[Query(ts) EXCEPT !.spaced = S] :
            ts \in Concat3({<<"Dollar">>}, Strings({"EscapedIdentifier", "Dot"}, 2), {<<"Dollar">>}),
            S \in SUBSET {2}}

-----------------------------------------------------------------------------
Comprehensions ==
    {<<"LeftBracket">> \o head \o tail \o <<"RightBracket">> :
        head \in Concat3({<<>>, <<"Where", "Equal">>}, {Labelled, <<"Identifier">> \o Node},
                         {Dashes \o Node, Typed \o Labelled, <<>>}),
        tail \in Concat3({<<>>, <<"Where", "Identifier", "Colon", "Identifier">>},
                         {<<"Pipe">>},
                         {<<"Identifier", "Pipe", "Identifier">>, <<"Identifier">> \o Dashes \o Node})}

ComprehensionSources ==
    UNION {Fragments(ts) \cup {Query(<<"Return">> \o ts \o <<"Dot">>)} : ts \in Comprehensions}

\* Delimiters that overlap as well as delimiters that nest.
TangledSources ==
    {Query(ts) : ts \in Concat3({<<"LeftBracket", "RightArrow", "Pipe", "Identifier">>},
        Strings({"LeftBracket", "RightBracket", "LeftParen", "RightParen", "LeftBrace"}, LabelTokens),
        {<<"RightBracket">>, <<"RightBrace", "RightBracket">>})}

-----------------------------------------------------------------------------
Quantifiers == {<<>>, <<"Plus">>, <<"LeftBrace", "Word", "RightBrace">>, <<"LeftBrace">>}
Arrows == {<<"Minus", "Greater">>, <<"LeftArrow", "Minus">>, <<"Less", "Minus", "Minus">>, Typed, <<"Minus">>}

PathSources ==
    {Query(ts) : ts \in Concat3(
        {<<"Match">>, <<"Where">>, <<"Match", "LeftParen", "LeftBrace", "Identifier", "Colon", "Case",
                                     "Identifier", "RightBrace", "RightParen", "Comma">>,
         <<"Match">> \o Node \o Typed, <<"Where", "ShortestPath", "LeftParen">>, <<"Exists", "LeftBrace">>,
         <<"Set", "Identifier", "Equal">>, <<"Delete">>},
        Concat3({Node, Labelled, <<"LeftParen">> \o Path \o <<"RightParen">>}, Arrows, Quantifiers),
        {Node, Labelled, Node \o Dashes \o Node, <<"Identifier">>})}
    \cup {[tokens |-> ts, spaced |-> {}, nested |-> TRUE, boundary |-> NoPipe] :
            ts \in Concat3({Node, Labelled}, Arrows, {Node, Path, Labelled})}

-----------------------------------------------------------------------------
(* Fragments that are split and parsed again.                              *)

Arrow == <<"Minus", "RightArrow">>

Bindings == {<<>>, <<"Identifier", "Equal">>, <<"Where", "Equal">>}
Wheres == {<<>>, <<"Where", "Identifier", "Colon", "Identifier", "Pipe", "Identifier">>,
           <<"Where", "LeftBracket", "Identifier", "Pipe", "Identifier", "RightBracket">>}
Projections == {<<"Identifier">>, <<"Identifier", "Pipe", "Identifier">>,
                <<"LeftBracket">> \o Arrow \o <<"Pipe", "Word", "RightBracket">>,
                <<"Invalid">>, <<"Pipe", "Identifier">>}

Splittable ==
    {<<"LeftBracket">> \o head \o <<"Pipe">> \o projection \o <<"RightBracket">> :
        head \in Concat3(Bindings, {Arrow \o Labelled}, Wheres),
        projection \in Projections}

Paths ==
    Concat3({Node, Labelled}, {Arrow, <<"Minus", "LeftBracket", "Invalid", "RightBracket", "Minus">>},
            {Node, Labelled \o Arrow \o Node})

\* A second comprehension in sight whose delimiters overlap those of the first.
Overlapping ==
    Concat3({<<"LeftBracket", "RightArrow", "Pipe">>},
            [1..LabelTokens -> {"LeftBracket", "RightBracket", "LeftParen", "RightParen"}],
            {<<"RightArrow", "Pipe", "Word", "RightBracket">>})

FragmentSources ==
    {[tokens |-> ts, spaced |-> {}, nested |-> TRUE, boundary |-> NoPipe] :
        ts \in Splittable \cup Paths \cup Overlapping}

MCSources == LabelSources \cup NameSources \cup ComprehensionSources
                \cup TangledSources \cup PathSources \cup FragmentSources

=============================================================================
