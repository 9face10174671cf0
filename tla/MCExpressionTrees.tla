-------------------------- MODULE MCExpressionTrees --------------------------
(***************************************************************************)
(* Sentences of the expression grammar: every string of up to four tokens  *)
(* over names and operators, right or wrong; every pair of operands of     *)
(* every form under every operator; and these within brackets.             *)
(***************************************************************************)
EXTENDS ExpressionTrees

Alphabet == {"v", "OR", "AND", "NOT", "=", "IN", "IS", "NULL", "+", "-", "^"}
Strings == UNION {[1..n -> Alphabet] : n \in 1..4}

Operators == {"OR", "XOR", "AND", "=", "<", "IN", "||", "+", "-", "*", "^"}
Chains ==
    {<<"v", a, "v", b, "v">> : a \in Operators, b \in Operators}
    \cup {<<"v", a, "-", "v", b, "v", c, "v">> :
            a \in Operators, b \in Operators, c \in {"=", "IN", "-", "OR"}}
Forms == {
    <<"v">>, <<"-", "v">>, <<"NOT", "v">>, <<"v", ".", "v">>, <<"v", "[", "v", "]">>,
    <<"v", "[", "v", "..", "v", "]">>, <<"v", "[", "..", "]">>,
    <<"v", "[", "..", "v", "]", ".", "v">>, <<"v", "IS", "NOT", "NULL">>,
    <<"(", "v", "IN", "v", ")">>, <<"[", "v", "IN", "v", "]">>,
    <<"[", "(", "v", "IN", "v", ")", "]">>, <<"[", "v", ",", "v", ",", "v", "]">>,
    <<"[", "]">>, <<"v", "IN", "v">>, <<"v", "OR", "v">>, <<"v", "=", "v">>,
    <<"v", "+", "v">>}
Pairs == {a \o <<op>> \o b : a \in Forms, op \in Operators, b \in Forms}
InBrackets ==
    {<<"[">> \o a \o <<"IN">> \o b \o end :
        a \in Forms, b \in Forms,
        end \in {<<"]">>, <<"|", "v", "]">>, <<"WHERE", "v", "]">>,
                <<"WHERE", "v", "|", "v", "]">>, <<"[", "v", "]", "]">>}}
NullSuffixed == {<<"v", "IS", "NULL">> \o s : s \in {<<".", "v">>, <<"[", "v", "]">>}}
MCSentences == Strings \cup Chains \cup Pairs \cup InBrackets \cup NullSuffixed
=============================================================================
