--------------------------- MODULE MCTckProjection ---------------------------
(***************************************************************************)
(* Features of one or two scenarios over three query texts: with and       *)
(* without an error step, the tag and Examples tables, with a named graph  *)
(* and a control query, in the order of their lines or not.                *)
(***************************************************************************)
EXTENDS TckProjection

MCSources == {"a", "b", "c"}
NoId == <<0, 0, 0, 0>>

Query(role, text) == [role |-> role, texts |-> <<text>>]
Graph(texts) == [role |-> "graph", texts |-> texts]
Table(lines, ignore) == [lines |-> lines, ignore |-> ignore]
Scenario(line, errors, skip, ignore, tables, steps) ==
    [line |-> line, errors |-> errors, skip |-> skip, ignore |-> ignore,
     tables |-> tables, steps |-> steps]

Steps == {
    <<Query("primary", <<"a">>)>>,
    <<Graph(<<<<"a">>, <<"c">>>>), Query("primary", <<"b">>)>>,
    <<Query("setup", <<"b">>), Query("primary", <<"a", "b">>),
      Query("control", <<"a">>)>>}
BadSteps == {<<Query("setup", <<"a">>)>>}

Templates(line) ==
    {Scenario(line, <<>>, FALSE, ignore, tables, steps) :
        ignore \in BOOLEAN, steps \in Steps,
        tables \in {<<>>, <<Table(<<line + 5>>, FALSE), Table(<<line + 7>>, TRUE)>>}}
    \cup {Scenario(line, errors, skip, FALSE, <<>>, steps) :
        errors \in {<<>>, <<"compile time">>, <<"runtime">>}, skip \in BOOLEAN,
        steps \in Steps}
    \cup {Scenario(line, <<"compile time", "runtime">>, FALSE, FALSE, <<>>, steps) :
        steps \in Steps}
    \cup {Scenario(line, <<>>, FALSE, FALSE, <<>>, steps) : steps \in BadSteps}

MCCorpora ==
    {<<s>> : s \in Templates(10)}
    \cup UNION {{<<s, t>> : s \in Templates(lines[1]), t \in Templates(lines[2])} :
                lines \in {<<10, 30>>, <<30, 10>>}}

Review == {r \in [expect : {"accept", "reject"},
                  reason : {"static_semantic", "grammar_negative"},
                  named : BOOLEAN] : r.named \/ r.expect = "reject"}
MCLedgers == UNION {[lines -> Review] : lines \in SUBSET {10, 30}}
=============================================================================
