----------------------------- MODULE MCAliasAudit -----------------------------
(* Every map of four productions whose aliases have at most two targets, the two
   in the order of their names. *)
EXTENDS AliasAudit

Production(mapping, support, targets) ==
    [mapping |-> mapping, support |-> support, targets |-> targets]
TargetLists(n) ==
    LET others == (1..4) \ {n} IN
    {<<t>> : t \in others} \cup {<<t, u>> : t \in others, u \in others}
Kinds(n) ==
    {Production("direct", support, <<>>) : support \in {"full", "partial"}}
    \cup {Production("none", support, <<>>) : support \in {"unsupported", "unassessed"}}
    \cup {Production("alias", support, targets) :
            support \in {"full", "partial"},
            targets \in {list \in TargetLists(n) : Len(list) = 2 => list[1] < list[2]}}
MCMaps ==
    {<<a, b, c, d>> : a \in Kinds(1), b \in Kinds(2), c \in Kinds(3), d \in Kinds(4)}
=============================================================================
