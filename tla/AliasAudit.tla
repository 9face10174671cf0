------------------------------ MODULE AliasAudit ------------------------------
(***************************************************************************)
(* The audit of the alias productions of the specification's production    *)
(* map (validate_aliases and alias_reaches_direct in xtask/src/spec.rs): a *)
(* depth-first search with a set of names being visited and a memo that is *)
(* kept from one production to the next.  The recursion is an explicit     *)
(* stack of frames: a name, its next target, and whether a target before   *)
(* that one reached a direct mapping.                                      *)
(*                                                                         *)
(* A production map has passed the checks of validate_traceability that    *)
(* come first, which leave these kinds of productions: direct or alias     *)
(* ones with full or partial support, and unmapped ones that are           *)
(* unsupported or unassessed.  Names are numbers in the order of the map.  *)
(***************************************************************************)
EXTENDS Naturals, Sequences

CONSTANTS Maps      \* the production maps: sequences of productions

\* A direct production's targets are places in the parser's source, not names.
ASSUME ProductionAssumption ==
    \A productions \in Maps :
        /\ productions \in
             Seq([mapping : {"direct", "alias", "none"},
                  support : {"full", "partial", "unsupported", "unassessed"},
                  targets : Seq(DOMAIN productions)])
        /\ \A n \in DOMAIN productions :
             LET p == productions[n] IN
             /\ p.mapping = "none" <=> p.support \in {"unsupported", "unassessed"}
             /\ p.mapping = "alias" <=> p.targets # <<>>

VARIABLES
    map,        \* the production map
    current,    \* the production of the outer loop
    stack,      \* the calls of alias_reaches_direct
    visiting,   \* the names on the current path
    resolved,   \* the memo: names whose answer is known
    verdict     \* "running", "ok", or the error

auditVars == <<map, current, stack, visiting, resolved, verdict>>

Frame(n) == [name |-> n, next |-> 1, any |-> FALSE]
Top == stack[Len(stack)]
Below == SubSeq(stack, 1, Len(stack) - 1)
IsAlias(n) == map[n].mapping = "alias"

AuditInit ==
    /\ map \in Maps
    /\ current = 1
    /\ stack = <<>>
    /\ visiting = {}
    /\ resolved = <<>>
    /\ verdict = "running"

Auditing == verdict = "running"
Known(n) == n \in DOMAIN resolved

\* The outer loop: only aliases are searched.
SkipProduction ==
    /\ Auditing /\ stack = <<>> /\ current <= Len(map) /\ ~IsAlias(current)
    /\ current' = current + 1
    /\ UNCHANGED <<map, stack, visiting, resolved, verdict>>

BeginSearch ==
    /\ Auditing /\ stack = <<>> /\ current <= Len(map)
    /\ IsAlias(current) /\ ~Known(current)
    /\ stack' = <<Frame(current)>>
    /\ visiting' = {current}
    /\ UNCHANGED <<map, current, resolved, verdict>>

\* Faulty: the search stops at the first direct mapping.
EnoughFound(frame) ==
    ~IsAlias(frame.name) \/ frame.any \/ frame.next > Len(map[frame.name].targets)

\* A call returns at once for an endpoint, and for an alias when it has looked at
\* every target, even if it has already found one that reaches a direct mapping.
Exhausted(frame) ==
    ~IsAlias(frame.name) \/ frame.next > Len(map[frame.name].targets)
Target == map[Top.name].targets[Top.next]
Searching == Auditing /\ stack # <<>> /\ ~Exhausted(Top)

AfterTarget(frame, answer) == [frame EXCEPT !.any = @ \/ answer, !.next = @ + 1]

\* The target's answer is in the memo, from an earlier search or this one.
TakeAnswer ==
    /\ Searching /\ Known(Target)
    /\ stack' = [stack EXCEPT ![Len(stack)] = AfterTarget(Top, resolved[Target])]
    /\ UNCHANGED <<map, current, visiting, resolved, verdict>>

\* Faulty: names being visited are entered again.
DescendAlways ==
    /\ Searching /\ ~Known(Target)
    /\ stack' = Append(stack, Frame(Target))
    /\ visiting' = visiting \cup {Target}
    /\ UNCHANGED <<map, current, resolved, verdict>>

Descend ==
    /\ Searching /\ ~Known(Target) /\ Target \notin visiting
    /\ stack' = Append(stack, Frame(Target))
    /\ visiting' = visiting \cup {Target}
    /\ UNCHANGED <<map, current, resolved, verdict>>

RefuseCycle ==
    /\ Searching /\ ~Known(Target) /\ Target \in visiting
    /\ verdict' = "cycle"
    /\ UNCHANGED <<map, current, stack, visiting, resolved>>

\* The answer goes to the memo, where the caller finds it.
Answer(frame) ==
    IF IsAlias(frame.name) THEN frame.any ELSE map[frame.name].mapping = "direct"
Return ==
    /\ Auditing /\ stack # <<>> /\ Exhausted(Top)
    /\ resolved' = [n \in DOMAIN resolved \cup {Top.name} |->
                      IF n = Top.name THEN Answer(Top) ELSE resolved[n]]
    /\ visiting' = visiting \ {Top.name}
    /\ stack' = Below
    /\ UNCHANGED <<map, current, verdict>>

\* Faulty: one full target is enough.
FullIfAny(supports) ==
    IF "unassessed" \in supports THEN "unassessed"
    ELSE IF "full" \in supports THEN "full"
    ELSE IF supports = {"unsupported"} THEN "unsupported"
    ELSE "partial"

\* The support of an alias follows from that of its targets.
Expected(supports) ==
    IF "unassessed" \in supports THEN "unassessed"
    ELSE IF supports = {"full"} THEN "full"
    ELSE IF supports = {"unsupported"} THEN "unsupported"
    ELSE "partial"
TargetsOf(n) == {map[n].targets[k] : k \in DOMAIN map[n].targets}
Searched ==
    Auditing /\ stack = <<>> /\ current <= Len(map) /\ IsAlias(current) /\ Known(current)
SupportFits ==
    map[current].support = Expected({map[t].support : t \in TargetsOf(current)})

Refuse(error) ==
    /\ verdict' = error
    /\ UNCHANGED <<map, current, stack, visiting, resolved>>
RefuseAlias ==
    /\ Searched
    /\ \/ ~resolved[current] /\ Refuse("no endpoint")
       \/ resolved[current] /\ ~SupportFits /\ Refuse("support")
AcceptAlias ==
    /\ Searched /\ resolved[current] /\ SupportFits
    /\ current' = current + 1
    /\ UNCHANGED <<map, stack, visiting, resolved, verdict>>

Finish ==
    /\ Auditing /\ stack = <<>> /\ current > Len(map)
    /\ Refuse("ok")

AuditNext ==
    \/ SkipProduction \/ BeginSearch \/ TakeAnswer \/ Descend \/ RefuseCycle
    \/ Return \/ RefuseAlias \/ AcceptAlias \/ Finish

AuditSpec == AuditInit /\ [][AuditNext]_auditVars

------------------------------------------------------------------------------
Names == DOMAIN map

\* What a name reaches through the targets of aliases.
Closed(set) == \A n \in set : TargetsOf(n) \subseteq set
Reach(n) ==
    {m \in Names : \A set \in SUBSET Names :
                      Closed(set) /\ TargetsOf(n) \subseteq set => m \in set}
Endpoints(n) == {m \in Reach(n) : ~IsAlias(m)}

\* The names being visited are those of the calls on the stack, none of them
\* twice, each called for a target of the one below: the recursion cannot exceed
\* the number of productions.
VisitingIsPath ==
    /\ visiting = {stack[k].name : k \in DOMAIN stack}
    /\ \A j, k \in DOMAIN stack : stack[j].name = stack[k].name => j = k
    /\ \A k \in 2..Len(stack) : stack[k].name \in TargetsOf(stack[k - 1].name)

\* The memo is right for every name in it, in whatever order names were searched:
\* the name is a direct production or reaches one, and reaches no cycle.
MemoSound ==
    \A n \in DOMAIN resolved :
        /\ resolved[n] <=> \E m \in {n} \cup Endpoints(n) : map[m].mapping = "direct"
        /\ \A m \in {n} \cup Reach(n) : m \notin Reach(m)

\* A map is accepted only if no alias is its own alias, every alias reaches a
\* direct production and nothing that is unassessed, and it is full exactly if
\* everything it stands for is; it is refused for a cycle only if there is one.
VerdictRight ==
    /\ verdict = "cycle" => \E n \in Names : n \in Reach(n)
    /\ verdict = "ok" =>
         \A n \in Names : IsAlias(n) =>
            /\ n \notin Reach(n)
            /\ \E m \in Endpoints(n) : map[m].mapping = "direct"
            /\ \A m \in Endpoints(n) : map[m].support # "unassessed"
            /\ (map[n].support = "full")
                 <=> \A m \in Endpoints(n) : map[m].support = "full"

\* The search stays on a path, what it remembers is true, and so is the verdict.
SearchIsRight == VisitingIsPath /\ MemoSound /\ VerdictRight
=============================================================================
