---------------------------- MODULE TckProjection ----------------------------
(***************************************************************************)
(* How xtask/src/tck.rs projects the scenarios of the openCypher TCK to    *)
(* queries the parser must accept or reject, and how it judges the parser: *)
(* the reviewed expectations (scenario_expectation), the expansion of      *)
(* outlines (expand_examples), one occurrence for every query of every     *)
(* instance (push_occurrence), one query for every distinct source         *)
(* (query_records), and the gate over the occurrences (evaluate).          *)
(*                                                                         *)
(* One feature file is enough: everything here is keyed by the line of the *)
(* scenario.  The scenarios are in the order process_feature visits them,  *)
(* which is not that of their lines when the feature has rules.            *)
(***************************************************************************)
EXTENDS Integers, FiniteSets, SequencesExt

CONSTANTS
    Corpora,        \* the sequences of scenarios of the feature file
    Ledgers,        \* the reviewed expectations: functions of scenario lines
    Sources,        \* the query texts
    UnknownId,      \* the id of no occurrence
    MaxExclusions   \* bound: how many occurrences are excluded

\* A scenario as the Gherkin parser gives it: a scenario begins on a line of its own,
\* and a query text has a form for at least one instance.
Texts == {text \in Seq(Sources) : text # <<>>}
Scenarios ==
    [line : Nat, errors : Seq({"compile time", "runtime"}), skip : BOOLEAN,
     ignore : BOOLEAN, tables : Seq([lines : Seq(Nat), ignore : BOOLEAN]),
     steps : Seq([role : {"primary", "setup", "control", "graph"},
                  texts : Seq(Texts)])]

ASSUME CorporaAssumption ==
    \A feature \in Corpora :
        /\ feature \in Seq(Scenarios)
        /\ \A c, d \in DOMAIN feature : feature[c].line = feature[d].line => c = d

VARIABLES
    corpus, ledger, \* the inputs
    stage,          \* "project", "evaluate", "report", or "error"
    position,       \* how many scenarios, then how many occurrences, are done
    seen,           \* seen_reviews
    occurrences,    \* the occurrences, sorted when the projection is finished
    queries,        \* the expectation of each distinct source
    accepts,        \* the sources the parser accepts
    exclusions,     \* the excluded occurrences and the direction declared
    failures,       \* the mismatches
    stale,          \* the exclusions of occurrences that match
    matched         \* how many match, active and supplemental

inputs == <<corpus, ledger>>
verdicts == <<failures, stale, matched>>
vars == <<inputs, stage, position, seen, occurrences, queries, accepts,
          exclusions, verdicts>>

Init ==
    /\ corpus \in Corpora
    /\ ledger \in Ledgers
    /\ stage = "project"
    /\ position = 0
    /\ seen = {}
    /\ occurrences = <<>>
    /\ queries = <<>>
    /\ accepts = {}
    /\ exclusions = <<>>
    /\ failures = {}
    /\ stale = {}
    /\ matched = [active |-> 0, supplemental |-> 0]

Stop ==
    /\ stage' = "error"
    /\ UNCHANGED <<inputs, position, seen, occurrences, queries, accepts,
                   exclusions, verdicts>>

------------------------------------------------------------------------------
(* The expectation of a scenario. *)

\* The one compile-time SyntaxError the scenario says its query raises.
NeedsReview(s) == s.errors = <<"compile time">>

Agrees(review, skip) ==
    \/ review.expect = "accept" /\ review.reason = "static_semantic" /\ ~skip
    \/ review.expect = "reject" /\ review.reason = "grammar_negative" /\ skip

Reviewed(s) ==
    /\ s.line \in DOMAIN ledger
    /\ ledger[s.line].named
    /\ Agrees(ledger[s.line], s.skip)

Expectation(s) ==
    IF NeedsReview(s) /\ Reviewed(s) THEN ledger[s.line].expect ELSE "accept"

\* The early returns of scenario_expectation.
ExpectationFails(s) ==
    \/ Len(s.errors) > 1
    \/ NeedsReview(s) /\ ~Reviewed(s)
    \/ s.skip /\ Expectation(s) # "reject"

------------------------------------------------------------------------------
(* The occurrences of a scenario. *)

\* One instance for every row of every Examples table, numbered through; a table's
\* tags count for its instances.  A scenario without tables is its own instance.
Rows(s) == FlattenSeq([t \in DOMAIN s.tables |->
    [r \in DOMAIN s.tables[t].lines |-> [line |-> s.tables[t].lines[r],
                                          ignore |-> s.tables[t].ignore]]])
Instances(s) ==
    IF s.tables = <<>> THEN <<[index |-> 0, line |-> 0, ignore |-> FALSE]>>
    ELSE [i \in DOMAIN Rows(s) |-> [index |-> i, line |-> Rows(s)[i].line,
                                    ignore |-> Rows(s)[i].ignore]]

\* A step is a query, or a named graph with the statements of its script; a text
\* has placeholders, and so one form for each instance.
Statements(s) == FlattenSeq([k \in DOMAIN s.steps |->
    [n \in DOMAIN s.steps[k].texts |->
        [step |-> k, role |-> s.steps[k].role, text |-> s.steps[k].texts[n]]]])
Substituted(text, instance) == text[(instance.index % Len(text)) + 1]

\* Faulty: statements of one named graph share a number.
StepNumber(s, n) == Statements(s)[n].step

\* The number of the occurrence within its instance.
Number(s, n) == n

PushOccurrence(s, instance, n) ==
    LET statement == Statements(s)[n] IN
    [id |-> <<s.line, instance.index, instance.line, Number(s, n)>>,
     source |-> Substituted(statement.text, instance),
     expect |-> IF statement.role = "primary" THEN Expectation(s) ELSE "accept",
     supplemental |-> s.ignore \/ instance.ignore]

Occurrences(s) == FlattenSeq([i \in DOMAIN Instances(s) |->
    [n \in DOMAIN Statements(s) |-> PushOccurrence(s, Instances(s)[i], n)]])

\* Every instance must materialize exactly one primary query.
OnePrimary(s) ==
    Cardinality({n \in DOMAIN Statements(s) : Statements(s)[n].role = "primary"}) = 1

Current == corpus[position + 1]

\* Faulty: every scenario counts as reviewed.
ProjectMarkingAll ==
    /\ stage = "project" /\ position < Len(corpus)
    /\ ~ExpectationFails(Current) /\ OnePrimary(Current)
    /\ position' = position + 1
    /\ seen' = seen \cup {Current.line}
    /\ occurrences' = occurrences \o Occurrences(Current)
    /\ UNCHANGED <<inputs, stage, queries, accepts, exclusions, verdicts>>

Project ==
    /\ stage = "project" /\ position < Len(corpus)
    /\ ~ExpectationFails(Current) /\ OnePrimary(Current)
    /\ position' = position + 1
    /\ seen' = seen \cup IF NeedsReview(Current) THEN {Current.line} ELSE {}
    /\ occurrences' = occurrences \o Occurrences(Current)
    /\ UNCHANGED <<inputs, stage, queries, accepts, exclusions, verdicts>>

RefuseScenario ==
    /\ stage = "project" /\ position < Len(corpus)
    /\ ExpectationFails(Current) \/ ~OnePrimary(Current)
    /\ Stop

------------------------------------------------------------------------------
(* The finished projection. *)

\* Faulty: an entry of the ledger that nothing needs goes unnoticed.
ReviewsSuffice == seen \subseteq DOMAIN ledger

ReviewsCovered == seen = DOMAIN ledger

Precedes(a, b) ==
    \E k \in DOMAIN a.id : a.id[k] < b.id[k] /\ \A j \in 1..(k - 1) : a.id[j] = b.id[j]

\* The sort is stable: the place of an occurrence is how many do not follow it.
NotAfter(list, j, k) ==
    Precedes(list[j], list[k]) \/ (~Precedes(list[k], list[j]) /\ j <= k)
Place(list, k) == Cardinality({j \in DOMAIN list : NotAfter(list, j, k)})
Sorted(list) ==
    [r \in DOMAIN list |-> list[CHOOSE k \in DOMAIN list : Place(list, k) = r]]
SortedOccurrences == Sorted(occurrences)

\* Faulty: only neighbours are compared.
NeighboursConflict(sorted) ==
    \E i \in 2..Len(sorted) :
        /\ sorted[i - 1].source = sorted[i].source
        /\ sorted[i - 1].expect # sorted[i].expect

\* query_records compares each occurrence with what its source was recorded with.
Conflict(sorted) ==
    \E i, j \in DOMAIN sorted :
        sorted[i].source = sorted[j].source /\ sorted[i].expect # sorted[j].expect
QueryRecords(sorted) ==
    [source \in {sorted[i].source : i \in DOMAIN sorted} |->
        sorted[CHOOSE i \in DOMAIN sorted : sorted[i].source = source].expect]

\* The projection, then what the parser accepts and what is excluded.
ExclusionLedgers(ids) ==
    UNION {[excluded -> {"should accept", "should reject"}] :
             excluded \in {S \in SUBSET (ids \cup {UnknownId}) :
                              Cardinality(S) <= MaxExclusions}}

FinishProjection ==
    /\ stage = "project" /\ position = Len(corpus)
    /\ ReviewsCovered /\ ~Conflict(SortedOccurrences)
    /\ stage' = "evaluate"
    /\ position' = 0
    /\ occurrences' = SortedOccurrences
    /\ queries' = QueryRecords(SortedOccurrences)
    /\ accepts' \in SUBSET DOMAIN queries'
    /\ exclusions' \in ExclusionLedgers({occurrences[i].id : i \in DOMAIN occurrences})
    /\ UNCHANGED <<inputs, seen, verdicts>>

RefuseProjection ==
    /\ stage = "project" /\ position = Len(corpus)
    /\ ~ReviewsCovered \/ Conflict(SortedOccurrences)
    /\ Stop

------------------------------------------------------------------------------
(* The judgement of the parser. *)

Judged == occurrences[position + 1]
Matches(o) == (o.expect = "accept") = (o.source \in accepts)
Excluded(o) == o.id \in DOMAIN exclusions
MismatchDirection(o) == IF o.expect = "accept" THEN "should accept" ELSE "should reject"

Evaluating == stage = "evaluate" /\ UnknownId \notin DOMAIN exclusions

RefuseExclusions ==
    /\ stage = "evaluate" /\ UnknownId \in DOMAIN exclusions
    /\ Stop

\* Faulty: an excluded occurrence that matches is not counted.
CountUnlessExcluded ==
    /\ Evaluating /\ position < Len(occurrences) /\ Matches(Judged)
    /\ IF Excluded(Judged)
       THEN /\ stale' = stale \cup {Judged.id}
            /\ UNCHANGED matched
       ELSE /\ matched' = [matched EXCEPT
                 ![IF Judged.supplemental THEN "supplemental" ELSE "active"] = @ + 1]
            /\ UNCHANGED stale
    /\ position' = position + 1
    /\ UNCHANGED <<inputs, stage, seen, occurrences, queries, accepts, exclusions,
                   failures>>

Match ==
    /\ Evaluating /\ position < Len(occurrences) /\ Matches(Judged)
    /\ matched' = [matched EXCEPT
         ![IF Judged.supplemental THEN "supplemental" ELSE "active"] = @ + 1]
    /\ stale' = stale \cup IF Excluded(Judged) THEN {Judged.id} ELSE {}
    /\ position' = position + 1
    /\ UNCHANGED <<inputs, stage, seen, occurrences, queries, accepts, exclusions,
                   failures>>

\* Faulty: an exclusion hides a mismatch the other way round.
AnyDirection(o) == Excluded(o) => exclusions[o.id] \in {"should accept", "should reject"}

DirectionFits(o) == Excluded(o) => exclusions[o.id] = MismatchDirection(o)
Mismatch ==
    /\ Evaluating /\ position < Len(occurrences) /\ ~Matches(Judged)
    /\ DirectionFits(Judged)
    /\ failures' = failures \cup {[id |-> Judged.id, excluded |-> Excluded(Judged),
                                   supplemental |-> Judged.supplemental]}
    /\ position' = position + 1
    /\ UNCHANGED <<inputs, stage, seen, occurrences, queries, accepts, exclusions,
                   stale, matched>>

RefuseDirection ==
    /\ Evaluating /\ position < Len(occurrences) /\ ~Matches(Judged)
    /\ ~DirectionFits(Judged)
    /\ Stop

Report ==
    /\ Evaluating /\ position = Len(occurrences)
    /\ stage' = "report"
    /\ UNCHANGED <<inputs, position, seen, occurrences, queries, accepts, exclusions,
                   verdicts>>

Next ==
    \/ Project \/ RefuseScenario \/ FinishProjection \/ RefuseProjection
    \/ RefuseExclusions \/ Match \/ Mismatch \/ RefuseDirection \/ Report

Spec == Init /\ [][Next]_vars

\* The numbers of the report.
Unexpected(set) == Cardinality({f \in set : ~f.excluded})
SupplementalUnexpected == Unexpected({f \in failures : f.supplemental})
ActiveUnexpected == Unexpected(failures) - SupplementalUnexpected
Success == Unexpected(failures) = 0 /\ stale = {}

------------------------------------------------------------------------------
Projected == stage \in {"evaluate", "report"}
ActiveOccurrences == {i \in DOMAIN occurrences : ~occurrences[i].supplemental}

\* What has been seen is in the ledger, what is judged is in the projection, and no
\* occurrence is counted twice.
TypeOK ==
    /\ stage \in {"project", "evaluate", "report", "error"}
    /\ position \in 0..(Len(corpus) + Len(occurrences))
    /\ seen \subseteq DOMAIN ledger
    /\ DOMAIN queries \subseteq Sources /\ accepts \subseteq DOMAIN queries
    /\ stale \subseteq DOMAIN exclusions
    /\ matched.active + matched.supplemental <= Len(occurrences)

\* A projection exists only if the ledger, the error steps and the tags tell the
\* same story: a scenario carries @skipGrammarCheck exactly if the ledger has its
\* query rejected, and the ledger has an entry for every scenario that expects a
\* compile-time SyntaxError and for no other line.
ReviewsTellTheSame ==
    Projected =>
        /\ DOMAIN ledger = {corpus[c].line : c \in {d \in DOMAIN corpus :
                                corpus[d].errors = <<"compile time">>}}
        /\ \A c \in DOMAIN corpus :
             corpus[c].skip <=> /\ corpus[c].line \in DOMAIN ledger
                                /\ ledger[corpus[c].line].expect = "reject"

\* Each occurrence has an id of its own, and they are in the order of the ids,
\* whatever the order of the scenarios, tables and named graphs.
IdsInOrder ==
    Projected => \A i, j \in DOMAIN occurrences :
                    i < j => Precedes(occurrences[i], occurrences[j])

\* All occurrences of a source agree with its one query, however far apart they
\* are: the parser cannot be asked to accept and to reject the same text.
QueriesConsistent ==
    Projected => \A i \in DOMAIN occurrences :
                    queries[occurrences[i].source] = occurrences[i].expect

\* What is projected can be judged: occurrences are told apart and agree.
ProjectionConsistent == TypeOK /\ IdsInOrder /\ QueriesConsistent

\* The gate opens exactly if the parser does with every source what is expected of
\* it, the excluded occurrences apart, and every exclusion is still needed and in
\* the direction it declares.
GateIsHonest ==
    stage = "report" =>
        (Success <=> \A i \in DOMAIN occurrences :
            LET o == occurrences[i] IN
            IF Excluded(o)
            THEN /\ (o.expect = "accept") # (o.source \in accepts)
                 /\ exclusions[o.id] = MismatchDirection(o)
            ELSE (o.expect = "accept") = (o.source \in accepts))

\* The report accounts for every occurrence once, by kind and in total, so that no
\* subtraction of its counts can underflow.
CountsAddUp ==
    stage = "report" =>
        LET excluded == Cardinality({f \in failures : f.excluded})
        IN  /\ matched.active + matched.supplemental + excluded
                 + Unexpected(failures) = Len(occurrences)
            /\ ActiveUnexpected + matched.active
                 <= Cardinality(ActiveOccurrences)
            /\ ActiveUnexpected >= 0
            /\ \A id \in DOMAIN exclusions :
                 (id \in stale) # (\E f \in failures : f.id = id /\ f.excluded)

\* Neither the verdict of the gate nor the numbers it reports mislead.
ReportIsHonest == GateIsHonest /\ CountsAddUp
=============================================================================
