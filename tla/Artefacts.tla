------------------------------ MODULE Artefacts ------------------------------
(***************************************************************************)
(* The two checked-in files that the maintenance tool generates and        *)
(* verifies: the parser (xtask/src/grammar.rs) and the TCK projection      *)
(* (xtask/src/tck.rs).  The parser is staged, rewritten and installed by   *)
(* renaming a synced temporary file; the projection is written in place.   *)
(* Commands of several processes interleave; the sources are edited while  *)
(* they run, an operation on a file fails, a process is killed, or the     *)
(* machine loses power and with it what was not yet on the disk.           *)
(*                                                                         *)
(* A content is the set of source versions it was made from, and its form. *)
(* The checked-in file is the content a reader sees now and the contents   *)
(* it may have after a loss of power.  A temporary file or directory is    *)
(* its role and a number, which stands for the process id and nonce in its *)
(* name.                                                                   *)
(***************************************************************************)
EXTENDS Naturals, FiniteSets

CONSTANTS
    Processes,      \* the processes that may run a command
    MaxNames,       \* bound: the temporary names of one role
    MaxEdits,       \* bound: how often the sources are edited
    Settings        \* which file, whose commands, and how much goes wrong

ASSUME BoundAssumption == MaxNames \in Nat /\ MaxEdits \in Nat
ASSUME SettingsAssumption ==
    \A s \in Settings :
        /\ s.artefact \in {"grammar", "tck"}
        /\ s.crew \subseteq Processes
        /\ s.left \in [edits : 0..MaxEdits, failures : Nat, crashes : Nat]

VARIABLES
    artefact,       \* the parser ("grammar") or the projection ("tck")
    crew,           \* the processes that run commands about it
    left,           \* bounds: edits, failing operations and crashes to come
    source,         \* the version of the sources
    file,           \* the checked-in parser or projection
    run,            \* each process's command and where it stands
    litter,         \* temporary names that nobody is going to remove
    broken          \* the last write in place was cut short or had a rival

setting == <<artefact, crew>>
vars == <<setting, left, source, file, run, litter, broken>>

Versions == 0..MaxEdits
Content(of, form) == [of |-> of, form |-> form]
Missing == Content({}, "missing")
Empty == Content({}, "empty")
Torn == Content({}, "torn")
Finished(v) == Content({v}, "finished")

Rest == [command |-> "none", at |-> "idle", work |-> Missing, safe |-> FALSE,
         names |-> {}, verdict |-> "none", alone |-> FALSE, found |-> Missing]

Generates(p) == run[p].command \in {"grammar generate", "tck generate"}
At(p, step) == run[p].at = step
Running(p) == run[p].at # "idle"
Rival(p) == \E q \in Processes \ {p} : At(q, "write")
Owned == UNION {run[p].names : p \in Processes}

Init ==
    /\ \E s \in Settings : artefact = s.artefact /\ crew = s.crew /\ left = s.left
    /\ source = 0
    /\ \E now \in {Missing, Finished(0)} : file = [now |-> now, after |-> {now}]
    /\ run = [p \in Processes |-> Rest]
    /\ litter = {}
    /\ broken = FALSE

\* The record of a process that goes on to a step, and the records of the others
\* when the file changes under them.
Spend(what) == left[what] > 0 /\ left' = [left EXCEPT ![what] = @ - 1]

Onward(p, step) == [run[p] EXCEPT !.at = step]
Only(p, record) == run' = [run EXCEPT ![p] = record]
Disturbing(p, record) ==
    run' = [q \in Processes |->
              IF q = p THEN record ELSE [run[q] EXCEPT !.alone = FALSE]]

\* Faulty: every process takes the same name.
FixedName(role) == <<role, 1>>

\* A directory or file named after the process and the time is not there yet;
\* with every name of the bound in use, the last one is met again.
FreeNames(role) == {<<role, n>> : n \in 1..MaxNames} \ (Owned \cup litter)
NewName(role) ==
    IF FreeNames(role) = {} THEN <<role, MaxNames>>
    ELSE CHOOSE name \in FreeNames(role) : TRUE

\* Faulty: a verify that fails leaves its own directory behind.
ReturnsEarly(p) ==
    IF At(p, "enter") \/ At(p, "stage") THEN "idle" ELSE "unstage"

\* The steps that clean up after a failure, in the order of the code.
AfterFailure(p) ==
    IF run[p].command \in {"tck generate", "tck verify"} \/ At(p, "enter") THEN "idle"
    ELSE IF At(p, "stage") \/ At(p, "compare")
    THEN IF Generates(p) THEN "idle" ELSE "leave"
    ELSE "unstage"

\* An open temporary file is removed when it is dropped, so not by a later step.
Failing(p) ==
    [Onward(p, AfterFailure(p)) EXCEPT
       !.verdict = "error",
       !.names = {name \in @ : name[1] # "file"}]

\* fs::create_dir: an error when the name is taken.
Create(p, role, step) ==
    LET name == NewName(role) IN
    /\ IF name \in Owned \cup litter
       THEN Only(p, Failing(p))
       ELSE Only(p, [Onward(p, step) EXCEPT !.names = @ \cup {name}])
    /\ UNCHANGED <<source, file, litter, setting, left, broken>>

\* Faulty: the directory is forgotten.
RemoveLater(p, role, step) ==
    LET gone == {name \in run[p].names : name[1] = role} IN
    /\ Only(p, Onward(p, step))
    /\ \/ UNCHANGED <<litter, left>>
       \/ Spend("failures") /\ litter' = litter \cup gone
    /\ UNCHANGED <<source, file, setting, broken>>

\* fs::remove_dir_all: a failure is a warning and leaves the directory behind.
Remove(p, role, step) ==
    LET gone == {name \in run[p].names : name[1] = role} IN
    /\ Only(p, [Onward(p, step) EXCEPT !.names = @ \ gone])
    /\ \/ UNCHANGED <<litter, left>>
       \/ Spend("failures") /\ litter' = litter \cup gone
    /\ UNCHANGED <<source, file, setting, broken>>

Work(p, content, step) ==
    /\ Only(p, [Onward(p, step) EXCEPT !.work = content])
    /\ UNCHANGED <<source, file, litter, setting, left, broken>>

------------------------------------------------------------------------------
Commands ==
    IF artefact = "grammar" THEN {"grammar generate", "grammar verify"}
    ELSE {"tck generate", "tck verify"}

FirstStep(command) ==
    CASE command = "grammar generate" -> "stage"
      [] command = "grammar verify" -> "enter"
      [] OTHER -> "reviews"

\* Faulty: the projection is truncated before it is built.
StartTruncating(p, command) ==
    /\ ~Running(p)
    /\ file' = IF command = "tck generate"
               THEN [now |-> Empty, after |-> file.after \cup {Empty}] ELSE file
    /\ Disturbing(p, [Rest EXCEPT !.command = command, !.at = FirstStep(command),
                                  !.alone = TRUE, !.found = file.now])
    /\ UNCHANGED <<source, litter, setting, left, broken>>

Start(p, command) ==
    /\ ~Running(p)
    /\ Only(p, [Rest EXCEPT !.command = command, !.at = FirstStep(command),
                            !.alone = ~Rival(p), !.found = file.now])
    /\ UNCHANGED <<source, file, litter, setting, left, broken>>

\* grammar verify: a missing parser is an error, otherwise a directory to
\* generate into.
Enter(p) ==
    /\ At(p, "enter")
    /\ IF file.now = Missing
       THEN /\ Only(p, Failing(p))
            /\ UNCHANGED <<source, file, litter, setting, left, broken>>
       ELSE Create(p, "temp", "stage")

Stage(p) == At(p, "stage") /\ Create(p, "staging", "generate")

\* LALRPOP reads the grammar; the header and rustfmt; the contextual names and
\* rustfmt again.
Generate(p) == At(p, "generate") /\ Work(p, Content({source}, "raw"), "format")
Format(p) ==
    At(p, "format") /\ Work(p, [run[p].work EXCEPT !.form = "formatted"], "rewrite")
Rewrite(p) ==
    At(p, "rewrite") /\ Work(p, [run[p].work EXCEPT !.form = "finished"], "install")

\* Faulty: the parser is written in place.
OpenInPlace(p) ==
    /\ At(p, "install")
    /\ file' = [now |-> Empty, after |-> file.after \cup {Empty}]
    /\ Disturbing(p, [Onward(p, "sync") EXCEPT !.safe = FALSE])
    /\ UNCHANGED <<source, litter, setting, left, broken>>

\* A temporary file next to the destination receives the parser and is synced:
\* names are tried until one is new.
OpenTemporary(p) ==
    /\ At(p, "install") /\ NewName("file") \notin Owned \cup litter
    /\ Only(p, [Onward(p, "sync") EXCEPT !.names = @ \cup {NewName("file")},
                                         !.safe = FALSE])
    /\ UNCHANGED <<source, file, litter, setting, left, broken>>

\* Faulty: the temporary file is not synced.
SkipSync(p) ==
    /\ At(p, "sync")
    /\ Only(p, Onward(p, "persist"))
    /\ UNCHANGED <<source, file, litter, setting, left, broken>>

Sync(p) ==
    /\ At(p, "sync")
    /\ Only(p, [Onward(p, "persist") EXCEPT !.safe = TRUE])
    /\ UNCHANGED <<source, file, litter, setting, left, broken>>

\* The rename: readers see the new parser, the disk has it or still the old one.
Persist(p) ==
    LET done == [Onward(p, "unstage") EXCEPT
                   !.verdict = IF Generates(p) THEN "ok" ELSE @,
                   !.names = {name \in @ : name[1] # "file"}]
        written == {run[p].work} \cup IF run[p].safe THEN {} ELSE {Empty}
    IN  /\ At(p, "persist")
        /\ IF Generates(p)
           THEN /\ file' = [now |-> run[p].work, after |-> file.after \cup written]
                /\ Disturbing(p, done)
           ELSE /\ UNCHANGED file
                /\ Only(p, done)
        /\ UNCHANGED <<source, litter, setting, left, broken>>

Unstage(p) ==
    /\ At(p, "unstage")
    /\ Remove(p, "staging", IF Generates(p) THEN "idle"
                            ELSE IF run[p].verdict = "error" THEN "leave"
                            ELSE "compare")
Leave(p) == At(p, "leave") /\ Remove(p, "temp", "idle")

------------------------------------------------------------------------------
\* tck: the projection is built from the reviews and then from the corpus.
ReadReviews(p) ==
    At(p, "reviews") /\ Work(p, Content({source}, "reviews"), "corpus")
ReadCorpus(p) ==
    /\ At(p, "corpus")
    /\ Work(p, Content(run[p].work.of \cup {source}, "finished"),
            IF Generates(p) THEN "truncate" ELSE "compare")

\* Faulty: any whole parser is taken for the current one.
AnyVersion(p) ==
    IF file.now = Missing THEN "error"
    ELSE IF file.now.form = run[p].work.form THEN "ok" ELSE "stale"

\* Both verify commands compare byte for byte; a file that cannot be read is an
\* error.
Judged(p) ==
    IF file.now = Missing THEN "error"
    ELSE IF file.now = run[p].work THEN "ok" ELSE "stale"
Compare(p) ==
    /\ At(p, "compare")
    /\ Only(p, [Onward(p, IF run[p].command = "grammar verify" THEN "leave"
                          ELSE "idle") EXCEPT !.verdict = Judged(p)])
    /\ UNCHANGED <<source, file, litter, setting, left, broken>>

\* Faulty: only a missing projection is written.
WriteOnce(p) ==
    /\ At(p, "truncate")
    /\ IF file.now = Missing
       THEN /\ file' = [now |-> Empty, after |-> file.after \cup {Empty}]
            /\ Disturbing(p, Onward(p, "write"))
       ELSE /\ Only(p, [Onward(p, "idle") EXCEPT !.verdict = "ok"])
            /\ UNCHANGED file
    /\ UNCHANGED <<source, litter, setting, left, broken>>

\* fs::write opens the projection with truncation and then writes it.
Truncate(p) ==
    /\ At(p, "truncate")
    /\ file' = [now |-> Empty, after |-> file.after \cup {Empty}]
    /\ Disturbing(p, Onward(p, "write"))
    /\ UNCHANGED <<source, litter, setting, left, broken>>

\* What two writers at once leave is one of their projections or a mixture.
Write(p) ==
    LET contended == Rival(p) \/ file.now # Empty IN
    /\ At(p, "write")
    /\ \E now \in {run[p].work} \cup IF contended THEN {Torn} ELSE {} :
         file' = [now |-> now, after |-> file.after \cup {Empty, Torn, now}]
    /\ broken' = contended
    /\ Disturbing(p, [Onward(p, "idle") EXCEPT !.verdict = "ok"])
    /\ UNCHANGED <<source, litter, setting, left>>

------------------------------------------------------------------------------
Step(p) ==
    \/ Enter(p) \/ Stage(p) \/ Generate(p) \/ Format(p) \/ Rewrite(p)
    \/ OpenTemporary(p) \/ Sync(p) \/ Persist(p) \/ Unstage(p) \/ Leave(p)
    \/ ReadReviews(p) \/ ReadCorpus(p) \/ Truncate(p) \/ Write(p)
    \/ Compare(p)

\* An operation returns an error; fs::write may have written a part by then.
Fail(p) ==
    /\ Running(p) /\ run[p].at \notin {"unstage", "leave"}
    /\ Spend("failures")
    /\ IF At(p, "write")
       THEN /\ \E now \in {file.now, Torn} :
                 file' = [now |-> now, after |-> file.after \cup {Torn}]
            /\ broken' = TRUE
            /\ Disturbing(p, Failing(p))
       ELSE /\ UNCHANGED <<file, broken>>
            /\ Only(p, Failing(p))
    /\ UNCHANGED <<source, litter, setting>>

\* A process is killed: nothing it holds is cleaned up.
Kill(p) ==
    /\ Running(p) /\ Spend("crashes")
    /\ litter' = litter \cup run[p].names
    /\ IF At(p, "write")
       THEN /\ \E now \in {file.now, Torn} :
                 file' = [now |-> now, after |-> file.after \cup {Torn}]
            /\ broken' = TRUE
            /\ Disturbing(p, Rest)
       ELSE /\ UNCHANGED <<file, broken>>
            /\ Only(p, Rest)
    /\ UNCHANGED <<source, setting>>

PowerLoss ==
    /\ Spend("crashes")
    /\ \E now \in file.after : file' = [now |-> now, after |-> {now}]
    /\ broken' = \/ broken \/ file.after # {file.now}
                  \/ \E p \in Processes : At(p, "write")
    /\ litter' = litter \cup Owned
    /\ run' = [p \in Processes |-> Rest]
    /\ UNCHANGED <<source, setting>>

\* The operating system brings the file to the disk.
WriteBack ==
    /\ file.after # {file.now}
    /\ file' = [file EXCEPT !.after = {file.now}]
    /\ UNCHANGED <<source, run, litter, setting, left, broken>>

Edit ==
    /\ Spend("edits") /\ source' = source + 1
    /\ run' = [p \in Processes |-> [run[p] EXCEPT !.alone = FALSE]]
    /\ UNCHANGED <<file, litter, setting, broken>>

Next ==
    \/ \E p \in crew :
         \/ Step(p) \/ Fail(p) \/ Kill(p)
         \/ \E command \in Commands : Start(p, command)
    \/ PowerLoss \/ WriteBack \/ Edit

Spec == Init /\ [][Next]_vars

\* A command that runs goes on, and somebody follows the advice of the error
\* messages and generates again and again.
Fairness ==
    \A p \in Processes :
        /\ WF_vars(p \in crew /\ Step(p))
        /\ \A command \in {"grammar generate", "tck generate"} :
             SF_vars(p \in crew /\ command \in Commands /\ Start(p, command))
FairSpec == Spec /\ Fairness

------------------------------------------------------------------------------
Contents ==
    {Missing, Empty, Torn}
    \cup [of : SUBSET Versions, form : {"reviews", "raw", "formatted", "finished"}]
\* Contents are among those the commands make, and no temporary name is used by
\* two processes at once or taken again while a crash left it behind.
TypeOK ==
    /\ source \in Versions
    /\ file.now \in Contents /\ file.after \subseteq Contents
    /\ \A p \in Processes :
         /\ run[p].work \in Contents /\ run[p].found \in Contents
         /\ run[p].names \cap litter = {}
         /\ \A q \in Processes \ {p} : run[p].names \cap run[q].names = {}
    /\ left \in [edits : Nat, failures : Nat, crashes : Nat]
    /\ broken \in BOOLEAN

\* The checked-in parser is at every moment, and after a loss of power at any
\* moment, absent or a whole parser that went through every stage.
AlwaysWhole ==
    artefact = "grammar" =>
        {file.now} \cup file.after
            \subseteq {Missing} \cup {Finished(v) : v \in Versions}

\* `grammar generate` that ends with an error has not changed the parser.
FailureChangesNothing ==
    \A p \in Processes :
        ~Running(p) /\ run[p].command = "grammar generate" /\ run[p].alone
        /\ run[p].verdict = "error" => file.now = run[p].found

\* A projection that is not whole is being written, or its last writer was cut
\* short or had a rival: failing to read the reviews or the corpus does not
\* cost the file.
TornExplained ==
    (artefact = "tck" /\ file.now \in {Empty, Torn}) =>
        broken \/ \E p \in Processes : At(p, "write")

\* No failure, crash or rival costs the checked-in file more than the way it is
\* written explains: the parser stays whole and a failing generate leaves it
\* alone, the projection is cut short only by a writer that did not finish alone.
FilesKept == AlwaysWhole /\ FailureChangesNothing /\ TornExplained

\* When nobody else wrote the sources or the file since the command began:
\* after a generate that succeeded the file is that of the sources, and verify
\* succeeded exactly if it is, whatever crash or failure left the file behind.
VerdictsHold ==
    \A p \in Processes :
        ~Running(p) /\ run[p].alone =>
            /\ run[p].verdict = "ok" => file.now = Finished(source)
            /\ run[p].verdict = "stale" => file.now # Finished(source)

\* A command that has ended, in success or after the failure of any step, has
\* tried to remove every temporary file and directory it made, and while it runs
\* nobody else uses their names, what a crash left behind included.
LeavesNothing == TypeOK /\ \A p \in Processes : ~Running(p) => run[p].names = {}

UpToDate == file.now = Finished(source)

\* Whatever crashes left behind, generating again brings the parser up to date
\* for good once the sources no longer change, and a projection that nobody else
\* writes again and again: it is repaired though it was torn.
Recovers ==
    /\ artefact = "grammar" => <>[]UpToDate
    /\ artefact = "tck" /\ Cardinality(crew) = 1 => []<>UpToDate
=============================================================================
