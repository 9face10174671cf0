-------------------------- MODULE MaintenanceProofs --------------------------
(***************************************************************************)
(* The maintenance tool, xtask: its checked-in files and its audit.        *)
(*                                                                         *)
(* What Artefacts says of the two checked-in files holds for any number of *)
(* processes, temporary names, edits, failures and crashes (generate,      *)
(* verify and generate_into in xtask/src/grammar.rs and xtask/src/tck.rs). *)
(*                                                                         *)
(* The invariant says of each command on its own what it holds at each     *)
(* step: the roles of its temporary names, the stage of its content, its   *)
(* verdict, and, as long as nobody else wrote the sources or the file,     *)
(* how the file stands to the content.  What relates processes is little:  *)
(* names are not shared, and nobody writes beside a command that is alone. *)
(*                                                                         *)
(* The search of AliasAudit is right for every production map that passed  *)
(* the earlier checks, of any size and shape, cyclic ones included         *)
(* (validate_aliases and alias_reaches_direct in xtask/src/spec.rs).       *)
(*                                                                         *)
(* The order in which the memo is filled is the argument: a name enters it *)
(* after all its targets, and is not in it before.  So the memo is closed  *)
(* under targets, a name that enters it is not reachable from itself, and  *)
(* what holds of its targets' endpoints gives what holds of its own: no    *)
(* induction over the map is needed.                                       *)
(***************************************************************************)
EXTENDS Artefacts, AliasAudit, SequenceTheorems, FiniteSetTheorems, TLAPS

(* The checked-in files.                                                   *)

Roles == {"temp", "staging", "file"}
Verdicts == {"none", "ok", "error", "stale"}
CommandsOf(kind) ==
    IF kind = "grammar" THEN {"grammar generate", "grammar verify"}
    ELSE {"tck generate", "tck verify"}
Staged == {"generate", "format", "rewrite", "install", "sync", "persist", "unstage"}
StepsOf(command) ==
    CASE command = "grammar generate" -> {"stage", "idle"} \cup Staged
      [] command = "grammar verify" -> {"enter", "stage", "compare", "leave", "idle"} \cup Staged
      [] command = "tck generate" -> {"reviews", "corpus", "truncate", "write", "idle"}
      [] command = "tck verify" -> {"reviews", "corpus", "compare", "idle"}
      [] OTHER -> {"idle"}

Forms == {"reviews", "raw", "formatted", "finished"}
Record ==
    [command : {"none", "grammar generate", "grammar verify", "tck generate", "tck verify"},
     at : {"idle", "enter", "stage", "compare", "leave", "reviews", "corpus", "truncate", "write"}
          \cup Staged,
     work : Contents, safe : BOOLEAN, names : SUBSET (Roles \X Nat),
     verdict : Verdicts, alone : BOOLEAN, found : Contents]

\* The temporary names a command holds at a step.
RolesAt(command, at) ==
    (IF command = "grammar verify" /\ at \notin {"idle", "enter"} THEN {"temp"} ELSE {})
    \cup (IF at \in Staged THEN {"staging"} ELSE {})
    \cup (IF at \in {"sync", "persist"} THEN {"file"} ELSE {})

\* The content it works on, and what has been decided.
Stages(r) ==
    /\ r.at = "corpus" => r.work.form = "reviews"
    /\ r.at \in {"truncate", "write", "compare"} => r.work.form = "finished"
    /\ r.at = "format" => \E v \in Versions : r.work = Content({v}, "raw")
    /\ r.at = "rewrite" => \E v \in Versions : r.work = Content({v}, "formatted")
    /\ r.at \in {"install", "sync", "persist"} => \E v \in Versions : r.work = Finished(v)
    /\ r.at = "persist" => r.safe
    /\ r.at \notin {"idle", "unstage", "leave"} => r.verdict = "none"
    /\ r.at = "unstage" =>
         IF r.command = "grammar verify"
         THEN r.verdict = "error" \/ (r.verdict = "none" /\ r.work.form = "finished")
         ELSE r.verdict \in {"ok", "error"}

Fits(kind, r) ==
    /\ r \in Record
    /\ r.command \in {"none"} \cup CommandsOf(kind)
    /\ r.at \in StepsOf(r.command)
    /\ \A name \in r.names : name[1] \in RolesAt(r.command, r.at)
    /\ Stages(r)

\* What a command knows as long as nobody else writes.
Knows(r, now, version) ==
    r.alone =>
        /\ r.verdict = "ok" => now = Finished(version)
        /\ r.verdict = "stale" => now # Finished(version)
        /\ r.verdict = "none" /\ r.at \notin {"idle", "enter", "stage", "generate", "reviews"} =>
             r.work.of = {version}
        /\ r.command = "grammar generate" /\ r.verdict # "ok" => now = r.found
        /\ r.at = "write" => now = Empty

CommandsInv ==
    \A p \in Processes : Fits(artefact, run[p]) /\ Knows(run[p], file.now, source)
NamesInv ==
    /\ litter \subseteq Roles \X Nat
    /\ \A p \in Processes :
         /\ run[p].names \cap litter = {}
         /\ \A q \in Processes \ {p} : run[p].names \cap run[q].names = {}
AloneInv ==
    \A p \in Processes : run[p].alone =>
        \A q \in Processes \ {p} : run[q].at # "write"
StateInv ==
    /\ artefact \in {"grammar", "tck"} /\ crew \subseteq Processes
    /\ run \in [Processes -> Record]
    /\ source \in Nat /\ left \in [edits : Nat, failures : Nat, crashes : Nat]
    /\ source + left.edits <= MaxEdits
    /\ file \in [now : Contents, after : SUBSET Contents]
    /\ broken \in BOOLEAN
FileInv == AlwaysWhole /\ TornExplained

ArtefactInv == StateInv /\ CommandsInv /\ NamesInv /\ AloneInv /\ FileInv

------------------------------------------------------------------------------
LEMMA ContentTypes ==
    /\ Missing \in Contents /\ Empty \in Contents /\ Torn \in Contents
    /\ Missing # Empty /\ Missing # Torn /\ Empty # Torn
    /\ \A v : Finished(v).form = "finished" /\ Finished(v).of = {v}
              /\ Finished(v) \notin {Missing, Empty, Torn}
    /\ \A v \in Versions : /\ Finished(v) \in Contents
                           /\ Content({v}, "raw") \in Contents
                           /\ Content({v}, "formatted") \in Contents
    /\ \A c \in Contents : c.of \subseteq Versions
<1>1. /\ Missing \in Contents /\ Empty \in Contents /\ Torn \in Contents
      /\ Missing # Empty /\ Missing # Torn /\ Empty # Torn
  BY DEF Contents, Missing, Empty, Torn, Content
<1>2. \A v : Finished(v).form = "finished" /\ Finished(v).of = {v}
             /\ Finished(v) \notin {Missing, Empty, Torn}
  BY DEF Missing, Empty, Torn, Finished, Content
<1>3. \A v \in Versions : /\ Finished(v) \in Contents
                          /\ Content({v}, "raw") \in Contents
                          /\ Content({v}, "formatted") \in Contents
  BY DEF Contents, Finished, Content
<1>4. \A c \in Contents : c.of \subseteq Versions
  <2>1. Missing.of = {} /\ Empty.of = {} /\ Torn.of = {}
    BY DEF Missing, Empty, Torn, Content
  <2>2. \A c \in [of : SUBSET Versions, form : {"reviews", "raw", "formatted", "finished"}] :
          c.of \subseteq Versions
    OBVIOUS
  <2> QED BY <2>1, <2>2 DEF Contents
<1> QED BY <1>1, <1>2, <1>3, <1>4

LEMMA ContentParts ==
    \A of, form : Content(of, form).of = of /\ Content(of, form).form = form
BY DEF Content

LEMMA RestFits ==
    ASSUME NEW kind, NEW now, NEW version
    PROVE  /\ Rest \in Record /\ Fits(kind, Rest) /\ Knows(Rest, now, version)
           /\ ~Rest.alone /\ Rest.names = {} /\ Rest.at = "idle"
<1>1. Rest \in Record
  BY ContentTypes DEF Rest, Record, Verdicts, Staged
<1>2. ~Rest.alone /\ Rest.names = {} /\ Rest.at = "idle" /\ Rest.command = "none"
  BY DEF Rest
<1> QED BY <1>1, <1>2 DEF Fits, Knows, Stages, StepsOf, Staged

(* A command that is no longer alone goes on as before.                    *)
LEMMA Disturbed ==
    ASSUME NEW kind, NEW r, Fits(kind, r), NEW now, NEW version
    PROVE  LET s == [r EXCEPT !.alone = FALSE] IN
           /\ s \in Record /\ Fits(kind, s) /\ Knows(s, now, version)
           /\ ~s.alone /\ s.names = r.names /\ s.at = r.at
<1> DEFINE s == [r EXCEPT !.alone = FALSE]
<1>1. r \in Record
  BY DEF Fits
<1>2. /\ s \in Record /\ ~s.alone /\ s.names = r.names /\ s.at = r.at
      /\ s.command = r.command /\ s.work = r.work /\ s.verdict = r.verdict
      /\ (s.safe <=> r.safe)
  BY <1>1 DEF Record
<1> HIDE DEF s
<1>3. Stages(r) => Stages(s)
  BY <1>2 DEF Stages
<1>4. Fits(kind, s)
  BY <1>2, <1>3 DEF Fits
<1>5. Knows(s, now, version)
  BY <1>2 DEF Knows
<1> QED BY <1>2, <1>4, <1>5 DEF s

LEMMA OwnedIs ==
    /\ \A p \in Processes : run[p].names \subseteq Owned
    /\ Owned' = UNION {run'[p].names : p \in Processes}
BY DEF Owned

(* Names stay apart when one command takes new ones and gives up others.   *)
LEMMA NamesApart ==
    ASSUME NamesInv, NEW p \in Processes, NEW fresh, fresh \cap (Owned \cup litter) = {},
           fresh \subseteq Roles \X Nat,
           run'[p].names \subseteq run[p].names \cup fresh,
           \A q \in Processes \ {p} : run'[q].names = run[q].names,
           run[p].names \subseteq Roles \X Nat,
           litter' \subseteq litter \cup (run[p].names \ run'[p].names)
    PROVE  NamesInv'
<1>1. litter' \subseteq Roles \X Nat
  BY DEF NamesInv
<1>2. \A q \in Processes \ {p} : fresh \cap run[q].names = {}
  BY OwnedIs
<1>3. run'[p].names \cap litter' = {}
  BY DEF NamesInv
<1>4. \A q \in Processes \ {p} : /\ run'[p].names \cap run'[q].names = {}
                                 /\ run'[q].names \cap litter' = {}
  BY <1>2 DEF NamesInv
<1>5. \A q, s \in Processes \ {p} : q # s => run'[q].names \cap run'[s].names = {}
  BY DEF NamesInv
<1> QED BY <1>1, <1>3, <1>4, <1>5 DEF NamesInv

(* A step of one command that leaves the file and the sources alone and is *)
(* no step of a write keeps the invariant when the command's new record    *)
(* fits and it knows what it claims.                                       *)
LEMMA QuietStep ==
    ASSUME ArtefactInv, NEW p \in Processes, NEW r, run' = [run EXCEPT ![p] = r],
           UNCHANGED <<artefact, crew, source, file, broken>>,
           Fits(artefact, r), Knows(r, file.now, source),
           r.alone => run[p].alone \/ ~Rival(p),
           r.at # "write", run[p].at # "write",
           NEW fresh, fresh \cap (Owned \cup litter) = {}, fresh \subseteq Roles \X Nat,
           r.names \subseteq run[p].names \cup fresh,
           litter' \subseteq litter \cup (run[p].names \ r.names),
           left' \in [edits : Nat, failures : Nat, crashes : Nat],
           left'.edits <= left.edits
    PROVE  ArtefactInv'
<1>1. /\ run \in [Processes -> Record] /\ r \in Record
      /\ run' \in [Processes -> Record] /\ run'[p] = r
      /\ \A q \in Processes \ {p} : run'[q] = run[q]
  BY DEF ArtefactInv, StateInv, Fits
<1>2. StateInv'
  <2>1. source \in Nat /\ left.edits \in Nat /\ left'.edits \in Nat /\ source + left.edits <= MaxEdits
    BY DEF ArtefactInv, StateInv
  <2>2. source + left'.edits <= MaxEdits
    BY <2>1, BoundAssumption
  <2> QED BY <1>1, <2>2 DEF ArtefactInv, StateInv
<1>3. CommandsInv'
  BY <1>1 DEF ArtefactInv, CommandsInv
<1>4. NamesInv'
  <2>1. run[p].names \subseteq Roles \X Nat
    BY <1>1 DEF Record
  <2> QED BY <1>1, <2>1, NamesApart DEF ArtefactInv
<1>5. AloneInv'
  BY <1>1 DEF ArtefactInv, AloneInv, Rival, At
<1>6. FileInv'
  BY <1>1 DEF ArtefactInv, FileInv, AlwaysWhole, TornExplained, At
<1> QED BY <1>2, <1>3, <1>4, <1>5, <1>6 DEF ArtefactInv

(* A step that writes the file tells every other command that it is not    *)
(* alone.                                                                  *)
LEMMA DisturbingStep ==
    ASSUME ArtefactInv, NEW p \in Processes, NEW r, Disturbing(p, r),
           UNCHANGED <<artefact, crew, source>>,
           file' \in [now : Contents, after : SUBSET Contents], broken' \in BOOLEAN,
           Fits(artefact, r), Knows(r, file'.now, source),
           r.alone => run[p].alone,
           r.names \subseteq run[p].names,
           litter' \subseteq litter \cup (run[p].names \ r.names),
           left' \in [edits : Nat, failures : Nat, crashes : Nat],
           left'.edits <= left.edits,
           FileInv'
    PROVE  ArtefactInv'
<1>1. run \in [Processes -> Record] /\ r \in Record
  BY DEF ArtefactInv, StateInv, Fits
<1>2. /\ run' \in [Processes -> Record] /\ run'[p] = r
      /\ \A q \in Processes \ {p} :
           /\ Fits(artefact, run'[q]) /\ Knows(run'[q], file'.now, source)
           /\ ~run'[q].alone /\ run'[q].names = run[q].names /\ run'[q].at = run[q].at
  <2>1. run' = [q \in Processes |-> IF q = p THEN r ELSE [run[q] EXCEPT !.alone = FALSE]]
    BY DEF Disturbing
  <2>2. ASSUME NEW q \in Processes \ {p}
        PROVE  /\ run'[q] = [run[q] EXCEPT !.alone = FALSE] /\ run'[q] \in Record
               /\ Fits(artefact, run'[q]) /\ Knows(run'[q], file'.now, source)
               /\ ~run'[q].alone /\ run'[q].names = run[q].names /\ run'[q].at = run[q].at
    <3>1. run'[q] = [run[q] EXCEPT !.alone = FALSE] /\ Fits(artefact, run[q])
      BY <2>1 DEF ArtefactInv, CommandsInv
    <3> QED BY <3>1, Disturbed
  <2>3. run'[p] = r
    BY <2>1
  <2>4. run' \in [Processes -> Record]
    BY <1>1, <2>1, <2>2, <2>3
  <2> QED BY <2>2, <2>3, <2>4
<1>3. StateInv'
  <2>1. source \in Nat /\ left.edits \in Nat /\ left'.edits \in Nat /\ source + left.edits <= MaxEdits
    BY DEF ArtefactInv, StateInv
  <2>2. source + left'.edits <= MaxEdits
    BY <2>1, BoundAssumption
  <2> QED BY <1>2, <2>2 DEF ArtefactInv, StateInv
<1>4. CommandsInv'
  BY <1>2 DEF CommandsInv
<1>5. NamesInv'
  <2>1. run[p].names \subseteq Roles \X Nat
    BY <1>1 DEF Record
  <2> DEFINE fresh == {}
  <2>2. fresh \cap (Owned \cup litter) = {} /\ fresh \subseteq Roles \X Nat
    OBVIOUS
  <2>3. r.names \subseteq run[p].names \cup fresh
    OBVIOUS
  <2> HIDE DEF fresh
  <2> QED BY <1>2, <2>1, <2>2, <2>3, NamesApart DEF ArtefactInv
<1>6. AloneInv'
  BY <1>2 DEF ArtefactInv, AloneInv
<1> QED BY <1>3, <1>4, <1>5, <1>6 DEF ArtefactInv

------------------------------------------------------------------------------
(* The commands: which of them is at which step, and what it holds there.  *)
LEMMA StepIs ==
    ASSUME NEW kind \in {"grammar", "tck"}, NEW r, Fits(kind, r)
    PROVE  /\ r.at \in {"enter", "leave"} => r.command = "grammar verify"
           /\ r.at \in {"stage"} \cup Staged =>
                r.command \in {"grammar generate", "grammar verify"}
           /\ r.at \in {"reviews", "corpus"} => r.command \in {"tck generate", "tck verify"}
           /\ r.at \in {"truncate", "write"} => r.command = "tck generate"
           /\ r.at = "compare" => r.command \in {"grammar verify", "tck verify"}
           /\ r.command \in {"grammar generate", "grammar verify"} => kind = "grammar"
           /\ r.command \in {"tck generate", "tck verify"} => kind = "tck" /\ r.names = {}
           /\ r.at = "idle" => r.names = {}
<1>1. r.at \in StepsOf(r.command) /\ r.command \in {"none"} \cup CommandsOf(kind)
  BY DEF Fits
<1>2. /\ r.at \in {"enter", "leave"} => r.command = "grammar verify"
      /\ r.at \in {"stage"} \cup Staged => r.command \in {"grammar generate", "grammar verify"}
      /\ r.at \in {"reviews", "corpus"} => r.command \in {"tck generate", "tck verify"}
      /\ r.at \in {"truncate", "write"} => r.command = "tck generate"
      /\ r.at = "compare" => r.command \in {"grammar verify", "tck verify"}
  BY <1>1 DEF StepsOf, Staged, CommandsOf
<1>3. /\ r.command \in {"grammar generate", "grammar verify"} => kind = "grammar"
      /\ r.command \in {"tck generate", "tck verify"} => kind = "tck"
  BY <1>1 DEF CommandsOf
<1>4. ASSUME r.command \in {"tck generate", "tck verify"} \/ r.at = "idle"
      PROVE  r.names = {}
  <2>1. RolesAt(r.command, r.at) = {}
    BY <1>1, <1>4 DEF RolesAt, StepsOf, Staged
  <2> QED BY <2>1 DEF Fits
<1> QED BY <1>2, <1>3, <1>4

LEMMA CommandIs ==
    ASSUME ArtefactInv, NEW p \in crew
    PROVE  /\ p \in Processes /\ run[p] \in Record /\ Fits(artefact, run[p])
           /\ Knows(run[p], file.now, source) /\ artefact \in {"grammar", "tck"}
           /\ file \in [now : Contents, after : SUBSET Contents] /\ source \in Versions
           /\ left \in [edits : Nat, failures : Nat, crashes : Nat]
<1>1. p \in Processes
  BY DEF ArtefactInv, StateInv
<1>2. source \in Versions
  <2>1. source \in Nat /\ left.edits \in Nat /\ source + left.edits <= MaxEdits
    BY DEF ArtefactInv, StateInv
  <2> QED BY <2>1, BoundAssumption DEF Versions
<1> QED BY <1>1, <1>2 DEF ArtefactInv, StateInv, CommandsInv

LEMMA NewNameIs ==
    ASSUME NEW role \in Roles
    PROVE  NewName(role) \in Roles \X Nat /\ NewName(role)[1] = role
<1>1. CASE FreeNames(role) = {}
  BY <1>1, BoundAssumption DEF NewName
<1>2. CASE FreeNames(role) # {}
  <2>1. NewName(role) \in FreeNames(role)
    BY <1>2 DEF NewName
  <2> QED BY <2>1 DEF FreeNames
<1> QED BY <1>1, <1>2

(* A step of one command with no new name.                                 *)
LEMMA PlainStep ==
    ASSUME ArtefactInv, NEW p \in crew, NEW r, Only(p, r),
           UNCHANGED <<artefact, crew, source, file, broken, litter, left>>,
           Fits(artefact, r), Knows(r, file.now, source),
           r.alone => run[p].alone \/ ~Rival(p),
           r.at # "write", run[p].at # "write", r.names \subseteq run[p].names
    PROVE  ArtefactInv'
<1> DEFINE fresh == {}
<1>1. p \in Processes /\ run' = [run EXCEPT ![p] = r]
  BY CommandIs DEF Only
<1>2. /\ fresh \cap (Owned \cup litter) = {} /\ fresh \subseteq Roles \X Nat
      /\ r.names \subseteq run[p].names \cup fresh
      /\ litter' \subseteq litter \cup (run[p].names \ r.names)
  OBVIOUS
<1>3. /\ left' \in [edits : Nat, failures : Nat, crashes : Nat]
      /\ left'.edits <= left.edits
  BY CommandIs
<1> HIDE DEF fresh
<1> QED BY <1>1, <1>2, <1>3, QuietStep

(* A command whose operation failed has a verdict, keeps nothing open and  *)
(* goes to the step that cleans up what it still holds.                    *)
LEMMA FailingFits ==
    ASSUME ArtefactInv, NEW p \in crew, run[p].at \notin {"idle", "unstage", "leave"}
    PROVE  /\ Fits(artefact, Failing(p)) /\ Failing(p).names \subseteq run[p].names
           /\ (Failing(p).alone <=> run[p].alone)
           /\ Failing(p).at # "write" /\ Knows(Failing(p), file.now, source)
           /\ run[p].at = "write" => \A now : Knows(Failing(p), now, source)
<1> DEFINE r == Failing(p)
           after == AfterFailure(p)
<1>1. /\ run[p] \in Record /\ Fits(artefact, run[p]) /\ Knows(run[p], file.now, source)
      /\ artefact \in {"grammar", "tck"} /\ run[p].at \in StepsOf(run[p].command)
      /\ run[p].command \in {"none"} \cup CommandsOf(artefact)
      /\ run[p].verdict = "none"
  BY CommandIs DEF Fits, Stages
<1>2. after \in {"idle", "leave", "unstage"}
  BY DEF AfterFailure
<1>3. /\ r \in Record /\ r.command = run[p].command /\ r.at = after /\ r.verdict = "error"
      /\ r.names = {name \in run[p].names : name[1] # "file"}
      /\ (r.alone <=> run[p].alone) /\ r.found = run[p].found
  BY <1>1, <1>2 DEF Failing, Onward, Record, Verdicts, Staged
<1>4. after \in StepsOf(run[p].command)
  <2>1. CASE run[p].command \in {"tck generate", "tck verify"}
    BY <2>1 DEF AfterFailure, StepsOf
  <2>2. CASE run[p].command = "grammar generate"
    <3>1. after \in {"idle", "unstage"}
      BY <2>2 DEF AfterFailure, At, Generates
    <3> QED BY <2>2, <3>1 DEF StepsOf, Staged
  <2>3. CASE run[p].command = "grammar verify"
    BY <1>2, <2>3 DEF StepsOf, Staged
  <2>4. run[p].command # "none"
    BY <1>1 DEF StepsOf
  <2> QED BY <1>1, <2>1, <2>2, <2>3, <2>4 DEF CommandsOf
<1>5. RolesAt(run[p].command, run[p].at) \ {"file"} \subseteq RolesAt(run[p].command, after)
  BY <1>1 DEF RolesAt, AfterFailure, At, Generates, StepsOf, Staged, CommandsOf
<1> HIDE DEF r, after
<1>6. \A name \in r.names : name[1] \in RolesAt(r.command, r.at)
  BY <1>1, <1>3, <1>5 DEF Fits
<1>7. Stages(r)
  BY <1>2, <1>3 DEF Stages
<1>8. Fits(artefact, r)
  BY <1>1, <1>3, <1>4, <1>6, <1>7 DEF Fits
<1>9. r.at # "write" /\ Knows(r, file.now, source)
  BY <1>1, <1>2, <1>3 DEF Knows
<1>10. run[p].at = "write" => \A now : Knows(r, now, source)
  BY <1>1, <1>2, <1>3, StepIs DEF Knows
<1> QED BY <1>3, <1>8, <1>9, <1>10 DEF r

(* A directory is created for a command that may hold one of its role at   *)
(* the next step, where nothing else is asked of it.                       *)
LEMMA CreateStep ==
    ASSUME ArtefactInv, NEW p \in crew, NEW role \in {"temp", "staging"}, NEW step,
           Create(p, role, step),
           \/ run[p].at = "enter" /\ role = "temp" /\ step = "stage"
           \/ run[p].at = "stage" /\ role = "staging" /\ step = "generate"
    PROVE  ArtefactInv'
<1> DEFINE name == NewName(role)
           r == [Onward(p, step) EXCEPT !.names = @ \cup {name}]
<1>1. /\ p \in Processes /\ run[p] \in Record /\ Fits(artefact, run[p])
      /\ Knows(run[p], file.now, source) /\ artefact \in {"grammar", "tck"}
      /\ run[p].at \notin {"idle", "unstage", "leave", "write"} /\ run[p].verdict = "none"
  BY CommandIs DEF Fits, Stages
<1>2. UNCHANGED <<artefact, crew, source, file, broken, litter, left>>
  BY DEF Create, setting
<1>3. CASE name \in Owned \cup litter
  <2>1. Only(p, Failing(p))
    BY <1>3 DEF Create
  <2> QED BY <1>1, <1>2, <2>1, FailingFits, PlainStep
<1>4. CASE name \notin Owned \cup litter
  <2>1. run' = [run EXCEPT ![p] = r]
    BY <1>4 DEF Create, Only
  <2>2. name \in Roles \X Nat /\ name[1] = role
    BY NewNameIs DEF Roles
  <2> HIDE DEF name
  <2>3. /\ r \in Record /\ r.command = run[p].command /\ r.at = step
        /\ r.names = run[p].names \cup {name} /\ r.verdict = "none"
        /\ (r.alone <=> run[p].alone) /\ r.found = run[p].found
    BY <1>1, <2>2 DEF Onward, Record, Staged
  <2> HIDE DEF r
  <2>4. /\ r.at \in StepsOf(r.command) /\ r.command \in {"none"} \cup CommandsOf(artefact)
    BY <1>1, <2>3, StepIs DEF Fits, StepsOf, Staged
  <2>5. \A held \in r.names : held[1] \in RolesAt(r.command, r.at)
    <3>1. RolesAt(run[p].command, run[p].at) \cup {role} \subseteq RolesAt(r.command, r.at)
      BY <1>1, <2>3, StepIs DEF RolesAt, Staged
    <3> QED BY <1>1, <2>2, <2>3, <3>1 DEF Fits
  <2>6. Stages(r)
    BY <2>3 DEF Stages
  <2>7. Fits(artefact, r)
    BY <2>3, <2>4, <2>5, <2>6 DEF Fits
  <2>8. Knows(r, file.now, source)
    BY <1>1, <2>3 DEF Knows
  <2> DEFINE fresh == {name}
  <2>9. /\ fresh \cap (Owned \cup litter) = {} /\ fresh \subseteq Roles \X Nat
        /\ r.names \subseteq run[p].names \cup fresh
    BY <1>4, <2>2, <2>3
  <2>10. /\ litter' \subseteq litter \cup (run[p].names \ r.names)
         /\ left' \in [edits : Nat, failures : Nat, crashes : Nat] /\ left'.edits <= left.edits
    BY <1>2, CommandIs
  <2>11. r.at # "write" /\ run[p].at # "write" /\ (r.alone => run[p].alone \/ ~Rival(p))
    BY <1>1, <2>3
  <2> HIDE DEF fresh
  <2> QED BY <1>1, <1>2, <2>1, <2>7, <2>8, <2>9, <2>10, <2>11, QuietStep
<1> QED BY <1>3, <1>4

------------------------------------------------------------------------------
(* The steps of a command, one by one.                                     *)
LEMMA StartStep ==
    ASSUME ArtefactInv, NEW p \in crew, NEW command \in Commands, Start(p, command)
    PROVE  ArtefactInv'
<1> DEFINE alone == ~Rival(p)
           first == FirstStep(command)
           r == [Rest EXCEPT !.command = command, !.at = first,
                             !.alone = alone, !.found = file.now]
<1>1. /\ p \in Processes /\ Fits(artefact, run[p]) /\ artefact \in {"grammar", "tck"}
      /\ run[p].at = "idle" /\ file.now \in Contents
  BY CommandIs DEF Start, Running
<1>2. run' = [run EXCEPT ![p] = r] /\ UNCHANGED <<source, file, litter, setting, left, broken>>
  BY DEF Start, Only
<1>3. /\ command \in CommandsOf(artefact) /\ first \in {"stage", "enter", "reviews"}
      /\ command \in {"grammar generate", "grammar verify", "tck generate", "tck verify"}
      /\ first \in StepsOf(command) /\ (first = "reviews" \/ first = "enter" \/ command = "grammar generate")
  BY <1>1 DEF Commands, CommandsOf, FirstStep, StepsOf
<1>4. alone \in BOOLEAN
  BY DEF Rival
<1> HIDE DEF alone, first
<1>5. /\ r \in Record /\ r.command = command /\ r.at = first /\ r.names = {}
      /\ r.verdict = "none" /\ (r.alone <=> alone) /\ r.found = file.now
  BY <1>1, <1>3, <1>4, ContentTypes DEF Rest, Record, Verdicts, Staged
<1> HIDE DEF r
<1>6. Stages(r)
  BY <1>3, <1>5 DEF Stages
<1>7. Fits(artefact, r)
  BY <1>3, <1>5, <1>6 DEF Fits
<1>8. Knows(r, file.now, source)
  BY <1>3, <1>5 DEF Knows
<1>9. /\ r.at # "write" /\ run[p].at # "write" /\ (r.alone => ~Rival(p)) /\ r.names \subseteq run[p].names
  BY <1>1, <1>3, <1>5 DEF alone
<1> QED BY <1>1, <1>2, <1>7, <1>8, <1>9, PlainStep DEF Only, setting

LEMMA EnterStep ==
    ASSUME ArtefactInv, NEW p \in crew, Enter(p)
    PROVE  ArtefactInv'
<1>1. run[p].at = "enter"
  BY DEF Enter, At
<1>2. CASE file.now = Missing
  <2>1. /\ Only(p, Failing(p))
        /\ UNCHANGED <<artefact, crew, source, file, broken, litter, left>>
    BY <1>2 DEF Enter, setting
  <2> QED BY <1>1, <2>1, FailingFits, PlainStep
<1>3. CASE file.now # Missing
  <2>1. Create(p, "temp", "stage")
    BY <1>3 DEF Enter
  <2> QED BY <1>1, <2>1, CreateStep
<1> QED BY <1>2, <1>3

LEMMA StageStep ==
    ASSUME ArtefactInv, NEW p \in crew, Stage(p)
    PROVE  ArtefactInv'
BY CreateStep DEF Stage, At

(* A step that only changes the content and goes on.                       *)
LEMMA WorkStep ==
    ASSUME ArtefactInv, NEW p \in crew, NEW content \in Contents, NEW step, Work(p, content, step),
           LET c == run[p].command  at == run[p].at IN
           \/ /\ at = "generate" /\ step = "format" /\ content = Content({source}, "raw")
           \/ /\ at = "format" /\ step = "rewrite"
              /\ content = [run[p].work EXCEPT !.form = "formatted"]
           \/ /\ at = "rewrite" /\ step = "install"
              /\ content = [run[p].work EXCEPT !.form = "finished"]
           \/ /\ at = "reviews" /\ step = "corpus" /\ content = Content({source}, "reviews")
           \/ /\ at = "corpus" /\ content = Content(run[p].work.of \cup {source}, "finished")
              /\ step = IF c \in {"grammar generate", "tck generate"} THEN "truncate" ELSE "compare"
    PROVE  ArtefactInv'
<1> DEFINE r == [Onward(p, step) EXCEPT !.work = content]
<1>1. /\ p \in Processes /\ run[p] \in Record /\ Fits(artefact, run[p])
      /\ Knows(run[p], file.now, source) /\ artefact \in {"grammar", "tck"}
      /\ run[p].verdict = "none" /\ source \in Versions
  BY CommandIs DEF Fits, Stages
<1>2. run' = [run EXCEPT ![p] = r] /\ UNCHANGED <<source, file, litter, setting, left, broken>>
  BY DEF Work, Only
<1>3. step \in {"format", "rewrite", "install", "corpus", "truncate", "compare"}
  OBVIOUS
<1>4. /\ r \in Record /\ r.command = run[p].command /\ r.at = step /\ r.names = run[p].names
      /\ r.verdict = "none" /\ (r.alone <=> run[p].alone) /\ r.found = run[p].found
      /\ r.work = content
  BY <1>1, <1>3 DEF Onward, Record, Staged
<1> HIDE DEF r
<1>5. r.at \in StepsOf(r.command) /\ r.command \in {"none"} \cup CommandsOf(artefact)
  <2>1. r.command \in {"none"} \cup CommandsOf(artefact)
    BY <1>1, <1>4 DEF Fits
  <2>2. CASE run[p].at \in {"generate", "format", "rewrite"}
    <3>1. /\ run[p].command \in {"grammar generate", "grammar verify"}
          /\ step \in {"format", "rewrite", "install"}
      BY <1>1, <2>2, StepIs DEF Staged
    <3> QED BY <1>4, <2>1, <3>1 DEF StepsOf, Staged
  <2>3. CASE run[p].at = "reviews"
    <3>1. run[p].command \in {"tck generate", "tck verify"} /\ step = "corpus"
      BY <1>1, <2>3, StepIs
    <3> QED BY <1>4, <2>1, <3>1 DEF StepsOf
  <2>4. CASE run[p].at = "corpus"
    <3>1. \/ run[p].command = "tck generate" /\ step = "truncate"
          \/ run[p].command = "tck verify" /\ step = "compare"
      BY <1>1, <2>4, StepIs
    <3> QED BY <1>4, <2>1, <3>1 DEF StepsOf
  <2> QED BY <2>1, <2>2, <2>3, <2>4
<1>6. RolesAt(r.command, r.at) = RolesAt(run[p].command, run[p].at)
  BY <1>1, <1>4, StepIs DEF RolesAt, Staged
<1>7. Stages(r)
  <2>1. CASE run[p].at = "generate"
    BY <1>1, <1>4, <2>1 DEF Stages
  <2>2. CASE run[p].at = "format"
    <3>1. PICK v \in Versions : run[p].work = Content({v}, "raw")
      BY <1>1, <2>2 DEF Fits, Stages
    <3>2. content = Content({v}, "formatted")
      BY <2>2, <3>1 DEF Content
    <3> QED BY <1>4, <2>2, <3>2 DEF Stages
  <2>3. CASE run[p].at = "rewrite"
    <3>1. PICK v \in Versions : run[p].work = Content({v}, "formatted")
      BY <1>1, <2>3 DEF Fits, Stages
    <3>2. content = Finished(v)
      BY <2>3, <3>1 DEF Content, Finished
    <3> QED BY <1>4, <2>3, <3>2 DEF Stages
  <2>4. CASE run[p].at \in {"reviews", "corpus"}
    <3>1. step \in {"corpus", "truncate", "compare"}
      BY <2>4
    <3>2. (step = "corpus" => content.form = "reviews") /\ (step # "corpus" => content.form = "finished")
      <4>1. CASE run[p].at = "reviews"
        BY <4>1, ContentParts
      <4>2. CASE run[p].at = "corpus"
        <5>1. step # "corpus"
          BY <4>2
        <5>2. content = Content(run[p].work.of \cup {source}, "finished")
          BY <4>2
        <5> QED BY <5>1, <5>2, ContentParts
      <4> QED BY <2>4, <4>1, <4>2
    <3> QED BY <1>4, <3>1, <3>2 DEF Stages
  <2> QED BY <2>1, <2>2, <2>3, <2>4
<1>8. Fits(artefact, r)
  BY <1>1, <1>4, <1>5, <1>6, <1>7 DEF Fits
<1>9. Knows(r, file.now, source)
  <2>1. run[p].alone => content.of = {source}
    <3>1. run[p].alone /\ run[p].at \in {"format", "rewrite", "corpus"} => run[p].work.of = {source}
      BY <1>1 DEF Knows
    <3>2. CASE run[p].at \in {"generate", "reviews"}
      <4>1. content = Content({source}, "raw") \/ content = Content({source}, "reviews")
        BY <3>2
      <4> QED BY <4>1, ContentParts
    <3>3. CASE run[p].at = "corpus"
      <4>1. run[p].alone => run[p].work.of \cup {source} = {source}
        BY <3>1, <3>3
      <4>2. content = Content(run[p].work.of \cup {source}, "finished")
        BY <3>3
      <4> QED BY <4>1, <4>2, ContentParts
    <3>4. CASE run[p].at = "format"
      <4>1. PICK v \in Versions : run[p].work = Content({v}, "raw")
        BY <1>1, <3>4 DEF Fits, Stages
      <4>2. content = Content({v}, "formatted")
        BY <3>4, <4>1 DEF Content
      <4> QED BY <3>1, <3>4, <4>1, <4>2, ContentParts
    <3>5. CASE run[p].at = "rewrite"
      <4>1. PICK v \in Versions : run[p].work = Content({v}, "formatted")
        BY <1>1, <3>5 DEF Fits, Stages
      <4>2. content = Content({v}, "finished")
        BY <3>5, <4>1 DEF Content
      <4> QED BY <3>1, <3>5, <4>1, <4>2, ContentParts
    <3> QED BY <3>2, <3>3, <3>4, <3>5
  <2>2. run[p].alone /\ run[p].command = "grammar generate" => file.now = run[p].found
    BY <1>1 DEF Knows
  <2> QED BY <1>3, <1>4, <2>1, <2>2 DEF Knows
<1>10. /\ r.at # "write" /\ run[p].at # "write" /\ r.names \subseteq run[p].names
       /\ (r.alone => run[p].alone)
  BY <1>3, <1>4
<1> QED BY <1>2, <1>8, <1>9, <1>10, PlainStep DEF Only, setting

LEMMA WorkSteps ==
    ASSUME ArtefactInv, NEW p \in crew,
           Generate(p) \/ Format(p) \/ Rewrite(p) \/ ReadReviews(p) \/ ReadCorpus(p)
    PROVE  ArtefactInv'
<1>1. /\ p \in Processes /\ run[p] \in Record /\ Fits(artefact, run[p]) /\ source \in Versions
  BY CommandIs
<1>2. run[p].work \in Contents /\ run[p].work.of \subseteq Versions
  BY <1>1, ContentTypes DEF Record
<1>3. CASE Generate(p)
  BY <1>1, <1>3, ContentTypes, WorkStep DEF Generate, At
<1>4. CASE Format(p)
  <2>1. PICK v \in Versions : run[p].work = Content({v}, "raw")
    BY <1>1, <1>4 DEF Format, At, Fits, Stages
  <2>2. [run[p].work EXCEPT !.form = "formatted"] = Content({v}, "formatted")
    BY <2>1 DEF Content
  <2>3. [run[p].work EXCEPT !.form = "formatted"] \in Contents
    BY <2>2, ContentTypes
  <2> QED BY <1>4, <2>3, WorkStep DEF Format, At
<1>5. CASE Rewrite(p)
  <2>1. PICK v \in Versions : run[p].work = Content({v}, "formatted")
    BY <1>1, <1>5 DEF Rewrite, At, Fits, Stages
  <2>2. [run[p].work EXCEPT !.form = "finished"] = Finished(v)
    BY <2>1 DEF Content, Finished
  <2>3. [run[p].work EXCEPT !.form = "finished"] \in Contents
    BY <2>2, ContentTypes
  <2> QED BY <1>5, <2>3, WorkStep DEF Rewrite, At
<1>6. CASE ReadReviews(p)
  <2>1. Content({source}, "reviews") \in Contents
    BY <1>1 DEF Contents, Content
  <2> QED BY <1>6, <2>1, WorkStep DEF ReadReviews, At
<1>7. CASE ReadCorpus(p)
  <2>1. Content(run[p].work.of \cup {source}, "finished") \in Contents
    BY <1>1, <1>2 DEF Contents, Content
  <2> QED BY <1>7, <2>1, WorkStep DEF ReadCorpus, At, Generates
<1> QED BY <1>3, <1>4, <1>5, <1>6, <1>7

LEMMA OpenStep ==
    ASSUME ArtefactInv, NEW p \in crew, OpenTemporary(p)
    PROVE  ArtefactInv'
<1> DEFINE name == NewName("file")
           r == [Onward(p, "sync") EXCEPT !.names = @ \cup {name}, !.safe = FALSE]
<1>1. /\ p \in Processes /\ run[p] \in Record /\ Fits(artefact, run[p])
      /\ Knows(run[p], file.now, source) /\ artefact \in {"grammar", "tck"}
      /\ run[p].at = "install" /\ run[p].verdict = "none"
  BY CommandIs DEF Fits, Stages, OpenTemporary, At
<1>2. /\ run' = [run EXCEPT ![p] = r] /\ name \notin Owned \cup litter
      /\ UNCHANGED <<source, file, litter, setting, left, broken>>
  BY DEF OpenTemporary, Only
<1>3. name \in Roles \X Nat /\ name[1] = "file"
  BY NewNameIs DEF Roles
<1> HIDE DEF name
<1>4. /\ r \in Record /\ r.command = run[p].command /\ r.at = "sync"
      /\ r.names = run[p].names \cup {name} /\ r.verdict = "none" /\ r.work = run[p].work
      /\ (r.alone <=> run[p].alone) /\ r.found = run[p].found
  BY <1>1, <1>3 DEF Onward, Record, Staged
<1> HIDE DEF r
<1>5. r.at \in StepsOf(r.command) /\ r.command \in {"none"} \cup CommandsOf(artefact)
  <2>1. r.command \in {"none"} \cup CommandsOf(artefact)
    BY <1>1, <1>4 DEF Fits
  <2>2. run[p].command \in {"grammar generate", "grammar verify"}
    BY <1>1, StepIs DEF Staged
  <2> QED BY <1>4, <2>1, <2>2 DEF StepsOf, Staged
<1>6. \A held \in r.names : held[1] \in RolesAt(r.command, r.at)
  <2>1. RolesAt(run[p].command, run[p].at) \cup {"file"} \subseteq RolesAt(r.command, r.at)
    BY <1>1, <1>4 DEF RolesAt, Staged
  <2> QED BY <1>1, <1>3, <1>4, <2>1 DEF Fits
<1>7. Stages(r)
  <2>1. PICK v \in Versions : run[p].work = Finished(v)
    BY <1>1 DEF Fits, Stages
  <2> QED BY <1>4, <2>1 DEF Stages
<1>8. Fits(artefact, r) /\ Knows(r, file.now, source)
  BY <1>1, <1>4, <1>5, <1>6, <1>7 DEF Fits, Knows
<1> DEFINE fresh == {name}
<1>9. /\ fresh \cap (Owned \cup litter) = {} /\ fresh \subseteq Roles \X Nat
      /\ r.names \subseteq run[p].names \cup fresh
  BY <1>2, <1>3, <1>4
<1>10. /\ litter' \subseteq litter \cup (run[p].names \ r.names)
       /\ left' \in [edits : Nat, failures : Nat, crashes : Nat] /\ left'.edits <= left.edits
  BY <1>2, CommandIs
<1>11. r.at # "write" /\ run[p].at # "write" /\ (r.alone => run[p].alone \/ ~Rival(p))
  BY <1>1, <1>4
<1> HIDE DEF fresh
<1> QED BY <1>1, <1>2, <1>8, <1>9, <1>10, <1>11, QuietStep DEF setting

LEMMA SyncStep ==
    ASSUME ArtefactInv, NEW p \in crew, Sync(p)
    PROVE  ArtefactInv'
<1> DEFINE r == [Onward(p, "persist") EXCEPT !.safe = TRUE]
<1>1. /\ p \in Processes /\ run[p] \in Record /\ Fits(artefact, run[p])
      /\ Knows(run[p], file.now, source) /\ artefact \in {"grammar", "tck"}
      /\ run[p].at = "sync" /\ run[p].verdict = "none"
  BY CommandIs DEF Fits, Stages, Sync, At
<1>2. Only(p, r) /\ UNCHANGED <<source, file, litter, setting, left, broken>>
  BY DEF Sync
<1>3. /\ r \in Record /\ r.command = run[p].command /\ r.at = "persist" /\ r.safe
      /\ r.names = run[p].names /\ r.verdict = "none" /\ r.work = run[p].work
      /\ (r.alone <=> run[p].alone) /\ r.found = run[p].found
  BY <1>1 DEF Onward, Record, Staged
<1> HIDE DEF r
<1>4. r.at \in StepsOf(r.command) /\ r.command \in {"none"} \cup CommandsOf(artefact)
  <2>1. r.command \in {"none"} \cup CommandsOf(artefact)
    BY <1>1, <1>3 DEF Fits
  <2>2. run[p].command \in {"grammar generate", "grammar verify"}
    BY <1>1, StepIs DEF Staged
  <2> QED BY <1>3, <2>1, <2>2 DEF StepsOf, Staged
<1>5. RolesAt(r.command, r.at) = RolesAt(run[p].command, run[p].at)
  BY <1>1, <1>3 DEF RolesAt, Staged
<1>6. Stages(r)
  <2>1. PICK v \in Versions : run[p].work = Finished(v)
    BY <1>1 DEF Fits, Stages
  <2> QED BY <1>3, <2>1 DEF Stages
<1>7. Fits(artefact, r) /\ Knows(r, file.now, source)
  BY <1>1, <1>3, <1>4, <1>5, <1>6 DEF Fits, Knows
<1> QED BY <1>1, <1>2, <1>3, <1>7, PlainStep DEF setting

(* The rename: the command that generates shows its parser to all, the one *)
(* that verifies has it in its own directory.                              *)
LEMMA PersistStep ==
    ASSUME ArtefactInv, NEW p \in crew, Persist(p)
    PROVE  ArtefactInv'
<1> DEFINE done == [Onward(p, "unstage") EXCEPT
                      !.verdict = IF Generates(p) THEN "ok" ELSE @,
                      !.names = {name \in @ : name[1] # "file"}]
<1>1. /\ p \in Processes /\ run[p] \in Record /\ Fits(artefact, run[p])
      /\ Knows(run[p], file.now, source) /\ artefact \in {"grammar", "tck"}
      /\ run[p].at = "persist" /\ run[p].verdict = "none" /\ run[p].safe
      /\ file \in [now : Contents, after : SUBSET Contents]
  BY CommandIs DEF Fits, Stages, Persist, At
<1>2. /\ artefact = "grammar" /\ run[p].command \in {"grammar generate", "grammar verify"}
      /\ (Generates(p) <=> run[p].command = "grammar generate")
  <2>1. run[p].command \in {"grammar generate", "grammar verify"}
    BY <1>1, StepIs DEF Staged
  <2> QED BY <1>1, <2>1, StepIs DEF Generates
<1>3. PICK v \in Versions : run[p].work = Finished(v)
  BY <1>1 DEF Fits, Stages
<1>4. /\ done \in Record /\ done.command = run[p].command /\ done.at = "unstage"
      /\ done.names = {name \in run[p].names : name[1] # "file"}
      /\ done.verdict = (IF Generates(p) THEN "ok" ELSE "none") /\ done.work = run[p].work
      /\ (done.alone <=> run[p].alone) /\ done.found = run[p].found
  BY <1>1 DEF Onward, Record, Verdicts, Staged
<1>5. UNCHANGED <<artefact, crew, source, litter, left, broken>>
  BY DEF Persist, setting
<1>6. Fits(artefact, done)
  <2> HIDE DEF done
  <2>1. done.at \in StepsOf(done.command) /\ done.command \in {"none"} \cup CommandsOf(artefact)
    <3>1. done.command \in {"grammar generate", "grammar verify"} /\ done.at = "unstage"
      BY <1>2, <1>4
    <3>2. done.at \in StepsOf(done.command)
      BY <3>1 DEF StepsOf, Staged
    <3> QED BY <1>2, <3>1, <3>2 DEF CommandsOf
  <2>2. RolesAt(run[p].command, run[p].at) \ {"file"} \subseteq RolesAt(done.command, done.at)
    BY <1>1, <1>2, <1>4 DEF RolesAt, Staged
  <2>3. \A name \in done.names : name[1] \in RolesAt(done.command, done.at)
    BY <1>1, <1>4, <2>2 DEF Fits
  <2>4. Stages(done)
    <3>1. done.work.form = "finished"
      BY <1>3, <1>4, ContentTypes
    <3> QED BY <1>2, <1>4, <3>1 DEF Stages
  <2> QED BY <1>4, <2>1, <2>3, <2>4 DEF Fits
<1>7. run[p].alone => v = source
  <2>1. run[p].alone => run[p].work.of = {source}
    BY <1>1 DEF Knows
  <2> QED BY <1>3, <2>1, ContentTypes
<1>8. CASE Generates(p)
  <2>1. /\ file' = [now |-> run[p].work, after |-> file.after \cup {run[p].work}]
        /\ Disturbing(p, done)
    BY <1>1, <1>8 DEF Persist
  <2> HIDE DEF done
  <2>2. file'.now = Finished(v) /\ file'.after = file.after \cup {Finished(v)}
    BY <1>3, <2>1
  <2>3. file' \in [now : Contents, after : SUBSET Contents]
    BY <1>1, <1>3, <2>1, ContentTypes
  <2>4. Knows(done, file'.now, source)
    BY <1>4, <1>7, <1>8, <2>2 DEF Knows
  <2>5. FileInv'
    <3>1. {file'.now} \cup file'.after \subseteq {Missing} \cup {Finished(w) : w \in Versions}
      BY <1>2, <2>2 DEF ArtefactInv, FileInv, AlwaysWhole
    <3>2. AlwaysWhole'
      BY <3>1 DEF AlwaysWhole
    <3>3. TornExplained'
      BY <1>2, <1>5 DEF TornExplained
    <3> QED BY <3>2, <3>3 DEF FileInv
  <2>6. broken' \in BOOLEAN
    BY <1>5 DEF ArtefactInv, StateInv
  <2>7. /\ left' \in [edits : Nat, failures : Nat, crashes : Nat] /\ left'.edits <= left.edits
        /\ litter' \subseteq litter \cup (run[p].names \ done.names)
        /\ done.names \subseteq run[p].names
    BY <1>4, <1>5, CommandIs
  <2> QED BY <1>1, <1>4, <1>5, <1>6, <2>1, <2>3, <2>4, <2>5, <2>6, <2>7, DisturbingStep
<1>9. CASE ~Generates(p)
  <2>1. UNCHANGED file /\ Only(p, done)
    BY <1>9 DEF Persist
  <2> HIDE DEF done
  <2>2. Knows(done, file.now, source)
    BY <1>1, <1>2, <1>4, <1>9 DEF Knows
  <2> QED BY <1>1, <1>4, <1>5, <1>6, <2>1, <2>2, PlainStep
<1> QED BY <1>8, <1>9

LEMMA SpendIs ==
    ASSUME left \in [edits : Nat, failures : Nat, crashes : Nat],
           NEW what \in {"edits", "failures", "crashes"}, Spend(what)
    PROVE  /\ left' \in [edits : Nat, failures : Nat, crashes : Nat]
           /\ left'.edits <= left.edits
           /\ what = "edits" => left'.edits = left.edits - 1
<1>1. left[what] \in Nat /\ left[what] > 0 /\ left' = [left EXCEPT ![what] = left[what] - 1]
  BY DEF Spend
<1>2. CASE what = "edits"
  BY <1>1, <1>2
<1>3. CASE what = "failures"
  BY <1>1, <1>3
<1>4. CASE what = "crashes"
  BY <1>1, <1>4
<1> QED BY <1>2, <1>3, <1>4

(* A directory is removed, or left behind with a warning: either way the   *)
(* command is done with its name.                                          *)
LEMMA RemoveStep ==
    ASSUME ArtefactInv, NEW p \in crew, NEW role \in Roles, NEW step,
           Remove(p, role, step), step \in StepsOf(run[p].command),
           \/ /\ role = "staging" /\ run[p].at = "unstage"
              /\ step = IF Generates(p) THEN "idle"
                        ELSE IF run[p].verdict = "error" THEN "leave" ELSE "compare"
           \/ role = "temp" /\ run[p].at = "leave" /\ step = "idle"
    PROVE  ArtefactInv'
<1> DEFINE gone == {name \in run[p].names : name[1] = role}
           r == [Onward(p, step) EXCEPT !.names = @ \ gone]
<1>1. /\ p \in Processes /\ run[p] \in Record /\ Fits(artefact, run[p])
      /\ Knows(run[p], file.now, source) /\ artefact \in {"grammar", "tck"}
      /\ left \in [edits : Nat, failures : Nat, crashes : Nat] /\ Stages(run[p])
  BY CommandIs DEF Fits
<1>2. /\ run' = [run EXCEPT ![p] = r] /\ UNCHANGED <<source, file, setting, broken>>
      /\ \/ UNCHANGED <<litter, left>>
         \/ Spend("failures") /\ litter' = litter \cup gone
  BY DEF Remove, Only
<1>3. step \in {"idle", "leave", "compare"} /\ run[p].at \in {"unstage", "leave"}
  OBVIOUS
<1>4. /\ r \in Record /\ r.command = run[p].command /\ r.at = step
      /\ r.names = run[p].names \ gone /\ r.verdict = run[p].verdict /\ r.work = run[p].work
      /\ (r.alone <=> run[p].alone) /\ r.found = run[p].found
  BY <1>1, <1>3 DEF Onward, Record, Staged
<1>5. /\ r.names \subseteq run[p].names
      /\ litter' \subseteq litter \cup (run[p].names \ r.names)
      /\ left' \in [edits : Nat, failures : Nat, crashes : Nat] /\ left'.edits <= left.edits
  BY <1>1, <1>2, <1>4, SpendIs
<1>6. \A name \in r.names : name[1] \in RolesAt(run[p].command, run[p].at) \ {role}
  BY <1>1, <1>4 DEF Fits
<1> HIDE DEF r, gone
<1>7. /\ run[p].command \in {"grammar generate", "grammar verify"}
      /\ (Generates(p) <=> run[p].command = "grammar generate")
      /\ (role = "temp" => run[p].command = "grammar verify")
  BY <1>1, <1>3, StepIs DEF Generates, Staged
<1>8. RolesAt(run[p].command, run[p].at) \ {role} \subseteq RolesAt(r.command, r.at)
  BY <1>3, <1>4, <1>7 DEF RolesAt, Staged
<1>9. Stages(r)
  <2>1. step = "compare" => run[p].verdict = "none" /\ run[p].work.form = "finished"
    BY <1>1, <1>7 DEF Stages
  <2> QED BY <1>3, <1>4, <2>1 DEF Stages
<1>10. Fits(artefact, r)
  <2>1. r.command \in {"none"} \cup CommandsOf(artefact) /\ r.at \in StepsOf(r.command)
    BY <1>1, <1>4 DEF Fits
  <2> QED BY <1>4, <1>6, <1>8, <1>9, <2>1 DEF Fits
<1>11. Knows(r, file.now, source)
  BY <1>1, <1>3, <1>4 DEF Knows
<1> DEFINE fresh == {}
<1>12. /\ fresh \cap (Owned \cup litter) = {} /\ fresh \subseteq Roles \X Nat
       /\ r.names \subseteq run[p].names \cup fresh
  BY <1>5
<1>13. r.at # "write" /\ run[p].at # "write" /\ (r.alone => run[p].alone \/ ~Rival(p))
  BY <1>3, <1>4
<1> HIDE DEF fresh
<1> QED BY <1>1, <1>2, <1>5, <1>10, <1>11, <1>12, <1>13, QuietStep DEF setting

LEMMA RemoveSteps ==
    ASSUME ArtefactInv, NEW p \in crew, Unstage(p) \/ Leave(p)
    PROVE  ArtefactInv'
<1>1. Fits(artefact, run[p]) /\ artefact \in {"grammar", "tck"}
  BY CommandIs
<1>2. CASE Unstage(p)
  <2> DEFINE step == IF Generates(p) THEN "idle"
                     ELSE IF run[p].verdict = "error" THEN "leave" ELSE "compare"
  <2>1. run[p].at = "unstage" /\ Remove(p, "staging", step)
    BY <1>2 DEF Unstage, At
  <2>2. run[p].command \in {"grammar generate", "grammar verify"}
    BY <1>1, <2>1, StepIs DEF Staged
  <2>3. step \in StepsOf(run[p].command)
    BY <2>2 DEF Generates, StepsOf
  <2> QED BY <2>1, <2>3, RemoveStep DEF Roles
<1>3. CASE Leave(p)
  <2>1. run[p].at = "leave" /\ Remove(p, "temp", "idle")
    BY <1>3 DEF Leave, At
  <2>2. run[p].command = "grammar verify"
    BY <1>1, <2>1, StepIs
  <2>3. "idle" \in StepsOf(run[p].command)
    BY <2>2 DEF StepsOf
  <2> QED BY <2>1, <2>3, RemoveStep DEF Roles
<1> QED BY <1>2, <1>3

(* Verify compares its content with the file: alone, it is that of the     *)
(* sources.                                                                *)
LEMMA CompareStep ==
    ASSUME ArtefactInv, NEW p \in crew, Compare(p)
    PROVE  ArtefactInv'
<1> DEFINE step == IF run[p].command = "grammar verify" THEN "leave" ELSE "idle"
           judged == Judged(p)
           r == [Onward(p, step) EXCEPT !.verdict = judged]
<1>1. /\ p \in Processes /\ run[p] \in Record /\ Fits(artefact, run[p])
      /\ Knows(run[p], file.now, source) /\ artefact \in {"grammar", "tck"}
      /\ run[p].at = "compare" /\ run[p].verdict = "none" /\ run[p].work.form = "finished"
  BY CommandIs DEF Fits, Stages, Compare, At
<1>2. Only(p, r) /\ UNCHANGED <<source, file, litter, setting, left, broken>>
  BY DEF Compare
<1>3. /\ judged = "ok" => file.now = run[p].work
      /\ judged = "stale" => file.now # run[p].work
      /\ judged \in {"ok", "stale", "error"}
  BY DEF Judged
<1>4. run[p].command \in {"grammar verify", "tck verify"}
  BY <1>1, StepIs
<1>5. run[p].alone => run[p].work = Finished(source)
  <2>1. run[p].alone => run[p].work.of = {source}
    BY <1>1 DEF Knows
  <2>2. run[p].work \in Contents
    BY <1>1 DEF Record
  <2>3. run[p].work \notin {Missing, Empty, Torn}
    BY <1>1 DEF Missing, Empty, Torn, Content
  <2> QED BY <1>1, <2>1, <2>2, <2>3 DEF Contents, Finished, Content
<1> HIDE DEF judged
<1>6. /\ r \in Record /\ r.command = run[p].command /\ r.at = step
      /\ r.names = run[p].names /\ r.verdict = judged /\ r.work = run[p].work
      /\ (r.alone <=> run[p].alone) /\ r.found = run[p].found
  BY <1>1, <1>3 DEF Onward, Record, Verdicts
<1> HIDE DEF r
<1>7. /\ r.at \in StepsOf(r.command) /\ r.command \in {"none"} \cup CommandsOf(artefact)
      /\ RolesAt(run[p].command, run[p].at) \subseteq RolesAt(r.command, r.at)
  <2>1. r.at \in StepsOf(r.command)
    BY <1>4, <1>6 DEF StepsOf
  <2>2. RolesAt(run[p].command, run[p].at) \subseteq RolesAt(r.command, r.at)
    BY <1>1, <1>4, <1>6 DEF RolesAt, Staged
  <2> QED BY <1>1, <1>6, <2>1, <2>2 DEF Fits
<1>8. Fits(artefact, r)
  <2>1. Stages(r)
    BY <1>6 DEF Stages
  <2> QED BY <1>1, <1>6, <1>7, <2>1 DEF Fits
<1>9. Knows(r, file.now, source)
  BY <1>1, <1>3, <1>4, <1>5, <1>6 DEF Knows
<1> QED BY <1>1, <1>2, <1>6, <1>8, <1>9, PlainStep DEF setting

(* The projection is truncated: who writes it is alone only if no other    *)
(* command is about to.                                                    *)
LEMMA TruncateStep ==
    ASSUME ArtefactInv, NEW p \in crew, Truncate(p)
    PROVE  ArtefactInv'
<1> DEFINE r == Onward(p, "write")
<1>1. /\ p \in Processes /\ run[p] \in Record /\ Fits(artefact, run[p])
      /\ Knows(run[p], file.now, source) /\ artefact \in {"grammar", "tck"}
      /\ run[p].at = "truncate" /\ run[p].verdict = "none" /\ run[p].work.form = "finished"
      /\ file \in [now : Contents, after : SUBSET Contents]
  BY CommandIs DEF Fits, Stages, Truncate, At
<1>2. /\ Disturbing(p, r) /\ file' = [now |-> Empty, after |-> file.after \cup {Empty}]
      /\ UNCHANGED <<artefact, crew, source, litter, left, broken>>
  BY DEF Truncate, setting
<1>3. run[p].command = "tck generate" /\ artefact = "tck" /\ run[p].names = {}
  BY <1>1, StepIs
<1>4. /\ r \in Record /\ r.command = run[p].command /\ r.at = "write" /\ r.names = {}
      /\ r.verdict = "none" /\ r.work = run[p].work /\ (r.alone <=> run[p].alone)
  BY <1>1, <1>3 DEF Onward, Record
<1> HIDE DEF r
<1>5. Fits(artefact, r)
  <2>1. r.at \in StepsOf(r.command) /\ r.command \in {"none"} \cup CommandsOf(artefact)
    BY <1>3, <1>4 DEF StepsOf, CommandsOf
  <2>2. Stages(r)
    BY <1>1, <1>4 DEF Stages
  <2> QED BY <1>4, <2>1, <2>2 DEF Fits
<1>6. Knows(r, file'.now, source)
  <2>1. run[p].alone => run[p].work.of = {source}
    BY <1>1 DEF Knows
  <2>2. file'.now = Empty
    BY <1>2
  <2> QED BY <1>3, <1>4, <2>1, <2>2 DEF Knows
<1>7. FileInv'
  <2>1. AlwaysWhole'
    BY <1>2, <1>3 DEF AlwaysWhole
  <2>2. run'[p] = r
    BY <1>1, <1>2 DEF Disturbing
  <2>3. TornExplained'
    BY <1>1, <1>4, <2>2 DEF TornExplained, At
  <2> QED BY <2>1, <2>3 DEF FileInv
<1>8. /\ file' \in [now : Contents, after : SUBSET Contents] /\ broken' \in BOOLEAN
      /\ left' \in [edits : Nat, failures : Nat, crashes : Nat] /\ left'.edits <= left.edits
      /\ litter' \subseteq litter \cup (run[p].names \ r.names) /\ r.names \subseteq run[p].names
  BY <1>1, <1>2, <1>4, ContentTypes, CommandIs DEF ArtefactInv, StateInv
<1> QED BY <1>1, <1>2, <1>4, <1>5, <1>6, <1>7, <1>8, DisturbingStep

(* The projection is written: what comes of it is whole unless another     *)
(* writer was about, and then that is on record.                           *)
LEMMA WriteStep ==
    ASSUME ArtefactInv, NEW p \in crew, Write(p)
    PROVE  ArtefactInv'
<1> DEFINE contended == Rival(p) \/ file.now # Empty
           r == [Onward(p, "idle") EXCEPT !.verdict = "ok"]
<1>1. /\ p \in Processes /\ run[p] \in Record /\ Fits(artefact, run[p])
      /\ Knows(run[p], file.now, source) /\ artefact \in {"grammar", "tck"}
      /\ run[p].at = "write" /\ run[p].verdict = "none" /\ run[p].work.form = "finished"
      /\ file \in [now : Contents, after : SUBSET Contents] /\ run[p].work \in Contents
  BY CommandIs DEF Fits, Stages, Write, At, Record
<1>2. PICK now \in {run[p].work} \cup IF contended THEN {Torn} ELSE {} :
         file' = [now |-> now, after |-> file.after \cup {Empty, Torn, now}]
  BY DEF Write
<1>3. /\ Disturbing(p, r) /\ broken' = contended
      /\ UNCHANGED <<artefact, crew, source, litter, left>>
  BY DEF Write, setting
<1>4. run[p].command = "tck generate" /\ artefact = "tck" /\ run[p].names = {}
  BY <1>1, StepIs
<1>5. /\ r \in Record /\ r.command = run[p].command /\ r.at = "idle" /\ r.names = {}
      /\ r.verdict = "ok" /\ (r.alone <=> run[p].alone)
  BY <1>1, <1>4 DEF Onward, Record, Verdicts
<1> HIDE DEF r
<1>6. Fits(artefact, r)
  <2>1. r.at \in StepsOf(r.command) /\ r.command \in {"none"} \cup CommandsOf(artefact)
    BY <1>4, <1>5 DEF StepsOf, CommandsOf
  <2>2. Stages(r)
    BY <1>5 DEF Stages
  <2> QED BY <1>5, <2>1, <2>2 DEF Fits
<1>7. run[p].alone => ~contended /\ run[p].work = Finished(source)
  <2>1. run[p].alone => ~Rival(p)
    BY <1>1 DEF ArtefactInv, AloneInv, Rival, At
  <2>2. run[p].alone => file.now = Empty /\ run[p].work.of = {source}
    BY <1>1 DEF Knows
  <2>3. run[p].work \notin {Missing, Empty, Torn}
    BY <1>1 DEF Missing, Empty, Torn, Content
  <2>4. run[p].work.of = {source} => run[p].work = Finished(source)
    BY <1>1, <2>3 DEF Contents, Finished, Content
  <2> QED BY <2>1, <2>2, <2>4
<1>8. file'.now = now /\ now \in Contents
  BY <1>1, <1>2, ContentTypes
<1>9. Knows(r, file'.now, source)
  <2>1. run[p].alone => now = Finished(source)
    BY <1>2, <1>7
  <2> QED BY <1>4, <1>5, <1>8, <2>1 DEF Knows
<1>10. FileInv'
  <2>1. AlwaysWhole'
    BY <1>3, <1>4 DEF AlwaysWhole
  <2>2. run[p].work # Empty /\ run[p].work # Torn
    BY <1>1 DEF Empty, Torn, Content
  <2>3. now \in {Empty, Torn} => contended
    BY <1>2, <2>2
  <2>4. TornExplained'
    BY <1>3, <1>8, <2>3 DEF TornExplained
  <2> QED BY <2>1, <2>4 DEF FileInv
<1>11. broken' \in BOOLEAN
  BY <1>3 DEF Rival
<1>12. /\ file' \in [now : Contents, after : SUBSET Contents]
       /\ left' \in [edits : Nat, failures : Nat, crashes : Nat] /\ left'.edits <= left.edits
       /\ litter' \subseteq litter \cup (run[p].names \ r.names) /\ r.names \subseteq run[p].names
  BY <1>1, <1>2, <1>3, <1>5, <1>8, ContentTypes, CommandIs
<1> QED BY <1>1, <1>3, <1>5, <1>6, <1>9, <1>10, <1>11, <1>12, DisturbingStep

(* A write cut short, by a failure or by a signal, may have torn the       *)
(* projection; that is on record, and the command ends.                    *)
LEMMA CutShort ==
    ASSUME ArtefactInv, NEW p \in crew, run[p].at = "write", NEW r, Disturbing(p, r),
           \E now \in {file.now, Torn} : file' = [now |-> now, after |-> file.after \cup {Torn}],
           broken' = TRUE, UNCHANGED <<artefact, crew, source>>,
           Fits(artefact, r), Knows(r, file'.now, source), r.alone => run[p].alone,
           r.names \subseteq run[p].names,
           litter' \subseteq litter \cup (run[p].names \ r.names),
           left' \in [edits : Nat, failures : Nat, crashes : Nat],
           left'.edits <= left.edits
    PROVE  ArtefactInv'
<1>1. /\ p \in Processes /\ Fits(artefact, run[p]) /\ artefact \in {"grammar", "tck"}
      /\ file \in [now : Contents, after : SUBSET Contents]
  BY CommandIs
<1>2. artefact = "tck"
  BY <1>1, StepIs
<1>3. file' \in [now : Contents, after : SUBSET Contents]
  BY <1>1, ContentTypes
<1>4. FileInv'
  BY <1>2 DEF FileInv, AlwaysWhole, TornExplained
<1> QED BY <1>1, <1>3, <1>4, DisturbingStep

LEMMA FailStep ==
    ASSUME ArtefactInv, NEW p \in crew, Fail(p)
    PROVE  ArtefactInv'
<1> DEFINE r == Failing(p)
<1>1. run[p].at \notin {"idle", "unstage", "leave"} /\ Spend("failures")
  BY DEF Fail, Running
<1>2. /\ Fits(artefact, r) /\ r.names \subseteq run[p].names
      /\ (r.alone <=> run[p].alone) /\ r.at # "write" /\ Knows(r, file.now, source)
      /\ run[p].at = "write" => Knows(r, file'.now, source)
  BY <1>1, FailingFits
<1>3. /\ left' \in [edits : Nat, failures : Nat, crashes : Nat] /\ left'.edits <= left.edits
      /\ litter' \subseteq litter \cup (run[p].names \ r.names)
      /\ UNCHANGED <<artefact, crew, source>>
  BY <1>1, SpendIs, CommandIs DEF Fail, setting
<1>4. CASE At(p, "write")
  <2>1. /\ \E now \in {file.now, Torn} : file' = [now |-> now, after |-> file.after \cup {Torn}]
        /\ broken' = TRUE /\ Disturbing(p, r) /\ run[p].at = "write"
    BY <1>4 DEF Fail, At
  <2> HIDE DEF r
  <2> QED BY <1>2, <1>3, <2>1, CutShort
<1>5. CASE ~At(p, "write")
  <2>1. /\ UNCHANGED <<file, broken>> /\ run' = [run EXCEPT ![p] = r] /\ run[p].at # "write"
    BY <1>5 DEF Fail, At, Only
  <2> DEFINE fresh == {}
  <2>2. /\ fresh \cap (Owned \cup litter) = {} /\ fresh \subseteq Roles \X Nat
        /\ r.names \subseteq run[p].names \cup fresh
    BY <1>2
  <2>3. p \in Processes
    BY CommandIs
  <2> HIDE DEF r, fresh
  <2> QED BY <1>2, <1>3, <2>1, <2>2, <2>3, QuietStep
<1> QED BY <1>4, <1>5

LEMMA KillStep ==
    ASSUME ArtefactInv, NEW p \in crew, Kill(p)
    PROVE  ArtefactInv'
<1>1. Spend("crashes") /\ litter' = litter \cup run[p].names /\ p \in Processes
  BY CommandIs DEF Kill
<1>2. /\ Fits(artefact, Rest) /\ Rest.names = {} /\ ~Rest.alone /\ Rest.at # "write"
      /\ Knows(Rest, file.now, source) /\ Knows(Rest, file'.now, source)
  BY RestFits
<1>3. /\ left' \in [edits : Nat, failures : Nat, crashes : Nat] /\ left'.edits <= left.edits
      /\ litter' \subseteq litter \cup (run[p].names \ Rest.names)
      /\ UNCHANGED <<artefact, crew, source>> /\ Rest.names \subseteq run[p].names
  BY <1>1, <1>2, SpendIs, CommandIs DEF Kill, setting
<1>4. CASE At(p, "write")
  <2>1. /\ \E now \in {file.now, Torn} : file' = [now |-> now, after |-> file.after \cup {Torn}]
        /\ broken' = TRUE /\ Disturbing(p, Rest) /\ run[p].at = "write"
    BY <1>4 DEF Kill, At
  <2> QED BY <1>2, <1>3, <2>1, CutShort
<1>5. CASE ~At(p, "write")
  <2>1. /\ UNCHANGED <<file, broken>> /\ run' = [run EXCEPT ![p] = Rest] /\ run[p].at # "write"
    BY <1>5 DEF Kill, At, Only
  <2> DEFINE fresh == {}
  <2>2. /\ fresh \cap (Owned \cup litter) = {} /\ fresh \subseteq Roles \X Nat
        /\ Rest.names \subseteq run[p].names \cup fresh
    BY <1>2
  <2> HIDE DEF fresh
  <2> QED BY <1>1, <1>2, <1>3, <2>1, <2>2, QuietStep
<1> QED BY <1>4, <1>5

------------------------------------------------------------------------------
(* The steps of no command.                                                *)
LEMMA PowerLossStep ==
    ASSUME ArtefactInv, PowerLoss
    PROVE  ArtefactInv'
<1>1. PICK now \in file.after : file' = [now |-> now, after |-> {now}]
  BY DEF PowerLoss
<1>2. /\ Spend("crashes") /\ litter' = litter \cup Owned /\ UNCHANGED <<artefact, crew, source>>
      /\ \A p \in Processes : run'[p] = Rest
      /\ run' \in [Processes -> Record]
      /\ broken' = (\/ broken \/ file.after # {file.now} \/ \E p \in Processes : At(p, "write"))
  BY RestFits DEF PowerLoss, setting
<1>3. /\ left \in [edits : Nat, failures : Nat, crashes : Nat]
      /\ file \in [now : Contents, after : SUBSET Contents]
  BY DEF ArtefactInv, StateInv
<1>4. /\ left' \in [edits : Nat, failures : Nat, crashes : Nat] /\ left'.edits <= left.edits
  BY <1>2, <1>3, SpendIs
<1>5. file' \in [now : Contents, after : SUBSET Contents] /\ file'.now = now /\ file'.after = {now}
  BY <1>1, <1>3
<1>6. StateInv'
  <2>1. source \in Nat /\ left.edits \in Nat /\ left'.edits \in Nat /\ source + left.edits <= MaxEdits
    BY <1>4 DEF ArtefactInv, StateInv
  <2>2. source + left'.edits <= MaxEdits
    BY <1>4, <2>1, BoundAssumption
  <2>3. broken' \in BOOLEAN
    BY <1>2 DEF ArtefactInv, StateInv, At
  <2> QED BY <1>2, <1>4, <1>5, <2>2, <2>3 DEF ArtefactInv, StateInv
<1>7. CommandsInv'
  BY <1>2, RestFits DEF CommandsInv
<1>8. NamesInv'
  <2>1. \A p \in Processes : run[p].names \subseteq Roles \X Nat
    <3>1. \A p \in Processes : run[p] \in Record
      BY DEF ArtefactInv, StateInv
    <3> QED BY <3>1 DEF Record
  <2>2. litter' \subseteq Roles \X Nat
    BY <1>2, <2>1 DEF ArtefactInv, NamesInv, Owned
  <2> QED BY <1>2, <2>2, RestFits DEF NamesInv
<1>9. AloneInv'
  BY <1>2, RestFits DEF AloneInv
<1>10. FileInv'
  <2>1. AlwaysWhole'
    BY <1>2, <1>5 DEF ArtefactInv, FileInv, AlwaysWhole
  <2>2. TornExplained'
    BY <1>2, <1>5 DEF ArtefactInv, FileInv, TornExplained
  <2> QED BY <2>1, <2>2 DEF FileInv
<1> QED BY <1>6, <1>7, <1>8, <1>9, <1>10 DEF ArtefactInv

LEMMA WriteBackStep ==
    ASSUME ArtefactInv, WriteBack
    PROVE  ArtefactInv'
<1>1. /\ UNCHANGED <<artefact, crew, left, source, run, litter, broken>>
      /\ file' = [file EXCEPT !.after = {file.now}]
  BY DEF WriteBack, setting
<1>2. file \in [now : Contents, after : SUBSET Contents]
  BY DEF ArtefactInv, StateInv
<1>3. /\ file' \in [now : Contents, after : SUBSET Contents]
      /\ file'.now = file.now /\ file'.after = {file.now}
  BY <1>1, <1>2
<1>4. StateInv' /\ CommandsInv' /\ NamesInv' /\ AloneInv'
  BY <1>1, <1>3 DEF ArtefactInv, StateInv, CommandsInv, NamesInv, AloneInv
<1>5. FileInv'
  BY <1>1, <1>3 DEF ArtefactInv, FileInv, AlwaysWhole, TornExplained, At
<1> QED BY <1>4, <1>5 DEF ArtefactInv

LEMMA EditStep ==
    ASSUME ArtefactInv, Edit
    PROVE  ArtefactInv'
<1>1. /\ Spend("edits") /\ source' = source + 1
      /\ UNCHANGED <<artefact, crew, file, litter, broken>>
      /\ run' = [p \in Processes |-> [run[p] EXCEPT !.alone = FALSE]]
  BY DEF Edit, setting
<1>2. /\ left \in [edits : Nat, failures : Nat, crashes : Nat] /\ source \in Nat
      /\ source + left.edits <= MaxEdits
  BY DEF ArtefactInv, StateInv
<1>3. left' \in [edits : Nat, failures : Nat, crashes : Nat] /\ left'.edits = left.edits - 1
  BY <1>1, <1>2, SpendIs
<1>4. ASSUME NEW p \in Processes
      PROVE  /\ run'[p] \in Record /\ Fits(artefact, run'[p])
             /\ Knows(run'[p], file.now, source') /\ ~run'[p].alone
             /\ run'[p].names = run[p].names /\ run'[p].at = run[p].at
  <2>1. run'[p] = [run[p] EXCEPT !.alone = FALSE] /\ Fits(artefact, run[p])
    BY <1>1 DEF ArtefactInv, CommandsInv
  <2> QED BY <2>1, Disturbed
<1>5. StateInv'
  <2>1. source' \in Nat /\ source' + left'.edits <= MaxEdits
    BY <1>1, <1>2, <1>3, BoundAssumption
  <2>2. run' \in [Processes -> Record]
    BY <1>1, <1>4
  <2> QED BY <1>1, <1>3, <2>1, <2>2 DEF ArtefactInv, StateInv
<1>6. CommandsInv'
  BY <1>1, <1>4 DEF CommandsInv
<1>7. NamesInv'
  BY <1>1, <1>4 DEF ArtefactInv, NamesInv
<1>8. AloneInv'
  BY <1>4 DEF AloneInv
<1>9. FileInv'
  BY <1>1, <1>4 DEF ArtefactInv, FileInv, AlwaysWhole, TornExplained, At
<1> QED BY <1>5, <1>6, <1>7, <1>8, <1>9 DEF ArtefactInv

LEMMA InitHolds == Init => ArtefactInv
<1> SUFFICES ASSUME Init
             PROVE  ArtefactInv
  OBVIOUS
<1>1. PICK s \in Settings : artefact = s.artefact /\ crew = s.crew /\ left = s.left
  BY DEF Init
<1>2. /\ artefact \in {"grammar", "tck"} /\ crew \subseteq Processes
      /\ left \in [edits : 0..MaxEdits, failures : Nat, crashes : Nat]
  BY <1>1, SettingsAssumption
<1>3. PICK now \in {Missing, Finished(0)} : file = [now |-> now, after |-> {now}]
  BY DEF Init
<1>4. source = 0 /\ litter = {} /\ broken = FALSE /\ \A p \in Processes : run[p] = Rest
  BY DEF Init
<1>5. run \in [Processes -> Record]
  BY RestFits DEF Init
<1>6. 0 \in Versions
  BY BoundAssumption DEF Versions
<1>7. file.now = now /\ file.after = {now} /\ now \in Contents
  BY <1>3, <1>6, ContentTypes
<1>8. StateInv
  <2>1. /\ left \in [edits : Nat, failures : Nat, crashes : Nat]
        /\ source + left.edits <= MaxEdits
    BY <1>2, <1>4, BoundAssumption
  <2>2. file \in [now : Contents, after : SUBSET Contents]
    BY <1>3, <1>7
  <2> QED BY <1>2, <1>4, <1>5, <2>1, <2>2 DEF StateInv
<1>9. CommandsInv /\ NamesInv /\ AloneInv
  BY <1>4, RestFits DEF CommandsInv, NamesInv, AloneInv
<1>10. FileInv
  <2>1. AlwaysWhole
    BY <1>6, <1>7 DEF AlwaysWhole
  <2>2. TornExplained
    BY <1>7, ContentTypes DEF TornExplained
  <2> QED BY <2>1, <2>2 DEF FileInv
<1> QED BY <1>8, <1>9, <1>10 DEF ArtefactInv

(* The invariant of the two files, their commands and their temporary      *)
(* names, under any interleaving, failures, crashes and losses of power.   *)
THEOREM ArtefactInvariant == Spec => []ArtefactInv
<1>1. ArtefactInv /\ [Next]_vars => ArtefactInv'
  <2> SUFFICES ASSUME ArtefactInv, [Next]_vars
               PROVE  ArtefactInv'
    OBVIOUS
  <2>1. CASE UNCHANGED vars
    <3>1. UNCHANGED <<artefact, crew, left, source, file, run, litter, broken>>
      BY <2>1 DEF vars, setting
    <3> QED BY <3>1 DEF ArtefactInv, StateInv, CommandsInv, NamesInv, AloneInv, FileInv,
                        AlwaysWhole, TornExplained, At
  <2>2. ASSUME NEW p \in crew, Step(p)
        PROVE  ArtefactInv'
    <3>1. CASE Enter(p)
      BY <3>1, EnterStep
    <3>2. CASE Stage(p)
      BY <3>2, StageStep
    <3>3. CASE Generate(p) \/ Format(p) \/ Rewrite(p) \/ ReadReviews(p) \/ ReadCorpus(p)
      BY <3>3, WorkSteps
    <3>4. CASE OpenTemporary(p)
      BY <3>4, OpenStep
    <3>5. CASE Sync(p)
      BY <3>5, SyncStep
    <3>6. CASE Persist(p)
      BY <3>6, PersistStep
    <3>7. CASE Unstage(p) \/ Leave(p)
      BY <3>7, RemoveSteps
    <3>8. CASE Truncate(p)
      BY <3>8, TruncateStep
    <3>9. CASE Write(p)
      BY <3>9, WriteStep
    <3>10. CASE Compare(p)
      BY <3>10, CompareStep
    <3> QED BY <2>2, <3>1, <3>2, <3>3, <3>4, <3>5, <3>6, <3>7, <3>8, <3>9, <3>10 DEF Step
  <2>3. ASSUME NEW p \in crew, Fail(p) \/ Kill(p)
        PROVE  ArtefactInv'
    BY <2>3, FailStep, KillStep
  <2>4. ASSUME NEW p \in crew, NEW command \in Commands, Start(p, command)
        PROVE  ArtefactInv'
    BY <2>4, StartStep
  <2>5. CASE PowerLoss \/ WriteBack \/ Edit
    BY <2>5, PowerLossStep, WriteBackStep, EditStep
  <2> QED BY <2>1, <2>2, <2>3, <2>4, <2>5 DEF Next
<1> QED BY InitHolds, <1>1, PTL DEF Spec

(* No failure, crash or rival costs the checked-in file more than the way  *)
(* it is written explains (FilesKept).                                     *)
THEOREM FilesAreKept == Spec => []FilesKept
<1>1. ArtefactInv => FailureChangesNothing
  BY DEF ArtefactInv, CommandsInv, Knows, FailureChangesNothing
<1>2. ArtefactInv => FilesKept
  BY <1>1 DEF ArtefactInv, FileInv, FilesKept
<1> QED BY <1>2, ArtefactInvariant, PTL

(* A command that ends, with nobody else writing since it began, told the  *)
(* truth of the file (VerdictsHold).                                       *)
THEOREM VerdictsAreTrue == Spec => []VerdictsHold
<1>1. ArtefactInv => VerdictsHold
  BY DEF ArtefactInv, CommandsInv, Knows, VerdictsHold
<1> QED BY <1>1, ArtefactInvariant, PTL

(* A command that has ended holds no temporary name, and names are never   *)
(* shared or taken over from a crash (LeavesNothing).                      *)
THEOREM NothingIsLeft == Spec => []LeavesNothing
<1>1. ArtefactInv => LeavesNothing
  <2> SUFFICES ASSUME ArtefactInv
               PROVE  LeavesNothing
    OBVIOUS
  <2>1. source \in Versions
    <3>1. source \in Nat /\ left.edits \in Nat /\ source + left.edits <= MaxEdits
      BY DEF ArtefactInv, StateInv
    <3> QED BY <3>1, BoundAssumption DEF Versions
  <2>2. \A p \in Processes : run[p].work \in Contents /\ run[p].found \in Contents
    <3>1. \A p \in Processes : run[p] \in Record
      BY DEF ArtefactInv, StateInv
    <3> QED BY <3>1 DEF Record
  <2>3. TypeOK
    BY <2>1, <2>2 DEF ArtefactInv, StateInv, NamesInv, TypeOK
  <2>4. \A p \in Processes : ~Running(p) => run[p].names = {}
    BY StepIs DEF ArtefactInv, StateInv, CommandsInv, Running
  <2> QED BY <2>3, <2>4 DEF LeavesNothing
<1> QED BY <1>1, ArtefactInvariant, PTL

------------------------------------------------------------------------------
(* The audit of aliases.                                                   *)

Support == {"full", "partial", "unsupported", "unassessed"}
Production == [mapping : {"direct", "alias", "none"}, support : Support, targets : Seq(Names)]
FrameType == [name : Names, next : Nat, any : BOOLEAN]

\* What the map says, as values that no step changes.
Targets == [n \in Names |-> TargetsOf(n)]
Reached == [n \in Names |-> Reach(n)]
Aliases == {n \in Names : IsAlias(n)}
Direct == {n \in Names : map[n].mapping = "direct"}
Full == {n \in Names : map[n].support = "full"}
Unassessed == {n \in Names : map[n].support = "unassessed"}
Fitting == {n \in Names : map[n].support = Expected({map[t].support : t \in Targets[n]})}

\* The names whose answer is known, and those whose answer is yes.
Memo == DOMAIN resolved
Positive == {n \in Memo : resolved[n]}

MapInv ==
    /\ map \in Seq(Production)
    /\ \A n \in Names :
         /\ map[n].mapping = "none" <=> map[n].support \in {"unsupported", "unassessed"}
         /\ IsAlias(n) <=> map[n].targets # <<>>

TypeInv ==
    /\ MapInv
    /\ current \in Nat \ {0}
    /\ stack \in Seq(FrameType)
    /\ resolved \in [Memo -> BOOLEAN]
    /\ Memo \subseteq Names
    /\ verdict \in {"running", "ok", "cycle", "no endpoint", "support"}

\* A name on the stack is reached from every name below it and has no answer yet.
PathInv ==
    /\ visiting = {stack[k].name : k \in DOMAIN stack}
    /\ \A j, k \in DOMAIN stack :
         j < k => /\ stack[j].name # stack[k].name
                  /\ stack[k].name \in Reached[stack[j].name]
    /\ \A k \in 2..Len(stack) : stack[k].name \in Targets[stack[k - 1].name]
    /\ \A k \in DOMAIN stack : stack[k].name \notin Memo

\* What a call has found so far is what the memo says of the targets before the
\* next one.
FrameFits(productions, frame, memo, positive) ==
    LET list == productions[frame.name].targets
        seen == {list[i] : i \in 1..(frame.next - 1)}
    IN  /\ frame.next \in 1..(Len(list) + 1)
        /\ seen \subseteq memo
        /\ frame.any <=> seen \cap positive # {}
FramesInv == \A k \in DOMAIN stack : FrameFits(map, stack[k], Memo, Positive)

MemoInv ==
    \A n \in Memo :
        /\ Targets[n] \subseteq Memo
        /\ n \notin Reached[n]
        /\ n \in Positive <=> ({n} \cup Reached[n]) \cap Direct # {}
        /\ n \in Aliases /\ ({n} \cup Reached[n]) \cap Aliases \subseteq Fitting =>
             (n \in Full <=> Reached[n] \ Aliases \subseteq Full)

\* The productions before the current one are audited.
AuditInv ==
    /\ \A n \in Aliases : n < current => n \in Positive /\ n \in Fitting
    /\ verdict = "ok" => current > Len(map)
    /\ verdict = "cycle" => \E n \in Names : n \in Reached[n]

SearchInv == TypeInv /\ PathInv /\ FramesInv /\ MemoInv /\ AuditInv

------------------------------------------------------------------------------
LEMMA EmptyDomain ==
    ASSUME NEW S, NEW s \in Seq(S)
    PROVE  s # <<>> <=> DOMAIN s # {}
<1>1. DOMAIN s = 1..Len(s) /\ Len(s) \in Nat
  OBVIOUS
<1>2. Len(s) = 0 <=> s = <<>>
  BY EmptySeq
<1>3. Len(s) # 0 <=> 1 \in 1..Len(s)
  BY <1>1
<1>4. \A i \in 1..Len(s) : Len(s) # 0
  BY <1>1
<1>5. DOMAIN s = {} <=> Len(s) = 0
  BY <1>1, <1>3, <1>4
<1> QED BY <1>2, <1>5

(* What the map says of targets and of what is reached.                    *)
LEMMA MapFacts ==
    ASSUME MapInv
    PROVE  /\ Names = 1..Len(map) /\ Len(map) \in Nat
           /\ \A n \in Names : map[n].targets \in Seq(Names)
           /\ Targets \in [Names -> SUBSET Names]
           /\ Aliases \subseteq Names /\ Aliases \subseteq Nat /\ Direct \subseteq Names \ Aliases
           /\ \A n \in Names : n \in Aliases <=> Targets[n] # {}
<1>1. Names = 1..Len(map) /\ Len(map) \in Nat
  BY DEF MapInv, Names
<1>2. \A n \in Names : map[n] \in Production
  BY DEF MapInv, Names
<1>3. ASSUME NEW n \in Names
      PROVE  Targets[n] \subseteq Names /\ (n \in Aliases <=> Targets[n] # {})
  <2>1. map[n].targets \in Seq(Names)
    BY <1>2 DEF Production
  <2>2. Targets[n] = {map[n].targets[k] : k \in DOMAIN map[n].targets}
    BY DEF Targets, TargetsOf
  <2>3. Targets[n] \subseteq Names
    BY <2>1, <2>2
  <2>4. map[n].targets # <<>> <=> DOMAIN map[n].targets # {}
    BY <2>1, EmptyDomain
  <2>5. Targets[n] # {} <=> map[n].targets # <<>>
    BY <2>2, <2>4
  <2> QED BY <2>3, <2>5 DEF MapInv, Aliases
<1>4. \A n \in Names : map[n].targets \in Seq(Names)
  BY <1>2 DEF Production
<1>5. Aliases \subseteq Names /\ Names \subseteq Nat
  BY <1>1 DEF Aliases
<1> QED BY <1>1, <1>3, <1>4, <1>5 DEF Targets, Aliases, Direct, IsAlias

(* Whatever holds of the targets of a name and passes from every name to   *)
(* its targets holds of all that the name reaches.                         *)
LEMMA ReachedIn ==
    ASSUME NEW n \in Names, NEW set \in SUBSET Names, Targets[n] \subseteq set,
           \A m \in set : Targets[m] \subseteq set
    PROVE  Reached[n] \subseteq set
<1>1. Closed(set) /\ TargetsOf(n) \subseteq set
  BY DEF Closed, Targets
<1>2. Reached[n] = Reach(n)
  BY DEF Reached
<1> QED BY <1>1, <1>2 DEF Reach

(* What a name reaches is its targets and what they reach.                 *)
LEMMA ReachedFacts ==
    ASSUME MapInv
    PROVE  /\ Reached \in [Names -> SUBSET Names]
           /\ \A n \in Names :
                /\ Targets[n] \subseteq Reached[n]
                /\ \A m \in Reached[n] : Targets[m] \cup Reached[m] \subseteq Reached[n]
                /\ Reached[n] = Targets[n] \cup UNION {Reached[t] : t \in Targets[n]}
<1>1. Targets \in [Names -> SUBSET Names]
  BY MapFacts
<1>2. \A n \in Names : Reached[n] = Reach(n) /\ Targets[n] = TargetsOf(n)
  BY DEF Reached, Targets
<1>3. Reached \in [Names -> SUBSET Names]
  BY DEF Reached, Reach
<1>4. ASSUME NEW n \in Names, NEW m \in Reached[n]
      PROVE  Targets[m] \subseteq Reached[n]
  <2>1. SUFFICES ASSUME NEW t \in Targets[m], NEW set \in SUBSET Names,
                        Closed(set), TargetsOf(n) \subseteq set
                 PROVE  t \in set
    BY <1>1, <1>2, <1>3 DEF Reach
  <2>2. m \in set
    BY <1>2, <2>1 DEF Reach
  <2> QED BY <1>2, <1>3, <2>1, <2>2 DEF Closed
<1>5. ASSUME NEW n \in Names
      PROVE  Targets[n] \subseteq Reached[n]
  BY <1>1, <1>2 DEF Reach
<1>6. ASSUME NEW n \in Names, NEW m \in Reached[n]
      PROVE  Reached[m] \subseteq Reached[n]
  BY <1>3, <1>4, ReachedIn
<1>7. ASSUME NEW n \in Names
      PROVE  Reached[n] = Targets[n] \cup UNION {Reached[t] : t \in Targets[n]}
  <2> DEFINE set == Targets[n] \cup UNION {Reached[t] : t \in Targets[n]}
  <2>1. set \in SUBSET Names
    BY <1>1, <1>3
  <2>2. \A m \in set : Targets[m] \subseteq set
    BY <1>1, <1>3, <1>4, <1>5
  <2>3. Reached[n] \subseteq set
    BY <2>1, <2>2, ReachedIn
  <2>4. set \subseteq Reached[n]
    BY <1>5, <1>6
  <2> QED BY <2>3, <2>4
<1> QED BY <1>3, <1>4, <1>5, <1>6, <1>7

(* An alias that follows from its targets is full exactly if they are, and *)
(* none of them is unassessed.                                             *)
LEMMA FittingFacts ==
    ASSUME MapInv, NEW n \in Aliases, n \in Fitting
    PROVE  /\ n \in Full <=> Targets[n] \subseteq Full
           /\ Targets[n] \cap Unassessed = {}
<1>1. /\ n \in Names /\ Targets[n] \subseteq Names /\ Targets[n] # {}
      /\ map[n].mapping = "alias"
  BY MapFacts DEF Aliases, IsAlias
<1>2. map[n].support \in {"full", "partial"}
  <2>1. map[n] \in Production
    BY <1>1 DEF MapInv, Names
  <2>2. map[n].support \in Support
    BY <2>1 DEF Production
  <2> QED BY <1>1, <2>2 DEF MapInv, Support
<1> DEFINE supports == {map[t].support : t \in Targets[n]}
<1>3. map[n].support = Expected(supports)
  BY DEF Fitting
<1>4. supports = {"full"} <=> Targets[n] \subseteq Full
  BY <1>1 DEF Full
<1>5. "unassessed" \in supports <=> Targets[n] \cap Unassessed # {}
  BY <1>1 DEF Unassessed
<1>6. n \in Full <=> map[n].support = "full"
  BY <1>1 DEF Full
<1> HIDE DEF supports
<1>7. "unassessed" \notin supports
  BY <1>2, <1>3 DEF Expected
<1>8. map[n].support = "full" <=> supports = {"full"}
  BY <1>2, <1>3, <1>7 DEF Expected
<1> QED BY <1>4, <1>5, <1>6, <1>7, <1>8

(* No step changes the map.                                                *)
LEMMA MapFixed ==
    ASSUME map' = map
    PROVE  /\ Names' = Names /\ Targets' = Targets /\ Reached' = Reached
           /\ Aliases' = Aliases /\ Direct' = Direct /\ Full' = Full
           /\ Unassessed' = Unassessed /\ Fitting' = Fitting /\ (MapInv => MapInv')
<1>1. Names' = Names
  BY DEF Names
<1>2. Targets' = Targets
  BY DEF Names, Targets, TargetsOf
<1>3. Reached' = Reached
  BY DEF Names, Reached, Reach, Closed, TargetsOf
<1>4. Aliases' = Aliases /\ Direct' = Direct /\ Full' = Full /\ Unassessed' = Unassessed
  BY DEF Names, Aliases, IsAlias, Direct, Full, Unassessed
<1>5. Fitting' = Fitting
  BY <1>1, <1>2 DEF Fitting
<1>6. MapInv => MapInv'
  BY DEF MapInv, Names, Production, IsAlias
<1> QED BY <1>1, <1>2, <1>3, <1>4, <1>5, <1>6

LEMMA MemoFixed ==
    ASSUME resolved' = resolved
    PROVE  Memo' = Memo /\ Positive' = Positive
BY DEF Memo, Positive

------------------------------------------------------------------------------
(* The frames: a new one has looked at nothing, one more answer is one     *)
(* more target looked at, and a frame that has looked at all knows the     *)
(* answer of every target.                                                 *)
LEMMA NewFrame ==
    ASSUME NEW productions \in Seq(Production), NEW n \in DOMAIN productions,
           NEW memo, NEW positive
    PROVE  FrameFits(productions, Frame(n), memo, positive)
<1>1. Len(productions[n].targets) \in Nat
  BY DEF Production
<1> QED BY <1>1 DEF FrameFits, Frame

LEMMA NextFrame ==
    ASSUME NEW productions, NEW frame \in FrameType, NEW memo, NEW positive,
           FrameFits(productions, frame, memo, positive),
           frame.next <= Len(productions[frame.name].targets),
           Len(productions[frame.name].targets) \in Nat,
           NEW target, target = productions[frame.name].targets[frame.next],
           target \in memo, NEW answer \in BOOLEAN, answer <=> target \in positive
    PROVE  /\ AfterTarget(frame, answer) \in FrameType
           /\ AfterTarget(frame, answer).name = frame.name
           /\ FrameFits(productions, AfterTarget(frame, answer), memo, positive)
<1> DEFINE onward == [frame EXCEPT !.any = @ \/ answer, !.next = @ + 1]
           list == productions[frame.name].targets
           seen == {list[i] : i \in 1..(frame.next - 1)}
<1>1. /\ onward.name = frame.name /\ onward.next = frame.next + 1
      /\ onward.any <=> frame.any \/ answer
  BY DEF FrameType
<1>2. onward \in FrameType
  <2> DEFINE either == frame.any \/ answer
  <2>1. either \in BOOLEAN
    OBVIOUS
  <2>2. onward = [frame EXCEPT !.any = either, !.next = @ + 1]
    OBVIOUS
  <2> HIDE DEF either, onward
  <2>3. onward = [name |-> frame.name, next |-> frame.next + 1, any |-> either]
    BY <2>2 DEF FrameType
  <2>4. frame.name \in Names /\ frame.next + 1 \in Nat
    BY DEF FrameType
  <2> QED BY <2>1, <2>3, <2>4 DEF FrameType
<1>3. {list[i] : i \in 1..((frame.next + 1) - 1)} = seen \cup {target}
  <2>1. 1..((frame.next + 1) - 1) = 1..(frame.next - 1) \cup {frame.next}
    BY DEF FrameType, FrameFits
  <2> QED BY <2>1
<1>4. frame.next + 1 \in 1..(Len(list) + 1)
  BY DEF FrameType, FrameFits
<1>5. seen \subseteq memo /\ (frame.any <=> seen \cap positive # {})
  BY DEF FrameFits
<1> HIDE DEF onward, seen
<1>6. (seen \cup {target}) \subseteq memo
  BY <1>5
<1>7. onward.any <=> (seen \cup {target}) \cap positive # {}
  BY <1>1, <1>5
<1>8. FrameFits(productions, onward, memo, positive)
  BY <1>1, <1>3, <1>4, <1>6, <1>7 DEF FrameFits
<1> QED BY <1>1, <1>2, <1>8 DEF AfterTarget, onward

LEMMA SameFrame ==
    ASSUME NEW productions, NEW frame, NEW memo, NEW positive,
           FrameFits(productions, frame, memo, positive),
           NEW n, n \notin memo, NEW positive2, positive \subseteq positive2,
           positive2 \subseteq positive \cup {n}
    PROVE  FrameFits(productions, frame, memo \cup {n}, positive2)
<1> DEFINE seen == {productions[frame.name].targets[i] : i \in 1..(frame.next - 1)}
<1>1. /\ frame.next \in 1..(Len(productions[frame.name].targets) + 1)
      /\ seen \subseteq memo /\ (frame.any <=> seen \cap positive # {})
  BY DEF FrameFits
<1> HIDE DEF seen
<1>2. seen \cap positive2 = seen \cap positive
  BY <1>1
<1>3. seen \subseteq memo \cup {n} /\ (frame.any <=> seen \cap positive2 # {})
  BY <1>1, <1>2
<1> QED BY <1>1, <1>3 DEF FrameFits, seen

(* The running call.                                                       *)
LEMMA TopIs ==
    ASSUME TypeInv, FramesInv, stack # <<>>
    PROVE  /\ Len(stack) \in Nat \ {0} /\ DOMAIN stack = 1..Len(stack)
           /\ Top = stack[Len(stack)] /\ Len(stack) \in DOMAIN stack
           /\ Top \in FrameType /\ FrameFits(map, Top, Memo, Positive)
<1>1. stack \in Seq(FrameType)
  BY DEF TypeInv
<1>2. Len(stack) \in Nat \ {0} /\ DOMAIN stack = 1..Len(stack)
  BY <1>1, EmptySeq
<1>3. Len(stack) \in DOMAIN stack /\ stack[Len(stack)] \in FrameType
  BY <1>1, <1>2
<1> QED BY <1>2, <1>3 DEF Top, FramesInv

(* The target of a frame that has not looked at all of them.               *)
LEMMA TargetIs ==
    ASSUME MapInv, stack # <<>>, Top \in FrameType, FrameFits(map, Top, Memo, Positive),
           ~Exhausted(Top)
    PROVE  /\ Target \in Targets[Top.name] /\ Target \in Names
           /\ Top.next <= Len(map[Top.name].targets) /\ Len(map[Top.name].targets) \in Nat
<1>1. Top.name \in Names /\ Top.next \in Nat
  BY DEF FrameType
<1> DEFINE list == map[Top.name].targets
<1>2. list \in Seq(Names)
  BY <1>1, MapFacts
<1>3. Top.next <= Len(list) /\ Top.next >= 1
  BY <1>1, <1>2 DEF Exhausted, FrameFits
<1>4. Targets[Top.name] = {list[i] : i \in DOMAIN list}
  BY <1>1 DEF Targets, TargetsOf
<1>5. Top.next \in DOMAIN list /\ Target = list[Top.next]
  BY <1>1, <1>2, <1>3 DEF Target
<1> QED BY <1>2, <1>3, <1>4, <1>5

(* A call that returns answers for its name, and every target of the name  *)
(* is in the memo by then.                                                 *)
LEMMA ReturnAnswers ==
    ASSUME MapInv, NEW frame \in FrameType, FrameFits(map, frame, Memo, Positive),
           Exhausted(frame)
    PROVE  /\ Targets[frame.name] \subseteq Memo
           /\ Answer(frame) <=> \/ frame.name \in Direct
                                \/ Targets[frame.name] \cap Positive # {}
<1> DEFINE n == frame.name
           list == map[n].targets
<1>1. n \in Names /\ frame.next \in Nat
  BY DEF FrameType
<1>2. n \in Direct => n \notin Aliases /\ Targets[n] = {}
  BY <1>1, MapFacts
<1>3. CASE IsAlias(n)
  <2>1. list \in Seq(Names)
    BY <1>1, MapFacts
  <2>2. frame.next - 1 = Len(list)
    BY <1>1, <1>3, <2>1 DEF Exhausted, FrameFits
  <2>3. Targets[n] = {list[i] : i \in 1..(frame.next - 1)}
    <3>1. DOMAIN list = 1..(frame.next - 1)
      BY <2>1, <2>2
    <3>2. Targets[n] = {list[i] : i \in DOMAIN list}
      BY <1>1 DEF Targets, TargetsOf
    <3> QED BY <3>1, <3>2
  <2>4. Targets[n] \subseteq Memo /\ (frame.any <=> Targets[n] \cap Positive # {})
    BY <2>3 DEF FrameFits
  <2>5. n \notin Direct
    BY <1>2, <1>1, <1>3 DEF Aliases
  <2> QED BY <1>3, <2>4, <2>5 DEF Answer
<1>4. CASE ~IsAlias(n)
  <2>1. Targets[n] = {}
    BY <1>1, <1>4, MapFacts DEF Aliases
  <2>2. Answer(frame) <=> n \in Direct
    BY <1>1, <1>4 DEF Answer, Direct
  <2> QED BY <2>1, <2>2
<1> QED BY <1>3, <1>4

------------------------------------------------------------------------------
(* The initial state.                                                      *)
LEMMA AuditStarts == AuditInit => SearchInv
<1> SUFFICES ASSUME AuditInit
             PROVE  SearchInv
  OBVIOUS
<1>1. MapInv
  <2>1. map \in Maps
    BY DEF AuditInit
  <2> QED BY <2>1, ProductionAssumption DEF MapInv, Production, Support, Names, IsAlias
<1>2. Memo = {} /\ resolved \in [Memo -> BOOLEAN]
  BY DEF AuditInit, Memo
<1>3. TypeInv
  BY <1>1, <1>2 DEF TypeInv, AuditInit
<1>4. PathInv /\ FramesInv
  BY DEF AuditInit, PathInv, FramesInv
<1>5. MemoInv
  BY <1>2 DEF MemoInv
<1>6. AuditInv
  BY MapFacts, <1>1 DEF AuditInit, AuditInv
<1> QED BY <1>3, <1>4, <1>5, <1>6 DEF SearchInv

(* What a step that leaves the memo alone keeps, and one that leaves the   *)
(* calls alone too.                                                        *)
LEMMA MemoKept ==
    ASSUME MapInv, MemoInv, map' = map, resolved' = resolved
    PROVE  MapInv' /\ MemoInv' /\ Memo' = Memo /\ Positive' = Positive
BY MapFixed, MemoFixed DEF MemoInv

LEMMA CallsKept ==
    ASSUME SearchInv, UNCHANGED <<map, stack, visiting, resolved>>
    PROVE  PathInv' /\ FramesInv' /\ MemoInv' /\ MapInv'
<1>1. Memo' = Memo /\ Positive' = Positive /\ MemoInv' /\ MapInv'
  BY MemoKept DEF SearchInv, TypeInv
<1>2. PathInv'
  BY <1>1, MapFixed DEF SearchInv, PathInv
<1>3. FramesInv'
  BY <1>1 DEF SearchInv, FramesInv
<1> QED BY <1>1, <1>2, <1>3

LEMMA AuditKept ==
    ASSUME AuditInv, UNCHANGED <<map, current, verdict>>, Positive \subseteq Positive'
    PROVE  AuditInv'
<1>1. Names' = Names /\ Aliases' = Aliases /\ Fitting' = Fitting /\ Reached' = Reached
  BY MapFixed
<1> QED BY <1>1 DEF AuditInv

(* The steps of the outer loop and the refusals change no call.            *)
LEMMA LoopSteps ==
    ASSUME SearchInv,
           SkipProduction \/ AcceptAlias \/ RefuseCycle \/ RefuseAlias \/ Finish
    PROVE  SearchInv'
<1>1. UNCHANGED <<map, stack, visiting, resolved>>
  BY DEF SkipProduction, AcceptAlias, RefuseCycle, RefuseAlias, Finish, Refuse
<1>2. PathInv' /\ FramesInv' /\ MemoInv' /\ MapInv'
  BY <1>1, CallsKept
<1>3. /\ Names' = Names /\ Aliases' = Aliases /\ Fitting' = Fitting /\ Reached' = Reached
      /\ Memo' = Memo /\ Positive' = Positive /\ FrameType' = FrameType
  BY <1>1, MapFixed, MemoFixed DEF FrameType
<1>4. TypeInv'
  <2>1. current' \in Nat \ {0}
    <3>1. current \in Nat \ {0}
      BY DEF SearchInv, TypeInv
    <3>2. current' = current \/ current' = current + 1
      BY DEF SkipProduction, AcceptAlias, RefuseCycle, RefuseAlias, Finish, Refuse
    <3> QED BY <3>1, <3>2
  <2>2. verdict' \in {"running", "ok", "cycle", "no endpoint", "support"}
    BY DEF SearchInv, TypeInv, SkipProduction, AcceptAlias, RefuseCycle, RefuseAlias, Finish, Refuse
  <2> QED BY <1>1, <1>2, <1>3, <2>1, <2>2 DEF SearchInv, TypeInv
<1>5. AuditInv'
  <2>1. CASE SkipProduction
    <3>1. current \notin Aliases /\ current' = current + 1 /\ verdict' = verdict /\ verdict = "running"
      BY <2>1 DEF SkipProduction, Aliases, Auditing
    <3>2. Aliases \subseteq Nat /\ current \in Nat
      BY MapFacts DEF SearchInv, TypeInv
    <3>3. \A n \in Aliases : n < current + 1 => n < current \/ n = current
      BY <3>2
    <3> QED BY <1>3, <3>1, <3>3 DEF SearchInv, AuditInv
  <2>2. CASE AcceptAlias
    <3>1. current' = current + 1 /\ verdict' = verdict /\ verdict = "running"
      BY <2>2 DEF AcceptAlias, Auditing, Searched
    <3>2. current \in Positive /\ current \in Fitting
      <4>1. current \in Memo /\ resolved[current] /\ SupportFits /\ current \in Names
        BY <2>2 DEF AcceptAlias, Searched, Known, Memo, SearchInv, TypeInv
      <4> QED BY <4>1 DEF Positive, Fitting, SupportFits, Targets
    <3>3. Aliases \subseteq Nat /\ current \in Nat
      BY MapFacts DEF SearchInv, TypeInv
    <3>4. \A n \in Aliases : n < current + 1 => n < current \/ n = current
      BY <3>3
    <3> QED BY <1>3, <3>1, <3>2, <3>4 DEF SearchInv, AuditInv
  <2>3. CASE RefuseCycle
    <3>1. stack # <<>> /\ ~Exhausted(Top) /\ Target \in visiting /\ verdict' = "cycle" /\ current' = current
      BY <2>3 DEF RefuseCycle, Searching
    <3>2. /\ Top = stack[Len(stack)] /\ Len(stack) \in DOMAIN stack /\ Top \in FrameType
          /\ DOMAIN stack = 1..Len(stack) /\ Len(stack) \in Nat
          /\ FrameFits(map, Top, Memo, Positive)
      BY <3>1, TopIs DEF SearchInv
    <3>3. Top.name \in Names /\ Target \in Targets[Top.name]
      <4>1. Top.name \in Names
        BY <3>2 DEF FrameType
      <4> QED BY <4>1, <3>1, <3>2, TargetIs DEF SearchInv, TypeInv
    <3>4. PICK k \in DOMAIN stack : Target = stack[k].name
      BY <3>1 DEF SearchInv, PathInv
    <3>5. Target \in Names
      BY <3>3, MapFacts DEF SearchInv, TypeInv
    <3>6. Target = Top.name \/ Top.name \in Reached[Target]
      BY <3>2, <3>4 DEF SearchInv, PathInv
    <3>7. Target \in Reached[Target]
      BY <3>3, <3>5, <3>6, ReachedFacts DEF SearchInv, TypeInv
    <3> QED BY <1>3, <1>1, <3>1, <3>5, <3>7 DEF SearchInv, AuditInv
  <2>4. CASE RefuseAlias
    <3>1. verdict' \in {"no endpoint", "support"} /\ current' = current
      BY <2>4 DEF RefuseAlias, Refuse
    <3> QED BY <1>3, <3>1 DEF SearchInv, AuditInv
  <2>5. CASE Finish
    <3>1. verdict' = "ok" /\ current' = current /\ current > Len(map)
      BY <2>5 DEF Finish, Refuse
    <3> QED BY <1>1, <1>3, <3>1 DEF SearchInv, AuditInv
  <2> QED BY <2>1, <2>2, <2>3, <2>4, <2>5
<1> QED BY <1>2, <1>4, <1>5 DEF SearchInv

(* A search begins with a name that has no answer.                         *)
LEMMA BeginSteps ==
    ASSUME SearchInv, BeginSearch
    PROVE  SearchInv'
<1>1. /\ stack' = <<Frame(current)>> /\ visiting' = {current} /\ verdict' = verdict
      /\ UNCHANGED <<map, current, resolved>>
  BY DEF BeginSearch
<1>2. MapInv' /\ MemoInv' /\ Memo' = Memo /\ Positive' = Positive /\ Names' = Names
  BY <1>1, MemoKept, MapFixed DEF SearchInv, TypeInv
<1>3. current \in Names /\ current \notin Memo
  <2>1. current \in Nat \ {0} /\ current <= Len(map) /\ ~Known(current)
    BY DEF SearchInv, TypeInv, BeginSearch
  <2>2. Names = 1..Len(map) /\ Len(map) \in Nat
    BY MapFacts DEF SearchInv, TypeInv
  <2> QED BY <2>1, <2>2 DEF Known, Memo
<1>4. Frame(current) \in FrameType /\ Frame(current).name = current
  BY <1>3 DEF Frame, FrameType
<1>5. /\ stack' \in Seq(FrameType) /\ Len(stack') = 1 /\ DOMAIN stack' = 1..1
      /\ stack'[1] = Frame(current)
  BY <1>1, <1>4
<1>6. TypeInv'
  BY <1>1, <1>2, <1>5 DEF SearchInv, TypeInv, FrameType
<1>7. PathInv'
  BY <1>1, <1>2, <1>3, <1>4, <1>5 DEF PathInv
<1>8. FramesInv'
  <2>1. FrameFits(map, Frame(current), Memo, Positive)
    BY <1>3, NewFrame DEF SearchInv, TypeInv, MapInv, Names
  <2> QED BY <1>1, <1>2, <1>5, <2>1 DEF FramesInv
<1>9. AuditInv'
  BY <1>1, <1>2, AuditKept DEF SearchInv
<1> QED BY <1>2, <1>6, <1>7, <1>8, <1>9 DEF SearchInv

(* A call takes the answer for its next target from the memo.              *)
LEMMA TakeSteps ==
    ASSUME SearchInv, TakeAnswer
    PROVE  SearchInv'
<1> DEFINE last == Len(stack)
           onward == AfterTarget(Top, resolved[Target])
<1>1. /\ stack # <<>> /\ ~Exhausted(Top) /\ Target \in Memo
      /\ stack' = [stack EXCEPT ![last] = onward]
      /\ UNCHANGED <<map, current, visiting, resolved, verdict>>
  BY DEF TakeAnswer, Searching, Known, Memo
<1>2. /\ MapInv' /\ MemoInv' /\ Memo' = Memo /\ Positive' = Positive /\ Names' = Names
      /\ Targets' = Targets /\ Reached' = Reached
  BY <1>1, MemoKept, MapFixed DEF SearchInv, TypeInv
<1>3. /\ last \in Nat \ {0} /\ DOMAIN stack = 1..last /\ Top = stack[last]
      /\ last \in DOMAIN stack /\ Top \in FrameType /\ FrameFits(map, Top, Memo, Positive)
  BY <1>1, TopIs DEF SearchInv
<1>4. /\ Top.next <= Len(map[Top.name].targets) /\ Len(map[Top.name].targets) \in Nat
      /\ Target = map[Top.name].targets[Top.next]
  BY <1>1, <1>3, TargetIs DEF SearchInv, TypeInv, Target
<1>5. resolved[Target] \in BOOLEAN /\ (resolved[Target] <=> Target \in Positive)
  BY <1>1 DEF SearchInv, TypeInv, Positive
<1>6. /\ onward \in FrameType /\ onward.name = stack[last].name
      /\ FrameFits(map, onward, Memo, Positive)
  <2> DEFINE named == Target  answer == resolved[named]
  <2>1. /\ named \in Memo /\ named = map[Top.name].targets[Top.next]
        /\ answer \in BOOLEAN /\ (answer <=> named \in Positive)
    BY <1>1, <1>4, <1>5
  <2> HIDE DEF named, answer
  <2>2. /\ AfterTarget(Top, answer) \in FrameType /\ AfterTarget(Top, answer).name = Top.name
        /\ FrameFits(map, AfterTarget(Top, answer), Memo, Positive)
    BY <1>3, <1>4, <2>1, NextFrame
  <2> QED BY <1>3, <2>2 DEF named, answer
<1> HIDE DEF onward
<1>7. /\ stack' \in Seq(FrameType) /\ Len(stack') = last /\ DOMAIN stack' = 1..last
      /\ \A j \in 1..last : stack'[j] = IF j = last THEN onward ELSE stack[j]
  <2>1. stack \in Seq(FrameType)
    BY DEF SearchInv, TypeInv
  <2> QED BY <1>1, <1>3, <1>6, <2>1
<1>8. \A j \in 1..last : stack'[j].name = stack[j].name
  BY <1>6, <1>7
<1>9. TypeInv'
  BY <1>1, <1>2, <1>7 DEF SearchInv, TypeInv, FrameType
<1>10. PathInv'
  <2>1. visiting' = {stack'[k].name : k \in 1..last}
    <3>1. visiting = {stack[k].name : k \in 1..last}
      BY <1>3 DEF SearchInv, PathInv
    <3> QED BY <1>1, <1>8, <3>1
  <2>2. \A k \in 2..last : k \in 1..last /\ k - 1 \in 1..last
    BY <1>3
  <2> QED BY <1>2, <1>3, <1>7, <1>8, <2>1, <2>2 DEF SearchInv, PathInv
<1>11. FramesInv'
  BY <1>1, <1>2, <1>3, <1>6, <1>7 DEF SearchInv, FramesInv
<1>12. AuditInv'
  BY <1>1, <1>2, AuditKept DEF SearchInv
<1> QED BY <1>2, <1>9, <1>10, <1>11, <1>12 DEF SearchInv

(* A call goes down to a target that has no answer and is not on the path. *)
LEMMA DescendSteps ==
    ASSUME SearchInv, Descend
    PROVE  SearchInv'
<1> DEFINE last == Len(stack)
<1>1. /\ stack # <<>> /\ ~Exhausted(Top) /\ Target \notin Memo /\ Target \notin visiting
      /\ stack' = Append(stack, Frame(Target)) /\ visiting' = visiting \cup {Target}
      /\ UNCHANGED <<map, current, resolved, verdict>>
  BY DEF Descend, Searching, Known, Memo
<1>2. /\ MapInv' /\ MemoInv' /\ Memo' = Memo /\ Positive' = Positive /\ Names' = Names
      /\ Targets' = Targets /\ Reached' = Reached
  BY <1>1, MemoKept, MapFixed DEF SearchInv, TypeInv
<1>3. /\ last \in Nat \ {0} /\ DOMAIN stack = 1..last /\ Top = stack[last]
      /\ last \in DOMAIN stack /\ Top \in FrameType /\ FrameFits(map, Top, Memo, Positive)
  BY <1>1, TopIs DEF SearchInv
<1>4. Target \in Targets[Top.name] /\ Target \in Names /\ Top.name \in Names
  BY <1>1, <1>3, TargetIs DEF SearchInv, TypeInv, FrameType
<1>5. Frame(Target) \in FrameType /\ Frame(Target).name = Target
  BY <1>4 DEF Frame, FrameType
<1> DEFINE named == Target  frame == Frame(Target)
<1>6. frame \in FrameType /\ frame.name = named
  BY <1>5
<1> HIDE DEF frame, named, last
<1>7. /\ stack' \in Seq(FrameType) /\ Len(stack') = last + 1 /\ DOMAIN stack' = 1..(last + 1)
      /\ stack'[last + 1] = frame /\ \A j \in 1..last : stack'[j] = stack[j]
  <2>1. stack' = Append(stack, frame) /\ stack \in Seq(FrameType)
    BY <1>1 DEF frame, SearchInv, TypeInv
  <2> QED BY <1>3, <1>6, <2>1 DEF last
<1>8. 1..(last + 1) = 1..last \cup {last + 1} /\ last + 1 \notin 1..last
  BY <1>3
<1>9. TypeInv'
  BY <1>1, <1>2, <1>7 DEF SearchInv, TypeInv, FrameType
<1>10. /\ \A k \in 1..last : stack[k].name # named /\ named \in Reached[stack[k].name]
       /\ named \in Targets[stack[last].name] /\ named \notin Memo
  <2>1. \A k \in 1..last : stack[k].name # named
    BY <1>1, <1>3 DEF SearchInv, PathInv, named
  <2>2. named \in Targets[stack[last].name] /\ stack[last].name \in Names
    BY <1>3, <1>4 DEF named
  <2>3. named \in Reached[stack[last].name]
    BY <2>2, ReachedFacts DEF SearchInv, TypeInv
  <2>5. last \in Nat /\ stack \in [1..last -> FrameType]
    <3>1. stack \in Seq(FrameType)
      BY DEF SearchInv, TypeInv
    <3> QED BY <1>3, <3>1 DEF last
  <2>4. ASSUME NEW k \in 1..last
        PROVE  named \in Reached[stack[k].name]
    <3>1. stack[k].name \in Names
      <4>1. stack[k] \in FrameType
        BY <2>5
      <4> QED BY <4>1 DEF FrameType
    <3>2. k = last \/ stack[last].name \in Reached[stack[k].name]
      <4>1. k = last \/ k < last
        BY <2>5
      <4>2. \A i, j \in 1..last : i < j => stack[j].name \in Reached[stack[i].name]
        BY <1>3 DEF SearchInv, PathInv
      <4> QED BY <1>3, <4>1, <4>2
    <3> QED BY <2>2, <2>3, <3>1, <3>2, ReachedFacts, ZenonT(40) DEF SearchInv, TypeInv
  <2> QED BY <1>1, <2>1, <2>2, <2>4 DEF named
<1>11. PathInv'
  <2>1. visiting' = {stack'[k].name : k \in 1..(last + 1)}
    <3>1. visiting = {stack[k].name : k \in 1..last}
      BY <1>3 DEF SearchInv, PathInv
    <3>2. visiting' = visiting \cup {named}
      BY <1>1 DEF named
    <3> QED BY <1>6, <1>7, <1>8, <3>1, <3>2
  <2>2. \A j, k \in 1..(last + 1) :
          j < k => stack'[j].name # stack'[k].name /\ stack'[k].name \in Reached[stack'[j].name]
    <3>1. \A j, k \in 1..(last + 1) : j < k => j \in 1..last /\ (k \in 1..last \/ k = last + 1)
      BY <1>3
    <3>2. \A j, k \in 1..last :
            j < k => stack[j].name # stack[k].name /\ stack[k].name \in Reached[stack[j].name]
      BY <1>3 DEF SearchInv, PathInv
    <3> QED BY <1>6, <1>7, <1>10, <3>1, <3>2
  <2>3. \A k \in 2..(last + 1) : stack'[k].name \in Targets[stack'[k - 1].name]
    <3>1. \A k \in 2..(last + 1) :
            \/ k \in 2..last /\ k \in 1..last /\ k - 1 \in 1..last
            \/ k = last + 1 /\ k - 1 = last
      BY <1>3
    <3>2. \A k \in 2..last : stack[k].name \in Targets[stack[k - 1].name]
      BY DEF SearchInv, PathInv, last
    <3> QED BY <1>3, <1>6, <1>7, <1>10, <3>1, <3>2
  <2>4. \A k \in 1..(last + 1) : stack'[k].name \notin Memo
    BY <1>3, <1>6, <1>7, <1>8, <1>10 DEF SearchInv, PathInv
  <2> QED BY <1>2, <1>7, <2>1, <2>2, <2>3, <2>4 DEF PathInv
<1>12. FramesInv'
  <2>1. FrameFits(map, frame, Memo, Positive)
    BY <1>4, NewFrame DEF SearchInv, TypeInv, MapInv, Names, frame
  <2> QED BY <1>1, <1>2, <1>3, <1>7, <1>8, <2>1 DEF SearchInv, FramesInv
<1>13. AuditInv'
  BY <1>1, <1>2, AuditKept DEF SearchInv
<1> QED BY <1>2, <1>9, <1>11, <1>12, <1>13 DEF SearchInv

(* A call returns: its name gets an answer after all its targets, so what  *)
(* it reaches is in the memo already and the name is not.                  *)
LEMMA MemoGrows ==
    ASSUME MapInv, MemoInv, MapInv', map' = map, NEW n \in Names, n \notin Memo,
           Targets[n] \subseteq Memo, Memo \subseteq Names, Positive \subseteq Memo,
           Memo' = Memo \cup {n},
           \/ Positive' = Positive \cup {n} /\ (n \in Direct \/ Targets[n] \cap Positive # {})
           \/ Positive' = Positive /\ ~(n \in Direct \/ Targets[n] \cap Positive # {})
    PROVE  MemoInv'
<1>1. /\ Targets' = Targets /\ Reached' = Reached /\ Direct' = Direct /\ Aliases' = Aliases
      /\ Fitting' = Fitting /\ Full' = Full
  BY MapFixed
<1>2. /\ Reached \in [Names -> SUBSET Names] /\ Targets \in [Names -> SUBSET Names]
      /\ Reached[n] = Targets[n] \cup UNION {Reached[t] : t \in Targets[n]}
      /\ \A m \in Reached[n] : Reached[m] \subseteq Reached[n]
  BY MapFacts, ReachedFacts
<1>3. \A m \in Memo : Reached[m] \subseteq Memo
  BY <1>2, ReachedIn DEF MemoInv
<1>4. Reached[n] \subseteq Memo
  BY <1>2, <1>3
<1>5. n \in Positive' <=> ({n} \cup Reached[n]) \cap Direct # {}
  <2>1. \A t \in Targets[n] : t \in Positive <=> ({t} \cup Reached[t]) \cap Direct # {}
    BY DEF MemoInv
  <2>2. Reached[n] \cap Direct # {} <=> \E t \in Targets[n] : ({t} \cup Reached[t]) \cap Direct # {}
    BY <1>2
  <2>3. n \in Positive' <=> n \in Direct \/ Targets[n] \cap Positive # {}
    OBVIOUS
  <2> QED BY <2>1, <2>2, <2>3
<1>6. ASSUME n \in Aliases, ({n} \cup Reached[n]) \cap Aliases \subseteq Fitting
      PROVE  n \in Full <=> Reached[n] \ Aliases \subseteq Full
  <2>1. n \in Full <=> Targets[n] \subseteq Full
    BY <1>6, FittingFacts
  <2>2. ASSUME NEW t \in Targets[n]
        PROVE  t \in Full <=> ({t} \cup Reached[t]) \ Aliases \subseteq Full
    <3>1. t \in Memo /\ t \in Reached[n] /\ Reached[t] \subseteq Reached[n]
      BY <1>2
    <3>2. CASE t \in Aliases
      BY <1>6, <3>1, <3>2 DEF MemoInv
    <3>3. CASE t \notin Aliases
      <4>1. Targets[t] = {}
        BY <3>1, <3>3, MapFacts
      <4>2. Reached[t] = {}
        BY <3>1, <4>1, ReachedFacts
      <4> QED BY <3>3, <4>2
    <3> QED BY <3>2, <3>3
  <2>3. Reached[n] \ Aliases = UNION {({t} \cup Reached[t]) \ Aliases : t \in Targets[n]}
    BY <1>2
  <2> QED BY <2>1, <2>2, <2>3
<1>7. \A m \in Memo : m \in Positive' <=> m \in Positive
  OBVIOUS
<1>8. ASSUME NEW m \in Memo'
      PROVE  /\ Targets[m] \subseteq Memo'
             /\ m \notin Reached[m]
             /\ m \in Positive' <=> ({m} \cup Reached[m]) \cap Direct # {}
             /\ m \in Aliases /\ ({m} \cup Reached[m]) \cap Aliases \subseteq Fitting =>
                  (m \in Full <=> Reached[m] \ Aliases \subseteq Full)
  <2>1. CASE m = n
    BY <2>1, <1>4, <1>5, <1>6
  <2>2. CASE m \in Memo
    BY <2>2, <1>7 DEF MemoInv
  <2> QED BY <2>1, <2>2
<1> QED BY <1>1, <1>8 DEF MemoInv

LEMMA ReturnSteps ==
    ASSUME SearchInv, Return
    PROVE  SearchInv'
<1> DEFINE last == Len(stack)
           n == Top.name
           result == Answer(Top)
<1>1. /\ stack # <<>> /\ Exhausted(Top) /\ visiting' = visiting \ {n} /\ stack' = Below
      /\ resolved' = [m \in Memo \cup {n} |-> IF m = n THEN result ELSE resolved[m]]
      /\ UNCHANGED <<map, current, verdict>>
  BY DEF Return, Memo
<1>2. /\ MapInv' /\ Names' = Names /\ Targets' = Targets /\ Reached' = Reached
  BY <1>1, MapFixed DEF SearchInv, TypeInv
<1>3. /\ last \in Nat \ {0} /\ DOMAIN stack = 1..last /\ Top = stack[last]
      /\ last \in DOMAIN stack /\ Top \in FrameType /\ FrameFits(map, Top, Memo, Positive)
  BY <1>1, TopIs DEF SearchInv
<1>4. n \in Names /\ n \notin Memo
  BY <1>3 DEF SearchInv, PathInv, FrameType
<1>5. Targets[n] \subseteq Memo /\ (result <=> n \in Direct \/ Targets[n] \cap Positive # {})
  BY <1>1, <1>3, ReturnAnswers DEF SearchInv, TypeInv
<1>6. result \in BOOLEAN
  BY <1>3 DEF Answer, FrameType
<1>7. /\ Memo \subseteq Names /\ Positive \subseteq Memo
      /\ \A m \in Memo : resolved[m] \in BOOLEAN /\ (m \in Positive <=> resolved[m])
  BY DEF SearchInv, TypeInv, Positive
<1> HIDE DEF result, n, last
<1>8. Memo' = Memo \cup {n}
  BY <1>1 DEF Memo
<1>9. resolved' \in [Memo' -> BOOLEAN]
  BY <1>1, <1>6, <1>7, <1>8
<1>10. Positive' = Positive \cup IF result THEN {n} ELSE {}
  <2>1. \A m \in Memo' : resolved'[m] <=> IF m = n THEN result ELSE resolved[m]
    BY <1>1, <1>6, <1>7, <1>8
  <2>2. Positive' = {m \in Memo' : resolved'[m]}
    BY DEF Positive
  <2>3. \A m : m \in Positive' <=> m \in Positive \/ (m = n /\ result)
    BY <1>4, <1>7, <1>8, <2>1, <2>2
  <2> QED BY <2>3
<1>11. MemoInv'
  BY <1>1, <1>2, <1>4, <1>5, <1>7, <1>8, <1>10, MemoGrows DEF SearchInv, TypeInv
<1>12. /\ stack' \in Seq(FrameType) /\ Len(stack') = last - 1 /\ DOMAIN stack' = 1..(last - 1)
       /\ \A j \in 1..(last - 1) : stack'[j] = stack[j]
  <2>1. stack \in Seq(FrameType) /\ stack' = SubSeq(stack, 1, last - 1)
    BY <1>1 DEF SearchInv, TypeInv, Below, last
  <2> QED BY <1>3, <2>1 DEF last
<1>13. 1..last = 1..(last - 1) \cup {last} /\ \A j \in 1..(last - 1) : j < last
  BY <1>3
<1>14. TypeInv'
  BY <1>1, <1>2, <1>4, <1>7, <1>8, <1>9, <1>12 DEF SearchInv, TypeInv, FrameType
<1>15. \A j \in 1..(last - 1) : stack[j].name # n
  BY <1>3, <1>13 DEF SearchInv, PathInv, n
<1>16. PathInv'
  <2>1. visiting' = {stack'[k].name : k \in 1..(last - 1)}
    <3>1. visiting = {stack[k].name : k \in 1..last} /\ n = stack[last].name
      BY <1>3 DEF SearchInv, PathInv, n
    <3>2. visiting = {stack[k].name : k \in 1..(last - 1)} \cup {n}
      BY <1>13, <3>1
    <3> QED BY <1>1, <1>12, <1>15, <3>2
  <2>2. \A j, k \in 1..(last - 1) :
          j < k => stack'[j].name # stack'[k].name /\ stack'[k].name \in Reached[stack'[j].name]
    BY <1>3, <1>12, <1>13 DEF SearchInv, PathInv
  <2>3. \A k \in 2..(last - 1) : stack'[k].name \in Targets[stack'[k - 1].name]
    <3>1. \A k \in 2..(last - 1) : k \in 2..last /\ k \in 1..(last - 1) /\ k - 1 \in 1..(last - 1)
      BY <1>3
    <3>2. \A k \in 2..last : stack[k].name \in Targets[stack[k - 1].name]
      BY DEF SearchInv, PathInv, last
    <3> QED BY <1>12, <3>1, <3>2
  <2>4. \A k \in 1..(last - 1) : stack'[k].name \notin Memo \cup {n}
    BY <1>3, <1>12, <1>13, <1>15 DEF SearchInv, PathInv
  <2> QED BY <1>2, <1>8, <1>12, <2>1, <2>2, <2>3, <2>4 DEF PathInv
<1>17. FramesInv'
  <2>1. \A k \in 1..(last - 1) : FrameFits(map, stack[k], Memo, Positive)
    BY <1>3, <1>13 DEF SearchInv, FramesInv
  <2>2. Positive \subseteq Positive' /\ Positive' \subseteq Positive \cup {n}
    BY <1>10
  <2>3. \A k \in 1..(last - 1) : FrameFits(map, stack[k], Memo \cup {n}, Positive')
    BY <1>4, <2>1, <2>2, SameFrame
  <2> QED BY <1>1, <1>8, <1>12, <2>3 DEF FramesInv
<1>18. AuditInv'
  BY <1>1, <1>10, AuditKept DEF SearchInv
<1> QED BY <1>11, <1>14, <1>16, <1>17, <1>18 DEF SearchInv

(* The search keeps its invariant: the names on the stack are a path       *)
(* without an answer, and every answer in the memo is right, final and     *)
(* after those of its targets.                                             *)
THEOREM SearchInvariant == AuditSpec => []SearchInv
<1>1. SearchInv /\ [AuditNext]_auditVars => SearchInv'
  <2> SUFFICES ASSUME SearchInv, [AuditNext]_auditVars
               PROVE  SearchInv'
    OBVIOUS
  <2>1. CASE UNCHANGED auditVars
    <3>1. UNCHANGED <<map, current, stack, visiting, resolved, verdict>>
      BY <2>1 DEF auditVars
    <3>2. PathInv' /\ FramesInv' /\ MemoInv' /\ MapInv'
      BY <3>1, CallsKept
    <3>3. Memo' = Memo /\ Positive' = Positive /\ Names' = Names
      BY <3>1, MemoFixed, MapFixed
    <3>4. AuditInv'
      BY <3>1, <3>3, AuditKept DEF SearchInv
    <3>5. TypeInv'
      BY <3>1, <3>2, <3>3 DEF SearchInv, TypeInv, FrameType
    <3> QED BY <3>2, <3>4, <3>5 DEF SearchInv
  <2>2. CASE SkipProduction \/ AcceptAlias \/ RefuseCycle \/ RefuseAlias \/ Finish
    BY <2>2, LoopSteps
  <2>3. CASE BeginSearch
    BY <2>3, BeginSteps
  <2>4. CASE TakeAnswer
    BY <2>4, TakeSteps
  <2>5. CASE Descend
    BY <2>5, DescendSteps
  <2>6. CASE Return
    BY <2>6, ReturnSteps
  <2> QED BY <2>1, <2>2, <2>3, <2>4, <2>5, <2>6 DEF AuditNext
<1> QED BY AuditStarts, <1>1, PTL DEF AuditSpec

(* What the invariant says of the search: the names being visited are a    *)
(* path, and the memo and the verdict are right.                           *)
LEMMA InvariantMeans == SearchInv => SearchIsRight
<1> SUFFICES ASSUME SearchInv
             PROVE  SearchIsRight
  OBVIOUS
<1>1. MapInv /\ stack \in Seq(FrameType) /\ Memo \subseteq Names
  BY DEF SearchInv, TypeInv
<1>2. /\ \A m \in Names : Reached[m] = Reach(m) /\ Targets[m] = TargetsOf(m)
      /\ \A m \in Names : Reached[m] \subseteq Names
  BY <1>1, ReachedFacts DEF Reached, Targets
<1>3. \A m \in Names : Endpoints(m) = Reached[m] \ Aliases
  BY <1>2 DEF Endpoints, Aliases
<1>4. VisitingIsPath
  <2>1. DOMAIN stack = 1..Len(stack) /\ Len(stack) \in Nat
    BY <1>1
  <2>2. \A j, k \in DOMAIN stack : stack[j].name = stack[k].name => j = k
    <3>1. \A j, k \in DOMAIN stack : j = k \/ j < k \/ k < j
      BY <2>1
    <3> QED BY <3>1 DEF SearchInv, PathInv
  <2>3. \A k \in 2..Len(stack) : stack[k].name \in TargetsOf(stack[k - 1].name)
    <3>1. \A k \in 2..Len(stack) : k - 1 \in 1..Len(stack)
      BY <2>1
    <3>2. \A k \in 1..Len(stack) : stack[k].name \in Names
      <4>1. \A k \in 1..Len(stack) : stack[k] \in FrameType
        BY <1>1
      <4> QED BY <4>1 DEF FrameType
    <3> QED BY <1>2, <3>1, <3>2 DEF SearchInv, PathInv
  <2> QED BY <2>2, <2>3 DEF VisitingIsPath, SearchInv, PathInv
<1>5. MemoSound
  <2>1. SUFFICES ASSUME NEW n \in Memo
                 PROVE  /\ resolved[n] <=> \E m \in {n} \cup Endpoints(n) : map[m].mapping = "direct"
                        /\ \A m \in {n} \cup Reach(n) : m \notin Reach(m)
    BY DEF MemoSound, Memo
  <2>2. n \in Names /\ Reached[n] \subseteq Names /\ Direct \cap Aliases = {}
    BY <1>1, <1>2, MapFacts
  <2>3. n \in Positive <=> ({n} \cup Reached[n]) \cap Direct # {}
    BY DEF SearchInv, MemoInv
  <2>4. resolved[n] <=> n \in Positive
    BY DEF Positive
  <2>5. ({n} \cup Reached[n]) \cap Direct # {}
          <=> \E m \in {n} \cup (Reached[n] \ Aliases) : map[m].mapping = "direct"
    BY <2>2 DEF Direct
  <2>6. Reached[n] \subseteq Memo
    BY <1>1, <2>2, ReachedIn DEF SearchInv, MemoInv
  <2>7. \A m \in {n} \cup Reached[n] : m \notin Reached[m]
    BY <2>6 DEF SearchInv, MemoInv
  <2> QED BY <1>1, <1>2, <1>3, <2>2, <2>3, <2>4, <2>5, <2>6, <2>7
<1>6. VerdictRight
  <2>1. verdict = "cycle" => \E n \in Names : n \in Reach(n)
    BY <1>2 DEF SearchInv, AuditInv
  <2>2. ASSUME verdict = "ok", NEW n \in Names, IsAlias(n)
        PROVE  /\ n \notin Reach(n)
               /\ \E m \in Endpoints(n) : map[m].mapping = "direct"
               /\ \A m \in Endpoints(n) : map[m].support # "unassessed"
               /\ map[n].support = "full" <=> \A m \in Endpoints(n) : map[m].support = "full"
    <3>1. Aliases \subseteq Positive \cap Fitting
      <4>1. \A m \in Aliases : m < current
        BY <1>1, <2>2, MapFacts DEF SearchInv, AuditInv, TypeInv
      <4> QED BY <4>1 DEF SearchInv, AuditInv
    <3>2. n \in Aliases /\ n \in Memo /\ n \in Positive
      BY <2>2, <3>1 DEF Aliases, Positive
    <3>3. n \notin Reached[n] /\ ({n} \cup Reached[n]) \cap Direct # {}
      BY <3>2 DEF SearchInv, MemoInv
    <3>4. n \in Full <=> Reached[n] \ Aliases \subseteq Full
      BY <3>1, <3>2 DEF SearchInv, MemoInv
    <3>5. Reached[n] \cap Unassessed = {}
      <4> DEFINE others == Names \ Unassessed
      <4>1. \A m \in Aliases : Targets[m] \cap Unassessed = {}
        BY <1>1, <3>1, FittingFacts
      <4>2. \A m \in Names : Targets[m] \subseteq others
        BY <1>1, <4>1, MapFacts
      <4> QED BY <4>2, ReachedIn
    <3>6. Direct \cap Aliases = {} /\ Direct \subseteq Names
      BY <1>1, MapFacts
    <3>7. \E m \in Reached[n] \ Aliases : map[m].mapping = "direct"
      BY <3>2, <3>3, <3>6 DEF Direct
    <3>8. \A m \in Reached[n] \ Aliases : map[m].support # "unassessed"
      BY <1>2, <3>5 DEF Unassessed
    <3>9. map[n].support = "full" <=> \A m \in Reached[n] \ Aliases : map[m].support = "full"
      BY <1>2, <3>4 DEF Full
    <3> QED BY <1>2, <1>3, <3>3, <3>7, <3>8, <3>9
  <2> QED BY <2>1, <2>2 DEF VerdictRight
<1> QED BY <1>4, <1>5, <1>6 DEF SearchIsRight

(* Whatever the map is, the search visits no name twice, its memo is right *)
(* for every name in it, and a map is accepted only if every alias reaches *)
(* a direct production, none itself, and its support is what follows       *)
(* (SearchIsRight).                                                        *)
THEOREM SearchCorrect == AuditSpec => []SearchIsRight
BY SearchInvariant, InvariantMeans, PTL

------------------------------------------------------------------------------
(* How long the search takes.                                              *)

ToAudit == {n \in Names : n >= current}
ToAnswer == Names \ Memo
ToVisit == Names \ (Memo \cup visiting)
ToLook == IF stack = <<>> THEN 0 ELSE Len(map[Top.name].targets) + 1 - Top.next

\* What is left to do, the most important first: a verdict to give, productions
\* to audit, names to answer for and to call for, targets the call has to look at.
SearchLeft ==
    <<IF verdict = "running" THEN 1 ELSE 0, Cardinality(ToAudit), Cardinality(ToAnswer),
      Cardinality(ToVisit), ToLook>>

\* Lexicographic order, which is well founded.
LessIsLeft(after, before) ==
    \E k \in 1..5 : after[k] < before[k] /\ \A j \in 1..(k - 1) : after[j] = before[j]

LEMMA NamesCounted ==
    ASSUME MapInv, NEW S, S \subseteq Names
    PROVE  IsFiniteSet(S) /\ Cardinality(S) \in Nat
<1>1. IsFiniteSet(Names)
  <2>1. Names = 1..Len(map) /\ Len(map) \in Nat
    BY MapFacts
  <2> QED BY <2>1, FS_Interval
<1>2. IsFiniteSet(S)
  BY <1>1, FS_Subset
<1> QED BY <1>2, FS_CardinalityType

LEMMA OneLess ==
    ASSUME MapInv, NEW S, S \subseteq Names, NEW T, T \subseteq S, NEW n \in S, n \notin T
    PROVE  Cardinality(T) < Cardinality(S)
<1>1. IsFiniteSet(S) /\ Cardinality(S) \in Nat
  BY NamesCounted
<1>2. T \in SUBSET S /\ T # S
  OBVIOUS
<1>3. Cardinality(T) <= Cardinality(S) /\ Cardinality(T) # Cardinality(S)
  BY <1>1, <1>2, FS_Subset
<1>4. T \subseteq Names
  OBVIOUS
<1>5. Cardinality(T) \in Nat
  BY <1>4, NamesCounted
<1> QED BY <1>1, <1>3, <1>5

LEMMA LeftTyped == SearchInv => SearchLeft \in Nat \X Nat \X Nat \X Nat \X Nat
<1> SUFFICES ASSUME SearchInv PROVE SearchLeft \in Nat \X Nat \X Nat \X Nat \X Nat
  OBVIOUS
<1>1. MapInv
  BY DEF SearchInv, TypeInv
<1>2. /\ Cardinality(ToAudit) \in Nat /\ Cardinality(ToAnswer) \in Nat
      /\ Cardinality(ToVisit) \in Nat
  BY <1>1, NamesCounted DEF ToAudit, ToAnswer, ToVisit
<1>3. ToLook \in Nat
  <2>1. CASE stack = <<>>
    BY <2>1 DEF ToLook
  <2>2. CASE stack # <<>>
    <3>1. Top \in FrameType /\ FrameFits(map, Top, Memo, Positive)
      BY <2>2, TopIs DEF SearchInv
    <3>2. Len(map[Top.name].targets) \in Nat
      BY <1>1, <3>1, MapFacts DEF FrameType
    <3>3. Top.next \in 1..(Len(map[Top.name].targets) + 1)
      BY <3>1 DEF FrameFits
    <3> QED BY <2>2, <3>2, <3>3 DEF ToLook
  <2> QED BY <2>1, <2>2
<1> QED BY <1>2, <1>3 DEF SearchLeft

(* One step leaves less of one thing, and of what comes before it as much  *)
(* as there was.                                                           *)
LEMMA LeftFirst ==
    ASSUME NEW a, NEW b, NEW k \in 1..5, a[k] < b[k], \A j \in 1..(k - 1) : a[j] = b[j]
    PROVE  LessIsLeft(a, b)
BY DEF LessIsLeft

LEMMA VerdictShrinks ==
    ASSUME RefuseCycle \/ RefuseAlias \/ Finish
    PROVE  LessIsLeft(SearchLeft', SearchLeft)
<1>1. verdict = "running" /\ verdict' # "running"
  BY DEF RefuseCycle, RefuseAlias, Finish, Refuse, Searching, Searched, Auditing
<1>2. SearchLeft[1] = 1 /\ SearchLeft'[1] = 0
  BY <1>1 DEF SearchLeft
<1>3. 1 \in 1..5 /\ SearchLeft'[1] < SearchLeft[1] /\ \A j \in 1..(1 - 1) : SearchLeft'[j] = SearchLeft[j]
  BY <1>2
<1> QED BY <1>3, LeftFirst

LEMMA AuditShrinks ==
    ASSUME SearchInv, SkipProduction \/ AcceptAlias
    PROVE  LessIsLeft(SearchLeft', SearchLeft)
<1>1. /\ current' = current + 1 /\ current <= Len(map) /\ current \in Nat \ {0}
      /\ UNCHANGED <<map, verdict>> /\ MapInv
  BY DEF SearchInv, TypeInv, SkipProduction, AcceptAlias, Searched
<1>2. Names' = Names /\ current \in Names /\ Names \subseteq Nat
  BY <1>1, MapFixed, MapFacts
<1>3. current \in ToAudit /\ current \notin ToAudit' /\ ToAudit' \subseteq ToAudit
  <2>1. ToAudit = {n \in Names : n >= current} /\ ToAudit' = {n \in Names : n >= current + 1}
    BY <1>1, <1>2 DEF ToAudit
  <2>2. \A n \in Names : n >= current + 1 => n >= current
    BY <1>1, <1>2
  <2>3. ~(current >= current + 1)
    BY <1>1
  <2>4. current \in ToAudit
    BY <1>1, <1>2, <2>1
  <2>5. current \notin ToAudit'
    BY <2>1, <2>3
  <2>6. ToAudit' \subseteq ToAudit
    BY <2>1, <2>2
  <2> QED BY <2>4, <2>5, <2>6
<1>4. Cardinality(ToAudit') < Cardinality(ToAudit)
  BY <1>1, <1>3, OneLess DEF ToAudit
<1>5. SearchLeft'[2] < SearchLeft[2] /\ SearchLeft'[1] = SearchLeft[1]
  BY <1>1, <1>4 DEF SearchLeft
<1>6. 2 \in 1..5 /\ \A j \in 1..(2 - 1) : j = 1
  OBVIOUS
<1>7. \A j \in 1..(2 - 1) : SearchLeft'[j] = SearchLeft[j]
  BY <1>5, <1>6
<1> QED BY <1>5, <1>6, <1>7, LeftFirst

LEMMA AnswerShrinks ==
    ASSUME SearchInv, Return
    PROVE  LessIsLeft(SearchLeft', SearchLeft)
<1>1. /\ stack # <<>> /\ Memo' = Memo \cup {Top.name} /\ UNCHANGED <<map, current, verdict>>
      /\ MapInv
  BY DEF Return, Memo, SearchInv, TypeInv
<1>2. Top = stack[Len(stack)] /\ Len(stack) \in DOMAIN stack /\ Top \in FrameType
  BY <1>1, TopIs DEF SearchInv
<1>3. Top.name \in Names /\ Top.name \notin Memo
  BY <1>2 DEF SearchInv, PathInv, FrameType
<1>4. Names' = Names
  BY <1>1, MapFixed
<1>5. ToAudit' = ToAudit
  BY <1>1, <1>4 DEF ToAudit
<1>6. Cardinality(ToAnswer') < Cardinality(ToAnswer)
  <2>1. Top.name \in ToAnswer /\ Top.name \notin ToAnswer' /\ ToAnswer' \subseteq ToAnswer
    BY <1>1, <1>3, <1>4 DEF ToAnswer
  <2> QED BY <1>1, <2>1, OneLess DEF ToAnswer
<1>7. SearchLeft'[3] < SearchLeft[3] /\ SearchLeft'[1] = SearchLeft[1] /\ SearchLeft'[2] = SearchLeft[2]
  BY <1>1, <1>5, <1>6 DEF SearchLeft
<1>8. 3 \in 1..5 /\ \A j \in 1..(3 - 1) : j = 1 \/ j = 2
  OBVIOUS
<1>9. \A j \in 1..(3 - 1) : SearchLeft'[j] = SearchLeft[j]
  BY <1>7, <1>8
<1> QED BY <1>7, <1>8, <1>9, LeftFirst

LEMMA CallShrinks ==
    ASSUME SearchInv, BeginSearch \/ Descend
    PROVE  LessIsLeft(SearchLeft', SearchLeft)
<1>1. MapInv
  BY DEF SearchInv, TypeInv
<1>2. /\ UNCHANGED <<map, current, resolved, verdict>>
      /\ \E n \in Names : n \notin Memo \cup visiting /\ visiting' = visiting \cup {n}
  <2>1. CASE BeginSearch
    <3>1. current \in Names /\ current \notin Memo
      <4>1. current \in Nat \ {0} /\ current <= Len(map) /\ ~Known(current)
        BY <2>1 DEF SearchInv, TypeInv, BeginSearch
      <4>2. Names = 1..Len(map) /\ Len(map) \in Nat
        BY <1>1, MapFacts
      <4> QED BY <4>1, <4>2 DEF Known, Memo
    <3>2. visiting = {}
      <4>1. DOMAIN stack = {}
        BY <2>1 DEF BeginSearch
      <4> QED BY <4>1 DEF SearchInv, PathInv
    <3> QED BY <2>1, <3>1, <3>2 DEF BeginSearch
  <2>2. CASE Descend
    <3>1. stack # <<>> /\ ~Exhausted(Top) /\ Target \notin Memo /\ Target \notin visiting
      BY <2>2 DEF Descend, Searching, Known, Memo
    <3>2. Top \in FrameType /\ FrameFits(map, Top, Memo, Positive)
      BY <3>1, TopIs DEF SearchInv
    <3>3. Target \in Names
      BY <1>1, <3>1, <3>2, TargetIs
    <3> QED BY <2>2, <3>1, <3>3 DEF Descend
  <2> QED BY <2>1, <2>2
<1>3. PICK n \in Names : n \notin Memo \cup visiting /\ visiting' = visiting \cup {n}
  BY <1>2
<1>4. Names' = Names /\ Memo' = Memo
  BY <1>2, MapFixed, MemoFixed
<1>5. ToAudit' = ToAudit /\ ToAnswer' = ToAnswer
  BY <1>2, <1>4 DEF ToAudit, ToAnswer
<1>6. Cardinality(ToVisit') < Cardinality(ToVisit)
  <2>1. n \in ToVisit /\ n \notin ToVisit' /\ ToVisit' \subseteq ToVisit
    BY <1>3, <1>4 DEF ToVisit
  <2> QED BY <1>1, <2>1, OneLess DEF ToVisit
<1>7. SearchLeft'[4] < SearchLeft[4] /\ SearchLeft'[1] = SearchLeft[1]
      /\ SearchLeft'[2] = SearchLeft[2] /\ SearchLeft'[3] = SearchLeft[3]
  BY <1>2, <1>5, <1>6 DEF SearchLeft
<1>8. 4 \in 1..5 /\ \A j \in 1..(4 - 1) : j = 1 \/ j = 2 \/ j = 3
  OBVIOUS
<1>9. \A j \in 1..(4 - 1) : SearchLeft'[j] = SearchLeft[j]
  BY <1>7, <1>8
<1> QED BY <1>7, <1>8, <1>9, LeftFirst

LEMMA LookShrinks ==
    ASSUME SearchInv, TakeAnswer
    PROVE  LessIsLeft(SearchLeft', SearchLeft)
<1> DEFINE last == Len(stack)
           onward == AfterTarget(Top, resolved[Target])
<1>1. /\ stack # <<>> /\ ~Exhausted(Top) /\ stack' = [stack EXCEPT ![last] = onward]
      /\ UNCHANGED <<map, current, visiting, resolved, verdict>> /\ MapInv
  BY DEF TakeAnswer, Searching, SearchInv, TypeInv
<1>2. /\ last \in Nat \ {0} /\ last \in DOMAIN stack /\ stack \in Seq(FrameType)
      /\ Top = stack[last] /\ Top \in FrameType /\ FrameFits(map, Top, Memo, Positive)
  BY <1>1, TopIs DEF SearchInv, TypeInv
<1>3. onward.name = Top.name /\ onward.next = Top.next + 1
  BY <1>2 DEF AfterTarget, FrameType
<1>4. Top.next <= Len(map[Top.name].targets) /\ Len(map[Top.name].targets) \in Nat
  BY <1>1, <1>2, TargetIs
<1> HIDE DEF onward
<1>5. Len(stack') = last /\ stack'[last] = onward /\ stack' # <<>>
  BY <1>1, <1>2
<1>6. Top' = onward
  BY <1>5 DEF Top
<1>7. ToLook' < ToLook
  <2>1. ToLook = Len(map[Top.name].targets) + 1 - Top.next
    BY <1>1 DEF ToLook
  <2>2. ToLook' = Len(map[Top.name].targets) + 1 - (Top.next + 1)
    BY <1>1, <1>3, <1>5, <1>6 DEF ToLook
  <2>3. Top.next \in Nat
    BY <1>2 DEF FrameType
  <2> QED BY <1>4, <2>1, <2>2, <2>3
<1>8. Names' = Names /\ Memo' = Memo
  BY <1>1, MapFixed, MemoFixed
<1>9. ToAudit' = ToAudit /\ ToAnswer' = ToAnswer /\ ToVisit' = ToVisit
  BY <1>1, <1>8 DEF ToAudit, ToAnswer, ToVisit
<1>10. SearchLeft'[5] < SearchLeft[5] /\ SearchLeft'[1] = SearchLeft[1]
       /\ SearchLeft'[2] = SearchLeft[2] /\ SearchLeft'[3] = SearchLeft[3]
       /\ SearchLeft'[4] = SearchLeft[4]
  BY <1>1, <1>7, <1>9 DEF SearchLeft
<1>11. 5 \in 1..5 /\ \A j \in 1..(5 - 1) : j = 1 \/ j = 2 \/ j = 3 \/ j = 4
  OBVIOUS
<1>12. \A j \in 1..(5 - 1) : SearchLeft'[j] = SearchLeft[j]
  BY <1>10, <1>11
<1> QED BY <1>10, <1>11, <1>12, LeftFirst

(* The recursion of alias_reaches_direct ends, for every map, cyclic or    *)
(* not, and so does the audit: every step gives the verdict, or goes on to *)
(* the next production, answers for a name that had no answer, calls for a *)
(* name that was not called for, or looks at one more target, and takes    *)
(* none of these back but for something more important.                    *)
THEOREM SearchEnds ==
    AuditSpec => /\ [](SearchLeft \in Nat \X Nat \X Nat \X Nat \X Nat)
                 /\ [][LessIsLeft(SearchLeft', SearchLeft)]_auditVars
<1>1. SearchInv /\ [AuditNext]_auditVars => [LessIsLeft(SearchLeft', SearchLeft)]_auditVars
  <2> SUFFICES ASSUME SearchInv, AuditNext
               PROVE  LessIsLeft(SearchLeft', SearchLeft)
    OBVIOUS
  <2> QED BY VerdictShrinks, AuditShrinks, AnswerShrinks, CallShrinks, LookShrinks DEF AuditNext
<1> QED BY <1>1, LeftTyped, SearchInvariant, PTL DEF AuditSpec
=============================================================================
