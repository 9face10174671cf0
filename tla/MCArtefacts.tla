----------------------------- MODULE MCArtefacts -----------------------------
(* Instances of Artefacts for TLC: two processes with an edit or a crash,   *)
(* and one process with edits, failures and crashes.                        *)
EXTENDS Artefacts

CONSTANTS p1, p2

Left(edits, failures, crashes) ==
    [edits |-> edits, failures |-> failures, crashes |-> crashes]
Setting(artefact_, crew_, left_) == [artefact |-> artefact_, crew |-> crew_, left |-> left_]

MCSettings ==
    {Setting(which, {p1}, Left(1, 2, 2)) : which \in {"grammar", "tck"}}
    \cup {Setting(which, {p1, p2}, Left(1, 0, 0)) : which \in {"grammar", "tck"}}
    \cup {Setting("tck", {p1, p2}, Left(0, 1, 1))}
=============================================================================
