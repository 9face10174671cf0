---------------------------- MODULE MCStrictParse ----------------------------
(* Instances of StrictParse for TLC.                                       *)
EXTENDS StrictParse

\* Odd tokens touch their successor, even ones are followed by a gap.
MCStartOf(i) == 2 * i
MCEndOf(i) == IF i % 2 = 1 THEN 2 * i + 2 ELSE 2 * i + 1

=============================================================================
