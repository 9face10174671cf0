------------------------- MODULE MCContextualNames -------------------------
(* Instances of ContextualNames for TLC.                                   *)
EXTENDS ContextualNames

\* Two bytes per token and one between tokens, so that a failure can be at a
\* token's start, inside it, or between tokens.
MCStartOf(i) == 3 * i - 3
MCEndOf(i) == 3 * i - 1

=============================================================================
