-------------------------- MODULE MCClauseRecovery --------------------------
(* Instances of ClauseRecovery for TLC.                                    *)
EXTENDS ClauseRecovery

CONSTANTS
    CoreAlphabet,   \* token classes that occur in inputs of every length
    WideTokens      \* bound on the length of inputs with other classes

\* Odd tokens touch their successor, even ones are followed by a gap.
MCStartOf(i) == 2 * i
MCEndOf(i) == IF i % 2 = 1 THEN 2 * i + 2 ELSE 2 * i + 1

MCInit == Init /\ (Len(input) <= WideTokens \/ input \in Seq(CoreAlphabet))
MCSpec == MCInit /\ [][Next]_vars /\ WF_vars(Next)

=============================================================================
