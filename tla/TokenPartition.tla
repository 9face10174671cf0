--------------------------- MODULE TokenPartition ---------------------------
(***************************************************************************)
(* What a recovering parse promises about the tokens of a refused input,   *)
(* apart from how it searches for clauses: it reads them from left to      *)
(* right, gives each run of tokens one role in the partial tree, and never *)
(* takes a role back.  A branch closed by RETURN takes no further clause   *)
(* until a UNION operator opens the next one.                              *)
(***************************************************************************)
EXTENDS Integers, Sequences

VARIABLES
    role,     \* the role of each token
    closed,   \* has the current branch met its RETURN?
    finished  \* has the parse returned?

vars == <<role, closed, finished>>

Roles == {"Unread", "Clause", "Operator", "Error"}

Unread == {i \in DOMAIN role : role[i] = "Unread"}

Init ==
    /\ role \in Seq({"Unread"})
    /\ closed = FALSE
    /\ finished = FALSE

\* The next n unread tokens take role r.
Claim(r, n) ==
    /\ ~finished /\ UNCHANGED finished
    /\ \E first \in Unread :
        /\ \A i \in Unread : first <= i
        /\ first + n - 1 <= Len(role)
        /\ role' = [i \in DOMAIN role |->
                       IF i \in first..(first + n - 1) THEN r ELSE role[i]]

Retain == ~closed /\ closed' \in BOOLEAN /\ \E n \in 1..Len(role) : Claim("Clause", n)

Skip == closed' = closed /\ \E n \in 1..Len(role) : Claim("Error", n)

\* UNION, or UNION with ALL or DISTINCT.
Join == closed' = FALSE /\ \E n \in 1..2 : Claim("Operator", n)

\* The parse returns a tree over all tokens, or refuses before reading any.
Finish ==
    /\ ~finished /\ finished' = TRUE
    /\ Unread \in {{}, DOMAIN role}
    /\ UNCHANGED <<role, closed>>

Next == Retain \/ Skip \/ Join \/ Finish

Spec == Init /\ [][Next]_vars

=============================================================================
