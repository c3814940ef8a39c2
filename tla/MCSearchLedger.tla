--------------------------- MODULE MCSearchLedger ---------------------------
(* Model-checking instances of SearchLedger.                                *)
EXTENDS SearchLedger, TLC

KeySymmetry == Permutations(Keys)

\* One trouble at a time: a redownload due or waiting, or else passes that lost
\* their effects and new leaders.
OneTrouble ==
    LET urgent == Cardinality(redo \cup first)
    IN  urgent = 0 \/ (urgent = 1 /\ faults + reigns = 0)
=============================================================================
