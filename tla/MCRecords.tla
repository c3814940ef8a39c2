----------------------------- MODULE MCRecords -----------------------------
(* The instance of Records that TLC checks.                                *)
EXTENDS Records, TLC

WorkerSymmetry == Permutations(Workers)
=============================================================================
