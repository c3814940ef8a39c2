-------------------------- MODULE MCTranscodeLease --------------------------
EXTENDS TranscodeLease, TLC
WorkerSymmetry == Permutations(Workers)
=============================================================================
