------------------------ MODULE MCTranscodeDispatch ------------------------
(* The instances of TranscodeDispatch that TLC checks.                     *)
EXTENDS TranscodeDispatch, TLC

WorkerSymmetry == Permutations(Workers)
=============================================================================
