------------------------ MODULE MCTranscodeAdmission ------------------------
(* Model-checking instance of TranscodeAdmission.                           *)
EXTENDS TranscodeAdmission

\* One trouble at a time: a call that fails, a new leader, a file deleted or an
\* informer that is behind.
OneTrouble == faults + reigns + Cardinality({f \in Files : api[f] = Absent \/ cache[f] # api[f]}) <= 1
=============================================================================
