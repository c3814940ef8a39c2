--------------------------- MODULE MCUsenetGrants ---------------------------
(* Model-checking instances of UsenetGrants.                                *)
EXTENDS UsenetGrants

\* A failed call, a dead pod, or a take that crosses a give: one at a time.
OneTrouble == faults + crashes <= 1 /\ (crossed # {} => faults + crashes = 0)
=============================================================================
