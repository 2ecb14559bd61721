----------------------------- MODULE MCEventLog -----------------------------
(* Model checking of EventLog with interchangeable writers.                 *)
EXTENDS EventLog, TLC

Symmetry == Permutations(Writers)
=============================================================================
