--------------------------- MODULE MCPhaseTimers ---------------------------
(* Model checking of PhaseTimers with two pollers and one host.  The        *)
(* fairness of the runs names each worker, so no symmetry is declared.      *)
EXTENDS PhaseTimers
=============================================================================
