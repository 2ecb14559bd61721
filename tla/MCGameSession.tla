--------------------------- MODULE MCGameSession ---------------------------
(* Model checking of the rules and of the offered actions, on               *)
(* interchangeable players.                                                 *)
EXTENDS AvailableActions, TLC

Symmetry == Permutations(Players)
=============================================================================
