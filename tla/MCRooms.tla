------------------------------ MODULE MCRooms ------------------------------
(* Model checking of Rooms with interchangeable guests.                     *)
EXTENDS Rooms, TLC

Symmetry == Permutations(Users \ {Host})
=============================================================================
