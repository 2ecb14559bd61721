--------------------------- MODULE MCConnections ---------------------------
(* Model checking of Connections with interchangeable sockets.              *)
EXTENDS Connections, TLC

Symmetry == Permutations(Sockets)
=============================================================================
