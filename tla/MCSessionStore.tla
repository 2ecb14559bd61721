--------------------------- MODULE MCSessionStore ---------------------------
(* Model checking of SessionStore.  Four players hold four different roles, *)
(* so one way of dealing them stands for all, and spares TLC the symmetry.  *)
EXTENDS SessionStore, TLC

InitOneDealing == Init /\ role = CHOOSE dealing \in Rules!RoleAssignments : TRUE
SpecOneDealing == InitOneDealing /\ [][Next]_vars

Symmetry == Permutations(Workers)
=============================================================================
