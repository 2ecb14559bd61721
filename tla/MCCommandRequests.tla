------------------------- MODULE MCCommandRequests -------------------------
(* Requests for model checking CommandRequests.  Ada votes twice, Bob once  *)
(* and Ada, whom the night killed in the game with chat, writes to ghosts.  *)
EXTENDS CommandRequests, TLC

OwnIdVotes == {<<"ada", 1>>, <<"ada", 2>>, <<"bob", 3>>}
GhostChat == {<<"cem", 4>>}
Symmetry == Permutations(Handlers)
=============================================================================
