--------------------------- MODULE MCPathService ---------------------------
(* A small instance of PathService: one neighbour; a tunnel may
   move the paths to the other interface. *)
EXTENDS PathService, TLC

CONSTANTS lan, wan, n1

MCNeighbours == {<<lan, n1>>}
MCBitrate == (lan :> 1) @@ (wan :> 2)
Symmetry == Permutations(Dests)
=============================================================================
