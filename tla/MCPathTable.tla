---------------------------- MODULE MCPathTable ----------------------------
(* Small instances of PathTable. *)
EXTENDS PathTable, TLC

CONSTANTS lan, wan, n1, n2, n3

\* A direct neighbour on the slow local interface, two on the fast backbone.
MCNeighbours == {<<lan, n1>>, <<wan, n2>>, <<wan, n3>>}
MCBitrate == (lan :> 1) @@ (wan :> 2)
Symmetry == Permutations({n2, n3})
=============================================================================
