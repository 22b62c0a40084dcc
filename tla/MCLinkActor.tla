---------------------------- MODULE MCLinkActor ----------------------------
(* TLC instance of LinkActor: the readers are interchangeable.             *)
EXTENDS LinkActor, TLC

Symmetry == Permutations(Readers)
=============================================================================
