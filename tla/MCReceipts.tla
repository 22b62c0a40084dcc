---------------------------- MODULE MCReceipts ----------------------------
(* TLC instance of Receipts.                                               *)
EXTENDS Receipts, TLC

Symmetry == Permutations(Receipts) \cup Permutations(Provers)
============================================================================
