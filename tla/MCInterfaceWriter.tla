------------------------- MODULE MCInterfaceWriter -------------------------
(* TLC instance of InterfaceWriter.  No symmetry: the run checks liveness.  *)
EXTENDS InterfaceWriter
=============================================================================
