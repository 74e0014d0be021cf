--------------------------- MODULE MCInprocSpawn ---------------------------
(* A small host process for TLC.                                           *)
EXTENDS InprocSpawn
CONSTANTS wine, c1, c2, p0, p1, p2
=============================================================================
