--------------------------- MODULE MCBottleStore ----------------------------
(* Three bottles, and two calls that overlap.                              *)
EXTENDS BottleStore
CONSTANTS t1, t2
=============================================================================
