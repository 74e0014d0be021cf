---------------------------- MODULE MCInputPump ----------------------------
(* Two processes with a pump thread each, and a queue of two.              *)
EXTENDS InputPump, TLC
CONSTANTS p1, p2
=============================================================================
