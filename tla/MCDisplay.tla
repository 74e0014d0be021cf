----------------------------- MODULE MCDisplay -----------------------------
(* Two guest threads, one with two windows and one with one, and a         *)
(* registry that three surfaces overfill.                                  *)
EXTENDS Display, TLC
CONSTANTS w1, w2, w3, guest1, guest2
TwoThreads == (w1 :> guest1) @@ (w2 :> guest1) @@ (w3 :> guest2)

\* Both windows on one thread: no surface overtakes another on its way in.
OneThread == (w1 :> guest1) @@ (w2 :> guest1)
=============================================================================
