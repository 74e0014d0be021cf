--------------------------- MODULE MCWineSession ----------------------------
(* A console and a GUI session in one app.                                 *)
EXTENDS WineSession
CONSTANTS cmd, notepad

\* Two writes for the order of one guest's output, one to mix with it.
TwoOrOne == [s \in Sessions |-> IF s = cmd THEN 2 ELSE 1]
=============================================================================
