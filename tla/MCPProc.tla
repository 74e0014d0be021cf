------------------------------ MODULE MCPProc ------------------------------
(* Small instances of PProc for TLC.                                       *)
EXTENDS PProcRefinement, TLC

\* Threads that exist only inside processes are interchangeable.
GuestSymmetry == Permutations(Threads \ Hosts)
=============================================================================
