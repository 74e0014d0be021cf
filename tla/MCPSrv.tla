------------------------------- MODULE MCPSrv -------------------------------
(* Small instances of PSrv for TLC.                                        *)
EXTENDS PSrvRefinement, TLC

CONSTANTS c1, c2

\* Two pseudo-processes, with their pids.
TwoPids == (c1 :> 1) @@ (c2 :> 2)

\* Calls of every kind.
AllCalls == [op : {"new", "other"}, arg : {0}] \cup [op : {"dup"}, arg : {1, MaxHandles}]
              \cup [op : {"ping"}, arg : {MaxHandles}]

\* Calls that leave an empty table alone: MAX_HANDLES is out of bounds.
OtherCalls ==
  [op : {"ping", "dup"}, arg : {MaxHandles}] \cup [op : {"other"}, arg : {0}]
=============================================================================
