------------------------------- MODULE Screen -------------------------------
(***************************************************************************)
(* What wineios_host.h promises of a guest's pixels, without locks, ids of *)
(* slots or a display link: surfaces appear and vanish, a paint is atomic, *)
(* and the screen changes by showing, in one moment, the last whole frame  *)
(* of a surface that is there.  Display implements this.                   *)
(***************************************************************************)
EXTENDS Naturals

CONSTANTS
  Surfaces,  \* the surface ids
  Blank      \* an empty screen

VARIABLES
  there,     \* between surface_added and the return of surface_removed
  gone,      \* removed: an id is unique for the process lifetime
  frame,     \* how often each surface has been painted
  screen     \* the surface shown, and the halves of the picture

svars == <<there, gone, frame, screen>>

SInit ==
  /\ there = {} /\ gone = {}
  /\ frame = [s \in Surfaces |-> 0]
  /\ screen = Blank

Appear(s) ==
  /\ s \notin there \cup gone
  /\ there' = there \cup {s}
  /\ UNCHANGED <<gone, frame, screen>>

Vanish(s) ==
  /\ s \in there
  /\ there' = there \ {s}
  /\ gone' = gone \cup {s}
  /\ UNCHANGED <<frame, screen>>

\* The pixels of a surface nobody lists are painted just the same.
Paint(s) ==
  /\ frame' = [frame EXCEPT ![s] = @ + 1]
  /\ UNCHANGED <<there, gone, screen>>

Show(s) ==
  /\ s \in there
  /\ screen' = [id |-> s, top |-> frame[s], bottom |-> frame[s]]
  /\ UNCHANGED <<there, gone, frame>>

Clear ==
  /\ there = {}
  /\ screen' = Blank
  /\ UNCHANGED <<there, gone, frame>>

SNext == Clear \/ \E s \in Surfaces : Appear(s) \/ Vanish(s) \/ Paint(s) \/ Show(s)

ScreenLaw == SInit /\ [][SNext]_svars
=============================================================================
