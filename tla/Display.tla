------------------------------ MODULE Display ------------------------------
(***************************************************************************)
(* How a guest's pixels reach the screen: the surfaces of wineios.drv      *)
(* (native/patches/0007), their registry in WineDisplayHost.c and the      *)
(* presenter of GuestScreenView.swift.  Guest threads create, paint, place *)
(* and destroy surfaces; the registry's sections under reg_mutex are       *)
(* atomic except the copy, which holds it across the pixel lock; bump()    *)
(* comes after the unlock, in a step of its own.  A surface's pixels are   *)
(* two halves, so that a frame taken in the middle of a flush would show.  *)
(***************************************************************************)
EXTENDS Integers, FiniteSets

CONSTANTS
  Windows,       \* the guests' windows
  ThreadOf,      \* the guest thread that owns each
  Main,          \* the app's main thread
  Nobody,        \* neither it nor a window
  MaxSurfaces,   \* MAX_SURFACES
  MaxIds,        \* bound: the surfaces ever created
  MaxChanges     \* bound: how far change_seq counts

ASSUME DisplayAssumption ==
  /\ IsFiniteSet(Windows)
  /\ Main \notin Windows /\ Nobody \notin Windows \cup {Main}
  /\ ThreadOf = [w \in Windows |-> ThreadOf[w]]
  /\ MaxSurfaces \in Nat \ {0}
  /\ MaxIds \in Nat
  /\ MaxChanges \in Nat \ {0}

VARIABLES
  alive,     \* the surfaces whose bits and lock exist
  bits,      \* host_bits: how many flushes have painted each half
  pixel,     \* who holds a surface's host_mutex: Main, or its window's thread
  nextId,    \* next_surface_id
  surface,   \* the surface of each window, 0 if it has none
  placedId,  \* data->surface_id, which outlives the surface
  at,        \* where the thread is in a driver call for each window
  slot,      \* surfaces[], the registry
  reg,       \* who holds reg_mutex across steps
  change,    \* change_seq
  mpc,       \* the main thread: where it is in tick()
  lastChange,\* lastChangeSeq
  lastPixel, \* lastPixelSeq
  current,   \* current
  buf,       \* the half of the frame it has copied
  shown,     \* layer.contents: the surface it shows, and the halves
  dropped    \* auxiliary: the surfaces that found the registry full

driver == <<alive, bits, pixel, nextId, surface, placedId, at>>
registry == <<slot, reg, change, dropped>>
presenter == <<mpc, lastChange, lastPixel, current, buf, shown>>
vars == <<driver, registry, presenter>>

Ids == 1..MaxIds
Slots == 1..MaxSurfaces
Info == [id : Ids, seq : 0..MaxChanges, visible : BOOLEAN]
NoInfo == [id |-> 0, seq |-> 0, visible |-> FALSE]
Half == 0..MaxChanges
Blank == [id |-> 0, top |-> 0, bottom |-> 0]

Init ==
  /\ alive = {} /\ bits = [s \in Ids |-> [top |-> 0, bottom |-> 0]]
  /\ pixel = [s \in Ids |-> Nobody] /\ nextId = 1
  /\ surface = [w \in Windows |-> 0] /\ placedId = [w \in Windows |-> 0]
  /\ at = [w \in Windows |-> "idle"]
  /\ slot = [i \in Slots |-> NoInfo] /\ reg = Nobody /\ change = 1
  /\ dropped = {}
  /\ mpc = "idle"
  /\ lastChange = 0 /\ lastPixel = 0 /\ current = NoInfo
  /\ buf = 0 /\ shown = Blank

-----------------------------------------------------------------------------
(* The registry.                                                           *)

Used == {i \in Slots : slot[i] # NoInfo}
Listed == {slot[i].id : i \in Used}
Least(S) == CHOOSE i \in S : \A j \in S : i <= j
Greatest(S) == CHOOSE i \in S : \A j \in S : j <= i

\* find_surface: the slots it may return, at most one.
Find(s) == {i \in Used : slot[i].id = s /\ \A j \in Used : slot[j].id = s => i <= j}

\* Mutant: the scan goes on after it has found a slot.
AddNoBreak(s) ==
  /\ slot' = [i \in Slots |-> IF i \in Used THEN slot[i]
                             ELSE [id |-> s, seq |-> 0, visible |-> FALSE]]
  /\ dropped' = IF Used = Slots THEN dropped \cup {s} ELSE dropped

\* cb_surface_added, which drops the surface when the registry is full.
Add(s) ==
  LET free == Slots \ Used IN
  IF free = {}
  THEN dropped' = dropped \cup {s} /\ UNCHANGED slot
  ELSE /\ slot' = [slot EXCEPT ![Least(free)] = [id |-> s, seq |-> 0, visible |-> FALSE]]
       /\ UNCHANGED dropped

\* cb_surface_placed, cb_surface_updated and cb_surface_removed.
SetVisible(s, v) ==
  slot' = [i \in Slots |-> IF i \in Find(s) THEN [slot[i] EXCEPT !.visible = v] ELSE slot[i]]
Count(s) ==
  slot' = [i \in Slots |-> IF i \in Find(s) THEN [slot[i] EXCEPT !.seq = @ + 1] ELSE slot[i]]
Remove(s) ==
  slot' = [i \in Slots |-> IF i \in Find(s) THEN NoInfo ELSE slot[i]]

\* The window's thread is in no driver call.
Ready(w) == \A v \in Windows : ThreadOf[v] = ThreadOf[w] => at[v] = "idle"

\* The changes under way will not take change_seq past its bound.
Room == change + Cardinality({w \in Windows : at[w] # "idle"}) < MaxChanges

Go(w, place) == at' = [at EXCEPT ![w] = place]

-----------------------------------------------------------------------------
(* The guest threads in the driver.                                        *)

\* ios_window_surface_create up to the host callback, ...
Create(w) ==
  /\ Ready(w) /\ surface[w] = 0 /\ nextId \in Ids /\ Room
  /\ alive' = alive \cup {nextId}
  /\ nextId' = nextId + 1
  /\ surface' = [surface EXCEPT ![w] = nextId]
  /\ Go(w, "add")
  /\ UNCHANGED <<bits, pixel, placedId, registry, presenter>>

\* ... and the callback; IOSDRV_CreateWindowSurface then notes the id.
Added(w) ==
  /\ at[w] = "add" /\ reg = Nobody
  /\ Add(surface[w])
  /\ placedId' = [placedId EXCEPT ![w] = surface[w]]
  /\ Go(w, "bump")
  /\ UNCHANGED <<alive, bits, pixel, nextId, surface, reg, change, presenter>>

\* IOSDRV_WindowPosChanged: its id may be that of a destroyed surface.
Placed(w) ==
  /\ Ready(w) /\ placedId[w] # 0 /\ reg = Nobody /\ Room
  /\ \E visible \in BOOLEAN : SetVisible(placedId[w], visible)
  /\ Go(w, "bump")
  /\ UNCHANGED <<alive, bits, pixel, nextId, surface, placedId, reg, change, dropped, presenter>>

\* Mutant: the flush does not take the pixel lock.
FlushUnlocked(w) ==
  /\ Ready(w) /\ surface[w] # 0 /\ Room
  /\ bits' = [bits EXCEPT ![surface[w]].top = @ + 1]
  /\ Go(w, "paint")
  /\ UNCHANGED <<alive, pixel, nextId, surface, placedId, registry, presenter>>

\* ios_window_surface_flush takes the pixel lock and paints, ...
Flush(w) ==
  LET s == surface[w] IN
  /\ Ready(w) /\ s # 0 /\ Room
  /\ pixel[s] = Nobody
  /\ pixel' = [pixel EXCEPT ![s] = w]
  /\ bits' = [bits EXCEPT ![s].top = @ + 1]
  /\ Go(w, "paint")
  /\ UNCHANGED <<alive, nextId, surface, placedId, registry, presenter>>

\* ... paints on and releases it, ...
Painted(w) ==
  LET s == surface[w] IN
  /\ at[w] = "paint"
  /\ bits' = [bits EXCEPT ![s].bottom = bits[s].top]
  /\ pixel' = [pixel EXCEPT ![s] = Nobody]
  /\ Go(w, "report")
  /\ UNCHANGED <<alive, nextId, surface, placedId, registry, presenter>>

\* ... and tells the host.
Updated(w) ==
  /\ at[w] = "report" /\ reg = Nobody
  /\ Count(surface[w])
  /\ Go(w, "bump")
  /\ UNCHANGED <<alive, bits, pixel, nextId, surface, placedId, reg, change, dropped, presenter>>

\* ios_window_surface_destroy: the host forgets the surface, ...
Removed(w) ==
  /\ Ready(w) /\ surface[w] # 0 /\ reg = Nobody /\ Room
  /\ Remove(surface[w])
  /\ Go(w, "bumpFree")
  /\ UNCHANGED <<alive, bits, pixel, nextId, surface, placedId, reg, change, dropped, presenter>>

\* ... then its lock and its bits go.
Free(w) ==
  /\ at[w] = "free"
  /\ alive' = alive \ {surface[w]}
  /\ surface' = [surface EXCEPT ![w] = 0]
  /\ Go(w, "idle")
  /\ UNCHANGED <<bits, pixel, nextId, placedId, registry, presenter>>

\* bump(), the last statement of each callback.
Bump(w) ==
  /\ at[w] \in {"bump", "bumpFree"}
  /\ change' = change + 1
  /\ Go(w, IF at[w] = "bump" THEN "idle" ELSE "free")
  /\ UNCHANGED <<alive, bits, pixel, nextId, surface, placedId, slot, reg, dropped, presenter>>

-----------------------------------------------------------------------------
(* The main thread.                                                        *)

\* tick() notes change_seq first.  (In the background it returns at once.)
Tick ==
  /\ mpc = "idle"
  /\ lastChange # change
  /\ lastChange' = change
  /\ mpc' = "list"
  /\ UNCHANGED <<driver, registry, lastPixel, current, buf, shown>>

\* The surface it presents: the last visible one of the list, or the last.
Visible == {i \in Used : slot[i].visible}
Pick == slot[IF Visible # {} THEN Greatest(Visible) ELSE Greatest(Used)]

\* Mutant: the number of updates alone tells that the frame is the same.
SameFrameAnySurface(pick) == current # NoInfo /\ pick.seq = lastPixel
SameFrame(pick) == current.id = pick.id /\ pick.seq = lastPixel

\* wine_display_list_surfaces and what tick() decides on it.
ListNone ==
  /\ mpc = "list" /\ reg = Nobody
  /\ Used = {}
  /\ current' = NoInfo /\ shown' = Blank
  /\ mpc' = "idle"
  /\ UNCHANGED <<driver, registry, lastChange, lastPixel, buf>>

ListPick ==
  /\ mpc = "list" /\ reg = Nobody
  /\ Used # {}
  /\ current' = Pick
  /\ mpc' = IF SameFrame(Pick) THEN "idle" ELSE "copy"
  /\ UNCHANGED <<driver, registry, lastChange, lastPixel, buf, shown>>

\* Mutant: the copy looks the surface up under reg_mutex and lets go of it.
CopyFindReleases ==
  /\ mpc = "copy" /\ reg = Nobody
  /\ mpc' = IF Find(current.id) = {} THEN "idle" ELSE "lock"
  /\ UNCHANGED <<driver, registry, lastChange, lastPixel, current, buf, shown>>

\* Mutant: a copy that fails returns with reg_mutex locked.
CopyFindKeeps ==
  /\ mpc = "copy" /\ reg = Nobody
  /\ mpc' = IF Find(current.id) = {} THEN "idle" ELSE "lock"
  /\ reg' = Main
  /\ UNCHANGED <<driver, slot, change, dropped, lastChange, lastPixel, current, buf, shown>>

\* wine_display_copy_surface finds the surface, or fails, ...
CopyFind ==
  /\ mpc = "copy" /\ reg = Nobody
  /\ IF Find(current.id) = {}
     THEN mpc' = "idle" /\ UNCHANGED reg
     ELSE mpc' = "lock" /\ reg' = Main
  /\ UNCHANGED <<driver, slot, change, dropped, lastChange, lastPixel, current, buf, shown>>

\* ... takes its pixel lock and copies, ...
CopyLock ==
  /\ mpc = "lock" /\ pixel[current.id] = Nobody
  /\ pixel' = [pixel EXCEPT ![current.id] = Main]
  /\ buf' = bits[current.id].top
  /\ mpc' = "read"
  /\ UNCHANGED <<alive, bits, nextId, surface, placedId, at, registry,
                 lastChange, lastPixel, current, shown>>

\* Mutant: change_seq is noted when the frame is out, not before the list.
CopyEndNotes ==
  /\ mpc = "read"
  /\ pixel' = [pixel EXCEPT ![current.id] = Nobody]
  /\ reg' = Nobody
  /\ lastPixel' = current.seq
  /\ lastChange' = change
  /\ shown' = [id |-> current.id, top |-> buf, bottom |-> bits[current.id].bottom]
  /\ mpc' = "idle"
  /\ UNCHANGED <<alive, bits, nextId, surface, placedId, at, slot, change, dropped,
                 current, buf>>

\* ... copies on, releases both locks, and the frame is on screen.  (The image
\* made of it is one: CGImage gets a full buffer and sizes that are not zero.)
CopyEnd ==
  /\ mpc = "read"
  /\ pixel' = [pixel EXCEPT ![current.id] = Nobody]
  /\ reg' = Nobody
  /\ lastPixel' = current.seq
  /\ shown' = [id |-> current.id, top |-> buf, bottom |-> bits[current.id].bottom]
  /\ mpc' = "idle"
  /\ UNCHANGED <<alive, bits, nextId, surface, placedId, at, slot, change, dropped,
                 lastChange, current, buf>>

-----------------------------------------------------------------------------
(* What a guest thread has begun, and what it may begin.                   *)
Finish(w) == Added(w) \/ Painted(w) \/ Updated(w) \/ Free(w) \/ Bump(w)
Begin(w) == Create(w) \/ Placed(w) \/ Flush(w) \/ Removed(w)
Present == Tick \/ ListNone \/ ListPick \/ CopyFind \/ CopyLock \/ CopyEnd

Next ==
  \/ \E w \in Windows : Begin(w) \/ Finish(w)
  \/ Present

Spec == Init /\ [][Next]_vars

(* A guest thread ends the driver call it is in; the display link fires.   *)
Fairness == WF_vars(Present) /\ \A w \in Windows : WF_vars(Finish(w))
FairSpec == Spec /\ Fairness

-----------------------------------------------------------------------------
(* Every variable keeps its type; a window's thread or the main thread     *)
(* holds a pixel lock, and the main thread reg_mutex just while it copies. *)
TypeOK ==
  /\ alive \subseteq Ids /\ nextId \in 1..(MaxIds + 1)
  /\ bits \in [Ids -> [top : Half, bottom : Half]]
  /\ pixel \in [Ids -> Windows \cup {Main, Nobody}]
  /\ surface \in [Windows -> Ids \cup {0}] /\ placedId \in [Windows -> Ids \cup {0}]
  /\ at \in [Windows -> {"idle", "add", "paint", "report", "bump", "bumpFree", "free"}]
  /\ slot \in [Slots -> Info \cup {NoInfo}] /\ reg \in {Main, Nobody}
  /\ change \in 1..MaxChanges /\ lastChange \in 0..MaxChanges
  /\ mpc \in {"idle", "list", "copy", "lock", "read"}
  /\ lastPixel \in 0..MaxChanges /\ current \in Info \cup {NoInfo}
  /\ (reg = Main) = (mpc \in {"lock", "read"})
  /\ dropped \subseteq Ids /\ buf \in Half /\ shown \in [id : Ids \cup {0}, top : Half, bottom : Half]

(* surface_removed's contract (wineios_host.h): whatever the guest does,   *)
(* the main thread takes and holds the pixel lock, and reads the pixels,   *)
(* only of a surface whose lock and bits still exist.                      *)
ReadsLiveSurface == mpc \in {"lock", "read"} => current.id \in alive

(* The registry is exact: it lists the surface of each window from the     *)
(* return of surface_added to surface_removed, in one slot, whatever came  *)
(* and went in between.  Only a surface added while all slots were used is *)
(* missing, until its window is gone.                                      *)
RegistryExact ==
  /\ Listed =
       {surface[w] : w \in {v \in Windows :
          surface[v] # 0 /\ at[v] \notin {"add", "bumpFree", "free"}}} \ dropped
  /\ \A i, j \in Used : slot[i].id = slot[j].id => i = j

(* tick() shows "the last-created visible surface": of the visible ones    *)
(* the one whose id is the newest.                                         *)
PicksLastCreated == \A i \in Visible : slot[i].id <= Pick.id

(* When tick() may skip the copy because nothing has changed, the screen   *)
(* shows that surface, with every flush its update_seq counts.             *)
SkippedIsShown ==
  mpc = "idle" /\ current # NoInfo /\ SameFrame(current) /\ Find(current.id) # {}
    => shown.id = current.id /\ shown.top >= current.seq

(* The presenter catches up: once the guests are quiet, the screen shows   *)
(* the picked surface's last paint, or nothing if there is no surface.  No *)
(* update is lost between reading change_seq, listing and copying, though  *)
(* bump() follows the unlock and a copy may fail.                          *)
UpToDate ==
  IF Used = {} THEN shown = Blank
  ELSE shown.id = Pick.id /\ shown.top = bits[Pick.id].top
CatchesUp == <>[]UpToDate

(* What the guests and the screen do is what wineios_host.h promises: a    *)
(* picture goes up in one moment, it is the last whole frame of a surface  *)
(* that the host still has, and the screen is cleared only when it has     *)
(* none.  (A flush counts when its lock is released.)                      *)
Arriving == {surface[w] : w \in {v \in Windows : at[v] = "add"}}

Bridge == INSTANCE Screen WITH
  Surfaces <- Ids,
  there <- Listed,
  gone <- {s \in Ids : s < nextId} \ (Listed \cup Arriving \cup dropped),
  frame <- [s \in Ids |-> bits[s].bottom],
  screen <- shown
ScreenSpec == Bridge!ScreenLaw
=============================================================================
