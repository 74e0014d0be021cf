----------------------------- MODULE InputPump -----------------------------
(***************************************************************************)
(* How touches and typed text reach the guest: the handlers of             *)
(* GuestScreenView.swift, the queue of WineDisplayHost.c and the input     *)
(* pump of wineios.drv (native/patches/0007).  A handler sends one or two  *)
(* events, each a critical section under queue_mutex of its own; every     *)
(* process that loads the driver starts a pump thread, and the one that    *)
(* claims the loop injects the events.  Coordinates, and the window an     *)
(* event is addressed to, are left out: which buttons and keys the guest's *)
(* desktop takes to be down does not depend on them.                       *)
(***************************************************************************)
EXTENDS Integers, Sequences

CONSTANTS
  Procs,     \* the guest processes that load the driver
  QueueLen,  \* QUEUE_LEN
  MaxEvents   \* bound: the events ever sent

ASSUME InputAssumption == QueueLen \in Nat \ {0} /\ MaxEvents \in Nat

VARIABLES
  current,   \* the view has a surface on screen
  finger,    \* where the finger is
  todo,      \* the events the running handler has still to send
  sends,     \* how many have been sent
  lost,      \* auxiliary: the keys whose last release did not get into the queue
  ring,      \* queue[], each event with its number
  head,      \* queue_head
  count,     \* queue_count
  claimed,   \* input_loop_claimed
  pc,        \* where each process's pump thread is
  ev,        \* the event it has dequeued
  dead,      \* the processes that have exited
  pressed,   \* the buttons and keys that are down on the guest's desktop
  injected   \* auxiliary: the number of the last event injected

view == <<current, finger, todo, sends, lost>>
hostQueue == <<ring, head, count>>
guest == <<pressed, injected>>
vars == <<view, hostQueue, claimed, pc, ev, dead, guest>>

\* The mouse button, VK_RETURN and VK_BACK; moves and characters besides.
Keys == {"button", "return", "back"}
Events == [key : Keys \cup {"move", "char"}, down : BOOLEAN]
Press(k) == [key |-> k, down |-> TRUE]
Release(k) == [key |-> k, down |-> FALSE]
Single(k) == [key |-> k, down |-> FALSE]

Numbered(n, e) == [n |-> n, key |-> e.key, down |-> e.down]
NoEvent == Numbered(0, Single("move"))
Cells == 0 .. (QueueLen - 1)

Init ==
  /\ current = FALSE /\ finger = "up" /\ todo = <<>> /\ sends = 0 /\ lost = {}
  /\ ring = [i \in Cells |-> NoEvent] /\ head = 0 /\ count = 0
  /\ claimed = FALSE /\ pc = [p \in Procs |-> "none"] /\ ev = [p \in Procs |-> NoEvent]
  /\ dead = {} /\ pressed = {} /\ injected = 0

-----------------------------------------------------------------------------
(* The main thread: UIKit calls a handler when the last one has returned.  *)

Handler(events) ==
  /\ todo = <<>> /\ sends + Len(events) <= MaxEvents
  /\ todo' = events
  /\ UNCHANGED <<sends, hostQueue, claimed, pc, ev, dead, guest>>

\* tick(): surfaces come and go.
Tick == current' \in BOOLEAN /\ Handler(<<>>) /\ UNCHANGED <<finger, lost>>

\* touchesBegan, on the surface or beside it.
TouchesBegan ==
  /\ finger = "up" /\ finger' = "down"
  /\ \/ current /\ Handler(<<Single("move"), Press("button")>>)
     \/ Handler(<<>>)
  /\ UNCHANGED <<current, lost>>

\* touchesMoved, on the surface.
TouchesMoved ==
  /\ finger = "down" /\ current
  /\ Handler(<<Single("move")>>)
  /\ UNCHANGED <<current, finger, lost>>

\* Mutant: only a touch that ends on the surface releases the button.
TouchesEndedInside ==
  /\ finger = "down" /\ finger' = "up"
  /\ \/ /\ current
        /\ Handler(<<Release("button")>>)
     \/ Handler(<<>>)
  /\ UNCHANGED <<current, lost>>

\* touchesEnded and touchesCancelled, wherever the finger is.
TouchesEnded ==
  /\ finger = "down" /\ finger' = "up"
  /\ \/ /\ current
        /\ Handler(<<Release("button")>>) /\ UNCHANGED lost
     \/ /\ ~current
        /\ Handler(<<>>) /\ lost' = lost \cup {"button"}
  /\ UNCHANGED current

\* insertText, for one UTF-16 unit of the text: Return or another.
InsertText ==
  /\ \/ Handler(<<Press("return"), Release("return")>>)
     \/ Handler(<<Single("char")>>)
  /\ UNCHANGED <<current, finger, lost>>

DeleteBackward ==
  /\ Handler(<<Press("back"), Release("back")>>)
  /\ UNCHANGED <<current, finger, lost>>

-----------------------------------------------------------------------------
(* The queue.                                                              *)

\* pthread_cond_signal: a waiting pump, if there is one, looks again.
Signal ==
  LET waiting == {p \in Procs \ dead : pc[p] = "wait"} IN
  IF waiting = {} THEN UNCHANGED pc
  ELSE \E p \in waiting : pc' = [pc EXCEPT ![p] = "next"]

\* enqueue finds room, ...
Accepted(e) ==
  /\ ring' = [ring EXCEPT ![(head + count) % QueueLen] = Numbered(sends + 1, e)]
  /\ count' = count + 1
  /\ Signal
  /\ lost' = IF e.down THEN lost ELSE lost \ {e.key}

\* ... or drops the event.
Dropped(e) ==
  /\ lost' = IF e.key \in Keys /\ ~e.down THEN lost \cup {e.key} ELSE lost
  /\ UNCHANGED <<ring, count, pc>>

\* Mutant: an off-by-one in the test for a full queue.
EnqueueOneMore ==
  /\ todo # <<>>
  /\ IF count <= QueueLen THEN Accepted(Head(todo)) ELSE Dropped(Head(todo))
  /\ todo' = Tail(todo) /\ sends' = sends + 1
  /\ UNCHANGED <<current, finger, head, claimed, ev, dead, guest>>

Enqueue ==
  /\ todo # <<>>
  /\ IF count < QueueLen THEN Accepted(Head(todo)) ELSE Dropped(Head(todo))
  /\ todo' = Tail(todo) /\ sends' = sends + 1
  /\ UNCHANGED <<current, finger, head, claimed, ev, dead, guest>>

-----------------------------------------------------------------------------
(* The pump threads.                                                       *)

At(p, place) == p \notin dead /\ pc[p] = place
Go(p, place) == pc' = [pc EXCEPT ![p] = place]

\* DllMain creates the thread.
Start(p) ==
  /\ At(p, "none") /\ Go(p, "claim")
  /\ UNCHANGED <<view, hostQueue, claimed, ev, dead, guest>>

\* Mutant: a plain store instead of the compare-and-exchange.
ClaimStore(p) ==
  /\ At(p, "claim")
  /\ Go(p, "next") /\ claimed' = TRUE
  /\ UNCHANGED <<view, hostQueue, ev, dead, guest>>

\* iosdrv_unix_run_input_loop: one thread wins the loop, the others return.
Claim(p) ==
  /\ At(p, "claim")
  /\ Go(p, IF claimed THEN "gone" ELSE "next") /\ claimed' = TRUE
  /\ UNCHANGED <<view, hostQueue, ev, dead, guest>>

\* cb_next_event takes the oldest event, ...
Dequeue(p) ==
  /\ At(p, "next") /\ count > 0
  /\ ev' = [ev EXCEPT ![p] = ring[head]]
  /\ head' = (head + 1) % QueueLen /\ count' = count - 1
  /\ Go(p, "inject")
  /\ UNCHANGED <<view, ring, claimed, dead, guest>>

\* ... or waits for one ...
Await(p) ==
  /\ At(p, "next") /\ count = 0
  /\ Go(p, "wait")
  /\ UNCHANGED <<view, hostQueue, claimed, ev, dead, guest>>

\* Mutant: the loop ends on 0 as on -1.
TimedOutStops(p) ==
  /\ At(p, "wait") /\ Go(p, "gone") /\ claimed' = FALSE
  /\ UNCHANGED <<view, hostQueue, ev, dead, guest>>

\* ... and returns 0 after half a second; the loop calls it again.
TimedOut(p) ==
  /\ At(p, "wait") /\ Go(p, "next")
  /\ UNCHANGED <<view, hostQueue, claimed, ev, dead, guest>>

\* The next turn of the loop has an event variable of its own.
Done(p) == Go(p, "next") /\ ev' = [ev EXCEPT ![p] = NoEvent]

\* inject_event: a character is pressed here and released in a second call.
Inject(p) ==
  LET e == ev[p] IN
  /\ At(p, "inject")
  /\ pressed' = IF e.key = "char" \/ (e.key \in Keys /\ e.down)
                THEN pressed \cup {e.key} ELSE pressed \ {e.key}
  /\ injected' = IF e.key = "char" THEN injected ELSE e.n
  /\ IF e.key = "char" THEN Go(p, "charUp") /\ UNCHANGED ev ELSE Done(p)
  /\ UNCHANGED <<view, hostQueue, claimed, dead>>

InjectCharUp(p) ==
  /\ At(p, "charUp") /\ Done(p)
  /\ pressed' = pressed \ {"char"} /\ injected' = ev[p].n
  /\ UNCHANGED <<view, hostQueue, claimed, dead>>

\* The process ends, and its pump thread with it; nothing resets the claim.
Exit(p) ==
  /\ p \notin dead /\ pc[p] # "none"
  /\ dead' = dead \cup {p}
  /\ UNCHANGED <<view, hostQueue, claimed, pc, ev, guest>>

Pump(p) ==
  Claim(p) \/ Dequeue(p) \/ Await(p) \/ TimedOut(p) \/ Inject(p) \/ InjectCharUp(p)

Next ==
  \/ Tick \/ TouchesBegan \/ TouchesMoved \/ TouchesEnded
  \/ InsertText \/ DeleteBackward \/ Enqueue
  \/ \E p \in Procs : Start(p) \/ Pump(p) \/ Exit(p)

Spec == Init /\ [][Next]_vars

(* A handler that has begun returns, and live pump threads are scheduled;  *)
(* touches, starts and exits need not happen.                              *)
FairSpec == Spec /\ WF_vars(Enqueue) /\ \A p \in Procs : WF_vars(Pump(p))

-----------------------------------------------------------------------------
(* Properties.                                                             *)

\* The ring's indices and count stay within QUEUE_LEN.
TypeOK ==
  /\ current \in BOOLEAN /\ finger \in {"up", "down"}
  /\ Len(todo) <= 2 /\ \A i \in DOMAIN todo : todo[i] \in Events
  /\ sends \in 0..MaxEvents /\ injected \in 0..MaxEvents
  /\ lost \subseteq Keys \cup {"move", "char"} /\ pressed \subseteq Keys \cup {"char"}
  /\ ring \in [Cells -> [n : 0..MaxEvents, key : Keys \cup {"move", "char"}, down : BOOLEAN]]
  /\ head \in Cells /\ count \in 0..QueueLen
  /\ claimed \in BOOLEAN /\ dead \subseteq Procs
  /\ pc \in [Procs -> {"none", "claim", "next", "wait", "inject", "charUp", "gone"}]
  /\ ev \in [Procs -> [n : 0..MaxEvents, key : Keys \cup {"move", "char"}, down : BOOLEAN]]

\* The events that wait, oldest first: the one a pump has in hand, then the
\* queue's.
InHand == {p \in Procs : pc[p] \in {"inject", "charUp"}}
Pending ==
  (IF InHand = {} THEN <<>> ELSE <<ev[CHOOSE p \in InHand : TRUE]>>)
    \o [i \in 1..count |-> ring[(head + i - 1) % QueueLen]]

\* A button or key that is down in the guest is held by the finger, or its
\* release is on its way, unless that release is one of the two the code does
\* not send: of a touch that ended when no surface was on screen
\* (GuestScreenView.swift:197), or one dropped by a full queue
\* (WineDisplayHost.c:262).
NoStuckButton ==
  \A k \in pressed :
    \/ k = "button" /\ finger = "down"
    \/ k \in lost
    \/ \E i \in DOMAIN todo : todo[i] = Release(k)
    \/ \E i \in DOMAIN Pending : Pending[i].key = k /\ ~Pending[i].down

\* Events reach the guest in the order they were sent, at most once, and are
\* dropped only when QUEUE_LEN others wait: the ring and the claim of the loop
\* make a queue (WineDisplayHost.c:151-171, 253-264).
Fifo == INSTANCE LossyFifo WITH
  Capacity <- QueueLen, sent <- sends, delivered <- injected,
  pending <- [i \in DOMAIN Pending |-> Pending[i].n]
FifoSpec == Fifo!FifoSpec

\* Once a process has started its pump, every queued event is injected, unless
\* a process exits whose thread had the loop or was about to claim it.
Queued(n) == \E i \in DOMAIN Pending : Pending[i].n = n
Orphaned == \E p \in dead : pc[p] # "gone"
Delivered ==
  \A n \in 1..MaxEvents :
    (Queued(n) /\ \E p \in Procs : pc[p] # "none") ~> (injected >= n \/ Orphaned)
=============================================================================
