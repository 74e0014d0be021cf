--------------------------- MODULE InputPumpProofs ---------------------------
(* Theorems about InputPump, for any processes, queue length and number of *)
(* events.                                                                 *)
EXTENDS InputPump, SequenceTheorems, TLAPS

Keyed == Keys \cup {"move", "char"}
Entry == [n : 0..MaxEvents, key : Keyed, down : BOOLEAN]

\* The i-th event that waits in the queue.
Waiting(i) == ring[(head + i - 1) % QueueLen]

(* The invariant.  A pressed key is released by an event that comes after  *)
(* the press in what the guest has, the queue holds and the handler sends. *)

\* What the running handler sends is a sequence, within the events there are.
Sending == todo \in Seq(Events) /\ sends + Len(todo) <= MaxEvents

\* One thread at most is in the loop, and only after the claim.
InLoop == {p \in Procs : pc[p] \in {"next", "wait", "inject", "charUp"}}
OneLoop == (\A p, q \in InLoop : p = q) /\ (~claimed => InLoop = {})

\* Characters are single events, and injected in two calls.
Chars ==
  /\ \A i \in DOMAIN todo : todo[i].key = "char" => ~todo[i].down
  /\ \A c \in Cells : ring[c].key = "char" => ~ring[c].down
  /\ \A p \in Procs : ev[p].key = "char" => ~ev[p].down
  /\ \A p \in Procs : pc[p] = "charUp" => ev[p].key = "char"
  /\ "char" \in pressed => \E p \in Procs : pc[p] = "charUp"

\* A handler that presses has the release behind it, or the finger is down.
Paired ==
  \A k \in Keys, i \in DOMAIN todo : todo[i] = Press(k) =>
    \/ k = "button" /\ finger = "down"
    \/ \E j \in DOMAIN todo : j > i /\ todo[j] = Release(k)

\* The release of k is still to be sent, or will not come.
Excused(k) ==
  \/ k = "button" /\ finger = "down"
  \/ k \in lost
  \/ \E i \in DOMAIN todo : todo[i] = Release(k)

Is(e, k, d) == e.key = k /\ e.down = d
InQueue(k) == \E i \in 1..count : Is(Waiting(i), k, FALSE)

\* Otherwise it comes after the press: in the queue, or in the pump's hand.
Settled ==
  \A k \in Keys : Excused(k) \/
    /\ \A i \in 1..count : Is(Waiting(i), k, TRUE) =>
         \E j \in 1..count : j > i /\ Is(Waiting(j), k, FALSE)
    /\ \A p \in Procs : pc[p] = "inject" /\ Is(ev[p], k, TRUE) => InQueue(k)
    /\ k \in pressed => InQueue(k) \/ \E p \in Procs : pc[p] = "inject" /\ Is(ev[p], k, FALSE)

IInv == TypeOK /\ Sending /\ OneLoop /\ Chars /\ Paired /\ Settled

-----------------------------------------------------------------------------
(* The ring.                                                               *)

LEMMA Wrap ==
  ASSUME NEW n \in Nat \ {0}, NEW a \in Nat, a < 2 * n
  PROVE  /\ a % n = IF a < n THEN a ELSE a - n
         /\ a % n \in 0..(n - 1)
OBVIOUS

\* The places of the queue are different cells, the free ones too.
LEMMA Places ==
  ASSUME NEW n \in Nat \ {0}, NEW h \in 0..(n - 1), NEW c \in 0..n, NEW i \in 1..c
  PROVE  /\ (h + i - 1) % n \in 0..(n - 1)
         /\ c < n => /\ (h + c) % n \in 0..(n - 1)
                     /\ (h + i - 1) % n # (h + c) % n
                     /\ (h + (c + 1) - 1) % n = (h + c) % n
         /\ h % n = h /\ (h + 1) % n \in 0..(n - 1)
         /\ (h + 1 - 1) % n = h
<1> DEFINE a == h + i - 1
           b == h + c
           d == h + 1
<1>1. /\ a \in Nat /\ a < 2 * n /\ b \in Nat /\ b > a /\ b - a < n + 1
      /\ c < n => b < 2 * n /\ b - a < n
      /\ h + (c + 1) - 1 = b /\ d - 1 = h /\ d \in Nat /\ d < 2 * n
      /\ h \in Nat /\ h < 2 * n /\ h < n
  OBVIOUS
<1> HIDE DEF a, b, d
<1>2. a % n = (IF a < n THEN a ELSE a - n) /\ a % n \in 0..(n - 1)
  BY <1>1, Wrap
<1>3. d % n \in 0..(n - 1) /\ h % n = h
  BY <1>1, Wrap
<1>4. c < n => b % n = (IF b < n THEN b ELSE b - n) /\ b % n \in 0..(n - 1)
  BY <1>1, Wrap
<1>5. c < n => a % n # b % n
  BY <1>1, <1>2, <1>4
<1> QED
  BY <1>1, <1>2, <1>3, <1>4, <1>5 DEF a, b, d

LEMMA Shift ==
  ASSUME NEW n \in Nat \ {0}, NEW h \in 0..(n - 1), NEW c \in 0..n, NEW i \in 1..c
  PROVE  (((h + 1) % n) + i - 1) % n = (h + (i + 1) - 1) % n
<1> DEFINE d == h + 1
           e == d % n
           a == e + i - 1
           b == h + (i + 1) - 1
<1>1. d \in Nat /\ d < 2 * n /\ b \in Nat /\ b < 2 * n /\ b = d + i - 1
  OBVIOUS
<1>2. e = IF d < n THEN d ELSE d - n
  <2> HIDE DEF d
  <2> QED
    BY <1>1, Wrap
<1>3. a = (IF d < n THEN b ELSE i - 1) /\ (d >= n => b = i - 1 + n)
  <2> HIDE DEF e
  <2> QED
    BY <1>1, <1>2
<1>4. a \in Nat /\ a < 2 * n
  <2> HIDE DEF e
  <2> QED
    BY <1>1, <1>2
<1> HIDE DEF a, b
<1>5. a % n = (IF a < n THEN a ELSE a - n) /\ b % n = (IF b < n THEN b ELSE b - n)
  BY <1>1, <1>4, Wrap
<1>6. a % n = b % n
  <2> HIDE DEF d
  <2> QED
    BY <1>1, <1>3, <1>5
<1> QED
  BY <1>6 DEF a, b

LEMMA Typed ==
  ASSUME IInv
  PROVE  /\ QueueLen \in Nat \ {0} /\ MaxEvents \in Nat
         /\ head \in 0..(QueueLen - 1) /\ count \in 0..QueueLen
         /\ ring \in [Cells -> Entry] /\ ev \in [Procs -> Entry]
         /\ pc \in [Procs -> {"none", "claim", "next", "wait", "inject", "charUp", "gone"}]
         /\ sends \in Nat /\ sends <= MaxEvents
         /\ \A i \in 1..count : Waiting(i) \in Entry
<1>1. /\ QueueLen \in Nat \ {0} /\ MaxEvents \in Nat
      /\ head \in 0..(QueueLen - 1) /\ count \in 0..QueueLen
      /\ ring \in [Cells -> Entry] /\ ev \in [Procs -> Entry]
      /\ pc \in [Procs -> {"none", "claim", "next", "wait", "inject", "charUp", "gone"}]
      /\ sends \in Nat /\ sends <= MaxEvents
  BY InputAssumption DEF IInv, TypeOK, Cells, Entry, Keyed
<1>2. \A i \in 1..count : (head + i - 1) % QueueLen \in Cells
  BY <1>1, Places DEF Cells
<1> QED
  BY <1>1, <1>2 DEF Waiting

\* An event that finds room comes last, and moves no other.
LEMMA Joined ==
  ASSUME IInv, count < QueueLen, NEW e \in Entry, count' = count + 1, head' = head,
         ring' = [ring EXCEPT ![(head + count) % QueueLen] = e]
  PROVE  /\ ring' \in [Cells -> Entry] /\ count' \in 1..QueueLen
         /\ \A i \in 1..count : Waiting(i)' = Waiting(i)
         /\ \A i \in 1..count' : i = count + 1 => Waiting(i)' = e
         /\ \A i \in 1..count' : i \in 1..count \/ i = count + 1
<1>1. /\ QueueLen \in Nat \ {0} /\ head \in 0..(QueueLen - 1) /\ count \in 0..QueueLen
      /\ ring \in [Cells -> Entry]
  BY Typed
<1>2. /\ (head + count) % QueueLen \in Cells
      /\ (head + (count + 1) - 1) % QueueLen = (head + count) % QueueLen
  <2>1. head + count \in Nat /\ head + count < 2 * QueueLen /\ head + (count + 1) - 1 = head + count
    BY <1>1
  <2> QED
    BY <1>1, <2>1, Wrap DEF Cells
<1>3. \A i \in 1..count : /\ (head + i - 1) % QueueLen \in Cells
                          /\ (head + i - 1) % QueueLen # (head + count) % QueueLen
  BY <1>1, Places DEF Cells
<1>4. \A i \in 1..count : Waiting(i)' = Waiting(i)
  BY <1>1, <1>3 DEF Waiting
<1>5. \A i \in 1..count' : i = count + 1 => Waiting(i)' = e
  BY <1>1, <1>2 DEF Waiting
<1>6. ring' \in [Cells -> Entry]
  BY <1>1, <1>2
<1> QED
  BY <1>1, <1>4, <1>5, <1>6

\* Taking the oldest event moves the others up.
LEMMA Taken ==
  ASSUME IInv, count > 0, count' = count - 1, head' = (head + 1) % QueueLen, ring' = ring
  PROVE  /\ head' \in Cells /\ count' \in 0..QueueLen
         /\ ring[head] = Waiting(1) /\ Waiting(1) \in Entry
         /\ \A i \in 1..count' : Waiting(i)' = Waiting(i + 1) /\ i + 1 \in 1..count
         /\ \A i \in 1..count : i = 1 \/ i - 1 \in 1..count'
<1>1. /\ QueueLen \in Nat \ {0} /\ head \in 0..(QueueLen - 1) /\ count \in 0..QueueLen
      /\ ring \in [Cells -> Entry] /\ \A i \in 1..count : Waiting(i) \in Entry
  BY Typed
<1>2. head' \in Cells
  BY <1>1, Places DEF Cells
<1>3. ring[head] = Waiting(1)
  <2>1. (head + 1 - 1) % QueueLen = head
    BY <1>1, Places
  <2> QED
    BY <2>1 DEF Waiting
<1>4. ASSUME NEW i \in 1..count'
      PROVE  Waiting(i)' = Waiting(i + 1)
  <2>1. (((head + 1) % QueueLen) + i - 1) % QueueLen = (head + (i + 1) - 1) % QueueLen
    BY <1>1, Shift
  <2> QED
    BY <2>1 DEF Waiting
<1> QED
  BY <1>1, <1>2, <1>3, <1>4

-----------------------------------------------------------------------------
(* The handlers.                                                           *)

LEMMA Initial == Init => IInv
<1> SUFFICES ASSUME Init PROVE IInv
  OBVIOUS
<1>1. /\ QueueLen \in Nat \ {0} /\ 0 \in 0..MaxEvents /\ 0 \in Cells /\ 0 \in 0..QueueLen
      /\ MaxEvents \in Nat
  BY InputAssumption DEF Cells
<1>2. NoEvent \in Entry /\ NoEvent.key = "move"
  BY <1>1 DEF NoEvent, Numbered, Single, Entry, Keyed
<1>3. Len(todo) = 0 /\ DOMAIN todo = {} /\ todo \in Seq(Events)
  BY DEF Init
<1>4. TypeOK
  <2>1. ring \in [Cells -> Entry] /\ ev \in [Procs -> Entry]
    BY <1>2 DEF Init
  <2>2. pc \in [Procs -> {"none", "claim", "next", "wait", "inject", "charUp", "gone"}]
    BY DEF Init
  <2>3. /\ sends \in 0..MaxEvents /\ injected \in 0..MaxEvents
        /\ head \in Cells /\ count \in 0..QueueLen
    BY <1>1 DEF Init
  <2>4. /\ current \in BOOLEAN /\ finger \in {"up", "down"} /\ claimed \in BOOLEAN
        /\ lost = {} /\ pressed = {} /\ dead = {}
    BY DEF Init
  <2>5. Len(todo) <= 2 /\ \A i \in DOMAIN todo : todo[i] \in Events
    BY <1>3
  <2> QED
    BY <2>1, <2>2, <2>3, <2>4, <2>5 DEF TypeOK, Entry, Keyed
<1>5. Sending
  BY <1>1, <1>3 DEF Init, Sending
<1>6. OneLoop /\ Chars /\ Paired /\ Settled
  BY <1>2, <1>3 DEF Init, OneLoop, InLoop, Chars, Paired, Settled
<1> QED
  BY <1>4, <1>5, <1>6 DEF IInv

LEMMA HandlerKeeps ==
  ASSUME IInv, NEW events \in Seq(Events), Handler(events), Len(events) <= 2,
         current' \in BOOLEAN, finger' \in {"up", "down"}, lost' \subseteq Keyed,
         \A i \in DOMAIN events : events[i].key = "char" => ~events[i].down,
         Paired', \A k \in Keys : Excused(k) => Excused(k)'
  PROVE  IInv'
<1>1. /\ todo = <<>> /\ todo' = events /\ sends + Len(events) <= MaxEvents
      /\ UNCHANGED <<sends, ring, head, count, claimed, pc, ev, dead, pressed, injected>>
  BY DEF Handler, hostQueue, guest
<1>2. TypeOK'
  BY <1>1, ElementOfSeq DEF IInv, TypeOK, Keyed
<1>3. Sending' /\ OneLoop' /\ Chars'
  BY <1>1 DEF IInv, Sending, OneLoop, InLoop, Chars
<1>4. Settled'
  BY <1>1 DEF IInv, Settled, Waiting, InQueue
<1> QED
  BY <1>2, <1>3, <1>4 DEF IInv

LEMMA ViewTyped ==
  ASSUME IInv
  PROVE  current \in BOOLEAN /\ finger \in {"up", "down"} /\ lost \subseteq Keyed
BY DEF IInv, TypeOK, Keyed

\* A handler that sends nothing.
LEMMA NothingKeeps ==
  ASSUME IInv, Handler(<<>>), current' \in BOOLEAN, finger' \in {"up", "down"},
         lost' \subseteq Keyed, lost \subseteq lost',
         finger' = finger \/ finger' = "down" \/ "button" \in lost'
  PROVE  IInv'
<1> DEFINE q == <<>>
<1>1. q \in Seq(Events) /\ Len(q) <= 2 /\ DOMAIN q = {}
  OBVIOUS
<1>2. todo = q /\ todo' = q
  BY DEF Handler
<1>3. Handler(q)
  OBVIOUS
<1> HIDE DEF q
<1>4. Paired' /\ \A k \in Keys : Excused(k) => Excused(k)'
  BY <1>1, <1>2 DEF Paired, Excused
<1> QED
  BY <1>1, <1>3, <1>4, HandlerKeeps

LEMMA TickKeeps ==
  ASSUME IInv, Tick
  PROVE  IInv'
<1>1. Handler(<<>>) /\ current' \in BOOLEAN /\ finger' = finger /\ lost' = lost
  BY DEF Tick
<1> QED
  BY <1>1, NothingKeeps, ViewTyped

\* What the handlers send.
LEMMA Sent ==
  /\ Single("move") \in Events /\ Single("char") \in Events
  /\ \A k \in Keys : /\ Press(k) \in Events /\ Release(k) \in Events
                      /\ Press(k) # Release(k)
                      /\ Press(k) # Single("move") /\ Press(k) # Single("char")
                      /\ Press(k).key # "char" /\ Release(k).key # "char"
  /\ Single("move").key # "char" /\ ~Single("char").down
  /\ \A k, l \in Keys : Press(k) = Press(l) => k = l
  /\ \A k, l \in Keys : Press(k) # Release(l)
BY DEF Single, Press, Release, Events, Keys

LEMMA BeganKeeps ==
  ASSUME IInv, TouchesBegan
  PROVE  IInv'
<1>1. /\ finger' = "down" /\ current' = current /\ lost' = lost
      /\ current' \in BOOLEAN /\ finger' \in {"up", "down"} /\ lost' \subseteq Keyed
  BY ViewTyped DEF TouchesBegan
<1>2. CASE Handler(<<Single("move"), Press("button")>>)
  <2> DEFINE q == <<Single("move"), Press("button")>>
  <2>1. /\ q \in Seq(Events) /\ Len(q) = 2 /\ DOMAIN q = 1..2
        /\ q[1] = Single("move") /\ q[2] = Press("button") /\ "button" \in Keys
    BY Sent DEF Keys
  <2>2. todo = <<>> /\ todo' = q /\ Handler(q)
    BY <1>2 DEF Handler
  <2> HIDE DEF q
  <2>3. \A i \in DOMAIN q : q[i].key # "char"
    BY <2>1, Sent
  <2>4. \A k \in Keys, i \in DOMAIN q : q[i] = Press(k) => k = "button"
    BY <2>1, Sent
  <2>5. Paired'
    BY <1>1, <2>2, <2>4 DEF Paired
  <2>6. \A k \in Keys : Excused(k) => Excused(k)'
    BY <1>1, <2>2 DEF Excused
  <2> QED
    <3>1. Len(q) <= 2
      BY <2>1
    <3>2. \A i \in DOMAIN q : q[i].key = "char" => ~q[i].down
      BY <2>3
    <3> QED
      BY <1>1, <2>1, <2>2, <2>5, <2>6, <3>1, <3>2, HandlerKeeps
<1>3. CASE Handler(<<>>)
  BY <1>1, <1>3, NothingKeeps
<1> QED
  BY <1>2, <1>3 DEF TouchesBegan

\* A handler that sends one event, which is no press.
LEMMA SingleKeeps ==
  ASSUME IInv, NEW e \in Events, Handler(<<e>>), \A k \in Keys : e # Press(k),
         e.key = "char" => ~e.down,
         current' \in BOOLEAN, finger' \in {"up", "down"}, lost' = lost,
         finger' = finger \/ e = Release("button")
  PROVE  IInv'
<1> DEFINE q == <<e>>
<1>1. q \in Seq(Events) /\ Len(q) = 1 /\ DOMAIN q = {1} /\ q[1] = e
  OBVIOUS
<1>2. todo = <<>> /\ todo' = q /\ Handler(q)
  BY DEF Handler
<1> HIDE DEF q
<1>3. Paired'
  BY <1>1, <1>2 DEF Paired
<1>4. \A k \in Keys : Excused(k) => Excused(k)'
  BY <1>1, <1>2 DEF Excused
<1>5. \A i \in DOMAIN q : q[i].key = "char" => ~q[i].down
  BY <1>1
<1> QED
  <2>1. Len(q) <= 2 /\ lost' \subseteq Keyed
    BY <1>1, ViewTyped
  <2> QED
    BY <1>1, <1>2, <1>3, <1>4, <1>5, <2>1, HandlerKeeps

LEMMA EndedKeeps ==
  ASSUME IInv, TouchesEnded
  PROVE  IInv'
<1>1. /\ finger' = "up" /\ current' \in BOOLEAN /\ "button" \in Keys
      /\ finger' \in {"up", "down"} /\ lost \subseteq Keyed /\ "button" \in Keyed
  BY ViewTyped DEF TouchesEnded, Keys, Keyed
<1>2. CASE Handler(<<Release("button")>>) /\ lost' = lost
  <2>1. /\ Release("button") \in Events /\ Release("button").key # "char"
        /\ \A k \in Keys : Release("button") # Press(k)
    BY <1>1, Sent
  <2> QED
    BY <1>1, <1>2, <2>1, SingleKeeps
<1>3. CASE Handler(<<>>) /\ lost' = lost \cup {"button"}
  <2>1. lost' \subseteq Keyed /\ lost \subseteq lost' /\ "button" \in lost'
    BY <1>1, <1>3
  <2> QED
    BY <1>1, <1>3, <2>1, NothingKeeps
<1> QED
  BY <1>2, <1>3 DEF TouchesEnded

\* A handler that types a key.
LEMMA TypedKeeps ==
  ASSUME IInv, NEW k \in Keys, Handler(<<Press(k), Release(k)>>),
         UNCHANGED <<current, finger, lost>>
  PROVE  IInv'
<1> DEFINE q == <<Press(k), Release(k)>>
<1>1. /\ q \in Seq(Events) /\ Len(q) = 2 /\ DOMAIN q = 1..2
      /\ q[1] = Press(k) /\ q[2] = Release(k)
  BY Sent
<1>2. todo = <<>> /\ todo' = q /\ Handler(q)
  BY DEF Handler
<1> HIDE DEF q
<1>3. \A i \in DOMAIN q : q[i].key # "char"
  BY <1>1, Sent
<1>4. \A l \in Keys, i \in DOMAIN q : q[i] = Press(l) => i = 1 /\ l = k
  BY <1>1, Sent
<1>5. Paired'
  BY <1>1, <1>2, <1>4 DEF Paired
<1>6. \A l \in Keys : Excused(l) => Excused(l)'
  BY <1>2 DEF Excused
<1> QED
  <2>1. /\ Len(q) <= 2 /\ current' \in BOOLEAN /\ finger' \in {"up", "down"}
        /\ lost' \subseteq Keyed
    BY <1>1, ViewTyped
  <2>2. \A i \in DOMAIN q : q[i].key = "char" => ~q[i].down
    BY <1>3
  <2> QED
    BY <1>1, <1>2, <1>5, <1>6, <2>1, <2>2, HandlerKeeps

LEMMA HandlersKeep ==
  ASSUME IInv, Tick \/ TouchesBegan \/ TouchesMoved \/ TouchesEnded \/ InsertText \/ DeleteBackward
  PROVE  IInv'
<1>1. CASE TouchesMoved
  BY <1>1, Sent, ViewTyped, SingleKeeps DEF TouchesMoved
<1>2. CASE InsertText
  <2>1. CASE Handler(<<Press("return"), Release("return")>>)
    BY <1>2, <2>1, TypedKeeps DEF InsertText, Keys
  <2>2. CASE Handler(<<Single("char")>>)
    BY <1>2, <2>2, Sent, ViewTyped, SingleKeeps DEF InsertText
  <2> QED
    BY <1>2, <2>1, <2>2 DEF InsertText
<1>3. CASE DeleteBackward
  BY <1>3, TypedKeeps DEF DeleteBackward, Keys
<1> QED
  BY <1>1, <1>2, <1>3, TickKeeps, BeganKeeps, EndedKeeps

-----------------------------------------------------------------------------
(* The queue takes an event, or drops it.                                  *)

LEMMA HeadSent ==
  ASSUME IInv, todo # <<>>, todo' = Tail(todo)
  PROVE  /\ todo \in Seq(Events) /\ todo' \in Seq(Events) /\ Head(todo) \in Events
         /\ 1 \in DOMAIN todo /\ todo[1] = Head(todo)
         /\ Len(todo') = Len(todo) - 1 /\ Len(todo) \in Nat
         /\ \A i \in DOMAIN todo' : i + 1 \in DOMAIN todo /\ todo'[i] = todo[i + 1]
         /\ \A i \in DOMAIN todo : i = 1 \/ (i - 1 \in DOMAIN todo' /\ todo'[i - 1] = todo[i])
         /\ DOMAIN todo \subseteq Nat
<1>1. todo \in Seq(Events) /\ Len(todo) \in Nat /\ DOMAIN todo = 1..Len(todo) /\ Len(todo) > 0
  BY EmptySeq, LenProperties DEF IInv, Sending
<1>2. /\ Head(todo) = todo[1] /\ todo' \in Seq(Events) /\ Len(todo') = Len(todo) - 1
      /\ \A i \in 1..(Len(todo) - 1) : todo'[i] = todo[i + 1]
  BY <1>1, HeadTailProperties
<1>3. DOMAIN todo' = 1..(Len(todo) - 1)
  BY <1>2, LenProperties
<1>4. Head(todo) \in Events
  BY <1>1, <1>2, ElementOfSeq
<1> QED
  BY <1>1, <1>2, <1>3, <1>4

LEMMA Signalled ==
  ASSUME IInv, Signal \/ UNCHANGED pc
  PROVE  /\ pc' \in [Procs -> {"none", "claim", "next", "wait", "inject", "charUp", "gone"}]
         /\ \A p \in Procs : pc'[p] = pc[p] \/ (pc[p] = "wait" /\ pc'[p] = "next")
<1>1. pc \in [Procs -> {"none", "claim", "next", "wait", "inject", "charUp", "gone"}]
  BY Typed
<1>2. CASE UNCHANGED pc
  BY <1>1, <1>2
<1>3. CASE \E p \in Procs : pc[p] = "wait" /\ pc' = [pc EXCEPT ![p] = "next"]
  BY <1>1, <1>3
<1> QED
  BY <1>2, <1>3 DEF Signal

\* An event of the handlers and its entry in the queue are the same key's.
LEMMA SameKey ==
  ASSUME NEW e \in Events, NEW n \in 0..MaxEvents
  PROVE  /\ Numbered(n, e) \in Entry
         /\ Numbered(n, e).key = e.key /\ Numbered(n, e).down = e.down
         /\ \A k \in Keys : /\ e.key = k => e = Press(k) \/ e = Release(k)
                            /\ e = Release(k) => Is(Numbered(n, e), k, FALSE)
                            /\ e.key # k => \A d : ~Is(Numbered(n, e), k, d)
                            /\ e.key = k /\ ~e.down => e = Release(k)
                            /\ e = Release(k) => e.key = k /\ ~e.down
                            /\ e = Press(k) => e.down
         /\ e.key \in Keyed
BY DEF Events, Numbered, Entry, Keyed, Press, Release, Is, Keys

\* What becomes of the promise of a release, whether there is room or not.
LEMMA ExcusedKeeps ==
  ASSUME IInv, todo # <<>>, todo' = Tail(todo), finger' = finger, NEW k \in Keys,
         Head(todo) # Release(k),
         k \in lost => k \in lost'
  PROVE  /\ Excused(k) => Excused(k)'
         /\ Head(todo) = Press(k) => Excused(k)'
<1>1. ASSUME NEW i \in DOMAIN todo, todo[i] = Release(k)
      PROVE  \E j \in DOMAIN todo' : todo'[j] = Release(k)
  <2>1. i # 1
    BY <1>1, HeadSent
  <2> QED
    BY <1>1, <2>1, HeadSent, ZenonT(30)
<1>2. Excused(k) => Excused(k)'
  BY <1>1 DEF Excused
<1>3. ASSUME Head(todo) = Press(k)
      PROVE  Excused(k)'
  <2>1. \/ k = "button" /\ finger = "down"
        \/ \E j \in DOMAIN todo : todo[j] = Release(k)
    BY <1>3, HeadSent DEF IInv, Paired
  <2> QED
    BY <1>1, <2>1 DEF Excused
<1> QED
  BY <1>2, <1>3

LEMMA AcceptedSettles ==
  ASSUME IInv, todo # <<>>, count < QueueLen, Accepted(Head(todo)), todo' = Tail(todo),
         UNCHANGED <<finger, head, ev, pressed>>
  PROVE  Settled'
<1> DEFINE e == Head(todo)
           m == Numbered(sends + 1, e)
<1>1. /\ e \in Events /\ sends + 1 \in 0..MaxEvents
      /\ \A p \in Procs : pc'[p] = "inject" <=> pc[p] = "inject"
  <2>1. Signal
    BY DEF Accepted
  <2>2. \A p \in Procs : pc'[p] = "inject" <=> pc[p] = "inject"
    BY <2>1, Signalled
  <2> QED
    BY <2>2, HeadSent, Typed DEF IInv, Sending
<1>2. /\ m \in Entry
      /\ \A k \in Keys : /\ e = Release(k) => Is(m, k, FALSE)
                         /\ e.key # k => \A d : ~Is(m, k, d)
      /\ count' = count + 1 /\ head' = head
      /\ ring' = [ring EXCEPT ![(head + count) % QueueLen] = m]
  BY <1>1, SameKey, ZenonT(30) DEF Accepted
<1> HIDE DEF m
<1>3. /\ count \in Nat /\ count' \in 1..QueueLen /\ count' = count + 1
      /\ \A i \in 1..count : Waiting(i)' = Waiting(i)
      /\ \A i \in 1..count' : i = count + 1 => Waiting(i)' = m
      /\ \A i \in 1..count' : i \in 1..count \/ i = count + 1
      /\ 1..count \subseteq 1..count' /\ count + 1 \in 1..count'
  <2>1. count \in 0..QueueLen /\ QueueLen \in Nat
    BY Typed
  <2>2. /\ count' \in 1..QueueLen
        /\ \A i \in 1..count : Waiting(i)' = Waiting(i)
        /\ \A i \in 1..count' : i = count + 1 => Waiting(i)' = m
    BY <1>2, Joined
  <2> QED
    BY <1>2, <2>1, <2>2
<1>4. ASSUME NEW k \in Keys
      PROVE  Excused(k)' \/
        /\ \A i \in 1..count' : Is(Waiting(i)', k, TRUE) =>
             \E j \in 1..count' : j > i /\ Is(Waiting(j)', k, FALSE)
        /\ \A p \in Procs : pc'[p] = "inject" /\ Is(ev'[p], k, TRUE) => InQueue(k)'
        /\ k \in pressed' =>
             InQueue(k)' \/ \E p \in Procs : pc'[p] = "inject" /\ Is(ev'[p], k, FALSE)
  <2>1. CASE e = Release(k)
    <3>1. \A i \in 1..count' : i = count + 1 => Is(Waiting(i)', k, FALSE)
      BY <1>2, <1>3, <2>1
    <3>2. \A i \in 1..count' : Is(Waiting(i)', k, TRUE) => i \in 1..count
      BY <1>3, <3>1 DEF Is
    <3>3. InQueue(k)'
      BY <1>3, <3>1 DEF InQueue
    <3>4. \A i \in 1..count' : Is(Waiting(i)', k, TRUE) => count + 1 > i
      <4>1. \A i \in 1..count : count + 1 > i
        BY <1>3
      <4> QED
        BY <3>2, <4>1
    <3> QED
      BY <1>3, <3>1, <3>3, <3>4
  <2>2. CASE e # Release(k)
    <3>1. k \in lost => k \in lost'
      BY <1>1, <2>2, SameKey DEF Accepted
    <3>2. (Excused(k) => Excused(k)') /\ (e = Press(k) => Excused(k)')
      BY <2>2, <3>1, ExcusedKeeps
    <3>3. CASE e.key # k
      <4>1. \A i \in 1..count', d \in BOOLEAN : Is(Waiting(i)', k, d) =>
              i \in 1..count /\ Waiting(i)' = Waiting(i)
        BY <1>2, <1>3, <3>3
      <4>2. InQueue(k) => InQueue(k)'
        BY <1>3 DEF InQueue
      <4> QED
        BY <1>1, <1>3, <3>2, <4>1, <4>2 DEF IInv, Settled
    <3> QED
      BY <1>1, <2>2, <3>2, <3>3, SameKey
  <2> QED
    BY <2>1, <2>2
<1> QED
  BY <1>4 DEF Settled

LEMMA DroppedSettles ==
  ASSUME IInv, todo # <<>>, Dropped(Head(todo)), todo' = Tail(todo),
         UNCHANGED <<finger, head, ev, pressed>>
  PROVE  Settled'
<1>1. UNCHANGED <<ring, count, pc, head, ev, pressed>>
  BY DEF Dropped
<1>2. \A i \in 1..count : Waiting(i)' = Waiting(i)
  BY <1>1 DEF Waiting
<1>3. ASSUME NEW k \in Keys
      PROVE  Excused(k) \/ Head(todo) = Release(k) => Excused(k)'
  <2>1. CASE Head(todo) = Release(k)
    BY <1>3, <2>1, HeadSent DEF Dropped, Release, Excused
  <2>2. CASE Head(todo) # Release(k)
    BY <2>2, ExcusedKeeps DEF Dropped
  <2> QED
    BY <2>1, <2>2
<1> QED
  BY <1>1, <1>2, <1>3 DEF IInv, Settled, InQueue

LEMMA EnqueueKeeps ==
  ASSUME IInv, Enqueue
  PROVE  IInv'
<1> DEFINE e == Head(todo)
           m == Numbered(sends + 1, e)
<1>1. /\ todo # <<>> /\ todo' = Tail(todo) /\ sends' = sends + 1
      /\ UNCHANGED <<current, finger, head, claimed, ev, dead, pressed, injected>>
  BY DEF Enqueue, guest
<1>2. /\ e \in Events /\ sends + 1 \in 0..MaxEvents /\ sends \in Nat /\ Len(todo) \in Nat
      /\ Len(todo') = Len(todo) - 1 /\ todo' \in Seq(Events)
      /\ \A i \in DOMAIN todo' : i + 1 \in DOMAIN todo /\ todo'[i] = todo[i + 1]
      /\ DOMAIN todo \subseteq Nat /\ DOMAIN todo' \subseteq Nat
  <2>1. DOMAIN todo' \subseteq Nat
    BY <1>1, HeadSent, LenProperties
  <2>2. sends \in Nat /\ MaxEvents \in Nat /\ Len(todo) \in Nat /\ Len(todo) >= 1
        /\ sends + Len(todo) <= MaxEvents
    BY <1>1, HeadSent, EmptySeq, LenProperties, Typed DEF IInv, Sending
  <2> QED
    BY <1>1, <2>1, <2>2, HeadSent
<1>3. \/ count < QueueLen /\ Accepted(e)
      \/ Dropped(e)
  BY DEF Enqueue
<1>4. /\ pc' \in [Procs -> {"none", "claim", "next", "wait", "inject", "charUp", "gone"}]
      /\ \A p \in Procs : pc'[p] = pc[p] \/ (pc[p] = "wait" /\ pc'[p] = "next")
  <2>1. Signal \/ UNCHANGED pc
    BY <1>3 DEF Accepted, Dropped
  <2> QED
    BY <2>1, Signalled
<1>5. m \in Entry /\ m.key = e.key /\ m.down = e.down /\ e.key \in Keyed
  BY <1>2, SameKey
<1>6. /\ ring' \in [Cells -> Entry] /\ count' \in 0..QueueLen
      /\ \A c \in Cells : ring'[c] = ring[c] \/ ring'[c] = m
  <2>1. CASE count < QueueLen /\ Accepted(e)
    <3>1. /\ ring' \in [Cells -> Entry] /\ count' \in 0..QueueLen
      <4>1. /\ ring' = [ring EXCEPT ![(head + count) % QueueLen] = m]
            /\ count' = count + 1 /\ head' = head /\ count < QueueLen
        BY <1>1, <2>1 DEF Accepted
      <4> HIDE DEF m
      <4>2. ring' \in [Cells -> Entry] /\ count' \in 1..QueueLen
        BY <1>5, <4>1, Joined
      <4> QED
        BY <4>2, Typed
    <3>2. \A c \in Cells : ring'[c] = ring[c] \/ ring'[c] = m
      BY <2>1, Typed DEF Accepted
    <3> QED
      BY <3>1, <3>2
  <2>2. CASE Dropped(e)
    BY <2>2, Typed DEF Dropped
  <2> QED
    BY <1>3, <2>1, <2>2
<1>7. lost' \subseteq Keyed
  BY <1>3, <1>5, ViewTyped DEF Accepted, Dropped
<1>8. Settled'
  BY <1>1, <1>3, AcceptedSettles, DroppedSettles
<1> HIDE DEF m, e
<1>9. TypeOK'
  <2>1. Len(todo') <= 2 /\ \A i \in DOMAIN todo' : todo'[i] \in Events
    BY <1>2 DEF IInv, TypeOK
  <2> QED
    BY <1>1, <1>2, <1>4, <1>6, <1>7, <2>1 DEF IInv, TypeOK, Entry, Keyed
<1>10. Sending'
  BY <1>1, <1>2, Typed DEF IInv, Sending
<1>11. OneLoop'
  BY <1>1, <1>4 DEF IInv, OneLoop, InLoop
<1>12. Chars'
  <2>1. \A i \in DOMAIN todo' : todo'[i].key = "char" => ~todo'[i].down
    BY <1>2 DEF IInv, Chars
  <2>2. e.key = "char" => ~e.down
    BY <1>1, HeadSent DEF IInv, Chars, e
  <2>3. \A c \in Cells : ring'[c].key = "char" => ~ring'[c].down
    BY <1>5, <1>6, <2>2 DEF IInv, Chars
  <2>4. \A p \in Procs : pc'[p] = "charUp" <=> pc[p] = "charUp"
    BY <1>4
  <2> QED
    BY <1>1, <2>1, <2>3, <2>4 DEF IInv, Chars
<1>13. Paired'
  <2>1. ASSUME NEW k \in Keys, NEW i \in DOMAIN todo', todo'[i] = Press(k),
               ~(k = "button" /\ finger = "down")
        PROVE  \E j \in DOMAIN todo' : j > i /\ todo'[j] = Release(k)
    <3>1. PICK j \in DOMAIN todo : j > i + 1 /\ todo[j] = Release(k)
      BY <1>2, <2>1 DEF IInv, Paired
    <3>2. j # 1 /\ j - 1 > i
      BY <1>2, <3>1
    <3> QED
      BY <1>1, <3>1, <3>2, HeadSent
  <2> QED
    BY <1>1, <2>1 DEF Paired
<1> QED
  BY <1>8, <1>9, <1>10, <1>11, <1>12, <1>13 DEF IInv

-----------------------------------------------------------------------------
(* The pump threads.                                                       *)

\* The thread in the loop is the only one there.
LEMMA Alone ==
  ASSUME IInv, NEW p \in Procs, pc[p] \in {"next", "wait", "inject", "charUp"}
  PROVE  \A q \in Procs \ {p} : pc[q] \notin {"next", "wait", "inject", "charUp"}
BY DEF IInv, OneLoop, InLoop

\* A step of p that leaves the view and the queue alone, and injects nothing.
LEMMA PlaceKeeps ==
  ASSUME IInv, NEW p \in Procs, UNCHANGED <<view, hostQueue, guest>>, ev' = ev,
         NEW place \in {"claim", "next", "wait", "gone"}, pc' = [pc EXCEPT ![p] = place],
         pc[p] \notin {"inject", "charUp"}, claimed' \in BOOLEAN, dead' \subseteq Procs,
         OneLoop'
  PROVE  IInv'
<1>1. /\ UNCHANGED <<current, finger, todo, sends, lost, ring, head, count, ev, pressed, injected>>
      /\ pc \in [Procs -> {"none", "claim", "next", "wait", "inject", "charUp", "gone"}]
  BY Typed DEF view, hostQueue, guest
<1>2. /\ pc' \in [Procs -> {"none", "claim", "next", "wait", "inject", "charUp", "gone"}]
      /\ \A q \in Procs : /\ pc'[q] = "inject" <=> pc[q] = "inject"
                          /\ pc'[q] = "charUp" <=> pc[q] = "charUp"
  BY <1>1
<1>3. TypeOK'
  BY <1>1, <1>2 DEF IInv, TypeOK
<1>4. Sending' /\ Chars' /\ Paired'
  BY <1>1, <1>2 DEF IInv, Sending, Chars, Paired
<1>5. Settled'
  BY <1>1, <1>2 DEF IInv, Settled, Excused, InQueue, Waiting
<1> QED
  BY <1>3, <1>4, <1>5 DEF IInv

LEMMA StartKeeps ==
  ASSUME IInv, NEW p \in Procs, Start(p)
  PROVE  IInv'
<1>1. /\ pc[p] = "none" /\ pc' = [pc EXCEPT ![p] = "claim"]
      /\ UNCHANGED <<view, hostQueue, guest, claimed, ev, dead>>
  BY DEF Start, At, Go
<1>2. OneLoop' /\ claimed' \in BOOLEAN /\ dead' \subseteq Procs
  BY <1>1, Typed DEF IInv, TypeOK, OneLoop, InLoop
<1> QED
  BY <1>1, <1>2, PlaceKeeps

LEMMA ClaimKeeps ==
  ASSUME IInv, NEW p \in Procs, Claim(p)
  PROVE  IInv'
<1>1. /\ pc[p] = "claim" /\ claimed' = TRUE
      /\ pc' = [pc EXCEPT ![p] = IF claimed THEN "gone" ELSE "next"]
      /\ UNCHANGED <<view, hostQueue, guest, ev, dead>>
  BY DEF Claim, At, Go
<1>2. OneLoop' /\ claimed' \in BOOLEAN /\ dead' \subseteq Procs
  BY <1>1, Typed DEF IInv, TypeOK, OneLoop, InLoop
<1>3. CASE claimed
  BY <1>1, <1>2, <1>3, PlaceKeeps
<1>4. CASE ~claimed
  BY <1>1, <1>2, <1>4, PlaceKeeps
<1> QED
  BY <1>3, <1>4

LEMMA WaitKeeps ==
  ASSUME IInv, NEW p \in Procs, Await(p) \/ TimedOut(p)
  PROVE  IInv'
<1>1. /\ pc[p] \in {"next", "wait"} /\ UNCHANGED <<view, hostQueue, guest, claimed, ev, dead>>
      /\ \/ pc' = [pc EXCEPT ![p] = "wait"]
         \/ pc' = [pc EXCEPT ![p] = "next"]
  BY DEF Await, TimedOut, At, Go
<1>2. OneLoop' /\ claimed' \in BOOLEAN /\ dead' \subseteq Procs
  BY <1>1, Typed DEF IInv, TypeOK, OneLoop, InLoop
<1> QED
  BY <1>1, <1>2, PlaceKeeps

LEMMA DequeueKeeps ==
  ASSUME IInv, NEW p \in Procs, Dequeue(p)
  PROVE  IInv'
<1>1. /\ pc[p] = "next" /\ pc' = [pc EXCEPT ![p] = "inject"]
      /\ count > 0 /\ count' = count - 1 /\ head' = (head + 1) % QueueLen
      /\ ev' = [ev EXCEPT ![p] = ring[head]]
      /\ UNCHANGED <<current, finger, todo, sends, lost, ring, claimed, dead, pressed, injected>>
  BY DEF Dequeue, At, Go, view, guest
<1>2. /\ head' \in Cells /\ count' \in 0..QueueLen
      /\ ring[head] = Waiting(1) /\ Waiting(1) \in Entry
      /\ \A i \in 1..count' : Waiting(i)' = Waiting(i + 1) /\ i + 1 \in 1..count
      /\ \A i \in 1..count : i = 1 \/ i - 1 \in 1..count'
  BY <1>1, Taken
<1>3. /\ ev \in [Procs -> Entry] /\ count \in Nat /\ head \in Cells
      /\ pc \in [Procs -> {"none", "claim", "next", "wait", "inject", "charUp", "gone"}]
  BY Typed DEF Cells
<1>4. /\ ev'[p] = Waiting(1) /\ pc'[p] = "inject"
      /\ ev' \in [Procs -> Entry]
      /\ \A q \in Procs \ {p} : ev'[q] = ev[q] /\ pc'[q] = pc[q]
                                /\ pc[q] \notin {"next", "wait", "inject", "charUp"}
  BY <1>1, <1>2, <1>3, Alone
<1>5. TypeOK'
  <2>1. pc' \in [Procs -> {"none", "claim", "next", "wait", "inject", "charUp", "gone"}]
    BY <1>1, <1>3
  <2> QED
    BY <1>1, <1>2, <1>4, <2>1 DEF IInv, TypeOK, Entry, Keyed
<1>6. Sending' /\ Paired'
  BY <1>1 DEF IInv, Sending, Paired
<1>7. OneLoop'
  BY <1>1, <1>4 DEF IInv, OneLoop, InLoop
<1>8. Chars'
  <2>1. Waiting(1).key = "char" => ~Waiting(1).down
    BY <1>2, <1>3 DEF IInv, Chars
  <2>2. ~\E q \in Procs : pc[q] = "charUp"
    BY <1>1, <1>4
  <2> QED
    BY <1>1, <1>4, <2>1, <2>2 DEF IInv, Chars
<1>9. Settled'
  <2>1. ASSUME NEW k \in Keys, ~Excused(k)
        PROVE  /\ \A i \in 1..count' : Is(Waiting(i)', k, TRUE) =>
                    \E j \in 1..count' : j > i /\ Is(Waiting(j)', k, FALSE)
               /\ \A q \in Procs : pc'[q] = "inject" /\ Is(ev'[q], k, TRUE) => InQueue(k)'
               /\ k \in pressed' => \/ InQueue(k)'
                                    \/ \E q \in Procs : pc'[q] = "inject" /\ Is(ev'[q], k, FALSE)
    <3>1. /\ \A i \in 1..count : Is(Waiting(i), k, TRUE) =>
               \E j \in 1..count : j > i /\ Is(Waiting(j), k, FALSE)
          /\ k \in pressed => InQueue(k)
      BY <1>1, <1>4, <2>1 DEF IInv, Settled
    <3>2. \A j \in 1..count : j > 1 /\ Is(Waiting(j), k, FALSE) =>
            j - 1 \in 1..count' /\ Is(Waiting(j - 1)', k, FALSE)
      <4>1. ASSUME NEW j \in 1..count, j > 1, Is(Waiting(j), k, FALSE)
            PROVE  \E i \in 1..count' : i = j - 1 /\ Is(Waiting(i)', k, FALSE)
        <5>1. j - 1 \in 1..count' /\ (j - 1) + 1 = j
          BY <1>2, <4>1
        <5> QED
          BY <1>2, <4>1, <5>1
      <4> QED
        BY <4>1
    <3>3. \A i \in 1..count' : Is(Waiting(i)', k, TRUE) =>
            \E j \in 1..count' : j > i /\ Is(Waiting(j)', k, FALSE)
      <4>1. ASSUME NEW i \in 1..count', Is(Waiting(i)', k, TRUE)
            PROVE  \E j \in 1..count' : j > i /\ Is(Waiting(j)', k, FALSE)
        <5>1. PICK j \in 1..count : j > i + 1 /\ Is(Waiting(j), k, FALSE)
          BY <1>2, <3>1, <4>1
        <5>2. j > 1 /\ j - 1 > i
          BY <5>1
        <5> QED
          BY <3>2, <5>1, <5>2
      <4> QED
        BY <4>1
    <3>4. Is(Waiting(1), k, TRUE) => InQueue(k)'
      <4>1. 1 \in 1..count
        BY <1>1, <1>3
      <4> QED
        BY <3>1, <3>2, <4>1 DEF InQueue
    <3>5. InQueue(k) => InQueue(k)' \/ Is(Waiting(1), k, FALSE)
      <4>1. \A j \in 1..count : j = 1 \/ j > 1
        OBVIOUS
      <4> QED
        BY <3>2, <4>1 DEF InQueue
    <3> QED
      BY <1>1, <1>4, <3>1, <3>3, <3>4, <3>5
  <2>2. \A k \in Keys : Excused(k) => Excused(k)'
    BY <1>1 DEF Excused
  <2> QED
    BY <2>1, <2>2 DEF Settled
<1> QED
  BY <1>5, <1>6, <1>7, <1>8, <1>9 DEF IInv

LEMMA InjectKeeps ==
  ASSUME IInv, NEW p \in Procs, Inject(p)
  PROVE  IInv'
<1> DEFINE e == ev[p]
<1>1. /\ pc[p] = "inject"
      /\ pressed' = IF e.key = "char" \/ (e.key \in Keys /\ e.down)
                    THEN pressed \cup {e.key} ELSE pressed \ {e.key}
      /\ injected' = IF e.key = "char" THEN injected ELSE e.n
      /\ \/ e.key = "char" /\ pc' = [pc EXCEPT ![p] = "charUp"] /\ ev' = ev
         \/ /\ e.key # "char" /\ pc' = [pc EXCEPT ![p] = "next"]
            /\ ev' = [ev EXCEPT ![p] = NoEvent]
      /\ UNCHANGED <<current, finger, todo, sends, lost, ring, head, count, claimed, dead>>
  BY DEF Inject, At, Go, Done, view, hostQueue
<1>2. /\ ev \in [Procs -> Entry] /\ e \in Entry /\ MaxEvents \in Nat
      /\ pc \in [Procs -> {"none", "claim", "next", "wait", "inject", "charUp", "gone"}]
  BY Typed
<1>3. NoEvent \in Entry /\ NoEvent.key = "move"
  BY <1>2 DEF NoEvent, Numbered, Single, Entry, Keyed
<1>4. /\ ev' \in [Procs -> Entry] /\ ev'[p] \in {e, NoEvent}
      /\ pc' \in [Procs -> {"none", "claim", "next", "wait", "inject", "charUp", "gone"}]
      /\ \A q \in Procs \ {p} : ev'[q] = ev[q] /\ pc'[q] = pc[q]
                                /\ pc[q] \notin {"next", "wait", "inject", "charUp"}
      /\ pc'[p] = (IF e.key = "char" THEN "charUp" ELSE "next")
      /\ e.key = "char" => ev'[p] = e
  BY <1>1, <1>2, <1>3, Alone
<1>5. e.key \in Keyed /\ e.n \in 0..MaxEvents /\ Keys \subseteq Keyed
  BY <1>2 DEF Entry, Keyed
<1> HIDE DEF e
<1>6. TypeOK'
  <2>1. pressed' \subseteq Keys \cup {"char"} /\ injected' \in 0..MaxEvents
    BY <1>1, <1>5 DEF IInv, TypeOK
  <2> QED
    BY <1>1, <1>4, <2>1 DEF IInv, TypeOK, Entry, Keyed
<1>7. Sending' /\ Paired'
  BY <1>1 DEF IInv, Sending, Paired
<1>8. OneLoop'
  BY <1>1, <1>4 DEF IInv, OneLoop, InLoop
<1>9. Chars'
  <2>1. e.key = "char" => ~e.down
    BY DEF IInv, Chars, e
  <2>2. \A q \in Procs : ev'[q].key = "char" => ~ev'[q].down
    <3>1. ev'[p].key = "char" => ~ev'[p].down
      BY <1>3, <1>4, <2>1
    <3> QED
      BY <1>4, <3>1 DEF IInv, Chars
  <2>3. \A q \in Procs : pc'[q] = "charUp" => ev'[q].key = "char"
    BY <1>4
  <2>4. "char" \in pressed' => \E q \in Procs : pc'[q] = "charUp"
    <3>1. "char" \notin pressed
      BY <1>1, <1>4 DEF IInv, Chars
    <3> QED
      BY <1>1, <1>4, <3>1
  <2> QED
    BY <1>1, <2>2, <2>3, <2>4 DEF IInv, Chars
<1>10. Settled'
  <2>1. \A q \in Procs : pc'[q] # "inject"
    BY <1>4
  <2>2. \A i \in 1..count : Waiting(i)' = Waiting(i)
    BY <1>1 DEF Waiting
  <2>3. ASSUME NEW k \in Keys, ~Excused(k), k \in pressed'
        PROVE  InQueue(k)
    <3>1. CASE e.key = k
      <4>1. e.down /\ k # "char"
        BY <1>1, <2>3, <3>1 DEF Keys
      <4>2. Is(ev[p], k, TRUE)
        BY <1>2, <3>1, <4>1 DEF Is, Entry, e
      <4> QED
        BY <1>1, <2>3, <4>2 DEF IInv, Settled
    <3>2. CASE e.key # k
      <4>1. k \in pressed
        BY <1>1, <2>3, <3>2
      <4>2. \A q \in Procs : pc[q] = "inject" => ~Is(ev[q], k, FALSE)
        BY <1>1, <1>4, <3>2 DEF Is, e
      <4> QED
        BY <2>3, <4>1, <4>2 DEF IInv, Settled
    <3> QED
      BY <3>1, <3>2
  <2>4. \A k \in Keys : (Excused(k) => Excused(k)') /\ (InQueue(k) => InQueue(k)')
    BY <1>1, <2>2 DEF Excused, InQueue
  <2>5. ASSUME NEW k \in Keys, ~Excused(k)
        PROVE  /\ \A i \in 1..count' : Is(Waiting(i)', k, TRUE) =>
                    \E j \in 1..count' : j > i /\ Is(Waiting(j)', k, FALSE)
               /\ k \in pressed' => InQueue(k)'
    BY <1>1, <2>2, <2>3, <2>4, <2>5 DEF IInv, Settled
  <2> QED
    BY <2>1, <2>4, <2>5 DEF Settled
<1> QED
  BY <1>6, <1>7, <1>8, <1>9, <1>10 DEF IInv

LEMMA CharUpKeeps ==
  ASSUME IInv, NEW p \in Procs, InjectCharUp(p)
  PROVE  IInv'
<1>1. /\ pc[p] = "charUp" /\ pressed' = pressed \ {"char"} /\ injected' = ev[p].n
      /\ pc' = [pc EXCEPT ![p] = "next"] /\ ev' = [ev EXCEPT ![p] = NoEvent]
      /\ UNCHANGED <<current, finger, todo, sends, lost, ring, head, count, claimed, dead>>
  BY DEF InjectCharUp, At, Go, Done, view, hostQueue
<1>2. /\ ev \in [Procs -> Entry] /\ ev[p] \in Entry /\ MaxEvents \in Nat
      /\ pc \in [Procs -> {"none", "claim", "next", "wait", "inject", "charUp", "gone"}]
  BY Typed
<1>3. NoEvent \in Entry /\ NoEvent.key = "move"
  BY <1>2 DEF NoEvent, Numbered, Single, Entry, Keyed
<1>4. /\ ev' \in [Procs -> Entry] /\ ev'[p] = NoEvent /\ pc'[p] = "next"
      /\ pc' \in [Procs -> {"none", "claim", "next", "wait", "inject", "charUp", "gone"}]
      /\ \A q \in Procs \ {p} : ev'[q] = ev[q] /\ pc'[q] = pc[q]
                                /\ pc[q] \notin {"next", "wait", "inject", "charUp"}
  BY <1>1, <1>2, <1>3, Alone
<1>5. TypeOK'
  <2>1. injected' \in 0..MaxEvents /\ pressed' \subseteq pressed
    BY <1>1, <1>2 DEF Entry
  <2> QED
    BY <1>1, <1>4, <2>1 DEF IInv, TypeOK, Entry, Keyed
<1>6. Sending' /\ Paired'
  BY <1>1 DEF IInv, Sending, Paired
<1>7. OneLoop'
  BY <1>1, <1>4 DEF IInv, OneLoop, InLoop
<1>8. Chars'
  BY <1>1, <1>3, <1>4 DEF IInv, Chars
<1>9. Settled'
  <2>1. \A q \in Procs : pc'[q] # "inject" /\ pc[q] # "inject"
    BY <1>1, <1>4
  <2>2. \A i \in 1..count : Waiting(i)' = Waiting(i)
    BY <1>1 DEF Waiting
  <2> QED
    BY <1>1, <2>1, <2>2 DEF IInv, Settled, Excused, InQueue
<1> QED
  BY <1>5, <1>6, <1>7, <1>8, <1>9 DEF IInv

LEMMA ExitKeeps ==
  ASSUME IInv, (\E p \in Procs : Exit(p)) \/ UNCHANGED vars
  PROVE  IInv'
<1>1. /\ UNCHANGED <<current, finger, todo, sends, lost, ring, head, count, claimed, pc, ev,
                     pressed, injected>>
      /\ dead' \subseteq dead \cup Procs
  BY DEF Exit, vars, view, hostQueue, guest
<1>2. TypeOK'
  BY <1>1 DEF IInv, TypeOK
<1>3. Sending' /\ Paired' /\ OneLoop' /\ Chars'
  BY <1>1 DEF IInv, Sending, Paired, OneLoop, InLoop, Chars
<1>4. Settled'
  BY <1>1 DEF IInv, Settled, Excused, InQueue, Waiting
<1> QED
  BY <1>2, <1>3, <1>4 DEF IInv

LEMMA StepKeeps == IInv /\ [Next]_vars => IInv'
<1> SUFFICES ASSUME IInv, [Next]_vars PROVE IInv'
  OBVIOUS
<1>1. CASE \/ Tick \/ TouchesBegan \/ TouchesMoved \/ TouchesEnded \/ InsertText
           \/ DeleteBackward
  BY <1>1, HandlersKeep
<1>2. CASE Enqueue
  BY <1>2, EnqueueKeeps
<1>3. ASSUME NEW p \in Procs, Start(p) \/ Pump(p)
      PROVE  IInv'
  BY <1>3, StartKeeps, ClaimKeeps, DequeueKeeps, WaitKeeps, InjectKeeps, CharUpKeeps DEF Pump
<1>4. CASE (\E p \in Procs : Exit(p)) \/ UNCHANGED vars
  BY <1>4, ExitKeeps
<1> QED
  BY <1>1, <1>2, <1>3, <1>4 DEF Next

LEMMA Invariant == Spec => []IInv
BY Initial, StepKeeps, PTL DEF Spec

-----------------------------------------------------------------------------
(* What waits, as a sequence.                                              *)

LEMMA Prefixed ==
  ASSUME NEW S, NEW c \in Nat, NEW f \in [1..c -> S], NEW e \in S
  PROVE  /\ f \in Seq(S) /\ Len(f) = c
         /\ <<>> \o f = f
         /\ DOMAIN (<<e>> \o f) = 1..(c + 1)
         /\ (<<e>> \o f)[1] = e
         /\ \A i \in 1..c : (<<e>> \o f)[i + 1] = f[i]
<1>1. f \in Seq(S) /\ Len(f) = c
  BY IsASeq, LenProperties
<1>2. <<e>> \in Seq(S) /\ Len(<<e>>) = 1 /\ <<e>>[1] = e
  OBVIOUS
<1>3. <<>> \o f = f
  BY <1>1, ConcatEmptySeq
<1> DEFINE q == <<e>>
           r == q \o f
<1>4. q \in Seq(S) /\ Len(q) = 1 /\ q[1] = e
  BY <1>2
<1> HIDE DEF q
<1>5. /\ r \in Seq(S) /\ Len(r) = 1 + c
      /\ \A i \in 1..(1 + c) : r[i] = IF i <= 1 THEN q[i] ELSE f[i - 1]
  BY <1>1, <1>4, ConcatProperties
<1> HIDE DEF r
<1>6. DOMAIN r = 1..(c + 1) /\ r[1] = e /\ \A i \in 1..c : r[i + 1] = f[i]
  BY <1>4, <1>5, LenProperties
<1> QED
  BY <1>1, <1>3, <1>6 DEF q, r

\* What the pump has in hand comes first, the queue's events after it.
PendingShape ==
  /\ InHand = {} => /\ DOMAIN Pending = 1..count
                   /\ \A i \in 1..count : Pending[i] = Waiting(i)
  /\ \A p \in InHand : /\ DOMAIN Pending = 1..(count + 1) /\ Pending[1] = ev[p]
                       /\ \A i \in 1..count : Pending[i + 1] = Waiting(i)

LEMMA PendingNow == IInv => PendingShape
<1> SUFFICES ASSUME IInv PROVE PendingShape
  OBVIOUS
<1> DEFINE f == [i \in 1..count |-> Waiting(i)]
<1>1. \A p, q \in InHand : p = q
  BY DEF IInv, OneLoop, InLoop, InHand
<1>2. count \in Nat /\ f \in [1..count -> Entry] /\ \A p \in InHand : ev[p] \in Entry
  BY Typed DEF InHand
<1>3. f = [i \in 1..count |-> ring[(head + i - 1) % QueueLen]]
  BY DEF Waiting
<1>4. ASSUME InHand = {}
      PROVE  /\ DOMAIN Pending = 1..count
             /\ \A i \in 1..count : Pending[i] = Waiting(i)
  <2>1. Pending = <<>> \o f
    BY <1>3, <1>4 DEF Pending
  <2>2. NoEvent \in Entry
    BY Typed DEF NoEvent, Numbered, Single, Entry, Keyed
  <2>3. <<>> \o f = f
    <3> HIDE DEF f
    <3> QED
      BY <1>2, <2>2, Prefixed
  <2> QED
    BY <2>1, <2>3
<1>5. ASSUME NEW p \in InHand
      PROVE  /\ DOMAIN Pending = 1..(count + 1) /\ Pending[1] = ev[p]
             /\ \A i \in 1..count : Pending[i + 1] = Waiting(i)
  <2>1. (CHOOSE q \in InHand : TRUE) = p
    BY <1>1
  <2>2. Pending = <<ev[p]>> \o f
    BY <1>3, <2>1 DEF Pending
  <2>3. \A i \in 1..count : f[i] = Waiting(i)
    OBVIOUS
  <2> HIDE DEF f
  <2>4. /\ DOMAIN (<<ev[p]>> \o f) = 1..(count + 1) /\ (<<ev[p]>> \o f)[1] = ev[p]
        /\ \A i \in 1..count : (<<ev[p]>> \o f)[i + 1] = f[i]
    BY <1>2, Prefixed
  <2> QED
    BY <2>2, <2>3, <2>4
<1> QED
  BY <1>4, <1>5 DEF PendingShape

LEMMA Released == IInv => NoStuckButton
<1> SUFFICES ASSUME IInv, NEW k \in pressed
             PROVE  \/ k = "button" /\ finger = "down"
                    \/ k \in lost
                    \/ \E i \in DOMAIN todo : todo[i] = Release(k)
                    \/ \E i \in DOMAIN Pending : Pending[i].key = k /\ ~Pending[i].down
  BY DEF NoStuckButton
<1>1. PendingShape /\ count \in Nat
  BY PendingNow, Typed
<1>2. ASSUME InQueue(k)
      PROVE  \E i \in DOMAIN Pending : Pending[i].key = k /\ ~Pending[i].down
  <2>1. PICK i \in 1..count : Waiting(i).key = k /\ ~Waiting(i).down
    BY <1>2 DEF InQueue, Is
  <2>2. CASE InHand = {}
    BY <1>1, <2>1, <2>2 DEF PendingShape
  <2>3. ASSUME NEW p \in InHand
        PROVE  \E j \in DOMAIN Pending : Pending[j].key = k /\ ~Pending[j].down
    <3>1. i + 1 \in DOMAIN Pending /\ Pending[i + 1] = Waiting(i)
      BY <1>1 DEF PendingShape
    <3> QED
      BY <2>1, <3>1
  <2> QED
    BY <2>2, <2>3
<1>3. ASSUME NEW p \in InHand, ev[p].key = k, ~ev[p].down
      PROVE  \E i \in DOMAIN Pending : Pending[i].key = k /\ ~Pending[i].down
  <2>1. 1 \in DOMAIN Pending /\ Pending[1] = ev[p]
    BY <1>1 DEF PendingShape
  <2> QED
    BY <1>3, <2>1
<1>4. CASE k \in Keys
  <2>1. \/ Excused(k) \/ InQueue(k)
        \/ \E p \in Procs : pc[p] = "inject" /\ Is(ev[p], k, FALSE)
    BY <1>4 DEF IInv, Settled
  <2>2. ASSUME NEW p \in Procs, pc[p] = "inject", Is(ev[p], k, FALSE)
        PROVE  \E i \in DOMAIN Pending : Pending[i].key = k /\ ~Pending[i].down
    BY <1>3, <2>2 DEF InHand, Is
  <2> QED
    BY <1>2, <2>1, <2>2 DEF Excused
<1>5. CASE k = "char"
  <2>1. PICK p \in Procs : pc[p] = "charUp" /\ ev[p].key = "char" /\ ~ev[p].down
    BY <1>5 DEF IInv, Chars
  <2> QED
    BY <1>3, <1>5, <2>1 DEF InHand
<1> QED
  BY <1>4, <1>5 DEF IInv, TypeOK

-----------------------------------------------------------------------------
(* The steps of LossyFifo.                                                 *)

Numbers == [i \in DOMAIN Pending |-> Pending[i].n]

NumbersShape ==
  /\ InHand = {} => Numbers = [i \in 1..count |-> Waiting(i).n]
  /\ \A p \in InHand :
       Numbers = [i \in 1..(count + 1) |-> IF i = 1 THEN ev[p].n ELSE Waiting(i - 1).n]

LEMMA NumbersNow == IInv => NumbersShape
<1> SUFFICES ASSUME IInv PROVE NumbersShape
  OBVIOUS
<1>1. PendingShape /\ count \in Nat
  BY PendingNow, Typed
<1>2. CASE InHand = {}
  BY <1>1, <1>2 DEF PendingShape, NumbersShape, Numbers
<1>3. ASSUME NEW p \in InHand
      PROVE  Numbers = [i \in 1..(count + 1) |-> IF i = 1 THEN ev[p].n ELSE Waiting(i - 1).n]
  <2>1. \A i \in 1..(count + 1) : i = 1 \/ (i - 1 \in 1..count /\ (i - 1) + 1 = i)
    BY <1>1
  <2>2. \A i \in 1..(count + 1) : Pending[i] = IF i = 1 THEN ev[p] ELSE Waiting(i - 1)
    BY <1>1, <2>1 DEF PendingShape
  <2> QED
    BY <1>1, <2>2 DEF PendingShape, Numbers
<1> QED
  BY <1>2, <1>3 DEF NumbersShape

LEMMA NumbersThen == IInv' => NumbersShape'
BY NumbersNow, PTL

\* Functions on 1..n as sequences.
LEMMA Listed ==
  ASSUME NEW n \in Nat, NEW f \in [1..n -> Int]
  PROVE  /\ f \in Seq(Int) /\ Len(f) = n
         /\ \A x \in Int : Append(f, x) = [i \in 1..(n + 1) |-> IF i = n + 1 THEN x ELSE f[i]]
         /\ n > 0 => /\ f # <<>> /\ Head(f) = f[1]
                     /\ Tail(f) = [i \in 1..(n - 1) |-> f[i + 1]]
<1>1. f \in Seq(Int) /\ Len(f) = n
  BY IsASeq, LenProperties
<1>2. ASSUME NEW x \in Int
      PROVE  Append(f, x) = [i \in 1..(n + 1) |-> IF i = n + 1 THEN x ELSE f[i]]
  <2> DEFINE g == Append(f, x)
  <2>1. /\ g \in Seq(Int) /\ Len(g) = n + 1 /\ g[n + 1] = x
        /\ \A i \in 1..n : g[i] = f[i]
    BY <1>1, AppendProperties
  <2> HIDE DEF g
  <2>2. g = [i \in 1..(n + 1) |-> g[i]]
    BY <2>1
  <2>3. \A i \in 1..(n + 1) : g[i] = IF i = n + 1 THEN x ELSE f[i]
    BY <2>1
  <2>4. g = [i \in 1..(n + 1) |-> IF i = n + 1 THEN x ELSE f[i]]
    BY <2>2, <2>3
  <2> QED
    BY <2>4 DEF g
<1>3. ASSUME n > 0
      PROVE  /\ f # <<>> /\ Head(f) = f[1]
             /\ Tail(f) = [i \in 1..(n - 1) |-> f[i + 1]]
  <2>1. f # <<>>
    BY <1>1, <1>3
  <2> DEFINE g == Tail(f)
  <2>2. /\ Head(f) = f[1] /\ g \in Seq(Int) /\ Len(g) = n - 1
        /\ \A i \in 1..(n - 1) : g[i] = f[i + 1]
    BY <1>1, <2>1, HeadTailProperties
  <2> HIDE DEF g
  <2>3. g = [i \in 1..(n - 1) |-> g[i]]
    BY <2>2, LenProperties
  <2>4. g = [i \in 1..(n - 1) |-> f[i + 1]]
    BY <2>2, <2>3
  <2> QED
    BY <2>1, <2>2, <2>4 DEF g
<1> QED
  BY <1>1, <1>2, <1>3

\* Steps in which no event is sent, and none is injected.
LEMMA FifoStutters ==
  ASSUME IInv, InHand' = InHand, UNCHANGED <<ring, head, count, sends, injected>>,
         \A p \in InHand : ev'[p] = ev[p]
  PROVE  UNCHANGED Fifo!fvars
<1>1. Pending' = Pending
  <2>1. CASE InHand = {}
    BY <2>1 DEF Pending
  <2>2. CASE InHand # {}
    <3> DEFINE h == CHOOSE p \in InHand : TRUE
    <3>1. h \in InHand
      BY <2>2
    <3>2. ev'[h] = ev[h] /\ h' = h
      BY <3>1
    <3> QED
      BY <2>2, <3>2 DEF Pending
  <2> QED
    BY <2>1, <2>2
<1> QED
  BY <1>1 DEF Fifo!fvars

LEMMA FifoEnqueue ==
  ASSUME IInv, IInv', Enqueue
  PROVE  Fifo!Accept \/ Fifo!Drop
<1> DEFINE e == Head(todo)
           m == Numbered(sends + 1, e)
<1>1. /\ todo # <<>> /\ todo' = Tail(todo) /\ sends' = sends + 1
      /\ UNCHANGED <<head, ev, injected>>
  BY DEF Enqueue, guest
<1>2. /\ e \in Events /\ sends + 1 \in 0..MaxEvents
  <2>1. Len(todo) \in Nat /\ Len(todo) >= 1 /\ sends \in Nat /\ MaxEvents \in Nat
    BY <1>1, HeadSent, EmptySeq, LenProperties, Typed
  <2> QED
    BY <1>1, <2>1, HeadSent DEF IInv, Sending
<1>3. m \in Entry /\ m.n = sends + 1
  BY <1>2, SameKey DEF Numbered
<1>4. /\ count \in Nat /\ QueueLen \in Nat /\ count <= QueueLen /\ sends \in Nat
      /\ \A i \in 1..count : Waiting(i).n \in Int
      /\ \A p \in InHand : ev[p].n \in Int
  BY Typed DEF Entry, InHand
<1>5. NumbersShape /\ NumbersShape'
  BY NumbersNow, NumbersThen
<1>6. InHand' = InHand
  <2>1. Signal \/ UNCHANGED pc
    BY DEF Enqueue, Accepted, Dropped
  <2> QED
    BY <2>1, Signalled DEF InHand
<1>7. \E c \in {count, count + 1} :
        Numbers \in [1..c -> Int] /\ (InHand = {} <=> c = count)
  <2>1. CASE InHand = {}
    BY <1>4, <1>5, <2>1 DEF NumbersShape
  <2>2. ASSUME NEW p \in InHand
        PROVE  Numbers \in [1..(count + 1) -> Int]
    <3>1. \A i \in 1..(count + 1) : i = 1 \/ i - 1 \in 1..count
      BY <1>4
    <3> QED
      BY <1>4, <1>5, <3>1 DEF NumbersShape
  <2> QED
    BY <1>4, <2>1, <2>2
<1>8. PICK c \in {count, count + 1} :
        Numbers \in [1..c -> Int] /\ (InHand = {} <=> c = count)
  BY <1>7
<1>9. Len(Numbers) = c /\ c \in Nat
  BY <1>4, <1>8, Listed
<1>10. CASE count < QueueLen /\ Accepted(e)
  <2>1. /\ count' = count + 1
        /\ \A i \in 1..count : Waiting(i)' = Waiting(i)
        /\ \A i \in 1..count' : i = count + 1 => Waiting(i)' = m
    <3>1. /\ ring' = [ring EXCEPT ![(head + count) % QueueLen] = m]
          /\ count' = count + 1 /\ head' = head /\ count < QueueLen
      BY <1>1, <1>10 DEF Accepted
    <3> HIDE DEF m
    <3> QED
      BY <1>3, <3>1, Joined
  <2> HIDE DEF m
  <2>2. Numbers' = [i \in 1..(c + 1) |-> IF i = c + 1 THEN sends + 1 ELSE Numbers[i]]
    <3>1. CASE InHand = {}
      <4>1. /\ c = count /\ Numbers' = [i \in 1..(count + 1) |-> Waiting(i)'.n]
            /\ Numbers = [i \in 1..count |-> Waiting(i).n]
        BY <1>5, <1>6, <1>8, <2>1, <3>1 DEF NumbersShape
      <4>2. \A i \in 1..(count + 1) : i \in 1..count \/ i = count + 1
        BY <1>4
      <4> QED
        BY <1>3, <1>4, <2>1, <4>1, <4>2
    <3>2. ASSUME NEW p \in InHand
          PROVE  Numbers' = [i \in 1..(c + 1) |-> IF i = c + 1 THEN sends + 1 ELSE Numbers[i]]
      <4>1. /\ c = count + 1
            /\ Numbers' = [i \in 1..(count + 1 + 1) |->
                            IF i = 1 THEN ev[p].n ELSE Waiting(i - 1)'.n]
            /\ Numbers = [i \in 1..(count + 1) |-> IF i = 1 THEN ev[p].n ELSE Waiting(i - 1).n]
        BY <1>1, <1>5, <1>6, <1>8, <2>1, <3>2 DEF NumbersShape
      <4>2. \A i \in 1..(count + 1 + 1) : \/ i = 1 \/ i = count + 1 + 1
                                           \/ (i - 1 \in 1..count /\ i \in 1..(count + 1))
        BY <1>4
      <4>3. \A i \in 1..(count + 1 + 1) : i = count + 1 + 1 =>
              i # 1 /\ i - 1 \in 1..count' /\ i - 1 = count + 1
        BY <1>4, <2>1
      <4> QED
        BY <1>3, <1>4, <2>1, <4>1, <4>2, <4>3
    <3> QED
      BY <3>1, <3>2
  <2>3. Numbers' = Append(Numbers, sends + 1)
    BY <1>4, <1>8, <1>9, <2>2, Listed
  <2>4. Len(Numbers) <= QueueLen
    BY <1>4, <1>9, <1>10
  <2> QED
    BY <1>1, <2>3, <2>4 DEF Fifo!Accept, Numbers
<1>11. CASE count >= QueueLen /\ Dropped(e)
  <2>1. UNCHANGED <<ring, count, head, ev, InHand>>
    BY <1>1, <1>6, <1>11 DEF Dropped
  <2>2. Pending' = Pending
    BY <2>1 DEF Pending
  <2>3. Len(Numbers) >= QueueLen
    BY <1>4, <1>9, <1>11
  <2> QED
    BY <1>1, <2>2, <2>3 DEF Fifo!Drop, Numbers
<1> QED
  BY <1>4, <1>10, <1>11 DEF Enqueue

\* The event in the pump's hand is the oldest.
LEMMA FifoDeliver ==
  ASSUME IInv, IInv', NEW p \in Procs, pc[p] \in {"inject", "charUp"},
         pc' = [pc EXCEPT ![p] = "next"], injected' = ev[p].n,
         UNCHANGED <<sends, ring, head, count>>
  PROVE  Fifo!Deliver
<1>1. /\ count \in Nat /\ \A i \in 1..count : Waiting(i).n \in Int
      /\ ev[p].n \in Int
      /\ pc \in [Procs -> {"none", "claim", "next", "wait", "inject", "charUp", "gone"}]
  BY Typed DEF Entry
<1>2. p \in InHand /\ InHand' = {}
  BY <1>1, Alone DEF InHand
<1>3. /\ Numbers = [i \in 1..(count + 1) |-> IF i = 1 THEN ev[p].n ELSE Waiting(i - 1).n]
      /\ Numbers' = [i \in 1..count |-> Waiting(i)'.n]
  BY <1>2, NumbersNow, NumbersThen DEF NumbersShape
<1>4. \A i \in 1..count : Waiting(i)' = Waiting(i)
  BY DEF Waiting
<1>5. Numbers \in [1..(count + 1) -> Int]
  <2>1. \A i \in 1..(count + 1) : i = 1 \/ i - 1 \in 1..count
    BY <1>1
  <2> QED
    BY <1>1, <1>3, <2>1
<1>6. /\ Numbers # <<>> /\ Head(Numbers) = Numbers[1]
      /\ Tail(Numbers) = [i \in 1..count |-> Numbers[i + 1]]
  <2>1. count + 1 \in Nat /\ count + 1 > 0 /\ (count + 1) - 1 = count
    BY <1>1
  <2> QED
    BY <1>5, <2>1, Listed
<1>7. Numbers[1] = ev[p].n
  BY <1>1, <1>3
<1>8. \A i \in 1..count : Numbers[i + 1] = Waiting(i).n
  <2>1. \A i \in 1..count : i + 1 \in 1..(count + 1) /\ i + 1 # 1 /\ (i + 1) - 1 = i
    BY <1>1
  <2> QED
    BY <1>3, <2>1
<1>9. Numbers' = Tail(Numbers)
  BY <1>3, <1>4, <1>6, <1>8, ZenonT(30)
<1> QED
  BY <1>6, <1>7, <1>9 DEF Fifo!Deliver, Numbers

\* Taking an event from the queue into the hand keeps it first.
LEMMA FifoDequeue ==
  ASSUME IInv, IInv', NEW p \in Procs, Dequeue(p)
  PROVE  UNCHANGED Fifo!fvars
<1>1. /\ pc[p] = "next" /\ pc' = [pc EXCEPT ![p] = "inject"]
      /\ count > 0 /\ count' = count - 1 /\ head' = (head + 1) % QueueLen
      /\ ev' = [ev EXCEPT ![p] = ring[head]] /\ UNCHANGED <<ring, sends, injected>>
  BY DEF Dequeue, At, Go, view, guest
<1>2. /\ count \in Nat /\ ev \in [Procs -> Entry]
      /\ pc \in [Procs -> {"none", "claim", "next", "wait", "inject", "charUp", "gone"}]
  BY Typed
<1>3. InHand = {} /\ p \in InHand'
  BY <1>1, <1>2, Alone DEF InHand
<1>4. /\ Numbers = [i \in 1..count |-> Waiting(i).n]
      /\ Numbers' = [i \in 1..(count' + 1) |-> IF i = 1 THEN ev'[p].n ELSE Waiting(i - 1)'.n]
  BY <1>3, NumbersNow, NumbersThen DEF NumbersShape
<1>5. /\ ev'[p] = Waiting(1) /\ count' + 1 = count
      /\ \A i \in 1..count : i # 1 => Waiting(i - 1)' = Waiting(i)
  <2>1. /\ ring[head] = Waiting(1)
        /\ \A i \in 1..count' : Waiting(i)' = Waiting(i + 1)
    BY <1>1, Taken
  <2>2. \A i \in 1..count : i # 1 => i - 1 \in 1..count' /\ (i - 1) + 1 = i
    BY <1>1, <1>2
  <2>3. \A i \in 1..count : i # 1 => Waiting(i - 1)' = Waiting(i)
    BY <2>1, <2>2
  <2> QED
    BY <1>1, <1>2, <2>1, <2>3
<1>6. Numbers' = Numbers
  BY <1>4, <1>5
<1> QED
  BY <1>1, <1>6 DEF Fifo!fvars, Numbers

LEMMA FifoStep == IInv /\ IInv' /\ [Next]_vars => [Fifo!FNext]_(Fifo!fvars)
<1> SUFFICES ASSUME IInv, IInv', [Next]_vars PROVE [Fifo!FNext]_(Fifo!fvars)
  OBVIOUS
<1>1. CASE \/ Tick \/ TouchesBegan \/ TouchesMoved \/ TouchesEnded \/ InsertText
           \/ DeleteBackward \/ (\E p \in Procs : Exit(p)) \/ UNCHANGED vars
  <2>1. UNCHANGED <<sends, ring, head, count, pc, ev, injected>>
    BY <1>1 DEF Tick, TouchesBegan, TouchesMoved, TouchesEnded, InsertText, DeleteBackward,
                Handler, Exit, vars, view, hostQueue, guest
  <2> QED
    BY <2>1, FifoStutters DEF InHand
<1>2. CASE Enqueue
  BY <1>2, FifoEnqueue DEF Fifo!FNext
<1>3. ASSUME NEW p \in Procs, Start(p) \/ Claim(p) \/ Await(p) \/ TimedOut(p)
      PROVE  UNCHANGED Fifo!fvars
  <2>1. /\ UNCHANGED <<sends, ring, head, count, ev, injected>>
        /\ pc[p] \notin {"inject", "charUp"}
        /\ \E place \in {"claim", "next", "wait", "gone"} : pc' = [pc EXCEPT ![p] = place]
    BY <1>3 DEF Start, Claim, Await, TimedOut, At, Go, view, hostQueue, guest
  <2>2. InHand' = InHand
    BY <2>1, Typed DEF InHand
  <2> QED
    BY <2>1, <2>2, FifoStutters
<1>4. ASSUME NEW p \in Procs, Inject(p)
      PROVE  Fifo!Deliver \/ UNCHANGED Fifo!fvars
  <2>1. UNCHANGED <<sends, ring, head, count>> /\ pc[p] = "inject"
    BY <1>4 DEF Inject, At, view, hostQueue
  <2>2. CASE ev[p].key = "char"
    <3>1. injected' = injected /\ ev' = ev /\ pc' = [pc EXCEPT ![p] = "charUp"]
      BY <1>4, <2>2 DEF Inject, Go
    <3>2. InHand' = InHand
      BY <2>1, <3>1, Typed DEF InHand
    <3> QED
      BY <2>1, <3>1, <3>2, FifoStutters
  <2>3. CASE ev[p].key # "char"
    <3>1. injected' = ev[p].n /\ pc' = [pc EXCEPT ![p] = "next"]
      BY <1>4, <2>3 DEF Inject, Go, Done
    <3> QED
      BY <2>1, <3>1, FifoDeliver
  <2> QED
    BY <2>2, <2>3
<1>5. ASSUME NEW p \in Procs, InjectCharUp(p)
      PROVE  Fifo!Deliver
  BY <1>5, FifoDeliver DEF InjectCharUp, At, Go, Done, view, hostQueue
<1> QED
  BY <1>1, <1>2, <1>3, <1>4, <1>5, FifoDequeue DEF Next, Pump, Fifo!FNext

LEMMA FifoInitial == Init => Fifo!FInit
<1> SUFFICES ASSUME Init PROVE Fifo!FInit
  OBVIOUS
<1>1. InHand = {} /\ count = 0
  BY DEF Init, InHand
<1>2. DOMAIN Pending = {} /\ IInv
  <2>1. IInv
    BY Initial
  <2>2. PendingShape
    BY <2>1, PendingNow
  <2>3. DOMAIN Pending = {}
    BY <1>1, <2>2 DEF PendingShape
  <2> QED
    BY <2>1, <2>3
<1>3. [i \in DOMAIN Pending |-> Pending[i].n] = <<>>
  BY <1>2
<1> QED
  BY <1>3 DEF Init, Fifo!FInit

-----------------------------------------------------------------------------
(* Every reachable state is typed: the ring's indices and count stay in    *)
(* their ranges, and no handler sends more events than it has.             *)
THEOREM TypeCorrect == Spec => []TypeOK
<1>1. IInv => TypeOK
  BY DEF IInv
<1> QED
  BY <1>1, Invariant, PTL

(* Whatever the surfaces, the queue and the pump do between a press and    *)
(* its release, no button or key stays down in the guest, but for a        *)
(* release that is not sent, or that a full queue drops.                   *)
THEOREM NoStuckButtonAlways == Spec => []NoStuckButton
BY Invariant, Released, PTL

(* Events reach the guest in the order they were sent, at most once, and   *)
(* are dropped only when QUEUE_LEN others wait.                            *)
THEOREM ImplementsFifo == Spec => FifoSpec
<1>1. Init => Fifo!FInit
  BY FifoInitial
<1>2. IInv /\ IInv' /\ [Next]_vars => [Fifo!FNext]_(Fifo!fvars)
  BY FifoStep
<1> QED
  BY <1>1, <1>2, Invariant, PTL DEF Spec, FifoSpec, Fifo!FifoSpec
=============================================================================
