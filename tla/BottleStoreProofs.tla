------------------------- MODULE BottleStoreProofs -------------------------
(* Theorems about BottleStore, for any number of bottles, calls and ends   *)
(* of the app.                                                             *)
EXTENDS BottleStore, SequenceTheorems, TLAPS

Call == [at : {"run", "starting", "stop", "stopping"}, bottle : Bottle]

(* The invariant.  The index on disk is the list at every moment, as every *)
(* method that changes the list saves it before it returns: that is why    *)
(* the end of the app loses nothing.  New identifiers are newer than all.  *)
Typed ==
  /\ bottles \in Seq(Bottle) /\ disk = bottles
  /\ task \in [Tasks -> Call \cup {Idle}]
  /\ nextId \in 1..(MaxBottles + 1)

Fresh ==
  /\ \A i \in DOMAIN bottles : bottles[i].id < nextId
  /\ \A i, j \in DOMAIN bottles : bottles[i].id = bottles[j].id => i = j

Counted == calls \in 0..MaxCalls /\ crashes \in 0..MaxCrashes /\ found \subseteq Ids

IInv == Typed /\ Fresh /\ Counted /\ SelectedIsListed /\ RunningIsLive

-----------------------------------------------------------------------------
(* The list.                                                               *)

\* What is left when one element goes: the others, in their order.
LEMMA RemoveAtProperties ==
  ASSUME NEW S, NEW q \in Seq(S), NEW i \in DOMAIN q
  PROVE  /\ RemoveAt(q, i) \in Seq(S)
         /\ Len(RemoveAt(q, i)) = Len(q) - 1
         /\ \A j \in 1..(Len(q) - 1) :
              RemoveAt(q, i)[j] = IF j < i THEN q[j] ELSE q[j + 1]
<1>1. Len(q) \in Nat /\ DOMAIN q = 1..Len(q) /\ i \in 1..Len(q)
  OBVIOUS
<1> DEFINE front == SubSeq(q, 1, i - 1)
           back == SubSeq(q, i + 1, Len(q))
<1>2. /\ front \in Seq(S) /\ Len(front) = i - 1
      /\ \A j \in 1..(i - 1) : front[j] = q[j]
  BY <1>1, SubSeqProperties
<1>3. /\ back \in Seq(S) /\ Len(back) = Len(q) - i
      /\ \A j \in 1..(Len(q) - i) : back[j] = q[i + j]
  BY <1>1, SubSeqProperties
<1> HIDE DEF front, back
<1>4. /\ front \o back \in Seq(S)
      /\ Len(front \o back) = Len(q) - 1
      /\ \A j \in 1..(Len(q) - 1) :
           (front \o back)[j] = IF j < i THEN q[j] ELSE q[j + 1]
  <2>1. /\ front \o back \in Seq(S)
        /\ Len(front \o back) = Len(front) + Len(back)
        /\ \A j \in 1..(Len(front) + Len(back)) :
             (front \o back)[j] = IF j <= Len(front) THEN front[j] ELSE back[j - Len(front)]
    BY <1>2, <1>3, ConcatProperties
  <2>2. Len(front) + Len(back) = Len(q) - 1
    BY <1>1, <1>2, <1>3
  <2>3. ASSUME NEW j \in 1..(Len(q) - 1)
        PROVE  (front \o back)[j] = IF j < i THEN q[j] ELSE q[j + 1]
    <3>1. CASE j < i
      BY <1>1, <1>2, <2>1, <2>2, <3>1
    <3>2. CASE ~(j < i)
      <4> DEFINE m == j - (i - 1)
      <4>1. m \in 1..(Len(q) - i) /\ i + m = j + 1 /\ ~(j <= i - 1)
        BY <1>1, <3>2
      <4>2. (front \o back)[j] = back[m]
        BY <1>2, <2>1, <2>2, <4>1
      <4> HIDE DEF m
      <4>3. back[m] = q[j + 1]
        BY <1>3, <4>1
      <4> QED
        BY <3>2, <4>2, <4>3
    <3> QED
      BY <3>1, <3>2
  <2> QED
    BY <2>1, <2>2, <2>3
<1> QED
  BY <1>4 DEF RemoveAt, front, back

\* A bottle that is left was there before, and all but one are.
LEMMA LeftAre ==
  ASSUME NEW q \in Seq(Bottle), NEW i \in DOMAIN q
  PROVE  /\ \A j \in DOMAIN RemoveAt(q, i) :
              \E k \in DOMAIN q : k # i /\ k = (IF j < i THEN j ELSE j + 1)
                                  /\ RemoveAt(q, i)[j] = q[k]
         /\ \A k \in DOMAIN q : k # i =>
              \E j \in DOMAIN RemoveAt(q, i) : RemoveAt(q, i)[j] = q[k]
<1>1. /\ RemoveAt(q, i) \in Seq(Bottle) /\ Len(RemoveAt(q, i)) = Len(q) - 1
      /\ \A j \in 1..(Len(q) - 1) :
           RemoveAt(q, i)[j] = IF j < i THEN q[j] ELSE q[j + 1]
  BY RemoveAtProperties
<1>2. /\ DOMAIN RemoveAt(q, i) = 1..(Len(q) - 1) /\ Len(q) \in Nat
      /\ DOMAIN q = 1..Len(q) /\ i \in 1..Len(q)
  BY <1>1
<1>3. ASSUME NEW j \in DOMAIN RemoveAt(q, i)
      PROVE  \E k \in DOMAIN q : k # i /\ k = (IF j < i THEN j ELSE j + 1)
                                 /\ RemoveAt(q, i)[j] = q[k]
  BY <1>1, <1>2
<1>4. ASSUME NEW k \in DOMAIN q, k # i
      PROVE  \E j \in DOMAIN RemoveAt(q, i) : RemoveAt(q, i)[j] = q[k]
  <2>1. CASE k < i
    BY <1>1, <1>2, <1>4, <2>1
  <2>2. CASE k > i
    <3>1. k - 1 \in 1..(Len(q) - 1) /\ ~(k - 1 < i) /\ (k - 1) + 1 = k
      BY <1>2, <2>2
    <3> QED
      BY <1>1, <1>2, <3>1
  <2> QED
    BY <1>2, <1>4, <2>1, <2>2
<1> QED
  BY <1>3, <1>4

-----------------------------------------------------------------------------
(* The steps.                                                              *)

LEMMA Initial == Init => IInv
<1> SUFFICES ASSUME Init PROVE IInv
  OBVIOUS
<1>1. 1 \in Ids /\ MaxBottles + 1 \in Nat /\ MaxBottles \in Nat
  BY BottleStoreAssumption DEF Ids
<1>2. Installed(1) \in Bottle /\ Installed(1).id = 1 /\ Installed(1).state = "ready"
  BY <1>1 DEF Installed, New, Bottle
<1>3. Typed
  <2>1. CASE disk = <<>>
    <3>1. bottles \in Seq(Bottle) /\ nextId = 1
      BY <2>1 DEF Init
    <3> QED
      BY <1>1, <3>1 DEF Init, Typed
  <2>2. ASSUME NEW b \in Bottle, disk = <<b>>
        PROVE  Typed
    <3>1. bottles \in Seq(Bottle) /\ nextId = 2
      BY <2>2 DEF Init
    <3>2. 2 \in 1..(MaxBottles + 1)
      BY <1>1 DEF Ids
    <3> QED
      BY <3>1, <3>2 DEF Init, Typed
  <2> QED
    BY <1>2, <2>1, <2>2 DEF Init
<1>4. Fresh
  BY <1>1, <1>2 DEF Init, Fresh
<1>5. Counted
  BY BottleStoreAssumption DEF Init, Counted
<1>6. SelectedIsListed
  BY DEF Init, SelectedIsListed
<1>7. RunningIsLive
  BY <1>2 DEF Init, RunningIsLive
<1> QED
  BY <1>3, <1>4, <1>5, <1>6, <1>7 DEF IInv

LEMMA ItemType ==
  ASSUME IInv, NEW i \in DOMAIN bottles
  PROVE  bottles[i] \in Bottle /\ bottles[i].id \in Ids
<1>1. bottles \in Seq(Bottle)
  BY DEF IInv, Typed
<1>2. bottles[i] \in Bottle
  BY <1>1
<1> QED
  BY <1>2 DEF Bottle

LEMMA CreateKeeps ==
  ASSUME IInv, CreateBottle
  PROVE  IInv'
<1>1. /\ bottles \in Seq(Bottle) /\ nextId \in Ids /\ nextId' = nextId + 1
      /\ MaxBottles \in Nat
  BY BottleStoreAssumption DEF IInv, Typed, CreateBottle
<1>2. New(nextId) \in Bottle /\ New(nextId).id = nextId /\ New(nextId).state = "created"
  BY <1>1 DEF New, Bottle
<1>3. /\ bottles' \in Seq(Bottle) /\ Len(bottles') = Len(bottles) + 1
      /\ DOMAIN bottles = 1..Len(bottles) /\ DOMAIN bottles' = 1..(Len(bottles) + 1)
      /\ \A i \in DOMAIN bottles : bottles'[i] = bottles[i]
      /\ bottles'[Len(bottles) + 1] = New(nextId) /\ Len(bottles) \in Nat
  BY <1>1, <1>2 DEF CreateBottle
<1>4. \A i \in DOMAIN bottles' : i \in DOMAIN bottles \/ i = Len(bottles) + 1
  BY <1>3
<1>5. Typed'
  BY <1>1, <1>3 DEF IInv, Typed, CreateBottle, Save, Ids
<1>6. Fresh'
  <2>1. \A i \in DOMAIN bottles : bottles[i].id \in Int /\ bottles[i].id < nextId
    BY ItemType DEF IInv, Fresh, Ids
  <2>2. \A i \in DOMAIN bottles' : bottles'[i].id < nextId'
    BY <1>1, <1>2, <1>3, <1>4, <2>1 DEF Ids
  <2>3. \A i, j \in DOMAIN bottles' : bottles'[i].id = bottles'[j].id => i = j
    <3>1. \A i \in DOMAIN bottles : bottles'[i].id # nextId
      BY <1>1, <1>3, <2>1 DEF Ids
    <3> QED
      BY <1>2, <1>3, <1>4, <3>1 DEF IInv, Fresh
  <2> QED
    BY <2>2, <2>3 DEF Fresh
<1>7. Counted'
  BY DEF IInv, Counted, CreateBottle
<1>8. SelectedIsListed'
  <2>1. Len(bottles) + 1 \in DOMAIN bottles' /\ selected' = bottles'[Len(bottles) + 1].id
    BY <1>2, <1>3 DEF CreateBottle
  <2> QED
    BY <2>1 DEF SelectedIsListed, Listed
<1>9. RunningIsLive'
  <2>1. \A i \in DOMAIN bottles' : bottles'[i].state = "running" =>
          i \in DOMAIN bottles /\ bottles'[i] = bottles[i]
    BY <1>2, <1>3, <1>4
  <2>2. UNCHANGED <<task, found>>
    BY DEF CreateBottle
  <2> QED
    BY <2>1, <2>2 DEF IInv, RunningIsLive
<1> QED
  BY <1>5, <1>6, <1>7, <1>8, <1>9 DEF IInv

LEMMA DeleteKeeps ==
  ASSUME IInv, Delete
  PROVE  IInv'
<1>1. PICK i \in DOMAIN bottles :
        /\ bottles' = RemoveAt(bottles, i)
        /\ Reselect(bottles[i].id, RemoveAt(bottles, i))
        /\ Save /\ UNCHANGED <<nextId, task, calls, crashes, found>>
  BY DEF Delete
<1>2. bottles \in Seq(Bottle) /\ bottles' \in Seq(Bottle)
  BY <1>1, RemoveAtProperties DEF IInv, Typed
<1>3. \A j \in DOMAIN bottles' :
        \E k \in DOMAIN bottles : k # i /\ k = (IF j < i THEN j ELSE j + 1)
                                  /\ bottles'[j] = bottles[k]
  BY <1>1, <1>2, LeftAre
<1>4. \A k \in DOMAIN bottles : k # i => \E j \in DOMAIN bottles' : bottles'[j] = bottles[k]
  BY <1>1, <1>2, LeftAre
<1>5. Typed'
  BY <1>1, <1>2 DEF IInv, Typed, Save
<1>6. Fresh'
  <2>1. \A j \in DOMAIN bottles' : bottles'[j].id < nextId'
    BY <1>1, <1>3 DEF IInv, Fresh
  <2>2. ASSUME NEW j \in DOMAIN bottles', NEW l \in DOMAIN bottles',
               bottles'[j].id = bottles'[l].id
        PROVE  j = l
    <3>1. j \in Int /\ l \in Int /\ i \in Int
      BY <1>2
    <3>2. (IF j < i THEN j ELSE j + 1) = (IF l < i THEN l ELSE l + 1)
      BY <1>3, <2>2 DEF IInv, Fresh
    <3> QED
      BY <3>1, <3>2
  <2> QED
    BY <2>1, <2>2 DEF Fresh
<1>7. Counted'
  BY <1>1 DEF IInv, Counted
<1>8. SelectedIsListed'
  <2>1. CASE selected # bottles[i].id
    BY <1>1, <1>4, <2>1 DEF IInv, SelectedIsListed, Listed, Reselect
  <2>2. CASE selected = bottles[i].id /\ bottles' = <<>>
    BY <1>1, <2>2 DEF SelectedIsListed, Reselect
  <2>3. CASE selected = bottles[i].id /\ bottles' # <<>>
    <3>1. 1 \in DOMAIN bottles' /\ selected' = bottles'[1].id
      BY <1>1, <1>2, <2>3 DEF Reselect
    <3> QED
      BY <3>1 DEF SelectedIsListed, Listed
  <2> QED
    BY <2>1, <2>2, <2>3
<1>9. RunningIsLive'
  BY <1>1, <1>3 DEF IInv, RunningIsLive
<1> QED
  BY <1>5, <1>6, <1>7, <1>8, <1>9 DEF IInv

\* update puts the bottle wherever its identifier is, and moves nothing.
LEMMA UpdateStep ==
  ASSUME IInv, NEW b \in Bottle, Update(b)
  PROVE  /\ bottles' \in Seq(Bottle) /\ disk' = bottles' /\ Len(bottles') = Len(bottles)
         /\ DOMAIN bottles' = DOMAIN bottles
         /\ \A i \in DOMAIN bottles :
              /\ bottles'[i].id = bottles[i].id
              /\ bottles'[i] = IF bottles[i].id = b.id THEN b ELSE bottles[i]
<1>1. /\ bottles \in [1..Len(bottles) -> Bottle] /\ Len(bottles) \in Nat
      /\ DOMAIN bottles = 1..Len(bottles)
  BY LenProperties DEF IInv, Typed
<1>2. /\ bottles' = [i \in 1..Len(bottles) |-> IF bottles[i].id = b.id THEN b ELSE bottles[i]]
      /\ disk' = bottles'
  BY <1>1 DEF Update, Save
<1>3. bottles' \in [1..Len(bottles) -> Bottle]
  BY <1>1, <1>2
<1>4. bottles' \in Seq(Bottle)
  BY <1>1, <1>3, SeqDef
<1>5. DOMAIN bottles' = 1..Len(bottles) /\ DOMAIN bottles' = 1..Len(bottles')
  BY <1>3, <1>4, LenProperties
<1>6. Len(bottles') = Len(bottles)
  BY <1>1, <1>4, <1>5
<1> QED
  BY <1>1, <1>2, <1>4, <1>5, <1>6

LEMMA EditStep ==
  ASSUME IInv, NEW b \in Bottle, Update(b), task' \in [Tasks -> Call \cup {Idle}],
         RunningIsLive', UNCHANGED <<selected, nextId, calls, crashes, found>>
  PROVE  IInv'
<1>1. /\ bottles' \in Seq(Bottle) /\ disk' = bottles'
      /\ DOMAIN bottles' = DOMAIN bottles
      /\ \A i \in DOMAIN bottles : bottles'[i].id = bottles[i].id
  BY UpdateStep
<1>2. Typed'
  BY <1>1 DEF IInv, Typed
<1>3. Fresh'
  BY <1>1 DEF IInv, Fresh
<1>4. Counted'
  BY DEF IInv, Counted
<1>5. SelectedIsListed'
  BY <1>1 DEF IInv, SelectedIsListed, Listed
<1> QED
  BY <1>2, <1>3, <1>4, <1>5 DEF IInv

\* A call that is under way has a bottle.
LEMMA CallType ==
  ASSUME IInv, NEW t \in Tasks, task[t].at # "idle"
  PROVE  task[t] \in Call /\ task[t].bottle \in Bottle
BY DEF IInv, Typed, Idle, Call

LEMMA RunBeginKeeps ==
  ASSUME IInv, NEW t \in Tasks, RunBegin(t)
  PROVE  IInv'
<1> DEFINE b == Running(task[t].bottle)
<1>1. /\ task[t].at = "run" /\ Update(b) /\ task' = [task EXCEPT ![t].at = "starting"]
      /\ UNCHANGED <<selected, nextId, calls, crashes, found>>
  BY DEF RunBegin
<1>2. task[t] \in Call /\ task[t].bottle \in Bottle /\ task \in [Tasks -> Call \cup {Idle}]
  BY <1>1, CallType DEF IInv, Typed
<1>3. b \in Bottle /\ b.id = task[t].bottle.id
  BY <1>2 DEF Running, Bottle
<1>4. /\ task' \in [Tasks -> Call \cup {Idle}]
      /\ task'[t].at = "starting" /\ task'[t].bottle = task[t].bottle
      /\ \A u \in Tasks \ {t} : task'[u] = task[u]
  BY <1>1, <1>2 DEF Call
<1> HIDE DEF b
<1>5. RunningIsLive'
  <2> SUFFICES ASSUME NEW i \in DOMAIN bottles', bottles'[i].state = "running"
               PROVE  \/ \E u \in Tasks : task'[u].at = "starting"
                                         /\ task'[u].bottle.id = bottles'[i].id
                      \/ bottles'[i].id \in found'
    BY DEF RunningIsLive
  <2>1. /\ i \in DOMAIN bottles /\ bottles'[i].id = bottles[i].id
        /\ bottles'[i] = IF bottles[i].id = b.id THEN b ELSE bottles[i]
    BY <1>1, <1>3, UpdateStep
  <2>2. CASE bottles[i].id = b.id
    BY <1>3, <1>4, <2>1, <2>2
  <2>3. CASE bottles[i].id # b.id
    <3>1. \/ \E u \in Tasks : task[u].at = "starting" /\ task[u].bottle.id = bottles[i].id
          \/ bottles[i].id \in found
      BY <2>1, <2>3 DEF IInv, RunningIsLive
    <3> QED
      BY <1>1, <1>4, <2>1, <3>1
  <2> QED
    BY <2>2, <2>3
<1> QED
  BY <1>1, <1>3, <1>4, <1>5, EditStep

\* A call ends with its bottle at rest or broken.
LEMMA EndStep ==
  ASSUME IInv, NEW t \in Tasks, task[t].at # "idle", NEW b \in Bottle, Update(b),
         b.id = task[t].bottle.id, b.state # "running", task' = [task EXCEPT ![t] = Idle],
         UNCHANGED <<selected, nextId, calls, crashes, found>>
  PROVE  IInv'
<1>1. task \in [Tasks -> Call \cup {Idle}]
  BY DEF IInv, Typed
<1>2. /\ task' \in [Tasks -> Call \cup {Idle}]
      /\ \A u \in Tasks \ {t} : task'[u] = task[u]
  BY <1>1
<1>3. RunningIsLive'
  <2> SUFFICES ASSUME NEW i \in DOMAIN bottles', bottles'[i].state = "running"
               PROVE  \/ \E u \in Tasks : task'[u].at = "starting"
                                         /\ task'[u].bottle.id = bottles'[i].id
                      \/ bottles'[i].id \in found'
    BY DEF RunningIsLive
  <2>1. /\ i \in DOMAIN bottles /\ bottles'[i] = bottles[i] /\ bottles[i].id # b.id
    BY UpdateStep
  <2>2. \/ \E u \in Tasks : task[u].at = "starting" /\ task[u].bottle.id = bottles[i].id
        \/ bottles[i].id \in found
    BY <2>1 DEF IInv, RunningIsLive
  <2> QED
    BY <1>2, <2>1, <2>2
<1> QED
  BY <1>2, <1>3, EditStep

LEMMA RestType ==
  ASSUME NEW b \in Bottle
  PROVE  Rest(b) \in {"created", "ready"}
BY DEF Rest

LEMMA RunEndKeeps ==
  ASSUME IInv, NEW t \in Tasks, RunEnd(t)
  PROVE  IInv'
<1>1. /\ task[t].at = "starting" /\ task' = [task EXCEPT ![t] = Idle]
      /\ UNCHANGED <<selected, nextId, calls, crashes, found>>
  BY DEF RunEnd
<1>2. task[t].bottle \in Bottle
  BY <1>1, CallType
<1>3. CASE Update(Broken(task[t].bottle))
  <2>1. /\ Broken(task[t].bottle) \in Bottle
        /\ Broken(task[t].bottle).id = task[t].bottle.id
        /\ Broken(task[t].bottle).state # "running"
    BY <1>2 DEF Broken, Bottle
  <2> QED
    BY <1>1, <1>3, <2>1, EndStep
<1>4. CASE Update([task[t].bottle EXCEPT !.state = Rest(task[t].bottle), !.lastError = FALSE])
  <2> DEFINE b == [task[t].bottle EXCEPT !.state = Rest(task[t].bottle), !.lastError = FALSE]
  <2>1. b \in Bottle /\ b.id = task[t].bottle.id /\ b.state # "running"
    BY <1>2, RestType DEF Bottle
  <2> QED
    BY <1>1, <1>4, <2>1, EndStep
<1> QED
  BY <1>3, <1>4 DEF RunEnd

LEMMA StopEndKeeps ==
  ASSUME IInv, NEW t \in Tasks, StopEnd(t)
  PROVE  IInv'
<1> DEFINE b == [task[t].bottle EXCEPT !.state = Rest(task[t].bottle)]
<1>1. /\ task[t].at = "stopping" /\ Update(b) /\ task' = [task EXCEPT ![t] = Idle]
      /\ UNCHANGED <<selected, nextId, calls, crashes, found>>
  BY DEF StopEnd
<1>2. task[t].bottle \in Bottle
  BY <1>1, CallType
<1>3. b \in Bottle /\ b.id = task[t].bottle.id /\ b.state # "running"
  BY <1>2, RestType DEF Bottle
<1> QED
  BY <1>1, <1>3, EndStep

\* The end of the app: what it reads again is what it had.
LEMMA RelaunchKeeps ==
  ASSUME IInv, Relaunch
  PROVE  IInv'
<1>1. /\ bottles' = bottles /\ disk' = disk /\ selected' = 0 /\ crashes < MaxCrashes
      /\ task' = [t \in Tasks |-> Idle] /\ crashes' = crashes + 1
      /\ found' = {bottles[i].id : i \in {j \in DOMAIN bottles : bottles[j].state = "running"}}
      /\ UNCHANGED <<nextId, calls>>
  BY DEF IInv, Typed, Relaunch
<1>2. Typed' /\ Fresh'
  BY <1>1 DEF IInv, Typed, Fresh
<1>3. Counted'
  <2>1. \A i \in DOMAIN bottles : bottles[i] \in Bottle /\ bottles[i].id \in Ids
    BY ItemType
  <2>2. found' \subseteq Ids
    BY <1>1, <2>1
  <2> QED
    BY <1>1, <2>2, BottleStoreAssumption DEF IInv, Counted
<1>4. SelectedIsListed' /\ RunningIsLive'
  BY <1>1 DEF SelectedIsListed, RunningIsLive
<1> QED
  BY <1>2, <1>3, <1>4 DEF IInv

\* The steps that leave the list and the index alone.
LEMMA TapKeeps ==
  ASSUME IInv, NEW t \in Tasks, Tap(t)
  PROVE  IInv'
<1>1. PICK i \in DOMAIN bottles, at \in {"run", "stop"} :
        task' = [task EXCEPT ![t] = [at |-> at, bottle |-> bottles[i]]]
  BY DEF Tap
<1>2. /\ task[t] = Idle /\ calls < MaxCalls /\ calls' = calls + 1
      /\ UNCHANGED <<bottles, selected, disk, nextId, crashes, found>>
  BY DEF Tap
<1>3. [at |-> at, bottle |-> bottles[i]] \in Call /\ task \in [Tasks -> Call \cup {Idle}]
  BY DEF IInv, Typed, Call
<1>4. Typed' /\ Fresh' /\ Counted' /\ SelectedIsListed'
  BY <1>1, <1>2, <1>3, BottleStoreAssumption
  DEF IInv, Typed, Fresh, Counted, SelectedIsListed, Listed
<1>5. \A u \in Tasks : task[u].at = "starting" => task'[u] = task[u]
  BY <1>1, <1>2, <1>3 DEF Idle
<1>6. RunningIsLive'
  BY <1>2, <1>5 DEF IInv, RunningIsLive
<1> QED
  BY <1>4, <1>6 DEF IInv

LEMMA StopBeginKeeps ==
  ASSUME IInv, NEW t \in Tasks, StopBegin(t)
  PROVE  IInv'
<1>1. /\ task[t].at = "stop" /\ task' = [task EXCEPT ![t].at = "stopping"]
      /\ UNCHANGED <<bottles, selected, disk, nextId, calls, crashes, found>>
  BY DEF StopBegin
<1>2. task[t] \in Call /\ task \in [Tasks -> Call \cup {Idle}]
  BY <1>1, CallType DEF IInv, Typed
<1>3. task' \in [Tasks -> Call \cup {Idle}] /\ \A u \in Tasks \ {t} : task'[u] = task[u]
  BY <1>1, <1>2 DEF Call
<1>4. Typed' /\ Fresh' /\ Counted' /\ SelectedIsListed'
  BY <1>1, <1>3 DEF IInv, Typed, Fresh, Counted, SelectedIsListed, Listed
<1>5. \A u \in Tasks : task[u].at = "starting" => task'[u] = task[u]
  BY <1>1, <1>3
<1>6. RunningIsLive'
  BY <1>1, <1>5 DEF IInv, RunningIsLive
<1> QED
  BY <1>4, <1>6 DEF IInv

LEMMA SelectKeeps ==
  ASSUME IInv, Select
  PROVE  IInv'
BY DEF IInv, Select, Typed, Fresh, Counted, SelectedIsListed, Listed, RunningIsLive

LEMMA Kept == IInv /\ [Next]_vars => IInv'
<1> SUFFICES ASSUME IInv, [Next]_vars PROVE IInv'
  OBVIOUS
<1>1. CASE \E t \in Tasks : Tap(t) \/ RunBegin(t) \/ StopBegin(t) \/ RunEnd(t) \/ StopEnd(t)
  BY <1>1, TapKeeps, RunBeginKeeps, StopBeginKeeps, RunEndKeeps, StopEndKeeps
<1>2. CASE UNCHANGED vars
  BY <1>2 DEF vars, IInv, Typed, Fresh, Counted, SelectedIsListed, Listed, RunningIsLive
<1> QED
  BY <1>1, <1>2, CreateKeeps, DeleteKeeps, SelectKeeps, RelaunchKeeps DEF Next

LEMMA Invariant == Spec => []IInv
<1>1. Init => IInv
  BY Initial
<1>2. IInv /\ [Next]_vars => IInv'
  BY Kept
<1> QED
  BY <1>1, <1>2, PTL DEF Spec

-----------------------------------------------------------------------------
(* Every reachable state is typed, and no two bottles have one identifier. *)
THEOREM TypeCorrect == Spec => []TypeOK
<1>1. IInv => TypeOK
  <2> SUFFICES ASSUME IInv PROVE TypeOK
    OBVIOUS
  <2>1. bottles \in Seq(Bottle) /\ disk \in Seq(Bottle)
    BY DEF IInv, Typed
  <2>2. \A i, j \in DOMAIN bottles : bottles[i].id = bottles[j].id => i = j
    BY DEF IInv, Fresh
  <2>3. \A i \in DOMAIN bottles : bottles[i] \in Bottle /\ bottles[i].id \in Ids
    BY ItemType
  <2>4. selected \in Ids \cup {0}
    BY <2>3 DEF IInv, SelectedIsListed, Listed
  <2> QED
    BY <2>1, <2>2, <2>4 DEF IInv, Typed, Counted, TypeOK, Call
<1> QED
  BY <1>1, Invariant, PTL

(* The views find what is selected, whatever is deleted meanwhile.         *)
THEOREM SelectedIsListedAlways == Spec => []SelectedIsListed
<1>1. IInv => SelectedIsListed
  BY DEF IInv
<1> QED
  BY <1>1, Invariant, PTL

(* A bottle is shown as running only while a call of run starts it, or if  *)
(* the app ended in such a call and the index still says so.               *)
THEOREM RunningIsLiveAlways == Spec => []RunningIsLive
<1>1. IInv => RunningIsLive
  BY DEF IInv
<1> QED
  BY <1>1, Invariant, PTL

(* Only createBottle and delete change which bottles are listed: neither a *)
(* call that ends late nor the end of the app does.                        *)
THEOREM ListChangesOnRequestAlways == Spec => ListChangesOnRequest
<1> DEFINE Same == /\ Len(bottles') = Len(bottles)
                   /\ \A i \in DOMAIN bottles : bottles'[i].id = bottles[i].id
<1>1. ASSUME IInv, [Next]_vars
      PROVE  [CreateBottle \/ Delete \/ Same]_vars
  <2>1. ASSUME NEW b \in Bottle, Update(b)
        PROVE  Same
    BY <1>1, <2>1, UpdateStep
  <2>2. ASSUME NEW t \in Tasks, RunBegin(t) \/ RunEnd(t) \/ StopEnd(t)
        PROVE  Same
    <3>1. task[t].bottle \in Bottle
      BY <1>1, <2>2, CallType DEF RunBegin, RunEnd, StopEnd
    <3>2. Rest(task[t].bottle) \in {"created", "ready"}
      BY <3>1, RestType
    <3>3. /\ Running(task[t].bottle) \in Bottle /\ Broken(task[t].bottle) \in Bottle
          /\ [task[t].bottle EXCEPT !.state = Rest(task[t].bottle), !.lastError = FALSE]
               \in Bottle
          /\ [task[t].bottle EXCEPT !.state = Rest(task[t].bottle)] \in Bottle
      BY <3>1, <3>2 DEF Running, Broken, Bottle
    <3> QED
      BY <2>1, <2>2, <3>3 DEF RunBegin, RunEnd, StopEnd
  <2>3. CASE Select \/ \E t \in Tasks : Tap(t) \/ StopBegin(t)
    BY <2>3 DEF Select, Tap, StopBegin
  <2>4. CASE Relaunch
    BY <1>1, <2>4 DEF Relaunch, IInv, Typed
  <2> QED
    BY <1>1, <2>2, <2>3, <2>4 DEF Next
<1> QED
  BY <1>1, Invariant, PTL DEF Spec, ListChangesOnRequest
=============================================================================
