----------------------------- MODULE PProcProofs -----------------------------
(* Theorems about PProc, for every value of its constants.                 *)
EXTENDS PProc, FiniteSetTheorems, TLAPS

-----------------------------------------------------------------------------
(* Type correctness.  TypeOK alone is not inductive: a waiting thread must *)
(* hold a slot, and a thread inside pproc_thread_create or draining must   *)
(* have a process, or the table would be read outside its domain.          *)
TInv ==
  /\ TypeOK
  /\ \A t \in Threads : pc[t] \in Waiting => wait[t].slot \in Slots
  /\ \A t \in Threads : pc[t] \in Draining \cup {"create"} => proc[t] \in Slots

LEMMA TypeInit == Init => TInv
<1> SUFFICES ASSUME Init PROVE TInv
  OBVIOUS
<1>1. 1 % PidMod \in Pids /\ 0 \in Pids
  BY PProcAssumption, Z3 DEF Pids
<1>2. TypeOK
  BY <1>1, PProcAssumption
     DEF Init, TypeOK, Slots, Slot, States, FreeSlot, PCs, Waiting, Draining,
         Ended, NoWait, NoRet
<1>3. \A t \in Threads : pc[t] \notin Waiting \cup Draining \cup {"create"}
  BY DEF Init, Waiting, Draining
<1>4. QED
  BY <1>2, <1>3 DEF TInv

(* The waking of sleepers only moves threads between program points.       *)
LEMMA WakeType ==
  ASSUME NEW s, NEW f \in [Threads -> PCs]
  PROVE  /\ WakeAuxDone(s, f) \in [Threads -> PCs]
         /\ WakeStateChanged(f) \in [Threads -> PCs]
         /\ \A t \in Threads : WakeAuxDone(s, f)[t] # f[t] =>
              /\ f[t] = "aux_done" /\ proc[t] = s
              /\ WakeAuxDone(s, f)[t] = "recheck_aux"
         /\ \A t \in Threads : WakeStateChanged(f)[t] # f[t] =>
              /\ f[t] = "state_changed"
              /\ WakeStateChanged(f)[t] = "recheck_state"
BY DEF WakeAuxDone, WakeStateChanged, PCs, Waiting, Draining, Ended

(* The slot value after an exit request, and what the epilogue of the main *)
(* thread does to the typed state.                                         *)
LEMMA RequestedType ==
  ASSUME NEW p \in Slot, NEW c \in Int
  PROVE  Requested(p, c) \in Slot
BY DEF Requested, Slot

LEMMA MainDrainType ==
  ASSUME TInv, NEW t \in Threads, proc[t] \in Slots, NEW p \in Slot,
         MainDrain(t, p), UNCHANGED <<proc, wait>>, pc[t] \notin Waiting
  PROVE  /\ table' \in [Slots -> Slot]
         /\ pc' \in [Threads -> PCs]
         /\ \A u \in Threads : pc'[u] \in Waiting => wait'[u].slot \in Slots
         /\ \A u \in Threads : pc'[u] \in Draining \cup {"create"} => proc'[u] \in Slots
<1> DEFINE z == [pc EXCEPT ![t] = "zombie"]
<1>1. table \in [Slots -> Slot] /\ pc \in [Threads -> PCs]
  BY DEF TInv, TypeOK
<1>2. CASE p.aux > 0
  BY <1>1, <1>2 DEF MainDrain, TInv, PCs, Waiting, Draining, Ended
<1>3. CASE ~(p.aux > 0)
  <2>1. table' = [table EXCEPT ![proc[t]] = [p EXCEPT !.state = "exited"]]
    BY <1>3 DEF MainDrain
  <2>2. pc' = WakeStateChanged(z)
    BY <1>3 DEF MainDrain
  <2>3. z \in [Threads -> PCs]
    BY <1>1 DEF PCs, Ended
  <2>4. table' \in [Slots -> Slot]
    BY <2>1, <1>1 DEF Slot, States
  <2>5. pc' \in [Threads -> PCs]
    BY <2>2, <2>3, WakeType
  <2>6. \A u \in Threads : pc'[u] \in Waiting => pc[u] \in Waiting
    BY <2>2, <1>1 DEF WakeStateChanged, Waiting
  <2>7. \A u \in Threads : pc'[u] \in Draining \cup {"create"} =>
                             pc[u] \in Draining \cup {"create"}
    BY <2>2, <1>1 DEF WakeStateChanged, Draining
  <2> QED
    BY <2>4, <2>5, <2>6, <2>7 DEF TInv
<1> QED
  BY <1>2, <1>3

LEMMA DropAuxType ==
  ASSUME TInv, NEW t \in Threads, proc[t] \in Slots, NEW next \in {"user", "none"},
         DropAux(t, next), wait' = wait,
         \A u \in Threads \ {t} : proc'[u] = proc[u]
  PROVE  /\ table' \in [Slots -> Slot]
         /\ pc' \in [Threads -> PCs]
         /\ \A u \in Threads : pc'[u] \in Waiting => wait'[u].slot \in Slots
         /\ \A u \in Threads : pc'[u] \in Draining \cup {"create"} => proc'[u] \in Slots
<1> DEFINE moved == [pc EXCEPT ![t] = next]
<1>1. table \in [Slots -> Slot] /\ pc \in [Threads -> PCs]
  BY DEF TInv, TypeOK
<1>2. moved \in [Threads -> PCs]
  BY <1>1 DEF PCs, Ended
<1>3. pc' = WakeAuxDone(proc[t], moved) \/ pc' = moved
  BY DEF DropAux
<1>4. table' = [table EXCEPT ![proc[t]].aux = @ - 1]
  BY DEF DropAux
<1>5. table' \in [Slots -> Slot]
  BY <1>4, <1>1 DEF Slot
<1>6. pc' \in [Threads -> PCs]
  <2> HIDE DEF moved
  <2>1. WakeAuxDone(proc[t], moved) \in [Threads -> PCs]
    BY <1>2, WakeType
  <2> QED
    BY <1>2, <1>3, <2>1
<1>7. \A u \in Threads : pc'[u] \in Waiting => pc[u] \in Waiting
  BY <1>1, <1>3 DEF WakeAuxDone, Waiting
<1>8. \A u \in Threads : pc'[u] \in Draining \cup {"create"} =>
                           u # t /\ pc[u] \in Draining \cup {"create"}
  BY <1>1, <1>3 DEF WakeAuxDone, Draining
<1> QED
  BY <1>5, <1>6, <1>7, <1>8 DEF TInv

LEMMA AwaitExitType ==
  ASSUME TInv, NEW t \in Threads, NEW w, w.slot \in Slots,
         w \in [pid : Pids \cup {NoPid}, slot : Slots \cup {NoSlot},
                main : Threads \cup {NoThread}],
         AwaitExit(t, w), UNCHANGED <<table, proc>>
  PROVE  /\ pc' \in [Threads -> PCs]
         /\ wait' \in [Threads -> [pid : Pids \cup {NoPid}, slot : Slots \cup {NoSlot},
                                   main : Threads \cup {NoThread}]]
         /\ \A u \in Threads : pc'[u] \in Waiting => wait'[u].slot \in Slots
         /\ \A u \in Threads : pc'[u] \in Draining \cup {"create"} => proc'[u] \in Slots
<1>1. table[w.slot] \in Slot /\ pc \in [Threads -> PCs]
  BY DEF TInv, TypeOK
<1>2. [w EXCEPT !.main = table[w.slot].main]
        \in [pid : Pids \cup {NoPid}, slot : Slots \cup {NoSlot},
             main : Threads \cup {NoThread}]
  BY <1>1 DEF Slot
<1>3. PICK v \in [pid : Pids \cup {NoPid}, slot : Slots \cup {NoSlot},
                  main : Threads \cup {NoThread}] :
        /\ wait' = [wait EXCEPT ![t] = v]
        /\ v.slot = w.slot
  BY <1>2 DEF AwaitExit
<1>4. pc' = [pc EXCEPT ![t] = "state_changed"] \/ pc' = [pc EXCEPT ![t] = "join"]
  BY DEF AwaitExit
<1>5. pc' \in [Threads -> PCs]
  BY <1>1, <1>4 DEF PCs, Waiting
<1>6. wait' \in [Threads -> [pid : Pids \cup {NoPid}, slot : Slots \cup {NoSlot},
                             main : Threads \cup {NoThread}]]
  BY <1>3 DEF TInv, TypeOK
<1>7. \A u \in Threads : pc'[u] \in Waiting => wait'[u].slot \in Slots
  BY <1>1, <1>3, <1>4 DEF TInv, TypeOK, Waiting
<1>8. \A u \in Threads : pc'[u] \in Draining \cup {"create"} => proc'[u] \in Slots
  BY <1>1, <1>4 DEF TInv, Draining
<1> QED
  BY <1>5, <1>6, <1>7, <1>8

LEMMA TypeStep == TInv /\ [Next]_vars => TInv'
<1> SUFFICES ASSUME TInv, [Next]_vars PROVE TInv'
  OBVIOUS
<1> USE DEF Silent
<1>0. /\ table \in [Slots -> Slot] /\ pc \in [Threads -> PCs]
      /\ proc \in [Threads -> Slots \cup {NoSlot}]
      /\ NoSlot \notin Slots
      /\ FreeSlot \in Slot
      /\ NoRet \in [thread : Threads \cup {NoThread}, pid : Pids \cup {NoPid}, code : Int]
  <2>1. 0 \in Pids
    BY PProcAssumption, Z3 DEF Pids
  <2> QED
    BY <2>1 DEF TInv, TypeOK, Slots, NoSlot, NoRet, FreeSlot, Slot, States
<1>pid. /\ nextPid \in Pids /\ NextPid \in Pids /\ 0 \in Pids
        /\ spawned < MaxSpawns => spawned + 1 \in 0..MaxSpawns
  <2>1. nextPid \in 0..(PidMod - 1) /\ spawned \in 0..MaxSpawns
    BY DEF TInv, TypeOK, Pids
  <2> QED
    BY <2>1, PProcAssumption, Z3 DEF Pids, NextPid
<1>u. CASE UNCHANGED vars
  BY <1>u DEF vars, TInv, TypeOK
<1>t. SUFFICES ASSUME NEW t \in Threads,
        \/ \E u \in Threads : Spawn(t, u) \/ CreateDone(t, u)
        \/ SpawnFails(t)
        \/ CreateBegin(t)
        \/ CreateFails(t)
        \/ AuxReturn(t)
        \/ \E c \in Codes : MainReturn(t, c) \/ PprocExit(t, c)
        \/ DrainRecheck(t)
        \/ \E q \in Pids : Wait(t, q)
        \/ WaitRecheck(t)
        \/ Join(t)
        \/ Reap(t)
        \/ Spurious(t)
      PROVE TInv'
  BY <1>u DEF Next
<1>1. ASSUME NEW u \in Threads, Spawn(t, u) PROVE TInv'
  <2>1. PICK s \in Slots :
          /\ table' = [table EXCEPT ![s] =
               [state |-> "running", pid |-> nextPid, main |-> u,
                code |-> -1, requested |-> FALSE, aux |-> 0]]
          /\ proc' = [proc EXCEPT ![u] = s]
    BY <1>1 DEF Spawn
  <2>2. table' \in [Slots -> Slot] /\ proc' \in [Threads -> Slots \cup {NoSlot}]
    BY <2>1, <1>0, <1>pid DEF Slot, States
  <2>3. TypeOK'
    BY <2>2, <1>1, <1>0, <1>pid DEF Spawn, TInv, TypeOK, PCs
  <2>4. /\ \A v \in Threads : pc'[v] \in Waiting => wait'[v].slot \in Slots
        /\ \A v \in Threads : pc'[v] \in Draining \cup {"create"} => proc'[v] \in Slots
    BY <1>1, <2>1, <1>0 DEF Spawn, TInv, Waiting, Draining
  <2> QED
    BY <2>3, <2>4 DEF TInv
<1>2. ASSUME NEW u \in Threads, CreateDone(t, u) PROVE TInv'
  <2>1. proc[t] \in Slots
    BY <1>2 DEF CreateDone, TInv
  <2>2. TypeOK'
    BY <1>2, <1>0, <2>1 DEF CreateDone, TInv, TypeOK, PCs
  <2>3. /\ \A v \in Threads : pc'[v] \in Waiting => wait'[v].slot \in Slots
        /\ \A v \in Threads : pc'[v] \in Draining \cup {"create"} => proc'[v] \in Slots
    BY <1>2, <1>0, <2>1 DEF CreateDone, TInv, Waiting, Draining
  <2> QED
    BY <2>2, <2>3 DEF TInv
<1>3. ASSUME SpawnFails(t) PROVE TInv'
  <2>1. PICK s \in Slots : table' = [table EXCEPT ![s] = FreeSlot]
    BY <1>3 DEF SpawnFails
  <2>2. table' \in [Slots -> Slot]
    BY <2>1, <1>0, <1>pid DEF Slot, States, FreeSlot
  <2> QED
    BY <2>2, <1>3, <1>0, <1>pid DEF SpawnFails, TInv, TypeOK
<1>4. ASSUME CreateBegin(t) PROVE TInv'
  <2>1. proc[t] \in Slots
    BY <1>4, <1>0 DEF CreateBegin
  <2>2. table' \in [Slots -> Slot]
    BY <1>4, <2>1, <1>0 DEF CreateBegin, Slot
  <2>3. TypeOK'
    BY <2>2, <1>4, <1>0 DEF CreateBegin, TInv, TypeOK, PCs
  <2> QED
    BY <2>3, <2>1, <1>4, <1>0 DEF CreateBegin, TInv, Waiting, Draining
<1>5. ASSUME CreateFails(t) PROVE TInv'
  <2>1. proc[t] \in Slots
    BY <1>5 DEF CreateFails, TInv
  <2>2. /\ DropAux(t, "user") /\ wait' = wait /\ proc' = proc
        /\ UNCHANGED <<nextPid, live, spawned>> /\ ret' = NoRet
    BY <1>5 DEF CreateFails
  <2>3. TypeOK'
    BY <2>1, <2>2, <1>0, DropAuxType DEF TInv, TypeOK
  <2> QED
    BY <2>1, <2>2, <2>3, DropAuxType DEF TInv
<1>6. ASSUME AuxReturn(t) PROVE TInv'
  <2>1. proc[t] \in Slots
    BY <1>6, <1>0 DEF AuxReturn, IsAux
  <2>2. /\ DropAux(t, "none") /\ wait' = wait
        /\ proc' = [proc EXCEPT ![t] = NoSlot]
        /\ UNCHANGED <<nextPid, live, spawned>> /\ ret' = NoRet
    BY <1>6 DEF AuxReturn
  <2>3. \A u \in Threads \ {t} : proc'[u] = proc[u]
    BY <2>2, <1>0
  <2>4. TypeOK'
    BY <2>1, <2>2, <2>3, <1>0, DropAuxType DEF TInv, TypeOK
  <2> QED
    BY <2>1, <2>2, <2>3, <2>4, DropAuxType DEF TInv
<1>7. ASSUME NEW c \in Codes, MainReturn(t, c) PROVE TInv'
  <2>1. proc[t] \in Slots
    BY <1>7, <1>0 DEF MainReturn, IsMain
  <2>2. Requested(table[proc[t]], c) \in Slot
    BY <2>1, <1>0, RequestedType, PProcAssumption
  <2>3. pc[t] \notin Waiting
    BY <1>7 DEF MainReturn, Waiting
  <2>4. /\ MainDrain(t, Requested(table[proc[t]], c))
        /\ UNCHANGED <<nextPid, live, spawned, proc, wait>> /\ ret' = NoRet
    BY <1>7 DEF MainReturn
  <2>5. TypeOK'
    BY <2>1, <2>2, <2>3, <2>4, <1>0, MainDrainType DEF TInv, TypeOK
  <2> QED
    BY <2>1, <2>2, <2>3, <2>4, <2>5, MainDrainType DEF TInv
<1>8. ASSUME NEW c \in Codes, PprocExit(t, c) PROVE TInv'
  <2>0. /\ UNCHANGED <<nextPid, live, spawned, wait>> /\ ret' = NoRet
        /\ pc[t] = "user"
    BY <1>8 DEF PprocExit
  <2>1. CASE proc[t] = NoSlot /\ pc' = [pc EXCEPT ![t] = "none"]
             /\ UNCHANGED <<table, proc>>
    <3>1. TypeOK'
      BY <2>0, <2>1, <1>0 DEF TInv, TypeOK, PCs, Ended
    <3> QED
      BY <3>1, <2>0, <2>1, <1>0 DEF TInv, Waiting, Draining
  <2>2. CASE IsMain(t) /\ MainDrain(t, Requested(table[proc[t]], c)) /\ UNCHANGED proc
    <3>1. proc[t] \in Slots
      BY <2>2, <1>0 DEF IsMain
    <3>2. Requested(table[proc[t]], c) \in Slot
      BY <3>1, <1>0, RequestedType, PProcAssumption
    <3>3. pc[t] \notin Waiting
      BY <2>0 DEF Waiting
    <3>4. TypeOK'
      BY <3>1, <3>2, <3>3, <2>0, <2>2, <1>0, MainDrainType DEF TInv, TypeOK
    <3> QED
      BY <3>1, <3>2, <3>3, <3>4, <2>0, <2>2, MainDrainType DEF TInv
  <2>3. CASE /\ IsAux(t)
             /\ LET s == proc[t]
                    p == Requested(table[s], c)
                    moved == [pc EXCEPT ![t] = "none"]
                IN /\ table' = [table EXCEPT ![s] =
                                  IF p.aux > 0 THEN [p EXCEPT !.aux = @ - 1] ELSE p]
                   /\ pc' = IF p.aux = 1 THEN WakeAuxDone(s, moved) ELSE moved
             /\ proc' = [proc EXCEPT ![t] = NoSlot]
    <3> DEFINE p == Requested(table[proc[t]], c)
               moved == [pc EXCEPT ![t] = "none"]
    <3>1. proc[t] \in Slots
      BY <2>3, <1>0 DEF IsAux
    <3>2. p \in Slot
      BY <3>1, <1>0, RequestedType, PProcAssumption
    <3>3. table' \in [Slots -> Slot]
      <4>1. table' = [table EXCEPT ![proc[t]] =
                        IF p.aux > 0 THEN [p EXCEPT !.aux = @ - 1] ELSE p]
        BY <2>3
      <4> HIDE DEF p
      <4>2. [p EXCEPT !.aux = @ - 1] \in Slot
        BY <3>2 DEF Slot
      <4> QED
        BY <4>1, <4>2, <3>2, <1>0
    <3>4. moved \in [Threads -> PCs]
      BY <1>0 DEF PCs, Ended
    <3>5. pc' = WakeAuxDone(proc[t], moved) \/ pc' = moved
      BY <2>3
    <3>6. pc' \in [Threads -> PCs]
      <4> HIDE DEF moved
      <4>1. WakeAuxDone(proc[t], moved) \in [Threads -> PCs]
        BY <3>4, WakeType
      <4> QED
        BY <3>4, <3>5, <4>1
    <3>7. TypeOK'
      BY <3>3, <3>6, <2>0, <2>3, <1>0 DEF TInv, TypeOK
    <3>8. \A u \in Threads : pc'[u] \in Waiting => pc[u] \in Waiting
      BY <1>0, <3>5 DEF WakeAuxDone, Waiting
    <3>9. \A u \in Threads : pc'[u] \in Draining \cup {"create"} =>
                               u # t /\ pc[u] \in Draining \cup {"create"}
      BY <1>0, <3>5 DEF WakeAuxDone, Draining
    <3> QED
      BY <3>7, <3>8, <3>9, <2>0, <2>3, <1>0 DEF TInv
  <2> QED
    BY <1>8, <2>1, <2>2, <2>3 DEF PprocExit
<1>9. ASSUME DrainRecheck(t) PROVE TInv'
  <2>1. proc[t] \in Slots /\ pc[t] \notin Waiting
    BY <1>9 DEF DrainRecheck, TInv, Draining, Waiting
  <2>2. /\ MainDrain(t, table[proc[t]])
        /\ UNCHANGED <<nextPid, live, spawned, proc, wait>> /\ ret' = NoRet
    BY <1>9 DEF DrainRecheck
  <2>3. table[proc[t]] \in Slot
    BY <2>1, <1>0
  <2>4. TypeOK'
    BY <2>1, <2>2, <2>3, <1>0, MainDrainType DEF TInv, TypeOK
  <2> QED
    BY <2>1, <2>2, <2>3, <2>4, MainDrainType DEF TInv
<1>10. ASSUME NEW q \in Pids, Wait(t, q) PROVE TInv'
  <2>1. CASE ret' = NoRet
    <3>1. CASE \E s \in Slots :
                 /\ IsFirst(s, Holding(q))
                 /\ AwaitExit(t, [pid |-> q, slot |-> s, main |-> NoThread])
      <4>1. PICK s \in Slots : AwaitExit(t, [pid |-> q, slot |-> s, main |-> NoThread])
        BY <3>1
      <4>2. UNCHANGED <<table, nextPid, live, spawned, proc>>
        BY <1>10 DEF Wait
      <4>3. TypeOK'
        BY <4>1, <4>2, <2>1, <1>0, AwaitExitType DEF TInv, TypeOK
      <4> QED
        BY <4>1, <4>2, <4>3, AwaitExitType DEF TInv
    <3>2. CASE UNCHANGED <<pc, wait>>
      BY <3>2, <2>1, <1>10, <1>0 DEF Wait, TInv, TypeOK
    <3> QED
      BY <1>10, <3>1, <3>2 DEF Wait
  <2>2. CASE /\ ret' = [thread |-> t, pid |-> q, code |-> -1]
             /\ UNCHANGED <<pc, wait>>
    BY <2>2, <1>10, <1>0 DEF Wait, TInv, TypeOK
  <2> QED
    BY <1>10, <2>1, <2>2 DEF Wait
<1>11. ASSUME WaitRecheck(t) PROVE TInv'
  <2>1. wait[t].slot \in Slots
    BY <1>11 DEF WaitRecheck, TInv, Waiting
  <2>2. wait[t] \in [pid : Pids \cup {NoPid}, slot : Slots \cup {NoSlot},
                     main : Threads \cup {NoThread}]
    BY DEF TInv, TypeOK
  <2>3. /\ AwaitExit(t, wait[t]) /\ ret' = NoRet
        /\ UNCHANGED <<table, nextPid, live, spawned, proc>>
    BY <1>11 DEF WaitRecheck
  <2>4. TypeOK'
    BY <2>1, <2>2, <2>3, <1>0, AwaitExitType DEF TInv, TypeOK
  <2> QED
    BY <2>1, <2>2, <2>3, <2>4, AwaitExitType DEF TInv
<1>12. ASSUME Join(t) PROVE TInv'
  <2>1. TypeOK'
    BY <1>12, <1>0 DEF Join, TInv, TypeOK, PCs, Waiting, Ended
  <2>2. /\ \A u \in Threads : pc'[u] \in Waiting => wait'[u].slot \in Slots
        /\ \A u \in Threads : pc'[u] \in Draining \cup {"create"} => proc'[u] \in Slots
    BY <1>12, <1>0 DEF Join, TInv, Waiting, Draining, Ended
  <2> QED
    BY <2>1, <2>2 DEF TInv
<1>13. ASSUME Reap(t) PROVE TInv'
  <2>1. wait[t].slot \in Slots /\ wait[t].pid \in Pids \cup {NoPid}
    BY <1>13 DEF Reap, TInv, TypeOK, Waiting
  <2>2. table[wait[t].slot].code \in Int
    BY <2>1, <1>0 DEF Slot
  <2>3. table' \in [Slots -> Slot]
    BY <1>13, <1>0 DEF Reap
  <2>4. TypeOK'
    BY <1>13, <1>0, <2>1, <2>2, <2>3 DEF Reap, TInv, TypeOK, PCs, NoWait
  <2> QED
    BY <1>13, <1>0, <2>4 DEF Reap, TInv, TypeOK, Waiting, Draining
<1>14. ASSUME Spurious(t) PROVE TInv'
  <2>1. TypeOK'
    BY <1>14, <1>0 DEF Spurious, TInv, TypeOK, PCs, Waiting, Draining
  <2> QED
    BY <1>14, <1>0, <2>1 DEF Spurious, TInv, Asleep, Waiting, Draining
<1> QED
  BY <1>t, <1>1, <1>2, <1>3, <1>4, <1>5, <1>6, <1>7, <1>8, <1>9, <1>10, <1>11,
     <1>12, <1>13, <1>14

(* Every reachable state is typed, whether or not clients keep the rules.  *)
THEOREM TypeCorrect == Spec => []TypeOK
<1>1. TInv => TypeOK
  BY DEF TInv
<1> QED
  BY <1>1, TypeInit, TypeStep, PTL DEF Spec

-----------------------------------------------------------------------------
(* Safety of the slots, for clients that keep ExclusiveWaits.  The         *)
(* inductive invariant adds to the properties what a draining thread knows:*)
(* it is the main thread of its process, whose exit has been requested.    *)
DrainersAreMain ==
  \A t \in Threads : pc[t] \in Draining => IsMain(t) /\ table[proc[t]].requested

IInv ==
  /\ TInv
  /\ SlotsOutliveThreads
  /\ WaitersHold
  /\ AuxCountExact
  /\ ExitedMeansQuiet
  /\ DrainersAreMain

LEMMA SafeInit == Init => IInv
<1> SUFFICES ASSUME Init PROVE IInv
  OBVIOUS
<1>1. /\ \A s \in Slots : table[s].state = "free"
      /\ \A t \in Threads : proc[t] = NoSlot /\ pc[t] \notin Waiting \cup Draining
  BY DEF Init, FreeSlot, Waiting, Draining
<1> QED
  BY <1>1, TypeInit
     DEF IInv, SlotsOutliveThreads, WaitersHold, AuxCountExact, ExitedMeansQuiet,
         DrainersAreMain

(* What every preservation proof below starts from: a live thread of a     *)
(* process finds it running, and the two sets that are counted are finite. *)
LEMMA Facts ==
  ASSUME IInv
  PROVE  /\ table \in [Slots -> Slot] /\ pc \in [Threads -> PCs]
         /\ proc \in [Threads -> Slots \cup {NoSlot}]
         /\ NoSlot \notin Slots
         /\ \A t \in Threads : Live(t) /\ proc[t] \in Slots =>
              table[proc[t]].state = "running"
         /\ \A s \in Slots :
              /\ IsFiniteSet(Counted(s)) /\ Cardinality(Counted(s)) \in Nat
              /\ IsFiniteSet(Creating(s)) /\ Cardinality(Creating(s)) \in Nat
<1>1. /\ table \in [Slots -> Slot] /\ pc \in [Threads -> PCs]
      /\ proc \in [Threads -> Slots \cup {NoSlot}]
      /\ NoSlot \notin Slots
  BY DEF IInv, TInv, TypeOK, Slots, NoSlot
<1>2. ASSUME NEW t \in Threads, Live(t), proc[t] \in Slots
      PROVE  table[proc[t]].state = "running"
  <2>1. table[proc[t]].state \in {"free", "running", "exited"}
    BY <1>1, <1>2 DEF Slot, States
  <2>2. table[proc[t]].state # "free"
    BY <1>1, <1>2 DEF IInv, SlotsOutliveThreads
  <2>3. table[proc[t]].state # "exited"
    BY <1>2 DEF IInv, ExitedMeansQuiet
  <2> QED
    BY <2>1, <2>2, <2>3
<1>3. ASSUME NEW s \in Slots
      PROVE  /\ IsFiniteSet(Counted(s)) /\ Cardinality(Counted(s)) \in Nat
             /\ IsFiniteSet(Creating(s)) /\ Cardinality(Creating(s)) \in Nat
  <2>1. Counted(s) \subseteq Threads /\ Creating(s) \subseteq Threads
    BY DEF Counted, Creating
  <2> QED
    BY <2>1, FS_Subset, FS_CardinalityType, PProcAssumption
<1> QED
  BY <1>1, <1>2, <1>3

(* A step that touches no slot, at which only threads outside every        *)
(* process end, and nobody starts living, creating or draining, keeps      *)
(* everything but the waiters.                                             *)
LEMMA FrameStep ==
  ASSUME IInv, table' = table,
         \A v \in Threads :
           /\ Live(v)' => Live(v) /\ proc'[v] = proc[v]
           /\ Live(v) /\ proc[v] # NoSlot => Live(v)'
           /\ (pc'[v] = "create") <=> (pc[v] = "create")
           /\ pc'[v] \in Draining => pc[v] \in Draining
  PROVE  /\ SlotsOutliveThreads' /\ AuxCountExact' /\ ExitedMeansQuiet'
         /\ DrainersAreMain'
<1>1. NoSlot \notin Slots
  BY Facts
<1>2. ASSUME NEW v \in Threads PROVE pc[v] = "create" => Live(v) /\ Live(v)'
  BY DEF Live, Ended
<1>3. \A s \in Slots : Counted(s)' = Counted(s)
  BY <1>1 DEF Counted
<1>4. \A s \in Slots : Creating(s)' = Creating(s)
  BY <1>2 DEF Creating
<1>5. SlotsOutliveThreads'
  <2>1. \A v \in Threads : Live(v)' /\ proc'[v] # NoSlot => table'[proc'[v]].state # "free"
    BY DEF IInv, SlotsOutliveThreads
  <2>2. ASSUME NEW r \in Slots, table'[r].state = "running"
        PROVE  (table[r].main \in Threads /\ Live(table[r].main) /\ proc[table[r].main] = r)'
    <3> DEFINE m == table[r].main
    <3>1. m \in Threads /\ Live(m) /\ proc[m] = r /\ table'[r].main = m
      BY <2>2 DEF IInv, SlotsOutliveThreads
    <3> QED
      BY <3>1, <1>1 DEF Live
  <2> QED
    BY <2>1, <2>2 DEF SlotsOutliveThreads
<1>6. AuxCountExact'
  BY <1>3, <1>4 DEF IInv, AuxCountExact
<1>7. ExitedMeansQuiet'
  BY DEF IInv, ExitedMeansQuiet
<1>8. DrainersAreMain'
  <2>1. ASSUME NEW v \in Threads, pc'[v] \in Draining
        PROVE  IsMain(v)' /\ table'[proc'[v]].requested
    <3>1. proc'[v] = proc[v]
      BY <2>1 DEF Live, Ended, Draining
    <3> QED
      BY <2>1, <3>1 DEF IInv, DrainersAreMain, IsMain
  <2> QED
    BY <2>1 DEF DrainersAreMain
<1> QED
  BY <1>5, <1>6, <1>7, <1>8

(* A step that frees a slot in which no thread lives keeps everything but  *)
(* the waiters, too.                                                       *)
LEMMA FreeStep ==
  ASSUME IInv, NEW s \in Slots, table' = [table EXCEPT ![s] = FreeSlot], proc' = proc,
         \A v \in Threads : Live(v) => proc[v] # s,
         \A v \in Threads :
           /\ Live(v)' <=> Live(v)
           /\ (pc'[v] = "create") <=> (pc[v] = "create")
           /\ pc'[v] \in Draining => pc[v] \in Draining
  PROVE  /\ SlotsOutliveThreads' /\ AuxCountExact' /\ ExitedMeansQuiet'
         /\ DrainersAreMain'
<1>0. /\ table \in [Slots -> Slot] /\ pc \in [Threads -> PCs]
      /\ proc \in [Threads -> Slots \cup {NoSlot}] /\ NoSlot \notin Slots
  BY Facts
<1>1. table'[s].state = "free" /\ \A r \in Slots \ {s} : table'[r] = table[r]
  BY <1>0 DEF FreeSlot
<1>2. SlotsOutliveThreads'
  <2>1. \A v \in Threads : Live(v)' /\ proc'[v] # NoSlot => table'[proc'[v]].state # "free"
    BY <1>0, <1>1 DEF IInv, SlotsOutliveThreads
  <2>2. ASSUME NEW r \in Slots, table'[r].state = "running"
        PROVE  (table[r].main \in Threads /\ Live(table[r].main) /\ proc[table[r].main] = r)'
    <3> DEFINE m == table[r].main
    <3>0. table'[r] = table[r] /\ table[r].state = "running"
      BY <1>1, <2>2
    <3>1. m \in Threads /\ Live(m) /\ proc[m] = r /\ table'[r].main = m
      BY <3>0 DEF IInv, SlotsOutliveThreads
    <3> QED
      BY <3>1 DEF Live
  <2> QED
    BY <2>1, <2>2 DEF SlotsOutliveThreads
<1>3. AuxCountExact'
  <2>1. ASSUME NEW r \in Slots, table'[r].state # "free"
        PROVE  table'[r].aux = Cardinality(Counted(r)') + Cardinality(Creating(r)')
    <3>1. r # s /\ table'[r] = table[r]
      BY <1>1, <2>1
    <3>2. Counted(r)' = Counted(r) /\ Creating(r)' = Creating(r)
      BY <3>1 DEF Counted, Creating
    <3> QED
      BY <2>1, <3>1, <3>2 DEF IInv, AuxCountExact
  <2> QED
    BY <2>1 DEF AuxCountExact
<1>4. ExitedMeansQuiet'
  BY <1>1 DEF IInv, ExitedMeansQuiet
<1>5. DrainersAreMain'
  <2>1. ASSUME NEW v \in Threads, pc'[v] \in Draining
        PROVE  IsMain(v)' /\ table'[proc'[v]].requested
    <3>1. Live(v) /\ IsMain(v) /\ table[proc[v]].requested /\ proc[v] \in Slots
      BY <2>1, <1>0 DEF IInv, DrainersAreMain, IsMain, Live, Ended, Draining
    <3>2. table'[proc'[v]] = table[proc[v]] /\ proc'[v] = proc[v]
      BY <3>1, <1>1
    <3> QED
      BY <3>1, <3>2 DEF IsMain
  <2> QED
    BY <2>1 DEF DrainersAreMain
<1> QED
  BY <1>2, <1>3, <1>4, <1>5

(* A step that leaves the waiters and their slots alone keeps WaitersHold. *)
LEMMA WaitersFrame ==
  ASSUME IInv, wait' = wait,
         \A t \in Threads : pc'[t] \in Waiting =>
           /\ pc[t] \in Waiting
           /\ pc'[t] \in {"join", "reap"} => pc[t] \in {"join", "reap"}
           /\ table'[wait[t].slot].pid = table[wait[t].slot].pid
           /\ table'[wait[t].slot].state # "free"
           /\ table[wait[t].slot].state = "exited" =>
                table'[wait[t].slot].state = "exited"
  PROVE  WaitersHold'
BY DEF IInv, WaitersHold, Holding

LEMMA SafeSpawn ==
  ASSUME IInv, TInv', NEW t \in Threads, NEW u \in Threads, Spawn(t, u)
  PROVE  IInv'
<1>0. /\ table \in [Slots -> Slot] /\ pc \in [Threads -> PCs]
      /\ proc \in [Threads -> Slots \cup {NoSlot}] /\ NoSlot \notin Slots
  BY Facts
<1>1. PICK s \in Slots :
        /\ table[s].state = "free"
        /\ table' = [table EXCEPT ![s] =
              [state |-> "running", pid |-> nextPid, main |-> u,
               code |-> -1, requested |-> FALSE, aux |-> 0]]
        /\ proc' = [proc EXCEPT ![u] = s]
  BY DEF Spawn, IsFirst, Unused
<1>2. /\ pc[u] = "none" /\ pc' = [pc EXCEPT ![u] = "user"] /\ wait' = wait
  BY DEF Spawn
<1>3. \A v \in Threads \ {u} : (Live(v)' <=> Live(v)) /\ proc'[v] = proc[v]
  BY <1>0, <1>1, <1>2 DEF Live
<1>4. ~Live(u) /\ Live(u)' /\ proc'[u] = s
  BY <1>0, <1>1, <1>2 DEF Live, Ended
<1>5. \A v \in Threads : Live(v) => proc[v] # s
  BY <1>0, <1>1 DEF IInv, SlotsOutliveThreads
<1>6. SlotsOutliveThreads'
  <2>1. \A v \in Threads : (Live(v) /\ proc[v] # NoSlot)' => table'[proc'[v]].state # "free"
    BY <1>0, <1>1, <1>3, <1>4, <1>5 DEF IInv, SlotsOutliveThreads
  <2>2. ASSUME NEW r \in Slots, table'[r].state = "running"
        PROVE  (table[r].main \in Threads /\ Live(table[r].main) /\ proc[table[r].main] = r)'
    <3>1. CASE r = s
      <4>1. table'[s].main = u
        BY <1>0, <1>1
      <4> QED
        BY <3>1, <4>1, <1>4 DEF Live
    <3>2. CASE r # s
      <4> DEFINE m == table[r].main
      <4>1. table'[r] = table[r]
        BY <3>2, <1>0, <1>1
      <4>2. m \in Threads /\ Live(m) /\ proc[m] = r
        BY <4>1, <2>2 DEF IInv, SlotsOutliveThreads
      <4>3. m # u
        BY <4>2, <1>4
      <4> QED
        BY <4>1, <4>2, <4>3, <1>3 DEF Live
    <3> QED
      BY <3>1, <3>2
  <2> QED
    BY <2>1, <2>2 DEF SlotsOutliveThreads, Live
<1>7. AuxCountExact'
  <2>1. ASSUME NEW r \in Slots, table'[r].state # "free"
        PROVE  table'[r].aux = Cardinality(Counted(r)') + Cardinality(Creating(r)')
    <3>1. CASE r = s
      <4>1. Counted(s)' = {} /\ Creating(s)' = {}
        BY <1>0, <1>1, <1>2, <1>3, <1>4, <1>5 DEF Counted, Creating, Live, Ended
      <4> QED
        BY <3>1, <4>1, <1>0, <1>1, FS_EmptySet
    <3>2. CASE r # s
      <4>1. Counted(r)' = Counted(r)
        BY <3>2, <1>0, <1>1, <1>3, <1>4 DEF Counted
      <4>2. Creating(r)' = Creating(r)
        BY <3>2, <1>0, <1>1, <1>2 DEF Creating
      <4> QED
        BY <3>2, <4>1, <4>2, <2>1, <1>0, <1>1 DEF IInv, AuxCountExact
    <3> QED
      BY <3>1, <3>2
  <2> QED
    BY <2>1 DEF AuxCountExact
<1>8. ExitedMeansQuiet'
  BY <1>0, <1>1, <1>3, <1>4 DEF IInv, ExitedMeansQuiet
<1>9. DrainersAreMain'
  <2>1. \A v \in Threads : pc'[v] \in Draining => v # u /\ pc[v] \in Draining /\ Live(v)
    BY <1>0, <1>2 DEF Draining, Live, Ended
  <2> QED
    BY <2>1, <1>0, <1>1, <1>3, <1>5 DEF IInv, DrainersAreMain, IsMain
<1>10. WaitersHold'
  <2>1. \A v \in Threads : pc'[v] \in Waiting => pc'[v] = pc[v] /\ wait[v].slot # s
    BY <1>0, <1>1, <1>2 DEF IInv, WaitersHold, Holding, Waiting
  <2>2. \A v \in Threads : pc[v] \in Waiting =>
          wait[v].slot \in Slots /\ table[wait[v].slot].state # "free"
    BY DEF IInv, WaitersHold, Holding
  <2> QED
    BY <2>1, <2>2, <1>0, <1>1, <1>2, WaitersFrame
<1> QED
  BY <1>6, <1>7, <1>8, <1>9, <1>10 DEF IInv

(* A step inside the thread group of the running process in slot s: thread *)
(* d, not its main thread, ends (if d is a thread), g starts (if it is one)*)
(* and the slot keeps its identity while p.aux follows the group.          *)
InGroup(s, p, d, g) ==
  /\ table[s].state = "running"
  /\ table' = [table EXCEPT ![s] = p]
  /\ p.state = "running" /\ p.main = table[s].main /\ p.pid = table[s].pid
  /\ table[s].requested => p.requested
  /\ p.aux = Cardinality(Counted(s)') + Cardinality(Creating(s)')
  /\ wait' = wait
  /\ d \in Threads => proc[d] = s /\ table[s].main # d
  /\ g \in Threads => ~Live(g) /\ proc'[g] = s /\ pc'[g] # "create"
  /\ \A v \in Threads : Live(v)' <=> (Live(v) /\ v # d) \/ v = g
  /\ \A v \in Threads \ {g} : Live(v)' => proc'[v] = proc[v]
  /\ \A v \in Threads \ {g} : proc[v] # s => (pc'[v] = "create" <=> pc[v] = "create")
  /\ \A v \in Threads : pc'[v] \in Waiting => pc'[v] = pc[v]
  /\ \A v \in Threads : pc'[v] \in Draining =>
       pc[v] \in Draining \/ (proc[v] = s /\ p.main = v /\ p.requested)

LEMMA GroupStep ==
  ASSUME IInv, NEW s \in Slots, NEW p \in Slot, NEW d, NEW g, InGroup(s, p, d, g)
  PROVE  SlotsOutliveThreads' /\ AuxCountExact' /\ ExitedMeansQuiet'
         /\ DrainersAreMain' /\ WaitersHold'
<1> USE DEF InGroup
<1>0. /\ table \in [Slots -> Slot] /\ pc \in [Threads -> PCs]
      /\ proc \in [Threads -> Slots \cup {NoSlot}] /\ NoSlot \notin Slots
  BY Facts
<1>1. /\ table'[s] = p
      /\ \A r \in Slots \ {s} : table'[r] = table[r]
  BY <1>0
<1>2. SlotsOutliveThreads'
  <2>1. ASSUME NEW v \in Threads, Live(v)', proc'[v] # NoSlot
        PROVE  table'[proc'[v]].state # "free"
    <3>1. CASE v = g
      BY <3>1, <1>1
    <3>2. CASE v # g
      <4>1. Live(v) /\ proc'[v] = proc[v]
        BY <2>1, <3>2
      <4> QED
        BY <4>1, <2>1, <1>0, <1>1 DEF IInv, SlotsOutliveThreads
    <3> QED
      BY <3>1, <3>2
  <2>2. ASSUME NEW r \in Slots, table'[r].state = "running"
        PROVE  (table[r].main \in Threads /\ Live(table[r].main) /\ proc[table[r].main] = r)'
    <3> DEFINE m == table[r].main
    <3>1. table'[r].main = m /\ table[r].state = "running"
      BY <1>1, <2>2
    <3>2. m \in Threads /\ Live(m) /\ proc[m] = r
      BY <3>1 DEF IInv, SlotsOutliveThreads
    <3>3. m # d /\ m # g
      BY <3>2
    <3> QED
      BY <3>1, <3>2, <3>3 DEF Live
  <2> QED
    BY <2>1, <2>2 DEF SlotsOutliveThreads
<1>3. AuxCountExact'
  <2>1. ASSUME NEW r \in Slots \ {s}, table'[r].state # "free"
        PROVE  table'[r].aux = Cardinality(Counted(r)') + Cardinality(Creating(r)')
    <3>1. Counted(r)' = Counted(r)
      <4>1. \A v \in Threads : Live(v)' /\ proc'[v] = r <=> Live(v) /\ proc[v] = r
        OBVIOUS
      <4> QED
        BY <4>1, <1>1 DEF Counted
    <3>2. Creating(r)' = Creating(r)
      <4>1. \A v \in Threads : pc'[v] = "create" => Live(v)'
        BY DEF Live, Ended
      <4>2. \A v \in Threads : pc[v] = "create" => Live(v)
        BY DEF Live, Ended
      <4>3. \A v \in Threads : pc'[v] = "create" /\ proc'[v] = r =>
                                 pc[v] = "create" /\ proc[v] = r
        BY <4>1
      <4>4. \A v \in Threads : pc[v] = "create" /\ proc[v] = r =>
                                 pc'[v] = "create" /\ proc'[v] = r
        BY <4>2, <4>1
      <4> QED
        BY <4>3, <4>4 DEF Creating
    <3> QED
      BY <3>1, <3>2, <2>1, <1>1 DEF IInv, AuxCountExact
  <2> QED
    BY <2>1, <1>1 DEF AuxCountExact
<1>4. ExitedMeansQuiet'
  <2>1. ASSUME NEW r \in Slots, table'[r].state = "exited"
        PROVE  table'[r].requested /\ \A v \in Threads : proc'[v] = r => ~Live(v)'
    <3>1. r # s /\ table'[r] = table[r]
      BY <2>1, <1>1
    <3>2. table[r].requested /\ \A v \in Threads : proc[v] = r => ~Live(v)
      BY <2>1, <3>1 DEF IInv, ExitedMeansQuiet
    <3> QED
      BY <3>1, <3>2
  <2> QED
    BY <2>1 DEF ExitedMeansQuiet
<1>5. DrainersAreMain'
  <2>1. ASSUME NEW v \in Threads, pc'[v] \in Draining
        PROVE  /\ proc'[v] # NoSlot /\ table'[proc'[v]].main = v
               /\ table'[proc'[v]].requested
    <3>1. Live(v)'
      BY <2>1 DEF Draining, Live, Ended
    <3>2. v # g /\ proc'[v] = proc[v]
      BY <2>1, <3>1 DEF IInv, DrainersAreMain, Draining, Live, Ended, SlotsOutliveThreads
    <3>3. CASE proc[v] = s /\ p.main = v /\ p.requested
      BY <3>2, <3>3, <1>0, <1>1
    <3>4. CASE pc[v] \in Draining
      <4>1. proc[v] \in Slots /\ table[proc[v]].main = v /\ table[proc[v]].requested
        BY <3>4, <1>0 DEF IInv, DrainersAreMain, IsMain
      <4> QED
        BY <4>1, <3>2, <1>0, <1>1
    <3> QED
      BY <2>1, <3>3, <3>4
  <2> QED
    BY <2>1 DEF DrainersAreMain, IsMain
<1>6. WaitersHold'
  <2>1. ASSUME NEW v \in Threads, pc'[v] \in Waiting
        PROVE  /\ pc[v] \in Waiting
               /\ pc'[v] \in {"join", "reap"} => pc[v] \in {"join", "reap"}
               /\ table'[wait[v].slot].pid = table[wait[v].slot].pid
               /\ table'[wait[v].slot].state # "free"
               /\ table[wait[v].slot].state = "exited" =>
                    table'[wait[v].slot].state = "exited"
    <3>1. /\ pc[v] \in Waiting
          /\ pc'[v] \in {"join", "reap"} => pc[v] \in {"join", "reap"}
      BY <2>1 DEF Waiting
    <3>2. wait[v].slot \in Slots /\ table[wait[v].slot].state # "free"
      BY <3>1 DEF IInv, WaitersHold, Holding
    <3> QED
      BY <3>1, <3>2, <1>1
  <2> QED
    BY <2>1, WaitersFrame
<1> QED
  BY <1>2, <1>3, <1>4, <1>5, <1>6

LEMMA SafeCreateDone ==
  ASSUME IInv, TInv', NEW t \in Threads, NEW u \in Threads, CreateDone(t, u)
  PROVE  IInv'
<1> DEFINE s == proc[t]
<1>0. /\ table \in [Slots -> Slot] /\ pc \in [Threads -> PCs]
      /\ proc \in [Threads -> Slots \cup {NoSlot}] /\ NoSlot \notin Slots
  BY Facts
<1>1. /\ pc[t] = "create" /\ pc[u] = "none" /\ t # u
      /\ pc' = [pc EXCEPT ![t] = "user", ![u] = "user"]
      /\ proc' = [proc EXCEPT ![u] = proc[t]]
      /\ table' = table /\ wait' = wait
  BY DEF CreateDone
<1>2. s \in Slots /\ Live(t) /\ table[s].state = "running"
  BY <1>1, Facts DEF IInv, TInv, Live, Ended
<1>3. table[s].main # u /\ ~Live(u)
  BY <1>1, <1>2 DEF IInv, SlotsOutliveThreads, Live, Ended
<1>4. table[s].aux = Cardinality(Counted(s)') + Cardinality(Creating(s)')
  <2>1. Counted(s)' = Counted(s) \cup {u} /\ u \notin Counted(s)
    BY <1>0, <1>1, <1>2, <1>3 DEF Counted, Live, Ended
  <2>2. Creating(s)' = Creating(s) \ {t} /\ t \in Creating(s)
    BY <1>0, <1>1 DEF Creating
  <2>3. Cardinality(Counted(s)') = Cardinality(Counted(s)) + 1
    BY <2>1, <1>2, Facts, FS_AddElement
  <2>4. Cardinality(Creating(s)') = Cardinality(Creating(s)) - 1
    BY <2>2, <1>2, Facts, FS_RemoveElement, ZenonT(30)
  <2>5. table[s].aux = Cardinality(Counted(s)) + Cardinality(Creating(s))
    BY <1>2 DEF IInv, AuxCountExact
  <2> QED
    BY <2>3, <2>4, <2>5, <1>2, Facts
<1>5. /\ \A v \in Threads : Live(v)' <=> Live(v) \/ v = u
      /\ \A v \in Threads : pc'[v] \in Waiting \cup Draining => pc'[v] = pc[v]
      /\ \A v \in Threads : pc'[v] = "create" <=> pc[v] = "create" /\ v # t
  BY <1>0, <1>1 DEF Live, Ended, Waiting, Draining
<1>6. table' = [table EXCEPT ![s] = table[s]] /\ table[s] \in Slot
  BY <1>0, <1>1, <1>2
<1> HIDE DEF s
<1>7. SlotsOutliveThreads' /\ AuxCountExact' /\ ExitedMeansQuiet'
      /\ DrainersAreMain' /\ WaitersHold'
  <2>1. \A v \in Threads \ {u} : proc[v] # s => (pc'[v] = "create" <=> pc[v] = "create")
    BY <1>5 DEF s
  <2>2. proc'[u] = s /\ pc'[u] # "create"
    BY <1>0, <1>1, <1>5 DEF s
  <2>3. \A v \in Threads \ {u} : Live(v)' => proc'[v] = proc[v]
    BY <1>0, <1>1
  <2>4. InGroup(s, table[s], NoThread, u)
    BY <1>1, <1>2, <1>3, <1>4, <1>5, <1>6, <2>1, <2>2, <2>3, PProcAssumption
       DEF InGroup
  <2> QED
    BY <2>4, <1>2, <1>6, GroupStep
<1> QED
  BY <1>7 DEF IInv

LEMMA SafeCreateBegin ==
  ASSUME IInv, TInv', NEW t \in Threads, CreateBegin(t)
  PROVE  IInv'
<1> DEFINE s == proc[t]
           p == [table[s] EXCEPT !.aux = @ + 1]
<1>0. /\ table \in [Slots -> Slot] /\ pc \in [Threads -> PCs]
      /\ proc \in [Threads -> Slots \cup {NoSlot}] /\ NoSlot \notin Slots
  BY Facts
<1>1. /\ pc[t] = "user" /\ proc[t] # NoSlot
      /\ pc' = [pc EXCEPT ![t] = "create"]
      /\ table' = [table EXCEPT ![s].aux = @ + 1]
      /\ proc' = proc /\ wait' = wait
  BY DEF CreateBegin
<1>2. s \in Slots /\ Live(t) /\ table[s].state = "running"
  BY <1>0, <1>1, Facts DEF Live, Ended
<1>3. table[s] \in Slot
  BY <1>0, <1>2
<1>4. /\ p \in Slot /\ p.state = "running" /\ p.main = table[s].main
      /\ p.pid = table[s].pid /\ p.requested = table[s].requested
      /\ p.aux = table[s].aux + 1
      /\ table' = [table EXCEPT ![s] = p]
  BY <1>1, <1>2, <1>3 DEF Slot
<1>5. /\ \A v \in Threads : Live(v)' <=> Live(v)
      /\ \A v \in Threads : pc'[v] \in Waiting \cup Draining => pc'[v] = pc[v]
      /\ \A v \in Threads \ {t} : pc'[v] = pc[v]
  BY <1>0, <1>1 DEF Live, Ended, Waiting, Draining
<1>6. p.aux = Cardinality(Counted(s)') + Cardinality(Creating(s)')
  <2>1. Counted(s)' = Counted(s)
    BY <1>0, <1>1, <1>2, <1>4, <1>5 DEF Counted
  <2>2. Creating(s)' = Creating(s) \cup {t} /\ t \notin Creating(s)
    BY <1>0, <1>1 DEF Creating
  <2>3. Cardinality(Creating(s)') = Cardinality(Creating(s)) + 1
    BY <2>2, <1>2, Facts, FS_AddElement
  <2>4. table[s].aux = Cardinality(Counted(s)) + Cardinality(Creating(s))
    BY <1>2 DEF IInv, AuxCountExact
  <2> QED
    BY <2>1, <2>3, <2>4, <1>2, <1>4, Facts
<1>7. proc[t] = s
  OBVIOUS
<1> HIDE DEF s, p
<1>8. InGroup(s, p, NoThread, NoThread)
  BY <1>1, <1>2, <1>4, <1>5, <1>6, <1>7, PProcAssumption DEF InGroup
<1> QED
  BY <1>2, <1>4, <1>8, GroupStep DEF IInv

(* A thread that leaves code of its own for next, and the sleepers it may  *)
(* wake on its process's aux_done.                                         *)
GoesOn(t, next, s) ==
  \/ pc' = WakeAuxDone(s, [pc EXCEPT ![t] = next])
  \/ pc' = [pc EXCEPT ![t] = next]

LEMMA WakeFrame ==
  ASSUME pc \in [Threads -> PCs], NEW t \in Threads, pc[t] \in {"user", "create"},
         NEW next \in {"user", "none"}, NEW s, GoesOn(t, next, s)
  PROVE  /\ \A v \in Threads : Live(v)' <=> Live(v) /\ ~(v = t /\ next = "none")
         /\ \A v \in Threads : pc'[v] = "create" <=> pc[v] = "create" /\ v # t
         /\ \A v \in Threads : pc'[v] \in Waiting => pc'[v] = pc[v]
         /\ \A v \in Threads : pc'[v] \in Draining => pc[v] \in Draining
BY DEF GoesOn, WakeAuxDone, Live, Ended, Waiting, Draining, PCs

LEMMA SafeCreateFails ==
  ASSUME IInv, TInv', NEW t \in Threads, CreateFails(t)
  PROVE  IInv'
<1> DEFINE s == proc[t]
           p == [table[s] EXCEPT !.aux = @ - 1]
<1>0. /\ table \in [Slots -> Slot] /\ pc \in [Threads -> PCs]
      /\ proc \in [Threads -> Slots \cup {NoSlot}] /\ NoSlot \notin Slots
  BY Facts
<1>1. /\ pc[t] = "create"
      /\ GoesOn(t, "user", s)
      /\ table' = [table EXCEPT ![s].aux = @ - 1]
      /\ proc' = proc /\ wait' = wait
  BY DEF CreateFails, DropAux, GoesOn
<1>2. s \in Slots /\ Live(t) /\ table[s].state = "running"
  BY <1>0, <1>1, Facts DEF IInv, TInv, Live, Ended
<1>3. table[s] \in Slot
  BY <1>0, <1>2
<1>4. /\ p \in Slot /\ p.state = "running" /\ p.main = table[s].main
      /\ p.pid = table[s].pid /\ p.requested = table[s].requested
      /\ p.aux = table[s].aux - 1
      /\ table' = [table EXCEPT ![s] = p]
  BY <1>1, <1>2, <1>3 DEF Slot
<1>5. /\ \A v \in Threads : Live(v)' <=> Live(v)
      /\ \A v \in Threads : pc'[v] \in Waiting => pc'[v] = pc[v]
      /\ \A v \in Threads : pc'[v] \in Draining => pc[v] \in Draining
      /\ \A v \in Threads : pc'[v] = "create" <=> pc[v] = "create" /\ v # t
  BY <1>0, <1>1, WakeFrame
<1>6. p.aux = Cardinality(Counted(s)') + Cardinality(Creating(s)')
  <2>1. Counted(s)' = Counted(s)
    BY <1>0, <1>1, <1>2, <1>4, <1>5 DEF Counted
  <2>2. Creating(s)' = Creating(s) \ {t} /\ t \in Creating(s)
    BY <1>0, <1>1, <1>5 DEF Creating
  <2>3. Cardinality(Creating(s)') = Cardinality(Creating(s)) - 1
    BY <2>2, <1>2, Facts, FS_RemoveElement, ZenonT(30)
  <2>4. table[s].aux = Cardinality(Counted(s)) + Cardinality(Creating(s))
    BY <1>2 DEF IInv, AuxCountExact
  <2> QED
    BY <2>1, <2>3, <2>4, <1>2, <1>4, Facts
<1>7. proc[t] = s
  OBVIOUS
<1> HIDE DEF s, p
<1>8. InGroup(s, p, NoThread, NoThread)
  BY <1>1, <1>2, <1>4, <1>5, <1>6, <1>7, PProcAssumption DEF InGroup
<1> QED
  BY <1>2, <1>4, <1>8, GroupStep DEF IInv

(* An auxiliary thread leaves its process: p is the slot's value after an  *)
(* optional exit request.                                                  *)
LEMMA AuxLeaves ==
  ASSUME IInv, NEW t \in Threads, pc[t] = "user", IsAux(t),
         NEW p \in Slot, p.state = table[proc[t]].state,
         p.main = table[proc[t]].main, p.pid = table[proc[t]].pid,
         p.aux = table[proc[t]].aux, table[proc[t]].requested => p.requested,
         table' = [table EXCEPT ![proc[t]] = [p EXCEPT !.aux = @ - 1]],
         GoesOn(t, "none", proc[t]),
         proc' = [proc EXCEPT ![t] = NoSlot], wait' = wait
  PROVE  SlotsOutliveThreads' /\ AuxCountExact' /\ ExitedMeansQuiet'
         /\ DrainersAreMain' /\ WaitersHold'
<1>0. /\ table \in [Slots -> Slot] /\ pc \in [Threads -> PCs]
      /\ proc \in [Threads -> Slots \cup {NoSlot}] /\ NoSlot \notin Slots
  BY Facts
<1>1. PICK s \in Slots : s = proc[t]
  BY <1>0 DEF IsAux
<1> DEFINE n == [p EXCEPT !.aux = @ - 1]
<1>2. s \in Slots /\ Live(t) /\ table[s].state = "running" /\ table[s].main # t
  BY <1>0, <1>1, Facts DEF IsAux, Live, Ended
<1>4. /\ n \in Slot /\ n.state = "running" /\ n.main = table[s].main
      /\ n.pid = table[s].pid /\ (table[s].requested => n.requested)
      /\ n.aux = table[s].aux - 1
      /\ table' = [table EXCEPT ![s] = n]
      /\ table'[s] = n
  BY <1>0, <1>1, <1>2 DEF Slot
<1>5. /\ \A v \in Threads : Live(v)' <=> Live(v) /\ v # t
      /\ \A v \in Threads : pc'[v] \in Waiting => pc'[v] = pc[v]
      /\ \A v \in Threads : pc'[v] \in Draining => pc[v] \in Draining
      /\ \A v \in Threads : pc'[v] = "create" <=> pc[v] = "create" /\ v # t
  BY <1>0, WakeFrame
<1>3. \A v \in Threads \ {t} : proc'[v] = proc[v]
  BY <1>0
<1>6. n.aux = Cardinality(Counted(s)') + Cardinality(Creating(s)')
  <2> HIDE DEF n
  <2>1. Counted(s)' = Counted(s) \ {t} /\ t \in Counted(s)
    <3>1. \A v \in Threads : (Live(v) /\ proc[v] = s /\ table[s].main # v)' <=>
            Live(v) /\ proc[v] = s /\ table[s].main # v /\ v # t
      BY <1>1, <1>2, <1>3, <1>4, <1>5
    <3> QED
      BY <1>1, <1>2, <3>1 DEF Counted
  <2>2. Creating(s)' = Creating(s)
    <3>1. pc[t] # "create"
      BY pc[t] = "user"
    <3>2. \A v \in Threads \ {t} : (pc'[v] = "create" <=> pc[v] = "create")
      BY <1>5
    <3>3. pc'[t] # "create"
      BY <1>5
    <3> QED
      BY <3>1, <3>2, <3>3, <1>3 DEF Creating
  <2>3. Cardinality(Counted(s)') = Cardinality(Counted(s)) - 1
    BY <2>1, <1>2, Facts, FS_RemoveElement
  <2>4. table[s].aux = Cardinality(Counted(s)) + Cardinality(Creating(s))
    BY <1>2 DEF IInv, AuxCountExact
  <2> QED
    BY <2>2, <2>3, <2>4, <1>2, <1>4, Facts
<1> HIDE DEF n
<1>8. InGroup(s, n, t, NoThread)
  <2>1. \A v \in Threads \ {NoThread} :
          proc[v] # s => (pc'[v] = "create" <=> pc[v] = "create")
    BY <1>1, <1>5
  <2>2. \A v \in Threads \ {NoThread} : Live(v)' => proc'[v] = proc[v]
    BY <1>3, <1>5
  <2>3. \A v \in Threads : Live(v)' <=> (Live(v) /\ v # t) \/ v = NoThread
    BY <1>5, PProcAssumption
  <2>4. NoThread \notin Threads
    BY PProcAssumption
  <2> QED
    BY <2>1, <2>2, <2>3, <2>4, <1>1, <1>2, <1>4, <1>5, <1>6 DEF InGroup
<1> QED
  BY <1>2, <1>4, <1>8, GroupStep

LEMMA SafeAuxReturn ==
  ASSUME IInv, TInv', NEW t \in Threads, AuxReturn(t)
  PROVE  IInv'
<1>1. /\ pc[t] = "user" /\ IsAux(t) /\ proc[t] \in Slots
      /\ GoesOn(t, "none", proc[t])
      /\ table' = [table EXCEPT ![proc[t]].aux = @ - 1]
      /\ proc' = [proc EXCEPT ![t] = NoSlot] /\ wait' = wait
  BY Facts DEF AuxReturn, DropAux, IsAux, GoesOn
<1>2. table' = [table EXCEPT ![proc[t]] = [table[proc[t]] EXCEPT !.aux = @ - 1]]
  BY <1>1, Facts
<1>3. table[proc[t]] \in Slot
  BY <1>1, Facts
<1> QED
  BY <1>1, <1>2, <1>3, AuxLeaves DEF IInv

LEMMA SafeSpawnFails ==
  ASSUME IInv, TInv', NEW t \in Threads, SpawnFails(t)
  PROVE  IInv'
<1>1. PICK s \in Slots : table[s].state = "free" /\ table' = [table EXCEPT ![s] = FreeSlot]
  BY DEF SpawnFails, IsFirst, Unused
<1>2. pc' = pc /\ proc' = proc /\ wait' = wait
  BY DEF SpawnFails
<1>3. /\ proc \in [Threads -> Slots \cup {NoSlot}] /\ NoSlot \notin Slots
      /\ table \in [Slots -> Slot]
  BY Facts
<1>4. \A v \in Threads : Live(v) => proc[v] # s
  BY <1>1, <1>3 DEF IInv, SlotsOutliveThreads
<1>5. \A v \in Threads : Live(v)' <=> Live(v)
  BY <1>2 DEF Live
<1>6. SlotsOutliveThreads' /\ AuxCountExact' /\ ExitedMeansQuiet' /\ DrainersAreMain'
  BY <1>1, <1>2, <1>4, <1>5, FreeStep
<1>7. WaitersHold'
  <2>1. \A v \in Threads : pc[v] \in Waiting =>
          /\ wait[v].slot \in Slots \ {s}
          /\ table'[wait[v].slot] = table[wait[v].slot]
          /\ table[wait[v].slot].state # "free"
    BY <1>1, <1>3 DEF IInv, WaitersHold, Holding
  <2> QED
    BY <2>1, <1>2, WaitersFrame
<1> QED
  BY <1>6, <1>7 DEF IInv

LEMMA SafeReap ==
  ASSUME IInv, TInv', NEW t \in Threads, Reap(t)
  PROVE  IInv'
<1>1. PICK s \in Slots : s = wait[t].slot
  BY DEF Reap, IInv, TInv, Waiting
<1>2. /\ pc[t] = "reap" /\ pc' = [pc EXCEPT ![t] = "user"]
      /\ table' = [table EXCEPT ![s] = FreeSlot] /\ proc' = proc
      /\ wait' = [wait EXCEPT ![t] = NoWait]
  BY <1>1 DEF Reap
<1>3. /\ table \in [Slots -> Slot] /\ pc \in [Threads -> PCs]
      /\ wait \in [Threads -> [pid : Pids \cup {NoPid}, slot : Slots \cup {NoSlot},
                               main : Threads \cup {NoThread}]]
  BY DEF IInv, TInv, TypeOK
<1>4. table[s].state = "exited"
  BY <1>1, <1>2 DEF IInv, WaitersHold, Waiting
<1>5. \A v \in Threads : Live(v) => proc[v] # s
  BY <1>4 DEF IInv, ExitedMeansQuiet
<1>6. /\ \A v \in Threads : Live(v)' <=> Live(v)
      /\ \A v \in Threads : (pc'[v] = "create") <=> (pc[v] = "create")
      /\ \A v \in Threads : pc'[v] \in Draining => pc[v] \in Draining
      /\ \A v \in Threads : pc'[v] \in Waiting => v # t /\ pc'[v] = pc[v]
  BY <1>2, <1>3 DEF Live, Ended, Draining, Waiting
<1>7. SlotsOutliveThreads' /\ AuxCountExact' /\ ExitedMeansQuiet' /\ DrainersAreMain'
  BY <1>2, <1>5, <1>6, FreeStep
<1>8. WaitersHold'
  <2>1. \A v \in Threads \ {t} : wait'[v] = wait[v]
    BY <1>2, <1>3
  <2>2. \A v \in Threads \ {t} : pc[v] \in Waiting =>
          /\ wait[v].slot \in Slots \ {s}
          /\ table'[wait[v].slot] = table[wait[v].slot]
    BY <1>1, <1>2, <1>3 DEF IInv, WaitersHold, Holding, Waiting
  <2> QED
    BY <2>1, <2>2, <1>6 DEF IInv, WaitersHold, Holding
<1> QED
  BY <1>7, <1>8 DEF IInv

(* The main thread of a process drains: it sleeps while auxiliary threads  *)
(* are counted; else it is the last thread of its process, which exits.    *)
LEMMA MainDrains ==
  ASSUME IInv, NEW t \in Threads, pc[t] \in {"user", "recheck_aux"}, IsMain(t),
         NEW p \in Slot, p.state = table[proc[t]].state,
         p.main = table[proc[t]].main, p.pid = table[proc[t]].pid,
         p.aux = table[proc[t]].aux, p.requested,
         MainDrain(t, p), proc' = proc, wait' = wait
  PROVE  SlotsOutliveThreads' /\ AuxCountExact' /\ ExitedMeansQuiet'
         /\ DrainersAreMain' /\ WaitersHold'
<1>0. /\ table \in [Slots -> Slot] /\ pc \in [Threads -> PCs]
      /\ proc \in [Threads -> Slots \cup {NoSlot}] /\ NoSlot \notin Slots
  BY Facts
<1>1. PICK s \in Slots : s = proc[t]
  BY <1>0 DEF IsMain
<1>2. Live(t) /\ table[s].state = "running" /\ table[s].main = t
  BY <1>0, <1>1, Facts DEF IsMain, Live, Ended
<1>3. /\ p.state = "running" /\ p.main = t /\ p.pid = table[s].pid
      /\ p.aux = Cardinality(Counted(s)) + Cardinality(Creating(s))
  BY <1>1, <1>2 DEF IInv, AuxCountExact
<1>4. CASE p.aux > 0
  <2>1. table' = [table EXCEPT ![s] = p] /\ pc' = [pc EXCEPT ![t] = "aux_done"]
    BY <1>1, <1>4 DEF MainDrain
  <2>2. /\ \A v \in Threads : Live(v)' <=> Live(v)
        /\ \A v \in Threads : (pc'[v] = "create") <=> (pc[v] = "create")
        /\ \A v \in Threads : pc'[v] \in Waiting => pc'[v] = pc[v]
        /\ \A v \in Threads : pc'[v] \in Draining => pc[v] \in Draining \/ v = t
    BY <1>0, <2>1 DEF Live, Ended, Waiting, Draining
  <2>3. Counted(s)' = Counted(s) /\ Creating(s)' = Creating(s)
    BY <1>0, <1>2, <1>3, <2>1, <2>2 DEF Counted, Creating
  <2>4. NoThread \notin Threads
    BY PProcAssumption
  <2>5. InGroup(s, p, NoThread, NoThread)
    BY <1>1, <1>2, <1>3, <2>1, <2>2, <2>3, <2>4 DEF InGroup
  <2> QED
    BY <2>5, GroupStep
<1>5. CASE ~(p.aux > 0)
  <2> DEFINE n == [p EXCEPT !.state = "exited"]
  <2>1. /\ table' = [table EXCEPT ![s] = n]
        /\ pc' = WakeStateChanged([pc EXCEPT ![t] = "zombie"])
    BY <1>1, <1>5 DEF MainDrain
  <2>2. /\ n.state = "exited" /\ n.main = t /\ n.requested
        /\ n.pid = table[s].pid /\ n.aux = p.aux
    BY <1>3 DEF Slot
  <2> HIDE DEF n
  <2>3. table'[s] = n /\ \A r \in Slots \ {s} : table'[r] = table[r]
    BY <1>0, <2>1
  <2>4. /\ \A v \in Threads : Live(v)' <=> Live(v) /\ v # t
        /\ \A v \in Threads : (pc'[v] = "create") <=> (pc[v] = "create")
        /\ \A v \in Threads : pc'[v] \in Waiting => pc[v] \in Waiting
        /\ \A v \in Threads : pc'[v] \in {"join", "reap"} => pc[v] \in {"join", "reap"}
        /\ \A v \in Threads : pc'[v] \in Draining => pc[v] \in Draining
    BY <1>0, <2>1 DEF WakeStateChanged, Live, Ended, Waiting, Draining
  <2>5. n.aux = 0 /\ Counted(s) = {} /\ Creating(s) = {}
    <3>1. Cardinality(Counted(s)) = 0 /\ Cardinality(Creating(s)) = 0
      BY <1>3, <1>5, Facts
    <3> QED
      BY <3>1, <1>3, <2>2, Facts, FS_EmptySet
  <2>6. \A v \in Threads : Live(v) /\ proc[v] = s => v = t
    BY <1>2, <2>5 DEF Counted
  <2>7. \A v \in Threads : Live(v)' => Live(v) /\ v # t /\ proc[v] # s
    BY <2>4, <2>6
  <2>8. SlotsOutliveThreads'
    <3>1. \A v \in Threads : Live(v)' /\ proc'[v] # NoSlot => table'[proc'[v]].state # "free"
      BY <1>0, <2>3, <2>7 DEF IInv, SlotsOutliveThreads
    <3>2. ASSUME NEW r \in Slots, table'[r].state = "running"
          PROVE  (table[r].main \in Threads /\ Live(table[r].main) /\ proc[table[r].main] = r)'
      <4> DEFINE m == table[r].main
      <4>0. r # s /\ table'[r] = table[r]
        BY <2>2, <2>3, <3>2
      <4>1. m \in Threads /\ Live(m) /\ proc[m] = r /\ table'[r].main = m
        BY <3>2, <4>0 DEF IInv, SlotsOutliveThreads
      <4>2. m # t
        BY <1>1, <4>0, <4>1
      <4> QED
        BY <4>1, <4>2, <2>4 DEF Live
    <3> QED
      BY <3>1, <3>2 DEF SlotsOutliveThreads
  <2>9. AuxCountExact'
    <3>1. ASSUME NEW r \in Slots, table'[r].state # "free"
          PROVE  table'[r].aux = Cardinality(Counted(r)') + Cardinality(Creating(r)')
      <4>1. CASE r = s
        <5>1. Counted(s)' = {} /\ Creating(s)' = {}
          BY <2>4, <2>5, <2>7 DEF Counted, Creating
        <5> QED
          BY <4>1, <5>1, <2>3, <2>5, FS_EmptySet
      <4>2. CASE r # s
        <5>1. Counted(r)' = Counted(r) /\ Creating(r)' = Creating(r)
          BY <4>2, <1>1, <2>3, <2>4 DEF Counted, Creating
        <5> QED
          BY <4>2, <5>1, <2>3, <3>1 DEF IInv, AuxCountExact
      <4> QED
        BY <4>1, <4>2
    <3> QED
      BY <3>1 DEF AuxCountExact
  <2>10. ExitedMeansQuiet'
    <3>1. ASSUME NEW r \in Slots, table'[r].state = "exited"
          PROVE  table'[r].requested /\ \A v \in Threads : proc'[v] = r => ~Live(v)'
      BY <3>1, <2>2, <2>3, <2>7 DEF IInv, ExitedMeansQuiet
    <3> QED
      BY <3>1 DEF ExitedMeansQuiet
  <2>11. DrainersAreMain'
    <3>1. ASSUME NEW v \in Threads, pc'[v] \in Draining
          PROVE  IsMain(v)' /\ table'[proc'[v]].requested
      <4>1. Live(v)' /\ pc[v] \in Draining
        BY <2>4, <3>1 DEF Live, Ended, Draining
      <4>2. proc[v] \in Slots \ {s} /\ table'[proc[v]] = table[proc[v]]
        BY <4>1, <1>0, <2>3, <2>7 DEF IInv, DrainersAreMain, IsMain
      <4> QED
        BY <4>1, <4>2 DEF IInv, DrainersAreMain, IsMain
    <3> QED
      BY <3>1 DEF DrainersAreMain
  <2>12. WaitersHold'
    <3>1. ASSUME NEW v \in Threads, pc[v] \in Waiting
          PROVE  /\ table'[wait[v].slot].pid = table[wait[v].slot].pid
                 /\ table'[wait[v].slot].state # "free"
                 /\ table[wait[v].slot].state = "exited" =>
                      table'[wait[v].slot].state = "exited"
      <4>1. wait[v].slot \in Slots /\ table[wait[v].slot].state # "free"
        BY <3>1 DEF IInv, WaitersHold, Holding
      <4> QED
        BY <4>1, <2>2, <2>3
    <3> QED
      BY <3>1, <2>4, WaitersFrame
  <2> QED
    BY <2>8, <2>9, <2>10, <2>11, <2>12
<1> QED
  BY <1>4, <1>5

LEMMA RequestedKeeps ==
  ASSUME NEW p \in Slot, NEW c \in Int
  PROVE  LET q == Requested(p, c)
         IN /\ q \in Slot /\ q.requested
            /\ q.state = p.state /\ q.main = p.main
            /\ q.pid = p.pid /\ q.aux = p.aux
BY DEF Requested, Slot

LEMMA SafeMainReturn ==
  ASSUME IInv, TInv', NEW t \in Threads, NEW c \in Codes, MainReturn(t, c)
  PROVE  IInv'
<1> DEFINE p == Requested(table[proc[t]], c)
<1>1. /\ pc[t] = "user" /\ IsMain(t) /\ MainDrain(t, p)
      /\ proc' = proc /\ wait' = wait
  BY DEF MainReturn
<1>2. table[proc[t]] \in Slot /\ c \in Int
  BY <1>1, Facts, PProcAssumption DEF IsMain
<1>3. /\ p \in Slot /\ p.requested /\ p.state = table[proc[t]].state
      /\ p.main = table[proc[t]].main /\ p.pid = table[proc[t]].pid
      /\ p.aux = table[proc[t]].aux
  BY <1>2, RequestedKeeps
<1> HIDE DEF p
<1> QED
  BY <1>1, <1>3, MainDrains DEF IInv

LEMMA SafeDrainRecheck ==
  ASSUME IInv, TInv', NEW t \in Threads, DrainRecheck(t)
  PROVE  IInv'
<1>1. /\ pc[t] = "recheck_aux" /\ MainDrain(t, table[proc[t]])
      /\ proc' = proc /\ wait' = wait
  BY DEF DrainRecheck
<1>2. IsMain(t) /\ table[proc[t]].requested
  BY <1>1 DEF IInv, DrainersAreMain, Draining
<1>3. table[proc[t]] \in Slot
  BY <1>2, Facts DEF IsMain
<1> QED
  BY <1>1, <1>2, <1>3, MainDrains DEF IInv

LEMMA SafePprocExit ==
  ASSUME IInv, TInv', NEW t \in Threads, NEW c \in Codes, PprocExit(t, c)
  PROVE  IInv'
<1> DEFINE p == Requested(table[proc[t]], c)
           moved == [pc EXCEPT ![t] = "none"]
<1>0. /\ table \in [Slots -> Slot] /\ pc \in [Threads -> PCs]
      /\ proc \in [Threads -> Slots \cup {NoSlot}] /\ NoSlot \notin Slots
  BY Facts
<1>1. pc[t] = "user" /\ wait' = wait
  BY DEF PprocExit
<1>2. ASSUME proc[t] # NoSlot
      PROVE  /\ p \in Slot /\ p.requested /\ p.state = table[proc[t]].state
             /\ p.main = table[proc[t]].main /\ p.pid = table[proc[t]].pid
             /\ p.aux = table[proc[t]].aux
  <2>1. table[proc[t]] \in Slot /\ c \in Int
    BY <1>0, <1>2, PProcAssumption
  <2> QED
    BY <2>1, RequestedKeeps
<1>3. CASE proc[t] = NoSlot /\ pc' = moved /\ UNCHANGED <<table, proc>>
  <2>1. \A v \in Threads :
           /\ Live(v)' => Live(v) /\ proc'[v] = proc[v]
           /\ Live(v) /\ proc[v] # NoSlot => Live(v)'
           /\ (pc'[v] = "create") <=> (pc[v] = "create")
           /\ pc'[v] \in Draining => pc[v] \in Draining
           /\ pc'[v] \in Waiting => pc'[v] = pc[v]
    BY <1>0, <1>1, <1>3 DEF Live, Ended, Waiting, Draining
  <2>2. WaitersHold'
    BY <2>1, <1>1, <1>3, WaitersFrame DEF IInv, WaitersHold, Holding
  <2> QED
    BY <2>1, <2>2, <1>3, FrameStep DEF IInv
<1>4. CASE IsMain(t) /\ MainDrain(t, p) /\ UNCHANGED proc
  <2> HIDE DEF p
  <2> QED
    BY <1>1, <1>2, <1>4, MainDrains DEF IInv, IsMain
<1>5. CASE /\ IsAux(t)
           /\ table' = [table EXCEPT ![proc[t]] =
                          IF p.aux > 0 THEN [p EXCEPT !.aux = @ - 1] ELSE p]
           /\ pc' = IF p.aux = 1 THEN WakeAuxDone(proc[t], moved) ELSE moved
           /\ proc' = [proc EXCEPT ![t] = NoSlot]
  <2>1. proc[t] \in Slots /\ proc[t] # NoSlot
    BY <1>0, <1>5 DEF IsAux
  <2>2. p.aux > 0
    <3>1. t \in Counted(proc[t])
      BY <1>1, <1>5 DEF IsAux, Counted, Live, Ended
    <3>2. Cardinality(Counted(proc[t])) > 0
      BY <3>1, <2>1, Facts, FS_EmptySet
    <3>3. table[proc[t]].aux = Cardinality(Counted(proc[t])) + Cardinality(Creating(proc[t]))
      BY <1>1, <2>1 DEF IInv, AuxCountExact, SlotsOutliveThreads, Live, Ended
    <3> HIDE DEF p
    <3> QED
      BY <3>2, <3>3, <2>1, <1>2, Facts
  <2>3. GoesOn(t, "none", proc[t])
    BY <1>5 DEF GoesOn
  <2> HIDE DEF p
  <2>4. table' = [table EXCEPT ![proc[t]] = [p EXCEPT !.aux = @ - 1]]
    BY <2>2, <1>5
  <2> QED
    BY <2>1, <2>3, <2>4, <1>1, <1>2, <1>5, AuxLeaves DEF IInv
<1> QED
  BY <1>3, <1>4, <1>5 DEF PprocExit

LEMMA SafeJoin ==
  ASSUME IInv, TInv', NEW t \in Threads, Join(t)
  PROVE  IInv'
<1>0. /\ table \in [Slots -> Slot] /\ pc \in [Threads -> PCs]
      /\ proc \in [Threads -> Slots \cup {NoSlot}] /\ NoSlot \notin Slots
  BY Facts
<1>2. pc[t] = "join" /\ table' = table /\ wait' = wait
  BY DEF Join
<1>3. \A v \in Threads :
         /\ Live(v)' => Live(v) /\ proc'[v] = proc[v]
         /\ Live(v) /\ proc[v] # NoSlot => Live(v)'
         /\ (pc'[v] = "create") <=> (pc[v] = "create")
         /\ pc'[v] \in Draining => pc[v] \in Draining
         /\ pc'[v] \in Waiting => pc[v] \in Waiting
         /\ pc'[v] \in {"join", "reap"} => pc[v] \in {"join", "reap"}
  <2>1. CASE pc' = [pc EXCEPT ![t] = "reap"] /\ proc' = proc
    BY <1>0, <1>2, <2>1 DEF Live, Ended, Waiting, Draining
  <2>2. ASSUME NEW m \in Threads, pc[m] \in Ended,
               pc' = [pc EXCEPT ![t] = "reap", ![m] = "none"],
               proc' = [proc EXCEPT ![m] = NoSlot]
        PROVE <1>3!:
    BY <1>0, <1>2, <2>2 DEF Live, Ended, Waiting, Draining
  <2> QED
    BY <2>1, <2>2 DEF Join
<1>4. WaitersHold'
  <2>1. \A v \in Threads : pc[v] \in Waiting =>
          wait[v].slot \in Slots /\ table[wait[v].slot].state # "free"
    BY DEF IInv, WaitersHold, Holding
  <2> QED
    BY <2>1, <1>2, <1>3, WaitersFrame
<1> QED
  BY <1>2, <1>3, <1>4, FrameStep DEF IInv

(* A thread t in pproc_wait tests the state of a slot it alone waits on.   *)
LEMMA AwaitStep ==
  ASSUME IInv, NEW t \in Threads, pc[t] \in {"user", "recheck_state"},
         NEW w \in [pid : Pids \cup {NoPid}, slot : Slots \cup {NoSlot},
                    main : Threads \cup {NoThread}],
         w.slot \in Holding(w.pid),
         \A u \in Threads \ {t} : pc[u] \in Waiting => wait[u].slot # w.slot,
         AwaitExit(t, w), table' = table, proc' = proc
  PROVE  SlotsOutliveThreads' /\ AuxCountExact' /\ ExitedMeansQuiet'
         /\ DrainersAreMain' /\ WaitersHold'
<1>0. /\ table \in [Slots -> Slot] /\ pc \in [Threads -> PCs]
      /\ wait \in [Threads -> [pid : Pids \cup {NoPid}, slot : Slots \cup {NoSlot},
                               main : Threads \cup {NoThread}]]
  BY DEF IInv, TInv, TypeOK
<1>1. PICK x \in [pid : Pids \cup {NoPid}, slot : Slots \cup {NoSlot},
                  main : Threads \cup {NoThread}] :
        /\ wait' = [wait EXCEPT ![t] = x] /\ x.slot = w.slot /\ x.pid = w.pid
  <2>1. w.slot \in Slots
    BY DEF Holding
  <2>2. table[w.slot].main \in Threads \cup {NoThread}
    BY <2>1, <1>0 DEF Slot
  <2> QED
    BY <2>2 DEF AwaitExit
<1>2. \/ pc' = [pc EXCEPT ![t] = "state_changed"]
      \/ pc' = [pc EXCEPT ![t] = "join"] /\ table[w.slot].state = "exited"
  BY DEF AwaitExit
<1>3. \A v \in Threads :
         /\ Live(v)' => Live(v) /\ proc'[v] = proc[v]
         /\ Live(v) /\ proc[v] # NoSlot => Live(v)'
         /\ (pc'[v] = "create") <=> (pc[v] = "create")
         /\ pc'[v] \in Draining => pc[v] \in Draining
         /\ pc'[v] \in Waiting => pc[v] \in Waiting \/ v = t
         /\ v # t => pc'[v] = pc[v] /\ wait'[v] = wait[v]
  BY <1>0, <1>1, <1>2 DEF Live, Ended, Waiting, Draining
<1>4. wait'[t] = x
  BY <1>0, <1>1
<1>5. pc'[t] \in {"join", "reap"} => table[x.slot].state = "exited"
  BY <1>0, <1>1, <1>2
<1>6. WaitersHold'
  <2>1. ASSUME NEW v \in Threads, pc'[v] \in Waiting
        PROVE  /\ wait'[v].slot \in Holding(wait'[v].pid)
               /\ pc'[v] \in {"join", "reap"} => table[wait'[v].slot].state = "exited"
               /\ \A u \in Threads \ {v} :
                    pc'[u] \in Waiting => wait'[u].slot # wait'[v].slot
    <3>1. CASE v = t
      BY <3>1, <1>1, <1>3, <1>4, <1>5
    <3>2. CASE v # t
      BY <2>1, <3>2, <1>1, <1>3, <1>4 DEF IInv, WaitersHold
    <3> QED
      BY <3>1, <3>2
  <2> QED
    BY <2>1 DEF WaitersHold, Holding
<1> QED
  BY <1>3, <1>6, FrameStep

(* The only step that needs ExclusiveWaits.                                *)
LEMMA SafeWait ==
  ASSUME ExclusiveWaits, IInv, TInv', NEW t \in Threads, NEW q \in Pids, Wait(t, q)
  PROVE  IInv'
<1>1. pc[t] = "user" /\ WaitAllowed(t, q) /\ table' = table /\ proc' = proc
  BY DEF Wait
<1>2. CASE UNCHANGED <<pc, wait>>
  BY <1>1, <1>2, FrameStep
     DEF IInv, WaitersHold, Holding, SlotsOutliveThreads, AuxCountExact, Counted,
         Creating, Live, ExitedMeansQuiet, DrainersAreMain, IsMain
<1>3. CASE \E s \in Slots :
             /\ IsFirst(s, Holding(q))
             /\ AwaitExit(t, [pid |-> q, slot |-> s, main |-> NoThread])
  <2>1. PICK s \in Slots :
          /\ s \in Holding(q)
          /\ AwaitExit(t, [pid |-> q, slot |-> s, main |-> NoThread])
    BY <1>3 DEF IsFirst
  <2>2. \A u \in Threads \ {t} : pc[u] \in Waiting => wait[u].slot # s
    <3>1. \A u \in Threads \ {t} : wait[u].pid # q
      BY <1>1 DEF WaitAllowed
    <3>2. table[s].pid = q
      BY <2>1 DEF Holding
    <3> QED
      BY <3>1, <3>2 DEF IInv, WaitersHold, Holding
  <2> DEFINE w == [pid |-> q, slot |-> s, main |-> NoThread]
  <2>3. /\ w \in [pid : Pids \cup {NoPid}, slot : Slots \cup {NoSlot},
                  main : Threads \cup {NoThread}]
        /\ w.slot = s /\ w.pid = q
    OBVIOUS
  <2>4. AwaitExit(t, w)
    BY <2>1
  <2> HIDE DEF w
  <2> QED
    BY <1>1, <2>1, <2>2, <2>3, <2>4, AwaitStep DEF IInv
<1> QED
  BY <1>2, <1>3 DEF Wait

LEMMA SafeWaitRecheck ==
  ASSUME IInv, TInv', NEW t \in Threads, WaitRecheck(t)
  PROVE  IInv'
<1>1. /\ pc[t] = "recheck_state" /\ AwaitExit(t, wait[t])
      /\ table' = table /\ proc' = proc
  BY DEF WaitRecheck
<1>2. wait[t] \in [pid : Pids \cup {NoPid}, slot : Slots \cup {NoSlot},
                   main : Threads \cup {NoThread}]
  BY DEF IInv, TInv, TypeOK
<1>3. /\ wait[t].slot \in Holding(wait[t].pid)
      /\ \A u \in Threads \ {t} : pc[u] \in Waiting => wait[u].slot # wait[t].slot
  BY <1>1 DEF IInv, WaitersHold, Waiting
<1> QED
  BY <1>1, <1>2, <1>3, AwaitStep DEF IInv

LEMMA SafeSpurious ==
  ASSUME IInv, TInv', NEW t \in Threads, Spurious(t)
  PROVE  IInv'
<1>1. \A v \in Threads :
         /\ Live(v)' => Live(v) /\ proc'[v] = proc[v]
         /\ Live(v) /\ proc[v] # NoSlot => Live(v)'
         /\ (pc'[v] = "create") <=> (pc[v] = "create")
         /\ pc'[v] \in Draining => pc[v] \in Draining
         /\ pc'[v] \in Waiting => pc[v] \in Waiting
         /\ pc'[v] \in {"join", "reap"} => pc[v] \in {"join", "reap"}
  BY Facts DEF Spurious, Asleep, Live, Ended, Draining, Waiting
<1>2. table' = table /\ wait' = wait
  BY DEF Spurious
<1>3. WaitersHold'
  <2>1. \A v \in Threads : pc[v] \in Waiting =>
          wait[v].slot \in Slots /\ table[wait[v].slot].state # "free"
    BY DEF IInv, WaitersHold, Holding
  <2> QED
    BY <2>1, <1>1, <1>2, WaitersFrame
<1> QED
  BY <1>1, <1>2, <1>3, FrameStep DEF IInv

LEMMA SafeStep ==
  ASSUME ExclusiveWaits
  PROVE  IInv /\ [Next]_vars => IInv'
<1> SUFFICES ASSUME IInv, [Next]_vars PROVE IInv'
  OBVIOUS
<1>1. TInv'
  BY TypeStep DEF IInv
<1>2. CASE UNCHANGED vars
  BY <1>1, <1>2
     DEF vars, IInv, WaitersHold, Holding, SlotsOutliveThreads, AuxCountExact,
         Counted, Creating, Live, ExitedMeansQuiet, DrainersAreMain, IsMain
<1>3. CASE Next
  BY <1>1, <1>3, SafeSpawn, SafeCreateDone, SafeSpawnFails, SafeCreateBegin,
     SafeCreateFails, SafeAuxReturn, SafeMainReturn, SafePprocExit,
     SafeDrainRecheck, SafeWait, SafeWaitRecheck, SafeJoin, SafeReap, SafeSpurious
     DEF Next
<1> QED
  BY <1>2, <1>3

(* With one waiter per pid, IInv holds in every reachable state.           *)
THEOREM SafeAlways ==
  ASSUME ExclusiveWaits
  PROVE  Spec => []IInv
BY SafeInit, SafeStep, PTL DEF Spec

(* A slot is never recycled under a thread of its process, so the          *)
(* trampolines' epilogues, pproc_getpid and pproc_exit always reach the     *)
(* process the thread was started in.                                      *)
THEOREM SlotsOutliveThreadsAlways ==
  ASSUME ExclusiveWaits
  PROVE  Spec => []SlotsOutliveThreads
<1>1. IInv => SlotsOutliveThreads
  BY DEF IInv
<1> QED
  BY <1>1, SafeAlways, PTL

(* What a thread in pproc_wait points at stays the process it asked for.   *)
THEOREM WaitersHoldAlways ==
  ASSUME ExclusiveWaits
  PROVE  Spec => []WaitersHold
<1>1. IInv => WaitersHold
  BY DEF IInv
<1> QED
  BY <1>1, SafeAlways, PTL

(* aux_threads never drifts from the number of auxiliary threads.          *)
THEOREM AuxCountExactAlways ==
  ASSUME ExclusiveWaits
  PROVE  Spec => []AuxCountExact
<1>1. IInv => AuxCountExact
  BY DEF IInv
<1> QED
  BY <1>1, SafeAlways, PTL

(* A process that has exited has no thread left.                           *)
THEOREM ExitedMeansQuietAlways ==
  ASSUME ExclusiveWaits
  PROVE  Spec => []ExitedMeansQuiet
<1>1. IInv => ExitedMeansQuiet
  BY DEF IInv
<1> QED
  BY <1>1, SafeAlways, PTL

-----------------------------------------------------------------------------
(* What callers see: the answers of pproc_wait and of pproc_count.         *)

(* Only pproc_wait returns, and its two returns are right: -1 for a pid    *)
(* that no slot holds, and else the code of the process it was asked for,  *)
(* which has exited and which the same critical section frees.             *)
LEMMA ReturnsOwnCode ==
  ASSUME IInv, [Next]_vars
  PROVE  [ret' # NoRet =>
            \/ /\ ret'.code = -1
               /\ Holding(ret'.pid) = {}
            \/ \E s \in Holding(ret'.pid) :
                 /\ table[s].state = "exited"
                 /\ table[s].code = ret'.code
                 /\ table'[s].state = "free"]_vars
<1>1. ASSUME NEW t \in Threads, NEW q \in Pids, Wait(t, q), ret' # NoRet
      PROVE  ret'.code = -1 /\ Holding(ret'.pid) = {}
  <2>1. Holding(q) = {} /\ ret' = [thread |-> t, pid |-> q, code |-> -1]
    BY <1>1, Zenon DEF Wait, Silent
  <2>2. ret'.pid = q /\ ret'.code = -1
    BY <2>1
  <2> QED
    BY <2>1, <2>2, Zenon
<1>2. ASSUME NEW t \in Threads, Reap(t)
      PROVE  \E s \in Holding(ret'.pid) :
               /\ table[s].state = "exited"
               /\ table[s].code = ret'.code
               /\ table'[s].state = "free"
  <2> DEFINE s == wait[t].slot
  <2>1. s \in Holding(wait[t].pid) /\ table[s].state = "exited"
    BY <1>2 DEF Reap, IInv, WaitersHold, Waiting
  <2>2. ret'.pid = wait[t].pid /\ ret'.code = table[s].code
    BY <1>2 DEF Reap
  <2>3. table'[s].state = "free"
    BY <1>2, <2>1, Facts DEF Reap, Holding, FreeSlot
  <2> QED
    BY <2>1, <2>2, <2>3
<1>3. CASE Next /\ ret' # NoRet
  <2>1. \E t \in Threads : Reap(t) \/ \E q \in Pids : Wait(t, q)
    BY <1>3 DEF Next, Silent, Spawn, CreateDone, SpawnFails, CreateBegin, CreateFails,
       AuxReturn, MainReturn, PprocExit, DrainRecheck, WaitRecheck, Join, Spurious
  <2> QED
    BY <2>1, <1>1, <1>2, <1>3
<1> QED
  BY <1>3

THEOREM WaitReturnsOwnCodeAlways ==
  ASSUME ExclusiveWaits
  PROVE  Spec => WaitReturnsOwnCode
BY SafeAlways, ReturnsOwnCode, PTL DEF Spec, WaitReturnsOwnCode

(* The slots that pproc_count should count.                                *)
InUse == {s \in Slots : table[s].state # "free"}

LEMMA InUseFinite == IsFiniteSet(InUse) /\ Cardinality(InUse) \in Nat
<1>1. IsFiniteSet(Slots)
  BY FS_Interval, PProcAssumption DEF Slots
<1>2. InUse \subseteq Slots
  BY DEF InUse
<1> QED
  BY <1>1, <1>2, FS_Subset, FS_CardinalityType

(* A new value for the slot of a process leaves it in use.                 *)
LEMMA InUseKept ==
  ASSUME IInv, NEW s \in Slots, table[s].state # "free", NEW p, p.state # "free",
         table' = [table EXCEPT ![s] = p]
  PROVE  InUse' = InUse
BY Facts DEF InUse

LEMMA DrainCount ==
  ASSUME IInv, NEW t \in Threads, Live(t), proc[t] \in Slots,
         NEW p \in Slot, p.state = table[proc[t]].state, MainDrain(t, p)
  PROVE  InUse' = InUse
<1> DEFINE s == proc[t]
<1>1. table[s].state = "running"
  BY Facts
<1>2. PICK n \in {p, [p EXCEPT !.state = "exited"]} : table' = [table EXCEPT ![s] = n]
  BY DEF MainDrain
<1>3. n.state # "free"
  BY <1>1, <1>2 DEF Slot
<1> QED
  BY <1>1, <1>2, <1>3, InUseKept

LEMMA AuxCount ==
  ASSUME IInv, NEW t \in Threads, Live(t), proc[t] \in Slots,
         NEW p \in Slot, p.state = table[proc[t]].state, NEW a,
         table' = [table EXCEPT ![proc[t]] = [p EXCEPT !.aux = a]]
  PROVE  InUse' = InUse
<1>1. table[proc[t]].state = "running"
  BY Facts
<1>2. [p EXCEPT !.aux = a].state # "free"
  BY <1>1 DEF Slot
<1> QED
  BY <1>1, <1>2, InUseKept

(* Only a spawn that succeeds and a reaping wait change the count.         *)
LEMMA CountStep ==
  ASSUME IInv, CountIsUnreaped, [Next]_vars
  PROVE  CountIsUnreaped'
<1>0. /\ table \in [Slots -> Slot] /\ pc \in [Threads -> PCs]
      /\ proc \in [Threads -> Slots \cup {NoSlot}] /\ NoSlot \notin Slots
  BY Facts
<1>1. live = Cardinality(InUse)
  BY DEF CountIsUnreaped, PprocCount, InUse
<1>2. SUFFICES live' = Cardinality(InUse')
  BY DEF CountIsUnreaped, PprocCount, InUse
<1>3. ASSUME live' = live, InUse' = InUse
      PROVE  live' = Cardinality(InUse')
  BY <1>1, <1>3
<1>4. ASSUME NEW t \in Threads, NEW u \in Threads, Spawn(t, u)
      PROVE  live' = Cardinality(InUse')
  <2>1. PICK s \in Slots :
          /\ table[s].state = "free"
          /\ table' = [table EXCEPT ![s] =
                [state |-> "running", pid |-> nextPid, main |-> u,
                 code |-> -1, requested |-> FALSE, aux |-> 0]]
    BY <1>4 DEF Spawn, IsFirst, Unused
  <2>2. InUse' = InUse \cup {s} /\ s \notin InUse
    BY <2>1, <1>0 DEF InUse
  <2>3. live' = live + 1
    BY <1>4 DEF Spawn
  <2> QED
    BY <2>2, <2>3, <1>1, InUseFinite, FS_AddElement
<1>5. ASSUME NEW t \in Threads, Reap(t)
      PROVE  live' = Cardinality(InUse')
  <2> DEFINE s == wait[t].slot
  <2>1. s \in Slots /\ table[s].state = "exited"
    BY <1>5 DEF Reap, IInv, WaitersHold, Waiting, Holding
  <2>2. table' = [table EXCEPT ![s] = FreeSlot] /\ live' = live - 1
    BY <1>5 DEF Reap
  <2>3. InUse' = InUse \ {s} /\ s \in InUse
    BY <2>1, <2>2, <1>0 DEF InUse, FreeSlot
  <2> QED
    BY <2>2, <2>3, <1>1, InUseFinite, FS_RemoveElement
<1>6. ASSUME NEW t \in Threads, SpawnFails(t)
      PROVE  live' = live /\ InUse' = InUse
  BY <1>6, <1>0 DEF SpawnFails, IsFirst, Unused, InUse, FreeSlot
<1>7. ASSUME NEW t \in Threads, CreateBegin(t)
      PROVE  live' = live /\ InUse' = InUse
  <2>1. proc[t] \in Slots /\ Live(t)
    BY <1>7, <1>0 DEF CreateBegin, Live, Ended
  <2>2. table' = [table EXCEPT ![proc[t]] =
                    [table[proc[t]] EXCEPT !.aux = table[proc[t]].aux + 1]]
    BY <1>7, <1>0, <2>1 DEF CreateBegin
  <2>3. table[proc[t]] \in Slot /\ live' = live
    BY <1>7, <1>0, <2>1 DEF CreateBegin
  <2> QED
    BY <2>1, <2>2, <2>3, AuxCount
<1>8. ASSUME NEW t \in Threads, CreateFails(t) \/ AuxReturn(t)
      PROVE  live' = live /\ InUse' = InUse
  <2>1. proc[t] \in Slots /\ Live(t)
    BY <1>8, <1>0 DEF CreateFails, AuxReturn, IsAux, Live, Ended, IInv, TInv
  <2>2. table' = [table EXCEPT ![proc[t]] =
                    [table[proc[t]] EXCEPT !.aux = table[proc[t]].aux - 1]]
    BY <1>8, <1>0, <2>1 DEF CreateFails, AuxReturn, DropAux
  <2>3. table[proc[t]] \in Slot /\ live' = live
    BY <1>8, <1>0, <2>1 DEF CreateFails, AuxReturn
  <2> QED
    BY <2>1, <2>2, <2>3, AuxCount
<1>9. ASSUME NEW t \in Threads, NEW c \in Codes, MainReturn(t, c) \/ PprocExit(t, c)
      PROVE  live' = live /\ InUse' = InUse
  <2> DEFINE p == Requested(table[proc[t]], c)
  <2>1. Live(t) /\ live' = live
    BY <1>9 DEF MainReturn, PprocExit, Live, Ended
  <2>2. CASE proc[t] = NoSlot
    BY <1>9, <2>1, <2>2 DEF MainReturn, PprocExit, IsMain, IsAux, InUse
  <2>3. CASE proc[t] # NoSlot
    <3>1. proc[t] \in Slots /\ c \in Int /\ table[proc[t]] \in Slot
      BY <2>3, <1>0, PProcAssumption
    <3>2. p \in Slot /\ p.state = table[proc[t]].state
      BY <3>1, RequestedKeeps
    <3>3. \/ MainDrain(t, p)
          \/ table' = [table EXCEPT ![proc[t]] =
                         IF p.aux > 0 THEN [p EXCEPT !.aux = @ - 1] ELSE p]
      BY <1>9, <2>3, Zenon DEF MainReturn, PprocExit
    <3> HIDE DEF p
    <3>4. table[proc[t]].state = "running" /\ [p EXCEPT !.aux = p.aux - 1].state = p.state
      BY <2>1, <3>1, <3>2, Facts DEF Slot
    <3>5. CASE MainDrain(t, p)
      BY <3>5, <3>1, <3>2, <2>1, DrainCount
    <3>6. ASSUME table' = [table EXCEPT ![proc[t]] =
                             IF p.aux > 0 THEN [p EXCEPT !.aux = p.aux - 1] ELSE p]
          PROVE  InUse' = InUse
      <4>1. PICK n \in {p, [p EXCEPT !.aux = p.aux - 1]} :
              table' = [table EXCEPT ![proc[t]] = n]
        BY <3>6
      <4>2. n.state # "free"
        BY <4>1, <3>2, <3>4
      <4> QED
        BY <4>1, <4>2, <3>1, <3>4, InUseKept
    <3> QED
      BY <3>3, <3>5, <3>6, <2>1
  <2> QED
    BY <2>2, <2>3
<1>10. ASSUME NEW t \in Threads, DrainRecheck(t)
       PROVE  live' = live /\ InUse' = InUse
  <2>1. proc[t] \in Slots /\ Live(t) /\ table[proc[t]] \in Slot
    BY <1>10, <1>0 DEF DrainRecheck, IInv, TInv, Draining, Live, Ended
  <2>2. MainDrain(t, table[proc[t]]) /\ live' = live
    BY <1>10 DEF DrainRecheck
  <2> QED
    BY <2>1, <2>2, DrainCount
<1>11. ASSUME NEW t \in Threads,
              \/ \E u \in Threads : CreateDone(t, u)
              \/ \E q \in Pids : Wait(t, q)
              \/ WaitRecheck(t) \/ Join(t) \/ Spurious(t)
       PROVE  live' = live /\ InUse' = InUse
  BY <1>11 DEF CreateDone, Wait, WaitRecheck, Join, Spurious, InUse
<1>12. CASE UNCHANGED vars
  BY <1>3, <1>12 DEF vars, InUse
<1>13. CASE Next
  BY <1>13, <1>3, <1>4, <1>5, <1>6, <1>7, <1>8, <1>9, <1>10, <1>11 DEF Next
<1> QED
  BY <1>12, <1>13

(* pproc_count returns the number of processes nobody has reaped.          *)
THEOREM CountIsUnreapedAlways ==
  ASSUME ExclusiveWaits
  PROVE  Spec => []CountIsUnreaped
<1>1. Init => CountIsUnreaped
  <2> SUFFICES ASSUME Init PROVE CountIsUnreaped
    OBVIOUS
  <2>1. {s \in Slots : table[s].state # "free"} = {} /\ live = 0
    BY DEF Init, FreeSlot
  <2> QED
    BY <2>1, FS_EmptySet DEF CountIsUnreaped, PprocCount
<1> QED
  BY <1>1, SafeAlways, CountStep, PTL DEF Spec

=============================================================================
