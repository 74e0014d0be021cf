------------------------ MODULE PProcRefinementProofs ------------------------
(* That PProc implements ProcLifecycle, for every value of its constants.  *)
EXTENDS PProcRefinement, PProcProofs

-----------------------------------------------------------------------------
(* What the refinement needs beyond IInv: pids are given out in order, no  *)
(* two slots in use hold the same one, and a code that was requested is    *)
(* one that a guest uses.                                                  *)
Numbered == spawned < MaxSpawns => nextPid = spawned + 1

OwnPids(tab, n) ==
  \A s \in Slots : tab[s].state # "free" =>
    /\ tab[s].pid \in 1..n
    /\ \A r \in Slots : tab[r].state # "free" /\ tab[r].pid = tab[s].pid => r = s

Decided == \A s \in Slots : table[s].state # "free" /\ table[s].requested =>
                              table[s].code \in Codes

Mine == Numbered /\ OwnPids(table, spawned) /\ Decided
RInv == IInv /\ Mine

-----------------------------------------------------------------------------
(* The phases of the pids, as a function of the table.                     *)
PhaseMap == [q \in 1..MaxSpawns |-> PhaseOf(q)]

HoldingIn(tab, q) == {s \in Slots : tab[s].state # "free" /\ tab[s].pid = q}
SlotPhase(p) ==
  IF p.state = "exited" THEN [st |-> "exited", code |-> p.code]
  ELSE IF p.requested THEN [st |-> "exiting", code |-> p.code]
  ELSE [st |-> "running", code |-> -1]
PhaseIn(tab, n, q) ==
  IF q > n THEN [st |-> "unborn", code |-> -1]
  ELSE IF HoldingIn(tab, q) = {} THEN [st |-> "gone", code |-> -1]
  ELSE SlotPhase(tab[CHOOSE s \in HoldingIn(tab, q) : TRUE])

LEMMA PhaseNow ==
  ASSUME NEW q \in 1..MaxSpawns
  PROVE  PhaseMap[q] = PhaseIn(table, spawned, q)
BY DEF PhaseMap, PhaseOf, PhaseIn, Holding, HoldingIn, SlotPhase

LEMMA PhaseNext ==
  ASSUME NEW q \in 1..MaxSpawns
  PROVE  PhaseMap'[q] = PhaseIn(table', spawned', q)
BY DEF PhaseMap, PhaseOf, PhaseIn, Holding, HoldingIn, SlotPhase

\* Of a pid that a slot holds, and of one that no slot holds.
LEMMA Held ==
  ASSUME NEW tab, NEW n \in Nat, OwnPids(tab, n),
         NEW s \in Slots, tab[s].state # "free"
  PROVE  PhaseIn(tab, n, tab[s].pid) = SlotPhase(tab[s])
<1> DEFINE q == tab[s].pid
<1>1. HoldingIn(tab, q) = {s}
  BY DEF HoldingIn, OwnPids
<1>2. ~(q > n)
  BY DEF OwnPids
<1>3. (CHOOSE r \in HoldingIn(tab, q) : TRUE) = s
  BY <1>1
<1> HIDE DEF q
<1>4. HoldingIn(tab, q) # {}
  BY <1>1
<1> QED
  BY <1>2, <1>3, <1>4 DEF PhaseIn, q

LEMMA NotHeld ==
  ASSUME NEW tab, NEW n \in Nat, NEW q \in Nat,
         \A s \in Slots : tab[s].state # "free" => tab[s].pid # q
  PROVE  PhaseIn(tab, n, q) = [st |-> IF q > n THEN "unborn" ELSE "gone", code |-> -1]
<1>1. HoldingIn(tab, q) = {}
  BY DEF HoldingIn
<1> QED
  BY <1>1 DEF PhaseIn

\* Of a pid that the same slots hold in two tables, with the same phase.
LEMMA SamePhase ==
  ASSUME NEW tab, NEW tab2, NEW n \in Nat, NEW n2 \in Nat, NEW q \in Nat,
         q > n <=> q > n2,
         HoldingIn(tab, q) = HoldingIn(tab2, q),
         \A s \in HoldingIn(tab, q) : SlotPhase(tab[s]) = SlotPhase(tab2[s])
  PROVE  PhaseIn(tab, n, q) = PhaseIn(tab2, n2, q)
<1> DEFINE s == CHOOSE r \in HoldingIn(tab, q) : TRUE
<1>1. CASE HoldingIn(tab, q) = {}
  BY <1>1 DEF PhaseIn
<1>2. CASE HoldingIn(tab, q) # {}
  <2>1. s \in HoldingIn(tab, q) /\ s = CHOOSE r \in HoldingIn(tab2, q) : TRUE
    BY <1>2
  <2>2. SlotPhase(tab[s]) = SlotPhase(tab2[s])
    BY <2>1
  <2> QED
    BY <1>2, <2>1, <2>2 DEF PhaseIn
<1> QED
  BY <1>1, <1>2

-----------------------------------------------------------------------------
(* The steps, by what they do to the table.                                *)
LEMMA RFacts ==
  ASSUME RInv
  PROVE  /\ table \in [Slots -> Slot] /\ spawned \in 0..MaxSpawns
         /\ nextPid \in Pids /\ MaxSpawns \in Nat /\ PidMod \in Nat \ {0}
         /\ MaxSpawns < PidMod
BY PProcAssumption, NoWrap DEF RInv, IInv, TInv, TypeOK

\* Nothing of a slot in use changes that its phase shows.
LEMMA NothingSeen ==
  ASSUME RInv, UNCHANGED <<spawned, nextPid>>, ret' = NoRet,
         \A s \in Slots : /\ table'[s].state = table[s].state
                          /\ table'[s].pid = table[s].pid
                          /\ table'[s].code = table[s].code
                          /\ table'[s].requested = table[s].requested
  PROVE  Mine' /\ Lifecycle!Hidden
<1>1. Mine'
  BY DEF RInv, Mine, Numbered, OwnPids, Decided
<1>2. PhaseMap' = PhaseMap
  <2>1. ASSUME NEW q \in 1..MaxSpawns PROVE PhaseMap'[q] = PhaseMap[q]
    <3>1. HoldingIn(table, q) = HoldingIn(table', q)
      BY DEF HoldingIn
    <3>2. \A s \in HoldingIn(table, q) : SlotPhase(table[s]) = SlotPhase(table'[s])
      BY DEF HoldingIn, SlotPhase
    <3>3. spawned \in Nat /\ spawned' \in Nat /\ q \in Nat
      BY RFacts
    <3>4. PhaseIn(table, spawned, q) = PhaseIn(table', spawned', q)
      BY <3>1, <3>2, <3>3, SamePhase
    <3> QED
      BY <3>4, PhaseNow, PhaseNext
  <2> QED
    BY <2>1 DEF PhaseMap
<1> QED
  BY <1>1, <1>2 DEF Lifecycle!Hidden, Lifecycle!NoAnswer, NoRet, NoPid, PhaseMap

\* A pid that the slot that changes holds neither before nor after.
LEMMA OthersSame ==
  ASSUME RInv, NEW s \in Slots, \A r \in Slots \ {s} : table'[r] = table[r],
         NEW q \in 1..MaxSpawns, spawned' \in Nat, q > spawned <=> q > spawned',
         table[s].state # "free" => table[s].pid # q,
         table'[s].state # "free" => table'[s].pid # q
  PROVE  PhaseMap'[q] = PhaseMap[q]
<1> DEFINE after == table'
<1>1. HoldingIn(table, q) = HoldingIn(after, q)
  BY DEF HoldingIn
<1>2. \A r \in HoldingIn(table, q) : SlotPhase(table[r]) = SlotPhase(after[r])
  BY DEF HoldingIn
<1>3. spawned \in Nat /\ q \in Nat
  BY RFacts
<1> HIDE DEF after
<1>4. PhaseIn(table, spawned, q) = PhaseIn(after, spawned', q)
  BY <1>1, <1>2, <1>3, SamePhase
<1> QED
  BY <1>4, PhaseNow, PhaseNext DEF after

\* One process changes.
LEMMA OneChanges ==
  ASSUME RInv, UNCHANGED <<spawned, nextPid>>,
         NEW s \in Slots, table[s].state # "free", NEW p \in Slot,
         table' = [table EXCEPT ![s] = p], p.pid = table[s].pid, p.state # "free",
         p.requested => p.code \in Codes
  PROVE  /\ Mine'
         /\ PhaseMap' = [PhaseMap EXCEPT ![p.pid] = SlotPhase(p)]
         /\ PhaseMap[p.pid] = SlotPhase(table[s]) /\ p.pid \in 1..MaxSpawns
<1>1. /\ table'[s] = p /\ \A r \in Slots \ {s} : table'[r] = table[r]
      /\ spawned \in Nat /\ spawned' = spawned /\ spawned <= MaxSpawns /\ MaxSpawns \in Nat
  BY RFacts
<1>2. OwnPids(table, spawned)
  BY DEF RInv, Mine
<1>3. \A r \in Slots : /\ table'[r].pid = table[r].pid
                       /\ table'[r].state = "free" <=> table[r].state = "free"
  BY <1>1
<1>4. OwnPids(table', spawned')
  BY <1>1, <1>2, <1>3 DEF OwnPids
<1>5. Mine'
  <2>1. Decided'
    BY <1>1 DEF RInv, Mine, Decided
  <2> QED
    BY <1>4, <2>1 DEF RInv, Mine, Numbered
<1>6. p.pid \in 1..MaxSpawns
  BY <1>1, <1>2 DEF OwnPids
<1>7. PhaseMap[p.pid] = SlotPhase(table[s])
  BY <1>1, <1>2, <1>6, Held, PhaseNow
<1>8. PhaseMap'[p.pid] = SlotPhase(p)
  <2>1. PhaseIn(table', spawned', table'[s].pid) = SlotPhase(table'[s])
    <3>1. OwnPids(table', spawned') /\ spawned' \in Nat /\ table'[s].state # "free"
      BY <1>1, <1>3, <1>4
    <3> QED
      BY <3>1, Held
  <2> QED
    BY <1>1, <1>6, <2>1, PhaseNext
<1>9. ASSUME NEW q \in 1..MaxSpawns, q # p.pid PROVE PhaseMap'[q] = PhaseMap[q]
  <2>1. table[s].pid # q /\ table'[s].pid # q /\ (q > spawned <=> q > spawned')
    BY <1>1, <1>9
  <2> QED
    BY <1>1, <2>1, OthersSame
<1>10. PhaseMap' = [PhaseMap EXCEPT ![p.pid] = SlotPhase(p)]
  BY <1>8, <1>9 DEF PhaseMap
<1> QED
  BY <1>5, <1>6, <1>7, <1>10

\* A pid is allocated: nothing held it, and the next one is its successor.
LEMMA NextOne ==
  ASSUME RInv, spawned < MaxSpawns, spawned' = spawned + 1, nextPid' = NextPid
  PROVE  /\ nextPid = spawned + 1 /\ nextPid \in 1..MaxSpawns /\ Numbered'
         /\ spawned \in Nat /\ spawned' \in Nat
<1>1. /\ spawned \in Nat /\ MaxSpawns \in Nat /\ PidMod \in Nat \ {0}
      /\ MaxSpawns < PidMod /\ nextPid = spawned + 1
  BY RFacts DEF RInv, Mine, Numbered
<1>2. ASSUME spawned + 1 < MaxSpawns PROVE nextPid' = spawned + 2
  <2>1. nextPid + 1 \in Nat /\ nextPid + 1 < PidMod
    BY <1>1, <1>2
  <2>2. (nextPid + 1) % PidMod = nextPid + 1
    BY <1>1, <2>1, Z3
  <2> QED
    BY <1>1, <2>2 DEF NextPid
<1>3. Numbered'
  BY <1>1, <1>2 DEF Numbered
<1> QED
  BY <1>1, <1>3

LEMMA Appears ==
  ASSUME RInv, spawned < MaxSpawns, spawned' = spawned + 1, nextPid' = NextPid,
         NEW s \in Slots, table[s].state = "free", NEW p \in Slot,
         table' = [table EXCEPT ![s] = p], p.pid = nextPid, p.state = "running", ~p.requested,
         ret' = NoRet
  PROVE  Mine' /\ Lifecycle!Allocate(Lifecycle!Running)
<1> DEFINE q == spawned + 1
<1>1. /\ nextPid = q /\ q \in 1..MaxSpawns /\ Numbered' /\ spawned \in Nat /\ spawned' \in Nat
  BY NextOne
<1>2. /\ table'[s] = p /\ \A r \in Slots \ {s} : table'[r] = table[r]
  BY RFacts
<1>3. OwnPids(table, spawned)
  BY DEF RInv, Mine
<1>4. OwnPids(table', spawned')
  <2>1. \A r \in Slots : table[r].state # "free" => table[r].pid \in 1..spawned
    BY <1>3 DEF OwnPids
  <2> QED
    BY <1>1, <1>2, <1>3, <2>1 DEF OwnPids
<1>5. Mine'
  <2>1. Decided'
    BY <1>2 DEF RInv, Mine, Decided
  <2> QED
    BY <1>1, <1>4, <2>1 DEF Mine
<1>6. PhaseMap'[q] = [st |-> "running", code |-> -1]
  <2>1. PhaseIn(table', spawned', table'[s].pid) = SlotPhase(table'[s])
    <3>1. OwnPids(table', spawned') /\ spawned' \in Nat /\ table'[s].state # "free"
      BY <1>1, <1>2, <1>4
    <3> QED
      BY <3>1, Held
  <2>2. SlotPhase(p) = [st |-> "running", code |-> -1]
    BY DEF SlotPhase
  <2>3. PhaseMap'[q] = PhaseIn(table', spawned', q)
    BY <1>1, PhaseNext
  <2>4. table'[s] = p /\ p.pid = q
    BY <1>1, <1>2
  <2> HIDE DEF q
  <2> QED
    BY <2>1, <2>2, <2>3, <2>4
<1>7. ASSUME NEW r \in 1..MaxSpawns, r # q PROVE PhaseMap'[r] = PhaseMap[r]
  <2>1. table'[s].pid # r /\ (r > spawned <=> r > spawned')
    BY <1>1, <1>2, <1>7
  <2> QED
    BY <1>1, <1>2, <2>1, OthersSame
<1>8. PhaseMap' = [PhaseMap EXCEPT ![q] = [st |-> "running", code |-> -1]]
  BY <1>6, <1>7 DEF PhaseMap
<1> QED
  BY <1>5, <1>8 DEF Lifecycle!Allocate, Lifecycle!Running, Lifecycle!NoAnswer, NoRet,
                    NoPid, PhaseMap

LEMMA Lost ==
  ASSUME RInv, spawned < MaxSpawns, spawned' = spawned + 1, nextPid' = NextPid,
         NEW s \in Slots, table[s].state = "free", table' = [table EXCEPT ![s] = FreeSlot],
         ret' = NoRet
  PROVE  Mine' /\ Lifecycle!Allocate(Lifecycle!Gone)
<1> DEFINE q == spawned + 1
<1>1. q \in 1..MaxSpawns /\ Numbered' /\ spawned \in Nat /\ spawned' \in Nat
  BY NextOne
<1>2. table'[s].state = "free" /\ \A r \in Slots \ {s} : table'[r] = table[r]
  BY RFacts DEF FreeSlot
<1>3. \A r \in Slots : table[r].state # "free" => table[r].pid \in 1..spawned
  BY DEF RInv, Mine, OwnPids
<1>4. OwnPids(table', spawned')
  BY <1>1, <1>2, <1>3 DEF RInv, Mine, OwnPids
<1>5. Mine'
  <2>1. Decided'
    BY <1>2 DEF RInv, Mine, Decided
  <2> QED
    BY <1>1, <1>4, <2>1 DEF Mine
<1>6. PhaseMap'[q] = [st |-> "gone", code |-> -1]
  <2>1. \A r \in Slots : table'[r].state # "free" => table'[r].pid # q
    BY <1>1, <1>2, <1>3
  <2>2. q \in Nat /\ ~(q > spawned')
    BY <1>1
  <2>3. PhaseIn(table', spawned', q) =
          [st |-> IF q > spawned' THEN "unborn" ELSE "gone", code |-> -1]
    BY <1>1, <2>1, <2>2, NotHeld
  <2>4. PhaseMap'[q] = PhaseIn(table', spawned', q)
    BY <1>1, PhaseNext
  <2> QED
    BY <2>2, <2>3, <2>4
<1>7. ASSUME NEW r \in 1..MaxSpawns, r # q PROVE PhaseMap'[r] = PhaseMap[r]
  <2>1. r > spawned <=> r > spawned'
    BY <1>1, <1>7
  <2> QED
    BY <1>1, <1>2, <2>1, OthersSame
<1>8. PhaseMap' = [PhaseMap EXCEPT ![q] = [st |-> "gone", code |-> -1]]
  BY <1>6, <1>7 DEF PhaseMap
<1> QED
  BY <1>5, <1>8 DEF Lifecycle!Allocate, Lifecycle!Gone, Lifecycle!NoAnswer, NoRet,
                    NoPid, PhaseMap

LEMMA Reaped ==
  ASSUME RInv, UNCHANGED <<spawned, nextPid>>, NEW t \in Threads,
         NEW s \in Slots, table[s].state = "exited", table' = [table EXCEPT ![s] = FreeSlot],
         ret' = [thread |-> t, pid |-> table[s].pid, code |-> table[s].code]
  PROVE  /\ Mine' /\ table[s].pid \in 1..MaxSpawns
         /\ Lifecycle!ReapBy(t, table[s].pid)
<1> DEFINE q == table[s].pid
<1>1. table'[s].state = "free" /\ \A r \in Slots \ {s} : table'[r] = table[r]
  BY RFacts DEF FreeSlot
<1>2. OwnPids(table, spawned) /\ spawned \in Nat /\ spawned <= MaxSpawns /\ MaxSpawns \in Nat
  BY RFacts DEF RInv, Mine
<1>3. q \in 1..spawned /\ q \in 1..MaxSpawns
  BY <1>2 DEF OwnPids
<1>4. Mine'
  <2>1. OwnPids(table', spawned') /\ Decided'
    BY <1>1, <1>2 DEF RInv, Mine, OwnPids, Decided
  <2> QED
    BY <2>1 DEF RInv, Mine, Numbered
<1>5. PhaseMap[q] = [st |-> "exited", code |-> table[s].code]
  <2>1. PhaseIn(table, spawned, q) = SlotPhase(table[s])
    BY <1>2, Held
  <2> QED
    BY <1>3, <2>1, PhaseNow DEF SlotPhase
<1>6. PhaseMap'[q] = [st |-> "gone", code |-> -1]
  <2>1. \A r \in Slots : table'[r].state # "free" => table'[r].pid # q
    BY <1>1, <1>2 DEF OwnPids
  <2>2. q \in Nat /\ spawned' \in Nat /\ ~(q > spawned')
    BY <1>2, <1>3
  <2>3. PhaseIn(table', spawned', q) =
          [st |-> IF q > spawned' THEN "unborn" ELSE "gone", code |-> -1]
    BY <2>1, <2>2, NotHeld
  <2>4. PhaseMap'[q] = PhaseIn(table', spawned', q)
    BY <1>3, PhaseNext
  <2> QED
    BY <2>2, <2>3, <2>4
<1>7. ASSUME NEW r \in 1..MaxSpawns, r # q PROVE PhaseMap'[r] = PhaseMap[r]
  <2>1. spawned' \in Nat /\ (r > spawned <=> r > spawned')
    BY <1>2
  <2> QED
    BY <1>1, <1>7, <2>1, OthersSame
<1>8. PhaseMap' = [PhaseMap EXCEPT ![q] = [st |-> "gone", code |-> -1]]
  BY <1>6, <1>7 DEF PhaseMap
<1> QED
  BY <1>3, <1>4, <1>5, <1>8 DEF Lifecycle!ReapBy, Lifecycle!Gone, PhaseMap

\* The exit of a running process is requested, or is over, or both; or it had
\* been requested before.
LEMMA Leaves ==
  ASSUME RInv, UNCHANGED <<spawned, nextPid>>, ret' = NoRet,
         NEW s \in Slots, table[s].state = "running", NEW p \in Slot,
         table' = [table EXCEPT ![s] = p], p.pid = table[s].pid,
         p.state \in {"running", "exited"}, p.requested, p.code \in Codes,
         table[s].requested => p.code = table[s].code
  PROVE  Mine' /\ Lifecycle!AbsNext
<1> DEFINE q == p.pid
           c == p.code
<1>1. /\ Mine' /\ PhaseMap' = [PhaseMap EXCEPT ![q] = SlotPhase(p)]
      /\ PhaseMap[q] = SlotPhase(table[s]) /\ q \in 1..MaxSpawns /\ c \in Codes
  BY OneChanges
<1>2. PhaseMap[q] \in {Lifecycle!Running, Lifecycle!Exiting(c)}
  BY <1>1 DEF SlotPhase, Lifecycle!Running, Lifecycle!Exiting
<1>3. \A from, to : PhaseMap[q] \in from /\ PhaseMap' = [PhaseMap EXCEPT ![q] = to]
                      => Lifecycle!Become(q, from, to)
  BY DEF Lifecycle!Become, Lifecycle!NoAnswer, NoRet, NoPid, PhaseMap
<1>4. CASE p.state = "exited"
  <2>1. SlotPhase(p) = Lifecycle!Exited(c)
    BY <1>4 DEF SlotPhase, Lifecycle!Exited
  <2>2. Lifecycle!Exit(q, c)
    BY <1>1, <1>2, <1>3, <2>1 DEF Lifecycle!Exit
  <2> QED
    BY <1>1, <2>2 DEF Lifecycle!AbsNext, Lifecycle!AllPids
<1>5. CASE p.state = "running"
  <2>1. SlotPhase(p) = Lifecycle!Exiting(c)
    BY <1>5 DEF SlotPhase, Lifecycle!Exiting
  <2>2. CASE PhaseMap[q] = Lifecycle!Running
    <3>1. Lifecycle!Request(q, c)
      BY <1>1, <1>3, <2>1, <2>2 DEF Lifecycle!Request
    <3> QED
      BY <1>1, <3>1 DEF Lifecycle!AbsNext, Lifecycle!AllPids
  <2>3. CASE PhaseMap[q] = Lifecycle!Exiting(c)
    <3>1. PhaseMap' = PhaseMap
      BY <1>1, <2>1, <2>3 DEF PhaseMap
    <3>2. Lifecycle!Hidden
      BY <3>1 DEF Lifecycle!Hidden, Lifecycle!NoAnswer, NoRet, NoPid, PhaseMap
    <3> QED
      BY <1>1, <3>2 DEF Lifecycle!AbsNext
  <2> QED
    BY <1>2, <2>2, <2>3
<1> QED
  BY <1>4, <1>5

\* A new count of auxiliary threads is not seen.
LEMMA OnlyAux ==
  ASSUME RInv, UNCHANGED <<spawned, nextPid>>, ret' = NoRet,
         NEW s \in Slots, NEW a, table' = [table EXCEPT ![s].aux = a]
  PROVE  Mine' /\ Lifecycle!AbsNext
<1>1. \A r \in Slots : /\ table'[r].state = table[r].state
                       /\ table'[r].pid = table[r].pid
                       /\ table'[r].code = table[r].code
                       /\ table'[r].requested = table[r].requested
  BY RFacts DEF Slot
<1> QED
  BY <1>1, NothingSeen DEF Lifecycle!AbsNext

-----------------------------------------------------------------------------
(* The actions of pproc.c.                                                 *)
LEMMA QuietActions ==
  ASSUME RInv, NEW t \in Threads,
         \/ \E u \in Threads : CreateDone(t, u)
         \/ WaitRecheck(t) \/ Join(t) \/ Spurious(t)
  PROVE  Mine' /\ Lifecycle!AbsNext
<1>1. UNCHANGED <<table, spawned, nextPid>> /\ ret' = NoRet
  BY DEF CreateDone, WaitRecheck, Join, Spurious, Silent
<1> QED
  BY <1>1, NothingSeen DEF Lifecycle!AbsNext

LEMMA SpawnActions ==
  ASSUME RInv, NEW t \in Threads, SpawnFails(t) \/ \E u \in Threads : Spawn(t, u)
  PROVE  Mine' /\ Lifecycle!AbsNext
<1>1. spawned < MaxSpawns /\ spawned' = spawned + 1 /\ nextPid' = NextPid /\ ret' = NoRet
  BY DEF SpawnFails, Spawn, Silent
<1>2. CASE SpawnFails(t)
  <2>1. PICK s \in Slots : table[s].state = "free" /\ table' = [table EXCEPT ![s] = FreeSlot]
    BY <1>2 DEF SpawnFails, IsFirst, Unused
  <2> QED
    BY <1>1, <2>1, Lost DEF Lifecycle!AbsNext
<1>3. ASSUME NEW u \in Threads, Spawn(t, u) PROVE Mine' /\ Lifecycle!AbsNext
  <2> DEFINE p == [state |-> "running", pid |-> nextPid, main |-> u,
                   code |-> -1, requested |-> FALSE, aux |-> 0]
  <2>1. PICK s \in Slots : table[s].state = "free" /\ table' = [table EXCEPT ![s] = p]
    BY <1>3 DEF Spawn, IsFirst, Unused
  <2>2. p \in Slot /\ p.pid = nextPid /\ p.state = "running" /\ ~p.requested
    BY RFacts DEF Slot, States
  <2> HIDE DEF p
  <2> QED
    BY <1>1, <2>1, <2>2, Appears DEF Lifecycle!AbsNext
<1> QED
  BY <1>2, <1>3

LEMMA AuxActions ==
  ASSUME RInv, NEW t \in Threads, CreateBegin(t) \/ CreateFails(t) \/ AuxReturn(t)
  PROVE  Mine' /\ Lifecycle!AbsNext
<1>1. UNCHANGED <<spawned, nextPid>> /\ ret' = NoRet
  BY DEF CreateBegin, CreateFails, AuxReturn, Silent
<1>2. proc[t] \in Slots
  BY Facts DEF RInv, IInv, TInv, CreateBegin, CreateFails, AuxReturn, IsAux
<1>3. \E a : table' = [table EXCEPT ![proc[t]].aux = a]
  BY DEF CreateBegin, CreateFails, AuxReturn, DropAux
<1> QED
  BY <1>1, <1>2, <1>3, OnlyAux

\* The epilogue of a main thread, on a slot value whose exit is requested.
LEMMA Drains ==
  ASSUME RInv, UNCHANGED <<spawned, nextPid>>, ret' = NoRet,
         NEW t \in Threads, proc[t] \in Slots, table[proc[t]].state = "running",
         NEW p \in Slot, p.pid = table[proc[t]].pid, p.state = "running", p.requested,
         p.code \in Codes, table[proc[t]].requested => p.code = table[proc[t]].code,
         MainDrain(t, p)
  PROVE  Mine' /\ Lifecycle!AbsNext
<1> DEFINE over == [p EXCEPT !.state = "exited"]
<1>1. /\ over \in Slot /\ over.pid = p.pid /\ over.state = "exited"
      /\ over.requested /\ over.code = p.code
  BY DEF Slot, States
<1>2. table' = [table EXCEPT ![proc[t]] = p] \/ table' = [table EXCEPT ![proc[t]] = over]
  BY DEF MainDrain
<1> HIDE DEF over
<1>3. CASE table' = [table EXCEPT ![proc[t]] = p]
  BY <1>3, Leaves
<1>4. CASE table' = [table EXCEPT ![proc[t]] = over]
  BY <1>1, <1>4, Leaves
<1> QED
  BY <1>2, <1>3, <1>4

LEMMA ExitActions ==
  ASSUME RInv, NEW t \in Threads, NEW c \in Codes, MainReturn(t, c) \/ PprocExit(t, c)
  PROVE  Mine' /\ Lifecycle!AbsNext
<1> DEFINE s == proc[t]
           p == Requested(table[s], c)
<1>1. UNCHANGED <<spawned, nextPid>> /\ ret' = NoRet /\ Live(t)
  BY DEF MainReturn, PprocExit, Silent, Live, Ended
<1>2. CASE s = NoSlot
  <2>1. UNCHANGED table
    BY <1>2 DEF MainReturn, PprocExit, IsMain, IsAux
  <2> QED
    BY <1>1, <2>1, NothingSeen DEF Lifecycle!AbsNext
<1>3. CASE s # NoSlot
  <2>1. s \in Slots /\ table[s] \in Slot /\ table[s].state = "running" /\ c \in Int
    BY <1>1, <1>3, Facts, PProcAssumption DEF RInv
  <2>2. /\ p \in Slot /\ p.requested /\ p.state = "running" /\ p.pid = table[s].pid
        /\ p.aux = table[s].aux
    BY <2>1, RequestedKeeps
  <2>3. p.code \in Codes /\ (table[s].requested => p.code = table[s].code)
    BY <2>1 DEF Requested, Slot, RInv, Mine, Decided
  <2>4. \/ MainDrain(t, p)
        \/ table' = [table EXCEPT ![s] = IF p.aux > 0 THEN [p EXCEPT !.aux = @ - 1] ELSE p]
    BY <1>3, Zenon DEF MainReturn, PprocExit
  <2> HIDE DEF p
  <2>5. CASE MainDrain(t, p)
    BY <1>1, <2>1, <2>2, <2>3, <2>5, Drains
  <2>6. CASE table' = [table EXCEPT ![s] = IF p.aux > 0 THEN [p EXCEPT !.aux = @ - 1] ELSE p]
    <3> DEFINE less == [p EXCEPT !.aux = p.aux - 1]
    <3>1. /\ less \in Slot /\ less.pid = p.pid /\ less.state = "running"
          /\ less.requested /\ less.code = p.code
      BY <2>2 DEF Slot
    <3>2. table' = [table EXCEPT ![s] = less] \/ table' = [table EXCEPT ![s] = p]
      BY <2>6
    <3> HIDE DEF less
    <3>3. CASE table' = [table EXCEPT ![s] = less]
      BY <1>1, <2>1, <2>2, <2>3, <3>1, <3>3, Leaves
    <3>4. CASE table' = [table EXCEPT ![s] = p]
      BY <1>1, <2>1, <2>2, <2>3, <3>4, Leaves
    <3> QED
      BY <3>2, <3>3, <3>4
  <2> QED
    BY <2>4, <2>5, <2>6
<1> QED
  BY <1>2, <1>3

LEMMA DrainAction ==
  ASSUME RInv, NEW t \in Threads, DrainRecheck(t)
  PROVE  Mine' /\ Lifecycle!AbsNext
<1>1. /\ UNCHANGED <<spawned, nextPid>> /\ ret' = NoRet /\ Live(t) /\ pc[t] \in Draining
      /\ MainDrain(t, table[proc[t]])
  BY DEF DrainRecheck, Silent, Live, Ended, Draining
<1>2. /\ proc[t] \in Slots /\ table[proc[t]] \in Slot /\ table[proc[t]].state = "running"
      /\ table[proc[t]].requested
  BY <1>1, Facts DEF RInv, IInv, TInv, DrainersAreMain
<1>3. table[proc[t]].code \in Codes
  BY <1>2 DEF RInv, Mine, Decided
<1> QED
  BY <1>1, <1>2, <1>3, Drains

LEMMA WaitAction ==
  ASSUME RInv, NEW t \in Threads, NEW q \in Pids, Wait(t, q)
  PROVE  Mine' /\ Lifecycle!AbsNext
<1>1. UNCHANGED <<table, spawned, nextPid>>
  BY DEF Wait
<1>2. CASE ret' = NoRet
  BY <1>1, <1>2, NothingSeen DEF Lifecycle!AbsNext
<1>3. CASE Holding(q) = {} /\ ret' = [thread |-> t, pid |-> q, code |-> -1]
  <2>1. PhaseMap' = PhaseMap
    BY <1>1 DEF PhaseMap, PhaseOf, Holding
  <2>2. Mine'
    BY <1>1 DEF RInv, Mine, Numbered, OwnPids, Decided
  <2>3. q \in 1..MaxSpawns => PhaseMap[q] \in {Lifecycle!Unborn, Lifecycle!Gone}
    BY <1>3 DEF PhaseMap, PhaseOf, Lifecycle!Unborn, Lifecycle!Gone
  <2>4. Lifecycle!Unknown(t, q)
    BY <1>1, <1>3, <2>1, <2>3 DEF Lifecycle!Unknown, Lifecycle!AllPids, PhaseMap
  <2> QED
    BY <2>2, <2>4 DEF Lifecycle!AbsNext
<1> QED
  BY <1>2, <1>3 DEF Wait, Silent

LEMMA ReapAction ==
  ASSUME RInv, NEW t \in Threads, Reap(t)
  PROVE  Mine' /\ Lifecycle!AbsNext
<1> DEFINE s == wait[t].slot
<1>1. s \in Slots /\ table[s].state = "exited" /\ table[s].pid = wait[t].pid
  BY DEF RInv, IInv, WaitersHold, Holding, Waiting, Reap
<1>2. /\ UNCHANGED <<spawned, nextPid>> /\ table' = [table EXCEPT ![s] = FreeSlot]
      /\ ret' = [thread |-> t, pid |-> table[s].pid, code |-> table[s].code]
  BY <1>1 DEF Reap
<1> QED
  BY <1>1, <1>2, Reaped DEF Lifecycle!AbsNext, Lifecycle!AllPids

LEMMA StepImplements ==
  ASSUME ExclusiveWaits
  PROVE  RInv /\ [Next]_vars => RInv' /\ [Lifecycle!AbsNext]_(Lifecycle!avars)
<1> SUFFICES ASSUME RInv, [Next]_vars PROVE RInv' /\ [Lifecycle!AbsNext]_(Lifecycle!avars)
  OBVIOUS
<1>1. IInv'
  BY SafeStep DEF RInv
<1>2. CASE UNCHANGED vars
  <2>1. UNCHANGED <<table, spawned, nextPid, ret>>
    BY <1>2 DEF vars
  <2>2. Mine'
    BY <2>1 DEF RInv, Mine, Numbered, OwnPids, Decided
  <2>3. PhaseMap' = PhaseMap
    BY <2>1 DEF PhaseMap, PhaseOf, Holding
  <2> QED
    BY <1>1, <2>1, <2>2, <2>3 DEF RInv, Lifecycle!avars, PhaseMap
<1>3. CASE Next
  <2>1. Mine' /\ Lifecycle!AbsNext
    BY <1>3, QuietActions, SpawnActions, AuxActions, ExitActions, DrainAction,
       WaitAction, ReapAction DEF Next
  <2> QED
    BY <1>1, <2>1 DEF RInv
<1> QED
  BY <1>2, <1>3

LEMMA InitImplements == Init => RInv /\ Lifecycle!AbsInit
<1> SUFFICES ASSUME Init PROVE RInv /\ Lifecycle!AbsInit
  OBVIOUS
<1>1. IInv
  BY SafeInit
<1>2. Mine
  <2>1. OwnPids(table, spawned) /\ Decided
    BY DEF Init, FreeSlot, OwnPids, Decided
  <2>2. 0 < MaxSpawns => 1 % PidMod = 1
    BY PProcAssumption, NoWrap, Z3
  <2> QED
    BY <2>1, <2>2 DEF Init, Mine, Numbered
<1>3. PhaseMap = [q \in 1..MaxSpawns |-> [st |-> "unborn", code |-> -1]]
  BY PProcAssumption DEF Init, PhaseMap, PhaseOf
<1> QED
  BY <1>1, <1>2, <1>3
     DEF RInv, Lifecycle!AbsInit, Lifecycle!AllPids, Lifecycle!Unborn,
         Lifecycle!NoAnswer, Init, NoRet, NoPid, PhaseMap

(* With one waiter per pid, and fewer spawns than there are pids: a pid is *)
(* allocated once, the first exit request decides its code, its process    *)
(* exits with that code, and exactly one pproc_wait reaps it and returns   *)
(* the code.                                                               *)
THEOREM ImplementsProcLifecycle ==
  ASSUME ExclusiveWaits
  PROVE  Spec => LifecycleSpec
<1>1. RInv /\ [Next]_vars => RInv' /\ [Lifecycle!AbsNext]_(Lifecycle!avars)
  BY StepImplements
<1> QED
  BY <1>1, InitImplements, PTL DEF Spec, LifecycleSpec, Lifecycle!AbsSpec
=============================================================================
