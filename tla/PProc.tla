------------------------------- MODULE PProc -------------------------------
(***************************************************************************)
(* The pseudo-process table of native/pseudoproc/pproc.c: a Windows        *)
(* "process" is a group of threads of one host process that share a slot   *)
(* of g.table.  Every critical section of the code (between taking and     *)
(* releasing g.lock) is one action; a thread is between critical sections  *)
(* exactly where the code has released the lock.  A condition variable is  *)
(* the set of threads whose pc says they sleep on it; waking up and        *)
(* testing the condition again is an action of its own, as after           *)
(* pthread_cond_wait, and POSIX's spurious wakeups are allowed.            *)
(***************************************************************************)
EXTENDS Integers, FiniteSets

CONSTANTS
  Threads,        \* every thread the host process can ever hold at once
  Hosts,          \* those that exist before any pseudo-process does
  NoThread,       \* not a thread: p->main_thread of an unused slot
  MaxPProcs,      \* MAX_PPROCS
  PidMod,         \* 2^32: pproc_pid_t is a uint32_t
  MaxSpawns,      \* bound: how many times pproc_spawn allocates a pid
  Codes,          \* exit codes the guests use
  ExclusiveWaits, \* client rule: no two threads wait for the same pid at once
  Cooperative     \* client rule: a process waits for younger ones only and,
                  \* once pproc_exiting() is true, starts no more threads

ASSUME PProcAssumption ==
  /\ IsFiniteSet(Threads)
  /\ Hosts \subseteq Threads
  /\ NoThread \notin Threads
  /\ MaxPProcs \in Nat
  /\ PidMod \in Nat \ {0}
  /\ MaxSpawns \in Nat
  /\ Codes \subseteq Int
  /\ ExclusiveWaits \in BOOLEAN
  /\ Cooperative \in BOOLEAN

VARIABLES
  table,    \* g.table
  nextPid,  \* g.next_pid
  live,     \* g.live
  spawned,  \* how many pids have been allocated (bounds the run)
  pc,       \* where each thread is
  proc,     \* g.current: the slot of each thread's pseudo-process
  wait,     \* the locals of pproc_wait: argument, p and main_thread
  ret       \* what the step just taken returned from pproc_wait, if it did

vars == <<table, nextPid, live, spawned, pc, proc, wait, ret>>

Slots == 1..MaxPProcs
NoSlot == 0
Pids == 0..(PidMod - 1)
NoPid == -1

\* enum pproc_state
States == {"free", "running", "exited"}

Slot == [state : States, pid : Pids, main : Threads \cup {NoThread},
         code : Int, requested : BOOLEAN, aux : Int]

\* What memset leaves of a slot, in g.table's static storage and in
\* free_slot_locked.
FreeSlot == [state |-> "free", pid |-> 0, main |-> NoThread,
             code |-> 0, requested |-> FALSE, aux |-> 0]

\* Where a thread can be:
\*   none           there is no such thread (or it is detached and gone)
\*   user           in its own code: the host's, an entry's or an aux function's
\*   create         in pproc_thread_create, past its first unlock
\*   aux_done       asleep on p->aux_done        recheck_aux    awake from it
\*   state_changed  asleep on g.state_changed    recheck_state  awake from it
\*   join           in pproc_wait, at pthread_join
\*   reap           in pproc_wait, past pthread_join
\*   zombie         an ended main thread nobody has joined
Asleep == {"aux_done", "state_changed"}
Waiting == {"state_changed", "recheck_state", "join", "reap"}
Draining == {"aux_done", "recheck_aux"}
Ended == {"none", "zombie"}
PCs == {"user", "create"} \cup Waiting \cup Draining \cup Ended

NoWait == [pid |-> NoPid, slot |-> NoSlot, main |-> NoThread]
NoRet == [thread |-> NoThread, pid |-> NoPid, code |-> -1]

\* Which epilogue a thread runs.  main_trampoline knows by birth, pproc_exit by
\* pthread_equal with p->main_thread: the same as long as no slot is recycled
\* under a thread (SlotsOutliveThreads).
IsMain(t) == proc[t] # NoSlot /\ table[proc[t]].main = t
IsAux(t) == proc[t] # NoSlot /\ table[proc[t]].main # t

-----------------------------------------------------------------------------
(* The state after pproc_init, with the host's threads in their own code.  *)
Init ==
  /\ table = [s \in Slots |-> FreeSlot]
  /\ nextPid = 1 % PidMod
  /\ live = 0
  /\ spawned = 0
  /\ pc = [t \in Threads |-> IF t \in Hosts THEN "user" ELSE "none"]
  /\ proc = [t \in Threads |-> NoSlot]
  /\ wait = [t \in Threads |-> NoWait]
  /\ ret = NoRet

(* The slots a scan of g.table can stop at: in use with the pid            *)
(* (find_locked), or unused (pproc_spawn).  It stops at the first.         *)
Holding(q) == {s \in Slots : table[s].state # "free" /\ table[s].pid = q}
Unused == {s \in Slots : table[s].state = "free"}
IsFirst(s, S) == s \in S /\ \A r \in S : s <= r

(* pthread_cond_broadcast on the aux_done of slot s, and on state_changed. *)
WakeAuxDoneNever(s, f) == f  \* mutant: no broadcast
WakeAuxDone(s, f) ==
  [t \in Threads |->
     IF f[t] = "aux_done" /\ proc[t] = s THEN "recheck_aux" ELSE f[t]]

WakeStateChangedNever(f) == f  \* mutant: no broadcast
WakeStateChanged(f) ==
  [t \in Threads |-> IF f[t] = "state_changed" THEN "recheck_state" ELSE f[t]]

(* g.next_pid++.                                                           *)
NextPidWide == nextPid + 1                        \* mutant: no wraparound
NextPid == (nextPid + 1) % PidMod

(* pproc_getpid, pproc_exiting and pproc_count, which change nothing.      *)
PprocGetpid(t) == IF proc[t] = NoSlot THEN 0 ELSE table[proc[t]].pid
PprocExiting(t) == proc[t] # NoSlot /\ table[proc[t]].requested
PprocCount == live

(* A step that returns nothing from pproc_wait.                            *)
Silent == ret' = NoRet

(* pproc_spawn, thread creation succeeding: the slot is filled and the     *)
(* main thread u starts.                                                   *)
Spawn(t, u) ==
  /\ pc[t] = "user"
  /\ spawned < MaxSpawns
  /\ pc[u] = "none"
  /\ \E s \in Slots :
        /\ IsFirst(s, Unused)
        /\ table' = [table EXCEPT ![s] =
              [state |-> "running", pid |-> nextPid, main |-> u,
               code |-> -1, requested |-> FALSE, aux |-> 0]]
        /\ proc' = [proc EXCEPT ![u] = s]
  /\ nextPid' = NextPid
  /\ spawned' = spawned + 1
  /\ live' = live + 1
  /\ pc' = [pc EXCEPT ![u] = "user"]
  /\ UNCHANGED wait
  /\ Silent

\* Mutant: the failing spawn is counted.
SpawnFailsCounted(t) ==
  /\ pc[t] = "user"
  /\ spawned < MaxSpawns
  /\ \E s \in Slots : IsFirst(s, Unused) /\ table' = [table EXCEPT ![s] = FreeSlot]
  /\ nextPid' = NextPid
  /\ spawned' = spawned + 1
  /\ live' = live + 1
  /\ UNCHANGED <<pc, proc, wait>>
  /\ Silent

(* pproc_spawn, pthread_create failing: the slot is freed again but the    *)
(* pid is gone.  (With no unused slot the call changes nothing.)           *)
SpawnFails(t) ==
  /\ pc[t] = "user"
  /\ spawned < MaxSpawns
  /\ \E s \in Slots :
        /\ IsFirst(s, Unused)
        /\ table' = [table EXCEPT ![s] = FreeSlot]
  /\ nextPid' = NextPid
  /\ spawned' = spawned + 1
  /\ UNCHANGED <<live, pc, proc, wait>>
  /\ Silent

\* Mutant: the new thread is not counted before it exists.
CreateBeginUncounted(t) ==
  /\ pc[t] = "user"
  /\ proc[t] # NoSlot
  /\ pc' = [pc EXCEPT ![t] = "create"]
  /\ UNCHANGED <<table, nextPid, live, spawned, proc, wait>>
  /\ Silent

(* pproc_thread_create up to its unlock: the new thread is counted before  *)
(* it exists.                                                              *)
CreateBegin(t) ==
  /\ pc[t] = "user"
  /\ proc[t] # NoSlot
  /\ Cooperative => ~PprocExiting(t)
  /\ table' = [table EXCEPT ![proc[t]].aux = @ + 1]
  /\ pc' = [pc EXCEPT ![t] = "create"]
  /\ UNCHANGED <<nextPid, live, spawned, proc, wait>>
  /\ Silent

(* Its pthread_create succeeds and the new thread u is detached.           *)
CreateDone(t, u) ==
  /\ pc[t] = "create"
  /\ pc[u] = "none"
  /\ pc' = [pc EXCEPT ![t] = "user", ![u] = "user"]
  /\ proc' = [proc EXCEPT ![u] = proc[t]]
  /\ UNCHANGED <<table, nextPid, live, spawned, wait>>
  /\ Silent

(* --p->aux_threads, with the broadcast when it reaches 0, by a thread     *)
(* that goes on to next.                                                   *)
DropAux(t, next) ==
  LET s == proc[t]
      moved == [pc EXCEPT ![t] = next]
  IN /\ table' = [table EXCEPT ![s].aux = @ - 1]
     /\ pc' = IF table[s].aux = 1 THEN WakeAuxDone(s, moved) ELSE moved

\* Mutant: the count is not taken back.
CreateFailsForgets(t) ==
  /\ pc[t] = "create"
  /\ pc' = [pc EXCEPT ![t] = "user"]
  /\ UNCHANGED <<table, nextPid, live, spawned, proc, wait>>
  /\ Silent

(* Its pthread_create fails.                                               *)
CreateFails(t) ==
  /\ pc[t] = "create"
  /\ DropAux(t, "user")
  /\ UNCHANGED <<nextPid, live, spawned, proc, wait>>
  /\ Silent

(* aux_trampoline once the thread's function has returned.                 *)
AuxReturn(t) ==
  /\ pc[t] = "user"
  /\ IsAux(t)
  /\ DropAux(t, "none")
  /\ proc' = [proc EXCEPT ![t] = NoSlot]
  /\ UNCHANGED <<nextPid, live, spawned, wait>>
  /\ Silent

(* The first exit request of a process decides its exit code.              *)
RequestedLast(p, c) ==  \* mutant: the last request wins
  [p EXCEPT !.code = c, !.requested = TRUE]

Requested(p, c) ==
  [p EXCEPT !.code = IF p.requested THEN @ ELSE c, !.requested = TRUE]

(* The loop that drains the auxiliary threads, and the two statements that *)
(* follow it, run by the main thread t on the slot value p.                *)
MainDrain(t, p) ==
  IF p.aux > 0
  THEN /\ table' = [table EXCEPT ![proc[t]] = p]
       /\ pc' = [pc EXCEPT ![t] = "aux_done"]
  ELSE /\ table' = [table EXCEPT ![proc[t]] = [p EXCEPT !.state = "exited"]]
       /\ pc' = WakeStateChanged([pc EXCEPT ![t] = "zombie"])

(* main_trampoline once the process's entry point has returned c.          *)
MainReturn(t, c) ==
  /\ pc[t] = "user"
  /\ IsMain(t)
  /\ MainDrain(t, Requested(table[proc[t]], c))
  /\ UNCHANGED <<nextPid, live, spawned, proc, wait>>
  /\ Silent

\* Mutant: the drain loop is an if.
DrainRecheckOnce(t) ==
  /\ pc[t] = "recheck_aux"
  /\ MainDrain(t, [table[proc[t]] EXCEPT !.aux = 0])
  /\ UNCHANGED <<nextPid, live, spawned, proc, wait>>
  /\ Silent

(* The main thread, awake, tests aux_threads > 0 again.                    *)
DrainRecheck(t) ==
  /\ pc[t] = "recheck_aux"
  /\ MainDrain(t, table[proc[t]])
  /\ UNCHANGED <<nextPid, live, spawned, proc, wait>>
  /\ Silent

(* pproc_exit(c): outside every process it only ends the thread; in the    *)
(* main thread it runs the trampoline's epilogue; in an auxiliary thread   *)
(* it records the request and leaves the thread group.                     *)
PprocExit(t, c) ==
  /\ pc[t] = "user"
  /\ \/ /\ proc[t] = NoSlot
        /\ pc' = [pc EXCEPT ![t] = "none"]
        /\ UNCHANGED <<table, proc>>
     \/ /\ IsMain(t)
        /\ MainDrain(t, Requested(table[proc[t]], c))
        /\ UNCHANGED proc
     \/ /\ IsAux(t)
        /\ LET s == proc[t]
               p == Requested(table[s], c)
               moved == [pc EXCEPT ![t] = "none"]
           IN /\ table' = [table EXCEPT ![s] =
                             IF p.aux > 0 THEN [p EXCEPT !.aux = @ - 1] ELSE p]
              /\ pc' = IF p.aux = 1 THEN WakeAuxDone(s, moved) ELSE moved
        /\ proc' = [proc EXCEPT ![t] = NoSlot]
  /\ UNCHANGED <<nextPid, live, spawned, wait>>
  /\ Silent

-----------------------------------------------------------------------------
(* What the client is assumed to respect when it calls pproc_wait(q).      *)
WaitAllowed(t, q) ==
  /\ ExclusiveWaits => \A u \in Threads \ {t} : wait[u].pid # q
  /\ Cooperative => (proc[t] # NoSlot => PprocGetpid(t) < q)

(* The test of pproc_wait's loop, on p = w.slot: sleep on state_changed or *)
(* pick up the thread to join.                                             *)
AwaitExit(t, w) ==
  IF table[w.slot].state # "exited"
  THEN /\ pc' = [pc EXCEPT ![t] = "state_changed"]
       /\ wait' = [wait EXCEPT ![t] = w]
  ELSE /\ pc' = [pc EXCEPT ![t] = "join"]
       /\ wait' = [wait EXCEPT ![t] = [w EXCEPT !.main = table[w.slot].main]]

(* pproc_wait(q), called: an unknown pid returns -1 at once.               *)
Wait(t, q) ==
  /\ pc[t] = "user"
  /\ WaitAllowed(t, q)
  /\ \/ /\ Holding(q) = {}
        /\ ret' = [thread |-> t, pid |-> q, code |-> -1]
        /\ UNCHANGED <<pc, wait>>
     \/ \E s \in Slots :
          /\ IsFirst(s, Holding(q))
          /\ AwaitExit(t, [pid |-> q, slot |-> s, main |-> NoThread])
          /\ Silent
  /\ UNCHANGED <<table, nextPid, live, spawned, proc>>

\* Mutant: the wait loop is an if.
WaitRecheckOnce(t) ==
  /\ pc[t] = "recheck_state"
  /\ pc' = [pc EXCEPT ![t] = "join"]
  /\ wait' = [wait EXCEPT ![t].main = table[wait[t].slot].main]
  /\ UNCHANGED <<table, nextPid, live, spawned, proc>>
  /\ Silent

(* pproc_wait, awake from state_changed: only p->state is tested again.    *)
WaitRecheck(t) ==
  /\ pc[t] = "recheck_state"
  /\ AwaitExit(t, wait[t])
  /\ UNCHANGED <<table, nextPid, live, spawned, proc>>
  /\ Silent

(* pthread_join(main_thread): returns once that thread has ended.  Joining *)
(* a thread that was joined before is undefined; the outcomes allowed are  *)
(* an immediate return (ESRCH) and, if the thread id is in use again,      *)
(* blocking.  The main_thread of a slot that was freed under the waiter is *)
(* no thread at all: the call returns at once.                             *)
Join(t) ==
  /\ pc[t] = "join"
  /\ \/ /\ wait[t].main = NoThread
        /\ pc' = [pc EXCEPT ![t] = "reap"]
        /\ UNCHANGED proc
     \/ /\ wait[t].main \in Threads
        /\ pc[wait[t].main] \in Ended
        /\ pc' = [pc EXCEPT ![t] = "reap", ![wait[t].main] = "none"]
        /\ proc' = [proc EXCEPT ![wait[t].main] = NoSlot]
  /\ UNCHANGED <<table, nextPid, live, spawned, wait>>
  /\ Silent

\* Mutant: the code is read from the freed slot.
ReapThenRead(t) ==
  /\ pc[t] = "reap"
  /\ ret' = [thread |-> t, pid |-> wait[t].pid, code |-> FreeSlot.code]
  /\ table' = [table EXCEPT ![wait[t].slot] = FreeSlot]
  /\ live' = live - 1
  /\ pc' = [pc EXCEPT ![t] = "user"]
  /\ wait' = [wait EXCEPT ![t] = NoWait]
  /\ UNCHANGED <<nextPid, spawned, proc>>

(* pproc_wait's last critical section: read the code, free the slot.       *)
Reap(t) ==
  /\ pc[t] = "reap"
  /\ ret' = [thread |-> t, pid |-> wait[t].pid,
             code |-> table[wait[t].slot].code]
  /\ table' = [table EXCEPT ![wait[t].slot] = FreeSlot]
  /\ live' = live - 1
  /\ pc' = [pc EXCEPT ![t] = "user"]
  /\ wait' = [wait EXCEPT ![t] = NoWait]
  /\ UNCHANGED <<nextPid, spawned, proc>>

(* A spurious wakeup.                                                      *)
Spurious(t) ==
  /\ pc[t] \in Asleep
  /\ pc' = [pc EXCEPT ![t] = IF pc[t] = "aux_done" THEN "recheck_aux"
                                                   ELSE "recheck_state"]
  /\ UNCHANGED <<table, nextPid, live, spawned, proc, wait>>
  /\ Silent

-----------------------------------------------------------------------------
Next ==
  \E t \in Threads :
    \/ \E u \in Threads : Spawn(t, u) \/ CreateDone(t, u)
    \/ SpawnFails(t)
    \/ CreateBegin(t)
    \/ CreateFails(t)
    \/ AuxReturn(t)
    \/ \E c \in Codes : MainReturn(t, c) \/ PprocExit(t, c)
    \/ DrainRecheck(t)
    \/ \E q \in Pids : Wait(t, q)
    \/ WaitRecheck(t)
    \/ Join(t)
    \/ Reap(t)
    \/ Spurious(t)

Spec == Init /\ [][Next]_vars

(* A thread inside pproc.c keeps running (the scheduler is fair), and the  *)
(* guests keep the "prototype rule" of pproc.c's comment: an entry point   *)
(* and an auxiliary function, called again and again, eventually return.   *)
Fairness ==
  /\ \A t \in Threads :
       WF_vars(CreateFails(t) \/ (\E u \in Threads : CreateDone(t, u)))
  /\ \A t \in Threads :
       WF_vars(DrainRecheck(t) \/ WaitRecheck(t) \/ Join(t) \/ Reap(t))
  /\ \A t \in Threads :
       SF_vars(AuxReturn(t) \/ (\E c \in Codes : MainReturn(t, c)))

FairSpec == Spec /\ Fairness
-----------------------------------------------------------------------------
(* Properties.                                                             *)

Live(t) == pc[t] \notin Ended

\* The auxiliary threads slot s must count: those that run, and the ones a
\* thread of the process is about to create.
Counted(s) == {t \in Threads : Live(t) /\ proc[t] = s /\ table[s].main # t}
Creating(s) == {t \in Threads : pc[t] = "create" /\ proc[t] = s}

\* Every variable has its type.
TypeOK ==
  /\ table \in [Slots -> Slot]
  /\ nextPid \in Pids
  /\ live \in Int
  /\ spawned \in 0..MaxSpawns
  /\ pc \in [Threads -> PCs]
  /\ proc \in [Threads -> Slots \cup {NoSlot}]
  /\ wait \in [Threads -> [pid : Pids \cup {NoPid}, slot : Slots \cup {NoSlot},
                           main : Threads \cup {NoThread}]]
  /\ ret \in [thread : Threads \cup {NoThread}, pid : Pids \cup {NoPid}, code : Int]

\* A slot is never freed or recycled while a thread still has it as its
\* process (pproc_getpid, the trampolines and pproc_exit dereference it
\* without looking): the slot of a live thread is in use, and a running
\* process still has its main thread.
SlotsOutliveThreads ==
  /\ \A t \in Threads : Live(t) /\ proc[t] # NoSlot => table[proc[t]].state # "free"
  /\ \A s \in Slots : table[s].state = "running" =>
       table[s].main \in Threads /\ Live(table[s].main) /\ proc[table[s].main] = s

\* The pointer a thread in pproc_wait holds across its unlocks stays good: the
\* slot still holds the process it waits for, which has exited by the time
\* the wait goes on to join, and no other thread waits on that slot.
WaitersHold ==
  \A t \in Threads : pc[t] \in Waiting =>
    /\ wait[t].slot \in Holding(wait[t].pid)
    /\ pc[t] \in {"join", "reap"} => table[wait[t].slot].state = "exited"
    /\ \A u \in Threads \ {t} : pc[u] \in Waiting => wait[u].slot # wait[t].slot

\* aux_threads is exactly the number of auxiliary threads that live or are
\* about to: neither a failed pthread_create nor an auxiliary thread that
\* leaves through pproc_exit is counted twice or forgotten.
AuxCountExact ==
  \A s \in Slots : table[s].state # "free" =>
    table[s].aux = Cardinality(Counted(s)) + Cardinality(Creating(s))

\* A process is PROC_EXITED only when all of its threads have ended: whoever
\* pproc_wait releases never meets a thread of the process it waited for.
ExitedMeansQuiet ==
  \A s \in Slots : table[s].state = "exited" =>
    table[s].requested /\ \A t \in Threads : proc[t] = s => ~Live(t)

\* pproc_count is the number of processes that nobody has reaped.
CountIsUnreaped ==
  PprocCount = Cardinality({s \in Slots : table[s].state # "free"})

\* pproc_wait(q) returns the exit code of the process q, which has exited and
\* which this very step reaps, or -1 when there is no process q.
WaitReturnsOwnCode ==
  [][ret' # NoRet =>
       \/ /\ ret'.code = -1
          /\ Holding(ret'.pid) = {}
       \/ \E s \in Holding(ret'.pid) :
            /\ table[s].state = "exited"
            /\ table[s].code = ret'.code
            /\ table'[s].state = "free"]_vars

\* Every pproc_wait returns, and every draining main thread gets to its end
\* (no wakeup is lost), given acyclic waits and guests that return.
WaitsReturn == \A t \in Threads : pc[t] \in Waiting ~> pc[t] = "user"
DrainsEnd == \A t \in Threads : pc[t] \in Draining ~> pc[t] = "zombie"
=============================================================================
