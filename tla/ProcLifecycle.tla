---------------------------- MODULE ProcLifecycle ----------------------------
(***************************************************************************)
(* What pproc.h promises of a pseudo-process, without slots, locks or      *)
(* condition variables: a pid is allocated once, its process runs, somebody*)
(* decides its exit code once, it exits with that code, and exactly one    *)
(* pproc_wait reaps it and returns the code.  PProc implements this.       *)
(***************************************************************************)
EXTENDS Integers

CONSTANTS
  Threads,   \* the threads that can call pproc_wait
  NoThread,  \* not a thread
  MaxPid,    \* pids are allocated from 1 to MaxPid
  Asked,     \* the pids that can be asked for
  Codes      \* exit codes

VARIABLES
  last,      \* the last pid allocated
  phase,     \* what has become of each pid
  answer     \* what the step just taken returned from pproc_wait, if it did

avars == <<last, phase, answer>>

AllPids == 1..MaxPid

Unborn == [st |-> "unborn", code |-> -1]
Running == [st |-> "running", code |-> -1]
Exiting(c) == [st |-> "exiting", code |-> c]
Exited(c) == [st |-> "exited", code |-> c]
Gone == [st |-> "gone", code |-> -1]

NoAnswer == [thread |-> NoThread, pid |-> -1, code |-> -1]

AbsInit ==
  /\ last = 0
  /\ phase = [q \in AllPids |-> Unborn]
  /\ answer = NoAnswer

(* pproc_spawn allocates the next pid; when no thread can be created for   *)
(* it, the pid is lost.                                                    *)
Allocate(becomes) ==
  /\ answer' = NoAnswer
  /\ last < MaxPid
  /\ last' = last + 1
  /\ phase' = [phase EXCEPT ![last + 1] = becomes]

Become(q, from, to) ==
  /\ answer' = NoAnswer
  /\ UNCHANGED last
  /\ phase[q] \in from
  /\ phase' = [phase EXCEPT ![q] = to]

(* The first exit request.                                                 *)
Request(q, c) == Become(q, {Running}, Exiting(c))

(* The last thread is gone; the request may be part of the same step.      *)
Exit(q, c) == Become(q, {Running, Exiting(c)}, Exited(c))

(* pproc_wait reaps an exited process.                                     *)
ReapBy(t, q) ==
  /\ answer' = [thread |-> t, pid |-> q, code |-> phase[q].code]
  /\ UNCHANGED last
  /\ phase[q].st = "exited"
  /\ phase' = [phase EXCEPT ![q] = Gone]

(* pproc_wait finds no such process.                                       *)
Unknown(t, q) ==
  /\ answer' = [thread |-> t, pid |-> q, code |-> -1]
  /\ q \in AllPids => phase[q] \in {Unborn, Gone}
  /\ UNCHANGED <<last, phase>>

(* Steps of pproc.c that change nothing a caller can see.                  *)
Hidden ==
  /\ answer' = NoAnswer
  /\ UNCHANGED <<last, phase>>

AbsNext ==
  \/ Hidden
  \/ Allocate(Running)
  \/ Allocate(Gone)
  \/ \E q \in AllPids, c \in Codes : Request(q, c) \/ Exit(q, c)
  \/ \E t \in Threads, q \in AllPids : ReapBy(t, q)
  \/ \E t \in Threads, q \in Asked : Unknown(t, q)

AbsSpec == AbsInit /\ [][AbsNext]_avars
=============================================================================
