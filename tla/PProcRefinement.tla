-------------------------- MODULE PProcRefinement --------------------------
(* pproc.c implements ProcLifecycle, as long as no pid is allocated twice. *)
EXTENDS PProc

ASSUME NoWrap == MaxSpawns < PidMod

\* What has become of pid q, read off the table: a pid that was allocated and
\* that no slot holds any more has been reaped, or was lost by a spawn that
\* failed.
PhaseOf(q) ==
  IF q > spawned THEN [st |-> "unborn", code |-> -1]
  ELSE IF Holding(q) = {} THEN [st |-> "gone", code |-> -1]
  ELSE LET p == table[CHOOSE s \in Holding(q) : TRUE]
       IN IF p.state = "exited" THEN [st |-> "exited", code |-> p.code]
          ELSE IF p.requested THEN [st |-> "exiting", code |-> p.code]
          ELSE [st |-> "running", code |-> -1]

Lifecycle == INSTANCE ProcLifecycle WITH
  MaxPid <- MaxSpawns,
  Asked <- Pids,
  last <- spawned,
  phase <- [q \in 1..MaxSpawns |-> PhaseOf(q)],
  answer <- ret

\* Every step of pproc.c is a step of the life of one process, or changes
\* nothing a caller can see: exit codes are decided once, and each process is
\* reaped by exactly one wait, which returns its code.
LifecycleSpec == Lifecycle!AbsSpec
=============================================================================
