--------------------------- MODULE PSrvRefinement ---------------------------
(* psrv.c implements HandleService.                                        *)
EXTENDS PSrv

\* The call t is in: pending while its request waits in the socket or its
\* server's end is open, executed once the reply is there, lost when the
\* server has closed its end.
CallOf(t) ==
  IF pc[t] # "call" THEN [st |-> "idle"]
  ELSE LET k == conn[fd[t]]
       IN IF k.rep # NoReply
          THEN [st |-> "executed", status |-> k.rep.status, value |-> k.rep.value]
          ELSE IF k.srv THEN [st |-> "pending", req |-> k.req]
          ELSE [st |-> "lost"]

Service == INSTANCE HandleService WITH
  Requests <- [op : Ops, pid : Pids, arg : 0..MaxHandles],
  owner <- [h \in Handles |-> owner[h]],
  call <- [t \in Clients |-> CallOf(t)],
  answer <- ret

\* Each psrv_call is executed once, at one moment between its request and its
\* return, on one handle table that never issues a handle twice; a call that
\* returns -1 has not been executed.
HandleServiceSpec == Service!ServiceSpec
=============================================================================
