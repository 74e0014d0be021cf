--------------------------- MODULE HandleService ---------------------------
(***************************************************************************)
(* What psrv.h promises its clients, without sockets, poll or a wakeup     *)
(* pipe: psrv_call is a procedure call on one global handle table.  Each   *)
(* call is executed at one moment between its invocation and its return,   *)
(* or, when the server stops, not at all.  PSrv implements this.           *)
(***************************************************************************)
EXTENDS Integers

CONSTANTS
  Clients,   \* the threads that call
  NoClient,  \* not a client
  Requests,  \* records [op, pid, arg]
  Handles    \* the handle values there are

VARIABLES
  owner,     \* the pid each handle was issued to, 0 before that
  call,      \* the call each client is in
  answer     \* what the step just taken returned from psrv_call, if it did

svars == <<owner, call, answer>>

Idle == [st |-> "idle"]
Pending(r) == [st |-> "pending", req |-> r]
Executed(status, value) == [st |-> "executed", status |-> status, value |-> value]
Lost == [st |-> "lost"]

NoAnswer == [client |-> NoClient, rc |-> 0, status |-> 0, value |-> 0]

SInit ==
  /\ owner = [h \in Handles |-> 0]
  /\ call = [t \in Clients |-> Idle]
  /\ answer = NoAnswer

Unissued == {h \in Handles : owner[h] = 0}

(* A call of t is executed with this outcome.                              *)
Answers(t, status, value) == call' = [call EXCEPT ![t] = Executed(status, value)]

(* Some handle that nobody has had, or failure when there is none left.    *)
Issue(t, pid) ==
  \/ \E h \in Unissued :
        /\ owner' = [owner EXCEPT ![h] = pid]
        /\ Answers(t, 0, h)
  \/ /\ Unissued = {}
     /\ Answers(t, -1, 0)
     /\ UNCHANGED owner

Invoke(t, r) ==
  /\ call[t] = Idle
  /\ call' = [call EXCEPT ![t] = Pending(r)]
  /\ answer' = NoAnswer
  /\ UNCHANGED owner

Execute(t) ==
  /\ call[t].st = "pending"
  /\ answer' = NoAnswer
  /\ LET r == call[t].req
         valid == r.arg \in Handles /\ owner[r.arg] # 0
     IN \/ r.op = "ping" /\ Answers(t, 0, r.arg) /\ UNCHANGED owner
        \/ r.op = "new" /\ Issue(t, r.pid)
        \/ r.op = "dup" /\ valid /\ Issue(t, r.pid)
        \/ r.op = "dup" /\ ~valid /\ Answers(t, -1, 0) /\ UNCHANGED owner
        \/ r.op = "other" /\ Answers(t, -2, 0) /\ UNCHANGED owner

(* The server stops: these calls, not executed yet, never will be.         *)
Lose(S) ==
  /\ \A t \in S : call[t].st = "pending"
  /\ call' = [t \in Clients |-> IF t \in S THEN Lost ELSE call[t]]
  /\ answer' = NoAnswer
  /\ UNCHANGED owner

Return(t) ==
  /\ call[t].st \in {"executed", "lost"}
  /\ answer' = IF call[t] = Lost
               THEN [client |-> t, rc |-> -1, status |-> 0, value |-> 0]
               ELSE [client |-> t, rc |-> 0, status |-> call[t].status,
                     value |-> call[t].value]
  /\ call' = [call EXCEPT ![t] = Idle]
  /\ UNCHANGED owner

(* A new server starts with no handle issued.                              *)
Restart ==
  /\ owner' = [h \in Handles |-> 0]
  /\ answer' = NoAnswer
  /\ UNCHANGED call

(* Steps that change nothing a client can see.                             *)
Inside ==
  /\ answer' = NoAnswer
  /\ UNCHANGED <<owner, call>>

SNext ==
  \/ Inside \/ Restart
  \/ \E S \in SUBSET Clients : Lose(S)
  \/ \E t \in Clients : Execute(t) \/ Return(t) \/ \E r \in Requests : Invoke(t, r)

ServiceSpec == SInit /\ [][SNext]_svars
=============================================================================
