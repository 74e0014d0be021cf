-------------------------------- MODULE PSrv --------------------------------
(***************************************************************************)
(* The server thread of native/pseudoproc/psrv.c and the client threads    *)
(* that call it.  A connection is a socketpair: the server holds one end,  *)
(* in s.client_fds, a client the other.  The server polls a snapshot of    *)
(* the list and a self-pipe, whose bytes tell it that the list has changed *)
(* ("n") or that it has to quit ("q").  The sections of the code under     *)
(* s.lock, and each system call outside them, are the actions; reading a   *)
(* request, executing it and writing the reply are one, because only the   *)
(* server thread touches the handle table and a client waits meanwhile.    *)
(***************************************************************************)
EXTENDS Integers, Sequences

CONSTANTS
  Clients,      \* threads that connect and call
  NoClient,     \* not a client
  PidOf,        \* the pseudo-process of each client, never 0
  MaxConns,     \* bound: the socketpairs that can exist at once
  MaxClients,   \* MAX_CLIENTS
  MaxHandles,   \* MAX_HANDLES
  Calls,        \* the [op, arg] that clients call with
  MaxIssues,    \* bound: how far s.next_handle counts
  MaxStarts     \* bound: how many times the server is started

\* enum psrv_op, and the values it does not name.
Ops == {"ping", "new", "dup", "other"}

ASSUME PSrvAssumption ==
  /\ NoClient \notin Clients
  /\ PidOf \in [Clients -> Nat \ {0}]
  /\ MaxConns \in Nat
  /\ MaxClients \in Nat
  /\ MaxHandles \in Nat \ {0}
  /\ Calls \subseteq [op : Ops, arg : 0..MaxHandles]
  /\ MaxIssues \in Nat
  /\ MaxStarts \in Nat

VARIABLES
  running,   \* s.running
  pipe,      \* s.wakeup: "none", "open", or "noread" once its read end is closed
  wake,      \* the bytes in it
  clients,   \* s.client_fds[0..nclients-1]
  owner,     \* s.handle_owner
  next,      \* s.next_handle
  spc,       \* the server thread: "off", "top", "poll" or "serve"
  snap,      \* its fds[1..nfds-1]
  todo,      \* those that were ready and that it still has to serve
  conn,      \* the socketpairs: which ends are open, and what they hold
  pc,        \* the clients
  fd,        \* the connection each client holds
  ctl,       \* where the thread that starts and stops the server is
  starts,    \* how many times it has started it (bounds the run)
  killed,    \* SIGPIPE has ended the host process
  ret        \* what the step just taken returned from psrv_call, if it did

server == <<spc, snap, todo>>
service == <<running, pipe, wake, clients, owner, next>>
vars == <<service, server, conn, pc, fd, ctl, starts, killed, ret>>

Pids == {PidOf[t] : t \in Clients}
Conns == 1..MaxConns
NoConn == 0
Handles == 1..(MaxHandles - 1)
Request == [op : Ops, pid : Pids, arg : 0..MaxHandles]
Reply == [status : {0, -1, -2}, value : 0..MaxHandles]
NoRequest == [op |-> "none", pid |-> 0, arg |-> 0]
NoReply == [status |-> 1, value |-> 0]

\* late is auxiliary: the connection was listed after psrv_stop had closed all.
Unpaired == [srv |-> FALSE, cli |-> FALSE, late |-> FALSE,
             req |-> NoRequest, rep |-> NoReply]
Paired == [Unpaired EXCEPT !.srv = TRUE, !.cli = TRUE,
                           !.late = ctl \in {"closed", "noread", "nopipe"}]

\* A socketpair is gone once both of its ends are closed.
Left(k) == IF k.srv \/ k.cli THEN k ELSE Unpaired
CloseServer(k) == Left([k EXCEPT !.srv = FALSE])
CloseClient(k) == Left([k EXCEPT !.cli = FALSE])

NoRet == [client |-> NoClient, rc |-> 0, status |-> 0, value |-> 0]
Silent == ret' = NoRet

Init ==
  /\ running = FALSE /\ pipe = "none" /\ wake = <<>>
  /\ clients = <<>>
  /\ owner = [h \in 0..(MaxHandles - 1) |-> 0] /\ next = 0
  /\ spc = "off" /\ snap = <<>> /\ todo = {}
  /\ conn = [c \in Conns |-> Unpaired]
  /\ pc = [t \in Clients |-> "out"] /\ fd = [t \in Clients |-> NoConn]
  /\ ctl = "idle" /\ starts = 0
  /\ killed = FALSE
  /\ ret = NoRet

Members(q) == {q[i] : i \in DOMAIN q}

-----------------------------------------------------------------------------
(* psrv_start.  (When a server runs it returns at once; failing, it leaves *)
(* nothing behind but a cleared s.)                                        *)
Start ==
  /\ ctl = "idle" /\ ~running
  /\ starts < MaxStarts
  /\ running' = TRUE /\ pipe' = "open" /\ wake' = <<>>
  /\ clients' = <<>>
  /\ owner' = [h \in 0..(MaxHandles - 1) |-> 0] /\ next' = 1
  /\ spc' = "top" /\ snap' = <<>> /\ todo' = {}
  /\ starts' = starts + 1
  /\ UNCHANGED <<conn, pc, fd, ctl, killed>>
  /\ Silent

(* psrv_stop writes the quit byte ...                                      *)
StopBegin ==
  /\ ctl = "idle" /\ running
  /\ wake' = Append(wake, "q")
  /\ ctl' = "join"
  /\ UNCHANGED <<running, pipe, clients, owner, next, server, conn, pc, fd,
                 starts, killed>>
  /\ Silent

\* Mutant: the list is emptied, the connections are not closed.
StopCloseForgets ==
  /\ ctl = "join" /\ spc = "off"
  /\ clients' = <<>>
  /\ ctl' = "closed"
  /\ UNCHANGED <<running, pipe, wake, owner, next, server, conn, pc, fd, starts, killed>>
  /\ Silent

(* ... joins the server thread, and under s.lock closes the connections.   *)
StopClose ==
  /\ ctl = "join" /\ spc = "off"
  /\ conn' = [c \in Conns |-> IF c \in Members(clients)
                              THEN CloseServer(conn[c]) ELSE conn[c]]
  /\ clients' = <<>>
  /\ ctl' = "closed"
  /\ UNCHANGED <<running, pipe, wake, owner, next, server, pc, fd, starts, killed>>
  /\ Silent

(* It closes the two ends of the pipe and clears running, in three steps.  *)
StopEnd ==
  /\ \/ ctl = "closed" /\ ctl' = "noread" /\ pipe' = "noread" /\ UNCHANGED running
     \/ ctl = "noread" /\ ctl' = "nopipe" /\ pipe' = "none" /\ UNCHANGED running
     \/ ctl = "nopipe" /\ ctl' = "idle" /\ running' = FALSE /\ UNCHANGED pipe
  /\ wake' = <<>>
  /\ UNCHANGED <<clients, owner, next, server, conn, pc, fd, starts, killed>>
  /\ Silent

-----------------------------------------------------------------------------
(* psrv_connect under s.lock: the server's end of a new socketpair joins   *)
(* the list.  (Not running, or the list full, it returns -1.)              *)
ConnectRegister(t) ==
  /\ pc[t] = "out"
  /\ running
  /\ Len(clients) < MaxClients
  /\ \E c \in Conns :
        /\ conn[c] = Unpaired
        /\ \A b \in Conns : conn[b] = Unpaired => c <= b
        /\ conn' = [conn EXCEPT ![c] = Paired]
        /\ clients' = Append(clients, c)
        /\ fd' = [fd EXCEPT ![t] = c]
  /\ pc' = [pc EXCEPT ![t] = "connecting"]
  /\ UNCHANGED <<running, pipe, wake, owner, next, server, ctl, starts, killed>>
  /\ Silent

\* Mutant: no wakeup byte.
ConnectWakeNever(t) ==
  /\ pc[t] = "connecting"
  /\ pc' = [pc EXCEPT ![t] = "on"]
  /\ UNCHANGED <<service, server, conn, fd, ctl, starts, killed>>
  /\ Silent

(* Outside s.lock it writes the byte that has the list polled.  Without a  *)
(* reader the write raises SIGPIPE, which nothing here catches; with the   *)
(* descriptor closed it fails, and the client's end is closed again, or    *)
(* the host has reused the number, and the byte goes to some other file.   *)
ConnectWake(t) ==
  /\ pc[t] = "connecting"
  /\ \/ /\ pipe = "open"
        /\ wake' = Append(wake, "n")
        /\ pc' = [pc EXCEPT ![t] = "on"]
        /\ UNCHANGED <<conn, fd, killed>>
     \/ /\ pipe = "noread"
        /\ killed' = TRUE
        /\ UNCHANGED <<wake, pc, conn, fd>>
     \/ /\ pipe = "none"
        /\ pc' = [pc EXCEPT ![t] = "on"]
        /\ UNCHANGED <<wake, conn, fd, killed>>
     \/ /\ pipe = "none"
        /\ pc' = [pc EXCEPT ![t] = "out"]
        /\ conn' = [conn EXCEPT ![fd[t]] = CloseClient(@)]
        /\ fd' = [fd EXCEPT ![t] = NoConn]
        /\ UNCHANGED <<wake, killed>>
  /\ UNCHANGED <<running, pipe, clients, owner, next, server, ctl, starts>>
  /\ Silent

(* psrv_call writes the request; a closed peer raises SIGPIPE.             *)
Call(t, k) ==
  /\ pc[t] = "on"
  /\ k.op \in {"new", "dup"} => next < MaxIssues
  /\ \/ /\ conn[fd[t]].srv
        /\ conn' = [conn EXCEPT ![fd[t]].req =
                        [op |-> k.op, pid |-> PidOf[t], arg |-> k.arg]]
        /\ pc' = [pc EXCEPT ![t] = "call"]
        /\ UNCHANGED killed
     \/ /\ ~conn[fd[t]].srv
        /\ killed' = TRUE
        /\ UNCHANGED <<conn, pc>>
  /\ UNCHANGED <<service, server, fd, ctl, starts>>
  /\ Silent

\* Mutant: a short read passes for a reply.
CallReturnUnchecked(t) ==
  /\ pc[t] = "call"
  /\ LET k == conn[fd[t]]
     IN /\ k.rep # NoReply \/ ~k.srv
        /\ conn' = [conn EXCEPT ![fd[t]].rep = NoReply]
        /\ ret' = [client |-> t, rc |-> 0, status |-> k.rep.status, value |-> k.rep.value]
  /\ pc' = [pc EXCEPT ![t] = "on"]
  /\ UNCHANGED <<service, server, fd, ctl, starts, killed>>

(* It reads the reply, or the end of file a closed peer leaves.            *)
CallReturn(t) ==
  /\ pc[t] = "call"
  /\ LET k == conn[fd[t]]
     IN \/ /\ k.rep # NoReply
           /\ conn' = [conn EXCEPT ![fd[t]].rep = NoReply]
           /\ ret' = [client |-> t, rc |-> 0, status |-> k.rep.status,
                      value |-> k.rep.value]
        \/ /\ k.rep = NoReply /\ ~k.srv
           /\ UNCHANGED conn
           /\ ret' = [client |-> t, rc |-> -1, status |-> 0, value |-> 0]
  /\ pc' = [pc EXCEPT ![t] = "on"]
  /\ UNCHANGED <<service, server, fd, ctl, starts, killed>>

(* The client closes its end.                                              *)
Close(t) ==
  /\ pc[t] = "on"
  /\ conn' = [conn EXCEPT ![fd[t]] = CloseClient(@)]
  /\ pc' = [pc EXCEPT ![t] = "out"]
  /\ fd' = [fd EXCEPT ![t] = NoConn]
  /\ UNCHANGED <<service, server, ctl, starts, killed>>
  /\ Silent

-----------------------------------------------------------------------------
(* server_loop copies the list under s.lock.                               *)
Snapshot ==
  /\ spc = "top"
  /\ snap' = clients
  /\ spc' = "poll"
  /\ UNCHANGED <<service, todo, conn, pc, fd, ctl, starts, killed>>
  /\ Silent

ReadyIn(c) == conn[c].req # NoRequest  \* mutant: POLLHUP is not looked at
\* POLLIN or POLLHUP on the server's end of c.
Ready(c) == conn[c].req # NoRequest \/ ~conn[c].cli

\* Mutant: the list is not copied again after a wakeup.
PollWakeupKeeps ==
  /\ spc = "poll"
  /\ wake # <<>>
  /\ wake' = Tail(wake)
  /\ spc' = IF Head(wake) = "q" THEN "off" ELSE "poll"
  /\ UNCHANGED <<running, pipe, clients, owner, next, snap, todo, conn, pc, fd, ctl,
                 starts, killed>>
  /\ Silent

(* poll returns because of the pipe: one byte is read, whatever else is    *)
(* ready.                                                                  *)
PollWakeup ==
  /\ spc = "poll"
  /\ wake # <<>>
  /\ wake' = Tail(wake)
  /\ spc' = IF Head(wake) = "q" THEN "off" ELSE "top"
  /\ snap' = <<>>
  /\ UNCHANGED <<running, pipe, clients, owner, next, todo, conn, pc, fd, ctl,
                 starts, killed>>
  /\ Silent

(* poll returns because of clients only.                                   *)
PollClients ==
  /\ spc = "poll"
  /\ wake = <<>>
  /\ todo' = {c \in Members(snap) : Ready(c)}
  /\ todo' # {}
  /\ spc' = "serve"
  /\ UNCHANGED <<service, snap, conn, pc, fd, ctl, starts, killed>>
  /\ Silent

(* handle_request: the reply to r, with the handle table that follows.     *)
Valid(h) == h < MaxHandles /\ owner[h] # 0

Answer(r, status, value) == [status |-> status, value |-> value]

AllocateOneMore(r, reply) ==  \* mutant: off by one at MAX_HANDLES
  /\ next' = next + 1
  /\ IF next > MaxHandles
     THEN reply = Answer(r, -1, 0) /\ UNCHANGED owner
     ELSE reply = Answer(r, 0, next) /\ owner' = [owner EXCEPT ![next] = r.pid]

Allocate(r, reply) ==
  /\ next' = next + 1
  /\ IF next >= MaxHandles
     THEN reply = Answer(r, -1, 0) /\ UNCHANGED owner
     ELSE reply = Answer(r, 0, next) /\ owner' = [owner EXCEPT ![next] = r.pid]

\* Mutant: a duplication takes its handle before it looks at the original.
HandleRequestWastes(r, reply) ==
  \/ r.op = "ping" /\ reply = Answer(r, 0, r.arg) /\ UNCHANGED <<owner, next>>
  \/ r.op \in {"new", "dup"} /\ (r.op = "dup" => Valid(r.arg)) /\ Allocate(r, reply)
  \/ r.op = "dup" /\ ~Valid(r.arg) /\ reply = Answer(r, -1, 0)
     /\ next' = next + 1 /\ UNCHANGED owner
  \/ r.op = "other" /\ reply = Answer(r, -2, 0) /\ UNCHANGED <<owner, next>>

HandleRequest(r, reply) ==
  \/ r.op = "ping" /\ reply = Answer(r, 0, r.arg) /\ UNCHANGED <<owner, next>>
  \/ r.op = "new" /\ Allocate(r, reply)
  \/ r.op = "dup" /\ Valid(r.arg) /\ Allocate(r, reply)
  \/ r.op = "dup" /\ ~Valid(r.arg) /\ reply = Answer(r, -1, 0) /\ UNCHANGED <<owner, next>>
  \/ r.op = "other" /\ reply = Answer(r, -2, 0) /\ UNCHANGED <<owner, next>>

(* The loop over fds comes to c next; after the last one it starts over.   *)
Turn(c) == \E i \in DOMAIN snap : snap[i] = c /\ \A j \in 1..(i - 1) : snap[j] \notin todo

Served(c) ==
  /\ spc = "serve" /\ c \in todo /\ Turn(c)
  /\ todo' = todo \ {c}
  /\ IF todo' = {} THEN spc' = "top" /\ snap' = <<>> ELSE UNCHANGED <<spc, snap>>

Serve ==
  \E c \in todo :
    /\ Served(c)
    /\ conn[c].req # NoRequest
    /\ \E reply \in Reply :
         /\ HandleRequest(conn[c].req, reply)
         /\ conn' = [conn EXCEPT ![c].req = NoRequest, ![c].rep = reply]
    /\ UNCHANGED <<running, pipe, wake, clients, pc, fd, ctl, starts, killed>>
    /\ Silent

(* A client has vanished: the last descriptor of the list takes the place  *)
(* of its own (which is there: ListedIsOpen).                              *)
SwapRemoveLast(q, i) == SubSeq(q, 1, Len(q) - 1)  \* mutant: no swap
SwapRemove(q, i) == SubSeq([q EXCEPT ![i] = q[Len(q)]], 1, Len(q) - 1)

Vanish ==
  \E c \in todo :
    /\ Served(c)
    /\ conn[c].req = NoRequest
    /\ \E i \in DOMAIN clients :
         /\ clients[i] = c
         /\ clients' = SwapRemove(clients, i)
    /\ conn' = [conn EXCEPT ![c] = CloseServer(@)]
    /\ UNCHANGED <<running, pipe, wake, owner, next, pc, fd, ctl, starts, killed>>
    /\ Silent

-----------------------------------------------------------------------------
ClientStep(t) ==
  \/ ConnectRegister(t)
  \/ ConnectWake(t)
  \/ \E k \in Calls : Call(t, k)
  \/ CallReturn(t)
  \/ Close(t)

ServerStep == Snapshot \/ PollWakeup \/ PollClients \/ Serve \/ Vanish

Next ==
  /\ ~killed
  /\ \/ Start \/ StopBegin \/ StopClose \/ StopEnd
     \/ ServerStep
     \/ \E t \in Clients : ClientStep(t)

Spec == Init /\ [][Next]_vars

(* Threads inside psrv.c keep running; a call that has been answered       *)
(* returns.  Nobody has to connect, call, close, start or stop.            *)
Fairness ==
  /\ WF_vars(~killed /\ ServerStep)
  /\ WF_vars(~killed /\ (StopClose \/ StopEnd))
  /\ \A t \in Clients : WF_vars(~killed /\ (ConnectWake(t) \/ CallReturn(t)))

FairSpec == Spec /\ Fairness
-----------------------------------------------------------------------------
(* Properties.                                                             *)

\* Every variable has its type.
TypeOK ==
  /\ running \in BOOLEAN
  /\ pipe \in {"none", "noread", "open"}
  /\ wake \in Seq({"n", "q"})
  /\ clients \in Seq(Conns) /\ snap \in Seq(Conns) /\ todo \subseteq Conns
  /\ owner \in [0..(MaxHandles - 1) -> Pids \cup {0}]
  /\ next \in Nat
  /\ spc \in {"off", "top", "poll", "serve"}
  /\ conn \in [Conns -> [srv : BOOLEAN, cli : BOOLEAN, late : BOOLEAN,
                         req : Request \cup {NoRequest}, rep : Reply \cup {NoReply}]]
  /\ pc \in [Clients -> {"out", "connecting", "on", "call"}]
  /\ fd \in [Clients -> Conns \cup {NoConn}]
  /\ ctl \in {"idle", "join", "closed", "noread", "nopipe"}
  /\ starts \in 0..MaxStarts
  /\ killed \in BOOLEAN
  /\ ret \in [client : Clients \cup {NoClient}, rc : {0, -1}, status : {0, -1, -2},
             value : 0..MaxHandles]

\* The list holds each connection once, within MAX_CLIENTS, and the server's
\* end of each is open; the server reads from listed descriptors only, though
\* it walks a snapshot and removes entries by swapping while it does.
ListedIsOpen ==
  /\ Len(clients) <= MaxClients
  /\ \A i, j \in DOMAIN clients : clients[i] = clients[j] => i = j
  /\ \A c \in Members(clients) : conn[c].srv
  /\ todo \subseteq Members(clients)

\* While the server sleeps in poll, a connection its snapshot lacks is one
\* whose client has yet to write its wakeup byte, or the byte is there.
NoLostWakeup ==
  spc = "poll" =>
    \A c \in Members(clients) \ Members(snap) :
      wake # <<>> \/ \E t \in Clients : pc[t] = "connecting" /\ fd[t] = c

\* psrv_stop ends the server thread and closes all connections.
StopClosesAll ==
  ctl = "idle" /\ ~running => spc = "off" /\ \A c \in Conns : ~conn[c].srv

\* It does, but for the connections that were made behind its back; they stay
\* out of the list of the next server too.
StopClosesListed ==
  \A c \in Conns :
    /\ ctl = "idle" /\ ~running /\ conn[c].srv => conn[c].late
    /\ running /\ conn[c].late => c \notin Members(snap) \cup todo
    /\ conn[c].srv /\ ~conn[c].late => c \in Members(clients)

\* Every psrv_call returns, also when the server stops meanwhile; but not on a
\* connection made behind psrv_stop's back, and if SIGPIPE does not end all.
CallsReturn ==
  \A t \in Clients :
    pc[t] = "call" ~> pc[t] = "on" \/ killed \/ \E c \in Conns : fd[t] = c /\ conn[c].late

\* The place of a client that has closed its end becomes free, however busy
\* the others keep the server and its wakeup pipe.
VanishedAreReaped ==
  \A c \in Conns :
    conn[c].srv /\ ~conn[c].cli ~> ~conn[c].srv \/ killed \/ conn[c].late
=============================================================================
