------------------------------ MODULE PSrvProofs ------------------------------
(* Theorems about PSrv, for any clients, connections, handles and bounds:  *)
(* its safety first, then that it implements HandleService.                *)
EXTENDS PSrvRefinement, SequenceTheorems, TLAPS

Pair == [srv : BOOLEAN, cli : BOOLEAN, late : BOOLEAN,
         req : Request \cup {NoRequest}, rep : Reply \cup {NoReply}]

(* The invariant.  It ties what the server thread holds without the lock   *)
(* (its snapshot, and what was ready in it) to the list it was taken from, *)
(* and the phases of psrv_stop to the thread and to the connections.       *)

\* The thread runs only while the pipe is open and psrv_stop has not joined it.
Serving == spc # "off" => running /\ pipe = "open" /\ ctl \in {"idle", "join"}

\* Past its close loop, psrv_stop leaves open what was made behind its back.
Closing == ctl \in {"closed", "noread", "nopipe"}
Stopping ==
  /\ ~running => ctl = "idle"
  /\ \A c \in Conns : (~running \/ Closing) /\ conn[c].srv => conn[c].late
  /\ running /\ ~Closing => \A c \in Members(clients) : ~conn[c].late

\* The snapshot is of listed connections while the thread sleeps on it.
Polled ==
  /\ spc \in {"off", "top"} => snap = <<>> /\ todo = {}
  /\ spc = "poll" => todo = {} /\ Members(snap) \subseteq Members(clients)

\* A client that is connected, or about to be, has a connection.
Held == \A t \in Clients : pc[t] # "out" => fd[t] \in Conns

IInv ==
  /\ TypeOK /\ Serving /\ Stopping /\ Polled /\ Held
  /\ ListedIsOpen /\ NoLostWakeup /\ StopClosesListed

-----------------------------------------------------------------------------
(* Connections and the list.                                               *)

LEMMA Unpair == Unpaired \in Pair /\ ~Unpaired.srv /\ ~Unpaired.late
BY DEF Unpaired, Pair

LEMMA ClientEnd ==
  ASSUME NEW k \in Pair
  PROVE  /\ CloseClient(k) \in Pair
         /\ CloseClient(k).srv = k.srv
         /\ CloseClient(k).late => k.late
         /\ k.srv => CloseClient(k).late = k.late
BY DEF CloseClient, Left, Unpaired, Pair

LEMMA ServerEnd ==
  ASSUME NEW k \in Pair
  PROVE  /\ CloseServer(k) \in Pair
         /\ ~CloseServer(k).srv
         /\ CloseServer(k).late => k.late
BY DEF CloseServer, Left, Unpaired, Pair

LEMMA Typed ==
  ASSUME IInv
  PROVE  /\ conn \in [Conns -> Pair] /\ clients \in Seq(Conns) /\ snap \in Seq(Conns)
         /\ todo \subseteq Conns /\ fd \in [Clients -> Conns \cup {NoConn}]
         /\ Members(clients) \subseteq Conns /\ Members(snap) \subseteq Conns
         /\ wake \in Seq({"n", "q"})
         /\ pc \in [Clients -> {"out", "connecting", "on", "call"}]
<1>1. /\ conn \in [Conns -> Pair] /\ clients \in Seq(Conns) /\ snap \in Seq(Conns)
      /\ todo \subseteq Conns /\ fd \in [Clients -> Conns \cup {NoConn}]
      /\ wake \in Seq({"n", "q"})
      /\ pc \in [Clients -> {"out", "connecting", "on", "call"}]
  BY DEF IInv, TypeOK, Pair
<1> QED
  BY <1>1 DEF Members

LEMMA AppendMembers ==
  ASSUME NEW S, NEW q \in Seq(S), NEW c \in S
  PROVE  /\ Append(q, c) \in Seq(S)
         /\ Members(Append(q, c)) = Members(q) \cup {c}
         /\ Len(Append(q, c)) = Len(q) + 1
         /\ (\A i, j \in DOMAIN q : q[i] = q[j] => i = j) /\ c \notin Members(q) =>
              \A i, j \in DOMAIN Append(q, c) :
                Append(q, c)[i] = Append(q, c)[j] => i = j
<1> DEFINE r == Append(q, c)
<1>1. /\ r \in Seq(S) /\ Len(r) = Len(q) + 1 /\ r[Len(q) + 1] = c
      /\ \A i \in 1..Len(q) : r[i] = q[i]
      /\ DOMAIN q = 1..Len(q) /\ DOMAIN r = 1..(Len(q) + 1) /\ Len(q) \in Nat
  BY AppendProperties, LenProperties
<1> HIDE DEF r
<1>2. \A i \in DOMAIN r : i \in DOMAIN q \/ i = Len(q) + 1
  BY <1>1
<1>3. Members(r) = Members(q) \cup {c}
  BY <1>1, <1>2 DEF Members
<1>4. ASSUME \A i, j \in DOMAIN q : q[i] = q[j] => i = j, c \notin Members(q),
             NEW i \in DOMAIN r, NEW j \in DOMAIN r, r[i] = r[j]
      PROVE  i = j
  <2>1. \A k \in DOMAIN q : r[k] = q[k] /\ q[k] # c
    BY <1>1, <1>4 DEF Members
  <2> QED
    BY <1>1, <1>2, <1>4, <2>1
<1> QED
  BY <1>1, <1>3, <1>4 DEF r

\* The swap removes one element and keeps the others, each once.
LEMMA SwapRemoveMembers ==
  ASSUME NEW S, NEW q \in Seq(S), \A i, j \in DOMAIN q : q[i] = q[j] => i = j,
         NEW k \in DOMAIN q
  PROVE  /\ SwapRemove(q, k) \in Seq(S)
         /\ Len(SwapRemove(q, k)) = Len(q) - 1
         /\ Members(SwapRemove(q, k)) = Members(q) \ {q[k]}
         /\ \A i, j \in DOMAIN SwapRemove(q, k) :
              SwapRemove(q, k)[i] = SwapRemove(q, k)[j] => i = j
<1> DEFINE n == Len(q)
           e == [q EXCEPT ![k] = q[Len(q)]]
           r == SwapRemove(q, k)
<1>1. n \in Nat /\ DOMAIN q = 1..n /\ k \in 1..n /\ n \in 1..n /\ n - 1 \in Nat
  BY LenProperties
<1>2. /\ e \in Seq(S)
      /\ \A j \in 1..n : e[j] = (IF j = k THEN q[n] ELSE q[j]) /\ e[j] \in S
  BY <1>1, ExceptSeq, ElementOfSeq
<1> HIDE DEF e
<1>3. /\ SubSeq(e, 1, n - 1) \in Seq(S) /\ Len(SubSeq(e, 1, n - 1)) = n - 1
      /\ \A j \in 1..(n - 1) : SubSeq(e, 1, n - 1)[j] = e[j]
  <2>1. \A j \in 1..(n - 1) : e[j] \in S
    BY <1>1, <1>2
  <2> QED
    BY <1>1, <2>1, SubSeqProperties
<1>4. r = SubSeq(e, 1, n - 1)
  BY DEF SwapRemove, e
<1> HIDE DEF n, r
<1>5. /\ r \in Seq(S) /\ Len(r) = n - 1 /\ DOMAIN r = 1..(n - 1)
      /\ \A j \in 1..(n - 1) : r[j] = IF j = k THEN q[n] ELSE q[j]
  BY <1>1, <1>2, <1>3, <1>4, LenProperties
<1>6. \A i \in DOMAIN r : i \in 1..n /\ i # n
  BY <1>1, <1>5
<1>7. \A i, j \in DOMAIN r : r[i] = r[j] => i = j
  BY <1>1, <1>5, <1>6
<1>8. Members(r) = Members(q) \ {q[k]}
  <2>1. \A i \in DOMAIN r : r[i] \in Members(q) /\ r[i] # q[k]
    BY <1>1, <1>5, <1>6 DEF Members
  <2>2. \A i \in 1..n : i # k => \E j \in DOMAIN r : r[j] = q[i]
    <3>1. ASSUME NEW i \in 1..n, i # k
          PROVE  \E j \in DOMAIN r : r[j] = q[i]
      <4>1. CASE i = n
        BY <1>1, <1>5, <3>1, <4>1
      <4>2. CASE i # n
        BY <1>1, <1>5, <3>1, <4>2
      <4> QED
        BY <4>1, <4>2
    <3> QED
      BY <3>1
  <2> QED
    BY <1>1, <2>1, <2>2 DEF Members
<1> QED
  BY <1>5, <1>7, <1>8 DEF r, n

-----------------------------------------------------------------------------
(* The steps.                                                              *)

\* The server's end stays as it is, and so does whether it was made too late.
Kept(c) ==
  /\ conn'[c].srv = conn[c].srv
  /\ conn'[c].late => conn[c].late
  /\ conn[c].srv => conn'[c].late = conn[c].late

LEMMA Initial == Init => IInv
<1> SUFFICES ASSUME Init PROVE IInv
  OBVIOUS
<1>1. TypeOK
  <2>1. conn \in [Conns -> Pair]
    BY Unpair DEF Init
  <2>2. /\ owner \in [0..(MaxHandles - 1) -> Pids \cup {0}]
        /\ starts \in 0..MaxStarts
        /\ ret \in [client : Clients \cup {NoClient}, rc : {0, -1}, status : {0, -1, -2},
                    value : 0..MaxHandles]
    BY PSrvAssumption DEF Init, NoRet
  <2>3. /\ wake \in Seq({"n", "q"}) /\ clients \in Seq(Conns) /\ snap \in Seq(Conns)
        /\ todo \subseteq Conns
    BY DEF Init
  <2>4. /\ pc \in [Clients -> {"out", "connecting", "on", "call"}]
        /\ fd \in [Clients -> Conns \cup {NoConn}]
    BY DEF Init
  <2>5. /\ running \in BOOLEAN /\ pipe \in {"none", "noread", "open"} /\ next \in Nat
        /\ spc \in {"off", "top", "poll", "serve"} /\ killed \in BOOLEAN
        /\ ctl \in {"idle", "join", "closed", "noread", "nopipe"}
    BY DEF Init
  <2> QED
    BY <2>1, <2>2, <2>3, <2>4, <2>5 DEF TypeOK, Pair
<1>2. Members(clients) = {} /\ Members(snap) = {}
  BY DEF Init, Members
<1>3. Serving /\ Polled /\ Held /\ NoLostWakeup
  BY <1>2 DEF Init, Serving, Polled, Held, NoLostWakeup
<1>4. \A c \in Conns : ~conn[c].srv /\ ~conn[c].late
  BY Unpair DEF Init
<1>5. Stopping /\ StopClosesListed
  BY <1>2, <1>4 DEF Init, Stopping, StopClosesListed
<1>6. ListedIsOpen
  BY <1>2, PSrvAssumption DEF Init, ListedIsOpen
<1> QED
  BY <1>1, <1>3, <1>5, <1>6 DEF IInv

\* A step of a client, or of psrv_call, that neither lists nor closes.
LEMMA ClientCalm ==
  ASSUME IInv, TypeOK', Held', NoLostWakeup', \A c \in Conns : Kept(c),
         UNCHANGED <<running, pipe, clients, spc, snap, todo, ctl>>
  PROVE  IInv'
<1>1. Members(clients)' = Members(clients) /\ Members(snap)' = Members(snap)
  BY DEF Members
<1>2. Members(clients) \subseteq Conns
  BY Typed
<1>3. Serving' /\ Polled'
  BY <1>1 DEF IInv, Serving, Polled
<1>4. Stopping'
  BY <1>1, <1>2 DEF IInv, Stopping, Closing, Kept
<1>5. ListedIsOpen'
  BY <1>1, <1>2 DEF IInv, ListedIsOpen, Kept
<1>6. StopClosesListed'
  BY <1>1, <1>2 DEF IInv, StopClosesListed, Kept
<1> QED
  BY <1>3, <1>4, <1>5, <1>6 DEF IInv

\* A step of the server thread that closes nothing.
LEMMA ServerCalm ==
  ASSUME IInv, TypeOK', NoLostWakeup', Polled', spc # "off", \A c \in Conns : Kept(c),
         todo' \subseteq Members(clients),
         Members(snap)' \cup todo' \subseteq Members(snap) \cup todo \cup Members(clients),
         UNCHANGED <<running, pipe, clients, ctl, pc, fd>>
  PROVE  IInv'
<1>1. running /\ pipe = "open" /\ ctl \in {"idle", "join"} /\ ~Closing
  BY DEF IInv, Serving, Closing
<1>2. Members(clients)' = Members(clients) /\ Members(clients) \subseteq Conns
  BY Typed DEF Members
<1>3. Serving' /\ Held'
  BY <1>1 DEF IInv, Serving, Held
<1>4. Stopping'
  BY <1>1, <1>2 DEF IInv, Stopping, Closing, Kept
<1>5. ListedIsOpen'
  BY <1>2 DEF IInv, ListedIsOpen, Kept
<1>6. StopClosesListed'
  <2>1. ASSUME NEW c \in Conns, conn'[c].late
        PROVE  c \notin Members(snap)' \cup todo'
    <3>1. conn[c].late
      BY <2>1 DEF Kept
    <3>2. c \notin Members(clients) /\ c \notin Members(snap) \cup todo
      BY <1>1, <3>1 DEF IInv, Stopping, StopClosesListed
    <3> QED
      BY <3>2
  <2>2. \A c \in Conns : conn'[c].srv /\ ~conn'[c].late => c \in Members(clients)'
    BY <1>2 DEF IInv, StopClosesListed, Kept
  <2> QED
    BY <1>1, <2>1, <2>2 DEF StopClosesListed
<1> QED
  BY <1>3, <1>4, <1>5, <1>6 DEF IInv

LEMMA StartKeeps ==
  ASSUME IInv, Start
  PROVE  IInv'
<1>1. /\ ctl = "idle" /\ ~running /\ running' = TRUE /\ pipe' = "open" /\ wake' = <<>>
      /\ clients' = <<>> /\ owner' = [h \in 0..(MaxHandles - 1) |-> 0] /\ next' = 1
      /\ spc' = "top" /\ snap' = <<>> /\ todo' = {} /\ starts < MaxStarts
      /\ starts' = starts + 1 /\ ret' = NoRet
      /\ UNCHANGED <<conn, pc, fd, ctl, killed>>
  BY DEF Start, Silent
<1>2. Members(clients)' = {} /\ Members(snap)' = {} /\ Len(clients') = 0 /\ DOMAIN clients' = {}
  BY <1>1 DEF Members
<1>3. TypeOK'
  <2>1. starts' \in 0..MaxStarts
    BY <1>1, PSrvAssumption DEF IInv, TypeOK
  <2>2. ret' \in [client : Clients \cup {NoClient}, rc : {0, -1}, status : {0, -1, -2},
                  value : 0..MaxHandles]
    BY <1>1, PSrvAssumption DEF NoRet
  <2> QED
    BY <1>1, <2>1, <2>2 DEF IInv, TypeOK
<1>4. Serving' /\ Polled' /\ Held' /\ NoLostWakeup'
  BY <1>1 DEF IInv, Serving, Polled, Held, NoLostWakeup
<1>5. \A c \in Conns : conn[c].srv => conn[c].late
  BY <1>1 DEF IInv, Stopping
<1>6. Stopping' /\ StopClosesListed'
  BY <1>1, <1>2, <1>5 DEF Stopping, Closing, StopClosesListed
<1>7. ListedIsOpen'
  BY <1>1, <1>2, PSrvAssumption DEF ListedIsOpen
<1> QED
  BY <1>3, <1>4, <1>6, <1>7 DEF IInv

\* What a step that returns nothing leaves of the types.
LEMMA SilentType ==
  ASSUME Silent
  PROVE  ret' \in [client : Clients \cup {NoClient}, rc : {0, -1}, status : {0, -1, -2},
                   value : 0..MaxHandles]
BY PSrvAssumption DEF Silent, NoRet

LEMMA StopBeginKeeps ==
  ASSUME IInv, StopBegin
  PROVE  IInv'
<1>1. /\ ctl = "idle" /\ running /\ wake' = Append(wake, "q") /\ ctl' = "join"
      /\ UNCHANGED <<running, pipe, clients, owner, next, spc, snap, todo, conn, pc, fd,
                     starts, killed>>
  BY DEF StopBegin, server
<1>2. wake' \in Seq({"n", "q"}) /\ wake' # <<>>
  <2>1. wake \in Seq({"n", "q"})
    BY Typed
  <2> QED
    BY <1>1, <2>1, AppendProperties
<1>3. TypeOK'
  BY <1>1, <1>2, SilentType DEF IInv, TypeOK, StopBegin
<1>4. Serving' /\ Polled' /\ Held' /\ NoLostWakeup'
  BY <1>1, <1>2 DEF IInv, Serving, Polled, Held, NoLostWakeup, Members
<1>5. Stopping' /\ StopClosesListed' /\ ListedIsOpen'
  BY <1>1 DEF IInv, Stopping, Closing, StopClosesListed, ListedIsOpen, Members
<1> QED
  BY <1>3, <1>4, <1>5 DEF IInv

LEMMA StopCloseKeeps ==
  ASSUME IInv, StopClose
  PROVE  IInv'
<1>1. /\ ctl = "join" /\ spc = "off" /\ clients' = <<>> /\ ctl' = "closed"
      /\ conn' = [c \in Conns |-> IF c \in Members(clients)
                                  THEN CloseServer(conn[c]) ELSE conn[c]]
      /\ UNCHANGED <<running, pipe, wake, owner, next, spc, snap, todo, pc, fd, starts, killed>>
  BY DEF StopClose, server
<1>2. running /\ ~Closing /\ snap = <<>> /\ todo = {}
  BY <1>1 DEF IInv, Stopping, Polled, Closing
<1>3. conn \in [Conns -> Pair]
  BY Typed
<1>4. \A c \in Conns :
        /\ conn'[c] \in Pair
        /\ c \in Members(clients) => ~conn'[c].srv
        /\ c \notin Members(clients) => conn'[c] = conn[c]
  BY <1>1, <1>3, ServerEnd
<1>5. conn' \in [Conns -> Pair]
  BY <1>1, <1>4
<1>6. Members(clients)' = {} /\ Members(snap)' = {} /\ Len(clients') = 0 /\ DOMAIN clients' = {}
  BY <1>1, <1>2 DEF Members
<1>7. TypeOK'
  BY <1>1, <1>5, SilentType DEF IInv, TypeOK, StopClose, Pair
<1>8. Serving' /\ Polled' /\ Held' /\ NoLostWakeup'
  BY <1>1, <1>2 DEF IInv, Serving, Polled, Held, NoLostWakeup
<1>9. \A c \in Conns : conn'[c].srv => conn'[c].late
  BY <1>4 DEF IInv, StopClosesListed
<1>10. Stopping'
  BY <1>1, <1>2, <1>9 DEF Stopping, Closing
<1>11. StopClosesListed'
  BY <1>1, <1>2, <1>6, <1>9 DEF StopClosesListed
<1>12. ListedIsOpen'
  BY <1>1, <1>2, <1>6, PSrvAssumption DEF ListedIsOpen
<1> QED
  BY <1>7, <1>8, <1>10, <1>11, <1>12 DEF IInv

LEMMA StopEndKeeps ==
  ASSUME IInv, StopEnd
  PROVE  IInv'
<1>1. /\ Closing /\ wake' = <<>> /\ ctl' \in {"noread", "nopipe", "idle"}
      /\ pipe' \in {"none", "noread", "open"}
      /\ ctl' = "idle" <=> ctl = "nopipe"
      /\ running' = IF ctl = "nopipe" THEN FALSE ELSE running
      /\ UNCHANGED <<clients, owner, next, spc, snap, todo, conn, pc, fd, starts, killed>>
  BY DEF StopEnd, server, Closing, IInv, TypeOK
<1>2. spc = "off" /\ running
  BY <1>1 DEF IInv, Serving, Stopping, Closing
<1>3. snap = <<>> /\ todo = {}
  BY <1>2 DEF IInv, Polled
<1>4. TypeOK'
  <2>1. wake' \in Seq({"n", "q"}) /\ running' \in BOOLEAN
    BY <1>1, <1>2
  <2> QED
    BY <1>1, <2>1, SilentType DEF IInv, TypeOK, StopEnd
<1>5. Serving' /\ Polled' /\ Held' /\ NoLostWakeup'
  BY <1>1, <1>2, <1>3 DEF IInv, Serving, Polled, Held, NoLostWakeup, Members
<1>6. \A c \in Conns : conn[c].srv => conn[c].late
  BY <1>1 DEF IInv, Stopping
<1>7. Stopping'
  BY <1>1, <1>2, <1>6 DEF Stopping, Closing
<1>8. StopClosesListed'
  BY <1>1, <1>3, <1>6 DEF IInv, StopClosesListed, Members
<1>9. ListedIsOpen'
  BY <1>1 DEF IInv, ListedIsOpen, Members
<1> QED
  BY <1>4, <1>5, <1>7, <1>8, <1>9 DEF IInv

LEMMA RegisterKeeps ==
  ASSUME IInv, NEW t \in Clients, ConnectRegister(t)
  PROVE  IInv'
<1>1. PICK c \in Conns :
        /\ conn[c] = Unpaired /\ conn' = [conn EXCEPT ![c] = Paired]
        /\ clients' = Append(clients, c) /\ fd' = [fd EXCEPT ![t] = c]
  BY DEF ConnectRegister
<1>2. /\ pc[t] = "out" /\ running /\ Len(clients) < MaxClients
      /\ pc' = [pc EXCEPT ![t] = "connecting"]
      /\ UNCHANGED <<running, pipe, wake, owner, next, spc, snap, todo, ctl, starts, killed>>
  BY DEF ConnectRegister, server
<1>3. /\ conn \in [Conns -> Pair] /\ clients \in Seq(Conns)
      /\ fd \in [Clients -> Conns \cup {NoConn}]
      /\ pc \in [Clients -> {"out", "connecting", "on", "call"}]
      /\ Members(clients) \subseteq Conns
  BY Typed
<1>4. Paired \in Pair /\ Paired.srv /\ Paired.late = Closing
  <2>1. ASSUME NEW b \in BOOLEAN
        PROVE  LET p == [Unpaired EXCEPT !.srv = TRUE, !.cli = TRUE, !.late = b]
               IN  p \in Pair /\ p.srv /\ p.late = b
    BY <2>1 DEF Unpaired, Pair
  <2>2. Closing \in BOOLEAN
    BY DEF Closing
  <2>3. Paired = [Unpaired EXCEPT !.srv = TRUE, !.cli = TRUE, !.late = Closing]
    BY Zenon DEF Paired, Closing
  <2> QED
    BY <2>1, <2>2, <2>3, Zenon
<1>5. /\ conn' \in [Conns -> Pair] /\ conn'[c] = Paired
      /\ \A b \in Conns \ {c} : conn'[b] = conn[b]
  BY <1>1, <1>3, <1>4
<1>6. c \notin Members(clients)
  BY <1>1, Unpair DEF IInv, ListedIsOpen
<1>7. /\ clients' \in Seq(Conns) /\ Members(clients') = Members(clients) \cup {c}
      /\ Len(clients') = Len(clients) + 1
      /\ \A i, j \in DOMAIN clients' : clients'[i] = clients'[j] => i = j
  BY <1>1, <1>3, <1>6, AppendMembers DEF IInv, ListedIsOpen
<1>8. Members(clients)' = Members(clients) \cup {c} /\ Members(snap)' = Members(snap)
  BY <1>2, <1>7 DEF Members
<1>9. /\ fd' \in [Clients -> Conns \cup {NoConn}] /\ fd'[t] = c
      /\ pc' \in [Clients -> {"out", "connecting", "on", "call"}] /\ pc'[t] = "connecting"
      /\ \A u \in Clients \ {t} : fd'[u] = fd[u] /\ pc'[u] = pc[u]
  BY <1>1, <1>2, <1>3
<1>10. TypeOK'
  BY <1>2, <1>5, <1>7, <1>9, SilentType DEF IInv, TypeOK, ConnectRegister, Pair
<1>11. Serving' /\ Polled'
  BY <1>2, <1>8 DEF IInv, Serving, Polled
<1>12. Held'
  BY <1>9 DEF IInv, Held
<1>13. NoLostWakeup'
  <2> SUFFICES ASSUME spc = "poll", NEW b \in Members(clients)' \ Members(snap)'
               PROVE  wake # <<>> \/ \E u \in Clients : pc'[u] = "connecting" /\ fd'[u] = b
    BY <1>2 DEF NoLostWakeup
  <2>1. CASE b = c
    BY <1>9, <2>1
  <2>2. CASE b # c
    <3>1. wake # <<>> \/ \E u \in Clients : pc[u] = "connecting" /\ fd[u] = b
      BY <1>8, <2>2 DEF IInv, NoLostWakeup
    <3> QED
      BY <1>2, <1>9, <3>1
  <2> QED
    BY <2>1, <2>2
<1>14. Stopping'
  BY <1>2, <1>4, <1>5, <1>8, <1>3 DEF IInv, Stopping, Closing
<1>15. ListedIsOpen'
  <2>1. Len(clients') <= MaxClients
    BY <1>2, <1>3, <1>7, PSrvAssumption
  <2> QED
    BY <1>2, <1>3, <1>4, <1>5, <1>7, <1>8, <2>1 DEF IInv, ListedIsOpen
<1>16. StopClosesListed'
  <2>1. Closing => Members(snap)' \cup todo' = {}
    BY <1>2, <1>8 DEF IInv, Serving, Polled, Closing, Members
  <2>2. ASSUME NEW b \in Conns, conn'[b].late
        PROVE  b \notin Members(snap)' \cup todo'
    BY <1>2, <1>4, <1>5, <1>8, <2>1, <2>2 DEF IInv, StopClosesListed
  <2>3. ASSUME NEW b \in Conns, conn'[b].srv, ~conn'[b].late
        PROVE  b \in Members(clients)'
    BY <1>5, <1>8, <2>3 DEF IInv, StopClosesListed
  <2> QED
    BY <1>2, <2>2, <2>3 DEF StopClosesListed
<1> QED
  BY <1>10, <1>11, <1>12, <1>13, <1>14, <1>15, <1>16 DEF IInv

\* A client that only goes on, and does not stop connecting unheard.
LEMMA SameWakeup ==
  ASSUME IInv, UNCHANGED <<wake, clients, snap, spc>>,
         \A u \in Clients : pc[u] = "connecting" => pc'[u] = pc[u] /\ fd'[u] = fd[u]
  PROVE  NoLostWakeup'
BY DEF IInv, NoLostWakeup, Members

LEMMA WakeKeeps ==
  ASSUME IInv, NEW t \in Clients, ConnectWake(t)
  PROVE  IInv'
<1>1. /\ pc[t] = "connecting" /\ ret' = NoRet
      /\ UNCHANGED <<running, pipe, clients, owner, next, spc, snap, todo, ctl, starts>>
  BY DEF ConnectWake, server, Silent
<1>2. /\ conn \in [Conns -> Pair] /\ wake \in Seq({"n", "q"})
      /\ fd \in [Clients -> Conns \cup {NoConn}] /\ fd[t] \in Conns
      /\ pc \in [Clients -> {"out", "connecting", "on", "call"}]
  BY <1>1, Typed DEF IInv, Held
<1>3. CASE pipe = "open" /\ wake' = Append(wake, "n") /\ pc' = [pc EXCEPT ![t] = "on"]
           /\ UNCHANGED <<conn, fd, killed>>
  <2>1. wake' \in Seq({"n", "q"}) /\ wake' # <<>>
    BY <1>2, <1>3, AppendProperties
  <2>2. TypeOK'
    BY <1>1, <1>2, <1>3, <2>1, SilentType DEF IInv, TypeOK, Silent
  <2>3. Held' /\ NoLostWakeup'
    BY <1>2, <1>3, <2>1 DEF IInv, Held, NoLostWakeup
  <2> QED
    BY <1>1, <1>3, <2>2, <2>3, ClientCalm DEF Kept
<1>4. CASE pipe = "noread" /\ killed' = TRUE /\ UNCHANGED <<wake, pc, conn, fd>>
  <2>1. TypeOK'
    BY <1>1, <1>4, SilentType DEF IInv, TypeOK, Silent
  <2>2. Held' /\ NoLostWakeup'
    BY <1>1, <1>4, SameWakeup DEF IInv, Held
  <2> QED
    BY <1>1, <1>4, <2>1, <2>2, ClientCalm DEF Kept
<1>5. CASE /\ pipe = "none" /\ pc' = [pc EXCEPT ![t] = "out"]
           /\ conn' = [conn EXCEPT ![fd[t]] = CloseClient(conn[fd[t]])]
           /\ fd' = [fd EXCEPT ![t] = NoConn] /\ UNCHANGED <<wake, killed>>
  <2>1. conn' \in [Conns -> Pair] /\ \A c \in Conns : Kept(c)
    BY <1>2, <1>5, ClientEnd DEF Kept
  <2>2. TypeOK'
    BY <1>1, <1>2, <1>5, <2>1, SilentType DEF IInv, TypeOK, Silent, Pair
  <2>3. Held'
    BY <1>2, <1>5 DEF IInv, Held
  <2>4. NoLostWakeup'
    BY <1>1, <1>5 DEF IInv, Serving, NoLostWakeup
  <2> QED
    BY <1>1, <2>1, <2>2, <2>3, <2>4, ClientCalm
<1>6. CASE pipe = "none" /\ pc' = [pc EXCEPT ![t] = "on"] /\ UNCHANGED <<wake, conn, fd, killed>>
  <2>1. TypeOK'
    BY <1>1, <1>2, <1>6, SilentType DEF IInv, TypeOK, Silent
  <2>2. Held'
    BY <1>2, <1>6 DEF IInv, Held
  <2>3. NoLostWakeup'
    BY <1>1, <1>6 DEF IInv, Serving, NoLostWakeup
  <2> QED
    BY <1>1, <1>6, <2>1, <2>2, <2>3, ClientCalm DEF Kept
<1> QED
  BY <1>3, <1>4, <1>5, <1>6 DEF ConnectWake

LEMMA CallKeeps ==
  ASSUME IInv, NEW t \in Clients, NEW k \in Calls, Call(t, k)
  PROVE  IInv'
<1>1. /\ pc[t] = "on" /\ ret' = NoRet
      /\ UNCHANGED <<running, pipe, wake, clients, owner, next, spc, snap, todo, fd, ctl, starts>>
  BY DEF Call, service, server, Silent
<1>2. /\ conn \in [Conns -> Pair] /\ fd \in [Clients -> Conns \cup {NoConn}] /\ fd[t] \in Conns
      /\ pc \in [Clients -> {"out", "connecting", "on", "call"}]
  BY <1>1, Typed DEF IInv, Held
<1> DEFINE r == [op |-> k.op, pid |-> PidOf[t], arg |-> k.arg]
<1>3. r \in Request
  BY PSrvAssumption DEF Request, Pids
<1> HIDE DEF r
<1>4. CASE /\ conn' = [conn EXCEPT ![fd[t]].req = r] /\ pc' = [pc EXCEPT ![t] = "call"]
           /\ UNCHANGED killed
  <2>1. [conn[fd[t]] EXCEPT !.req = r] \in Pair
    BY <1>2, <1>3 DEF Pair
  <2>2. conn' \in [Conns -> Pair] /\ \A c \in Conns : Kept(c)
    BY <1>2, <1>4, <2>1 DEF Kept, Pair
  <2>3. TypeOK'
    BY <1>1, <1>2, <1>4, <2>2, SilentType DEF IInv, TypeOK, Silent, Pair
  <2>4. Held' /\ NoLostWakeup'
    BY <1>1, <1>2, <1>4, SameWakeup DEF IInv, Held
  <2> QED
    BY <1>1, <2>2, <2>3, <2>4, ClientCalm
<1>5. CASE killed' = TRUE /\ UNCHANGED <<conn, pc>>
  <2>1. TypeOK'
    BY <1>1, <1>5, SilentType DEF IInv, TypeOK, Silent
  <2>2. Held' /\ NoLostWakeup'
    BY <1>1, <1>5, SameWakeup DEF IInv, Held
  <2> QED
    BY <1>1, <1>5, <2>1, <2>2, ClientCalm DEF Kept
<1> QED
  BY <1>4, <1>5 DEF Call, r

LEMMA ReturnKeeps ==
  ASSUME IInv, NEW t \in Clients, CallReturn(t)
  PROVE  IInv'
<1> DEFINE k == conn[fd[t]]
<1>1. /\ pc[t] = "call" /\ pc' = [pc EXCEPT ![t] = "on"]
      /\ UNCHANGED <<running, pipe, wake, clients, owner, next, spc, snap, todo, fd, ctl,
                     starts, killed>>
  BY DEF CallReturn, service, server
<1>2. /\ conn \in [Conns -> Pair] /\ fd \in [Clients -> Conns \cup {NoConn}] /\ fd[t] \in Conns
      /\ pc \in [Clients -> {"out", "connecting", "on", "call"}]
  BY <1>1, Typed DEF IInv, Held
<1>3. k.rep \in Reply \cup {NoReply}
  BY <1>2 DEF Pair
<1>4. /\ conn' \in [Conns -> Pair] /\ \A c \in Conns : Kept(c)
      /\ ret' \in [client : Clients \cup {NoClient}, rc : {0, -1}, status : {0, -1, -2},
                   value : 0..MaxHandles]
  <2>1. CASE /\ k.rep # NoReply
             /\ conn' = [conn EXCEPT ![fd[t]].rep = NoReply]
             /\ ret' = [client |-> t, rc |-> 0, status |-> k.rep.status, value |-> k.rep.value]
    <3>1. [k EXCEPT !.rep = NoReply] \in Pair
      BY <1>2 DEF Pair
    <3>2. conn' \in [Conns -> Pair] /\ \A c \in Conns : Kept(c)
      BY <1>2, <2>1, <3>1 DEF Kept, Pair
    <3>3. k.rep.status \in {0, -1, -2} /\ k.rep.value \in 0..MaxHandles
      BY <1>3, <2>1 DEF Reply
    <3> QED
      BY <2>1, <3>2, <3>3
  <2>2. CASE /\ UNCHANGED conn
             /\ ret' = [client |-> t, rc |-> -1, status |-> 0, value |-> 0]
    BY <1>2, <2>2, PSrvAssumption DEF Kept
  <2> QED
    BY <2>1, <2>2 DEF CallReturn
<1>5. TypeOK'
  BY <1>1, <1>2, <1>4 DEF IInv, TypeOK, Pair
<1>6. Held' /\ NoLostWakeup'
  BY <1>1, <1>2, SameWakeup DEF IInv, Held
<1> QED
  BY <1>1, <1>4, <1>5, <1>6, ClientCalm

LEMMA CloseKeeps ==
  ASSUME IInv, NEW t \in Clients, Close(t)
  PROVE  IInv'
<1>1. /\ pc[t] = "on" /\ pc' = [pc EXCEPT ![t] = "out"] /\ fd' = [fd EXCEPT ![t] = NoConn]
      /\ conn' = [conn EXCEPT ![fd[t]] = CloseClient(conn[fd[t]])]
      /\ UNCHANGED <<running, pipe, wake, clients, owner, next, spc, snap, todo, ctl, starts,
                     killed>>
  BY DEF Close, service, server
<1>2. /\ conn \in [Conns -> Pair] /\ fd \in [Clients -> Conns \cup {NoConn}] /\ fd[t] \in Conns
      /\ pc \in [Clients -> {"out", "connecting", "on", "call"}]
  BY <1>1, Typed DEF IInv, Held
<1>3. conn' \in [Conns -> Pair] /\ \A c \in Conns : Kept(c)
  BY <1>1, <1>2, ClientEnd DEF Kept
<1>4. TypeOK'
  BY <1>1, <1>2, <1>3, SilentType DEF IInv, TypeOK, Close, Pair
<1>5. Held' /\ NoLostWakeup'
  BY <1>1, <1>2, SameWakeup DEF IInv, Held
<1> QED
  BY <1>1, <1>3, <1>4, <1>5, ClientCalm

LEMMA SnapshotKeeps ==
  ASSUME IInv, Snapshot
  PROVE  IInv'
<1>1. /\ spc = "top" /\ snap' = clients /\ spc' = "poll"
      /\ UNCHANGED <<running, pipe, wake, clients, owner, next, todo, conn, pc, fd, ctl, starts,
                     killed>>
  BY DEF Snapshot, service
<1>2. Members(snap)' = Members(clients) /\ Members(clients)' = Members(clients) /\ todo = {}
  BY <1>1 DEF IInv, Polled, Members
<1>3. TypeOK'
  BY <1>1, SilentType DEF IInv, TypeOK, Snapshot
<1>4. Polled' /\ NoLostWakeup'
  BY <1>1, <1>2 DEF Polled, NoLostWakeup
<1> QED
  BY <1>1, <1>2, <1>3, <1>4, ServerCalm DEF Kept

LEMMA WakeupKeeps ==
  ASSUME IInv, PollWakeup
  PROVE  IInv'
<1>1. /\ spc = "poll" /\ wake # <<>> /\ wake' = Tail(wake) /\ spc' \in {"off", "top"}
      /\ snap' = <<>>
      /\ UNCHANGED <<running, pipe, clients, owner, next, todo, conn, pc, fd, ctl, starts,
                     killed>>
  BY DEF PollWakeup
<1>2. wake' \in Seq({"n", "q"}) /\ todo = {} /\ Members(snap)' = {}
  <2>1. wake \in Seq({"n", "q"})
    BY Typed
  <2>2. wake' \in Seq({"n", "q"})
    BY <1>1, <2>1, HeadTailProperties
  <2> QED
    BY <1>1, <2>2 DEF IInv, Polled, Members
<1>3. TypeOK'
  BY <1>1, <1>2, SilentType DEF IInv, TypeOK, PollWakeup
<1>4. Polled' /\ NoLostWakeup'
  BY <1>1, <1>2 DEF Polled, NoLostWakeup
<1> QED
  BY <1>1, <1>2, <1>3, <1>4, ServerCalm DEF Kept

LEMMA ReadyKeeps ==
  ASSUME IInv, PollClients
  PROVE  IInv'
<1>1. /\ spc = "poll" /\ todo' = {c \in Members(snap) : Ready(c)} /\ spc' = "serve"
      /\ UNCHANGED <<running, pipe, wake, clients, owner, next, snap, conn, pc, fd, ctl, starts,
                     killed>>
  BY DEF PollClients, service
<1>2. /\ todo' \subseteq Members(snap) /\ Members(snap) \subseteq Members(clients)
      /\ Members(snap)' = Members(snap) /\ Members(snap) \subseteq Conns
  BY <1>1, Typed DEF IInv, Polled, Members
<1>3. TypeOK'
  BY <1>1, <1>2, SilentType DEF IInv, TypeOK, PollClients
<1>4. Polled' /\ NoLostWakeup'
  BY <1>1 DEF Polled, NoLostWakeup
<1> QED
  BY <1>1, <1>2, <1>3, <1>4, ServerCalm DEF Kept

LEMMA HandleType ==
  ASSUME IInv, NEW r \in Request, NEW reply, HandleRequest(r, reply)
  PROVE  owner' \in [0..(MaxHandles - 1) -> Pids \cup {0}] /\ next' \in Nat
<1>1. owner \in [0..(MaxHandles - 1) -> Pids \cup {0}] /\ next \in Nat /\ r.pid \in Pids
  BY DEF IInv, TypeOK, Request
<1>2. CASE Allocate(r, reply)
  BY <1>1, <1>2 DEF Allocate
<1>3. CASE UNCHANGED <<owner, next>>
  BY <1>1, <1>3
<1> QED
  BY <1>2, <1>3 DEF HandleRequest

\* The server thread has served c, or found that its client has vanished.
LEMMA ServedStep ==
  ASSUME IInv, NEW c \in todo, Served(c)
  PROVE  /\ spc = "serve" /\ spc' \in {"top", "serve"}
         /\ todo' = todo \ {c} /\ snap' \in Seq(Conns) /\ todo' \subseteq Conns
         /\ spc' = "top" => snap' = <<>> /\ todo' = {}
         /\ Members(snap)' \subseteq Members(snap)
<1>1. snap \in Seq(Conns) /\ todo \subseteq Conns
  BY Typed
<1>2. CASE todo' = {} /\ spc' = "top" /\ snap' = <<>>
  BY <1>1, <1>2 DEF Served, Members
<1>3. CASE todo' # {} /\ UNCHANGED <<spc, snap>>
  BY <1>1, <1>3 DEF Served, Members
<1> QED
  BY <1>2, <1>3 DEF Served

LEMMA ServeKeeps ==
  ASSUME IInv, Serve
  PROVE  IInv'
<1>1. PICK c \in todo :
        /\ Served(c) /\ conn[c].req # NoRequest
        /\ \E reply \in Reply :
             /\ HandleRequest(conn[c].req, reply)
             /\ conn' = [conn EXCEPT ![c].req = NoRequest, ![c].rep = reply]
        /\ UNCHANGED <<running, pipe, wake, clients, pc, fd, ctl, starts, killed>>
        /\ Silent
  BY DEF Serve
<1>2. PICK reply \in Reply :
        /\ HandleRequest(conn[c].req, reply)
        /\ conn' = [conn EXCEPT ![c].req = NoRequest, ![c].rep = reply]
  BY <1>1
<1>3. /\ conn \in [Conns -> Pair] /\ c \in Conns /\ todo \subseteq Conns
      /\ clients \in Seq(Conns) /\ snap \in Seq(Conns)
  BY Typed
<1>4. owner' \in [0..(MaxHandles - 1) -> Pids \cup {0}] /\ next' \in Nat
  <2>1. conn[c].req \in Request
    BY <1>1, <1>3 DEF Pair
  <2> QED
    BY <1>2, <2>1, HandleType
<1>5. conn' \in [Conns -> Pair] /\ \A b \in Conns : Kept(b)
  <2>1. [conn[c] EXCEPT !.req = NoRequest, !.rep = reply] \in Pair
    BY <1>3 DEF Pair
  <2>2. /\ conn' = [conn EXCEPT ![c] = [conn[c] EXCEPT !.req = NoRequest, !.rep = reply]]
    BY <1>2, <1>3
  <2>3. conn' \in [Conns -> Pair]
    BY <1>3, <2>1, <2>2
  <2>4. \A b \in Conns : conn'[b].srv = conn[b].srv /\ conn'[b].late = conn[b].late
    BY <1>3, <2>2 DEF Pair
  <2> QED
    BY <2>3, <2>4 DEF Kept
<1>6. /\ spc = "serve" /\ spc' \in {"top", "serve"}
      /\ todo' = todo \ {c} /\ snap' \in Seq(Conns) /\ todo' \subseteq Conns
      /\ spc' = "top" => snap' = <<>> /\ todo' = {}
      /\ Members(snap)' \subseteq Members(snap)
  BY <1>1, ServedStep
<1>7. TypeOK'
  BY <1>1, <1>4, <1>5, <1>6, SilentType DEF IInv, TypeOK, Pair
<1>8. Polled' /\ NoLostWakeup'
  BY <1>6 DEF Polled, NoLostWakeup
<1>9. todo' \subseteq Members(clients)
  BY <1>6 DEF IInv, ListedIsOpen
<1> QED
  BY <1>1, <1>5, <1>6, <1>7, <1>8, <1>9, ServerCalm

LEMMA VanishKeeps ==
  ASSUME IInv, Vanish
  PROVE  IInv'
<1>1. PICK c \in todo :
        /\ Served(c)
        /\ \E i \in DOMAIN clients : clients[i] = c /\ clients' = SwapRemove(clients, i)
        /\ conn' = [conn EXCEPT ![c] = CloseServer(conn[c])]
        /\ UNCHANGED <<running, pipe, wake, owner, next, pc, fd, ctl, starts, killed>>
        /\ Silent
  BY DEF Vanish
<1>2. PICK i \in DOMAIN clients : clients[i] = c /\ clients' = SwapRemove(clients, i)
  BY <1>1
<1>3. /\ conn \in [Conns -> Pair] /\ c \in Conns /\ todo \subseteq Conns
      /\ clients \in Seq(Conns) /\ snap \in Seq(Conns) /\ Members(clients) \subseteq Conns
  BY Typed
<1>4. /\ clients' \in Seq(Conns) /\ Len(clients') = Len(clients) - 1
      /\ Members(clients') = Members(clients) \ {c}
      /\ \A j, k \in DOMAIN clients' : clients'[j] = clients'[k] => j = k
  BY <1>2, <1>3, SwapRemoveMembers DEF IInv, ListedIsOpen
<1>5. /\ conn' \in [Conns -> Pair] /\ ~conn'[c].srv /\ (conn'[c].late => conn[c].late)
      /\ \A b \in Conns \ {c} : conn'[b] = conn[b]
  BY <1>1, <1>3, ServerEnd
<1>6. /\ spc = "serve" /\ spc' \in {"top", "serve"}
      /\ todo' = todo \ {c} /\ snap' \in Seq(Conns) /\ todo' \subseteq Conns
      /\ spc' = "top" => snap' = <<>> /\ todo' = {}
      /\ Members(snap)' \subseteq Members(snap)
  BY <1>1, ServedStep
<1>7. Members(clients)' = Members(clients) \ {c}
  BY <1>4 DEF Members
<1>8. running /\ pipe = "open" /\ ctl \in {"idle", "join"} /\ ~Closing
  BY <1>6 DEF IInv, Serving, Closing
<1>9. TypeOK'
  BY <1>1, <1>4, <1>5, <1>6, SilentType DEF IInv, TypeOK, Pair
<1>10. Serving' /\ Polled' /\ Held' /\ NoLostWakeup'
  BY <1>1, <1>6, <1>8 DEF IInv, Serving, Polled, Held, NoLostWakeup
<1>11. Stopping'
  BY <1>1, <1>3, <1>5, <1>7, <1>8 DEF IInv, Stopping, Closing
<1>12. ListedIsOpen'
  <2>1. Len(clients') <= MaxClients
    BY <1>3, <1>4, PSrvAssumption, LenProperties DEF IInv, ListedIsOpen
  <2> QED
    BY <1>3, <1>4, <1>5, <1>6, <1>7, <2>1 DEF IInv, ListedIsOpen
<1>13. StopClosesListed'
  <2>1. ASSUME NEW b \in Conns, conn'[b].late
        PROVE  b \notin Members(snap)' \cup todo'
    <3>1. conn[b].late
      BY <1>5, <2>1
    <3>2. b \notin Members(snap) \cup todo
      BY <1>8, <3>1 DEF IInv, StopClosesListed
    <3> QED
      BY <1>6, <3>2
  <2>2. ASSUME NEW b \in Conns, conn'[b].srv, ~conn'[b].late
        PROVE  b \in Members(clients)'
    BY <1>5, <1>7, <2>2 DEF IInv, StopClosesListed
  <2> QED
    BY <1>1, <1>8, <2>1, <2>2 DEF StopClosesListed
<1> QED
  BY <1>9, <1>10, <1>11, <1>12, <1>13 DEF IInv

LEMMA Stutter ==
  ASSUME IInv, UNCHANGED vars
  PROVE  IInv'
<1>1. /\ UNCHANGED <<running, pipe, wake, clients, owner, next, spc, snap, todo, conn, pc, fd,
                     ctl, starts, killed, ret>>
  BY DEF vars, service, server
<1>2. TypeOK' /\ Held' /\ NoLostWakeup'
  BY <1>1, SameWakeup DEF IInv, TypeOK, Held
<1> QED
  BY <1>1, <1>2, ClientCalm DEF Kept

LEMMA StepKeeps == IInv /\ [Next]_vars => IInv'
<1> SUFFICES ASSUME IInv, [Next]_vars PROVE IInv'
  OBVIOUS
<1>1. CASE Start \/ StopBegin \/ StopClose \/ StopEnd
  BY <1>1, StartKeeps, StopBeginKeeps, StopCloseKeeps, StopEndKeeps
<1>2. CASE ServerStep
  BY <1>2, SnapshotKeeps, WakeupKeeps, ReadyKeeps, ServeKeeps, VanishKeeps DEF ServerStep
<1>3. ASSUME NEW t \in Clients, ClientStep(t)
      PROVE  IInv'
  BY <1>3, RegisterKeeps, WakeKeeps, CallKeeps, ReturnKeeps, CloseKeeps DEF ClientStep
<1>4. CASE UNCHANGED vars
  BY <1>4, Stutter
<1> QED
  BY <1>1, <1>2, <1>3, <1>4 DEF Next

LEMMA Invariant == Spec => []IInv
<1>1. Init => IInv
  BY Initial
<1>2. IInv /\ [Next]_vars => IInv'
  BY StepKeeps
<1> QED
  BY <1>1, <1>2, PTL DEF Spec

-----------------------------------------------------------------------------
(* Every reachable state is typed: no call returns what is not a reply.    *)
THEOREM TypeCorrect == Spec => []TypeOK
<1>1. IInv => TypeOK
  BY DEF IInv
<1> QED
  BY <1>1, Invariant, PTL

(* The list has each connection once and within MAX_CLIENTS, all of them   *)
(* open, and the server reads from no other, though it swaps entries away  *)
(* under the snapshot that it walks.                                       *)
THEOREM ListedIsOpenAlways == Spec => []ListedIsOpen
<1>1. IInv => ListedIsOpen
  BY DEF IInv
<1> QED
  BY <1>1, Invariant, PTL

(* The server never sleeps on a snapshot that lacks a connection, with no  *)
(* byte in the pipe and none on its way.                                   *)
THEOREM NoLostWakeupAlways == Spec => []NoLostWakeup
<1>1. IInv => NoLostWakeup
  BY DEF IInv
<1> QED
  BY <1>1, Invariant, PTL

(* psrv_stop closes every connection but those that psrv_connect lists     *)
(* after its close loop, and no later server serves these.                 *)
THEOREM StopClosesListedAlways == Spec => []StopClosesListed
<1>1. IInv => StopClosesListed
  BY DEF IInv
<1> QED
  BY <1>1, Invariant, PTL
-----------------------------------------------------------------------------
(* psrv.c implements HandleService: each step of PSrv is one of its steps, *)
(* or changes nothing that it shows.                                       *)

\* A client's end is its own, and open.
Own ==
  /\ \A t, u \in Clients : pc[t] # "out" /\ pc[u] # "out" /\ fd[t] = fd[u] => t = u
  /\ \A t \in Clients : pc[t] # "out" => conn[fd[t]].cli

\* A request or a reply is in a socketpair only while its client is in a call;
\* what is left unread when the server's end closes is lost with it.
Carried ==
  \A t \in Clients :
    LET k == conn[fd[t]] IN
    /\ pc[t] \in {"connecting", "on"} => k.rep = NoReply /\ (k.srv => k.req = NoRequest)
    /\ pc[t] = "call" =>
         /\ k.req # NoRequest => k.rep = NoReply
         /\ k.srv /\ k.rep = NoReply => k.req # NoRequest

\* A request belongs to a client in a call, so the server answers somebody.
Asked ==
  \A c \in Conns : conn[c].srv /\ conn[c].req # NoRequest =>
    \E t \in Clients : pc[t] = "call" /\ fd[t] = c

\* What was ready still is: a request is there, or the client has gone.
StillReady == \A c \in todo : conn[c].req # NoRequest \/ ~conn[c].cli

\* The handles below next_handle are issued, the others not.
Issued ==
  /\ \A h \in Handles : owner[h] # 0 <=> h < next
  /\ owner[0] = 0
  /\ spc # "off" => next # 0

RInv == IInv /\ Own /\ Carried /\ Asked /\ StillReady /\ Issued

Sockets == Own /\ Carried /\ Asked /\ StillReady

-----------------------------------------------------------------------------
(* The invariant.                                                          *)

LEMMA Fresh == /\ Unpaired \in Pair /\ Paired.cli /\ Paired.srv
               /\ Unpaired.req = NoRequest /\ Unpaired.rep = NoReply
               /\ Paired.req = NoRequest /\ Paired.rep = NoReply
               /\ ~Unpaired.cli /\ ~Unpaired.srv
BY Unpair DEF Paired, Unpaired

\* An end that closes leaves the rest, while the other end is open.
LEMMA EndCloses ==
  ASSUME NEW k \in Pair
  PROVE  /\ k.cli => /\ CloseServer(k).cli /\ CloseServer(k).req = k.req
                     /\ CloseServer(k).rep = k.rep
         /\ ~CloseServer(k).srv
         /\ k.srv => /\ CloseClient(k).srv /\ ~CloseClient(k).cli
                     /\ CloseClient(k).req = k.req /\ CloseClient(k).rep = k.rep
         /\ ~k.srv => CloseClient(k) = Unpaired
BY DEF CloseServer, CloseClient, Left, Pair, Unpaired

\* A step that touches neither the sockets nor who holds them.
LEMMA SocketsStill ==
  ASSUME RInv, UNCHANGED <<conn, pc, fd>>, \A c \in todo' : Ready(c) \/ c \in todo
  PROVE  Sockets'
<1>1. Own' /\ Carried' /\ Asked'
  BY DEF RInv, Own, Carried, Asked
<1>2. StillReady'
  BY DEF RInv, StillReady, Ready
<1> QED
  BY <1>1, <1>2 DEF Sockets

\* A step of t that changes at most its own connection.
LEMMA Others ==
  ASSUME RInv, NEW t \in Clients, NEW c \in Conns, pc[t] # "out" => c = fd[t],
         pc[t] = "out" => conn[c] = Unpaired,
         \A u \in Clients \ {t} : pc'[u] = pc[u] /\ fd'[u] = fd[u],
         \A b \in Conns \ {c} : conn'[b] = conn[b]
  PROVE  \A u \in Clients \ {t} :
           pc[u] # "out" => fd[u] \in Conns /\ fd[u] # c /\ conn'[fd[u]] = conn[fd[u]]
                            /\ fd'[u] = fd[u] /\ pc'[u] = pc[u]
<1>1. \A u \in Clients : pc[u] # "out" => fd[u] \in Conns /\ conn[fd[u]].cli
  BY DEF RInv, IInv, Held, Own
<1>2. \A u \in Clients \ {t} : pc[u] # "out" => fd[u] # c
  BY <1>1, Fresh DEF RInv, Own
<1> QED
  BY <1>1, <1>2

LEMMA RegisterSockets ==
  ASSUME RInv, NEW t \in Clients, ConnectRegister(t)
  PROVE  Sockets'
<1>1. PICK c \in Conns :
        /\ conn[c] = Unpaired /\ conn' = [conn EXCEPT ![c] = Paired]
        /\ fd' = [fd EXCEPT ![t] = c]
  BY DEF ConnectRegister
<1>2. pc[t] = "out" /\ pc' = [pc EXCEPT ![t] = "connecting"] /\ todo' = todo
  BY DEF ConnectRegister, server
<1>3. /\ conn \in [Conns -> Pair] /\ fd \in [Clients -> Conns \cup {NoConn}]
      /\ pc \in [Clients -> {"out", "connecting", "on", "call"}]
  BY Typed DEF RInv
<1>4. /\ conn'[c] = Paired /\ \A b \in Conns \ {c} : conn'[b] = conn[b]
      /\ fd'[t] = c /\ pc'[t] = "connecting"
      /\ \A u \in Clients \ {t} : fd'[u] = fd[u] /\ pc'[u] = pc[u]
  BY <1>1, <1>2, <1>3
<1>5. \A u \in Clients \ {t} :
        pc[u] # "out" => fd[u] \in Conns /\ fd[u] # c /\ conn'[fd[u]] = conn[fd[u]]
                         /\ fd'[u] = fd[u] /\ pc'[u] = pc[u]
  BY <1>1, <1>2, <1>4, Others
<1>6. Own'
  BY <1>4, <1>5, Fresh DEF RInv, Own
<1>7. Carried'
  BY <1>4, <1>5, Fresh DEF RInv, Carried
<1>8. Asked'
  <2>1. \A u \in Clients : pc[u] = "call" => pc'[u] = "call" /\ fd'[u] = fd[u]
    BY <1>2, <1>4
  <2> QED
    BY <1>4, <2>1, Fresh DEF RInv, Asked
<1>9. StillReady'
  <2>1. c \notin todo
    BY <1>1, Fresh DEF RInv, IInv, ListedIsOpen
  <2> QED
    BY <1>2, <1>4, <2>1, Typed DEF RInv, StillReady
<1> QED
  BY <1>6, <1>7, <1>8, <1>9 DEF Sockets

\* The client of t closes its end: it is in no call, and nobody else has it.
LEMMA ReleaseSockets ==
  ASSUME RInv, NEW t \in Clients, pc[t] \in {"connecting", "on"},
         pc' = [pc EXCEPT ![t] = "out"], fd' = [fd EXCEPT ![t] = NoConn], todo' = todo,
         conn' = [conn EXCEPT ![fd[t]] = CloseClient(conn[fd[t]])]
  PROVE  Sockets'
<1> DEFINE c == fd[t]
<1>1. /\ conn \in [Conns -> Pair] /\ fd \in [Clients -> Conns \cup {NoConn}] /\ c \in Conns
      /\ pc \in [Clients -> {"out", "connecting", "on", "call"}] /\ todo \subseteq Conns
  BY Typed DEF RInv, IInv, Held
<1>2. /\ conn'[c] = CloseClient(conn[c]) /\ \A b \in Conns \ {c} : conn'[b] = conn[b]
      /\ pc'[t] = "out"
      /\ \A u \in Clients \ {t} : fd'[u] = fd[u] /\ pc'[u] = pc[u]
  BY <1>1
<1>3. \A u \in Clients \ {t} :
        pc[u] # "out" => fd[u] \in Conns /\ fd[u] # c /\ conn'[fd[u]] = conn[fd[u]]
                         /\ fd'[u] = fd[u] /\ pc'[u] = pc[u]
  BY <1>1, <1>2, Others
<1> HIDE DEF c
<1>4. Own'
  BY <1>2, <1>3 DEF RInv, Own
<1>5. Carried'
  BY <1>2, <1>3 DEF RInv, Carried
<1>6. conn[c] \in Pair /\ (conn[c].srv => conn[c].req = NoRequest)
  BY <1>1 DEF RInv, Carried, c
<1>7. Asked'
  <2>1. \A u \in Clients : pc[u] = "call" => pc'[u] = "call" /\ fd'[u] = fd[u]
    BY <1>2
  <2>2. conn'[c].srv => conn'[c].req = NoRequest
    BY <1>2, <1>6, EndCloses, Fresh
  <2> QED
    BY <1>2, <2>1, <2>2 DEF RInv, Asked
<1>8. StillReady'
  <2>1. ~conn'[c].cli
    BY <1>2, <1>6, EndCloses, Fresh
  <2> QED
    BY <1>1, <1>2, <2>1 DEF RInv, StillReady
<1> QED
  BY <1>4, <1>5, <1>7, <1>8 DEF Sockets

LEMMA WakeSockets ==
  ASSUME RInv, NEW t \in Clients, ConnectWake(t)
  PROVE  Sockets'
<1>1. pc[t] = "connecting" /\ UNCHANGED todo
  BY DEF ConnectWake, server
<1>2. pc \in [Clients -> {"out", "connecting", "on", "call"}]
  BY Typed DEF RInv
<1>3. CASE pc' = [pc EXCEPT ![t] = "on"] /\ UNCHANGED <<conn, fd>>
  <2>1. /\ pc'[t] = "on"
        /\ \A u \in Clients \ {t} : pc'[u] = pc[u]
        /\ \A u \in Clients : pc'[u] # "out" => pc[u] # "out"
        /\ \A u \in Clients : pc[u] = "call" => pc'[u] = "call"
    BY <1>1, <1>2, <1>3
  <2>2. Own' /\ Asked' /\ StillReady'
    BY <1>1, <1>3, <2>1 DEF RInv, Own, Asked, StillReady
  <2>3. Carried'
    BY <1>1, <1>3, <2>1 DEF RInv, Carried
  <2> QED
    BY <2>2, <2>3 DEF Sockets
<1>4. CASE UNCHANGED <<pc, conn, fd>>
  BY <1>1, <1>4, SocketsStill
<1>5. CASE /\ pc' = [pc EXCEPT ![t] = "out"]
           /\ conn' = [conn EXCEPT ![fd[t]] = CloseClient(conn[fd[t]])]
           /\ fd' = [fd EXCEPT ![t] = NoConn]
  BY <1>1, <1>5, ReleaseSockets
<1> QED
  BY <1>3, <1>4, <1>5 DEF ConnectWake

LEMMA CallSockets ==
  ASSUME RInv, NEW t \in Clients, NEW k \in Calls, Call(t, k)
  PROVE  Sockets'
<1> DEFINE c == fd[t]
           r == [op |-> k.op, pid |-> PidOf[t], arg |-> k.arg]
<1>1. pc[t] = "on" /\ UNCHANGED <<todo, fd>>
  BY DEF Call, server
<1>2. /\ conn \in [Conns -> Pair] /\ fd \in [Clients -> Conns \cup {NoConn}] /\ c \in Conns
      /\ pc \in [Clients -> {"out", "connecting", "on", "call"}] /\ todo \subseteq Conns
  BY <1>1, Typed DEF RInv, IInv, Held
<1>3. r # NoRequest
  BY PSrvAssumption DEF NoRequest, Ops
<1> HIDE DEF r
<1>4. CASE UNCHANGED <<conn, pc>>
  BY <1>1, <1>4, SocketsStill
<1>5. CASE /\ conn[c].srv /\ conn' = [conn EXCEPT ![c].req = r]
           /\ pc' = [pc EXCEPT ![t] = "call"]
  <2>1. /\ \A b \in Conns \ {c} : conn'[b] = conn[b]
        /\ conn'[c].req = r /\ conn'[c].rep = conn[c].rep
        /\ conn'[c].cli = conn[c].cli /\ conn'[c].srv = conn[c].srv
        /\ pc'[t] = "call" /\ \A u \in Clients \ {t} : pc'[u] = pc[u]
    BY <1>2, <1>5 DEF Pair
  <2>2. \A u \in Clients \ {t} :
          pc[u] # "out" => fd[u] \in Conns /\ fd[u] # c /\ conn'[fd[u]] = conn[fd[u]]
                           /\ fd'[u] = fd[u] /\ pc'[u] = pc[u]
    BY <1>1, <1>2, <2>1, Others
  <2>3. fd'[t] = c
    BY <1>1
  <2> HIDE DEF c
  <2>4. conn[c].cli /\ conn[c].rep = NoReply
    BY <1>1 DEF RInv, Own, Carried, c
  <2>5. Own'
    <3>1. conn'[c].cli
      BY <2>1, <2>4
    <3>2. \A u \in Clients : pc'[u] # "out" => pc[u] # "out"
      BY <1>1, <2>1
    <3> QED
      BY <2>2, <2>3, <3>1, <3>2 DEF RInv, Own
  <2>6. Carried'
    BY <1>3, <2>1, <2>2, <2>3, <2>4 DEF RInv, Carried
  <2>7. Asked'
    BY <1>1, <1>2, <2>1, <2>3 DEF RInv, Asked
  <2>8. StillReady'
    BY <1>1, <1>2, <1>3, <2>1 DEF RInv, StillReady
  <2> QED
    BY <2>5, <2>6, <2>7, <2>8 DEF Sockets
<1> QED
  BY <1>4, <1>5 DEF Call, r

LEMMA ReturnSockets ==
  ASSUME RInv, NEW t \in Clients, CallReturn(t)
  PROVE  Sockets'
<1> DEFINE c == fd[t]
<1>1. pc[t] = "call" /\ pc' = [pc EXCEPT ![t] = "on"] /\ UNCHANGED <<todo, fd>>
  BY DEF CallReturn, server
<1>2. /\ conn \in [Conns -> Pair] /\ fd \in [Clients -> Conns \cup {NoConn}] /\ c \in Conns
      /\ pc \in [Clients -> {"out", "connecting", "on", "call"}] /\ todo \subseteq Conns
  BY <1>1, Typed DEF RInv, IInv, Held
<1>3. /\ \A b \in Conns \ {c} : conn'[b] = conn[b]
      /\ conn'[c].req = conn[c].req /\ conn'[c].rep = NoReply
      /\ conn'[c].cli = conn[c].cli /\ conn'[c].srv = conn[c].srv
      /\ conn[c].rep # NoReply \/ ~conn[c].srv
  <2>1. CASE conn[c].rep # NoReply /\ conn' = [conn EXCEPT ![c].rep = NoReply]
    BY <1>2, <2>1 DEF Pair
  <2>2. CASE conn[c].rep = NoReply /\ ~conn[c].srv /\ UNCHANGED conn
    BY <2>2
  <2> QED
    BY <2>1, <2>2 DEF CallReturn
<1>4. \A u \in Clients \ {t} :
        pc[u] # "out" => fd[u] \in Conns /\ fd[u] # c /\ conn'[fd[u]] = conn[fd[u]]
                         /\ fd'[u] = fd[u] /\ pc'[u] = pc[u]
  BY <1>1, <1>2, <1>3, Others
<1>5. fd'[t] = c /\ pc'[t] = "on" /\ \A u \in Clients \ {t} : pc'[u] = pc[u]
  BY <1>1, <1>2
<1> HIDE DEF c
<1>6. conn[c].cli /\ (conn[c].srv => conn[c].req = NoRequest)
  BY <1>1, <1>3 DEF RInv, Own, Carried, c
<1>7. Own'
  <2>1. \A u \in Clients : pc'[u] # "out" => pc[u] # "out"
    BY <1>1, <1>5
  <2>2. conn'[c].cli
    BY <1>3, <1>6
  <2> QED
    BY <1>4, <1>5, <2>1, <2>2 DEF RInv, Own
<1>8. Carried'
  BY <1>3, <1>4, <1>5, <1>6 DEF RInv, Carried
<1>9. Asked'
  <2>1. ASSUME NEW b \in Conns, conn'[b].srv, conn'[b].req # NoRequest
        PROVE  \E u \in Clients : pc'[u] = "call" /\ fd'[u] = b
    <3>1. b # c /\ conn'[b] = conn[b]
      BY <1>3, <1>6, <2>1
    <3>2. PICK u \in Clients : pc[u] = "call" /\ fd[u] = b
      BY <2>1, <3>1 DEF RInv, Asked
    <3> QED
      BY <1>1, <1>5, <3>1, <3>2 DEF c
  <2> QED
    BY <2>1 DEF Asked
<1>10. StillReady'
  BY <1>1, <1>2, <1>3 DEF RInv, StillReady
<1> QED
  BY <1>7, <1>8, <1>9, <1>10 DEF Sockets

\* A server's end closes: the client's end, if open, keeps what it holds.
LEMMA ServerCloses ==
  ASSUME RInv, UNCHANGED <<pc, fd>>, todo' \subseteq todo,
         \A c \in Conns : conn'[c] = conn[c] \/ conn'[c] = CloseServer(conn[c]),
         \A c \in todo' : conn'[c] = conn[c]
  PROVE  Sockets'
<1>1. conn \in [Conns -> Pair] /\ todo \subseteq Conns
  BY Typed DEF RInv
<1>2. \A t \in Clients : pc[t] # "out" => fd[t] \in Conns /\ conn[fd[t]].cli
  BY DEF RInv, IInv, Held, Own
<1>3. \A c \in Conns : conn[c].cli => /\ conn'[c].cli /\ conn'[c].req = conn[c].req
                                     /\ conn'[c].rep = conn[c].rep
  BY <1>1, EndCloses
<1>4. \A c \in Conns : conn'[c].srv => conn'[c] = conn[c]
  BY <1>1, EndCloses
<1>5. Own'
  BY <1>2, <1>3 DEF RInv, Own
<1>6. Carried'
  BY <1>2, <1>3, <1>4 DEF RInv, Carried
<1>7. Asked' /\ StillReady'
  BY <1>1, <1>4 DEF RInv, Asked, StillReady
<1> QED
  BY <1>5, <1>6, <1>7 DEF Sockets

LEMMA StopCloseSockets ==
  ASSUME RInv, StopClose
  PROVE  Sockets'
<1>1. todo = {} /\ UNCHANGED <<pc, fd, todo>>
  BY DEF StopClose, server, RInv, IInv, Polled
<1>2. \A c \in Conns : conn'[c] = conn[c] \/ conn'[c] = CloseServer(conn[c])
  BY DEF StopClose
<1> QED
  BY <1>1, <1>2, ServerCloses

LEMMA VanishSockets ==
  ASSUME RInv, Vanish
  PROVE  Sockets'
<1>1. PICK c \in todo :
        /\ Served(c) /\ conn' = [conn EXCEPT ![c] = CloseServer(conn[c])]
        /\ UNCHANGED <<pc, fd>>
  BY DEF Vanish
<1>2. conn \in [Conns -> Pair] /\ todo \subseteq Conns /\ todo' = todo \ {c}
  BY <1>1, Typed DEF RInv, Served
<1> QED
  BY <1>1, <1>2, ServerCloses

\* The server answers the client that waits: nobody else has the connection.
LEMMA Answered ==
  ASSUME RInv, Serve
  PROVE  \E t \in Clients, reply \in Reply :
           LET c == fd[t] IN
           /\ pc[t] = "call" /\ c \in Conns /\ c \in todo /\ conn[c].srv
           /\ conn[c].req \in Request /\ conn[c].rep = NoReply /\ reply # NoReply
           /\ HandleRequest(conn[c].req, reply)
           /\ conn'[c].req = NoRequest /\ conn'[c].rep = reply
           /\ conn'[c].cli = conn[c].cli /\ conn'[c].srv = conn[c].srv
           /\ \A b \in Conns \ {c} : conn'[b] = conn[b]
           /\ todo' = todo \ {c}
<1>1. PICK c \in todo :
        /\ Served(c) /\ conn[c].req # NoRequest
        /\ \E reply \in Reply :
             /\ HandleRequest(conn[c].req, reply)
             /\ conn' = [conn EXCEPT ![c].req = NoRequest, ![c].rep = reply]
  BY DEF Serve
<1>2. PICK reply \in Reply :
        /\ HandleRequest(conn[c].req, reply)
        /\ conn' = [conn EXCEPT ![c].req = NoRequest, ![c].rep = reply]
  BY <1>1
<1>3. conn \in [Conns -> Pair] /\ c \in Conns
  BY Typed DEF RInv
<1>4. conn[c].srv /\ conn[c].req \in Request /\ todo' = todo \ {c}
  BY <1>1, <1>3 DEF RInv, IInv, ListedIsOpen, Served, Pair
<1>5. PICK t \in Clients : pc[t] = "call" /\ fd[t] = c
  BY <1>1, <1>3, <1>4 DEF RInv, Asked
<1>6. conn[c].rep = NoReply
  BY <1>1, <1>5 DEF RInv, Carried
<1>7. reply # NoReply
  BY DEF Reply, NoReply
<1>8. /\ conn'[c].req = NoRequest /\ conn'[c].rep = reply
      /\ conn'[c].cli = conn[c].cli /\ conn'[c].srv = conn[c].srv
      /\ \A b \in Conns \ {c} : conn'[b] = conn[b]
  <2>1. conn' = [conn EXCEPT ![c] = [conn[c] EXCEPT !.req = NoRequest, !.rep = reply]]
    BY <1>2, <1>3
  <2> QED
    BY <1>3, <2>1 DEF Pair
<1> QED
  BY <1>2, <1>3, <1>4, <1>5, <1>6, <1>7, <1>8

LEMMA ServeSockets ==
  ASSUME RInv, Serve
  PROVE  Sockets'
<1>1. UNCHANGED <<pc, fd>>
  BY DEF Serve
<1>2. PICK t \in Clients, reply \in Reply :
        LET c == fd[t] IN
        /\ pc[t] = "call" /\ c \in Conns /\ c \in todo /\ conn[c].srv
        /\ conn[c].req \in Request /\ conn[c].rep = NoReply /\ reply # NoReply
        /\ HandleRequest(conn[c].req, reply)
        /\ conn'[c].req = NoRequest /\ conn'[c].rep = reply
        /\ conn'[c].cli = conn[c].cli /\ conn'[c].srv = conn[c].srv
        /\ \A b \in Conns \ {c} : conn'[b] = conn[b]
        /\ todo' = todo \ {c}
  BY Answered
<1> DEFINE c == fd[t]
<1>3. \A u \in Clients \ {t} :
        pc[u] # "out" => fd[u] \in Conns /\ fd[u] # c /\ conn'[fd[u]] = conn[fd[u]]
                         /\ fd'[u] = fd[u] /\ pc'[u] = pc[u]
  BY <1>1, <1>2, Others
<1>4. conn'[c].cli /\ todo \subseteq Conns
  BY <1>2, Typed DEF RInv, Own
<1> HIDE DEF c
<1>5. fd'[t] = c /\ pc'[t] = "call" /\ \A u \in Clients : pc'[u] = pc[u]
  BY <1>1, <1>2 DEF c
<1>6. Own'
  BY <1>3, <1>4, <1>5 DEF RInv, Own
<1>7. conn'[c].req = NoRequest /\ conn'[c].rep # NoReply
  BY <1>2 DEF c
<1>8. Carried'
  BY <1>3, <1>5, <1>7 DEF RInv, Carried
<1>9. Asked' /\ StillReady'
  BY <1>1, <1>2, <1>4, <1>7 DEF RInv, Asked, StillReady, c
<1> QED
  BY <1>6, <1>8, <1>9 DEF Sockets

LEMMA SocketsKeep ==
  ASSUME RInv, [Next]_vars
  PROVE  Sockets'
<1>1. CASE Start \/ StopBegin \/ StopEnd \/ Snapshot \/ PollWakeup \/ UNCHANGED vars
  <2>1. UNCHANGED <<conn, pc, fd>> /\ (todo' = todo \/ todo' = {})
    BY <1>1 DEF Start, StopBegin, StopEnd, Snapshot, PollWakeup, vars, server
  <2> QED
    BY <2>1, SocketsStill
<1>2. CASE PollClients
  BY <1>2, SocketsStill DEF PollClients
<1>3. CASE StopClose \/ Serve \/ Vanish
  BY <1>3, StopCloseSockets, ServeSockets, VanishSockets
<1>4. ASSUME NEW t \in Clients, Close(t)
      PROVE  Sockets'
  BY <1>4, ReleaseSockets DEF Close, server
<1>5. ASSUME NEW t \in Clients, ClientStep(t)
      PROVE  Sockets'
  BY <1>4, <1>5, RegisterSockets, WakeSockets, CallSockets, ReturnSockets DEF ClientStep
<1> QED
  BY <1>1, <1>2, <1>3, <1>5 DEF Next, ServerStep

\* A handle is issued once, and next_handle runs ahead of them all.
LEMMA AllocateIssues ==
  ASSUME RInv, NEW r \in Request, NEW reply, Allocate(r, reply), next # 0
  PROVE  /\ \A h \in Handles : owner'[h] # 0 <=> h < next'
         /\ owner'[0] = 0 /\ next' # 0
<1>1. /\ owner \in [0..(MaxHandles - 1) -> Pids \cup {0}] /\ next \in Nat /\ r.pid \in Pids
      /\ MaxHandles \in Nat \ {0}
  BY PSrvAssumption DEF RInv, IInv, TypeOK, Request
<1>2. r.pid # 0
  BY <1>1, PSrvAssumption DEF Pids
<1>3. CASE next >= MaxHandles /\ UNCHANGED owner
  BY <1>1, <1>3 DEF Allocate, RInv, Issued, Handles
<1>4. CASE next < MaxHandles /\ owner' = [owner EXCEPT ![next] = r.pid]
  <2>1. \A h \in 0..(MaxHandles - 1) : owner'[h] = IF h = next THEN r.pid ELSE owner[h]
    BY <1>1, <1>4
  <2> QED
    BY <1>1, <1>2, <1>4, <2>1 DEF Allocate, RInv, Issued, Handles
<1> QED
  BY <1>1, <1>3, <1>4 DEF Allocate

LEMMA IssuedKeeps ==
  ASSUME RInv, [Next]_vars
  PROVE  Issued'
<1>1. CASE Start
  BY <1>1, PSrvAssumption DEF Start, Issued, Handles
<1>2. CASE Serve
  <2>1. PICK t \in Clients, reply \in Reply :
          conn[fd[t]].req \in Request /\ HandleRequest(conn[fd[t]].req, reply)
    BY <1>2, Answered
  <2>2. next # 0
    BY <1>2 DEF Serve, Served, RInv, Issued
  <2>3. CASE Allocate(conn[fd[t]].req, reply)
    BY <2>1, <2>2, <2>3, AllocateIssues DEF Issued
  <2>4. CASE UNCHANGED <<owner, next>>
    BY <2>2, <2>4 DEF RInv, Issued
  <2> QED
    BY <2>1, <2>3, <2>4 DEF HandleRequest
<1>3. CASE UNCHANGED <<owner, next>> /\ (spc' # "off" => spc # "off")
  BY <1>3 DEF RInv, Issued
<1>4. CASE \/ StopBegin \/ StopClose \/ StopEnd \/ Snapshot \/ PollWakeup \/ PollClients
           \/ UNCHANGED vars
  <2>1. UNCHANGED <<owner, next>> /\ (spc' # "off" => spc # "off")
    BY <1>4 DEF StopBegin, StopClose, StopEnd, Snapshot, PollWakeup, PollClients, vars,
                server, service
  <2> QED
    BY <2>1, <1>3
<1>5. CASE Vanish
  <2>1. UNCHANGED <<owner, next>> /\ spc = "serve"
    BY <1>5 DEF Vanish, Served
  <2> QED
    BY <2>1, <1>3
<1>6. ASSUME NEW t \in Clients, ClientStep(t)
      PROVE  Issued'
  <2>1. UNCHANGED <<owner, next, spc>>
    BY <1>6 DEF ClientStep, ConnectRegister, ConnectWake, Call, CallReturn, Close, server,
                service
  <2> QED
    BY <2>1, <1>3
<1> QED
  BY <1>1, <1>2, <1>4, <1>5, <1>6 DEF Next, ServerStep

LEMMA RInitial == Init => RInv
<1> SUFFICES ASSUME Init PROVE RInv
  OBVIOUS
<1>1. \A t \in Clients : pc[t] = "out"
  BY DEF Init
<1>2. \A c \in Conns : conn[c] = Unpaired
  BY DEF Init
<1>3. Own /\ Carried
  BY <1>1 DEF Own, Carried
<1>4. Asked /\ StillReady
  BY <1>2, Fresh DEF Init, Asked, StillReady
<1>5. Issued
  BY PSrvAssumption DEF Init, Issued, Handles
<1> QED
  BY <1>3, <1>4, <1>5, Initial DEF RInv

LEMMA RKeeps == RInv /\ [Next]_vars => RInv'
<1> SUFFICES ASSUME RInv, [Next]_vars PROVE RInv'
  OBVIOUS
<1>1. IInv'
  BY StepKeeps DEF RInv
<1> QED
  BY <1>1, SocketsKeep, IssuedKeeps DEF RInv, Sockets

LEMMA RInvariant == Spec => []RInv
BY RInitial, RKeeps, PTL DEF Spec

-----------------------------------------------------------------------------
(* The steps of HandleService.                                             *)

Table == [h \in Handles |-> owner[h]]
CallMap == [t \in Clients |-> CallOf(t)]

\* What CallOf shows of a call, now and after a step.
LEMMA Shown ==
  ASSUME NEW t \in Clients, pc[t] = "call"
  PROVE  LET k == conn[fd[t]] IN
         /\ k.rep # NoReply =>
              CallOf(t) = [st |-> "executed", status |-> k.rep.status, value |-> k.rep.value]
         /\ k.rep = NoReply /\ k.srv => CallOf(t) = [st |-> "pending", req |-> k.req]
         /\ k.rep = NoReply /\ ~k.srv => CallOf(t) = [st |-> "lost"]
BY DEF CallOf

LEMMA ShownNext ==
  ASSUME NEW t \in Clients, pc'[t] = "call"
  PROVE  LET k == conn'[fd'[t]] IN
         /\ k.rep # NoReply =>
              CallOf(t)' = [st |-> "executed", status |-> k.rep.status, value |-> k.rep.value]
         /\ k.rep = NoReply /\ k.srv => CallOf(t)' = [st |-> "pending", req |-> k.req]
         /\ k.rep = NoReply /\ ~k.srv => CallOf(t)' = [st |-> "lost"]
BY DEF CallOf

LEMMA SameCall ==
  ASSUME NEW t \in Clients, pc'[t] = "call" <=> pc[t] = "call",
         pc[t] = "call" => fd'[t] = fd[t] /\ conn'[fd[t]] = conn[fd[t]]
  PROVE  CallOf(t)' = CallOf(t)
<1>1. CASE pc[t] # "call"
  BY <1>1 DEF CallOf
<1>2. CASE pc[t] = "call"
  BY <1>2 DEF CallOf
<1> QED
  BY <1>1, <1>2

\* A step in which the calls of all clients stay as they are.
LEMMA Hidden ==
  ASSUME ret' = NoRet, UNCHANGED owner, \A t \in Clients : CallOf(t)' = CallOf(t)
  PROVE  Service!Inside
<1>1. CallMap' = CallMap /\ Table' = Table
  BY DEF CallMap, Table
<1> QED
  BY <1>1 DEF Service!Inside, Service!NoAnswer, NoRet, CallMap, Table

\* A step of t alone.
LEMMA OneCall ==
  ASSUME NEW t \in Clients, \A u \in Clients \ {t} : CallOf(u)' = CallOf(u)
  PROVE  CallMap' = [CallMap EXCEPT ![t] = CallOf(t)']
BY DEF CallMap

LEMMA RestartStep ==
  ASSUME RInv, Start
  PROVE  Service!Restart
<1>1. \A t \in Clients : CallOf(t)' = CallOf(t)
  BY SameCall DEF Start
<1>2. ret' = NoRet /\ owner' = [h \in 0..(MaxHandles - 1) |-> 0]
  BY DEF Start, Silent
<1>3. Table' = [h \in Handles |-> 0] /\ CallMap' = CallMap
  BY <1>1, <1>2, PSrvAssumption DEF Table, CallMap, Handles
<1> QED
  BY <1>2, <1>3 DEF Service!Restart, Service!NoAnswer, NoRet, Table, CallMap

LEMMA StillSteps ==
  ASSUME RInv, StopBegin \/ StopEnd \/ Snapshot \/ PollWakeup \/ PollClients
  PROVE  Service!Inside
<1>1. ret' = NoRet /\ UNCHANGED <<owner, conn, pc, fd>>
  BY DEF StopBegin, StopEnd, Snapshot, PollWakeup, PollClients, Silent, service
<1> QED
  BY <1>1, SameCall, Hidden

LEMMA RegisterStep ==
  ASSUME RInv, NEW t \in Clients, ConnectRegister(t)
  PROVE  Service!Inside
<1>1. PICK c \in Conns :
        /\ conn[c] = Unpaired /\ conn' = [conn EXCEPT ![c] = Paired]
        /\ fd' = [fd EXCEPT ![t] = c]
  BY DEF ConnectRegister
<1>2. /\ pc[t] = "out" /\ pc' = [pc EXCEPT ![t] = "connecting"] /\ UNCHANGED owner
      /\ ret' = NoRet
  BY DEF ConnectRegister, Silent
<1>3. /\ pc \in [Clients -> {"out", "connecting", "on", "call"}]
      /\ conn \in [Conns -> Pair] /\ fd \in [Clients -> Conns \cup {NoConn}]
  BY Typed DEF RInv
<1>4. /\ \A b \in Conns \ {c} : conn'[b] = conn[b]
      /\ \A u \in Clients \ {t} : fd'[u] = fd[u] /\ pc'[u] = pc[u]
      /\ pc'[t] = "connecting"
  BY <1>1, <1>2, <1>3
<1>5. \A u \in Clients \ {t} :
        pc[u] # "out" => fd[u] \in Conns /\ fd[u] # c /\ conn'[fd[u]] = conn[fd[u]]
                         /\ fd'[u] = fd[u] /\ pc'[u] = pc[u]
  BY <1>1, <1>2, <1>4, Others
<1>6. \A u \in Clients : CallOf(u)' = CallOf(u)
  <2>1. ASSUME NEW u \in Clients
        PROVE  /\ pc'[u] = "call" <=> pc[u] = "call"
               /\ pc[u] = "call" => fd'[u] = fd[u] /\ conn'[fd[u]] = conn[fd[u]]
    BY <1>2, <1>4, <1>5
  <2> QED
    BY <2>1, SameCall
<1> QED
  BY <1>2, <1>6, Hidden

\* Its client's end closes while t is in no call.
LEMMA ReleaseStep ==
  ASSUME RInv, NEW t \in Clients, pc[t] \in {"connecting", "on"},
         pc' = [pc EXCEPT ![t] = "out"], fd' = [fd EXCEPT ![t] = NoConn],
         conn' = [conn EXCEPT ![fd[t]] = CloseClient(conn[fd[t]])],
         UNCHANGED owner, ret' = NoRet
  PROVE  Service!Inside
<1>1. /\ pc \in [Clients -> {"out", "connecting", "on", "call"}]
      /\ conn \in [Conns -> Pair] /\ fd \in [Clients -> Conns \cup {NoConn}]
      /\ fd[t] \in Conns
  BY Typed DEF RInv, IInv, Held
<1>2. /\ \A b \in Conns \ {fd[t]} : conn'[b] = conn[b]
      /\ \A u \in Clients \ {t} : fd'[u] = fd[u] /\ pc'[u] = pc[u]
      /\ pc'[t] = "out"
  BY <1>1
<1>3. \A u \in Clients \ {t} :
        pc[u] # "out" => fd[u] \in Conns /\ fd[u] # fd[t] /\ conn'[fd[u]] = conn[fd[u]]
                         /\ fd'[u] = fd[u] /\ pc'[u] = pc[u]
  BY <1>1, <1>2, Others
<1>4. \A u \in Clients : CallOf(u)' = CallOf(u)
  <2>1. ASSUME NEW u \in Clients
        PROVE  /\ pc'[u] = "call" <=> pc[u] = "call"
               /\ pc[u] = "call" => fd'[u] = fd[u] /\ conn'[fd[u]] = conn[fd[u]]
    BY <1>2, <1>3
  <2> QED
    BY <2>1, SameCall
<1> QED
  BY <1>4, Hidden

LEMMA WakeStep ==
  ASSUME RInv, NEW t \in Clients, ConnectWake(t)
  PROVE  Service!Inside
<1>1. pc[t] = "connecting" /\ UNCHANGED owner /\ ret' = NoRet
  BY DEF ConnectWake, Silent
<1>2. pc \in [Clients -> {"out", "connecting", "on", "call"}]
  BY Typed DEF RInv
<1>3. CASE UNCHANGED <<conn, fd>> /\ (pc' = pc \/ pc' = [pc EXCEPT ![t] = "on"])
  <2>1. \A u \in Clients : pc'[u] = "call" <=> pc[u] = "call"
    BY <1>1, <1>2, <1>3
  <2> QED
    BY <1>1, <1>3, <2>1, SameCall, Hidden
<1>4. CASE /\ pc' = [pc EXCEPT ![t] = "out"]
           /\ conn' = [conn EXCEPT ![fd[t]] = CloseClient(conn[fd[t]])]
           /\ fd' = [fd EXCEPT ![t] = NoConn]
  BY <1>1, <1>4, ReleaseStep
<1> QED
  BY <1>3, <1>4 DEF ConnectWake

LEMMA VanishStep ==
  ASSUME RInv, Vanish
  PROVE  Service!Inside
<1>1. PICK c \in todo :
        /\ conn[c].req = NoRequest /\ conn' = [conn EXCEPT ![c] = CloseServer(conn[c])]
        /\ UNCHANGED <<pc, fd, owner>> /\ ret' = NoRet
  BY DEF Vanish, Silent
<1>2. conn \in [Conns -> Pair] /\ todo \subseteq Conns
  BY Typed DEF RInv
<1>3. \A u \in Clients : pc[u] = "call" => conn'[fd[u]] = conn[fd[u]]
  <2>1. ~conn[c].cli
    BY <1>1 DEF RInv, StillReady
  <2>2. \A u \in Clients : pc[u] = "call" => conn[fd[u]].cli
    BY DEF RInv, Own
  <2> QED
    BY <1>1, <1>2, <2>1, <2>2
<1>4. \A u \in Clients : CallOf(u)' = CallOf(u)
  BY <1>1, <1>3, SameCall
<1> QED
  BY <1>1, <1>4, Hidden

\* psrv_stop closes under the calls that its server has not executed.
LEMMA LoseStep ==
  ASSUME RInv, StopClose
  PROVE  \E S \in SUBSET Clients : Service!Lose(S)
<1> DEFINE S == {t \in Clients : /\ pc[t] = "call" /\ conn[fd[t]].srv
                                 /\ conn[fd[t]].rep = NoReply /\ fd[t] \in Members(clients)}
<1>1. /\ ret' = NoRet /\ UNCHANGED <<owner, pc, fd>>
      /\ \A c \in Conns : conn'[c] = IF c \in Members(clients) THEN CloseServer(conn[c])
                                     ELSE conn[c]
  BY DEF StopClose, Silent
<1>2. conn \in [Conns -> Pair]
  BY Typed DEF RInv
<1>3. \A t \in Clients : pc[t] = "call" => fd[t] \in Conns /\ conn[fd[t]].cli
  BY DEF RInv, IInv, Held, Own
<1>4. ASSUME NEW t \in Clients
      PROVE  CallOf(t)' = IF t \in S THEN [st |-> "lost"] ELSE CallOf(t)
  <2>1. CASE pc[t] # "call"
    BY <1>1, <2>1 DEF CallOf
  <2>2. CASE pc[t] = "call" /\ fd[t] \notin Members(clients)
    BY <1>1, <1>3, <2>2, SameCall
  <2>3. CASE pc[t] = "call" /\ fd[t] \in Members(clients)
    <3>1. /\ conn'[fd[t]].rep = conn[fd[t]].rep /\ ~conn'[fd[t]].srv
          /\ pc'[t] = "call" /\ fd'[t] = fd[t]
      BY <1>1, <1>2, <1>3, <2>3, EndCloses
    <3>2. conn[fd[t]].srv
      BY <2>3 DEF RInv, IInv, ListedIsOpen
    <3>3. CASE conn[fd[t]].rep # NoReply
      <4>1. t \notin S
        BY <3>3
      <4> HIDE DEF S
      <4> QED
        BY <2>3, <3>1, <3>3, <4>1, Shown, ShownNext
    <3>4. CASE conn[fd[t]].rep = NoReply
      <4>1. t \in S
        BY <2>3, <3>2, <3>4
      <4> HIDE DEF S
      <4> QED
        BY <3>1, <3>4, <4>1, ShownNext
    <3> QED
      BY <3>3, <3>4
  <2> QED
    BY <2>1, <2>2, <2>3
<1>5. \A t \in S : CallOf(t).st = "pending"
  <2>1. ASSUME NEW t \in Clients, pc[t] = "call", conn[fd[t]].srv, conn[fd[t]].rep = NoReply
        PROVE  CallOf(t).st = "pending"
    <3>1. CallOf(t) = [st |-> "pending", req |-> conn[fd[t]].req]
      BY <2>1, Shown
    <3> QED
      BY <3>1
  <2> QED
    BY <2>1
<1>6. S \in SUBSET Clients
  OBVIOUS
<1> HIDE DEF S
<1>7. /\ CallMap' = [t \in Clients |-> IF t \in S THEN Service!Lost ELSE CallMap[t]]
      /\ \A t \in S : CallMap[t].st = "pending"
      /\ Table' = Table
  BY <1>1, <1>4, <1>5, <1>6 DEF CallMap, Table, Service!Lost
<1>8. Service!Lose(S)
  BY <1>1, <1>7 DEF Service!Lose, Service!NoAnswer, NoRet, CallMap, Table
<1> QED
  BY <1>6, <1>8

LEMMA InvokeStep ==
  ASSUME RInv, NEW t \in Clients, NEW k \in Calls, Call(t, k)
  PROVE  Service!Inside \/ \E r \in [op : Ops, pid : Pids, arg : 0..MaxHandles] :
                              Service!Invoke(t, r)
<1> DEFINE c == fd[t]
           r == [op |-> k.op, pid |-> PidOf[t], arg |-> k.arg]
<1>1. pc[t] = "on" /\ UNCHANGED <<fd, owner>> /\ ret' = NoRet
  BY DEF Call, service, Silent
<1>2. /\ conn \in [Conns -> Pair] /\ fd \in [Clients -> Conns \cup {NoConn}] /\ c \in Conns
      /\ pc \in [Clients -> {"out", "connecting", "on", "call"}]
  BY <1>1, Typed DEF RInv, IInv, Held
<1>3. r \in [op : Ops, pid : Pids, arg : 0..MaxHandles]
  BY PSrvAssumption DEF Pids
<1> HIDE DEF r
<1>4. CASE UNCHANGED <<conn, pc>>
  BY <1>1, <1>4, SameCall, Hidden
<1>5. CASE /\ conn[c].srv /\ conn' = [conn EXCEPT ![c].req = r]
           /\ pc' = [pc EXCEPT ![t] = "call"]
  <2>1. /\ \A b \in Conns \ {c} : conn'[b] = conn[b]
        /\ conn'[c].req = r /\ conn'[c].rep = conn[c].rep /\ conn'[c].srv
        /\ pc'[t] = "call" /\ \A u \in Clients \ {t} : pc'[u] = pc[u]
    BY <1>2, <1>5 DEF Pair
  <2>2. \A u \in Clients \ {t} :
          pc[u] # "out" => fd[u] \in Conns /\ fd[u] # c /\ conn'[fd[u]] = conn[fd[u]]
                           /\ fd'[u] = fd[u] /\ pc'[u] = pc[u]
    BY <1>1, <1>2, <2>1, Others
  <2>3. \A u \in Clients \ {t} : CallOf(u)' = CallOf(u)
    BY <2>1, <2>2, SameCall
  <2>4. CallOf(t) = [st |-> "idle"] /\ CallOf(t)' = [st |-> "pending", req |-> r]
    <3>1. conn[c].rep = NoReply /\ fd'[t] = c
      BY <1>1 DEF RInv, Carried
    <3>2. CallOf(t) = [st |-> "idle"]
      BY <1>1 DEF CallOf
    <3> QED
      BY <2>1, <3>1, <3>2, ShownNext
  <2>5. /\ CallMap' = [CallMap EXCEPT ![t] = Service!Pending(r)]
        /\ CallMap[t] = Service!Idle /\ Table' = Table
    BY <1>1, <2>3, <2>4, OneCall DEF CallMap, Table, Service!Idle, Service!Pending
  <2>6. Service!Invoke(t, r)
    BY <1>1, <2>5 DEF Service!Invoke, Service!NoAnswer, NoRet, CallMap, Table
  <2> QED
    BY <1>3, <2>6
<1> QED
  BY <1>4, <1>5 DEF Call, r

LEMMA ReturnStep ==
  ASSUME RInv, NEW t \in Clients, CallReturn(t)
  PROVE  Service!Return(t)
<1> DEFINE c == fd[t]
<1>1. pc[t] = "call" /\ pc' = [pc EXCEPT ![t] = "on"] /\ UNCHANGED <<fd, owner>>
  BY DEF CallReturn, service
<1>2. /\ conn \in [Conns -> Pair] /\ fd \in [Clients -> Conns \cup {NoConn}] /\ c \in Conns
      /\ pc \in [Clients -> {"out", "connecting", "on", "call"}]
  BY <1>1, Typed DEF RInv, IInv, Held
<1>3. /\ \A b \in Conns \ {c} : conn'[b] = conn[b]
      /\ pc'[t] = "on" /\ \A u \in Clients \ {t} : pc'[u] = pc[u]
  BY <1>1, <1>2 DEF CallReturn
<1>4. \A u \in Clients \ {t} :
        pc[u] # "out" => fd[u] \in Conns /\ fd[u] # c /\ conn'[fd[u]] = conn[fd[u]]
                         /\ fd'[u] = fd[u] /\ pc'[u] = pc[u]
  BY <1>1, <1>2, <1>3, Others
<1>5. \A u \in Clients \ {t} : CallOf(u)' = CallOf(u)
  BY <1>3, <1>4, SameCall
<1>6. CallOf(t)' = [st |-> "idle"]
  BY <1>3 DEF CallOf
<1>7. /\ CallMap' = [CallMap EXCEPT ![t] = Service!Idle] /\ Table' = Table
      /\ CallMap[t] = CallOf(t)
  BY <1>1, <1>5, <1>6, OneCall DEF CallMap, Table, Service!Idle
<1>8. CASE /\ conn[c].rep # NoReply
           /\ ret' = [client |-> t, rc |-> 0, status |-> conn[c].rep.status,
                      value |-> conn[c].rep.value]
  <2>1. CallOf(t) = [st |-> "executed", status |-> conn[c].rep.status,
                     value |-> conn[c].rep.value]
    BY <1>1, <1>8, Shown
  <2>2. CallOf(t).st = "executed" /\ CallOf(t) # [st |-> "lost"]
        /\ CallOf(t).status = conn[c].rep.status /\ CallOf(t).value = conn[c].rep.value
    BY <2>1
  <2> QED
    BY <1>7, <1>8, <2>2 DEF Service!Return, Service!Lost, CallMap, Table
<1>9. CASE /\ conn[c].rep = NoReply /\ ~conn[c].srv
           /\ ret' = [client |-> t, rc |-> -1, status |-> 0, value |-> 0]
  <2>1. CallOf(t) = [st |-> "lost"]
    BY <1>1, <1>9, Shown
  <2> QED
    BY <1>7, <1>9, <2>1 DEF Service!Return, Service!Lost, CallMap, Table
<1> QED
  BY <1>8, <1>9 DEF CallReturn

\* What Allocate does to the table, as HandleService has it: the handle that
\* it issues nobody has had, and it fails only when there is no such handle.
LEMMA IssueStep ==
  ASSUME RInv, NEW r \in Request, NEW reply, Allocate(r, reply), next # 0
  PROVE  \/ /\ \A h \in Handles : Table[h] # 0
            /\ reply = [status |-> -1, value |-> 0] /\ Table' = Table
         \/ /\ next \in Handles /\ Table[next] = 0
            /\ reply = [status |-> 0, value |-> next]
            /\ Table' = [Table EXCEPT ![next] = r.pid]
<1>1. /\ owner \in [0..(MaxHandles - 1) -> Pids \cup {0}] /\ next \in Nat
      /\ MaxHandles \in Nat \ {0} /\ Handles \subseteq 0..(MaxHandles - 1)
      /\ \A h \in Handles : owner[h] # 0 <=> h < next
  BY PSrvAssumption DEF RInv, IInv, TypeOK, Issued, Handles
<1>2. CASE next >= MaxHandles /\ reply = Answer(r, -1, 0) /\ UNCHANGED owner
  <2>1. \A h \in Handles : Table[h] # 0
    BY <1>1, <1>2 DEF Table, Handles
  <2> QED
    BY <1>2, <2>1 DEF Table, Answer
<1>3. CASE /\ next < MaxHandles /\ reply = Answer(r, 0, next)
           /\ owner' = [owner EXCEPT ![next] = r.pid]
  <2>1. next \in Handles
    BY <1>1, <1>3 DEF Handles
  <2>2. Table[next] = 0
    BY <1>1, <2>1 DEF Table
  <2>3. Table' = [Table EXCEPT ![next] = r.pid]
    BY <1>1, <1>3, <2>1 DEF Table
  <2> QED
    BY <1>3, <2>1, <2>2, <2>3 DEF Answer
<1> QED
  BY <1>1, <1>2, <1>3 DEF Allocate

\* A handle has an owner exactly when Valid finds it in the table.
LEMMA ValidStep ==
  ASSUME RInv, NEW h \in 0..MaxHandles
  PROVE  Valid(h) <=> h \in Handles /\ Table[h] # 0
BY PSrvAssumption DEF RInv, Issued, Valid, Handles, Table

LEMMA ExecuteStep ==
  ASSUME RInv, Serve
  PROVE  \E t \in Clients : Service!Execute(t)
<1>1. UNCHANGED <<pc, fd>> /\ ret' = NoRet /\ next # 0
  BY DEF Serve, Served, Silent, RInv, Issued
<1>2. PICK t \in Clients, reply \in Reply :
        LET c == fd[t] IN
        /\ pc[t] = "call" /\ c \in Conns /\ c \in todo /\ conn[c].srv
        /\ conn[c].req \in Request /\ conn[c].rep = NoReply /\ reply # NoReply
        /\ HandleRequest(conn[c].req, reply)
        /\ conn'[c].req = NoRequest /\ conn'[c].rep = reply
        /\ conn'[c].cli = conn[c].cli /\ conn'[c].srv = conn[c].srv
        /\ \A b \in Conns \ {c} : conn'[b] = conn[b]
        /\ todo' = todo \ {c}
  BY Answered
<1> DEFINE r == conn[fd[t]].req
<1>3. \A u \in Clients \ {t} :
        pc[u] # "out" => fd[u] \in Conns /\ fd[u] # fd[t] /\ conn'[fd[u]] = conn[fd[u]]
                         /\ fd'[u] = fd[u] /\ pc'[u] = pc[u]
  BY <1>1, <1>2, Others
<1>4. \A u \in Clients \ {t} : CallOf(u)' = CallOf(u)
  BY <1>1, <1>3, SameCall
<1>5. /\ CallOf(t) = [st |-> "pending", req |-> r]
      /\ CallOf(t)' = [st |-> "executed", status |-> reply.status, value |-> reply.value]
  BY <1>1, <1>2, Shown, ShownNext
<1>6. r \in Request /\ HandleRequest(r, reply)
  BY <1>2
<1> HIDE DEF r
<1>7. /\ CallMap[t].st = "pending" /\ CallMap[t].req = r
      /\ CallMap' = [CallMap EXCEPT
                      ![t] = [st |-> "executed", status |-> reply.status, value |-> reply.value]]
  <2>1. CallMap[t] = [st |-> "pending", req |-> r]
    BY <1>5 DEF CallMap
  <2> QED
    BY <1>4, <1>5, <2>1, OneCall
<1> DEFINE valid == r.arg \in Handles /\ Table[r.arg] # 0
           Answers(status, value) ==
             CallMap' = [CallMap EXCEPT
                         ![t] = [st |-> "executed", status |-> status, value |-> value]]
           Issue == \/ \E h \in {i \in Handles : Table[i] = 0} :
                          Table' = [Table EXCEPT ![h] = r.pid] /\ Answers(0, h)
                    \/ /\ {i \in Handles : Table[i] = 0} = {}
                       /\ Answers(-1, 0) /\ Table' = Table
<1>8. Valid(r.arg) <=> valid
  BY <1>6, ValidStep DEF Request
<1>9. Allocate(r, reply) => Issue
  <2>1. CASE /\ \A h \in Handles : Table[h] # 0
             /\ reply = [status |-> -1, value |-> 0] /\ Table' = Table
    BY <1>7, <2>1
  <2>2. CASE /\ next \in Handles /\ Table[next] = 0
             /\ reply = [status |-> 0, value |-> next]
             /\ Table' = [Table EXCEPT ![next] = r.pid]
    <3>1. Answers(0, next)
      BY <1>7, <2>2
    <3> HIDE DEF Answers
    <3> QED
      BY <2>2, <3>1
  <2> QED
    BY <1>1, <1>6, <2>1, <2>2, IssueStep
<1>10. ASSUME NEW status, NEW value, reply = Answer(r, status, value)
       PROVE  Answers(status, value)
  BY <1>7, <1>10 DEF Answer
<1> HIDE DEF valid, Issue, Answers
<1>11. \/ r.op = "ping" /\ Answers(0, r.arg) /\ Table' = Table
       \/ r.op = "new" /\ Issue
       \/ r.op = "dup" /\ valid /\ Issue
       \/ r.op = "dup" /\ ~valid /\ Answers(-1, 0) /\ Table' = Table
       \/ r.op = "other" /\ Answers(-2, 0) /\ Table' = Table
  <2>1. owner' = owner => Table' = Table
    BY DEF Table
  <2> QED
    BY <1>6, <1>8, <1>9, <1>10, <2>1 DEF HandleRequest
<1> USE DEF valid, Issue, Answers
<1>12. Service!Execute(t)
  BY <1>1, <1>7, <1>11
  DEF Service!Execute, Service!Answers, Service!Issue, Service!Unissued, Service!Executed,
      Service!NoAnswer, NoRet, CallMap, Table
<1> QED
  BY <1>12

LEMMA StepImplements == RInv /\ [Next]_vars => [Service!SNext]_(Service!svars)
<1> SUFFICES ASSUME RInv, [Next]_vars PROVE [Service!SNext]_(Service!svars)
  OBVIOUS
<1>1. CASE Start
  BY <1>1, RestartStep DEF Service!SNext
<1>2. CASE StopBegin \/ StopEnd \/ Snapshot \/ PollWakeup \/ PollClients
  BY <1>2, StillSteps DEF Service!SNext
<1>3. CASE StopClose
  BY <1>3, LoseStep DEF Service!SNext
<1>4. CASE Serve
  BY <1>4, ExecuteStep DEF Service!SNext
<1>5. CASE Vanish
  BY <1>5, VanishStep DEF Service!SNext
<1>6. ASSUME NEW t \in Clients, ClientStep(t)
      PROVE  Service!SNext
  <2>1. CASE Close(t)
    BY <2>1, ReleaseStep DEF Close, service, Silent, Service!SNext
  <2>2. CASE ConnectRegister(t) \/ ConnectWake(t)
    BY <2>2, RegisterStep, WakeStep DEF Service!SNext
  <2>3. CASE \E k \in Calls : Call(t, k)
    BY <2>3, InvokeStep DEF Service!SNext
  <2>4. CASE CallReturn(t)
    BY <2>4, ReturnStep DEF Service!SNext
  <2> QED
    BY <1>6, <2>1, <2>2, <2>3, <2>4 DEF ClientStep
<1>7. CASE UNCHANGED vars
  <2>1. UNCHANGED <<owner, conn, pc, fd, ret>>
    BY <1>7 DEF vars, service
  <2>2. CallMap' = CallMap /\ Table' = Table
    BY <2>1, SameCall DEF CallMap, Table
  <2> QED
    BY <2>1, <2>2 DEF Service!svars, CallMap, Table
<1> QED
  BY <1>1, <1>2, <1>3, <1>4, <1>5, <1>6, <1>7 DEF Next, ServerStep

LEMMA InitImplements == Init => Service!SInit
<1> SUFFICES ASSUME Init PROVE Service!SInit
  OBVIOUS
<1>1. \A t \in Clients : CallOf(t) = [st |-> "idle"]
  BY DEF Init, CallOf
<1>2. Table = [h \in Handles |-> 0] /\ CallMap = [t \in Clients |-> Service!Idle]
  BY <1>1, PSrvAssumption DEF Init, Table, CallMap, Handles, Service!Idle
<1>3. ret = Service!NoAnswer
  BY DEF Init, NoRet, Service!NoAnswer
<1> QED
  BY <1>2, <1>3 DEF Service!SInit, Table, CallMap

(* psrv_call is a procedure call on one handle table: it is executed once, *)
(* between its request and its return, or, when psrv_stop closes under it, *)
(* not at all and then says so.                                            *)
THEOREM ImplementsHandleService == Spec => HandleServiceSpec
<1>1. Init => Service!SInit
  BY InitImplements
<1>2. RInv /\ [Next]_vars => [Service!SNext]_(Service!svars)
  BY StepImplements
<1> QED
  BY <1>1, <1>2, RInvariant, PTL DEF Spec, HandleServiceSpec, Service!ServiceSpec
=============================================================================
