---------------------------- MODULE InprocSpawn ----------------------------
(***************************************************************************)
(* Windows processes in one host process (patches 0003, 0005, 0006): a     *)
(* process that creates a child sets up a PEB, registers the child in      *)
(* three tables keyed by that PEB and starts its first thread, which       *)
(* attaches to the server on a socket of its own, builds its parameters    *)
(* and image, and enters its PE or detaches.  Every lookup of a socket, an *)
(* image or a cached descriptor goes through the tables.  Descriptors are  *)
(* numbers of the one host process, the lowest free one first, so that a   *)
(* wrong close hits somebody else's file; those that no lookup can confuse *)
(* (the request and reply pipes, the creator's end of the socket) are only *)
(* states of their owners.                                                 *)
(*                                                                         *)
(* The server side, NtCreateUserProcess around spawn_process and the rest  *)
(* of process exit are upstream's and modelled as the patches use them.    *)
(***************************************************************************)
EXTENDS Integers, FiniteSets, FiniteSetsExt

CONSTANTS
  Primary,   \* the process that called __wine_main
  Children,  \* the processes it and its descendants create
  Pebs,      \* addresses of PEBs
  FirstPeb,  \* the primary process's PEB
  MaxProcs,  \* MAX_PROC_FDS and MAX_PROC_IMAGES
  MaxFds,    \* bound: descriptors of the host process
  Exiters    \* client rule: the processes that may exit

NoPeb == "nopeb"
NoFd == -1

ASSUME InprocSpawnAssumption ==
  /\ Primary \notin Children
  /\ FirstPeb \in Pebs /\ NoPeb \notin Pebs
  /\ MaxProcs \in Nat \ {0} /\ MaxFds \in Nat \ {0}
  /\ Exiters \subseteq Children \cup {Primary}

Procs == Children \cup {Primary}
Fds == 0..(MaxFds - 1)
Slots == 1..MaxProcs

VARIABLES
  setup,    \* whether children can run in this process
  desc,     \* the open descriptors: whose they are and what for
  peb,      \* the PEB of each process
  sockets,  \* proc_server_fds
  images,   \* proc_image_infos
  caches,   \* proc_fd_caches
  first,    \* primary_fd_cache
  call,     \* where NtCreateUserProcess for each child is
  child,    \* how far each child is, its set-up by the parent included
  built,    \* the child has its own parameters and image
  server,   \* what the server has had from it
  closing   \* the socket that its end or a failed spawn will close

tables == <<sockets, images, caches, first>>
vars == <<setup, desc, peb, tables, call, child, built, server, closing>>

\* A table is searched for the first slot with the PEB.
Empty(v) == [peb |-> NoPeb, val |-> v]
With(table, p) == {i \in Slots : table[i].peb = p}
FreeSlots(table) == With(table, NoPeb)
Find(table, p, default) ==
  IF With(table, p) = {} THEN default ELSE table[Min(With(table, p))].val

\* What the calling thread of process p resolves.
CurrentServerFd(p) == Find(sockets, peb[p], 0)
CurrentImageInfo(p) == Find(images, peb[p], Primary)
CurrentCache(p) == Find(caches, peb[p], first)

\* Mutant: unregistering drops the value but keeps the slot.
SetSlotKeepsPeb(table, p, v, none) ==
  LET at == With(table, p) \cup IF v = none THEN {} ELSE FreeSlots(table) IN
  IF at = {} THEN table
  ELSE [table EXCEPT ![Min(IF With(table, p) # {} THEN With(table, p) ELSE at)] =
          [peb |-> p, val |-> v]]

\* set_process_server_fd and set_process_image_info: none unregisters, and a
\* full table drops the entry.
SetSlot(table, p, v, none) ==
  LET new == IF v = none THEN Empty(none) ELSE [peb |-> p, val |-> v]
  IN  CASE With(table, p) # {} -> [table EXCEPT ![Min(With(table, p))] = new]
        [] With(table, p) = {} /\ v # none /\ FreeSlots(table) # {} ->
             [table EXCEPT ![Min(FreeSlots(table))] = new]
        [] OTHER -> table

\* Descriptors: Open is only used when FreeFds is not empty.
Closed == [of |-> Primary, use |-> "closed"]
FreeFds == {fd \in Fds : desc[fd] = Closed}
Lowest == Min(FreeFds)
Open(p, use) == [desc EXCEPT ![Lowest] = [of |-> p, use |-> use]]
CloseAll(set) == [fd \in Fds |-> IF fd \in set THEN Closed ELSE desc[fd]]
Held(c) == {fd \in Fds : desc[fd] = [of |-> c, use |-> "socket"]}

Init ==
  /\ setup = "cold"
  /\ desc = [fd \in Fds |-> IF fd = 0 THEN [of |-> Primary, use |-> "socket"]
                            ELSE Closed]
  /\ peb = [p \in Procs |-> IF p = Primary THEN FirstPeb ELSE NoPeb]
  /\ sockets = [i \in Slots |-> IF i = 1 THEN [peb |-> FirstPeb, val |-> 0]
                                ELSE Empty(NoFd)]
  /\ images = [i \in Slots |-> Empty(Primary)]
  /\ caches = [i \in Slots |-> Empty(NoFd)]
  /\ first = NoFd
  /\ call = [c \in Children |-> "none"]
  /\ child = [p \in Procs |-> IF p = Primary THEN "pe" ELSE "none"]
  /\ built = [c \in Children |-> FALSE] /\ server = [c \in Children |-> "new"]
  /\ closing = [c \in Children |-> NoFd]

Goes(c, at) == child' = [child EXCEPT ![c] = at]
Calls(c, at) == call' = [call EXCEPT ![c] = at]

\* A process's file is received over what its thread takes for its socket and
\* put into what it takes for its cache.
StoreFile(p, fd) ==
  IF With(caches, peb[p]) = {}
  THEN first' = fd /\ UNCHANGED caches
  ELSE /\ caches' = [caches EXCEPT ![Min(With(caches, peb[p]))].val = fd]
       /\ UNCHANGED first
ReceiveFile(p) ==
  /\ desc' = Open(desc[CurrentServerFd(p)].of, "file")
  /\ StoreFile(p, Lowest)

-----------------------------------------------------------------------------
(* The parent.                                                             *)

\* ntdll's PE side has initialised and the prefix has its system DLLs.
Prepare ==
  /\ setup = "cold" /\ setup' = "ready"
  /\ UNCHANGED <<desc, peb, tables, call, child, built, server, closing>>

\* NtCreateUserProcess makes the socket pair and tells the server of it.
Create(p, c) ==
  /\ child[p] = "pe" /\ call[c] = "none"
  /\ Calls(c, "spawn")
  /\ UNCHANGED <<setup, desc, peb, tables, child, built, server, closing>>

\* spawn_process: the child can only run in this process when ntdll's PE side
\* and the DLLs are there; before, it is forked, or refused where fork is not.
SpawnElsewhere(c) ==
  /\ call[c] = "spawn" /\ child[c] = "none" /\ setup # "ready"
  /\ Calls(c, "elsewhere")
  /\ UNCHANGED <<setup, desc, peb, tables, child, built, server, closing>>

\* spawn_process_inproc: dup the socket and map a PEB and the image
\* information; an address that is free again comes back.
SetUp(c) ==
  /\ call[c] = "spawn" /\ child[c] = "none" /\ setup = "ready"
  /\ FreeFds # {} /\ Pebs \ {peb[p] : p \in Procs} # {}
  /\ desc' = Open(c, "socket")
  /\ peb' = [peb EXCEPT ![c] = CHOOSE a \in Pebs : \A p \in Procs : peb[p] # a]
  /\ Goes(c, "register")
  /\ UNCHANGED <<setup, tables, call, built, server, closing>>

\* No descriptor or no memory for them: nothing is kept.
SetUpRefused(c) ==
  /\ call[c] = "spawn" /\ child[c] = "none" /\ setup = "ready"
  /\ Goes(c, "undone")
  /\ UNCHANGED <<setup, desc, peb, tables, call, built, server, closing>>

\* The child is put into two of the tables.
Register(c) ==
  /\ child[c] = "register"
  /\ \E fd \in Held(c) : sockets' = SetSlot(sockets, peb[c], fd, NoFd)
  /\ images' = SetSlot(images, peb[c], c, Primary)
  /\ Goes(c, "setcache")
  /\ UNCHANGED <<setup, desc, peb, caches, first, call, built, server, closing>>

\* alloc_process_fd_cache: an entry for the PEB that is there stays.
AllocCache(c) ==
  /\ child[c] = "setcache"
  /\ With(caches, peb[c]) # {} \/ FreeSlots(caches) # {}
  /\ caches' = IF With(caches, peb[c]) # {} THEN caches
               ELSE [caches EXCEPT ![Min(FreeSlots(caches))] =
                       [peb |-> peb[c], val |-> NoFd]]
  /\ Goes(c, "thread")
  /\ UNCHANGED <<setup, desc, peb, sockets, images, first, call, built, server,
                 closing>>

\* No memory for it, or no slot; or no memory for the TEB, the stack or the
\* thread: what has been done is undone.
SetUpFails(c) ==
  /\ child[c] \in {"setcache", "thread"}
  /\ Goes(c, "unregister")
  /\ closing' = [closing EXCEPT ![c] = Min(Held(c))]
  /\ UNCHANGED <<setup, desc, peb, tables, call, built, server>>

\* pthread_create; spawn_process_inproc returns.
StartThread(c) ==
  /\ child[c] = "thread"
  /\ Goes(c, "attach") /\ Calls(c, "close")
  /\ UNCHANGED <<setup, desc, peb, tables, built, server, closing>>

\* NtCreateUserProcess closes its end and, unless the spawn failed, waits for
\* process_info.
CloseCall(c) ==
  /\ call[c] = "close" \/ (call[c] = "spawn" /\ child[c] = "undone")
  /\ Calls(c, IF call[c] = "close" THEN "wait" ELSE "failed")
  /\ UNCHANGED <<setup, desc, peb, tables, child, built, server, closing>>

\* The server keeps the process while its socket is open, by the creator's end
\* or the child's copy, and until the thread's request pipe is closed.
ServerKeeps(c) ==
  /\ call[c] \in {"spawn", "close"} \/ Held(c) # {}
  /\ server[c] # "cut"

\* init_process_done or the end of the process wakes the parent.
Created(c) ==
  /\ call[c] = "wait" /\ (server[c] = "started" \/ ~ServerKeeps(c))
  /\ Calls(c, IF server[c] = "started" THEN "created" ELSE "died")
  /\ UNCHANGED <<setup, desc, peb, tables, child, built, server, closing>>

-----------------------------------------------------------------------------
(* The child's thread.                                                     *)

\* server_init_process_inproc: the request pipe comes over the child's socket.
Attach(c) ==
  /\ child[c] = "attach"
  /\ desc[CurrentServerFd(c)] = [of |-> c, use |-> "socket"]
  /\ server' = [server EXCEPT ![c] = "attached"]
  /\ Goes(c, "startup")
  /\ UNCHANGED <<setup, desc, peb, tables, call, built, closing>>

\* init_startup_info_inproc: the server still has the start-up information;
\* mapping the image leaves its file in the cache.
BuildStartup(c) ==
  /\ child[c] = "startup" /\ server[c] # "started" /\ FreeFds # {}
  /\ ReceiveFile(c)
  /\ built' = [built EXCEPT ![c] = TRUE]
  /\ Goes(c, "built")
  /\ UNCHANGED <<setup, peb, sockets, images, call, server, closing>>

\* server_init_process_done_inproc.
InitDone(c) ==
  /\ child[c] = "built"
  /\ server' = [server EXCEPT ![c] = "started"]
  /\ Goes(c, "done")
  /\ UNCHANGED <<setup, desc, peb, tables, call, built, closing>>

\* signal_start_thread; without WINE_INPROC_RUN the child detaches instead.
EnterPe(c) ==
  /\ child[c] = "done"
  /\ Goes(c, "pe")
  /\ UNCHANGED <<setup, desc, peb, tables, call, built, server, closing>>

\* Mutant: the socket is looked up after it has been unregistered.
DetachLooksUpLate(c) ==
  /\ child[c] \in {"attach", "startup", "built", "done"}
  /\ closing' = [closing EXCEPT ![c] =
       Find(SetSlot(sockets, peb[c], NoFd, NoFd), peb[c], 0)]
  /\ server' = [server EXCEPT ![c] = IF @ = "attached" THEN "cut" ELSE @]
  /\ Goes(c, "unregister")
  /\ UNCHANGED <<setup, desc, peb, tables, call, built>>

\* A child that failed, or is not to enter its PE, starts to detach.
Detach(c) ==
  /\ child[c] \in {"attach", "startup", "built", "done"}
  /\ closing' = [closing EXCEPT ![c] = CurrentServerFd(c)]
  /\ server' = [server EXCEPT ![c] = IF @ = "attached" THEN "cut" ELSE @]
  /\ Goes(c, "unregister")
  /\ UNCHANGED <<setup, desc, peb, tables, call, built>>

-----------------------------------------------------------------------------
(* Undoing, by the child's thread that detaches or by a parent whose       *)
(* set-up failed: the same calls in the same order.                        *)

Unregister(c) ==
  /\ child[c] = "unregister"
  /\ sockets' = SetSlot(sockets, peb[c], NoFd, NoFd)
  /\ images' = SetSlot(images, peb[c], Primary, Primary)
  /\ Goes(c, "uncache")
  /\ UNCHANGED <<setup, desc, peb, caches, first, call, built, server, closing>>

\* Mutant: the cache's descriptors stay open.
ReleaseCacheKeepsFiles(c) ==
  /\ child[c] = "uncache"
  /\ caches' = [i \in Slots |-> IF i \in With(caches, peb[c]) THEN Empty(NoFd)
                                ELSE caches[i]]
  /\ Goes(c, "free")
  /\ UNCHANGED <<setup, desc, peb, sockets, images, first, call, built, server,
                 closing>>

\* release_process_fd_cache, which does nothing when there is none.
ReleaseCache(c) ==
  /\ child[c] = "uncache"
  /\ desc' = CloseAll({caches[i].val : i \in With(caches, peb[c])})
  /\ caches' = [i \in Slots |-> IF i \in With(caches, peb[c]) THEN Empty(NoFd)
                                ELSE caches[i]]
  /\ Goes(c, "free")
  /\ UNCHANGED <<setup, peb, sockets, images, first, call, built,
                 server, closing>>

\* Mutant: the thread leaves the socket open.
CloseSocketOnUndo(c) ==
  /\ child[c] = "free"
  /\ IF call[c] = "spawn"
     THEN /\ Goes(c, "undone") /\ peb' = [peb EXCEPT ![c] = NoPeb]
          /\ desc' = CloseAll({closing[c]})
     ELSE Goes(c, "gone") /\ UNCHANGED <<peb, desc>>
  /\ closing' = [closing EXCEPT ![c] = NoFd]
  /\ UNCHANGED <<setup, tables, call, built, server>>

\* The socket is closed; only the parent frees the PEB, the thread leaks it.
CloseSocket(c) ==
  /\ child[c] = "free"
  /\ desc' = CloseAll({closing[c]})
  /\ IF call[c] = "spawn"
     THEN Goes(c, "undone") /\ peb' = [peb EXCEPT ![c] = NoPeb]
     ELSE Goes(c, "gone") /\ UNCHANGED peb
  /\ closing' = [closing EXCEPT ![c] = NoFd]
  /\ UNCHANGED <<setup, tables, call, built, server>>

-----------------------------------------------------------------------------
(* What processes do meanwhile.                                            *)

\* Bound: only the primary process opens and closes files at any time.
OpenFile ==
  /\ child[Primary] = "pe" /\ CurrentCache(Primary) = NoFd /\ FreeFds # {}
  /\ ReceiveFile(Primary)
  /\ UNCHANGED <<setup, peb, sockets, images, call, child, built, server, closing>>

CloseFile ==
  /\ child[Primary] = "pe" /\ CurrentCache(Primary) # NoFd
  /\ desc' = CloseAll({CurrentCache(Primary)}) /\ StoreFile(Primary, NoFd)
  /\ UNCHANGED <<setup, peb, sockets, images, call, child, built, server, closing>>

\* process_exit_wrapper closes fd_socket, whoever exits, and ends the thread:
\* the tables keep what they have, and other threads of the process, which may
\* be in the middle of a spawn, go on.
Exit(p) ==
  /\ p \in Exiters /\ child[p] = "pe"
  /\ desc' = CloseAll({0})
  /\ Goes(p, "exited")
  /\ UNCHANGED <<setup, peb, tables, call, built, server, closing>>

-----------------------------------------------------------------------------
\* The steps of a call and of a child's thread.
Spawning(c) ==
  \/ SpawnElsewhere(c) \/ SetUp(c) \/ SetUpRefused(c) \/ Register(c)
  \/ AllocCache(c) \/ SetUpFails(c) \/ StartThread(c) \/ CloseCall(c)
  \/ Created(c) \/ Attach(c) \/ BuildStartup(c) \/ InitDone(c)
  \/ EnterPe(c) \/ Detach(c) \/ Unregister(c) \/ ReleaseCache(c)
  \/ CloseSocket(c)

Next ==
  \/ Prepare
  \/ \E p \in Procs, c \in Children : Create(p, c)
  \/ \E c \in Children : Spawning(c)
  \/ OpenFile \/ CloseFile \/ \E p \in Procs : Exit(p)

Spec == Init /\ [][Next]_vars

\* The parent's thread and the child's are scheduled; what guests do with
\* files, whether they spawn or exit is their own.
FairSpec ==
  /\ Spec
  /\ \A c \in Children :
       /\ WF_vars(CloseCall(c) \/ Created(c))
       /\ WF_vars(Spawning(c) /\ child'[c] # child[c])
       /\ WF_vars(SpawnElsewhere(c))

-----------------------------------------------------------------------------
(* Properties.                                                             *)

\* The tables' entries are whole: a slot has a PEB or nothing.
Entries(table, values, none) ==
  \A i \in Slots : \/ table[i] = Empty(none)
                   \/ table[i].peb \in Pebs /\ table[i].val \in values
TypeOK ==
  /\ setup \in {"cold", "ready"}
  /\ desc \in [Fds -> {Closed} \cup
       [of : Procs, use : {"socket", "file"}]]
  /\ peb \in [Procs -> Pebs \cup {NoPeb}]
  /\ Entries(sockets, Fds, NoFd)
  /\ Entries(images, Children, Primary)
  /\ Entries(caches, Fds \cup {NoFd}, NoFd)
  /\ first \in Fds \cup {NoFd}
  /\ call \in [Children -> {"none", "spawn", "close", "wait", "created", "died",
                            "failed", "elsewhere"}]
  /\ child \in [Procs -> {"none", "register", "setcache",
       "thread", "attach", "startup", "built", "done", "pe", "exited",
       "unregister", "uncache", "free", "gone", "undone"}]
  /\ built \in [Children -> BOOLEAN]
  /\ server \in [Children -> {"new", "attached", "started", "cut"}]
  /\ closing \in [Children -> Fds \cup {NoFd}]

Live(p) == child[p] \in {"attach", "startup", "built", "done", "pe"}

\* While a process runs, its threads resolve its own, open server socket, its
\* own file behind a handle, and its own image; once the parent is told that
\* the child is there, the child has its own parameters and image.  (server.c:
\* "each needs its own - otherwise a child's init would clobber the parent's
\* connection"; the caches and init_process_done's place likewise.)
OwnSocket(p) == desc[CurrentServerFd(p)] = [of |-> p, use |-> "socket"]
OwnFile(p) ==
  CurrentCache(p) # NoFd => desc[CurrentCache(p)] = [of |-> p, use |-> "file"]
OwnImage(p) == CurrentImageInfo(p) = p
OwnState ==
  /\ \A p \in Procs : Live(p) => OwnSocket(p) /\ OwnFile(p) /\ OwnImage(p)
  /\ \A c \in Children : call[c] = "created" => built[c]

\* A spawn that failed and a child that detached leave nothing behind: no
\* descriptor is theirs, and every slot belongs to a process that is there.
NothingLeft ==
  /\ \A c \in Children :
       child[c] \in {"undone", "gone"} /\ call[c] \notin {"spawn", "close"}
         => \A fd \in Fds : desc[fd] # Closed => desc[fd].of # c
  /\ \A i \in Slots, table \in {sockets, images, caches} :
       table[i].peb # NoPeb =>
         \E p \in Procs :
           peb[p] = table[i].peb /\ child[p] \notin {"undone", "gone"}

\* NtCreateUserProcess returns, whatever happens to the child.
CreateReturns ==
  \A c \in Children :
    call[c] = "spawn" ~> call[c] \in {"created", "died", "failed", "elsewhere"}
=============================================================================
