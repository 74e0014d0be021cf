# A verification project for CrossoverPad and its Wine patches

CrossoverPad runs Windows programs inside one iOS app process: there is no
`fork`, no `exec` and no second process, so Windows "processes", the Wine server
and the app's own views all share one address space, one descriptor table and
one set of standard handles. Most of what can go wrong follows from that, and
the tests of the repository are sequential. These TLA+ modules model the parts
of the system that run concurrently or keep state across calls. TLC checks them
on small instances, and TLAPS proves theorems about the process table, the
pseudo-server, the display bridge, the sessions, the bottle store, the in-process
children and the input queue for every value of their constants.

Source paths below are relative to the repository's root. `PROJECT.json` maps
every definition to the lines it models.

## The system

| Component | Source | State it keeps | Operations |
|---|---|---|---|
| Pseudo-process table | `native/pseudoproc/pproc.c` | `g.table` (256 slots), `g.next_pid`, `g.live`, a thread-local `g.current` | spawn, thread create, exit, wait, pid and exiting queries |
| Pseudo-server | `native/pseudoproc/psrv.c` | connection list, wakeup pipe, handle table | start, stop, connect, call, close; the poll loop |
| In-process children | patches 0003, 0005, 0006 | tables of server sockets, image infos and descriptor caches, keyed by PEB | spawn, attach, build the start-up state, enter the PE, detach, undo, exit |
| User session | patch 0004 | a table of initialised PEBs | `init_user_process` |
| Embedded wineserver | patches 0001, 0002 | the master socket's name, a `jmp_buf` | run, shut down, run again |
| Display bridge | `WineHost/WineDisplayHost.c` | registry of window surfaces, `change_seq`, titles | driver callbacks, list and copy for the view |
| Display driver | patch 0007 | a surface's bits, lock and update number | create, place, flush, destroy |
| Guest screen view | `Views/GuestScreenView.swift` | the current surface and the last update shown | `tick` at display rate |
| Input | view, bridge and patch 0007 | the queue of 512 events, `input_loop_claimed` | touch and key handlers, enqueue, next event, inject |
| Wine sessions | `WineHost/WineHost.c`, `Engine/Wine*Session.swift` | a Wine thread, its pipes, `finished`, `exit_code`; status, output | start, send, stop, read events, the exit poll |
| Bottle store | `Bottles/BottleStore.swift` | the list, the selection, an index on disk | create, delete, run, stop, load, save |
| Engines | `Engine/*Engine.swift` | none | start, stop |

How they meet:

- Views call the sessions and the store on the main actor. A session starts a
  Wine thread (`pthread_create` in `WineHost.c`), passes bytes through pipes on a
  serial queue and learns of the guest's end by polling.
- The Wine thread loads `ntdll.so` and never comes back when the guest exits:
  patch 0006 turns `exit` into `pthread_exit`.
- Guest threads call the display bridge through a table of callbacks, under the
  bridge's mutex; the view reads the same registry on the main thread and takes
  a surface's own lock inside that mutex to copy its pixels.
- A guest creates a child process by `spawn_process_inproc`; parent and child
  meet in the PEB-keyed tables, in the host's descriptor numbers and, through
  the server, in `init_process_done`.
- `pproc` and `psrv` are the substrate on which the port was developed: threads
  grouped into processes, and a server thread with a connection for each client.

What is hard in it: pointers and numbers kept across an unlock or an `await`; slots,
descriptors and addresses that are used again; failures in the middle of a set-up; three
schedulers (guest threads, a serial queue, the main actor) around one pipe; wakeups that
may be lost; exits that skip the code which should report them. `PROJECT.json` lists
each of these places as a hazard, with the property that covers it or the reason why
there is none: the wrap of `next_pid`, what `checkExit` leaves unread, a bottle found
"running" after a restart, the table that is full with the 64th child, a child that
exits, a touch that ends when there is no surface, and the exit of the input loop's
owner are among those without one.

What makes each component correct:

- *pproc*: a slot is not freed while a thread of its process lives; counts are
  exact; a wait returns the code of the process it was asked for; waits and
  drains end.
- *psrv*: a call behaves like one atomic operation on one handle table; no
  wakeup is lost; a stop closes all that is listed before its close loop, and what
  comes later is served by no later server; vanished clients give their place back.
- *Children*: each process resolves its own socket, image and files; failures
  leave nothing behind; the creator is told.
- *Display*: the registry lists the surfaces that are there, each once; only live
  surfaces are read; what is on screen changes by whole, last frames of live
  surfaces; no frame is skipped unseen, and the last one is shown in the end.
- *Input*: events arrive in the order they were sent and at most once, none is
  left in the queue, and no button or key stays down for want of a release.
- *Sessions*: nothing that a guest writes is lost or shown twice, even if another
  session takes the standard handles from it; an open view has of each guest one
  unbroken stretch of its output in order, and the beginning of its own guest's;
  output arrives unless `send` blocks; the exit code shown is the guest's, and an
  exit is reported.
- *Bottles*: only the user's calls change the list; the selection is of a listed
  bottle; a bottle says "running" only while a call is starting it, or because the
  app ended in one.

## Modules

`X.tla` models the component, `MCX.tla` declares the small instance's model
values, the `.cfg` files give them to TLC. An operator that a comment calls
*Mutant* is an altered copy of a definition, with a plausible mistake in it; no
specification uses it. Each property is violated when the copy takes the
definition's place, which shows that the property depends on the code.

### `PProc`, `ProcLifecycle`, `PProcRefinement`, `PProcProofs`, `PProcRefinementProofs`

One action is one critical section of `g.lock`. `pc` holds where a thread is
between two of them (asleep on a condition variable, awake from it, joining,
...), `wait` the locals of `pproc_wait`, `table`, `nextPid` and `live` the
global state. Spurious wakeups are allowed, `pthread_create` may fail in both
places, and a main thread may end by returning or by `pproc_exit`.
`ProcLifecycle` is the promise of `pproc.h`: a process is absent, running,
asked to exit with a code, exited, reaped. `PProcRefinement` maps the table to it
and states `LifecycleSpec`. `PprocGetpid`, `PprocExiting` and `PprocCount` are what
the queries return; the properties are about them.

### `PSrv`, `HandleService`, `PSrvRefinement`, `PSrvProofs`

One action is one critical section of `s.lock`, one system call that another thread can
observe, or one pass over the polled descriptors. Reading a request, executing it and
writing the reply is one action, because only the server thread touches the handle table
and a client can observe neither half. A client that writes to a closed connection is
killed by SIGPIPE, as no code ignores the signal; this is the state `killed`. The thread
polls a snapshot of the list and then serves the descriptors that were ready in it
(`todo`), one at a time in any order, while others are listed and closed. A
`psrv_connect` that writes its byte after the stop has closed the wakeup pipe fails, or
hits another file that has got the number. `conn[c].late` is not in the code: it marks a
connection that was listed after `psrv_stop` had closed all it found. `HandleService` is
the promise of `psrv.h`: calls are executed one at a time on one handle table, or are
lost when the server stops. `PSrvRefinement` maps to it.

### `InprocSpawn`, `InprocSpawnProofs`

`child[p]` is how far a process is, from the parent's set-up through the
child's own thread to the end; `call[c]` is where `NtCreateUserProcess` for it
is. `sockets`, `images` and `caches` are the three tables, searched for the first
slot with the PEB as the code does, with the same fallbacks to the primary
process. Descriptors are numbers, the lowest free one first, so that a wrong
close hits somebody's file; pipes that no lookup can confuse are only states of
their owner. A PEB that was unmapped is handed out again at once. The parent's
undo and the thread's detach make the same calls in the same order and are the
same actions. Simplifications: registering in the first two tables is one action
(two locks, nothing between them), as are `dup` and the two mappings; a child
uses one file, that of its image.

### `Display`, `Screen`, `DisplayProofs`

The driver's side (`at`, the surfaces' pixels as two halves that count flushes), the
registry (`slot`, `change`) and the presenter (`mpc`, `current`, `lastPixelSeq`,
`shown`). A section under `reg_mutex` is one action, except the copy, which holds it
across the pixel lock and is three. `bump` comes after the unlock and is a step of its
own. A view in the background is a tick that is not taken. `dropped` is not in the code:
it names the surfaces that found all slots used. The surface's buffer is full and its
sizes are not zero, so `CGImage` makes an image of it. Titles, input and the screen's
size are not in the module. `Screen` is what `wineios_host.h` promises, with no locks
and slots: surfaces appear, are painted and vanish, and the picture changes in one
moment to the last frame of a surface that is there. `ScreenSpec` is the refinement.

### `InputPump`, `LossyFifo`, `InputPumpProofs`

A handler on the main thread decides at once which events it will send
(`todo`) and sends them one critical section after the other, so the pump may run
between a move and its press. `ring`, `head` and `count` are the queue as the
code indexes it. Each process has a pump thread (`pc`); taking an event and
injecting it are two steps. `pressed` is what the guest's desktop takes to be
down. Three variables are not in the code: `sends` and `injected` number the
events for the refinement, and `lost` names the keys whose last release never
got into the queue. `current` is only whether the view has a surface: which
one, and the coordinates, decide neither what is sent nor what is down. A text
of several units is several calls of `InsertText`. A process may exit at any
step of its pump thread, but not inside a critical section. `LossyFifo` is a queue
that drops only when it is full; `FifoSpec` is the refinement.

### `WineSession`, `WineSessionProofs`

The Wine thread (`thread`, `finished`, `exitCode`), the descriptors 0 and 1 of the app,
both pipes, the serial queue, the main actor's tasks in their order, and the session
object. A console session has a pipe for its input, a GUI session /dev/null (`stdin`). A
start may fail at each step that can. The guest reads, writes and exits as it likes, and
the user may open the two views at any time, also while the other session starts. The
standard handles are those of the app's process, so a session takes them from a guest
that still runs, and two that start together may split them: one's input, the other's
output. `WineHost.h` wires a guest's output to the session's pipe; that holds until the
next session starts, and no property claims more. What the properties speak of is
`Stream(s)`: what the view of `s` shows, what the main actor's tasks carry, and what the
pipe holds. Closing a view drops what it shows and its tasks, but neither the thread nor
the reading.

### `BottleStore`, `BottleStoreProofs`

The store's methods are actions up to an `await` and after it; a task keeps the
`Bottle` value it was called with. The index on disk is written by every
`save`; the app may end at any time and is started again from the index. The
engine is any engine that returns or throws. `found` is not in the code: it names
the bottles that the last load found "running".

## Runs

| Run | Question | Bounds |
|---|---|---|
| `pproc_safety` | Are slots, counts, pids and exit codes right in every interleaving, and is the promise of `pproc.h` kept? | 1 host thread, 2 others, 2 slots, 3 spawns, pids modulo 4, 2 exit codes |
| `pproc_liveness` | Do all waits return and all drains end? | as above with 3 guest threads, 2 spawns |
| `pproc_shared_wait_hang` | Two threads wait for the same pid (violated) | as `pproc_safety` without the rule |
| `psrv` | Do calls stay atomic, the list consistent and wakeups alive under stops and restarts; does a stop close what it finds, do calls return, are places freed? | 2 clients, 2 connections, 2 places, handles up to 3, 3 calls, 2 starts |
| `psrv_stop_race` | A connect during a stop (violated) | 1 start |
| `inproc` | Does every process resolve its own state, do failures leave nothing, is the creator told? | 2 children, 3 slots, 4 descriptors, 3 PEBs |
| `display` | Is the registry exact, and is every frame live, whole, noticed and finally shown? | 3 windows on 2 guest threads, 2 slots, 3 surface ids, 6 changes |
| `display_list_order` | Does the view show the window created last? (violated) | 2 windows on 1 guest thread, 2 slots, 3 surface ids, 10 changes |
| `input` | Do events arrive in order, once and at all, and is every press released? | 2 processes, a queue of 2, 4 events |
| `session` | Is output in order and complete when sessions take the handles from one another, does it arrive, is the exit code right? | a console and a GUI session, pipes of 1, 2 and 1 writes, 1 line waiting |
| `session_exit_lost` | Is an exit reported? (violated) | as above, pipes of 2 |
| `bottles` | Do overlapping runs, stops, deletions and restarts keep the list right? | 3 bottles, 2 tasks, 4 calls, 2 crashes |

Why the bounds are enough. Every table is smaller than the number of things that want a
place in it, or is reached exactly, so that slots are used again and "full" happens; the
exception is `inproc`, which has a slot for each process on purpose (see below). Every
race needs two actors and there are at least two; `display` adds a third window so that
a slot is used again while two others are live. `PidMod` is small, but larger than the
number of spawns: the refinement needs that no pid is given out twice. Counters that the
code never resets (`MaxSpawns`, `MaxIssues`, `MaxStarts`, `MaxIds`, `MaxChanges`,
`MaxEvents`, `MaxWrites`, `MaxJobs`, `MaxBottles`, `MaxCalls`, `MaxCrashes`) are bounded
in the guards; each module says which of its constants are bounds. Four events are a
whole touch and the start of the next, or two typed keys: enough to fill the queue of
two, to drop a release and to go round the ring. In `session` the number of typed lines
is not bounded, only how many wait at once. A pipe of one is full after each write, so
guest and queue block each other in every way they can; each chunk is then one
write, and the theorems speak of chunks and pipes of any size. In `inproc` four
descriptors hold the sockets of the primary process and of two children and one file,
or, once the primary has exited, both children's sockets and files. Five were checked
once too (1.2 million states, no error); that takes nearly five minutes.

All runs but `input` switch the deadlock check off. In every one of them the system may
really stop: a host thread ends, clients disconnect, guests exit, a bound is
used up.

### What the violated runs show

- `pproc_shared_wait_hang`: `pproc_wait` keeps its pointer to a slot across
  sleeps. If two threads wait for one pid, the slower one may wake to a slot
  that is free or belongs to somebody else and sleep for ever. `pproc.h` has no
  rule against two waiters.
- `psrv_stop_race`: `psrv_stop` clears `s.running` after it has emptied the list
  and released the lock. A connection that is made in between is never served
  or closed.
- `display_list_order`: `cb_surface_added` takes the first free slot and the list is
  in the order of the slots. When a window has closed before an older one that
  stays open, the next window is listed in front of the older one, and `tick`, which
  takes the last visible entry, goes on showing the older window.
  `WineDisplayHost.h` says "creation order" of that list, and `GuestScreenView.swift`
  "show the last-created visible surface".
- `session_exit_lost`: the guest ends by `pthread_exit` on the very thread that
  would store `finished`, so the app shows "Running" for ever.

### Client rules

A passing run may assume a rule about callers, which is a constant so that it
can be dropped:

- `ExclusiveWaits` (`pproc`): one waiter for each pid.
- `Cooperative` (`pproc_liveness`): a process waits only for younger ones, and
  starts no threads once `pproc_exiting()` is true. Without it a drain can be
  starved and two processes can wait for each other.
- `Exiters` (`inproc`): only the primary process exits. With a child that exits,
  `process_exit_wrapper` closes the global `fd_socket`, which is the primary
  process's connection, and `OwnState` fails.
- `MaxProcs` greater than the number of children (`inproc`): the primary process
  takes a slot of `proc_server_fds` but none of the caches. With `MaxProcs = 2`
  the second child gets a cache and no socket, falls back to the primary's and
  `OwnState` fails; in the code this is the 64th child.

`session` has no such rule. Sessions start and end in any order, and `OutputArrives`
names its exception: the read queue never gets out of the `write` of a typed line to a
full pipe (`Stuck`), while the guest waits for room in the pipe that this queue
should read. The run reaches that deadlock; no document says that it cannot happen.

`psrv` has no rule either: `CallsReturn`, `VanishedAreReaped` and
`StopClosesListed` name their exceptions: a connection that is `late`, which is the
finding of `psrv_stop_race`, and a host process that SIGPIPE has ended (`killed`),
after which nothing happens at all.

### Fairness

- `PProc`: weak fairness of each thread's steps inside `pproc.c` (a runnable
  thread runs, a broadcast wakes), and strong fairness of guests' returns, since
  `DrainsEnd` is about guests that do return. `pthread_mutex` gives no order, so
  nothing stronger is assumed of the lock.
- `PSrv`: weak fairness of the server thread, of the stopping thread and of the
  inside of a client's connect and call, until the host process is killed; none
  of what a client decides to do.
- `InprocSpawn`: weak fairness of the creating thread and of the child's thread
  between their calls; none of guests, files, exits or of further spawns.
- `Display`: weak fairness of the display link's callback and of driver calls
  that have begun. Whether a window is ever painted again is the guest's choice.
- `InputPump`: weak fairness of a handler that has begun and of live pump
  threads; none of touches, of the start of a process or of its exit. `Delivered`
  excepts a process that exits while its thread has the loop: nothing resets the
  claim, and the guests that remain get no more input.
- `WineSession`: weak fairness of the Wine thread up to the guest, of the serial
  queue's writes, of the main actor's tasks and of the poll timer, and strong fairness of
  the read events: the queue is serial and first come, first served, so a read event has
  its turn between two lines however many are typed; none of the guest or of the user.
- `BottleStore` has safety properties only.

## Proofs

All theorems hold for every value of the constants that the modules' assumptions
allow, so for any number of threads, clients, windows, events and slots. Client
rules are needed by those of `PProcProofs`, `PProcRefinementProofs` and
`InprocSpawnProofs`. A refinement theorem says that
each step of the code is a step of the promise or changes nothing the promise speaks of;
what the promise hides is named where the refinement is defined.

### `PProcProofs`

| Theorem | Says |
|---|---|
| `TypeCorrect` | every reachable state is typed, with or without the client rules |
| `SlotsOutliveThreadsAlways` | a slot is not freed or used again while a thread of its process lives |
| `WaitersHoldAlways` | what `pproc_wait` points at stays the process it was asked for |
| `AuxCountExactAlways` | `aux_threads` is the number of auxiliary threads that live or are being created |
| `ExitedMeansQuietAlways` | an exited process has no live thread |
| `WaitReturnsOwnCodeAlways` | a wait that returns a code returns that of the process it was asked for |
| `CountIsUnreapedAlways` | `pproc_count` is the number of processes nobody has reaped |

All but the first assume `ExclusiveWaits`. The run above shows that the
assumption is needed.

The argument. None of the four after `TypeCorrect` is inductive alone. The invariant
`IInv` is their conjunction with the type invariant and with `DrainersAreMain`: a thread
that drains is the main thread of its slot. Freeing a slot happens only in `pproc_wait`
after the join. That the process in it is then quiet follows from `ExitedMeansQuiet`;
that it is still the same process follows from `WaitersHold`, which is the only conjunct
that needs the client rule; that it became "exited" with no auxiliary thread follows
from `AuxCountExact`; and the main thread can only have marked it so if it is the main
thread, which is `DrainersAreMain`. Each action has its own lemma, and the lemmas about
cardinalities (one thread joins or leaves a set) are stated once.

### `PProcRefinementProofs`

| Theorem | Says |
|---|---|
| `ImplementsProcLifecycle` | a pid is allocated once, the first exit request decides its code, its process exits with that code and exactly one `pproc_wait` reaps it and returns the code |

It assumes `ExclusiveWaits`, and `NoWrap`: fewer spawns than there are pids. The second
is needed: `next_pid` is a `uint32_t`, and after 2^32 spawns a live process may share its
pid with a new one. The invariant adds to `IInv` that pids are
given out in order (`Numbered`), that a slot in use holds a pid that was given out and no
other slot holds it (`OwnPids`), and that a code that was requested is one a guest used
(`Decided`). So the phase of a pid depends on one slot at most, and a step that
changes one slot changes the phase of one pid (`OneChanges`, `Appears`, `Lost`,
`Reaped`). With that each action of `pproc.c` is one lemma: the epilogue of a main thread
is a request and an exit at once, or only the one or the other; what concerns auxiliary
threads, sleeping, waking and joining is hidden.

### `PSrvProofs`

| Theorem | Says |
|---|---|
| `TypeCorrect` | every reachable state is typed, so no call returns what is not a reply |
| `ListedIsOpenAlways` | the list has each connection once, within `MAX_CLIENTS` and open, and the server reads from no other |
| `NoLostWakeupAlways` | a server asleep on a snapshot that lacks a connection has a byte in its pipe, or one on the way |
| `StopClosesListedAlways` | what `psrv_stop` leaves open was listed after its close loop, and no later server serves it |
| `ImplementsHandleService` | `psrv_call` is executed once, between its request and its return, or not at all and says so |

The invariant adds to the three properties what the phases of `psrv_stop` mean
(`Stopping`: past its close loop only late connections are open; before it none
that is listed is late), when the thread runs (`Serving`) and that the snapshot is
of listed connections while it is slept on (`Polled`). The refinement needs
more: each client has an end of its own, and open (`Own`); a request or a reply is on a
connection only while its client is in a call, and never both (`Carried`, `Asked`); what
was ready when `poll` returned still is when its turn comes (`StillReady`); and
exactly the handles below `next_handle` have been issued (`Issued`).

### `DisplayProofs`

| Theorem | Says |
|---|---|
| `RegistryExactAlways` | the registry lists the surfaces it was told of and not told to remove, each in one slot |
| `ReadsLiveSurfaceAlways` | the main thread copies only from a surface whose bits and lock exist |

That what is listed is alive follows from who owns it (`Owned`: a window has a surface
of its own, alive, until its thread has removed it) and from exactness, which
makes a surface listed only while a window has it. The copy looks its surface up
under `reg_mutex` and holds it, so the surface stays listed (`Copying`). Neither
property holds by itself: without exactness a slot could outlive its surface.

The other three theorems of the module are about the guest view and the promise of
`wineios_host.h`:

| Theorem | Says |
|---|---|
| `TypeCorrect` | every reachable state is typed |
| `SkippedIsShownAlways` | an update number the guest view skips is of an image it shows already |
| `ImplementsScreen` | what the guest view shows is always one whole frame that some guest painted on a surface that is there |

The windows are assumed to be finitely many, as `flush` of all surfaces ends. The
invariant builds on the one above. The two halves of a surface's bits
differ only while a guest or the flush holds its lock (`Painting`), so a copy under the
lock is of one frame. Each update of `change_seq` comes after what it tells of was
copied, and each flush ends with one (`Flushes`), so the numbers handed out
stay below the counter's bound (`Bounded`) and a number the view read is not
newer than the counter (`Reading`, `Reported`). A surface that is gone never comes
back with its number (`Picked`, `Presented`), so a frame the view holds is never taken for
one of another surface.

### `WineSessionProofs`

| Theorem | Says |
|---|---|
| `TypeCorrect` | every reachable state is typed; no pipe holds more than it can |
| `ExitCodeShownAlways` | the exit code a view shows is the guest's, however the poll falls between the two stores |
| `AccountedForAlways` | all that guests write is in the stream of exactly one open view, or went to one that has closed; a view that has the handles has all of its own guest's |
| `OneStretchAlways` | an open view has one unbroken stretch of each guest's output, in order, and the beginning of its own guest's |

All four hold for sessions that run together and take the handles from one another; there
is no rule for the user. `IInv` is the invariant of the first two: a session
starts once, a guest writes nothing before it is loaded (`Started`), and `finished` is
the thread's last store (`Ends`), so whoever sees it sees the exit code. The other two
follow from `Held`, which says of the streams, the open views and the handles: a session
that never took the handles has an empty stream (`Fresh`); a stream has each guest's
pieces in order, and none that was not written (`Ordered`); it has no gaps, and reaches
each guest's last piece, if it has any, as long as the handles are its session's
(`Unbroken`); of its own guest it has the beginning (`OwnFirst`); and no piece is in two
open views or nowhere (`Placed`). That a view which loses the handles never gets them
back is what makes the stretch one: each thread redirects once. `Held` is about sequences
and sets only, so what a write and a redirection do to it are lemmas without
states (`HeldWrite`, `HeldRoute`, `HeldOn`), and the other steps need only show that they
leave the streams as they were.

The stream concatenates all tasks of a queue of any length with the `FlattenSeq` of
the community modules, which is a recursive function. The library's induction
theorems cannot be used here, so what `FlattenSeq` does to an append and to a tail is
proved from its definition by the least counterexample of a set of
indices (`SetInduction`), which needs only that < on the naturals is well-founded.
Then a poll adds nothing to the queue's content, a read event moves a prefix of the pipe to
its end, and `appendGuest` moves its first chunk to the view, so none of them changes the
stream (`SQuiet`, `STasks`); a write adds to the end of the stream whose pipe the handles
are (`SWrite`).

### `BottleStoreProofs`

| Theorem | Says |
|---|---|
| `TypeCorrect` | every reachable state is typed |
| `SelectedIsListedAlways` | the selected bottle is listed |
| `RunningIsLiveAlways` | a bottle says "running" only while a call starts it, or because the app ended in one |
| `ListChangesOnRequestAlways` | only `createBottle` and `delete` change which bottles there are |

The invariant says that the index on disk is the list at every moment, as each
method saves before it returns; that is why the app's end loses nothing. New
identifiers are newer than all (`Fresh`), so an update replaces one bottle at most.

### `InputPumpProofs`

| Theorem | Says |
|---|---|
| `TypeCorrect` | every reachable state is typed; the ring's indices stay in it |
| `NoStuckButtonAlways` | what the guest takes to be pressed is held, or its release is on the way, or is one of the two exceptions |
| `ImplementsFifo` | the ring, the claim and the pump threads are a queue that drops only when it is full |

`Settled` follows an event on its way: unless the release of a key is still to be sent,
or will not come, every press in the queue has a release behind it, a press in
the pump's hand and a key that is down have one in the queue or in the hand.
`OneLoop` (one thread in the loop, after the claim) keeps the hand to one event, and
`Sending` and `Paired` say what a handler still has to send. The lemmas about the ring are
about a queue of any length: they state what the i-th waiting event is after a put
and after a get.

### `InprocSpawnProofs`

| Theorem | Says |
|---|---|
| `TypeCorrect` | every reachable state is typed; no table holds half an entry |
| `OwnStateAlways` | a running process resolves its own socket, file and image, and its creator is told of it when it has them |
| `NothingLeftAlways` | a failed spawn and a child that detached leave no descriptor and no slot behind |

All three assume that only the primary process exits, as in the run, and speak of the
behaviours with `[]Room`: at every moment the children that are there, from set-up to
the close of the socket, are fewer than `MaxProcs`. Any number of them may come and go:
that the slots of those that left can be used again is part of what is proved. In the
run no more children ever exist than that, and `EnoughSlots` says that `Room` then
always holds; with `MaxProcs = 2` and both children there `OwnState` fails, so the
hypothesis is not stronger than it has to be.

The properties speak of what a lookup returns; the invariant says of each stage of
a child which entries and descriptors it has. `OwnPebs`: processes that are there
have different PEBs. `Sockets`, `Images` and `Caches`: a table has one entry for
each PEB at most (`Keyed`), only for processes at the stages between registering
and unregistering, and with the right value. `Held1`: a child has one socket from
set-up to the close, and it is what an undo closes. `Files`: the files of a
child are those its cache lists, which is why releasing the cache closes neither too
little nor another's. That a table is never full when a child registers is a pigeonhole
argument (`RoomLeft`). The lemmas about one table (an entry put, cleared or
found) are stated once, for any table.

### What is only model-checked

- All liveness: `WaitsReturn`, `DrainsEnd`, `CallsReturn`, `VanishedAreReaped`,
  `CreateReturns`, `CatchesUp`, `Delivered`, `OutputArrives`. It depends on
  fairness, which is out of the prover's reach.

Every invariant and every action property that a passing run checks, and every
refinement, is stated by a theorem. The violated runs state what does not hold.

## Not modelled

- The loader state of each process (0003g), the TEB register and signal frames
  (0006): sequential or below the level of TLA+.
- The gate of the user session (0004): a table keyed by PEB, entered once by each
  process and never cleared. It could mislead only a process whose PEB has been
  handed out before, and a PEB is freed only when a child's set-up fails, before
  its thread has run any PE code and so before it has an entry.
- Window titles, which the app stores and does not read, the screen's size (0007,
  bridge) and the coordinates of touches: data that no decision depends on.
- The embedded server's restarts (0001, 0002): see the plan.
- The copy of the prefix, the index's encoding and failing saves: the file
  system is not modelled.
- The engines, the app's layout, workflows, scripts and test harnesses.
- NtCreateUserProcess, the wineserver and guests are outside the repository and
  appear only as the code uses them.

## Plan

Order, most important first; the first seven are in place.

1. `PProc` with `ProcLifecycle`: done, its safety and the refinement proved.
2. `PSrv` with `HandleService`: done, its safety and the refinement proved.
3. `Display` with `Screen`: done for surfaces; all its safety properties and `ScreenSpec`
   proved.
4. `WineSession`: done, its safety proved. An abstract session (started, output,
   ended) to refine.
5. `BottleStore`: done, its properties proved. An abstract set of bottles under
   atomic calls to refine.
6. `InprocSpawn`: done for the PEB-keyed tables, its safety proved. To add: several
   threads for a child.
7. `InputPump` with `LossyFifo`: done, its safety and the refinement proved.
8. `EmbeddedServer`: runs, the three ways out, the socket file and restarts.
9. A composition of `WineSession` and `InprocSpawn`, where the exit of one guest
   meets the handles and sockets of the others.
