---------------------------- MODULE WineSession ----------------------------
(***************************************************************************)
(* A guest started by the app: the Wine thread of WineHost.c, its pipes,   *)
(* and the session objects on the main actor that feed and read them       *)
(* (WineConsoleSession.swift, WineGuiSession.swift).  The guest's standard *)
(* handles are the descriptors 0, 1 and 2 of the whole app process: each   *)
(* session takes them from those before it, whose guests may still run     *)
(* (BottleDetailView.swift offers both kinds).  A session's serial         *)
(* readQueue runs both the read events and the writes of typed lines; what *)
(* reaches the main actor runs in the order it came.                       *)
(***************************************************************************)
EXTENDS Integers, Sequences, SequencesExt

CONSTANTS
  Sessions,   \* session objects
  Consoles,   \* those of the console; the others are GUI sessions
  PipeSize,   \* what a pipe holds
  MaxWrites,  \* bound: how often each guest writes
  MaxJobs     \* bound: how many typed lines wait for each read queue

\* What the descriptors 0 and 1 of the app are before a session takes them.
App == "app"
DevNull == "null"

ASSUME WineSessionAssumption ==
  /\ Consoles \subseteq Sessions
  /\ App \notin Sessions /\ DevNull \notin Sessions
  /\ PipeSize \in Nat \ {0}
  /\ MaxWrites \in [Sessions -> Nat] /\ MaxJobs \in Nat

VARIABLES
  thread,    \* where each Wine thread is
  finished,  \* s->finished
  exitCode,  \* s->exit_code
  fd0, fd1,  \* whose pipe is standard input, and standard output and error
  inpipe,    \* how many lines each stdin pipe holds
  outpipe,   \* what each stdout pipe holds
  written,   \* how often each guest has written
  stdin,     \* s->guest_stdin_rd: a session's own pipe, or /dev/null
  jobs,      \* the lines readQueue has to write
  writing,   \* readQueue is in write()
  source,    \* readSource is live
  mainq,     \* what waits for the main actor
  status,    \* status, "new" before start() and "closed" once deallocated
  code,      \* the exit code it shows
  output     \* output, or log

wine == <<thread, finished, exitCode, fd0, fd1, written, stdin>>
queue == <<jobs, writing, source>>
app == <<mainq, status, code, output>>
vars == <<wine, inpipe, outpipe, queue, app>>

\* Each piece of output, by who wrote it and when.
Unit == [from : Sessions, no : Nat]
Chunk(units) == [kind |-> "chunk", units |-> units]
Poll == [kind |-> "poll", units |-> <<>>]

Init ==
  /\ thread = [s \in Sessions |-> "none"]
  /\ finished = [s \in Sessions |-> FALSE] /\ exitCode = [s \in Sessions |-> 0]
  /\ fd0 = App /\ fd1 = App /\ written = [s \in Sessions |-> 0]
  /\ stdin = [s \in Sessions |-> App]
  /\ inpipe = [s \in Sessions |-> 0] /\ outpipe = [s \in Sessions |-> <<>>]
  /\ jobs = [s \in Sessions |-> 0] /\ writing = [s \in Sessions |-> FALSE]
  /\ source = [s \in Sessions |-> FALSE]
  /\ mainq = [s \in Sessions |-> <<>>] /\ status = [s \in Sessions |-> "new"]
  /\ code = [s \in Sessions |-> 0] /\ output = [s \in Sessions |-> <<>>]

Go(s, at) == thread' = [thread EXCEPT ![s] = at]

-----------------------------------------------------------------------------
(* The main actor.                                                         *)

\* session_launch: the Wine thread exists, detached.
Launch(s) == Go(s, "stdin")

\* Mutant: readSource is not resumed.
FollowSuspended(s) ==
  /\ status' = [status EXCEPT ![s] = "running"]
  /\ UNCHANGED <<source, finished, exitCode, fd0, fd1, written, inpipe, outpipe,
                 jobs, writing, mainq, code, output>>

\* What start() does with the session it is given.
Follow(s) ==
  /\ source' = [source EXCEPT ![s] = TRUE]
  /\ status' = [status EXCEPT ![s] = "running"]
  /\ UNCHANGED <<finished, exitCode, fd0, fd1, written, inpipe, outpipe,
                 jobs, writing, mainq, code, output>>

\* start() of a console: wine_console_start makes two pipes and the thread.
StartConsole(s) ==
  /\ s \in Consoles /\ status[s] \in {"new", "failed"}
  /\ stdin' = [stdin EXCEPT ![s] = s]
  /\ Launch(s) /\ Follow(s)

\* start() of a GUI session: wine_gui_start opens /dev/null and one pipe.
StartGui(s) ==
  /\ s \notin Consoles /\ status[s] \in {"new", "failed"}
  /\ stdin' = [stdin EXCEPT ![s] = DevNull]
  /\ Launch(s) /\ Follow(s)

\* Either fails and leaves nothing behind; a later start() may succeed.
StartFails(s) ==
  /\ status[s] \in {"new", "failed"}
  /\ status' = [status EXCEPT ![s] = "failed"]
  /\ UNCHANGED <<wine, inpipe, outpipe, queue, mainq, code, output>>

\* The view goes away and with it the object and what it shows; the thread and
\* readSource stay.  Tasks that refer to it weakly do nothing any more.
Close(s) ==
  /\ status[s] # "closed"
  /\ status' = [status EXCEPT ![s] = "closed"]
  /\ output' = [output EXCEPT ![s] = <<>>] /\ mainq' = [mainq EXCEPT ![s] = <<>>]
  /\ UNCHANGED <<wine, inpipe, outpipe, queue, code>>

\* send(): the line is written by readQueue.
Send(s) ==
  /\ s \in Consoles /\ status[s] = "running"
  /\ jobs[s] < MaxJobs
  /\ jobs' = [jobs EXCEPT ![s] = @ + 1]
  /\ UNCHANGED <<wine, inpipe, outpipe, writing, source, app>>

\* The poll timer fires; the main actor runs the last poll before the next.
Timer(s) ==
  /\ status[s] = "running" /\ ~Contains(mainq[s], Poll)
  /\ mainq' = [mainq EXCEPT ![s] = Append(@, Poll)]
  /\ UNCHANGED <<wine, inpipe, outpipe, queue, status, code, output>>

\* Mutant: the newest task runs first.
AppendNewest(s) ==
  LET task == Last(mainq[s]) IN
  /\ mainq[s] # <<>> /\ task.kind = "chunk"
  /\ mainq' = [mainq EXCEPT ![s] = Front(@)]
  /\ output' = [output EXCEPT ![s] = @ \o task.units]
  /\ UNCHANGED <<wine, inpipe, outpipe, queue, status, code>>

\* Mutant: what comes after the exit is not shown any more.
AppendWhileRunning(s) ==
  LET task == Head(mainq[s]) IN
  /\ mainq[s] # <<>> /\ task.kind = "chunk"
  /\ mainq' = [mainq EXCEPT ![s] = Tail(@)]
  /\ output' = [output EXCEPT ![s] = IF status[s] = "running" THEN @ \o task.units ELSE @]
  /\ UNCHANGED <<wine, inpipe, outpipe, queue, status, code>>

\* appendGuest.
AppendGuest(s) ==
  LET task == Head(mainq[s]) IN
  /\ mainq[s] # <<>> /\ task.kind = "chunk"
  /\ mainq' = [mainq EXCEPT ![s] = Tail(@)]
  /\ output' = [output EXCEPT ![s] = @ \o task.units]
  /\ UNCHANGED <<wine, inpipe, outpipe, queue, status, code>>

\* wine_console_is_finished and wine_console_exit_code.
IsFinished(s) == finished[s]
ExitCode(s) == exitCode[s]

\* checkExit.
CheckExit(s) ==
  /\ mainq[s] # <<>> /\ Head(mainq[s]) = Poll
  /\ mainq' = [mainq EXCEPT ![s] = Tail(@)]
  /\ IF status[s] = "running" /\ IsFinished(s)
     THEN /\ status' = [status EXCEPT ![s] = "exited"]
          /\ code' = [code EXCEPT ![s] = ExitCode(s)]
          /\ source' = [source EXCEPT ![s] = FALSE]
     ELSE UNCHANGED <<status, code, source>>
  /\ UNCHANGED <<wine, inpipe, outpipe, jobs, writing, output>>

-----------------------------------------------------------------------------
(* readQueue, which is serial.                                             *)

\* The next line's write() begins, and ends when the pipe has room for it.
WriteBegin(s) ==
  /\ jobs[s] > 0 /\ ~writing[s]
  /\ jobs' = [jobs EXCEPT ![s] = @ - 1]
  /\ writing' = [writing EXCEPT ![s] = TRUE]
  /\ UNCHANGED <<wine, inpipe, outpipe, source, app>>

WriteEnd(s) ==
  /\ writing[s] /\ inpipe[s] < PipeSize
  /\ inpipe' = [inpipe EXCEPT ![s] = @ + 1]
  /\ writing' = [writing EXCEPT ![s] = FALSE]
  /\ UNCHANGED <<wine, outpipe, jobs, source, app>>

\* What the main actor is to do for s.
Later(s, task) ==
  mainq' = IF status[s] = "closed" THEN mainq ELSE [mainq EXCEPT ![s] = Append(@, task)]

\* The event handler reads some of what the pipe holds.  (The app process
\* itself keeps the pipe's write end open: there is no end of file.)
ReadEvent(s) ==
  /\ source[s] /\ ~writing[s] /\ outpipe[s] # <<>>
  /\ \E n \in 1..Len(outpipe[s]) :
       /\ outpipe' = [outpipe EXCEPT ![s] = SubSeq(@, n + 1, Len(@))]
       /\ Later(s, Chunk(SubSeq(outpipe[s], 1, n)))
  /\ UNCHANGED <<wine, inpipe, queue, status, code, output>>

-----------------------------------------------------------------------------
(* wine_thread.                                                            *)

\* The dup2 of standard input; a GUI session's is /dev/null.
RouteIn(s) ==
  /\ thread[s] = "stdin"
  /\ fd0' = stdin[s]
  /\ Go(s, "stdout")
  /\ UNCHANGED <<finished, exitCode, fd1, written, stdin, inpipe, outpipe, queue, app>>

\* Mutant: standard input's descriptor is duplicated once more.
RouteOutStdin(s) ==
  /\ thread[s] = "stdout"
  /\ fd1' = stdin[s]
  /\ Go(s, "load")
  /\ UNCHANGED <<finished, exitCode, fd0, written, stdin, inpipe, outpipe, queue, app>>

\* Those of standard output and error.
RouteOut(s) ==
  /\ thread[s] = "stdout"
  /\ fd1' = s
  /\ Go(s, "load")
  /\ UNCHANGED <<finished, exitCode, fd0, written, stdin, inpipe, outpipe, queue, app>>

\* write() to standard output or error, which waits for room in the pipe.
Write(s) ==
  /\ Len(outpipe[fd1]) < PipeSize
  /\ written' = [written EXCEPT ![s] = @ + 1]
  /\ outpipe' = [outpipe EXCEPT ![fd1] = Append(@, [from |-> s, no |-> written[s] + 1])]

\* dlopen and dlsym: they succeed, or the thread says why not on stderr.
Load(s) ==
  /\ thread[s] = "load"
  /\ Go(s, "run")
  /\ UNCHANGED <<finished, exitCode, fd0, fd1, written, stdin, inpipe, outpipe, queue, app>>

LoadFails(s) ==
  /\ thread[s] = "load"
  /\ Write(s)
  /\ Go(s, "code")
  /\ UNCHANGED <<finished, exitCode, fd0, fd1, stdin, inpipe, queue, app>>

\* Mutant: finished is set before the exit code.
FailFinishedFirst(s) ==
  /\ \/ thread[s] = "code" /\ Go(s, "finish")
        /\ finished' = [finished EXCEPT ![s] = TRUE] /\ UNCHANGED exitCode
     \/ thread[s] = "finish" /\ Go(s, "gone")
        /\ exitCode' = [exitCode EXCEPT ![s] = 255] /\ UNCHANGED finished
  /\ UNCHANGED <<fd0, fd1, written, stdin, inpipe, outpipe, queue, app>>

\* The exit code, then finished.
Fail(s) ==
  /\ \/ thread[s] = "code" /\ Go(s, "finish")
        /\ exitCode' = [exitCode EXCEPT ![s] = 255] /\ UNCHANGED finished
     \/ thread[s] = "finish" /\ Go(s, "gone")
        /\ finished' = [finished EXCEPT ![s] = TRUE] /\ UNCHANGED exitCode
  /\ UNCHANGED <<fd0, fd1, written, stdin, inpipe, outpipe, queue, app>>

(* The guest: it reads its input, writes its output, and exits: by         *)
(* pthread_exit (process_exit_wrapper, abort_process), or __wine_main      *)
(* returns.                                                                *)
GuestReads(s) ==
  /\ thread[s] = "run"
  /\ fd0 \in Sessions /\ inpipe[fd0] > 0
  /\ inpipe' = [inpipe EXCEPT ![fd0] = @ - 1]
  /\ UNCHANGED <<wine, outpipe, queue, app>>

GuestWrites(s) ==
  /\ thread[s] = "run" /\ written[s] < MaxWrites[s]
  /\ Write(s)
  /\ UNCHANGED <<thread, finished, exitCode, fd0, fd1, stdin, inpipe, queue, app>>

GuestExits(s) ==
  /\ thread[s] = "run"
  /\ Go(s, "gone")
  /\ UNCHANGED <<finished, exitCode, fd0, fd1, written, stdin, inpipe, outpipe, queue, app>>

WineReturns(s) ==
  /\ thread[s] = "run"
  /\ Go(s, "gone")
  /\ finished' = [finished EXCEPT ![s] = TRUE]
  /\ UNCHANGED <<exitCode, fd0, fd1, written, stdin, inpipe, outpipe, queue, app>>

-----------------------------------------------------------------------------
Guest(s) == GuestReads(s) \/ GuestWrites(s) \/ GuestExits(s) \/ WineReturns(s)
Client(s) == StartConsole(s) \/ StartGui(s) \/ StartFails(s) \/ Close(s) \/ Send(s)
Host(s) == RouteIn(s) \/ RouteOut(s) \/ Load(s) \/ LoadFails(s) \/ Fail(s)
ReadQueue(s) == WriteBegin(s) \/ WriteEnd(s)
MainActor(s) == AppendGuest(s) \/ CheckExit(s)

Next == \E s \in Sessions :
  Client(s) \/ Guest(s) \/ Host(s) \/ ReadQueue(s) \/ ReadEvent(s) \/ MainActor(s) \/ Timer(s)

Spec == Init /\ [][Next]_vars

(* The thread, the queues, the timer and the main actor keep running; the  *)
(* guest and the user do as they like.  A read event has its turn in the   *)
(* serial queue however many lines are typed: that is strong fairness.     *)
Fairness == \A s \in Sessions :
  /\ WF_vars(Host(s)) /\ WF_vars(ReadQueue(s)) /\ SF_vars(ReadEvent(s))
  /\ WF_vars(MainActor(s)) /\ WF_vars(Timer(s))
FairSpec == Spec /\ Fairness

-----------------------------------------------------------------------------
(* Every variable keeps its type, and no pipe holds more than it can.      *)
TypeOK ==
  /\ thread \in [Sessions -> {"none", "stdin", "stdout", "load", "code", "finish", "run", "gone"}]
  /\ finished \in [Sessions -> BOOLEAN] /\ exitCode \in [Sessions -> {0, 255}]
  /\ stdin \in [Sessions -> Consoles \cup {App, DevNull}]
  /\ fd0 \in Consoles \cup {App, DevNull} /\ fd1 \in Sessions \cup {App}
  /\ written \in [Sessions -> Nat]
  /\ inpipe \in [Sessions -> 0..PipeSize]
  /\ \A s \in Sessions : outpipe[s] \in Seq(Unit) /\ Len(outpipe[s]) <= PipeSize
  /\ jobs \in [Sessions -> 0..MaxJobs]
  /\ writing \in [Sessions -> BOOLEAN] /\ source \in [Sessions -> BOOLEAN]
  /\ \A s \in Sessions : \A i \in DOMAIN mainq[s] :
       mainq[s][i] = Poll \/ mainq[s][i] \in [kind : {"chunk"}, units : Seq(Unit)]
  /\ status \in [Sessions -> {"new", "failed", "running", "exited", "closed"}]
  /\ code \in [Sessions -> {0, 255}]
  /\ \A s \in Sessions : output[s] \in Seq(Unit)

\* What a view shows, what waits for the main actor to be shown, and what its
\* pipe holds, one after another.
Taken(s) == FlattenSeq([i \in DOMAIN mainq[s] |-> mainq[s][i].units])
Stream(s) == output[s] \o Taken(s) \o outpipe[s]
Open(s) == status[s] # "closed"
Sent(s, w, n) == \E i \in DOMAIN Stream(s) : Stream(s)[i] = [from |-> w, no |-> n]
Redirects(s) == thread[s] \notin {"none", "stdin", "stdout"}

(* Nothing that guests write is lost or shown twice, also when another     *)
(* session takes the standard handles from a guest that runs, and when     *)
(* checkExit cancels the reading: it is in the stream of exactly one open  *)
(* view, or a closed one may have had it.  As long as no other session has *)
(* taken the handles, a view has all that its own guest has written.       *)
AccountedFor ==
  \A w \in Sessions : \A n \in 1..written[w] :
    /\ \E s \in Sessions : IF Open(s) THEN Sent(s, w, n) ELSE Redirects(s)
    /\ \A s, t \in Sessions :
         Open(s) /\ Open(t) /\ Sent(s, w, n) /\ Sent(t, w, n) => s = t
    /\ fd1 = w /\ Open(w) => Sent(w, w, n)

(* Whatever sessions take the handles from each other, an open view has of *)
(* each guest one unbroken stretch of what it wrote, in order, and of its  *)
(* own guest the beginning: a guest whose output has gone to another view  *)
(* never gets back to this one.                                            *)
OneStretch ==
  \A s \in Sessions : Open(s) =>
    \A i \in DOMAIN Stream(s) :
      LET u == Stream(s)[i] IN
      /\ \A j \in DOMAIN Stream(s) :
           j < i /\ Stream(s)[j].from = u.from =>
             /\ Stream(s)[j].no < u.no
             /\ \A n \in Stream(s)[j].no..u.no : Sent(s, u.from, n)
      /\ u.from = s => \A n \in 1..u.no : Sent(s, s, n)

(* The exit code a view shows is the guest's last: 255 if the runtime could*)
(* not be loaded, however the poll falls between the thread's stores.      *)
ExitCodeShown ==
  \A s \in Sessions : status[s] = "exited" =>
    thread[s] = "gone" /\ code[s] = exitCode[s]

(* A view catches up with its pipe again and again until it reports the    *)
(* exit or is closed, unless its read queue never gets out of the write()  *)
(* of a typed line to a full pipe: send() blocks the queue that also reads.*)
Stuck(s) == writing[s] /\ inpipe[s] = PipeSize
OutputArrives ==
  \A s \in Sessions :
    \/ <>[]Stuck(s)
    \/ []<>(Stream(s) = output[s] \/ status[s] \in {"exited", "closed"})

(* Once the Wine thread has returned or pthread_exited, the view says so.  *)
ExitReported ==
  \A s \in Sessions :
    thread[s] = "gone" ~> status[s] \in {"exited", "closed"}
=============================================================================
