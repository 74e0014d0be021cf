---------------------------- MODULE BottleStore ----------------------------
(***************************************************************************)
(* The bottle collection and its index on disk (BottleStore.swift), used   *)
(* by the views and by the tasks they start.  Everything runs on the main  *)
(* actor: a method is one step up to its await and one step after it, and  *)
(* in between any other method may run.  A task keeps the bottle it was    *)
(* given by value.  The app may be ended at any time and started again;    *)
(* index.json is written atomically.                                       *)
(***************************************************************************)
EXTENDS Integers, Sequences, SequencesExt

CONSTANTS
  MaxBottles,  \* bound: how many bottles are ever made
  Tasks,       \* the calls of run and stop that can be under way at once
  MaxCalls,    \* bound: how many such calls are made
  MaxCrashes   \* bound: how often the app ends

ASSUME BottleStoreAssumption ==
  /\ MaxBottles \in Nat \ {0}
  /\ MaxCalls \in Nat /\ MaxCrashes \in Nat

VARIABLES
  bottles,   \* bottles
  selected,  \* selectedBottleID, 0 for nil
  disk,      \* index.json
  nextId,    \* the next UUID
  task,      \* the calls: what each is doing, and the bottle it was given
  calls,     \* how many have been made (bounds the run)
  crashes,   \* how often the app has ended (bounds the run)
  found      \* auxiliary: the bottles that the last load found "running"

vars == <<bottles, selected, disk, nextId, task, calls, crashes, found>>

Ids == 1..MaxBottles
Bottle == [id : Ids, state : {"created", "ready", "running", "broken"},
           entryPoint : BOOLEAN, lastError : BOOLEAN]
Idle == [at |-> "idle", bottle |-> [id |-> 0]]

\* createBottle's bottle, and one of an older index, whose program is known.
New(id) == [id |-> id, state |-> "created", entryPoint |-> FALSE, lastError |-> FALSE]
Installed(id) == [New(id) EXCEPT !.state = "ready", !.entryPoint = TRUE]

Listed == {bottles[i].id : i \in DOMAIN bottles}
Save == disk' = bottles'

Init ==
  /\ disk \in {<<>>, <<Installed(1)>>}
  /\ bottles = disk /\ selected = 0
  /\ nextId = Len(disk) + 1
  /\ task = [t \in Tasks |-> Idle] /\ calls = 0 /\ crashes = 0 /\ found = {}

-----------------------------------------------------------------------------
(* The collection.                                                         *)

\* Mutant: the identifier is not a new one.
CreateBottleSameId ==
  /\ nextId \in Ids
  /\ bottles' = Append(bottles, New(nextId))
  /\ selected' = nextId
  /\ Save
  /\ UNCHANGED <<nextId, task, calls, crashes, found>>

CreateBottle ==
  /\ nextId \in Ids
  /\ bottles' = Append(bottles, New(nextId))
  /\ selected' = nextId
  /\ nextId' = nextId + 1
  /\ Save
  /\ UNCHANGED <<task, calls, crashes, found>>

\* Mutant: the deleted bottle stays selected.
ReselectNot(id, left) == selected' = selected
\* delete's selection, once the bottle is gone from the list.
Reselect(id, left) ==
  selected' = IF selected # id THEN selected ELSE IF left = <<>> THEN 0 ELSE left[1].id

\* delete, from the list's swipe, for the row it is given.
Delete ==
  \E i \in DOMAIN bottles :
    /\ bottles' = RemoveAt(bottles, i)
    /\ Reselect(bottles[i].id, RemoveAt(bottles, i))
    /\ Save
    /\ UNCHANGED <<nextId, task, calls, crashes, found>>

\* The list view sets the selection.
Select ==
  /\ selected' \in Listed \cup {0}
  /\ UNCHANGED <<bottles, disk, nextId, task, calls, crashes, found>>

\* Mutant: an update lists what it does not find.
UpdateInserts(b) ==
  /\ bottles' = IF b.id \in Listed
                THEN [i \in DOMAIN bottles |-> IF bottles[i].id = b.id THEN b ELSE bottles[i]]
                ELSE Append(bottles, b)
  /\ Save

\* update: by identifier, and nothing for a bottle that is gone.
Update(b) ==
  /\ bottles' = [i \in DOMAIN bottles |-> IF bottles[i].id = b.id THEN b ELSE bottles[i]]
  /\ Save

-----------------------------------------------------------------------------
(* run and stop.                                                           *)

Rest(b) == IF b.entryPoint THEN "ready" ELSE "created"

\* A view starts a task on a bottle it shows.
Tap(t) ==
  /\ task[t] = Idle /\ calls < MaxCalls
  /\ \E i \in DOMAIN bottles, at \in {"run", "stop"} :
       task' = [task EXCEPT ![t] = [at |-> at, bottle |-> bottles[i]]]
  /\ calls' = calls + 1
  /\ UNCHANGED <<bottles, selected, disk, nextId, crashes, found>>

\* run up to the engine's start, and stop up to its stop.
Running(b) == [b EXCEPT !.state = "running", !.lastError = FALSE]
RunBegin(t) ==
  /\ task[t].at = "run"
  /\ Update(Running(task[t].bottle))
  /\ task' = [task EXCEPT ![t].at = "starting"]
  /\ UNCHANGED <<selected, nextId, calls, crashes, found>>

StopBegin(t) ==
  /\ task[t].at = "stop"
  /\ task' = [task EXCEPT ![t].at = "stopping"]
  /\ UNCHANGED <<bottles, selected, disk, nextId, calls, crashes, found>>

Broken(b) == [b EXCEPT !.state = "broken", !.lastError = TRUE]

\* Mutant: a start that fails notes nothing.
RunEndSilent(t) ==
  /\ task[t].at = "starting"
  /\ \/ UNCHANGED <<bottles, disk>>
     \/ Update([task[t].bottle EXCEPT !.state = Rest(task[t].bottle), !.lastError = FALSE])
  /\ task' = [task EXCEPT ![t] = Idle]
  /\ UNCHANGED <<selected, nextId, calls, crashes, found>>

\* The engine has thrown, or has started the guest.
RunEnd(t) ==
  /\ task[t].at = "starting"
  /\ \/ Update(Broken(task[t].bottle))
     \/ Update([task[t].bottle EXCEPT !.state = Rest(task[t].bottle), !.lastError = FALSE])
  /\ task' = [task EXCEPT ![t] = Idle]
  /\ UNCHANGED <<selected, nextId, calls, crashes, found>>

\* The engine has stopped it.
StopEnd(t) ==
  /\ task[t].at = "stopping"
  /\ Update([task[t].bottle EXCEPT !.state = Rest(task[t].bottle)])
  /\ task' = [task EXCEPT ![t] = Idle]
  /\ UNCHANGED <<selected, nextId, calls, crashes, found>>

\* The app ends, and load reads the index when it is started again.
Relaunch ==
  /\ crashes < MaxCrashes
  /\ bottles' = disk
  /\ selected' = 0
  /\ task' = [t \in Tasks |-> Idle]
  /\ crashes' = crashes + 1
  /\ found' = {disk[i].id : i \in {j \in DOMAIN disk : disk[j].state = "running"}}
  /\ UNCHANGED <<disk, nextId, calls>>

-----------------------------------------------------------------------------
Next ==
  \/ CreateBottle \/ Delete \/ Select \/ Relaunch
  \/ \E t \in Tasks : Tap(t) \/ RunBegin(t) \/ StopBegin(t) \/ RunEnd(t) \/ StopEnd(t)

Spec == Init /\ [][Next]_vars

-----------------------------------------------------------------------------
(* Every variable keeps its type; no two bottles have the same identifier. *)
TypeOK ==
  /\ bottles \in Seq(Bottle) /\ disk \in Seq(Bottle)
  /\ \A i, j \in DOMAIN bottles : bottles[i].id = bottles[j].id => i = j
  /\ selected \in Ids \cup {0} /\ nextId \in 1..(MaxBottles + 1)
  /\ task \in [Tasks -> [at : {"run", "starting", "stop", "stopping"}, bottle : Bottle]
                        \cup {Idle}]
  /\ calls \in 0..MaxCalls /\ crashes \in 0..MaxCrashes
  /\ found \subseteq Ids

(* selectedBottle finds what is selected: the bottle is in the list.       *)
SelectedIsListed == selected \in Listed \cup {0}

(* The list shows a bottle as running only while a call of run starts it,  *)
(* whatever calls overlap and whichever ends first: none of them is left   *)
(* with that state by a call that wrote it last.  (run writes .created or  *)
(* .ready once the guest is up.)  But if the app ended in such a call the  *)
(* state stays: nothing in load repairs it.                                *)
RunningIsLive ==
  \A i \in DOMAIN bottles : bottles[i].state = "running" =>
    \/ \E t \in Tasks : task[t].at = "starting" /\ task[t].bottle.id = bottles[i].id
    \/ bottles[i].id \in found

(* A bottle is listed only by createBottle and goes only by delete: a call *)
(* that ends after its bottle was deleted does not bring it back, and one  *)
(* that is cut off by the end of the app loses nothing.                    *)
ListChangesOnRequest ==
  [][\/ CreateBottle \/ Delete
     \/ /\ Len(bottles') = Len(bottles)
        /\ \A i \in DOMAIN bottles : bottles'[i].id = bottles[i].id]_vars
=============================================================================
