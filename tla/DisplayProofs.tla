---------------------------- MODULE DisplayProofs ----------------------------
(* Theorems about Display, for any windows, threads, slots and bounds: the *)
(* registry first, then the frames and that Display implements Screen.     *)
EXTENDS Display, FiniteSetTheorems, TLAPS

(* The invariant.  RegistryExact says which surfaces are listed; that they *)
(* are alive follows from who owns them, and what the presenter reads from *)
(* what it looked up and from reg_mutex, which it holds since.             *)
Places == {"idle", "add", "paint", "report", "bump", "bumpFree", "free"}

Typed ==
  /\ slot \in [Slots -> [id : Nat, seq : Int, visible : BOOLEAN]]
  /\ surface \in [Windows -> Nat] /\ at \in [Windows -> Places]
  /\ nextId \in Nat \ {0} /\ dropped \subseteq Nat
  /\ reg \in {Main, Nobody}

\* A window's surface is its own, and alive.
Owned ==
  \A w \in Windows : surface[w] # 0 =>
    /\ surface[w] \in alive /\ surface[w] < nextId
    /\ \A v \in Windows : surface[v] = surface[w] => v = w

\* A window whose thread is in a call about a surface has one.
Busy ==
  \A w \in Windows : at[w] \in {"add", "paint", "report", "bumpFree", "free"} =>
    surface[w] # 0

\* The surfaces that were dropped are old, and no new one is among them.
Drops ==
  /\ \A s \in dropped : s < nextId
  /\ \A w \in Windows : at[w] = "add" => surface[w] \notin dropped

\* The presenter holds reg_mutex while it copies, and copies a listed surface.
Copying ==
  /\ reg = Main <=> mpc \in {"lock", "read"}
  /\ mpc \in {"lock", "read"} => current.id \in Listed

IInv == Typed /\ Owned /\ Busy /\ Drops /\ Copying /\ RegistryExact

\* The windows whose surfaces the host should know of.
Known(w) == surface[w] # 0 /\ at[w] \notin {"add", "bumpFree", "free"}
Unique == \A i, j \in Used : slot[i].id = slot[j].id => i = j

-----------------------------------------------------------------------------
(* The registry.                                                           *)

LEMMA Exact ==
  RegistryExact <=>
    /\ Listed = {surface[w] : w \in {v \in Windows : Known(v)}} \ dropped
    /\ Unique
BY DEF RegistryExact, Known, Unique

\* A registered surface has an owner, so its id is not 0, and it is alive.
LEMMA ListedAlive ==
  ASSUME IInv, NEW s \in Listed
  PROVE  s # 0 /\ s \in Nat /\ s \in alive /\ s < nextId
BY DEF IInv, RegistryExact, Typed, Owned

LEMMA UsedType ==
  ASSUME IInv, NEW i \in Used
  PROVE  i \in Slots /\ slot[i].id \in Listed /\ slot[i].id # 0
BY ListedAlive DEF Used, Listed

\* The first free slot is free.
LEMMA LessIsWF ==
  ASSUME NEW j \in Nat, NEW i \in Nat, j < i
  PROVE  <<j, i>> \in OpToRel(<, Nat)
BY DEF OpToRel

LEMMA LeastIn ==
  ASSUME NEW S, S \subseteq Nat, S # {}
  PROVE  Least(S) \in S
<1>1. PICK i \in S : \A j \in S : <<j, i>> \notin OpToRel(<, Nat)
  <2>1. \E i \in S : \A j \in S : ~(<<j, i>> \in OpToRel(<, Nat))
    BY NatLessThanWellFounded, WFMin, Zenon
  <2> QED
    BY <2>1, Zenon
<1>2. i \in Nat /\ \A j \in S : j \in Nat
  OBVIOUS
<1>3. \A j \in S : ~(j < i)
  BY <1>1, <1>2, LessIsWF, Zenon
<1>4. \A j \in S : i <= j
  BY <1>2, <1>3
<1> QED
  BY <1>4 DEF Least

LEMMA FindExact ==
  ASSUME IInv, NEW s
  PROVE  Find(s) = {i \in Used : slot[i].id = s}
<1>1. \A i, j \in Used : slot[i].id = slot[j].id => i = j
  BY DEF IInv, RegistryExact
<1>2. \A i \in Used : i \in Int
  BY DEF Used, Slots
<1> QED
  BY <1>1, <1>2 DEF Find

\* A callback that changes what a slot says of its surface lists the same.
LEMMA SameList ==
  ASSUME slot' \in [Slots -> [id : Nat, seq : Int, visible : BOOLEAN]],
         \A i \in Slots : /\ slot'[i] # NoInfo <=> slot[i] # NoInfo
                          /\ slot'[i].id = slot[i].id
  PROVE  Listed' = Listed /\ (Unique => Unique')
<1>1. Used' = Used /\ Used \subseteq Slots
  BY DEF Used
<1> QED
  BY <1>1 DEF Listed, Unique

LEMMA ReportStep ==
  ASSUME IInv, NEW s, (\E v \in BOOLEAN : SetVisible(s, v)) \/ Count(s)
  PROVE  /\ slot' \in [Slots -> [id : Nat, seq : Int, visible : BOOLEAN]]
         /\ Listed' = Listed /\ Unique'
<1>1. slot \in [Slots -> [id : Nat, seq : Int, visible : BOOLEAN]]
  BY DEF IInv, Typed
<1>2. \A i \in Find(s) : i \in Used
  BY DEF Find
<1>3. \A i \in Used : slot[i].id # 0
  BY UsedType
<1>4. /\ slot' \in [Slots -> [id : Nat, seq : Int, visible : BOOLEAN]]
      /\ \A i \in Slots : slot'[i].id = slot[i].id
      /\ \A i \in Slots : i \notin Find(s) => slot'[i] = slot[i]
  BY <1>1 DEF SetVisible, Count
<1>5. \A i \in Slots : slot'[i] # NoInfo <=> slot[i] # NoInfo
  BY <1>2, <1>3, <1>4 DEF NoInfo, Used
<1>6. Unique
  BY Exact DEF IInv
<1> QED
  BY <1>4, <1>5, <1>6, SameList

LEMMA RemoveStep ==
  ASSUME IInv, NEW s \in Nat, Remove(s)
  PROVE  /\ slot' \in [Slots -> [id : Nat, seq : Int, visible : BOOLEAN]]
         /\ Listed' = Listed \ {s} /\ Unique'
<1>1. slot \in [Slots -> [id : Nat, seq : Int, visible : BOOLEAN]]
  BY DEF IInv, Typed
<1>2. \A i \in Slots : slot'[i] = IF i \in Used /\ slot[i].id = s THEN NoInfo ELSE slot[i]
  BY FindExact DEF Remove
<1>3. slot' \in [Slots -> [id : Nat, seq : Int, visible : BOOLEAN]]
  BY <1>1 DEF Remove, NoInfo
<1>4. Used' = {i \in Used : slot[i].id # s}
  BY <1>2 DEF Used
<1>5. \A i \in Used' : i \in Used /\ slot'[i] = slot[i]
  BY <1>2, <1>4 DEF Used
<1>6. Listed' = Listed \ {s}
  BY <1>4, <1>5 DEF Listed
<1>7. Unique'
  BY <1>5, Exact DEF IInv, Unique
<1> QED
  BY <1>3, <1>6, <1>7

LEMMA AddStep ==
  ASSUME IInv, NEW s \in Nat \ {0}, s \notin Listed, Add(s)
  PROVE  /\ slot' \in [Slots -> [id : Nat, seq : Int, visible : BOOLEAN]]
         /\ Unique'
         /\ \/ Listed' = Listed \cup {s} /\ dropped' = dropped
            \/ Listed' = Listed /\ dropped' = dropped \cup {s}
<1>1. slot \in [Slots -> [id : Nat, seq : Int, visible : BOOLEAN]] /\ Unique
  BY Exact DEF IInv, Typed
<1>2. CASE Slots \ Used = {}
  BY <1>1, <1>2 DEF Add, Listed, Used, Unique
<1>3. CASE Slots \ Used # {}
  <2>1. PICK k \in Slots \ Used :
          slot' = [slot EXCEPT ![k] = [id |-> s, seq |-> 0, visible |-> FALSE]]
    BY <1>3, LeastIn DEF Add, Slots
  <2>2. /\ slot'[k].id = s /\ slot'[k] # NoInfo
        /\ \A i \in Slots \ {k} : slot'[i] = slot[i]
    BY <1>1, <2>1 DEF NoInfo
  <2>3. Used' = Used \cup {k} /\ k \notin Used /\ Used \subseteq Slots
    BY <2>1, <2>2 DEF Used
  <2>4. Listed' = Listed \cup {s}
    BY <2>2, <2>3 DEF Listed
  <2>5. Unique'
    <3>1. \A i \in Used : i # k /\ slot'[i] = slot[i] /\ slot[i].id # s
      BY <2>2, <2>3 DEF Listed
    <3> QED
      BY <3>1, <2>2, <2>3, <1>1 DEF Unique
  <2>6. dropped' = dropped
    BY <1>3 DEF Add
  <2>7. slot' \in [Slots -> [id : Nat, seq : Int, visible : BOOLEAN]]
    BY <1>1, <2>1
  <2> QED
    BY <2>4, <2>5, <2>6, <2>7
<1> QED
  BY <1>2, <1>3

-----------------------------------------------------------------------------
(* The steps.                                                              *)

LEMMA Initial == Init => IInv
<1> SUFFICES ASSUME Init PROVE IInv
  OBVIOUS
<1>1. Used = {}
  BY DEF Init, Used
<1>2. Listed = {}
  BY <1>1 DEF Listed
<1>3. Typed
  BY DEF Init, Typed, NoInfo, Places
<1>4. Owned /\ Busy /\ Drops
  BY DEF Init, Owned, Busy, Drops
<1>5. Copying
  BY DisplayAssumption, <1>2 DEF Init, Copying
<1>6. RegistryExact
  BY <1>1, <1>2 DEF Init, RegistryExact
<1> QED
  BY <1>3, <1>4, <1>5, <1>6 DEF IInv

\* A step of a guest thread after which the host knows of the same windows.
LEMMA MoveStep ==
  ASSUME IInv, NEW w \in Windows, NEW place \in Places, Go(w, place),
         slot' \in [Slots -> [id : Nat, seq : Int, visible : BOOLEAN]],
         Listed' = Listed, Unique',
         UNCHANGED <<alive, nextId, surface, reg, dropped, presenter>>,
         at[w] # "add", place # "add",
         place \in {"bumpFree", "free"} <=> at[w] \in {"bumpFree", "free"},
         place \in {"paint", "report"} => surface[w] # 0
  PROVE  IInv'
<1>1. /\ at \in [Windows -> Places]
      /\ at' \in [Windows -> Places] /\ at'[w] = place
      /\ \A v \in Windows \ {w} : at'[v] = at[v]
  BY DEF IInv, Typed, Go
<1>2. Typed'
  BY <1>1 DEF IInv, Typed
<1>3. Owned'
  BY DEF IInv, Owned
<1>4. Busy'
  BY <1>1 DEF IInv, Busy, Places
<1>5. Drops'
  BY <1>1 DEF IInv, Drops
<1>6. Copying'
  BY DEF IInv, Copying, presenter
<1>7. \A v \in Windows : Known(v)' <=> Known(v)
  BY <1>1 DEF Known
<1>8. {surface[v] : v \in {u \in Windows : Known(u)}}'
        = {surface[v] : v \in {u \in Windows : Known(u)}}
  BY <1>7
<1>9. RegistryExact'
  BY <1>8, Exact DEF IInv, RegistryExact, Known, Unique
<1> QED
  BY <1>2, <1>3, <1>4, <1>5, <1>6, <1>9 DEF IInv

\* A step that touches neither slots nor surfaces lists the same.
LEMMA Still ==
  ASSUME IInv, UNCHANGED slot
  PROVE  /\ slot' \in [Slots -> [id : Nat, seq : Int, visible : BOOLEAN]]
         /\ Listed' = Listed /\ Unique'
BY Exact DEF IInv, Typed, Listed, Unique, Used

LEMMA CreateKeeps ==
  ASSUME IInv, NEW w \in Windows, Create(w)
  PROVE  IInv'
<1>1. /\ at[w] = "idle" /\ surface[w] = 0
      /\ alive' = alive \cup {nextId} /\ nextId' = nextId + 1
      /\ surface' = [surface EXCEPT ![w] = nextId] /\ at' = [at EXCEPT ![w] = "add"]
      /\ UNCHANGED <<slot, reg, dropped, mpc, current>>
  BY DEF Create, Ready, Go, registry, presenter
<1>2. /\ surface \in [Windows -> Nat] /\ at \in [Windows -> Places]
      /\ nextId \in Nat \ {0} /\ dropped \subseteq Nat
  BY DEF IInv, Typed
<1>3. \A v \in Windows : surface[v] # 0 => surface[v] < nextId /\ surface[v] # nextId
  BY <1>2 DEF IInv, Owned
<1>4. /\ surface'[w] = nextId /\ at'[w] = "add"
      /\ \A v \in Windows \ {w} : surface'[v] = surface[v] /\ at'[v] = at[v]
  BY <1>1, <1>2
<1>5. Typed'
  BY <1>1, <1>2 DEF IInv, Typed, Places
<1>6. Owned'
  BY <1>1, <1>2, <1>3, <1>4 DEF IInv, Owned
<1>7. Busy'
  BY <1>1, <1>2, <1>4 DEF IInv, Busy
<1>8. Drops'
  <2>1. \A s \in dropped : s < nextId /\ s < nextId + 1 /\ s # nextId
    BY <1>2 DEF IInv, Drops
  <2> QED
    BY <1>1, <1>4, <2>1 DEF IInv, Drops
<1>9. Copying'
  BY <1>1, Still DEF IInv, Copying
<1>10. \A v \in Windows : (Known(v)' <=> Known(v)) /\ (Known(v) => surface'[v] = surface[v])
  BY <1>1, <1>4 DEF Known
<1>11. {surface[v] : v \in {u \in Windows : Known(u)}}'
        = {surface[v] : v \in {u \in Windows : Known(u)}}
  BY <1>10
<1>12. RegistryExact'
  BY <1>1, <1>11, Still, Exact DEF IInv, RegistryExact, Known, Unique
<1> QED
  BY <1>5, <1>6, <1>7, <1>8, <1>9, <1>12 DEF IInv

LEMMA AddedKeeps ==
  ASSUME IInv, NEW w \in Windows, Added(w)
  PROVE  IInv'
<1> DEFINE s == surface[w]
<1>1. /\ at[w] = "add" /\ reg = Nobody /\ Add(s) /\ at' = [at EXCEPT ![w] = "bump"]
      /\ UNCHANGED <<alive, nextId, surface, reg, mpc, current>>
  BY DEF Added, Go, presenter
<1>2. /\ surface \in [Windows -> Nat] /\ at \in [Windows -> Places]
      /\ nextId \in Nat \ {0} /\ dropped \subseteq Nat
  BY DEF IInv, Typed
<1>3. /\ s \in Nat \ {0} /\ s \notin dropped /\ s < nextId
      /\ \A v \in Windows : surface[v] = s => v = w
  BY <1>1, <1>2 DEF IInv, Busy, Drops, Owned
<1>4. /\ at'[w] = "bump"
      /\ \A v \in Windows \ {w} : at'[v] = at[v]
  BY <1>1, <1>2
<1>5. Listed = {surface[v] : v \in {u \in Windows : Known(u)}} \ dropped
  BY Exact DEF IInv
<1>6. s \notin Listed
  BY <1>1, <1>3, <1>5 DEF Known
<1>7. /\ slot' \in [Slots -> [id : Nat, seq : Int, visible : BOOLEAN]]
      /\ Unique'
      /\ \/ Listed' = Listed \cup {s} /\ dropped' = dropped
         \/ Listed' = Listed /\ dropped' = dropped \cup {s}
  BY <1>1, <1>3, <1>6, AddStep
<1>8. Typed'
  BY <1>1, <1>2, <1>3, <1>7 DEF IInv, Typed, Places
<1>9. Owned'
  BY <1>1 DEF IInv, Owned
<1>10. Busy'
  BY <1>1, <1>4 DEF IInv, Busy
<1>11. Drops'
  BY <1>1, <1>3, <1>4, <1>7 DEF IInv, Drops
<1>12. Copying'
  BY <1>1, <1>7 DEF IInv, Copying
<1>13. \A v \in Windows : Known(v)' <=> Known(v) \/ v = w
  BY <1>1, <1>3, <1>4 DEF Known
<1>14. {surface[v] : v \in {u \in Windows : Known(u)}}'
        = {surface[v] : v \in {u \in Windows : Known(u)}} \cup {s}
  BY <1>1, <1>13
<1>15. Listed' = {surface[v] : v \in {u \in Windows : Known(u)}}' \ dropped'
  BY <1>3, <1>5, <1>6, <1>7, <1>14
<1>16. RegistryExact'
  BY <1>15, <1>7 DEF RegistryExact, Known, Unique
<1> QED
  BY <1>8, <1>9, <1>10, <1>11, <1>12, <1>16 DEF IInv

LEMMA RemovedKeeps ==
  ASSUME IInv, NEW w \in Windows, Removed(w)
  PROVE  IInv'
<1> DEFINE s == surface[w]
<1>1. /\ at[w] = "idle" /\ s # 0 /\ reg = Nobody /\ Remove(s)
      /\ at' = [at EXCEPT ![w] = "bumpFree"]
      /\ UNCHANGED <<alive, nextId, surface, reg, dropped, mpc, current>>
  BY DEF Removed, Ready, Go, presenter
<1>2. surface \in [Windows -> Nat] /\ at \in [Windows -> Places]
  BY DEF IInv, Typed
<1>3. /\ at'[w] = "bumpFree"
      /\ \A v \in Windows \ {w} : at'[v] = at[v]
  BY <1>1, <1>2
<1>4. /\ slot' \in [Slots -> [id : Nat, seq : Int, visible : BOOLEAN]]
      /\ Listed' = Listed \ {s} /\ Unique'
  BY <1>1, <1>2, RemoveStep
<1>5. Typed'
  BY <1>1, <1>2, <1>4 DEF IInv, Typed, Places
<1>6. Owned'
  BY <1>1 DEF IInv, Owned
<1>7. Busy'
  BY <1>1, <1>3 DEF IInv, Busy
<1>8. Drops'
  BY <1>1, <1>3 DEF IInv, Drops
<1>9. Copying'
  BY <1>1, DisplayAssumption DEF IInv, Copying
<1>10. \A v \in Windows : Known(v)' <=> Known(v) /\ v # w
  BY <1>1, <1>3 DEF Known
<1>11. \A v \in Windows : surface[v] = s => v = w
  BY <1>1 DEF IInv, Owned
<1>12. {surface[v] : v \in {u \in Windows : Known(u)}}'
        = {surface[v] : v \in {u \in Windows : Known(u)}} \ {s}
  BY <1>1, <1>10, <1>11
<1>13. RegistryExact'
  BY <1>1, <1>4, <1>12, Exact DEF IInv, RegistryExact, Known, Unique
<1> QED
  BY <1>5, <1>6, <1>7, <1>8, <1>9, <1>13 DEF IInv

LEMMA FreeKeeps ==
  ASSUME IInv, NEW w \in Windows, Free(w)
  PROVE  IInv'
<1>1. /\ at[w] = "free" /\ alive' = alive \ {surface[w]}
      /\ surface' = [surface EXCEPT ![w] = 0] /\ at' = [at EXCEPT ![w] = "idle"]
      /\ UNCHANGED <<nextId, slot, reg, dropped, mpc, current>>
  BY DEF Free, Go, registry, presenter
<1>2. surface \in [Windows -> Nat] /\ at \in [Windows -> Places] /\ surface[w] # 0
  BY <1>1 DEF IInv, Typed, Busy
<1>3. /\ surface'[w] = 0 /\ at'[w] = "idle"
      /\ \A v \in Windows \ {w} : surface'[v] = surface[v] /\ at'[v] = at[v]
  BY <1>1, <1>2
<1>4. Typed'
  BY <1>1, <1>2 DEF IInv, Typed, Places
<1>5. Owned'
  BY <1>1, <1>2, <1>3 DEF IInv, Owned
<1>6. Busy' /\ Drops'
  BY <1>1, <1>3 DEF IInv, Busy, Drops
<1>7. Copying'
  BY <1>1, Still DEF IInv, Copying
<1>8. \A v \in Windows : (Known(v)' <=> Known(v)) /\ (Known(v) => surface'[v] = surface[v])
  BY <1>1, <1>3 DEF Known
<1>9. {surface[v] : v \in {u \in Windows : Known(u)}}'
        = {surface[v] : v \in {u \in Windows : Known(u)}}
  BY <1>8
<1>10. RegistryExact'
  BY <1>1, <1>9, Still, Exact DEF IInv, RegistryExact, Known, Unique
<1> QED
  BY <1>4, <1>5, <1>6, <1>7, <1>10 DEF IInv

\* The other steps of the guests leave the same surfaces listed.
LEMMA BeginKeeps ==
  ASSUME IInv, NEW w \in Windows, Begin(w)
  PROVE  IInv'
<1>1. CASE Create(w)
  BY <1>1, CreateKeeps
<1>2. CASE Removed(w)
  BY <1>2, RemovedKeeps
<1>3. CASE Placed(w)
  BY <1>3, ReportStep, MoveStep DEF Placed, Ready, Places
<1>4. CASE Flush(w)
  <2>1. /\ at[w] = "idle" /\ surface[w] # 0 /\ Go(w, "paint")
        /\ UNCHANGED <<alive, nextId, surface, slot, reg, dropped, presenter>>
    BY <1>4 DEF Flush, Ready, registry
  <2> QED
    BY <2>1, Still, MoveStep DEF Places
<1> QED
  BY <1>1, <1>2, <1>3, <1>4 DEF Begin

LEMMA FinishKeeps ==
  ASSUME IInv, NEW w \in Windows, Finish(w)
  PROVE  IInv'
<1>1. CASE Added(w)
  BY <1>1, AddedKeeps
<1>2. CASE Free(w)
  BY <1>2, FreeKeeps
<1>3. CASE Painted(w)
  <2>1. /\ at[w] = "paint" /\ Go(w, "report")
        /\ UNCHANGED <<alive, nextId, surface, slot, reg, dropped, presenter>>
    BY <1>3 DEF Painted, registry
  <2>2. surface[w] # 0
    BY <2>1 DEF IInv, Busy
  <2> QED
    BY <2>1, <2>2, Still, MoveStep DEF Places
<1>4. CASE Updated(w)
  BY <1>4, ReportStep, MoveStep DEF Updated, Places
<1>5. CASE Bump(w)
  <2>1. /\ at[w] \in {"bump", "bumpFree"}
        /\ Go(w, IF at[w] = "bump" THEN "idle" ELSE "free")
        /\ UNCHANGED <<alive, nextId, surface, slot, reg, dropped, presenter>>
    BY <1>5 DEF Bump
  <2>2. CASE at[w] = "bump"
    <3>1. Go(w, "idle")
      BY <2>1, <2>2
    <3> QED
      BY <2>1, <2>2, <3>1, Still, MoveStep DEF Places
  <2>3. CASE at[w] = "bumpFree"
    <3>1. Go(w, "free")
      BY <2>1, <2>3
    <3> QED
      BY <2>1, <2>3, <3>1, Still, MoveStep DEF Places
  <2> QED
    BY <2>1, <2>2, <2>3
<1> QED
  BY <1>1, <1>2, <1>3, <1>4, <1>5 DEF Finish

\* A step of the presenter, or none at all.
LEMMA WatchStep ==
  ASSUME IInv, UNCHANGED <<alive, nextId, surface, at, slot, dropped>>, Copying',
         reg' \in {Main, Nobody}
  PROVE  IInv'
<1>1. Typed' /\ Owned' /\ Busy' /\ Drops'
  BY DEF IInv, Typed, Owned, Busy, Drops
<1>2. {surface[v] : v \in {u \in Windows : Known(u)}}'
        = {surface[v] : v \in {u \in Windows : Known(u)}}
  BY DEF Known
<1>3. RegistryExact'
  BY <1>2, Still, Exact DEF IInv, RegistryExact, Known, Unique
<1> QED
  BY <1>1, <1>3 DEF IInv

LEMMA PresentKeeps ==
  ASSUME IInv, Present
  PROVE  IInv'
<1>1. Main # Nobody /\ Copying /\ reg \in {Main, Nobody}
  BY DisplayAssumption DEF IInv, Typed
<1>2. CASE Tick
  <2>1. Copying'
    BY <1>1, <1>2, Still DEF Tick, Copying, driver, registry
  <2> QED
    BY <1>1, <1>2, <2>1, WatchStep DEF Tick, driver, registry
<1>3. CASE ListNone
  <2>1. Copying'
    BY <1>1, <1>3, Still DEF ListNone, Copying, driver, registry
  <2> QED
    BY <1>1, <1>3, <2>1, WatchStep DEF ListNone, driver, registry
<1>4. CASE ListPick
  <2>1. mpc' \in {"idle", "copy"} /\ UNCHANGED <<driver, registry>>
    BY <1>4 DEF ListPick
  <2>2. Copying'
    BY <1>1, <1>4, <2>1 DEF ListPick, Copying, registry
  <2> QED
    BY <1>1, <2>1, <2>2, WatchStep DEF driver, registry
<1>5. CASE CopyFind
  <2>1. UNCHANGED <<driver, slot, dropped, current>>
    BY <1>5 DEF CopyFind
  <2>2. CASE Find(current.id) = {}
    <3>1. Copying'
      BY <1>1, <1>5, <2>2 DEF CopyFind, Copying
    <3> QED
      BY <1>1, <1>5, <2>1, <2>2, <3>1, WatchStep DEF CopyFind, driver
  <2>3. CASE Find(current.id) # {}
    <3>1. current.id \in Listed
      BY <2>3 DEF Find, Listed
    <3>2. Copying'
      BY <1>1, <1>5, <2>1, <2>3, <3>1, Still DEF CopyFind, Copying
    <3> QED
      BY <1>5, <2>1, <2>3, <3>2, WatchStep DEF CopyFind, driver
  <2> QED
    BY <2>2, <2>3
<1>6. CASE CopyLock
  <2>1. Copying'
    BY <1>1, <1>6, Still DEF CopyLock, Copying, registry
  <2> QED
    BY <1>1, <1>6, <2>1, WatchStep DEF CopyLock, registry
<1>7. CASE CopyEnd
  <2>1. Copying'
    BY <1>1, <1>7 DEF CopyEnd, Copying
  <2> QED
    BY <1>1, <1>7, <2>1, WatchStep DEF CopyEnd
<1> QED
  BY <1>2, <1>3, <1>4, <1>5, <1>6, <1>7 DEF Present

LEMMA Kept == IInv /\ [Next]_vars => IInv'
<1> SUFFICES ASSUME IInv, [Next]_vars PROVE IInv'
  OBVIOUS
<1>1. CASE \E w \in Windows : Begin(w) \/ Finish(w)
  BY <1>1, BeginKeeps, FinishKeeps
<1>2. CASE Present
  BY <1>2, PresentKeeps
<1>3. CASE UNCHANGED vars
  <2>1. UNCHANGED <<alive, nextId, surface, at, slot, reg, dropped, mpc, current>>
    BY <1>3 DEF vars, driver, registry, presenter
  <2>2. Copying' /\ reg' \in {Main, Nobody}
    BY <2>1, Still DEF IInv, Typed, Copying
  <2> QED
    BY <2>1, <2>2, WatchStep
<1> QED
  BY <1>1, <1>2, <1>3 DEF Next

LEMMA Invariant == Spec => []IInv
<1>1. Init => IInv
  BY Initial
<1>2. IInv /\ [Next]_vars => IInv'
  BY Kept
<1> QED
  BY <1>1, <1>2, PTL DEF Spec

-----------------------------------------------------------------------------
(* The registry lists exactly the surfaces that the guests have told it of *)
(* and not yet taken back, each in one slot, whatever the threads do.      *)
THEOREM RegistryExactAlways == Spec => []RegistryExact
<1>1. IInv => RegistryExact
  BY DEF IInv
<1> QED
  BY <1>1, Invariant, PTL

(* The main thread copies only from a surface whose bits and lock exist:   *)
(* wineios_host.h promises as much to the host, and the code keeps it by   *)
(* holding reg_mutex across the copy.                                      *)
THEOREM ReadsLiveSurfaceAlways == Spec => []ReadsLiveSurface
<1>1. IInv => ReadsLiveSurface
  <2>1. ASSUME IInv, mpc \in {"lock", "read"}
        PROVE  current.id \in alive
    BY <2>1, ListedAlive DEF IInv, Copying
  <2> QED
    BY <2>1 DEF ReadsLiveSurface
<1> QED
  BY <1>1, Invariant, PTL
-----------------------------------------------------------------------------
(* That Display implements Screen, and that no frame is skipped unseen.    *)

(* The invariant, beside that of DisplayProofs.                            *)

\* The changes under way fit below the bound of change_seq.
Bumping == {w \in Windows : at[w] \notin {"idle", "free"}}
Bounded == change + Cardinality(Bumping) <= MaxChanges

\* Each flush ends with a bump, so none outruns change_seq by more than one.
Flushing(w) == at[w] \in {"paint", "report", "bump"}
Flushes ==
  \A s \in Ids : /\ bits[s].top <= change
                 /\ bits[s].top = change => \E w \in Windows : surface[w] = s /\ Flushing(w)

\* The halves differ only under a lock that a guest holds, by one flush.
Painting ==
  /\ \A w \in Windows : at[w] = "paint" =>
       pixel[surface[w]] = w /\ bits[surface[w]].top = bits[surface[w]].bottom + 1
  /\ \A s \in Ids : pixel[s] \notin Windows => bits[s].top = bits[s].bottom

\* The half that has been copied is the surface's still, by the pixel lock.
Reading == mpc = "read" => pixel[current.id] = Main /\ buf = bits[current.id].top

\* The updates that a slot counts have been flushed before.
Reported ==
  \A i \in Used : LET s == slot[i].id IN
    /\ slot[i].seq \in 0..bits[s].top
    /\ \A w \in Windows : surface[w] = s /\ at[w] \in {"paint", "report"} =>
         slot[i].seq < bits[s].top

\* What the presenter has picked is a surface that was listed at some time:
\* once it is gone, it never comes back.
Picked ==
  current # NoInfo =>
    /\ current.id \in Ids /\ current.id < nextId
    /\ current.seq <= bits[current.id].top
    /\ \A w \in Windows : at[w] = "add" => surface[w] # current.id

\* Between two ticks that surface, if it is listed, is on screen.
Presented ==
  mpc \in {"idle", "list"} /\ current.id \in Listed =>
    shown.id = current.id /\ shown.top >= lastPixel

RInv ==
  /\ IInv /\ TypeOK /\ Bounded /\ Flushes
  /\ Painting /\ Reading /\ Reported /\ Picked /\ Presented

-----------------------------------------------------------------------------
(* The changes under way.                                                  *)

LEMMA Types ==
  ASSUME TypeOK
  PROVE  /\ at \in [Windows -> Places] /\ surface \in [Windows -> Ids \cup {0}]
         /\ bits \in [Ids -> [top : Nat, bottom : Nat]] /\ change \in Nat \ {0}
         /\ slot \in [Slots -> [id : Nat, seq : Nat, visible : BOOLEAN]]
         /\ nextId \in Nat \ {0} /\ lastPixel \in Nat /\ buf \in Nat
         /\ current \in [id : Nat, seq : Nat, visible : BOOLEAN]
         /\ shown \in [id : Nat, top : Nat, bottom : Nat]
<1>1. /\ \A n \in Half : n \in Nat
      /\ \A n \in Ids : n \in Nat
      /\ \A n \in 0..MaxChanges : n \in Nat
  BY DisplayAssumption DEF Half, Ids
<1>2. \A r \in Info : r \in [id : Nat, seq : Nat, visible : BOOLEAN]
  BY <1>1 DEF Info
<1>3. NoInfo \in [id : Nat, seq : Nat, visible : BOOLEAN]
  BY DEF NoInfo
<1>4. \A r \in [top : Half, bottom : Half] : r \in [top : Nat, bottom : Nat]
  BY <1>1
<1>5. bits \in [Ids -> [top : Nat, bottom : Nat]]
  BY <1>4 DEF TypeOK
<1>6. \A r \in [id : Ids \cup {0}, top : Half, bottom : Half] :
        r \in [id : Nat, top : Nat, bottom : Nat]
  BY <1>1
<1>7. slot \in [Slots -> [id : Nat, seq : Nat, visible : BOOLEAN]]
  BY <1>2, <1>3 DEF TypeOK
<1>8. change \in Nat \ {0} /\ nextId \in Nat \ {0}
  BY DisplayAssumption DEF TypeOK
<1> QED
  BY <1>1, <1>2, <1>3, <1>5, <1>6, <1>7, <1>8 DEF TypeOK, Places

LEMMA BumpingFinite ==
  /\ IsFiniteSet(Bumping) /\ Cardinality(Bumping) \in Nat
  /\ Cardinality(Bumping) <= Cardinality({w \in Windows : at[w] # "idle"})
  /\ Cardinality({w \in Windows : at[w] # "idle"}) \in Nat
<1>1. IsFiniteSet({w \in Windows : at[w] # "idle"})
  BY DisplayAssumption, FS_Subset
<1>2. Bumping \subseteq {w \in Windows : at[w] # "idle"}
  BY DEF Bumping
<1> QED
  BY <1>1, <1>2, FS_Subset, FS_CardinalityType

\* A call may begin: its change will fit.
LEMMA BoundedBegin ==
  ASSUME RInv, NEW w \in Windows, NEW place \in Places \ {"idle", "free"}, Room,
         at[w] = "idle", Go(w, place), UNCHANGED change
  PROVE  Bounded' /\ change < MaxChanges
<1>1. Bumping' = Bumping \cup {w} /\ w \notin Bumping
  BY Types DEF RInv, Bumping, Go
<1>2. Cardinality(Bumping') = Cardinality(Bumping) + 1
  BY <1>1, BumpingFinite, FS_AddElement
<1> QED
  BY <1>2, BumpingFinite, Types, DisplayAssumption DEF RInv, Bounded, Room

\* In the middle of a call, and between calls, nothing is counted.
LEMMA BoundedStill ==
  ASSUME RInv, NEW w \in Windows, NEW place \in Places, Go(w, place), UNCHANGED change,
         at[w] \in {"idle", "free"} <=> place \in {"idle", "free"}
  PROVE  Bounded'
<1>1. Bumping' = Bumping
  BY Types DEF RInv, Bumping, Go
<1> QED
  BY <1>1 DEF RInv, Bounded

LEMMA BoundedBump ==
  ASSUME RInv, NEW w \in Windows, NEW place \in {"idle", "free"}, Go(w, place),
         at[w] \notin {"idle", "free"}, change' = change + 1
  PROVE  Bounded' /\ change < MaxChanges
<1>1. Bumping' = Bumping \ {w} /\ w \in Bumping
  BY Types DEF RInv, Bumping, Go
<1>2. Cardinality(Bumping') = Cardinality(Bumping) - 1 /\ Cardinality(Bumping') \in Nat
  <2>1. Cardinality(Bumping) \in Nat /\ IsFiniteSet(Bumping)
    BY BumpingFinite
  <2>2. IsFiniteSet(Bumping') /\ Cardinality(Bumping') \in Nat
    BY <1>1, <2>1, FS_Subset, FS_CardinalityType
  <2> QED
    BY <1>1, <2>1, <2>2, FS_RemoveElement
<1> QED
  BY <1>2, BumpingFinite, Types, DisplayAssumption DEF RInv, Bounded

\* While a call is under way, change_seq is below its bound.
LEMMA Below ==
  ASSUME RInv, NEW w \in Windows, at[w] \notin {"idle", "free"}
  PROVE  change < MaxChanges
<1>1. w \in Bumping
  BY DEF Bumping
<1>2. Cardinality(Bumping) # 0
  <2>1. Bumping # {} /\ IsFiniteSet(Bumping)
    BY <1>1, BumpingFinite
  <2> QED
    BY <2>1, FS_EmptySet, Zenon
<1>3. change \in Nat /\ MaxChanges \in Nat /\ Cardinality(Bumping) \in Nat
  BY BumpingFinite, Types, DisplayAssumption DEF RInv
<1>4. change + Cardinality(Bumping) <= MaxChanges
  BY DEF RInv, Bounded
<1> QED
  BY <1>2, <1>3, <1>4

-----------------------------------------------------------------------------
(* What each part of the invariant rests on.                               *)

\* The steps that paint nothing keep the counts of flushes.
LEMMA FlushesStill ==
  ASSUME RInv, \A s \in Ids : bits'[s].top = bits[s].top, UNCHANGED change,
         \A w \in Windows : Flushing(w) => Flushing(w)' /\ surface'[w] = surface[w]
  PROVE  Flushes'
<1>1. Flushes
  BY DEF RInv
<1> QED
  BY <1>1 DEF Flushes

LEMMA PaintingStill ==
  ASSUME RInv, UNCHANGED <<bits, pixel>>,
         \A w \in Windows : at'[w] = "paint" => at[w] = "paint" /\ surface'[w] = surface[w]
  PROVE  Painting'
<1>1. Painting
  BY DEF RInv
<1> QED
  BY <1>1 DEF Painting

LEMMA ReportedStill ==
  ASSUME RInv, UNCHANGED slot, \A s \in Ids : bits'[s].top = bits[s].top,
         \A w \in Windows : at'[w] \in {"paint", "report"} =>
           at[w] \in {"paint", "report"} /\ surface'[w] = surface[w]
  PROVE  Reported'
<1>1. Reported /\ Used' = Used
  BY DEF RInv, Used
<1>2. \A i \in Used : slot[i].id \in Ids
  BY DEF RInv, TypeOK, Used, Info
<1> QED
  BY <1>1, <1>2 DEF Reported

LEMMA PickedStill ==
  ASSUME RInv, UNCHANGED current, nextId' \in {nextId, nextId + 1},
         \A s \in Ids : bits'[s].top \in {bits[s].top, bits[s].top + 1},
         \A w \in Windows : at'[w] = "add" /\ current # NoInfo => surface'[w] # current.id
  PROVE  Picked'
<1>1. Picked
  BY DEF RInv
<1>2. /\ current \in [id : Nat, seq : Nat, visible : BOOLEAN]
      /\ bits \in [Ids -> [top : Nat, bottom : Nat]] /\ nextId \in Nat
  BY Types DEF RInv
<1>3. ASSUME current # NoInfo
      PROVE  current.id \in Ids /\ bits[current.id].top \in Nat
  BY <1>1, <1>2, <1>3 DEF Picked
<1> QED
  BY <1>1, <1>2, <1>3 DEF Picked

LEMMA PresentedStill ==
  ASSUME RInv, UNCHANGED <<mpc, current, shown, lastPixel>>,
         current.id \in Listed' => current.id \in Listed
  PROVE  Presented'
BY DEF RInv, Presented

\* A guest's step leaves a copy in progress alone: it has the pixel lock.
LEMMA ReadingStill ==
  ASSUME RInv, UNCHANGED <<mpc, current, buf>>,
         mpc = "read" => /\ pixel'[current.id] = pixel[current.id]
                         /\ bits'[current.id].top = bits[current.id].top
  PROVE  Reading'
BY DEF RInv, Reading

\* No surface is listed anew but by Added, and that is not the one picked.
LEMMA NeverBack ==
  ASSUME RInv, NEW w \in Windows, at[w] = "add"
  PROVE  current.id # surface[w]
<1>1. surface[w] # 0
  BY DEF RInv, IInv, Busy
<1>2. CASE current = NoInfo
  BY <1>1, <1>2 DEF NoInfo
<1>3. CASE current # NoInfo
  BY <1>3 DEF RInv, Picked
<1> QED
  BY <1>2, <1>3

-----------------------------------------------------------------------------
(* The steps of the guests.                                                *)

LEMMA CreateStep ==
  ASSUME RInv, IInv', NEW w \in Windows, Create(w)
  PROVE  RInv'
<1>1. /\ at[w] = "idle" /\ nextId \in Ids /\ Room /\ Go(w, "add")
      /\ alive' = alive \cup {nextId} /\ nextId' = nextId + 1
      /\ surface' = [surface EXCEPT ![w] = nextId]
      /\ UNCHANGED <<bits, pixel, placedId, slot, reg, change, dropped>>
      /\ UNCHANGED <<mpc, lastChange, lastPixel, current, buf, shown>>
  BY DEF Create, Ready, registry, presenter
<1>2. at \in [Windows -> Places] /\ surface \in [Windows -> Ids \cup {0}] /\ nextId \in Nat
  BY Types DEF RInv
<1>3. /\ at' = [at EXCEPT ![w] = "add"] /\ at'[w] = "add" /\ surface'[w] = nextId
      /\ \A v \in Windows \ {w} : at'[v] = at[v] /\ surface'[v] = surface[v]
  BY <1>1, <1>2 DEF Go
<1>4. Bounded'
  BY <1>1, BoundedBegin DEF Places
<1>5. TypeOK'
  <2>1. nextId' \in 1..(MaxIds + 1)
    BY <1>1, DisplayAssumption DEF Ids
  <2> QED
    BY <1>1, <1>3, <2>1 DEF RInv, TypeOK
<1>6. Flushes'
  BY <1>1, <1>3, FlushesStill DEF Flushing
<1>7. Painting'
  BY <1>1, <1>3, PaintingStill
<1>8. Reading'
  BY <1>1, ReadingStill
<1>9. Reported'
  BY <1>1, <1>3, ReportedStill
<1>10. Picked'
  <2>1. current # NoInfo => current.id # nextId
    BY <1>2 DEF RInv, Picked, Ids
  <2> QED
    BY <1>1, <1>3, <2>1, PickedStill DEF RInv, Picked
<1>11. Presented'
  BY <1>1, PresentedStill DEF Listed, Used
<1> QED
  BY <1>4, <1>5, <1>6, <1>7, <1>8, <1>9, <1>10, <1>11 DEF RInv

\* The callbacks change a slot only.
LEMMA CallbackStep ==
  ASSUME RInv, IInv', NEW w \in Windows, NEW place \in {"bump", "bumpFree"}, Go(w, place),
         \/ at[w] = "idle" /\ Room
         \/ at[w] \in {"add", "report"} /\ place = "bump",
         UNCHANGED <<alive, bits, pixel, nextId, surface, reg, change>>,
         UNCHANGED presenter,
         placedId' \in [Windows -> Ids \cup {0}], dropped' \subseteq Ids,
         slot' \in [Slots -> Info \cup {NoInfo}],
         current.id \in Listed' => current.id \in Listed,
         Reported'
  PROVE  RInv'
<1>1. /\ at \in [Windows -> Places] /\ at' = [at EXCEPT ![w] = place]
      /\ at'[w] = place /\ place \in Places \ {"idle", "free"}
      /\ \A v \in Windows \ {w} : at'[v] = at[v]
  BY Types DEF RInv, Go, Places
<1>2. UNCHANGED <<mpc, lastChange, lastPixel, current, buf, shown>>
  BY DEF presenter
<1>3. Bounded'
  BY <1>1, BoundedBegin, BoundedStill
<1>4. TypeOK'
  BY <1>1, <1>2 DEF RInv, TypeOK
<1>5. Flushes'
  <2>1. \A v \in Windows : Flushing(v) => Flushing(v)' /\ surface'[v] = surface[v]
    BY <1>1 DEF Flushing
  <2>2. UNCHANGED change /\ \A s \in Ids : bits'[s].top = bits[s].top
    OBVIOUS
  <2> QED
    BY <2>1, <2>2, FlushesStill
<1>6. Painting'
  BY <1>1, PaintingStill
<1>7. Reading'
  BY <1>2, ReadingStill
<1>8. Picked'
  BY <1>1, <1>2, PickedStill DEF RInv, Picked
<1>9. Presented'
  BY <1>2, PresentedStill
<1> QED
  BY <1>3, <1>4, <1>5, <1>6, <1>7, <1>8, <1>9 DEF RInv


\* An update that counts is of a flush that has not been counted.
LEMMA UpdatedStep ==
  ASSUME RInv, IInv', NEW w \in Windows, Updated(w)
  PROVE  RInv'
<1> DEFINE s == surface[w]
<1>1. /\ at[w] = "report" /\ Count(s) /\ Go(w, "bump")
      /\ UNCHANGED <<alive, bits, pixel, nextId, surface, placedId, reg, change, dropped>>
      /\ UNCHANGED presenter
  BY DEF Updated
<1>2. /\ at \in [Windows -> Places] /\ at' = [at EXCEPT ![w] = "bump"]
      /\ at'[w] = "bump" /\ \A v \in Windows \ {w} : at'[v] = at[v]
  BY <1>1, Types DEF RInv, Go
<1>3. /\ bits \in [Ids -> [top : Nat, bottom : Nat]] /\ change \in Nat \ {0}
      /\ surface \in [Windows -> Ids \cup {0}]
      /\ slot \in [Slots -> [id : Nat, seq : Nat, visible : BOOLEAN]]
  BY Types DEF RInv
<1>4. /\ slot \in [Slots -> Info \cup {NoInfo}]
      /\ \A i \in Used : slot[i] \in Info /\ i \in Slots /\ slot[i].id \in Ids /\ slot[i].id # 0
  BY DEF RInv, TypeOK, Used, Info, Ids
<1>5. s \in Ids /\ change < MaxChanges /\ bits[s].top \in Nat /\ bits[s].top <= change
  BY <1>1, <1>3, Below DEF RInv, IInv, Busy, Flushes
<1>6. \A i \in Slots : slot'[i] = IF i \in Used /\ slot[i].id = s
                                  THEN [slot[i] EXCEPT !.seq = @ + 1] ELSE slot[i]
  BY <1>1, FindExact DEF RInv, Count
<1>7. \A i \in Used : slot[i].id = s => slot[i].seq < bits[s].top /\ slot[i].seq \in Nat
  BY <1>1, <1>3, <1>4 DEF RInv, Reported
<1>8. slot' \in [Slots -> Info \cup {NoInfo}]
  <2>1. \A i \in Slots : slot'[i] \in Info \cup {NoInfo}
    <3>1. ASSUME NEW i \in Used, slot[i].id = s
          PROVE  slot[i].seq + 1 \in 0..MaxChanges
      BY <1>5, <1>7, <3>1, DisplayAssumption DEF RInv, TypeOK
    <3>2. ASSUME NEW i \in Used, slot[i].id = s
          PROVE  [slot[i] EXCEPT !.seq = @ + 1] \in Info
      BY <1>4, <3>1, <3>2 DEF Info
    <3> QED
      BY <1>4, <1>6, <3>2
  <2> QED
    BY <1>1, <2>1 DEF Count
<1>9. Used' = Used /\ \A i \in Used : slot'[i].id = slot[i].id
  <2>1. \A i \in Used : slot'[i].id = slot[i].id
    BY <1>3, <1>4, <1>6
  <2>2. \A i \in Used : slot'[i] # NoInfo
    BY <1>4, <2>1 DEF NoInfo
  <2>3. \A i \in Slots \ Used : slot'[i] = slot[i]
    BY <1>6
  <2> QED
    BY <2>1, <2>2, <2>3 DEF Used
<1>10. Listed' = Listed
  BY <1>9 DEF Listed
<1>11. Reported'
  <2>1. \A v \in Windows : surface[v] = s => v = w
    BY <1>5, DisplayAssumption DEF RInv, IInv, Owned, Ids
  <2>2. \A i \in Used : slot'[i].seq = IF slot[i].id = s THEN slot[i].seq + 1 ELSE slot[i].seq
    BY <1>3, <1>4, <1>6
  <2>3. \A i \in Used : slot'[i].seq \in 0..bits[slot[i].id].top
    BY <1>3, <1>4, <1>5, <1>7, <2>2 DEF RInv, Reported
  <2>4. ASSUME NEW i \in Used, NEW v \in Windows, surface[v] = slot[i].id,
               at'[v] \in {"paint", "report"}
        PROVE  slot'[i].seq < bits[slot[i].id].top
    <3>1. v # w /\ slot[i].id # s
      BY <1>2, <2>1, <2>4
    <3> QED
      BY <1>2, <2>2, <2>4, <3>1 DEF RInv, Reported
  <2> QED
    BY <1>1, <1>9, <2>3, <2>4 DEF Reported
<1> QED
  BY <1>1, <1>8, <1>10, <1>11, CallbackStep DEF RInv, TypeOK

LEMMA PlacedStep ==
  ASSUME RInv, IInv', NEW w \in Windows, Placed(w)
  PROVE  RInv'
<1>1. /\ at[w] = "idle" /\ Room /\ Go(w, "bump")
      /\ UNCHANGED <<alive, bits, pixel, nextId, surface, placedId, reg, change, dropped>>
      /\ UNCHANGED presenter
  BY DEF Placed, Ready
<1>2. PICK v \in BOOLEAN : SetVisible(placedId[w], v)
  BY DEF Placed
<1>3. /\ at' = [at EXCEPT ![w] = "bump"] /\ at \in [Windows -> Places]
      /\ slot \in [Slots -> [id : Nat, seq : Nat, visible : BOOLEAN]]
  BY <1>1, Types DEF RInv, Go
<1>4. \A i \in Find(placedId[w]) : i \in Used
  BY DEF Find
<1>5. /\ slot \in [Slots -> Info \cup {NoInfo}]
      /\ \A i \in Used : slot[i] \in Info /\ i \in Slots /\ slot[i].id \in Ids /\ slot[i].id # 0
  BY DEF RInv, TypeOK, Used, Info, Ids
<1>6. \A i \in Slots : slot'[i] = IF i \in Find(placedId[w])
                                  THEN [slot[i] EXCEPT !.visible = v] ELSE slot[i]
  BY <1>2 DEF SetVisible
<1>7. slot' \in [Slots -> Info \cup {NoInfo}]
  <2>1. \A i \in Used : [slot[i] EXCEPT !.visible = v] \in Info
    BY <1>5 DEF Info
  <2>2. \A i \in Slots : slot'[i] \in Info \cup {NoInfo}
    BY <1>4, <1>5, <1>6, <2>1
  <2> QED
    BY <1>2, <2>2 DEF SetVisible
<1>8. /\ Used' = Used
      /\ \A i \in Used : slot'[i].id = slot[i].id /\ slot'[i].seq = slot[i].seq
  <2>1. \A i \in Used : slot'[i].id = slot[i].id /\ slot'[i].seq = slot[i].seq
    BY <1>3, <1>5, <1>6
  <2>2. \A i \in Used : slot'[i] # NoInfo
    BY <1>5, <2>1 DEF NoInfo
  <2>3. \A i \in Slots \ Used : slot'[i] = slot[i]
    BY <1>4, <1>6
  <2> QED
    BY <2>1, <2>2, <2>3 DEF Used
<1>9. Listed' = Listed
  BY <1>8 DEF Listed
<1>10. Reported'
  <2>1. \A u \in Windows : at'[u] \in {"paint", "report"} => at[u] = at'[u]
    BY <1>3
  <2> QED
    BY <1>1, <1>8, <2>1 DEF RInv, Reported
<1> QED
  BY <1>1, <1>7, <1>9, <1>10, CallbackStep DEF RInv, TypeOK

LEMMA RemovedStep ==
  ASSUME RInv, IInv', NEW w \in Windows, Removed(w)
  PROVE  RInv'
<1>1. /\ at[w] = "idle" /\ Room /\ Remove(surface[w]) /\ Go(w, "bumpFree")
      /\ UNCHANGED <<alive, bits, pixel, nextId, surface, placedId, reg, change, dropped>>
      /\ UNCHANGED presenter
  BY DEF Removed, Ready
<1>2. at' = [at EXCEPT ![w] = "bumpFree"] /\ at \in [Windows -> Places]
  BY <1>1, Types DEF RInv, Go
<1>3. \A i \in Slots : slot'[i] = IF i \in Find(surface[w]) THEN NoInfo ELSE slot[i]
  BY <1>1 DEF Remove
<1>4. slot' \in [Slots -> Info \cup {NoInfo}]
  BY <1>1 DEF RInv, TypeOK, Remove
<1>5. \A i \in Used' : i \in Used /\ slot'[i] = slot[i]
  BY <1>3 DEF Used
<1>6. Listed' \subseteq Listed
  BY <1>5 DEF Listed
<1>7. Reported'
  <2>1. \A u \in Windows : at'[u] \in {"paint", "report"} => at[u] = at'[u]
    BY <1>2
  <2> QED
    BY <1>1, <1>5, <2>1 DEF RInv, Reported
<1>8. placedId' \in [Windows -> Ids \cup {0}] /\ dropped' \subseteq Ids
  BY <1>1 DEF RInv, TypeOK
<1> QED
  BY <1>1, <1>4, <1>6, <1>7, <1>8, CallbackStep

LEMMA AddedStep ==
  ASSUME RInv, IInv', NEW w \in Windows, Added(w)
  PROVE  RInv'
<1> DEFINE s == surface[w]
<1>1. /\ at[w] = "add" /\ Add(s) /\ Go(w, "bump")
      /\ placedId' = [placedId EXCEPT ![w] = s]
      /\ UNCHANGED <<alive, bits, pixel, nextId, surface, reg, change>>
      /\ UNCHANGED presenter
  BY DEF Added
<1>2. /\ at' = [at EXCEPT ![w] = "bump"] /\ at \in [Windows -> Places]
      /\ surface \in [Windows -> Ids \cup {0}]
      /\ bits \in [Ids -> [top : Nat, bottom : Nat]]
  BY <1>1, Types DEF RInv, Go
<1>3. s \in Ids /\ 0 \in 0..MaxChanges
  BY <1>1, <1>2, DisplayAssumption DEF RInv, IInv, Busy
<1> DEFINE new == [id |-> s, seq |-> 0, visible |-> FALSE]
<1>4. /\ dropped' \subseteq Ids
      /\ \/ slot' = slot
         \/ \E k \in Slots : slot' = [slot EXCEPT ![k] = new]
  <2>1. CASE Slots \ Used = {}
    BY <1>1, <1>3, <2>1 DEF Add, RInv, TypeOK
  <2>2. CASE Slots \ Used # {}
    <3>1. Least(Slots \ Used) \in Slots
      BY <2>2, LeastIn DEF Slots
    <3> QED
      BY <1>1, <2>2, <3>1 DEF Add, RInv, TypeOK
  <2> QED
    BY <2>1, <2>2
<1>5. new \in Info
  BY <1>3 DEF Info
<1>6. slot' \in [Slots -> Info \cup {NoInfo}]
  BY <1>4, <1>5 DEF RInv, TypeOK
<1>7. \A i \in Used' : slot'[i] = new \/ (i \in Used /\ slot'[i] = slot[i])
  <2>1. DOMAIN slot = Slots
    BY DEF RInv, TypeOK
  <2>2. \A i \in Slots : slot'[i] = new \/ slot'[i] = slot[i]
    BY <1>4, <2>1
  <2> QED
    BY <2>2 DEF Used
<1>8. Listed' \subseteq Listed \cup {s}
  BY <1>7 DEF Listed
<1>9. Reported'
  <2>1. \A u \in Windows : at'[u] \in {"paint", "report"} => at[u] = at'[u] /\ u # w
    BY <1>2
  <2>2. \A u \in Windows : surface[u] = s => u = w
    BY <1>3, DisplayAssumption DEF RInv, IInv, Owned, Ids
  <2>3. new.id = s /\ new.seq = 0 /\ 0 \in 0..bits[s].top
    BY <1>2, <1>3
  <2> HIDE DEF new
  <2>4. ASSUME NEW i \in Used'
        PROVE  /\ slot'[i].seq \in 0..bits[slot'[i].id].top
               /\ \A u \in Windows : surface[u] = slot'[i].id /\ at'[u] \in {"paint", "report"} =>
                    slot'[i].seq < bits[slot'[i].id].top
    <3>1. CASE slot'[i] = new
      BY <2>1, <2>2, <2>3, <3>1
    <3>2. CASE i \in Used /\ slot'[i] = slot[i]
      BY <2>1, <3>2 DEF RInv, Reported
    <3> QED
      BY <1>7, <3>1, <3>2
  <2> QED
    BY <1>1, <2>4 DEF Reported
<1>10. current.id # s
  BY <1>1, NeverBack
<1>11. placedId' \in [Windows -> Ids \cup {0}]
  BY <1>1, <1>3 DEF RInv, TypeOK
<1> HIDE DEF s, new
<1> QED
  BY <1>1, <1>4, <1>6, <1>8, <1>9, <1>10, <1>11, CallbackStep


\* A flush takes the pixel lock, so the halves it finds are of one frame.
LEMMA FlushStep ==
  ASSUME RInv, IInv', NEW w \in Windows, Flush(w)
  PROVE  RInv'
<1> DEFINE s == surface[w]
<1>1. /\ at[w] = "idle" /\ Room /\ s # 0 /\ Go(w, "paint")
      /\ pixel[s] = Nobody /\ pixel' = [pixel EXCEPT ![s] = w]
      /\ bits' = [bits EXCEPT ![s].top = @ + 1]
      /\ UNCHANGED <<alive, nextId, surface, placedId, slot, reg, change, dropped>>
      /\ UNCHANGED <<mpc, lastChange, lastPixel, current, buf, shown>>
  BY DEF Flush, Ready, registry, presenter
<1>2. /\ at' = [at EXCEPT ![w] = "paint"] /\ at'[w] = "paint"
      /\ \A v \in Windows \ {w} : at'[v] = at[v]
  BY <1>1, Types DEF RInv, Go
<1>3. /\ bits \in [Ids -> [top : Nat, bottom : Nat]] /\ change \in Nat \ {0}
      /\ pixel \in [Ids -> Windows \cup {Main, Nobody}] /\ s \in Ids
  BY <1>1, Types DEF RInv, TypeOK
<1>4. \A v \in Windows : surface[v] = s => v = w
  BY <1>1 DEF RInv, IInv, Owned
<1>5. /\ bits'[s].top = bits[s].top + 1 /\ bits'[s].bottom = bits[s].bottom
      /\ \A r \in Ids \ {s} : bits'[r] = bits[r] /\ pixel'[r] = pixel[r]
      /\ pixel'[s] = w
  BY <1>1, <1>3
<1>6. Bounded' /\ change < MaxChanges
  BY <1>1, BoundedBegin DEF Places
<1>7. bits[s].top < change
  <2>1. bits[s].top <= change
    BY <1>3 DEF RInv, Flushes
  <2>2. bits[s].top # change
    BY <1>1, <1>3, <1>4 DEF RInv, Flushes, Flushing
  <2> QED
    BY <1>3, <2>1, <2>2
<1>8. Flushes'
  <2>1. \A v \in Windows : Flushing(v) => Flushing(v)'
    BY <1>2 DEF Flushing
  <2>2. Flushing(w)'
    BY <1>2 DEF Flushing
  <2>3. ASSUME NEW r \in Ids
        PROVE  /\ bits'[r].top <= change
               /\ bits'[r].top = change => \E v \in Windows : surface[v] = r /\ Flushing(v)'
    <3>1. CASE r = s
      BY <1>3, <1>5, <1>7, <2>2, <3>1
    <3>2. CASE r # s
      BY <1>5, <2>1, <3>2 DEF RInv, Flushes
    <3> QED
      BY <3>1, <3>2
  <2> QED
    BY <1>1, <2>3 DEF Flushes, Flushing
<1>9. TypeOK'
  <2>1. bits[s].top + 1 \in Half
    BY <1>3, <1>6, <1>7, DisplayAssumption DEF Half
  <2>2. bits' \in [Ids -> [top : Half, bottom : Half]]
    BY <1>1, <1>3, <2>1 DEF RInv, TypeOK
  <2>3. pixel' \in [Ids -> Windows \cup {Main, Nobody}]
    BY <1>1, <1>3
  <2>4. at' \in [Windows -> {"idle", "add", "paint", "report", "bump", "bumpFree", "free"}]
    BY <1>2 DEF RInv, TypeOK
  <2> QED
    BY <1>1, <2>2, <2>3, <2>4 DEF RInv, TypeOK
<1>10. Painting'
  <2>1. bits[s].top = bits[s].bottom
    BY <1>1, <1>3, DisplayAssumption DEF RInv, Painting
  <2>2. \A v \in Windows : at'[v] = "paint" =>
          pixel'[surface[v]] = v /\ bits'[surface[v]].top = bits'[surface[v]].bottom + 1
    <3> SUFFICES ASSUME NEW v \in Windows, at'[v] = "paint"
                 PROVE  pixel'[surface[v]] = v
                        /\ bits'[surface[v]].top = bits'[surface[v]].bottom + 1
      OBVIOUS
    <3>1. CASE v = w
      BY <1>5, <2>1, <3>1
    <3>2. CASE v # w
      <4>1. at[v] = "paint" /\ surface[v] # s /\ surface[v] \in Ids
        BY <1>2, <1>4, <3>2, Types DEF RInv, IInv, Busy
      <4> QED
        BY <1>5, <4>1 DEF RInv, Painting
    <3> QED
      BY <3>1, <3>2
  <2>3. \A r \in Ids : pixel'[r] \notin Windows => bits'[r].top = bits'[r].bottom
    BY <1>5 DEF RInv, Painting
  <2> QED
    BY <1>1, <2>2, <2>3 DEF Painting
<1>11. Reading'
  <2>1. ASSUME mpc = "read"
        PROVE  current.id # s
    BY <1>1, <2>1, DisplayAssumption DEF RInv, Reading
  <2>2. ASSUME mpc = "read"
        PROVE  current.id \in Ids
    BY <2>2 DEF RInv, TypeOK, IInv, Copying, Listed, Used, Info
  <2> QED
    BY <1>1, <1>5, <2>1, <2>2, ReadingStill
<1>12. Reported'
  <2>1. Used' = Used /\ \A i \in Used : slot[i].id \in Ids
    BY <1>1 DEF RInv, TypeOK, Used, Info
  <2>2. ASSUME NEW i \in Used
        PROVE  /\ slot[i].seq \in 0..bits'[slot[i].id].top
               /\ \A v \in Windows : surface[v] = slot[i].id /\ at'[v] \in {"paint", "report"} =>
                    slot[i].seq < bits'[slot[i].id].top
    <3>1. CASE slot[i].id = s
      BY <1>3, <1>5, <3>1 DEF RInv, Reported
    <3>2. CASE slot[i].id # s
      <4>1. bits'[slot[i].id] = bits[slot[i].id]
        BY <1>5, <2>1, <3>2
      <4>2. \A v \in Windows : surface[v] = slot[i].id => at'[v] = at[v]
        BY <1>2, <3>2
      <4> QED
        BY <4>1, <4>2 DEF RInv, Reported
    <3> QED
      BY <3>1, <3>2
  <2> QED
    BY <1>1, <2>1, <2>2 DEF Reported
<1>13. Picked'
  <2>1. \A r \in Ids : bits'[r].top \in {bits[r].top, bits[r].top + 1}
    BY <1>5
  <2>2. \A v \in Windows : at'[v] = "add" => at[v] = "add"
    BY <1>2
  <2> QED
    BY <1>1, <2>1, <2>2, PickedStill DEF RInv, Picked
<1>14. Presented'
  BY <1>1, PresentedStill DEF Listed, Used
<1> QED
  BY <1>6, <1>8, <1>9, <1>10, <1>11, <1>12, <1>13, <1>14 DEF RInv


\* The second half follows the first before the lock is free again.
LEMMA PaintedStep ==
  ASSUME RInv, IInv', NEW w \in Windows, Painted(w)
  PROVE  RInv'
<1> DEFINE s == surface[w]
<1>1. /\ at[w] = "paint" /\ Go(w, "report")
      /\ bits' = [bits EXCEPT ![s].bottom = bits[s].top]
      /\ pixel' = [pixel EXCEPT ![s] = Nobody]
      /\ UNCHANGED <<alive, nextId, surface, placedId, slot, reg, change, dropped>>
      /\ UNCHANGED <<mpc, lastChange, lastPixel, current, buf, shown>>
  BY DEF Painted, registry, presenter
<1>2. /\ at' = [at EXCEPT ![w] = "report"] /\ at'[w] = "report"
      /\ \A v \in Windows \ {w} : at'[v] = at[v]
  BY <1>1, Types DEF RInv, Go
<1>3. /\ bits \in [Ids -> [top : Nat, bottom : Nat]]
      /\ pixel \in [Ids -> Windows \cup {Main, Nobody}] /\ s \in Ids
      /\ surface \in [Windows -> Ids \cup {0}]
  BY <1>1, Types DEF RInv, TypeOK, IInv, Busy
<1>4. \A v \in Windows : surface[v] = s => v = w
  BY <1>3, DisplayAssumption DEF RInv, IInv, Owned, Ids
<1>5. /\ bits'[s].top = bits[s].top /\ bits'[s].bottom = bits[s].top
      /\ \A r \in Ids \ {s} : bits'[r] = bits[r] /\ pixel'[r] = pixel[r]
      /\ pixel'[s] = Nobody
      /\ \A r \in Ids : bits'[r].top = bits[r].top
  BY <1>1, <1>3
<1>6. Bounded'
  BY <1>1, BoundedStill DEF Places
<1>7. Flushes'
  <2>1. \A v \in Windows : Flushing(v) => Flushing(v)' /\ surface'[v] = surface[v]
    BY <1>1, <1>2 DEF Flushing
  <2> QED
    BY <1>1, <1>5, <2>1, FlushesStill
<1>8. TypeOK'
  <2>1. bits' \in [Ids -> [top : Half, bottom : Half]]
    BY <1>1, <1>3 DEF RInv, TypeOK
  <2>2. pixel' \in [Ids -> Windows \cup {Main, Nobody}]
    BY <1>1, <1>3
  <2>3. at' \in [Windows -> {"idle", "add", "paint", "report", "bump", "bumpFree", "free"}]
    BY <1>2 DEF RInv, TypeOK
  <2> QED
    BY <1>1, <2>1, <2>2, <2>3 DEF RInv, TypeOK
<1>9. Painting'
  <2>1. ASSUME NEW v \in Windows, at'[v] = "paint"
        PROVE  pixel'[surface[v]] = v /\ bits'[surface[v]].top = bits'[surface[v]].bottom + 1
    <3>1. at[v] = "paint" /\ surface[v] # s /\ surface[v] \in Ids
      BY <1>2, <1>3, <1>4, <2>1 DEF RInv, IInv, Busy
    <3> QED
      BY <1>5, <3>1 DEF RInv, Painting
  <2>2. \A r \in Ids : pixel'[r] \notin Windows => bits'[r].top = bits'[r].bottom
    BY <1>5 DEF RInv, Painting
  <2> QED
    BY <1>1, <2>1, <2>2 DEF Painting
<1>10. Reading'
  <2>1. ASSUME mpc = "read"
        PROVE  current.id # s /\ current.id \in Ids
    <3>1. pixel[s] = w /\ w # Main
      BY <1>1, DisplayAssumption DEF RInv, Painting
    <3> QED
      BY <2>1, <3>1 DEF RInv, Reading, TypeOK, IInv, Copying, Listed, Used, Info
  <2> QED
    BY <1>1, <1>5, <2>1, ReadingStill
<1>11. Reported'
  BY <1>1, <1>2, <1>5, ReportedStill
<1>12. Picked'
  <2>1. \A v \in Windows : at'[v] = "add" => at[v] = "add"
    BY <1>2
  <2> QED
    BY <1>1, <1>5, <2>1, PickedStill DEF RInv, Picked
<1>13. Presented'
  BY <1>1, PresentedStill DEF Listed, Used
<1> QED
  BY <1>6, <1>7, <1>8, <1>9, <1>10, <1>11, <1>12, <1>13 DEF RInv

LEMMA FreeStep ==
  ASSUME RInv, IInv', NEW w \in Windows, Free(w)
  PROVE  RInv'
<1>1. /\ at[w] = "free" /\ alive' = alive \ {surface[w]} /\ Go(w, "idle")
      /\ surface' = [surface EXCEPT ![w] = 0]
      /\ UNCHANGED <<bits, pixel, nextId, placedId, slot, reg, change, dropped>>
      /\ UNCHANGED <<mpc, lastChange, lastPixel, current, buf, shown>>
  BY DEF Free, registry, presenter
<1>2. /\ at' = [at EXCEPT ![w] = "idle"] /\ at'[w] = "idle"
      /\ \A v \in Windows \ {w} : at'[v] = at[v] /\ surface'[v] = surface[v]
  BY <1>1, Types DEF RInv, Go
<1>3. Bounded'
  BY <1>1, BoundedStill DEF Places
<1>4. TypeOK'
  BY <1>1, <1>2 DEF RInv, TypeOK
<1>5. Flushes'
  BY <1>1, <1>2, FlushesStill DEF Flushing
<1>6. Painting'
  BY <1>1, <1>2, PaintingStill
<1>7. Reading'
  BY <1>1, ReadingStill
<1>8. Reported'
  BY <1>1, <1>2, ReportedStill
<1>9. Picked'
  <2>1. \A v \in Windows : at'[v] = "add" => at[v] = "add" /\ surface'[v] = surface[v]
    BY <1>2
  <2> QED
    BY <1>1, <2>1, PickedStill DEF RInv, Picked
<1>10. Presented'
  BY <1>1, PresentedStill DEF Listed, Used
<1> QED
  BY <1>3, <1>4, <1>5, <1>6, <1>7, <1>8, <1>9, <1>10 DEF RInv

LEMMA BumpStep ==
  ASSUME RInv, IInv', NEW w \in Windows, Bump(w)
  PROVE  RInv'
<1>1. /\ at[w] \in {"bump", "bumpFree"} /\ change' = change + 1
      /\ UNCHANGED <<alive, bits, pixel, nextId, surface, placedId, slot, reg, dropped>>
      /\ UNCHANGED <<mpc, lastChange, lastPixel, current, buf, shown>>
  BY DEF Bump, presenter
<1>2. PICK place \in {"idle", "free"} : Go(w, place)
  BY DEF Bump
<1>3. /\ at' = [at EXCEPT ![w] = place] /\ at'[w] = place
      /\ \A v \in Windows \ {w} : at'[v] = at[v]
  BY <1>1, <1>2, Types DEF RInv, Go
<1>4. Bounded' /\ change < MaxChanges
  BY <1>1, <1>2, BoundedBump
<1>5. TypeOK'
  <2>1. change + 1 \in 1..MaxChanges
    BY <1>4, DisplayAssumption DEF RInv, TypeOK
  <2> QED
    BY <1>1, <1>3, <2>1 DEF RInv, TypeOK
<1>6. Flushes'
  <2>1. change \in Nat /\ \A s \in Ids : bits[s].top \in Nat /\ bits[s].top <= change
    BY Types DEF RInv, Flushes
  <2> QED
    BY <1>1, <2>1 DEF Flushes
<1>7. Painting'
  BY <1>1, <1>3, PaintingStill
<1>8. Reading'
  BY <1>1, ReadingStill
<1>9. Reported'
  BY <1>1, <1>3, ReportedStill
<1>10. Picked'
  <2>1. \A v \in Windows : at'[v] = "add" => at[v] = "add"
    BY <1>3
  <2> QED
    BY <1>1, <2>1, PickedStill DEF RInv, Picked
<1>11. Presented'
  BY <1>1, PresentedStill DEF Listed, Used
<1> QED
  BY <1>4, <1>5, <1>6, <1>7, <1>8, <1>9, <1>10, <1>11 DEF RInv

-----------------------------------------------------------------------------
(* The steps of the main thread.                                           *)

LEMMA GreatestIn ==
  ASSUME NEW S, S \subseteq Slots, S # {}
  PROVE  Greatest(S) \in S
<1> DEFINE T == {MaxSurfaces - i : i \in S}
<1>1. \A i \in S : i \in Nat /\ i <= MaxSurfaces /\ MaxSurfaces \in Nat
  BY DisplayAssumption DEF Slots
<1>2. T \subseteq Nat /\ T # {}
  BY <1>1
<1>3. PICK t \in T : \A u \in T : <<u, t>> \notin OpToRel(<, Nat)
  <2>1. \E t \in T : \A u \in T : ~(<<u, t>> \in OpToRel(<, Nat))
    BY <1>2, NatLessThanWellFounded, WFMin, Zenon
  <2> QED
    BY <2>1, Zenon
<1>4. \A u \in T : ~(u < t)
  BY <1>2, <1>3, LessIsWF, Zenon
<1>5. PICK i \in S : t = MaxSurfaces - i
  OBVIOUS
<1>6. \A j \in S : MaxSurfaces - j \in T
  OBVIOUS
<1>7. \A j \in S : j <= i
  BY <1>1, <1>4, <1>5, <1>6
<1> QED
  BY <1>7 DEF Greatest

\* What tick() presents is in the list, unless that is empty.
LEMMA PickUsed ==
  ASSUME Used # {}
  PROVE  \E i \in Used : Pick = slot[i]
<1>1. Visible \subseteq Used /\ Used \subseteq Slots
  BY DEF Visible, Used
<1>2. CASE Visible # {}
  BY <1>1, <1>2, GreatestIn DEF Pick
<1>3. CASE Visible = {}
  BY <1>1, <1>3, GreatestIn DEF Pick
<1> QED
  BY <1>2, <1>3

\* The main thread's steps leave the driver and the slots alone.
LEMMA WatchedStep ==
  ASSUME RInv, IInv', UNCHANGED <<alive, bits, nextId, surface, placedId, at>>,
         UNCHANGED <<slot, change, dropped>>,
         pixel' \in [Ids -> Windows \cup {Main, Nobody}],
         reg' \in {Main, Nobody}, lastChange' \in 0..MaxChanges,
         lastPixel' \in 0..MaxChanges,
         mpc' \in {"idle", "list", "copy", "lock", "read"},
         buf' \in Half, shown' \in [id : Ids \cup {0}, top : Half, bottom : Half],
         current' \in Info \cup {NoInfo},
         Painting', Reading', Picked', Presented'
  PROVE  RInv'
<1>1. Bounded' /\ Flushes' /\ Reported'
  BY DEF RInv, Bounded, Bumping, Flushes, Flushing, Reported, Used
<1>2. (reg = Main)' = (mpc \in {"lock", "read"})'
  BY DEF IInv, Copying
<1>3. TypeOK'
  BY <1>2 DEF RInv, TypeOK
<1> QED
  BY <1>1, <1>3 DEF RInv


LEMMA TickStep ==
  ASSUME RInv, IInv', Tick \/ UNCHANGED vars
  PROVE  RInv'
<1>1. /\ UNCHANGED <<alive, bits, pixel, nextId, surface, placedId, at, slot, reg, change, dropped>>
      /\ UNCHANGED <<lastPixel, current, buf, shown>>
      /\ lastChange' \in {lastChange, change} /\ change \in 0..MaxChanges
      /\ mpc' = mpc \/ (mpc = "idle" /\ mpc' = "list")
  BY DisplayAssumption DEF Tick, vars, driver, registry, presenter, RInv, TypeOK
<1>2. Painting' /\ Picked'
  BY <1>1 DEF RInv, Painting, Picked
<1>3. Reading'
  BY <1>1 DEF RInv, Reading
<1>4. Presented'
  BY <1>1 DEF RInv, Presented, Listed, Used
<1> QED
  BY <1>1, <1>2, <1>3, <1>4, WatchedStep DEF RInv, TypeOK

\* If the list is empty, the screen is.
LEMMA ListNoneStep ==
  ASSUME RInv, IInv', ListNone
  PROVE  RInv'
<1>1. /\ UNCHANGED <<alive, bits, pixel, nextId, surface, placedId, at, slot, reg, change, dropped>>
      /\ UNCHANGED <<lastChange, lastPixel, buf>>
      /\ Used = {} /\ current' = NoInfo /\ shown' = Blank /\ mpc' = "idle"
  BY DEF ListNone, driver, registry
<1>2. Painting' /\ Picked' /\ Reading'
  BY <1>1 DEF RInv, Painting, Picked, Reading
<1>3. Presented'
  BY <1>1 DEF Presented, Listed, Used
<1>4. Blank \in [id : Ids \cup {0}, top : Half, bottom : Half]
  BY DisplayAssumption DEF Blank, Half
<1> QED
  BY <1>1, <1>2, <1>3, <1>4, WatchedStep DEF RInv, TypeOK

\* What is picked is listed; if it need not be copied, it is on screen.
LEMMA ListPickStep ==
  ASSUME RInv, IInv', ListPick
  PROVE  RInv'
<1>1. /\ UNCHANGED <<alive, bits, pixel, nextId, surface, placedId, at, slot, reg, change, dropped>>
      /\ UNCHANGED <<lastChange, lastPixel, buf, shown>>
      /\ Used # {} /\ current' = Pick /\ mpc = "list"
      /\ mpc' = IF SameFrame(Pick) THEN "idle" ELSE "copy"
  BY DEF ListPick, driver, registry
<1>2. PICK i \in Used : Pick = slot[i]
  BY <1>1, PickUsed
<1>3. slot[i] \in Info /\ slot[i].id \in Ids /\ slot[i].id \in Listed
  BY DEF RInv, TypeOK, Used, Info, Listed
<1>4. Picked'
  <2>1. slot[i].id < nextId
    BY <1>3, ListedAlive DEF RInv
  <2>2. bits[slot[i].id].top \in Nat
    BY <1>3, Types DEF RInv
  <2>3. slot[i].seq <= bits[slot[i].id].top
    BY <2>2 DEF RInv, Reported
  <2>4. ASSUME NEW w \in Windows, at[w] = "add"
        PROVE  surface[w] # slot[i].id
    <3>1. PICK v \in Windows : Known(v) /\ surface[v] = slot[i].id
      BY <1>3, Exact DEF RInv, IInv
    <3> QED
      BY <2>4, <3>1 DEF Known, RInv, IInv, Owned
  <2> QED
    BY <1>1, <1>2, <1>3, <2>1, <2>3, <2>4 DEF Picked
<1>5. Presented'
  <2>1. Listed' = Listed
    BY <1>1 DEF Listed, Used
  <2> QED
    BY <1>1, <1>2, <1>3, <2>1 DEF RInv, Presented, SameFrame
<1>6. Painting' /\ Reading'
  BY <1>1 DEF RInv, Painting, Reading
<1> QED
  BY <1>1, <1>2, <1>3, <1>4, <1>5, <1>6, WatchedStep DEF RInv, TypeOK

\* A surface that is not found has gone for good.
LEMMA CopyFindStep ==
  ASSUME RInv, IInv', CopyFind
  PROVE  RInv'
<1>1. /\ UNCHANGED <<alive, bits, pixel, nextId, surface, placedId, at, slot, change, dropped>>
      /\ UNCHANGED <<lastChange, lastPixel, current, buf, shown>>
      /\ reg' \in {Main, Nobody}
      /\ mpc' = IF Find(current.id) = {} THEN "idle" ELSE "lock"
  BY DEF CopyFind, driver
<1>2. Painting' /\ Picked' /\ Reading'
  BY <1>1 DEF RInv, Painting, Picked, Reading
<1>3. Presented'
  <2>1. Listed' = Listed
    BY <1>1 DEF Listed, Used
  <2>2. Find(current.id) = {} => current.id \notin Listed
    BY FindExact DEF RInv, Listed
  <2> QED
    BY <1>1, <2>1, <2>2 DEF Presented
<1> QED
  BY <1>1, <1>2, <1>3, WatchedStep DEF RInv, TypeOK

LEMMA CopyLockStep ==
  ASSUME RInv, IInv', CopyLock
  PROVE  RInv'
<1>1. /\ UNCHANGED <<alive, bits, nextId, surface, placedId, at, slot, reg, change, dropped>>
      /\ UNCHANGED <<lastChange, lastPixel, current, shown>>
      /\ pixel[current.id] = Nobody /\ pixel' = [pixel EXCEPT ![current.id] = Main]
      /\ mpc = "lock" /\ mpc' = "read" /\ buf' = bits[current.id].top
  BY DEF CopyLock, registry
<1>2. current.id \in Ids
  BY <1>1 DEF RInv, TypeOK, IInv, Copying, Listed, Used, Info
<1>3. /\ pixel' \in [Ids -> Windows \cup {Main, Nobody}] /\ pixel'[current.id] = Main
      /\ \A s \in Ids \ {current.id} : pixel'[s] = pixel[s]
  BY <1>1, <1>2 DEF RInv, TypeOK
<1>4. buf' \in Half
  BY <1>1, <1>2 DEF RInv, TypeOK
<1>5. Painting'
  <2>1. ASSUME NEW w \in Windows, at[w] = "paint"
        PROVE  pixel'[surface[w]] = w
    <3>1. pixel[surface[w]] = w /\ surface[w] \in Ids /\ w # Nobody
      BY <2>1, Types, DisplayAssumption DEF RInv, Painting, IInv, Busy
    <3> QED
      BY <1>1, <1>3, <3>1
  <2>2. \A s \in Ids : pixel'[s] \notin Windows => bits[s].top = bits[s].bottom
    BY <1>1, <1>3, DisplayAssumption DEF RInv, Painting
  <2> QED
    BY <1>1, <2>1, <2>2 DEF RInv, Painting
<1>6. Reading' /\ Picked' /\ Presented'
  BY <1>1, <1>3 DEF RInv, Reading, Picked, Presented
<1> QED
  BY <1>1, <1>3, <1>4, <1>5, <1>6, WatchedStep DEF RInv, TypeOK

\* The frame that goes up has all that the list had counted.
LEMMA CopyEndStep ==
  ASSUME RInv, IInv', CopyEnd
  PROVE  RInv'
<1>1. /\ UNCHANGED <<alive, bits, nextId, surface, placedId, at, slot, change, dropped>>
      /\ UNCHANGED <<lastChange, current, buf>>
      /\ pixel' = [pixel EXCEPT ![current.id] = Nobody] /\ reg' = Nobody
      /\ lastPixel' = current.seq /\ mpc = "read" /\ mpc' = "idle"
      /\ shown' = [id |-> current.id, top |-> buf, bottom |-> bits[current.id].bottom]
  BY DEF CopyEnd
<1>2. current.id \in Ids /\ current # NoInfo /\ current \in Info
  <2>1. current.id \in Ids
    BY <1>1 DEF RInv, TypeOK, IInv, Copying, Listed, Used, Info
  <2>2. current # NoInfo
    BY <2>1 DEF NoInfo, Ids
  <2> QED
    BY <2>1, <2>2 DEF RInv, TypeOK
<1>3. /\ pixel' \in [Ids -> Windows \cup {Main, Nobody}] /\ pixel'[current.id] = Nobody
      /\ \A s \in Ids \ {current.id} : pixel'[s] = pixel[s]
  BY <1>1, <1>2 DEF RInv, TypeOK
<1>4. pixel[current.id] = Main /\ buf = bits[current.id].top
  BY <1>1 DEF RInv, Reading
<1>5. Painting'
  <2>1. ASSUME NEW w \in Windows, at[w] = "paint"
        PROVE  pixel'[surface[w]] = w
    <3>1. pixel[surface[w]] = w /\ surface[w] \in Ids /\ w # Main
      BY <2>1, Types, DisplayAssumption DEF RInv, Painting, IInv, Busy
    <3> QED
      BY <1>3, <1>4, <3>1
  <2>2. \A s \in Ids : pixel'[s] \notin Windows => bits[s].top = bits[s].bottom
    BY <1>3, <1>4, DisplayAssumption DEF RInv, Painting
  <2> QED
    BY <1>1, <2>1, <2>2 DEF RInv, Painting
<1>6. Reading' /\ Picked'
  BY <1>1 DEF RInv, Reading, Picked
<1>7. Presented'
  BY <1>1, <1>2, <1>4 DEF RInv, Picked, Presented
<1>8. shown' \in [id : Ids \cup {0}, top : Half, bottom : Half]
  BY <1>1, <1>2 DEF RInv, TypeOK
<1>9. current.seq \in 0..MaxChanges
  BY <1>2 DEF Info
<1> QED
  BY <1>1, <1>3, <1>5, <1>6, <1>7, <1>8, <1>9, WatchedStep DEF RInv, TypeOK

-----------------------------------------------------------------------------
LEMMA RInitial == Init => RInv
<1> SUFFICES ASSUME Init PROVE RInv
  OBVIOUS
<1>1. IInv
  BY Initial
<1>2. Used = {} /\ Bumping = {}
  BY DEF Init, Used, Bumping
<1>3. TypeOK
  <2>1. /\ 0 \in Half /\ 1 \in 1..MaxChanges /\ 0 \in 0..MaxChanges /\ 1 \in 1..(MaxIds + 1)
        /\ Main # Nobody
    BY DisplayAssumption DEF Half
  <2>2. Blank \in [id : Ids \cup {0}, top : Half, bottom : Half]
    BY <2>1 DEF Blank
  <2>3. bits \in [Ids -> [top : Half, bottom : Half]]
    BY <2>1 DEF Init
  <2> QED
    BY <2>1, <2>2, <2>3 DEF Init, TypeOK
<1>4. Bounded
  <2>1. Cardinality(Bumping) = 0
    BY <1>2, FS_EmptySet, Zenon
  <2> QED
    BY <2>1, DisplayAssumption DEF Init, Bounded
<1>5. Flushes /\ Painting /\ Reading
  BY DEF Init, Flushes, Painting, Reading
<1>6. Reported /\ Picked /\ Presented
  BY <1>2 DEF Init, Reported, Picked, Presented, Listed
<1> QED
  BY <1>1, <1>3, <1>4, <1>5, <1>6 DEF RInv

LEMMA RKept == RInv /\ [Next]_vars => RInv'
<1> SUFFICES ASSUME RInv, [Next]_vars PROVE RInv'
  OBVIOUS
<1>1. IInv'
  BY Kept DEF RInv
<1>2. ASSUME NEW w \in Windows, Begin(w)
      PROVE  RInv'
  BY <1>1, <1>2, CreateStep, PlacedStep, FlushStep, RemovedStep DEF Begin
<1>3. ASSUME NEW w \in Windows, Finish(w)
      PROVE  RInv'
  BY <1>1, <1>3, AddedStep, PaintedStep, UpdatedStep, FreeStep, BumpStep DEF Finish
<1>4. CASE Present
  BY <1>1, <1>4, TickStep, ListNoneStep, ListPickStep, CopyFindStep, CopyLockStep, CopyEndStep
     DEF Present
<1>5. CASE UNCHANGED vars
  BY <1>1, <1>5, TickStep
<1> QED
  BY <1>2, <1>3, <1>4, <1>5 DEF Next

LEMMA RInvariant == Spec => []RInv
<1>1. Init => RInv
  BY RInitial
<1>2. RInv /\ [Next]_vars => RInv'
  BY RKept
<1> QED
  BY <1>1, <1>2, PTL DEF Spec


-----------------------------------------------------------------------------
(* The refinement.                                                         *)

Gone == {s \in Ids : s < nextId} \ (Listed \cup Arriving \cup dropped)
Frame == [s \in Ids |-> bits[s].bottom]

LEMMA RefineInit == Init => Bridge!SInit
<1> SUFFICES ASSUME Init PROVE Bridge!SInit
  OBVIOUS
<1>1. Listed = {}
  BY DEF Init, Listed, Used
<1>2. Gone = {}
  BY DEF Init, Gone, Ids
<1>3. Frame = [s \in Ids |-> 0]
  BY DEF Init, Frame
<1> QED
  BY <1>1, <1>2, <1>3 DEF Init, Bridge!SInit, Gone, Frame

\* A step that the promise does not see.
LEMMA Unseen ==
  ASSUME UNCHANGED shown, Listed' = Listed, Gone' = Gone, Frame' = Frame
  PROVE  [Bridge!SNext]_Bridge!svars
BY DEF Bridge!svars, Gone, Frame

LEMMA SameFrames ==
  ASSUME \A s \in Ids : bits'[s].bottom = bits[s].bottom
  PROVE  Frame' = Frame
BY DEF Frame

LEMMA CreateRefines ==
  ASSUME RInv, NEW w \in Windows, Create(w)
  PROVE  [Bridge!SNext]_Bridge!svars
<1>1. /\ at[w] = "idle" /\ Go(w, "add") /\ nextId' = nextId + 1
      /\ surface' = [surface EXCEPT ![w] = nextId]
      /\ UNCHANGED <<bits, slot, dropped, shown>> /\ nextId \in Ids
  BY DEF Create, Ready, registry, presenter
<1>2. Arriving' = Arriving \cup {nextId}
  BY <1>1, Types DEF RInv, Arriving, Go
<1>3. Listed' = Listed
  BY <1>1 DEF Listed, Used
<1>4. Gone' = Gone
  BY <1>1, <1>2, <1>3 DEF Gone, Ids
<1> QED
  BY <1>1, <1>3, <1>4, SameFrames, Unseen

\* Surfaces that are neither registered nor taken back do not arrive either.
LEMMA SameArriving ==
  ASSUME RInv, NEW w \in Windows, NEW place, Go(w, place), at[w] # "add", place # "add",
         \A v \in Windows : at[v] = "add" => surface'[v] = surface[v]
  PROVE  Arriving' = Arriving
<1>1. \A v \in Windows : at'[v] = "add" <=> at[v] = "add"
  BY Types DEF RInv, Go
<1> QED
  BY <1>1 DEF Arriving

LEMMA AddedRefines ==
  ASSUME RInv, NEW w \in Windows, Added(w)
  PROVE  [Bridge!SNext]_Bridge!svars
<1> DEFINE s == surface[w]
<1>1. /\ at[w] = "add" /\ Add(s) /\ Go(w, "bump")
      /\ UNCHANGED <<bits, nextId, surface, shown>>
  BY DEF Added, presenter
<1>2. /\ s \in Ids /\ s < nextId /\ s \notin dropped
      /\ \A v \in Windows : surface[v] = s => v = w
  BY <1>1, Types, DisplayAssumption DEF RInv, IInv, Busy, Drops, Owned, Ids
<1>3. s \notin Listed
  BY <1>1, <1>2, Exact DEF RInv, IInv, Known
<1>4. \/ Listed' = Listed \cup {s} /\ dropped' = dropped
      \/ Listed' = Listed /\ dropped' = dropped \cup {s}
  BY <1>1, <1>2, <1>3, AddStep DEF RInv, Ids
<1>5. Arriving' = Arriving \ {s} /\ s \in Arriving
  <2>1. \A v \in Windows : at'[v] = "add" <=> at[v] = "add" /\ v # w
    BY <1>1, Types DEF RInv, Go
  <2> QED
    BY <1>1, <1>2, <2>1 DEF Arriving
<1>6. Gone' = Gone /\ s \notin Gone /\ Frame' = Frame
  BY <1>1, <1>4, <1>5, SameFrames DEF Gone
<1>7. CASE Listed' = Listed
  BY <1>1, <1>6, <1>7, Unseen
<1>8. CASE Listed' = Listed \cup {s}
  <2>1. Bridge!Appear(s)
    BY <1>1, <1>3, <1>6, <1>8 DEF Bridge!Appear, Gone, Frame
  <2> QED
    BY <1>2, <2>1 DEF Bridge!SNext
<1> QED
  BY <1>4, <1>7, <1>8

LEMMA RemovedRefines ==
  ASSUME RInv, NEW w \in Windows, Removed(w)
  PROVE  [Bridge!SNext]_Bridge!svars
<1> DEFINE s == surface[w]
<1>1. /\ at[w] = "idle" /\ s # 0 /\ Remove(s) /\ Go(w, "bumpFree")
      /\ UNCHANGED <<bits, nextId, surface, dropped, shown>>
  BY DEF Removed, Ready, presenter
<1>2. /\ s \in Ids /\ s < nextId /\ s \in Nat
      /\ \A v \in Windows : surface[v] = s => v = w
  BY <1>1, Types, DisplayAssumption DEF RInv, IInv, Owned, Ids
<1>3. Listed' = Listed \ {s}
  BY <1>1, <1>2, RemoveStep DEF RInv
<1>4. Arriving' = Arriving /\ s \notin Arriving
  BY <1>1, <1>2, SameArriving DEF Arriving
<1>5. Frame' = Frame
  BY <1>1, SameFrames
<1>6. CASE s \notin Listed
  <2>1. Listed' = Listed
    BY <1>3, <1>6
  <2>2. Gone' = Gone
    BY <1>1, <1>4, <2>1 DEF Gone
  <2> QED
    BY <1>1, <1>5, <2>1, <2>2, Unseen
<1>7. CASE s \in Listed
  <2>1. s \notin dropped
    BY <1>7, Exact DEF RInv, IInv
  <2>2. Gone' = Gone \cup {s}
    BY <1>1, <1>2, <1>3, <1>4, <2>1 DEF Gone
  <2>3. \E r \in Ids : Bridge!Vanish(r)
    BY <1>1, <1>2, <1>3, <1>5, <1>7, <2>2 DEF Bridge!Vanish, Gone, Frame
  <2> QED
    BY <2>3 DEF Bridge!SNext
<1> QED
  BY <1>6, <1>7

LEMMA PaintedRefines ==
  ASSUME RInv, NEW w \in Windows, Painted(w)
  PROVE  [Bridge!SNext]_Bridge!svars
<1> DEFINE s == surface[w]
<1>1. /\ at[w] = "paint" /\ Go(w, "report")
      /\ bits' = [bits EXCEPT ![s].bottom = bits[s].top]
      /\ UNCHANGED <<nextId, surface, slot, dropped, shown>>
  BY DEF Painted, registry, presenter
<1>2. s \in Ids /\ bits \in [Ids -> [top : Nat, bottom : Nat]]
  BY <1>1, Types DEF RInv, IInv, Busy
<1>3. Listed' = Listed /\ Arriving' = Arriving
  BY <1>1, SameArriving DEF Listed, Used
<1>4. Gone' = Gone
  BY <1>1, <1>3 DEF Gone
<1>5. bits[s].top = bits[s].bottom + 1
  BY <1>1 DEF RInv, Painting
<1>6. Frame' = [Frame EXCEPT ![s] = @ + 1]
  BY <1>1, <1>2, <1>5 DEF Frame
<1>7. \E r \in Ids : Bridge!Paint(r)
  BY <1>1, <1>2, <1>3, <1>4, <1>6 DEF Bridge!Paint, Gone, Frame
<1> QED
  BY <1>7 DEF Bridge!SNext

\* The other steps of a guest show in no frame and in no list.
LEMMA GuestRefines ==
  ASSUME RInv, NEW w \in Windows, Begin(w) \/ Finish(w)
  PROVE  [Bridge!SNext]_Bridge!svars
<1>1. CASE Create(w) \/ Added(w) \/ Removed(w) \/ Painted(w)
  BY <1>1, CreateRefines, AddedRefines, RemovedRefines, PaintedRefines
<1>2. CASE Placed(w)
  <2>1. /\ at[w] = "idle" /\ Go(w, "bump") /\ \E v \in BOOLEAN : SetVisible(placedId[w], v)
        /\ UNCHANGED <<bits, nextId, surface, dropped, shown>>
    BY <1>2 DEF Placed, Ready, presenter
  <2>2. Listed' = Listed /\ Arriving' = Arriving
    BY <2>1, ReportStep, SameArriving DEF RInv
  <2>3. Gone' = Gone
    BY <2>1, <2>2 DEF Gone
  <2> QED
    BY <2>1, <2>2, <2>3, SameFrames, Unseen
<1>3. CASE Flush(w)
  <2>1. /\ at[w] = "idle" /\ Go(w, "paint") /\ bits' = [bits EXCEPT ![surface[w]].top = @ + 1]
        /\ UNCHANGED <<nextId, surface, slot, dropped, shown>>
    BY <1>3 DEF Flush, Ready, registry, presenter
  <2>2. Listed' = Listed /\ Arriving' = Arriving
    BY <2>1, SameArriving DEF Listed, Used
  <2>3. Gone' = Gone
    BY <2>1, <2>2 DEF Gone
  <2>4. \A s \in Ids : bits'[s].bottom = bits[s].bottom
    BY <2>1, Types DEF RInv
  <2> QED
    BY <2>1, <2>2, <2>3, <2>4, SameFrames, Unseen
<1>4. CASE Updated(w)
  <2>1. /\ at[w] = "report" /\ Go(w, "bump") /\ Count(surface[w])
        /\ UNCHANGED <<bits, nextId, surface, dropped, shown>>
    BY <1>4 DEF Updated, presenter
  <2>2. Listed' = Listed /\ Arriving' = Arriving
    BY <2>1, ReportStep, SameArriving DEF RInv
  <2>3. Gone' = Gone
    BY <2>1, <2>2 DEF Gone
  <2> QED
    BY <2>1, <2>2, <2>3, SameFrames, Unseen
<1>5. CASE Free(w) \/ Bump(w)
  <2>1. /\ at[w] \in {"free", "bump", "bumpFree"}
        /\ \E place \in {"idle", "free"} : Go(w, place)
        /\ surface' = surface \/ (at[w] = "free" /\ surface' = [surface EXCEPT ![w] = 0])
        /\ UNCHANGED <<bits, nextId, slot, dropped, shown>>
    BY <1>5 DEF Free, Bump, registry, presenter
  <2>2. \A v \in Windows : at[v] = "add" => surface'[v] = surface[v]
    BY <2>1, Types DEF RInv
  <2>3. Listed' = Listed /\ Arriving' = Arriving
    BY <2>1, <2>2, SameArriving DEF Listed, Used
  <2>4. Gone' = Gone
    BY <2>1, <2>3 DEF Gone
  <2> QED
    BY <2>1, <2>3, <2>4, SameFrames, Unseen
<1> QED
  BY <1>1, <1>2, <1>3, <1>4, <1>5 DEF Begin, Finish

\* The screen is cleared, or shows a frame that was taken under both locks.
LEMMA PresentRefines ==
  ASSUME RInv, Present \/ UNCHANGED vars
  PROVE  [Bridge!SNext]_Bridge!svars
<1>1. UNCHANGED <<bits, nextId, surface, at, slot, dropped>>
  BY DEF Present, Tick, ListNone, ListPick, CopyFind, CopyLock, CopyEnd,
         vars, driver, registry
<1>2. Listed' = Listed /\ Gone' = Gone /\ Frame' = Frame
  BY <1>1, SameFrames DEF Listed, Used, Gone, Arriving
<1>3. CASE ListNone
  <2>1. Listed = {} /\ shown' = Blank
    BY <1>3 DEF ListNone, Listed
  <2>2. Bridge!Clear
    BY <1>2, <2>1 DEF Bridge!Clear, Gone, Frame
  <2> QED
    BY <2>2 DEF Bridge!SNext
<1>4. CASE CopyEnd
  <2> DEFINE s == current.id
  <2>1. mpc = "read" /\ shown' = [id |-> s, top |-> buf, bottom |-> bits[s].bottom]
    BY <1>4 DEF CopyEnd
  <2>2. s \in Listed /\ s \in Ids
    BY <2>1 DEF RInv, TypeOK, IInv, Copying, Listed, Used, Info
  <2>3. pixel[s] = Main /\ buf = bits[s].top
    BY <2>1 DEF RInv, Reading
  <2>4. buf = Frame[s] /\ bits[s].bottom = Frame[s]
    BY <2>2, <2>3, DisplayAssumption DEF RInv, Painting, Frame
  <2>5. Bridge!Show(s)
    BY <1>2, <2>1, <2>2, <2>4 DEF Bridge!Show, Gone, Frame
  <2> QED
    BY <2>2, <2>5 DEF Bridge!SNext
<1>5. CASE UNCHANGED shown
  BY <1>2, <1>5, Unseen
<1>6. Present \/ UNCHANGED vars => ListNone \/ CopyEnd \/ UNCHANGED shown
  BY DEF Present, Tick, ListPick, CopyFind, CopyLock, vars, presenter
<1> QED
  BY <1>3, <1>4, <1>5, <1>6

LEMMA StepRefines == RInv /\ [Next]_vars => [Bridge!SNext]_Bridge!svars
BY GuestRefines, PresentRefines DEF Next

-----------------------------------------------------------------------------
(* Every reachable state is typed: no count goes past its bound, and the   *)
(* main thread holds reg_mutex just while it copies.                       *)
THEOREM TypeCorrect == Spec => []TypeOK
<1>1. RInv => TypeOK
  BY DEF RInv
<1> QED
  BY <1>1, RInvariant, PTL

(* When tick() skips the copy, the frame is on screen already: no update   *)
(* is taken for one of another surface, and none is counted before it is   *)
(* painted.                                                                *)
THEOREM SkippedIsShownAlways == Spec => []SkippedIsShown
<1>1. RInv => SkippedIsShown
  <2> SUFFICES ASSUME RInv, mpc = "idle", current # NoInfo, SameFrame(current),
                      Find(current.id) # {}
               PROVE  shown.id = current.id /\ shown.top >= current.seq
    BY DEF SkippedIsShown
  <2>1. current.id \in Listed
    BY DEF Find, Listed
  <2> QED
    BY <2>1 DEF RInv, Presented, SameFrame
<1> QED
  BY <1>1, RInvariant, PTL

(* The bridge, its locks and the display link implement what wineios_host.h*)
(* promises: the picture changes in one moment, to the last whole frame of *)
(* a surface that the host still has.                                      *)
THEOREM ImplementsScreen == Spec => ScreenSpec
<1>1. Init => Bridge!SInit
  BY RefineInit
<1>2. RInv /\ [Next]_vars => [Bridge!SNext]_Bridge!svars
  BY StepRefines
<1> QED
  BY <1>1, <1>2, RInvariant, PTL DEF Spec, ScreenSpec, Bridge!ScreenLaw
=============================================================================
