-------------------------- MODULE InprocSpawnProofs --------------------------
(* Theorems about InprocSpawn, for any number of children, as long as those *)
(* that are there at one time fit into the tables with the primary process, *)
(* and any number of descriptors.                                          *)
EXTENDS InprocSpawn, FiniteSetTheorems, WellFoundedInduction, TLAPS

\* The rules: only the primary process exits, and the tables are never too
\* small (Room, below).
OnlyPrimaryExits == Exiters \subseteq {Primary}

(* The invariant.  It says for each stage of a child which of its things   *)
(* are there: its PEB, its entries in the tables, its descriptors.         *)

\* In the tables of sockets and images; perhaps, and surely, in that of caches;
\* with a socket.
Registered == {"setcache", "thread", "attach", "startup", "built", "done", "pe", "unregister"}
Empties == {"thread", "attach", "startup"}
Cached == Empties \cup {"built", "done", "pe"}
MayCache == Cached \cup {"unregister", "uncache"}
Undoing == {"unregister", "uncache", "free"}
HasSocket == Registered \cup Undoing \cup {"register"}
At(stages) == {c \in Children : child[c] \in stages}

\* There is a slot for the primary process and for each child that is there.
Room == IsFiniteSet(At(HasSocket)) /\ Cardinality(At(HasSocket)) < MaxProcs

Entry(values) == [peb : Pebs \cup {NoPeb}, val : values]
Shaped ==
  /\ sockets \in [Slots -> Entry(Fds \cup {NoFd})]
  /\ images \in [Slots -> Entry(Procs)]
  /\ caches \in [Slots -> Entry(Fds \cup {NoFd})]

\* Processes that are there have PEBs of their own.
OwnPebs ==
  /\ peb[Primary] = FirstPeb /\ child[Primary] \in {"pe", "exited"}
  /\ \A c \in Children :
       /\ child[c] \in HasSocket \cup {"none", "gone", "undone"}
       /\ peb[c] = NoPeb <=> child[c] \in {"none", "undone"}
  /\ \A p, q \in Procs : peb[p] = peb[q] /\ peb[p] # NoPeb => p = q

\* A table has one entry at most for each PEB, each for one of some processes.
Keyed(table, pebs, procs) ==
  /\ \A i, j \in Slots : table[i].peb = table[j].peb /\ table[i].peb # NoPeb => i = j
  /\ \A i \in Slots : table[i].peb # NoPeb => \E p \in procs : table[i].peb = pebs[p]
In(table, pebs, p, v) == \E i \in Slots : table[i] = [peb |-> pebs[p], val |-> v]

Sockets ==
  /\ Keyed(sockets, peb, At(Registered) \cup {Primary})
  /\ In(sockets, peb, Primary, 0)
  /\ \A c \in At(Registered) : \E fd \in Held(c) : In(sockets, peb, c, fd)

Images ==
  /\ Keyed(images, peb, At(Registered))
  /\ \A c \in At(Registered) : In(images, peb, c, c)

Caches ==
  /\ Keyed(caches, peb, At(MayCache))
  /\ \A c \in At(Empties) : In(caches, peb, c, NoFd)
  /\ \A c \in At(Cached) : \E v \in Fds \cup {NoFd} : In(caches, peb, c, v)

\* A child has one socket; the one to be closed in the end is it.
Held1 ==
  /\ \A c \in Children : \A fd, e \in Held(c) : fd = e
  /\ \A c \in Children : Held(c) # {} <=> child[c] \in HasSocket
  /\ \A c \in At(Undoing) : closing[c] \in Held(c)

\* A child's files are those in its cache.
Files ==
  /\ \A c \in Children, fd \in Fds : desc[fd] = [of |-> c, use |-> "file"] =>
       c \in At(MayCache) /\ In(caches, peb, c, fd)
  /\ \A c \in At(MayCache), fd \in Fds : In(caches, peb, c, fd) =>
       desc[fd] = [of |-> c, use |-> "file"]

\* The primary process's are where it was born, until it exits.
PrimaryOwn ==
  /\ child[Primary] = "pe" => desc[0] = [of |-> Primary, use |-> "socket"]
  /\ first # NoFd => desc[first] = [of |-> Primary, use |-> "file"]

\* The parent is told of a child that has its parameters.
Told ==
  \A c \in Children :
    /\ child[c] \in {"built", "done", "pe"} \/ server[c] = "started" => built[c]
    /\ call[c] = "created" => server[c] = "started"
    /\ server[c] = "started" =>
         child[c] \notin {"none", "register", "setcache", "thread", "attach", "startup"}

IInv ==
  /\ TypeOK /\ Shaped /\ OwnPebs /\ Sockets /\ Images /\ Caches
  /\ Held1 /\ Files /\ PrimaryOwn /\ Told

-----------------------------------------------------------------------------
(* Numbers and tables.                                                     *)

LEMMA LessIsWF ==
  ASSUME NEW j \in Nat, NEW i \in Nat, j < i
  PROVE  <<j, i>> \in OpToRel(<, Nat)
BY DEF OpToRel

LEMMA MinIn ==
  ASSUME NEW S, S \subseteq Nat, S # {}
  PROVE  Min(S) \in S
<1>1. PICK i \in S : \A j \in S : <<j, i>> \notin OpToRel(<, Nat)
  <2>1. \E i \in S : \A j \in S : ~(<<j, i>> \in OpToRel(<, Nat))
    BY NatLessThanWellFounded, WFMin, Zenon
  <2> QED
    BY <2>1, Zenon
<1>2. i \in Nat /\ \A j \in S : j \in Nat
  OBVIOUS
<1>3. \A j \in S : ~(j < i)
  BY <1>1, <1>2, LessIsWF, Zenon
<1>4. \A j \in S : i <= j
  BY <1>2, <1>3
<1> QED
  BY <1>4 DEF Min

LEMMA SlotsFds == Slots \subseteq Nat /\ Fds \subseteq Nat /\ 0 \in Fds /\ NoFd \notin Fds
BY InprocSpawnAssumption DEF Slots, Fds, NoFd

LEMMA Names ==
  /\ NoPeb \notin Pebs /\ FirstPeb \in Pebs /\ FirstPeb # NoPeb
  /\ Primary \notin Children /\ Primary \in Procs /\ Children \subseteq Procs
BY InprocSpawnAssumption DEF Procs

\* An entry that is there is found.
LEMMA FindIn ==
  ASSUME NEW table, NEW p, NEW i \in Slots, With(table, p) = {i}
  PROVE  /\ Min(With(table, p)) = i
         /\ \A d : Find(table, p, d) = table[i].val
<1>1. Min({i}) = i
  BY SlotsFds, MinIn
<1> QED
  BY <1>1 DEF Find

LEMMA FindNone ==
  ASSUME NEW table, NEW p, NEW d, \A j \in Slots : table[j].peb # p
  PROVE  With(table, p) = {} /\ Find(table, p, d) = d
BY DEF With, Find

Clear(table, i, none) == [table EXCEPT ![i] = Empty(none)]
Put(table, k, p, v) == [table EXCEPT ![k] = [peb |-> p, val |-> v]]

\* A new entry goes into a free slot, an old one leaves a free slot behind.
LEMMA SetNew ==
  ASSUME NEW table, NEW p, NEW v, NEW none, v # none,
         \A j \in Slots : table[j].peb # p, FreeSlots(table) # {}
  PROVE  \E k \in Slots : /\ table[k].peb = NoPeb
                          /\ SetSlot(table, p, v, none) = Put(table, k, p, v)
<1>1. With(table, p) = {}
  BY DEF With
<1>2. Min(FreeSlots(table)) \in FreeSlots(table)
  BY MinIn, SlotsFds DEF FreeSlots, With
<1>3. SetSlot(table, p, v, none) = Put(table, Min(FreeSlots(table)), p, v)
  BY <1>1 DEF SetSlot, Put
<1> QED
  BY <1>2, <1>3 DEF FreeSlots, With

LEMMA SetDrop ==
  ASSUME NEW table, NEW p, NEW none, NEW i \in Slots, With(table, p) = {i}
  PROVE  SetSlot(table, p, none, none) = Clear(table, i, none)
<1>1. Min(With(table, p)) = i
  BY FindIn
<1> QED
  BY <1>1 DEF SetSlot, Clear

(* What the tables hold, by process.  The PEBs of the processes of a table *)
(* are distinct: Apart.                                                    *)
Apart(pebs) ==
  \A p, q \in Procs : pebs[p] = pebs[q] /\ pebs[p] # NoPeb => p = q

LEMMA Found ==
  ASSUME NEW table, NEW pebs, NEW procs, Keyed(table, pebs, procs),
         NEW p, NEW v, NEW d, In(table, pebs, p, v), pebs[p] # NoPeb
  PROVE  With(table, pebs[p]) # {} /\ Find(table, pebs[p], d) = v
<1>1. PICK i \in Slots : table[i] = [peb |-> pebs[p], val |-> v]
  BY DEF In
<1>2. table[i].peb = pebs[p] /\ table[i].val = v
  BY <1>1
<1>3. \A j \in Slots : table[j].peb = pebs[p] => j = i
  BY <1>2 DEF Keyed
<1>4. With(table, pebs[p]) = {i}
  BY <1>2, <1>3 DEF With
<1>5. Find(table, pebs[p], d) = table[i].val
  BY <1>4, FindIn
<1> QED
  BY <1>2, <1>4, <1>5

LEMMA NotFound ==
  ASSUME NEW table, NEW pebs, NEW procs \in SUBSET Procs, Keyed(table, pebs, procs),
         Apart(pebs), NEW p \in Procs, p \notin procs, pebs[p] # NoPeb, NEW d
  PROVE  /\ \A i \in Slots : table[i].peb # pebs[p]
         /\ With(table, pebs[p]) = {} /\ Find(table, pebs[p], d) = d
<1>1. \A i \in Slots : table[i].peb # pebs[p]
  BY DEF Keyed, Apart
<1> QED
  BY <1>1, FindNone

LEMMA PutTyped ==
  ASSUME NEW table, NEW V, table \in [Slots -> Entry(V)], NEW k \in Slots,
         NEW p \in Pebs, NEW v \in V
  PROVE  Put(table, k, p, v) \in [Slots -> Entry(V)]
<1>1. [peb |-> p, val |-> v] \in Entry(V)
  BY DEF Entry
<1> QED
  BY <1>1 DEF Put

LEMMA PutKeyed ==
  ASSUME NEW table, DOMAIN table = Slots, NEW pebs, Apart(pebs),
         NEW procs \in SUBSET Procs, Keyed(table, pebs, procs),
         NEW p \in Procs, pebs[p] # NoPeb, NEW v, NEW new, NEW k \in Slots,
         new = Put(table, k, pebs[p], v)
  PROVE  /\ table[k].peb = NoPeb /\ p \notin procs => Keyed(new, pebs, procs \cup {p})
         /\ table[k].peb = pebs[p] => Keyed(new, pebs, procs)
<1>1. new[k] = [peb |-> pebs[p], val |-> v] /\ \A i \in Slots \ {k} : new[i] = table[i]
  BY DEF Put
<1>2. new[k].peb = pebs[p]
  BY <1>1
<1>3. ASSUME table[k].peb = NoPeb, p \notin procs
      PROVE  Keyed(new, pebs, procs \cup {p})
  <2>1. \A i \in Slots : table[i].peb # pebs[p]
    BY <1>3 DEF Keyed, Apart
  <2>2. ASSUME NEW i \in Slots, NEW j \in Slots, new[i].peb = new[j].peb, new[i].peb # NoPeb
        PROVE  i = j
    BY <2>1, <2>2, <1>1, <1>2 DEF Keyed
  <2>3. ASSUME NEW i \in Slots, new[i].peb # NoPeb
        PROVE  \E q \in procs \cup {p} : new[i].peb = pebs[q]
    BY <2>3, <1>1, <1>2 DEF Keyed
  <2> QED
    BY <2>2, <2>3 DEF Keyed
<1>4. ASSUME table[k].peb = pebs[p]
      PROVE  Keyed(new, pebs, procs)
  <2>1. \A i \in Slots : new[i].peb = table[i].peb
    BY <1>1, <1>2, <1>4
  <2> QED
    BY <2>1 DEF Keyed
<1> QED
  BY <1>3, <1>4

LEMMA PutIn ==
  ASSUME NEW table, DOMAIN table = Slots, NEW pebs, Apart(pebs),
         NEW p \in Procs, pebs[p] # NoPeb, NEW v, NEW new, NEW k \in Slots,
         table[k].peb \in {NoPeb, pebs[p]}, new = Put(table, k, pebs[p], v)
  PROVE  /\ In(new, pebs, p, v)
         /\ \A q \in Procs : \A w : q # p /\ pebs[q] # NoPeb =>
              (In(table, pebs, q, w) <=> In(new, pebs, q, w))
<1>1. new[k] = [peb |-> pebs[p], val |-> v] /\ \A i \in Slots \ {k} : new[i] = table[i]
  BY DEF Put
<1>2. new[k].peb = pebs[p]
  BY <1>1
<1>3. In(new, pebs, p, v)
  BY <1>1 DEF In
<1>4. ASSUME NEW q \in Procs, NEW w, q # p, pebs[q] # NoPeb
      PROVE  In(table, pebs, q, w) <=> In(new, pebs, q, w)
  <2>1. pebs[q] # pebs[p]
    BY <1>4 DEF Apart
  <2>2. ASSUME NEW i \in Slots
        PROVE  table[i] = [peb |-> pebs[q], val |-> w] <=> new[i] = [peb |-> pebs[q], val |-> w]
    <3>1. CASE i = k
      <4>1. table[i] # [peb |-> pebs[q], val |-> w]
        BY <3>1, <2>1, <1>4
      <4>2. new[i] # [peb |-> pebs[q], val |-> w]
        BY <3>1, <2>1, <1>2
      <4> QED
        BY <4>1, <4>2
    <3>2. CASE i # k
      BY <3>2, <1>1
    <3> QED
      BY <3>1, <3>2
  <2> QED
    BY <2>2 DEF In
<1> QED
  BY <1>3, <1>4

\* A process's entry has been cleared.
Without(new, table, p, none) ==
  \A i \in Slots : new[i] = IF table[i].peb = p THEN Empty(none) ELSE table[i]

LEMMA ClearedKeyed ==
  ASSUME NEW table, NEW none, NEW pebs, NEW procs, Keyed(table, pebs, procs),
         NEW p, NEW new,
         Without(new, table, pebs[p], none)
  PROVE  Keyed(new, pebs, procs \ {p})
<1> USE DEF Without
<1>1. Empty(none).peb = NoPeb
  BY DEF Empty
<1>2. ASSUME NEW i \in Slots, NEW j \in Slots, new[i].peb = new[j].peb, new[i].peb # NoPeb
      PROVE  i = j
  BY <1>1, <1>2 DEF Keyed
<1>3. ASSUME NEW i \in Slots, new[i].peb # NoPeb
      PROVE  \E q \in procs \ {p} : new[i].peb = pebs[q]
  BY <1>1, <1>3 DEF Keyed
<1> QED
  BY <1>2, <1>3 DEF Keyed

LEMMA ClearedIn ==
  ASSUME NEW table, NEW none, NEW pebs, Apart(pebs), NEW p \in Procs, NEW new,
         Without(new, table, pebs[p], none),
         NEW q \in Procs, q # p, pebs[q] # NoPeb, NEW w
  PROVE  In(table, pebs, q, w) <=> In(new, pebs, q, w)
<1> USE DEF Without
<1>1. Empty(none).peb = NoPeb
  BY DEF Empty
<1>2. pebs[q] # pebs[p]
  BY DEF Apart
<1>3. ASSUME NEW i \in Slots
      PROVE  table[i] = [peb |-> pebs[q], val |-> w] <=> new[i] = [peb |-> pebs[q], val |-> w]
  <2>1. CASE table[i].peb = pebs[p]
    <3>1. table[i] # [peb |-> pebs[q], val |-> w]
      BY <2>1, <1>2
    <3>2. new[i].peb = NoPeb
      BY <2>1, <1>1
    <3>3. new[i] # [peb |-> pebs[q], val |-> w]
      BY <3>2
    <3> QED
      BY <3>1, <3>3
  <2>2. CASE table[i].peb # pebs[p]
    BY <2>2
  <2> QED
    BY <2>1, <2>2
<1> QED
  BY <1>3 DEF In

\* The entry of a process, and the only one.
LEMMA Entered ==
  ASSUME NEW table, NEW pebs, NEW procs, Keyed(table, pebs, procs),
         NEW p, pebs[p] # NoPeb, NEW v, In(table, pebs, p, v)
  PROVE  \E i \in Slots : /\ table[i] = [peb |-> pebs[p], val |-> v]
                          /\ table[i].peb = pebs[p] /\ With(table, pebs[p]) = {i}
<1>1. PICK i \in Slots : table[i] = [peb |-> pebs[p], val |-> v]
  BY DEF In
<1>2. table[i].peb = pebs[p]
  BY <1>1
<1>3. \A j \in Slots : table[j].peb = pebs[p] => j = i
  BY <1>2 DEF Keyed
<1>4. With(table, pebs[p]) = {i}
  BY <1>2, <1>3 DEF With
<1> QED
  BY <1>1, <1>2, <1>4

LEMMA OneEntry ==
  ASSUME NEW table, NEW pebs, NEW procs, Keyed(table, pebs, procs),
         NEW p, pebs[p] # NoPeb, NEW v, NEW w, In(table, pebs, p, v), In(table, pebs, p, w)
  PROVE  v = w
<1>1. PICK i \in Slots : table[i] = [peb |-> pebs[p], val |-> v]
  BY DEF In
<1>2. PICK j \in Slots : table[j] = [peb |-> pebs[p], val |-> w]
  BY DEF In
<1>3. table[i].peb = pebs[p] /\ table[j].peb = pebs[p] /\ table[i].val = v /\ table[j].val = w
  BY <1>1, <1>2
<1> QED
  BY <1>3 DEF Keyed

LEMMA ClearTyped ==
  ASSUME NEW table, NEW V, table \in [Slots -> Entry(V)], NEW p, NEW none \in V,
         NEW new, \E i \in Slots : With(table, p) = {i} /\ new = Clear(table, i, none)
  PROVE  /\ new \in [Slots -> Entry(V)]
         /\ Without(new, table, p, none)
<1>1. PICK i \in Slots : With(table, p) = {i} /\ new = Clear(table, i, none)
  OBVIOUS
<1>2. Empty(none) \in Entry(V)
  BY DEF Empty, Entry
<1>3. \A j \in Slots : table[j].peb = p <=> j = i
  BY <1>1 DEF With
<1> QED
  BY <1>1, <1>2, <1>3 DEF Clear, Without

LEMMA Wider ==
  ASSUME NEW table, NEW pebs, NEW procs, NEW more, procs \subseteq more,
         Keyed(table, pebs, procs)
  PROVE  Keyed(table, pebs, more)
BY DEF Keyed

\* A PEB of a process that is in no table changes none.
LEMMA OtherPeb ==
  ASSUME NEW table, NEW procs, NEW pebs, NEW new, Keyed(table, pebs, procs),
         \A q \in procs : new[q] = pebs[q]
  PROVE  /\ Keyed(table, new, procs)
         /\ \A q \in procs : \A w : In(table, pebs, q, w) <=> In(table, new, q, w)
<1>1. Keyed(table, new, procs)
  BY DEF Keyed
<1>2. \A q \in procs : \A w : In(table, pebs, q, w) <=> In(table, new, q, w)
  BY DEF In
<1> QED
  BY <1>1, <1>2

\* A child that is there and not yet in a table finds room in it.
LEMMA RoomLeft ==
  ASSUME Room, NEW table, NEW V, table \in [Slots -> Entry(V)], NEW pebs,
         NEW c \in At(HasSocket),
         NEW procs \in SUBSET ((At(HasSocket) \cup {Primary}) \ {c}),
         Keyed(table, pebs, procs)
  PROVE  FreeSlots(table) # {}
<1> SUFFICES ASSUME \A i \in Slots : table[i].peb # NoPeb PROVE FALSE
  BY DEF FreeSlots, With
<1> DEFINE owner == [i \in Slots |-> CHOOSE p \in procs : table[i].peb = pebs[p]]
           there == At(HasSocket)
           others == (there \cup {Primary}) \ {c}
<1>1. \A i \in Slots : owner[i] \in procs /\ table[i].peb = pebs[owner[i]]
  BY DEF Keyed
<1>2. /\ IsFiniteSet(there \cup {Primary}) /\ Cardinality(there) \in Nat
      /\ Cardinality(there \cup {Primary}) = Cardinality(there) + 1
  <2>1. Primary \notin there /\ IsFiniteSet(there)
    BY Names DEF At, Room
  <2> HIDE DEF there
  <2> QED
    BY <2>1, FS_AddElement, FS_CardinalityType
<1>3. /\ IsFiniteSet(others) /\ Cardinality(others) = Cardinality(there)
  <2>1. c \in there \cup {Primary}
    OBVIOUS
  <2> HIDE DEF there
  <2>2. /\ IsFiniteSet(others)
        /\ Cardinality(others) = Cardinality(there \cup {Primary}) - 1
    BY <1>2, <2>1, FS_RemoveElement
  <2> QED
    BY <1>2, <2>2
<1>4. IsFiniteSet(procs) /\ Cardinality(procs) <= Cardinality(there)
  <2>1. procs \subseteq others
    OBVIOUS
  <2> HIDE DEF others
  <2> QED
    BY <1>3, <2>1, FS_Subset
<1>5. IsFiniteSet(Slots) /\ Cardinality(Slots) = MaxProcs
  BY FS_Interval, InprocSpawnAssumption DEF Slots
<1>6. Cardinality(procs) \in Nat
  BY <1>4, FS_CardinalityType
<1>7. Cardinality(procs) < Cardinality(Slots)
  BY <1>2, <1>4, <1>5, <1>6, InprocSpawnAssumption DEF Room
<1>8. owner \in [Slots -> procs]
  BY <1>1
<1> HIDE DEF owner
<1>9. \E i, j \in Slots : i # j /\ owner[i] = owner[j]
  BY <1>4, <1>5, <1>7, <1>8, FS_PigeonHole
<1> QED
  BY <1>1, <1>9 DEF Keyed

-----------------------------------------------------------------------------
(* What a state that satisfies the invariant says.                         *)

Stages == HasSocket \cup {"none", "gone", "undone"}

LEMMA StageSets ==
  /\ Empties \subseteq Cached /\ Cached \subseteq Registered /\ Cached \subseteq MayCache
  /\ Registered \subseteq HasSocket /\ MayCache \subseteq HasSocket /\ Undoing \subseteq HasSocket
  /\ HasSocket \subseteq Stages /\ "none" \notin HasSocket /\ "undone" \notin HasSocket
  /\ "gone" \notin HasSocket
BY DEF Empties, Cached, Registered, MayCache, HasSocket, Undoing, Stages

LEMMA Domains ==
  ASSUME IInv
  PROVE  /\ child \in [Procs -> Stages \cup {"exited"}]
         /\ \A c \in Children : child[c] \in Stages
         /\ peb \in [Procs -> Pebs \cup {NoPeb}] /\ Apart(peb)
         /\ \A c \in Children : child[c] \in HasSocket => peb[c] # NoPeb
         /\ peb[Primary] = FirstPeb /\ peb[Primary] # NoPeb
         /\ \A S : At(S) \in SUBSET Procs /\ Primary \notin At(S)
<1>1. TypeOK /\ OwnPebs
  BY DEF IInv
<1>2. child \in [Procs -> Stages \cup {"exited"}]
  BY <1>1 DEF TypeOK, Stages, HasSocket, Registered, Undoing, Empties, Cached
<1>3. \A c \in Children : child[c] \in Stages
  BY <1>1 DEF OwnPebs, Stages
<1>4. \A c \in Children : child[c] \in HasSocket => peb[c] # NoPeb
  BY <1>1, StageSets DEF OwnPebs
<1> QED
  BY <1>1, <1>2, <1>3, <1>4, Names DEF OwnPebs, TypeOK, Apart, At

\* What the primary process's threads look up.
LEMMA PrimaryLooks ==
  ASSUME IInv
  PROVE  /\ CurrentServerFd(Primary) = 0 /\ CurrentImageInfo(Primary) = Primary
         /\ CurrentCache(Primary) = first /\ With(caches, peb[Primary]) = {}
<1>1. CurrentServerFd(Primary) = 0
  <2>1. Keyed(sockets, peb, At(Registered) \cup {Primary}) /\ In(sockets, peb, Primary, 0)
    BY DEF IInv, Sockets
  <2> QED
    BY <2>1, Found, Domains DEF CurrentServerFd
<1>2. CurrentImageInfo(Primary) = Primary
  <2>1. Keyed(images, peb, At(Registered))
    BY DEF IInv, Images
  <2> QED
    BY <2>1, NotFound, Domains, Names DEF CurrentImageInfo
<1>3. CurrentCache(Primary) = first /\ With(caches, peb[Primary]) = {}
  <2>1. Keyed(caches, peb, At(MayCache))
    BY DEF IInv, Caches
  <2> QED
    BY <2>1, NotFound, Domains, Names DEF CurrentCache
<1> QED
  BY <1>1, <1>2, <1>3

\* What a child's threads look up.
LEMMA ChildLooks ==
  ASSUME IInv, NEW c \in At(Registered)
  PROVE  /\ CurrentServerFd(c) \in Held(c) /\ CurrentImageInfo(c) = c
         /\ In(sockets, peb, c, CurrentServerFd(c))
<1>1. c \in Children /\ peb[c] # NoPeb
  BY Domains, StageSets DEF At
<1>2. PICK fd \in Held(c) : In(sockets, peb, c, fd)
  BY DEF IInv, Sockets
<1>3. CurrentServerFd(c) = fd
  <2>1. Keyed(sockets, peb, At(Registered) \cup {Primary})
    BY DEF IInv, Sockets
  <2> QED
    BY <1>1, <1>2, <2>1, Found DEF CurrentServerFd
<1>4. CurrentImageInfo(c) = c
  <2>1. Keyed(images, peb, At(Registered)) /\ In(images, peb, c, c)
    BY DEF IInv, Images
  <2> QED
    BY <1>1, <2>1, Found DEF CurrentImageInfo
<1> QED
  BY <1>2, <1>3, <1>4

LEMMA ChildCache ==
  ASSUME IInv, NEW c \in At(Cached)
  PROVE  /\ CurrentCache(c) \in Fds \cup {NoFd}
         /\ In(caches, peb, c, CurrentCache(c)) /\ With(caches, peb[c]) # {}
<1>1. c \in Children /\ peb[c] # NoPeb
  BY Domains, StageSets DEF At
<1>2. PICK v \in Fds \cup {NoFd} : In(caches, peb, c, v)
  BY DEF IInv, Caches
<1>3. CurrentCache(c) = v /\ With(caches, peb[c]) # {}
  <2>1. Keyed(caches, peb, At(MayCache))
    BY DEF IInv, Caches
  <2> QED
    BY <1>1, <1>2, <2>1, Found DEF CurrentCache
<1> QED
  BY <1>2, <1>3

\* The properties.
LEMMA OwnStateHolds ==
  ASSUME IInv
  PROVE  OwnState
<1>1. ASSUME NEW c \in Children, Live(c)
      PROVE  OwnSocket(c) /\ OwnFile(c) /\ OwnImage(c)
  <2>1. c \in At(Registered) /\ c \in At(Cached) /\ c \in At(MayCache)
    BY <1>1 DEF Live, At, Registered, Cached, Empties, MayCache
  <2>2. CurrentServerFd(c) \in Held(c) /\ CurrentImageInfo(c) = c
    BY <2>1, ChildLooks
  <2>3. CurrentCache(c) # NoFd => desc[CurrentCache(c)] = [of |-> c, use |-> "file"]
    BY <2>1, ChildCache DEF IInv, Files
  <2> QED
    BY <2>2, <2>3 DEF OwnSocket, OwnFile, OwnImage, Held
<1>2. ASSUME Live(Primary)
      PROVE  OwnSocket(Primary) /\ OwnFile(Primary) /\ OwnImage(Primary)
  <2>1. child[Primary] = "pe"
    BY <1>2 DEF Live, IInv, OwnPebs
  <2> QED
    BY <2>1, PrimaryLooks DEF IInv, PrimaryOwn, OwnSocket, OwnFile, OwnImage
<1>3. \A c \in Children : call[c] = "created" => built[c]
  BY DEF IInv, Told
<1> QED
  BY <1>1, <1>2, <1>3 DEF OwnState, Procs

LEMMA NothingLeftHolds ==
  ASSUME IInv
  PROVE  NothingLeft
<1>1. ASSUME NEW c \in Children, child[c] \in {"undone", "gone"}, NEW fd \in Fds,
             desc[fd] # Closed
      PROVE  desc[fd].of # c
  <2>1. child[c] \notin HasSocket /\ child[c] \notin MayCache
    BY <1>1, StageSets
  <2>2. Held(c) = {} /\ desc[fd] # [of |-> c, use |-> "file"]
    BY <2>1 DEF IInv, Held1, Files, At
  <2>3. desc[fd] \in [of : Procs, use : {"socket", "file"}]
    BY <1>1 DEF IInv, TypeOK
  <2>4. desc[fd] = [of |-> c, use |-> "socket"] \/ desc[fd] = [of |-> c, use |-> "file"]
          \/ desc[fd].of # c
    BY <2>3
  <2> QED
    BY <2>2, <2>4 DEF Held
<1>2. \A p \in At(Registered) \cup At(MayCache) \cup {Primary} :
        p \in Procs /\ child[p] \notin {"undone", "gone"}
  BY StageSets, Names DEF At, IInv, OwnPebs
<1>3. ASSUME NEW i \in Slots, NEW table \in {sockets, images, caches}, table[i].peb # NoPeb
      PROVE  \E p \in Procs : peb[p] = table[i].peb /\ child[p] \notin {"undone", "gone"}
  <2>1. Keyed(table, peb, At(Registered) \cup At(MayCache) \cup {Primary})
    <3>1. Keyed(sockets, peb, At(Registered) \cup {Primary}) /\ Keyed(images, peb, At(Registered))
          /\ Keyed(caches, peb, At(MayCache))
      BY DEF IInv, Sockets, Images, Caches
    <3> QED
      BY <1>3, <3>1 DEF Keyed
  <2> QED
    BY <1>2, <1>3, <2>1 DEF Keyed
<1> QED
  BY <1>1, <1>3 DEF NothingLeft

-----------------------------------------------------------------------------
(* The initial state.                                                      *)

LEMMA InitHolds ==
  ASSUME Init
  PROVE  IInv
<1>1. child[Primary] = "pe" /\ \A c \in Children : child[c] = "none"
  BY Names DEF Init, Procs
<1>2. peb[Primary] = FirstPeb /\ \A c \in Children : peb[c] = NoPeb
  BY Names DEF Init, Procs
<1>3. \A S : "none" \notin S => At(S) = {}
  BY <1>1 DEF At
<1>4. At(Registered) = {} /\ At(MayCache) = {} /\ At(Empties) = {} /\ At(Cached) = {}
      /\ At(Undoing) = {}
  BY <1>3, StageSets
<1>5. /\ 1 \in Slots /\ sockets[1] = [peb |-> FirstPeb, val |-> 0]
      /\ \A i \in Slots \ {1} : sockets[i] = Empty(NoFd)
      /\ \A i \in Slots : images[i] = Empty(Primary) /\ caches[i] = Empty(NoFd)
  BY InprocSpawnAssumption DEF Init, Slots
<1>6. /\ \A fd \in Fds : desc[fd] = [of |-> Primary, use |-> "socket"] \/ desc[fd] = Closed
      /\ desc[0] = [of |-> Primary, use |-> "socket"]
  BY SlotsFds DEF Init
<1>7. TypeOK
  <2>1. desc \in [Fds -> {Closed} \cup [of : Procs, use : {"socket", "file"}]]
    BY Names DEF Init
  <2>2. Entries(sockets, Fds, NoFd) /\ Entries(images, Children, Primary)
        /\ Entries(caches, Fds \cup {NoFd}, NoFd)
    <3>1. sockets[1].peb = FirstPeb /\ sockets[1].val = 0
      BY <1>5
    <3> QED
      <4>1. \A i \in Slots : sockets[i] = Empty(NoFd) \/ (sockets[i].peb \in Pebs /\ sockets[i].val \in Fds)
        BY <1>5, <3>1, Names, SlotsFds
      <4>2. Entries(sockets, Fds, NoFd)
        BY <4>1 DEF Entries
      <4>3. Entries(images, Children, Primary)
        BY <1>5 DEF Entries
      <4>4. Entries(caches, Fds \cup {NoFd}, NoFd)
        BY <1>5 DEF Entries
      <4> QED
        BY <4>2, <4>3, <4>4
  <2>3. peb \in [Procs -> Pebs \cup {NoPeb}]
    BY Names DEF Init
  <2> QED
    BY <2>1, <2>2, <2>3 DEF Init, TypeOK
<1>8. Shaped
  <2>1. Empty(NoFd) \in Entry(Fds \cup {NoFd}) /\ Empty(Primary) \in Entry(Procs)
        /\ [peb |-> FirstPeb, val |-> 0] \in Entry(Fds \cup {NoFd})
    BY Names, SlotsFds DEF Empty, Entry
  <2> QED
    BY <1>5, <2>1 DEF Init, Shaped
<1>9. OwnPebs
  BY <1>1, <1>2, Names DEF OwnPebs, Procs, HasSocket
<1>10. Sockets /\ Images /\ Caches
  <2>1. Keyed(sockets, peb, {Primary}) /\ In(sockets, peb, Primary, 0)
    <3>1. sockets[1].peb = FirstPeb /\ \A i \in Slots \ {1} : sockets[i].peb = NoPeb
      <4>1. \A i \in Slots \ {1} : sockets[i] = [peb |-> NoPeb, val |-> NoFd]
        BY <1>5 DEF Empty
      <4> QED
        BY <1>5, <4>1
    <3>2. Keyed(sockets, peb, {Primary})
      BY <1>2, <3>1, <1>5 DEF Keyed
    <3> QED
      BY <1>2, <1>5, <3>2 DEF In
  <2>2. Keyed(images, peb, {}) /\ Keyed(caches, peb, {})
    <3>1. \A i \in Slots : images[i].peb = NoPeb /\ caches[i].peb = NoPeb
      BY <1>5 DEF Empty
    <3> QED
      BY <3>1 DEF Keyed
  <2> QED
    BY <1>4, <2>1, <2>2 DEF Sockets, Images, Caches
<1>11. Held1 /\ Files
  <2>1. \A c \in Children : Held(c) = {}
    BY <1>6, Names DEF Held, Closed
  <2>2. \A c \in Children : child[c] \notin HasSocket
    BY <1>1, StageSets
  <2>3. \A c \in Children, fd \in Fds : desc[fd] # [of |-> c, use |-> "file"]
    BY <1>6 DEF Closed
  <2> QED
    BY <1>4, <2>1, <2>2, <2>3 DEF Held1, Files
<1>12. PrimaryOwn /\ Told
  BY <1>1, <1>6 DEF Init, PrimaryOwn, Told
<1> QED
  BY <1>7, <1>8, <1>9, <1>10, <1>11, <1>12 DEF IInv

-----------------------------------------------------------------------------
(* Steps that leave the child's things alone.                              *)

LEMMA Moved ==
  ASSUME IInv, NEW c \in Children, NEW to, Goes(c, to)
  PROVE  /\ child'[c] = to /\ \A q \in Procs \ {c} : child'[q] = child[q]
         /\ child'[Primary] = child[Primary]
         /\ \A d \in Children : child'[d] = IF d = c THEN to ELSE child[d]
         /\ \A S : to \in S <=> c \in At(S)'
         /\ \A S : \A d \in Children \ {c} : d \in At(S) <=> d \in At(S)'
         /\ \A S : At(S)' \subseteq Children
<1>1. c \in Procs /\ child \in [Procs -> Stages \cup {"exited"}] /\ c # Primary
  BY Domains, Names
<1>2. child'[c] = to /\ \A q \in Procs \ {c} : child'[q] = child[q]
  BY <1>1 DEF Goes
<1> QED
  BY <1>1, <1>2, Names DEF At

LEMMA MovedTypes ==
  ASSUME IInv, NEW c \in Children, NEW to \in Stages, Goes(c, to)
  PROVE  child' \in [Procs -> {"none", "register", "setcache",
       "thread", "attach", "startup", "built", "done", "pe", "exited",
       "unregister", "uncache", "free", "gone", "undone"}]
BY DEF Goes, IInv, TypeOK, Stages, HasSocket, Registered, Undoing, Empties, Cached

\* A child moves on without a change of what it has.
Same(from, to) ==
  /\ to \in Stages
  /\ to \in Registered <=> from \in Registered
  /\ to \in HasSocket <=> from \in HasSocket
  /\ to \in Empties => from \in Empties
  /\ to \in Cached => from \in Cached
  /\ from \in MayCache => to \in MayCache
  /\ to \in {"none", "undone"} <=> from \in {"none", "undone"}

LEMMA Walks ==
  ASSUME IInv, NEW c \in Children, NEW to, Goes(c, to), Same(child[c], to),
         UNCHANGED <<desc, peb, tables>>,
         \A d \in Children \ {c} : closing'[d] = closing[d],
         to \in Undoing => closing'[c] \in Held(c)
  PROVE  /\ Shaped' /\ OwnPebs' /\ Sockets' /\ Images' /\ Caches'
         /\ Held1' /\ Files' /\ PrimaryOwn'
<1> USE DEF tables
<1>1. At(Registered)' = At(Registered) /\ At(HasSocket)' = At(HasSocket)
      /\ At(Empties)' \subseteq At(Empties) /\ At(Cached)' \subseteq At(Cached)
      /\ At(MayCache) \subseteq At(MayCache)' /\ At(MayCache)' \subseteq Procs
  BY Moved, Names DEF Same, At
<1>2. \A d \in Children : Held(d)' = Held(d)
  BY DEF Held
<1>3. Shaped'
  BY DEF IInv, Shaped
<1>4. OwnPebs'
  <2>1. \A d \in Children :
          /\ child'[d] \in HasSocket \cup {"none", "gone", "undone"}
          /\ child'[d] \in {"none", "undone"} <=> child[d] \in {"none", "undone"}
    BY Moved, Names, Domains DEF Same, Stages
  <2>2. child'[Primary] = child[Primary]
    BY Moved
  <2> QED
    BY <2>1, <2>2 DEF IInv, OwnPebs
<1>5. Sockets'
  BY <1>1, <1>2 DEF IInv, Sockets, At
<1>6. Images'
  BY <1>1 DEF IInv, Images
<1>7. Caches'
  BY <1>1, Wider DEF IInv, Caches
<1>8. Held1'
  <2>1. \A d \in Children : child'[d] \in HasSocket <=> child[d] \in HasSocket
    BY <1>1 DEF At
  <2>2. \A d \in At(Undoing)' : closing'[d] \in Held(d)
    BY Moved DEF IInv, Held1, At
  <2> QED
    BY <1>2, <2>1, <2>2 DEF IInv, Held1, At
<1>9. Files'
  <2>1. ASSUME NEW d \in At(MayCache)', NEW fd \in Fds, In(caches, peb, d, fd)
        PROVE  d \in At(MayCache)
    <3>1. SUFFICES ASSUME d \notin At(MayCache) PROVE FALSE
      OBVIOUS
    <3>2. d \in Children /\ peb[d] # NoPeb
      <4>1. d \in Children /\ child'[d] \in HasSocket
        BY <2>1, Moved, StageSets DEF At
      <4>2. child[d] \in HasSocket
        BY <1>1, <4>1 DEF At
      <4> QED
        BY <4>1, <4>2, Domains
    <3>3. \A i \in Slots : caches[i].peb # peb[d]
      BY <3>1, <3>2, NotFound, Domains, Names DEF IInv, Caches
    <3> QED
      BY <2>1, <3>3 DEF In
  <2> QED
    BY <1>1, <2>1 DEF IInv, Files, At
<1>10. PrimaryOwn'
  BY Moved DEF IInv, PrimaryOwn
<1> QED
  BY <1>3, <1>4, <1>5, <1>6, <1>7, <1>8, <1>9, <1>10

LEMMA Stays ==
  ASSUME IInv, UNCHANGED <<desc, peb, tables, child, closing>>
  PROVE  /\ Shaped' /\ OwnPebs' /\ Sockets' /\ Images' /\ Caches'
         /\ Held1' /\ Files' /\ PrimaryOwn'
<1> USE DEF tables
<1>1. (\A S : At(S)' = At(S)) /\ \A d \in Children : Held(d)' = Held(d)
  BY DEF At, Held
<1>2. Shaped' /\ OwnPebs' /\ PrimaryOwn'
  BY DEF IInv, Shaped, OwnPebs, PrimaryOwn
<1>3. Sockets' /\ Images' /\ Caches'
  BY <1>1 DEF IInv, Sockets, Images, Caches, At
<1>4. Held1' /\ Files'
  BY <1>1 DEF IInv, Held1, Files, At
<1> QED
  BY <1>2, <1>3, <1>4

-----------------------------------------------------------------------------
(* The steps.  First those of the parent and of a child that change nothing*)
(* of what processes have.                                                 *)

LEMMA PrepareKeeps ==
  ASSUME IInv, Prepare
  PROVE  IInv'
<1>1. TypeOK'
  BY DEF IInv, TypeOK, Entries, Prepare, tables
<1>2. Told'
  BY DEF IInv, Told, Prepare
<1> QED
  BY <1>1, <1>2, Stays DEF IInv, Prepare

LEMMA CallMoves ==
  ASSUME IInv, NEW c \in Children,
         NEW to \in {"none", "spawn", "close", "wait", "created", "died", "failed", "elsewhere"},
         Calls(c, to), UNCHANGED <<setup, desc, peb, tables, child, built, server, closing>>,
         to = "created" => server[c] = "started"
  PROVE  IInv'
<1>1. TypeOK'
  BY DEF IInv, TypeOK, Entries, tables, Calls
<1>2. Told'
  BY DEF IInv, Told, Calls, TypeOK
<1> QED
  BY <1>1, <1>2, Stays DEF IInv

LEMMA CreateKeeps ==
  ASSUME IInv, NEW p \in Procs, NEW c \in Children, Create(p, c)
  PROVE  IInv'
BY CallMoves DEF Create

LEMMA SpawnElsewhereKeeps ==
  ASSUME IInv, NEW c \in Children, SpawnElsewhere(c)
  PROVE  IInv'
BY CallMoves DEF SpawnElsewhere

LEMMA CloseCallKeeps ==
  ASSUME IInv, NEW c \in Children, CloseCall(c)
  PROVE  IInv'
<1>1. CASE call[c] = "close"
  BY <1>1, CallMoves DEF CloseCall
<1>2. CASE call[c] # "close"
  BY <1>2, CallMoves DEF CloseCall
<1> QED
  BY <1>1, <1>2

LEMMA CreatedKeeps ==
  ASSUME IInv, NEW c \in Children, Created(c)
  PROVE  IInv'
<1>1. CASE server[c] = "started"
  BY <1>1, CallMoves DEF Created
<1>2. CASE server[c] # "started"
  BY <1>2, CallMoves DEF Created
<1> QED
  BY <1>1, <1>2

LEMMA SetUpRefusedKeeps ==
  ASSUME IInv, NEW c \in Children, SetUpRefused(c)
  PROVE  IInv'
<1>1. Goes(c, "undone") /\ child[c] = "none"
  BY DEF SetUpRefused
<1>2. Same("none", "undone")
  BY DEF Same, Stages, HasSocket, Registered, MayCache, Undoing, Cached, Empties
<1>3. TypeOK'
  BY <1>1, MovedTypes DEF Stages, IInv, TypeOK, Entries, tables, SetUpRefused
<1>4. Told'
  BY <1>1, Moved DEF IInv, Told, SetUpRefused
<1>5. "undone" \notin Undoing
  BY DEF Undoing
<1> QED
  BY <1>1, <1>2, <1>3, <1>4, <1>5, Walks DEF IInv, SetUpRefused

LEMMA SetUpFailsKeeps ==
  ASSUME IInv, NEW c \in Children, SetUpFails(c)
  PROVE  IInv'
<1>1. Goes(c, "unregister") /\ child[c] \in {"setcache", "thread"}
  BY DEF SetUpFails
<1>2. Same(child[c], "unregister")
  BY <1>1 DEF Same, Stages, HasSocket, Registered, MayCache, Undoing, Cached, Empties
<1>3. Held(c) # {} /\ Held(c) \subseteq Fds
  BY <1>1 DEF IInv, Held1, HasSocket, Registered, Held
<1>4. Min(Held(c)) \in Held(c)
  BY <1>3, MinIn, SlotsFds
<1>5. /\ closing'[c] \in Held(c) /\ \A d \in Children \ {c} : closing'[d] = closing[d]
      /\ closing' \in [Children -> Fds \cup {NoFd}]
  BY <1>3, <1>4 DEF IInv, TypeOK, SetUpFails
<1>6. TypeOK'
  BY <1>1, <1>5, MovedTypes DEF Stages, HasSocket, Registered, IInv, TypeOK, Entries, tables,
     SetUpFails
<1>7. Told'
  BY <1>1, Moved DEF IInv, Told, SetUpFails
<1> QED
  BY <1>1, <1>2, <1>5, <1>6, <1>7, Walks DEF IInv, SetUpFails

LEMMA StartThreadKeeps ==
  ASSUME IInv, NEW c \in Children, StartThread(c)
  PROVE  IInv'
<1>1. Goes(c, "attach") /\ child[c] = "thread"
  BY DEF StartThread
<1>2. Same("thread", "attach") /\ "attach" \notin Undoing
  BY DEF Same, Stages, HasSocket, Registered, MayCache, Undoing, Cached, Empties
<1>3. TypeOK'
  BY <1>1, MovedTypes DEF Stages, HasSocket, Registered, IInv, TypeOK, Entries, tables,
     StartThread, Calls
<1>4. Told'
  BY <1>1, Moved DEF IInv, Told, StartThread, Calls, TypeOK
<1> QED
  BY <1>1, <1>2, <1>3, <1>4, Walks DEF IInv, StartThread

LEMMA AttachKeeps ==
  ASSUME IInv, NEW c \in Children, Attach(c)
  PROVE  IInv'
<1>1. Goes(c, "startup") /\ child[c] = "attach"
  BY DEF Attach
<1>2. Same("attach", "startup") /\ "startup" \notin Undoing
  BY DEF Same, Stages, HasSocket, Registered, MayCache, Undoing, Cached, Empties
<1>3. TypeOK'
  BY <1>1, MovedTypes DEF Stages, HasSocket, Registered, IInv, TypeOK, Entries, tables, Attach
<1>4. Told'
  <2>1. \A d \in Children : server'[d] = IF d = c THEN "attached" ELSE server[d]
    BY DEF IInv, TypeOK, Attach
  <2>2. call[c] # "created" \/ built[c]
    BY DEF IInv, Told
  <2> QED
    BY <1>1, <2>1, Moved DEF IInv, Told, Attach
<1> QED
  BY <1>1, <1>2, <1>3, <1>4, Walks DEF IInv, Attach

LEMMA InitDoneKeeps ==
  ASSUME IInv, NEW c \in Children, InitDone(c)
  PROVE  IInv'
<1>1. Goes(c, "done") /\ child[c] = "built"
  BY DEF InitDone
<1>2. Same("built", "done") /\ "done" \notin Undoing
  BY DEF Same, Stages, HasSocket, Registered, MayCache, Undoing, Cached, Empties
<1>3. TypeOK'
  BY <1>1, MovedTypes DEF Stages, HasSocket, Registered, Cached, IInv, TypeOK, Entries, tables,
     InitDone
<1>4. Told'
  <2>1. \A d \in Children : server'[d] = IF d = c THEN "started" ELSE server[d]
    BY DEF IInv, TypeOK, InitDone
  <2> QED
    BY <1>1, <2>1, Moved DEF IInv, Told, InitDone
<1> QED
  BY <1>1, <1>2, <1>3, <1>4, Walks DEF IInv, InitDone

LEMMA EnterPeKeeps ==
  ASSUME IInv, NEW c \in Children, EnterPe(c)
  PROVE  IInv'
<1>1. Goes(c, "pe") /\ child[c] = "done"
  BY DEF EnterPe
<1>2. Same("done", "pe") /\ "pe" \notin Undoing
  BY DEF Same, Stages, HasSocket, Registered, MayCache, Undoing, Cached, Empties
<1>3. TypeOK'
  BY <1>1, MovedTypes DEF Stages, HasSocket, Registered, Cached, IInv, TypeOK, Entries, tables,
     EnterPe
<1>4. Told'
  BY <1>1, Moved DEF IInv, Told, EnterPe
<1> QED
  BY <1>1, <1>2, <1>3, <1>4, Walks DEF IInv, EnterPe

LEMMA DetachKeeps ==
  ASSUME IInv, NEW c \in Children, Detach(c)
  PROVE  IInv'
<1>1. Goes(c, "unregister") /\ child[c] \in {"attach", "startup", "built", "done"}
  BY DEF Detach
<1>2. Same(child[c], "unregister") /\ c \in At(Registered)
  BY <1>1 DEF Same, Stages, HasSocket, Registered, MayCache, Undoing, Cached, Empties, At
<1>3. CurrentServerFd(c) \in Held(c) /\ Held(c) \subseteq Fds
  BY <1>2, ChildLooks DEF Held
<1>4. /\ closing'[c] \in Held(c) /\ \A d \in Children \ {c} : closing'[d] = closing[d]
      /\ closing' \in [Children -> Fds \cup {NoFd}]
  BY <1>3 DEF IInv, TypeOK, Detach
<1>5. TypeOK'
  BY <1>1, <1>4, MovedTypes DEF Stages, HasSocket, Registered, IInv, TypeOK, Entries, tables,
     Detach
<1>6. Told'
  <2>1. \A d \in Children : server'[d] = "started" => server[d] = "started"
    BY DEF IInv, TypeOK, Detach
  <2>2. \A d \in Children : server[d] = "started" => server'[d] = "started"
    BY DEF IInv, TypeOK, Detach
  <2> QED
    BY <1>1, <2>1, <2>2, Moved DEF IInv, Told, Detach
<1> QED
  BY <1>1, <1>2, <1>4, <1>5, <1>6, Walks DEF IInv, Detach

-----------------------------------------------------------------------------
(* Descriptors.                                                            *)

LEMMA Opened ==
  ASSUME IInv, FreeFds # {}, NEW p \in Procs, NEW use \in {"socket", "file"},
         desc' = Open(p, use)
  PROVE  /\ Lowest \in Fds /\ desc[Lowest] = Closed
         /\ desc'[Lowest] = [of |-> p, use |-> use]
         /\ \A fd \in Fds : fd # Lowest => desc'[fd] = desc[fd]
         /\ desc' \in [Fds -> {Closed} \cup [of : Procs, use : {"socket", "file"}]]
<1>1. Lowest \in FreeFds
  BY MinIn, SlotsFds DEF Lowest, FreeFds
<1>2. desc \in [Fds -> {Closed} \cup [of : Procs, use : {"socket", "file"}]]
  BY DEF IInv, TypeOK
<1>3. [of |-> p, use |-> use] \in [of : Procs, use : {"socket", "file"}]
  OBVIOUS
<1>4. Lowest \in Fds /\ desc[Lowest] = Closed
  BY <1>1 DEF FreeFds
<1> HIDE DEF Lowest
<1> QED
  BY <1>2, <1>3, <1>4 DEF Open

LEMMA ClosedAll ==
  ASSUME IInv, NEW set, desc' = CloseAll(set)
  PROVE  /\ \A fd \in Fds : desc'[fd] = IF fd \in set THEN Closed ELSE desc[fd]
         /\ desc' \in [Fds -> {Closed} \cup [of : Procs, use : {"socket", "file"}]]
BY DEF CloseAll, IInv, TypeOK

LEMMA NotClosed == \A p : [of |-> p, use |-> "file"] # Closed /\ [of |-> p, use |-> "socket"] # Closed
BY DEF Closed

LEMMA HeldIs ==
  ASSUME NEW c \in Children
  PROVE  /\ \A fd : fd \in Held(c) <=> fd \in Fds /\ desc[fd] = [of |-> c, use |-> "socket"]
         /\ \A fd : fd \in Held(c)' <=> fd \in Fds /\ desc'[fd] = [of |-> c, use |-> "socket"]
BY DEF Held

\* A child's step that leaves sockets alone.
LEMMA HeldKept ==
  ASSUME IInv, NEW c \in Children, NEW to, Goes(c, to), closing' = closing,
         \A d \in Children, fd \in Fds :
           desc'[fd] = [of |-> d, use |-> "socket"] <=> desc[fd] = [of |-> d, use |-> "socket"],
         to \in HasSocket <=> child[c] \in HasSocket, to \in Undoing => child[c] \in Undoing
  PROVE  Held1' /\ \A d \in Children : Held(d)' = Held(d)
<1>1. \A d \in Children : Held(d)' = Held(d)
  BY HeldIs
<1>2. \A d \in Children : child'[d] \in HasSocket <=> child[d] \in HasSocket
  BY Moved
<1>3. \A d \in At(Undoing)' : d \in At(Undoing)
  BY Moved DEF At
<1> QED
  BY <1>1, <1>2, <1>3 DEF IInv, Held1, At

\* The peb of a child that is there stays.
LEMMA PebsKept ==
  ASSUME IInv, NEW c \in Children, NEW to \in Stages, Goes(c, to), peb' = peb,
         to \in {"none", "undone"} <=> child[c] \in {"none", "undone"}
  PROVE  OwnPebs'
<1>1. \A d \in Children :
        /\ child'[d] \in HasSocket \cup {"none", "gone", "undone"}
        /\ child'[d] \in {"none", "undone"} <=> child[d] \in {"none", "undone"}
  BY Moved, Domains DEF Stages
<1>2. child'[Primary] = child[Primary]
  BY Moved
<1> QED
  BY <1>1, <1>2 DEF IInv, OwnPebs

-----------------------------------------------------------------------------
(* Setting a child up.                                                     *)

LEMMA SetUpKeeps ==
  ASSUME IInv, NEW c \in Children, SetUp(c)
  PROVE  IInv'
<1>1. /\ Goes(c, "register") /\ child[c] = "none" /\ FreeFds # {} /\ desc' = Open(c, "socket")
      /\ c \in Procs
  BY Names DEF SetUp
<1>2. "register" \in Stages /\ "register" \in HasSocket /\ "register" \notin Registered
      /\ "register" \notin MayCache /\ "register" \notin Undoing /\ "none" \notin MayCache
      /\ "none" \notin Registered /\ "none" \notin HasSocket /\ "none" \notin Undoing
  BY DEF Stages, HasSocket, Registered, MayCache, Undoing, Cached, Empties
<1>3. /\ Lowest \in Fds /\ desc[Lowest] = Closed
      /\ desc'[Lowest] = [of |-> c, use |-> "socket"]
      /\ \A fd \in Fds : fd # Lowest => desc'[fd] = desc[fd]
      /\ desc' \in [Fds -> {Closed} \cup [of : Procs, use : {"socket", "file"}]]
  BY <1>1, Opened
<1> DEFINE a == CHOOSE x \in Pebs : \A p \in Procs : peb[p] # x
<1>4. a \in Pebs /\ \A p \in Procs : peb[p] # a
  <2>1. \E x \in Pebs : \A p \in Procs : peb[p] # x
    BY DEF SetUp
  <2> QED
    BY <2>1
<1>5. peb' = [peb EXCEPT ![c] = a]
  BY DEF SetUp
<1> HIDE DEF a
<1>6. peb \in [Procs -> Pebs \cup {NoPeb}] /\ a # NoPeb
  BY <1>4, Domains, Names
<1>7. /\ peb'[c] = a /\ \A p \in Procs \ {c} : peb'[p] = peb[p]
      /\ peb' \in [Procs -> Pebs \cup {NoPeb}]
  BY <1>1, <1>4, <1>5, <1>6
<1>8. /\ At(Registered)' = At(Registered) /\ At(MayCache)' = At(MayCache)
      /\ At(Undoing)' = At(Undoing) /\ At(Empties)' = At(Empties) /\ At(Cached)' = At(Cached)
      /\ c \notin At(Registered) /\ c \notin At(MayCache)
  <2>1. \A S : "none" \notin S /\ "register" \notin S => At(S)' = At(S) /\ c \notin At(S)
    BY <1>1, Moved DEF At
  <2>2. /\ "register" \notin Empties /\ "register" \notin Cached
        /\ "none" \notin Empties /\ "none" \notin Cached
    BY DEF Empties, Cached
  <2> QED
    BY <1>2, <2>1, <2>2
<1>9. UNCHANGED <<sockets, images, caches, first, closing, call, built, server, setup>>
  BY DEF SetUp, tables
<1>10. TypeOK'
  BY <1>1, <1>2, <1>3, <1>7, <1>9, MovedTypes DEF IInv, TypeOK, Entries
<1>11. OwnPebs'
  <2>1. \A d \in Children :
          /\ child'[d] \in HasSocket \cup {"none", "gone", "undone"}
          /\ peb'[d] = NoPeb <=> child'[d] \in {"none", "undone"}
    <3>1. \A d \in Children \ {c} : d \in Procs /\ peb'[d] = peb[d] /\ child'[d] = child[d]
      BY <1>1, <1>7, Moved, Names
    <3>2. peb'[c] # NoPeb /\ child'[c] = "register"
      BY <1>1, <1>6, <1>7, Moved
    <3> QED
      BY <1>2, <3>1, <3>2 DEF IInv, OwnPebs
  <2>2. child'[Primary] = child[Primary] /\ peb'[Primary] = peb[Primary]
    BY <1>1, <1>7, Moved, Names
  <2>3. \A p, q \in Procs : peb'[p] = peb'[q] /\ peb'[p] # NoPeb => p = q
    BY <1>4, <1>7, Domains DEF Apart
  <2> QED
    BY <2>1, <2>2, <2>3 DEF IInv, OwnPebs
<1>12. ASSUME NEW d \in Children \ {c}
       PROVE  Held(d)' = Held(d)
  <2>1. [of |-> d, use |-> "socket"] # [of |-> c, use |-> "socket"]
    OBVIOUS
  <2>2. \A fd \in Fds : desc'[fd] = [of |-> d, use |-> "socket"] <=> desc[fd] = [of |-> d, use |-> "socket"]
    BY <1>3, <2>1, NotClosed
  <2> QED
    BY <2>2, HeldIs
<1>13. /\ Keyed(caches, peb', At(MayCache))
       /\ \A d \in At(MayCache) : \A v : In(caches, peb, d, v) <=> In(caches, peb', d, v)
  <2>1. \A q \in At(MayCache) : peb'[q] = peb[q]
    BY <1>7, <1>8, Domains
  <2> QED
    BY <2>1, OtherPeb DEF IInv, Caches
<1>14. Sockets' /\ Images' /\ Caches'
  <2>1. /\ Keyed(sockets, peb', At(Registered) \cup {Primary}) /\ In(sockets, peb', Primary, 0)
        /\ \A d \in At(Registered) : \A fd : In(sockets, peb, d, fd) <=> In(sockets, peb', d, fd)
    <3>1. \A q \in At(Registered) \cup {Primary} : peb'[q] = peb[q]
      BY <1>7, <1>8, Domains, Names
    <3>2. Keyed(sockets, peb, At(Registered) \cup {Primary}) /\ In(sockets, peb, Primary, 0)
      BY DEF IInv, Sockets
    <3>3. /\ Keyed(sockets, peb', At(Registered) \cup {Primary})
          /\ \A q \in At(Registered) \cup {Primary} : \A w :
               In(sockets, peb, q, w) <=> In(sockets, peb', q, w)
      BY <3>1, <3>2, OtherPeb, Zenon
    <3> QED
      BY <3>2, <3>3
  <2>2. /\ Keyed(images, peb', At(Registered))
        /\ \A d \in At(Registered) : \A v : In(images, peb, d, v) <=> In(images, peb', d, v)
    <3>1. \A q \in At(Registered) : peb'[q] = peb[q]
      BY <1>7, <1>8, Domains
    <3> QED
      BY <3>1, OtherPeb DEF IInv, Images
  <2>4. At(Empties) \subseteq At(MayCache) /\ At(Cached) \subseteq At(MayCache)
    BY StageSets DEF At
  <2>5. \A d \in At(Registered) : Held(d)' = Held(d)
    BY <1>8, <1>12 DEF At
  <2>6. Sockets'
    BY <1>8, <1>9, <2>1, <2>5 DEF IInv, Sockets
  <2>7. Images'
    BY <1>8, <1>9, <2>2 DEF IInv, Images
  <2>8. Caches'
    BY <1>8, <1>9, <1>13, <2>4 DEF IInv, Caches
  <2> QED
    BY <2>6, <2>7, <2>8
<1>15. Held1'
  <2>1. Held(c)' = {Lowest}
    <3>1. \A fd \in Fds : desc[fd] # [of |-> c, use |-> "socket"]
      BY <1>1, <1>2, HeldIs DEF IInv, Held1
    <3> QED
      BY <1>3, <3>1, HeldIs
  <2>2. \A d \in Children : child'[d] = IF d = c THEN "register" ELSE child[d]
    BY <1>1, Moved
  <2>3. c \notin At(Undoing)
    BY <1>1, <1>2 DEF At
  <2> QED
    BY <1>2, <1>8, <1>9, <1>12, <2>1, <2>2, <2>3 DEF IInv, Held1, At
<1>16. Files'
  <2>1. ASSUME NEW d \in Children, NEW fd \in Fds
        PROVE  desc'[fd] = [of |-> d, use |-> "file"] <=> desc[fd] = [of |-> d, use |-> "file"]
    BY <1>3, NotClosed
  <2> QED
    BY <1>8, <1>9, <1>13, <2>1 DEF IInv, Files, At
<1>17. PrimaryOwn'
  <2>1. child'[Primary] = child[Primary] /\ first' = first
    BY <1>1, <1>9, Moved
  <2>2. 0 \in Fds /\ first \in Fds \cup {NoFd}
    BY SlotsFds DEF IInv, TypeOK
  <2> QED
    BY <1>3, <2>1, <2>2, NotClosed DEF IInv, PrimaryOwn
<1>18. Told'
  BY <1>1, <1>9, Moved DEF IInv, Told
<1>19. Shaped'
  BY <1>9 DEF IInv, Shaped
<1> QED
  BY <1>10, <1>11, <1>14, <1>15, <1>16, <1>17, <1>18, <1>19 DEF IInv

LEMMA RegisterKeeps ==
  ASSUME Room, IInv, NEW c \in Children, Register(c)
  PROVE  IInv'
<1>1. Goes(c, "setcache") /\ child[c] = "register" /\ c \in Procs /\ c # Primary
  BY Names DEF Register
<1>2. /\ "setcache" \in Stages /\ "setcache" \in HasSocket /\ "register" \in HasSocket
      /\ "setcache" \in Registered /\ "register" \notin Registered
      /\ "register" \notin MayCache /\ "setcache" \notin MayCache /\ "setcache" \notin Undoing
      /\ "setcache" \notin Cached /\ "register" \notin Cached
      /\ "setcache" \notin Empties /\ "register" \notin Empties
  BY DEF Stages, HasSocket, Registered, MayCache, Undoing, Cached, Empties
<1>3. /\ At(Registered)' = At(Registered) \cup {c} /\ c \notin At(Registered)
      /\ At(MayCache)' = At(MayCache) /\ At(Empties)' = At(Empties) /\ At(Cached)' = At(Cached)
  BY <1>1, <1>2, Moved DEF At
<1>4. UNCHANGED <<setup, desc, peb, caches, first, call, built, server, closing>>
  BY DEF Register
<1>5. PICK fd \in Held(c) : sockets' = SetSlot(sockets, peb[c], fd, NoFd)
  BY DEF Register
<1>6. fd \in Fds /\ fd # NoFd /\ peb[c] # NoPeb /\ peb[c] \in Pebs
  BY <1>1, <1>2, SlotsFds, Domains DEF Held
<1>7. \E k \in Slots : /\ sockets[k].peb = NoPeb
                       /\ sockets' = Put(sockets, k, peb[c], fd)
  <2>1. \A i \in Slots : sockets[i].peb # peb[c]
    BY <1>1, <1>3, <1>6, NotFound, Domains, Names DEF IInv, Sockets
  <2>2. FreeSlots(sockets) # {}
    <3>1. /\ At(Registered) \cup {Primary} \in SUBSET ((At(HasSocket) \cup {Primary}) \ {c})
          /\ c \in At(HasSocket)
      BY <1>1, <1>2, <1>3 DEF At, HasSocket
    <3>2. Keyed(sockets, peb, At(Registered) \cup {Primary})
          /\ sockets \in [Slots -> Entry(Fds \cup {NoFd})]
      BY DEF IInv, Sockets, Shaped
    <3> QED
      BY <3>1, <3>2, RoomLeft
  <2> QED
    BY <1>5, <1>6, <2>1, <2>2, SetNew
<1>8. /\ sockets' \in [Slots -> Entry(Fds \cup {NoFd})]
      /\ Keyed(sockets', peb, At(Registered) \cup {Primary} \cup {c})
      /\ In(sockets', peb, c, fd)
      /\ \A q \in At(Registered) \cup {Primary} : \A w :
           In(sockets, peb, q, w) /\ peb[q] # NoPeb => In(sockets', peb, q, w)
  <2>1. PICK k \in Slots : /\ sockets[k].peb = NoPeb
                           /\ sockets' = Put(sockets, k, peb[c], fd)
    BY <1>7
  <2>2. At(Registered) \cup {Primary} \in SUBSET Procs /\ c \notin At(Registered) \cup {Primary}
    BY <1>1, <1>3, Domains, Names
  <2>3. Keyed(sockets, peb, At(Registered) \cup {Primary})
        /\ sockets \in [Slots -> Entry(Fds \cup {NoFd})] /\ fd \in Fds \cup {NoFd}
    BY <1>6 DEF IInv, Sockets, Shaped
  <2>4. peb \in [Procs -> Pebs \cup {NoPeb}] /\ Apart(peb)
    BY Domains
  <2> QED
    <3>1. sockets' \in [Slots -> Entry(Fds \cup {NoFd})]
      BY <1>6, <2>1, <2>3, PutTyped
    <3>2. DOMAIN sockets = Slots
      BY DEF IInv, Shaped
    <3>3. Keyed(sockets', peb, At(Registered) \cup {Primary} \cup {c})
      BY <1>1, <1>6, <2>1, <2>2, <2>3, <2>4, <3>2, PutKeyed
    <3>4. /\ k \in Slots /\ DOMAIN sockets = Slots /\ Apart(peb) /\ c \in Procs /\ peb[c] # NoPeb
          /\ sockets[k].peb \in {NoPeb, peb[c]} /\ sockets' = Put(sockets, k, peb[c], fd)
      BY <1>1, <1>6, <2>1, <2>4, <3>2
    <3>5. In(sockets', peb, c, fd)
      BY <3>4, PutIn, Zenon
    <3>6. ASSUME NEW q \in Procs, NEW w, q # c, peb[q] # NoPeb
          PROVE  In(sockets, peb, q, w) <=> In(sockets', peb, q, w)
      BY <3>4, <3>6, PutIn
    <3> QED
      BY <2>2, <3>1, <3>3, <3>5, <3>6
<1>9. \E k \in Slots : /\ images[k].peb = NoPeb
                       /\ images' = Put(images, k, peb[c], c)
  <2>1. \A i \in Slots : images[i].peb # peb[c]
    BY <1>1, <1>3, <1>6, NotFound, Domains DEF IInv, Images
  <2>3. images' = SetSlot(images, peb[c], c, Primary)
    BY DEF Register
  <2>2. FreeSlots(images) # {}
    <3>1. Keyed(images, peb, At(Registered)) /\ images \in [Slots -> Entry(Procs)]
      BY DEF IInv, Images, Shaped
    <3>2. /\ At(Registered) \in SUBSET ((At(HasSocket) \cup {Primary}) \ {c})
          /\ c \in At(HasSocket)
      BY <1>1, <1>2, <1>3 DEF At, HasSocket
    <3> QED
      BY <3>1, <3>2, RoomLeft
  <2> QED
    BY <1>1, <2>1, <2>2, <2>3, SetNew
<1>10. /\ images' \in [Slots -> Entry(Procs)]
       /\ Keyed(images', peb, At(Registered) \cup {c}) /\ In(images', peb, c, c)
       /\ \A q \in At(Registered) : \A w :
            In(images, peb, q, w) /\ peb[q] # NoPeb => In(images', peb, q, w)
  <2>1. PICK k \in Slots : /\ images[k].peb = NoPeb
                           /\ images' = Put(images, k, peb[c], c)
    BY <1>9
  <2>2. Keyed(images, peb, At(Registered)) /\ images \in [Slots -> Entry(Procs)]
    BY DEF IInv, Images, Shaped
  <2>3. peb \in [Procs -> Pebs \cup {NoPeb}] /\ Apart(peb) /\ At(Registered) \in SUBSET Procs
    BY Domains
  <2> QED
    <3>1. images' \in [Slots -> Entry(Procs)]
      BY <1>1, <1>6, <2>1, <2>2, PutTyped
    <3>2. DOMAIN images = Slots
      BY DEF IInv, Shaped
    <3>3. Keyed(images', peb, At(Registered) \cup {c})
      BY <1>1, <1>3, <1>6, <2>1, <2>2, <2>3, <3>2, PutKeyed
    <3>4. /\ k \in Slots /\ DOMAIN images = Slots /\ Apart(peb) /\ c \in Procs /\ peb[c] # NoPeb
          /\ images[k].peb \in {NoPeb, peb[c]} /\ images' = Put(images, k, peb[c], c)
      BY <1>1, <1>6, <2>1, <2>3, <3>2
    <3>5. In(images', peb, c, c)
      BY <3>4, PutIn, Zenon
    <3>6. ASSUME NEW q \in Procs, NEW w, q # c, peb[q] # NoPeb
          PROVE  In(images, peb, q, w) <=> In(images', peb, q, w)
      BY <3>4, <3>6, PutIn
    <3> QED
      <4>1. \A q \in At(Registered) : q \in Procs /\ q # c
        BY <1>3, <2>3
      <4> QED
        BY <3>1, <3>3, <3>5, <3>6, <4>1
<1>11. TypeOK'
  <2>1. Entries(sockets', Fds, NoFd)
    <3>1. PICK k \in Slots : sockets' = Put(sockets, k, peb[c], fd)
      BY <1>7
    <3>2. \A i \in Slots : sockets'[i] = IF i = k THEN [peb |-> peb[c], val |-> fd] ELSE sockets[i]
      BY <3>1 DEF IInv, Shaped, Put
    <3>3. sockets'[k].peb \in Pebs /\ sockets'[k].val \in Fds
      BY <1>6, <3>2
    <3> QED
      BY <3>2, <3>3 DEF IInv, TypeOK, Entries
  <2>2. Entries(images', Children, Primary)
    <3>1. PICK k \in Slots : images' = Put(images, k, peb[c], c)
      BY <1>9
    <3>2. \A i \in Slots : images'[i] = IF i = k THEN [peb |-> peb[c], val |-> c] ELSE images[i]
      BY <3>1 DEF IInv, Shaped, Put
    <3>3. images'[k].peb \in Pebs /\ images'[k].val \in Children
      BY <1>6, <3>2
    <3> QED
      BY <3>2, <3>3 DEF IInv, TypeOK, Entries
  <2>3. Entries(caches', Fds \cup {NoFd}, NoFd)
    BY <1>4 DEF IInv, TypeOK, Entries
  <2> QED
    BY <1>1, <1>2, <1>4, <2>1, <2>2, <2>3, MovedTypes DEF IInv, TypeOK
<1>12. Shaped'
  BY <1>4, <1>8, <1>10 DEF IInv, Shaped
<1>13. OwnPebs'
  <2>1. "setcache" \in {"none", "undone"} <=> child[c] \in {"none", "undone"}
    BY <1>1
  <2> QED
    BY <1>1, <1>2, <1>4, <2>1, PebsKept
<1>14. Held1' /\ \A d \in Children : Held(d)' = Held(d)
  BY <1>1, <1>2, <1>4, HeldKept
<1>15. Sockets'
  <2>1. (At(Registered) \cup {c}) \cup {Primary} = At(Registered) \cup {Primary} \cup {c}
    OBVIOUS
  <2>2. In(sockets', peb, Primary, 0)
    BY <1>8, Domains, SlotsFds DEF IInv, Sockets
  <2>3. \A d \in At(Registered) \cup {c} : \E e \in Held(d) : In(sockets', peb, d, e)
    <3>1. \A d \in At(Registered) : d \in Children /\ peb[d] # NoPeb
      BY Domains, StageSets DEF At
    <3>2. \A d \in At(Registered) : Held(d) \subseteq Fds \cup {NoFd}
      BY DEF Held
    <3>3. \A d \in At(Registered) : \E e \in Held(d) : In(sockets, peb, d, e)
      BY DEF IInv, Sockets
    <3> QED
      BY <1>5, <1>8, <3>1, <3>2, <3>3
  <2>4. \A d \in At(Registered) \cup {c} : Held(d)' = Held(d)
    BY <1>14 DEF At
  <2> QED
    BY <1>3, <1>4, <1>8, <2>1, <2>2, <2>3, <2>4 DEF Sockets
<1>16. Images'
  <2>1. \A d \in At(Registered) : In(images', peb, d, d)
    BY <1>10, Domains, StageSets, Names DEF IInv, Images, At
  <2> QED
    BY <1>3, <1>4, <1>10, <2>1 DEF Images
<1>17. Caches' /\ Files'
  BY <1>3, <1>4 DEF IInv, Caches, Files
<1>18. PrimaryOwn' /\ Told'
  BY <1>1, <1>4, Moved DEF IInv, PrimaryOwn, Told
<1> QED
  BY <1>11, <1>12, <1>13, <1>14, <1>15, <1>16, <1>17, <1>18 DEF IInv

\* A step of a child that leaves the tables of sockets and images.
LEMMA OthersKept ==
  ASSUME IInv, NEW c \in Children, NEW to, Goes(c, to), UNCHANGED <<sockets, images, peb>>,
         to \in Registered <=> child[c] \in Registered,
         \A d \in Children : Held(d)' = Held(d)
  PROVE  Sockets' /\ Images'
<1>1. At(Registered)' = At(Registered)
  BY Moved DEF At
<1>2. \A d \in At(Registered) : Held(d)' = Held(d)
  BY DEF At
<1>3. Sockets'
  BY <1>1, <1>2 DEF IInv, Sockets
<1>4. Images'
  BY <1>1 DEF IInv, Images
<1> QED
  BY <1>3, <1>4

LEMMA AllocCacheKeeps ==
  ASSUME IInv, NEW c \in Children, AllocCache(c)
  PROVE  IInv'
<1>1. Goes(c, "thread") /\ child[c] = "setcache" /\ c \in Procs
  BY Names DEF AllocCache
<1>2. /\ "thread" \in Stages /\ "thread" \in HasSocket /\ "setcache" \in HasSocket
      /\ "setcache" \in Registered /\ "thread" \in Registered
      /\ "setcache" \notin MayCache /\ "thread" \in MayCache /\ "thread" \notin Undoing
      /\ "setcache" \notin Cached /\ "thread" \in Cached
      /\ "setcache" \notin Empties /\ "thread" \in Empties
  BY DEF Stages, HasSocket, Registered, MayCache, Undoing, Cached, Empties
<1>3. /\ At(MayCache)' = At(MayCache) \cup {c} /\ c \notin At(MayCache)
      /\ At(Empties)' = At(Empties) \cup {c} /\ At(Cached)' = At(Cached) \cup {c}
  BY <1>1, <1>2, Moved DEF At
<1>4. UNCHANGED <<setup, desc, peb, sockets, images, first, call, built, server, closing>>
  BY DEF AllocCache
<1>5. peb[c] # NoPeb /\ peb[c] \in Pebs /\ Apart(peb) /\ At(MayCache) \in SUBSET Procs
  BY <1>1, <1>2, Domains
<1>6. With(caches, peb[c]) = {}
  BY <1>1, <1>3, <1>5, NotFound DEF IInv, Caches
<1>7. PICK k \in Slots : caches[k].peb = NoPeb /\ caches' = Put(caches, k, peb[c], NoFd)
  <2>1. FreeSlots(caches) # {}
    BY <1>6 DEF AllocCache
  <2>2. Min(FreeSlots(caches)) \in FreeSlots(caches)
    BY <2>1, MinIn, SlotsFds DEF FreeSlots, With
  <2>3. caches' = Put(caches, Min(FreeSlots(caches)), peb[c], NoFd)
    BY <1>6 DEF AllocCache, Put
  <2> QED
    BY <2>2, <2>3 DEF FreeSlots, With
<1>8. DOMAIN caches = Slots /\ caches \in [Slots -> Entry(Fds \cup {NoFd})]
      /\ Keyed(caches, peb, At(MayCache))
  BY DEF IInv, Shaped, Caches
<1>9. caches' \in [Slots -> Entry(Fds \cup {NoFd})]
  BY <1>5, <1>7, <1>8, PutTyped
<1>10. Keyed(caches', peb, At(MayCache) \cup {c})
  BY <1>1, <1>3, <1>5, <1>7, <1>8, PutKeyed
<1>11. In(caches', peb, c, NoFd)
  BY <1>1, <1>5, <1>7, <1>8, PutIn
<1>12. \A q \in Procs : \A w : q # c /\ peb[q] # NoPeb =>
         (In(caches, peb, q, w) <=> In(caches', peb, q, w))
  <2>1. Apart(peb) /\ c \in Procs /\ peb[c] # NoPeb /\ caches[k].peb \in {NoPeb, peb[c]}
    BY <1>1, <1>5, <1>7
  <2> QED
    BY <1>7, <1>8, <2>1, PutIn
<1>13. \A d \in At(MayCache) : d \in Procs /\ d # c /\ peb[d] # NoPeb
  BY <1>3, <1>5, Domains, StageSets DEF At
<1>14. TypeOK'
  <2>1. Entries(caches', Fds \cup {NoFd}, NoFd)
    <3>1. \A i \in Slots : caches'[i] = IF i = k THEN [peb |-> peb[c], val |-> NoFd] ELSE caches[i]
      BY <1>7, <1>8 DEF Put
    <3>2. caches'[k].peb \in Pebs /\ caches'[k].val \in Fds \cup {NoFd}
      BY <1>5, <3>1
    <3> QED
      BY <3>1, <3>2 DEF IInv, TypeOK, Entries
  <2>2. Entries(sockets', Fds, NoFd) /\ Entries(images', Children, Primary)
    BY <1>4 DEF IInv, TypeOK, Entries
  <2> QED
    BY <1>1, <1>2, <1>4, <2>1, <2>2, MovedTypes DEF IInv, TypeOK
<1>15. Shaped'
  BY <1>4, <1>9 DEF IInv, Shaped
<1>16. OwnPebs'
  <2>1. "thread" \in {"none", "undone"} <=> child[c] \in {"none", "undone"}
    BY <1>1
  <2> QED
    BY <1>1, <1>2, <1>4, <2>1, PebsKept
<1>17. Held1' /\ \A d \in Children : Held(d)' = Held(d)
  BY <1>1, <1>2, <1>4, HeldKept
<1>18. Sockets' /\ Images'
  BY <1>1, <1>2, <1>4, <1>17, OthersKept
<1>19. Caches'
  <2>1. At(Empties) \subseteq At(MayCache) /\ At(Cached) \subseteq At(MayCache)
    BY StageSets DEF At
  <2>2. \A d \in At(Empties) : In(caches', peb, d, NoFd)
    BY <1>12, <1>13, <2>1 DEF IInv, Caches
  <2>3. \A d \in At(Cached) : \E v \in Fds \cup {NoFd} : In(caches', peb, d, v)
    BY <1>12, <1>13, <2>1 DEF IInv, Caches
  <2> QED
    BY <1>3, <1>4, <1>10, <1>11, <2>2, <2>3 DEF Caches
<1>20. Files'
  <2>1. ASSUME NEW d \in Children, NEW fd \in Fds, desc[fd] = [of |-> d, use |-> "file"]
        PROVE  d \in At(MayCache) \cup {c} /\ In(caches', peb, d, fd)
    BY <1>12, <1>13, <2>1 DEF IInv, Files
  <2>2. ASSUME NEW d \in At(MayCache), NEW fd \in Fds, In(caches', peb, d, fd)
        PROVE  desc[fd] = [of |-> d, use |-> "file"]
    BY <1>12, <1>13, <2>2 DEF IInv, Files
  <2>3. ASSUME NEW fd \in Fds PROVE ~In(caches', peb, c, fd)
    BY <1>5, <1>10, <1>11, OneEntry, SlotsFds
  <2> QED
    BY <1>3, <1>4, <2>1, <2>2, <2>3 DEF Files
<1>21. PrimaryOwn' /\ Told'
  BY <1>1, <1>4, Moved DEF IInv, PrimaryOwn, Told
<1> QED
  BY <1>14, <1>15, <1>16, <1>17, <1>18, <1>19, <1>20, <1>21 DEF IInv

LEMMA BuildStartupKeeps ==
  ASSUME IInv, NEW c \in Children, BuildStartup(c)
  PROVE  IInv'
<1>1. Goes(c, "built") /\ child[c] = "startup" /\ c \in Procs /\ FreeFds # {}
  BY Names DEF BuildStartup
<1>2. /\ "built" \in Stages /\ "built" \in HasSocket /\ "startup" \in HasSocket
      /\ "startup" \in Registered /\ "built" \in Registered
      /\ "startup" \in MayCache /\ "built" \in MayCache /\ "built" \notin Undoing
      /\ "startup" \in Cached /\ "built" \in Cached
      /\ "startup" \in Empties /\ "built" \notin Empties
  BY DEF Stages, HasSocket, Registered, MayCache, Undoing, Cached, Empties
<1>3. /\ At(MayCache)' = At(MayCache) /\ c \in At(MayCache) /\ At(Cached)' = At(Cached)
      /\ At(Empties)' = At(Empties) \ {c} /\ c \in At(Empties) /\ c \in At(Registered)
      /\ c \in At(Cached)
  BY <1>1, <1>2, Moved DEF At
<1>4. UNCHANGED <<setup, peb, sockets, images, call, server, closing>>
      /\ built' = [built EXCEPT ![c] = TRUE]
  BY DEF BuildStartup
<1>5. peb[c] # NoPeb /\ peb[c] \in Pebs /\ Apart(peb) /\ At(MayCache) \in SUBSET Procs
  BY <1>1, <1>2, Domains
<1>6. desc' = Open(c, "file")
  <2>1. desc[CurrentServerFd(c)] = [of |-> c, use |-> "socket"]
    BY <1>3, ChildLooks, HeldIs
  <2> QED
    BY <2>1 DEF BuildStartup, ReceiveFile
<1>7. /\ Lowest \in Fds /\ desc[Lowest] = Closed
      /\ desc'[Lowest] = [of |-> c, use |-> "file"]
      /\ \A fd \in Fds : fd # Lowest => desc'[fd] = desc[fd]
      /\ desc' \in [Fds -> {Closed} \cup [of : Procs, use : {"socket", "file"}]]
  BY <1>1, <1>6, Opened
<1>8. DOMAIN caches = Slots /\ caches \in [Slots -> Entry(Fds \cup {NoFd})]
      /\ Keyed(caches, peb, At(MayCache)) /\ In(caches, peb, c, NoFd)
  BY <1>3 DEF IInv, Shaped, Caches
<1>9. PICK k \in Slots : /\ caches[k] = [peb |-> peb[c], val |-> NoFd]
                         /\ caches[k].peb = peb[c] /\ With(caches, peb[c]) = {k}
  BY <1>5, <1>8, Entered
<1>10. caches' = Put(caches, k, peb[c], Lowest) /\ first' = first
  <2>1. Min(With(caches, peb[c])) = k
    BY <1>9, MinIn, SlotsFds
  <2>2. caches' = [caches EXCEPT ![k].val = Lowest] /\ first' = first
    BY <1>9, <2>1 DEF BuildStartup, ReceiveFile, StoreFile
  <2>3. [caches[k] EXCEPT !.val = Lowest] = [peb |-> peb[c], val |-> Lowest]
    BY <1>9
  <2> QED
    BY <2>2, <2>3 DEF Put
<1>11. caches' \in [Slots -> Entry(Fds \cup {NoFd})]
  BY <1>5, <1>7, <1>8, <1>10, PutTyped
<1>12. Keyed(caches', peb, At(MayCache))
  BY <1>1, <1>5, <1>8, <1>9, <1>10, PutKeyed
<1>13. In(caches', peb, c, Lowest)
  BY <1>1, <1>5, <1>8, <1>9, <1>10, PutIn, ZenonT(30)
<1>14. \A q \in Procs : \A w : q # c /\ peb[q] # NoPeb =>
         (In(caches, peb, q, w) <=> In(caches', peb, q, w))
  <2>1. Apart(peb) /\ c \in Procs /\ peb[c] # NoPeb /\ caches[k].peb \in {NoPeb, peb[c]}
    BY <1>1, <1>5, <1>9
  <2>2. DOMAIN caches = Slots /\ caches' = Put(caches, k, peb[c], Lowest)
    BY <1>8, <1>10
  <2> QED
    BY <2>1, <2>2, PutIn
<1>15. \A d \in At(MayCache) : d \in Procs /\ peb[d] # NoPeb
  BY <1>5, Domains, StageSets DEF At
<1>16. TypeOK'
  <2>1. Entries(caches', Fds \cup {NoFd}, NoFd)
    <3>1. \A i \in Slots : caches'[i] = IF i = k THEN [peb |-> peb[c], val |-> Lowest] ELSE caches[i]
      BY <1>8, <1>10 DEF Put
    <3>2. caches'[k].peb \in Pebs /\ caches'[k].val \in Fds \cup {NoFd}
      BY <1>5, <1>7, <3>1
    <3> QED
      BY <3>1, <3>2 DEF IInv, TypeOK, Entries
  <2>2. Entries(sockets', Fds, NoFd) /\ Entries(images', Children, Primary)
    BY <1>4 DEF IInv, TypeOK, Entries
  <2> QED
    BY <1>1, <1>2, <1>4, <1>7, <1>10, <2>1, <2>2, MovedTypes DEF IInv, TypeOK
<1>17. Shaped'
  BY <1>4, <1>11 DEF IInv, Shaped
<1>18. OwnPebs'
  <2>1. "built" \in {"none", "undone"} <=> child[c] \in {"none", "undone"}
    BY <1>1
  <2> QED
    BY <1>1, <1>2, <1>4, <2>1, PebsKept
<1>19. \A d \in Children, fd \in Fds :
         desc'[fd] = [of |-> d, use |-> "socket"] <=> desc[fd] = [of |-> d, use |-> "socket"]
  <2>1. \A d \in Children : [of |-> d, use |-> "socket"] # [of |-> c, use |-> "file"]
    OBVIOUS
  <2> QED
    BY <1>7, <2>1, NotClosed
<1>20. Held1' /\ \A d \in Children : Held(d)' = Held(d)
  BY <1>1, <1>2, <1>4, <1>19, HeldKept
<1>21. Sockets' /\ Images'
  BY <1>1, <1>2, <1>4, <1>20, OthersKept
<1>22. Caches'
  <2>1. At(Empties) \subseteq At(MayCache) /\ At(Cached) \subseteq At(MayCache)
    BY StageSets DEF At
  <2>2. \A d \in At(Empties) \ {c} : In(caches', peb, d, NoFd)
    BY <1>14, <1>15, <2>1 DEF IInv, Caches
  <2>3. \A d \in At(Cached) \ {c} : \E v \in Fds \cup {NoFd} : In(caches', peb, d, v)
    BY <1>14, <1>15, <2>1 DEF IInv, Caches
  <2>4. \E v \in Fds \cup {NoFd} : In(caches', peb, c, v)
    BY <1>7, <1>13
  <2> QED
    BY <1>3, <1>4, <1>12, <2>2, <2>3, <2>4 DEF Caches
<1>23. Files'
  <2>1. ASSUME NEW d \in Children, NEW fd \in Fds, desc'[fd] = [of |-> d, use |-> "file"]
        PROVE  d \in At(MayCache) /\ In(caches', peb, d, fd)
    <3>1. CASE fd = Lowest
      <4>1. d = c
        BY <2>1, <3>1, <1>7
      <4> QED
        BY <3>1, <4>1, <1>3, <1>13
    <3>2. CASE fd # Lowest
      <4>1. d \in At(MayCache) /\ In(caches, peb, d, fd)
        BY <2>1, <3>2, <1>7 DEF IInv, Files
      <4>2. d # c
        BY <4>1, <1>5, <1>8, OneEntry, SlotsFds
      <4> QED
        BY <4>1, <4>2, <1>14, <1>15
    <3> QED
      BY <3>1, <3>2
  <2>2. ASSUME NEW d \in At(MayCache), NEW fd \in Fds, In(caches', peb, d, fd)
        PROVE  desc'[fd] = [of |-> d, use |-> "file"]
    <3>1. CASE d = c
      <4>1. fd = Lowest
        BY <2>2, <3>1, <1>5, <1>12, <1>13, OneEntry
      <4> QED
        BY <3>1, <4>1, <1>7
    <3>2. CASE d # c
      <4>1. desc[fd] = [of |-> d, use |-> "file"]
        BY <2>2, <3>2, <1>14, <1>15 DEF IInv, Files
      <4> QED
        BY <4>1, <1>7, NotClosed
    <3> QED
      BY <3>1, <3>2
  <2> QED
    BY <1>3, <1>4, <2>1, <2>2 DEF Files
<1>24. PrimaryOwn'
  <2>1. child'[Primary] = child[Primary] /\ 0 \in Fds /\ first \in Fds \cup {NoFd}
    BY <1>1, Moved, SlotsFds DEF IInv, TypeOK
  <2> QED
    BY <1>7, <1>10, <2>1, NotClosed DEF IInv, PrimaryOwn
<1>25. Told'
  <2>1. \A d \in Children : built'[d] = IF d = c THEN TRUE ELSE built[d]
    BY <1>4 DEF IInv, TypeOK
  <2> QED
    BY <1>1, <1>4, <2>1, Moved DEF IInv, Told
<1> QED
  BY <1>16, <1>17, <1>18, <1>20, <1>21, <1>22, <1>23, <1>24, <1>25 DEF IInv

-----------------------------------------------------------------------------
(* Undoing it.                                                             *)

LEMMA UnregisterKeeps ==
  ASSUME IInv, NEW c \in Children, Unregister(c)
  PROVE  IInv'
<1>1. Goes(c, "uncache") /\ child[c] = "unregister" /\ c \in Procs /\ c # Primary
  BY Names DEF Unregister
<1>2. /\ "uncache" \in Stages /\ "uncache" \in HasSocket /\ "unregister" \in HasSocket
      /\ "unregister" \in Registered /\ "uncache" \notin Registered
      /\ "unregister" \in MayCache /\ "uncache" \in MayCache
      /\ "unregister" \in Undoing /\ "uncache" \in Undoing
      /\ "unregister" \notin Cached /\ "uncache" \notin Cached
      /\ "unregister" \notin Empties /\ "uncache" \notin Empties
  BY DEF Stages, HasSocket, Registered, MayCache, Undoing, Cached, Empties
<1>3. /\ At(Registered)' = At(Registered) \ {c} /\ c \in At(Registered)
      /\ At(MayCache)' = At(MayCache) /\ At(Empties)' = At(Empties) /\ At(Cached)' = At(Cached)
  BY <1>1, <1>2, Moved DEF At
<1>4. UNCHANGED <<setup, desc, peb, caches, first, call, built, server, closing>>
  BY DEF Unregister
<1>5. peb[c] # NoPeb /\ Apart(peb) /\ At(Registered) \in SUBSET Procs
  BY <1>1, <1>2, Domains
<1>6. PICK fd \in Held(c) : In(sockets, peb, c, fd)
  BY <1>3 DEF IInv, Sockets
<1>7. /\ DOMAIN sockets = Slots /\ sockets \in [Slots -> Entry(Fds \cup {NoFd})]
      /\ Keyed(sockets, peb, At(Registered) \cup {Primary})
  BY DEF IInv, Shaped, Sockets
<1>8. /\ DOMAIN images = Slots /\ images \in [Slots -> Entry(Procs)]
      /\ Keyed(images, peb, At(Registered)) /\ In(images, peb, c, c)
  BY <1>3 DEF IInv, Shaped, Images
<1>9. \E i \in Slots : With(sockets, peb[c]) = {i} /\ sockets' = Clear(sockets, i, NoFd)
  <2>1. PICK i \in Slots : /\ sockets[i] = [peb |-> peb[c], val |-> fd]
                           /\ sockets[i].peb = peb[c] /\ With(sockets, peb[c]) = {i}
    BY <1>5, <1>6, <1>7, Entered
  <2>2. SetSlot(sockets, peb[c], NoFd, NoFd) = Clear(sockets, i, NoFd)
    BY <2>1, SetDrop
  <2> QED
    BY <2>1, <2>2 DEF Unregister
<1>10. \E i \in Slots : With(images, peb[c]) = {i} /\ images' = Clear(images, i, Primary)
  <2>1. PICK i \in Slots : /\ images[i] = [peb |-> peb[c], val |-> c]
                           /\ images[i].peb = peb[c] /\ With(images, peb[c]) = {i}
    BY <1>5, <1>8, Entered
  <2>2. SetSlot(images, peb[c], Primary, Primary) = Clear(images, i, Primary)
    BY <2>1, SetDrop
  <2> QED
    BY <2>1, <2>2 DEF Unregister
<1>11. /\ Without(sockets', sockets, peb[c], NoFd)
       /\ sockets' \in [Slots -> Entry(Fds \cup {NoFd})]
  <2>1. NoFd \in Fds \cup {NoFd} /\ sockets \in [Slots -> Entry(Fds \cup {NoFd})]
    BY <1>7
  <2> HIDE DEF NoFd
  <2> QED
    BY <1>9, <2>1, ClearTyped, Zenon
<1>12. /\ Without(images', images, peb[c], Primary)
       /\ images' \in [Slots -> Entry(Procs)]
  BY <1>8, <1>10, ClearTyped, Names
<1>13. /\ Keyed(sockets', peb, (At(Registered) \cup {Primary}) \ {c})
       /\ \A q \in Procs : \A w : q # c /\ peb[q] # NoPeb =>
            (In(sockets, peb, q, w) <=> In(sockets', peb, q, w))
  <2>1. Keyed(sockets', peb, (At(Registered) \cup {Primary}) \ {c})
    BY <1>7, <1>11, ClearedKeyed
  <2>2. ASSUME NEW q \in Procs, NEW w, q # c, peb[q] # NoPeb
        PROVE  In(sockets, peb, q, w) <=> In(sockets', peb, q, w)
    BY <1>1, <1>5, <1>11, <2>2, ClearedIn, ZenonT(30)
  <2> QED
    BY <2>1, <2>2
<1>14. /\ Keyed(images', peb, At(Registered) \ {c})
       /\ \A q \in Procs : \A w : q # c /\ peb[q] # NoPeb =>
            (In(images, peb, q, w) <=> In(images', peb, q, w))
  <2>1. Keyed(images', peb, At(Registered) \ {c})
    BY <1>8, <1>12, ClearedKeyed
  <2>2. ASSUME NEW q \in Procs, NEW w, q # c, peb[q] # NoPeb
        PROVE  In(images, peb, q, w) <=> In(images', peb, q, w)
    BY <1>1, <1>5, <1>12, <2>2, ClearedIn
  <2> QED
    BY <2>1, <2>2
<1>15. \A d \in At(Registered) : d \in Procs /\ d \in Children /\ peb[d] # NoPeb
  BY <1>5, Domains, StageSets DEF At
<1>16. TypeOK'
  <2>1. Entries(sockets', Fds, NoFd) /\ Entries(images', Children, Primary)
    BY <1>11, <1>12 DEF IInv, TypeOK, Entries, Without
  <2>2. Entries(caches', Fds \cup {NoFd}, NoFd)
    BY <1>4 DEF IInv, TypeOK, Entries
  <2> QED
    BY <1>1, <1>2, <1>4, <2>1, <2>2, MovedTypes DEF IInv, TypeOK
<1>17. Shaped'
  BY <1>4, <1>11, <1>12 DEF IInv, Shaped
<1>18. OwnPebs'
  <2>1. "uncache" \in {"none", "undone"} <=> child[c] \in {"none", "undone"}
    BY <1>1
  <2> QED
    BY <1>1, <1>2, <1>4, <2>1, PebsKept
<1>19. Held1' /\ \A d \in Children : Held(d)' = Held(d)
  BY <1>1, <1>2, <1>4, HeldKept
<1>20. Sockets'
  <2>1. (At(Registered) \ {c}) \cup {Primary} = (At(Registered) \cup {Primary}) \ {c}
    BY <1>1
  <2>2. In(sockets', peb, Primary, 0)
    BY <1>1, <1>13, Domains, Names DEF IInv, Sockets
  <2>3. \A d \in At(Registered) \ {c} : \E e \in Held(d) : In(sockets', peb, d, e)
    BY <1>13, <1>15 DEF IInv, Sockets
  <2>4. \A d \in At(Registered) : Held(d)' = Held(d)
    BY <1>15, <1>19
  <2> QED
    BY <1>3, <1>4, <1>13, <2>1, <2>2, <2>3, <2>4 DEF Sockets
<1>21. Images'
  <2>1. \A d \in At(Registered) \ {c} : In(images', peb, d, d)
    BY <1>14, <1>15 DEF IInv, Images
  <2> QED
    BY <1>3, <1>4, <1>14, <2>1 DEF Images
<1>22. Caches' /\ Files'
  BY <1>3, <1>4 DEF IInv, Caches, Files
<1>23. PrimaryOwn' /\ Told'
  BY <1>1, <1>4, Moved DEF IInv, PrimaryOwn, Told
<1> QED
  BY <1>16, <1>17, <1>18, <1>19, <1>20, <1>21, <1>22, <1>23 DEF IInv

LEMMA ReleaseCacheKeeps ==
  ASSUME IInv, NEW c \in Children, ReleaseCache(c)
  PROVE  IInv'
<1>1. Goes(c, "free") /\ child[c] = "uncache" /\ c \in Procs /\ c # Primary
  BY Names DEF ReleaseCache
<1>2. /\ "free" \in Stages /\ "free" \in HasSocket /\ "uncache" \in HasSocket
      /\ "uncache" \notin Registered /\ "free" \notin Registered
      /\ "uncache" \in MayCache /\ "free" \notin MayCache
      /\ "free" \in Undoing /\ "uncache" \in Undoing
      /\ "free" \notin Cached /\ "uncache" \notin Cached
      /\ "free" \notin Empties /\ "uncache" \notin Empties
  BY DEF Stages, HasSocket, Registered, MayCache, Undoing, Cached, Empties
<1>3. /\ At(MayCache)' = At(MayCache) \ {c} /\ c \in At(MayCache)
      /\ At(Empties)' = At(Empties) /\ At(Cached)' = At(Cached)
      /\ c \notin At(Empties) /\ c \notin At(Cached)
  BY <1>1, <1>2, Moved DEF At
<1>4. UNCHANGED <<setup, peb, sockets, images, first, call, built, server, closing>>
  BY DEF ReleaseCache
<1>5. peb[c] # NoPeb /\ Apart(peb) /\ At(MayCache) \in SUBSET Procs
  BY <1>1, <1>2, Domains
<1>6. caches \in [Slots -> Entry(Fds \cup {NoFd})] /\ Keyed(caches, peb, At(MayCache))
  BY DEF IInv, Shaped, Caches
<1>7. /\ Without(caches', caches, peb[c], NoFd)
      /\ caches' \in [Slots -> Entry(Fds \cup {NoFd})]
  <2>1. Empty(NoFd) \in Entry(Fds \cup {NoFd})
    BY DEF Empty, Entry
  <2>2. caches' = [i \in Slots |-> IF i \in With(caches, peb[c]) THEN Empty(NoFd) ELSE caches[i]]
    BY DEF ReleaseCache
  <2>3. caches' \in [Slots -> Entry(Fds \cup {NoFd})]
    BY <1>6, <2>1, <2>2
  <2> QED
    BY <2>2, <2>3 DEF With, Without
<1>8. Keyed(caches', peb, At(MayCache) \ {c})
  BY <1>6, <1>7, ClearedKeyed
<1>9. ASSUME NEW q \in Procs, NEW w, q # c, peb[q] # NoPeb
      PROVE  In(caches, peb, q, w) <=> In(caches', peb, q, w)
  BY <1>1, <1>5, <1>7, <1>9, ClearedIn
<1> DEFINE vals == {caches[i].val : i \in With(caches, peb[c])}
<1>10. \A v : v \in vals <=> In(caches, peb, c, v)
  <2>1. ASSUME NEW v, v \in vals
        PROVE  In(caches, peb, c, v)
    <3>1. PICK i \in Slots : caches[i].peb = peb[c] /\ caches[i].val = v
      BY <2>1 DEF With
    <3>2. caches[i] = [peb |-> peb[c], val |-> v]
      BY <1>6, <3>1 DEF Entry
    <3> QED
      BY <3>2 DEF In
  <2>2. ASSUME NEW v, In(caches, peb, c, v)
        PROVE  v \in vals
    <3>1. PICK i \in Slots : caches[i] = [peb |-> peb[c], val |-> v]
      BY <2>2 DEF In
    <3>2. caches[i].peb = peb[c] /\ caches[i].val = v
      BY <3>1
    <3> QED
      BY <3>2 DEF With
  <2> QED
    BY <2>1, <2>2
<1>11. desc' = CloseAll(vals)
  BY DEF ReleaseCache
<1> HIDE DEF vals
<1>12. /\ \A fd \in Fds : desc'[fd] = IF fd \in vals THEN Closed ELSE desc[fd]
       /\ desc' \in [Fds -> {Closed} \cup [of : Procs, use : {"socket", "file"}]]
  BY <1>11, ClosedAll
<1>13. \A fd \in Fds : fd \in vals => desc[fd] = [of |-> c, use |-> "file"]
  BY <1>3, <1>10 DEF IInv, Files
<1>14. \A d \in At(MayCache) : d \in Procs /\ d \in Children /\ peb[d] # NoPeb
  BY <1>5, Domains, StageSets DEF At
<1>15. TypeOK'
  <2>1. Entries(caches', Fds \cup {NoFd}, NoFd)
    BY <1>7 DEF IInv, TypeOK, Entries, Without
  <2>2. Entries(sockets', Fds, NoFd) /\ Entries(images', Children, Primary)
    BY <1>4 DEF IInv, TypeOK, Entries
  <2> QED
    BY <1>1, <1>2, <1>4, <1>12, <2>1, <2>2, MovedTypes DEF IInv, TypeOK
<1>16. Shaped'
  BY <1>4, <1>7 DEF IInv, Shaped
<1>17. OwnPebs'
  <2>1. "free" \in {"none", "undone"} <=> child[c] \in {"none", "undone"}
    BY <1>1
  <2> QED
    BY <1>1, <1>2, <1>4, <2>1, PebsKept
<1>18. Held1' /\ \A d \in Children : Held(d)' = Held(d)
  <2>1. \A d \in Children, fd \in Fds :
          desc'[fd] = [of |-> d, use |-> "socket"] <=> desc[fd] = [of |-> d, use |-> "socket"]
    <3>1. \A d \in Children : [of |-> d, use |-> "socket"] # [of |-> c, use |-> "file"]
      OBVIOUS
    <3> QED
      BY <1>12, <1>13, <3>1, NotClosed
  <2> QED
    BY <1>1, <1>2, <1>4, <2>1, HeldKept
<1>19. Sockets' /\ Images'
  BY <1>1, <1>2, <1>4, <1>18, OthersKept
<1>20. Caches'
  <2>1. At(Empties) \subseteq At(MayCache) /\ At(Cached) \subseteq At(MayCache)
    BY StageSets DEF At
  <2>2. \A d \in At(Empties) : In(caches', peb, d, NoFd)
    BY <1>3, <1>9, <1>14, <2>1 DEF IInv, Caches
  <2>3. \A d \in At(Cached) : \E v \in Fds \cup {NoFd} : In(caches', peb, d, v)
    BY <1>3, <1>9, <1>14, <2>1 DEF IInv, Caches
  <2> QED
    BY <1>3, <1>4, <1>8, <2>2, <2>3 DEF Caches
<1>21. Files'
  <2>1. ASSUME NEW d \in Children, NEW fd \in Fds, desc'[fd] = [of |-> d, use |-> "file"]
        PROVE  d \in At(MayCache) \ {c} /\ In(caches', peb, d, fd)
    <3>1. fd \notin vals /\ desc[fd] = [of |-> d, use |-> "file"]
      BY <2>1, <1>12, NotClosed
    <3>2. d \in At(MayCache) /\ In(caches, peb, d, fd)
      BY <3>1 DEF IInv, Files
    <3>3. d # c
      BY <1>10, <3>1, <3>2
    <3> QED
      BY <1>9, <1>14, <3>2, <3>3
  <2>2. ASSUME NEW d \in At(MayCache) \ {c}, NEW fd \in Fds, In(caches', peb, d, fd)
        PROVE  desc'[fd] = [of |-> d, use |-> "file"]
    <3>1. In(caches, peb, d, fd)
      BY <1>9, <1>14, <2>2
    <3>2. desc[fd] = [of |-> d, use |-> "file"]
      BY <3>1 DEF IInv, Files
    <3>3. [of |-> d, use |-> "file"] # [of |-> c, use |-> "file"]
      OBVIOUS
    <3> QED
      BY <1>12, <1>13, <3>2, <3>3
  <2> QED
    BY <1>3, <1>4, <2>1, <2>2 DEF Files
<1>22. PrimaryOwn'
  <2>1. child'[Primary] = child[Primary] /\ 0 \in Fds /\ first \in Fds \cup {NoFd}
    BY <1>1, Moved, SlotsFds DEF IInv, TypeOK
  <2>2. /\ [of |-> Primary, use |-> "socket"] # [of |-> c, use |-> "file"]
        /\ [of |-> Primary, use |-> "file"] # [of |-> c, use |-> "file"]
    BY <1>1
  <2> QED
    BY <1>4, <1>12, <1>13, <2>1, <2>2 DEF IInv, PrimaryOwn
<1>23. Told'
  BY <1>1, <1>4, Moved DEF IInv, Told
<1> QED
  BY <1>15, <1>16, <1>17, <1>18, <1>19, <1>20, <1>21, <1>22, <1>23 DEF IInv

LEMMA CloseSocketKeeps ==
  ASSUME IInv, NEW c \in Children, CloseSocket(c)
  PROVE  IInv'
<1>1. child[c] = "free" /\ c \in Procs /\ c # Primary
  BY Names DEF CloseSocket
<1>2. PICK to \in {"undone", "gone"} :
        /\ Goes(c, to)
        /\ to = "undone" => peb' = [peb EXCEPT ![c] = NoPeb]
        /\ to = "gone" => peb' = peb
  <2>1. CASE call[c] = "spawn"
    BY <2>1 DEF CloseSocket
  <2>2. CASE call[c] # "spawn"
    BY <2>2 DEF CloseSocket
  <2> QED
    BY <2>1, <2>2
<1>3. /\ to \in Stages /\ to \notin HasSocket /\ "free" \in HasSocket /\ "free" \in Undoing
      /\ to \notin Registered /\ to \notin MayCache /\ to \notin Undoing
      /\ to \notin Cached /\ to \notin Empties
      /\ "free" \notin Registered /\ "free" \notin MayCache
      /\ "free" \notin Cached /\ "free" \notin Empties
  BY DEF Stages, HasSocket, Registered, MayCache, Undoing, Cached, Empties
<1>4. /\ At(Registered)' = At(Registered) /\ At(MayCache)' = At(MayCache)
      /\ At(Empties)' = At(Empties) /\ At(Cached)' = At(Cached)
      /\ c \notin At(Registered) /\ c \notin At(MayCache)
      /\ At(Undoing)' = At(Undoing) \ {c} /\ c \in At(Undoing)
  BY <1>1, <1>2, <1>3, Moved DEF At
<1>5. UNCHANGED <<setup, sockets, images, caches, first, call, built, server>>
      /\ closing' = [closing EXCEPT ![c] = NoFd]
  BY DEF CloseSocket, tables
<1>6. closing[c] \in Held(c) /\ \A fd \in Held(c) : fd = closing[c]
  BY <1>4 DEF IInv, Held1
<1>7. /\ \A fd \in Fds : desc'[fd] = IF fd = closing[c] THEN Closed ELSE desc[fd]
      /\ desc' \in [Fds -> {Closed} \cup [of : Procs, use : {"socket", "file"}]]
  <2>1. desc' = CloseAll({closing[c]})
    BY DEF CloseSocket
  <2> QED
    BY <2>1, ClosedAll
<1>8. desc[closing[c]] = [of |-> c, use |-> "socket"]
  BY <1>6, HeldIs
<1>9. peb \in [Procs -> Pebs \cup {NoPeb}] /\ Apart(peb) /\ peb[c] # NoPeb
  BY <1>1, <1>3, Domains
<1>10. /\ \A q \in Procs \ {c} : peb'[q] = peb[q]
       /\ peb'[c] = NoPeb <=> to = "undone"
       /\ peb' \in [Procs -> Pebs \cup {NoPeb}]
       /\ peb'[c] \in {NoPeb, peb[c]}
  <2>1. CASE to = "undone"
    BY <1>1, <1>2, <1>9, <2>1
  <2>2. CASE to = "gone"
    BY <1>1, <1>2, <1>9, <2>2
  <2> QED
    BY <2>1, <2>2
<1>11. TypeOK'
  <2>1. closing' \in [Children -> Fds \cup {NoFd}]
    BY <1>5 DEF IInv, TypeOK
  <2>2. /\ Entries(sockets', Fds, NoFd) /\ Entries(images', Children, Primary)
        /\ Entries(caches', Fds \cup {NoFd}, NoFd)
    BY <1>5 DEF IInv, TypeOK, Entries
  <2> QED
    BY <1>2, <1>3, <1>5, <1>7, <1>10, <2>1, <2>2, MovedTypes DEF IInv, TypeOK
<1>12. Shaped'
  BY <1>5 DEF IInv, Shaped
<1>13. OwnPebs'
  <2>1. \A d \in Children :
          /\ child'[d] \in HasSocket \cup {"none", "gone", "undone"}
          /\ peb'[d] = NoPeb <=> child'[d] \in {"none", "undone"}
    <3>1. \A d \in Children \ {c} : d \in Procs /\ peb'[d] = peb[d] /\ child'[d] = child[d]
      BY <1>2, <1>10, Moved, Names
    <3>2. child'[c] = to
      BY <1>2, Moved
    <3> QED
      BY <1>10, <3>1, <3>2 DEF IInv, OwnPebs
  <2>2. child'[Primary] = child[Primary] /\ peb'[Primary] = peb[Primary]
    BY <1>1, <1>2, <1>10, Moved, Names
  <2>3. \A p, q \in Procs : peb'[p] = peb'[q] /\ peb'[p] # NoPeb => p = q
    BY <1>9, <1>10 DEF Apart
  <2> QED
    BY <2>1, <2>2, <2>3 DEF IInv, OwnPebs
<1>14. ASSUME NEW d \in Children \ {c}
       PROVE  Held(d)' = Held(d)
  <2>1. [of |-> d, use |-> "socket"] # [of |-> c, use |-> "socket"]
    OBVIOUS
  <2>2. \A fd \in Fds :
          desc'[fd] = [of |-> d, use |-> "socket"] <=> desc[fd] = [of |-> d, use |-> "socket"]
    BY <1>7, <1>8, <2>1, NotClosed
  <2> QED
    BY <2>2, HeldIs
<1>15. Held(c)' = {}
  <2>1. \A fd \in Fds : desc'[fd] # [of |-> c, use |-> "socket"]
    BY <1>6, <1>7, NotClosed, HeldIs
  <2>2. \A fd : fd \notin Held(c)'
    BY <2>1, HeldIs
  <2> QED
    BY <2>2
<1>16. \A q \in At(Registered) \cup At(MayCache) \cup {Primary} : peb'[q] = peb[q]
  BY <1>1, <1>4, <1>10, Domains, Names
<1>17. Sockets'
  <2>1. Keyed(sockets, peb, At(Registered) \cup {Primary}) /\ In(sockets, peb, Primary, 0)
    BY DEF IInv, Sockets
  <2>2. \A q \in At(Registered) \cup {Primary} : peb'[q] = peb[q]
    BY <1>16
  <2>3. /\ Keyed(sockets, peb', At(Registered) \cup {Primary})
        /\ \A q \in At(Registered) \cup {Primary} : \A w :
             In(sockets, peb, q, w) <=> In(sockets, peb', q, w)
    BY <2>1, <2>2, OtherPeb, Zenon
  <2>4. \A d \in At(Registered) : Held(d)' = Held(d)
    BY <1>4, <1>14 DEF At
  <2> QED
    BY <1>4, <1>5, <2>1, <2>3, <2>4 DEF IInv, Sockets
<1>18. Images'
  <2>1. /\ Keyed(images, peb', At(Registered))
        /\ \A q \in At(Registered) : \A w : In(images, peb, q, w) <=> In(images, peb', q, w)
    <3>1. \A q \in At(Registered) : peb'[q] = peb[q]
      BY <1>16
    <3> QED
      BY <3>1, OtherPeb DEF IInv, Images
  <2> QED
    BY <1>4, <1>5, <2>1 DEF IInv, Images
<1>19. /\ Keyed(caches, peb', At(MayCache))
       /\ \A q \in At(MayCache) : \A w : In(caches, peb, q, w) <=> In(caches, peb', q, w)
  <2>1. \A q \in At(MayCache) : peb'[q] = peb[q]
    BY <1>16
  <2> QED
    BY <2>1, OtherPeb DEF IInv, Caches
<1>20. Caches'
  <2>1. At(Empties) \subseteq At(MayCache) /\ At(Cached) \subseteq At(MayCache)
    BY StageSets DEF At
  <2> QED
    BY <1>4, <1>5, <1>19, <2>1 DEF IInv, Caches
<1>21. Held1'
  <2>1. \A d \in Children : child'[d] = IF d = c THEN to ELSE child[d]
    BY <1>2, Moved
  <2>2. \A d \in Children \ {c} : closing'[d] = closing[d]
    BY <1>5 DEF IInv, TypeOK
  <2>3. \A d \in Children : \A fd, e \in Held(d)' : fd = e
    BY <1>14, <1>15 DEF IInv, Held1
  <2>4. \A d \in Children : Held(d)' # {} <=> child'[d] \in HasSocket
    BY <1>3, <1>14, <1>15, <2>1 DEF IInv, Held1
  <2>5. \A d \in At(Undoing)' : closing'[d] \in Held(d)'
    <3>1. \A d \in At(Undoing) : d \in Children
      BY DEF At
    <3> QED
      BY <1>4, <1>14, <2>2, <3>1 DEF IInv, Held1
  <2> QED
    BY <2>3, <2>4, <2>5 DEF Held1
<1>22. Files'
  <2>1. ASSUME NEW d \in Children, NEW fd \in Fds
        PROVE  desc'[fd] = [of |-> d, use |-> "file"] <=> desc[fd] = [of |-> d, use |-> "file"]
    BY <1>7, <1>8, NotClosed
  <2> QED
    BY <1>4, <1>5, <1>19, <2>1 DEF IInv, Files, At
<1>23. PrimaryOwn'
  <2>1. child'[Primary] = child[Primary] /\ 0 \in Fds /\ first \in Fds \cup {NoFd}
    BY <1>2, Moved, SlotsFds DEF IInv, TypeOK
  <2>2. /\ [of |-> Primary, use |-> "socket"] # [of |-> c, use |-> "socket"]
        /\ [of |-> Primary, use |-> "file"] # [of |-> c, use |-> "socket"]
    BY <1>1
  <2> QED
    BY <1>5, <1>7, <1>8, <2>1, <2>2 DEF IInv, PrimaryOwn
<1>24. Told'
  BY <1>2, <1>5, <1>1, Moved DEF IInv, Told
<1> QED
  BY <1>11, <1>12, <1>13, <1>17, <1>18, <1>20, <1>21, <1>22, <1>23, <1>24 DEF IInv

-----------------------------------------------------------------------------
(* The primary process's steps, which leave the children's things.         *)

LEMMA ChildrenKept ==
  ASSUME IInv, UNCHANGED <<peb, sockets, images, caches, closing>>,
         \A c \in Children : child'[c] = child[c],
         child'[Primary] \in {"pe", "exited"},
         \A c \in Children, fd \in Fds, use \in {"socket", "file"} :
           desc'[fd] = [of |-> c, use |-> use] <=> desc[fd] = [of |-> c, use |-> use]
  PROVE  Shaped' /\ OwnPebs' /\ Sockets' /\ Images' /\ Caches' /\ Held1' /\ Files'
<1>1. \A S : At(S)' = At(S)
  BY DEF At
<1>2. ASSUME NEW c \in Children
      PROVE  Held(c)' = Held(c)
  BY HeldIs
<1>3. Shaped' /\ OwnPebs'
  BY DEF IInv, Shaped, OwnPebs
<1>4. Sockets' /\ Images' /\ Caches'
  BY <1>1, <1>2 DEF IInv, Sockets, Images, Caches, At
<1>5. Held1'
  BY <1>1, <1>2 DEF IInv, Held1, At
<1>6. Files'
  <2>1. \A c \in Children, fd \in Fds :
          desc'[fd] = [of |-> c, use |-> "file"] <=> desc[fd] = [of |-> c, use |-> "file"]
    OBVIOUS
  <2>2. At(MayCache) \subseteq Children
    BY DEF At
  <2> QED
    BY <1>1, <2>1, <2>2 DEF IInv, Files
<1> QED
  BY <1>3, <1>4, <1>5, <1>6

LEMMA OpenFileKeeps ==
  ASSUME IInv, OpenFile
  PROVE  IInv'
<1>1. /\ child[Primary] = "pe" /\ FreeFds # {} /\ ReceiveFile(Primary) /\ first = NoFd
      /\ UNCHANGED <<setup, peb, sockets, images, call, child, built, server, closing>>
  BY PrimaryLooks DEF OpenFile
<1>2. desc' = Open(Primary, "file")
  BY <1>1, PrimaryLooks DEF ReceiveFile, IInv, PrimaryOwn
<1>3. first' = Lowest /\ caches' = caches
  BY <1>1, PrimaryLooks DEF ReceiveFile, StoreFile
<1>4. /\ Lowest \in Fds /\ desc[Lowest] = Closed
      /\ desc'[Lowest] = [of |-> Primary, use |-> "file"]
      /\ \A fd \in Fds : fd # Lowest => desc'[fd] = desc[fd]
      /\ desc' \in [Fds -> {Closed} \cup [of : Procs, use : {"socket", "file"}]]
  BY <1>1, <1>2, Opened, Names
<1>5. ASSUME NEW c \in Children, NEW fd \in Fds, NEW use \in {"socket", "file"}
      PROVE  desc'[fd] = [of |-> c, use |-> use] <=> desc[fd] = [of |-> c, use |-> use]
  <2>1. [of |-> c, use |-> use] # [of |-> Primary, use |-> "file"]
    BY Names
  <2> QED
    BY <1>4, <2>1, NotClosed
<1>6. Shaped' /\ OwnPebs' /\ Sockets' /\ Images' /\ Caches' /\ Held1' /\ Files'
  BY <1>1, <1>3, <1>5, ChildrenKept
<1>7. TypeOK'
  BY <1>1, <1>3, <1>4 DEF IInv, TypeOK, Entries
<1>8. PrimaryOwn'
  BY <1>1, <1>3, <1>4, NotClosed, SlotsFds DEF IInv, PrimaryOwn
<1>9. Told'
  BY <1>1 DEF IInv, Told
<1> QED
  BY <1>6, <1>7, <1>8, <1>9 DEF IInv

LEMMA CloseFileKeeps ==
  ASSUME IInv, CloseFile
  PROVE  IInv'
<1>1. /\ child[Primary] = "pe" /\ first # NoFd /\ desc' = CloseAll({first})
      /\ StoreFile(Primary, NoFd)
      /\ UNCHANGED <<setup, peb, sockets, images, call, child, built, server, closing>>
  BY PrimaryLooks DEF CloseFile
<1>2. first' = NoFd /\ caches' = caches
  BY <1>1, PrimaryLooks DEF StoreFile
<1>3. /\ \A fd \in Fds : desc'[fd] = IF fd = first THEN Closed ELSE desc[fd]
      /\ desc' \in [Fds -> {Closed} \cup [of : Procs, use : {"socket", "file"}]]
  BY <1>1, ClosedAll
<1>4. desc[first] = [of |-> Primary, use |-> "file"]
  BY <1>1 DEF IInv, PrimaryOwn
<1>5. ASSUME NEW c \in Children, NEW fd \in Fds, NEW use \in {"socket", "file"}
      PROVE  desc'[fd] = [of |-> c, use |-> use] <=> desc[fd] = [of |-> c, use |-> use]
  <2>1. [of |-> c, use |-> use] # [of |-> Primary, use |-> "file"]
    BY Names
  <2> QED
    BY <1>3, <1>4, <2>1, NotClosed
<1>6. Shaped' /\ OwnPebs' /\ Sockets' /\ Images' /\ Caches' /\ Held1' /\ Files'
  BY <1>1, <1>2, <1>5, ChildrenKept
<1>7. TypeOK'
  BY <1>1, <1>2, <1>3 DEF IInv, TypeOK, Entries
<1>8. PrimaryOwn'
  <2>1. desc[0] = [of |-> Primary, use |-> "socket"] /\ 0 \in Fds
    BY <1>1, SlotsFds DEF IInv, PrimaryOwn
  <2> QED
    BY <1>2, <1>3, <1>4, <2>1 DEF PrimaryOwn
<1>9. Told'
  BY <1>1 DEF IInv, Told
<1> QED
  BY <1>6, <1>7, <1>8, <1>9 DEF IInv

LEMMA ExitKeeps ==
  ASSUME OnlyPrimaryExits, IInv, NEW p \in Procs, Exit(p)
  PROVE  IInv'
<1>1. p = Primary /\ child[Primary] = "pe" /\ desc' = CloseAll({0}) /\ Goes(Primary, "exited")
      /\ UNCHANGED <<setup, peb, tables, call, built, server, closing>>
  BY DEF Exit, OnlyPrimaryExits
<1>2. /\ child'[Primary] = "exited" /\ \A c \in Children : child'[c] = child[c]
      /\ child' \in [Procs -> Stages \cup {"exited"}]
  BY <1>1, Domains, Names DEF Goes
<1>3. /\ \A fd \in Fds : desc'[fd] = IF fd = 0 THEN Closed ELSE desc[fd]
      /\ desc' \in [Fds -> {Closed} \cup [of : Procs, use : {"socket", "file"}]]
  BY <1>1, ClosedAll
<1>4. desc[0] = [of |-> Primary, use |-> "socket"]
  BY <1>1 DEF IInv, PrimaryOwn
<1>5. ASSUME NEW c \in Children, NEW fd \in Fds, NEW use \in {"socket", "file"}
      PROVE  desc'[fd] = [of |-> c, use |-> use] <=> desc[fd] = [of |-> c, use |-> use]
  <2>1. [of |-> c, use |-> use] # [of |-> Primary, use |-> "socket"]
    BY Names
  <2> QED
    BY <1>3, <1>4, <2>1, NotClosed
<1>6. UNCHANGED <<sockets, images, caches, first>>
  BY <1>1 DEF tables
<1>7. Shaped' /\ OwnPebs' /\ Sockets' /\ Images' /\ Caches' /\ Held1' /\ Files'
  BY <1>1, <1>2, <1>5, <1>6, ChildrenKept
<1>8. TypeOK'
  BY <1>1, <1>2, <1>3, <1>6 DEF IInv, TypeOK, Entries, Stages, HasSocket, Registered, Undoing,
     Cached, Empties
<1>9. PrimaryOwn'
  <2>1. first \in Fds \cup {NoFd}
    BY DEF IInv, TypeOK
  <2>2. first = 0 => FALSE
    BY <1>4, SlotsFds DEF IInv, PrimaryOwn
  <2> QED
    BY <1>2, <1>3, <1>6, <2>1, <2>2 DEF IInv, PrimaryOwn
<1>10. Told'
  BY <1>1, <1>2 DEF IInv, Told
<1> QED
  BY <1>7, <1>8, <1>9, <1>10 DEF IInv

-----------------------------------------------------------------------------
(* The theorems.                                                           *)

LEMMA NextKeeps ==
  ASSUME OnlyPrimaryExits, Room, IInv, [Next]_vars
  PROVE  IInv'
<1>1. CASE Prepare
  BY <1>1, PrepareKeeps
<1>2. ASSUME NEW p \in Procs, NEW c \in Children, Create(p, c) PROVE IInv'
  BY <1>2, CreateKeeps
<1>3. ASSUME NEW c \in Children, Spawning(c) PROVE IInv'
  BY <1>3, SpawnElsewhereKeeps, SetUpKeeps, SetUpRefusedKeeps, RegisterKeeps, AllocCacheKeeps,
     SetUpFailsKeeps, StartThreadKeeps, CloseCallKeeps, CreatedKeeps, AttachKeeps,
     BuildStartupKeeps, InitDoneKeeps, EnterPeKeeps, DetachKeeps, UnregisterKeeps,
     ReleaseCacheKeeps, CloseSocketKeeps DEF Spawning
<1>4. CASE OpenFile
  BY <1>4, OpenFileKeeps
<1>5. CASE CloseFile
  BY <1>5, CloseFileKeeps
<1>6. ASSUME NEW p \in Procs, Exit(p) PROVE IInv'
  BY <1>6, ExitKeeps
<1>7. CASE UNCHANGED vars
  <2>1. UNCHANGED <<setup, desc, peb, tables, child, call, built, server, closing>>
    BY <1>7 DEF vars
  <2>2. TypeOK' /\ Told'
    BY <2>1 DEF IInv, TypeOK, Told, Entries, tables
  <2> QED
    BY <2>1, <2>2, Stays DEF IInv
<1> QED
  BY <1>1, <1>2, <1>3, <1>4, <1>5, <1>6, <1>7 DEF Next

LEMMA Invariant ==
  ASSUME OnlyPrimaryExits
  PROVE  Spec /\ []Room => []IInv
<1>1. Init => IInv
  BY InitHolds
<1>2. IInv /\ Room /\ [Next]_vars => IInv'
  BY NextKeeps
<1> QED
  BY <1>1, <1>2, PTL DEF Spec

\* There is room whenever all the children that ever are fit, as in the run.
LEMMA EnoughSlots ==
  ASSUME IsFiniteSet(Children), Cardinality(Children) < MaxProcs
  PROVE  []Room
<1>1. Room
  <2>1. At(HasSocket) \subseteq Children
    BY DEF At
  <2>2. /\ IsFiniteSet(At(HasSocket)) /\ Cardinality(Children) \in Nat
        /\ Cardinality(At(HasSocket)) <= Cardinality(Children)
    BY <2>1, FS_Subset, FS_CardinalityType
  <2>3. Cardinality(At(HasSocket)) \in Nat
    BY <2>2, FS_CardinalityType
  <2> QED
    BY <2>2, <2>3, InprocSpawnAssumption DEF Room
<1> QED
  BY <1>1, PTL

(* While the children that are there fit into the tables, every reachable  *)
(* state is typed; no table holds half an entry.                           *)
THEOREM TypeCorrect ==
  ASSUME OnlyPrimaryExits
  PROVE  Spec /\ []Room => []TypeOK
<1>1. IInv => TypeOK
  BY DEF IInv
<1> QED
  BY <1>1, Invariant, PTL

(* While a process runs, the lookups by PEB (current_server_fd,            *)
(* current_image_info, current_fd_cache) give what is its own, and a       *)
(* parent is told only of a child that has its parameters: with any number *)
(* of children over time, as long as those there at once fit.              *)
THEOREM OwnStateAlways ==
  ASSUME OnlyPrimaryExits
  PROVE  Spec /\ []Room => []OwnState
<1>1. IInv => OwnState
  BY OwnStateHolds
<1> QED
  BY <1>1, Invariant, PTL

(* A failed spawn (inproc_spawn_failed) and a child that detached leave no *)
(* descriptor and no slot of a table behind, so the slots can be used      *)
(* again by any number of later children.                                  *)
THEOREM NothingLeftAlways ==
  ASSUME OnlyPrimaryExits
  PROVE  Spec /\ []Room => []NothingLeft
<1>1. IInv => NothingLeft
  BY NothingLeftHolds
<1> QED
  BY <1>1, Invariant, PTL

=============================================================================
