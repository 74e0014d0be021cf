-------------------------- MODULE WineSessionProofs --------------------------
(* Theorems about WineSession, for any sessions, pipes and bounds.         *)
EXTENDS WineSession, SequenceTheorems, WellFoundedInduction, TLAPS

(* What FlattenSeq computes.  It is a recursive function of the prefixes,  *)
(* so the facts about it need induction: over a set of numbers, as the     *)
(* provers cannot instantiate the library's theorem for a predicate.       *)

LEMMA LessIsWF ==
  ASSUME NEW j \in Nat, NEW i \in Nat, j < i
  PROVE  <<j, i>> \in OpToRel(<, Nat)
BY DEF OpToRel

LEMMA LeastNat ==
  ASSUME NEW S \in SUBSET Nat, S # {}
  PROVE  \E n \in S : \A m \in S : n <= m
<1>1. \E n \in S : \A m \in S : ~ (<<m, n>> \in OpToRel(<, Nat))
  BY NatLessThanWellFounded, WFMin, Zenon
<1>2. PICK n \in S : \A m \in S : ~ (<<m, n>> \in OpToRel(<, Nat))
  BY <1>1, Zenon
<1>3. \A m \in S : m \in Nat /\ n \in Nat /\ ~ (m < n)
  BY <1>2, LessIsWF, Zenon
<1> QED
  BY <1>3

LEMMA SetInduction ==
  ASSUME NEW S, 0 \in S, \A n \in Nat : n \in S => n + 1 \in S
  PROVE  \A n \in Nat : n \in S
<1> DEFINE Bad == {n \in Nat : n \notin S}
<1>1. ASSUME Bad # {} PROVE FALSE
  <2>1. PICK n \in Bad : \A m \in Bad : n <= m
    <3>1. Bad \in SUBSET Nat
      OBVIOUS
    <3> HIDE DEF Bad
    <3> QED
      BY <1>1, <3>1, LeastNat
  <2>2. n \in Nat /\ n \notin S /\ n # 0
    BY <2>1
  <2>3. n - 1 \in Nat /\ ~(n <= n - 1) /\ (n - 1) + 1 = n
    BY <2>2
  <2>4. n - 1 \in S
    BY <2>1, <2>3
  <2> QED
    BY <2>2, <2>3, <2>4
<1> QED
  BY <1>1

\* Concatenation is associative, in a form the provers can instantiate.
Regrouped(x, y, z) == (x \o y) \o z = x \o (y \o z)

LEMMA Regroup == \A S : \A x, y, z \in Seq(S) : Regrouped(x, y, z)
BY ConcatAssociative DEF Regrouped

\* f is what FlattenSeq computes of the prefixes of seqs.
Flattens(f, seqs) ==
  f = [i \in 1..Len(seqs) |-> IF i = 1 THEN seqs[i] ELSE f[i - 1] \o seqs[i]]

LEMMA FlattensAt ==
  ASSUME NEW f, NEW seqs, Flattens(f, seqs), NEW i \in 1..Len(seqs)
  PROVE  f[i] = IF i = 1 THEN seqs[i] ELSE f[i - 1] \o seqs[i]
<1> DEFINE v(h, j) == IF j = 1 THEN seqs[j] ELSE h[j - 1] \o seqs[j]
<1>1. f = [j \in 1..Len(seqs) |-> v(f, j)]
  BY DEF Flattens
<1>2. f[i] = v(f, i)
  <2> HIDE DEF v
  <2> QED
    BY <1>1
<1> QED
  BY <1>2

\* There is such a function.
LEMMA FlattensExists ==
  ASSUME NEW T, NEW seqs \in Seq(T)
  PROVE  \E f : Flattens(f, seqs)
<1> DEFINE Upto(f, n) == f = [i \in 1..n |-> IF i = 1 THEN seqs[i] ELSE f[i - 1] \o seqs[i]]
           Good == {n \in Nat : \E f : Upto(f, n)}
<1>1. 0 \in Good
  <2> DEFINE e == [i \in 1..0 |-> seqs[i]]
  <2>1. \A i \in 1..0 : FALSE
    OBVIOUS
  <2>2. e = [i \in 1..0 |-> IF i = 1 THEN seqs[i] ELSE e[i - 1] \o seqs[i]]
    BY <2>1
  <2> QED
    BY <2>2
<1>2. ASSUME NEW m \in Nat, m \in Good
      PROVE  m + 1 \in Good
  <2>1. PICK f : Upto(f, m)
    BY <1>2
  <2> DEFINE n == m + 1
             g == [i \in 1..n |-> IF i = n /\ n # 1 THEN f[n - 1] \o seqs[n]
                                  ELSE IF i = n THEN seqs[n] ELSE f[i]]
  <2>2. \A i \in 1..n : g[i] = IF i = 1 THEN seqs[i] ELSE g[i - 1] \o seqs[i]
    <3> SUFFICES ASSUME NEW i \in 1..n
                 PROVE  g[i] = IF i = 1 THEN seqs[i] ELSE g[i - 1] \o seqs[i]
      OBVIOUS
    <3>1. \A j \in 1..m : f[j] = (IF j = 1 THEN seqs[j] ELSE f[j - 1] \o seqs[j])
      BY <2>1
    <3>2. CASE i = 1
      BY <3>1, <3>2
    <3>3. CASE i # 1 /\ i = n
      <4>1. g[i - 1] = f[i - 1]
        BY <3>3
      <4> QED
        BY <3>3, <4>1
    <3>4. CASE i # 1 /\ i # n
      <4>1. g[i - 1] = f[i - 1] /\ g[i] = f[i] /\ i \in 1..m
        BY <3>4
      <4> QED
        BY <3>4, <4>1, <3>1
    <3> QED
      BY <3>2, <3>3, <3>4
  <2>3. Upto(g, n)
    <3> HIDE DEF g
    <3>1. g = [i \in 1..n |-> g[i]]
      BY DEF g
    <3> QED
      BY <3>1, <2>2
  <2> HIDE DEF g
  <2>4. \E h : Upto(h, m + 1)
    BY <2>3
  <2> HIDE DEF Upto
  <2> QED
    BY <2>4
<1>3. \A n \in Nat : n \in Good
  <2> HIDE DEF Good
  <2> QED
    BY <1>1, <1>2, SetInduction
<1>4. Len(seqs) \in Good
  <2>1. Len(seqs) \in Nat
    OBVIOUS
  <2> QED
    BY <1>3, <2>1
<1> QED
  BY <1>4 DEF Flattens

\* FlattenSeq is its last value.
LEMMA FlattenIs ==
  ASSUME NEW T, NEW seqs \in Seq(T), seqs # <<>>
  PROVE  \E f : Flattens(f, seqs) /\ FlattenSeq(seqs) = f[Len(seqs)]
<1> DEFINE flatten == CHOOSE f : Flattens(f, seqs)
<1>1. Flattens(flatten, seqs)
  BY FlattensExists
<1>2. FlattenSeq(seqs) = flatten[Len(seqs)]
  <2>1. Len(seqs) # 0
    BY EmptySeq
  <2> QED
    BY <2>1 DEF FlattenSeq, Flattens
<1> QED
  BY <1>1, <1>2

\* It is made of what seqs is made of.
LEMMA FlattensIn ==
  ASSUME NEW S, NEW seqs \in Seq(Seq(S)), NEW f, Flattens(f, seqs)
  PROVE  \A i \in 1..Len(seqs) : f[i] \in Seq(S)
<1> DEFINE Good == {n \in Nat : n \in 1..Len(seqs) => f[n] \in Seq(S)}
<1>1. 0 \in Good
  OBVIOUS
<1>2. ASSUME NEW n \in Nat, n \in Good
      PROVE  n + 1 \in Good
  <2> SUFFICES ASSUME n + 1 \in 1..Len(seqs)
               PROVE  f[n + 1] \in Seq(S)
    OBVIOUS
  <2>1. f[n + 1] = IF n + 1 = 1 THEN seqs[n + 1] ELSE f[n + 1 - 1] \o seqs[n + 1]
    BY FlattensAt
  <2>2. seqs[n + 1] \in Seq(S)
    BY ElementOfSeq
  <2>3. CASE n = 0
    BY <2>1, <2>2, <2>3
  <2>4. CASE n # 0
    <3>1. n + 1 - 1 = n /\ n \in 1..Len(seqs)
      BY <2>4
    <3>2. f[n] \in Seq(S)
      BY <1>2, <3>1
    <3>3. f[n] \o seqs[n + 1] \in Seq(S)
      BY <3>2, <2>2, ConcatProperties
    <3> QED
      BY <2>1, <2>4, <3>1, <3>3
  <2> QED
    BY <2>3, <2>4
<1>3. \A n \in Nat : n \in Good
  <2> HIDE DEF Good
  <2> QED
    BY <1>1, <1>2, SetInduction
<1> QED
  BY <1>3

\* It is the same as far as the sequences are.
LEMMA FlattensAgree ==
  ASSUME NEW seqs, NEW more, NEW f, NEW g, Flattens(f, seqs), Flattens(g, more),
         Len(seqs) \in Nat, Len(more) \in Nat, Len(seqs) <= Len(more),
         \A i \in 1..Len(seqs) : seqs[i] = more[i]
  PROVE  \A i \in 1..Len(seqs) : f[i] = g[i]
<1> DEFINE Good == {n \in Nat : n \in 1..Len(seqs) => f[n] = g[n]}
<1>1. 0 \in Good
  OBVIOUS
<1>2. ASSUME NEW n \in Nat, n \in Good
      PROVE  n + 1 \in Good
  <2> SUFFICES ASSUME n + 1 \in 1..Len(seqs)
               PROVE  f[n + 1] = g[n + 1]
    OBVIOUS
  <2>1. f[n + 1] = IF n + 1 = 1 THEN seqs[n + 1] ELSE f[n + 1 - 1] \o seqs[n + 1]
    BY FlattensAt
  <2>2. g[n + 1] = IF n + 1 = 1 THEN more[n + 1] ELSE g[n + 1 - 1] \o more[n + 1]
    <3>1. n + 1 \in 1..Len(more)
      OBVIOUS
    <3> QED
      BY <3>1, FlattensAt
  <2>3. n # 0 => f[n] = g[n]
    BY <1>2
  <2> QED
    BY <2>1, <2>2, <2>3
<1>3. \A n \in Nat : n \in Good
  <2> HIDE DEF Good
  <2> QED
    BY <1>1, <1>2, SetInduction
<1> QED
  BY <1>3

\* What it computes of the rest lacks the first.
Lacks(g, f, first, n) == \A i \in 1..n : f[i + 1] = first \o g[i]

LEMMA FlattensRest ==
  ASSUME NEW S, NEW seqs \in Seq(Seq(S)), NEW rest \in Seq(Seq(S)), NEW first \in Seq(S),
         Len(seqs) = Len(rest) + 1, seqs[1] = first,
         \A i \in 1..Len(rest) : rest[i] = seqs[i + 1],
         NEW f, NEW g, Flattens(f, seqs), Flattens(g, rest)
  PROVE  Lacks(g, f, first, Len(rest))
<1> DEFINE Good == {n \in Nat : n \in 1..Len(rest) => f[n + 1] = first \o g[n]}
<1>0. Len(rest) \in Nat /\ Len(seqs) \in Nat
  OBVIOUS
<1>1. 0 \in Good
  OBVIOUS
<1>2. ASSUME NEW n \in Nat, n \in Good
      PROVE  n + 1 \in Good
  <2> SUFFICES ASSUME n + 1 \in 1..Len(rest)
               PROVE  f[(n + 1) + 1] = first \o g[n + 1]
    OBVIOUS
  <2>1. f[(n + 1) + 1] = f[n + 1] \o seqs[(n + 1) + 1]
    <3>1. (n + 1) + 1 \in 1..Len(seqs) /\ (n + 1) + 1 # 1 /\ (n + 1) + 1 - 1 = n + 1
      BY <1>0
    <3> DEFINE k == (n + 1) + 1
    <3>2. f[k] = IF k = 1 THEN seqs[k] ELSE f[k - 1] \o seqs[k]
      <4> HIDE DEF k
      <4>1. k \in 1..Len(seqs)
        BY <3>1 DEF k
      <4> QED
        BY <4>1, FlattensAt, ZenonT(30)
    <3>3. k # 1 /\ k - 1 = n + 1
      BY <3>1
    <3>4. f[k] = f[n + 1] \o seqs[k]
      BY <3>2, <3>3, Zenon
    <3> QED
      BY <3>4
  <2>2. g[n + 1] = IF n + 1 = 1 THEN rest[n + 1] ELSE g[n + 1 - 1] \o rest[n + 1]
    <3> DEFINE k == n + 1
    <3>1. k \in 1..Len(rest)
      OBVIOUS
    <3> HIDE DEF k
    <3>2. g[k] = IF k = 1 THEN rest[k] ELSE g[k - 1] \o rest[k]
      BY <3>1, FlattensAt, ZenonT(30)
    <3> QED
      BY <3>2 DEF k
  <2>3. rest[n + 1] = seqs[(n + 1) + 1] /\ rest[n + 1] \in Seq(S)
    BY ElementOfSeq
  <2>4. CASE n = 0
    <3>1. f[1] = first
      <4>1. 1 \in 1..Len(seqs)
        BY <1>0
      <4> QED
        BY <4>1, FlattensAt
    <3>2. g[n + 1] = rest[n + 1] /\ f[n + 1] = first
      BY <2>2, <2>4, <3>1
    <3> QED
      BY <2>1, <2>3, <3>2
  <2>5. CASE n # 0
    <3>1. n \in 1..Len(rest) /\ n + 1 # 1 /\ n + 1 - 1 = n
      BY <2>5, <1>0
    <3>2. f[n + 1] = first \o g[n]
      BY <1>2, <3>1
    <3>3. g[n] \in Seq(S)
      BY <3>1, FlattensIn
    <3>4. (first \o g[n]) \o rest[n + 1] = first \o (g[n] \o rest[n + 1])
      <4>1. Regrouped(first, g[n], rest[n + 1])
        BY <2>3, <3>3, Regroup
      <4> QED
        BY <4>1 DEF Regrouped
    <3>5. g[n + 1] = g[n] \o rest[n + 1]
      BY <2>2, <3>1
    <3> QED
      BY <2>1, <2>3, <3>2, <3>4, <3>5
  <2> QED
    BY <2>4, <2>5
<1>3. \A n \in Nat : n \in Good
  <2> HIDE DEF Good
  <2> QED
    BY <1>1, <1>2, SetInduction
<1>4. ASSUME NEW i \in 1..Len(rest)
      PROVE  f[i + 1] = first \o g[i]
  <2>1. i \in Good
    <3> HIDE DEF Good
    <3> QED
      BY <1>0, <1>3
  <2> QED
    BY <2>1
<1> QED
  BY <1>4 DEF Lacks

\* FlattenSeq of an empty sequence, of one with an element at its end, and of
\* one without its head.
LEMMA FlattenEmpty == FlattenSeq(<<>>) = <<>>
BY DEF FlattenSeq

LEMMA FlattenType ==
  ASSUME NEW S, NEW seqs \in Seq(Seq(S))
  PROVE  FlattenSeq(seqs) \in Seq(S)
<1>1. CASE seqs = <<>>
  BY <1>1, FlattenEmpty, EmptySeq
<1>2. CASE seqs # <<>>
  <2>1. PICK f : Flattens(f, seqs) /\ FlattenSeq(seqs) = f[Len(seqs)]
    BY <1>2, FlattenIs
  <2>2. Len(seqs) \in 1..Len(seqs)
    BY <1>2, EmptySeq
  <2> QED
    BY <2>1, <2>2, FlattensIn
<1> QED
  BY <1>1, <1>2

LEMMA FlattenAppend ==
  ASSUME NEW S, NEW seqs \in Seq(Seq(S)), NEW x \in Seq(S)
  PROVE  FlattenSeq(Append(seqs, x)) = FlattenSeq(seqs) \o x
<1> DEFINE more == Append(seqs, x)
           n == Len(seqs)
<1>1. /\ more \in Seq(Seq(S)) /\ more # <<>> /\ Len(more) = n + 1 /\ n \in Nat
      /\ \A i \in 1..n : seqs[i] = more[i]
      /\ more[n + 1] = x
  BY AppendProperties
<1> HIDE DEF more
<1>2. PICK g : Flattens(g, more) /\ FlattenSeq(more) = g[n + 1]
  BY <1>1, FlattenIs
<1>3. g[n + 1] = IF n + 1 = 1 THEN more[n + 1] ELSE g[n + 1 - 1] \o more[n + 1]
  <2>1. n + 1 \in 1..Len(more)
    BY <1>1
  <2> QED
    BY <2>1, <1>2, FlattensAt
<1>4. CASE seqs = <<>>
  <2>1. g[n + 1] = x /\ FlattenSeq(seqs) \o x = x
    BY <1>1, <1>3, <1>4, FlattenEmpty, ConcatEmptySeq
  <2> QED
    BY <2>1, <1>2 DEF more
<1>5. CASE seqs # <<>>
  <2>1. PICK f : Flattens(f, seqs) /\ FlattenSeq(seqs) = f[n]
    BY <1>5, FlattenIs
  <2>2. n \in 1..n /\ n + 1 # 1 /\ n + 1 - 1 = n
    BY <1>5, EmptySeq
  <2>3. f[n] = g[n]
    <3>1. Len(seqs) \in Nat /\ Len(more) \in Nat /\ Len(seqs) <= Len(more)
      BY <1>1
    <3>2. Flattens(f, seqs) /\ Flattens(g, more)
      BY <1>2, <2>1
    <3>3. \A i \in 1..Len(seqs) : seqs[i] = more[i]
      BY <1>1
    <3>4. \A i \in 1..Len(seqs) : f[i] = g[i]
      BY <3>1, <3>2, <3>3, FlattensAgree, SMTT(20)
    <3> QED
      BY <2>2, <3>4
  <2> QED
    BY <1>1, <1>2, <1>3, <2>1, <2>2, <2>3 DEF more
<1> QED
  BY <1>4, <1>5

LEMMA FlattenTail ==
  ASSUME NEW S, NEW seqs \in Seq(Seq(S)), seqs # <<>>
  PROVE  FlattenSeq(seqs) = Head(seqs) \o FlattenSeq(Tail(seqs))
<1> DEFINE rest == Tail(seqs)
           n == Len(seqs)
<1>1. /\ rest \in Seq(Seq(S)) /\ n = Len(rest) + 1 /\ Len(rest) \in Nat
      /\ Head(seqs) \in Seq(S) /\ seqs[1] = Head(seqs)
      /\ \A i \in 1..Len(rest) : rest[i] = seqs[i + 1]
  BY HeadTailProperties, EmptySeq
<1> HIDE DEF rest
<1>2. PICK f : Flattens(f, seqs) /\ FlattenSeq(seqs) = f[n]
  BY FlattenIs
<1>3. CASE rest = <<>>
  <2>1. n = 1
    BY <1>1, <1>3, EmptySeq
  <2>2. f[1] = seqs[1]
    <3>1. 1 \in 1..n
      BY <2>1
    <3> QED
      BY <3>1, <1>2, FlattensAt
  <2> QED
    BY <1>1, <1>2, <1>3, <2>1, <2>2, FlattenEmpty, ConcatEmptySeq DEF rest
<1>4. CASE rest # <<>>
  <2>1. PICK g : Flattens(g, rest) /\ FlattenSeq(rest) = g[Len(rest)]
    BY <1>1, <1>4, FlattenIs
  <2>2. Len(rest) \in 1..Len(rest)
    BY <1>1, <1>4, EmptySeq
  <2>3. \A i \in 1..Len(rest) : f[i + 1] = Head(seqs) \o g[i]
    <3> DEFINE first == Head(seqs)
    <3>1. first \in Seq(S) /\ seqs[1] = first
      BY <1>1
    <3>2. Len(seqs) = Len(rest) + 1 /\ \A i \in 1..Len(rest) : rest[i] = seqs[i + 1]
      BY <1>1
    <3>3. rest \in Seq(Seq(S)) /\ Flattens(f, seqs) /\ Flattens(g, rest)
      BY <1>1, <1>2, <2>1
    <3> HIDE DEF first
    <3>4. Lacks(g, f, first, Len(rest))
      BY <3>1, <3>2, <3>3, FlattensRest
    <3> QED
      BY <3>4 DEF first, Lacks
  <2>4. f[Len(rest) + 1] = Head(seqs) \o g[Len(rest)]
    BY <2>2, <2>3
  <2> QED
    BY <1>1, <1>2, <2>1, <2>4 DEF rest
<1> QED
  BY <1>3, <1>4

-----------------------------------------------------------------------------
(* What each variable is, that a session starts once, and in which order   *)
(* its thread's stores come.                                               *)
Places == {"none", "stdin", "stdout", "load", "code", "finish", "run", "gone"}
Task == {Poll} \cup [kind : {"chunk"}, units : Seq(Unit)]

TypedWine ==
  /\ thread \in [Sessions -> Places]
  /\ finished \in [Sessions -> BOOLEAN] /\ exitCode \in [Sessions -> {0, 255}]
  /\ stdin \in [Sessions -> Consoles \cup {App, DevNull}]
  /\ fd0 \in Consoles \cup {App, DevNull} /\ fd1 \in Sessions \cup {App}
  /\ written \in [Sessions -> Nat]
TypedPipes ==
  inpipe \in [Sessions -> 0..PipeSize] /\ outpipe \in [Sessions -> Seq(Unit)]
TypedQueue ==
  /\ jobs \in [Sessions -> 0..MaxJobs]
  /\ writing \in [Sessions -> BOOLEAN] /\ source \in [Sessions -> BOOLEAN]
TypedApp ==
  /\ mainq \in [Sessions -> Seq(Task)]
  /\ status \in [Sessions -> {"new", "failed", "running", "exited", "closed"}]
  /\ code \in [Sessions -> {0, 255}]
  /\ output \in [Sessions -> Seq(Unit)]
Typed == TypedWine /\ TypedPipes /\ TypedQueue /\ TypedApp

\* A pipe holds no more than it can.
Counts == \A s \in Sessions : Len(outpipe[s]) <= PipeSize

\* A session starts once, a guest that has not been loaded has written nothing,
\* and where a guest writes there is a pipe.
Started ==
  \A s \in Sessions :
    /\ status[s] \in {"new", "failed"} => thread[s] = "none"
    /\ thread[s] \in {"none", "stdin", "stdout", "load"} => written[s] = 0
    /\ thread[s] \in {"load", "run"} => fd1 \in Sessions

\* finished is the thread's last store, and the code is not stored after it.
Ends ==
  \A s \in Sessions :
    /\ finished[s] => thread[s] = "gone"
    /\ status[s] = "exited" => finished[s] /\ code[s] = exitCode[s]

IInv == Typed /\ Counts /\ Started /\ Ends

LEMMA IInit == Init => IInv
<1> SUFFICES ASSUME Init PROVE IInv
  OBVIOUS
<1> USE DEF Init
<1>1. Typed
  BY WineSessionAssumption, EmptySeq DEF Typed, TypedWine, TypedPipes, TypedQueue, TypedApp, Places
<1>2. Counts
  BY WineSessionAssumption, EmptySeq DEF Counts
<1>3. Started /\ Ends
  BY DEF Started, Ends
<1> QED
  BY <1>1, <1>2, <1>3 DEF IInv

LEMMA IStart ==
  ASSUME IInv, NEW s \in Sessions, StartConsole(s) \/ StartGui(s)
  PROVE  IInv'
<1> DEFINE in == IF s \in Consoles THEN s ELSE DevNull
<1>1. /\ status[s] \in {"new", "failed"}
      /\ thread' = [thread EXCEPT ![s] = "stdin"] /\ stdin' = [stdin EXCEPT ![s] = in]
      /\ source' = [source EXCEPT ![s] = TRUE] /\ status' = [status EXCEPT ![s] = "running"]
      /\ UNCHANGED <<finished, exitCode, fd0, fd1, written, inpipe, outpipe,
                     jobs, writing, mainq, code, output>>
  BY DEF StartConsole, StartGui, Launch, Go, Follow
<1>2. in \in Consoles \cup {App, DevNull}
  OBVIOUS
<1> HIDE DEF in
<1>3. TypedWine'
  BY <1>1, <1>2 DEF IInv, Typed, TypedWine, Places
<1>4. TypedPipes'
  BY <1>1 DEF IInv, Typed, TypedPipes
<1>5. TypedQueue'
  BY <1>1 DEF IInv, Typed, TypedQueue
<1>6. TypedApp'
  BY <1>1 DEF IInv, Typed, TypedApp
<1>7. Counts'
  BY <1>1 DEF IInv, Counts
<1>8. Started'
  BY <1>1 DEF IInv, Started, Typed, TypedWine, TypedApp
<1>9. Ends'
  <2>1. ~finished[s]
    BY <1>1 DEF IInv, Started, Ends
  <2> QED
    BY <1>1, <2>1 DEF IInv, Ends, Typed, TypedWine, TypedApp
<1> QED
  BY <1>3, <1>4, <1>5, <1>6, <1>7, <1>8, <1>9 DEF IInv, Typed

LEMMA IStop ==
  ASSUME IInv, NEW s \in Sessions, StartFails(s) \/ Close(s)
  PROVE  IInv'
<1>1. /\ UNCHANGED <<wine, inpipe, outpipe, queue, code>>
      /\ \/ status[s] \in {"new", "failed"} /\ status' = [status EXCEPT ![s] = "failed"]
            /\ UNCHANGED <<output, mainq>>
         \/ status' = [status EXCEPT ![s] = "closed"]
            /\ output' = [output EXCEPT ![s] = <<>>] /\ mainq' = [mainq EXCEPT ![s] = <<>>]
  BY DEF StartFails, Close
<1>2. TypedWine' /\ TypedPipes' /\ TypedQueue'
  BY <1>1 DEF IInv, Typed, TypedWine, TypedPipes, TypedQueue, wine, queue
<1>3. TypedApp'
  <2>1. PICK st \in {"failed", "closed"} : status' = [status EXCEPT ![s] = st]
    BY <1>1
  <2>2. output' \in [Sessions -> Seq(Unit)] /\ mainq' \in [Sessions -> Seq(Task)]
    <3>1. <<>> \in Seq(Unit) /\ <<>> \in Seq(Task)
      BY EmptySeq
    <3>2. mainq \in [Sessions -> Seq(Task)] /\ output \in [Sessions -> Seq(Unit)]
      BY DEF IInv, Typed, TypedApp
    <3>3. CASE UNCHANGED <<output, mainq>>
      BY <3>2, <3>3
    <3>4. CASE /\ output' = [output EXCEPT ![s] = <<>>]
               /\ mainq' = [mainq EXCEPT ![s] = <<>>]
      BY <3>1, <3>2, <3>4
    <3> QED
      BY <1>1, <3>3, <3>4
  <2> QED
    BY <1>1, <2>1, <2>2 DEF IInv, Typed, TypedApp
<1>4. Counts'
  BY <1>1 DEF IInv, Counts, queue
<1>5. \A t \in Sessions : /\ status'[t] \in {"new", "failed"} => status[t] \in {"new", "failed"}
                          /\ status'[t] = "exited" => status[t] = "exited"
  BY <1>1 DEF IInv, Typed, TypedApp
<1>6. Started'
  BY <1>1, <1>5 DEF IInv, Started, wine
<1>7. Ends'
  BY <1>1, <1>5 DEF IInv, Ends, wine
<1> QED
  BY <1>2, <1>3, <1>4, <1>6, <1>7 DEF IInv, Typed

LEMMA ISend ==
  ASSUME IInv, NEW s \in Sessions, Send(s) \/ WriteBegin(s) \/ WriteEnd(s)
  PROVE  IInv'
<1>1. UNCHANGED <<wine, outpipe, source, app>>
  BY DEF Send, WriteBegin, WriteEnd
<1>2. TypedWine' /\ TypedApp'
  BY <1>1 DEF IInv, Typed, TypedWine, TypedApp, wine, app
<1>3. TypedPipes'
  <2>1. CASE Send(s) \/ WriteBegin(s)
    BY <2>1 DEF IInv, Typed, TypedPipes, Send, WriteBegin
  <2>2. CASE WriteEnd(s)
    BY <2>2, WineSessionAssumption DEF IInv, Typed, TypedPipes, WriteEnd
  <2> QED
    BY <2>1, <2>2
<1>4. TypedQueue' /\ Counts'
  <2>0. TypedQueue /\ Counts
    BY DEF IInv, Typed
  <2>1. CASE Send(s)
    <3>1. jobs[s] + 1 \in 0..MaxJobs
      BY <2>0, <2>1, WineSessionAssumption DEF TypedQueue, Counts, Send
    <3>2. jobs' = [jobs EXCEPT ![s] = jobs[s] + 1] /\ UNCHANGED <<outpipe, writing, source>>
      BY <2>1 DEF Send
    <3> QED
      BY <2>0, <3>1, <3>2 DEF TypedQueue, Counts
  <2>2. CASE WriteBegin(s)
    <3>1. jobs[s] - 1 \in 0..MaxJobs
      BY <2>0, <2>2, WineSessionAssumption DEF TypedQueue, Counts, WriteBegin
    <3>2. /\ jobs' = [jobs EXCEPT ![s] = jobs[s] - 1] /\ writing' = [writing EXCEPT ![s] = TRUE]
          /\ UNCHANGED <<outpipe, source>>
      BY <2>2 DEF WriteBegin
    <3> QED
      BY <2>0, <3>1, <3>2 DEF TypedQueue, Counts
  <2>3. CASE WriteEnd(s)
    BY <2>0, <2>3 DEF TypedQueue, Counts, WriteEnd
  <2> QED
    BY <2>1, <2>2, <2>3
<1>5. Started' /\ Ends'
  BY <1>1 DEF IInv, Started, Ends, wine, app
<1> QED
  BY <1>2, <1>3, <1>4, <1>5 DEF IInv, Typed

LEMMA ITasks ==
  ASSUME IInv, NEW s \in Sessions, Timer(s) \/ AppendGuest(s)
  PROVE  IInv'
<1>1. UNCHANGED <<wine, inpipe, outpipe, queue, status, code>>
  BY DEF Timer, AppendGuest
<1>2. TypedWine' /\ TypedPipes' /\ TypedQueue'
  BY <1>1 DEF IInv, Typed, TypedWine, TypedPipes, TypedQueue, wine, queue
<1>3. TypedApp'
  <2>1. CASE Timer(s)
    <3>1. Append(mainq[s], Poll) \in Seq(Task)
      BY AppendProperties DEF IInv, Typed, TypedApp, Task
    <3> QED
      BY <2>1, <3>1 DEF IInv, Typed, TypedApp, Timer
  <2>2. CASE AppendGuest(s)
    <3>1. mainq[s] \in Seq(Task) /\ mainq[s] # <<>>
      BY <2>2 DEF IInv, Typed, TypedApp, AppendGuest
    <3>2. Tail(mainq[s]) \in Seq(Task) /\ Head(mainq[s]) \in Task
      BY <3>1, HeadTailProperties
    <3>3. Head(mainq[s]).units \in Seq(Unit)
      BY <2>2, <3>2 DEF Task, Poll, AppendGuest
    <3>4. output[s] \o Head(mainq[s]).units \in Seq(Unit)
      BY <3>3, ConcatProperties DEF IInv, Typed, TypedApp
    <3> QED
      BY <2>2, <3>2, <3>4 DEF IInv, Typed, TypedApp, AppendGuest
  <2> QED
    BY <2>1, <2>2
<1>4. Counts'
  BY <1>1 DEF IInv, Counts, queue
<1>5. Started' /\ Ends'
  BY <1>1 DEF IInv, Started, Ends, wine
<1> QED
  BY <1>2, <1>3, <1>4, <1>5 DEF IInv, Typed

LEMMA ICheckExit ==
  ASSUME IInv, NEW s \in Sessions, CheckExit(s)
  PROVE  IInv'
<1>1. UNCHANGED <<wine, inpipe, outpipe, jobs, writing, output>>
  BY DEF CheckExit
<1>2. TypedWine' /\ TypedPipes'
  BY <1>1 DEF IInv, Typed, TypedWine, TypedPipes, wine
<1>3. TypedQueue'
  BY DEF CheckExit, IInv, Typed, TypedQueue
<1>4. TypedApp'
  <2>1. mainq[s] \in Seq(Task) /\ mainq[s] # <<>>
    BY DEF IInv, Typed, TypedApp, CheckExit
  <2>2. Tail(mainq[s]) \in Seq(Task)
    BY <2>1, HeadTailProperties
  <2>3. exitCode[s] \in {0, 255}
    BY DEF IInv, Typed, TypedWine
  <2>4. mainq' \in [Sessions -> Seq(Task)]
    BY <2>2 DEF IInv, Typed, TypedApp, CheckExit
  <2>5. CASE UNCHANGED <<status, code>>
    BY <1>1, <2>4, <2>5 DEF IInv, Typed, TypedApp
  <2>6. CASE /\ status' = [status EXCEPT ![s] = "exited"]
             /\ code' = [code EXCEPT ![s] = exitCode[s]]
    BY <1>1, <2>3, <2>4, <2>6 DEF IInv, Typed, TypedApp
  <2> QED
    BY <2>5, <2>6 DEF CheckExit, ExitCode
<1>5. Counts'
  BY <1>1 DEF IInv, Counts
<1>6. Started'
  <2>1. \A t \in Sessions : status'[t] \in {"new", "failed"} => status[t] \in {"new", "failed"}
    BY DEF CheckExit, IInv, Typed, TypedApp
  <2> QED
    BY <1>1, <2>1 DEF IInv, Started, wine
<1>7. Ends'
  <2>1. \A t \in Sessions : status'[t] = "exited" =>
          finished[t] /\ code'[t] = exitCode[t]
    BY DEF CheckExit, IsFinished, ExitCode, IInv, Ends, Typed, TypedApp
  <2> QED
    BY <1>1, <2>1 DEF IInv, Ends, wine
<1> QED
  BY <1>2, <1>3, <1>4, <1>5, <1>6, <1>7 DEF IInv, Typed

\* What a read event takes out of a pipe, and what it leaves there.
LEMMA Split ==
  ASSUME NEW S, NEW q \in Seq(S), NEW n \in 1..Len(q)
  PROVE  /\ SubSeq(q, 1, n) \in Seq(S)
         /\ SubSeq(q, n + 1, Len(q)) \in Seq(S)
         /\ Len(SubSeq(q, n + 1, Len(q))) <= Len(q)
         /\ SubSeq(q, 1, n) \o SubSeq(q, n + 1, Len(q)) = q
<1>1. Len(q) \in Nat /\ \A i \in 1..Len(q) : q[i] \in S
  BY ElementOfSeq, LenProperties
<1>2. SubSeq(q, 1, n) \in Seq(S)
  BY <1>1, SubSeqProperties
<1>3. /\ SubSeq(q, n + 1, Len(q)) \in Seq(S)
      /\ Len(SubSeq(q, n + 1, Len(q))) <= Len(q)
  <2>1. \A i \in (n + 1)..Len(q) : q[i] \in S
    BY <1>1
  <2>2. n + 1 \in Int /\ Len(q) \in Int
    BY <1>1
  <2>3. /\ SubSeq(q, n + 1, Len(q)) \in Seq(S)
        /\ Len(SubSeq(q, n + 1, Len(q))) = IF n + 1 <= Len(q) THEN Len(q) - (n + 1) + 1 ELSE 0
    BY <2>1, <2>2, SubSeqProperties
  <2> QED
    BY <2>3, <1>1
<1>4. SubSeq(q, 1, n) \o SubSeq(q, n + 1, Len(q)) = SubSeq(q, 1, Len(q))
  <2>1. 1 \in 1..(Len(q) + 1) /\ n \in (1 - 1)..Len(q) /\ Len(q) \in n..Len(q)
    BY <1>1
  <2> QED
    BY <2>1, ConcatAdjacentSubSeq
<1> QED
  BY <1>2, <1>3, <1>4, SubSeqFull

LEMMA IReadEvent ==
  ASSUME IInv, NEW s \in Sessions, ReadEvent(s)
  PROVE  IInv'
<1> USE DEF ReadEvent, wine, queue
<1>1. PICK n \in 1..Len(outpipe[s]) :
        /\ outpipe' = [outpipe EXCEPT ![s] = SubSeq(@, n + 1, Len(@))]
        /\ Later(s, Chunk(SubSeq(outpipe[s], 1, n)))
  OBVIOUS
<1>2. outpipe[s] \in Seq(Unit) /\ mainq[s] \in Seq(Task)
  BY DEF IInv, Typed, TypedPipes, TypedApp
<1>3. /\ SubSeq(outpipe[s], n + 1, Len(outpipe[s])) \in Seq(Unit)
      /\ SubSeq(outpipe[s], 1, n) \in Seq(Unit)
      /\ Len(SubSeq(outpipe[s], n + 1, Len(outpipe[s]))) <= Len(outpipe[s])
  BY <1>2, Split
<1>4. Append(mainq[s], Chunk(SubSeq(outpipe[s], 1, n))) \in Seq(Task)
  <2>1. Chunk(SubSeq(outpipe[s], 1, n)) \in Task
    BY <1>3 DEF Chunk, Task
  <2> QED
    BY <1>2, <2>1, AppendProperties
<1>5. Typed'
  <2>1. TypedWine' /\ TypedQueue'
    BY DEF IInv, Typed, TypedWine, TypedQueue
  <2>2. TypedPipes'
    BY <1>1, <1>3 DEF IInv, Typed, TypedPipes
  <2>3. TypedApp'
    BY <1>1, <1>4 DEF IInv, Typed, TypedApp, Later
  <2> QED
    BY <2>1, <2>2, <2>3 DEF Typed
<1>6. Counts'
  <2> SUFFICES ASSUME NEW t \in Sessions
               PROVE  Len(outpipe'[t]) <= PipeSize
    BY DEF Counts
  <2>1. Len(outpipe[t]) \in Nat /\ Len(outpipe[s]) \in Nat
    BY LenProperties DEF IInv, Typed, TypedPipes
  <2>2. Len(outpipe'[t]) <= Len(outpipe[t])
    <3>1. CASE t = s
      <4>1. outpipe'[t] = SubSeq(outpipe[s], n + 1, Len(outpipe[s]))
        BY <1>1, <3>1 DEF IInv, Typed, TypedPipes
      <4> QED
        BY <4>1, <3>1, <1>3
    <3>2. CASE t # s
      <4>1. outpipe'[t] = outpipe[t]
        BY <1>1, <3>2 DEF IInv, Typed, TypedPipes
      <4> QED
        BY <4>1, <2>1
    <3> QED
      BY <3>1, <3>2
  <2>3. Len(outpipe'[t]) \in Nat
    BY <1>5, LenProperties DEF Typed, TypedPipes
  <2> QED
    BY <2>1, <2>2, <2>3, WineSessionAssumption DEF IInv, Counts
<1>7. Started'
  BY DEF IInv, Started
<1>8. Ends'
  BY DEF IInv, Ends
<1> QED
  BY <1>5, <1>6, <1>7, <1>8 DEF IInv

LEMMA IRoute ==
  ASSUME IInv, NEW s \in Sessions, RouteIn(s) \/ RouteOut(s) \/ Load(s) \/ Fail(s)
  PROVE  IInv'
<1>1. UNCHANGED <<stdin, written, inpipe, outpipe, queue, app>>
  BY DEF RouteIn, RouteOut, Load, Fail
<1>2. TypedPipes' /\ TypedQueue' /\ TypedApp'
  BY <1>1 DEF IInv, Typed, TypedPipes, TypedQueue, TypedApp, queue, app
<1>3. Counts'
  BY <1>1 DEF IInv, Counts, queue
<1>4. TypedWine /\ Started /\ Ends
  BY DEF IInv, Typed
<1>5. CASE RouteIn(s)
  <2>1. TypedWine'
    BY <1>4, <1>5 DEF TypedWine, Places, RouteIn, Go
  <2>2. Started'
    BY <1>1, <1>4, <1>5 DEF TypedWine, Started, RouteIn, Go, app
  <2>3. Ends'
    BY <1>1, <1>4, <1>5 DEF TypedWine, Ends, RouteIn, Go, app
  <2> QED
    BY <1>2, <1>3, <2>1, <2>2, <2>3 DEF IInv, Typed
<1>6. CASE RouteOut(s)
  <2>1. TypedWine'
    BY <1>4, <1>6 DEF TypedWine, Places, RouteOut, Go
  <2>2. Started'
    BY <1>1, <1>4, <1>6 DEF TypedWine, Started, RouteOut, Go, app
  <2>3. Ends'
    BY <1>1, <1>4, <1>6 DEF TypedWine, Ends, RouteOut, Go, app
  <2> QED
    BY <1>2, <1>3, <2>1, <2>2, <2>3 DEF IInv, Typed
<1>7. CASE Load(s)
  <2>1. TypedWine'
    BY <1>4, <1>7 DEF TypedWine, Places, Load, Go
  <2>2. Started'
    BY <1>1, <1>4, <1>7 DEF TypedWine, Started, Load, Go, app
  <2>3. Ends'
    BY <1>1, <1>4, <1>7 DEF TypedWine, Ends, Load, Go, app
  <2> QED
    BY <1>2, <1>3, <2>1, <2>2, <2>3 DEF IInv, Typed
<1>8. CASE Fail(s)
  <2>1. TypedWine'
    <3>1. CASE thread[s] = "code"
      BY <1>4, <1>8, <3>1 DEF TypedWine, Places, Fail, Go
    <3>2. CASE thread[s] = "finish"
      <4>1. /\ thread' = [thread EXCEPT ![s] = "gone"] /\ finished' = [finished EXCEPT ![s] = TRUE]
            /\ UNCHANGED <<exitCode, fd0, fd1, written, stdin>>
        BY <1>8, <3>2 DEF Fail, Go
      <4>2. finished' \in [Sessions -> BOOLEAN]
        BY <1>4, <4>1 DEF TypedWine
      <4> QED
        BY <1>4, <4>1, <4>2 DEF TypedWine, Places
    <3> QED
      BY <1>8, <3>1, <3>2 DEF Fail
  <2>2. Started'
    BY <1>1, <1>4, <1>8 DEF TypedWine, Started, Fail, Go, app
  <2>3. Ends'
    BY <1>1, <1>4, <1>8 DEF TypedWine, Ends, Fail, Go, app
  <2> QED
    BY <1>2, <1>3, <2>1, <2>2, <2>3 DEF IInv, Typed
<1> QED
  BY <1>5, <1>6, <1>7, <1>8

\* write() into a pipe with room for it.
LEMMA IWrite ==
  ASSUME IInv, NEW s \in Sessions, Write(s), fd1 \in Sessions
  PROVE  /\ outpipe' \in [Sessions -> Seq(Unit)]
         /\ \A t \in Sessions : Len(outpipe'[t]) <= PipeSize
         /\ written' \in [Sessions -> Nat]
<1> DEFINE unit == [from |-> s, no |-> written[s] + 1]
<1>0. /\ outpipe \in [Sessions -> Seq(Unit)] /\ written \in [Sessions -> Nat]
      /\ PipeSize \in Nat
  BY WineSessionAssumption DEF IInv, Typed, TypedWine, TypedPipes
<1>1. /\ Len(outpipe[fd1]) < PipeSize
      /\ written' = [written EXCEPT ![s] = written[s] + 1]
      /\ outpipe' = [outpipe EXCEPT ![fd1] = Append(outpipe[fd1], unit)]
  BY DEF Write
<1>2. written[s] + 1 \in Nat
  BY <1>0
<1>3. unit \in Unit
  BY <1>2 DEF Unit
<1> HIDE DEF unit
<1>4. /\ Append(outpipe[fd1], unit) \in Seq(Unit)
      /\ Len(Append(outpipe[fd1], unit)) = Len(outpipe[fd1]) + 1
      /\ Len(outpipe[fd1]) \in Nat
  BY <1>0, <1>3, AppendProperties, LenProperties
<1>5. outpipe' \in [Sessions -> Seq(Unit)]
  BY <1>0, <1>1, <1>4
<1>6. ASSUME NEW t \in Sessions PROVE Len(outpipe'[t]) <= PipeSize
  <2>1. CASE t = fd1
    <3>1. outpipe'[t] = Append(outpipe[fd1], unit)
      BY <2>1, <1>0, <1>1
    <3> QED
      BY <3>1, <1>0, <1>1, <1>4
  <2>2. CASE t # fd1
    <3>1. outpipe'[t] = outpipe[t]
      BY <2>2, <1>0, <1>1
    <3> QED
      BY <3>1 DEF IInv, Counts
  <2> QED
    BY <2>1, <2>2
<1>7. written' \in [Sessions -> Nat]
  BY <1>0, <1>1, <1>2
<1> QED
  BY <1>5, <1>6, <1>7

LEMMA ILoadFails ==
  ASSUME IInv, NEW s \in Sessions, LoadFails(s)
  PROVE  IInv'
<1> USE DEF LoadFails, Go
<1>1. fd1 \in Sessions
  BY DEF IInv, Started
<1>2. /\ outpipe' \in [Sessions -> Seq(Unit)]
      /\ \A t \in Sessions : Len(outpipe'[t]) <= PipeSize
      /\ written' \in [Sessions -> Nat]
  BY <1>1, IWrite
<1>3. \A t \in Sessions : t # s => written'[t] = written[t]
  BY DEF Write, IInv, Typed, TypedWine
<1>4. TypedWine'
  BY <1>2 DEF IInv, Typed, TypedWine, Places
<1>5. TypedPipes' /\ TypedQueue' /\ TypedApp'
  BY <1>2 DEF IInv, Typed, TypedPipes, TypedQueue, TypedApp, queue, app
<1>6. Counts'
  BY <1>2 DEF IInv, Counts, queue
<1>7. Started'
  BY <1>3 DEF IInv, Started, Typed, TypedWine, app
<1>8. Ends'
  BY DEF IInv, Ends, Typed, TypedWine, app
<1> QED
  BY <1>4, <1>5, <1>6, <1>7, <1>8 DEF IInv, Typed

LEMMA IGuest ==
  ASSUME IInv, NEW s \in Sessions, Guest(s)
  PROVE  IInv'
<1>1. UNCHANGED <<queue, app>>
  BY DEF Guest, GuestReads, GuestWrites, GuestExits, WineReturns
<1>2. TypedQueue' /\ TypedApp'
  BY <1>1 DEF IInv, Typed, TypedQueue, TypedApp, queue, app
<1>3. CASE GuestReads(s)
  <2>1. TypedWine'
    BY <1>3 DEF IInv, Typed, TypedWine, GuestReads, wine
  <2>2. TypedPipes'
    <3>1. inpipe[fd0] - 1 \in 0..PipeSize
      BY <1>3, WineSessionAssumption DEF IInv, Typed, TypedPipes, GuestReads
    <3> QED
      BY <1>3, <3>1 DEF IInv, Typed, TypedPipes, GuestReads
  <2>3. Counts'
    BY <1>3 DEF IInv, Counts, GuestReads, queue
  <2>4. Started' /\ Ends'
    BY <1>3 DEF IInv, Started, Ends, GuestReads, wine, app
  <2> QED
    BY <1>2, <2>1, <2>2, <2>3, <2>4 DEF IInv, Typed
<1>4. CASE GuestWrites(s)
  <2>0. UNCHANGED <<thread, finished, exitCode, fd0, fd1, stdin, inpipe, queue, app>> /\ Write(s)
    BY <1>4 DEF GuestWrites
  <2>1. fd1 \in Sessions
    BY <1>4 DEF IInv, Started, GuestWrites
  <2>2. /\ outpipe' \in [Sessions -> Seq(Unit)]
        /\ \A t \in Sessions : Len(outpipe'[t]) <= PipeSize
        /\ written' \in [Sessions -> Nat]
    BY <2>0, <2>1, IWrite
  <2>3. \A t \in Sessions : t # s => written'[t] = written[t]
    BY <2>0 DEF Write, IInv, Typed, TypedWine
  <2>4. TypedWine' /\ TypedPipes'
    BY <2>0, <2>2 DEF IInv, Typed, TypedWine, TypedPipes
  <2>5. Counts'
    BY <2>0, <2>2 DEF IInv, Counts, queue
  <2>6. Started'
    BY <1>4, <2>0, <2>3 DEF IInv, Started, app, GuestWrites
  <2>7. Ends'
    BY <2>0 DEF IInv, Ends, app
  <2> QED
    BY <1>2, <2>4, <2>5, <2>6, <2>7 DEF IInv, Typed
<1>5. CASE GuestExits(s) \/ WineReturns(s)
  <2>0. /\ UNCHANGED <<exitCode, fd0, fd1, written, stdin, inpipe, outpipe, queue, app>>
        /\ thread' = [thread EXCEPT ![s] = "gone"] /\ thread[s] = "run"
        /\ UNCHANGED finished \/ finished' = [finished EXCEPT ![s] = TRUE]
    BY <1>5 DEF GuestExits, WineReturns, Go
  <2>1. TypedWine'
    <3>1. thread' \in [Sessions -> Places]
      BY <2>0 DEF IInv, Typed, TypedWine, Places
    <3>2. finished' \in [Sessions -> BOOLEAN]
      <4>1. finished \in [Sessions -> BOOLEAN]
        BY DEF IInv, Typed, TypedWine
      <4>2. CASE finished' = [finished EXCEPT ![s] = TRUE]
        BY <4>1, <4>2
      <4>3. CASE finished' = finished
        BY <4>1, <4>3
      <4> QED
        BY <2>0, <4>2, <4>3
    <3> QED
      BY <2>0, <3>1, <3>2 DEF IInv, Typed, TypedWine
  <2>2. TypedPipes' /\ Counts'
    BY <2>0 DEF IInv, Typed, TypedPipes, Counts, queue
  <2>3. Started'
    BY <2>0 DEF IInv, Started, Typed, TypedWine, app
  <2>4. Ends'
    BY <2>0 DEF IInv, Ends, Typed, TypedWine, app
  <2> QED
    BY <1>2, <2>1, <2>2, <2>3, <2>4 DEF IInv, Typed
<1> QED
  BY <1>3, <1>4, <1>5 DEF Guest

LEMMA IStep == IInv /\ [Next]_vars => IInv'
<1> SUFFICES ASSUME IInv, [Next]_vars PROVE IInv'
  OBVIOUS
<1>1. CASE UNCHANGED vars
  <2>1. Typed'
    BY <1>1 DEF IInv, Typed, TypedWine, TypedPipes, TypedQueue, TypedApp, vars, wine, queue, app
  <2> QED
    BY <1>1, <2>1 DEF IInv, Counts, Started, Ends, vars, wine, queue, app
<1>2. ASSUME NEW s \in Sessions, Client(s) PROVE IInv'
  BY <1>2, IStart, IStop, ISend DEF Client
<1>3. ASSUME NEW s \in Sessions, Host(s) PROVE IInv'
  BY <1>3, IRoute, ILoadFails DEF Host
<1>4. ASSUME NEW s \in Sessions, ReadQueue(s) \/ ReadEvent(s) \/ MainActor(s) \/ Timer(s) PROVE IInv'
  BY <1>4, ISend, IReadEvent, ITasks, ICheckExit DEF ReadQueue, MainActor
<1> QED
  BY <1>1, <1>2, <1>3, <1>4, IGuest DEF Next

LEMMA Invariant == Spec => []IInv
BY IInit, IStep, PTL DEF Spec

(* Every reachable state is typed: a write goes to a session's pipe only,  *)
(* no pipe holds more than it can, and the counts keep to their bounds.    *)
THEOREM TypeCorrect == Spec => []TypeOK
<1>1. IInv => TypeOK
  <2> SUFFICES ASSUME IInv PROVE TypeOK
    OBVIOUS
  <2>1. ASSUME NEW s \in Sessions, NEW i \in DOMAIN mainq[s]
        PROVE  mainq[s][i] = Poll \/ mainq[s][i] \in [kind : {"chunk"}, units : Seq(Unit)]
    <3>1. mainq[s] \in Seq(Task)
      BY DEF IInv, Typed, TypedApp
    <3>2. mainq[s][i] \in Task
      BY <3>1, LenProperties, ElementOfSeq
    <3> QED
      BY <3>2 DEF Task
  <2> QED
    BY <2>1 DEF IInv, Typed, TypedWine, TypedPipes, TypedQueue, TypedApp, Counts, Places, TypeOK
<1> QED
  BY <1>1, Invariant, PTL

(* However the poll falls between the stores of exit_code and finished:    *)
(* the exit code a view shows is the guest's, and the guest's thread has   *)
(* stored its last.                                                        *)
THEOREM ExitCodeShownAlways == Spec => []ExitCodeShown
<1>1. IInv => ExitCodeShown
  BY DEF IInv, Ends, ExitCodeShown
<1> QED
  BY <1>1, Invariant, PTL

-----------------------------------------------------------------------------
(* What a view has shown, what is on its way in tasks, and what is in its  *)
(* pipe, one after another: a task is shown, a read event fills one, a     *)
(* guest writes.                                                           *)
Joined(out, taken, pipe) == out \o (taken \o pipe)

LEMMA JoinedType ==
  ASSUME NEW S, NEW o \in Seq(S), NEW f \in Seq(S), NEW p \in Seq(S)
  PROVE  Joined(o, f, p) \in Seq(S)
<1>1. f \o p \in Seq(S)
  BY ConcatProperties
<1> QED
  BY <1>1, ConcatProperties DEF Joined

LEMMA JoinedIs ==
  ASSUME NEW S, NEW o \in Seq(S), NEW f \in Seq(S), NEW p \in Seq(S)
  PROVE  Joined(o, f, p) = o \o f \o p
<1>1. Regrouped(o, f, p)
  BY Regroup
<1> QED
  BY <1>1 DEF Joined, Regrouped

LEMMA JoinedShown ==
  ASSUME NEW S, NEW o \in Seq(S), NEW u \in Seq(S), NEW f \in Seq(S), NEW p \in Seq(S)
  PROVE  Joined(o \o u, f, p) = Joined(o, u \o f, p)
<1>1. f \o p \in Seq(S)
  BY ConcatProperties
<1>2. Regrouped(o, u, f \o p) /\ Regrouped(u, f, p)
  BY <1>1, Regroup
<1> QED
  BY <1>2 DEF Joined, Regrouped

LEMMA JoinedRead ==
  ASSUME NEW S, NEW o \in Seq(S), NEW f \in Seq(S), NEW c \in Seq(S), NEW r \in Seq(S)
  PROVE  Joined(o, f \o c, r) = Joined(o, f, c \o r)
<1>1. Regrouped(f, c, r)
  BY Regroup
<1> QED
  BY <1>1 DEF Joined, Regrouped

LEMMA JoinedWritten ==
  ASSUME NEW S, NEW o \in Seq(S), NEW f \in Seq(S), NEW p \in Seq(S), NEW e \in S
  PROVE  Joined(o, f, Append(p, e)) = Append(Joined(o, f, p), e)
<1> DEFINE one == <<e>>
<1>1. one \in Seq(S) /\ f \o p \in Seq(S) /\ Joined(o, f, p) \in Seq(S)
  BY ConcatProperties, JoinedType
<1>2. Append(p, e) = p \o one /\ Append(Joined(o, f, p), e) = Joined(o, f, p) \o one
  BY <1>1, AppendIsConcat
<1> HIDE DEF one
<1>3. Regrouped(f, p, one) /\ Regrouped(o, f \o p, one)
  BY <1>1, Regroup
<1> QED
  BY <1>2, <1>3 DEF Joined, Regrouped

\* What the tasks in a queue hold.
LEMMA TaskUnits == \A t \in Task : t.units \in Seq(Unit)
<1> SUFFICES ASSUME NEW t \in Task PROVE t.units \in Seq(Unit)
  OBVIOUS
<1>1. CASE t = Poll
  <2>1. Poll.units = <<>>
    BY DEF Poll
  <2> QED
    BY <1>1, <2>1, EmptySeq
<1>2. CASE t \in [kind : {"chunk"}, units : Seq(Unit)]
  BY <1>2
<1> QED
  BY <1>1, <1>2 DEF Task

Units(q) == [i \in DOMAIN q |-> q[i].units]

LEMMA UnitsType ==
  ASSUME NEW q \in Seq(Task)
  PROVE  Units(q) \in Seq(Seq(Unit)) /\ Len(Units(q)) = Len(q)
<1>1. Len(q) \in Nat /\ DOMAIN q = 1..Len(q)
  BY LenProperties
<1>2. \A i \in 1..Len(q) : q[i].units \in Seq(Unit)
  <2>1. \A i \in 1..Len(q) : q[i] \in Task
    BY ElementOfSeq
  <2>2. \A t \in Task : t.units \in Seq(Unit)
    BY TaskUnits
  <2> QED
    BY <2>1, <2>2
<1>3. Units(q) = [i \in 1..Len(q) |-> q[i].units]
  BY <1>1 DEF Units
<1> QED
  BY <1>1, <1>2, <1>3

LEMMA UnitsAppend ==
  ASSUME NEW q \in Seq(Task), NEW t \in Task
  PROVE  Units(Append(q, t)) = Append(Units(q), t.units)
<1> DEFINE more == Append(q, t)
<1>1. /\ more \in Seq(Task) /\ Len(more) = Len(q) + 1 /\ Len(q) \in Nat
      /\ \A i \in 1..Len(q) : more[i] = q[i]
      /\ more[Len(q) + 1] = t
  BY AppendProperties, LenProperties
<1>2. t.units \in Seq(Unit)
  BY TaskUnits
<1> HIDE DEF more
<1>3. /\ Units(more) \in Seq(Seq(Unit)) /\ Len(Units(more)) = Len(q) + 1
      /\ Units(q) \in Seq(Seq(Unit)) /\ Len(Units(q)) = Len(q)
  BY <1>1, UnitsType
<1>4. /\ Append(Units(q), t.units) \in Seq(Seq(Unit)) /\ Len(Append(Units(q), t.units)) = Len(q) + 1
      /\ \A i \in 1..Len(q) : Append(Units(q), t.units)[i] = Units(q)[i]
      /\ Append(Units(q), t.units)[Len(q) + 1] = t.units
  BY <1>2, <1>3, AppendProperties
<1>5. ASSUME NEW i \in 1..(Len(q) + 1)
      PROVE  Units(more)[i] = Append(Units(q), t.units)[i]
  <2>1. Units(more)[i] = more[i].units
    BY <1>1, LenProperties DEF Units
  <2>2. CASE i = Len(q) + 1
    BY <1>1, <1>4, <2>1, <2>2
  <2>3. CASE i # Len(q) + 1
    <3>1. i \in 1..Len(q)
      BY <1>1, <2>3
    <3>2. Units(q)[i] = q[i].units
      BY <3>1, LenProperties DEF Units
    <3> QED
      BY <1>1, <1>4, <2>1, <3>1, <3>2
  <2> QED
    BY <2>2, <2>3
<1> QED
  BY <1>3, <1>4, <1>5, SeqEqual DEF more

LEMMA UnitsTail ==
  ASSUME NEW q \in Seq(Task), q # <<>>
  PROVE  /\ Units(q) # <<>> /\ Head(Units(q)) = Head(q).units
         /\ Units(Tail(q)) = Tail(Units(q))
<1> DEFINE rest == Tail(q)
           us == Units(q)
<1>1. /\ rest \in Seq(Task) /\ Len(rest) = Len(q) - 1 /\ Len(q) \in Nat \ {0}
      /\ \A i \in 1..Len(rest) : rest[i] = q[i + 1]
      /\ Head(q) = q[1]
  BY HeadTailProperties, EmptySeq
<1> HIDE DEF rest
<1>2. us \in Seq(Seq(Unit)) /\ Len(us) = Len(q)
  BY UnitsType
<1>3. \A i \in 1..Len(q) : us[i] = q[i].units
  BY LenProperties DEF Units
<1> HIDE DEF us
<1>4. us # <<>>
  BY <1>1, <1>2, EmptySeq
<1>5. Head(us) = q[1].units
  BY <1>1, <1>2, <1>3, <1>4
<1>6. /\ Tail(us) \in Seq(Seq(Unit)) /\ Len(Tail(us)) = Len(rest)
      /\ \A i \in 1..Len(rest) : Tail(us)[i] = us[i + 1]
  BY <1>1, <1>2, <1>4, HeadTailProperties
<1>7. Units(rest) \in Seq(Seq(Unit)) /\ Len(Units(rest)) = Len(rest)
  BY <1>1, UnitsType
<1>8. ASSUME NEW i \in 1..Len(rest) PROVE Units(rest)[i] = Tail(us)[i]
  <2>1. Units(rest)[i] = rest[i].units
    BY <1>1, LenProperties DEF Units
  <2>2. i + 1 \in 1..Len(q)
    BY <1>1
  <2> QED
    BY <1>1, <1>3, <1>6, <2>1, <2>2
<1>9. Units(rest) = Tail(us)
  BY <1>6, <1>7, <1>8, SeqEqual
<1> QED
  BY <1>1, <1>4, <1>5, <1>9 DEF rest, us

\* What a queue of tasks holds, all in one.
Content(q) == FlattenSeq(Units(q))

LEMMA ContentAppend ==
  ASSUME NEW q \in Seq(Task), NEW t \in Task
  PROVE  /\ Content(q) \in Seq(Unit) /\ t.units \in Seq(Unit)
         /\ Content(Append(q, t)) = Content(q) \o t.units
<1>1. t.units \in Seq(Unit)
  BY TaskUnits
<1>2. Units(q) \in Seq(Seq(Unit)) /\ Units(Append(q, t)) = Append(Units(q), t.units)
  BY UnitsType, UnitsAppend
<1> QED
  BY <1>1, <1>2, FlattenAppend, FlattenType DEF Content

LEMMA ContentType ==
  ASSUME NEW q \in Seq(Task)
  PROVE  Content(q) \in Seq(Unit)
BY UnitsType, FlattenType DEF Content

LEMMA ContentTail ==
  ASSUME NEW q \in Seq(Task), q # <<>>
  PROVE  /\ Content(Tail(q)) \in Seq(Unit) /\ Head(q).units \in Seq(Unit)
         /\ Content(q) = Head(q).units \o Content(Tail(q))
<1>1. Tail(q) \in Seq(Task) /\ Head(q) \in Task
  BY HeadTailProperties
<1>2. Head(q).units \in Seq(Unit)
  BY <1>1, TaskUnits
<1>3. /\ Units(q) \in Seq(Seq(Unit)) /\ Units(q) # <<>>
      /\ Head(Units(q)) = Head(q).units /\ Units(Tail(q)) = Tail(Units(q))
      /\ Units(Tail(q)) \in Seq(Seq(Unit))
  BY <1>1, UnitsType, UnitsTail
<1>4. FlattenSeq(Units(q)) = Head(Units(q)) \o FlattenSeq(Tail(Units(q)))
  BY <1>3, FlattenTail
<1> QED
  BY <1>2, <1>3, <1>4, FlattenType DEF Content

-----------------------------------------------------------------------------
(* What the views hold of the guests' output, whatever sessions take the   *)
(* handles from each other.  view, open, users, fd and said stand for what *)
(* each session has seen, which of them have a view, whose threads have    *)
(* redirected the handles, whose pipe they are, and how much each guest    *)
(* has written.                                                            *)
In(q, w, n) == \E i \in DOMAIN q : q[i] = [from |-> w, no |-> n]
Sorted(q) == \A i, j \in DOMAIN q : j < i /\ q[j].from = q[i].from => q[j].no < q[i].no

\* A thread that has not redirected the handles has nothing in its view.
Fresh(view, open, users, fd) ==
  \A s \in Sessions \ users : fd # s /\ (s \in open => view[s] = <<>>)
\* A view has no more than was written, in order.
Ordered(view, open, said) ==
  \A s \in open :
    /\ Sorted(view[s])
    /\ \A w \in Sessions, n \in Nat : In(view[s], w, n) => 1 <= n /\ n <= said[w]
\* It has all between two pieces, and up to the last while it has the handles.
Unbroken(view, open, fd, said) ==
  \A s \in open, w \in Sessions :
    /\ \A a, b, c \in Nat :
         In(view[s], w, a) /\ In(view[s], w, c) /\ a <= b /\ b <= c => In(view[s], w, b)
    /\ fd = s => \A n \in Nat : In(view[s], w, n) => In(view[s], w, said[w])
\* Of its own guest it has the beginning, and all while it has the handles.
OwnFirst(view, open, fd, said) ==
  \A s \in open :
    /\ \A n, k \in Nat : In(view[s], s, n) /\ 1 <= k /\ k <= n => In(view[s], s, k)
    /\ fd = s => \A k \in Nat : 1 <= k /\ k <= said[s] => In(view[s], s, k)
\* Each piece is in one open view, or a closed one may have had it.
Placed(view, open, users, said) ==
  \A w \in Sessions, n \in Nat :
    /\ \A s, t \in open : In(view[s], w, n) /\ In(view[t], w, n) => s = t
    /\ 1 <= n /\ n <= said[w] =>
         \E s \in Sessions : IF s \in open THEN In(view[s], w, n) ELSE s \in users

Held(view, open, users, fd, said) ==
  /\ Fresh(view, open, users, fd)
  /\ Ordered(view, open, said)
  /\ Unbroken(view, open, fd, said)
  /\ OwnFirst(view, open, fd, said)
  /\ Placed(view, open, users, said)

LEMMA InEmpty == \A w, n : ~In(<<>>, w, n)
BY EmptySeq DEF In

LEMMA InAppend ==
  ASSUME NEW S, NEW q \in Seq(S), NEW w, NEW k, [from |-> w, no |-> k] \in S
  PROVE  \A v \in Sessions, n \in Nat :
           In(Append(q, [from |-> w, no |-> k]), v, n) <=> In(q, v, n) \/ (v = w /\ n = k)
<1> DEFINE e == [from |-> w, no |-> k]
           more == Append(q, e)
<1>1. /\ more \in Seq(S) /\ Len(more) = Len(q) + 1 /\ Len(q) \in Nat
      /\ \A i \in 1..Len(q) : more[i] = q[i]
      /\ more[Len(q) + 1] = e
  BY AppendProperties, LenProperties
<1>2. DOMAIN more = 1..(Len(q) + 1) /\ DOMAIN q = 1..Len(q)
  BY <1>1, LenProperties
<1> HIDE DEF more
<1> SUFFICES ASSUME NEW v \in Sessions, NEW n \in Nat
             PROVE  In(more, v, n) <=> In(q, v, n) \/ (v = w /\ n = k)
  BY DEF more
<1> DEFINE x == [from |-> v, no |-> n]
<1>3. x = e <=> (v = w /\ n = k)
  <2>1. x.from = v /\ x.no = n /\ e.from = w /\ e.no = k
    OBVIOUS
  <2> QED
    BY <2>1
<1> HIDE DEF x, e
<1>4. In(more, v, n) <=> \E i \in 1..(Len(q) + 1) : more[i] = x
  BY <1>2 DEF In, x
<1>5. In(q, v, n) <=> \E i \in 1..Len(q) : q[i] = x
  BY <1>2 DEF In, x
<1>6. ASSUME NEW i \in 1..(Len(q) + 1), more[i] = x PROVE In(q, v, n) \/ x = e
  <2>1. i \in 1..Len(q) \/ i = Len(q) + 1
    BY <1>1
  <2> QED
    BY <1>1, <1>5, <1>6, <2>1
<1>7. ASSUME NEW i \in 1..Len(q), q[i] = x PROVE In(more, v, n)
  <2>1. i \in 1..(Len(q) + 1) /\ more[i] = x
    BY <1>1, <1>7
  <2> QED
    BY <1>4, <2>1
<1>8. ASSUME x = e PROVE In(more, v, n)
  <2>1. Len(q) + 1 \in 1..(Len(q) + 1)
    BY <1>1
  <2> QED
    BY <1>1, <1>4, <1>8, <2>1
<1> QED
  BY <1>3, <1>4, <1>5, <1>6, <1>7, <1>8

LEMMA SortedAppend ==
  ASSUME NEW q \in Seq(Unit), Sorted(q), NEW e \in Unit,
         \A n \in Nat : In(q, e.from, n) => n < e.no
  PROVE  Sorted(Append(q, e))
<1> DEFINE more == Append(q, e)
<1>1. /\ more \in Seq(Unit) /\ Len(more) = Len(q) + 1 /\ Len(q) \in Nat
      /\ \A i \in 1..Len(q) : more[i] = q[i]
      /\ more[Len(q) + 1] = e
  BY AppendProperties, LenProperties
<1>2. DOMAIN more = 1..(Len(q) + 1) /\ DOMAIN q = 1..Len(q)
  BY <1>1, LenProperties
<1> HIDE DEF more
<1> SUFFICES ASSUME NEW i \in 1..(Len(q) + 1), NEW j \in 1..(Len(q) + 1),
                    j < i, more[j].from = more[i].from
             PROVE  more[j].no < more[i].no
  BY <1>2 DEF Sorted, more
<1>3. j \in 1..Len(q) /\ more[j] = q[j]
  BY <1>1
<1>4. CASE i \in 1..Len(q)
  BY <1>1, <1>2, <1>3, <1>4 DEF Sorted
<1>5. CASE i = Len(q) + 1
  <2>1. q[j] \in Unit
    BY <1>3, ElementOfSeq
  <2>2. q[j].no \in Nat /\ q[j] = [from |-> e.from, no |-> q[j].no]
    BY <1>1, <1>3, <1>5, <2>1 DEF Unit
  <2>3. In(q, e.from, q[j].no)
    BY <1>2, <1>3, <2>2 DEF In
  <2> QED
    BY <1>1, <1>3, <1>5, <2>2, <2>3
<1> QED
  BY <1>1, <1>4, <1>5

\* Views may close, threads may come to redirect the handles; the rest of what
\* the views hold is the same.
LEMMA HeldOn ==
  ASSUME NEW view, NEW open, NEW users, NEW fd, NEW said,
         Held(view, open, users, fd, said),
         NEW view2, NEW open2 \in SUBSET open, NEW users2, users \subseteq users2,
         open \subseteq Sessions,
         \A s \in open2 : view2[s] = view[s]
  PROVE  Held(view2, open2, users2, fd, said)
<1>1. Fresh(view2, open2, users2, fd)
  BY DEF Held, Fresh
<1>2. Ordered(view2, open2, said)
  BY DEF Held, Ordered
<1>3. Unbroken(view2, open2, fd, said)
  BY DEF Held, Unbroken
<1>4. OwnFirst(view2, open2, fd, said)
  BY DEF Held, OwnFirst
<1>5. Placed(view2, open2, users2, said)
  <2> SUFFICES ASSUME NEW w \in Sessions, NEW n \in Nat
               PROVE  /\ \A s, t \in open2 : In(view2[s], w, n) /\ In(view2[t], w, n) => s = t
                      /\ 1 <= n /\ n <= said[w] =>
                           \E s \in Sessions : IF s \in open2 THEN In(view2[s], w, n) ELSE s \in users2
    BY DEF Placed
  <2>1. \A s, t \in open2 : In(view2[s], w, n) /\ In(view2[t], w, n) => s = t
    BY DEF Held, Placed
  <2>2. ASSUME 1 <= n /\ n <= said[w]
        PROVE  \E s \in Sessions : IF s \in open2 THEN In(view2[s], w, n) ELSE s \in users2
    <3>1. PICK s \in Sessions : IF s \in open THEN In(view[s], w, n) ELSE s \in users
      BY <2>2 DEF Held, Placed
    <3>2. CASE s \in open2
      BY <3>1, <3>2
    <3>3. CASE s \notin open2
      <4>1. s \in users
        <5>1. CASE s \in open
          <6>1. view[s] # <<>>
            BY <3>1, <5>1, InEmpty
          <6> QED
            BY <5>1, <6>1 DEF Held, Fresh
        <5>2. CASE s \notin open
          BY <3>1, <5>2
        <5> QED
          BY <5>1, <5>2
      <4> QED
        BY <3>3, <4>1
    <3> QED
      BY <3>2, <3>3
  <2> QED
    BY <2>1, <2>2
<1> QED
  BY <1>1, <1>2, <1>3, <1>4, <1>5 DEF Held

\* A thread takes the handles.
LEMMA HeldRoute ==
  ASSUME NEW view, NEW open \in SUBSET Sessions, NEW users, NEW fd, NEW said,
         Held(view, open, users, fd, said),
         NEW s \in Sessions \ users, said[s] = 0
  PROVE  Held(view, open, users \cup {s}, s, said)
<1>1. \A w, n : s \in open => ~In(view[s], w, n)
  BY InEmpty DEF Held, Fresh
<1>2. Fresh(view, open, users \cup {s}, s)
  BY DEF Held, Fresh
<1>3. Ordered(view, open, said)
  BY DEF Held
<1>4. Unbroken(view, open, s, said)
  BY <1>1 DEF Held, Unbroken
<1>5. OwnFirst(view, open, s, said)
  BY <1>1 DEF Held, OwnFirst
<1>6. Placed(view, open, users \cup {s}, said)
  BY DEF Held, Placed
<1> QED
  BY <1>2, <1>3, <1>4, <1>5, <1>6 DEF Held

\* A guest writes.
LEMMA HeldWrite ==
  ASSUME NEW view, NEW open \in SUBSET Sessions, NEW users, NEW fd \in Sessions,
         NEW said \in [Sessions -> Nat],
         Held(view, open, users, fd, said),
         \A s \in open : view[s] \in Seq(Unit),
         NEW g \in Sessions, NEW view2,
         \A s \in open : view2[s] = IF s = fd THEN Append(view[s], [from |-> g, no |-> said[g] + 1])
                                    ELSE view[s]
  PROVE  Held(view2, open, users, fd, [said EXCEPT ![g] = @ + 1])
<1> DEFINE k == said[g] + 1
           more == [said EXCEPT ![g] = @ + 1]
<1>0. /\ k \in Nat /\ said[g] \in Nat /\ k = said[g] + 1
      /\ [from |-> g, no |-> k] \in Unit
      /\ more \in [Sessions -> Nat]
      /\ \A w \in Sessions : more[w] = IF w = g THEN k ELSE said[w]
      /\ \A w \in Sessions : said[w] \in Nat
  BY DEF Unit
<1>1. \A s \in open : view2[s] = IF s = fd THEN Append(view[s], [from |-> g, no |-> k]) ELSE view[s]
  OBVIOUS
<1> HIDE DEF k, more
<1>2. \A s \in open, w \in Sessions, n \in Nat :
        In(view2[s], w, n) <=> In(view[s], w, n) \/ (s = fd /\ w = g /\ n = k)
  <2> SUFFICES ASSUME NEW s \in open
               PROVE  \A w \in Sessions, n \in Nat :
                        In(view2[s], w, n) <=> In(view[s], w, n) \/ (s = fd /\ w = g /\ n = k)
    OBVIOUS
  <2>1. CASE s = fd
    <3>1. view2[s] = Append(view[s], [from |-> g, no |-> k]) /\ view[s] \in Seq(Unit)
      BY <1>1, <2>1
    <3>2. \A w \in Sessions, n \in Nat :
            In(Append(view[s], [from |-> g, no |-> k]), w, n) <=> In(view[s], w, n) \/ (w = g /\ n = k)
      BY <1>0, <3>1, InAppend
    <3> QED
      BY <2>1, <3>1, <3>2
  <2>2. CASE s # fd
    BY <1>1, <2>2
  <2> QED
    BY <2>1, <2>2
<1>3. \A s \in open, w \in Sessions, n \in Nat : In(view[s], w, n) => 1 <= n /\ n <= said[w]
  BY DEF Held, Ordered
<1>4. Fresh(view2, open, users, fd)
  <2>1. fd \in users
    BY DEF Held, Fresh
  <2> QED
    BY <1>1, <2>1 DEF Held, Fresh
<1>5. Ordered(view2, open, more)
  <2> SUFFICES ASSUME NEW s \in open
               PROVE  /\ Sorted(view2[s])
                      /\ \A w \in Sessions, n \in Nat : In(view2[s], w, n) => 1 <= n /\ n <= more[w]
    BY DEF Ordered
  <2>1. Sorted(view2[s])
    <3>1. Sorted(view[s]) /\ view[s] \in Seq(Unit)
      BY DEF Held, Ordered
    <3>2. CASE s = fd
      <4> DEFINE e == [from |-> g, no |-> k]
      <4>1. e \in Unit /\ e.from = g /\ e.no = k
        BY <1>0
      <4>2. \A n \in Nat : In(view[s], g, n) => n < k
        BY <1>0, <1>3
      <4>3. view2[s] = Append(view[s], e)
        BY <1>1, <3>2
      <4> HIDE DEF e
      <4>4. \A n \in Nat : In(view[s], e.from, n) => n < e.no
        BY <4>1, <4>2
      <4> QED
        BY <3>1, <4>1, <4>3, <4>4, SortedAppend
    <3>3. CASE s # fd
      BY <1>1, <3>1, <3>3
    <3> QED
      BY <3>2, <3>3
  <2>2. ASSUME NEW w \in Sessions, NEW n \in Nat, In(view2[s], w, n)
        PROVE  1 <= n /\ n <= more[w]
    <3>1. In(view[s], w, n) \/ (w = g /\ n = k)
      BY <1>2, <2>2
    <3>2. CASE In(view[s], w, n)
      BY <1>0, <1>3, <3>2
    <3>3. CASE w = g /\ n = k
      BY <1>0, <3>3
    <3> QED
      BY <3>1, <3>2, <3>3
  <2> QED
    BY <2>1, <2>2
<1>6. Unbroken(view2, open, fd, more)
  <2> SUFFICES ASSUME NEW s \in open, NEW w \in Sessions
               PROVE  /\ \A a, b, c \in Nat :
                           In(view2[s], w, a) /\ In(view2[s], w, c) /\ a <= b /\ b <= c => In(view2[s], w, b)
                      /\ fd = s => \A n \in Nat : In(view2[s], w, n) => In(view2[s], w, more[w])
    BY DEF Unbroken
  <2>0. /\ \A a, b, c \in Nat :
             In(view[s], w, a) /\ In(view[s], w, c) /\ a <= b /\ b <= c => In(view[s], w, b)
        /\ fd = s => \A n \in Nat : In(view[s], w, n) => In(view[s], w, said[w])
    BY DEF Held, Unbroken
  <2>1. ASSUME NEW a \in Nat, NEW b \in Nat, NEW c \in Nat,
               In(view2[s], w, a), In(view2[s], w, c), a <= b, b <= c
        PROVE  In(view2[s], w, b)
    <3>1. CASE In(view[s], w, c)
      <4>1. In(view[s], w, a)
        <5>1. c <= said[w] /\ said[w] \in Nat
          BY <1>0, <1>3, <3>1
        <5>2. ~(w = g /\ a = k)
          BY <1>0, <2>1, <5>1
        <5> QED
          BY <1>2, <2>1, <5>2
      <4> QED
        BY <1>2, <2>0, <2>1, <3>1, <4>1
    <3>2. CASE s = fd /\ w = g /\ c = k
      <4>1. CASE b = k
        BY <1>2, <3>2, <4>1
      <4>2. CASE b # k
        <5>1. b <= said[w] /\ said[w] \in Nat
          BY <1>0, <2>1, <3>2, <4>2
        <5>2. In(view[s], w, a)
          <6>1. a # k
            BY <1>0, <2>1, <3>2, <5>1
          <6> QED
            BY <1>2, <2>1, <6>1
        <5>3. In(view[s], w, said[w])
          BY <2>0, <3>2, <5>2
        <5> QED
          BY <1>2, <2>0, <2>1, <5>1, <5>2, <5>3
      <4> QED
        BY <4>1, <4>2
    <3> QED
      BY <1>2, <2>1, <3>1, <3>2
  <2>2. ASSUME fd = s, NEW n \in Nat, In(view2[s], w, n)
        PROVE  In(view2[s], w, more[w])
    <3>1. CASE w = g
      BY <1>0, <1>2, <2>2, <3>1
    <3>2. CASE w # g
      <4>1. more[w] = said[w] /\ said[w] \in Nat /\ In(view[s], w, n)
        BY <1>0, <1>2, <2>2, <3>2
      <4> QED
        BY <1>2, <2>0, <2>2, <4>1
    <3> QED
      BY <3>1, <3>2
  <2> QED
    BY <2>1, <2>2
<1>7. OwnFirst(view2, open, fd, more)
  <2> SUFFICES ASSUME NEW s \in open
               PROVE  /\ \A n, j \in Nat : In(view2[s], s, n) /\ 1 <= j /\ j <= n => In(view2[s], s, j)
                      /\ fd = s => \A j \in Nat : 1 <= j /\ j <= more[s] => In(view2[s], s, j)
    BY DEF OwnFirst
  <2>0. /\ s \in Sessions
        /\ \A n, j \in Nat : In(view[s], s, n) /\ 1 <= j /\ j <= n => In(view[s], s, j)
        /\ fd = s => \A j \in Nat : 1 <= j /\ j <= said[s] => In(view[s], s, j)
    BY DEF Held, OwnFirst
  <2>1. ASSUME fd = s, NEW j \in Nat, 1 <= j, j <= more[s]
        PROVE  In(view2[s], s, j)
    <3>1. j <= said[s] \/ (s = g /\ j = k)
      BY <1>0, <2>0, <2>1
    <3> QED
      BY <1>2, <2>0, <2>1, <3>1
  <2>2. ASSUME NEW n \in Nat, NEW j \in Nat, In(view2[s], s, n), 1 <= j, j <= n
        PROVE  In(view2[s], s, j)
    <3>1. CASE In(view[s], s, n)
      BY <1>2, <2>0, <2>2, <3>1
    <3>2. CASE s = fd /\ s = g /\ n = k
      <4>1. j <= more[s]
        BY <1>0, <2>2, <3>2
      <4> QED
        BY <2>1, <2>2, <3>2, <4>1
    <3> QED
      BY <1>2, <2>0, <2>2, <3>1, <3>2
  <2> QED
    BY <2>1, <2>2
<1>8. Placed(view2, open, users, more)
  <2> SUFFICES ASSUME NEW w \in Sessions, NEW n \in Nat
               PROVE  /\ \A s, t \in open : In(view2[s], w, n) /\ In(view2[t], w, n) => s = t
                      /\ 1 <= n /\ n <= more[w] =>
                           \E s \in Sessions : IF s \in open THEN In(view2[s], w, n) ELSE s \in users
    BY DEF Placed
  <2>1. ASSUME NEW s \in open, NEW t \in open, In(view2[s], w, n), In(view2[t], w, n)
        PROVE  s = t
    <3>1. CASE w = g /\ n = k
      <4>1. \A r \in open : ~In(view[r], w, n)
        BY <1>0, <1>3, <3>1
      <4> QED
        BY <1>2, <2>1, <4>1
    <3>2. CASE ~(w = g /\ n = k)
      <4>1. In(view[s], w, n) /\ In(view[t], w, n)
        BY <1>2, <2>1, <3>2
      <4> QED
        BY <4>1 DEF Held, Placed
    <3> QED
      BY <3>1, <3>2
  <2>2. ASSUME 1 <= n /\ n <= more[w]
        PROVE  \E s \in Sessions : IF s \in open THEN In(view2[s], w, n) ELSE s \in users
    <3>1. CASE w = g /\ n = k
      <4>1. fd \in users
        BY DEF Held, Fresh
      <4>2. fd \in open => In(view2[fd], w, n)
        BY <1>2, <3>1
      <4> QED
        BY <4>1, <4>2
    <3>2. CASE ~(w = g /\ n = k)
      <4>1. n <= said[w]
        BY <1>0, <2>2, <3>2
      <4>2. PICK s \in Sessions : IF s \in open THEN In(view[s], w, n) ELSE s \in users
        BY <2>2, <4>1 DEF Held, Placed
      <4> QED
        BY <1>2, <4>2
    <3> QED
      BY <3>1, <3>2
  <2> QED
    BY <2>1, <2>2
<1>9. Held(view2, open, users, fd, more)
  BY <1>4, <1>5, <1>6, <1>7, <1>8 DEF Held
<1> QED
  BY <1>9 DEF more

-----------------------------------------------------------------------------
(* The inductive invariant, and the steps.                                 *)
Seen(s) == Joined(output[s], Content(mainq[s]), outpipe[s])
Views == [s \in Sessions |-> Seen(s)]
OpenOnes == {s \in Sessions : Open(s)}
Users == {s \in Sessions : Redirects(s)}
HInv == Held(Views, OpenOnes, Users, fd1, written)
SInv == IInv /\ HInv

LEMMA SeenType ==
  ASSUME IInv, NEW s \in Sessions
  PROVE  Seen(s) \in Seq(Unit)
<1>1. output[s] \in Seq(Unit) /\ outpipe[s] \in Seq(Unit) /\ mainq[s] \in Seq(Task)
  BY DEF IInv, Typed, TypedPipes, TypedApp
<1>2. Content(mainq[s]) \in Seq(Unit)
  BY <1>1, ContentType
<1> QED
  BY <1>1, <1>2, JoinedType DEF Seen

LEMMA SInit == Init => SInv
<1> SUFFICES ASSUME Init PROVE SInv
  OBVIOUS
<1>1. ASSUME NEW s \in Sessions PROVE Views[s] = <<>>
  <2>1. output[s] = <<>> /\ mainq[s] = <<>> /\ outpipe[s] = <<>>
    BY <1>1 DEF Init
  <2>2. Content(<<>>) = <<>>
    <3>1. Units(<<>>) \in Seq(Seq(Unit)) /\ Len(Units(<<>>)) = 0
      BY EmptySeq, UnitsType
    <3>2. Units(<<>>) = <<>>
      BY <3>1, EmptySeq
    <3> QED
      BY <3>2, FlattenEmpty DEF Content
  <2>3. Joined(<<>>, <<>>, <<>>) = <<>>
    BY EmptySeq, ConcatEmptySeq DEF Joined
  <2> QED
    BY <2>1, <2>2, <2>3 DEF Seen, Views
<1>2. fd1 \notin Sessions /\ \A s \in Sessions : written[s] = 0
  BY WineSessionAssumption DEF Init
<1>3. \A s \in Sessions : \A w, n : ~In(Views[s], w, n)
  BY <1>1, InEmpty
<1>4. OpenOnes \subseteq Sessions
  BY DEF OpenOnes
<1> HIDE DEF Views
<1>5. Fresh(Views, OpenOnes, Users, fd1)
  BY <1>1, <1>2 DEF Fresh
<1>6. Ordered(Views, OpenOnes, written)
  <2>1. \A s \in Sessions : Sorted(Views[s])
    BY <1>1, EmptySeq DEF Sorted
  <2> QED
    BY <1>3, <1>4, <2>1 DEF Ordered
<1>7. Unbroken(Views, OpenOnes, fd1, written) /\ OwnFirst(Views, OpenOnes, fd1, written)
  BY <1>2, <1>3, <1>4 DEF Unbroken, OwnFirst
<1>8. Placed(Views, OpenOnes, Users, written)
  BY <1>2, <1>3, <1>4 DEF Placed
<1> QED
  BY <1>5, <1>6, <1>7, <1>8, IInit DEF SInv, HInv, Held

\* A step after which each view that is open has what it had.
LEMMA SeenOn ==
  ASSUME SInv, UNCHANGED <<fd1, written>>,
         \A t \in Sessions : status'[t] # "closed" => status[t] # "closed" /\ Seen(t)' = Seen(t),
         \A t \in Sessions : thread'[t] = thread[t] \/ thread'[t] \notin {"none", "stdin", "stdout"}
                               \/ thread[t] \in {"none", "stdin", "stdout"}
  PROVE  HInv'
<1> DEFINE view2 == Views'
           open2 == OpenOnes'
           users2 == Users'
<1>1. open2 \in SUBSET OpenOnes /\ OpenOnes \subseteq Sessions
  BY DEF OpenOnes, Open
<1>2. Users \subseteq users2
  BY DEF Users, Redirects
<1>3. \A s \in open2 : view2[s] = Views[s]
  BY DEF OpenOnes, Open, Views
<1> HIDE DEF view2, open2, users2
<1>4. Held(Views, OpenOnes, Users, fd1, written)
  BY DEF SInv, HInv
<1>5. Held(view2, open2, users2, fd1, written)
  BY <1>1, <1>2, <1>3, <1>4, HeldOn
<1> QED
  BY <1>5 DEF HInv, view2, open2, users2

\* The rest of what a step may change is another session's.
LEMMA OthersOn ==
  ASSUME NEW s \in Sessions,
         \A t \in Sessions \ {s} : /\ output'[t] = output[t] /\ mainq'[t] = mainq[t]
                                   /\ outpipe'[t] = outpipe[t]
  PROVE  \A t \in Sessions \ {s} : Seen(t)' = Seen(t)
BY DEF Seen

\* Threads and guests that go on, lines that are typed, starts that fail.
LEMMA SQuiet ==
  ASSUME SInv, NEW s \in Sessions,
         \/ StartConsole(s) \/ StartGui(s) \/ StartFails(s) \/ Send(s)
         \/ RouteIn(s) \/ Load(s) \/ Fail(s) \/ ReadQueue(s)
         \/ GuestReads(s) \/ GuestExits(s) \/ WineReturns(s)
  PROVE  HInv'
<1>0. /\ thread \in [Sessions -> Places]
      /\ status \in [Sessions -> {"new", "failed", "running", "exited", "closed"}]
  BY DEF SInv, IInv, Typed, TypedWine, TypedApp
<1>1. CASE StartConsole(s) \/ StartGui(s)
  <2>1. /\ thread' = [thread EXCEPT ![s] = "stdin"] /\ status' = [status EXCEPT ![s] = "running"]
        /\ status[s] \in {"new", "failed"}
        /\ UNCHANGED <<fd1, written, outpipe, mainq, output>>
    BY <1>1 DEF StartConsole, StartGui, Launch, Go, Follow
  <2>2. thread[s] = "none"
    BY <2>1 DEF SInv, IInv, Started
  <2>3. \A t \in Sessions : status'[t] # "closed" => status[t] # "closed" /\ Seen(t)' = Seen(t)
    BY <1>0, <2>1 DEF Seen
  <2>4. \A t \in Sessions : thread'[t] = thread[t] \/ thread[t] \in {"none", "stdin", "stdout"}
    BY <1>0, <2>1, <2>2
  <2> QED
    BY <2>1, <2>3, <2>4, SeenOn
<1>2. CASE StartFails(s)
  <2>1. /\ UNCHANGED <<thread, fd1, written, outpipe, mainq, output>>
        /\ status' = [status EXCEPT ![s] = "failed"] /\ status[s] \in {"new", "failed"}
    BY <1>2 DEF StartFails, wine
  <2>2. \A t \in Sessions : status'[t] # "closed" => status[t] # "closed" /\ Seen(t)' = Seen(t)
    BY <1>0, <2>1 DEF Seen
  <2> QED
    BY <2>1, <2>2, SeenOn
<1>3. CASE \/ Send(s) \/ RouteIn(s) \/ Load(s) \/ Fail(s) \/ ReadQueue(s)
           \/ GuestReads(s) \/ GuestExits(s) \/ WineReturns(s)
  <2>1. UNCHANGED <<fd1, written, outpipe, mainq, output, status>>
    BY <1>3 DEF Send, RouteIn, Load, Fail, ReadQueue, WriteBegin, WriteEnd, GuestReads,
                GuestExits, WineReturns, wine, app
  <2>2. \A t \in Sessions : thread'[t] = thread[t] \/ thread'[t] \notin {"none", "stdin", "stdout"}
                              \/ thread[t] \in {"none", "stdin", "stdout"}
    BY <1>0, <1>3 DEF Send, RouteIn, Load, Fail, ReadQueue, WriteBegin, WriteEnd, GuestReads,
                      GuestExits, WineReturns, Go, wine
  <2>3. \A t \in Sessions : status'[t] # "closed" => status[t] # "closed" /\ Seen(t)' = Seen(t)
    BY <2>1 DEF Seen
  <2> QED
    BY <2>1, <2>2, <2>3, SeenOn
<1> QED
  BY <1>1, <1>2, <1>3

\* A view goes away with what it shows.
LEMMA SClose ==
  ASSUME SInv, NEW s \in Sessions, Close(s)
  PROVE  HInv'
<1>1. /\ status' = [status EXCEPT ![s] = "closed"]
      /\ output' = [output EXCEPT ![s] = <<>>] /\ mainq' = [mainq EXCEPT ![s] = <<>>]
      /\ UNCHANGED <<thread, fd1, written, outpipe>>
  BY DEF Close, wine
<1>2. /\ mainq \in [Sessions -> Seq(Task)] /\ output \in [Sessions -> Seq(Unit)]
      /\ status \in [Sessions -> {"new", "failed", "running", "exited", "closed"}]
  BY DEF SInv, IInv, Typed, TypedApp
<1>3. \A t \in Sessions \ {s} : Seen(t)' = Seen(t)
  <2>1. \A t \in Sessions \ {s} : /\ output'[t] = output[t] /\ mainq'[t] = mainq[t]
                                  /\ outpipe'[t] = outpipe[t]
    BY <1>1, <1>2
  <2> QED
    BY <2>1, OthersOn
<1>4. \A t \in Sessions : status'[t] # "closed" => status[t] # "closed" /\ Seen(t)' = Seen(t)
  BY <1>1, <1>2, <1>3
<1> QED
  BY <1>1, <1>4, SeenOn

\* A thread redirects the handles; nothing of it has been seen, and it has
\* written nothing.
LEMMA SRouteOut ==
  ASSUME SInv, NEW s \in Sessions, RouteOut(s)
  PROVE  HInv'
<1>1. /\ thread[s] = "stdout" /\ thread' = [thread EXCEPT ![s] = "load"] /\ fd1' = s
      /\ UNCHANGED <<written, outpipe, mainq, output, status>>
  BY DEF RouteOut, Go, app
<1>2. thread \in [Sessions -> Places]
  BY DEF SInv, IInv, Typed, TypedWine
<1>3. Views' = Views /\ OpenOnes' = OpenOnes
  BY <1>1 DEF Views, OpenOnes, Seen, Open
<1>4. Users' = Users \cup {s} /\ s \notin Users
  BY <1>1, <1>2 DEF Users, Redirects
<1>5. written[s] = 0
  BY <1>1 DEF SInv, IInv, Started
<1>6. Held(Views, OpenOnes, Users, fd1, written) /\ OpenOnes \in SUBSET Sessions
  BY DEF SInv, HInv, OpenOnes
<1>7. Held(Views, OpenOnes, Users \cup {s}, s, written)
  BY <1>4, <1>5, <1>6, HeldRoute
<1> QED
  BY <1>1, <1>3, <1>4, <1>7 DEF HInv

\* A write goes to the pipe of the session that has the handles.
LEMMA SWrite ==
  ASSUME SInv, NEW s \in Sessions, LoadFails(s) \/ GuestWrites(s)
  PROVE  HInv'
<1>1. /\ thread[s] \in {"load", "run"} /\ Write(s)
      /\ UNCHANGED <<fd1, mainq, output, status>>
      /\ UNCHANGED thread \/ thread' = [thread EXCEPT ![s] = "code"]
  BY DEF LoadFails, GuestWrites, Go, app
<1>2. /\ thread \in [Sessions -> Places] /\ written \in [Sessions -> Nat]
      /\ outpipe \in [Sessions -> Seq(Unit)] /\ mainq \in [Sessions -> Seq(Task)]
      /\ output \in [Sessions -> Seq(Unit)] /\ fd1 \in Sessions
  BY <1>1 DEF SInv, IInv, Typed, TypedWine, TypedPipes, TypedApp, Started
<1> DEFINE unit == [from |-> s, no |-> written[s] + 1]
<1>3. /\ outpipe' = [outpipe EXCEPT ![fd1] = Append(outpipe[fd1], unit)]
      /\ written' = [written EXCEPT ![s] = @ + 1]
      /\ unit \in Unit
  BY <1>1, <1>2 DEF Write, Unit
<1> HIDE DEF unit
<1>4. \A t \in Sessions \ {fd1} : Seen(t)' = Seen(t)
  <2>1. \A t \in Sessions \ {fd1} : /\ output'[t] = output[t] /\ mainq'[t] = mainq[t]
                                    /\ outpipe'[t] = outpipe[t]
    BY <1>1, <1>2, <1>3
  <2> QED
    BY <1>2, <2>1, OthersOn
<1>5. \A t \in Sessions : t = fd1 => Seen(t)' = Append(Seen(t), unit)
  <2> SUFFICES ASSUME NEW t \in Sessions, t = fd1 PROVE Seen(t)' = Append(Seen(t), unit)
    OBVIOUS
  <2>1. Seen(t)' = Joined(output[t], Content(mainq[t]), Append(outpipe[t], unit))
    BY <1>1, <1>2, <1>3 DEF Seen
  <2>2. Content(mainq[t]) \in Seq(Unit)
    BY <1>2, ContentType
  <2>3. Joined(output[t], Content(mainq[t]), Append(outpipe[t], unit)) = Append(Seen(t), unit)
    <3> DEFINE out == output[t]
               taken == Content(mainq[t])
               pipe == outpipe[t]
    <3>1. out \in Seq(Unit) /\ taken \in Seq(Unit) /\ pipe \in Seq(Unit) /\ unit \in Unit
      BY <1>2, <1>3, <2>2
    <3>2. Seen(t) = Joined(out, taken, pipe)
      BY DEF Seen
    <3> HIDE DEF out, taken, pipe
    <3>3. Joined(out, taken, Append(pipe, unit)) = Append(Joined(out, taken, pipe), unit)
      BY <3>1, JoinedWritten
    <3> QED
      BY <3>2, <3>3 DEF out, taken, pipe
  <2> QED
    BY <2>1, <2>3
<1>6. \A t \in Sessions : Seen(t) \in Seq(Unit)
  BY SeenType DEF SInv
<1> DEFINE view2 == Views'
<1>7. \A t \in OpenOnes : view2[t] = IF t = fd1 THEN Append(Views[t], unit) ELSE Views[t]
  BY <1>4, <1>5 DEF Views, OpenOnes
<1>8. \A t \in OpenOnes : Views[t] \in Seq(Unit)
  BY <1>6 DEF Views, OpenOnes
<1> HIDE DEF view2
<1>9. Held(Views, OpenOnes, Users, fd1, written) /\ OpenOnes \in SUBSET Sessions
  BY DEF SInv, HInv, OpenOnes
<1>10. Held(view2, OpenOnes, Users, fd1, [written EXCEPT ![s] = @ + 1])
  BY <1>2, <1>7, <1>8, <1>9, HeldWrite DEF unit
<1>11. OpenOnes' = OpenOnes /\ Users' = Users
  BY <1>1, <1>2 DEF OpenOnes, Open, Users, Redirects
<1> QED
  BY <1>1, <1>3, <1>10, <1>11 DEF HInv, view2

\* Tasks come and go on the main actor; a poll shows nothing.
LEMMA STasks ==
  ASSUME SInv, NEW s \in Sessions,
         Timer(s) \/ CheckExit(s) \/ AppendGuest(s) \/ ReadEvent(s)
  PROVE  HInv'
<1>0. /\ outpipe \in [Sessions -> Seq(Unit)] /\ mainq \in [Sessions -> Seq(Task)]
      /\ output \in [Sessions -> Seq(Unit)]
      /\ status \in [Sessions -> {"new", "failed", "running", "exited", "closed"}]
  BY DEF SInv, IInv, Typed, TypedPipes, TypedApp
<1>1. UNCHANGED wine
  BY DEF Timer, CheckExit, AppendGuest, ReadEvent
<1>2. \A t \in Sessions : status'[t] # "closed" => status[t] # "closed"
  BY <1>0 DEF Timer, CheckExit, AppendGuest, ReadEvent
<1>3. \A t \in Sessions \ {s} : /\ output'[t] = output[t] /\ mainq'[t] = mainq[t]
                                /\ outpipe'[t] = outpipe[t]
  <2>1. CASE Timer(s) \/ CheckExit(s)
    BY <1>0, <2>1 DEF Timer, CheckExit
  <2>2. CASE AppendGuest(s)
    BY <1>0, <2>2 DEF AppendGuest
  <2>3. CASE ReadEvent(s)
    BY <1>0, <2>3 DEF ReadEvent, Later
  <2> QED
    BY <2>1, <2>2, <2>3
<1>4. \A t \in Sessions \ {s} : Seen(t)' = Seen(t)
  BY <1>3, OthersOn
<1>5. ASSUME status'[s] # "closed" PROVE Seen(s)' = Seen(s)
  <2>1. CASE Timer(s)
    <3>1. Content(Append(mainq[s], Poll)) = Content(mainq[s])
      <4>1. Content(mainq[s]) \o Poll.units = Content(mainq[s])
        BY <1>0, ContentType, ConcatEmptySeq DEF Poll
      <4> QED
        BY <1>0, <4>1, ContentAppend DEF Task
    <3>2. mainq'[s] = Append(mainq[s], Poll) /\ UNCHANGED <<outpipe, output>>
      BY <1>0, <2>1 DEF Timer
    <3> QED
      BY <3>1, <3>2 DEF Seen
  <2>2. CASE CheckExit(s)
    <3>1. Content(Tail(mainq[s])) = Content(mainq[s])
      <4>1. mainq[s] \in Seq(Task) /\ mainq[s] # <<>> /\ Head(mainq[s]).units = <<>>
        BY <1>0, <2>2 DEF CheckExit, Poll
      <4>2. Content(mainq[s]) = <<>> \o Content(Tail(mainq[s])) /\ Content(Tail(mainq[s])) \in Seq(Unit)
        BY <4>1, ContentTail
      <4> QED
        BY <4>2, ConcatEmptySeq
    <3>2. mainq'[s] = Tail(mainq[s]) /\ UNCHANGED <<outpipe, output>>
      BY <1>0, <2>2 DEF CheckExit
    <3> QED
      BY <3>1, <3>2 DEF Seen
  <2>3. CASE AppendGuest(s)
    <3> DEFINE units == Head(mainq[s]).units
               rest == Content(Tail(mainq[s]))
    <3>1. mainq[s] \in Seq(Task) /\ mainq[s] # <<>>
      BY <1>0, <2>3 DEF AppendGuest
    <3>2. rest \in Seq(Unit) /\ units \in Seq(Unit) /\ Content(mainq[s]) = units \o rest
      BY <3>1, ContentTail
    <3>3. /\ mainq'[s] = Tail(mainq[s]) /\ output'[s] = output[s] \o units /\ UNCHANGED outpipe
      BY <1>0, <2>3 DEF AppendGuest
    <3>4. Joined(output[s] \o units, rest, outpipe[s]) = Joined(output[s], units \o rest, outpipe[s])
      BY <1>0, <3>2, JoinedShown
    <3> QED
      BY <3>2, <3>3, <3>4 DEF Seen
  <2>4. CASE ReadEvent(s)
    <3>1. PICK n \in 1..Len(outpipe[s]) :
            /\ outpipe' = [outpipe EXCEPT ![s] = SubSeq(@, n + 1, Len(@))]
            /\ Later(s, Chunk(SubSeq(outpipe[s], 1, n)))
      BY <2>4 DEF ReadEvent
    <3> DEFINE chunk == SubSeq(outpipe[s], 1, n)
               left == SubSeq(outpipe[s], n + 1, Len(outpipe[s]))
    <3>2. chunk \in Seq(Unit) /\ left \in Seq(Unit) /\ chunk \o left = outpipe[s]
      BY <1>0, Split
    <3>3. /\ mainq'[s] = Append(mainq[s], Chunk(chunk)) /\ outpipe'[s] = left
          /\ output'[s] = output[s]
      <4>1. status[s] # "closed"
        BY <1>2, <1>5
      <4> QED
        BY <1>0, <2>4, <3>1, <4>1 DEF ReadEvent, Later
    <3> HIDE DEF chunk, left
    <3>4. Chunk(chunk) \in Task /\ Chunk(chunk).units = chunk
      BY <3>2 DEF Chunk, Task
    <3>5. /\ Content(mainq[s]) \in Seq(Unit)
          /\ Content(Append(mainq[s], Chunk(chunk))) = Content(mainq[s]) \o chunk
      BY <1>0, <3>4, ContentAppend
    <3>6. Joined(output[s], Content(mainq[s]) \o chunk, left)
            = Joined(output[s], Content(mainq[s]), chunk \o left)
      <4>1. /\ output[s] \in Seq(Unit) /\ Content(mainq[s]) \in Seq(Unit)
            /\ chunk \in Seq(Unit) /\ left \in Seq(Unit)
        BY <1>0, <3>2, <3>5
      <4> QED
        BY <4>1, JoinedRead
    <3> QED
      BY <3>2, <3>3, <3>5, <3>6 DEF Seen
  <2> QED
    BY <2>1, <2>2, <2>3, <2>4
<1> QED
  BY <1>1, <1>2, <1>4, <1>5, SeenOn DEF wine

LEMMA SStep == SInv /\ [Next]_vars => SInv'
<1> SUFFICES ASSUME SInv, [Next]_vars PROVE SInv'
  OBVIOUS
<1>1. IInv'
  BY IStep DEF SInv
<1>2. HInv'
  <2>1. CASE UNCHANGED vars
    <3>1. UNCHANGED <<thread, fd1, written, outpipe, mainq, output, status>>
      BY <2>1 DEF vars, wine, app
    <3>2. \A t \in Sessions : Seen(t)' = Seen(t)
      BY <3>1 DEF Seen
    <3> QED
      BY <3>1, <3>2, SeenOn
  <2>2. ASSUME NEW s \in Sessions, Client(s) PROVE HInv'
    BY <2>2, SQuiet, SClose DEF Client
  <2>3. ASSUME NEW s \in Sessions, Host(s) \/ Guest(s) PROVE HInv'
    BY <2>3, SQuiet, SRouteOut, SWrite DEF Host, Guest
  <2>4. ASSUME NEW s \in Sessions, ReadQueue(s) \/ ReadEvent(s) \/ MainActor(s) \/ Timer(s)
        PROVE  HInv'
    BY <2>4, SQuiet, STasks DEF MainActor
  <2> QED
    BY <2>1, <2>2, <2>3, <2>4 DEF Next
<1> QED
  BY <1>1, <1>2 DEF SInv

LEMMA InvariantViews == Spec => []SInv
BY SInit, SStep, PTL DEF Spec

\* The stream of the properties is what has been seen.
LEMMA StreamIsSeen ==
  ASSUME IInv, NEW s \in Sessions
  PROVE  Stream(s) = Seen(s)
<1>1. output[s] \in Seq(Unit) /\ outpipe[s] \in Seq(Unit) /\ mainq[s] \in Seq(Task)
  BY DEF IInv, Typed, TypedPipes, TypedApp
<1>2. Taken(s) = Content(mainq[s])
  BY DEF Taken, Content, Units
<1> DEFINE out == output[s]
           taken == Content(mainq[s])
           pipe == outpipe[s]
<1>3. out \in Seq(Unit) /\ taken \in Seq(Unit) /\ pipe \in Seq(Unit)
  BY <1>1, ContentType
<1>4. Seen(s) = Joined(out, taken, pipe) /\ Stream(s) = out \o taken \o pipe
  BY <1>2 DEF Seen, Stream
<1> HIDE DEF out, taken, pipe
<1>5. Joined(out, taken, pipe) = out \o taken \o pipe
  BY <1>3, JoinedIs
<1> QED
  BY <1>4, <1>5

LEMMA SentIsIn ==
  ASSUME IInv, NEW s \in Sessions
  PROVE  \A w, n : Sent(s, w, n) <=> In(Views[s], w, n)
BY StreamIsSeen DEF Sent, In, Views

(* For any sessions, starts at any time and any number of writes: nothing  *)
(* that guests write is lost or shown twice.  Each piece is in what one    *)
(* open view shows or will read, or went to a view that has closed; a view *)
(* whose pipe the handles are has all that its own guest has written.      *)
THEOREM AccountedForAlways == Spec => []AccountedFor
<1>1. ASSUME SInv PROVE AccountedFor
  <2>0. /\ IInv /\ Held(Views, OpenOnes, Users, fd1, written)
        /\ written \in [Sessions -> Nat]
        /\ \A s \in Sessions : (s \in OpenOnes <=> Open(s)) /\ (s \in Users <=> Redirects(s))
    BY <1>1 DEF SInv, HInv, IInv, Typed, TypedWine, OpenOnes, Users
  <2>1. \A s \in Sessions : \A w, n : Sent(s, w, n) <=> In(Views[s], w, n)
    BY <2>0, SentIsIn
  <2> SUFFICES ASSUME NEW w \in Sessions, NEW n \in 1..written[w]
               PROVE  /\ \E s \in Sessions : IF Open(s) THEN Sent(s, w, n) ELSE Redirects(s)
                      /\ \A s, t \in Sessions :
                           Open(s) /\ Open(t) /\ Sent(s, w, n) /\ Sent(t, w, n) => s = t
                      /\ fd1 = w /\ Open(w) => Sent(w, w, n)
    BY DEF AccountedFor
  <2>2. n \in Nat /\ 1 <= n /\ n <= written[w]
    BY <2>0
  <2>3. \E s \in Sessions : IF Open(s) THEN Sent(s, w, n) ELSE Redirects(s)
    <3>1. PICK s \in Sessions : IF s \in OpenOnes THEN In(Views[s], w, n) ELSE s \in Users
      BY <2>0, <2>2 DEF Held, Placed
    <3> QED
      BY <2>0, <2>1, <3>1
  <2>4. \A s, t \in Sessions : Open(s) /\ Open(t) /\ Sent(s, w, n) /\ Sent(t, w, n) => s = t
    <3>1. \A s, t \in OpenOnes : In(Views[s], w, n) /\ In(Views[t], w, n) => s = t
      BY <2>0, <2>2 DEF Held, Placed
    <3> QED
      BY <2>0, <2>1, <3>1
  <2>5. fd1 = w /\ Open(w) => Sent(w, w, n)
    <3>1. fd1 = w /\ w \in OpenOnes => In(Views[w], w, n)
      BY <2>0, <2>2 DEF Held, OwnFirst
    <3> QED
      BY <2>0, <2>1, <3>1
  <2> QED
    BY <2>3, <2>4, <2>5
<1> QED
  BY <1>1, InvariantViews, PTL

(* Whatever sessions take the handles from each other: an open view has of *)
(* each guest one unbroken stretch of what it wrote, in order, and of its  *)
(* own guest the beginning.                                                *)
THEOREM OneStretchAlways == Spec => []OneStretch
<1>1. ASSUME SInv PROVE OneStretch
  <2>0. /\ IInv /\ Held(Views, OpenOnes, Users, fd1, written)
        /\ \A s \in Sessions : s \in OpenOnes <=> Open(s)
    BY <1>1 DEF SInv, HInv, OpenOnes
  <2> SUFFICES ASSUME NEW s \in Sessions, Open(s), NEW i \in DOMAIN Stream(s)
               PROVE  LET u == Stream(s)[i] IN
                      /\ \A j \in DOMAIN Stream(s) :
                           j < i /\ Stream(s)[j].from = u.from =>
                             /\ Stream(s)[j].no < u.no
                             /\ \A n \in Stream(s)[j].no..u.no : Sent(s, u.from, n)
                      /\ u.from = s => \A n \in 1..u.no : Sent(s, s, n)
    BY DEF OneStretch
  <2>1. \A w, n : Sent(s, w, n) <=> In(Views[s], w, n)
    BY <2>0, SentIsIn
  <2>2. /\ Stream(s) = Views[s] /\ s \in OpenOnes
        /\ \A k \in DOMAIN Stream(s) :
             /\ Stream(s)[k].from \in Sessions /\ Stream(s)[k].no \in Nat
             /\ Sent(s, Stream(s)[k].from, Stream(s)[k].no)
    <3>1. Stream(s) = Seen(s) /\ Seen(s) \in Seq(Unit)
      BY <2>0, StreamIsSeen, SeenType
    <3>2. \A k \in DOMAIN Stream(s) : Stream(s)[k] \in Unit
      BY <3>1, LenProperties, ElementOfSeq
    <3>3. \A u \in Unit : u.from \in Sessions /\ u.no \in Nat /\ u = [from |-> u.from, no |-> u.no]
      BY DEF Unit
    <3>4. \A k \in DOMAIN Stream(s) : Sent(s, Stream(s)[k].from, Stream(s)[k].no)
      BY <3>2, <3>3 DEF Sent
    <3> QED
      BY <2>0, <3>1, <3>2, <3>3, <3>4 DEF Views
  <2> DEFINE q == Stream(s)
  <2>3. q[i].from = s => \A n \in 1..q[i].no : Sent(s, s, n)
    <3>1. \A n, k \in Nat : In(Views[s], s, n) /\ 1 <= k /\ k <= n => In(Views[s], s, k)
      BY <2>0, <2>2 DEF Held, OwnFirst
    <3> QED
      BY <2>1, <2>2, <3>1
  <2>4. ASSUME NEW j \in DOMAIN q, j < i, q[j].from = q[i].from
        PROVE  q[j].no < q[i].no /\ \A n \in q[j].no..q[i].no : Sent(s, q[i].from, n)
    <3>1. q[j].no < q[i].no
      BY <2>0, <2>2, <2>4 DEF Held, Ordered, Sorted
    <3>2. \A w \in Sessions : \A a, b, c \in Nat :
            In(Views[s], w, a) /\ In(Views[s], w, c) /\ a <= b /\ b <= c => In(Views[s], w, b)
      BY <2>0, <2>2 DEF Held, Unbroken
    <3>3. ASSUME NEW n \in q[j].no..q[i].no PROVE Sent(s, q[i].from, n)
      <4>1. /\ q[i].from \in Sessions /\ q[j].no \in Nat /\ q[i].no \in Nat
            /\ Sent(s, q[i].from, q[j].no) /\ Sent(s, q[i].from, q[i].no)
        BY <2>2, <2>4
      <4>2. n \in Nat /\ q[j].no <= n /\ n <= q[i].no
        BY <4>1
      <4> HIDE DEF q
      <4> QED
        BY <2>1, <3>2, <4>1, <4>2
    <3> QED
      BY <3>1, <3>3
  <2> QED
    BY <2>3, <2>4
<1> QED
  BY <1>1, InvariantViews, PTL
=============================================================================
