--------------------------- MODULE DCache_proofs ---------------------------
(***************************************************************************)
(* Proofs about the cache simulator, for any cache, any threads and any    *)
(* accesses.                                                               *)
(*                                                                         *)
(* The argument: as long as no two routines overlap, the routine that runs *)
(* has the simulator to itself (Alone); so what it read of its set before  *)
(* it replaces a way still holds when it does (Missed), and the round      *)
(* robin is a queue (RoundRobin).  The counts hold however routines        *)
(* overlap, as long as none overlaps a reset (CountInv): what was counted  *)
(* is at least what is stored, and with what is pending it is what was     *)
(* accessed.                                                               *)
(***************************************************************************)
EXTENDS DCache, SequenceTheorems, FiniteSetTheorems, TLAPS

SetIndex == 0 .. NumSets - 1
InAccess == {"find", "pick", "replace"}
Places   == InAccess \cup {"app", "count", "bump", "profile", "add", "read",
                           "new", "ended"}
Counts   == [BOOLEAN -> Nat]
Frames   == [type : Types, obj : Objects \cup {None}, todo : Seq(Nat),
             all : BOOLEAN, index : Way, old : Nat]

\* Every variable has its type.
TypeOK ==
    /\ dl1 \in Objects
    /\ sets \in [Objects -> [SetIndex -> Sets]]
    /\ queue \in [Objects -> [SetIndex -> [1 .. Ways -> Nat]]]
    /\ access \in [Objects -> [Types -> Counts]]
    /\ profile \in Counts
    /\ counted \in [Objects -> Nat]
    /\ pc \in [Threads -> Places]
    /\ frame \in [Threads -> Frames]
    /\ {tracking, deleted, collided, disturbed, broken} \subseteq BOOLEAN
    /\ stale \subseteq Threads

\* A routine has an object, and a line to visit until it counts.
Working(t) ==
    /\ InRoutine(t) => frame[t].obj \in Objects
    /\ pc[t] \in InAccess => frame[t].todo # <<>>

\* The pointer dangles while the cache is being replaced, and a routine has
\* got hold of a deleted cache only if it and a reset overlapped.
Deleted ==
    /\ deleted <=> pc[Main] = "new"
    /\ stale # {} => disturbed

\* One routine at a time, and none during reset.
Alone == \A t, u \in Threads : InRoutine(t) /\ InRoutine(u) => t = u
Calm  == pc[Main] = "new" => \A t \in Threads : ~InRoutine(t)

\* What the routine found of its set is still so.
Missed(t) ==
    /\ pc[t] \in {"pick", "replace"} => ~Find(Set(t), Tag(t))
    /\ pc[t] = "replace" => frame[t].index = Set(t).next

Shape == TypeOK /\ (\A t \in Threads : Working(t)) /\ Deleted
Own ==
    /\ ~collided => Alone
    /\ ~disturbed => Calm
    /\ ~raced => \A t \in Threads : Missed(t)

IndInv ==
    /\ Shape
    /\ Own
    /\ DeletedOnlyByARace
    /\ HoldsTheLastMisses

(***************************************************************************)
(* The round robin.                                                        *)
(***************************************************************************)

\* WayOfAge gives each age its own way, and each way an age.
LEMMA AgeOfWay ==
    ASSUME NEW set \in Sets
    PROVE  /\ \A k \in 1 .. Ways : WayOfAge(set, k) \in Way
           /\ \A w \in Way : \E k \in 1 .. Ways : WayOfAge(set, k) = w
<1> USE WaysAssumption
<1>1. set.next \in Way BY DEF Sets
<1>2. ASSUME NEW k \in 1 .. Ways PROVE WayOfAge(set, k) \in Way
  BY <1>1, <1>2 DEF WayOfAge, Way
<1>3. ASSUME NEW w \in Way PROVE \E k \in 1 .. Ways : WayOfAge(set, k) = w
  <2> DEFINE k == IF w <= set.next THEN set.next - w + 1
                                   ELSE set.next + Ways - w + 1
  <2>1. k \in 1 .. Ways BY <1>1, <1>3 DEF Way
  <2>2. WayOfAge(set, k) = w BY <1>1, <1>3 DEF WayOfAge, Way
  <2> HIDE DEF k
  <2> QED BY <2>1, <2>2
<1> QED BY <1>2, <1>3

\* A set holds a line when its queue does.
LEMMA FindIsHolds ==
    ASSUME NEW set \in Sets, NEW tag
    PROVE  /\ ByAge(set) \in [1 .. Ways -> Nat]
           /\ Find(set, tag) <=> Fifo!Holds(ByAge(set), tag)
<1>1. set.tags \in [Way -> Nat] BY DEF Sets
<1>2. ByAge(set) \in [1 .. Ways -> Nat] BY <1>1, AgeOfWay DEF ByAge
<1>3. Find(set, tag) <=> Fifo!Holds(ByAge(set), tag)
  BY AgeOfWay DEF Find, Fifo!Holds, ByAge
<1> QED BY <1>2, <1>3

\* Replacing the way of the index is inserting into the queue.
LEMMA RoundRobin ==
    ASSUME NEW set \in Sets, NEW tag \in Nat
    PROVE  /\ Replace(set, tag) \in Sets
           /\ ByAge(Replace(set, tag)) = Fifo!Insert(ByAge(set), tag)
<1> USE WaysAssumption
<1> DEFINE new == Replace(set, tag)
           old == ByAge(set)
<1>1. set.next \in Way /\ set.tags \in [Way -> Nat] BY DEF Sets
<1>2. /\ new.next = NextIndex(set.next)
      /\ new.tags = [set.tags EXCEPT ![set.next] = tag]
  BY DEF Replace, ReplaceIn
<1>3. NextIndex(set.next) \in Way BY <1>1 DEF NextIndex, Way
<1>4. new \in Sets BY <1>1, <1>3 DEF Replace, ReplaceIn, Sets
<1> HIDE DEF new
<1>5. /\ old \in Seq(Nat) /\ Len(old) = Ways
      /\ \A k \in 1 .. Ways : old[k] = set.tags[WayOfAge(set, k)]
  <2>1. old \in [1 .. Ways -> Nat] BY FindIsHolds
  <2> QED BY <2>1 DEF ByAge
<1>6. ASSUME NEW k \in 1 .. Ways - 1
      PROVE  ByAge(new)[k] = old[k + 1]
  <2>1. WayOfAge(new, k) = WayOfAge(set, k + 1)
    <3>1. PICK n \in Way : n = set.next BY <1>1
    <3>2. WayOfAge(set, k + 1) = IF k <= n THEN n - k ELSE n + Ways - k
      BY <3>1 DEF WayOfAge, Way
    <3>3. CASE n = 0
      <4>1. new.next = Ways - 1 BY <1>2, <3>1, <3>3 DEF NextIndex
      <4> QED BY <3>2, <3>3, <4>1 DEF WayOfAge
    <3>4. CASE n # 0
      <4>1. new.next = n - 1 BY <1>2, <3>1, <3>4 DEF NextIndex
      <4> QED BY <3>1, <3>2, <3>4, <4>1 DEF WayOfAge, Way
    <3> QED BY <3>3, <3>4
  <2>2. WayOfAge(set, k + 1) # set.next BY <1>1 DEF WayOfAge, Way
  <2>3. WayOfAge(set, k + 1) \in Way BY AgeOfWay
  <2>4. new.tags[WayOfAge(new, k)] = set.tags[WayOfAge(set, k + 1)]
    BY <1>1, <1>2, <2>1, <2>2, <2>3
  <2> QED BY <1>5, <2>4 DEF ByAge
<1>7. ByAge(new)[Ways] = tag
  <2>1. WayOfAge(new, Ways) = set.next
    BY <1>1, <1>2 DEF WayOfAge, NextIndex, Way
  <2>2. new.tags[WayOfAge(new, Ways)] = tag BY <1>1, <1>2, <2>1
  <2> QED BY <2>2 DEF ByAge
<1>8. ByAge(new) \in Seq(Nat) /\ Len(ByAge(new)) = Ways
  <2>1. ByAge(new) \in [1 .. Ways -> Nat] BY <1>4, FindIsHolds
  <2> QED BY <2>1 DEF ByAge
<1> DEFINE ins == Fifo!Insert(old, tag)
<1> HIDE DEF old
<1>9. /\ ins \in Seq(Nat) /\ Len(ins) = Ways
      /\ \A k \in 1 .. Ways - 1 : ins[k] = old[k + 1]
      /\ ins[Ways] = tag
  BY <1>5 DEF Fifo!Insert
<1>10. ASSUME NEW k \in 1 .. Ways PROVE ByAge(new)[k] = ins[k]
  BY <1>6, <1>7, <1>9
<1>11. ByAge(new) = ins
  BY <1>8, <1>9, <1>10
<1> QED BY <1>4, <1>11 DEF new, old

\* A cold set is a queue of zeros.
LEMMA ColdIsEmpty == Cold \in Sets /\ ByAge(Cold) = [k \in 1 .. Ways |-> 0]
<1>1. Cold \in Sets BY WaysAssumption DEF Cold, Sets, Way
<1> QED BY <1>1, AgeOfWay DEF Cold, ByAge

\* The set of a line is one of the cache's.
LEMMA IndexInRange == \A tag \in Nat : IndexOf(tag) \in SetIndex
BY CacheAssumption DEF IndexOf, SetIndex

\* What the constructor leaves has its type, and holds what its queues hold.
LEMMA NewIsTyped ==
    /\ ColdSets \in [SetIndex -> Sets] /\ Zero \in [Types -> Counts]
    /\ EmptyQueues \in [SetIndex -> [1 .. Ways -> Nat]]
    /\ \A i \in SetIndex : ByAge(ColdSets[i]) = EmptyQueues[i]
<1>1. Cold \in Sets /\ ByAge(Cold) = [k \in 1 .. Ways |-> 0] BY ColdIsEmpty
<1>2. Zero \in [Types -> Counts] BY DEF Zero, Counts
<1> QED BY <1>1, <1>2 DEF ColdSets, EmptyQueues, SetIndex

(***************************************************************************)
(* Types, lines left and deleted objects.                                  *)
(***************************************************************************)
\* What the structure says of one thread.
LEMMA ShapeOf ==
    ASSUME Shape, NEW t \in Threads
    PROVE  /\ frame[t] \in Frames /\ pc[t] \in Places
           /\ InRoutine(t) => frame[t].obj \in Objects
           /\ pc[t] \in InAccess =>
                /\ InRoutine(t)
                /\ frame[t].todo \in Seq(Nat) /\ frame[t].todo # <<>>
                /\ Tag(t) \in Nat
                /\ IndexOf(Tag(t)) \in SetIndex
                /\ Set(t) \in Sets
<1>1. /\ frame[t] \in Frames /\ pc[t] \in Places
      /\ InRoutine(t) => frame[t].obj \in Objects
      /\ pc[t] \in InAccess => frame[t].todo # <<>>
  BY DEF Shape, TypeOK, Working
<1>2. pc[t] \in InAccess => InRoutine(t) BY DEF InAccess, InRoutine
<1>3. frame[t].todo \in Seq(Nat) BY <1>1 DEF Frames
<1>4. pc[t] \in InAccess => Tag(t) \in Nat
  BY <1>1, <1>3 DEF Tag
<1>5. pc[t] \in InAccess => IndexOf(Tag(t)) \in SetIndex
  BY <1>4, IndexInRange
<1>6. sets \in [Objects -> [SetIndex -> Sets]] BY DEF Shape, TypeOK
<1>7. pc[t] \in InAccess => Set(t) \in Sets
  BY <1>1, <1>2, <1>5, <1>6 DEF Set
<1> QED BY <1>1, <1>2, <1>3, <1>4, <1>5, <1>7

\* A step that only moves one thread, to a place that is not one of main's,
\* keeps the structure if its new frame does.
LEMMA ShapeKept ==
    ASSUME Shape, NEW t \in Threads, NEW f \in Frames, NEW p \in Places,
           pc[t] # "new", p # "new",
           pc' = [pc EXCEPT ![t] = p], frame' = [frame EXCEPT ![t] = f],
           p \in InAccess \cup {"count", "bump", "profile", "add"} =>
             f.obj \in Objects,
           p \in InAccess => f.todo # <<>>,
           sets' \in [Objects -> [SetIndex -> Sets]],
           queue' \in [Objects -> [SetIndex -> [1 .. Ways -> Nat]]],
           access' \in [Objects -> [Types -> Counts]],
           profile' \in Counts, counted' \in [Objects -> Nat],
           {tracking', collided', disturbed', broken'} \subseteq BOOLEAN,
           stale' \subseteq Threads, stale' # {} => disturbed',
           UNCHANGED <<dl1, deleted>>
    PROVE  Shape'
<1>1. TypeOK' BY DEF Shape, TypeOK
<1>2. ASSUME NEW u \in Threads PROVE Working(u)'
  <2>1. Working(u) BY DEF Shape
  <2>2. pc \in [Threads -> Places] /\ frame \in [Threads -> Frames]
    BY DEF Shape, TypeOK
  <2>3. CASE u = t
    <3>1. pc'[u] = p /\ frame'[u] = f BY <2>2, <2>3
    <3> QED BY <3>1 DEF Working, InRoutine, InAccess
  <2>4. CASE u # t
    <3>1. pc'[u] = pc[u] /\ frame'[u] = frame[u] BY <2>2, <2>4
    <3> QED BY <2>1, <3>1 DEF Working, InRoutine
  <2> QED BY <2>3, <2>4
<1>3. Deleted'
  <2>1. (pc'[Main] = "new") <=> (pc[Main] = "new")
    BY MainAssumption DEF Shape, TypeOK
  <2> QED BY <2>1 DEF Shape, Deleted
<1> QED BY <1>1, <1>2, <1>3 DEF Shape

\* The frame of a thread outside any routine.
LEMMA NoFrameTyped == NoFrame \in Frames
<1>1. 0 \in Way BY WaysAssumption DEF Way
<1>2. <<>> \in Seq(Nat) OBVIOUS
<1> QED BY <1>1, <1>2 DEF NoFrame, Frames, None, Types

\* The frame of a routine that begins.
LEMMA NewFrame ==
    ASSUME NEW a \in Accesses, NEW o \in Objects
    PROVE  LET f == [NoFrame EXCEPT !.type = a.type, !.obj = o, !.todo = Lines(a)]
           IN  f \in Frames /\ f.obj = o /\ f.todo # <<>>
<1> DEFINE f == [NoFrame EXCEPT !.type = a.type, !.obj = o, !.todo = Lines(a)]
<1>1. a.type \in Types /\ Lines(a) \in Seq(Nat) /\ Lines(a) # <<>>
  BY AccessAssumption
<1>2. f \in Frames /\ f.obj = o /\ f.todo = Lines(a)
  BY <1>1, NoFrameTyped DEF Frames
<1> QED BY <1>1, <1>2

\* Each step keeps the structure: the beginning of an access,
LEMMA BeginShape ==
    ASSUME Shape, NEW t \in Threads, NEW a \in Accesses, Begin(t, a)
    PROVE  Shape'
<1> DEFINE f == [NoFrame EXCEPT !.type = a.type, !.obj = dl1, !.todo = Lines(a)]
<1>1. dl1 \in Objects BY DEF Shape, TypeOK
<1>2. f \in Frames /\ f.obj = dl1 /\ f.todo # <<>> BY <1>1, NewFrame, Zenon
<1>3. /\ pc[t] = "app" /\ pc' = [pc EXCEPT ![t] = "find"]
      /\ frame' = [frame EXCEPT ![t] = f]
      /\ UNCHANGED <<tracking, sets, queue, access, profile, dl1, deleted, broken>>
  BY DEF Begin, Go, cacheVars, outVars
<1> HIDE DEF f
<1>4. counted' \in [Objects -> Nat] BY DEF Begin, Shape, TypeOK
<1>5. collided' \in BOOLEAN /\ disturbed' \in BOOLEAN
  BY DEF Begin, Shape, TypeOK
<1>6. stale' \subseteq Threads /\ (stale' # {} => disturbed')
  <2>1. /\ stale' = IF deleted THEN stale \cup {t} ELSE stale \ {t}
        /\ disturbed' = (disturbed \/ pc[Main] = "new")
    BY DEF Begin
  <2>2. stale \subseteq Threads /\ Deleted BY DEF Shape, TypeOK
  <2>3. deleted => disturbed' BY <2>1, <2>2 DEF Deleted
  <2>4. stale # {} => disturbed' BY <2>1, <2>2 DEF Deleted
  <2> QED BY <2>1, <2>2, <2>3, <2>4
<1> QED BY <1>1, <1>2, <1>3, <1>4, <1>5, <1>6, ShapeKept
        DEF Shape, TypeOK, Deleted, Places, InAccess

\* A list of lines that is not at its last has a rest.
LEMMA RestLeft ==
    ASSUME NEW s \in Seq(Nat), s # <<>>, Len(s) # 1 PROVE Tail(s) # <<>>
<1>1. Len(s) # 0 BY EmptySeq
<1>2. Len(s) \in Nat /\ Len(Tail(s)) = Len(s) - 1 OBVIOUS
<1>3. Len(Tail(s)) # 0 BY <1>1, <1>2
<1> QED BY <1>3, EmptySeq, Zenon

\* The frame and the place after a line.
LEMMA AfterLine ==
    ASSUME Shape, NEW t \in Threads, NEW hit \in BOOLEAN, pc[t] \in InAccess,
           NextLine(t, hit)
    PROVE  \E f \in Frames, p \in {"find", "count"} :
             /\ frame' = [frame EXCEPT ![t] = f]
             /\ pc' = [pc EXCEPT ![t] = p]
             /\ f.obj = frame[t].obj
             /\ p = "find" => f.todo # <<>>
<1> DEFINE old == frame[t]
           f == [old EXCEPT !.todo = Tail(@), !.all = @ /\ hit]
           p == IF Len(old.todo) = 1 THEN "count" ELSE "find"
<1>1. old \in Frames /\ old.todo \in Seq(Nat) /\ old.todo # <<>> BY ShapeOf
<1>2. Tail(old.todo) \in Seq(Nat) BY <1>1
<1>3. old.all \in BOOLEAN BY <1>1 DEF Frames
<1>4. f \in Frames BY <1>1, <1>2, <1>3 DEF Frames
<1>5. f.obj = old.obj /\ f.todo = Tail(old.todo) BY <1>1 DEF Frames
<1>6. p = "find" => Tail(old.todo) # <<>> BY <1>1, RestLeft
<1>7. frame' = [frame EXCEPT ![t] = f] /\ pc' = [pc EXCEPT ![t] = p]
  BY DEF NextLine, Go, Shape, TypeOK
<1>8. p \in {"find", "count"} OBVIOUS
<1> HIDE DEF f, p
<1> QED BY <1>4, <1>5, <1>6, <1>7, <1>8

\* the search of a set,
LEMMA FindShape ==
    ASSUME Shape, NEW t \in Threads, Hit(t) \/ Miss(t) \/ PickWay(t)
    PROVE  Shape'
<1>1. /\ pc[t] \in InAccess /\ broken' \in BOOLEAN
      /\ UNCHANGED <<tracking, sets, queue, access, profile, counted, dl1,
                     deleted, collided, disturbed, stale>>
  BY DEF Hit, Miss, PickWay, Touch, InAccess, cacheVars, outVars, historyVars,
         Shape, TypeOK
<1>2. /\ frame[t] \in Frames /\ frame[t].obj \in Objects
      /\ frame[t].todo # <<>> /\ Set(t) \in Sets
  BY <1>1, ShapeOf
<1>3. CASE Hit(t)
  <2>1. PICK f \in Frames, p \in {"find", "count"} :
             /\ frame' = [frame EXCEPT ![t] = f]
             /\ pc' = [pc EXCEPT ![t] = p]
             /\ f.obj = frame[t].obj
             /\ p = "find" => f.todo # <<>>
    BY <1>1, <1>3, AfterLine DEF Hit
  <2> QED BY <1>1, <1>2, <2>1, ShapeKept DEF Shape, TypeOK, Deleted, Places, InAccess
<1>4. CASE Miss(t)
  <2>1. pc' = [pc EXCEPT ![t] = "pick"] /\ frame' = [frame EXCEPT ![t] = frame[t]]
    BY <1>4 DEF Miss, Go, Shape, TypeOK
  <2> QED BY <1>1, <1>2, <2>1, ShapeKept DEF Shape, TypeOK, Deleted, Places, InAccess
<1>5. CASE PickWay(t)
  <2> DEFINE f == [frame[t] EXCEPT !.index = Set(t).next]
  <2>1. /\ pc' = [pc EXCEPT ![t] = "replace"]
        /\ frame' = [frame EXCEPT ![t] = f]
    BY <1>5 DEF PickWay, Go, Shape, TypeOK
  <2>2. Set(t).next \in Way BY <1>2 DEF Sets
  <2>3. f \in Frames /\ f.obj = frame[t].obj /\ f.todo = frame[t].todo
    BY <1>2, <2>2 DEF Frames
  <2> HIDE DEF f
  <2> QED BY <1>1, <1>2, <2>1, <2>3, ShapeKept
          DEF Shape, TypeOK, Deleted, Places, InAccess
<1> QED BY <1>3, <1>4, <1>5
\* A queue stays as long as it is.
LEMMA QueueKept ==
    ASSUME NEW q \in [1 .. Ways -> Nat], NEW tag \in Nat
    PROVE  Fifo!Insert(q, tag) \in [1 .. Ways -> Nat]
<1>1. Ways \in Nat /\ Ways >= 1 BY WaysAssumption
<1>2. q \in Seq(Nat) BY <1>1
<1>3. Len(q) = Ways BY <1>1, <1>2
<1>4. /\ Fifo!Insert(q, tag) \in Seq(Nat)
      /\ Len(Fifo!Insert(q, tag)) = Ways
  BY <1>1, <1>2, <1>3 DEF Fifo!Insert
<1> QED BY <1>4

\* What a routine replaces is a set of the present line's index.
LEMMA Replaced ==
    ASSUME Shape, NEW t \in Threads, ReplaceWay(t)
    PROVE  LET o == frame[t].obj
               i == IndexOf(Tag(t))
               s == ReplaceIn(Set(t), frame[t].index, Tag(t))
               q == Fifo!After(queue[o][i], Tag(t))
           IN  /\ o \in Objects /\ i \in SetIndex /\ Tag(t) \in Nat
               /\ s \in Sets /\ q \in [1 .. Ways -> Nat]
               /\ sets' = [sets EXCEPT ![o] = [@ EXCEPT ![i] = s]]
               /\ queue' = [queue EXCEPT ![o] = [@ EXCEPT ![i] = q]]
<1> DEFINE o == frame[t].obj
           i == IndexOf(Tag(t))
           s == ReplaceIn(Set(t), frame[t].index, Tag(t))
           q == Fifo!After(queue[o][i], Tag(t))
<1>1. /\ frame[t] \in Frames /\ o \in Objects /\ i \in SetIndex
      /\ Tag(t) \in Nat /\ Set(t) \in Sets
  BY ShapeOf DEF ReplaceWay, InAccess
<1>2. frame[t].index \in Way BY <1>1 DEF Frames
<1>3. NextIndex(frame[t].index) \in Way
  BY <1>2, WaysAssumption DEF NextIndex, Way
<1>4. s \in Sets BY <1>1, <1>2, <1>3 DEF ReplaceIn, Sets
<1>5. queue[o][i] \in [1 .. Ways -> Nat] BY <1>1 DEF Shape, TypeOK
<1>6. q \in [1 .. Ways -> Nat]
  BY <1>1, <1>5, QueueKept DEF Fifo!After
<1>7. /\ sets' = [sets EXCEPT ![o] = [@ EXCEPT ![i] = s]]
      /\ queue' = [queue EXCEPT ![o] = [@ EXCEPT ![i] = q]]
  BY DEF ReplaceWay, Set
<1> HIDE DEF o, i, s, q
<1> QED BY <1>1, <1>4, <1>6, <1>7 DEF o, i, s, q

\* the replacement of a way,
LEMMA ReplaceShape ==
    ASSUME Shape, NEW t \in Threads, ReplaceWay(t)
    PROVE  Shape'
<1>1. /\ pc[t] = "replace" /\ NextLine(t, FALSE) /\ broken' \in BOOLEAN
      /\ UNCHANGED <<tracking, access, profile, counted, dl1, deleted, collided,
                     disturbed, stale>>
  BY DEF ReplaceWay, Touch, outVars, Shape, TypeOK
<1>2. PICK f \in Frames, p \in {"find", "count"} :
             /\ frame' = [frame EXCEPT ![t] = f]
             /\ pc' = [pc EXCEPT ![t] = p]
             /\ f.obj = frame[t].obj
             /\ p = "find" => f.todo # <<>>
  BY <1>1, AfterLine DEF InAccess
<1>3. frame[t].obj \in Objects BY <1>1, ShapeOf DEF InRoutine
<1>4. /\ sets' \in [Objects -> [SetIndex -> Sets]]
      /\ queue' \in [Objects -> [SetIndex -> [1 .. Ways -> Nat]]]
  <2>1. PICK o \in Objects, i \in SetIndex, s \in Sets, q \in [1 .. Ways -> Nat] :
          /\ sets' = [sets EXCEPT ![o] = [@ EXCEPT ![i] = s]]
          /\ queue' = [queue EXCEPT ![o] = [@ EXCEPT ![i] = q]]
    <3> DEFINE o == frame[t].obj
               i == IndexOf(Tag(t))
               s == ReplaceIn(Set(t), frame[t].index, Tag(t))
               q == Fifo!After(queue[o][i], Tag(t))
    <3>1. /\ o \in Objects /\ i \in SetIndex
          /\ s \in Sets /\ q \in [1 .. Ways -> Nat]
          /\ sets' = [sets EXCEPT ![o] = [@ EXCEPT ![i] = s]]
          /\ queue' = [queue EXCEPT ![o] = [@ EXCEPT ![i] = q]]
      BY Replaced
    <3> HIDE DEF o, i, s, q
    <3> QED BY <3>1
  <2>2. /\ sets \in [Objects -> [SetIndex -> Sets]]
        /\ queue \in [Objects -> [SetIndex -> [1 .. Ways -> Nat]]]
    BY DEF Shape, TypeOK
  <2> QED BY <2>1, <2>2
<1> QED BY <1>1, <1>2, <1>3, <1>4, ShapeKept
        DEF Shape, TypeOK, Deleted, Places, InAccess

\* the counts.
LEMMA CountShape ==
    ASSUME Shape, NEW t \in Threads,
           ReadCount(t) \/ WriteCount(t) \/ ReadProfile(t) \/ WriteProfile(t)
    PROVE  Shape'
<1>1. /\ InRoutine(t) /\ pc[t] # "new" /\ broken' \in BOOLEAN
      /\ UNCHANGED <<tracking, sets, queue, counted, dl1, deleted, collided,
                     disturbed, stale>>
  BY DEF ReadCount, WriteCount, ReadProfile, WriteProfile, Touch, InRoutine,
         cacheVars, historyVars, outVars, Shape, TypeOK
<1>2. frame[t] \in Frames /\ frame[t].obj \in Objects BY <1>1, ShapeOf
<1>3. /\ frame[t].type \in Types /\ frame[t].all \in BOOLEAN
      /\ frame[t].old \in Nat
  BY <1>2 DEF Frames
<1>4. /\ frame \in [Threads -> Frames]
      /\ access \in [Objects -> [Types -> Counts]] /\ profile \in Counts
      /\ pc \in [Threads -> Places]
  BY DEF Shape, TypeOK
<1>5. ASSUME NEW n \in Nat
      PROVE  /\ [frame[t] EXCEPT !.old = n] \in Frames
             /\ [frame[t] EXCEPT !.old = n].obj \in Objects
  BY <1>2, <1>5 DEF Frames
<1>6. CASE ReadCount(t)
  <2> DEFINE n == access[frame[t].obj][frame[t].type][frame[t].all]
  <2>1. n \in Nat BY <1>2, <1>3, <1>4 DEF Counts
  <2>2. /\ frame' = [frame EXCEPT ![t] = [frame[t] EXCEPT !.old = n]]
        /\ pc' = [pc EXCEPT ![t] = "bump"] /\ UNCHANGED <<access, profile>>
    BY <1>4, <1>6 DEF ReadCount, Go, cacheVars, outVars
  <2> HIDE DEF n
  <2> QED BY <1>1, <1>4, <1>5, <2>1, <2>2, ShapeKept
          DEF Shape, TypeOK, Deleted, Places, InAccess
<1>7. CASE WriteCount(t)
  <2>1. access' \in [Objects -> [Types -> Counts]] /\ profile' = profile
    BY <1>2, <1>3, <1>4, <1>7 DEF WriteCount, Counts, outVars
  <2>2. \/ /\ pc' = [pc EXCEPT ![t] = "profile"]
           /\ frame' = [frame EXCEPT ![t] = frame[t]]
        \/ /\ pc' = [pc EXCEPT ![t] = "app"]
           /\ frame' = [frame EXCEPT ![t] = NoFrame]
    BY <1>4, <1>7 DEF WriteCount, Go
  <2> QED BY <1>1, <1>2, <1>4, <2>1, <2>2, ShapeKept, NoFrameTyped
          DEF Shape, TypeOK, Deleted, Places, InAccess
<1>8. CASE ReadProfile(t)
  <2> DEFINE n == profile[frame[t].all]
  <2>1. n \in Nat BY <1>3, <1>4 DEF Counts
  <2>2. /\ frame' = [frame EXCEPT ![t] = [frame[t] EXCEPT !.old = n]]
        /\ pc' = [pc EXCEPT ![t] = "add"] /\ UNCHANGED <<access, profile>>
    BY <1>4, <1>8 DEF ReadProfile, Go, cacheVars, outVars
  <2> HIDE DEF n
  <2> QED BY <1>1, <1>4, <1>5, <2>1, <2>2, ShapeKept
          DEF Shape, TypeOK, Deleted, Places, InAccess
<1>9. CASE WriteProfile(t)
  <2>1. profile' \in Counts /\ access' = access
    BY <1>3, <1>4, <1>9 DEF WriteProfile, Counts, cacheVars
  <2>2. /\ pc' = [pc EXCEPT ![t] = "app"]
        /\ frame' = [frame EXCEPT ![t] = NoFrame]
    BY <1>9 DEF WriteProfile, Go
  <2> QED BY <1>1, <1>4, <2>1, <2>2, ShapeKept, NoFrameTyped
          DEF Shape, TypeOK, Deleted, Places, InAccess
<1> QED BY <1>6, <1>7, <1>8, <1>9
\* The calls of main, and the end of the program.
LEMMA ControlShape ==
    ASSUME Shape,
           \/ StartCollection \/ StopCollection \/ ReadRegisters
           \/ ResetDelete \/ ResetNew \/ Fini
    PROVE  Shape'
<1>1. /\ UNCHANGED <<profile, frame, collided, broken>>
      /\ tracking' \in BOOLEAN
  BY DEF StartCollection, StopCollection, ReadRegisters, ResetDelete, ResetNew,
         Fini, cacheVars, outVars, historyVars, Shape, TypeOK
<1>2. pc \in [Threads -> Places] /\ Main \in Threads
  BY MainAssumption DEF Shape, TypeOK
<1>3. stale \subseteq Threads /\ disturbed \in BOOLEAN /\ deleted \in BOOLEAN
  BY DEF Shape, TypeOK
<1>4. CASE StartCollection
  <2>1. UNCHANGED <<pc, cacheVars, historyVars>> BY <1>4 DEF StartCollection
  <2> QED BY <1>1, <2>1
          DEF Shape, TypeOK, Working, Deleted, InRoutine, cacheVars, historyVars
<1>5. ASSUME NEW p \in {"app", "read", "new"}, pc' = [pc EXCEPT ![Main] = p]
      PROVE  pc' \in [Threads -> Places] /\ \A t \in Threads : Working(t)'
  <2>1. pc' \in [Threads -> Places] BY <1>2, <1>5 DEF Places
  <2>2. ASSUME NEW t \in Threads PROVE Working(t)'
    <3>1. pc'[t] = pc[t] \/ pc'[t] = p BY <1>2, <1>5
    <3>2. Working(t) BY DEF Shape
    <3> QED BY <1>1, <3>1, <3>2 DEF Working, InRoutine, InAccess
  <2> QED BY <2>1, <2>2
<1>6. CASE StopCollection \/ ReadRegisters
  <2>1. PICK p \in {"app", "read"} : pc' = [pc EXCEPT ![Main] = p]
    BY <1>6 DEF StopCollection, ReadRegisters, Go
  <2>2. UNCHANGED <<cacheVars, historyVars>> /\ pc[Main] # "new"
    BY <1>6 DEF StopCollection, ReadRegisters
  <2>3. pc'[Main] # "new" BY <1>2, <2>1
  <2>4. Deleted' BY <2>2, <2>3 DEF Shape, Deleted, cacheVars, historyVars
  <2>5. pc' \in [Threads -> Places] /\ \A t \in Threads : Working(t)'
    BY <1>5, <2>1
  <2>6. TypeOK' BY <1>1, <2>2, <2>5 DEF Shape, TypeOK, cacheVars, historyVars
  <2> QED BY <2>4, <2>5, <2>6 DEF Shape
<1>7. CASE ResetDelete
  <2>1. /\ pc' = [pc EXCEPT ![Main] = "new"] /\ pc[Main] = "app"
        /\ deleted' = TRUE /\ Disturb
        /\ stale' = stale \cup {u \in Threads : InRoutine(u)}
        /\ UNCHANGED <<dl1, sets, access, counted, queue>>
    BY <1>7 DEF ResetDelete, Go
  <2>2. pc' \in [Threads -> Places] /\ \A t \in Threads : Working(t)'
    BY <1>5, <2>1
  <2>3. disturbed' \in BOOLEAN BY <1>3, <2>1 DEF Disturb
  <2>4. TypeOK' BY <1>1, <1>3, <2>1, <2>2, <2>3 DEF Shape, TypeOK
  <2>5. Deleted'
    <3>1. pc'[Main] = "new" BY <1>2, <2>1
    <3>2. ~InRoutine(Main) BY <2>1 DEF InRoutine
    <3>3. stale # {} => disturbed BY DEF Shape, Deleted
    <3>4. stale' # {} => disturbed'
      BY <1>2, <2>1, <3>2, <3>3 DEF Disturb
    <3> QED BY <2>1, <3>1, <3>4 DEF Deleted
  <2> QED BY <2>2, <2>4, <2>5 DEF Shape
<1>8. CASE ResetNew
  <2>1. /\ pc' = [pc EXCEPT ![Main] = "app"]
        /\ deleted' = FALSE /\ Disturb /\ stale' = stale
    BY <1>8 DEF ResetNew, Go
  <2>2. PICK o \in Objects :
         /\ dl1' = o
         /\ sets' = [sets EXCEPT ![o] = ColdSets]
         /\ access' = [access EXCEPT ![o] = Zero]
         /\ counted' = [counted EXCEPT ![o] = 0]
         /\ queue' = [queue EXCEPT ![o] = EmptyQueues]
    BY <1>8 DEF ResetNew
  <2>3. pc' \in [Threads -> Places] /\ \A t \in Threads : Working(t)'
    BY <1>5, <2>1
  <2>4. disturbed' \in BOOLEAN BY <1>3, <2>1 DEF Disturb
  <2>5. /\ ColdSets \in [SetIndex -> Sets] /\ Zero \in [Types -> Counts]
        /\ EmptyQueues \in [SetIndex -> [1 .. Ways -> Nat]]
    BY NewIsTyped
  <2>6. /\ sets' \in [Objects -> [SetIndex -> Sets]]
        /\ access' \in [Objects -> [Types -> Counts]]
        /\ counted' \in [Objects -> Nat]
        /\ queue' \in [Objects -> [SetIndex -> [1 .. Ways -> Nat]]]
    BY <2>2, <2>5 DEF Shape, TypeOK
  <2>7. TypeOK' BY <1>1, <1>3, <2>1, <2>2, <2>3, <2>4, <2>6 DEF Shape, TypeOK
  <2>8. Deleted'
    <3>1. pc'[Main] = "app" BY <1>2, <2>1
    <3> QED BY <2>1, <3>1 DEF Shape, Deleted, Disturb
  <2> QED BY <2>3, <2>7, <2>8 DEF Shape
<1>9. CASE Fini
  <2>1. /\ pc' = [t \in Threads |-> "ended"] /\ pc[Main] = "app"
        /\ UNCHANGED <<cacheVars, historyVars>>
    BY <1>2, <1>9 DEF Fini
  <2>2. TypeOK' BY <1>1, <2>1 DEF Shape, TypeOK, Places, cacheVars, historyVars
  <2>3. \A t \in Threads : Working(t)' BY <2>1 DEF Working, InRoutine, InAccess
  <2>4. Deleted' BY <1>2, <2>1 DEF Shape, Deleted, cacheVars, historyVars
  <2> QED BY <2>2, <2>3, <2>4 DEF Shape
<1> QED BY <1>4, <1>6, <1>7, <1>8, <1>9

(***************************************************************************)
(* One routine at a time.                                                  *)
(***************************************************************************)
\* A routine that goes on is as alone as it was.
LEMMA OwnKept ==
    ASSUME Shape, Own, NEW t \in Threads, NEW f, NEW p, InRoutine(t),
           pc' = [pc EXCEPT ![t] = p], frame' = [frame EXCEPT ![t] = f],
           p # "new", UNCHANGED <<collided, disturbed>>,
           ~raced => Missed(t)'
    PROVE  Own'
<1>1. /\ pc \in [Threads -> Places] /\ frame \in [Threads -> Frames]
      /\ Main \in Threads
  BY MainAssumption DEF Shape, TypeOK
<1>2. ASSUME NEW u \in Threads, u # t PROVE pc'[u] = pc[u]
  BY <1>1, <1>2
<1>3. pc'[t] = p BY <1>1
<1>4. ASSUME NEW u \in Threads, InRoutine(u)' PROVE InRoutine(u)
  BY <1>2, <1>4 DEF InRoutine
<1>5. ~collided' => Alone' BY <1>4 DEF Own, Alone
<1>6. ~disturbed' => Calm'
  <2>1. pc'[Main] = "new" => pc[Main] = "new" BY <1>1, <1>2, <1>3
  <2> QED BY <1>4, <2>1 DEF Own, Calm
<1>7. ASSUME ~raced', NEW u \in Threads PROVE Missed(u)'
  <2>1. CASE u = t BY <1>7, <2>1 DEF raced
  <2>2. CASE u # t
    <3>1. ~InRoutine(u) BY <1>7, <2>2 DEF Own, Alone, raced
    <3> QED BY <1>2, <2>2, <3>1 DEF Missed, InRoutine
  <2> QED BY <2>1, <2>2
<1> QED BY <1>5, <1>6, <1>7 DEF Own

\* What begins while no race is noted is alone.
LEMMA BeginOwn ==
    ASSUME Shape, Own, NEW t \in Threads, NEW a \in Accesses, Begin(t, a)
    PROVE  Own'
<1>1. pc \in [Threads -> Places] /\ Main \in Threads
  BY MainAssumption DEF Shape, TypeOK
<1>2. /\ pc' = [pc EXCEPT ![t] = "find"]
      /\ collided' = (collided \/ \E u \in Threads \ {t} : InRoutine(u))
      /\ disturbed' = (disturbed \/ pc[Main] = "new")
  BY DEF Begin, Go
<1>3. pc'[t] = "find" BY <1>1, <1>2
<1>4. ASSUME NEW u \in Threads, u # t
      PROVE  pc'[u] = pc[u] /\ (InRoutine(u)' <=> InRoutine(u))
  BY <1>1, <1>2, <1>4 DEF InRoutine
<1>5. ~collided' => \A u \in Threads \ {t} : ~InRoutine(u)' BY <1>2, <1>4
<1>6. ~collided' => Alone' BY <1>5 DEF Alone
<1>7. ~disturbed' => Calm' BY <1>1, <1>2, <1>3, <1>4 DEF Calm
<1>8. ASSUME ~raced', NEW u \in Threads PROVE Missed(u)'
  <2>1. u # t => ~InRoutine(u)' BY <1>5, <1>8 DEF raced
  <2> QED BY <1>3, <2>1 DEF Missed, InRoutine
<1> QED BY <1>6, <1>7, <1>8 DEF Own

\* What was found missing still is when the way is picked and replaced.
LEMMA FindOwn ==
    ASSUME Shape, Own, NEW t \in Threads, Hit(t) \/ Miss(t) \/ PickWay(t)
    PROVE  Own'
<1>1. /\ pc[t] \in InAccess /\ InRoutine(t)
      /\ UNCHANGED <<sets, collided, disturbed>>
  BY DEF Hit, Miss, PickWay, InAccess, InRoutine, cacheVars, historyVars
<1>2. /\ pc \in [Threads -> Places] /\ frame \in [Threads -> Frames]
      /\ frame[t] \in Frames
  BY DEF Shape, TypeOK
<1>3. CASE Hit(t)
  <2>1. PICK f \in Frames, p \in {"find", "count"} :
             /\ frame' = [frame EXCEPT ![t] = f]
             /\ pc' = [pc EXCEPT ![t] = p]
             /\ f.obj = frame[t].obj
             /\ p = "find" => f.todo # <<>>
    BY <1>1, <1>3, AfterLine DEF Hit
  <2>2. Missed(t)' BY <1>2, <2>1 DEF Missed
  <2> QED BY <1>1, <2>1, <2>2, OwnKept
<1>4. CASE Miss(t)
  <2>1. /\ pc' = [pc EXCEPT ![t] = "pick"] /\ frame' = frame
        /\ ~Find(Set(t), Tag(t))
    BY <1>4 DEF Miss, Go
  <2>2. Missed(t)' BY <1>1, <1>2, <2>1 DEF Missed, Set, Tag
  <2>3. frame' = [frame EXCEPT ![t] = frame[t]] BY <1>2, <2>1
  <2> QED BY <1>1, <2>1, <2>2, <2>3, OwnKept
<1>5. CASE PickWay(t)
  <2> DEFINE f == [frame[t] EXCEPT !.index = Set(t).next]
  <2>1. /\ pc' = [pc EXCEPT ![t] = "replace"]
        /\ frame' = [frame EXCEPT ![t] = f] /\ pc[t] = "pick"
    BY <1>2, <1>5 DEF PickWay, Go
  <2>2. /\ f.obj = frame[t].obj /\ f.todo = frame[t].todo
        /\ f.index = Set(t).next
    BY <1>2 DEF Frames
  <2> HIDE DEF f
  <2>3. pc'[t] = "replace" /\ frame'[t] = f BY <1>2, <2>1
  <2>4. Set(t)' = Set(t) /\ Tag(t)' = Tag(t)
    BY <1>1, <2>2, <2>3 DEF Set, Tag
  <2>5. ~raced => ~Find(Set(t), Tag(t)) BY <2>1 DEF Own, Missed
  <2>6. ~raced => Missed(t)' BY <2>2, <2>3, <2>4, <2>5 DEF Missed
  <2> QED BY <1>1, <2>1, <2>2, <2>6, OwnKept
<1> QED BY <1>3, <1>4, <1>5

\* After its line an access has found nothing missing.
LEMMA ReplaceOwn ==
    ASSUME Shape, Own, NEW t \in Threads, ReplaceWay(t)
    PROVE  Own'
<1>1. /\ pc[t] = "replace" /\ NextLine(t, FALSE)
      /\ UNCHANGED <<collided, disturbed>>
  BY DEF ReplaceWay
<1>2. PICK f \in Frames, p \in {"find", "count"} :
             /\ frame' = [frame EXCEPT ![t] = f]
             /\ pc' = [pc EXCEPT ![t] = p]
             /\ f.obj = frame[t].obj
             /\ p = "find" => f.todo # <<>>
  BY <1>1, AfterLine DEF InAccess
<1>3. InRoutine(t) BY <1>1 DEF InRoutine
<1>4. Missed(t)' BY <1>2 DEF Missed, Shape, TypeOK
<1> QED BY <1>1, <1>2, <1>3, <1>4, OwnKept

\* Counting leaves the sets alone.
LEMMA CountOwn ==
    ASSUME Shape, Own, NEW t \in Threads,
           ReadCount(t) \/ WriteCount(t) \/ ReadProfile(t) \/ WriteProfile(t)
    PROVE  Own'
<1>1. /\ pc \in [Threads -> Places] /\ frame \in [Threads -> Frames]
      /\ frame[t] \in Frames
  BY DEF Shape, TypeOK
<1>2. InRoutine(t) /\ UNCHANGED <<collided, disturbed>>
  BY DEF ReadCount, WriteCount, ReadProfile, WriteProfile, InRoutine,
         cacheVars, historyVars
<1>3. ASSUME NEW f, NEW p \in {"bump", "profile", "add", "app"},
             pc' = [pc EXCEPT ![t] = p], frame' = [frame EXCEPT ![t] = f]
      PROVE  Own'
  <2>1. Missed(t)' BY <1>1, <1>3 DEF Missed
  <2> QED BY <1>2, <1>3, <2>1, OwnKept
<1>4. CASE ReadCount(t) BY <1>3, <1>4 DEF ReadCount, Go
<1>5. CASE WriteCount(t)
  <2>1. \/ /\ pc' = [pc EXCEPT ![t] = "profile"]
           /\ frame' = [frame EXCEPT ![t] = frame[t]]
        \/ /\ pc' = [pc EXCEPT ![t] = "app"]
           /\ frame' = [frame EXCEPT ![t] = NoFrame]
    BY <1>1, <1>5 DEF WriteCount, Go
  <2> QED BY <1>3, <2>1
<1>6. CASE ReadProfile(t) BY <1>3, <1>6 DEF ReadProfile, Go
<1>7. CASE WriteProfile(t) BY <1>3, <1>7 DEF WriteProfile, Go
<1> QED BY <1>4, <1>5, <1>6, <1>7

\* What was a race remains one.
LEMMA RacedStays ==
    ASSUME NextDCache
    PROVE  /\ collided => collided'
           /\ disturbed => disturbed'
           /\ raced => raced'
<1>1. ASSUME NEW t \in Threads, Step(t)
      PROVE  (collided => collided') /\ (disturbed => disturbed')
  <2>1. CASE \E a \in Accesses : Begin(t, a) BY <2>1, Zenon DEF Begin
  <2>2. CASE ~\E a \in Accesses : Begin(t, a)
    <3>1. UNCHANGED <<collided, disturbed>>
      <4>1. CASE Hit(t) BY <4>1 DEF Hit, historyVars
      <4>2. CASE Miss(t) BY <4>2 DEF Miss, historyVars
      <4>3. CASE PickWay(t) BY <4>3 DEF PickWay, historyVars
      <4>4. CASE ReplaceWay(t) BY <4>4 DEF ReplaceWay
      <4>5. CASE ReadCount(t) BY <4>5 DEF ReadCount, historyVars
      <4>6. CASE WriteCount(t) BY <4>6 DEF WriteCount, historyVars
      <4>7. CASE ReadProfile(t) BY <4>7 DEF ReadProfile, historyVars
      <4>8. CASE WriteProfile(t) BY <4>8 DEF WriteProfile, historyVars
      <4> QED BY <1>1, <2>2, <4>1, <4>2, <4>3, <4>4, <4>5, <4>6, <4>7, <4>8 DEF Step
    <3> QED BY <3>1
  <2> QED BY <2>1, <2>2
<1>2. CASE StartCollection \/ StopCollection \/ ReadRegisters \/ Fini
  BY <1>2 DEF StartCollection, StopCollection, ReadRegisters, Fini, historyVars,
              raced
<1>3. CASE ResetDelete BY <1>3, Zenon DEF ResetDelete, Disturb, raced
<1>4. CASE ResetNew BY <1>4, Zenon DEF ResetNew, Disturb, raced
<1> QED BY <1>1, <1>2, <1>3, <1>4 DEF NextDCache, raced

\* Control calls leave routines alone, but for a reset, which is alone itself.
LEMMA ControlOwn ==
    ASSUME Shape, Own,
           \/ StartCollection \/ StopCollection \/ ReadRegisters
           \/ ResetDelete \/ ResetNew \/ Fini
    PROVE  Own'
<1>1. pc \in [Threads -> Places] /\ Main \in Threads
  BY MainAssumption DEF Shape, TypeOK
<1>2. frame' = frame /\ collided' = collided /\ (disturbed => disturbed')
  <2>1. frame' = frame /\ collided' = collided
    BY DEF StartCollection, StopCollection, ReadRegisters, ResetDelete, ResetNew,
           Fini, historyVars
  <2> QED BY <2>1, RacedStays DEF NextDCache
<1>3. ASSUME NEW u \in Threads
      PROVE  InRoutine(u)' => InRoutine(u) /\ pc'[u] = pc[u]
  <2>1. CASE StartCollection BY <2>1 DEF StartCollection, InRoutine
  <2>2. CASE StopCollection \/ ReadRegisters \/ ResetDelete \/ ResetNew
    <3>1. PICK p \in {"app", "read", "new"} : pc' = [pc EXCEPT ![Main] = p]
      BY <2>2 DEF StopCollection, ReadRegisters, ResetDelete, ResetNew, Go
    <3>2. pc'[u] = pc[u] \/ pc'[u] = p BY <1>1, <3>1
    <3> QED BY <3>2 DEF InRoutine
  <2>3. CASE Fini BY <2>3 DEF Fini, InRoutine
  <2> QED BY <2>1, <2>2, <2>3
<1>4. ~collided' => Alone' BY <1>2, <1>3 DEF Own, Alone
<1>5. CASE ResetDelete \/ ResetNew
  <2>1. ~disturbed' => \A u \in Threads \ {Main} : ~InRoutine(u)
    BY <1>5 DEF ResetDelete, ResetNew, Disturb
  <2>2. ~InRoutine(Main) BY <1>5 DEF ResetDelete, ResetNew, InRoutine
  <2>3. ~disturbed' => \A u \in Threads : ~InRoutine(u)' BY <1>3, <2>1, <2>2
  <2>4. ~disturbed' => Calm' BY <2>3 DEF Calm
  <2>5. ~raced' => \A u \in Threads : Missed(u)'
    BY <2>3 DEF Missed, InRoutine, raced
  <2> QED BY <1>4, <2>4, <2>5 DEF Own
<1>6. CASE StartCollection \/ StopCollection \/ ReadRegisters \/ Fini
  <2>1. sets' = sets /\ disturbed' = disturbed
    BY <1>6 DEF StartCollection, StopCollection, ReadRegisters, Fini, cacheVars,
                historyVars
  <2>2. pc'[Main] = "new" => pc[Main] = "new"
    BY <1>1, <1>6 DEF StartCollection, StopCollection, ReadRegisters, Fini, Go
  <2>3. ~disturbed' => Calm' BY <1>3, <2>1, <2>2 DEF Own, Calm
  <2>4. ASSUME ~raced', NEW u \in Threads PROVE Missed(u)'
    <3>1. Missed(u) BY <1>2, <2>1, <2>4 DEF Own, raced
    <3>2. Set(u)' = Set(u) /\ Tag(u)' = Tag(u) BY <1>2, <2>1 DEF Set, Tag
    <3>3. pc'[u] \in {"pick", "replace"} => pc'[u] = pc[u]
      BY <1>3 DEF InRoutine
    <3> QED BY <1>2, <3>1, <3>2, <3>3 DEF Missed
  <2> QED BY <1>4, <2>3, <2>4 DEF Own
<1> QED BY <1>5, <1>6

(***************************************************************************)
(* The properties.                                                         *)
(***************************************************************************)

\* Replacing a way inserts the line into its queue, and touches no other.
LEMMA ReplaceFifo ==
    ASSUME Shape, Own, HoldsTheLastMisses, NEW t \in Threads, ReplaceWay(t)
    PROVE  HoldsTheLastMisses'
<1> SUFFICES ASSUME ~raced,
                    NEW b \in Objects, NEW j \in 0 .. NumSets - 1
             PROVE  ByAge(sets'[b][j]) = queue'[b][j]
  BY DEF HoldsTheLastMisses, ReplaceWay, raced
<1> DEFINE o == frame[t].obj
           i == IndexOf(Tag(t))
           s == ReplaceIn(Set(t), frame[t].index, Tag(t))
           q == Fifo!After(queue[o][i], Tag(t))
<1>1. /\ o \in Objects /\ i \in SetIndex /\ Tag(t) \in Nat
      /\ sets' = [sets EXCEPT ![o] = [@ EXCEPT ![i] = s]]
      /\ queue' = [queue EXCEPT ![o] = [@ EXCEPT ![i] = q]]
  BY Replaced
<1>2. /\ sets \in [Objects -> [SetIndex -> Sets]]
      /\ queue \in [Objects -> [SetIndex -> [1 .. Ways -> Nat]]]
  BY DEF Shape, TypeOK
<1>3. ByAge(sets[b][j]) = queue[b][j] BY DEF HoldsTheLastMisses
<1>4. ByAge(s) = q
  <2>1. Set(t) \in Sets /\ pc[t] = "replace"
    BY ShapeOf DEF ReplaceWay, InAccess
  <2>2. ~Find(Set(t), Tag(t)) /\ frame[t].index = Set(t).next
    BY <2>1 DEF Own, Missed
  <2>3. s = Replace(Set(t), Tag(t)) BY <2>2 DEF Replace
  <2>4. ByAge(s) = Fifo!Insert(ByAge(Set(t)), Tag(t))
    BY <1>1, <2>1, <2>3, RoundRobin
  <2>5. ~Fifo!Holds(ByAge(Set(t)), Tag(t)) BY <2>1, <2>2, FindIsHolds
  <2>6. ByAge(Set(t)) = queue[o][i]
    BY <1>1 DEF HoldsTheLastMisses, SetIndex, Set
  <2> QED BY <2>4, <2>5, <2>6 DEF Fifo!After
<1> HIDE DEF o, i, s, q
<1>5. j \in SetIndex BY DEF SetIndex
<1>6. CASE b = o /\ j = i
  <2>1. sets'[b][j] = s /\ queue'[b][j] = q BY <1>1, <1>2, <1>6
  <2> QED BY <1>4, <2>1
<1>7. CASE ~(b = o /\ j = i)
  <2>1. sets'[b][j] = sets[b][j] /\ queue'[b][j] = queue[b][j]
    BY <1>1, <1>2, <1>5, <1>7
  <2> QED BY <1>3, <2>1
<1> QED BY <1>6, <1>7

\* A new cache is a cold one, the others stay.
LEMMA ResetFifo ==
    ASSUME Shape, HoldsTheLastMisses, ResetNew
    PROVE  HoldsTheLastMisses'
<1> SUFFICES ASSUME ~raced',
                    NEW b \in Objects, NEW j \in 0 .. NumSets - 1
             PROVE  ByAge(sets'[b][j]) = queue'[b][j]
  BY DEF HoldsTheLastMisses
<1>1. ~raced BY RacedStays DEF NextDCache
<1>2. PICK o \in Objects :
        /\ sets' = [sets EXCEPT ![o] = ColdSets]
        /\ queue' = [queue EXCEPT ![o] = EmptyQueues]
  BY DEF ResetNew
<1>3. /\ sets \in [Objects -> [SetIndex -> Sets]]
      /\ queue \in [Objects -> [SetIndex -> [1 .. Ways -> Nat]]]
  BY DEF Shape, TypeOK
<1>4. CASE b = o
  <2>1. sets'[b] = ColdSets /\ queue'[b] = EmptyQueues BY <1>2, <1>3, <1>4
  <2> QED BY <2>1, NewIsTyped DEF SetIndex
<1>5. CASE b # o
  <2>1. sets'[b] = sets[b] /\ queue'[b] = queue[b] BY <1>2, <1>3, <1>5
  <2> QED BY <1>1, <2>1 DEF HoldsTheLastMisses
<1> QED BY <1>4, <1>5

\* The tool starts in a state of the inductive invariant.
LEMMA InitInv == InitDCache => IndInv
<1> SUFFICES ASSUME InitDCache PROVE IndInv OBVIOUS
<1>1. Shape
  <2>1. /\ ColdSets \in [SetIndex -> Sets] /\ Zero \in [Types -> Counts]
        /\ EmptyQueues \in [SetIndex -> [1 .. Ways -> Nat]]
    BY NewIsTyped
  <2>2. TypeOK
    <3>1. /\ {tracking, deleted, collided, disturbed, broken} \subseteq BOOLEAN
          /\ stale \subseteq Threads /\ dl1 \in Objects
      BY DEF InitDCache
    <3>2. /\ profile \in Counts /\ counted \in [Objects -> Nat]
          /\ pc \in [Threads -> Places]
      BY DEF InitDCache, Counts, Places
    <3>3. frame \in [Threads -> Frames] BY NoFrameTyped DEF InitDCache
    <3>4. /\ sets \in [Objects -> [SetIndex -> Sets]]
          /\ queue \in [Objects -> [SetIndex -> [1 .. Ways -> Nat]]]
          /\ access \in [Objects -> [Types -> Counts]]
      BY <2>1 DEF InitDCache
    <3> QED BY <3>1, <3>2, <3>3, <3>4 DEF TypeOK
  <2>3. ASSUME NEW t \in Threads PROVE pc[t] = "app"
    <3>1. pc = [u \in Threads |-> "app"] BY DEF InitDCache
    <3> QED BY <3>1
  <2>4. ASSUME NEW t \in Threads PROVE Working(t)
    <3>1. pc[t] = "app" BY <2>3
    <3> QED BY <3>1, Zenon DEF Working, InRoutine, InAccess
  <2>5. Deleted BY <2>3, MainAssumption DEF InitDCache, Deleted
  <2> QED BY <2>2, <2>4, <2>5 DEF Shape
<1>2. Own
  BY MainAssumption DEF InitDCache, Own, Alone, Calm, Missed, InRoutine
<1>3. DeletedOnlyByARace BY DEF InitDCache, DeletedOnlyByARace
<1>4. HoldsTheLastMisses
  BY NewIsTyped DEF InitDCache, HoldsTheLastMisses, SetIndex
<1> QED BY <1>1, <1>2, <1>3, <1>4 DEF IndInv

\* Every step of a thread preserves it.
LEMMA ThreadInv ==
    ASSUME IndInv, NEW t \in Threads, Step(t) PROVE IndInv'
<1>1. Shape /\ Own /\ DeletedOnlyByARace /\ HoldsTheLastMisses BY DEF IndInv
<1>2. Shape' /\ Own'
  BY <1>1, BeginShape, FindShape, ReplaceShape, CountShape, BeginOwn, FindOwn,
     ReplaceOwn, CountOwn DEF Step
<1>3. (disturbed => disturbed') /\ (raced => raced')
  BY RacedStays DEF NextDCache
<1>4. broken' = broken \/ broken' = (broken \/ t \in stale)
  <2>1. CASE \E a \in Accesses : Begin(t, a) BY <2>1 DEF Begin
  <2>2. CASE Hit(t) \/ Miss(t) \/ PickWay(t)
    BY <2>2 DEF Hit, Miss, PickWay, Touch
  <2>3. CASE ReplaceWay(t) BY <2>3 DEF ReplaceWay, Touch
  <2>4. CASE ReadCount(t) \/ WriteCount(t)
    BY <2>4 DEF ReadCount, WriteCount, Touch
  <2>5. CASE ReadProfile(t) \/ WriteProfile(t)
    BY <2>5 DEF ReadProfile, WriteProfile
  <2> QED BY <2>1, <2>2, <2>3, <2>4, <2>5 DEF Step
<1>5. t \in stale => disturbed BY <1>1 DEF Shape, Deleted
<1>6. DeletedOnlyByARace' BY <1>1, <1>3, <1>4, <1>5 DEF DeletedOnlyByARace
<1>7. CASE ReplaceWay(t)
  BY <1>1, <1>2, <1>6, <1>7, ReplaceFifo DEF IndInv
<1>8. CASE \E a \in Accesses : Begin(t, a)
  <2>1. UNCHANGED <<sets, queue>> BY <1>8 DEF Begin, cacheVars
  <2> QED BY <1>1, <1>2, <1>3, <1>6, <2>1 DEF IndInv, HoldsTheLastMisses
<1>9. CASE ~ReplaceWay(t) /\ ~\E a \in Accesses : Begin(t, a)
  <2>1. UNCHANGED <<sets, queue>>
    BY <1>9 DEF Step, Hit, Miss, PickWay, ReadCount, WriteCount,
                ReadProfile, WriteProfile, cacheVars, historyVars
  <2> QED BY <1>1, <1>2, <1>3, <1>6, <2>1 DEF IndInv, HoldsTheLastMisses
<1> QED BY <1>7, <1>8, <1>9

\* Every step of the tool preserves it.
LEMMA NextInv == IndInv /\ [NextDCache]_dcacheVars => IndInv'
<1> SUFFICES ASSUME IndInv, [NextDCache]_dcacheVars PROVE IndInv' OBVIOUS
<1>1. Shape /\ Own /\ DeletedOnlyByARace /\ HoldsTheLastMisses BY DEF IndInv
<1>2. CASE \E t \in Threads : Step(t) BY <1>2, ThreadInv
<1>3. CASE \/ StartCollection \/ StopCollection \/ ReadRegisters
           \/ ResetDelete \/ ResetNew \/ Fini
  <2>1. Shape' /\ Own' BY <1>1, <1>3, ControlShape, ControlOwn
  <2>2. broken' = broken
    BY <1>3 DEF StartCollection, StopCollection, ReadRegisters, ResetDelete,
                ResetNew, Fini
  <2>3. (disturbed => disturbed') /\ (raced => raced')
    BY <1>3, RacedStays DEF NextDCache
  <2>4. HoldsTheLastMisses'
    <3>1. CASE ResetNew BY <1>1, <3>1, ResetFifo
    <3>2. CASE ~ResetNew
      <4>1. UNCHANGED <<sets, queue>>
        BY <1>3, <3>2 DEF StartCollection, StopCollection, ReadRegisters,
                          ResetDelete, Fini, cacheVars, historyVars
      <4> QED BY <1>1, <2>3, <4>1 DEF HoldsTheLastMisses
    <3> QED BY <3>1, <3>2
  <2> QED BY <1>1, <2>1, <2>2, <2>3, <2>4 DEF IndInv, DeletedOnlyByARace
<1>4. CASE UNCHANGED dcacheVars
  BY <1>1, <1>4
     DEF dcacheVars, cacheVars, historyVars, outVars, IndInv, Shape, TypeOK,
         Working, Deleted, Own, Alone, Calm, Missed, InRoutine, Set, Tag, raced,
         DeletedOnlyByARace, HoldsTheLastMisses
<1> QED BY <1>2, <1>3, <1>4 DEF NextDCache

\* The inductive invariant holds in every reachable state.
THEOREM Invariance == SpecDCache => []IndInv
<1> QED BY InitInv, NextInv, PTL DEF SpecDCache

\* As long as no two analysis routines overlap, each set of the simulated cache
\* holds the lines that missed last, in the order of their misses.
THEOREM HoldsTheLastMissesCorrect == SpecDCache => []HoldsTheLastMisses
<1>1. IndInv => HoldsTheLastMisses BY DEF IndInv
<1> QED BY <1>1, Invariance, PTL

\* A routine uses a deleted cache only after a routine and a reset overlapped,
\* however many routines overlap each other.
THEOREM DeletedOnlyByARaceCorrect == SpecDCache => []DeletedOnlyByARace
<1>1. IndInv => DeletedOnlyByARace BY DEF IndInv
<1> QED BY <1>1, Invariance, PTL

(***************************************************************************)
(* The counts.                                                             *)
(*                                                                         *)
(* Overlapping routines overwrite each other's counts, so that a count may *)
(* go down and no bound on it is inductive.  What is kept instead, as long *)
(* as no routine and a reset overlap: some                                 *)
(* counts d of the accesses that have written theirs, each at its own      *)
(* cell, bound what is stored and what a routine has read and will write   *)
(* back; and d and the accesses still on their way make up all that began. *)
(* Without a race d is what is stored.                                     *)
(***************************************************************************)
Uncounted   == InAccess \cup {"count", "bump"}
Pending(o)  == {t \in Threads : pc[t] \in Uncounted /\ frame[t].obj = o}
Routines    == {t \in Threads : InRoutine(t)}
UpTo(n, m)  == n <= m /\ (~collided => n = m)

CountedBy(o, d) ==
    /\ \A y \in Types, h \in BOOLEAN : UpTo(access[o][y][h], d[y][h])
    /\ \A t \in Threads : pc[t] = "bump" /\ frame[t].obj = o =>
         UpTo(frame[t].old, d[frame[t].type][frame[t].all])
    /\ Total(d) + Cardinality(Pending(o)) = counted[o]

ProfiledBy(d) ==
    /\ \A h \in BOOLEAN : UpTo(profile[h], d[h])
    /\ \A t \in Threads : pc[t] = "add" => UpTo(frame[t].old, d[frame[t].all])
    /\ d[TRUE] + d[FALSE] + Cardinality(Routines) <= made
    /\ Profiled = Types => d[TRUE] + d[FALSE] + Cardinality(Routines) = made

AccessCounted(o) == IsFiniteSet(Pending(o)) /\ \E d \in [Types -> Counts] : CountedBy(o, d)
ProfileCounted   == IsFiniteSet(Routines) /\ \E d \in Counts : ProfiledBy(d)

\* The report is of the last cache, and nothing happens after it.
Reported ==
    pc[Main] = "ended" => /\ \A t \in Threads : pc[t] = "ended"
                          /\ report = Registers(access[dl1])

AllCounted ==
    made \in Nat /\ (\A o \in Objects : AccessCounted(o)) /\ ProfileCounted

CountInv == (~disturbed => AllCounted) /\ Reported

\* The total of an access's four counts.
LEMMA TotalIs ==
    ASSUME NEW d \in [Types -> Counts]
    PROVE  /\ \A y \in Types, h \in BOOLEAN : d[y][h] \in Nat
           /\ Total(d) = d["load"][TRUE] + d["store"][TRUE]
                           + (d["load"][FALSE] + d["store"][FALSE])
           /\ Total(d) \in Nat
<1>1. \A y \in Types, h \in BOOLEAN : d[y][h] \in Nat BY DEF Counts
<1>2. Total(d) = d["load"][TRUE] + d["store"][TRUE]
                   + (d["load"][FALSE] + d["store"][FALSE])
  BY DEF Total, Registers, Sum
<1>3. /\ d["load"][TRUE] \in Nat /\ d["store"][TRUE] \in Nat
      /\ d["load"][FALSE] \in Nat /\ d["store"][FALSE] \in Nat
  BY <1>1 DEF Types
<1>4. \A i, j, m, n \in Nat : i + j + (m + n) \in Nat OBVIOUS
<1>5. d["load"][TRUE] + d["store"][TRUE] + (d["load"][FALSE] + d["store"][FALSE])
        \in Nat
  BY <1>3, <1>4, Zenon
<1>6. Total(d) \in Nat BY <1>2, <1>5, Zenon
<1> QED BY <1>1, <1>2, <1>6, Zenon

\* One more in one of the counts is one more in all.
LEMMA TotalBump ==
    ASSUME NEW d \in [Types -> Counts], NEW y \in Types, NEW h \in BOOLEAN
    PROVE  \E e \in [Types -> Counts] :
             /\ e[y][h] = d[y][h] + 1
             /\ \A z \in Types, g \in BOOLEAN :
                  z # y \/ g # h => e[z][g] = d[z][g]
             /\ Total(e) = Total(d) + 1
<1> DEFINE e == [d EXCEPT ![y] = [d[y] EXCEPT ![h] = d[y][h] + 1]]
<1>1. d[y][h] \in Nat BY TotalIs
<1>2. e \in [Types -> Counts] BY <1>1 DEF Counts
<1>3. e[y][h] = d[y][h] + 1 BY DEF Counts
<1>4. ASSUME NEW z \in Types, NEW g \in BOOLEAN, z # y \/ g # h
      PROVE  e[z][g] = d[z][g]
  BY <1>4 DEF Counts
<1> HIDE DEF e
<1>5. Total(e) = Total(d) + 1
  <2>1. /\ "load" \in Types /\ "store" \in Types /\ Types = {"load", "store"}
    BY DEF Types
  <2>2. /\ d["load"][TRUE] \in Nat /\ d["store"][TRUE] \in Nat
        /\ d["load"][FALSE] \in Nat /\ d["store"][FALSE] \in Nat
    BY <2>1, TotalIs
  <2>3. /\ Total(d) = d["load"][TRUE] + d["store"][TRUE]
                        + (d["load"][FALSE] + d["store"][FALSE])
        /\ Total(e) = e["load"][TRUE] + e["store"][TRUE]
                        + (e["load"][FALSE] + e["store"][FALSE])
    BY <1>2, TotalIs
  <2>4. PICK i, j, m, n \in Nat :
          /\ i = d["load"][TRUE] /\ j = d["store"][TRUE]
          /\ m = d["load"][FALSE] /\ n = d["store"][FALSE]
          /\ Total(d) = i + j + (m + n)
    BY <2>2, <2>3, Zenon
  <2>5. CASE y = "load" /\ h = TRUE
    <3>1. /\ e["load"][TRUE] = (i + 1) /\ e["store"][TRUE] = j
          /\ e["load"][FALSE] = m /\ e["store"][FALSE] = n
      BY <1>3, <1>4, <2>4, <2>1, <2>5
    <3>2. Total(e) = (i + 1) + j + (m + n)
      BY <2>3, <3>1, Zenon
    <3>3. (i + 1) + j + (m + n) = i + j + (m + n) + 1 OBVIOUS
    <3> QED BY <2>4, <3>2, <3>3, Zenon
  <2>6. CASE y = "load" /\ h = FALSE
    <3>1. /\ e["load"][TRUE] = i /\ e["store"][TRUE] = j
          /\ e["load"][FALSE] = (m + 1) /\ e["store"][FALSE] = n
      BY <1>3, <1>4, <2>4, <2>1, <2>6
    <3>2. Total(e) = i + j + ((m + 1) + n)
      BY <2>3, <3>1, Zenon
    <3>3. i + j + ((m + 1) + n) = i + j + (m + n) + 1 OBVIOUS
    <3> QED BY <2>4, <3>2, <3>3, Zenon
  <2>7. CASE y = "store" /\ h = TRUE
    <3>1. /\ e["load"][TRUE] = i /\ e["store"][TRUE] = (j + 1)
          /\ e["load"][FALSE] = m /\ e["store"][FALSE] = n
      BY <1>3, <1>4, <2>4, <2>1, <2>7
    <3>2. Total(e) = i + (j + 1) + (m + n)
      BY <2>3, <3>1, Zenon
    <3>3. i + (j + 1) + (m + n) = i + j + (m + n) + 1 OBVIOUS
    <3> QED BY <2>4, <3>2, <3>3, Zenon
  <2>8. CASE y = "store" /\ h = FALSE
    <3>1. /\ e["load"][TRUE] = i /\ e["store"][TRUE] = j
          /\ e["load"][FALSE] = m /\ e["store"][FALSE] = (n + 1)
      BY <1>3, <1>4, <2>4, <2>1, <2>8
    <3>2. Total(e) = i + j + (m + (n + 1))
      BY <2>3, <3>1, Zenon
    <3>3. i + j + (m + (n + 1)) = i + j + (m + n) + 1 OBVIOUS
    <3> QED BY <2>4, <3>2, <3>3, Zenon
  <2> QED BY <2>1, <2>5, <2>6, <2>7, <2>8
<1> QED BY <1>2, <1>3, <1>4, <1>5

\* Where one thread moves, the others stay.
LEMMA OthersStay ==
    ASSUME Shape, NEW t \in Threads, NEW f \in Frames, NEW p \in Places,
           pc' = [pc EXCEPT ![t] = p], frame' = [frame EXCEPT ![t] = f]
    PROVE  /\ \A u \in Threads \ {t} : pc'[u] = pc[u] /\ frame'[u] = frame[u]
           /\ pc'[t] = p /\ frame'[t] = f
<1>1. pc \in [Threads -> Places] /\ frame \in [Threads -> Frames]
  BY DEF Shape, TypeOK
<1>2. \A u \in Threads \ {t} : pc'[u] = pc[u] /\ frame'[u] = frame[u] BY <1>1
<1>3. pc'[t] = p /\ frame'[t] = f BY <1>1
<1> QED BY <1>2, <1>3

\* The pending accesses of an object then,
LEMMA PendingMoves ==
    ASSUME Shape, NEW t \in Threads, NEW f \in Frames, NEW p \in Places,
           NEW o \in Objects,
           pc' = [pc EXCEPT ![t] = p], frame' = [frame EXCEPT ![t] = f]
    PROVE  Pending(o)' = IF p \in Uncounted /\ f.obj = o
                         THEN Pending(o) \cup {t} ELSE Pending(o) \ {t}
<1>1. /\ \A u \in Threads \ {t} : pc'[u] = pc[u] /\ frame'[u] = frame[u]
      /\ pc'[t] = p /\ frame'[t] = f
  BY OthersStay
<1> QED BY <1>1 DEF Pending

\* and the running routines.
LEMMA RoutinesMove ==
    ASSUME Shape, NEW t \in Threads, NEW p \in Places,
           pc' = [pc EXCEPT ![t] = p]
    PROVE  Routines' = IF p \in Uncounted \cup {"profile", "add"}
                       THEN Routines \cup {t} ELSE Routines \ {t}
<1>1. \A u \in Threads \ {t} : pc'[u] = pc[u] BY DEF Shape, TypeOK
<1>2. pc'[t] = p BY DEF Shape, TypeOK
<1> QED BY <1>1, <1>2 DEF Routines, InRoutine, Uncounted, InAccess

\* The counts of an object stay accounted for where nothing is stored, nothing
\* begins or is done, and a routine reads what is there.
LEMMA AccessKept ==
    ASSUME Shape, NEW o \in Objects, AccessCounted(o),
           access'[o] = access[o], counted'[o] = counted[o],
           Pending(o)' = Pending(o), collided => collided',
           \A u \in Threads : pc'[u] = "bump" /\ frame'[u].obj = o =>
             \/ pc[u] = "bump" /\ frame'[u] = frame[u]
             \/ /\ frame'[u].type \in Types /\ frame'[u].all \in BOOLEAN
                /\ frame'[u].old = access[o][frame'[u].type][frame'[u].all]
    PROVE  AccessCounted(o)'
<1>1. PICK d \in [Types -> Counts] : CountedBy(o, d) BY DEF AccessCounted
<1>2. \A y \in Types, h \in BOOLEAN : UpTo(access[o][y][h], d[y][h])'
  BY <1>1 DEF CountedBy, UpTo
<1>3. ASSUME NEW u \in Threads, pc'[u] = "bump", frame'[u].obj = o
      PROVE  UpTo(frame[u].old, d[frame[u].type][frame[u].all])'
  <2>1. CASE pc[u] = "bump" /\ frame'[u] = frame[u]
    <3>1. UpTo(frame[u].old, d[frame[u].type][frame[u].all])
      BY <1>1, <1>3, <2>1 DEF CountedBy
    <3> QED BY <2>1, <3>1 DEF UpTo
  <2>2. CASE /\ frame'[u].type \in Types /\ frame'[u].all \in BOOLEAN
             /\ frame'[u].old = access[o][frame'[u].type][frame'[u].all]
    <3>1. UpTo(access[o][frame'[u].type][frame'[u].all],
               d[frame'[u].type][frame'[u].all])
      BY <1>1, <2>2 DEF CountedBy
    <3> QED BY <2>2, <3>1 DEF UpTo
  <2> QED BY <1>3, <2>1, <2>2
<1>4. (Total(d) + Cardinality(Pending(o)) = counted[o])'
  BY <1>1 DEF CountedBy
<1>5. CountedBy(o, d)' BY <1>2, <1>3, <1>4 DEF CountedBy
<1> QED BY <1>5 DEF AccessCounted

\* So do those of the profile.
LEMMA ProfileKept ==
    ASSUME Shape, ProfileCounted,
           profile' = profile, made' = made,
           Routines' = Routines, collided => collided',
           \A u \in Threads : pc'[u] = "add" =>
             \/ pc[u] = "add" /\ frame'[u] = frame[u]
             \/ /\ frame'[u].all \in BOOLEAN
                /\ frame'[u].old = profile[frame'[u].all]
    PROVE  ProfileCounted'
<1>1. PICK d \in Counts : ProfiledBy(d) BY DEF ProfileCounted
<1>2. \A h \in BOOLEAN : UpTo(profile[h], d[h])'
  BY <1>1 DEF ProfiledBy, UpTo
<1>3. ASSUME NEW u \in Threads, pc'[u] = "add"
      PROVE  UpTo(frame[u].old, d[frame[u].all])'
  <2>1. CASE pc[u] = "add" /\ frame'[u] = frame[u]
    <3>1. UpTo(frame[u].old, d[frame[u].all])
      BY <1>1, <2>1 DEF ProfiledBy
    <3> QED BY <2>1, <3>1 DEF UpTo
  <2>2. CASE /\ frame'[u].all \in BOOLEAN
             /\ frame'[u].old = profile[frame'[u].all]
    <3>1. UpTo(profile[frame'[u].all], d[frame'[u].all])
      BY <1>1, <2>2 DEF ProfiledBy
    <3> QED BY <2>2, <3>1 DEF UpTo
  <2> QED BY <1>3, <2>1, <2>2
<1>4. ProfiledBy(d)' BY <1>1, <1>2, <1>3 DEF ProfiledBy
<1> QED BY <1>4 DEF ProfileCounted

\* A thread that neither begins nor ends an access leaves the counts so,
LEMMA MoveCounted ==
    ASSUME Shape, AllCounted, NEW t \in Threads, NEW f \in Frames, NEW p \in Places,
           pc' = [pc EXCEPT ![t] = p], frame' = [frame EXCEPT ![t] = f],
           p \in Uncounted <=> pc[t] \in Uncounted,
           p \in Uncounted => f.obj = frame[t].obj,
           p = "bump" => f.old = access[f.obj][f.type][f.all],
           access' = access, counted' = counted, collided' = collided
    PROVE  \A o \in Objects : AccessCounted(o)'
<1> SUFFICES ASSUME NEW o \in Objects PROVE AccessCounted(o)' OBVIOUS
<1>1. /\ \A u \in Threads \ {t} : pc'[u] = pc[u] /\ frame'[u] = frame[u]
      /\ pc'[t] = p /\ frame'[t] = f
  BY OthersStay
<1>2. Pending(o)' = Pending(o)
  <2>1. Pending(o)' = IF p \in Uncounted /\ f.obj = o
                      THEN Pending(o) \cup {t} ELSE Pending(o) \ {t}
    BY PendingMoves
  <2>2. t \in Pending(o) <=> p \in Uncounted /\ f.obj = o BY DEF Pending
  <2> QED BY <2>1, <2>2
<1>3. f.type \in Types /\ f.all \in BOOLEAN BY DEF Frames
<1>4. AccessCounted(o) BY DEF AllCounted
<1> QED BY <1>1, <1>2, <1>3, <1>4, AccessKept

\* and one that does not enter or leave a routine those of the profile.
LEMMA MoveProfiled ==
    ASSUME Shape, AllCounted, NEW t \in Threads, NEW f \in Frames, NEW p \in Places,
           pc' = [pc EXCEPT ![t] = p], frame' = [frame EXCEPT ![t] = f],
           p \in Uncounted \cup {"profile", "add"}, InRoutine(t),
           p = "add" => f.old = profile[f.all],
           profile' = profile, made' = made, collided' = collided
    PROVE  ProfileCounted'
<1>1. /\ \A u \in Threads \ {t} : pc'[u] = pc[u] /\ frame'[u] = frame[u]
      /\ pc'[t] = p /\ frame'[t] = f
  BY OthersStay
<1>2. Routines' = Routines
  <2>1. Routines' = Routines \cup {t} BY RoutinesMove
  <2>2. t \in Routines BY DEF Routines
  <2> QED BY <2>1, <2>2
<1>3. f.all \in BOOLEAN BY DEF Frames
<1>4. ProfileCounted BY DEF AllCounted
<1> QED BY <1>1, <1>2, <1>3, <1>4, ProfileKept

\* Looking the lines up counts nothing.
LEMMA LookUpCounts ==
    ASSUME Shape, AllCounted, NEW t \in Threads,
           Hit(t) \/ Miss(t) \/ PickWay(t) \/ ReplaceWay(t)
    PROVE  (\A o \in Objects : AccessCounted(o)') /\ ProfileCounted'
<1>1. /\ pc[t] \in InAccess
      /\ UNCHANGED <<access, profile, made, counted, collided>>
  <2>1. CASE Hit(t) \/ Miss(t) \/ PickWay(t)
    BY <2>1 DEF Hit, Miss, PickWay, InAccess, cacheVars, outVars, historyVars
  <2>2. CASE ReplaceWay(t) BY <2>2 DEF ReplaceWay, InAccess, outVars
  <2> QED BY <2>1, <2>2
<1>2. /\ frame[t] \in Frames /\ InRoutine(t) /\ pc[t] \in Uncounted
      /\ Set(t) \in Sets
  BY <1>1, ShapeOf DEF Uncounted
<1>3. ASSUME NEW f \in Frames, NEW p \in InAccess \cup {"count"},
             pc' = [pc EXCEPT ![t] = p], frame' = [frame EXCEPT ![t] = f],
             f.obj = frame[t].obj
      PROVE  (\A o \in Objects : AccessCounted(o)') /\ ProfileCounted'
  <2>1. p \in Places /\ p \in Uncounted /\ p # "bump" /\ p # "add"
    BY DEF Places, Uncounted, InAccess
  <2>2. \A o \in Objects : AccessCounted(o)'
    BY <1>1, <1>2, <1>3, <2>1, MoveCounted
  <2>3. ProfileCounted' BY <1>1, <1>2, <1>3, <2>1, MoveProfiled
  <2> QED BY <2>2, <2>3
<1>4. CASE Hit(t) \/ ReplaceWay(t)
  <2>1. PICK hit \in BOOLEAN : NextLine(t, hit) BY <1>4 DEF Hit, ReplaceWay
  <2>2. PICK f \in Frames, p \in {"find", "count"} :
          /\ frame' = [frame EXCEPT ![t] = f]
          /\ pc' = [pc EXCEPT ![t] = p]
          /\ f.obj = frame[t].obj
          /\ p = "find" => f.todo # <<>>
    BY <1>1, <2>1, AfterLine
  <2> QED BY <1>3, <2>2 DEF InAccess
<1>5. CASE Miss(t)
  <2>1. pc' = [pc EXCEPT ![t] = "pick"] /\ frame' = [frame EXCEPT ![t] = frame[t]]
    BY <1>5 DEF Miss, Go, Shape, TypeOK
  <2> QED BY <1>2, <1>3, <2>1 DEF InAccess
<1>6. CASE PickWay(t)
  <2> DEFINE f == [frame[t] EXCEPT !.index = Set(t).next]
  <2>1. /\ pc' = [pc EXCEPT ![t] = "replace"]
        /\ frame' = [frame EXCEPT ![t] = f]
    BY <1>6 DEF PickWay, Go, Shape, TypeOK
  <2>2. Set(t).next \in Way BY <1>2 DEF Sets
  <2>3. f \in Frames /\ f.obj = frame[t].obj BY <1>2, <2>2 DEF Frames
  <2> HIDE DEF f
  <2> QED BY <1>3, <2>1, <2>3 DEF InAccess
<1> QED BY <1>4, <1>5, <1>6

\* What is read of a count is what is there.
LEMMA ReadCounts ==
    ASSUME Shape, AllCounted, NEW t \in Threads, ReadCount(t) \/ ReadProfile(t)
    PROVE  (\A o \in Objects : AccessCounted(o)') /\ ProfileCounted'
<1>1. /\ UNCHANGED <<access, profile, made, counted, collided>>
      /\ pc[t] \in {"count", "profile"}
  BY DEF ReadCount, ReadProfile, cacheVars, outVars, historyVars
<1>2. /\ frame[t] \in Frames /\ InRoutine(t) /\ frame[t].obj \in Objects
      /\ frame[t].type \in Types /\ frame[t].all \in BOOLEAN
  <2>1. InRoutine(t) BY <1>1 DEF InRoutine
  <2>2. frame[t] \in Frames /\ frame[t].obj \in Objects BY <2>1, ShapeOf
  <2> QED BY <2>1, <2>2 DEF Frames
<1>3. CASE ReadCount(t)
  <2> DEFINE n == access[frame[t].obj][frame[t].type][frame[t].all]
             f == [frame[t] EXCEPT !.old = n]
  <2>1. n \in Nat
    <3>1. access[frame[t].obj] \in [Types -> Counts] BY <1>2 DEF Shape, TypeOK
    <3> QED BY <1>2, <3>1 DEF Counts
  <2>2. /\ pc' = [pc EXCEPT ![t] = "bump"] /\ pc[t] = "count"
        /\ frame' = [frame EXCEPT ![t] = f]
    BY <1>3 DEF ReadCount, Go, Shape, TypeOK
  <2> HIDE DEF n
  <2>3. /\ f \in Frames /\ f.obj = frame[t].obj /\ f.old = n
        /\ f.type = frame[t].type /\ f.all = frame[t].all
    BY <1>2, <2>1 DEF Frames
  <2> HIDE DEF f
  <2>4. f.old = access[f.obj][f.type][f.all] BY <2>3 DEF n
  <2>5. "bump" \in Places /\ "bump" \in Uncounted /\ "count" \in Uncounted
    BY DEF Places, Uncounted
  <2>6. \A o \in Objects : AccessCounted(o)'
    BY <1>1, <2>2, <2>3, <2>4, <2>5, MoveCounted
  <2>7. ProfileCounted' BY <1>1, <1>2, <2>2, <2>3, <2>5, MoveProfiled
  <2> QED BY <2>6, <2>7
<1>4. CASE ReadProfile(t)
  <2> DEFINE f == [frame[t] EXCEPT !.old = profile[frame[t].all]]
  <2>1. profile[frame[t].all] \in Nat BY <1>2 DEF Shape, TypeOK, Counts
  <2>2. /\ pc' = [pc EXCEPT ![t] = "add"] /\ pc[t] = "profile"
        /\ frame' = [frame EXCEPT ![t] = f]
    BY <1>4 DEF ReadProfile, Go, Shape, TypeOK
  <2>3. /\ f \in Frames /\ f.old = profile[frame[t].all]
        /\ f.all = frame[t].all
    BY <1>2, <2>1 DEF Frames
  <2> HIDE DEF f
  <2>4. /\ "add" \in Places /\ "add" \notin Uncounted
        /\ "profile" \notin Uncounted
    BY DEF Places, Uncounted, InAccess
  <2>5. \A o \in Objects : AccessCounted(o)'
    BY <1>1, <2>2, <2>3, <2>4, MoveCounted
  <2>6. ProfileCounted' BY <1>1, <1>2, <2>2, <2>3, <2>4, MoveProfiled
  <2> QED BY <2>5, <2>6
<1> QED BY <1>3, <1>4

\* What a routine writes back is at most one more than was accounted for; the
\* access is no longer pending then.
LEMMA WriteCountAccess ==
    ASSUME Shape, Own, AllCounted, NEW t \in Threads, WriteCount(t),
           NEW o \in Objects
    PROVE  AccessCounted(o)'
<1>1. /\ frame[t] \in Frames /\ frame[t].obj \in Objects /\ pc[t] = "bump"
      /\ frame[t].type \in Types /\ frame[t].all \in BOOLEAN
      /\ frame[t].old \in Nat /\ InRoutine(t)
      /\ UNCHANGED <<counted, collided>>
  <2>1. pc[t] = "bump" /\ UNCHANGED <<counted, collided>>
    BY DEF WriteCount, historyVars
  <2>2. InRoutine(t) BY <2>1 DEF InRoutine
  <2>3. frame[t] \in Frames /\ frame[t].obj \in Objects BY <2>2, ShapeOf
  <2> QED BY <2>1, <2>2, <2>3 DEF Frames
<1>2. PICK f \in Frames, p \in {"profile", "app"} :
         pc' = [pc EXCEPT ![t] = p] /\ frame' = [frame EXCEPT ![t] = f]
  <2>1. \/ /\ pc' = [pc EXCEPT ![t] = "profile"]
           /\ frame' = [frame EXCEPT ![t] = frame[t]]
        \/ /\ pc' = [pc EXCEPT ![t] = "app"]
           /\ frame' = [frame EXCEPT ![t] = NoFrame]
    BY DEF WriteCount, Go, Shape, TypeOK
  <2> QED BY <1>1, <2>1, NoFrameTyped
<1>3. p \in Places /\ p \notin Uncounted /\ p # "bump"
  BY <1>2 DEF Places, Uncounted, InAccess
<1>4. /\ \A u \in Threads \ {t} : pc'[u] = pc[u] /\ frame'[u] = frame[u]
      /\ pc'[t] = p
  BY <1>2, <1>3, OthersStay
<1>5. Pending(o)' = Pending(o) \ {t} BY <1>2, <1>3, PendingMoves
<1>6. AccessCounted(o) BY DEF AllCounted
<1>7. PICK y \in Types, h \in BOOLEAN, n \in Nat, b \in Objects :
         y = frame[t].type /\ h = frame[t].all /\ n = frame[t].old
         /\ b = frame[t].obj
  BY <1>1
<1>8. access' = [access EXCEPT ![b] =
               [access[b] EXCEPT ![y] = [access[b][y] EXCEPT ![h] = n + 1]]]
  BY <1>7 DEF WriteCount
<1>9. access \in [Objects -> [Types -> Counts]] BY DEF Shape, TypeOK
<1>10. CASE o # b
  <2>1. access'[o] = access[o] BY <1>8, <1>9, <1>10
  <2>2. Pending(o)' = Pending(o) BY <1>5, <1>7, <1>10 DEF Pending
  <2>3. \A u \in Threads : pc'[u] = "bump" =>
          pc[u] = "bump" /\ frame'[u] = frame[u]
    BY <1>3, <1>4
  <2> QED BY <1>1, <1>6, <2>1, <2>2, <2>3, AccessKept
<1>11. CASE o = b
  <2>1. PICK d \in [Types -> Counts] : CountedBy(o, d)
    BY <1>6 DEF AccessCounted
  <2>2. PICK e \in [Types -> Counts] :
          /\ e[y][h] = d[y][h] + 1
          /\ \A z \in Types, g \in BOOLEAN :
               z # y \/ g # h => e[z][g] = d[z][g]
          /\ Total(e) = Total(d) + 1
    BY TotalBump
  <2>3. UpTo(n, d[y][h]) BY <1>1, <1>7, <1>11, <2>1 DEF CountedBy
  <2>4. d[y][h] \in Nat BY TotalIs
  <2>5. ASSUME NEW z \in Types, NEW g \in BOOLEAN
        PROVE  UpTo(access[o][z][g], e[z][g])'
    <3>1. access[o] \in [Types -> Counts] BY <1>9
    <3>2. UpTo(access[o][z][g], d[z][g]) BY <2>1 DEF CountedBy
    <3>3. CASE z = y /\ g = h
      <4>1. access'[o][z][g] = n + 1
        BY <1>8, <1>9, <1>11, <3>1, <3>3 DEF Counts
      <4>2. e[z][g] = d[y][h] + 1 BY <2>2, <3>3
      <4>3. n \in Nat /\ n <= d[y][h] /\ (~collided => n = d[y][h])
        BY <1>7, <2>3 DEF UpTo
      <4>4. n + 1 <= d[y][h] + 1 BY <2>4, <4>3
      <4> QED BY <1>1, <4>1, <4>2, <4>3, <4>4 DEF UpTo
    <3>4. CASE z # y \/ g # h
      <4>1. access'[o][z][g] = access[o][z][g]
        BY <1>8, <1>9, <1>11, <3>1, <3>4 DEF Counts
      <4>2. e[z][g] = d[z][g] BY <2>2, <3>4
      <4> QED BY <1>1, <3>2, <4>1, <4>2 DEF UpTo
    <3> QED BY <3>3, <3>4
  <2>6. ASSUME NEW u \in Threads, pc'[u] = "bump", frame'[u].obj = o
        PROVE  UpTo(frame[u].old, e[frame[u].type][frame[u].all])'
    <3>1. u # t /\ pc[u] = "bump" /\ frame'[u] = frame[u]
      BY <1>3, <1>4, <2>6
    <3>2. collided
      <4>1. InRoutine(u) BY <3>1 DEF InRoutine
      <4> QED BY <1>1, <3>1, <4>1 DEF Own, Alone
    <3>3. frame[u] \in Frames BY ShapeOf
    <3>4. PICK z \in Types, g \in BOOLEAN, m \in Nat :
             z = frame[u].type /\ g = frame[u].all /\ m = frame[u].old
      BY <3>3 DEF Frames
    <3>5. m <= d[z][g] BY <2>1, <2>6, <3>1, <3>4 DEF CountedBy, UpTo
    <3>6. d[z][g] \in Nat /\ (e[z][g] = d[z][g] \/ e[z][g] = d[z][g] + 1)
      BY <2>2, TotalIs
    <3>7. m <= e[z][g] BY <3>4, <3>5, <3>6
    <3> QED BY <1>1, <3>1, <3>2, <3>4, <3>7 DEF UpTo
  <2>7. IsFiniteSet(Pending(o)') /\ (Total(e) + Cardinality(Pending(o)) = counted[o])'
    <3>1. t \in Pending(o) BY <1>1, <1>7, <1>11 DEF Pending, Uncounted
    <3>2. IsFiniteSet(Pending(o)) BY <1>6 DEF AccessCounted
    <3>3. /\ IsFiniteSet(Pending(o)')
          /\ Cardinality(Pending(o)') = Cardinality(Pending(o)) - 1
      BY <1>5, <3>1, <3>2, FS_RemoveElement
    <3>4. Cardinality(Pending(o)) \in Nat BY <3>2, FS_CardinalityType
    <3>5. PICK a \in Nat, c \in Nat : a = Total(d) /\ c = Cardinality(Pending(o))
      BY <3>4, TotalIs
    <3>6. Total(e) = a + 1 /\ Cardinality(Pending(o)') = c - 1
      BY <2>2, <3>3, <3>5, Zenon
    <3>7. a + 1 + (c - 1) = a + c OBVIOUS
    <3>8. a + c = counted[o] BY <2>1, <3>5, Zenon DEF CountedBy
    <3>9. Total(e) + Cardinality(Pending(o)') = counted'[o]
      BY <1>1, <3>6, <3>7, <3>8, Zenon
    <3> QED BY <3>3, <3>9, Zenon
  <2>8. CountedBy(o, e)' BY <2>5, <2>6, <2>7 DEF CountedBy
  <2> QED BY <2>2, <2>7, <2>8 DEF AccessCounted
<1> QED BY <1>10, <1>11

\* A routine that leaves without the profile is one of another type.
LEMMA WriteCountProfile ==
    ASSUME Shape, AllCounted, NEW t \in Threads, WriteCount(t)
    PROVE  ProfileCounted'
<1>1. /\ frame[t] \in Frames /\ pc[t] = "bump" /\ InRoutine(t)
      /\ frame[t].type \in Types
      /\ UNCHANGED <<profile, made, collided>>
  <2>1. pc[t] = "bump" /\ UNCHANGED <<profile, made, collided>>
    BY DEF WriteCount, historyVars, outVars
  <2>2. InRoutine(t) BY <2>1 DEF InRoutine
  <2>3. frame[t] \in Frames BY <2>2, ShapeOf
  <2> QED BY <2>1, <2>2, <2>3 DEF Frames
<1>2. CASE frame[t].type \in Profiled
  <2>1. /\ pc' = [pc EXCEPT ![t] = "profile"]
        /\ frame' = [frame EXCEPT ![t] = frame[t]]
    BY <1>2 DEF WriteCount, Go, Shape, TypeOK
  <2>2. "profile" \in Places BY DEF Places
  <2> QED BY <1>1, <2>1, <2>2, MoveProfiled
<1>3. CASE frame[t].type \notin Profiled
  <2>1. /\ pc' = [pc EXCEPT ![t] = "app"]
        /\ frame' = [frame EXCEPT ![t] = NoFrame]
    BY <1>3 DEF WriteCount, Go
  <2>2. "app" \in Places /\ "app" \notin Uncounted \cup {"profile", "add"}
    BY DEF Places, Uncounted, InAccess
  <2>3. /\ \A u \in Threads \ {t} : pc'[u] = pc[u] /\ frame'[u] = frame[u]
        /\ pc'[t] = "app"
    BY <2>1, <2>2, NoFrameTyped, OthersStay
  <2>4. Routines' = Routines \ {t} BY <2>1, <2>2, RoutinesMove
  <2>5. PICK d \in Counts : ProfiledBy(d) BY DEF AllCounted, ProfileCounted
  <2>6. \A h \in BOOLEAN : UpTo(profile[h], d[h])'
    BY <1>1, <2>5 DEF ProfiledBy, UpTo
  <2>7. ASSUME NEW u \in Threads, pc'[u] = "add"
        PROVE  UpTo(frame[u].old, d[frame[u].all])'
    <3>1. pc[u] = "add" /\ frame'[u] = frame[u] BY <2>3, <2>7
    <3> QED BY <1>1, <2>5, <3>1 DEF ProfiledBy, UpTo
  <2>8. /\ IsFiniteSet(Routines')
        /\ d[TRUE] + d[FALSE] + Cardinality(Routines') <= made
    <3>1. t \in Routines /\ IsFiniteSet(Routines)
      BY <1>1 DEF Routines, AllCounted, ProfileCounted
    <3>2. /\ IsFiniteSet(Routines')
          /\ Cardinality(Routines') = Cardinality(Routines) - 1
      BY <2>4, <3>1, FS_RemoveElement
    <3>3. Cardinality(Routines) \in Nat /\ made \in Nat
      BY <3>1, FS_CardinalityType DEF AllCounted
    <3>4. PICK i \in Nat, j \in Nat, m \in Nat, n \in Nat :
             /\ i = d[TRUE] /\ j = d[FALSE] /\ m = Cardinality(Routines)
             /\ n = made
      BY <3>3 DEF Counts
    <3>5. i + j + m <= n BY <2>5, <3>4, Zenon DEF ProfiledBy
    <3>6. i + j + (m - 1) <= n BY <3>5
    <3> QED BY <3>2, <3>4, <3>6, Zenon
  <2>9. Profiled # Types BY <1>1, <1>3
  <2>10. ProfiledBy(d)' BY <1>1, <2>6, <2>7, <2>8, <2>9 DEF ProfiledBy
  <2> QED BY <2>8, <2>10 DEF ProfileCounted
<1> QED BY <1>2, <1>3

\* The same for the profile, where the routine ends.
LEMMA WriteProfileCounts ==
    ASSUME Shape, Own, AllCounted, NEW t \in Threads, WriteProfile(t)
    PROVE  (\A o \in Objects : AccessCounted(o)') /\ ProfileCounted'
<1>1. /\ frame[t] \in Frames /\ pc[t] = "add" /\ InRoutine(t)
      /\ UNCHANGED <<access, made, counted, collided>>
      /\ pc' = [pc EXCEPT ![t] = "app"]
      /\ frame' = [frame EXCEPT ![t] = NoFrame]
  <2>1. /\ pc[t] = "add" /\ UNCHANGED <<access, made, counted, collided>>
        /\ pc' = [pc EXCEPT ![t] = "app"]
        /\ frame' = [frame EXCEPT ![t] = NoFrame]
    BY DEF WriteProfile, Go, historyVars, cacheVars
  <2>2. InRoutine(t) BY <2>1 DEF InRoutine
  <2> QED BY <2>1, <2>2, ShapeOf
<1>2. /\ "app" \in Places /\ "app" \notin Uncounted \cup {"profile", "add"}
      /\ "add" \notin Uncounted
  BY DEF Places, Uncounted, InAccess
<1>3. /\ \A u \in Threads \ {t} : pc'[u] = pc[u] /\ frame'[u] = frame[u]
      /\ pc'[t] = "app"
  BY <1>1, <1>2, NoFrameTyped, OthersStay
<1>4. \A o \in Objects : AccessCounted(o)'
  BY <1>1, <1>2, NoFrameTyped, MoveCounted
<1>5. Routines' = Routines \ {t} BY <1>1, <1>2, RoutinesMove
<1>6. PICK d \in Counts : ProfiledBy(d) BY DEF AllCounted, ProfileCounted
<1>7. PICK h \in BOOLEAN, n \in Nat : h = frame[t].all /\ n = frame[t].old
  BY <1>1 DEF Frames
<1>8. profile' = [profile EXCEPT ![h] = n + 1] /\ profile \in Counts
  BY <1>7 DEF WriteProfile, Shape, TypeOK
<1>9. PICK e \in Counts : e = [d EXCEPT ![h] = d[h] + 1]
  <2>1. [d EXCEPT ![h] = d[h] + 1] \in Counts BY DEF Counts
  <2> QED BY <2>1
<1>10. /\ e[h] = d[h] + 1 /\ d[h] \in Nat
       /\ \A g \in BOOLEAN : g # h => e[g] = d[g]
  BY <1>9 DEF Counts
<1>11. UpTo(n, d[h]) BY <1>1, <1>6, <1>7 DEF ProfiledBy
<1>12. ASSUME NEW g \in BOOLEAN PROVE UpTo(profile[g], e[g])'
  <2>1. CASE g = h
    <3>1. profile'[g] = n + 1 BY <1>8, <2>1 DEF Counts
    <3>2. n <= d[h] /\ (~collided => n = d[h]) BY <1>11 DEF UpTo
    <3>3. n + 1 <= d[h] + 1 BY <1>7, <1>10, <3>2
    <3> QED BY <1>1, <1>10, <2>1, <3>1, <3>2, <3>3 DEF UpTo
  <2>2. CASE g # h
    <3>1. profile'[g] = profile[g] /\ e[g] = d[g]
      BY <1>8, <1>10, <2>2 DEF Counts
    <3> QED BY <1>1, <1>6, <3>1 DEF ProfiledBy, UpTo
  <2> QED BY <2>1, <2>2
<1>13. ASSUME NEW u \in Threads, pc'[u] = "add"
       PROVE  UpTo(frame[u].old, e[frame[u].all])'
  <2>1. u # t /\ pc[u] = "add" /\ frame'[u] = frame[u] BY <1>3, <1>13
  <2>2. collided
    <3>1. InRoutine(u) BY <2>1 DEF InRoutine
    <3> QED BY <1>1, <2>1, <3>1 DEF Own, Alone
  <2>3. PICK g \in BOOLEAN, m \in Nat : g = frame[u].all /\ m = frame[u].old
    BY ShapeOf DEF Frames
  <2>4. m <= d[g] BY <1>6, <2>1, <2>3 DEF ProfiledBy, UpTo
  <2>5. d[g] \in Nat /\ (e[g] = d[g] \/ e[g] = d[g] + 1)
    BY <1>10 DEF Counts
  <2>6. m <= e[g] BY <2>3, <2>4, <2>5
  <2> QED BY <1>1, <2>1, <2>2, <2>3, <2>6 DEF UpTo
<1>14. /\ IsFiniteSet(Routines')
       /\ e[TRUE] + e[FALSE] + Cardinality(Routines')
            = d[TRUE] + d[FALSE] + Cardinality(Routines)
  <2>1. t \in Routines /\ IsFiniteSet(Routines)
    BY <1>1 DEF Routines, AllCounted, ProfileCounted
  <2>2. /\ IsFiniteSet(Routines')
        /\ Cardinality(Routines') = Cardinality(Routines) - 1
    BY <1>5, <2>1, FS_RemoveElement
  <2>3. PICK i \in Nat, j \in Nat, m \in Nat :
           i = d[TRUE] /\ j = d[FALSE] /\ m = Cardinality(Routines)
    BY <2>1, FS_CardinalityType DEF Counts
  <2>4. CASE h = TRUE
    <3>1. e[TRUE] = i + 1 /\ e[FALSE] = j BY <1>10, <2>3, <2>4
    <3>2. i + 1 + j + (m - 1) = i + j + m OBVIOUS
    <3> QED BY <2>2, <2>3, <3>1, <3>2, Zenon
  <2>5. CASE h = FALSE
    <3>1. e[TRUE] = i /\ e[FALSE] = j + 1 BY <1>10, <2>3, <2>5
    <3>2. i + (j + 1) + (m - 1) = i + j + m OBVIOUS
    <3> QED BY <2>2, <2>3, <3>1, <3>2, Zenon
  <2> QED BY <2>4, <2>5
<1>15. ProfiledBy(e)' BY <1>1, <1>6, <1>12, <1>13, <1>14, Zenon DEF ProfiledBy
<1>16. ProfileCounted' BY <1>14, <1>15 DEF ProfileCounted
<1> QED BY <1>4, <1>16

\* An access that begins is pending on the present cache.
LEMMA BeginCounts ==
    ASSUME Shape, AllCounted, NEW t \in Threads, NEW a \in Accesses, Begin(t, a)
    PROVE  /\ \A o \in Objects : AccessCounted(o)'
           /\ ProfileCounted' /\ made' \in Nat
<1> DEFINE f == [NoFrame EXCEPT !.type = a.type, !.obj = dl1, !.todo = Lines(a)]
<1>1. /\ pc[t] = "app" /\ pc' = [pc EXCEPT ![t] = "find"]
      /\ frame' = [frame EXCEPT ![t] = f]
      /\ counted' = [counted EXCEPT ![dl1] = @ + 1] /\ made' = made + 1
      /\ UNCHANGED <<access, profile>>
  BY DEF Begin, Go, cacheVars, outVars
<1>2. collided => collided' BY Zenon DEF Begin
<1>3. dl1 \in Objects BY DEF Shape, TypeOK
<1>4. f \in Frames /\ f.obj = dl1 BY <1>3, NewFrame, Zenon
<1> HIDE DEF f
<1>5. "find" \in Places /\ "find" \in Uncounted
  BY DEF Places, Uncounted, InAccess
<1>6. /\ \A u \in Threads \ {t} : pc'[u] = pc[u] /\ frame'[u] = frame[u]
      /\ pc'[t] = "find"
  BY <1>1, <1>4, <1>5, OthersStay, Zenon
<1>7. made \in Nat /\ counted \in [Objects -> Nat]
  BY DEF AllCounted, Shape, TypeOK
<1>8. ASSUME NEW o \in Objects PROVE AccessCounted(o)'
  <2>1. Pending(o)' = IF dl1 = o THEN Pending(o) \cup {t} ELSE Pending(o) \ {t}
    BY <1>1, <1>4, <1>5, PendingMoves
  <2>2. t \notin Pending(o) BY <1>1 DEF Pending, Uncounted, InAccess
  <2>3. AccessCounted(o) BY DEF AllCounted
  <2>4. \A u \in Threads : pc'[u] = "bump" =>
          pc[u] = "bump" /\ frame'[u] = frame[u]
    BY <1>6
  <2>5. CASE o # dl1
    <3>1. Pending(o)' = Pending(o) BY <2>1, <2>2, <2>5
    <3>2. counted'[o] = counted[o] BY <1>1, <1>7, <2>5
    <3> QED BY <1>1, <1>2, <2>3, <2>4, <3>1, <3>2, AccessKept
  <2>6. CASE o = dl1
    <3>1. PICK d \in [Types -> Counts] : CountedBy(o, d)
      BY <2>3 DEF AccessCounted
    <3>2. \A y \in Types, h \in BOOLEAN : UpTo(access[o][y][h], d[y][h])'
      BY <1>1, <1>2, <3>1 DEF CountedBy, UpTo
    <3>3. ASSUME NEW u \in Threads, pc'[u] = "bump", frame'[u].obj = o
          PROVE  UpTo(frame[u].old, d[frame[u].type][frame[u].all])'
      <4>1. pc[u] = "bump" /\ frame'[u] = frame[u] BY <2>4, <3>3
      <4> QED BY <1>2, <3>1, <3>3, <4>1 DEF CountedBy, UpTo
    <3>4. IsFiniteSet(Pending(o)) BY <2>3 DEF AccessCounted
    <3>5. /\ IsFiniteSet(Pending(o)')
          /\ Cardinality(Pending(o)') = Cardinality(Pending(o)) + 1
      BY <2>1, <2>2, <2>6, <3>4, FS_AddElement
    <3>6. PICK i \in Nat, j \in Nat, n \in Nat :
             i = Total(d) /\ j = Cardinality(Pending(o)) /\ n = counted[o]
      BY <1>7, <3>4, FS_CardinalityType, TotalIs
    <3>7. i + j = n BY <3>1, <3>6, Zenon DEF CountedBy
    <3>8. i + (j + 1) = n + 1 BY <3>7
    <3>9. counted'[o] = n + 1 BY <1>1, <1>7, <2>6, <3>6
    <3>10. Total(d) + Cardinality(Pending(o)') = counted'[o]
      BY <3>5, <3>6, <3>8, <3>9, Zenon
    <3>11. CountedBy(o, d)' BY <3>2, <3>3, <3>10 DEF CountedBy
    <3> QED BY <3>5, <3>11 DEF AccessCounted
  <2> QED BY <2>5, <2>6
<1>9. ProfileCounted'
  <2>1. Routines' = Routines \cup {t} BY <1>1, <1>5, RoutinesMove
  <2>2. t \notin Routines BY <1>1 DEF Routines, InRoutine
  <2>3. PICK d \in Counts : ProfiledBy(d) BY DEF AllCounted, ProfileCounted
  <2>4. \A h \in BOOLEAN : UpTo(profile[h], d[h])'
    BY <1>1, <1>2, <2>3 DEF ProfiledBy, UpTo
  <2>5. ASSUME NEW u \in Threads, pc'[u] = "add"
        PROVE  UpTo(frame[u].old, d[frame[u].all])'
    <3>1. pc[u] = "add" /\ frame'[u] = frame[u] BY <1>6, <2>5
    <3> QED BY <1>2, <2>3, <3>1 DEF ProfiledBy, UpTo
  <2>6. IsFiniteSet(Routines) BY DEF AllCounted, ProfileCounted
  <2>7. /\ IsFiniteSet(Routines')
        /\ Cardinality(Routines') = Cardinality(Routines) + 1
    BY <2>1, <2>2, <2>6, FS_AddElement
  <2>8. PICK i \in Nat, j \in Nat, m \in Nat, n \in Nat :
           /\ i = d[TRUE] /\ j = d[FALSE] /\ m = Cardinality(Routines)
           /\ n = made
    BY <1>7, <2>6, FS_CardinalityType DEF Counts
  <2>9. i + j + m <= n /\ (Profiled = Types => i + j + m = n)
    BY <2>3, <2>8, Zenon DEF ProfiledBy
  <2>10. i + j + (m + 1) <= n + 1 BY <2>9
  <2>11. Profiled = Types => i + j + (m + 1) = n + 1 BY <2>9
  <2>12. made' = n + 1 /\ Cardinality(Routines') = m + 1
    BY <1>1, <2>7, <2>8, Zenon
  <2>13. /\ d[TRUE] + d[FALSE] + Cardinality(Routines') <= made'
         /\ Profiled = Types =>
              d[TRUE] + d[FALSE] + Cardinality(Routines') = made'
    BY <2>8, <2>10, <2>11, <2>12, Zenon
  <2>14. ProfiledBy(d)' BY <2>4, <2>5, <2>13 DEF ProfiledBy
  <2> QED BY <2>7, <2>14 DEF ProfileCounted
<1> QED BY <1>1, <1>7, <1>8, <1>9

\* A new cache has counted nothing.
LEMMA TotalZero == Zero \in [Types -> Counts] /\ Total(Zero) = 0
<1>1. Zero \in [Types -> Counts] BY NewIsTyped
<1>2. /\ Zero["load"][TRUE] = 0 /\ Zero["load"][FALSE] = 0
      /\ Zero["store"][TRUE] = 0 /\ Zero["store"][FALSE] = 0
  BY DEF Zero, Types
<1>3. Total(Zero) = 0 + 0 + (0 + 0) BY <1>1, <1>2, TotalIs, Zenon
<1> QED BY <1>1, <1>3

LEMMA ZeroUpTo == \A y \in Types, h \in BOOLEAN : UpTo(Zero[y][h], Zero[y][h])
<1>1. \A y \in Types, h \in BOOLEAN : Zero[y][h] \in Nat BY TotalZero, TotalIs
<1> QED BY <1>1 DEF UpTo

\* The main thread's calls count nothing; reset throws counts away when no
\* access is pending.
LEMMA ControlCounts ==
    ASSUME Shape, AllCounted, ~disturbed',
           \/ StartCollection \/ StopCollection \/ ReadRegisters
           \/ ResetDelete \/ ResetNew \/ Fini
    PROVE  AllCounted'
<1>1. UNCHANGED <<frame, profile, made, collided>>
  BY DEF StartCollection, StopCollection, ReadRegisters, ResetDelete, ResetNew,
         Fini, outVars, historyVars
<1>2. ASSUME NEW u \in Threads
      PROVE  \/ pc'[u] = pc[u]
             \/ /\ pc[u] \in {"app", "read", "new"}
                /\ pc'[u] \in {"app", "read", "new", "ended"}
  <2>1. pc \in [Threads -> Places] /\ Main \in Threads
    BY MainAssumption DEF Shape, TypeOK
  <2>2. CASE StartCollection BY <2>2 DEF StartCollection
  <2>3. CASE StopCollection \/ ReadRegisters \/ ResetDelete \/ ResetNew
    <3>1. PICK p \in {"app", "read", "new"} :
             pc' = [pc EXCEPT ![Main] = p] /\ pc[Main] \in {"app", "read", "new"}
      BY <2>3 DEF StopCollection, ReadRegisters, ResetDelete, ResetNew, Go
    <3> QED BY <2>1, <3>1
  <2>4. CASE Fini BY <2>4 DEF Fini
  <2> QED BY <2>2, <2>3, <2>4
<1>3. \A u \in Threads :
        /\ pc'[u] \in Uncounted <=> pc[u] \in Uncounted
        /\ InRoutine(u)' <=> InRoutine(u)
        /\ pc'[u] = "bump" => pc[u] = "bump"
        /\ pc'[u] = "add" => pc[u] = "add"
  BY <1>2 DEF Uncounted, InAccess, InRoutine
<1>4. \A o \in Objects : Pending(o)' = Pending(o) BY <1>1, <1>3 DEF Pending
<1>5. Routines' = Routines BY <1>3 DEF Routines
<1>6. ASSUME NEW o \in Objects, access'[o] = access[o], counted'[o] = counted[o]
      PROVE  AccessCounted(o)'
  <2>1. AccessCounted(o) BY DEF AllCounted
  <2> QED BY <1>1, <1>3, <1>4, <1>6, <2>1, AccessKept
<1>7. \A o \in Objects : AccessCounted(o)'
  <2>1. CASE ~ResetNew
    <3>1. UNCHANGED <<access, counted>>
      BY <2>1 DEF StartCollection, StopCollection, ReadRegisters, ResetDelete,
                  Fini, cacheVars, historyVars
    <3> QED BY <1>6, <3>1
  <2>2. CASE ResetNew
    <3>1. PICK b \in Objects : /\ access' = [access EXCEPT ![b] = Zero]
                               /\ counted' = [counted EXCEPT ![b] = 0]
      BY <2>2 DEF ResetNew
    <3>2. /\ access \in [Objects -> [Types -> Counts]]
          /\ counted \in [Objects -> Nat]
      BY DEF Shape, TypeOK
    <3>3. \A u \in Threads : ~InRoutine(u)
      <4>1. \A u \in Threads \ {Main} : ~InRoutine(u)
        BY <2>2 DEF ResetNew, Disturb
      <4>2. ~InRoutine(Main) BY <2>2 DEF ResetNew, InRoutine
      <4> QED BY <4>1, <4>2
    <3>4. \A u \in Threads : ~InRoutine(u)' BY <1>3, <3>3
    <3>5. CountedBy(b, Zero)' /\ IsFiniteSet(Pending(b)')
      <4>1. access'[b] = Zero /\ counted'[b] = 0 BY <3>1, <3>2
      <4>2. \A y \in Types, h \in BOOLEAN : UpTo(access[b][y][h], Zero[y][h])'
        BY <1>1, <4>1, ZeroUpTo DEF UpTo
      <4>3. \A u \in Threads : pc'[u] # "bump" BY <3>4 DEF InRoutine
      <4>4. Pending(b)' = {}
        BY <3>4 DEF Pending, InRoutine, Uncounted, InAccess
      <4>5. IsFiniteSet(Pending(b)') /\ Cardinality(Pending(b)') = 0
        BY <4>4, FS_EmptySet
      <4>6. 0 + 0 = 0 OBVIOUS
      <4>7. Total(Zero) + Cardinality(Pending(b)') = counted'[b]
        BY <4>1, <4>5, <4>6, TotalZero, Zenon
      <4> QED BY <4>2, <4>3, <4>5, <4>7 DEF CountedBy
    <3>6. AccessCounted(b)' BY <3>5, TotalZero DEF AccessCounted
    <3>7. \A o \in Objects : o # b =>
            access'[o] = access[o] /\ counted'[o] = counted[o]
      BY <3>1, <3>2
    <3> QED BY <1>6, <3>6, <3>7
  <2> QED BY <2>1, <2>2
<1>8. ProfileCounted'
  <2>1. ProfileCounted BY DEF AllCounted
  <2> QED BY <1>1, <1>3, <1>5, <2>1, ProfileKept
<1>9. made' \in Nat BY <1>1 DEF AllCounted
<1> QED BY <1>7, <1>8, <1>9 DEF AllCounted

\* The program ends once.
LEMMA EndsOnce ==
    ASSUME Shape, Reported, NextDCache PROVE Reported'
<1>1. pc \in [Threads -> Places] /\ Main \in Threads
  BY MainAssumption DEF Shape, TypeOK
<1>2. CASE Fini
  <2>1. UNCHANGED <<access, dl1>> BY <1>2 DEF Fini, cacheVars
  <2> QED BY <1>2, <2>1 DEF Fini, Reported, Registers, Sum
<1>3. CASE ~Fini
  <2>1. PICK t \in Threads, p \in Places \ {"ended"} :
           pc[t] # "ended" /\ (pc' = pc \/ pc' = [pc EXCEPT ![t] = p])
    <3>1. CASE StartCollection BY <1>1, <3>1 DEF StartCollection, Places
    <3>2. CASE StopCollection \/ ReadRegisters \/ ResetDelete \/ ResetNew
      BY <1>1, <3>2
         DEF StopCollection, ReadRegisters, ResetDelete, ResetNew, Go, Places
    <3>3. CASE \E t \in Threads : Step(t)
      <4>1. PICK t \in Threads : Step(t) BY <3>3
      <4>2. CASE \E a \in Accesses : Begin(t, a)
        BY <4>2 DEF Begin, Go, Places, InAccess
      <4>3. CASE Hit(t) \/ ReplaceWay(t)
        BY <4>3 DEF Hit, ReplaceWay, NextLine, Go, Places, InAccess
      <4>4. CASE Miss(t) \/ PickWay(t)
        BY <4>4 DEF Miss, PickWay, Go, Places, InAccess
      <4>5. CASE ReadCount(t) \/ WriteCount(t) \/ ReadProfile(t) \/ WriteProfile(t)
        BY <4>5 DEF ReadCount, WriteCount, ReadProfile, WriteProfile, Go, Places
      <4> QED BY <4>1, <4>2, <4>3, <4>4, <4>5 DEF Step
    <3> QED BY <1>3, <3>1, <3>2, <3>3 DEF NextDCache
  <2>2. pc[Main] # "ended" BY <1>1, <2>1 DEF Reported
  <2>3. pc'[Main] # "ended" BY <1>1, <2>1, <2>2
  <2> QED BY <2>3 DEF Reported
<1> QED BY <1>2, <1>3

\* Every step preserves what is counted.
LEMMA NextCounts ==
    CountInv /\ IndInv /\ [NextDCache]_dcacheVars => CountInv'
<1> SUFFICES ASSUME CountInv, IndInv, [NextDCache]_dcacheVars PROVE CountInv'
  OBVIOUS
<1>1. Shape /\ Own BY DEF IndInv
<1>2. CASE NextDCache
  <2>1. Reported' BY <1>1, <1>2, EndsOnce DEF CountInv
  <2>2. ASSUME ~disturbed' PROVE AllCounted'
    <3>1. AllCounted BY <1>2, <2>2, RacedStays DEF CountInv
    <3>2. CASE \/ StartCollection \/ StopCollection \/ ReadRegisters
               \/ ResetDelete \/ ResetNew \/ Fini
      BY <1>1, <2>2, <3>1, <3>2, ControlCounts
    <3>3. CASE \E t \in Threads : Step(t)
      <4>1. PICK t \in Threads : Step(t) BY <3>3
      <4>2. CASE \E a \in Accesses : Begin(t, a)
        BY <1>1, <3>1, <4>2, BeginCounts DEF AllCounted
      <4>3. CASE ~\E a \in Accesses : Begin(t, a)
        <5>1. made' = made
          BY <4>1, <4>3
             DEF Step, Hit, Miss, PickWay, ReplaceWay, ReadCount, WriteCount,
                 ReadProfile, WriteProfile, historyVars
        <5>2. (\A o \in Objects : AccessCounted(o)') /\ ProfileCounted'
          BY <1>1, <3>1, <4>1, <4>3, LookUpCounts, ReadCounts, WriteCountAccess,
             WriteCountProfile, WriteProfileCounts DEF Step
        <5> QED BY <3>1, <5>1, <5>2 DEF AllCounted
      <4> QED BY <4>2, <4>3
    <3> QED BY <1>2, <3>2, <3>3 DEF NextDCache
  <2> QED BY <2>1, <2>2 DEF CountInv
<1>3. CASE UNCHANGED dcacheVars
  <2>1. UNCHANGED <<pc, frame, access, profile, counted, made, collided,
                    disturbed, report, dl1>>
    BY <1>3 DEF dcacheVars, cacheVars, outVars, historyVars
  <2>2. \A o \in Objects : Pending(o)' = Pending(o) BY <2>1 DEF Pending
  <2>3. Routines' = Routines BY <2>1 DEF Routines, InRoutine
  <2>4. ASSUME AllCounted PROVE AllCounted'
    <3>1. \A o \in Objects : AccessCounted(o)'
      BY <1>1, <2>1, <2>2, <2>4, AccessKept DEF AllCounted
    <3>2. ProfileCounted'
      BY <1>1, <2>1, <2>3, <2>4, ProfileKept DEF AllCounted
    <3> QED BY <2>1, <2>4, <3>1, <3>2 DEF AllCounted
  <2>5. Reported' BY <2>1 DEF CountInv, Reported, Registers, Sum
  <2> QED BY <2>1, <2>4, <2>5 DEF CountInv
<1> QED BY <1>2, <1>3

\* Nothing is counted at first.
LEMMA InitCounts == InitDCache => CountInv
<1> SUFFICES ASSUME InitDCache PROVE CountInv OBVIOUS
<1>1. \A t \in Threads : pc[t] = "app"
  <2>1. pc = [u \in Threads |-> "app"] BY DEF InitDCache
  <2> QED BY <2>1, Zenon
<1>2. Routines = {} BY <1>1 DEF Routines, InRoutine
<1>3. IsFiniteSet({}) /\ Cardinality({}) = 0 BY FS_EmptySet
<1>4. ASSUME NEW o \in Objects PROVE AccessCounted(o)
  <2>1. Pending(o) = {} BY <1>1 DEF Pending, Uncounted, InAccess
  <2>2. access[o] = Zero /\ counted[o] = 0 BY DEF InitDCache
  <2>3. \A y \in Types, h \in BOOLEAN : UpTo(access[o][y][h], Zero[y][h])
    BY <2>2, ZeroUpTo
  <2>4. Total(Zero) + Cardinality(Pending(o)) = counted[o]
    <3>1. 0 + 0 = 0 OBVIOUS
    <3> QED BY <1>3, <2>1, <2>2, <3>1, TotalZero, Zenon
  <2>5. CountedBy(o, Zero) BY <1>1, <2>3, <2>4 DEF CountedBy
  <2> QED BY <1>3, <2>1, <2>5, TotalZero DEF AccessCounted
<1>5. ProfileCounted
  <2> DEFINE d == [h \in BOOLEAN |-> 0]
  <2>1. d \in Counts /\ d[TRUE] = 0 /\ d[FALSE] = 0 BY DEF Counts
  <2>2. profile = d /\ made = 0 BY DEF InitDCache
  <2>3. \A h \in BOOLEAN : UpTo(profile[h], d[h]) BY <2>2 DEF UpTo
  <2>4. d[TRUE] + d[FALSE] + Cardinality(Routines) = 0
    BY <1>2, <1>3, <2>1
  <2> HIDE DEF d
  <2>5. ProfiledBy(d)
    <3>1. \A t \in Threads : pc[t] # "add" BY <1>1, Zenon
    <3>2. 0 <= 0 OBVIOUS
    <3> QED BY <2>2, <2>3, <2>4, <3>1, <3>2, Zenon DEF ProfiledBy
  <2> QED BY <1>2, <1>3, <2>1, <2>5 DEF ProfileCounted
<1>6. Reported BY <1>1, MainAssumption DEF Reported
<1>7. made \in Nat BY DEF InitDCache
<1> QED BY <1>4, <1>5, <1>6, <1>7 DEF CountInv, AllCounted

\* Where nothing is pending, what is accounted for bounds what is stored.
LEMMA TotalBounded ==
    ASSUME Shape, NEW o \in Objects, AccessCounted(o)
    PROVE  /\ Total(access[o]) <= counted[o]
           /\ ~collided /\ Pending(o) = {} => Total(access[o]) = counted[o]
<1>1. PICK d \in [Types -> Counts] : CountedBy(o, d) BY DEF AccessCounted
<1>2. access[o] \in [Types -> Counts] /\ counted[o] \in Nat
  BY DEF Shape, TypeOK
<1>3. Cardinality(Pending(o)) \in Nat
  BY FS_CardinalityType DEF AccessCounted
<1>4. \A y \in Types, h \in BOOLEAN :
        access[o][y][h] <= d[y][h] /\ (~collided => access[o][y][h] = d[y][h])
  BY <1>1 DEF CountedBy, UpTo
<1>5. Total(access[o]) <= Total(d)
  <2>1. PICK i, j, m, n, a, b, c, e \in Nat :
           /\ i = access[o]["load"][TRUE] /\ j = access[o]["store"][TRUE]
           /\ m = access[o]["load"][FALSE] /\ n = access[o]["store"][FALSE]
           /\ a = d["load"][TRUE] /\ b = d["store"][TRUE]
           /\ c = d["load"][FALSE] /\ e = d["store"][FALSE]
    <3>1. /\ access[o]["load"][TRUE] \in Nat /\ access[o]["store"][TRUE] \in Nat
          /\ access[o]["load"][FALSE] \in Nat
          /\ access[o]["store"][FALSE] \in Nat
          /\ d["load"][TRUE] \in Nat /\ d["store"][TRUE] \in Nat
          /\ d["load"][FALSE] \in Nat /\ d["store"][FALSE] \in Nat
      BY <1>2, TotalIs DEF Types
    <3> QED BY <3>1, Zenon
  <2>2. i <= a /\ j <= b /\ m <= c /\ n <= e BY <1>4, <2>1 DEF Types
  <2>3. Total(access[o]) = i + j + (m + n) BY <1>2, <2>1, TotalIs, Zenon
  <2>4. Total(d) = a + b + (c + e) BY <2>1, TotalIs, Zenon
  <2>5. i + j + (m + n) <= a + b + (c + e) BY <2>2
  <2> QED BY <2>3, <2>4, <2>5, Zenon
<1>6. PICK i \in Nat, j \in Nat, m \in Nat, n \in Nat :
         /\ i = Total(access[o]) /\ j = Total(d)
         /\ m = Cardinality(Pending(o)) /\ n = counted[o]
  BY <1>2, <1>3, TotalIs
<1>7. i <= j /\ j + m = n BY <1>1, <1>5, <1>6, Zenon DEF CountedBy
<1>8. i <= n BY <1>7
<1>9. ASSUME ~collided, Pending(o) = {} PROVE i = n
  <2>1. access[o] = d
    <3>1. \A y \in Types : access[o][y] = d[y]
      <4> SUFFICES ASSUME NEW y \in Types PROVE access[o][y] = d[y] OBVIOUS
      <4>1. access[o][y] \in Counts /\ d[y] \in Counts BY <1>2
      <4>2. \A h \in BOOLEAN : access[o][y][h] = d[y][h] BY <1>4, <1>9
      <4> QED BY <4>1, <4>2 DEF Counts
    <3> QED BY <1>2, <3>1
  <2>2. m = 0 BY <1>6, <1>9, FS_EmptySet
  <2>3. i = j BY <1>6, <2>1
  <2> QED BY <1>7, <2>2, <2>3
<1> QED BY <1>6, <1>8, <1>9, Zenon

\* What is accounted for is the property.
LEMMA CountsSuffice == Shape /\ CountInv => EachAccessCountedOnce
<1> SUFFICES ASSUME Shape, CountInv, ~disturbed PROVE EachAccessCountedOnce
  BY DEF EachAccessCountedOnce
<1>1. ASSUME NEW o \in Objects
      PROVE  /\ Total(access[o]) <= counted[o]
             /\ ~collided /\ Quiet(o) => Total(access[o]) = counted[o]
  <2>1. AccessCounted(o) BY DEF CountInv, AllCounted
  <2>2. Quiet(o) => Pending(o) = {}
    BY DEF Quiet, Pending, InRoutine, Uncounted, InAccess
  <2> QED BY <2>1, <2>2, TotalBounded
<1>2. /\ profile[TRUE] + profile[FALSE] <= made
      /\ Profiled = Types /\ ~collided /\ (\A o \in Objects : Quiet(o)) =>
           profile[TRUE] + profile[FALSE] = made
  <2>1. PICK d \in Counts : ProfiledBy(d) BY DEF CountInv, AllCounted, ProfileCounted
  <2>2. IsFiniteSet(Routines) BY DEF CountInv, AllCounted, ProfileCounted
  <2>3. PICK i \in Nat, j \in Nat, a \in Nat, b \in Nat, m \in Nat, n \in Nat :
           /\ i = profile[TRUE] /\ j = profile[FALSE]
           /\ a = d[TRUE] /\ b = d[FALSE]
           /\ m = Cardinality(Routines) /\ n = made
    BY <2>2, FS_CardinalityType DEF Counts, Shape, TypeOK, CountInv, AllCounted
  <2>4. /\ i <= a /\ j <= b /\ (~collided => i = a /\ j = b)
        /\ a + b + m <= n /\ (Profiled = Types => a + b + m = n)
    BY <2>1, <2>3, Zenon DEF ProfiledBy, UpTo
  <2>5. i + j <= n BY <2>4
  <2>6. ASSUME Profiled = Types, ~collided, \A o \in Objects : Quiet(o)
        PROVE  i + j = n
    <3>1. Routines = {}
      BY <2>6, ShapeOf DEF Routines, Quiet
    <3>2. m = 0 BY <2>3, <3>1, FS_EmptySet
    <3>3. i = a /\ j = b /\ a + b + m = n BY <2>4, <2>6
    <3> QED BY <3>2, <3>3
  <2> QED BY <2>3, <2>5, <2>6, Zenon
<1>3. ASSUME pc[Main] = "ended", ~collided
      PROVE  report.hits + report.misses = counted[dl1]
  <2>1. dl1 \in Objects BY DEF Shape, TypeOK
  <2>2. Pending(dl1) = {}
    BY <1>3 DEF CountInv, Reported, Pending, Uncounted, InAccess
  <2>3. AccessCounted(dl1) BY <2>1 DEF CountInv, AllCounted
  <2>4. Total(access[dl1]) = counted[dl1] BY <1>3, <2>1, <2>2, <2>3, TotalBounded
  <2>5. report = Registers(access[dl1]) BY <1>3 DEF CountInv, Reported
  <2> QED BY <2>4, <2>5 DEF Total
<1> QED BY <1>1, <1>2, <1>3 DEF EachAccessCountedOnce

\* As long as no routine and a reset overlap: every tracked access is counted
\* once if no two routines overlap, in the cache it began on and in the profile;
\* an overlap of routines may lose counts and never adds any; and the report is
\* of the accesses since the last reset, whether the new cache is where the
\* deleted one was or elsewhere.
THEOREM EachAccessCountedOnceCorrect == SpecDCache => []EachAccessCountedOnce
<1>1. SpecDCache => []CountInv
  <2>1. InitDCache => CountInv BY InitCounts
  <2>2. CountInv /\ IndInv /\ [NextDCache]_dcacheVars => CountInv' BY NextCounts
  <2> QED BY <2>1, <2>2, Invariance, PTL DEF SpecDCache
<1>2. IndInv /\ CountInv => EachAccessCountedOnce BY CountsSuffice DEF IndInv
<1> QED BY <1>1, <1>2, Invariance, PTL
=============================================================================
