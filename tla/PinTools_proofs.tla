-------------------------- MODULE PinTools_proofs --------------------------
(***************************************************************************)
(* Proofs about the block tools, for any code, any threads and any knobs,  *)
(* and about a program under any of the tools.                             *)
(*                                                                         *)
(* catmix: every instruction that was executed in an instrumented block is *)
(* either in a counter already (Tally, and the dynamic counts), or in a    *)
(* call that a thread has yet to make (Due); the three make up what        *)
(* happened.  trace: every number in the file has its one definition       *)
(* before it, and a call that is yet to be made names a number that is     *)
(* defined already, as its block.                                          *)
(***************************************************************************)
EXTENDS PinTools, DCache_proofs, FunctionTheorems

(***************************************************************************)
(* Counting.                                                               *)
(***************************************************************************)

\* A set has as many elements as a finite one that an injection maps onto it.
LEMMA ImageCard ==
    ASSUME NEW N, IsFiniteSet(N), NEW f,
           \A x, y \in N : f[x] = f[y] => x = y,
           NEW T, \A x \in N : f[x] \in T, \A z \in T : \E x \in N : z = f[x]
    PROVE  IsFiniteSet(T) /\ Cardinality(T) = Cardinality(N)
<1> DEFINE g == [x \in N |-> f[x]]
<1>1. g \in [N -> T] OBVIOUS
<1>2. \A x, y \in N : g[x] = g[y] => x = y OBVIOUS
<1>3. \A z \in T : \E x \in N : g[x] = z OBVIOUS
<1> HIDE DEF g
<1>4. g \in Bijection(N, T) BY <1>1, <1>2, <1>3, Fun_IsBij
<1>5. ExistsBijection(N, T) BY <1>4 DEF ExistsBijection
<1> QED BY <1>5, FS_Bijection

\* U is S and, for each member of N, one thing more.
Extends(U, S, N, f) ==
    /\ S \subseteq U
    /\ \A x, y \in N : f[x] = f[y] => x = y
    /\ \A x \in N : f[x] \in U /\ f[x] \notin S
    /\ \A z \in U : z \in S \/ \E x \in N : z = f[x]

LEMMA ExtendsCard ==
    ASSUME NEW S, NEW U, NEW N, NEW f, Extends(U, S, N, f),
           IsFiniteSet(S) \/ IsFiniteSet(U), IsFiniteSet(N)
    PROVE  /\ IsFiniteSet(S) /\ IsFiniteSet(U)
           /\ Cardinality(S) \in Nat /\ Cardinality(U) \in Nat
           /\ Cardinality(U) = Cardinality(S) + Cardinality(N)
<1>1. PICK T : T = U \ S OBVIOUS
<1>2. IsFiniteSet(T) /\ Cardinality(T) = Cardinality(N)
  <2>1. \A x \in N : f[x] \in T BY <1>1 DEF Extends
  <2>2. \A z \in T : \E x \in N : z = f[x] BY <1>1 DEF Extends
  <2> QED BY <2>1, <2>2, ImageCard DEF Extends
<1>3. S \subseteq U /\ S \cap T = {} /\ S \cup T = U BY <1>1 DEF Extends
<1>4. IsFiniteSet(S) BY <1>3, FS_Subset
<1>5. Cardinality(S \cap T) = 0 BY <1>3, FS_EmptySet
<1>6. /\ IsFiniteSet(S \cup T)
      /\ Cardinality(S \cup T) = Cardinality(S) + Cardinality(T) - 0
  BY <1>2, <1>4, <1>5, FS_Union
<1>7. Cardinality(S) \in Nat /\ Cardinality(T) \in Nat
  BY <1>2, <1>4, FS_CardinalityType
<1>8. /\ Cardinality(S \cup T) = Cardinality(S) + Cardinality(N)
      /\ Cardinality(S \cup T) \in Nat
  BY <1>2, <1>6, <1>7
<1> QED BY <1>3, <1>4, <1>6, <1>7, <1>8, Zenon

(***************************************************************************)
(* Blocks and their lists of indices.                                      *)
(***************************************************************************)

\* What a sequence holds.
LEMMA Members ==
    ASSUME NEW R, NEW s \in Seq(R)
    PROVE  \A k \in DOMAIN s : s[k] \in R
OBVIOUS

LEMMA Concats ==
    ASSUME NEW R, NEW a \in Seq(R), NEW b \in Seq(R),
           NEW m \in Nat, m = Len(a), NEW n \in Nat, n = Len(b)
    PROVE  /\ a \o b \in Seq(R) /\ Len(a \o b) = m + n
           /\ DOMAIN (a \o b) = 1 .. m + n
           /\ \A j \in 1 .. m : (a \o b)[j] = a[j]
           /\ \A k \in 1 .. n : (a \o b)[m + k] = b[k]
<1>1. PICK c : c = a \o b OBVIOUS
<1>2. c \in Seq(R) /\ Len(c) = m + n BY <1>1
<1>3. \A j \in 1 .. m : c[j] = a[j] BY <1>1
<1>4. ASSUME NEW k \in 1 .. n PROVE c[m + k] = b[k]
  <2>1. PICK j \in Nat : j = m + k OBVIOUS
  <2>2. j \in 1 .. m + n /\ ~(j <= m) /\ j - m = k BY <2>1
  <2>3. c[j] = b[j - m] BY <1>1, <2>2
  <2> QED BY <2>1, <2>2, <2>3
<1> QED BY <1>1, <1>2, <1>3, <1>4

LEMMA ReplaceOne ==
    ASSUME NEW R, NEW s \in Seq(R), NEW k \in DOMAIN s, NEW x \in R
    PROVE  [s EXCEPT ![k] = x] \in Seq(R)
<1>1. Len(s) \in Nat /\ DOMAIN s = 1 .. Len(s) OBVIOUS
<1>2. [s EXCEPT ![k] = x] \in [1 .. Len(s) -> R] BY <1>1
<1> QED BY <1>1, <1>2

\* The list of a block is read as its indices.
LEMMA IndexesAre ==
    ASSUME NEW block \in Block
    PROVE  /\ Indexes(block) \in Seq(1 .. 2 * MaxIndex - 1)
           /\ Len(Indexes(block)) = Len(block)
           /\ \A j \in 1 .. Len(block) :
                Indexes(block)[j] = StatsIndex(block[j])
<1>1. block \in Seq(Instruction) BY DEF Block
<1>2. Len(block) \in Nat /\ DOMAIN block = 1 .. Len(block) BY <1>1
<1>3. ASSUME NEW j \in 1 .. Len(block)
      PROVE  StatsIndex(block[j]) \in 1 .. 2 * MaxIndex - 1
  <2>1. block[j] \in Instruction BY <1>1, <1>2
  <2>2. PICK c \in 1 .. MaxIndex - 1 : c = block[j].category
    BY <2>1 DEF Instruction
  <2>3. MaxIndex \in Nat BY CodeAssumption
  <2> QED BY <2>2, <2>3 DEF StatsIndex
<1>4. Indexes(block) = [j \in 1 .. Len(block) |-> StatsIndex(block[j])]
  BY <1>2 DEF Indexes
<1>5. Indexes(block) \in [1 .. Len(block) -> 1 .. 2 * MaxIndex - 1]
  BY <1>3, <1>4
<1> QED BY <1>2, <1>4, <1>5

LEMMA UpToTheZero ==
    ASSUME NEW R, NEW s \in Seq(R), \A k \in R : k # 0
    PROVE  UpToZero(Append(s, 0)) = s
<1>1. PICK n \in Nat : n = Len(s) OBVIOUS
<1>2. PICK z : z = Append(s, 0) OBVIOUS
<1>3. \A j \in 1 .. n : s[j] # 0 BY <1>1
<1>4. /\ DOMAIN z = 1 .. n + 1 /\ z[n + 1] = 0
      /\ \A j \in 1 .. n : z[j] = s[j]
  BY <1>1, <1>2
<1> DEFINE first(k) == z[k] = 0 /\ \A j \in 1 .. k - 1 : z[j] # 0
<1>5. n + 1 \in DOMAIN z /\ first(n + 1) BY <1>3, <1>4
<1>6. ASSUME NEW k \in DOMAIN z, first(k) PROVE k = n + 1
  BY <1>3, <1>4, <1>6
<1>7. UpToZero(z) = SubSeq(z, 1, (CHOOSE k \in DOMAIN z : first(k)) - 1)
  BY DEF UpToZero
<1> HIDE DEF first
<1>8. (CHOOSE k \in DOMAIN z : first(k)) = n + 1 BY <1>5, <1>6
<1>9. UpToZero(z) = SubSeq(z, 1, n)
  <2>1. PICK m : m = CHOOSE k \in DOMAIN z : first(k) OBVIOUS
  <2>2. m - 1 = n
    <3>1. m = n + 1 BY <1>8, <2>1, Zenon
    <3> QED BY <3>1
  <2>3. UpToZero(z) = SubSeq(z, 1, m - 1) BY <1>7, <2>1, Zenon
  <2> QED BY <2>2, <2>3, Zenon
<1>10. SubSeq(z, 1, n) = s
  <2>1. s = [j \in 1 .. n |-> s[j]] BY <1>1
  <2>2. SubSeq(z, 1, n) = [j \in 1 .. n |-> z[j]]
    BY <1>1, <1>4
  <2> QED BY <1>4, <2>1, <2>2
<1> QED BY <1>1, <1>2, <1>9, <1>10

LEMMA ReadUpToZero ==
    ASSUME NEW block \in Block
    PROVE  UpToZero(Append(Indexes(block), 0)) = Indexes(block)
<1>1. Indexes(block) \in Seq(1 .. 2 * MaxIndex - 1) BY IndexesAre
<1>2. \A k \in 1 .. 2 * MaxIndex - 1 : k # 0 BY CodeAssumption
<1> QED BY <1>1, <1>2, UpToTheZero

\* The places of an index in a list are finitely many.
LEMMA PositionsFinite ==
    ASSUME NEW S, NEW s \in Seq(S), NEW i
    PROVE  /\ Positions(s, i) \subseteq 1 .. Len(s)
           /\ IsFiniteSet(Positions(s, i))
           /\ Cardinality(Positions(s, i)) \in Nat
<1>1. Len(s) \in Nat /\ DOMAIN s = 1 .. Len(s) OBVIOUS
<1>2. Positions(s, i) \subseteq 1 .. Len(s) BY <1>1 DEF Positions
<1>3. IsFiniteSet(1 .. Len(s)) BY <1>1, FS_Interval
<1>4. IsFiniteSet(Positions(s, i)) BY <1>2, <1>3, FS_Subset
<1> QED BY <1>2, <1>4, FS_CardinalityType

(***************************************************************************)
(* catmix: the inductive invariant.                                        *)
(***************************************************************************)

\* catmix counts what is executed.
Mixing == knobs.tool = "catmix" /\ ~knobs.static_only

\* What a block's list is read as.
IndexesOf(b) == UpToZero(statsList[b].stats)

Lists   == {Append(Indexes(block), 0) : block \in Block}
AnyCall == [to : {"block", "predicate"}, what : Nat]
Hows    == [calls : Seq(AnyCall), traced : BOOLEAN]
Runs    == [left : Seq([block : Block, how : Hows]), calls : Seq(AnyCall),
            old : Nat, routine : BOOLEAN]

\* A block is counted by a counter with its own list, or not at all.
Mixed(block, how) ==
    /\ block \in Block /\ how \in Hows
    /\ \/ how.calls = <<>> /\ ~how.traced
       \/ /\ how.traced
          /\ \E b \in DOMAIN statsList :
               /\ how.calls = << [to |-> "block", what |-> b] >>
               /\ IndexesOf(b) = Indexes(block)

\* A call is of an allocated counter, or of a predicate's count.
Counting(c) ==
    \/ c.to = "block" /\ c.what \in DOMAIN statsList
    \/ /\ c.to = "predicate" /\ knobs.predicated
       /\ c.what \in 2 * MaxIndex .. 3 * MaxIndex - 1

MixTyped ==
    /\ statsList \in Seq([stats : Lists, counter : Nat])
    /\ dynamic \in [Indices -> Nat] /\ happened \in [Indices -> Nat]
    /\ run \in [Threads -> Runs]
    /\ DOMAIN codeCache = DOMAIN Code

MixShape ==
    /\ MixTyped
    /\ \A tr \in DOMAIN Code : codeCache[tr] # NotCompiled =>
         \A k \in DOMAIN Code[tr] : Mixed(Code[tr][k], codeCache[tr][k])
    /\ \A t \in Threads :
         /\ \A k \in DOMAIN run[t].left :
              Mixed(run[t].left[k].block, run[t].left[k].how)
         /\ \A j \in DOMAIN run[t].calls : Counting(run[t].calls[j])
         /\ run[t].routine => run[t].calls # <<>>

OneRoutine ==
    ~overlapped =>
        \A t, u \in Threads : run[t].routine /\ run[u].routine => t = u

\* Without -p nothing is counted of predicates.
Expected(i) == IF i >= 2 * MaxIndex /\ ~knobs.predicated THEN 0 ELSE happened[i]

\* What the calls that threads have yet to make add at an index: a thread, how
\* many calls it makes after this one, and the place in the block's list.
Adds(c, k, i) ==
    \/ c.to = "block" /\ k \in Positions(IndexesOf(c.what), i)
    \/ c.to = "predicate" /\ k = 0 /\ c.what = i
DueOf(calls, n, k, i) == n < Len(calls) /\ Adds(calls[Len(calls) - n], k, i)
Due(i) ==
    {x \in Threads \X Nat \X Nat : DueOf(run[x[1]].calls, x[2], x[3], i)}

\* What counters d add up to at an index.
Tally(d, i) ==
    {x \in (DOMAIN statsList) \X Nat \X Nat :
        x[2] \in 1 .. d[x[1]] /\ x[3] \in Positions(IndexesOf(x[1]), i)}

\* As in the simulator, stored counts are only bounded by the d and e of what
\* was counted, once threads have collided.
AtMost(n, m) == n <= m /\ (~overlapped => n = m)
ReadAtMost(d, e) ==
    \A t \in Threads : run[t].routine =>
         /\ Call(t).to = "block" => AtMost(run[t].old, d[Call(t).what])
         /\ Call(t).to = "predicate" => AtMost(run[t].old, e[Call(t).what])
Accounted(d, e, i) ==
    /\ IsFiniteSet(Tally(d, i)) /\ IsFiniteSet(Due(i))
    /\ e[i] + Cardinality(Tally(d, i)) + Cardinality(Due(i)) = Expected(i)
MixedBy(d, e) ==
    /\ \A b \in DOMAIN statsList : AtMost(statsList[b].counter, d[b])
    /\ \A i \in Indices : AtMost(dynamic[i], e[i])
    /\ ReadAtMost(d, e)
    /\ \A i \in Indices : Accounted(d, e, i)
MixCounted ==
    \E d \in [DOMAIN statsList -> Nat], e \in [Indices -> Nat] : MixedBy(d, e)

\* A predicate that holds is one of an executed instruction.
HeldIsExecuted ==
    \A c \in 0 .. MaxIndex - 1 :
        happened[PredicatedTrue(c)] <= happened[MaxIndex + c]

\* Once the program has ended, nothing happens.
Settled ==
    /\ \A t \in Threads : Idle(t) /\ ~run[t].routine
    /\ dynamic \in [Indices -> Nat]
    /\ dumped[2] = Rows(dynamic)
    /\ \A i \in Indices : AtMost(dynamic[i], Expected(i))

MixInv ==
    /\ knobs \in KnobSettings /\ overlapped \in BOOLEAN
    /\ Mixing => /\ happened \in [Indices -> Nat] /\ HeldIsExecuted
                 /\ Ended => Settled
                 /\ ~Ended => MixShape /\ OneRoutine /\ MixCounted

(***************************************************************************)
(* What is due and what is tallied.                                        *)
(***************************************************************************)

\* The members of the two sets.
LEMMA DueIs ==
    ASSUME NEW i
    PROVE  \A t, n, k : <<t, n, k>> \in Due(i) <=>
             t \in Threads /\ n \in Nat /\ k \in Nat /\ DueOf(run[t].calls, n, k, i)
BY DEF Due

LEMMA TallyIs ==
    ASSUME NEW d, NEW i
    PROVE  \A b, n, k : <<b, n, k>> \in Tally(d, i) <=>
             /\ b \in DOMAIN statsList /\ n \in Nat /\ k \in Nat
             /\ n \in 1 .. d[b] /\ k \in Positions(IndexesOf(b), i)
BY DEF Tally

\* One more in a counter tallies one more of each place of the index.
LEMMA TallyBump ==
    ASSUME NEW i, NEW b \in DOMAIN statsList, DOMAIN statsList \subseteq Nat,
           NEW d \in [DOMAIN statsList -> Nat],
           NEW e \in [DOMAIN statsList -> Nat],
           e[b] = d[b] + 1, \A c \in DOMAIN statsList : c # b => e[c] = d[c],
           NEW R, IndexesOf(b) \in Seq(R), IsFiniteSet(Tally(d, i))
    PROVE  /\ IsFiniteSet(Tally(e, i))
           /\ Cardinality(Tally(e, i)) =
                Cardinality(Tally(d, i)) + Cardinality(Positions(IndexesOf(b), i))
<1> DEFINE N == Positions(IndexesOf(b), i)
           f == [k \in N |-> <<b, d[b] + 1, k>>]
<1>1. IsFiniteSet(N) /\ N \subseteq Nat BY PositionsFinite
<1>2. \A x, y \in N : f[x] = f[y] => x = y OBVIOUS
<1>3. \A x \in N : f[x] \notin Tally(d, i)
  BY DEF Tally
<1>4. ASSUME NEW x
      PROVE  x \in Tally(e, i) <=> x \in Tally(d, i) \/ \E k \in N : x = f[k]
  <2>1. \A c \in DOMAIN statsList, n \in Nat :
          n \in 1 .. e[c] <=> n \in 1 .. d[c] \/ (c = b /\ n = d[b] + 1)
    OBVIOUS
  <2>2. \A k \in N : f[k] = <<b, d[b] + 1, k>> /\ k \in Nat BY <1>1
  <2>3. x \in (DOMAIN statsList) \X Nat \X Nat =>
          \E c \in DOMAIN statsList, n \in Nat, k \in Nat : x = <<c, n, k>>
    OBVIOUS
  <2>4. ASSUME NEW c \in DOMAIN statsList, NEW n \in Nat, NEW k \in Nat,
               x = <<c, n, k>>
        PROVE  x \in Tally(e, i) <=> x \in Tally(d, i) \/ \E m \in N : x = f[m]
    <3>1. x \in Tally(e, i) <=>
            n \in 1 .. e[c] /\ k \in Positions(IndexesOf(c), i)
      BY <2>4 DEF Tally
    <3>2. x \in Tally(d, i) <=>
            n \in 1 .. d[c] /\ k \in Positions(IndexesOf(c), i)
      BY <2>4 DEF Tally
    <3>3. (\E m \in N : x = f[m]) <=> c = b /\ n = d[b] + 1 /\ k \in N
      BY <2>4, <2>2
    <3> QED BY <2>1, <3>1, <3>2, <3>3
  <2>5. d[b] + 1 \in Nat OBVIOUS
  <2>6. x \in Tally(e, i) \/ x \in Tally(d, i) \/ (\E k \in N : x = f[k])
          => x \in (DOMAIN statsList) \X Nat \X Nat
    BY <2>2, <2>5 DEF Tally
  <2> QED BY <2>3, <2>4, <2>6
<1> HIDE DEF f, N
<1>5. PICK S, U : S = Tally(d, i) /\ U = Tally(e, i) OBVIOUS
<1>6. Extends(U, S, N, f) BY <1>2, <1>3, <1>4, <1>5 DEF Extends
<1>7. IsFiniteSet(U) /\ Cardinality(U) = Cardinality(S) + Cardinality(N)
  BY <1>1, <1>5, <1>6, ExtendsCard
<1> QED BY <1>5, <1>7, Zenon DEF N

(***************************************************************************)
(* What one execution of a block makes happen.                             *)
(***************************************************************************)

\* The indices of a block lie in the first two arrays.
LEMMA NoneBeyond ==
    ASSUME NEW block \in Block, NEW i \in Indices, i >= 2 * MaxIndex
    PROVE  Positions(Indexes(block), i) = {}
<1>1. Indexes(block) \in Seq(1 .. 2 * MaxIndex - 1) BY IndexesAre
<1>2. \A k \in DOMAIN Indexes(block) : Indexes(block)[k] \in 1 .. 2 * MaxIndex - 1
  BY <1>1, Members
<1>3. i \notin 1 .. 2 * MaxIndex - 1 BY CodeAssumption DEF Indices
<1> QED BY <1>2, <1>3 DEF Positions

\* The instructions that are held, and where their predicates are counted.
LEMMA HeldAre ==
    ASSUME NEW block \in Block, NEW held \in Outcomes(block)
    PROVE  \E n \in Nat :
             /\ held \in [1 .. n -> {j \in 1 .. Len(block) : block[j].predicated}]
             /\ \A j, k \in 1 .. n : held[j] = held[k] => j = k
             /\ \A j \in 1 .. n :
                  /\ block[held[j]].category \in 1 .. MaxIndex - 1
                  /\ Indexes(block)[held[j]] = MaxIndex + block[held[j]].category
<1> DEFINE predicated == {j \in DOMAIN block : block[j].predicated}
<1>1. block \in Seq(Instruction) BY DEF Block
<1>2. Len(block) \in Nat /\ DOMAIN block = 1 .. Len(block) BY <1>1
<1>3. IsFiniteSet(predicated)
  <2>1. predicated \subseteq 1 .. Len(block) BY <1>2
  <2>2. IsFiniteSet(1 .. Len(block)) BY <1>2, FS_Interval
  <2> QED BY <2>1, <2>2, FS_Subset
<1>4. Cardinality(predicated) \in Nat BY <1>3, FS_CardinalityType
<1>5. PICK n \in 0 .. Cardinality(predicated) : held \in [1 .. n -> predicated]
  BY DEF Outcomes
<1>6. n \in Nat BY <1>4, <1>5
<1>7. \A j, k \in 1 .. n : held[j] = held[k] => j = k
  <2>1. \A j, k \in DOMAIN held : j < k => held[j] < held[k]
    BY DEF Outcomes
  <2>2. DOMAIN held = 1 .. n BY <1>5
  <2>3. \A j \in 1 .. n : held[j] \in Nat BY <1>2, <1>5
  <2>4. SUFFICES ASSUME NEW j \in 1 .. n, NEW k \in 1 .. n, held[j] = held[k], j # k
                 PROVE  FALSE
    OBVIOUS
  <2>5. j < k \/ k < j BY <2>4
  <2>6. held[j] < held[k] \/ held[k] < held[j] BY <2>1, <2>2, <2>5
  <2> QED BY <2>3, <2>4, <2>6
<1>8. ASSUME NEW j \in 1 .. n
      PROVE  /\ block[held[j]].category \in 1 .. MaxIndex - 1
             /\ Indexes(block)[held[j]] = MaxIndex + block[held[j]].category
  <2>1. held[j] \in 1 .. Len(block) /\ block[held[j]].predicated BY <1>2, <1>5
  <2>2. block[held[j]] \in Instruction BY <1>1, <2>1
  <2>3. Indexes(block)[held[j]] = StatsIndex(block[held[j]])
    BY <2>1, IndexesAre
  <2> QED BY <2>1, <2>2, <2>3 DEF StatsIndex, Instruction
<1> QED BY <1>2, <1>5, <1>6, <1>7, <1>8

\* Where predicates are counted: in the third array.
LEMMA PredicatesAre ==
    ASSUME NEW block \in Block, NEW held \in Outcomes(block)
    PROVE  /\ PredicateIndexes(block, held) \in Seq(2 * MaxIndex .. 3 * MaxIndex - 1)
           /\ Len(PredicateCalls(block, held)) = Len(PredicateIndexes(block, held))
           /\ PredicateCalls(block, held) \in
                Seq([to : {"predicate"}, what : 2 * MaxIndex .. 3 * MaxIndex - 1])
           /\ \A j \in 1 .. Len(PredicateIndexes(block, held)) :
                PredicateCalls(block, held)[j] =
                    [to |-> "predicate", what |-> PredicateIndexes(block, held)[j]]
<1>1. PICK n \in Nat :
        /\ DOMAIN held = 1 .. n
        /\ \A j \in 1 .. n : block[held[j]].category \in 1 .. MaxIndex - 1
  BY HeldAre
<1>2. MaxIndex \in Nat BY CodeAssumption
<1>3. \A j \in 1 .. n :
        PredicatedTrue(block[held[j]].category) \in 2 * MaxIndex .. 3 * MaxIndex - 1
  <2> TAKE j \in 1 .. n
  <2>1. PICK c \in 1 .. MaxIndex - 1 : c = block[held[j]].category BY <1>1
  <2>2. PredicatedTrue(c) \in 2 * MaxIndex .. 3 * MaxIndex - 1
    BY <1>2 DEF PredicatedTrue
  <2> QED BY <2>1, <2>2
<1>4. PICK p : p = PredicateIndexes(block, held) OBVIOUS
<1>5. /\ p \in [1 .. n -> 2 * MaxIndex .. 3 * MaxIndex - 1]
      /\ p = [j \in 1 .. n |-> PredicatedTrue(block[held[j]].category)]
  BY <1>1, <1>3, <1>4 DEF PredicateIndexes
<1>6. p \in Seq(2 * MaxIndex .. 3 * MaxIndex - 1) /\ Len(p) = n BY <1>5
<1>7. PredicateCalls(block, held) =
        [j \in 1 .. n |-> [to |-> "predicate", what |-> p[j]]]
  BY <1>1, <1>4 DEF PredicateCalls
<1>8. PredicateCalls(block, held) \in
        [1 .. n -> [to : {"predicate"}, what : 2 * MaxIndex .. 3 * MaxIndex - 1]]
  BY <1>5, <1>7
<1>9. /\ PredicateCalls(block, held) \in
           Seq([to : {"predicate"}, what : 2 * MaxIndex .. 3 * MaxIndex - 1])
      /\ Len(PredicateCalls(block, held)) = n
      /\ \A j \in 1 .. n :
           PredicateCalls(block, held)[j] = [to |-> "predicate", what |-> p[j]]
  BY <1>7, <1>8
<1> QED BY <1>4, <1>6, <1>9

\* What happens at an index: in the first two arrays the block's instructions
\* of it, in the third the predicates that hold, which are of instructions of
\* the block.
LEMMA HappeningIs ==
    ASSUME NEW block \in Block, NEW held \in Outcomes(block), NEW i \in Indices
    PROVE  /\ Happening(block, held, i) \in Nat
           /\ i < 2 * MaxIndex =>
                Happening(block, held, i) = Cardinality(Positions(Indexes(block), i))
           /\ i >= 2 * MaxIndex =>
                Happening(block, held, i) =
                    Cardinality(Positions(PredicateIndexes(block, held), i))
<1> DEFINE p == PredicateIndexes(block, held)
<1>1. Indexes(block) \in Seq(1 .. 2 * MaxIndex - 1) BY IndexesAre
<1>2. p \in Seq(2 * MaxIndex .. 3 * MaxIndex - 1) BY PredicatesAre
<1>3. /\ Cardinality(Positions(Indexes(block), i)) \in Nat
      /\ Cardinality(Positions(p, i)) \in Nat
  BY <1>1, <1>2, PositionsFinite
<1>4. MaxIndex \in Nat /\ i \in Nat BY CodeAssumption DEF Indices
<1>5. i < 2 * MaxIndex => Cardinality(Positions(p, i)) = 0
  <2>1. \A k \in DOMAIN p : p[k] \in 2 * MaxIndex .. 3 * MaxIndex - 1
    BY <1>2, Members
  <2>2. i < 2 * MaxIndex => i \notin 2 * MaxIndex .. 3 * MaxIndex - 1 BY <1>4
  <2>3. i < 2 * MaxIndex => Positions(p, i) = {} BY <2>1, <2>2 DEF Positions
  <2> QED BY <2>3, FS_EmptySet
<1>6. i >= 2 * MaxIndex => Cardinality(Positions(Indexes(block), i)) = 0
  BY NoneBeyond, FS_EmptySet
<1> HIDE DEF p
<1>7. PICK m \in Nat, n \in Nat :
        /\ m = Cardinality(Positions(Indexes(block), i))
        /\ n = Cardinality(Positions(p, i))
  BY <1>3, Zenon
<1>8. Happening(block, held, i) = m + n BY <1>7, Zenon DEF Happening, p
<1>9. (i < 2 * MaxIndex => n = 0) /\ (i >= 2 * MaxIndex => m = 0)
  BY <1>5, <1>6, <1>7, Zenon
<1>10. /\ m + n \in Nat
       /\ i < 2 * MaxIndex => m + n = m
       /\ i >= 2 * MaxIndex => m + n = n
  BY <1>9
<1> QED BY <1>7, <1>8, <1>10, Zenon DEF p

\* As many instructions of a category are executed as hold their predicate,
\* or more.
LEMMA HeldHappens ==
    ASSUME NEW block \in Block, NEW held \in Outcomes(block),
           NEW c \in 0 .. MaxIndex - 1
    PROVE  Happening(block, held, PredicatedTrue(c))
             <= Happening(block, held, MaxIndex + c)
<1> DEFINE S == Positions(PredicateIndexes(block, held), PredicatedTrue(c))
           T == Positions(Indexes(block), MaxIndex + c)
           f == [k \in S |-> held[k]]
<1>1. MaxIndex \in Nat \ {0} BY CodeAssumption
<1>2. /\ PredicatedTrue(c) \in Indices /\ PredicatedTrue(c) >= 2 * MaxIndex
      /\ MaxIndex + c \in Indices /\ MaxIndex + c < 2 * MaxIndex
  BY <1>1 DEF Indices, PredicatedTrue
<1>3. PICK n \in Nat :
        /\ held \in [1 .. n -> {j \in 1 .. Len(block) : block[j].predicated}]
        /\ \A j, k \in 1 .. n : held[j] = held[k] => j = k
        /\ \A j \in 1 .. n :
             /\ block[held[j]].category \in 1 .. MaxIndex - 1
             /\ Indexes(block)[held[j]] = MaxIndex + block[held[j]].category
  BY HeldAre
<1>4. \A k \in S : k \in 1 .. n /\ block[held[k]].category = c
  <2> TAKE k \in S
  <2>1. k \in 1 .. n /\ PredicatedTrue(block[held[k]].category) = PredicatedTrue(c)
    BY <1>3 DEF Positions, PredicateIndexes
  <2>2. PICK a \in 1 .. MaxIndex - 1 : a = block[held[k]].category BY <1>3, <2>1
  <2>3. PredicatedTrue(a) = PredicatedTrue(c) => a = c
    BY <1>1 DEF PredicatedTrue
  <2> QED BY <2>1, <2>2, <2>3
<1>5. Indexes(block) \in Seq(1 .. 2 * MaxIndex - 1)
      /\ DOMAIN Indexes(block) = DOMAIN block
  BY IndexesAre DEF Indexes
<1>6. DOMAIN block = 1 .. Len(block)
  <2>1. block \in Seq(Instruction) BY DEF Block
  <2> QED BY <2>1
<1>7. \A k \in S : f[k] \in T
  BY <1>3, <1>4, <1>5, <1>6 DEF Positions
<1>8. f \in [S -> T] BY <1>7
<1>9. \A j, k \in S : f[j] = f[k] => j = k BY <1>3, <1>4
<1>10. IsFiniteSet(T) BY <1>5, PositionsFinite
<1>11. Happening(block, held, PredicatedTrue(c)) = Cardinality(S)
  BY <1>2, HappeningIs
<1>12. Happening(block, held, MaxIndex + c) = Cardinality(T)
  BY <1>2, HappeningIs
<1> HIDE DEF S, T, f
<1>13. f \in Injection(S, T) BY <1>8, <1>9, Fun_IsInj
<1>14. Cardinality(S) <= Cardinality(T) BY <1>10, <1>13, FS_Injection
<1> QED BY <1>11, <1>12, <1>14

(***************************************************************************)
(* The calls of a block that is executed.                                  *)
(***************************************************************************)

\* The lists that counters have stay as they are.
ListsKept ==
    \A b \in DOMAIN statsList :
        b \in DOMAIN statsList' /\ IndexesOf(b)' = IndexesOf(b)

\* Blocks stay counted by their counters, and calls count what they counted.
LEMMA MixedKept ==
    ASSUME ListsKept, NEW block, NEW how, Mixed(block, how)
    PROVE  Mixed(block, how)'
<1>1. \A b \in DOMAIN statsList :
        b \in DOMAIN statsList' /\ IndexesOf(b)' = IndexesOf(b)
  BY DEF ListsKept
<1> QED BY <1>1 DEF Mixed

LEMMA CallKept ==
    ASSUME ListsKept, knobs' = knobs, NEW c, Counting(c)
    PROVE  /\ Counting(c)'
           /\ \A k, i : Adds(c, k, i)' <=> Adds(c, k, i)
<1>1. \A b \in DOMAIN statsList :
        b \in DOMAIN statsList' /\ IndexesOf(b)' = IndexesOf(b)
  BY DEF ListsKept
<1>2. Counting(c)' BY <1>1 DEF Counting
<1>3. c.to = "block" => IndexesOf(c.what)' = IndexesOf(c.what)
  BY <1>1 DEF Counting
<1>4. \A k, i : c.to = "block" =>
        (k \in Positions(IndexesOf(c.what), i)' <=>
            k \in Positions(IndexesOf(c.what), i))
  BY <1>3 DEF Positions
<1>5. \A k, i : Adds(c, k, i)' <=> Adds(c, k, i) BY <1>4 DEF Adds
<1> QED BY <1>2, <1>5

LEMMA DuesKept ==
    ASSUME ListsKept, knobs' = knobs, NEW calls \in Seq(AnyCall),
           \A j \in DOMAIN calls : Counting(calls[j])
    PROVE  \A n \in Nat : \A k, i :
             DueOf(calls, n, k, i)' <=> DueOf(calls, n, k, i)
<1> TAKE n \in Nat
<1> TAKE k, i
<1>1. CASE n < Len(calls)
  <2>1. Len(calls) - n \in DOMAIN calls BY <1>1
  <2>2. PICK c : c = calls[Len(calls) - n] OBVIOUS
  <2>3. Counting(c) BY <2>1, <2>2
  <2>4. Adds(c, k, i)' <=> Adds(c, k, i) BY <2>3, CallKept
  <2> QED BY <2>2, <2>4 DEF DueOf
<1>2. CASE ~(n < Len(calls))
  BY <1>2 DEF DueOf
<1> QED BY <1>1, <1>2

\* An injection of N lists what the calls of t add at an index.
OneEach(N, f, t, calls, i) ==
    /\ \A x, y \in N : f[x] = f[y] => x = y
    /\ \A x \in N : f[x] \in {t} \X Nat \X Nat
    /\ \A n, k \in Nat :
         DueOf(calls, n, k, i) <=> \E x \in N : f[x] = <<t, n, k>>

\* What the calls of a block add once it is executed: all that happens.
LEMMA CallsAdd ==
    ASSUME NEW block \in Block, NEW held \in Outcomes(block), NEW i \in Indices,
           knobs' = knobs, NEW b, IndexesOf(b)' = Indexes(block),
           NEW P, P = IF knobs.predicated THEN PredicateCalls(block, held) ELSE <<>>,
           NEW calls, calls = << [to |-> "block", what |-> b] >> \o P,
           NEW t
    PROVE  \E N, f :
             /\ IsFiniteSet(N)
             /\ i >= 2 * MaxIndex /\ ~knobs.predicated => N = {}
             /\ ~(i >= 2 * MaxIndex /\ ~knobs.predicated) =>
                  Cardinality(N) = Happening(block, held, i)
             /\ OneEach(N, f, t, calls, i)'
<1> DEFINE S == [to : {"predicate"}, what : 2 * MaxIndex .. 3 * MaxIndex - 1]
           p == PredicateIndexes(block, held)
<1>1. /\ Indexes(block) \in Seq(1 .. 2 * MaxIndex - 1)
      /\ p \in Seq(2 * MaxIndex .. 3 * MaxIndex - 1)
      /\ Len(PredicateCalls(block, held)) = Len(p)
      /\ PredicateCalls(block, held) \in Seq(S)
      /\ \A j \in 1 .. Len(p) :
           PredicateCalls(block, held)[j] = [to |-> "predicate", what |-> p[j]]
  BY IndexesAre, PredicatesAre
<1>2. \A s \in S : s.to = "predicate" /\ s.what \in 2 * MaxIndex .. 3 * MaxIndex - 1
  OBVIOUS
<1> HIDE DEF S
<1>3. P \in Seq(S)
  <2>1. CASE knobs.predicated BY <1>1, <2>1
  <2>2. CASE ~knobs.predicated
    <3>1. P = <<>> BY <2>2
    <3>2. <<>> \in Seq(S) OBVIOUS
    <3> QED BY <3>1, <3>2, Zenon
  <2> QED BY <2>1, <2>2
<1>4. PICK m \in Nat : m = Len(P) BY <1>3
<1>5. /\ Len(calls) = m + 1
      /\ calls[1] = [to |-> "block", what |-> b]
      /\ \A j \in 1 .. m : calls[j + 1] = P[j]
  BY <1>3, <1>4
<1>6. \A j \in 1 .. m : P[j].to = "predicate" /\ P[j].what \in 2 * MaxIndex .. 3 * MaxIndex - 1
  <2>1. \A j \in 1 .. m : P[j] \in S BY <1>3, <1>4
  <2> QED BY <1>2, <2>1
<1>7. ASSUME NEW n \in Nat, NEW k \in Nat
      PROVE  DueOf(calls, n, k, i)' <=>
               \/ n = m /\ k \in Positions(Indexes(block), i)
               \/ n < m /\ k = 0 /\ P[m - n].what = i
  <2>1. DueOf(calls, n, k, i)' <=>
          n < m + 1 /\ Adds(calls[m + 1 - n], k, i)'
    BY <1>5 DEF DueOf
  <2>2. CASE n = m
    <3>1. PICK c : c = calls[m + 1 - n] OBVIOUS
    <3>2. c.to = "block" /\ c.what = b
      <4>1. m + 1 - n = 1 BY <2>2
      <4> QED BY <1>5, <3>1, <4>1
    <3>3. Adds(c, k, i)' <=> k \in Positions(Indexes(block), i)
      BY <3>2 DEF Adds, Positions
    <3>4. n < m + 1 /\ ~(n < m) BY <2>2
    <3> QED BY <2>1, <2>2, <3>1, <3>3, <3>4
  <2>3. CASE n < m
    <3>1. m - n \in 1 .. m /\ calls[m + 1 - n] = P[m - n]
      <4>1. m - n \in 1 .. m /\ (m - n) + 1 = m + 1 - n BY <2>3
      <4> QED BY <1>5, <4>1
    <3>2. PICK c : c = P[m - n] OBVIOUS
    <3>3. c.to = "predicate" BY <1>6, <3>1, <3>2
    <3>4. Adds(c, k, i)' <=> k = 0 /\ c.what = i BY <3>3 DEF Adds
    <3>5. n < m + 1 /\ n # m BY <2>3
    <3> QED BY <2>1, <2>3, <3>1, <3>2, <3>4, <3>5
  <2>4. CASE n > m BY <2>1, <2>4
  <2> QED BY <2>2, <2>3, <2>4
<1>8. MaxIndex \in Nat /\ i \in Nat BY CodeAssumption DEF Indices
<1> DEFINE N1 == Positions(Indexes(block), i)
           N2 == Positions(p, i)
           f1 == [x \in N1 |-> <<t, m, x>>]
           f2 == [x \in N2 |-> <<t, m - x, 0>>]
<1>9. IsFiniteSet(N1) /\ N1 \subseteq Nat /\ IsFiniteSet(N2)
  <2>1. N1 \subseteq 1 .. Len(Indexes(block)) /\ IsFiniteSet(N1) /\ IsFiniteSet(N2)
    BY <1>1, PositionsFinite
  <2> QED BY <2>1
<1>10. CASE i < 2 * MaxIndex
  <2>1. Cardinality(N1) = Happening(block, held, i) BY <1>10, HappeningIs
  <2>2. \A x, y \in N1 : f1[x] = f1[y] => x = y OBVIOUS
  <2>3. \A x \in N1 : f1[x] \in {t} \X Nat \X Nat BY <1>9
  <2>4. ASSUME NEW n \in Nat, NEW k \in Nat
        PROVE  DueOf(calls, n, k, i)' <=> \E x \in N1 : f1[x] = <<t, n, k>>
    <3>1. n < m => m - n \in 1 .. m OBVIOUS
    <3>2. \A j \in 1 .. m : P[j].what # i BY <1>6, <1>8, <1>10
    <3>3. DueOf(calls, n, k, i)' <=> n = m /\ k \in N1
      BY <1>7, <3>1, <3>2
    <3> QED BY <3>3
  <2>5. ~(i >= 2 * MaxIndex) BY <1>8, <1>10
  <2> HIDE DEF N1, f1
  <2>6. OneEach(N1, f1, t, calls, i)' BY <2>2, <2>3, <2>4 DEF OneEach
  <2> WITNESS N1, f1
  <2> QED BY <1>9, <2>1, <2>5, <2>6
<1>11. CASE i >= 2 * MaxIndex /\ knobs.predicated
  <2>1. Cardinality(N2) = Happening(block, held, i) BY <1>11, HappeningIs
  <2>2. N2 \subseteq 1 .. m /\ \A j \in 1 .. m : P[j].what = i <=> j \in N2
    <3>1. P = PredicateCalls(block, held) BY <1>11
    <3>2. m = Len(p) BY <1>1, <1>4, <3>1
    <3>3. DOMAIN p = 1 .. m BY <1>1, <3>2
    <3>4. N2 \subseteq 1 .. m BY <3>3 DEF Positions
    <3>5. ASSUME NEW j \in 1 .. m PROVE P[j].what = i <=> j \in N2
      <4>1. PredicateCalls(block, held)[j] = [to |-> "predicate", what |-> p[j]]
        BY <1>1, <3>2
      <4>2. P[j].what = p[j] BY <3>1, <4>1
      <4> QED BY <3>3, <4>2 DEF Positions
    <3> QED BY <3>4, <3>5
  <2>3. \A x, y \in N2 : f2[x] = f2[y] => x = y BY <2>2
  <2>4. \A x \in N2 : f2[x] \in {t} \X Nat \X Nat BY <2>2
  <2>5. ASSUME NEW n \in Nat, NEW k \in Nat
        PROVE  DueOf(calls, n, k, i)' <=> \E x \in N2 : f2[x] = <<t, n, k>>
    <3>1. N1 = {} BY <1>11, NoneBeyond
    <3>2. DueOf(calls, n, k, i)' <=> n < m /\ k = 0 /\ P[m - n].what = i
      BY <1>7, <3>1
    <3>3. n < m => m - n \in 1 .. m OBVIOUS
    <3>4. DueOf(calls, n, k, i)' <=> n < m /\ k = 0 /\ m - n \in N2
      BY <2>2, <3>2, <3>3
    <3>5. (\E x \in N2 : f2[x] = <<t, n, k>>) <=> \E x \in N2 : m - x = n /\ k = 0
      BY <2>2
    <3>6. (\E x \in N2 : m - x = n) <=> n < m /\ m - n \in N2 BY <2>2
    <3> QED BY <3>4, <3>5, <3>6
  <2> HIDE DEF N2, f2
  <2>6. OneEach(N2, f2, t, calls, i)' BY <2>3, <2>4, <2>5 DEF OneEach
  <2> WITNESS N2, f2
  <2> QED BY <1>9, <1>11, <2>1, <2>6
<1>12. CASE i >= 2 * MaxIndex /\ ~knobs.predicated
  <2>1. m = 0 /\ N1 = {}
    <3>1. P = <<>> BY <1>12
    <3> QED BY <1>4, <1>12, <3>1, NoneBeyond
  <2>2. \A n, k \in Nat : ~DueOf(calls, n, k, i)' BY <1>7, <2>1
  <2>3. IsFiniteSet({}) BY FS_EmptySet
  <2>4. OneEach({}, <<>>, t, calls, i)' BY <2>2 DEF OneEach
  <2> WITNESS {}, <<>>
  <2> QED BY <1>12, <2>3, <2>4
<1> QED BY <1>8, <1>10, <1>11, <1>12

(***************************************************************************)
(* How a step changes what is due and what is tallied.                     *)
(***************************************************************************)

\* New counters start at zero: nothing is tallied of them.
LEMMA TallyKept ==
    ASSUME ListsKept, NEW d, NEW e, NEW i,
           \A b \in DOMAIN statsList : e[b] = d[b],
           \A b \in DOMAIN statsList' : b \notin DOMAIN statsList => e[b] = 0
    PROVE  Tally(e, i)' = Tally(d, i)
<1>1. \A b \in DOMAIN statsList :
        b \in DOMAIN statsList' /\ IndexesOf(b)' = IndexesOf(b)
  BY DEF ListsKept
<1>2. ASSUME NEW b, NEW n \in Nat, NEW k \in Nat
      PROVE  <<b, n, k>> \in Tally(e, i)' <=> <<b, n, k>> \in Tally(d, i)
  <2>1. <<b, n, k>> \in Tally(d, i) <=>
          b \in DOMAIN statsList /\ n \in 1 .. d[b] /\ k \in Positions(IndexesOf(b), i)
    BY DEF Tally
  <2>2. <<b, n, k>> \in Tally(e, i)' <=>
          b \in DOMAIN statsList' /\ n \in 1 .. e[b] /\ k \in Positions(IndexesOf(b), i)'
    BY DEF Tally
  <2>3. CASE b \in DOMAIN statsList
    <3>1. e[b] = d[b] /\ b \in DOMAIN statsList' BY <1>1, <2>3
    <3>2. Positions(IndexesOf(b), i)' = Positions(IndexesOf(b), i)
      BY <1>1, <2>3 DEF Positions
    <3> QED BY <2>1, <2>2, <2>3, <3>1, <3>2
  <2>4. CASE b \notin DOMAIN statsList
    <3>1. b \in DOMAIN statsList' => n \notin 1 .. e[b] BY <2>4
    <3> QED BY <2>1, <2>2, <2>4, <3>1
  <2> QED BY <2>3, <2>4
<1>3. Tally(e, i)' \subseteq Tally(d, i)
  <2> SUFFICES ASSUME NEW x \in Tally(e, i)' PROVE x \in Tally(d, i) OBVIOUS
  <2>1. PICK b, n, k : x = <<b, n, k>> /\ n \in Nat /\ k \in Nat BY DEF Tally
  <2> QED BY <1>2, <2>1
<1>4. Tally(d, i) \subseteq Tally(e, i)'
  <2> SUFFICES ASSUME NEW x \in Tally(d, i) PROVE x \in Tally(e, i)' OBVIOUS
  <2>1. PICK b, n, k : x = <<b, n, k>> /\ n \in Nat /\ k \in Nat BY DEF Tally
  <2> QED BY <1>2, <2>1
<1> QED BY <1>3, <1>4

\* A thread's calls are of counters that there are.
Calling(t) ==
    /\ run[t].calls \in Seq(AnyCall)
    /\ \A j \in DOMAIN run[t].calls : Counting(run[t].calls[j])

\* What is due of a thread whose calls stay as they are.
LEMMA DueKept ==
    ASSUME ListsKept, knobs' = knobs, NEW u \in Threads, Calling(u),
           run'[u].calls = run[u].calls, NEW i
    PROVE  \A n, k \in Nat : <<u, n, k>> \in Due(i)' <=> <<u, n, k>> \in Due(i)
<1> TAKE n \in Nat, k \in Nat
<1>1. PICK calls : calls = run[u].calls OBVIOUS
<1>2. DueOf(calls, n, k, i)' <=> DueOf(calls, n, k, i)
  BY <1>1, DuesKept DEF Calling
<1>3. <<u, n, k>> \in Due(i)' <=> DueOf(run[u].calls, n, k, i)'
  BY DEF Due
<1>4. DueOf(run[u].calls, n, k, i)' <=> DueOf(calls, n, k, i)'
  BY <1>1 DEF DueOf
<1>5. <<u, n, k>> \in Due(i) <=> DueOf(run[u].calls, n, k, i) BY DEF Due
<1> QED BY <1>1, <1>2, <1>3, <1>4, <1>5

LEMMA DueHas ==
    ASSUME NEW i
    PROVE  /\ \A x \in Due(i) : \E u \in Threads, n, k \in Nat : x = <<u, n, k>>
           /\ \A x \in Due(i)' : \E u \in Threads, n, k \in Nat : x = <<u, n, k>>
BY DEF Due

LEMMA DuesSame ==
    ASSUME ListsKept, knobs' = knobs, \A u \in Threads : Calling(u),
           \A u \in Threads : run'[u].calls = run[u].calls, NEW i
    PROVE  Due(i)' = Due(i)
<1>1. \A u \in Threads, n, k \in Nat :
        <<u, n, k>> \in Due(i)' <=> <<u, n, k>> \in Due(i)
  BY DueKept
<1> QED BY <1>1, DueHas

\* A thread that had no calls has more due.
LEMMA DueStarts ==
    ASSUME ListsKept, knobs' = knobs, \A u \in Threads : Calling(u),
           NEW t \in Threads, run[t].calls = <<>>,
           \A u \in Threads \ {t} : run'[u].calls = run[u].calls,
           NEW calls, run'[t].calls = calls,
           NEW i, NEW N, NEW f, OneEach(N, f, t, calls, i)'
    PROVE  Extends(Due(i)', Due(i), N, f)
<1>1. \A u \in Threads \ {t}, n, k \in Nat :
        <<u, n, k>> \in Due(i)' <=> <<u, n, k>> \in Due(i)
  BY DueKept
<1>2. \A n, k \in Nat : <<t, n, k>> \notin Due(i)
  <2>1. \A n \in Nat : ~(n < Len(run[t].calls)) OBVIOUS
  <2> QED BY <2>1 DEF Due, DueOf
<1>3. \A n, k \in Nat : <<t, n, k>> \in Due(i)' <=> \E x \in N : f[x] = <<t, n, k>>
  <2>1. \A n, k \in Nat : <<t, n, k>> \in Due(i)' <=> DueOf(run[t].calls, n, k, i)'
    BY DEF Due
  <2>2. \A n, k \in Nat : DueOf(run[t].calls, n, k, i)' <=> DueOf(calls, n, k, i)'
    BY DEF DueOf
  <2> QED BY <2>1, <2>2 DEF OneEach
<1>4. \A x \in N : \E n, k \in Nat : f[x] = <<t, n, k>>
  BY DEF OneEach
<1>5. /\ Due(i) \subseteq Due(i)'
      /\ \A x \in N : f[x] \in Due(i)' /\ f[x] \notin Due(i)
      /\ \A z \in Due(i)' : z \in Due(i) \/ \E x \in N : z = f[x]
  <2>1. Due(i) \subseteq Due(i)'
    <3> SUFFICES ASSUME NEW z \in Due(i) PROVE z \in Due(i)' OBVIOUS
    <3>1. PICK u \in Threads, n \in Nat, k \in Nat : z = <<u, n, k>> BY DueHas
    <3>2. u # t BY <1>2, <3>1
    <3> QED BY <1>1, <3>1, <3>2
  <2>2. \A x \in N : f[x] \in Due(i)' /\ f[x] \notin Due(i)
    BY <1>2, <1>3, <1>4
  <2>3. ASSUME NEW z \in Due(i)'
        PROVE  z \in Due(i) \/ \E x \in N : z = f[x]
    <3>1. PICK u \in Threads, n \in Nat, k \in Nat : z = <<u, n, k>> BY DueHas
    <3>2. CASE u = t BY <1>3, <3>1, <3>2
    <3>3. CASE u # t BY <1>1, <3>1, <3>3
    <3> QED BY <3>2, <3>3
  <2> QED BY <2>1, <2>2, <2>3
<1>6. \A x, y \in N : f[x] = f[y] => x = y BY DEF OneEach
<1> QED BY <1>5, <1>6 DEF Extends

\* A thread that has made a call has it no longer due.
LEMMA DueEnds ==
    ASSUME ListsKept, knobs' = knobs, \A u \in Threads : Calling(u),
           NEW t \in Threads, run[t].calls # <<>>,
           \A u \in Threads \ {t} : run'[u].calls = run[u].calls,
           run'[t].calls = Tail(run[t].calls),
           NEW i, NEW c, c = Head(run[t].calls),
           NEW N, N = {k \in Nat : Adds(c, k, i)}
    PROVE  Extends(Due(i), Due(i)', N, [k \in N |-> <<t, Len(run[t].calls) - 1, k>>])
<1>1. \A u \in Threads \ {t}, n, k \in Nat :
        <<u, n, k>> \in Due(i)' <=> <<u, n, k>> \in Due(i)
  BY DueKept
<1>2. PICK calls : calls = run[t].calls OBVIOUS
<1>3. calls \in Seq(AnyCall) /\ calls # <<>> /\ c = Head(calls)
      /\ \A j \in DOMAIN calls : Counting(calls[j])
  BY <1>2 DEF Calling
<1>4. PICK m \in Nat : Len(calls) = m + 1
  <2>1. Len(calls) \in Nat \ {0} BY <1>3
  <2>2. Len(calls) - 1 \in Nat /\ Len(calls) = (Len(calls) - 1) + 1 BY <2>1
  <2> QED BY <2>2
<1>5. /\ Tail(calls) \in Seq(AnyCall) /\ Len(Tail(calls)) = m
      /\ \A j \in 1 .. m : Tail(calls)[j] = calls[j + 1]
      /\ calls[1] = c
  BY <1>3, <1>4
<1>6. \A j \in DOMAIN Tail(calls) : Counting(Tail(calls)[j])
  <2>1. DOMAIN Tail(calls) = 1 .. m BY <1>5
  <2>2. \A j \in 1 .. m : j + 1 \in DOMAIN calls BY <1>3, <1>4
  <2> QED BY <1>3, <1>5, <2>1, <2>2
<1>7. ASSUME NEW n \in Nat, NEW k \in Nat
      PROVE  <<t, n, k>> \in Due(i) <=> <<t, n, k>> \in Due(i)' \/ (n = m /\ k \in N)
  <2>1. <<t, n, k>> \in Due(i) <=> DueOf(calls, n, k, i) BY <1>2 DEF Due
  <2>2. <<t, n, k>> \in Due(i)' <=> DueOf(Tail(calls), n, k, i)
    <3>1. <<t, n, k>> \in Due(i)' <=> DueOf(run[t].calls, n, k, i)' BY DEF Due
    <3>2. PICK rest : rest = Tail(calls) OBVIOUS
    <3>3. DueOf(run[t].calls, n, k, i)' <=> DueOf(rest, n, k, i)'
      BY <1>2, <3>2 DEF DueOf
    <3>4. DueOf(rest, n, k, i)' <=> DueOf(rest, n, k, i)
      BY <1>5, <1>6, <3>2, DuesKept
    <3> QED BY <3>1, <3>2, <3>3, <3>4
  <2>3. CASE n < m
    <3>1. m - n \in 1 .. m /\ m + 1 - n = (m - n) + 1 BY <2>3
    <3>2. Tail(calls)[m - n] = calls[m + 1 - n] BY <1>5, <3>1
    <3>3. DueOf(calls, n, k, i) <=> DueOf(Tail(calls), n, k, i)
      BY <1>4, <1>5, <2>3, <3>2 DEF DueOf
    <3> QED BY <2>1, <2>2, <2>3, <3>3
  <2>4. CASE n = m
    <3>1. ~DueOf(Tail(calls), n, k, i) BY <1>5, <2>4 DEF DueOf
    <3>2. DueOf(calls, n, k, i) <=> Adds(c, k, i)
      <4>1. m + 1 - n = 1 /\ n < m + 1 BY <2>4
      <4> QED BY <1>4, <1>5, <4>1 DEF DueOf
    <3>3. k \in N <=> Adds(c, k, i) OBVIOUS
    <3> QED BY <2>1, <2>2, <2>4, <3>1, <3>2, <3>3
  <2>5. CASE n > m
    <3>1. ~(n < m + 1) /\ ~(n < m) BY <2>5
    <3> QED BY <1>4, <1>5, <2>1, <2>2, <2>5, <3>1 DEF DueOf
  <2> QED BY <2>3, <2>4, <2>5
<1>8. \A n, k \in Nat : ~(n < m) => <<t, n, k>> \notin Due(i)'
  <2>1. Len(run[t].calls)' = m BY <1>2, <1>5
  <2> QED BY <2>1 DEF Due, DueOf
<1> DEFINE f == [k \in N |-> <<t, Len(run[t].calls) - 1, k>>]
<1>9. \A k \in N : f[k] = <<t, m, k>> /\ k \in Nat
  BY <1>2, <1>4
<1>10. \A j, k \in N : f[j] = f[k] => j = k BY <1>9
<1>11. \A k \in N : f[k] \in Due(i) /\ f[k] \notin Due(i)'
  <2> TAKE k \in N
  <2>1. <<t, m, k>> \in Due(i) BY <1>7, <1>9
  <2>2. <<t, m, k>> \notin Due(i)' BY <1>8, <1>9
  <2> QED BY <1>9, <2>1, <2>2
<1> HIDE DEF f
<1>12. Due(i)' \subseteq Due(i)
  <2> SUFFICES ASSUME NEW z \in Due(i)' PROVE z \in Due(i) OBVIOUS
  <2>1. PICK u \in Threads, n \in Nat, k \in Nat : z = <<u, n, k>> BY DueHas
  <2> QED BY <1>1, <1>7, <2>1
<1>13. ASSUME NEW z \in Due(i) PROVE z \in Due(i)' \/ \E k \in N : z = f[k]
  <2>1. PICK u \in Threads, n \in Nat, k \in Nat : z = <<u, n, k>> BY DueHas
  <2>2. CASE u = t BY <1>7, <1>9, <2>1, <2>2
  <2>3. CASE u # t BY <1>1, <2>1, <2>3
  <2> QED BY <2>2, <2>3
<1>14. Extends(Due(i), Due(i)', N, f)
  BY <1>10, <1>11, <1>12, <1>13 DEF Extends
<1> QED BY <1>14 DEF f

(***************************************************************************)
(* A thread executes a block.                                              *)
(***************************************************************************)

\* What the shape says of the lists and the calls.
LEMMA ShapeGives ==
    ASSUME MixShape
    PROVE  /\ DOMAIN statsList \subseteq Nat
           /\ \A b \in DOMAIN statsList :
                /\ statsList[b] \in [stats : Lists, counter : Nat]
                /\ IndexesOf(b) \in Seq(1 .. 2 * MaxIndex - 1)
           /\ \A t \in Threads :
                run[t] \in Runs /\ Calling(t) /\ (run[t].calls = <<>> => ~run[t].routine)
<1>1. statsList \in Seq([stats : Lists, counter : Nat]) BY DEF MixShape, MixTyped
<1>2. DOMAIN statsList \subseteq Nat BY <1>1
<1>3. \A b \in DOMAIN statsList : statsList[b] \in [stats : Lists, counter : Nat]
  BY <1>1, Members
<1>4. ASSUME NEW b \in DOMAIN statsList
      PROVE  IndexesOf(b) \in Seq(1 .. 2 * MaxIndex - 1)
  <2>1. statsList[b].stats \in Lists BY <1>3
  <2>2. PICK block \in Block : statsList[b].stats = Append(Indexes(block), 0)
    BY <2>1 DEF Lists
  <2>3. IndexesOf(b) = Indexes(block) BY <2>2, ReadUpToZero DEF IndexesOf
  <2> QED BY <2>3, IndexesAre
<1>5. ASSUME NEW t \in Threads
      PROVE  run[t] \in Runs /\ Calling(t) /\ (run[t].calls = <<>> => ~run[t].routine)
  <2>1. run[t] \in Runs BY DEF MixShape, MixTyped
  <2>2. run[t].calls \in Seq(AnyCall) BY <2>1 DEF Runs
  <2> QED BY <2>1, <2>2 DEF MixShape, Calling
<1> QED BY <1>2, <1>3, <1>4, <1>5

LEMMA AtMostStays ==
    ASSUME overlapped => overlapped', NEW n, NEW m, AtMost(n, m)
    PROVE  AtMost(n, m)'
BY DEF AtMost

\* The calls that a thread comes to have, and what happens.
Executes(t, left, block, calls, held) ==
    /\ \A j \in DOMAIN calls : Counting(calls[j])'
    /\ run' = [run EXCEPT ![t].calls = calls, ![t].left = Tail(left)]
    /\ \/ calls = <<>> /\ happened' = happened
       \/ /\ happened' = [i \in Indices |-> happened[i] + Happening(block, held, i)]
          /\ \E b : /\ IndexesOf(b)' = Indexes(block)
                    /\ calls = << [to |-> "block", what |-> b] >> \o
                         (IF knobs.predicated THEN PredicateCalls(block, held)
                          ELSE <<>>)

LEMMA ExecuteIs ==
    ASSUME Mixing, MixShape, knobs' = knobs, NEW t \in Threads,
           NEW left \in Seq([block : Block, how : Hows]),
           \A k \in DOMAIN left : Mixed(left[k].block, left[k].how)',
           Execute(t, left)
    PROVE  \E block \in Block, calls \in Seq(AnyCall) : \E held \in Outcomes(block) :
             Executes(t, left, block, calls, held)
<1>1. left # <<>> BY DEF Execute
<1>2. PICK block, how : block = Head(left).block /\ how = Head(left).how OBVIOUS
<1>3. 1 \in DOMAIN left /\ Head(left) = left[1] BY <1>1
<1>4. left[1] \in [block : Block, how : Hows] BY <1>3, Members
<1>5. block \in Block /\ how \in Hows /\ Mixed(block, how)'
  <2>1. PICK b1, h1 : b1 = left[1].block /\ h1 = left[1].how OBVIOUS
  <2>2. Mixed(b1, h1)' BY <1>3, <2>1
  <2> QED BY <1>2, <1>3, <1>4, <2>1, <2>2
<1>6. PICK held \in Outcomes(block) :
        LET more == IF knobs.tool = "catmix" /\ knobs.predicated /\ how.traced
                    THEN PredicateCalls(block, held) ELSE <<>>
        IN  /\ run' = [run EXCEPT ![t].calls = how.calls \o more,
                                  ![t].left = Tail(left)]
            /\ happened' = IF knobs.tool = "catmix" /\ how.traced
                           THEN [i \in Indices |->
                                   happened[i] + Happening(block, held, i)]
                           ELSE happened
  BY <1>2 DEF Execute
<1>7. CASE how.calls = <<>> /\ ~how.traced
  <2>1. <<>> \o <<>> = <<>> OBVIOUS
  <2>2. run' = [run EXCEPT ![t].calls = <<>>, ![t].left = Tail(left)]
    BY <1>6, <1>7, <2>1
  <2>3. happened' = happened BY <1>6, <1>7
  <2>4. <<>> \in Seq(AnyCall) /\ DOMAIN <<>> = {} OBVIOUS
  <2>5. Executes(t, left, block, <<>>, held) BY <2>2, <2>3, <2>4 DEF Executes
  <2> QED BY <1>5, <2>4, <2>5
<1>8. CASE how.traced /\ \E b \in DOMAIN statsList' :
             /\ how.calls = << [to |-> "block", what |-> b] >>
             /\ IndexesOf(b)' = Indexes(block)
  <2>1. PICK b \in DOMAIN statsList' :
          /\ how.calls = << [to |-> "block", what |-> b] >>
          /\ IndexesOf(b)' = Indexes(block)
    BY <1>8
  <2>2. PICK P : P = IF knobs.predicated THEN PredicateCalls(block, held) ELSE <<>>
    OBVIOUS
  <2>3. PICK calls : calls = << [to |-> "block", what |-> b] >> \o P OBVIOUS
  <2>4. run' = [run EXCEPT ![t].calls = calls, ![t].left = Tail(left)]
    BY <1>6, <1>8, <2>1, <2>2, <2>3 DEF Mixing
  <2>5. happened' = [i \in Indices |-> happened[i] + Happening(block, held, i)]
    BY <1>6, <1>8 DEF Mixing
  <2> DEFINE S == [to : {"predicate"}, what : 2 * MaxIndex .. 3 * MaxIndex - 1]
             One == [to |-> "block", what |-> b]
  <2>6. \A c \in S : c \in AnyCall /\ (knobs.predicated => Counting(c)')
    <3>1. MaxIndex \in Nat BY CodeAssumption
    <3> QED BY <3>1 DEF AnyCall, Counting
  <2>7. PredicateCalls(block, held) \in Seq(S) BY <1>5, PredicatesAre
  <2>8. One \in AnyCall /\ Counting(One)'
    <3>1. how.calls \in Seq(AnyCall) BY <1>5 DEF Hows
    <3>2. <<One>> \in Seq(AnyCall) BY <2>1, <3>1, Zenon
    <3> HIDE DEF One
    <3>3. One \in AnyCall BY <3>2
    <3> QED BY <2>1, <3>3 DEF One, Counting
  <2> HIDE DEF S, One
  <2>9. P \in Seq(S) /\ (P = <<>> \/ knobs.predicated)
    <3>1. <<>> \in Seq(S) OBVIOUS
    <3> QED BY <2>2, <2>7, <3>1, Zenon
  <2>10. P \in Seq(AnyCall) /\ \A j \in 1 .. Len(P) : Counting(P[j])'
    <3>1. \A j \in 1 .. Len(P) : P[j] \in S BY <2>9
    <3>2. P \in Seq(AnyCall) BY <2>6, <2>9, <3>1
    <3>3. ASSUME NEW j \in 1 .. Len(P) PROVE Counting(P[j])'
      <4>1. PICK c : c = P[j] OBVIOUS
      <4>2. c \in S /\ knobs.predicated BY <2>9, <3>1, <4>1
      <4>3. Counting(c)' BY <2>6, <4>2
      <4> QED BY <4>1, <4>3
    <3> QED BY <3>2, <3>3
  <2>11. /\ calls \in Seq(AnyCall) /\ DOMAIN calls = 1 .. Len(P) + 1
         /\ calls[1] = One /\ \A j \in 1 .. Len(P) : calls[j + 1] = P[j]
    <3>1. calls = <<One>> \o P BY <2>3 DEF One
    <3> QED BY <2>8, <2>10, <3>1
  <2>12. ASSUME NEW j \in DOMAIN calls PROVE Counting(calls[j])'
    <3>1. PICK c : c = calls[j] OBVIOUS
    <3>2. CASE j = 1 BY <2>8, <2>11, <3>1, <3>2
    <3>3. CASE j # 1
      <4>1. j - 1 \in 1 .. Len(P) /\ j = (j - 1) + 1 BY <2>10, <2>11, <3>3
      <4>2. c = P[j - 1] BY <2>11, <3>1, <4>1
      <4> QED BY <2>10, <3>1, <4>1, <4>2
    <3> QED BY <3>2, <3>3
  <2>13. Executes(t, left, block, calls, held)
    BY <2>1, <2>2, <2>3, <2>4, <2>5, <2>12 DEF Executes
  <2> QED BY <1>5, <2>11, <2>13
<1> QED BY <1>5, <1>7, <1>8 DEF Mixed

\* The lists and the code cache as compilation leaves them.
Compiled ==
    /\ ListsKept
    /\ statsList' \in Seq([stats : Lists, counter : Nat])
    /\ \A b \in DOMAIN statsList : statsList'[b] = statsList[b]
    /\ \A b \in DOMAIN statsList' : b \notin DOMAIN statsList => statsList'[b].counter = 0
    /\ DOMAIN codeCache' = DOMAIN Code
    /\ \A tr \in DOMAIN Code : codeCache'[tr] # NotCompiled =>
         \A k \in DOMAIN Code[tr] : Mixed(Code[tr][k], codeCache[tr][k])'

\* A thread's place in its trace stays one of blocks that are counted or not.
LEMMA PlaceKept ==
    ASSUME MixShape, ListsKept, knobs' = knobs, NEW u \in Threads, run'[u] = run[u]
    PROVE  /\ \A k \in DOMAIN run'[u].left :
                Mixed(run[u].left[k].block, run[u].left[k].how)'
           /\ \A j \in DOMAIN run'[u].calls : Counting(run[u].calls[j])'
           /\ run'[u].routine => run'[u].calls # <<>>
<1>1. ASSUME NEW k \in DOMAIN run'[u].left
      PROVE  Mixed(run[u].left[k].block, run[u].left[k].how)'
  <2>1. PICK b, h : b = run[u].left[k].block /\ h = run[u].left[k].how OBVIOUS
  <2>2. Mixed(b, h) BY <2>1 DEF MixShape
  <2>3. Mixed(b, h)' BY <2>2, MixedKept
  <2>4. (b = run[u].left[k].block /\ h = run[u].left[k].how)' BY <2>1
  <2> QED BY <2>3, <2>4
<1>2. ASSUME NEW j \in DOMAIN run'[u].calls
      PROVE  Counting(run[u].calls[j])'
  <2>1. PICK c : c = run[u].calls[j] OBVIOUS
  <2>2. Counting(c) BY <2>1 DEF MixShape
  <2>3. Counting(c)' BY <2>2, CallKept
  <2> QED BY <2>1, <2>3
<1>3. run'[u].routine => run'[u].calls # <<>> BY DEF MixShape
<1> QED BY <1>1, <1>2, <1>3

LEMMA ExecuteShape ==
    ASSUME Mixing, MixShape, Compiled, knobs' = knobs, NEW t \in Threads,
           NEW left \in Seq([block : Block, how : Hows]),
           \A k \in DOMAIN left : Mixed(left[k].block, left[k].how)',
           Execute(t, left)
    PROVE  MixShape'
<1>1. PICK block \in Block, calls \in Seq(AnyCall) :
        \E held \in Outcomes(block) : Executes(t, left, block, calls, held)
  BY ExecuteIs
<1>2. left # <<>> /\ dynamic' = dynamic /\ run[t].calls = <<>>
  BY DEF Execute, Idle
<1>3. run[t] \in Runs /\ ~run[t].routine BY <1>2, ShapeGives
<1>4. Tail(left) \in Seq([block : Block, how : Hows])
      /\ \A k \in DOMAIN Tail(left) : k + 1 \in DOMAIN left /\ Tail(left)[k] = left[k + 1]
  BY <1>2
<1>5. /\ DOMAIN run = Threads /\ DOMAIN run' = Threads
      /\ \A u \in Threads \ {t} : run'[u] = run[u]
      /\ run'[t].calls = calls /\ run'[t].left = Tail(left)
      /\ run'[t].old = run[t].old /\ run'[t].routine = run[t].routine
      /\ run'[t] = [run[t] EXCEPT !.calls = calls, !.left = Tail(left)]
  <2>1. run \in [Threads -> Runs] BY DEF MixShape, MixTyped
  <2> QED BY <1>1, <1>3, <2>1 DEF Runs, Executes
<1>6. MixTyped'
  <2>1. run' \in [Threads -> Runs]
    <3>1. \A u \in Threads : run[u] \in Runs BY DEF MixShape, MixTyped
    <3>2. run'[t] \in Runs BY <1>1, <1>3, <1>4, <1>5 DEF Runs
    <3>3. \A u \in Threads : run'[u] \in Runs BY <1>5, <3>1, <3>2
    <3>4. run' = [u \in Threads |-> run'[u]]
      <4>1. run \in [Threads -> Runs] BY DEF MixShape, MixTyped
      <4> QED BY <1>1, <4>1 DEF Executes
    <3> QED BY <3>3, <3>4
  <2>2. happened' \in [Indices -> Nat]
    <3>1. happened \in [Indices -> Nat] BY DEF MixShape, MixTyped
    <3>2. \A held \in Outcomes(block), i \in Indices :
            Happening(block, held, i) \in Nat
      BY HappeningIs
    <3>3. \A held \in Outcomes(block) :
            [i \in Indices |-> happened[i] + Happening(block, held, i)] \in [Indices -> Nat]
      BY <3>1, <3>2
    <3> QED BY <1>1, <3>1, <3>3 DEF Executes
  <2>3. dynamic' \in [Indices -> Nat] BY <1>2 DEF MixShape, MixTyped
  <2> QED BY <2>1, <2>2, <2>3 DEF MixTyped, Compiled
<1>7. ASSUME NEW u \in Threads
      PROVE  /\ \A k \in DOMAIN run'[u].left :
                  Mixed(run[u].left[k].block, run[u].left[k].how)'
             /\ \A j \in DOMAIN run'[u].calls : Counting(run[u].calls[j])'
             /\ run'[u].routine => run'[u].calls # <<>>
  <2>1. CASE u # t BY <1>5, <2>1, PlaceKept DEF Compiled
  <2>2. CASE u = t
    <3>1. ASSUME NEW k \in DOMAIN run'[u].left
          PROVE  Mixed(run[u].left[k].block, run[u].left[k].how)'
      <4>1. k + 1 \in DOMAIN left /\ run'[u].left[k] = left[k + 1]
        BY <1>4, <1>5, <2>2
      <4>2. PICK b, h : b = left[k + 1].block /\ h = left[k + 1].how OBVIOUS
      <4>3. Mixed(b, h)' BY <4>1, <4>2
      <4> QED BY <4>1, <4>2, <4>3
    <3>2. \A j \in DOMAIN run'[u].calls : Counting(run[u].calls[j])'
      BY <1>1, <1>5, <2>2 DEF Executes
    <3>3. ~run'[u].routine BY <1>3, <1>5, <2>2
    <3> QED BY <3>1, <3>2, <3>3
  <2> QED BY <2>1, <2>2
<1>8. \A tr \in DOMAIN Code : (codeCache[tr] # NotCompiled =>
         \A k \in DOMAIN Code[tr] : Mixed(Code[tr][k], codeCache[tr][k]))'
  BY DEF Compiled
<1> QED BY <1>6, <1>7, <1>8 DEF MixShape

\* What is due of a thread that executes a block is all that happens.
LEMMA ExecuteDue ==
    ASSUME Mixing, MixShape, ListsKept, knobs' = knobs, NEW t \in Threads,
           run[t].calls = <<>>, NEW left, NEW block \in Block, NEW calls,
           NEW held \in Outcomes(block), Executes(t, left, block, calls, held),
           NEW i \in Indices, IsFiniteSet(Due(i)), NEW n \in Nat,
           n + Cardinality(Due(i)) = Expected(i)
    PROVE  IsFiniteSet(Due(i)') /\ n + Cardinality(Due(i)') = Expected(i)'
<1>1. /\ run \in [Threads -> Runs] /\ happened \in [Indices -> Nat]
      /\ \A u \in Threads : Calling(u)
  BY ShapeGives DEF MixShape, MixTyped
<1>2. /\ \A u \in Threads \ {t} : run'[u].calls = run[u].calls
      /\ run'[t].calls = calls
  BY <1>1 DEF Executes, Runs
<1>3. CASE calls = <<>> /\ happened' = happened
  <2>1. \A u \in Threads : run'[u].calls = run[u].calls BY <1>2, <1>3
  <2>2. Due(i)' = Due(i) BY <1>1, <2>1, DuesSame
  <2>3. Expected(i)' = Expected(i) BY <1>3 DEF Expected
  <2> QED BY <2>2, <2>3
<1>4. CASE /\ happened' = [j \in Indices |-> happened[j] + Happening(block, held, j)]
           /\ \E b : /\ IndexesOf(b)' = Indexes(block)
                     /\ calls = << [to |-> "block", what |-> b] >> \o
                          (IF knobs.predicated THEN PredicateCalls(block, held)
                           ELSE <<>>)
  <2>1. PICK b : /\ IndexesOf(b)' = Indexes(block)
                 /\ calls = << [to |-> "block", what |-> b] >> \o
                      (IF knobs.predicated THEN PredicateCalls(block, held)
                       ELSE <<>>)
    BY <1>4
  <2>2. PICK N, f :
          /\ IsFiniteSet(N)
          /\ i >= 2 * MaxIndex /\ ~knobs.predicated => N = {}
          /\ ~(i >= 2 * MaxIndex /\ ~knobs.predicated) =>
               Cardinality(N) = Happening(block, held, i)
          /\ OneEach(N, f, t, calls, i)'
    BY <2>1, CallsAdd
  <2>3. Extends(Due(i)', Due(i), N, f) BY <1>1, <1>2, <2>2, DueStarts
  <2>4. PICK S, U : S = Due(i) /\ U = Due(i)' OBVIOUS
  <2>5. /\ IsFiniteSet(U) /\ Cardinality(S) \in Nat /\ Cardinality(U) \in Nat
        /\ Cardinality(U) = Cardinality(S) + Cardinality(N)
    BY <2>2, <2>3, <2>4, ExtendsCard
  <2>6. Cardinality(N) \in Nat BY <2>2, FS_CardinalityType
  <2>7. PICK s \in Nat, u \in Nat, m \in Nat :
          s = Cardinality(S) /\ u = Cardinality(U) /\ m = Cardinality(N)
    BY <2>5, <2>6, Zenon
  <2>8. u = s + m BY <2>5, <2>7, Zenon
  <2>9. n + s = Expected(i) BY <2>4, <2>7, Zenon
  <2>10. n + u = Expected(i)'
    <3>1. CASE i >= 2 * MaxIndex /\ ~knobs.predicated
      <4>1. m = 0 BY <2>2, <2>7, <3>1, FS_EmptySet
      <4>2. Expected(i) = 0 /\ Expected(i)' = 0 BY <3>1 DEF Expected
      <4> QED BY <2>8, <2>9, <4>1, <4>2
    <3>2. CASE ~(i >= 2 * MaxIndex /\ ~knobs.predicated)
      <4>1. m = Happening(block, held, i) BY <2>2, <2>7, <3>2
      <4>2. Expected(i) = happened[i] /\ Expected(i)' = happened'[i]
        BY <3>2 DEF Expected
      <4>3. happened'[i] = happened[i] + m BY <1>4, <4>1
      <4>4. happened[i] \in Nat BY <1>1
      <4> QED BY <2>8, <2>9, <4>2, <4>3, <4>4
    <3> QED BY <3>1, <3>2
  <2> QED BY <2>4, <2>5, <2>7, <2>10, Zenon
<1> QED BY <1>3, <1>4 DEF Executes

LEMMA ExecuteCounts ==
    ASSUME Mixing, MixShape, MixCounted, Compiled, knobs' = knobs,
           overlapped => overlapped', NEW t \in Threads,
           NEW left \in Seq([block : Block, how : Hows]),
           \A k \in DOMAIN left : Mixed(left[k].block, left[k].how)',
           Execute(t, left)
    PROVE  MixCounted'
<1>1. PICK block \in Block, calls \in Seq(AnyCall) :
        \E held \in Outcomes(block) : Executes(t, left, block, calls, held)
  BY ExecuteIs
<1>2. PICK held \in Outcomes(block) : Executes(t, left, block, calls, held)
  BY <1>1
<1>3. PICK d \in [DOMAIN statsList -> Nat], e \in [Indices -> Nat] : MixedBy(d, e)
  BY DEF MixCounted
<1>4. PICK g : g = [b \in DOMAIN statsList' |->
                      IF b \in DOMAIN statsList THEN d[b] ELSE 0]
  OBVIOUS
<1>5. /\ g \in [DOMAIN statsList' -> Nat]
      /\ \A b \in DOMAIN statsList : b \in DOMAIN statsList' /\ g[b] = d[b]
      /\ \A b \in DOMAIN statsList' : b \notin DOMAIN statsList => g[b] = 0
  BY <1>3, <1>4 DEF Compiled, ListsKept
<1>6. /\ dynamic' = dynamic /\ run[t].calls = <<>> /\ ~run[t].routine
      /\ run \in [Threads -> Runs]
  BY ShapeGives DEF Execute, Idle, MixShape, MixTyped
<1>7. \A b \in DOMAIN statsList' : AtMost(statsList[b].counter, g[b])'
  <2> TAKE b \in DOMAIN statsList'
  <2>1. CASE b \in DOMAIN statsList
    <3>1. PICK n, m : n = statsList[b].counter /\ m = d[b] OBVIOUS
    <3>2. AtMost(n, m) BY <1>3, <2>1, <3>1 DEF MixedBy
    <3>3. AtMost(n, m)' BY <3>2, AtMostStays
    <3>4. statsList'[b].counter = n /\ g[b] = m BY <1>5, <2>1, <3>1 DEF Compiled
    <3> QED BY <3>3, <3>4
  <2>2. CASE b \notin DOMAIN statsList
    <3>1. statsList'[b].counter = 0 /\ g[b] = 0 BY <1>5, <2>2 DEF Compiled
    <3>2. AtMost(0, 0)' BY DEF AtMost
    <3> QED BY <3>1, <3>2
  <2> QED BY <2>1, <2>2
<1>8. \A i \in Indices : AtMost(dynamic[i], e[i])'
  <2> TAKE i \in Indices
  <2>1. PICK n, m : n = dynamic[i] /\ m = e[i] OBVIOUS
  <2>2. AtMost(n, m)' BY <1>3, <2>1, AtMostStays DEF MixedBy
  <2> QED BY <1>6, <2>1, <2>2
<1>9. ReadAtMost(g, e)'
  <2>1. ASSUME NEW u \in Threads, run'[u].routine
        PROVE  /\ Call(u)'.to = "block" => AtMost(run[u].old, g[Call(u).what])'
               /\ Call(u)'.to = "predicate" => AtMost(run[u].old, e[Call(u).what])'
    <3>1. u # t
      <4>1. run'[t].routine = run[t].routine BY <1>2, <1>6 DEF Executes, Runs
      <4> QED BY <1>6, <2>1, <4>1
    <3>2. run'[u] = run[u] BY <1>2, <1>6, <3>1 DEF Executes
    <3>3. run[u].routine BY <2>1, <3>2
    <3>4. PICK c, old : c = Call(u) /\ old = run[u].old OBVIOUS
    <3>5. Call(u)' = c /\ run'[u].old = old BY <3>2, <3>4 DEF Call
    <3>6. /\ c.to = "block" => AtMost(old, d[c.what])
          /\ c.to = "predicate" => AtMost(old, e[c.what])
      BY <1>3, <3>3, <3>4 DEF MixedBy, ReadAtMost
    <3>7. c.to = "block" => c.what \in DOMAIN statsList
      <4>1. run[u].calls \in Seq(AnyCall) /\ run[u].calls # <<>>
        BY <3>3, ShapeGives DEF Calling
      <4>2. c = run[u].calls[1] /\ 1 \in DOMAIN run[u].calls
        BY <3>4, <4>1 DEF Call
      <4>3. Counting(c) BY <4>2, ShapeGives DEF Calling
      <4> QED BY <4>3 DEF Counting
    <3>8. c.to = "block" => AtMost(old, g[c.what])
      BY <1>5, <3>6, <3>7
    <3>9. PICK x, y : x = g[c.what] /\ y = e[c.what] OBVIOUS
    <3>10. /\ c.to = "block" => AtMost(old, x)'
           /\ c.to = "predicate" => AtMost(old, y)'
      BY <3>6, <3>8, <3>9, AtMostStays
    <3> QED BY <3>5, <3>9, <3>10
  <2> QED BY <2>1 DEF ReadAtMost
<1>10. \A i \in Indices : Accounted(g, e, i)'
  <2> TAKE i \in Indices
  <2>1. Accounted(d, e, i) BY <1>3 DEF MixedBy
  <2>2. Tally(g, i)' = Tally(d, i) BY <1>5, TallyKept DEF Compiled
  <2>3. PICK n : n = e[i] + Cardinality(Tally(d, i)) OBVIOUS
  <2>4. n \in Nat
    <3>1. Cardinality(Tally(d, i)) \in Nat BY <2>1, FS_CardinalityType DEF Accounted
    <3> QED BY <1>3, <2>3, <3>1
  <2>5. IsFiniteSet(Due(i)') /\ n + Cardinality(Due(i)') = Expected(i)'
    <3>1. IsFiniteSet(Due(i)) /\ n + Cardinality(Due(i)) = Expected(i)
      BY <2>1, <2>3, Zenon DEF Accounted
    <3> QED BY <1>2, <1>6, <2>4, <3>1, ExecuteDue DEF Compiled
  <2>6. IsFiniteSet(Tally(g, i)') BY <2>1, <2>2 DEF Accounted
  <2>7. e[i] + Cardinality(Tally(g, i)') = n BY <2>2, <2>3, Zenon
  <2> QED BY <2>5, <2>6, <2>7, Zenon DEF Accounted
<1>11. MixedBy(g, e)' BY <1>7, <1>8, <1>9, <1>10 DEF MixedBy
<1> QED BY <1>3, <1>5, <1>11 DEF MixCounted

LEMMA ExecuteRest ==
    ASSUME Mixing, MixShape, OneRoutine, HeldIsExecuted, knobs' = knobs,
           overlapped => overlapped', overlapped' \in BOOLEAN, NEW t \in Threads,
           NEW left \in Seq([block : Block, how : Hows]),
           \A k \in DOMAIN left : Mixed(left[k].block, left[k].how)',
           Execute(t, left)
    PROVE  OneRoutine' /\ HeldIsExecuted'
<1>1. PICK block \in Block, calls \in Seq(AnyCall) :
        \E held \in Outcomes(block) : Executes(t, left, block, calls, held)
  BY ExecuteIs
<1>2. PICK held \in Outcomes(block) : Executes(t, left, block, calls, held)
  BY <1>1
<1>3. run \in [Threads -> Runs] /\ happened \in [Indices -> Nat]
  BY DEF MixShape, MixTyped
<1>4. \A u \in Threads : run'[u].routine = run[u].routine
  BY <1>2, <1>3 DEF Executes, Runs
<1>5. OneRoutine' BY <1>4 DEF OneRoutine
<1>6. HeldIsExecuted'
  <2>1. CASE happened' = happened BY <2>1 DEF HeldIsExecuted
  <2>2. CASE happened' = [i \in Indices |-> happened[i] + Happening(block, held, i)]
    <3> SUFFICES ASSUME NEW c \in 0 .. MaxIndex - 1
                 PROVE  happened'[PredicatedTrue(c)] <= happened'[MaxIndex + c]
      BY DEF HeldIsExecuted
    <3>1. PredicatedTrue(c) \in Indices /\ MaxIndex + c \in Indices
      BY CodeAssumption DEF Indices, PredicatedTrue
    <3>2. PICK a \in Nat, b \in Nat, m \in Nat, n \in Nat :
            /\ a = happened[PredicatedTrue(c)] /\ b = happened[MaxIndex + c]
            /\ m = Happening(block, held, PredicatedTrue(c))
            /\ n = Happening(block, held, MaxIndex + c)
      <4>1. /\ happened[PredicatedTrue(c)] \in Nat /\ happened[MaxIndex + c] \in Nat
            /\ Happening(block, held, PredicatedTrue(c)) \in Nat
            /\ Happening(block, held, MaxIndex + c) \in Nat
        BY <1>3, <3>1, HappeningIs
      <4> QED BY <4>1
    <3>3. a <= b /\ m <= n BY <3>2, HeldHappens DEF HeldIsExecuted
    <3>4. happened'[PredicatedTrue(c)] = a + m /\ happened'[MaxIndex + c] = b + n
      BY <2>2, <3>1, <3>2
    <3> QED BY <3>3, <3>4
  <2> QED BY <1>2, <2>1, <2>2 DEF Executes
<1> QED BY <1>5, <1>6

(***************************************************************************)
(* Compiling.                                                              *)
(***************************************************************************)

LEMMA NothingCompiled ==
    ASSUME MixShape, knobs' = knobs, statsList' = statsList,
           DOMAIN codeCache' = DOMAIN Code,
           \A tr \in DOMAIN Code : codeCache'[tr] \in {codeCache[tr], NotCompiled}
    PROVE  Compiled
<1>1. ListsKept BY DEF ListsKept, IndexesOf
<1>2. ASSUME NEW tr \in DOMAIN Code, codeCache'[tr] # NotCompiled,
             NEW k \in DOMAIN Code[tr]
      PROVE  Mixed(Code[tr][k], codeCache[tr][k])'
  <2>1. PICK b, h : b = Code[tr][k] /\ h = codeCache[tr][k] OBVIOUS
  <2>2. codeCache'[tr] = codeCache[tr] BY <1>2
  <2>3. Mixed(b, h) BY <1>2, <2>1, <2>2 DEF MixShape
  <2>4. Mixed(b, h)' BY <1>1, <2>3, MixedKept
  <2> QED BY <2>1, <2>2, <2>4
<1> QED BY <1>1, <1>2 DEF Compiled, MixShape, MixTyped

LEMMA CompilesForMix ==
    ASSUME Mixing, MixShape, knobs' = knobs, NEW tr \in DOMAIN Code,
           CompileForMix(tr)
    PROVE  /\ Compiled
           /\ \A k \in DOMAIN Code[tr] : Mixed(Code[tr][k], codeCache[tr][k])'
<1>1. PICK n \in Nat : n = Len(Code[tr]) BY CodeAssumption
<1>2. DOMAIN Code[tr] = 1 .. n /\ \A k \in 1 .. n : Code[tr][k] \in Block
  BY <1>1, CodeAssumption
<1>3. DOMAIN codeCache = DOMAIN Code BY DEF MixShape, MixTyped
<1>4. statsList \in Seq([stats : Lists, counter : Nat]) BY DEF MixShape, MixTyped
<1>5. PICK m \in Nat : m = Len(statsList) BY <1>4
<1>6. DOMAIN statsList = 1 .. m BY <1>4, <1>5
<1>7. \A u \in DOMAIN Code : u # tr => codeCache'[u] = codeCache[u]
  BY <1>3 DEF CompileForMix
<1>8. /\ DOMAIN codeCache' = DOMAIN Code
      /\ statsList' \in Seq([stats : Lists, counter : Nat])
      /\ \A b \in DOMAIN statsList : b \in DOMAIN statsList' /\ statsList'[b] = statsList[b]
      /\ \A b \in DOMAIN statsList' : b \notin DOMAIN statsList => statsList'[b].counter = 0
      /\ \A k \in 1 .. n : Mixed(Code[tr][k], codeCache[tr][k])'
  <2>1. CASE knobs.no_shared_libs /\ tr \in SharedLib
    <3>1. /\ codeCache' = [codeCache EXCEPT ![tr] =
               [k \in 1 .. n |-> [calls |-> <<>>, traced |-> FALSE]]]
          /\ statsList' = statsList
      BY <1>1, <2>1 DEF CompileForMix
    <3>2. PICK h : h = [calls |-> <<>>, traced |-> FALSE] OBVIOUS
    <3>3. \A k \in 1 .. n : codeCache'[tr][k] = h BY <1>3, <3>1, <3>2
    <3>4. h \in Hows /\ h.calls = <<>> /\ ~h.traced BY <3>2 DEF Hows
    <3>5. \A b \in Block : Mixed(b, h)' BY <3>4 DEF Mixed
    <3>6. \A k \in 1 .. n : Mixed(Code[tr][k], codeCache[tr][k])'
      BY <1>2, <3>3, <3>5
    <3> QED BY <1>3, <1>4, <3>1, <3>6
  <2>2. CASE ~(knobs.no_shared_libs /\ tr \in SharedLib)
    <3> DEFINE new(k) == [stats |-> Append(Indexes(Code[tr][k]), 0), counter |-> 0]
               how(k) == [calls |-> << [to |-> "block", what |-> m + k] >>,
                          traced |-> TRUE]
    <3>1. codeCache' = [codeCache EXCEPT ![tr] = [k \in 1 .. n |-> how(k)]]
          /\ statsList' = statsList \o [k \in 1 .. n |-> new(k)]
      <4>1. \A k \in 1 .. n : Calls(Code[tr][k], m + k) =
                                << [to |-> "block", what |-> m + k] >>
        BY DEF Calls, Mixing
      <4> QED BY <1>1, <1>5, <2>2, <4>1 DEF CompileForMix
    <3>2. \A k \in 1 .. n : new(k) \in [stats : Lists, counter : Nat]
      BY <1>2 DEF Lists
    <3>3. \A k \in 1 .. n : new(k).counter = 0 /\
            new(k).stats = Append(Indexes(Code[tr][k]), 0)
      OBVIOUS
    <3>4. \A k \in 1 .. n : /\ how(k) \in Hows /\ how(k).traced
                            /\ how(k).calls = << [to |-> "block", what |-> m + k] >>
      BY DEF Hows, AnyCall
    <3> HIDE DEF new, how
    <3>5. [k \in 1 .. n |-> new(k)] \in Seq([stats : Lists, counter : Nat])
          /\ Len([k \in 1 .. n |-> new(k)]) = n
      BY <3>2
    <3>6. /\ statsList' \in Seq([stats : Lists, counter : Nat])
          /\ DOMAIN statsList' = 1 .. m + n
          /\ \A b \in 1 .. m : statsList'[b] = statsList[b]
          /\ \A k \in 1 .. n : statsList'[m + k] = new(k)
      BY <1>4, <1>5, <3>1, <3>5
    <3>7. ASSUME NEW b \in DOMAIN statsList', b \notin DOMAIN statsList
          PROVE  statsList'[b].counter = 0
      <4>1. b - m \in 1 .. n /\ m + (b - m) = b BY <1>6, <3>6, <3>7
      <4>2. statsList'[b] = new(b - m) BY <3>6, <4>1
      <4> QED BY <3>3, <4>1, <4>2
    <3>8. ASSUME NEW k \in 1 .. n PROVE Mixed(Code[tr][k], codeCache[tr][k])'
      <4>1. PICK b, h : b = Code[tr][k] /\ h = how(k) OBVIOUS
      <4>2. b \in Block /\ h \in Hows /\ h.traced
            /\ h.calls = << [to |-> "block", what |-> m + k] >>
        BY <1>2, <3>4, <4>1
      <4>3. codeCache'[tr][k] = h BY <1>3, <3>1, <4>1
      <4>4. m + k \in DOMAIN statsList' BY <3>6
      <4>5. statsList'[m + k].stats = Append(Indexes(b), 0)
        BY <3>3, <3>6, <4>1
      <4>6. IndexesOf(m + k)' = Indexes(b)
        BY <4>2, <4>5, ReadUpToZero DEF IndexesOf
      <4>7. Mixed(b, h)' BY <4>2, <4>4, <4>6 DEF Mixed
      <4> QED BY <4>1, <4>3, <4>7
    <3>9. \A b \in DOMAIN statsList : b \in DOMAIN statsList' /\ statsList'[b] = statsList[b]
      BY <1>6, <3>6
    <3>10. DOMAIN codeCache' = DOMAIN Code BY <1>3, <3>1
    <3> QED BY <3>6, <3>7, <3>8, <3>9, <3>10
  <2> QED BY <2>1, <2>2
<1>9. ListsKept BY <1>8 DEF ListsKept, IndexesOf
<1>10. ASSUME NEW u \in DOMAIN Code, codeCache'[u] # NotCompiled,
              NEW k \in DOMAIN Code[u]
       PROVE  Mixed(Code[u][k], codeCache[u][k])'
  <2>1. CASE u = tr BY <1>2, <1>8, <2>1
  <2>2. CASE u # tr
    <3>1. PICK b, h : b = Code[u][k] /\ h = codeCache[u][k] OBVIOUS
    <3>2. codeCache'[u] = codeCache[u] BY <1>7, <2>2
    <3>3. Mixed(b, h) BY <1>10, <3>1, <3>2 DEF MixShape
    <3>4. Mixed(b, h)' BY <1>9, <3>3, MixedKept
    <3> QED BY <3>1, <3>2, <3>4
  <2> QED BY <2>1, <2>2
<1> QED BY <1>2, <1>8, <1>9, <1>10 DEF Compiled

(***************************************************************************)
(* A call reads its counter and writes it.                                 *)
(***************************************************************************)

LEMMA CallIs ==
    ASSUME MixShape, NEW t \in Threads, run[t].calls # <<>>
    PROVE  /\ Call(t) \in AnyCall /\ Counting(Call(t))
           /\ Call(t).to \in {"block", "predicate"}
           /\ Call(t).to = "block" => Call(t).what \in DOMAIN statsList
           /\ Call(t).to = "predicate" =>
                Call(t).what \in Indices /\ Call(t).what >= 2 * MaxIndex /\ knobs.predicated
<1>1. run[t].calls \in Seq(AnyCall) BY ShapeGives DEF Calling
<1>2. Call(t) = run[t].calls[1] /\ 1 \in DOMAIN run[t].calls BY <1>1 DEF Call
<1>3. Call(t) \in AnyCall BY <1>1, <1>2, Members
<1>4. Counting(Call(t)) BY <1>2, ShapeGives DEF Calling
<1>5. MaxIndex \in Nat BY CodeAssumption
<1> QED BY <1>3, <1>4, <1>5 DEF AnyCall, Counting, Indices

LEMMA ReadKeeps ==
    ASSUME Mixing, MixShape, OneRoutine, MixCounted, overlapped \in BOOLEAN,
           NEW t \in Threads, ReadCounter(t)
    PROVE  MixShape' /\ OneRoutine' /\ MixCounted'
<1>1. /\ run[t].calls # <<>> /\ ~run[t].routine
      /\ knobs' = knobs /\ statsList' = statsList /\ dynamic' = dynamic
      /\ codeCache' = codeCache /\ happened' = happened
      /\ overlapped' = (overlapped \/ \E u \in Threads \ {t} : run[u].routine)
  BY DEF ReadCounter
<1>2. ListsKept BY <1>1 DEF ListsKept, IndexesOf
<1>3. run \in [Threads -> Runs] /\ \A u \in Threads : run[u] \in Runs
  BY DEF MixShape, MixTyped
<1>4. PICK c : c = Call(t) OBVIOUS
<1>5. /\ c.to \in {"block", "predicate"}
      /\ c.to = "block" => c.what \in DOMAIN statsList
      /\ c.to = "predicate" => c.what \in Indices
  BY <1>1, <1>4, CallIs
<1>6. PICK v : v = CASE Call(t).to = "file"      -> 0
                     [] Call(t).to = "block"     -> statsList[Call(t).what].counter
                     [] Call(t).to = "predicate" -> dynamic[Call(t).what]
  OBVIOUS
<1>7. /\ c.to = "block" => v = statsList[c.what].counter
      /\ c.to = "predicate" => v = dynamic[c.what]
  BY <1>4, <1>5, <1>6
<1>8. v \in Nat
  <2>1. dynamic \in [Indices -> Nat] BY DEF MixShape, MixTyped
  <2>2. \A b \in DOMAIN statsList : statsList[b].counter \in Nat BY ShapeGives
  <2> QED BY <1>5, <1>7, <2>1, <2>2
<1>9. run' = [run EXCEPT ![t].routine = TRUE, ![t].old = v]
  BY <1>6 DEF ReadCounter
<1>10. /\ \A u \in Threads \ {t} : run'[u] = run[u]
       /\ run'[t].routine /\ run'[t].old = v
       /\ run'[t].calls = run[t].calls /\ run'[t].left = run[t].left
       /\ run'[t] = [run[t] EXCEPT !.routine = TRUE, !.old = v]
       /\ run' = [u \in Threads |-> run'[u]]
  BY <1>3, <1>9 DEF Runs
<1>11. MixShape'
  <2>1. run' \in [Threads -> Runs]
    <3>1. run'[t] \in Runs BY <1>3, <1>8, <1>10 DEF Runs
    <3> QED BY <1>3, <1>10, <3>1
  <2>2. MixTyped' BY <1>1, <2>1 DEF MixShape, MixTyped, Lists
  <2>3. \A tr \in DOMAIN Code : (codeCache[tr] # NotCompiled =>
           \A k \in DOMAIN Code[tr] : Mixed(Code[tr][k], codeCache[tr][k]))'
    <3>1. Compiled BY <1>1, NothingCompiled DEF MixShape, MixTyped
    <3> QED BY <3>1 DEF Compiled
  <2>4. ASSUME NEW u \in Threads
        PROVE  (/\ \A k \in DOMAIN run[u].left :
                     Mixed(run[u].left[k].block, run[u].left[k].how)
                /\ \A j \in DOMAIN run[u].calls : Counting(run[u].calls[j])
                /\ run[u].routine => run[u].calls # <<>>)'
    <3>1. run'[u].calls = run[u].calls /\ run'[u].left = run[u].left
          /\ (run'[u].routine => run'[u].calls # <<>>)
      BY <1>1, <1>10 DEF MixShape
    <3>2. ASSUME NEW k \in DOMAIN run[u].left
          PROVE  Mixed(run[u].left[k].block, run[u].left[k].how)'
      <4>1. PICK b, h : b = run[u].left[k].block /\ h = run[u].left[k].how OBVIOUS
      <4>2. Mixed(b, h) BY <4>1 DEF MixShape
      <4>3. Mixed(b, h)' BY <1>2, <4>2, MixedKept
      <4> QED BY <3>1, <4>1, <4>3
    <3>3. ASSUME NEW j \in DOMAIN run[u].calls
          PROVE  Counting(run[u].calls[j])'
      <4>1. PICK x : x = run[u].calls[j] OBVIOUS
      <4>2. Counting(x) BY <4>1 DEF MixShape
      <4>3. Counting(x)' BY <1>1, <1>2, <4>2, CallKept
      <4> QED BY <3>1, <4>1, <4>3
    <3> QED BY <3>1, <3>2, <3>3
  <2> QED BY <2>2, <2>3, <2>4 DEF MixShape
<1>12. OneRoutine' BY <1>1, <1>10 DEF OneRoutine
<1>13. PICK d \in [DOMAIN statsList -> Nat], e \in [Indices -> Nat] : MixedBy(d, e)
  BY DEF MixCounted
<1>14. overlapped => overlapped' BY <1>1
<1>15. \A b \in DOMAIN statsList' : AtMost(statsList[b].counter, d[b])'
  <2> TAKE b \in DOMAIN statsList'
  <2>1. PICK n, m : n = statsList[b].counter /\ m = d[b] OBVIOUS
  <2>2. AtMost(n, m)' BY <1>1, <1>13, <1>14, <2>1, AtMostStays DEF MixedBy
  <2> QED BY <1>1, <2>1, <2>2
<1>16. \A i \in Indices : AtMost(dynamic[i], e[i])'
  <2> TAKE i \in Indices
  <2>1. PICK n, m : n = dynamic[i] /\ m = e[i] OBVIOUS
  <2>2. AtMost(n, m)' BY <1>13, <1>14, <2>1, AtMostStays DEF MixedBy
  <2> QED BY <1>1, <2>1, <2>2
<1>17. ReadAtMost(d, e)'
  <2>1. ASSUME NEW u \in Threads, run'[u].routine
        PROVE  /\ Call(u)'.to = "block" => AtMost(run[u].old, d[Call(u).what])'
               /\ Call(u)'.to = "predicate" => AtMost(run[u].old, e[Call(u).what])'
    <3>1. PICK x, old : x = Call(u) /\ old = run'[u].old OBVIOUS
    <3>2. Call(u)' = x BY <1>10, <3>1 DEF Call
    <3>3. /\ x.to = "block" => AtMost(old, d[x.what])
          /\ x.to = "predicate" => AtMost(old, e[x.what])
      <4>1. CASE u = t
        <5>1. x = c /\ old = v BY <1>4, <1>10, <3>1, <4>1
        <5> QED BY <1>5, <1>7, <1>13, <5>1 DEF MixedBy
      <4>2. CASE u # t
        <5>1. run[u].routine /\ old = run[u].old BY <1>10, <2>1, <3>1, <4>2
        <5> QED BY <1>13, <3>1, <5>1 DEF MixedBy, ReadAtMost
      <4> QED BY <4>1, <4>2
    <3>4. PICK y, z : y = d[x.what] /\ z = e[x.what] OBVIOUS
    <3>5. /\ x.to = "block" => AtMost(old, y)'
          /\ x.to = "predicate" => AtMost(old, z)'
      BY <1>14, <3>3, <3>4, AtMostStays
    <3>6. (run[u].old)' = old BY <3>1
    <3> QED BY <3>2, <3>4, <3>5, <3>6
  <2> QED BY <2>1 DEF ReadAtMost
<1>18. \A i \in Indices : Accounted(d, e, i)'
  <2> TAKE i \in Indices
  <2>1. Tally(d, i)' = Tally(d, i) BY <1>1, <1>2, TallyKept
  <2>2. Due(i)' = Due(i)
    <3>1. \A u \in Threads : Calling(u) /\ run'[u].calls = run[u].calls
      BY <1>10, ShapeGives
    <3> QED BY <1>1, <1>2, <3>1, DuesSame
  <2>3. Expected(i)' = Expected(i) BY <1>1 DEF Expected
  <2>4. Accounted(d, e, i) BY <1>13 DEF MixedBy
  <2> QED BY <2>1, <2>2, <2>3, <2>4, Zenon DEF Accounted
<1>19. MixedBy(d, e)' BY <1>15, <1>16, <1>17, <1>18 DEF MixedBy
<1>20. d \in [DOMAIN statsList' -> Nat] BY <1>1, <1>13
<1> QED BY <1>11, <1>12, <1>13, <1>19, <1>20 DEF MixCounted

\* The state as a call that is made leaves it.
LEMMA WriteIs ==
    ASSUME MixShape, NEW t \in Threads, WriteCounter(t)
    PROVE  /\ run[t].routine /\ run[t].calls # <<>> /\ run[t].old \in Nat
           /\ knobs' = knobs /\ codeCache' = codeCache /\ happened' = happened
           /\ overlapped' = overlapped
           /\ \A u \in Threads \ {t} : run'[u] = run[u]
           /\ run'[t].calls = Tail(run[t].calls) /\ run'[t].left = run[t].left
           /\ ~run'[t].routine
           /\ run' \in [Threads -> Runs]
           /\ Call(t).to = "block" =>
                /\ statsList' = [statsList EXCEPT ![Call(t).what].counter = run[t].old + 1]
                /\ dynamic' = dynamic
           /\ Call(t).to = "predicate" =>
                /\ dynamic' = [dynamic EXCEPT ![Call(t).what] = run[t].old + 1]
                /\ statsList' = statsList
<1>1. run[t].routine BY DEF WriteCounter
<1>2. run \in [Threads -> Runs] /\ run[t] \in Runs BY DEF MixShape, MixTyped
<1>3. run[t].calls # <<>> /\ run[t].calls \in Seq(AnyCall) /\ run[t].old \in Nat
  BY <1>1, <1>2, ShapeGives DEF Calling, Runs
<1>4. PICK rest : rest = Tail(run[t].calls) OBVIOUS
<1>5. rest \in Seq(AnyCall) BY <1>3, <1>4
<1>6. run' = [run EXCEPT ![t].calls = rest, ![t].routine = FALSE]
  BY <1>4 DEF WriteCounter
<1>7. /\ \A u \in Threads \ {t} : run'[u] = run[u]
      /\ run'[t].calls = rest /\ run'[t].left = run[t].left
      /\ run'[t].routine = FALSE
      /\ run'[t] = [run[t] EXCEPT !.calls = rest, !.routine = FALSE]
      /\ run' = [u \in Threads |-> run'[u]]
  BY <1>2, <1>6 DEF Runs
<1>8. run' \in [Threads -> Runs]
  <2>1. run'[t] \in Runs BY <1>2, <1>5, <1>7 DEF Runs
  <2>2. \A u \in Threads : run'[u] \in Runs BY <1>2, <1>7, <2>1
  <2> QED BY <1>7, <2>2
<1>9. PICK c, n : c = Call(t) /\ n = run[t].old + 1 OBVIOUS
<1>10. /\ c.to = "block" => statsList' = [statsList EXCEPT ![c.what].counter = n]
                            /\ dynamic' = dynamic
       /\ c.to = "predicate" => dynamic' = [dynamic EXCEPT ![c.what] = n]
                                /\ statsList' = statsList
  BY <1>9 DEF WriteCounter
<1>11. /\ knobs' = knobs /\ codeCache' = codeCache /\ happened' = happened
       /\ overlapped' = overlapped
  BY DEF WriteCounter
<1> QED BY <1>1, <1>3, <1>4, <1>7, <1>8, <1>9, <1>10, <1>11

\* The lists stay, whatever is counted.
LEMMA WriteLists ==
    ASSUME MixShape, NEW t \in Threads, WriteCounter(t)
    PROVE  /\ ListsKept /\ DOMAIN statsList' = DOMAIN statsList
           /\ statsList' \in Seq([stats : Lists, counter : Nat])
           /\ dynamic' \in [Indices -> Nat]
<1>1. PICK c, n : c = Call(t) /\ n = run[t].old + 1 OBVIOUS
<1>2. n \in Nat
  <2>1. run[t].old \in Nat BY WriteIs
  <2> QED BY <1>1, <2>1
<1>3. /\ c.to \in {"block", "predicate"}
      /\ c.to = "block" => c.what \in DOMAIN statsList
  BY <1>1, WriteIs, CallIs
<1>4. statsList \in Seq([stats : Lists, counter : Nat]) /\ dynamic \in [Indices -> Nat]
  BY DEF MixShape, MixTyped
<1>5. CASE c.to = "block"
  <2>1. statsList' = [statsList EXCEPT ![c.what].counter = n] /\ dynamic' = dynamic
    BY <1>1, <1>5, WriteIs
  <2>2. /\ DOMAIN statsList' = DOMAIN statsList
        /\ \A b \in DOMAIN statsList : statsList'[b].stats = statsList[b].stats
    <3>1. \A b \in DOMAIN statsList : statsList[b] \in [stats : Lists, counter : Nat]
      BY ShapeGives
    <3> QED BY <2>1, <3>1
  <2>3. statsList' \in Seq([stats : Lists, counter : Nat])
    <3>1. statsList[c.what] \in [stats : Lists, counter : Nat] BY <1>3, <1>5, ShapeGives
    <3>2. PICK s : s = [statsList[c.what] EXCEPT !.counter = n] OBVIOUS
    <3>3. s \in [stats : Lists, counter : Nat] BY <1>2, <3>1, <3>2
    <3>4. statsList' = [statsList EXCEPT ![c.what] = s] BY <2>1, <3>2
    <3> QED BY <1>3, <1>4, <1>5, <3>3, <3>4, ReplaceOne
  <2>4. ListsKept BY <2>2 DEF ListsKept, IndexesOf
  <2> QED BY <1>4, <2>1, <2>2, <2>3, <2>4
<1>6. CASE c.to = "predicate"
  <2>1. dynamic' = [dynamic EXCEPT ![c.what] = n] /\ statsList' = statsList
    BY <1>1, <1>6, WriteIs
  <2>2. ListsKept BY <2>1 DEF ListsKept, IndexesOf
  <2> QED BY <1>2, <1>4, <2>1, <2>2
<1> QED BY <1>3, <1>5, <1>6

LEMMA WriteShape ==
    ASSUME Mixing, MixShape, OneRoutine, NEW t \in Threads, WriteCounter(t)
    PROVE  MixShape' /\ OneRoutine'
<1>1. MixTyped'
  <2>1. DOMAIN codeCache' = DOMAIN Code BY WriteIs DEF MixShape, MixTyped
  <2>2. happened' \in [Indices -> Nat] BY WriteIs DEF MixShape, MixTyped
  <2> QED BY <2>1, <2>2, WriteIs, WriteLists DEF MixTyped
<1>2. \A tr \in DOMAIN Code : (codeCache[tr] # NotCompiled =>
         \A k \in DOMAIN Code[tr] : Mixed(Code[tr][k], codeCache[tr][k]))'
  <2> SUFFICES ASSUME NEW tr \in DOMAIN Code, codeCache'[tr] # NotCompiled,
                      NEW k \in DOMAIN Code[tr]
               PROVE  Mixed(Code[tr][k], codeCache[tr][k])'
    OBVIOUS
  <2>1. PICK b, h : b = Code[tr][k] /\ h = codeCache[tr][k] OBVIOUS
  <2>2. codeCache' = codeCache BY WriteIs
  <2>3. Mixed(b, h) BY <2>1, <2>2 DEF MixShape
  <2>4. Mixed(b, h)' BY <2>3, MixedKept, WriteLists
  <2> QED BY <2>1, <2>2, <2>4
<1>3. ASSUME NEW u \in Threads
      PROVE  (/\ \A k \in DOMAIN run[u].left :
                   Mixed(run[u].left[k].block, run[u].left[k].how)
              /\ \A j \in DOMAIN run[u].calls : Counting(run[u].calls[j])
              /\ run[u].routine => run[u].calls # <<>>)'
  <2>1. run'[u].left = run[u].left BY WriteIs
  <2>2. ASSUME NEW k \in DOMAIN run[u].left
        PROVE  Mixed(run[u].left[k].block, run[u].left[k].how)'
    <3>1. PICK b, h : b = run[u].left[k].block /\ h = run[u].left[k].how OBVIOUS
    <3>2. Mixed(b, h) BY <3>1 DEF MixShape
    <3>3. Mixed(b, h)' BY <3>2, MixedKept, WriteLists
    <3> QED BY <2>1, <3>1, <3>3
  <2>3. ASSUME NEW j \in DOMAIN run'[u].calls
        PROVE  Counting(run[u].calls[j])'
    <3>1. \E k \in DOMAIN run[u].calls : run'[u].calls[j] = run[u].calls[k]
      <4>1. CASE u # t BY <4>1, WriteIs
      <4>2. CASE u = t
        <5>1. run[t].calls \in Seq(AnyCall) /\ run[t].calls # <<>>
          BY WriteIs, ShapeGives DEF Calling
        <5>2. run'[t].calls = Tail(run[t].calls) BY WriteIs
        <5>3. j + 1 \in DOMAIN run[t].calls /\ run'[t].calls[j] = run[t].calls[j + 1]
          BY <2>3, <4>2, <5>1, <5>2
        <5> QED BY <4>2, <5>3
      <4> QED BY <4>1, <4>2
    <3>2. PICK x : x = run'[u].calls[j] OBVIOUS
    <3>3. Counting(x) BY <3>1, <3>2 DEF MixShape
    <3>4. Counting(x)' BY <3>3, CallKept, WriteIs, WriteLists
    <3> QED BY <3>2, <3>4
  <2>4. run'[u].routine => run'[u].calls # <<>>
    <3>1. CASE u = t BY <3>1, WriteIs
    <3>2. CASE u # t BY <3>2, WriteIs DEF MixShape
    <3> QED BY <3>1, <3>2
  <2> QED BY <2>1, <2>2, <2>3, <2>4
<1>4. OneRoutine'
  <2>1. overlapped' = overlapped BY WriteIs
  <2>2. \A u \in Threads : run'[u].routine => run[u].routine
    <3> TAKE u \in Threads
    <3>1. CASE u = t BY <3>1, WriteIs
    <3>2. CASE u # t BY <3>2, WriteIs
    <3> QED BY <3>1, <3>2
  <2> QED BY <2>1, <2>2 DEF OneRoutine
<1> QED BY <1>1, <1>2, <1>3, <1>4 DEF MixShape

\* A thread reads at most what was counted, after one more is written.
LEMMA WriteReads ==
    ASSUME MixShape, OneRoutine, NEW t \in Threads, WriteCounter(t),
           NEW d \in [DOMAIN statsList -> Nat], NEW e \in [Indices -> Nat],
           ReadAtMost(d, e),
           NEW g \in [DOMAIN statsList -> Nat], NEW h \in [Indices -> Nat],
           \A b \in DOMAIN statsList : d[b] <= g[b],
           \A i \in Indices : e[i] <= h[i]
    PROVE  ReadAtMost(g, h)'
<1>1. ASSUME NEW u \in Threads, run'[u].routine
      PROVE  /\ Call(u)'.to = "block" => AtMost(run[u].old, g[Call(u).what])'
             /\ Call(u)'.to = "predicate" => AtMost(run[u].old, h[Call(u).what])'
  <2>1. u # t BY <1>1, WriteIs
  <2>2. run'[u] = run[u] /\ run[u].routine BY <1>1, <2>1, WriteIs
  <2>3. overlapped BY <2>1, <2>2, WriteIs DEF OneRoutine
  <2>4. overlapped' BY <2>3, WriteIs
  <2>5. PICK c, old : c = Call(u) /\ old = run[u].old OBVIOUS
  <2>6. Call(u)' = c /\ run'[u].old = old BY <2>2, <2>5 DEF Call
  <2>7. run[u].calls # <<>> BY <2>2 DEF MixShape
  <2>8. /\ c.to = "block" => c.what \in DOMAIN statsList
        /\ c.to = "predicate" => c.what \in Indices
    BY <2>5, <2>7, CallIs
  <2>9. /\ c.to = "block" => old <= d[c.what]
        /\ c.to = "predicate" => old <= e[c.what]
    BY <2>2, <2>5 DEF ReadAtMost, AtMost
  <2>10. old \in Nat
    <3>1. run[u] \in Runs BY ShapeGives
    <3> QED BY <2>5, <3>1 DEF Runs
  <2>11. /\ c.to = "block" => old <= g[c.what]
         /\ c.to = "predicate" => old <= h[c.what]
    <3>1. CASE c.to = "block"
      <4>1. d[c.what] \in Nat /\ g[c.what] \in Nat /\ d[c.what] <= g[c.what]
        BY <2>8, <3>1
      <4>2. old <= g[c.what] BY <2>9, <2>10, <3>1, <4>1
      <4> QED BY <3>1, <4>2
    <3>2. CASE c.to = "predicate"
      <4>1. e[c.what] \in Nat /\ h[c.what] \in Nat /\ e[c.what] <= h[c.what]
        BY <2>8, <3>2
      <4>2. old <= h[c.what] BY <2>9, <2>10, <3>2, <4>1
      <4> QED BY <3>2, <4>2
    <3> QED BY <3>1, <3>2
  <2>12. PICK x, y : x = g[c.what] /\ y = h[c.what] OBVIOUS
  <2>13. /\ c.to = "block" => AtMost(old, x)'
         /\ c.to = "predicate" => AtMost(old, y)'
    BY <2>4, <2>11, <2>12 DEF AtMost
  <2> QED BY <2>6, <2>12, <2>13
<1> QED BY <1>1 DEF ReadAtMost

\* What is due becomes what is counted.
LEMMA WriteDue ==
    ASSUME MixShape, NEW t \in Threads, WriteCounter(t), NEW i \in Indices,
           IsFiniteSet(Due(i)), NEW c, c = Call(t)
    PROVE  /\ IsFiniteSet(Due(i)') /\ Cardinality(Due(i)') \in Nat
           /\ c.to = "block" =>
                Cardinality(Due(i)) =
                  Cardinality(Due(i)') + Cardinality(Positions(IndexesOf(c.what), i))
           /\ c.to = "predicate" =>
                Cardinality(Due(i)) =
                  Cardinality(Due(i)') + (IF c.what = i THEN 1 ELSE 0)
<1>1. PICK N : N = {k \in Nat : Adds(c, k, i)} OBVIOUS
<1>2. /\ c.to \in {"block", "predicate"}
      /\ c.to = "block" => c.what \in DOMAIN statsList
  BY CallIs, WriteIs
<1>3. c.to = "block" => /\ N = Positions(IndexesOf(c.what), i)
                        /\ IsFiniteSet(N)
  <2>1. ASSUME c.to = "block"
        PROVE  /\ N = Positions(IndexesOf(c.what), i) /\ IsFiniteSet(N)
    <3>1. IndexesOf(c.what) \in Seq(1 .. 2 * MaxIndex - 1)
      BY <1>2, <2>1, ShapeGives
    <3>2. /\ Positions(IndexesOf(c.what), i) \subseteq 1 .. Len(IndexesOf(c.what))
          /\ IsFiniteSet(Positions(IndexesOf(c.what), i))
      BY <3>1, PositionsFinite
    <3>3. Positions(IndexesOf(c.what), i) \subseteq Nat BY <3>2
    <3>4. \A k : Adds(c, k, i) <=> k \in Positions(IndexesOf(c.what), i)
      BY <2>1 DEF Adds
    <3>5. N = Positions(IndexesOf(c.what), i) BY <1>1, <3>3, <3>4
    <3> QED BY <3>2, <3>5
  <2> QED BY <2>1
<1>4. c.to = "predicate" => N = IF c.what = i THEN {0} ELSE {}
  BY <1>1 DEF Adds
<1>5. c.to = "predicate" => /\ IsFiniteSet(N)
                            /\ Cardinality(N) = IF c.what = i THEN 1 ELSE 0
  BY <1>4, FS_Singleton, FS_EmptySet
<1>6. PICK f : f = [k \in N |-> <<t, Len(run[t].calls) - 1, k>>] OBVIOUS
<1>7. PICK S, U : S = Due(i)' /\ U = Due(i) OBVIOUS
<1>8. Extends(U, S, N, f)
  <2>1. \A u \in Threads : Calling(u) BY ShapeGives
  <2>2. c = Head(run[t].calls) BY DEF Call
  <2>3. Extends(Due(i), Due(i)', N, f)
    BY <1>1, <1>6, <2>1, <2>2, WriteIs, WriteLists, DueEnds
  <2> QED BY <1>7, <2>3
<1>9. IsFiniteSet(N) BY <1>2, <1>3, <1>5
<1>10. /\ IsFiniteSet(S) /\ Cardinality(S) \in Nat
       /\ Cardinality(U) = Cardinality(S) + Cardinality(N)
  BY <1>7, <1>8, <1>9, ExtendsCard
<1>11. c.to = "block" =>
         Cardinality(U) = Cardinality(S) + Cardinality(Positions(IndexesOf(c.what), i))
  BY <1>3, <1>10, Zenon
<1>12. c.to = "predicate" =>
         Cardinality(U) = Cardinality(S) + (IF c.what = i THEN 1 ELSE 0)
  BY <1>5, <1>10, Zenon
<1> QED BY <1>7, <1>10, <1>11, <1>12, Zenon

LEMMA WriteBlockCounts ==
    ASSUME MixShape, OneRoutine, MixCounted, NEW t \in Threads, WriteCounter(t),
           Call(t).to = "block"
    PROVE  MixCounted'
<1>1. PICK b : b = Call(t).what OBVIOUS
<1>2. b \in DOMAIN statsList BY <1>1, CallIs, WriteIs
<1>3. PICK d \in [DOMAIN statsList -> Nat], e \in [Indices -> Nat] : MixedBy(d, e)
  BY DEF MixCounted
<1>4. PICK g : g = [d EXCEPT ![b] = d[b] + 1] OBVIOUS
<1>5. /\ g \in [DOMAIN statsList -> Nat] /\ g[b] = d[b] + 1
      /\ \A c \in DOMAIN statsList : c # b => g[c] = d[c]
      /\ \A c \in DOMAIN statsList : d[c] <= g[c]
  BY <1>2, <1>3, <1>4
<1>6. PICK n : n = run[t].old OBVIOUS
<1>7. n \in Nat /\ AtMost(n, d[b])
  BY <1>1, <1>3, <1>6, WriteIs DEF MixedBy, ReadAtMost
<1>8. /\ statsList' = [statsList EXCEPT ![b].counter = n + 1] /\ dynamic' = dynamic
      /\ overlapped' = overlapped /\ happened' = happened /\ knobs' = knobs
  BY <1>1, <1>6, WriteIs
<1>9. /\ statsList'[b].counter = n + 1
      /\ \A c \in DOMAIN statsList : c # b => statsList'[c] = statsList[c]
  <2>1. statsList[b] \in [stats : Lists, counter : Nat] BY <1>2, ShapeGives
  <2> QED BY <1>2, <1>8, <2>1
<1>10. \A c \in DOMAIN statsList' : AtMost(statsList[c].counter, g[c])'
  <2> TAKE c \in DOMAIN statsList'
  <2>1. c \in DOMAIN statsList BY WriteLists
  <2>2. CASE c = b
    <3>1. PICK m \in Nat : m = d[b] BY <1>2, <1>3
    <3>2. AtMost(n + 1, m + 1)' BY <1>7, <1>8, <3>1 DEF AtMost
    <3>3. statsList'[c].counter = n + 1 /\ g[c] = m + 1 BY <1>5, <1>9, <2>2, <3>1
    <3> QED BY <3>2, <3>3
  <2>3. CASE c # b
    <3>1. PICK x, y : x = statsList[c].counter /\ y = d[c] OBVIOUS
    <3>2. AtMost(x, y)' BY <1>3, <1>8, <2>1, <3>1, AtMostStays DEF MixedBy
    <3> QED BY <1>5, <1>9, <2>1, <2>3, <3>1, <3>2
  <2> QED BY <2>2, <2>3
<1>11. \A i \in Indices : AtMost(dynamic[i], e[i])'
  <2> TAKE i \in Indices
  <2>1. PICK x, y : x = dynamic[i] /\ y = e[i] OBVIOUS
  <2>2. AtMost(x, y)' BY <1>3, <1>8, <2>1, AtMostStays DEF MixedBy
  <2> QED BY <1>8, <2>1, <2>2
<1>12. ReadAtMost(g, e)'
  <2>1. \A i \in Indices : e[i] <= e[i] BY <1>3
  <2>2. ReadAtMost(d, e) BY <1>3 DEF MixedBy
  <2> QED BY <1>3, <1>5, <2>1, <2>2, WriteReads
<1>13. \A i \in Indices : Accounted(g, e, i)'
  <2> TAKE i \in Indices
  <2>1. Accounted(d, e, i) BY <1>3 DEF MixedBy
  <2>2. Tally(g, i)' = Tally(g, i) BY <1>5, WriteLists, TallyKept
  <2>3. PICK D, G, S, U : D = Tally(d, i) /\ G = Tally(g, i)
                          /\ S = Due(i)' /\ U = Due(i)
    OBVIOUS
  <2>4. PICK m \in Nat : m = Cardinality(Positions(IndexesOf(b), i))
    BY <1>2, ShapeGives, PositionsFinite
  <2>5. IsFiniteSet(G) /\ Cardinality(G) = Cardinality(D) + m
    <3>1. IndexesOf(b) \in Seq(1 .. 2 * MaxIndex - 1) /\ DOMAIN statsList \subseteq Nat
      BY <1>2, ShapeGives
    <3>2. IsFiniteSet(Tally(d, i)) BY <2>1 DEF Accounted
    <3>3. /\ IsFiniteSet(Tally(g, i))
          /\ Cardinality(Tally(g, i)) =
               Cardinality(Tally(d, i)) + Cardinality(Positions(IndexesOf(b), i))
      BY <1>2, <1>3, <1>5, <3>1, <3>2, TallyBump
    <3> QED BY <2>3, <2>4, <3>3, Zenon
  <2>6. /\ IsFiniteSet(S) /\ Cardinality(S) \in Nat
        /\ Cardinality(U) = Cardinality(S) + m
    <3>1. PICK c : c = Call(t) OBVIOUS
    <3>2. c.to = "block" /\ c.what = b BY <1>1, <3>1
    <3>3. IsFiniteSet(Due(i)) BY <2>1 DEF Accounted
    <3>4. /\ IsFiniteSet(Due(i)') /\ Cardinality(Due(i)') \in Nat
          /\ Cardinality(Due(i)) =
               Cardinality(Due(i)') + Cardinality(Positions(IndexesOf(c.what), i))
      BY <3>1, <3>2, <3>3, WriteDue
    <3> QED BY <2>3, <2>4, <3>2, <3>4, Zenon
  <2>7. e[i] + Cardinality(D) + Cardinality(U) = Expected(i)
    BY <2>1, <2>3, Zenon DEF Accounted
  <2>8. Cardinality(D) \in Nat BY <2>1, <2>3, FS_CardinalityType DEF Accounted
  <2>9. PICK x \in Nat, y \in Nat, z \in Nat :
          x = e[i] /\ y = Cardinality(D) /\ z = Cardinality(S)
    <3>1. e[i] \in Nat BY <1>3
    <3> QED BY <2>6, <2>8, <3>1, Zenon
  <2>10. x + y + (z + m) = Expected(i) BY <2>6, <2>7, <2>9, Zenon
  <2>11. x + (y + m) + z = Expected(i) BY <2>10
  <2>12. e[i] + Cardinality(G) + Cardinality(S) = Expected(i)
    BY <2>5, <2>9, <2>11, Zenon
  <2>13. Expected(i)' = Expected(i) BY <1>8 DEF Expected
  <2> QED BY <2>2, <2>3, <2>5, <2>6, <2>12, <2>13, Zenon DEF Accounted
<1>14. MixedBy(g, e)' BY <1>10, <1>11, <1>12, <1>13 DEF MixedBy
<1>15. g \in [DOMAIN statsList' -> Nat] BY <1>5, WriteLists
<1> QED BY <1>3, <1>14, <1>15 DEF MixCounted

LEMMA WritePredicateCounts ==
    ASSUME MixShape, OneRoutine, MixCounted, NEW t \in Threads, WriteCounter(t),
           Call(t).to = "predicate"
    PROVE  MixCounted'
<1>1. PICK w : w = Call(t).what OBVIOUS
<1>2. w \in Indices BY <1>1, CallIs, WriteIs
<1>3. PICK d \in [DOMAIN statsList -> Nat], e \in [Indices -> Nat] : MixedBy(d, e)
  BY DEF MixCounted
<1>4. PICK h : h = [e EXCEPT ![w] = e[w] + 1] OBVIOUS
<1>5. /\ h \in [Indices -> Nat] /\ h[w] = e[w] + 1
      /\ \A i \in Indices : i # w => h[i] = e[i]
      /\ \A i \in Indices : e[i] <= h[i]
  BY <1>2, <1>3, <1>4
<1>6. PICK n : n = run[t].old OBVIOUS
<1>7. n \in Nat /\ AtMost(n, e[w])
  BY <1>1, <1>3, <1>6, WriteIs DEF MixedBy, ReadAtMost
<1>8. /\ dynamic' = [dynamic EXCEPT ![w] = n + 1] /\ statsList' = statsList
      /\ overlapped' = overlapped /\ happened' = happened /\ knobs' = knobs
  BY <1>1, <1>6, WriteIs
<1>9. /\ dynamic'[w] = n + 1
      /\ \A i \in Indices : i # w => dynamic'[i] = dynamic[i]
  BY <1>2, <1>8 DEF MixShape, MixTyped
<1>10. \A i \in Indices : AtMost(dynamic[i], h[i])'
  <2> TAKE i \in Indices
  <2>1. CASE i = w
    <3>1. PICK m \in Nat : m = e[w] BY <1>2, <1>3
    <3>2. AtMost(n + 1, m + 1)' BY <1>7, <1>8, <3>1 DEF AtMost
    <3>3. dynamic'[i] = n + 1 /\ h[i] = m + 1 BY <1>5, <1>9, <2>1, <3>1
    <3> QED BY <3>2, <3>3
  <2>2. CASE i # w
    <3>1. PICK x, y : x = dynamic[i] /\ y = e[i] OBVIOUS
    <3>2. AtMost(x, y)' BY <1>3, <1>8, <3>1, AtMostStays DEF MixedBy
    <3> QED BY <1>5, <1>9, <2>2, <3>1, <3>2
  <2> QED BY <2>1, <2>2
<1>11. \A b \in DOMAIN statsList' : AtMost(statsList[b].counter, d[b])'
  <2> TAKE b \in DOMAIN statsList'
  <2>1. PICK x, y : x = statsList[b].counter /\ y = d[b] OBVIOUS
  <2>2. AtMost(x, y)' BY <1>3, <1>8, <2>1, AtMostStays DEF MixedBy
  <2> QED BY <1>8, <2>1, <2>2
<1>12. ReadAtMost(d, h)'
  <2>1. \A b \in DOMAIN statsList : d[b] <= d[b] BY <1>3
  <2>2. ReadAtMost(d, e) BY <1>3 DEF MixedBy
  <2> QED BY <1>3, <1>5, <2>1, <2>2, WriteReads
<1>13. \A i \in Indices : Accounted(d, h, i)'
  <2> TAKE i \in Indices
  <2>1. Accounted(d, e, i) BY <1>3 DEF MixedBy
  <2>2. Tally(d, i)' = Tally(d, i) BY <1>8, WriteLists, TallyKept
  <2>3. PICK D, S, U : D = Tally(d, i) /\ S = Due(i)' /\ U = Due(i) OBVIOUS
  <2>4. PICK m \in Nat : m = IF w = i THEN 1 ELSE 0 OBVIOUS
  <2>5. h[i] = e[i] + m
    <3>1. e[i] \in Nat BY <1>3
    <3> QED BY <1>5, <2>4, <3>1
  <2>6. /\ IsFiniteSet(S) /\ Cardinality(S) \in Nat
        /\ Cardinality(U) = Cardinality(S) + m
    <3>1. PICK c : c = Call(t) OBVIOUS
    <3>2. c.to = "predicate" /\ c.what = w BY <1>1, <3>1
    <3>3. IsFiniteSet(Due(i)) BY <2>1 DEF Accounted
    <3>4. /\ IsFiniteSet(Due(i)') /\ Cardinality(Due(i)') \in Nat
          /\ Cardinality(Due(i)) = Cardinality(Due(i)') + (IF c.what = i THEN 1 ELSE 0)
      BY <3>1, <3>2, <3>3, WriteDue
    <3> QED BY <2>3, <2>4, <3>2, <3>4, Zenon
  <2>7. e[i] + Cardinality(D) + Cardinality(U) = Expected(i)
    BY <2>1, <2>3, Zenon DEF Accounted
  <2>8. Cardinality(D) \in Nat BY <2>1, <2>3, FS_CardinalityType DEF Accounted
  <2>9. PICK x \in Nat, y \in Nat, z \in Nat :
          x = e[i] /\ y = Cardinality(D) /\ z = Cardinality(S)
    <3>1. e[i] \in Nat BY <1>3
    <3> QED BY <2>6, <2>8, <3>1, Zenon
  <2>10. x + y + (z + m) = Expected(i) BY <2>6, <2>7, <2>9, Zenon
  <2>11. (x + m) + y + z = Expected(i) BY <2>10
  <2>12. h[i] + Cardinality(D) + Cardinality(S) = Expected(i)
    BY <2>5, <2>9, <2>11, Zenon
  <2>13. Expected(i)' = Expected(i) BY <1>8 DEF Expected
  <2>14. IsFiniteSet(D) BY <2>1, <2>3, Zenon DEF Accounted
  <2> QED BY <2>2, <2>3, <2>6, <2>12, <2>13, <2>14, Zenon DEF Accounted
<1>14. MixedBy(d, h)' BY <1>10, <1>11, <1>12, <1>13 DEF MixedBy
<1> QED BY <1>3, <1>5, <1>8, <1>14 DEF MixCounted

(***************************************************************************)
(* The other steps, and the end of the program.                            *)
(***************************************************************************)

\* A step that leaves the counts as they are.
LEMMA NothingCounted ==
    ASSUME MixShape, OneRoutine, MixCounted, HeldIsExecuted,
           UNCHANGED <<knobs, statsList, dynamic, run, happened, overlapped>>,
           DOMAIN codeCache' = DOMAIN Code,
           \A tr \in DOMAIN Code : codeCache'[tr] \in {codeCache[tr], NotCompiled}
    PROVE  MixShape' /\ OneRoutine' /\ MixCounted' /\ HeldIsExecuted'
<1>1. Compiled BY NothingCompiled
<1>2. ListsKept BY <1>1 DEF Compiled
<1>3. MixShape'
  <2>1. MixTyped' BY <1>1 DEF MixShape, MixTyped, Compiled
  <2>2. \A u \in Threads :
          /\ \A k \in DOMAIN run'[u].left :
               Mixed(run[u].left[k].block, run[u].left[k].how)'
          /\ \A j \in DOMAIN run'[u].calls : Counting(run[u].calls[j])'
          /\ run'[u].routine => run'[u].calls # <<>>
    BY <1>2, PlaceKept
  <2>3. \A tr \in DOMAIN Code : codeCache'[tr] # NotCompiled =>
          \A k \in DOMAIN Code[tr] : Mixed(Code[tr][k], codeCache[tr][k])'
    BY <1>1 DEF Compiled
  <2> QED BY <2>1, <2>2, <2>3 DEF MixShape
<1>4. OneRoutine' /\ HeldIsExecuted' BY DEF OneRoutine, HeldIsExecuted
<1>5. PICK d \in [DOMAIN statsList -> Nat], e \in [Indices -> Nat] : MixedBy(d, e)
  BY DEF MixCounted
<1>6. \A i \in Indices : Accounted(d, e, i)'
  <2> TAKE i \in Indices
  <2>1. Tally(d, i)' = Tally(d, i) BY <1>2, TallyKept
  <2>2. Due(i)' = Due(i)
    <3>1. \A u \in Threads : Calling(u) BY ShapeGives
    <3> QED BY <1>2, <3>1, DuesSame
  <2>3. Expected(i)' = Expected(i) BY DEF Expected
  <2>4. Accounted(d, e, i) BY <1>5 DEF MixedBy
  <2> QED BY <2>1, <2>2, <2>3, <2>4, Zenon DEF Accounted
<1>7. (\A b \in DOMAIN statsList : AtMost(statsList[b].counter, d[b]))'
  BY <1>5 DEF MixedBy, AtMost
<1>8. (\A i \in Indices : AtMost(dynamic[i], e[i]))' BY <1>5 DEF MixedBy, AtMost
<1>9. ReadAtMost(d, e)' BY <1>5 DEF MixedBy, ReadAtMost, AtMost, Call
<1>10. MixedBy(d, e)' BY <1>6, <1>7, <1>8, <1>9 DEF MixedBy
<1> QED BY <1>3, <1>4, <1>5, <1>10 DEF MixCounted

\* A thread that enters a trace or goes on in one.
LEMMA EnterKeeps ==
    ASSUME Mixing, MixShape, OneRoutine, MixCounted, HeldIsExecuted,
           overlapped \in BOOLEAN,
           NEW t \in Threads, NEW tr \in DOMAIN Code, Enter(t, tr)
    PROVE  MixShape' /\ OneRoutine' /\ MixCounted' /\ HeldIsExecuted'
<1>1. knobs' = knobs BY DEF Enter, Execute
<1>2. /\ Compiled /\ (overlapped => overlapped') /\ overlapped' \in BOOLEAN
      /\ \A k \in DOMAIN Code[tr] : Mixed(Code[tr][k], codeCache[tr][k])'
  <2>1. CASE codeCache[tr] # NotCompiled
    <3>1. UNCHANGED <<count_trace, file, codeCache, statsList, overlapped>>
      BY <2>1 DEF Enter
    <3>2. Compiled BY <1>1, <3>1, NothingCompiled DEF MixShape, MixTyped
    <3>3. \A k \in DOMAIN Code[tr] : Mixed(Code[tr][k], codeCache[tr][k])'
      BY <2>1, <3>1, <3>2 DEF Compiled
    <3> QED BY <3>1, <3>2, <3>3
  <2>2. CASE codeCache[tr] = NotCompiled
    <3>1. CompileForMix(tr) BY <2>2 DEF Enter, Mixing
    <3>2. overlapped' = (overlapped \/ \E u \in Threads : run[u].routine)
      BY <2>2 DEF Enter
    <3> QED BY <1>1, <3>1, <3>2, CompilesForMix
  <2> QED BY <2>1, <2>2
<1>3. PICK left : left = [k \in DOMAIN Code[tr] |->
                            [block |-> Code[tr][k], how |-> codeCache'[tr][k]]]
  OBVIOUS
<1>4. Execute(t, left) BY <1>3 DEF Enter
<1>5. /\ left \in Seq([block : Block, how : Hows])
      /\ \A k \in DOMAIN left : Mixed(left[k].block, left[k].how)'
  <2>1. PICK n \in Nat : DOMAIN Code[tr] = 1 .. n /\ \A k \in 1 .. n : Code[tr][k] \in Block
    BY CodeAssumption
  <2>2. \A k \in 1 .. n : left[k].block = Code[tr][k] /\ left[k].how = codeCache'[tr][k]
    BY <1>3, <2>1
  <2>3. \A k \in 1 .. n : Mixed(left[k].block, left[k].how)'
    <3> TAKE k \in 1 .. n
    <3>1. PICK b, h : b = left[k].block /\ h = left[k].how OBVIOUS
    <3>2. Mixed(Code[tr][k], codeCache[tr][k])' BY <1>2, <2>1
    <3>3. b = Code[tr][k] /\ h = codeCache'[tr][k] BY <2>2, <3>1
    <3>4. Mixed(b, h)' BY <3>2, <3>3
    <3> QED BY <3>1, <3>4
  <2>4. \A k \in 1 .. n : codeCache'[tr][k] \in Hows
    BY <1>2, <2>1 DEF Mixed
  <2>5. left \in [1 .. n -> [block : Block, how : Hows]] BY <1>3, <2>1, <2>4
  <2>6. left \in Seq([block : Block, how : Hows]) /\ DOMAIN left = 1 .. n
    <3>1. PICK R : R = [block : Block, how : Hows] OBVIOUS
    <3>2. left \in [1 .. n -> R] BY <2>5, <3>1, Zenon
    <3>3. left \in Seq(R) /\ DOMAIN left = 1 .. n BY <3>2
    <3> QED BY <3>1, <3>3, Zenon
  <2> QED BY <2>3, <2>6
<1> QED BY <1>1, <1>2, <1>4, <1>5, ExecuteShape, ExecuteCounts, ExecuteRest

LEMMA ContinueKeeps ==
    ASSUME Mixing, MixShape, OneRoutine, MixCounted, HeldIsExecuted,
           overlapped \in BOOLEAN, NEW t \in Threads, Continue(t)
    PROVE  MixShape' /\ OneRoutine' /\ MixCounted' /\ HeldIsExecuted'
<1>1. knobs' = knobs /\ UNCHANGED <<codeCache, statsList, overlapped>>
  BY DEF Continue, Execute
<1>2. Compiled BY <1>1, NothingCompiled DEF MixShape, MixTyped
<1>3. PICK left : left = run[t].left OBVIOUS
<1>4. Execute(t, left) BY <1>3 DEF Continue
<1>5. left \in Seq([block : Block, how : Hows]) BY <1>3, ShapeGives DEF Runs
<1>6. ASSUME NEW k \in DOMAIN left PROVE Mixed(left[k].block, left[k].how)'
  <2>1. PICK b, h : b = left[k].block /\ h = left[k].how OBVIOUS
  <2>2. Mixed(b, h) BY <1>3, <2>1 DEF MixShape
  <2>3. Mixed(b, h)' BY <1>2, <2>2, MixedKept DEF Compiled
  <2> QED BY <2>1, <2>3
<1> QED BY <1>1, <1>2, <1>4, <1>5, <1>6, ExecuteShape, ExecuteCounts, ExecuteRest

\* What is written at the end: the counters' contents, added up.
LEMMA GlobalStatsAre ==
    ASSUME MixShape, MixCounted, overlapped \in BOOLEAN,
           \A t \in Threads : run[t].calls = <<>>
    PROVE  /\ GlobalStats \in [Indices -> Nat]
           /\ \A i \in Indices : AtMost(GlobalStats[i], Expected(i))
<1>1. PICK d \in [DOMAIN statsList -> Nat], e \in [Indices -> Nat] : MixedBy(d, e)
  BY DEF MixCounted
<1> DEFINE W(i) == UNION {
              {b} \X (1 .. statsList[b].counter)
                  \X Positions(UpToZero(statsList[b].stats), i) : b \in DOMAIN statsList}
<1>2. GlobalStats = [i \in Indices |-> dynamic[i] + Cardinality(W(i))]
  BY DEF GlobalStats
<1>3. ASSUME NEW i \in Indices
      PROVE  /\ Cardinality(W(i)) \in Nat
             /\ dynamic[i] + Cardinality(W(i)) \in Nat
             /\ AtMost(dynamic[i] + Cardinality(W(i)), Expected(i))
  <2>1. Accounted(d, e, i) BY <1>1 DEF MixedBy
  <2>2. PICK D, V : D = Tally(d, i) /\ V = W(i) OBVIOUS
  <2>3. ASSUME NEW b \in DOMAIN statsList
        PROVE  /\ statsList[b].counter \in Nat /\ d[b] \in Nat
               /\ statsList[b].counter <= d[b]
               /\ ~overlapped => statsList[b].counter = d[b]
               /\ Positions(IndexesOf(b), i) \subseteq Nat
    <3>1. statsList[b].counter \in Nat /\ IndexesOf(b) \in Seq(1 .. 2 * MaxIndex - 1)
      BY ShapeGives
    <3>2. Positions(IndexesOf(b), i) \subseteq 1 .. Len(IndexesOf(b))
      BY <3>1, PositionsFinite
    <3>3. Positions(IndexesOf(b), i) \subseteq Nat BY <3>2
    <3> QED BY <1>1, <3>1, <3>3 DEF MixedBy, AtMost
  <2>4. V \subseteq D
    <3> SUFFICES ASSUME NEW x \in W(i) PROVE x \in Tally(d, i) BY <2>2
    <3>1. PICK b \in DOMAIN statsList :
            x \in {b} \X (1 .. statsList[b].counter) \X Positions(IndexesOf(b), i)
      BY DEF IndexesOf
    <3>2. PICK n, k : /\ x = <<b, n, k>> /\ n \in 1 .. statsList[b].counter
                      /\ k \in Positions(IndexesOf(b), i)
      BY <3>1
    <3>3. n \in Nat /\ n \in 1 .. d[b] /\ k \in Nat BY <2>3, <3>2
    <3> QED BY <3>2, <3>3 DEF Tally
  <2>5. ~overlapped => D \subseteq V
    <3> SUFFICES ASSUME ~overlapped, NEW x \in Tally(d, i) PROVE x \in W(i) BY <2>2
    <3>1. PICK b \in DOMAIN statsList, n \in Nat, k \in Nat :
            /\ x = <<b, n, k>> /\ n \in 1 .. d[b] /\ k \in Positions(IndexesOf(b), i)
      BY DEF Tally
    <3>2. x \in {b} \X (1 .. statsList[b].counter) \X Positions(UpToZero(statsList[b].stats), i)
      BY <2>3, <3>1 DEF IndexesOf
    <3> QED BY <3>2
  <2>6. Due(i) = {}
    <3>1. \A t \in Threads, n \in Nat : ~(n < Len(run[t].calls)) OBVIOUS
    <3> QED BY <3>1 DEF Due, DueOf
  <2>7. Cardinality(Due(i)) = 0 BY <2>6, FS_EmptySet
  <2>8. IsFiniteSet(D) /\ e[i] + Cardinality(D) + 0 = Expected(i)
    BY <2>1, <2>2, <2>7, Zenon DEF Accounted
  <2>9. /\ IsFiniteSet(V) /\ Cardinality(V) <= Cardinality(D)
        /\ Cardinality(V) \in Nat /\ Cardinality(D) \in Nat
    <3>1. IsFiniteSet(V) /\ Cardinality(V) <= Cardinality(D)
      BY <2>4, <2>8, FS_Subset
    <3> QED BY <2>8, <3>1, FS_CardinalityType
  <2>10. ~overlapped => Cardinality(V) = Cardinality(D)
    <3>1. ~overlapped => V = D BY <2>4, <2>5
    <3> QED BY <3>1
  <2>11. AtMost(dynamic[i], e[i]) /\ dynamic[i] \in Nat /\ e[i] \in Nat
    BY <1>1 DEF MixedBy, MixShape, MixTyped
  <2>12. PICK x \in Nat, y \in Nat, v \in Nat, u \in Nat :
           x = dynamic[i] /\ y = e[i] /\ v = Cardinality(V) /\ u = Cardinality(D)
    BY <2>9, <2>11, Zenon
  <2>13. PICK w : w = Expected(i) OBVIOUS
  <2>14. y + u + 0 = w BY <2>8, <2>12, <2>13, Zenon
  <2>15. v <= u /\ (~overlapped => v = u) BY <2>9, <2>10, <2>12, Zenon
  <2>16. x <= y /\ (~overlapped => x = y) BY <2>11, <2>12 DEF AtMost
  <2>17. x + v \in Nat /\ x + v <= w /\ (~overlapped => x + v = w)
    BY <2>14, <2>15, <2>16
  <2>18. AtMost(x + v, w) BY <2>17 DEF AtMost
  <2> HIDE DEF W
  <2> QED BY <2>2, <2>9, <2>12, <2>13, <2>17, <2>18, Zenon
<1> HIDE DEF W
<1> QED BY <1>2, <1>3

LEMMA MixNext ==
    ASSUME MixInv, NextBlocks PROVE MixInv'
<1>1. knobs' = knobs /\ knobs \in KnobSettings /\ overlapped \in BOOLEAN
  BY DEF MixInv, NextBlocks, LoadImage, Enter, Continue, Execute, ReadCounter,
         WriteCounter, Quick, Flush, FiniBlocks
<1>2. overlapped' \in BOOLEAN
  BY <1>1 DEF NextBlocks, LoadImage, Enter, Continue, Execute, ReadCounter,
              WriteCounter, Quick, Flush, FiniBlocks
<1>3. Mixing' <=> Mixing BY <1>1 DEF Mixing
<1>4. ASSUME Mixing
      PROVE  /\ happened' \in [Indices -> Nat] /\ HeldIsExecuted'
             /\ Ended' => Settled'
             /\ ~Ended' => MixShape' /\ OneRoutine' /\ MixCounted'
  <2>1. /\ happened \in [Indices -> Nat] /\ HeldIsExecuted
        /\ Ended => Settled
        /\ ~Ended => MixShape /\ OneRoutine /\ MixCounted
    BY <1>4 DEF MixInv
  <2>2. ~Ended
    <3>1. SUFFICES ASSUME Ended PROVE FALSE OBVIOUS
    <3>2. \A t \in Threads : run[t].calls = <<>> /\ ~run[t].routine
      BY <2>1, <3>1 DEF Settled, Idle
    <3> QED BY <3>1, <3>2 DEF NextBlocks, LoadImage, Enter, Continue, Execute,
               ReadCounter, WriteCounter, Quick, Flush, FiniBlocks
  <2>3. MixShape /\ OneRoutine /\ MixCounted BY <2>1, <2>2
  <2>4. CASE FiniBlocks
    <3>1. /\ dumped' = <<Rows(static), Rows(GlobalStats)>> /\ dynamic' = GlobalStats
          /\ UNCHANGED <<knobs, run, happened, overlapped>>
          /\ \A t \in Threads : run[t].calls = <<>>
      BY <2>4 DEF FiniBlocks, Idle
    <3>2. Ended' BY <3>1 DEF Ended, NotDumped
    <3>3. /\ GlobalStats \in [Indices -> Nat]
          /\ \A i \in Indices : AtMost(GlobalStats[i], Expected(i))
      BY <1>1, <2>3, <3>1, GlobalStatsAre
    <3>4. \A t \in Threads : Idle(t)' /\ ~run'[t].routine
      BY <2>3, <3>1, ShapeGives DEF Idle
    <3>5. \A i \in Indices : AtMost(dynamic[i], Expected(i))'
      <4> TAKE i \in Indices
      <4>1. PICK n, m : n = GlobalStats[i] /\ m = Expected(i) OBVIOUS
      <4>2. AtMost(n, m)' BY <3>1, <3>3, <4>1, AtMostStays
      <4>3. dynamic'[i] = n /\ Expected(i)' = m BY <3>1, <4>1 DEF Expected
      <4> QED BY <4>2, <4>3
    <3>6. dumped'[2] = Rows(dynamic)'
      <4>1. Rows(dynamic)' = Rows(GlobalStats) BY <3>1 DEF Rows
      <4> QED BY <3>1, <4>1
    <3>7. Settled' BY <3>1, <3>3, <3>4, <3>5, <3>6 DEF Settled
    <3>8. happened' \in [Indices -> Nat] /\ HeldIsExecuted'
      BY <2>1, <3>1 DEF HeldIsExecuted
    <3> QED BY <3>2, <3>7, <3>8
  <2>5. CASE ~FiniBlocks
    <3>1. ~Ended'
      <4>1. dumped' = dumped
        BY <1>4, <2>5 DEF NextBlocks, LoadImage, Enter, Continue, Execute,
           ReadCounter, WriteCounter, Quick, Flush, Mixing
      <4> QED BY <2>2, <4>1 DEF Ended
    <3>2. MixShape' /\ OneRoutine' /\ MixCounted' /\ HeldIsExecuted'
      <4>1. CASE \E img \in {"main", "lib"} : LoadImage(img)
        <5>1. UNCHANGED <<knobs, statsList, dynamic, run, happened, overlapped, codeCache>>
          BY <4>1 DEF LoadImage
        <5> QED BY <2>1, <2>3, <5>1, NothingCounted DEF MixShape, MixTyped
      <4>2. CASE \E t \in Threads, tr \in DOMAIN Code : Enter(t, tr)
        BY <1>1, <1>4, <2>1, <2>3, <4>2, EnterKeeps
      <4>3. CASE \E t \in Threads : Continue(t)
        BY <1>1, <1>4, <2>1, <2>3, <4>3, ContinueKeeps
      <4>4. CASE \E t \in Threads : ReadCounter(t)
        <5>1. HeldIsExecuted' BY <2>1, <4>4 DEF ReadCounter, HeldIsExecuted
        <5> QED BY <1>1, <1>4, <2>3, <4>4, <5>1, ReadKeeps
      <4>5. CASE \E t \in Threads : WriteCounter(t)
        <5>1. PICK t \in Threads : WriteCounter(t) BY <4>5
        <5>2. HeldIsExecuted' BY <2>1, <5>1 DEF WriteCounter, HeldIsExecuted
        <5>3. Call(t).to \in {"block", "predicate"} BY <2>3, <5>1, WriteIs, CallIs
        <5> QED BY <1>4, <2>3, <5>1, <5>2, <5>3, WriteShape, WriteBlockCounts,
                   WritePredicateCounts
      <4>6. CASE \E on \in BOOLEAN : Quick(on)
        BY <1>4, <4>6 DEF Quick, Mixing
      <4>7. CASE Flush
        <5>1. UNCHANGED <<knobs, statsList, dynamic, run, happened, overlapped>>
              /\ codeCache' = [tr \in DOMAIN Code |-> NotCompiled]
          BY <4>7 DEF Flush
        <5> QED BY <2>1, <2>3, <5>1, NothingCounted
      <4> QED BY <2>5, <4>1, <4>2, <4>3, <4>4, <4>5, <4>6, <4>7 DEF NextBlocks
    <3>3. happened' \in [Indices -> Nat] BY <3>2 DEF MixShape, MixTyped
    <3> QED BY <3>1, <3>2, <3>3
  <2> QED BY <2>4, <2>5
<1> QED BY <1>1, <1>2, <1>3, <1>4 DEF MixInv

LEMMA MixInit == ASSUME InitBlocks PROVE MixInv
<1>1. knobs \in KnobSettings /\ overlapped = FALSE /\ ~Ended
  BY DEF InitBlocks, Ended
<1>2. /\ happened = [i \in Indices |-> 0] /\ dynamic = [i \in Indices |-> 0]
      /\ statsList = <<>> /\ run = [t \in Threads |-> Here]
      /\ codeCache = [tr \in DOMAIN Code |-> NotCompiled]
  BY DEF InitBlocks
<1>3. HeldIsExecuted
  <2>1. \A c \in 0 .. MaxIndex - 1 :
          PredicatedTrue(c) \in Indices /\ MaxIndex + c \in Indices
    BY CodeAssumption DEF Indices, PredicatedTrue
  <2> QED BY <1>2, <2>1 DEF HeldIsExecuted
<1>4. MixShape
  <2>1. Here \in Runs BY DEF Here, Runs
  <2>2. MixTyped BY <1>2, <2>1 DEF MixTyped
  <2>3. /\ Here.left = <<>> /\ Here.calls = <<>> /\ ~Here.routine
        /\ DOMAIN <<>> = {}
    BY DEF Here
  <2>4. \A t \in Threads : run[t] = Here BY <1>2
  <2>5. \A t \in Threads : /\ DOMAIN run[t].left = {} /\ DOMAIN run[t].calls = {}
                           /\ ~run[t].routine
    BY <2>3, <2>4
  <2> QED BY <1>2, <2>2, <2>5 DEF MixShape
<1>5. OneRoutine BY <1>2 DEF OneRoutine, Here
<1>6. MixCounted
  <2>1. PICK d, e : d = [b \in DOMAIN statsList |-> 0] /\ e = [i \in Indices |-> 0]
    OBVIOUS
  <2>2. d \in [DOMAIN statsList -> Nat] /\ e \in [Indices -> Nat] BY <2>1
  <2>3. DOMAIN statsList = {} BY <1>2
  <2>4. ASSUME NEW i \in Indices PROVE Accounted(d, e, i)
    <3>1. Tally(d, i) = {} BY <2>3 DEF Tally
    <3>2. Due(i) = {}
      <4>1. \A t \in Threads, n \in Nat : ~(n < Len(run[t].calls))
        BY <1>2 DEF Here
      <4> QED BY <4>1 DEF Due, DueOf
    <3>3. Expected(i) = 0 BY <1>2 DEF Expected
    <3>4. IsFiniteSet({}) /\ Cardinality({}) = 0 BY FS_EmptySet
    <3>5. e[i] = 0 BY <2>1
    <3>6. IsFiniteSet(Tally(d, i)) /\ IsFiniteSet(Due(i))
          /\ Cardinality(Tally(d, i)) = 0 /\ Cardinality(Due(i)) = 0
      BY <3>1, <3>2, <3>4, Zenon
    <3> QED BY <3>3, <3>5, <3>6 DEF Accounted
  <2>5. ReadAtMost(d, e) BY <1>2 DEF ReadAtMost, Here
  <2>6. \A i \in Indices : AtMost(dynamic[i], e[i])
    BY <1>2, <2>1 DEF AtMost
  <2>7. MixedBy(d, e) BY <2>3, <2>4, <2>5, <2>6 DEF MixedBy
  <2> QED BY <2>2, <2>7 DEF MixCounted
<1> QED BY <1>1, <1>2, <1>3, <1>4, <1>5, <1>6 DEF MixInv

\* Once settled, the report's rows are what happened.
LEMMA MixSuffices == ASSUME MixInv PROVE CountsMatch
<1> SUFFICES ASSUME Ended, Mixing, NEW c \in 0 .. MaxIndex - 1
             PROVE  LET right == <<happened[c], happened[MaxIndex + c],
                                   IF knobs.predicated
                                   THEN happened[PredicatedTrue(c)] ELSE 0>>
                    IN  \A k \in 1 .. 3 : /\ Row(c)[k] <= right[k]
                                          /\ ~overlapped => Row(c)[k] = right[k]
  BY DEF CountsMatch, Mixing
<1>1. /\ happened \in [Indices -> Nat] /\ dynamic \in [Indices -> Nat]
      /\ happened[PredicatedTrue(c)] <= happened[MaxIndex + c]
      /\ dumped[2] = Rows(dynamic)
      /\ \A i \in Indices : AtMost(dynamic[i], Expected(i))
  BY DEF MixInv, Settled, HeldIsExecuted
<1>2. MaxIndex \in Nat /\ c \in Nat /\ c < MaxIndex BY CodeAssumption
<1>3. PICK p : p = PredicatedTrue(c) OBVIOUS
<1>4. /\ c \in Indices /\ MaxIndex + c \in Indices /\ p \in Indices
      /\ ~(c >= 2 * MaxIndex) /\ ~(MaxIndex + c >= 2 * MaxIndex) /\ p >= 2 * MaxIndex
  BY <1>2, <1>3 DEF Indices, PredicatedTrue
<1>5. PICK x \in Nat, y \in Nat, z \in Nat, a \in Nat, b \in Nat, h \in Nat :
        /\ x = dynamic[c] /\ y = dynamic[MaxIndex + c] /\ z = dynamic[p]
        /\ a = happened[c] /\ b = happened[MaxIndex + c] /\ h = happened[p]
  BY <1>1, <1>4
<1>6. PICK r \in Nat : r = IF knobs.predicated THEN h ELSE 0 BY <1>5
<1>7. Expected(c) = a /\ Expected(MaxIndex + c) = b /\ Expected(p) = r
  BY <1>4, <1>5, <1>6 DEF Expected
<1>8. /\ x <= a /\ (~overlapped => x = a)
      /\ y <= b /\ (~overlapped => y = b)
      /\ z <= r /\ (~overlapped => z = r)
  BY <1>1, <1>4, <1>5, <1>7 DEF AtMost
<1>9. r <= b BY <1>1, <1>3, <1>5, <1>6
<1>10. Row(c) = IF x # 0 \/ y # 0 THEN <<x, y, z>> ELSE <<0, 0, 0>>
  <2>1. c \in DOMAIN dumped[2] <=> x # 0 \/ y # 0
    BY <1>1, <1>5 DEF Rows
  <2>2. c \in DOMAIN dumped[2] => dumped[2][c] = <<x, y, z>>
    BY <1>1, <1>3, <1>5 DEF Rows
  <2> QED BY <2>1, <2>2 DEF Row
<1>11. PICK u \in Nat, v \in Nat, w \in Nat : Row(c) = <<u, v, w>>
         /\ <<u, v, w>> = IF x # 0 \/ y # 0 THEN <<x, y, z>> ELSE <<0, 0, 0>>
  BY <1>10
<1>12. /\ u <= a /\ (~overlapped => u = a)
       /\ v <= b /\ (~overlapped => v = b)
       /\ w <= r /\ (~overlapped => w = r)
  <2>1. CASE x # 0 \/ y # 0
    <3>1. u = x /\ v = y /\ w = z BY <1>11, <2>1
    <3> QED BY <1>8, <3>1
  <2>2. CASE x = 0 /\ y = 0
    <3>1. u = 0 /\ v = 0 /\ w = 0 BY <1>11, <2>2
    <3> QED BY <1>8, <1>9, <2>2, <3>1
  <2> QED BY <2>1, <2>2
<1>13. <<happened[c], happened[MaxIndex + c],
         IF knobs.predicated THEN happened[PredicatedTrue(c)] ELSE 0>> = <<a, b, r>>
  BY <1>3, <1>5, <1>6
<1> QED BY <1>11, <1>12, <1>13

\* catmix's dynamic counts are how often instructions of each category were
\* executed, for any code, any threads and any options: exactly, if no two of
\* its routines overlapped, and never more.
THEOREM CountsMatchCorrect == SpecBlocks => []CountsMatch
<1>1. InitBlocks => MixInv BY MixInit
<1>2. MixInv /\ [NextBlocks]_blockVars => MixInv'
  <2>1. ASSUME MixInv, UNCHANGED blockVars PROVE MixInv'
    <3>1. UNCHANGED <<knobs, codeCache, statsList, dynamic, run, happened, overlapped,
                      dumped>>
      BY <2>1 DEF blockVars
    <3>2. knobs' \in KnobSettings /\ overlapped' \in BOOLEAN
      BY <2>1, <3>1 DEF MixInv
    <3>3. (Mixing' <=> Mixing) /\ (Ended' <=> Ended) BY <3>1 DEF Mixing, Ended
    <3>4. ASSUME Mixing, ~Ended
          PROVE  MixShape' /\ OneRoutine' /\ MixCounted'
      <4>1. MixShape /\ OneRoutine /\ MixCounted /\ HeldIsExecuted
        BY <2>1, <3>4 DEF MixInv
      <4> QED BY <3>1, <4>1, NothingCounted DEF MixShape, MixTyped
    <3>5. ASSUME Mixing, Ended PROVE Settled'
      <4>1. Settled BY <2>1, <3>5 DEF MixInv
      <4>2. Rows(dynamic)' = Rows(dynamic) BY <3>1 DEF Rows
      <4>3. \A i \in Indices : AtMost(dynamic[i], Expected(i))'
        <5> TAKE i \in Indices
        <5>1. PICK n, m : n = dynamic[i] /\ m = Expected(i) OBVIOUS
        <5>2. AtMost(n, m)' BY <3>1, <4>1, <5>1, AtMostStays DEF Settled
        <5>3. dynamic'[i] = n /\ Expected(i)' = m BY <3>1, <5>1 DEF Expected
        <5> QED BY <5>2, <5>3
      <4> QED BY <3>1, <4>1, <4>2, <4>3 DEF Settled, Idle
    <3>6. Mixing => happened' \in [Indices -> Nat] /\ HeldIsExecuted'
      BY <2>1, <3>1 DEF MixInv, HeldIsExecuted
    <3> QED BY <3>2, <3>3, <3>4, <3>5, <3>6 DEF MixInv
  <2> QED BY <2>1, MixNext
<1>3. MixInv => CountsMatch BY MixSuffices
<1> QED BY <1>1, <1>2, <1>3, PTL DEF SpecBlocks

(***************************************************************************)
(* trace_archlab: the inductive invariant.                                 *)
(***************************************************************************)

\* What is written to the file, and what a call writes.
RunRecords == ({"id"} \X Nat) \cup ({"text"} \X Block)
Records    == RunRecords \cup ({"block"} \X Nat \X Block) \cup {Eof}
FileCalls  == [to : {"file"}, block : Block, what : RunRecords]
TraceHows  == [calls : Seq(FileCalls), traced : BOOLEAN]
TraceRuns  == [left : Seq([block : Block, how : TraceHows]),
               calls : Seq(FileCalls), old : {0}, routine : BOOLEAN]

\* A call that is yet to be made shows its block or names a number that is
\* defined already, as its block.
Shown(c) ==
    \/ c.what = <<"text", c.block>>
    \/ \E j \in DOMAIN file, id \in Nat :
         file[j] = <<"block", id, c.block>> /\ c.what = <<"id", id>>
AllShown(calls) == \A j \in DOMAIN calls : Shown(calls[j])
Traced(how) == how \in TraceHows /\ AllShown(how.calls)

TraceTyped ==
    /\ count_trace \in Nat
    /\ file \in Seq(Records) /\ executed \in Seq(Block)
    /\ run \in [Threads -> TraceRuns]
    /\ DOMAIN codeCache = DOMAIN Code

TraceShape ==
    /\ TraceTyped
    /\ \A tr \in DOMAIN Code : codeCache[tr] # NotCompiled =>
         \A k \in DOMAIN Code[tr] : Traced(codeCache[tr][k])
    /\ \A t \in Threads :
         /\ \A k \in DOMAIN run[t].left : Traced(run[t].left[k].how)
         /\ AllShown(run[t].calls)
         /\ run[t].routine => run[t].calls # <<>>

\* A number is defined once.
Numbered ==
    /\ \A k \in DOMAIN file : file[k][1] = "block" => file[k][2] \in 1 .. count_trace
    /\ \A j, k \in DOMAIN file :
         file[j][1] = "block" /\ file[k][1] = "block" /\ file[j][2] = file[k][2] => j = k

\* The record at k shows a block, or names it by a number defined before.
Shows(k, block) ==
    \/ file[k] = <<"text", block>>
    \/ \E j \in 1 .. k - 1, id \in Nat :
         file[j] = <<"block", id, block>> /\ file[k] = <<"id", id>>
Replayed ==
    /\ Cardinality(RunsUpTo(Len(file))) = Len(executed)
    /\ \A k \in RunsUpTo(Len(file)) : Shows(k, executed[Cardinality(RunsUpTo(k))])

TraceInv ==
    /\ overlapped \in BOOLEAN
    /\ knobs.tool = "trace" /\ ~overlapped => TraceShape /\ Numbered /\ Replayed

(***************************************************************************)
(* The file grows.                                                         *)
(***************************************************************************)

\* What is written stays.
Grows == \A j \in DOMAIN file : j \in DOMAIN file' /\ file'[j] = file[j]

LEMMA ShownKept ==
    ASSUME Grows, NEW c, Shown(c) PROVE Shown(c)'
BY DEF Grows, Shown

LEMMA TracedKept ==
    ASSUME Grows
    PROVE  /\ \A calls : AllShown(calls) => AllShown(calls)'
           /\ \A how : Traced(how) => Traced(how)'
<1>1. ASSUME NEW calls, AllShown(calls) PROVE AllShown(calls)'
  <2>1. ASSUME NEW j \in DOMAIN calls PROVE Shown(calls[j])'
    <3>1. PICK c : c = calls[j] OBVIOUS
    <3>2. Shown(c) BY <1>1, <3>1 DEF AllShown
    <3>3. Shown(c)' BY <3>2, ShownKept
    <3> QED BY <3>1, <3>3
  <2> QED BY <2>1 DEF AllShown
<1>2. ASSUME NEW how, Traced(how) PROVE Traced(how)'
  <2>1. PICK calls : calls = how.calls OBVIOUS
  <2>2. AllShown(calls)' BY <1>1, <1>2, <2>1 DEF Traced
  <2> QED BY <1>2, <2>1, <2>2 DEF Traced
<1> QED BY <1>1, <1>2

LEMMA RunsAre ==
    ASSUME NEW k \in Nat
    PROVE  /\ IsFiniteSet(RunsUpTo(k)) /\ RunsUpTo(k) \subseteq 1 .. k
           /\ Cardinality(RunsUpTo(k)) \in Nat
           /\ \A j \in RunsUpTo(k) : j \in RunsUpTo(j)
           /\ \A j \in 1 .. k : /\ RunsUpTo(j) \subseteq RunsUpTo(k)
                                /\ IsFiniteSet(RunsUpTo(j))
                                /\ Cardinality(RunsUpTo(j)) \in Nat
                                /\ Cardinality(RunsUpTo(j)) <= Cardinality(RunsUpTo(k))
<1>1. RunsUpTo(k) \subseteq 1 .. k BY DEF RunsUpTo
<1>2. IsFiniteSet(1 .. k) BY FS_Interval
<1>3. IsFiniteSet(RunsUpTo(k)) BY <1>1, <1>2, FS_Subset
<1>4. \A j \in RunsUpTo(k) : j \in RunsUpTo(j) BY DEF RunsUpTo
<1>5. \A j \in 1 .. k : RunsUpTo(j) \subseteq RunsUpTo(k) BY DEF RunsUpTo
<1>6. ASSUME NEW j \in 1 .. k
      PROVE  /\ IsFiniteSet(RunsUpTo(j))
             /\ Cardinality(RunsUpTo(j)) \in Nat
             /\ Cardinality(RunsUpTo(j)) <= Cardinality(RunsUpTo(k))
  BY <1>3, <1>5, FS_Subset, FS_CardinalityType
<1> QED BY <1>1, <1>3, <1>4, <1>5, <1>6, FS_CardinalityType

\* The record at k keeps the place it has among the runs, and what it shows.
LEMMA RunsKept ==
    ASSUME Grows, file \in Seq(Records)
    PROVE  /\ \A k \in 0 .. Len(file) : RunsUpTo(k)' = RunsUpTo(k)
           /\ \A k \in DOMAIN file : \A block : Shows(k, block) => Shows(k, block)'
<1>1. DOMAIN file = 1 .. Len(file) /\ Len(file) \in Nat OBVIOUS
<1>2. ASSUME NEW k \in 0 .. Len(file) PROVE RunsUpTo(k)' = RunsUpTo(k)
  BY <1>1 DEF Grows, RunsUpTo
<1>3. ASSUME NEW k \in DOMAIN file, NEW block, Shows(k, block) PROVE Shows(k, block)'
  <2>1. \A j \in 1 .. k - 1 : j \in DOMAIN file BY <1>1
  <2> QED BY <1>3, <2>1 DEF Grows, Shows
<1> QED BY <1>2, <1>3

\* Each run in the file is one of the blocks that were executed.
LEMMA RunIndex ==
    ASSUME TraceTyped, Replayed, NEW k \in RunsUpTo(Len(file))
    PROVE  /\ k \in DOMAIN file /\ k \in 1 .. Len(file)
           /\ Cardinality(RunsUpTo(k)) \in 1 .. Len(executed)
<1>1. Len(file) \in Nat /\ DOMAIN file = 1 .. Len(file) /\ Len(executed) \in Nat
  BY DEF TraceTyped
<1>2. k \in 1 .. Len(file) /\ k \in RunsUpTo(k) BY <1>1, RunsAre
<1>3. /\ IsFiniteSet(RunsUpTo(k)) /\ Cardinality(RunsUpTo(k)) \in Nat
      /\ Cardinality(RunsUpTo(k)) <= Cardinality(RunsUpTo(Len(file)))
  BY <1>1, <1>2, RunsAre
<1>4. Cardinality(RunsUpTo(k)) # 0 BY <1>2, <1>3, FS_EmptySet
<1> QED BY <1>1, <1>2, <1>3, <1>4 DEF Replayed

\* Records that are no runs leave the replay as it is.
LEMMA GrowsByNoRun ==
    ASSUME TraceTyped, Replayed, NEW new \in Seq(Records), file' = file \o new,
           \A j \in DOMAIN new : new[j][1] \notin {"id", "text"},
           executed' = executed
    PROVE  Replayed'
<1>1. PICK m \in Nat, n \in Nat :
        /\ m = Len(file) /\ n = Len(file') /\ m <= n
        /\ DOMAIN file = 1 .. m /\ DOMAIN file' = 1 .. n
        /\ \A j \in 1 .. m : file'[j] = file[j]
        /\ \A j \in m + 1 .. n : j - m \in DOMAIN new /\ file'[j] = new[j - m]
  <2>1. PICK m \in Nat, l \in Nat :
          /\ m = Len(file) /\ l = Len(new)
          /\ DOMAIN file = 1 .. m /\ DOMAIN new = 1 .. l
    BY DEF TraceTyped
  <2>2. file' \in Seq(Records) /\ Len(file') = m + l BY <2>1 DEF TraceTyped
  <2>3. \A j \in 1 .. m : file'[j] = file[j] BY <2>1 DEF TraceTyped
  <2>4. \A j \in m + 1 .. m + l : j - m \in 1 .. l /\ file'[j] = new[j - m]
    BY <2>1 DEF TraceTyped
  <2>5. DOMAIN file' = 1 .. m + l /\ m + l \in Nat /\ m <= m + l BY <2>1, <2>2
  <2> QED BY <2>1, <2>2, <2>3, <2>4, <2>5
<1>2. Grows BY <1>1 DEF Grows
<1>3. \A k \in 0 .. m : RunsUpTo(k)' = RunsUpTo(k) BY <1>1, <1>2, RunsKept DEF TraceTyped
<1>4. RunsUpTo(n)' = RunsUpTo(m)
  <2>1. \A j \in m + 1 .. n : file'[j][1] \notin {"id", "text"} BY <1>1
  <2>2. \A j : j \in 1 .. n <=> j \in 1 .. m \/ j \in m + 1 .. n BY <1>1
  <2> QED BY <1>1, <2>1, <2>2 DEF RunsUpTo
<1>5. RunsUpTo(Len(file))' = RunsUpTo(m) BY <1>1, <1>4 DEF RunsUpTo
<1>6. (Cardinality(RunsUpTo(Len(file))) = Len(executed))'
  BY <1>1, <1>5 DEF Replayed
<1>7. ASSUME NEW k \in RunsUpTo(m)
      PROVE  Shows(k, executed[Cardinality(RunsUpTo(k))])'
  <2>1. k \in DOMAIN file /\ k \in 0 .. m BY <1>1, RunIndex
  <2>2. PICK b : b = executed[Cardinality(RunsUpTo(k))] OBVIOUS
  <2>3. Shows(k, b)
    BY <1>1, <2>2 DEF Replayed
  <2>4. Shows(k, b)' BY <1>2, <2>1, <2>3, RunsKept DEF TraceTyped
  <2>5. executed'[Cardinality(RunsUpTo(k)')] = b BY <1>3, <2>1, <2>2
  <2> QED BY <2>4, <2>5
<1> QED BY <1>5, <1>6, <1>7 DEF Replayed

\* A run that shows a block replays to it.
LEMMA GrowsByRun ==
    ASSUME TraceTyped, Replayed, NEW r \in RunRecords, file' = Append(file, r),
           NEW block, executed' = Append(executed, block),
           \/ r = <<"text", block>>
           \/ \E j \in DOMAIN file, id \in Nat :
                file[j] = <<"block", id, block>> /\ r = <<"id", id>>
    PROVE  Replayed'
<1>1. PICK m \in Nat : m = Len(file) /\ Len(file') = m + 1
        /\ DOMAIN file = 1 .. m /\ DOMAIN file' = 1 .. m + 1
        /\ (\A j \in 1 .. m : file'[j] = file[j]) /\ file'[m + 1] = r
  BY DEF TraceTyped
<1>2. Grows BY <1>1 DEF Grows
<1>3. \A k \in 0 .. m : RunsUpTo(k)' = RunsUpTo(k) BY <1>1, <1>2, RunsKept DEF TraceTyped
<1>4. RunsUpTo(m + 1)' = RunsUpTo(m) \cup {m + 1}
  <2>1. r[1] \in {"id", "text"} BY DEF RunRecords
  <2>2. \A j : j \in 1 .. m + 1 <=> j \in 1 .. m \/ j = m + 1 BY <1>1
  <2> QED BY <1>1, <2>1, <2>2 DEF RunsUpTo
<1>5. PICK n \in Nat : n = Len(executed) /\ Len(executed') = n + 1
        /\ (\A j \in 1 .. n : executed'[j] = executed[j]) /\ executed'[n + 1] = block
  BY DEF TraceTyped
<1>6. Cardinality(RunsUpTo(m + 1)') = n + 1
  <2>1. /\ IsFiniteSet(RunsUpTo(m)) /\ m + 1 \notin RunsUpTo(m)
        /\ Cardinality(RunsUpTo(m)) = n
    <3>1. RunsUpTo(m) \subseteq 1 .. m BY RunsAre
    <3> QED BY <1>1, <1>5, <3>1, RunsAre DEF Replayed
  <2>2. Cardinality(RunsUpTo(m) \cup {m + 1}) = n + 1
    BY <2>1, FS_AddElement
  <2> QED BY <1>4, <2>2
<1>7. RunsUpTo(Len(file))' = RunsUpTo(m + 1)' BY <1>1 DEF RunsUpTo
<1>8. (Cardinality(RunsUpTo(Len(file))) = Len(executed))'
  BY <1>5, <1>6, <1>7
<1>9. ASSUME NEW k \in RunsUpTo(m)
      PROVE  Shows(k, executed[Cardinality(RunsUpTo(k))])'
  <2>1. /\ k \in DOMAIN file /\ k \in 0 .. m
        /\ Cardinality(RunsUpTo(k)) \in 1 .. n
    BY <1>1, <1>5, RunIndex
  <2>2. PICK b : b = executed[Cardinality(RunsUpTo(k))] OBVIOUS
  <2>3. Shows(k, b) BY <1>1, <2>2 DEF Replayed
  <2>4. Shows(k, b)' BY <1>2, <2>1, <2>3, RunsKept DEF TraceTyped
  <2>5. executed'[Cardinality(RunsUpTo(k)')] = b BY <1>3, <1>5, <2>1, <2>2
  <2> QED BY <2>4, <2>5
<1>10. Shows(m + 1, executed[Cardinality(RunsUpTo(m + 1))])'
  <2>1. executed'[Cardinality(RunsUpTo(m + 1)')] = block BY <1>5, <1>6
  <2>2. Shows(m + 1, block)'
    <3>1. \A j \in DOMAIN file : j \in 1 .. (m + 1) - 1 /\ file'[j] = file[j] BY <1>1
    <3> QED BY <1>1, <3>1 DEF Shows
  <2> QED BY <2>1, <2>2
<1>11. \A k \in RunsUpTo(Len(file))' : k \in RunsUpTo(m) \/ k = m + 1
  BY <1>4, <1>7
<1> QED BY <1>8, <1>9, <1>10, <1>11 DEF Replayed

(***************************************************************************)
(* The steps of the tracer, as long as no two of its routines overlap.     *)
(***************************************************************************)

LEMMA NotGarbled ==
    ASSUME file \in Seq(Records)
    PROVE  /\ file # Garbled
           /\ \A records : (\A u \in Threads : ~run[u].routine) =>
                Written(records) = file \o records
<1>1. \A r \in Records : r[1] \in {"id", "text", "block", "eof"}
  BY DEF Records, RunRecords, Eof
<1>2. file # Garbled
  <2> SUFFICES ASSUME file = Garbled PROVE FALSE OBVIOUS
  <2>1. 1 \in DOMAIN file /\ file[1] = <<"garbled">> BY DEF Garbled
  <2>2. file[1] \in Records BY <2>1
  <2>3. file[1][1] = "garbled" BY <2>1
  <2> QED BY <1>1, <2>2, <2>3
<1> QED BY <1>2 DEF Written

\* A step that writes nothing.
LEMMA NothingWritten ==
    ASSUME TraceTyped, Numbered, Replayed, UNCHANGED <<file, executed, count_trace>>
    PROVE  Grows /\ Numbered' /\ Replayed'
<1>1. Grows BY DEF Grows
<1>2. Numbered' BY DEF Numbered
<1>3. file \o <<>> = file BY DEF TraceTyped
<1>4. <<>> \in Seq(Records) /\ DOMAIN <<>> = {} OBVIOUS
<1>5. Replayed' BY <1>3, <1>4, GrowsByNoRun
<1> QED BY <1>1, <1>2, <1>5

\* A thread whose calls and place stay, or shrink.
LEMMA ThreadTraced ==
    ASSUME TraceShape, Grows, NEW u \in Threads,
           run'[u].left = run[u].left, run'[u].calls = run[u].calls
    PROVE  /\ \A k \in DOMAIN run'[u].left : Traced(run[u].left[k].how)'
           /\ AllShown(run[u].calls)'
<1>1. ASSUME NEW k \in DOMAIN run'[u].left PROVE Traced(run[u].left[k].how)'
  <2>1. PICK h : h = run[u].left[k].how OBVIOUS
  <2>2. Traced(h) BY <2>1 DEF TraceShape
  <2>3. Traced(h)' BY <2>2, TracedKept
  <2> QED BY <2>1, <2>3
<1>2. AllShown(run[u].calls)'
  <2>1. PICK calls : calls = run[u].calls OBVIOUS
  <2>2. AllShown(calls) BY <2>1 DEF TraceShape
  <2>3. AllShown(calls)' BY <2>2, TracedKept
  <2> QED BY <2>1, <2>3
<1> QED BY <1>1, <1>2

\* The code cache stays, or is emptied.
LEMMA CacheTraced ==
    ASSUME TraceShape, Grows,
           \A tr \in DOMAIN Code : codeCache'[tr] \in {codeCache[tr], NotCompiled}
    PROVE  \A tr \in DOMAIN Code : codeCache'[tr] # NotCompiled =>
             \A k \in DOMAIN Code[tr] : Traced(codeCache[tr][k])'
<1> SUFFICES ASSUME NEW tr \in DOMAIN Code, codeCache'[tr] # NotCompiled,
                    NEW k \in DOMAIN Code[tr]
             PROVE  Traced(codeCache[tr][k])'
  OBVIOUS
<1>1. PICK h : h = codeCache[tr][k] OBVIOUS
<1>2. codeCache'[tr] = codeCache[tr] OBVIOUS
<1>3. Traced(h) BY <1>1, <1>2 DEF TraceShape
<1>4. Traced(h)' BY <1>3, TracedKept
<1> QED BY <1>1, <1>2, <1>4

\* A step of the program, or of Pin, that leaves threads as they are.
LEMMA TraceStands ==
    ASSUME TraceShape, Numbered, Replayed,
           UNCHANGED <<file, executed, count_trace, run>>,
           DOMAIN codeCache' = DOMAIN Code,
           \A tr \in DOMAIN Code : codeCache'[tr] \in {codeCache[tr], NotCompiled}
    PROVE  TraceShape' /\ Numbered' /\ Replayed'
<1>1. Grows /\ Numbered' /\ Replayed' BY NothingWritten DEF TraceShape
<1>2. TraceTyped' BY DEF TraceShape, TraceTyped
<1>3. \A u \in Threads :
        /\ \A k \in DOMAIN run'[u].left : Traced(run[u].left[k].how)'
        /\ AllShown(run[u].calls)'
        /\ run'[u].routine => run'[u].calls # <<>>
  BY <1>1, ThreadTraced DEF TraceShape
<1>4. \A tr \in DOMAIN Code : codeCache'[tr] # NotCompiled =>
        \A k \in DOMAIN Code[tr] : Traced(codeCache[tr][k])'
  BY <1>1, CacheTraced
<1> QED BY <1>1, <1>2, <1>3, <1>4 DEF TraceShape

LEMMA TraceExecutes ==
    ASSUME knobs.tool = "trace", TraceShape, Grows,
           count_trace' \in Nat, file' \in Seq(Records),
           DOMAIN codeCache' = DOMAIN Code,
           \A tr \in DOMAIN Code : codeCache'[tr] # NotCompiled =>
             \A k \in DOMAIN Code[tr] : Traced(codeCache[tr][k])',
           NEW t \in Threads, NEW left \in Seq([block : Block, how : TraceHows]),
           \A k \in DOMAIN left : Traced(left[k].how)', Execute(t, left)
    PROVE  TraceShape'
<1>1. left # <<>> /\ executed' = executed /\ run[t].calls = <<>>
  BY DEF Execute, Idle
<1>2. PICK how : how = Head(left).how OBVIOUS
<1>3. 1 \in DOMAIN left /\ Head(left) = left[1] BY <1>1
<1>4. how \in TraceHows /\ Traced(how)'
  <2>1. left[1] \in [block : Block, how : TraceHows] BY <1>3, Members
  <2>2. PICK h : h = left[1].how OBVIOUS
  <2>3. Traced(h)' BY <1>3, <2>2
  <2> QED BY <1>2, <1>3, <2>1, <2>2, <2>3
<1>5. PICK calls \in Seq(FileCalls) : calls = how.calls BY <1>4 DEF TraceHows
<1>6. AllShown(calls)' BY <1>4, <1>5 DEF Traced
<1>7. run' = [run EXCEPT ![t].calls = calls, ![t].left = Tail(left)]
  <2>1. calls \o <<>> = calls OBVIOUS
  <2>2. run' = [run EXCEPT ![t].calls = how.calls \o <<>>, ![t].left = Tail(left)]
    BY <1>2 DEF Execute
  <2> QED BY <1>5, <2>1, <2>2
<1>8. run \in [Threads -> TraceRuns] /\ run[t] \in TraceRuns
  BY DEF TraceShape, TraceTyped
<1>9. Tail(left) \in Seq([block : Block, how : TraceHows])
      /\ \A k \in DOMAIN Tail(left) : k + 1 \in DOMAIN left /\ Tail(left)[k] = left[k + 1]
  BY <1>1
<1>10. /\ \A u \in Threads \ {t} : run'[u] = run[u]
       /\ run'[t].calls = calls /\ run'[t].left = Tail(left)
       /\ run'[t].routine = run[t].routine
       /\ run'[t] = [run[t] EXCEPT !.calls = calls, !.left = Tail(left)]
       /\ run' = [u \in Threads |-> run'[u]]
  BY <1>7, <1>8 DEF TraceRuns
<1>11. ~run[t].routine BY <1>1 DEF TraceShape
<1>12. TraceTyped'
  <2>1. run'[t] \in TraceRuns BY <1>8, <1>9, <1>10 DEF TraceRuns
  <2>2. run' \in [Threads -> TraceRuns] BY <1>8, <1>10, <2>1
  <2>3. executed' \in Seq(Block) BY <1>1 DEF TraceShape, TraceTyped
  <2> QED BY <2>2, <2>3 DEF TraceTyped
<1>13. ASSUME NEW u \in Threads
       PROVE  /\ \A k \in DOMAIN run'[u].left : Traced(run[u].left[k].how)'
              /\ AllShown(run[u].calls)'
              /\ run'[u].routine => run'[u].calls # <<>>
  <2>1. CASE u # t
    <3>1. run'[u] = run[u] BY <1>10, <2>1
    <3> QED BY <3>1, ThreadTraced DEF TraceShape
  <2>2. CASE u = t
    <3>1. ASSUME NEW k \in DOMAIN run'[u].left PROVE Traced(run[u].left[k].how)'
      <4>1. k + 1 \in DOMAIN left /\ run'[u].left[k] = left[k + 1]
        BY <1>9, <1>10, <2>2
      <4>2. PICK h : h = left[k + 1].how OBVIOUS
      <4>3. Traced(h)' BY <4>1, <4>2
      <4> QED BY <4>1, <4>2, <4>3
    <3>2. AllShown(run[u].calls)' BY <1>6, <1>10, <2>2
    <3>3. ~run'[u].routine BY <1>10, <1>11, <2>2
    <3> QED BY <3>1, <3>2, <3>3
  <2> QED BY <2>1, <2>2
<1> QED BY <1>12, <1>13 DEF TraceShape

\* What compilation leaves: every call shows its block, and every number has
\* the one definition.
LEMMA CompilesForTrace ==
    ASSUME knobs.tool = "trace", TraceShape, Numbered, Replayed, executed' = executed,
           \A u \in Threads : ~run[u].routine,
           NEW tr \in DOMAIN Code, CompileForTrace(tr)
    PROVE  /\ Grows /\ count_trace' \in Nat /\ file' \in Seq(Records)
           /\ Numbered' /\ Replayed'
           /\ DOMAIN codeCache' = DOMAIN Code
           /\ \A u \in DOMAIN Code : codeCache'[u] # NotCompiled =>
                \A k \in DOMAIN Code[u] : Traced(codeCache[u][k])'
           /\ \A k \in DOMAIN Code[tr] : Traced(codeCache[tr][k])'
<1>1. PICK n \in Nat : n = Len(Code[tr]) /\ DOMAIN Code[tr] = 1 .. n
        /\ \A k \in 1 .. n : Code[tr][k] \in Block
  BY CodeAssumption
<1>2. TraceTyped /\ DOMAIN codeCache = DOMAIN Code BY DEF TraceShape, TraceTyped
<1>3. PICK m \in Nat, c \in Nat : m = Len(file) /\ c = count_trace /\ DOMAIN file = 1 .. m
  BY <1>2 DEF TraceTyped
<1>4. \A u \in DOMAIN Code : u # tr => codeCache'[u] = codeCache[u]
  BY <1>2 DEF CompileForTrace
<1>5. DOMAIN codeCache' = DOMAIN Code BY <1>2 DEF CompileForTrace
<1>6. /\ Grows /\ count_trace' \in Nat /\ file' \in Seq(Records)
      /\ Numbered' /\ Replayed'
      /\ \A k \in 1 .. n : Traced(codeCache[tr][k])'
  <2>1. CASE ~tracing
    <3>1. /\ codeCache' = [codeCache EXCEPT ![tr] =
               [k \in 1 .. n |-> [calls |-> <<>>, traced |-> FALSE]]]
          /\ UNCHANGED <<count_trace, file>>
      BY <1>1, <2>1 DEF CompileForTrace
    <3>2. PICK h : h = [calls |-> <<>>, traced |-> FALSE] OBVIOUS
    <3>3. Traced(h)'
      <4>1. h \in TraceHows BY <3>2 DEF TraceHows
      <4>2. AllShown(h.calls)' BY <3>2 DEF AllShown
      <4> QED BY <4>1, <4>2 DEF Traced
    <3>4. \A k \in 1 .. n : codeCache'[tr][k] = h BY <1>2, <3>1, <3>2
    <3>5. \A k \in 1 .. n : Traced(codeCache[tr][k])' BY <3>3, <3>4
    <3>6. Grows /\ Numbered' /\ Replayed' BY <1>2, <3>1, NothingWritten
    <3>7. count_trace' \in Nat /\ file' \in Seq(Records)
      BY <1>2, <3>1 DEF TraceTyped
    <3> QED BY <3>5, <3>6, <3>7
  <2>2. CASE tracing /\ ~knobs.compress
    <3> DEFINE call(k) == [to |-> "file", block |-> Code[tr][k],
                           what |-> <<"text", Code[tr][k]>>]
    <3>1. /\ codeCache' = [codeCache EXCEPT ![tr] =
               [k \in 1 .. n |-> [calls |-> <<call(k)>>, traced |-> TRUE]]]
          /\ UNCHANGED <<count_trace, file>>
      BY <1>1, <2>2 DEF CompileForTrace, Calls
    <3>2. ASSUME NEW k \in 1 .. n PROVE Traced(codeCache[tr][k])'
      <4>1. PICK h, x : h = [calls |-> <<x>>, traced |-> TRUE] /\ x = call(k) OBVIOUS
      <4>2. codeCache'[tr][k] = h BY <1>2, <3>1, <4>1
      <4>3. x \in FileCalls /\ x.what = <<"text", x.block>>
        BY <1>1, <4>1 DEF FileCalls, RunRecords
      <4>4. h \in TraceHows BY <4>1, <4>3 DEF TraceHows
      <4>5. Shown(x)' BY <4>3 DEF Shown
      <4>6. AllShown(h.calls)' BY <4>1, <4>5 DEF AllShown
      <4>7. Traced(h)' BY <4>4, <4>6 DEF Traced
      <4> QED BY <4>2, <4>7
    <3>3. Grows /\ Numbered' /\ Replayed' BY <1>2, <3>1, NothingWritten
    <3>4. count_trace' \in Nat /\ file' \in Seq(Records)
      BY <1>2, <3>1 DEF TraceTyped
    <3> QED BY <3>2, <3>3, <3>4
  <2>3. CASE tracing /\ knobs.compress
    <3> DEFINE call(k) == [to |-> "file", block |-> Code[tr][k], what |-> <<"id", c + k>>]
    <3>1. PICK new : new = [k \in 1 .. n |-> <<"block", c + k, Code[tr][k]>>] OBVIOUS
    <3>2. /\ codeCache' = [codeCache EXCEPT ![tr] =
               [k \in 1 .. n |-> [calls |-> <<call(k)>>, traced |-> TRUE]]]
          /\ count_trace' = c + n /\ file' = Written(new)
      BY <1>1, <1>3, <2>3, <3>1 DEF CompileForTrace, Calls
    <3>3. file' = file \o new
      BY <1>2, <3>2, NotGarbled DEF TraceTyped
    <3>4. /\ \A k \in 1 .. n : new[k] \in Records
          /\ new \in Seq(Records) /\ Len(new) = n /\ DOMAIN new = 1 .. n
      <4>1. \A k \in 1 .. n : new[k] \in {"block"} \X Nat \X Block BY <1>1, <3>1
      <4>2. \A k \in 1 .. n : new[k] \in Records BY <4>1 DEF Records
      <4>3. new = [k \in 1 .. n |-> new[k]] BY <3>1
      <4>4. new \in [1 .. n -> Records] BY <4>2, <4>3
      <4>5. new \in Seq(Records) /\ Len(new) = n BY <4>4
      <4> QED BY <3>1, <4>2, <4>5
    <3>5. /\ file' \in Seq(Records) /\ DOMAIN file' = 1 .. m + n
          /\ \A j \in 1 .. m : file'[j] = file[j]
          /\ \A k \in 1 .. n : file'[m + k] = new[k]
      <4>1. file \in Seq(Records) BY <1>2 DEF TraceTyped
      <4>2. PICK g : g = file \o new OBVIOUS
      <4>3. /\ g \in Seq(Records) /\ DOMAIN g = 1 .. m + n
            /\ \A j \in 1 .. m : g[j] = file[j]
            /\ \A k \in 1 .. n : g[m + k] = new[k]
        BY <1>3, <3>4, <4>1, <4>2, Concats
      <4> QED BY <3>3, <4>2, <4>3
    <3>6. \A k \in 1 .. n : file'[m + k] = <<"block", c + k, Code[tr][k]>>
      BY <3>1, <3>5
    <3>7. Grows BY <1>3, <3>5 DEF Grows
    <3>8. \A j \in DOMAIN file' :
            \/ j \in 1 .. m
            \/ \E k \in 1 .. n : j = m + k
      <4> TAKE j \in DOMAIN file'
      <4>1. j \in 1 .. m \/ (j - m \in 1 .. n /\ j = m + (j - m)) BY <3>5
      <4> QED BY <4>1
    <3>9. Numbered'
      <4>1. \A j \in 1 .. m : file'[j][1] = "block" => file'[j][2] \in 1 .. c
        BY <1>3, <3>5 DEF Numbered
      <4>2. \A k \in 1 .. n : file'[m + k][1] = "block" /\ file'[m + k][2] = c + k
        BY <3>6
      <4>3. \A j \in DOMAIN file' : file'[j][1] = "block" => file'[j][2] \in 1 .. c + n
        <5> TAKE j \in DOMAIN file'
        <5>1. CASE j \in 1 .. m BY <4>1, <5>1
        <5>2. CASE \E k \in 1 .. n : j = m + k BY <4>2, <5>2
        <5> QED BY <3>8, <5>1, <5>2
      <4>4. ASSUME NEW i \in DOMAIN file', NEW j \in DOMAIN file',
                   file'[i][1] = "block", file'[j][1] = "block", file'[i][2] = file'[j][2]
            PROVE  i = j
        <5>1. CASE i \in 1 .. m /\ j \in 1 .. m
          BY <1>3, <3>5, <4>4, <5>1 DEF Numbered
        <5>2. CASE i \in 1 .. m /\ \E k \in 1 .. n : j = m + k
          BY <4>1, <4>2, <4>4, <5>2
        <5>3. CASE (\E k \in 1 .. n : i = m + k) /\ j \in 1 .. m
          BY <4>1, <4>2, <4>4, <5>3
        <5>4. CASE (\E k \in 1 .. n : i = m + k) /\ \E k \in 1 .. n : j = m + k
          BY <4>2, <4>4, <5>4
        <5> QED BY <3>8, <5>1, <5>2, <5>3, <5>4
      <4> QED BY <3>2, <4>3, <4>4 DEF Numbered
    <3>10. Replayed'
      <4>1. \A k \in DOMAIN new : new[k][1] \notin {"id", "text"} BY <3>1, <3>4
      <4> QED BY <1>2, <3>3, <3>4, <4>1, GrowsByNoRun
    <3>11. ASSUME NEW k \in 1 .. n PROVE Traced(codeCache[tr][k])'
      <4>1. PICK h, x : h = [calls |-> <<x>>, traced |-> TRUE] /\ x = call(k) OBVIOUS
      <4>2. codeCache'[tr][k] = h BY <1>2, <3>2, <4>1
      <4>3. c + k \in Nat /\ Code[tr][k] \in Block BY <1>1
      <4>4. x \in FileCalls BY <4>1, <4>3 DEF FileCalls, RunRecords
      <4>5. x.what = <<"id", c + k>> /\ x.block = Code[tr][k] BY <4>1
      <4>6. h \in TraceHows BY <4>1, <4>4 DEF TraceHows
      <4>7. m + k \in DOMAIN file' BY <3>5
      <4>8. Shown(x)' BY <3>6, <4>3, <4>5, <4>7 DEF Shown
      <4>9. AllShown(h.calls)' BY <4>1, <4>8 DEF AllShown
      <4>10. Traced(h)' BY <4>6, <4>9 DEF Traced
      <4> QED BY <4>2, <4>10
    <3>12. count_trace' \in Nat BY <3>2
    <3> QED BY <3>5, <3>7, <3>9, <3>10, <3>11, <3>12
  <2> QED BY <2>1, <2>2, <2>3
<1>7. ASSUME NEW u \in DOMAIN Code, codeCache'[u] # NotCompiled, NEW k \in DOMAIN Code[u]
      PROVE  Traced(codeCache[u][k])'
  <2>1. CASE u = tr BY <1>1, <1>6, <2>1
  <2>2. CASE u # tr
    <3>1. PICK h : h = codeCache[u][k] OBVIOUS
    <3>2. codeCache'[u] = codeCache[u] BY <1>4, <2>2
    <3>3. Traced(h) BY <1>7, <3>1, <3>2 DEF TraceShape
    <3>4. Traced(h)' BY <1>6, <3>3, TracedKept
    <3> QED BY <3>1, <3>2, <3>4
  <2> QED BY <2>1, <2>2
<1> QED BY <1>1, <1>5, <1>6, <1>7

LEMMA TraceEnters ==
    ASSUME knobs.tool = "trace", TraceShape, Numbered, Replayed, ~overlapped',
           NEW t \in Threads, NEW tr \in DOMAIN Code, Enter(t, tr)
    PROVE  TraceShape' /\ Numbered' /\ Replayed'
<1>1. executed' = executed BY DEF Enter, Execute
<1>2. /\ Grows /\ count_trace' \in Nat /\ file' \in Seq(Records)
      /\ Numbered' /\ Replayed'
      /\ DOMAIN codeCache' = DOMAIN Code
      /\ \A u \in DOMAIN Code : codeCache'[u] # NotCompiled =>
           \A k \in DOMAIN Code[u] : Traced(codeCache[u][k])'
      /\ \A k \in DOMAIN Code[tr] : Traced(codeCache[tr][k])'
  <2>1. CASE codeCache[tr] # NotCompiled
    <3>1. UNCHANGED <<count_trace, file, codeCache>> BY <2>1 DEF Enter
    <3>2. TraceTyped BY DEF TraceShape
    <3>3. Grows /\ Numbered' /\ Replayed' BY <1>1, <3>1, <3>2, NothingWritten
    <3>4. \A u \in DOMAIN Code : codeCache'[u] # NotCompiled =>
            \A k \in DOMAIN Code[u] : Traced(codeCache[u][k])'
      BY <3>1, <3>3, CacheTraced
    <3>5. \A k \in DOMAIN Code[tr] : Traced(codeCache[tr][k])' BY <2>1, <3>1, <3>4
    <3>6. /\ count_trace' \in Nat /\ file' \in Seq(Records)
          /\ DOMAIN codeCache' = DOMAIN Code
      BY <3>1, <3>2 DEF TraceTyped
    <3> QED BY <3>3, <3>4, <3>5, <3>6
  <2>2. CASE codeCache[tr] = NotCompiled
    <3>1. CompileForTrace(tr) BY <2>2 DEF Enter
    <3>2. overlapped' = (overlapped \/ \E u \in Threads : run[u].routine)
      BY <2>2 DEF Enter
    <3>3. \A u \in Threads : ~run[u].routine BY <3>2
    <3> QED BY <1>1, <3>1, <3>3, CompilesForTrace
  <2> QED BY <2>1, <2>2
<1>3. PICK left : left = [k \in DOMAIN Code[tr] |->
                            [block |-> Code[tr][k], how |-> codeCache'[tr][k]]]
  OBVIOUS
<1>4. Execute(t, left) BY <1>3 DEF Enter
<1>5. /\ left \in Seq([block : Block, how : TraceHows])
      /\ \A k \in DOMAIN left : Traced(left[k].how)'
  <2>1. PICK n \in Nat : DOMAIN Code[tr] = 1 .. n /\ \A k \in 1 .. n : Code[tr][k] \in Block
    BY CodeAssumption
  <2>2. \A k \in 1 .. n : left[k].how = codeCache'[tr][k] BY <1>3, <2>1
  <2>3. \A k \in 1 .. n : Traced(left[k].how)'
    <3> TAKE k \in 1 .. n
    <3>1. PICK h : h = left[k].how OBVIOUS
    <3>2. h = codeCache'[tr][k] BY <2>2, <3>1
    <3>3. Traced(h)' BY <1>2, <2>1, <3>2
    <3> QED BY <3>1, <3>3
  <2>4. \A k \in 1 .. n : codeCache'[tr][k] \in TraceHows
    BY <1>2, <2>1 DEF Traced
  <2>5. PICK R : R = [block : Block, how : TraceHows] OBVIOUS
  <2>6. left \in [1 .. n -> R] BY <1>3, <2>1, <2>4, <2>5
  <2>7. left \in Seq(R) /\ DOMAIN left = 1 .. n BY <2>6
  <2> QED BY <2>3, <2>5, <2>7
<1> QED BY <1>2, <1>4, <1>5, TraceExecutes

LEMMA TraceContinues ==
    ASSUME knobs.tool = "trace", TraceShape, Numbered, Replayed,
           NEW t \in Threads, Continue(t)
    PROVE  TraceShape' /\ Numbered' /\ Replayed'
<1>1. UNCHANGED <<count_trace, file, codeCache, executed>> BY DEF Continue, Execute
<1>2. TraceTyped BY DEF TraceShape
<1>3. Grows /\ Numbered' /\ Replayed' BY <1>1, <1>2, NothingWritten
<1>4. \A u \in DOMAIN Code : codeCache'[u] # NotCompiled =>
        \A k \in DOMAIN Code[u] : Traced(codeCache[u][k])'
  BY <1>1, <1>3, CacheTraced
<1>5. PICK left : left = run[t].left OBVIOUS
<1>6. Execute(t, left) BY <1>5 DEF Continue
<1>7. left \in Seq([block : Block, how : TraceHows])
  <2>1. run[t] \in TraceRuns BY <1>2 DEF TraceTyped
  <2> QED BY <1>5, <2>1 DEF TraceRuns
<1>8. ASSUME NEW k \in DOMAIN left PROVE Traced(left[k].how)'
  <2>1. PICK h : h = left[k].how OBVIOUS
  <2>2. Traced(h) BY <1>5, <2>1 DEF TraceShape
  <2>3. Traced(h)' BY <1>3, <2>2, TracedKept
  <2> QED BY <2>1, <2>3
<1>9. count_trace' \in Nat /\ file' \in Seq(Records) /\ DOMAIN codeCache' = DOMAIN Code
  BY <1>1, <1>2 DEF TraceTyped
<1> QED BY <1>3, <1>4, <1>6, <1>7, <1>8, <1>9, TraceExecutes

LEMMA TraceReads ==
    ASSUME TraceShape, Numbered, Replayed, ~overlapped',
           NEW t \in Threads, ReadCounter(t)
    PROVE  TraceShape' /\ Numbered' /\ Replayed'
<1>1. TraceTyped /\ run \in [Threads -> TraceRuns] BY DEF TraceShape, TraceTyped
<1>2. /\ run[t].calls # <<>> /\ ~run[t].routine
      /\ overlapped' = (overlapped \/ \E u \in Threads \ {t} : run[u].routine)
      /\ UNCHANGED <<count_trace, codeCache, executed>>
  BY DEF ReadCounter
<1>3. PICK c : c = Call(t) OBVIOUS
<1>4. c.to = "file"
  <2>1. run[t].calls \in Seq(FileCalls) BY <1>1 DEF TraceRuns
  <2>2. c = run[t].calls[1] /\ 1 \in DOMAIN run[t].calls BY <1>2, <1>3, <2>1 DEF Call
  <2>3. c \in FileCalls BY <2>1, <2>2, Members
  <2> QED BY <2>3 DEF FileCalls
<1>5. run' = [run EXCEPT ![t].routine = TRUE, ![t].old = 0]
  BY <1>3, <1>4 DEF ReadCounter
<1>6. file' = file
  <2>1. \A u \in Threads : ~run[u].routine BY <1>2
  <2>2. Written(<<>>) = file \o <<>> BY <1>1, <2>1, NotGarbled DEF TraceTyped
  <2>3. file \o <<>> = file BY <1>1 DEF TraceTyped
  <2>4. file' = Written(<<>>) BY <1>3, <1>4 DEF ReadCounter
  <2> QED BY <2>2, <2>3, <2>4
<1>7. Grows /\ Numbered' /\ Replayed' BY <1>1, <1>2, <1>6, NothingWritten
<1>8. /\ \A u \in Threads \ {t} : run'[u] = run[u]
      /\ run'[t].calls = run[t].calls /\ run'[t].left = run[t].left
      /\ run'[t] = [run[t] EXCEPT !.routine = TRUE, !.old = 0]
      /\ run' = [u \in Threads |-> run'[u]]
  BY <1>1, <1>5 DEF TraceRuns
<1>9. TraceTyped'
  <2>1. run[t] \in TraceRuns BY <1>1
  <2>2. run'[t] \in TraceRuns BY <1>8, <2>1 DEF TraceRuns
  <2>3. run' \in [Threads -> TraceRuns] BY <1>1, <1>8, <2>2
  <2> QED BY <1>1, <1>2, <1>6, <2>3 DEF TraceTyped
<1>10. ASSUME NEW u \in Threads
       PROVE  /\ \A k \in DOMAIN run'[u].left : Traced(run[u].left[k].how)'
              /\ AllShown(run[u].calls)'
              /\ run'[u].routine => run'[u].calls # <<>>
  <2>1. run'[u].left = run[u].left /\ run'[u].calls = run[u].calls BY <1>8
  <2>2. run'[u].routine => run'[u].calls # <<>>
    BY <1>2, <1>8 DEF TraceShape
  <2> QED BY <1>7, <2>1, <2>2, ThreadTraced
<1>11. \A u \in DOMAIN Code : codeCache'[u] # NotCompiled =>
         \A k \in DOMAIN Code[u] : Traced(codeCache[u][k])'
  BY <1>2, <1>7, CacheTraced
<1> QED BY <1>7, <1>9, <1>10, <1>11 DEF TraceShape

LEMMA TraceWrites ==
    ASSUME TraceShape, Numbered, Replayed, NEW t \in Threads, WriteCounter(t)
    PROVE  TraceShape' /\ Numbered' /\ Replayed'
<1>1. TraceTyped /\ run \in [Threads -> TraceRuns] BY DEF TraceShape, TraceTyped
<1>2. /\ run[t].routine /\ run[t].calls # <<>>
      /\ UNCHANGED <<count_trace, codeCache>>
  BY DEF WriteCounter, TraceShape
<1>3. PICK c : c = Call(t) OBVIOUS
<1>4. c \in FileCalls /\ Shown(c)
  <2>1. run[t].calls \in Seq(FileCalls) BY <1>1 DEF TraceRuns
  <2>2. c = run[t].calls[1] /\ 1 \in DOMAIN run[t].calls BY <1>2, <1>3, <2>1 DEF Call
  <2>3. c \in FileCalls BY <2>1, <2>2, Members
  <2>4. AllShown(run[t].calls) BY DEF TraceShape
  <2> QED BY <2>2, <2>3, <2>4 DEF AllShown
<1>5. c.to = "file" /\ c.what \in RunRecords /\ c.block \in Block
  BY <1>4 DEF FileCalls
<1>6. PICK r, b : r = c.what /\ b = c.block OBVIOUS
<1>7. file' = Append(file, r) /\ executed' = Append(executed, b)
  <2>1. file # Garbled BY <1>1, NotGarbled DEF TraceTyped
  <2> QED BY <1>3, <1>5, <1>6, <2>1 DEF WriteCounter
<1>8. PICK m \in Nat :
        /\ DOMAIN file = 1 .. m /\ DOMAIN file' = 1 .. m + 1
        /\ \A j \in 1 .. m : file'[j] = file[j]
        /\ file'[m + 1] = r
  BY <1>1, <1>7 DEF TraceTyped
<1>9. Grows BY <1>8 DEF Grows
<1>10. Numbered'
  <2>1. r[1] # "block" BY <1>5, <1>6 DEF RunRecords
  <2>2. \A j \in DOMAIN file' : file'[j][1] = "block" => j \in DOMAIN file /\ file'[j] = file[j]
    BY <1>8, <2>1
  <2> QED BY <1>2, <2>2 DEF Numbered
<1>11. Replayed'
  BY <1>1, <1>4, <1>5, <1>6, <1>7, GrowsByRun DEF Shown
<1>12. PICK rest : rest = Tail(run[t].calls) OBVIOUS
<1>13. /\ rest \in Seq(FileCalls)
       /\ \A j \in DOMAIN rest : j + 1 \in DOMAIN run[t].calls /\ rest[j] = run[t].calls[j + 1]
  <2>1. run[t].calls \in Seq(FileCalls) BY <1>1 DEF TraceRuns
  <2> QED BY <1>2, <1>12, <2>1
<1>14. run' = [run EXCEPT ![t].calls = rest, ![t].routine = FALSE]
  BY <1>12 DEF WriteCounter
<1>15. /\ \A u \in Threads \ {t} : run'[u] = run[u]
       /\ run'[t].calls = rest /\ run'[t].left = run[t].left
       /\ run'[t].routine = FALSE
       /\ run'[t] = [run[t] EXCEPT !.calls = rest, !.routine = FALSE]
       /\ run' = [u \in Threads |-> run'[u]]
  BY <1>1, <1>14 DEF TraceRuns
<1>16. TraceTyped'
  <2>1. run[t] \in TraceRuns BY <1>1
  <2>2. run'[t] \in TraceRuns BY <1>13, <1>15, <2>1 DEF TraceRuns
  <2>3. run' \in [Threads -> TraceRuns] BY <1>1, <1>15, <2>2
  <2>4. file' \in Seq(Records) /\ executed' \in Seq(Block)
    <3>1. r \in Records BY <1>5, <1>6 DEF Records
    <3> QED BY <1>1, <1>5, <1>6, <1>7, <3>1 DEF TraceTyped
  <2> QED BY <1>1, <1>2, <2>3, <2>4 DEF TraceTyped
<1>17. ASSUME NEW u \in Threads
       PROVE  /\ \A k \in DOMAIN run'[u].left : Traced(run[u].left[k].how)'
              /\ AllShown(run[u].calls)'
              /\ run'[u].routine => run'[u].calls # <<>>
  <2>1. CASE u # t
    <3>1. run'[u] = run[u] BY <1>15, <2>1
    <3> QED BY <1>9, <3>1, ThreadTraced DEF TraceShape
  <2>2. CASE u = t
    <3>1. ASSUME NEW k \in DOMAIN run'[u].left PROVE Traced(run[u].left[k].how)'
      <4>1. PICK h : h = run[t].left[k].how OBVIOUS
      <4>2. Traced(h) BY <1>15, <2>2, <3>1, <4>1 DEF TraceShape
      <4>3. Traced(h)' BY <1>9, <4>2, TracedKept
      <4> QED BY <1>15, <2>2, <4>1, <4>3
    <3>2. AllShown(rest)
      <4>1. AllShown(run[t].calls) BY DEF TraceShape
      <4> QED BY <1>13, <4>1 DEF AllShown
    <3>3. AllShown(rest)' BY <1>9, <3>2, TracedKept
    <3>4. AllShown(run[u].calls)' BY <1>15, <2>2, <3>3
    <3>5. ~run'[u].routine BY <1>15, <2>2
    <3> QED BY <3>1, <3>4, <3>5
  <2> QED BY <2>1, <2>2
<1>18. \A u \in DOMAIN Code : codeCache'[u] # NotCompiled =>
         \A k \in DOMAIN Code[u] : Traced(codeCache[u][k])'
  BY <1>2, <1>9, CacheTraced
<1> QED BY <1>10, <1>11, <1>16, <1>17, <1>18 DEF TraceShape

LEMMA TraceEnds ==
    ASSUME knobs.tool = "trace", TraceShape, Numbered, Replayed, FiniBlocks
    PROVE  TraceShape' /\ Numbered' /\ Replayed'
<1>1. TraceTyped BY DEF TraceShape
<1>2. /\ UNCHANGED <<count_trace, codeCache, run, executed>>
      /\ \A t \in Threads : run[t].calls = <<>>
      /\ file' = Written(<<Eof>>)
  BY DEF FiniBlocks, Idle
<1>3. \A t \in Threads : ~run[t].routine BY <1>2 DEF TraceShape
<1>4. file' = file \o <<Eof>> BY <1>1, <1>2, <1>3, NotGarbled DEF TraceTyped
<1>5. <<Eof>> \in Seq(Records) BY DEF Records
<1>6. PICK m \in Nat : m = Len(file) BY <1>1 DEF TraceTyped
<1>7. /\ file' \in Seq(Records) /\ DOMAIN file' = 1 .. m + 1 /\ DOMAIN file = 1 .. m
      /\ \A j \in 1 .. m : file'[j] = file[j]
      /\ file'[m + 1] = Eof
  BY <1>1, <1>4, <1>5, <1>6 DEF TraceTyped
<1>8. Grows BY <1>7 DEF Grows
<1>9. Eof[1] = "eof" BY DEF Eof
<1>10. Numbered'
  <2>1. \A j \in DOMAIN file' : file'[j][1] = "block" => j \in DOMAIN file /\ file'[j] = file[j]
    BY <1>7, <1>9
  <2> QED BY <1>2, <2>1 DEF Numbered
<1>11. Replayed'
  <2>1. \A j \in DOMAIN <<Eof>> : <<Eof>>[j][1] \notin {"id", "text"} BY <1>9
  <2> QED BY <1>1, <1>2, <1>4, <1>5, <2>1, GrowsByNoRun
<1>12. TraceTyped' BY <1>1, <1>2, <1>7 DEF TraceTyped
<1>13. \A u \in Threads :
         /\ \A k \in DOMAIN run'[u].left : Traced(run[u].left[k].how)'
         /\ AllShown(run[u].calls)'
         /\ run'[u].routine => run'[u].calls # <<>>
  BY <1>2, <1>8, ThreadTraced DEF TraceShape
<1>14. \A u \in DOMAIN Code : codeCache'[u] # NotCompiled =>
         \A k \in DOMAIN Code[u] : Traced(codeCache[u][k])'
  BY <1>2, <1>8, CacheTraced
<1> QED BY <1>10, <1>11, <1>12, <1>13, <1>14 DEF TraceShape

LEMMA TraceNext == ASSUME TraceInv, NextBlocks PROVE TraceInv'
<1>1. /\ knobs' = knobs /\ overlapped' \in BOOLEAN /\ (overlapped => overlapped')
  BY DEF TraceInv, NextBlocks, LoadImage, Enter, Continue, Execute, ReadCounter,
         WriteCounter, Quick, Flush, FiniBlocks
<1> SUFFICES ASSUME knobs.tool = "trace", ~overlapped'
             PROVE  TraceShape' /\ Numbered' /\ Replayed'
  BY <1>1 DEF TraceInv
<1>2. TraceShape /\ Numbered /\ Replayed /\ DOMAIN codeCache = DOMAIN Code
  BY <1>1 DEF TraceInv, TraceShape, TraceTyped
<1>3. CASE \E img \in {"main", "lib"} : LoadImage(img)
  <2>1. UNCHANGED <<file, executed, count_trace, run, codeCache>>
    BY <1>3 DEF LoadImage
  <2> QED BY <1>2, <2>1, TraceStands
<1>4. CASE \E t \in Threads, tr \in DOMAIN Code : Enter(t, tr)
  BY <1>2, <1>4, TraceEnters
<1>5. CASE \E t \in Threads : Continue(t)
  BY <1>2, <1>5, TraceContinues
<1>6. CASE \E t \in Threads : ReadCounter(t)
  BY <1>2, <1>6, TraceReads
<1>7. CASE \E t \in Threads : WriteCounter(t)
  BY <1>2, <1>7, TraceWrites
<1>8. CASE \E on \in BOOLEAN : Quick(on)
  <2>1. UNCHANGED <<file, executed, count_trace, run, codeCache>>
    BY <1>8 DEF Quick
  <2> QED BY <1>2, <2>1, TraceStands
<1>9. CASE Flush
  <2>1. /\ UNCHANGED <<file, executed, count_trace, run>>
        /\ codeCache' = [tr \in DOMAIN Code |-> NotCompiled]
    BY <1>9 DEF Flush
  <2> QED BY <1>2, <2>1, TraceStands
<1>10. CASE FiniBlocks BY <1>2, <1>10, TraceEnds
<1> QED BY <1>3, <1>4, <1>5, <1>6, <1>7, <1>8, <1>9, <1>10 DEF NextBlocks

LEMMA TraceInit == ASSUME InitBlocks PROVE TraceInv
<1>1. /\ overlapped = FALSE /\ count_trace = 0 /\ file = <<>> /\ executed = <<>>
      /\ run = [t \in Threads |-> Here]
      /\ codeCache = [tr \in DOMAIN Code |-> NotCompiled]
  BY DEF InitBlocks
<1>2. TraceTyped
  <2>1. Here \in TraceRuns BY DEF Here, TraceRuns
  <2>2. <<>> \in Seq(Records) /\ <<>> \in Seq(Block) OBVIOUS
  <2> QED BY <1>1, <2>1, <2>2 DEF TraceTyped
<1>3. TraceShape
  <2>1. /\ Here.left = <<>> /\ Here.calls = <<>> /\ ~Here.routine
        /\ DOMAIN <<>> = {}
    BY DEF Here
  <2>2. \A t \in Threads : run[t] = Here BY <1>1
  <2>3. \A t \in Threads : /\ DOMAIN run[t].left = {} /\ AllShown(run[t].calls)
                           /\ ~run[t].routine
    BY <2>1, <2>2 DEF AllShown
  <2> QED BY <1>1, <1>2, <2>3 DEF TraceShape
<1>4. DOMAIN file = {} /\ Len(file) = 0 /\ Len(executed) = 0 BY <1>1
<1>5. Numbered BY <1>4 DEF Numbered
<1>6. Replayed
  <2>1. RunsUpTo(Len(file)) = {} BY <1>4 DEF RunsUpTo
  <2>2. Cardinality(RunsUpTo(Len(file))) = 0 BY <2>1, FS_EmptySet
  <2> QED BY <1>4, <2>1, <2>2 DEF Replayed
<1> QED BY <1>1, <1>3, <1>5, <1>6 DEF TraceInv

\* A record that shows a block is read as it: its number has one definition.
LEMMA ShowsMeaning ==
    ASSUME file \in Seq(Records), Numbered, NEW k \in DOMAIN file, NEW block,
           Shows(k, block)
    PROVE  Meaning(k) = block
<1>1. DOMAIN file = 1 .. Len(file) /\ Len(file) \in Nat OBVIOUS
<1>2. CASE file[k] = <<"text", block>> BY <1>2 DEF Meaning
<1>3. ASSUME NEW j \in 1 .. k - 1, NEW id \in Nat,
             file[j] = <<"block", id, block>>, file[k] = <<"id", id>>
      PROVE  Meaning(k) = block
  <2>1. Defined(k, id) = {j}
    <3>1. j \in Defined(k, id) BY <1>3 DEF Defined
    <3>2. ASSUME NEW i \in Defined(k, id) PROVE i = j
      <4>1. i \in 1 .. k - 1 /\ file[i][1] = "block" /\ file[i][2] = id BY DEF Defined
      <4>2. i \in DOMAIN file /\ j \in DOMAIN file BY <1>1, <4>1
      <4>3. file[j][1] = "block" /\ file[j][2] = id BY <1>3
      <4> QED BY <4>1, <4>2, <4>3 DEF Numbered
    <3> QED BY <3>1, <3>2
  <2>2. Cardinality(Defined(k, id)) = 1 BY <2>1, FS_Singleton
  <2>3. (CHOOSE i \in Defined(k, id) : TRUE) = j BY <2>1
  <2>4. file[k][1] = "id" /\ file[k][2] = id /\ file[j][3] = block BY <1>3
  <2> QED BY <2>2, <2>3, <2>4 DEF Meaning
<1> QED BY <1>2, <1>3 DEF Shows

\* The trace replays to the blocks that were executed, for any code, any
\* threads and any options, however often the code cache is flushed and tracing
\* switched on and off, as long as no two routines of the tool overlap.
THEOREM TraceReplaysCorrect == SpecBlocks => []TraceReplays
<1>1. InitBlocks => TraceInv BY TraceInit
<1>2. TraceInv /\ [NextBlocks]_blockVars => TraceInv'
  <2>1. ASSUME TraceInv, UNCHANGED blockVars PROVE TraceInv'
    <3>1. UNCHANGED <<knobs, overlapped, file, executed, count_trace, run, codeCache>>
      BY <2>1 DEF blockVars
    <3>2. ASSUME knobs.tool = "trace", ~overlapped
          PROVE  TraceShape' /\ Numbered' /\ Replayed'
      <4>1. TraceShape /\ Numbered /\ Replayed BY <2>1, <3>2 DEF TraceInv
      <4>2. DOMAIN codeCache = DOMAIN Code BY <4>1 DEF TraceShape, TraceTyped
      <4> QED BY <3>1, <4>1, <4>2, TraceStands
    <3> QED BY <2>1, <3>1, <3>2 DEF TraceInv
  <2> QED BY <2>1, TraceNext
<1>3. TraceInv => TraceReplays
  <2> SUFFICES ASSUME TraceInv, knobs.tool = "trace", ~overlapped
               PROVE  /\ Cardinality(RunsUpTo(Len(file))) = Len(executed)
                      /\ \A k \in RunsUpTo(Len(file)) :
                           Meaning(k) = executed[Cardinality(RunsUpTo(k))]
    BY DEF TraceReplays
  <2>1. TraceTyped /\ Numbered /\ Replayed BY DEF TraceInv, TraceShape
  <2>2. ASSUME NEW k \in RunsUpTo(Len(file))
        PROVE  Meaning(k) = executed[Cardinality(RunsUpTo(k))]
    <3>1. PICK b : b = executed[Cardinality(RunsUpTo(k))] OBVIOUS
    <3>2. Shows(k, b) BY <2>1, <3>1 DEF Replayed
    <3>3. k \in DOMAIN file BY <2>1, RunIndex
    <3> QED BY <2>1, <3>1, <3>2, <3>3, ShowsMeaning DEF TraceTyped
  <2> QED BY <2>1, <2>2 DEF Replayed
<1> QED BY <1>1, <1>2, <1>3, PTL DEF SpecBlocks

(***************************************************************************)
(* A program under any tool implements the cache simulator alone, and the  *)
(* block tools alone: each leaves the other's state as it is.  What is     *)
(* proved of them so holds of the whole.                                   *)
(***************************************************************************)

\* Every behaviour of a program under a tool is one of the simulator, with
\* stuttering.
THEOREM ImplementsDCache == Spec => SpecDCache
<1>1. Init => InitDCache BY DEF Init
<1>2. [Next]_vars => [NextDCache]_dcacheVars BY DEF Next, vars
<1> QED BY <1>1, <1>2, PTL DEF Spec, SpecDCache

\* It is also one of the block tools.
THEOREM ImplementsBlocks == Spec => SpecBlocks
<1>1. Init => InitBlocks BY DEF Init
<1>2. [Next]_vars => [NextBlocks]_blockVars BY DEF Next, vars
<1> QED BY <1>1, <1>2, PTL DEF Spec, SpecBlocks

\* The cache simulator holds the last misses under whichever tool runs, as
\* long as no two of its routines overlap.
THEOREM FifoUnderAnyTool == Spec => []HoldsTheLastMisses
BY ImplementsDCache, HoldsTheLastMissesCorrect, PTL

\* Only a routine that overlaps with a reset uses a deleted cache, whichever
\* tool runs.
THEOREM DeletedUnderAnyTool == Spec => []DeletedOnlyByARace
BY ImplementsDCache, DeletedOnlyByARaceCorrect, PTL

\* No access is counted twice, as long as no routine and no reset overlap, and
\* each is counted once, as long as no routines do, whichever tool runs.
THEOREM CountedUnderAnyTool == Spec => []EachAccessCountedOnce
BY ImplementsDCache, EachAccessCountedOnceCorrect, PTL

\* catmix's counts are of what was executed, whichever tool runs.
THEOREM MixUnderAnyTool == Spec => []CountsMatch
BY ImplementsBlocks, CountsMatchCorrect, PTL

\* The trace replays, whichever tool runs.
THEOREM TraceUnderAnyTool == Spec => []TraceReplays
BY ImplementsBlocks, TraceReplaysCorrect, PTL
=============================================================================
