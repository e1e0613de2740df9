----------------------------- MODULE BlockTools -----------------------------
(***************************************************************************)
(* The pin tools that instrument basic blocks: trace_archlab.cpp, which    *)
(* writes the instructions that are executed, and catmix.cpp, which counts *)
(* them by category.  Pin (external) compiles a trace of blocks when it is *)
(* first executed, calls the tool's Trace to instrument it, and keeps it   *)
(* in its code cache until the cache is flushed.  Analysis routines run in *)
(* the threads, without a lock; each is cut at its read and its write.     *)
(***************************************************************************)
EXTENDS Pin, Integers, FiniteSets, SequencesExt

CONSTANTS
    Code,         \* trace -> its blocks; a block is a sequence of instructions,
                  \* each with its category and whether it is predicated
    SharedLib,    \* the traces of shared libraries
    MaxIndex,     \* MAX_INDEX
    KnobSettings, \* the tools' options: tool, compress, from_start,
                  \* predicated, static_only, no_shared_libs
    MaxBlocks,    \* bound: blocks executed
    MaxFlushes    \* bound: flushes of the code cache

\* A category is an index of the arrays; 0 is no instruction's category.
Instruction == [category : 1 .. MaxIndex - 1, predicated : BOOLEAN]
Block       == Seq(Instruction)

ASSUME CodeAssumption ==
    /\ MaxIndex \in Nat \ {0}
    /\ \A tr \in DOMAIN Code : Code[tr] \in Seq(Block)

ASSUME KnobAssumption ==
    KnobSettings \subseteq
        [tool : {"trace", "catmix"}, compress : BOOLEAN, from_start : BOOLEAN,
         predicated : BOOLEAN, static_only : BOOLEAN, no_shared_libs : BOOLEAN]

VARIABLES
    knobs,        \* the options of this execution
    tracing,      \* trace_archlab's flag
    count_trace,  \* and its number of blocks
    file,         \* what it wrote
    codeCache,    \* trace -> the instrumentation of its blocks, or NotCompiled
    statsList,    \* catmix: the blocks' categories and counters
    static,       \* GlobalStatsStatic: index -> count
    dynamic,      \* GlobalStatsDynamic
    images,       \* the images loaded: "main", "lib"
    run,          \* thread -> where it is
    flushes,
    blocks,       \* how many blocks were executed
    executed,     \* history: the traced blocks, as their ends were reached
    happened,     \* history: index -> such instructions executed
    overlapped,   \* history: two threads were in analysis routines at a time
    dumped        \* once the program ended: the static and the dynamic rows

blockVars == <<knobs, tracing, count_trace, file, codeCache, statsList, static,
               dynamic, images, run, flushes, blocks, executed, happened, overlapped,
               dumped>>

\* Two threads that write to the stream at a time leave it undefined.
Garbled == << <<"garbled">> >>
Written(records) ==
    IF file = Garbled \/ \E u \in Threads : run[u].routine
    THEN Garbled ELSE file \o records

NotCompiled == <<>>
NotDumped   == <<>>

\* STATS: unpredicated, predicated and predicated_true lie one after another,
\* so that an index beyond the first array is one of the second.
Indices == 0 .. 3 * MaxIndex - 1
PredicatedTrue(category) == 2 * MaxIndex + category
StatsIndex(ins) ==
    IF ins.predicated THEN MaxIndex + ins.category ELSE ins.category

\* A block's indices in order, and where an index is among some.
Indexes(block)  == [j \in DOMAIN block |-> StatsIndex(block[j])]
Positions(s, i) == {k \in DOMAIN s : s[k] = i}

Here == [left |-> <<>>, calls |-> <<>>, old |-> 0, routine |-> FALSE]

InitBlocks ==
    /\ knobs \in KnobSettings
    /\ tracing = knobs.from_start
    /\ count_trace = 0 /\ file = <<>>
    /\ codeCache = [tr \in DOMAIN Code |-> NotCompiled]
    /\ statsList = <<>>
    /\ static = [i \in Indices |-> 0] /\ dynamic = [i \in Indices |-> 0]
    /\ images = {}
    /\ run = [t \in Threads |-> Here]
    /\ flushes = 0
    /\ blocks = 0 /\ executed = <<>> /\ happened = [i \in Indices |-> 0]
    /\ overlapped = FALSE /\ dumped = NotDumped

Ended   == dumped # NotDumped
Idle(t) == run[t].calls = <<>>
ImageOf(tr) == IF tr \in SharedLib THEN "lib" ELSE "main"

(***************************************************************************)
(* Image of catmix: the instructions of an image, counted when it is       *)
(* loaded; with -s the report is written there and then.                   *)
(***************************************************************************)
Instructions(trs) == FoldSet(LAMBDA tr, s : s \o FlattenSeq(Code[tr]), <<>>, trs)

Rows(stats) ==
    [c \in {i \in 0 .. MaxIndex - 1 :
                stats[i] # 0 \/ stats[MaxIndex + i] # 0} |->
        <<stats[c], stats[MaxIndex + c], stats[PredicatedTrue(c)]>>]

LoadImage(img) ==
    /\ ~Ended /\ img \notin images
    /\ images' = images \cup {img}
    /\ LET ins == Instructions({tr \in DOMAIN Code : ImageOf(tr) = img})
           counted == [i \in Indices |->
                          static[i] + Cardinality(Positions(Indexes(ins), i))]
       IN  /\ static' = IF knobs.tool = "catmix" THEN counted ELSE static
           /\ dumped' = IF knobs.tool = "catmix" /\ knobs.static_only
                        THEN <<Rows(counted), Rows(dynamic)>>
                        ELSE dumped
    /\ UNCHANGED <<knobs, tracing, count_trace, file, codeCache, statsList,
                   dynamic, run, flushes, blocks, executed, happened, overlapped>>

(***************************************************************************)
(* The instrumentation of a block: the calls of docount it makes, and      *)
(* whether it counts as traced.                                            *)
(***************************************************************************)
Calls(block, id) ==
    IF knobs.tool = "trace"
    THEN << [to |-> "file", block |-> block,
             what |-> IF knobs.compress THEN <<"id", id>>
                      ELSE <<"text", block>>] >>
    ELSE << [to |-> "block", what |-> id] >>

\* Mutant: the number of blocks is not kept from one compilation to the next.
CompileForTraceAnew(tr) ==
    LET n == Len(Code[tr])
        how == [k \in 1 .. n |-> IF tracing
                  THEN [calls |-> Calls(Code[tr][k], k), traced |-> TRUE]
                  ELSE [calls |-> <<>>, traced |-> FALSE]]
    IN  /\ codeCache' = [codeCache EXCEPT ![tr] = how]
        /\ file' = IF tracing /\ knobs.compress
                   THEN Written([k \in 1 .. n |-> <<"block", k, Code[tr][k]>>])
                   ELSE file
        /\ UNCHANGED <<count_trace, statsList>>

\* Trace of trace_archlab: nothing if it is not tracing when Pin compiles the
\* code.  Compressed, every block is numbered and written once, here.
CompileForTrace(tr) ==
    LET n == Len(Code[tr]) IN
    IF ~tracing
    THEN /\ codeCache' = [codeCache EXCEPT ![tr] =
                            [k \in 1 .. n |-> [calls |-> <<>>, traced |-> FALSE]]]
         /\ UNCHANGED <<count_trace, file, statsList>>
    ELSE /\ codeCache' = [codeCache EXCEPT ![tr] =
              [k \in 1 .. n |-> [calls |-> Calls(Code[tr][k], count_trace + k),
                                 traced |-> TRUE]]]
         /\ IF knobs.compress
            THEN /\ count_trace' = count_trace + n
                 /\ file' = Written([k \in 1 .. n |->
                              <<"block", count_trace + k, Code[tr][k]>>])
            ELSE UNCHANGED <<count_trace, file>>
         /\ UNCHANGED statsList

\* Trace of catmix: a counter for every block and the list of its indices,
\* which ends at the first zero.
CompileForMix(tr) ==
    LET n == Len(Code[tr]) IN
    /\ IF knobs.no_shared_libs /\ tr \in SharedLib
       THEN /\ codeCache' = [codeCache EXCEPT ![tr] =
                 [k \in 1 .. n |-> [calls |-> <<>>, traced |-> FALSE]]]
            /\ UNCHANGED statsList
       ELSE /\ codeCache' = [codeCache EXCEPT ![tr] =
                 [k \in 1 .. n |->
                    [calls |-> Calls(Code[tr][k], Len(statsList) + k),
                     traced |-> TRUE]]]
            /\ statsList' = statsList \o [k \in 1 .. n |->
                 [stats |-> Append(Indexes(Code[tr][k]), 0), counter |-> 0]]
    /\ UNCHANGED <<count_trace, file>>

\* The positions of the predicated instructions whose predicate holds in one
\* execution of a block, in order.
Outcomes(block) ==
    LET predicated == {j \in DOMAIN block : block[j].predicated} IN
    {held \in UNION {[1 .. n -> predicated] : n \in 0 .. Cardinality(predicated)} :
        \A j, k \in DOMAIN held : j < k => held[j] < held[k]}

\* A predicated instruction of catmix's -p calls docount if it is executed.
\* The block's own call is put first also where its first instruction is
\* predicated, though that one calls before: each adds to a count of its own.
PredicateIndexes(block, held) ==
    [j \in DOMAIN held |-> PredicatedTrue(block[held[j]].category)]
PredicateCalls(block, held) ==
    [j \in DOMAIN held |->
        [to |-> "predicate", what |-> PredicateIndexes(block, held)[j]]]

Happening(block, held, i) ==
    Cardinality(Positions(Indexes(block), i))
      + Cardinality(Positions(PredicateIndexes(block, held), i))

\* A thread executes the first of some blocks, with the instrumentation they
\* were compiled with, and has the others before it.
Execute(t, left) ==
    /\ ~Ended /\ Idle(t) /\ blocks < MaxBlocks
    /\ left # <<>>
    /\ LET block == Head(left).block
           how == Head(left).how
       IN  \E held \in Outcomes(block) :
             LET more == IF knobs.tool = "catmix" /\ knobs.predicated
                            /\ how.traced
                         THEN PredicateCalls(block, held) ELSE <<>>
             IN
             /\ run' = [run EXCEPT ![t].calls = how.calls \o more,
                                   ![t].left = Tail(left)]
             /\ happened' = IF knobs.tool = "catmix" /\ how.traced
                            THEN [i \in Indices |->
                                    happened[i] + Happening(block, held, i)]
                            ELSE happened
    /\ blocks' = blocks + 1
    /\ UNCHANGED <<knobs, tracing, static, dynamic, images, flushes, executed,
                   dumped>>

\* It goes on in its trace, or enters one at its beginning.
Continue(t) ==
    /\ Execute(t, run[t].left)
    /\ UNCHANGED <<count_trace, file, codeCache, statsList, overlapped>>

\* Pin compiles a trace that is about to be executed and not in the cache;
\* what the tool writes then may overlap with another thread's routine.
Enter(t, tr) ==
    /\ ImageOf(tr) \in images
    /\ IF codeCache[tr] # NotCompiled
       THEN UNCHANGED <<count_trace, file, codeCache, statsList, overlapped>>
       ELSE /\ IF knobs.tool = "trace" THEN CompileForTrace(tr)
               ELSE CompileForMix(tr)
            /\ overlapped' = (overlapped \/ \E u \in Threads : run[u].routine)
    /\ Execute(t, [k \in DOMAIN Code[tr] |->
                      [block |-> Code[tr][k], how |-> codeCache'[tr][k]]])

Call(t) == Head(run[t].calls)

\* docount: (*counter)++, or a write to the file.
ReadCounter(t) ==
    /\ run[t].calls # <<>> /\ ~run[t].routine
    /\ run' = [run EXCEPT ![t].routine = TRUE, ![t].old =
         CASE Call(t).to = "file"      -> 0
           [] Call(t).to = "block"     -> statsList[Call(t).what].counter
           [] Call(t).to = "predicate" -> dynamic[Call(t).what]]
    /\ overlapped' = (overlapped \/ \E u \in Threads \ {t} : run[u].routine)
    /\ file' = IF Call(t).to = "file" THEN Written(<<>>) ELSE file
    /\ UNCHANGED <<knobs, tracing, count_trace, codeCache, statsList,
                   static, dynamic, images, flushes, blocks, executed, happened, dumped>>

WriteCounter(t) ==
    /\ run[t].routine
    /\ LET c == Call(t)
           n == run[t].old + 1
       IN  /\ file' = IF c.to = "file" THEN
                        (IF file = Garbled THEN Garbled
                         ELSE Append(file, c.what)) ELSE file
           /\ statsList' = IF c.to = "block" THEN
                         [statsList EXCEPT ![c.what].counter = n] ELSE statsList
           /\ dynamic' = IF c.to = "predicate" THEN
                         [dynamic EXCEPT ![c.what] = n] ELSE dynamic
           /\ executed' = IF c.to = "file" THEN Append(executed, c.block)
                          ELSE executed
    /\ run' = [run EXCEPT ![t].calls = Tail(@), ![t].routine = FALSE]
    /\ UNCHANGED <<knobs, tracing, count_trace, codeCache, static, images,
                   flushes, blocks, happened, overlapped, dumped>>

(***************************************************************************)
(* archlab_start_quick and archlab_stop_quick, called by the program's     *)
(* main thread; catmix does not replace them.                              *)
(***************************************************************************)
Quick(on) ==
    /\ ~Ended /\ Idle(Main) /\ knobs.tool = "trace" /\ tracing # on
    /\ tracing' = on
    /\ UNCHANGED <<knobs, count_trace, file, codeCache, statsList, static,
                   dynamic, images, run, flushes, blocks, executed, happened, overlapped,
                   dumped>>

\* Pin empties its code cache when it is full; threads stay where they are.
Flush ==
    /\ ~Ended /\ flushes < MaxFlushes
    /\ \E tr \in DOMAIN Code : codeCache[tr] # NotCompiled
    /\ codeCache' = [tr \in DOMAIN Code |-> NotCompiled]
    /\ flushes' = flushes + 1
    /\ UNCHANGED <<knobs, tracing, count_trace, file, statsList, static,
                   dynamic, images, run, blocks, executed, happened, overlapped, dumped>>

\* Mutant: the list ends one too early.
UpToZeroShort(stats) ==
    SubSeq(stats, 1, (CHOOSE k \in DOMAIN stats : stats[k] = 0 /\
                         \A j \in 1 .. k - 1 : stats[j] # 0) - 2)

\* ComputeGlobalStats: each block's list is read up to its first zero, and its
\* counter added for each index in it.
UpToZero(stats) ==
    SubSeq(stats, 1, (CHOOSE k \in DOMAIN stats : stats[k] = 0 /\
                         \A j \in 1 .. k - 1 : stats[j] # 0) - 1)
GlobalStats ==
    [i \in Indices |-> dynamic[i] + Cardinality(UNION {
        {b} \X (1 .. statsList[b].counter)
            \X Positions(UpToZero(statsList[b].stats), i) :
        b \in DOMAIN statsList})]

Eof == <<"eof">>

FiniBlocks ==
    /\ ~Ended /\ images # {} /\ \A t \in Threads : Idle(t)
    /\ file' = IF knobs.tool = "trace" THEN Written(<<Eof>>) ELSE file
    /\ dynamic' = GlobalStats
    /\ dumped' = <<Rows(static), Rows(GlobalStats)>>
    /\ UNCHANGED <<knobs, tracing, count_trace, codeCache, statsList, static,
                   images, run, flushes, blocks, executed, happened, overlapped>>

NextBlocks ==
    \/ \E img \in {"main", "lib"} : LoadImage(img)
    \/ \E t \in Threads, tr \in DOMAIN Code : Enter(t, tr)
    \/ \E t \in Threads : Continue(t) \/ ReadCounter(t) \/ WriteCounter(t)
    \/ \E on \in BOOLEAN : Quick(on)
    \/ Flush \/ FiniBlocks

SpecBlocks == InitBlocks /\ [][NextBlocks]_blockVars

(***************************************************************************)
(* Properties.                                                             *)
(***************************************************************************)
\* What a reader of the file takes the record at k for: the block it names or
\* shows.  A number stands for the definition written before it.
Defined(k, id) == {j \in 1 .. k - 1 : file[j][1] = "block" /\ file[j][2] = id}
Meaning(k) ==
    IF file[k][1] = "text" THEN file[k][2]
    ELSE IF Cardinality(Defined(k, file[k][2])) = 1
    THEN file[CHOOSE j \in Defined(k, file[k][2]) : TRUE][3]
    ELSE <<"undefined">>

\* The records of executed blocks among the first k.
RunsUpTo(k) == {j \in 1 .. k : file[j][1] \in {"id", "text"}}

\* The trace of a program whose threads did not collide in the tool replays
\* to the blocks that were executed of the code compiled while tracing was on,
\* in the order of their last instructions, whether or not it is compressed and
\* the code cache was flushed in between.
TraceReplays ==
    knobs.tool = "trace" /\ ~overlapped =>
        /\ Cardinality(RunsUpTo(Len(file))) = Len(executed)
        /\ \A k \in RunsUpTo(Len(file)) :
             Meaning(k) = executed[Cardinality(RunsUpTo(k))]

Row(c) == IF c \in DOMAIN dumped[2] THEN dumped[2][c] ELSE <<0, 0, 0>>

\* catmix's dynamic counts are how often instructions of each category were
\* executed, summed over a block's compilations; a collision of threads loses
\* counts and never adds any.  -p counts the predicated instructions whose
\* predicate held.
CountsMatch ==
    Ended /\ knobs.tool = "catmix" /\ ~knobs.static_only =>
        \A c \in 0 .. MaxIndex - 1 :
            LET right == <<happened[c], happened[MaxIndex + c],
                           IF knobs.predicated
                           THEN happened[PredicatedTrue(c)] ELSE 0>>
            IN  \A k \in 1 .. 3 :
                  /\ Row(c)[k] <= right[k]
                  /\ ~overlapped => Row(c)[k] = right[k]
=============================================================================
