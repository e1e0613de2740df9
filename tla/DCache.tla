------------------------------- MODULE DCache -------------------------------
(***************************************************************************)
(* The data cache simulator as a pin tool: dcache_archlab.cpp with class   *)
(* CACHE of dcache.H.  Pin calls an analysis routine in the thread that    *)
(* executes a load or store; the routines take no lock.  The program's     *)
(* main thread controls the tool through libarchlab (PINDataCollector):    *)
(* start_collection, stop_collection, reset.                               *)
(*                                                                         *)
(* A cache object is allocated by reset and deleted by the next reset, and *)
(* the allocator may put the new one where the old one was.  An access     *)
(* holds the pointer it read when it began.  What the routines do to       *)
(* shared memory is cut at every read and write of it.                     *)
(***************************************************************************)
EXTENDS Pin, CacheSet, FiniteSets

CONSTANTS
    CacheSize, LineSize,   \* the knobs -c (in bytes here) and -b; -a is Ways
    AddressSpace,          \* how many addresses there are
    SingleSize,   \* accesses up to this size are taken to stay in one line
    Profiled,     \* the types whose instructions are profiled: -tl, -ts
    Accesses,     \* the accesses the program makes: addr, size and type
    Objects,      \* the places in memory where a cache object may be
    MaxAccesses   \* bound: accesses in all

Types == {"load", "store"}
None  == "none"   \* no cache object

\* The base 2 logarithm, rounded down; -1 of 0 is never asked for.
FloorLog2(n) == CHOOSE p \in 0 .. n : 2^p <= n /\ n < 2^(p + 1)
IsPower2(n)  == n = 0 \/ n = 2^FloorLog2(n)

NumSets == CacheSize \div (Ways * LineSize)

\* What the constructors assert.
ASSUME CacheAssumption ==
    /\ Profiled \subseteq Types
    /\ LineSize \in Nat \ {0} /\ IsPower2(LineSize)
    /\ NumSets \in Nat \ {0} /\ IsPower2(NumSets)
    /\ AddressSpace \in Nat \ {0} /\ Objects # {} /\ None \notin Objects

VARIABLES
    tracking,     \* the flag the routines test
    dl1,          \* the pointer to the present cache object
    sets,         \* cache object -> set index -> its set
    access,       \* cache object -> type -> hit or miss -> count
    deleted,      \* dl1 points to a deleted object
    pc,           \* thread -> its next step
    frame,        \* thread -> the locals of its routine
    registers,    \* what stop_collection stored last
    profile,      \* hit or miss -> the counts of all profiled instructions
    report,       \* the statistics printed at the end
    made,         \* history: how many accesses began
    counted,      \* history: object -> accesses that began on it since it was made
    queue,        \* history: object -> set index -> FifoSet's queue
    collided,     \* history: two routines overlapped
    disturbed,    \* history: a routine and a reset overlapped
    stale,        \* history: the threads whose last access was to an object that
                  \* has been deleted, whatever is in its place by now
    broken        \* a routine touched a deleted object

cacheVars   == <<dl1, sets, access, deleted>>
historyVars == <<made, counted, queue, collided, disturbed, stale>>
outVars     == <<registers, profile, report>>
dcacheVars  == <<tracking, cacheVars, pc, frame, outVars, historyVars, broken>>

raced == collided \/ disturbed

TagOf(addr)  == addr \div 2^FloorLog2(LineSize)
IndexOf(tag) == tag % NumSets

\* The lines that Access visits: a do-while over line starts, in the
\* address space's arithmetic.
LineStart(addr, n) == (TagOf(addr) * LineSize + n * LineSize) % AddressSpace
Visits(a) ==
    LET high == (a.addr + a.size) % AddressSpace
        n == CHOOSE n \in 1 .. a.size + 1 :
               /\ ~(LineStart(a.addr, n) < high)
               /\ \A m \in 1 .. n - 1 : LineStart(a.addr, m) < high
    IN  [k \in 1 .. n |-> TagOf(LineStart(a.addr, k - 1))]

\* Instruction chooses the routine by the size alone.
Lines(a) == IF a.size <= SingleSize THEN <<TagOf(a.addr)>> ELSE Visits(a)

\* The loop over lines ends, for what the program accesses.
ASSUME AccessAssumption ==
    \A a \in Accesses : /\ a.type \in Types
                        /\ Lines(a) \in Seq(Nat) /\ Lines(a) # <<>>

Fifo == INSTANCE FifoSet WITH Tags <- Nat, queue <- queue

NoFrame == [type |-> "load", obj |-> None, todo |-> <<>>, all |-> TRUE,
         index |-> 0, old |-> 0]

\* The six registers, and StatsLong's counts, of a cache's counters.
Sum(counts, hit) == counts["load"][hit] + counts["store"][hit]
Registers(counts) ==
    [hits |-> Sum(counts, TRUE), misses |-> Sum(counts, FALSE),
     load_hits |-> counts["load"][TRUE], load_misses |-> counts["load"][FALSE],
     store_hits |-> counts["store"][TRUE],
     store_misses |-> counts["store"][FALSE]]
Zero == [t \in Types |-> [h \in BOOLEAN |-> 0]]

\* What the constructor leaves, and the queues of a cache without misses.
ColdSets    == [i \in 0 .. NumSets - 1 |-> Cold]
EmptyQueues == [i \in 0 .. NumSets - 1 |-> [k \in 1 .. Ways |-> 0]]

InitDCache ==
    /\ tracking = FALSE
    /\ dl1 \in Objects /\ deleted = FALSE      \* main calls pin_reset_tool
    /\ sets = [o \in Objects |-> ColdSets]
    /\ access = [o \in Objects |-> Zero]
    /\ pc = [t \in Threads |-> "app"]
    /\ frame = [t \in Threads |-> NoFrame]
    /\ registers = Registers(Zero) /\ report = Registers(Zero)
    /\ profile = [h \in BOOLEAN |-> 0]
    /\ made = 0 /\ counted = [o \in Objects |-> 0]
    /\ queue = [o \in Objects |-> EmptyQueues]
    /\ collided = FALSE /\ disturbed = FALSE
    /\ stale = {} /\ broken = FALSE

Go(t, to) == pc' = [pc EXCEPT ![t] = to]
InRoutine(t) ==
    pc[t] \in {"find", "pick", "replace", "count", "bump", "profile", "add"}

\* Using the frame's object after it was deleted is undefined.  The model
\* notes it and goes on with what is at the address: the old object's memory,
\* or a new object.
Touch(t) == broken' = (broken \/ t \in stale)

Tag(t) == Head(frame[t].todo)
Set(t) == sets[frame[t].obj][IndexOf(Tag(t))]

(***************************************************************************)
(* LoadSingle, StoreSingle, LoadMulti, StoreMulti and their Fast variants. *)
(* Untracked accesses leave no trace.                                      *)
(***************************************************************************)
Begin(t, a) ==
    /\ pc[t] = "app" /\ made < MaxAccesses
    /\ tracking
    /\ frame' = [frame EXCEPT ![t] = [NoFrame EXCEPT !.type = a.type, !.obj = dl1,
                                                  !.todo = Lines(a)]]
    /\ Go(t, "find")
    /\ made' = made + 1
    /\ counted' = [counted EXCEPT ![dl1] = @ + 1]
    /\ collided' = (collided \/ \E u \in Threads \ {t} : InRoutine(u))
    /\ disturbed' = (disturbed \/ pc[Main] = "new")
    /\ stale' = IF deleted THEN stale \cup {t} ELSE stale \ {t}
    /\ UNCHANGED <<tracking, cacheVars, outVars, queue, broken>>

NextLine(t, hit) ==
    /\ frame' = [frame EXCEPT ![t].todo = Tail(@), ![t].all = @ /\ hit]
    /\ Go(t, IF Len(frame[t].todo) = 1 THEN "count" ELSE "find")

\* Mutant: an access whose last line hits returns without being counted.
HitUncounted(t) ==
    /\ pc[t] = "find"
    /\ Find(Set(t), Tag(t))
    /\ frame' = [frame EXCEPT ![t].todo = Tail(@)]
    /\ Go(t, IF Len(frame[t].todo) = 1 THEN "app" ELSE "find")
    /\ Touch(t)
    /\ UNCHANGED <<tracking, cacheVars, outVars, historyVars>>

Hit(t) ==
    /\ pc[t] = "find"
    /\ Find(Set(t), Tag(t))
    /\ NextLine(t, TRUE)
    /\ Touch(t)
    /\ UNCHANGED <<tracking, cacheVars, outVars, historyVars>>

\* Loads and stores allocate alike (STORE_ALLOCATE).
Miss(t) ==
    /\ pc[t] = "find"
    /\ ~Find(Set(t), Tag(t))
    /\ Go(t, "pick")
    /\ Touch(t)
    /\ UNCHANGED <<tracking, cacheVars, frame, outVars, historyVars>>

PickWay(t) ==
    /\ pc[t] = "pick"
    /\ frame' = [frame EXCEPT ![t].index = Set(t).next]
    /\ Go(t, "replace")
    /\ Touch(t)
    /\ UNCHANGED <<tracking, cacheVars, outVars, historyVars>>

ReplaceWay(t) ==
    /\ pc[t] = "replace"
    /\ LET o == frame[t].obj
           i == IndexOf(Tag(t))
       IN  /\ sets' = [sets EXCEPT ![o][i] =
                         ReplaceIn(@, frame[t].index, Tag(t))]
           /\ queue' = [queue EXCEPT ![o][i] = Fifo!After(@, Tag(t))]
    /\ NextLine(t, FALSE)
    /\ Touch(t)
    /\ UNCHANGED <<tracking, dl1, access, deleted, outVars, made, counted,
                   collided, disturbed, stale>>

\* _access[accessType][allHit]++: one count for the whole access.
ReadCount(t) ==
    /\ pc[t] = "count"
    /\ LET f == frame[t] IN
         frame' = [frame EXCEPT ![t].old = access[f.obj][f.type][f.all]]
    /\ Go(t, "bump")
    /\ Touch(t)
    /\ UNCHANGED <<tracking, cacheVars, outVars, historyVars>>

WriteCount(t) ==
    /\ pc[t] = "bump"
    /\ LET f == frame[t] IN
         /\ access' = [access EXCEPT ![f.obj][f.type][f.all] = f.old + 1]
         /\ IF f.type \in Profiled
            THEN Go(t, "profile") /\ UNCHANGED frame
            ELSE Go(t, "app") /\ frame' = [frame EXCEPT ![t] = NoFrame]
    /\ Touch(t)
    /\ UNCHANGED <<tracking, dl1, sets, deleted, outVars, historyVars>>

\* profile[instId][counter]++: of the program, not of the cache object.
ReadProfile(t) ==
    /\ pc[t] = "profile"
    /\ frame' = [frame EXCEPT ![t].old = profile[frame[t].all]]
    /\ Go(t, "add")
    /\ UNCHANGED <<tracking, cacheVars, outVars, historyVars, broken>>

WriteProfile(t) ==
    /\ pc[t] = "add"
    /\ profile' = [profile EXCEPT ![frame[t].all] = frame[t].old + 1]
    /\ Go(t, "app")
    /\ frame' = [frame EXCEPT ![t] = NoFrame]
    /\ UNCHANGED <<tracking, cacheVars, registers, report, historyVars, broken>>

(***************************************************************************)
(* The control calls of the main thread.                                   *)
(***************************************************************************)
StartCollection ==
    /\ pc[Main] = "app" /\ ~tracking
    /\ tracking' = TRUE
    /\ UNCHANGED <<cacheVars, pc, frame, outVars, historyVars, broken>>

StopCollection ==
    /\ pc[Main] = "app" /\ tracking
    /\ tracking' = FALSE
    /\ Go(Main, "read")
    /\ UNCHANGED <<cacheVars, frame, outVars, historyVars, broken>>

\* The counters since the last reset, not since start_collection.  They only
\* grow, so that reading the six at once abstracts only how old each is.
ReadRegisters ==
    /\ pc[Main] = "read"
    /\ registers' = Registers(access[dl1])
    /\ Go(Main, "app")
    /\ UNCHANGED <<tracking, cacheVars, frame, profile, report, historyVars,
                   broken>>

\* Of reset and a routine: they overlap if a routine is under way at either
\* step of reset, or begins between them.
Disturb == disturbed' = (disturbed \/ \E u \in Threads \ {Main} : InRoutine(u))

\* reset deletes the cache, whoever is using it,
ResetDelete ==
    /\ pc[Main] = "app"
    /\ deleted' = TRUE
    /\ Go(Main, "new")
    /\ Disturb
    /\ stale' = stale \cup {u \in Threads : InRoutine(u)}
    /\ UNCHANGED <<tracking, dl1, sets, access, frame, outVars, made, counted,
                   queue, collided, broken>>

\* Mutant: the pointer to the deleted cache is not replaced.
ResetNewDangling ==
    /\ pc[Main] = "new"
    /\ Go(Main, "app")
    /\ UNCHANGED <<tracking, cacheVars, frame, outVars, historyVars, broken>>

\* and makes a cold one, at the same address or another.
ResetNew ==
    /\ pc[Main] = "new"
    /\ \E o \in Objects :
         /\ dl1' = o
         /\ sets' = [sets EXCEPT ![o] = ColdSets]
         /\ access' = [access EXCEPT ![o] = Zero]
         /\ counted' = [counted EXCEPT ![o] = 0]
         /\ queue' = [queue EXCEPT ![o] = EmptyQueues]
    /\ deleted' = FALSE
    /\ Disturb
    /\ Go(Main, "app")
    /\ UNCHANGED <<tracking, frame, outVars, made, collided, stale, broken>>

Step(t) ==
    \/ \E a \in Accesses : Begin(t, a)
    \/ Hit(t) \/ Miss(t) \/ PickWay(t) \/ ReplaceWay(t)
    \/ ReadCount(t) \/ WriteCount(t) \/ ReadProfile(t) \/ WriteProfile(t)

\* The program ends: the last cache's statistics are printed.
Fini ==
    /\ \A t \in Threads : pc[t] = "app"
    /\ report' = Registers(access[dl1])
    /\ pc' = [t \in Threads |-> "ended"]
    /\ UNCHANGED <<tracking, cacheVars, frame, registers, profile, historyVars,
                   broken>>

NextDCache ==
    \/ \E t \in Threads : Step(t)
    \/ StartCollection \/ StopCollection \/ ReadRegisters
    \/ ResetDelete \/ ResetNew \/ Fini

SpecDCache == InitDCache /\ [][NextDCache]_dcacheVars

(***************************************************************************)
(* Properties.                                                             *)
(***************************************************************************)
Quiet(o) == \A t \in Threads : InRoutine(t) => frame[t].obj # o

\* As long as no two routines overlap, a set holds exactly what a queue of
\* the last misses would hold, in the order it would drop them: the
\* simulator's round robin is first in first out.
HoldsTheLastMisses ==
    ~raced => \A o \in Objects, i \in 0 .. NumSets - 1 :
        ByAge(sets[o][i]) = queue[o][i]

Total(counts) == Registers(counts).hits + Registers(counts).misses

\* Every tracked access is counted once, as a hit or as a miss, however many
\* lines it covers, and once in the profile if its type is profiled; resets
\* clear the former only.  Overlapping routines may lose counts, but never add
\* any, and the final report is of the accesses since the last reset.
\*
\* A reset while a routine is under way ends that: the routine goes on with the
\* deleted cache, and where that was there may be the new one by then, to which
\* it adds a count of its own, or writes back one that it read before.
EachAccessCountedOnce ==
    ~disturbed =>
        /\ \A o \in Objects :
            /\ Total(access[o]) <= counted[o]
            /\ ~collided /\ Quiet(o) => Total(access[o]) = counted[o]
        /\ profile[TRUE] + profile[FALSE] <= made
        /\ Profiled = Types /\ ~collided /\ (\A o \in Objects : Quiet(o)) =>
            profile[TRUE] + profile[FALSE] = made
        /\ pc[Main] = "ended" /\ ~collided =>
            report.hits + report.misses = counted[dl1]

\* A routine uses a deleted cache only if reset was called while another
\* thread was in a routine, or one began between deletion and allocation: two
\* routines that overlap do not lead to it.
DeletedOnlyByARace == broken => disturbed
=============================================================================
