------------------------------ MODULE CacheSet ------------------------------
(***************************************************************************)
(* One set of the simulated cache: class ROUND_ROBIN of dcache.H.  Tags are *)
(* line numbers (a tag includes the bits of the set index).  The index of  *)
(* the way to replace next counts down and wraps to the last way.  The     *)
(* constructor sets every tag to 0, so a cold set already holds line 0.    *)
(***************************************************************************)
EXTENDS Naturals, Sequences

CONSTANT Ways    \* the associativity

ASSUME WaysAssumption == Ways \in Nat \ {0}

Way  == 0 .. Ways - 1
Sets == [tags : [Way -> Nat], next : Way]
Cold == [tags |-> [w \in Way |-> 0], next |-> Ways - 1]

Find(set, tag) == \E w \in Way : set.tags[w] = tag

\* Mutant: the index counts up.
NextIndexUp(index) == (index + 1) % Ways

NextIndex(index) == IF index = 0 THEN Ways - 1 ELSE index - 1

\* Replace, split at its read of _nextReplaceIndex
ReplaceIn(set, index, tag) ==
    [tags |-> [set.tags EXCEPT ![index] = tag], next |-> NextIndex(index)]
Replace(set, tag) == ReplaceIn(set, set.next, tag)

\* The tags from the oldest to the newest.
WayOfAge(set, k) ==
    IF k - 1 <= set.next THEN set.next - (k - 1) ELSE set.next + Ways - (k - 1)
ByAge(set) == [k \in 1 .. Ways |-> set.tags[WayOfAge(set, k)]]
=============================================================================
