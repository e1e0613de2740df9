------------------------------ MODULE FifoSet ------------------------------
(***************************************************************************)
(* What a set of the simulated cache promises: it holds the lines that     *)
(* missed last, in a queue, and a miss drops the oldest.  A hit changes    *)
(* nothing: the policy is first in first out, not least recently used.     *)
(***************************************************************************)
EXTENDS Naturals, Sequences

CONSTANTS Ways, Tags
VARIABLE queue

Holds(q, tag)   == \E k \in DOMAIN q : q[k] = tag
Insert(q, tag)  == Append(Tail(q), tag)
After(q, tag)   == IF Holds(q, tag) THEN q ELSE Insert(q, tag)

Init == queue = [k \in 1 .. Ways |-> 0]
Touch(tag) == queue' = After(queue, tag)
Next == \E tag \in Tags : Touch(tag)
Spec == Init /\ [][Next]_queue
=============================================================================
