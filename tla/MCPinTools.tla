----------------------------- MODULE MCPinTools -----------------------------
EXTENDS PinTools

\* No place in memory is better than another.
Places == Permutations(Objects)

Acc(addr, size, type) == [addr |-> addr, size |-> size, type |-> type]

\* Lines are of two bytes, addresses of four bits; even lines are in set 0.
\* One access crosses a line, one at the end of the address space.
MCAccesses ==
    { Acc(6, 1, "store"), Acc(10, 1, "load"),
      Acc(3, 3, "store"), Acc(14, 2, "load") }

Ins(category, predicated) ==
    [category |-> category, predicated |-> predicated]

\* A trace of two blocks and one of a shared library.
MCCode ==
    ("loop" :> << <<Ins(1, FALSE), Ins(2, TRUE)>>, <<Ins(1, FALSE)>> >>) @@
    ("libc" :> << <<Ins(2, FALSE), Ins(2, FALSE)>> >>)

\* Each option is set in one execution at least.
Knob(name, compress, from_start, predicated, static_only, no_shared_libs) ==
    [tool |-> name, compress |-> compress, from_start |-> from_start,
     predicated |-> predicated, static_only |-> static_only,
     no_shared_libs |-> no_shared_libs]
MCKnobs ==
    { Knob("trace", FALSE, TRUE, FALSE, FALSE, FALSE),
      Knob("trace", TRUE, FALSE, FALSE, FALSE, FALSE),
      Knob("catmix", FALSE, FALSE, TRUE, FALSE, FALSE),
      Knob("catmix", FALSE, FALSE, FALSE, FALSE, TRUE),
      Knob("catmix", FALSE, FALSE, FALSE, TRUE, FALSE) }
=============================================================================
