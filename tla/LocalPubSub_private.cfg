SPECIFICATION Spec
CONSTANTS
    Pullers = {p1, q, r}
    Private = {q, r}
    Publishers = {b1}
    Shared = shared
    Subs <- MCSubs
    OtherTopic = {r}
    SubOf <- MCSubOf
    None = None
    MaxMessages <- MCMaxMessages
    MaxRenames = 2
    MaxCrashes = 1
SYMMETRY Symmetry
CHECK_DEADLOCK FALSE
INVARIANTS
    ReachesAll
