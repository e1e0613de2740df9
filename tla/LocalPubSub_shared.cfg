SPECIFICATION Spec
CONSTANTS
    Pullers = {p1, p2}
    Private = {}
    Publishers = {b1, b2}
    Shared = shared
    Subs <- MCSubs
    OtherTopic = {}
    SubOf <- MCSubOf
    None = None
    MaxMessages <- MCMaxMessages
    MaxRenames = 3
    MaxCrashes = 2
SYMMETRY Symmetry
CHECK_DEADLOCK FALSE
INVARIANTS
    IndInv
    AtMostOnce
    NothingLost
PROPERTIES
    TopicStands
    ImplementsPubSub
