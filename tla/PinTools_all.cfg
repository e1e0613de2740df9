SPECIFICATION Spec
CONSTANTS
    Ways = 3
    Threads = {"main", "other"}
    Main = "main"
    CacheSize = 12
    LineSize = 2
    AddressSpace = 16
    SingleSize = 1
    Profiled = {"load", "store"}
    Accesses <- MCAccesses
    Objects = {here, there}
    MaxAccesses = 3
    Code <- MCCode
    SharedLib = {"libc"}
    MaxIndex = 3
    KnobSettings <- MCKnobs
    MaxBlocks = 4
    MaxFlushes = 1
SYMMETRY Places
CHECK_DEADLOCK FALSE
INVARIANTS
    HoldsTheLastMisses
    EachAccessCountedOnce
    DeletedOnlyByARace
    TraceReplays
    CountsMatch
