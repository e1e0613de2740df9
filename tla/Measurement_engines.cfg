SPECIFICATION Spec
CONSTANTS
    CoreEvents = {"cyc", "ins"}
    RaplEvents = {"energy"}
    MaxCounters = 2
    Registers = {"loads"}
    RegisterName <- MCRegisterName
    PcmStats = {"IPC"}
    Attributes <- MCAttributes
    CommandLines <- MCCommandLines
    Speeds = {0, 2000}
    MaxIntervals = 2
    MaxChanges = 1
INVARIANTS
    IndInv
    TrueCounts
PROPERTIES
    RowsComplete
    RowsFinal
