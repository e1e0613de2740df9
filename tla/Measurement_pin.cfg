SPECIFICATION Spec
CONSTANTS
    CoreEvents = {"cyc", "ins"}
    RaplEvents = {"energy"}
    MaxCounters = 2
    Registers = {"loads_STAT"}
    RegisterName <- MCRegisterName
    PcmStats = {"IPC"}
    Attributes <- MCAttributes
    CommandLines <- MCPinLines
    Speeds = {0, 2000}
    MaxIntervals = 2
    MaxChanges = 0
PROPERTIES
    StatsReported
