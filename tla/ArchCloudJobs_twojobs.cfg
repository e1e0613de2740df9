SPECIFICATION Spec
CONSTANTS
    Jobs = {j1, j2}
    Daemons = {d1, d2}
    DebugDaemons = {}
    None = None
    Outcomes = {"success", "timeout", "error"}
    Troubles = {"fault"}
    MaxTroubles = 1
    MaxAge = 2
SYMMETRY Symmetry
INVARIANTS
    OneRunner
    NoJobAbandoned
    RecordAgreesWithResult
PROPERTIES
    ResultFinal
    ImplementsService
