SPECIFICATION Spec
CONSTANTS
    Jobs = {j1}
    Daemons = {d1, d2}
    DebugDaemons = {}
    None = None
    Outcomes = {"success", "error"}
    Troubles = {"ack", "fault", "crash", "cleanup"}
    MaxTroubles = 2
    MaxAge = 2
SYMMETRY DaemonSymmetry
INVARIANTS
    LostResultOnlyIfCancelled
    IndInv
PROPERTIES
    NoRevival
