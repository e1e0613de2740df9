SPECIFICATION Spec
CONSTANTS
    Jobs = {j1}
    Daemons = {d1}
    DebugDaemons = {}
    None = None
    Outcomes = {"success"}
    Troubles = {"fault"}
    MaxTroubles = 1
    MaxAge = 0
PROPERTIES
    FailedMeansFailed
