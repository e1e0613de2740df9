SPECIFICATION FairSpec
CONSTANTS
    Jobs = {j1}
    Daemons = {d1, d2}
    DebugDaemons = {d2}
    None = None
    Outcomes = {"success", "timeout", "error"}
    Troubles = {"ack", "fault", "crash", "kill", "cleanup"}
    MaxTroubles = 1
    MaxAge = 2
PROPERTIES
    ClientEnds
    JobSettles
