SPECIFICATION PlaneSpec
CONSTANTS
    PlaneClients = {c1}
    BootStages = {"HISTORICAL_REPLAY"}
    ReportedStages = {"HISTORICAL_REPLAY"}
    Documents = {d}
    MaxRevision = 1
CHECK_DEADLOCK FALSE
INVARIANT FailedCannotPromote
