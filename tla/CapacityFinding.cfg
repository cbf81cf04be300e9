\* One node, two jobs, one slot.
CONSTANTS
    Nodes = {n1}
    Requests = {r1, r2}
    MaxSeq = 2
    MaxJobRetries = 1
    MaxJobsPerNode = 1
    SavesMayFail = FALSE
    NoJob = NoJob
    FleetViews = {"running"}
    MaxRuns = 3
    NoOne = NoOne
SPECIFICATION SystemSpec
INVARIANT CapacityRespected
