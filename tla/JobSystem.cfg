\* Two nodes, two jobs, one slot per node.
CONSTANTS
    Nodes = {n1, n2}
    Requests = {r1, r2}
    MaxSeq = 2
    MaxJobRetries = 1
    MaxJobsPerNode = 1
    SavesMayFail = FALSE
    NoJob = NoJob
    FleetViews = {"running"}
    MaxRuns = 3
    NoOne = NoOne
SYMMETRY Symmetry
SPECIFICATION SystemSpec
INVARIANTS SystemTypeOK NoConcurrentRuns CapacityUnlessExpired OutcomeMatchesStatus ExecInv
PROPERTY RunsKept
