\* Two clients, ids 1..2, saves may fail.
CONSTANTS
    Nodes = {n1}
    Requests = {r1, r2}
    MaxSeq = 2
    MaxJobRetries = 1
    MaxJobsPerNode = 1
    SavesMayFail = TRUE
    NoJob = NoJob
SPECIFICATION Spec
INVARIANT IdsNotReused
