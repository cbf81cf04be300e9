\* One node, one job.
CONSTANTS
    Nodes = {n1}
    Requests = {r1}
    MaxSeq = 1
    MaxJobRetries = 1
    MaxJobsPerNode = 1
    SavesMayFail = FALSE
    NoJob = NoJob
    FleetViews = {"running"}
    MaxRuns = 3
    NoOne = NoOne
SPECIFICATION SystemSpec
PROPERTY SecondFailureFinal
