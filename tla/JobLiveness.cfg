\* One node and one client, whose lost replies make it submit twice; one slot.
CONSTANTS
    Nodes = {n1}
    Requests = {r1}
    MaxSeq = 2
    MaxJobRetries = 1
    MaxJobsPerNode = 1
    SavesMayFail = FALSE
    NoJob = NoJob
    FleetViews = {"running", "starting"}
    MaxRuns = 3
    NoOne = NoOne
SPECIFICATION FairSystemSpec
PROPERTY PendingFinishes
