\* Two job messages, one interruption of each, no client but the scheduler.
CONSTANTS
    Queues = {jobs, dead}
    JobsQueue = jobs
    Policies <- MCPolicies
    Bodies = {good}
    GoodBodies = {good}
    Poller = scheduler
    Clients = {scheduler}
    MaxMsg = 2
    CountCap = 2
    MaxReads = 1
    NoDlq = NoDlq
    NoQueue = NoQueue
    NoMessage = NoMessage
    Nobody = Nobody
    SavesMayFail = FALSE
    MaxFaults = 1
SPECIFICATION FairIntakeSpec
PROPERTIES MessagesBecomeJobs
