\* Two messages, the jobs queue and a dead letter queue, one interruption of
\* each message.
CONSTANTS
    Queues = {jobs, dead}
    JobsQueue = jobs
    Policies <- MCPolicies
    Bodies = {good, bad}
    GoodBodies = {good}
    Poller = scheduler
    Clients = {scheduler, other}
    MaxMsg = 2
    CountCap = 2
    MaxReads = 1
    NoDlq = NoDlq
    NoQueue = NoQueue
    NoMessage = NoMessage
    Nobody = Nobody
    SavesMayFail = FALSE
    MaxFaults = 1
SPECIFICATION IntakeSpec
INVARIANTS IntakeTypeOK SentIsStored AckedMeansJob IntakeInv
PROPERTIES DeadLettersWereTried MessagesKept
