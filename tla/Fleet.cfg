\* One agent and one object store; one service job with its retry, or two jobs
\* with one run each.
CONSTANTS
    Home = agent
    Nodes = {agent, store}
    Storage = {store}
    FirstJob = j1
    Jobs = {j1, j2}
    MaxBoots = 2
    MaxFaults = 1
    MaxRuns = 3
    MaxSeq = 2
    MaxFailedSaves = 1
    CounterSize = 4
SPECIFICATION MCSpec
INVARIANTS FleetTypeOK DiskMatchesMemory KillsOnlyStopped StaleRowsExplained SecondStopFinal OneTargetPerApp
PROPERTIES StopHolds OutcastStaysOut SilentPruned StoppedSignalled DeadLeave
CHECK_DEADLOCK FALSE
