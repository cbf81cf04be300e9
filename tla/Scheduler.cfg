\* Two clients, ids 1..2, no failed saves.
CONSTANTS
    Nodes = {n1}
    Requests = {r1, r2}
    MaxSeq = 2
    MaxJobRetries = 1
    MaxJobsPerNode = 1
    SavesMayFail = FALSE
    NoJob = NoJob
SYMMETRY Symmetry
SPECIFICATION Spec
INVARIANTS TypeOK FreshIds ReceiptsHonoured FailureNoticesFinal
PROPERTY ContractSpec
