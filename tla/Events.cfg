\* Two stores, the first of which copies to the other; one object outside any
\* bucket and one in the bucket.
CONSTANTS
    primary = primary
    replica = replica
    Stores = {primary, replica}
    Flat = flat
    Keys = {flat, inBucket}
    Bucketed = {inBucket}
    Factor <- MCFactor
    MaxPuts = 2
    MaxCalls = 3
    MaxFaults = 1
    Bucket = bucket
    Buckets <- MCBuckets
    Unnamed = unnamed
    Origins <- MCOrigins
    Functions = {resize}
    Lambda = lambda
    Others = {auditor}
    MaxStarts = 2
    MaxRows = 2
    MaxSubFaults = 1
    Hosts = {i1}
    MaxMade = 3
    MaxNetStarts = 3
    MaxNetFaults = 1
SPECIFICATION MCSpec
INVARIANTS EventsTypeOK ReplicasAgree MetaMatchesBlock OncePerNotice LostRowsExplained
CHECK_DEADLOCK FALSE
