\* Room for three calls, so that a store can be asked again.
CONSTANTS
    primary = primary
    replica = replica
    Stores = {primary, replica}
    Keys = {flat}
    Bucketed = {}
    Factor <- MCFactor
    MaxPuts = 1
    MaxCalls = 3
    MaxFaults = 0
SPECIFICATION MCSpec
INVARIANT AllMissIs404
CHECK_DEADLOCK FALSE
