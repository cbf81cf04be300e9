\* Two numbers, each given out at most twice; the one that can come back is
\* followed.
CONSTANTS
    MaxSeq = 2
    Followed = {2}
    MaxCreated = 2
SPECIFICATION Spec
INVARIANTS InstancesTypeOK ReuseNeedsOvertaking TerminatedIsFinal DestroyedStaysGone
