SPECIFICATION FairSpec
CONSTANTS
    c1 = c1
    c2 = c2
    c3 = c3
    Callers = {c1,c2,c3}
    Workers = 2
    FailureThreshold = 2
    RecoveryTimeout = 1
    MaxPause = 1
INVARIANT NeverClosedPastThreshold
PROPERTY NoLockout
PROPERTY Recovery
