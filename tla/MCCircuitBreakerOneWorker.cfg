SPECIFICATION Spec
CONSTANTS
    c1 = c1
    c2 = c2
    c3 = c3
    Callers = {c1,c2,c3}
    Workers = 1
    FailureThreshold = 3
    RecoveryTimeout = 2
    MaxPause = 2
INVARIANT TypeOK
INVARIANT ViewsAreCurrent
PROPERTY OpensAfterStreak
PROPERTY ImplementsFSM
