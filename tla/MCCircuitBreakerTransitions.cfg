SPECIFICATION Spec
CONSTANTS
    c1 = c1
    c2 = c2
    Callers = {c1,c2}
    Workers = 2
    FailureThreshold = 1
    RecoveryTimeout = 1
    MaxPause = 1
PROPERTY LegalTransitions
