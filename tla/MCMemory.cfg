SPECIFICATION MCSpec
CONSTANTS
    a = a
    b = b
    Calls = {a, b}
    WindowSize = 3
    RepeatThreshold = 2
    MaxCalls = 7
    Messages <- MCMessages
    MaxTokens = 9
    c1 = c1
    c2 = c2
    n1 = n1
    n2 = n2
    NoConnection = NoConnection
    Clients = {c1, c2}
    Connections = {n1, n2}
    Goals <- MCGoals
    Keywords <- MCKeywords
    Limits = {0, 1, 7}
    MaxI64 = 3
    Probes = {10, 100}
    DebugBuild = FALSE
    MaxRows = 2
SYMMETRY StoresSymmetry
INVARIANT TypeOK
INVARIANT DetectsExactlyLoops
INVARIANT PushKeepsLongestSuffix
INVARIANT ReadsAreExact
INVARIANT QueryUsesOwnProbes
