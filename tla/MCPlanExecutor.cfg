SPECIFICATION FairSpec
CONSTANTS
    a = a
    b = b
    NoCall = NoCall
    Calls = {a, b}
    WindowSize = 4
    RepeatThreshold = 3
    MaxTokens = 5
    Lengths = {3,16,27}
    MaxIterations = 3
    MaxReplansPerStep = 3
    MaxReplansPerTask = 4
    HasLog = TRUE
CHECK_DEADLOCK FALSE
INVARIANT TypeOK
INVARIANT ReplansCountFailures
INVARIANT StepsAreIterationsAndReplans
INVARIANT ReplansBelowLimits
INVARIANT NoFloodOfOneCall
INVARIANT ReasonSeesLastOutcome
INVARIANT RowTracksTask
PROPERTY ImplementsAgentTask
PROPERTY Termination
