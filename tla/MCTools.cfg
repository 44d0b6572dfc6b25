SPECIFICATION MCSpec
CONSTANTS
    t1 = t1
    t2 = t2
    search = search
    fetch = fetch
    NoTool = NoTool
    Tasks = {t1, t2}
    Names = {search, fetch}
    FailureThreshold = 2
    RecoveryTimeout = 1
    MaxSetBack = 1
    ExitCodes <- MCExitCodes
    Numbers <- MCNumbers
    Durations = {0, 1}
    DefaultTimeout = 2
    MaxOverrides = 1
CHECK_DEADLOCK FALSE
INVARIANT TypeOK
PROPERTY BreakersImplementFSM
PROPERTY TripsOnlyFailingTools
INVARIANT ReturnsAfterCleanup
INVARIANT ReportsTrueExit
PROPERTY RunawayCodeIsStopped
INVARIANT VerdictPerExecution
INVARIANT ValidInputsAreHonoured
