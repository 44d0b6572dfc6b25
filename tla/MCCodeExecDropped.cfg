SPECIFICATION CodeExecSpec
CONSTANT ExitCodes <- MCExitCodes
CHECK_DEADLOCK FALSE
INVARIANT DroppedRunsAreCleanedUp
