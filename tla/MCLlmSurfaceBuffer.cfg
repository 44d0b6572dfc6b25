SPECIFICATION MCSpec
CONSTANT Requests <- MCRequests
CONSTANT MaxRetries = 0
CHECK_DEADLOCK FALSE
INVARIANT BufferIsAccepted
