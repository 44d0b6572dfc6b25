SPECIFICATION MCFairSpec
CONSTANT Requests <- MCRequests
CONSTANT MaxRetries = 4
CHECK_DEADLOCK FALSE
INVARIANT TypeOK
INVARIANT FailuresSurface
INVARIANT UsableCompletionsArrive
INVARIANT ExecutorFollowsModel
INVARIANT AnswerOfAttempts
PROPERTY EveryCallReturns
