SPECIFICATION MCSpec
CONSTANTS
    b1 = b1
    b2 = b2
    b3 = b3
    s1 = s1
    s2 = s2
    w1 = w1
    w2 = w2
    TaskToken = TaskToken
    Subtasks = {b1, b2, b3}
    TaskTimeout = 1
    CallBudget = 3
    OwnErrors = {"Ipc", "JoinError"}
    Steps = {s1, s2}
    Tools = {w1, w2}
CHECK_DEADLOCK FALSE
INVARIANT ReturnsAfterBranches
