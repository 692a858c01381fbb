CONSTANTS
    t1 = t1
    t2 = t2
    Tasks = {t1, t2}
    Sync = {t2}
    Priority <- MCPriority
    MaxAttempts <- MCMaxAttempts
    PolicyAttempts = 2
    Workers = {w1}
    GivenAttempts = {0}
    Answers = {"message", "broken"}
SPECIFICATION Spec
PROPERTIES OnlyRunningTasksExecuted
CHECK_DEADLOCK FALSE
