CONSTANTS
    t1 = t1
    t2 = t2
    Tasks = {t1, t2}
    Sync = {t2}
    Priority <- MCPriority
    MaxAttempts <- MCMaxAttempts
    PolicyAttempts = 2
    Workers = {w1, w2}
    GivenAttempts = {0, 3}
    Answers = {"message", "broken", "server_error", "unauthorized", "rate_limited",
               "rejected"}
SPECIFICATION Spec
INVARIANTS TypeOK AttemptBudget
PROPERTIES NoBlindRetry FollowsLifecycle ReservationsEnd RunningTasksSettle
CHECK_DEADLOCK FALSE
