CONSTANTS
    t1 = t1
    t2 = t2
    a1 = a1
    e1 = e1
    e2 = e2
    Tasks = {t1, t2}
    Sync = {}
    Accounts = {a1}
    AccountOf <- MCAccountOf
    Priority <- MCPriority
    MaxAttempts <- MCOneAttempt
    RuleMaxAttempts = 1
    Executors = {e1, e2}
    DailyLimit = 1
    BreakerThreshold = 1
    LastDay = 1
    UserMoves = {}
    EnqueueDue = {"now"}
    StatementsFail = FALSE
SPECIFICATION Spec
PROPERTY BudgetResetsOnNewDay
