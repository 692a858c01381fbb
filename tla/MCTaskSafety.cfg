CONSTANTS
    t1 = t1
    t2 = t2
    a1 = a1
    e1 = e1
    e2 = e2
    Tasks = {t1, t2}
    Sync = {}
    Accounts = {a1}
    AccountOf <- MCAccountOf
    Priority <- MCPriority
    MaxAttempts <- MCMaxAttempts
    RuleMaxAttempts = 10
    Executors = {e1, e2}
    DailyLimit = 1
    BreakerThreshold = 1
    LastDay = 0
    UserMoves = {"pending", "awaiting_user_action", "cancelled"}
    EnqueueDue = {"now"}
    StatementsFail = TRUE
SYMMETRY SameExecutors
SPECIFICATION Spec
INVARIANTS TypeOK OneExecutorPerTask AttemptBudget BudgetOvershootBounded
PROPERTIES NoBlindRetry FollowsLifecycle
