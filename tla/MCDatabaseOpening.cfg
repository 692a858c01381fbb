CONSTANTS
    Workers = {"worker"}
    MaxRestores = 2
    IOErrors = TRUE
    Workspaces = {"d", "w2", "w3"}
    DefaultWorkspace = "d"
    TelegramWorkers = {"x"}
    Tasks = {"good", "bad"}
    InvalidTasks = {"bad"}
    VaultLabels = {"v"}
    InsightIds = {"g1", "g2", "u"}
    Grounded = {"g1", "g2"}
SPECIFICATION MCSpec
INVARIANTS
    TypeOK RecoveryCopyKept SuccessIsReal
    ContextTypeOK ActiveIsAccessible SelectionKept AuditFollowsRow
    MigrationTypeOK StepsBeforeVersion
PROPERTIES
    ReplacesAtomically NothingLost
