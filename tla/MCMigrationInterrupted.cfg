CONSTANTS
    Tasks = {"good"}
    InvalidTasks = {}
    VaultLabels = {"v"}
    InsightIds = {"g1", "u"}
    Grounded = {"g1"}
SPECIFICATION MigrationSpec
INVARIANTS OpenDatabaseHasInsights
