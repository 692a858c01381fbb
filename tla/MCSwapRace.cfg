CONSTANTS
    Workers = {"worker"}
    MaxRestores = 1
    IOErrors = FALSE
SPECIFICATION Spec
INVARIANTS RecoveryCopyKept
