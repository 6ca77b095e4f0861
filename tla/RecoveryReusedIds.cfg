SPECIFICATION Spec
CONSTANTS
    Key = {1, 2}
    MaxTxn = 3
    MaxWrites = 3
    None = None
    Avoided = {"long-torn-record", "write-error", "crash-before-reset", "neighbouring-dead-keys", "begin-during-checkpoint", "shutdown-during-commit"}
INVARIANTS RecoveryIsExact
