CONSTANTS
    Client = {a, b}
    Explicit = {a}
    Row = {r, n}
    NewRow = {n}
    MaxTxn = 2
    MaxWrites = 2
    MaxFailures = 1
    None = None
    Avoided = {"shutdown-during-commit", "table-of-a-transaction-not-committed"}
SPECIFICATION FairSpec
INVARIANTS
    TypeOK
    OutcomeIsKept
    HolderIsCurrent
    NothingIsOrphaned
    LogIsReplayable
PROPERTIES
    StatusIsFinal
    EndReturns
CHECK_DEADLOCK FALSE
