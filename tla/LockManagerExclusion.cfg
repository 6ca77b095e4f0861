CONSTANTS
    Txn = {1, 2}
    Table = {t1}
    Row = {r1}
    TableModes = {}
    RowModes = {"X"}
    Threshold = 2
    Stragglers = {}
    Whole = Whole
    None = None
SPECIFICATION Spec
INVARIANT HoldersAreCompatible
CHECK_DEADLOCK FALSE
