CONSTANTS
    Txn = {1, 2, 3}
    Table = {t1}
    Row = {r1, r2}
    TableModes = {}
    RowModes = {"X"}
    Threshold = 2
    Stragglers = {}
    Whole = Whole
    None = None
SPECIFICATION FairSpec
PROPERTIES
    EveryCallReturns
CHECK_DEADLOCK FALSE
