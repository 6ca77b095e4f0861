CONSTANTS
    Txn = {1, 2, 3}
    Table = {t1}
    Row = {r1, r2}
    TableModes = {"IX", "S"}
    RowModes = {"X"}
    Threshold = 2
    Stragglers = {2}
    Whole = Whole
    None = None
SPECIFICATION Spec
INVARIANTS
    TypeOK
    BookkeepingAgrees
    NothingLeaks
    WaitersAreWaiting
    RowsUnderIntent
    RowLocksAreBounded
    MetaOnlyForUpgrade
    CompatibleUntilOverlap
PROPERTIES
    StrictTwoPhase
CHECK_DEADLOCK FALSE
SYMMETRY Rows
