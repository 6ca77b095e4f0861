\* Four transactions: every wait-for graph over them, every iteration order.
CONSTANT Txn = {1, 2, 3, 4}
SPECIFICATION Spec
INVARIANTS
    OnlyCyclesAreBlamed
    EveryDeadlockIsFound
    SmallDeadlockKillsYoungest
\* the search stops when it has visited every start
CHECK_DEADLOCK FALSE
