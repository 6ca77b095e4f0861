SPECIFICATION Spec
CONSTANTS
    Txn = {1, 2, 3}
    Key = {1, 2}
    None = None
    Loaded = {1}
    Serial = {2}
    Sessions = 2
    Avoided = {"write-before-read", "delete-after-rollback", "move-onto-a-new-key", "write-during-gc", "stale-snapshot",
               "gc-under-a-snapshot"}
INVARIANTS TypeOK OneVersionIsVisible SerialReadsAreCurrent
PROPERTIES ImplementsStore PinnedReadsRepeat
CHECK_DEADLOCK FALSE
