SPECIFICATION Spec
CONSTANTS
    Name = {"a", "b", "t", "u"}
    Number = {"1"}
    Typed <- MCTyped
    First <- MCFirst
    Operand <- MCOperand
    MaxTyped = 4
    MaxOps = 2
    Avoided = {"NOT-before-a-comparison"}
INVARIANTS ReadAsMeant NothingIsDropped
CHECK_DEADLOCK FALSE
