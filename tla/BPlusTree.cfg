SPECIFICATION MCSpec
CONSTANTS
    Order = 3
    Prime = 23
    Strides = {1, 5, 22}
    Sizes = {0, 11, 19, 22}
    Key <- MCKey
    MaxOps = 2
INVARIANTS WellFormed ReadsAreTheMap SweepTakesHalf
CHECK_DEADLOCK FALSE
