\* Two requests of a connection, cut anywhere.
SPECIFICATION Spec
CONSTANTS
    Requests <- Asked
    IntRange = 3
    MaxRequests = 2
INVARIANTS
    ExactUnlessSplit
    WholeIsAnswered
CHECK_DEADLOCK FALSE
