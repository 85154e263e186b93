SPECIFICATION Spec
CONSTANTS
    totThreads = 3
    ReadsInTime = FALSE
INVARIANT StateIsTrue
CHECK_DEADLOCK FALSE
