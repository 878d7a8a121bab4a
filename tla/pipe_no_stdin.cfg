SPECIFICATION Spec
CONSTANTS
    Programs <- MCLast
    OpenAtStart <- MCNoStdin
    Capacity = 2
    MaxLines = 4
    Faults = {}
INVARIANT LastIntoWc
CHECK_DEADLOCK FALSE
