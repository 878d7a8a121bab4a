SPECIFICATION Spec
CONSTANTS
    Programs <- MCPositioned
    Contents <- MCContents
    Modes <- MCModes
    Outputs <- MCOther
    Chunk = 3
    Faults <- MCAllFaults
INVARIANT PositionedCopyFaithful
CHECK_DEADLOCK FALSE
