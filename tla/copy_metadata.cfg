SPECIFICATION Spec
CONSTANTS
    Programs <- MC04
    Contents <- MCContents
    Modes <- MCModes
    Outputs <- MCOther
    Chunk = 3
    Faults = {}
INVARIANT MetadataCopied
CHECK_DEADLOCK FALSE
