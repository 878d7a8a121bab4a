SPECIFICATION Spec
CONSTANTS
    Programs <- MCAll
    Contents <- MCContents
    Modes <- MCModes
    Outputs <- MCBoth
    Chunk = 3
    Faults <- MCAllFaults
INVARIANTS
    TypeOK
    CopyFaithful
    PrefixOfSource
    SourceKept
    AttributesCopied
PROPERTY CopyEnds
CHECK_DEADLOCK FALSE
