SPECIFICATION Spec
CONSTANTS
    Runs = {r1, r2}
    NoRun = NoRun
    IntMax = 120
    InitialFiles <- MCInitialFiles
    Faults <- MCAllFaults
INVARIANTS
    TypeOK
    LockInv
    StatusTellsCounted
PROPERTY EveryRunEnds
CHECK_DEADLOCK FALSE
