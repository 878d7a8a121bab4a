SPECIFICATION Spec
CONSTANTS
    Servers = {s1, s2}
    Clients = {c1, c2, c3}
    Testers = {}
    NoQueue = NoQueue
    NoMessage = NoMessage
    MaxMsg = 1
    MaxSignals = 2
    Faults <- MCAllFaults
INVARIANTS
    TypeOK
    ServerKeepsName
    StatusTellsAccepted
    LeftNameIsReported
PROPERTY OnlyOwnNameRemoved
SYMMETRY MCClientSymmetry
CHECK_DEADLOCK FALSE
