SPECIFICATION Spec
CONSTANTS
    Servers = {s1, s2}
    Clients = {c1, c2}
    Testers = {t1}
    NoQueue = NoQueue
    NoMessage = NoMessage
    MaxMsg = 2
    MaxSignals = 1
    Faults <- MCOpenFault
PROPERTIES
    ServesInOrder
    AcceptedIsPrinted
    SendReturns
    TesterEnds
CHECK_DEADLOCK FALSE
