SPECIFICATION Spec
CONSTANTS
    Runs = {r1, r2, r3}
    NoRun = NoRun
    IntMax = 120
    InitialFiles <- MCPlainFiles
    Faults <- MCReportedFaults
INVARIANT NoStaleWrite
PROPERTY CountsItsRuns
CHECK_DEADLOCK FALSE
