SPECIFICATION Spec
CONSTANTS
    Programs = {"10"}
    Faults = {}
    Sizes <- MCSizes
    SIZEOF_BUF = 4
    QueueLimit = 2
    MaxEvents = 2
    Entries <- MCEntries
    Kind <- MCKind
    Permissions <- MCPermissions
    Execute <- MCExecute
    Umask <- MCUmask
    MaxSignals = 1
    N_THREADS = 1
    N = 1
    Characters <- MCCharacters
    MaskSignals <- MCMaskSignals
    OtherSignals <- MCOtherSignals
    MaxSent = 1
INVARIANT NewFilesPrinted
CHECK_DEADLOCK FALSE
