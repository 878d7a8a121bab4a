SPECIFICATION Spec
CONSTANTS
    Programs <- MCAll
    Faults <- MCFaults
    Sizes <- MCSizes
    SIZEOF_BUF = 4
    QueueLimit = 2
    MaxEvents = 3
    Entries <- MCEntries
    Kind <- MCKind
    Permissions <- MCPermissions
    Execute <- MCExecute
    Umask <- MCUmask
    MaxSignals = 4
    N_THREADS = 4
    N = 3
    Characters <- MCCharacters
    MaskSignals <- MCMaskSignals
    OtherSignals <- MCOtherSignals
    MaxSent = 3
INVARIANTS
    TypeOK
    NothingMissed
    AllListed
    TreeCopied
    StatusZeroMeansMade
    FifoModeCopied
    NoticesHappened
    LineInFile
    ResultRight
    PairTrue
    EachLineHasSignal
PROPERTIES
    InputEnds
    ParentEnds
CHECK_DEADLOCK FALSE
