SPECIFICATION Spec
CONSTANTS
    Programs <- MCAll
    OpenAtStart <- MCAnyStart
    Capacity = 2
    MaxLines = 4
    Faults <- MCAllFaults
INVARIANTS
    TypeOK
    CountsProducer
    NoStrayEnds
    StatusZeroMeansCounted
PROPERTIES
    BothEnd
    ProducerEndsWithWc
CHECK_DEADLOCK FALSE
