CONSTANTS
    WaitReturns = TRUE
    SpuriousTimeouts = TRUE
    Mtu = 4
    MaxSeqNum = 5
    ReplayWindow = 2
    MaxLoss = 1
    MaxDup = 1
    MaxTimeouts = 1
    MaxWrites = 1
    Closers = {}
SPECIFICATION Spec
CONSTRAINT InFlightBound
INVARIANTS
    TypeOK
    HandshakeSeqConsistent
    AppDataAtMostOnce
    RecordLayerMeetsSpec
PROPERTIES
    HandshakeRefinement
CHECK_DEADLOCK FALSE
