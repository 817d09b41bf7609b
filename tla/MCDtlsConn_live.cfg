CONSTANTS
    WaitReturns = TRUE
    SpuriousTimeouts = FALSE
    Mtu = 4
    MaxSeqNum = 15
    ReplayWindow = 2
    MaxLoss = 1
    MaxDup = 1
    MaxTimeouts = 2
    MaxWrites = 0
    Closers = {}
SPECIFICATION Spec
PROPERTIES
    ServerEventuallyCompletes
    BothCompleteUnlessLost
CHECK_DEADLOCK FALSE
