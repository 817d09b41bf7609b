CONSTANTS
    WaitReturns = TRUE
    SpuriousTimeouts = FALSE
    Mtu = 4
    MaxSeqNum = 15
    ReplayWindow = 2
    MaxLoss = 1
    MaxDup = 0
    MaxTimeouts = 2
    MaxWrites = 0
    Closers = {}
SPECIFICATION Spec
PROPERTIES
    ClientEventuallyCompletes
CHECK_DEADLOCK FALSE
