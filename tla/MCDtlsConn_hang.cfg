CONSTANTS
    WaitReturns = FALSE
    SpuriousTimeouts = TRUE
    Mtu = 4
    MaxSeqNum = 5
    ReplayWindow = 2
    MaxLoss = 0
    MaxDup = 0
    MaxTimeouts = 1
    MaxWrites = 0
    Closers = {}
SPECIFICATION Spec
INVARIANT HandshakeCallReturns
