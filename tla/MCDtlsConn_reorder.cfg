CONSTANTS
    WaitReturns = TRUE
    SpuriousTimeouts = FALSE
    Mtu = 2
    MaxSeqNum = 8
    ReplayWindow = 2
    MaxLoss = 0
    MaxDup = 1
    MaxTimeouts = 0
    MaxWrites = 1
    Closers = {"client"}
SPECIFICATION Spec
INVARIANTS
    AppDataAtMostOnce
    CompletedAfterPeerFinished
CHECK_DEADLOCK FALSE
