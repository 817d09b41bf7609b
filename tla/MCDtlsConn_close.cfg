CONSTANTS
    WaitReturns = TRUE
    SpuriousTimeouts = FALSE
    Mtu = 4
    MaxSeqNum = 15
    ReplayWindow = 2
    MaxLoss = 0
    MaxDup = 0
    MaxTimeouts = 1
    MaxWrites = 0
    Closers = {"client"}
SPECIFICATION Spec
INVARIANT CloseNotifyOnce
