CONSTANTS
    l1 = l1
    r1 = r1
    LocalAddrs <- MCLocalAddrs
    RemoteAddrs <- MCRemoteAddrs
    MaxBindingRequests = 1
    DisconnectedTimeout = 1
    FailedTimeout = 1
    KeepaliveInterval = 1
    BindingRequestTimeout = 2
    MaxTime = 3
    MaxCandidates = 2
    MaxRestarts = 1
    MaxInbound = 1
SPECIFICATION Spec
CONSTRAINT WireBound
PROPERTY ClosedIsFinal
CHECK_DEADLOCK FALSE
