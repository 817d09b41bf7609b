CONSTANTS
    l1 = l1
    r1 = r1
    LocalAddrs <- MCLocalAddrs
    RemoteAddrs <- MCRemoteAddrs
    MaxBindingRequests = 1
    DisconnectedTimeout = 1
    FailedTimeout = 1
    KeepaliveInterval = 1
    BindingRequestTimeout = 2
    MaxTime = 5
    MaxCandidates = 3
    MaxRestarts = 1
    MaxInbound = 2
SPECIFICATION Spec
CONSTRAINT WireBound
INVARIANT
    FailedTimeoutHonoured
CHECK_DEADLOCK FALSE
