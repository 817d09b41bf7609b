CONSTANTS
    MaxMade = 4
    MaxCalls = 3
    SrtpProfiles = {"Aes128CmHmacSha1_80", "AeadAes128Gcm", "Aes128CmHmacSha1_32"}
SPECIFICATION Spec
INVARIANTS
    TypeOK
    WireInProductionOrder
    OutboundInProductionOrder
    KeyedOnCompletion
CHECK_DEADLOCK FALSE
