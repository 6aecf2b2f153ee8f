SPECIFICATION FairPathSpec
CONSTANTS
    cfgA = cfgA
    cfgB = cfgB
    cfgBig = cfgBig
    cfgHuge = cfgHuge
    None = None
    Payload <- MCPayload
    Message <- MCPayload
    Crc <- MCCrc
    Oversize = {cfgBig, cfgHuge}
    MaxPublish = 3
    MaxFaults = 2
    MaxLosses = 1
    Size <- MCSize
    MaxLen = 5
    Chunk = 3
    eth = eth
    Netif = {eth}
    Nil = Nil
INVARIANTS TypeOK HashComesWithRaw SavedIsDurable UnchangedAfterCompleteSave WearIsBounded
    OnlyWhole CopiesInside
PROPERTIES RetainedIsSaved ImplementsDeviceConfig
CHECK_DEADLOCK FALSE
