SPECIFICATION Spec
CONSTANTS
    cfgA = cfgA
    cfgB = cfgB
    cfgBig = cfgBig
    None = None
    Payload <- MCPayload
    Crc <- MCCrc
    Oversize = {cfgBig}
    MaxPublish = 3
    MaxFaults = 1
INVARIANTS UnchangedMeansSaved
