SPECIFICATION FairLinkSpec
CONSTANTS
    Base = 16
    Byte <- MCByte
    Header = 13
    Footer = 12
    MaxPayloadSize = 10
    None = None
    Packets <- MCPackets
    Commands <- MCNoCommands
    MaxReconnects = 2
INVARIANTS TypeOK KeepsPosition OverrunOnlyIfShort FirstConnectionDelivers
PROPERTIES DeliversFrames Resynchronises
