SPECIFICATION LinkSpec
CONSTANTS
    Base = 16
    Byte <- MCByte
    Header = 13
    Footer = 12
    MaxPayloadSize = 10
    None = None
    Packets <- MCShortPackets
    Commands <- MCNoCommands
    MaxReconnects = 0
INVARIANTS PayloadInBounds
