SPECIFICATION TxSpec
CONSTANTS
    Base = 16
    Byte <- MCByte
    Header = 13
    Footer = 12
    MaxPayloadSize = 10
    None = None
    Packets <- MCNoPackets
    Commands <- MCCommands
    MaxReconnects = 0
INVARIANTS PacketsDelivered
