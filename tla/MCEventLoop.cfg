SPECIFICATION FairSpec
CONSTANTS
    server = server
    client = client
    d1 = d1
    d2 = d2
    Empty = Empty
    Nil = Nil
    Producer <- MCProducer
    Data <- MCData
    Addr = {a1, a2, a3, a4, a5}
    QueueSize = 2
INVARIANTS TypeOK Ownership
PROPERTIES ChannelSafety CallReturns ChannelLiveness
