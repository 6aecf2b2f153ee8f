SPECIFICATION FairNetSpec
CONSTANTS
    eth1 = eth1
    eth2 = eth2
    Order <- MCOrder
    MaxEvents = 3
    None = None
    Message = {}
    Size <- MCSize
    MaxLen = 0
    Chunk = 1
    Netif = {eth1, eth2}
    eth = eth1
    Nil = Nil
INVARIANTS TypeOK ConfiguredAfterLinkUp OwnMacUnlessFollowed DefaultRoute
PROPERTIES LinkUpIsHandled ReachesBroker
