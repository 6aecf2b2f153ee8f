SPECIFICATION Spec
CONSTANTS
    eth1 = eth1
    eth2 = eth2
    Order <- MCOrder
    MaxEvents = 4
    None = None
INVARIANTS OwnMac
