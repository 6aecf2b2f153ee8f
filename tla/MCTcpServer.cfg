SPECIFICATION FairSpec
CONSTANTS
    l1 = l1
    l2 = l2
    Client <- MCClient
    other = other
    None = None
    Conn <- MCConn
    Fd = {f1, f2}
    Caller = {k1, k2}
    Absent = Absent
    Window = 1
INVARIANTS TypeOK SendsToServedClient NoDescriptorLeak
PROPERTIES LeaverIsReleased
