SPECIFICATION FairSpec
CONSTANTS
    r1 = r1
    r2 = r2
    Host <- MCHost
    other = other
    None = None
    Conn <- MCConn
    Fd = {f1, f2}
    Caller = {k1, k2}
    Absent = Absent
    Window = 1
INVARIANTS TypeOK SendsToHost NoDescriptorLeak
PROPERTIES Reconnects
