SPECIFICATION TaskSpec
CONSTANTS
    l1 = l1
    l2 = l2
    r1 = r1
    None = None
    Local <- MCLocal
    Remote <- MCRemote
    Conn <- MCConn
    Fd = {f1, f2}
    Absent = Absent
    Window = 1
    QueueSize = 1
    MaxMessages <- MCRemoteMore
    Endings = {}
PROPERTIES KeepsReading HandlersFinish
CHECK_DEADLOCK FALSE
