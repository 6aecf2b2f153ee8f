SPECIFICATION Spec
CONSTANTS
    l1 = l1
    l2 = l2
    r1 = r1
    None = None
    Local <- MCTwoLocal
    Remote <- MCRemote
    Conn <- MCTwoConn
    Fd = {f1, f2}
    Absent = Absent
    Window = 1
    QueueSize = 2
    MaxMessages <- MCFew
    Endings = {"rst"}
SYMMETRY MCSymmetry
INVARIANTS TypeOK CrossesOver InOrder ServerFirst
CHECK_DEADLOCK FALSE
