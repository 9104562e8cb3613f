CONSTANTS
    Device <- TwoDevices
    Packet <- AlsoB
    MaxSize = 1
    SliceSize = 1
    c1 = c1
    Conn = {c1, c2, c3}
    Upload = {}
    Worker = worker
    DeviceOf <- TwoAndOne
    Malformed <- Unreadable
    NoConn = NoConn
    NoState = NoState
    Env = {"overlap", "backlog", "expire", "crash", "dbfail"}
CHECK_DEADLOCK FALSE
SPECIFICATION Spec
INVARIANTS
    CopiesOrdered
    RestoresCurrent
PROPERTIES
    NothingRollsBack
SYMMETRY Alike
