CONSTANTS
    Device <- OneDevice
    Packet <- TwoPackets
    MaxSize = 1
    SliceSize = 1
    c1 = c1
    Conn = {c1, c2}
    Upload = {}
    Worker = worker
    DeviceOf <- BothA
    Malformed = {}
    NoConn = NoConn
    NoState = NoState
    Env = {"overlap"}
CHECK_DEADLOCK FALSE
SPECIFICATION Spec
INVARIANTS
    ServingIsRegistered
