CONSTANTS
    dev = dev
    chunk = chunk
    live = live
    later = later
    c1 = c1
    c2 = c2
    None = None
    Device = {dev}
    Packet <- MCPacket
    Job = {chunk, live, later}
    Chunk <- MCChunk
    MaxDeliveries <- MCMaxDeliveries
    Conn = {c1, c2}
    DeviceOf <- MCDeviceOf
    Mode = {stationary}
    Page = 3
SYMMETRY MCSymmetry
SPECIFICATION Spec
INVARIANTS TypeOK FusedOnce AcceptedStays PushReachesNewest HistoryChronological
PROPERTY StateMovesForward
