CONSTANTS
    Device <- MCDevice
    Packet <- MCPacket
    LivePacket <- MCLivePacket
    Producer = {p1, p2}
    MaxSize = 2
    SliceSize = 2
SPECIFICATION FairSpec
INVARIANTS
    TypeOK
    Accounted
    EachOnce
PROPERTIES
    LiveFirst
    BacklogInOrder
    YieldsEverySlice
    BacklogDrains
