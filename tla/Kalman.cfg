CONSTANTS
    Packet <- MCPacket
    Window = 2
    MinWindow = 2
    MaxSamples = 3
    Now = 900
    None = None
SPECIFICATION Spec
INVARIANTS TypeOK RestIsLocked StepsSpaced NoTimeCountedTwice SettlesAtRest ReloadsAreInvisible
