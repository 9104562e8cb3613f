CONSTANTS
    stationary = stationary
    moving = moving
    Phone = Phone
    Load = Load
    Null = Null
    Mode <- MCMode
    MaxClicks = 4
SYMMETRY MCSymmetry
SPECIFICATION Spec
CHECK_DEADLOCK FALSE
INVARIANTS TypeOK StraysBounded ShownAndSentAgree ListensWhileStreaming BadgeTruthful
