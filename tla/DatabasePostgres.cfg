CONSTANTS
    Dialect = {"postgresql"}
    Time <- MCTime
    MaxRows = 3
    Recent = 2
    Env = {}
SPECIFICATION Spec
CHECK_DEADLOCK FALSE
INVARIANTS
    ReadyMeansUsable
