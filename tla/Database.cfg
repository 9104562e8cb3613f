CONSTANTS
    Dialect = {"sqlite", "postgresql"}
    Time <- MCTime
    MaxRows = 3
    Recent = 2
    Env = {"kill", "error", "plain"}
SPECIFICATION Spec
INVARIANTS
    TypeOK
    ServesAfterCleanStart
PROPERTIES
    MigratesForward
