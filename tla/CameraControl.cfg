SPECIFICATION FairSpec
CONSTANTS
    k1 = k1
    k2 = k2
    Cameras = {k1, k2}
    Configs = {1, 2}
    None = None
    MaxConcurrent = 1
    Hasty = FALSE
    MaxCommands = 2
    MaxTimeouts = 1
CHECK_DEADLOCK FALSE
INVARIANTS
    TypeOK
PROPERTIES
    AlarmIsTrue
    StartSettles
    ShownIsActual
