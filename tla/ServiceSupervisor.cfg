SPECIFICATION FairSpec
CONSTANTS
    c1 = c1
    c2 = c2
    x1 = x1
    s1 = s1
    s2 = s2
    Processes = {c1, c2, x1}
    NoProcess = NoProcess
    Children = {c1, c2}
    Sockets = {s1, s2}
    NoSocket = NoSocket
    MaxRestarts = 1
    MaxCrashes = 1
CHECK_DEADLOCK FALSE
INVARIANTS
    TypeOK
    OneSocket
    
    ForeignUntouched
    
PROPERTIES
    QuitCompletes
    ConnectsOrReports
    StreamRecovers
