SPECIFICATION FairSpec
CONSTANTS
    report = report
    telemetry = telemetry
    mail = mail
    settings = settings
    b1 = b1
    b2 = b2
    c1 = c1
    Topics = {report, telemetry}
    Shared = {}
    Coalesced = {telemetry}
    Refreshed = {report, telemetry}
    Processes = {b1, b2}
    Clients = {c1}
    BatchSize = 2
    QueueSize = 1
    InboxSize = 2
    MaxRows = 2
    MaxFaults = 1
CHECK_DEADLOCK FALSE
INVARIANTS
    TypeOK
    StaleIsInformed
PROPERTIES
    ViewNeverGoesBack
    Converges
