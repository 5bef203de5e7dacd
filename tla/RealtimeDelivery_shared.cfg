SPECIFICATION Spec
CONSTANTS
    report = report
    telemetry = telemetry
    mail = mail
    settings = settings
    b1 = b1
    b2 = b2
    c1 = c1
    Topics = {mail}
    Shared = {mail}
    Coalesced = {}
    Refreshed = {mail}
    Processes = {b1}
    Clients = {c1}
    BatchSize = 2
    QueueSize = 1
    InboxSize = 2
    MaxRows = 2
    MaxFaults = 0
CHECK_DEADLOCK FALSE
INVARIANTS
    SettledIsCurrent
