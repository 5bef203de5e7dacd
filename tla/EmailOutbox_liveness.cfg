SPECIFICATION FairSpec
CONSTANTS
    m1 = m1
    m2 = m2
    d1 = d1
    d2 = d2
    p1 = p1
    p2 = p2
    Messages = {m1, m2}
    LocalMessages = {m2}
    Dispatchers = {d1}
    Payloads = {p1, p2}
    Validity <- Mixed
    Lease = 2
    RequestTimeout = 1
    Window = 5
    Margin = 2
    Schedule <- MCSchedule
    RetryAfters = {0, 2}
    MaxAttempts = 2
    SendDelay = 2
    Prompt = TRUE
    MaxTime = 9
    EnqueueBy = 0
    MaxManualRetries = 0
    MaxFaults = 1
CHECK_DEADLOCK FALSE
INVARIANTS
    OneKeyOnePayload
    DeliveredWhileValid
PROPERTIES
    Settles
