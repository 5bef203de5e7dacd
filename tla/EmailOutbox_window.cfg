SPECIFICATION Spec
CONSTANTS
    m1 = m1
    m2 = m2
    d1 = d1
    d2 = d2
    p1 = p1
    p2 = p2
    Messages = {m1}
    LocalMessages = {}
    Dispatchers = {d1, d2}
    Payloads = {p1}
    Validity <- Undated
    Lease = 1
    RequestTimeout = 1
    Window = 3
    Margin = 1
    Schedule <- MCSchedule
    RetryAfters = {0}
    MaxAttempts = 2
    SendDelay = 1
    Prompt = FALSE
    MaxTime = 4
    EnqueueBy = 0
    MaxManualRetries = 1
    MaxFaults = 1
SYMMETRY DispatcherSymmetry
CHECK_DEADLOCK FALSE
INVARIANTS
    TypeOK
    AtMostOneDelivery
    AttemptsInOrder
    
PROPERTIES
    ImplementsDelivery
    
    SettledIsFinal
