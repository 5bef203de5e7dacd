SPECIFICATION Spec
CONSTANTS
    e1 = e1
    e2 = e2
    r1 = r1
    r2 = r2
    f1 = f1
    f2 = f2
    Enterprises = {e1, e2}
    NoEnterprise = NoEnterprise
    Reports = {r1, r2}
    Flows = {f1, f2}
    MaxSubmissions = 1
    MaxLogins = 2
    MaxFaults = 1
CHECK_DEADLOCK FALSE
INVARIANTS
    ScopedByEnterprise
