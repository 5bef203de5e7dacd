SPECIFICATION Spec
CONSTANTS
    e1 = e1
    e2 = e2
    p1 = p1
    p2 = p2
    r1 = r1
    r2 = r2
    i1 = i1
    i2 = i2
    i3 = i3
    f1 = f1
    f2 = f2
    Enterprises = {e1, e2}
    Periods = {p1}
    ReportIds = {r1}
    SubmissionIds = {i1, i2, i3}
    FinalReports = {f1}
    FreshViews = FALSE
SYMMETRY EnterpriseSymmetry
CHECK_DEADLOCK FALSE
INVARIANTS
    OnlyAcceptedReports
