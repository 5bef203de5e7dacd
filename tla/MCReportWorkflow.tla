-------------------------- MODULE MCReportWorkflow --------------------------
(* ReportWorkflow on small instances.                                      *)
EXTENDS ReportWorkflow, TLC

CONSTANTS e1, e2, p1, p2, r1, r2, i1, i2, i3, f1, f2

EnterpriseSymmetry ==
    Permutations(Enterprises) \cup Permutations(FinalReports)
        \cup Permutations(SubmissionIds) \cup Permutations(ReportIds)
=============================================================================
