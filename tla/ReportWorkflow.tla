--------------------------- MODULE ReportWorkflow ---------------------------
(***************************************************************************)
(* The reporting workflow of backend-tanaw (app/features/reporting): an    *)
(* enterprise submits one report per period, staff accept it or return it, *)
(* consolidate accepted reports into a final report, return some of its    *)
(* sources for revision, and finalize or archive it.                       *)
(*                                                                         *)
(* One action is one request, which the backend runs as one transaction    *)
(* with the rows it decides on locked.  A request the backend refuses      *)
(* rolls its transaction back, and one it has already carried out is       *)
(* answered from the recorded operation: both change nothing and are       *)
(* stuttering steps.  Requests come from people looking at pages that may  *)
(* be out of date, so they arrive in any state.                            *)
(***************************************************************************)
EXTENDS Integers, FiniteSets

CONSTANTS
    Enterprises,
    Periods,
    ReportIds,     \* report codes, chosen by the desktop of the enterprise
    SubmissionIds, \* the idempotency keys of submissions
    FinalReports,
    FreshViews     \* TRUE: staff only ask for the status changes that the page
                   \* of a final report offers in its present state

ASSUME FreshViewsAssumption == FreshViews \in BOOLEAN

\* uq_enterprise_report_period: an enterprise has one report per period.
Slots == Enterprises \X Periods
Partial(D, R) == UNION {[S -> R] : S \in SUBSET D}
Nothing == [s \in {} |-> s]

VARIABLES
    operations, \* the requests that report_submission_operations records
    intake,     \* slot -> row of enterprise_report_submissions
    finals,     \* [FinalReports -> row of final_reports, with its sources]
    accepted    \* history: the versions of reports that staff have accepted

vars == <<operations, intake, finals, accepted>>

-----------------------------------------------------------------------------
\* What an enterprise sends.  The figures of a report are represented by the
\* submission id they came with: that is the version of the report.
Requests == [enterprise: Enterprises, id: SubmissionIds, report: ReportIds,
             period: Periods, kind: {"Submitted", "Resubmitted"}]

Slot(r) == <<r.enterprise, r.period>>

Reviews == {"Pending Review", "Ready to Consolidate", "Returned",
            "Consolidated"}
IntakeRow == [report: ReportIds, review: Reviews, version: SubmissionIds]

\* A final report keeps a snapshot of each of its sources; its totals are sums
\* over the same rows, taken in the same statement.
FinalStatuses == {"Draft", "Finalized", "Archived", "Returned for Revision"}
Restorable == FinalStatuses \ {"Archived"}
FinalRow == [status: {"absent"} \cup FinalStatuses,
             archivedFrom: Restorable \cup {"none"},
             sources: Partial(Slots, SubmissionIds)]

SourcesOf(f) == DOMAIN finals[f].sources

\* The status a final report has, or had when it was archived.
Stage(f) == IF finals[f].status = "Archived" THEN finals[f].archivedFrom
                                             ELSE finals[f].status

TypeOK ==
    /\ operations \subseteq Requests
    /\ intake \in Partial(Slots, IntakeRow)
    /\ finals \in [FinalReports -> FinalRow]
    /\ accepted \subseteq Slots \X SubmissionIds

Init ==
    /\ operations = {}
    /\ intake = Nothing
    /\ finals = [f \in FinalReports |->
                   [status |-> "absent", archivedFrom |-> "none",
                    sources |-> Nothing]]
    /\ accepted = {}

-----------------------------------------------------------------------------
(* The enterprise: POST /desktop/report-submissions.                       *)

\* Mutant: a key is only known together with the request it came with.
KnownWithContent(r) == r \in operations

\* claim_report_submission: a submission id is carried out once.
Known(r) == \E o \in operations : o.enterprise = r.enterprise /\ o.id = r.id

\* A report id stays with its period.
Reused(r) == \E s \in DOMAIN intake :
                s[1] = r.enterprise /\ intake[s].report = r.report

\* Mutant: a report that is sent again needs no second review.
TrustedRow(r) == [report |-> r.report, review |-> "Ready to Consolidate",
                  version |-> r.id]

PendingRow(r) == [report |-> r.report, review |-> "Pending Review",
                  version |-> r.id]

Replaceable(row) == row.review = "Returned"

\* ingest_report_submission, between claim_ and complete_report_submission.
Store(r) ==
    /\ ~Known(r)
    /\ operations' = operations \cup {r}
    /\ intake' = [s \in DOMAIN intake \cup {Slot(r)} |->
                    IF s = Slot(r) THEN PendingRow(r) ELSE intake[s]]
    /\ UNCHANGED <<finals, accepted>>

Submit(r) ==
    /\ r.kind = "Submitted"
    /\ Slot(r) \notin DOMAIN intake
    /\ ~Reused(r)
    /\ Store(r)

Resubmit(r) ==
    /\ r.kind = "Resubmitted"
    /\ Slot(r) \in DOMAIN intake
    /\ intake[Slot(r)].report = r.report
    /\ Replaceable(intake[Slot(r)])
    /\ Store(r)

-----------------------------------------------------------------------------
(* Staff: intake review, consolidation and the audit of final reports.     *)

SetReview(S, review) ==
    intake' = [s \in DOMAIN intake |->
                 IF s \in S THEN [intake[s] EXCEPT !.review = review]
                            ELSE intake[s]]

\* update_report_status.
Review(s, decision) ==
    /\ intake[s].review = "Pending Review"
    /\ SetReview({s}, decision)
    /\ accepted' = IF decision = "Ready to Consolidate"
                     THEN accepted \cup {<<s, intake[s].version>>}
                     ELSE accepted
    /\ UNCHANGED <<operations, finals>>

\* validate_final_report_sources.
Consolidable(S) ==
    /\ S # {}
    /\ \A s \in S : intake[s].review = "Ready to Consolidate"
    /\ \A s, t \in S : s[2] = t[2]

\* Mutant: a returned report gives its sources up.
LinkedUnlessReturned(S) ==
    {f \in FinalReports : /\ SourcesOf(f) \cap S # {}
                          /\ finals[f].status # "Returned for Revision"}

\* The final reports that have a source in S.
Linked(S) == {f \in FinalReports : SourcesOf(f) \cap S # {}}

\* Mutant: consolidating again leaves the snapshots of before.
StaleSnapshot(f, S) ==
    IF SourcesOf(f) = S THEN finals[f].sources
                        ELSE [s \in S |-> intake[s].version]
Snapshot(f, S) == [s \in S |-> intake[s].version]

Consolidate(f, S) ==
    /\ finals' = [finals EXCEPT ![f] =
                    [status |-> "Draft", archivedFrom |-> "none",
                     sources |-> Snapshot(f, S)]]
    /\ SetReview(S, "Consolidated")
    /\ UNCHANGED <<operations, accepted>>

\* create_final_report, for sources of no final report ...
CreateFinal(f, S) ==
    /\ Consolidable(S)
    /\ Linked(S) = {}
    /\ finals[f].status = "absent"
    /\ Consolidate(f, S)

\* ... and for exactly the sources of one that was returned.
Reconsolidate(f) ==
    /\ Consolidable(SourcesOf(f))
    /\ Linked(SourcesOf(f)) = {f}
    /\ finals[f].status = "Returned for Revision"
    /\ Consolidate(f, SourcesOf(f))

Returnable(row) == row.status = "Draft"

\* return_final_report_for_revision: the selected sources go back to their
\* enterprises, the others wait for the report to be consolidated again.
ReturnFinal(f, selected) ==
    /\ Returnable(finals[f])
    /\ selected # {}
    /\ intake' = [s \in DOMAIN intake |->
                    IF s \in selected
                      THEN [intake[s] EXCEPT !.review = "Returned"]
                    ELSE IF s \in SourcesOf(f)
                      THEN [intake[s] EXCEPT !.review = "Ready to Consolidate"]
                    ELSE intake[s]]
    /\ finals' = [finals EXCEPT ![f].status = "Returned for Revision",
                                ![f].archivedFrom = "none"]
    /\ UNCHANGED <<operations, accepted>>

\* restore_target_status.
RestoreTarget(archivedFrom) ==
    IF archivedFrom \in Restorable THEN archivedFrom ELSE "Finalized"

\* Mutant: every report comes back from the archive as a draft.
RestoredAsDraft(row, requested) ==
    IF requested = "Archived"
      THEN [row EXCEPT !.status = "Archived", !.archivedFrom = row.status]
      ELSE [row EXCEPT !.status = IF row.status = "Archived" THEN "Draft"
                                                             ELSE requested,
                       !.archivedFrom = "none"]

\* Mutant: the status to restore is read after the new one has been assigned.
ReadAfterAssigned(row, requested) ==
    [row EXCEPT !.status = requested,
                !.archivedFrom = IF requested = "Archived" THEN requested
                                                           ELSE "none"]

\* resolve_final_report_status_transition.
StatusChanged(row, requested) ==
    IF requested = "Archived"
      THEN [row EXCEPT !.status = "Archived",
                       !.archivedFrom = IF row.status = "Archived"
                                          THEN RestoreTarget(row.archivedFrom)
                                          ELSE row.status]
      ELSE [row EXCEPT !.status = IF row.status = "Archived"
                                     /\ requested = "Draft"
                                    THEN RestoreTarget(row.archivedFrom)
                                    ELSE requested,
                       !.archivedFrom = "none"]

\* The buttons of FinalReportViewer.tsx and the status each of them asks for.
Offered(row) ==
    CASE row.status = "Archived" -> {RestoreTarget(row.archivedFrom)}
      [] row.status = "Draft"    -> {"Finalized", "Archived"}
      [] OTHER                   -> {"Archived"}

\* update_final_report_status.
SetStatus(f, requested) ==
    /\ finals[f].status # "absent"
    /\ requested = "Returned for Revision" =>
          /\ finals[f].status = "Archived"
          /\ finals[f].archivedFrom = "Returned for Revision"
    /\ FreshViews => requested \in Offered(finals[f])
    /\ finals' = [finals EXCEPT ![f] = StatusChanged(finals[f], requested)]
    /\ UNCHANGED <<operations, intake, accepted>>

-----------------------------------------------------------------------------
Next ==
    \/ \E r \in Requests : Submit(r) \/ Resubmit(r)
    \/ \E s \in DOMAIN intake,
          decision \in {"Ready to Consolidate", "Returned"} :
            Review(s, decision)
    \/ \E f \in FinalReports :
          \/ \E S \in SUBSET DOMAIN intake : CreateFinal(f, S)
          \/ Reconsolidate(f)
          \/ \E selected \in SUBSET SourcesOf(f) : ReturnFinal(f, selected)
          \/ \E requested \in FinalStatuses : SetStatus(f, requested)

Spec == Init /\ [][Next]_vars

-----------------------------------------------------------------------------
(* Whatever is requested, in whatever state.                               *)

\* final_reports.py:154-160, 219-223 with the review guards of policies.py: the
\* figures of a consolidated report are exactly those its final report shows,
\* through any number of returns and resubmissions.
SnapshotIsCurrent ==
    \A s \in DOMAIN intake :
        intake[s].review = "Consolidated" =>
            \E f \in FinalReports :
                /\ s \in SourcesOf(f)
                /\ finals[f].sources[s] = intake[s].version

\* idempotency.py: a request under a submission id that was carried out before,
\* repeated or altered, never submits a report again.
CarriedOutOnce ==
    [][\A s \in DOMAIN intake' :
          /\ intake'[s].review = "Pending Review"
          /\ s \in DOMAIN intake => intake[s] # intake'[s]
          => \A o \in operations :
                <<o.enterprise, o.id>> # <<s[1], intake'[s].version>>]_vars

-----------------------------------------------------------------------------
(* With staff who see the present state of final reports.                  *)

\* backend-tanaw/README.md:375, "The backend consolidates accepted reports into
\* a final city report": every version a final report shows was accepted.
OnlyAcceptedReports ==
    \A f \in FinalReports : \A s \in SourcesOf(f) :
        <<s, finals[f].sources[s]>> \in accepted

\* The sources of a final report are consolidated, all of them or, while it is
\* returned for revision (policies.py:97-110), none: a report that is being
\* corrected is never part of a draft, finalized or archived final report.
SourcesMatchStatus ==
    \A f \in FinalReports : \A s \in SourcesOf(f) :
        intake[s].review = "Consolidated" <=>
            Stage(f) # "Returned for Revision"

\* cloud-sync.ts:217-233: the desktop destroys the raw events of a report once
\* its final report is finalized, be it archived: from then on it stays so.
FinalizedForGood ==
    [][\A f \in FinalReports :
          Stage(f) = "Finalized" => Stage(f)' = "Finalized"]_vars

-----------------------------------------------------------------------------
(* What the enterprises rely on: ReportIntake.                             *)

\* isLockedFinalReport: a report is final when such a report has it.
Locked(s) == \E f \in FinalReports : s \in SourcesOf(f) /\ Stage(f) = "Finalized"

Told == [s \in Slots |->
           IF s \notin DOMAIN intake THEN "none"
           ELSE IF intake[s].review = "Returned" THEN "returned"
           ELSE IF Locked(s) THEN "final" ELSE "pending"]

CarriedOut == {<<o.enterprise, o.id>> : o \in operations}

Intake == INSTANCE ReportIntake WITH
    Submissions <- SubmissionIds, status <- Told, carried <- CarriedOut

\* cloud-sync.ts:217-233 reads what it may destroy from the final reports: with
\* staff who see the present state, the requests implement the intake that the
\* desktop takes for granted.
ImplementsIntake == Intake!IntakeSpec
=============================================================================
