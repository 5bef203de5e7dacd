------------------------ MODULE ReportWorkflow_proofs ------------------------
(***************************************************************************)
(* Proofs about ReportWorkflow, for any enterprises, periods, submissions  *)
(* and final reports.                                                      *)
(***************************************************************************)
EXTENDS ReportWorkflow, TLAPS

-----------------------------------------------------------------------------
\* A partial function has a domain and takes its values in the range.
LEMMA PartialFunction ==
    ASSUME NEW D, NEW R, NEW f \in Partial(D, R)
    PROVE  DOMAIN f \subseteq D /\ f \in [DOMAIN f -> R]
  BY DEF Partial

\* Whoever maps a part of D into R is a partial function.
LEMMA IsPartial ==
    ASSUME NEW D, NEW R, NEW S \in SUBSET D, NEW f \in [S -> R]
    PROVE  f \in Partial(D, R)
  BY DEF Partial

\* The slot of a request is a slot.
LEMMA SlotType == ASSUME NEW r \in Requests PROVE Slot(r) \in Slots
  BY DEF Requests, Slot, Slots

\* What TypeOK says of the rows, without the partial functions.
LEMMA Rows ==
    ASSUME TypeOK
    PROVE  /\ DOMAIN intake \subseteq Slots
           /\ \A s \in DOMAIN intake : intake[s] \in IntakeRow
           /\ \A f \in FinalReports :
                /\ finals[f] \in FinalRow
                /\ SourcesOf(f) \subseteq Slots
                /\ \A s \in SourcesOf(f) :
                     finals[f].sources[s] \in SubmissionIds
  <1>1. DOMAIN intake \subseteq Slots /\ intake \in [DOMAIN intake -> IntakeRow]
    BY PartialFunction DEF TypeOK
  <1>2. ASSUME NEW f \in FinalReports
        PROVE  /\ finals[f] \in FinalRow
               /\ finals[f].sources \in Partial(Slots, SubmissionIds)
    BY DEF TypeOK, FinalRow
  <1>3. ASSUME NEW f \in FinalReports
        PROVE  /\ DOMAIN finals[f].sources \subseteq Slots
               /\ finals[f].sources \in
                    [DOMAIN finals[f].sources -> SubmissionIds]
    BY <1>2, PartialFunction
  <1>. QED
    BY <1>1, <1>2, <1>3 DEF SourcesOf

\* Reviewing some rows of the intake keeps its type.
LEMMA SetReviewType ==
    ASSUME TypeOK, NEW S, NEW review \in Reviews, SetReview(S, review)
    PROVE  intake' \in Partial(Slots, IntakeRow)
  <1>1. \A s \in DOMAIN intake :
          [intake[s] EXCEPT !.review = review] \in IntakeRow
    BY Rows DEF IntakeRow
  <1>2. intake' \in [DOMAIN intake -> IntakeRow]
    BY <1>1, Rows DEF SetReview
  <1>. QED
    BY <1>2, Rows, IsPartial

\* A changed status keeps a final report, and its sources.
LEMMA StatusChangedType ==
    ASSUME NEW row \in FinalRow, row.status # "absent",
           NEW requested \in FinalStatuses
    PROVE  /\ StatusChanged(row, requested) \in FinalRow
           /\ StatusChanged(row, requested).sources = row.sources
           /\ StatusChanged(row, requested).status # "absent"
  <1>1. RestoreTarget(row.archivedFrom) \in Restorable
    BY DEF RestoreTarget, Restorable, FinalStatuses
  <1>2. row.status # "Archived" => row.status \in Restorable
    BY DEF FinalRow, Restorable
  <1>3. /\ \A n \in FinalStatuses, a \in Restorable \cup {"none"} :
             /\ [row EXCEPT !.status = n, !.archivedFrom = a] \in FinalRow
             /\ [row EXCEPT !.status = n, !.archivedFrom = a].sources
                  = row.sources
             /\ [row EXCEPT !.status = n, !.archivedFrom = a].status = n
        /\ "Archived" \in FinalStatuses /\ "absent" \notin FinalStatuses
        /\ Restorable \subseteq FinalStatuses
    <2>1. \A n \in FinalStatuses, a \in Restorable \cup {"none"} :
            [row EXCEPT !.status = n, !.archivedFrom = a] \in FinalRow
      BY DEF FinalRow
    <2>2. \A n \in FinalStatuses, a \in Restorable \cup {"none"} :
            /\ [row EXCEPT !.status = n, !.archivedFrom = a].sources
                 = row.sources
            /\ [row EXCEPT !.status = n, !.archivedFrom = a].status = n
      BY DEF FinalRow
    <2>3. /\ "Archived" \in FinalStatuses /\ "absent" \notin FinalStatuses
          /\ Restorable \subseteq FinalStatuses
      BY DEF FinalStatuses, Restorable
    <2>. QED
      BY <2>1, <2>2, <2>3
  <1>4. \E n \in FinalStatuses, a \in Restorable \cup {"none"} :
          StatusChanged(row, requested)
            = [row EXCEPT !.status = n, !.archivedFrom = a]
    <2>1. CASE requested = "Archived" /\ row.status = "Archived"
      BY <1>1, <1>3, <2>1 DEF StatusChanged
    <2>2. CASE requested = "Archived" /\ row.status # "Archived"
      BY <1>2, <1>3, <2>2 DEF StatusChanged
    <2>3. CASE requested = "Draft" /\ row.status = "Archived"
      BY <1>1, <1>3, <2>3 DEF StatusChanged
    <2>4. CASE requested # "Archived"
                 /\ ~(requested = "Draft" /\ row.status = "Archived")
      BY <2>4 DEF StatusChanged
    <2>. QED
      BY <2>1, <2>2, <2>3, <2>4
  <1>5. PICK n \in FinalStatuses, a \in Restorable \cup {"none"} :
          StatusChanged(row, requested)
            = [row EXCEPT !.status = n, !.archivedFrom = a]
    BY <1>4
  <1>6. /\ [row EXCEPT !.status = n, !.archivedFrom = a] \in FinalRow
        /\ [row EXCEPT !.status = n, !.archivedFrom = a].sources = row.sources
        /\ [row EXCEPT !.status = n, !.archivedFrom = a].status = n
    BY <1>3
  <1>7. n # "absent"
    BY <1>3
  <1>. QED
    BY <1>5, <1>6, <1>7

\* Consolidating keeps the types, for sources that are in the intake.
LEMMA ConsolidateType ==
    ASSUME TypeOK, NEW f \in FinalReports, NEW S \in SUBSET DOMAIN intake,
           Consolidate(f, S)
    PROVE  TypeOK'
  <1>1. intake' \in Partial(Slots, IntakeRow)
    BY SetReviewType DEF Consolidate, Reviews
  <1>2. Snapshot(f, S) \in [S -> SubmissionIds]
    BY Rows DEF Snapshot, IntakeRow
  <1>3. Snapshot(f, S) \in Partial(Slots, SubmissionIds)
    BY <1>2, Rows, IsPartial
  <1>4. [status |-> "Draft", archivedFrom |-> "none",
         sources |-> Snapshot(f, S)] \in FinalRow
    BY <1>3 DEF FinalRow, FinalStatuses
  <1>5. finals' \in [FinalReports -> FinalRow]
    BY <1>4 DEF Consolidate, TypeOK
  <1>. QED
    BY <1>1, <1>5 DEF TypeOK, Consolidate

\* The sources of a final report are reports of the intake.  The backend has
\* this as a foreign key; here it follows from the actions.
SourcesExist == \A f \in FinalReports : SourcesOf(f) \subseteq DOMAIN intake

-----------------------------------------------------------------------------
\* The initial state is typed and has no sources.
LEMMA InitTyped == Init => TypeOK /\ SourcesExist
  <1>1. Nothing \in Partial(Slots, IntakeRow)
          /\ Nothing \in Partial(Slots, SubmissionIds)
    <2>1. {} \in SUBSET Slots /\ Nothing \in [{} -> IntakeRow]
            /\ Nothing \in [{} -> SubmissionIds]
      BY DEF Nothing
    <2>. QED
      BY <2>1, IsPartial
  <1>2. DOMAIN Nothing = {}
    BY DEF Nothing
  <1>. SUFFICES ASSUME Init PROVE TypeOK /\ SourcesExist
    OBVIOUS
  <1>3. \A f \in FinalReports : finals[f] \in FinalRow /\ SourcesOf(f) = {}
    BY <1>1, <1>2 DEF Init, FinalRow, SourcesOf
  <1>4. finals \in [FinalReports -> FinalRow]
    BY <1>3 DEF Init
  <1>5. operations \subseteq Requests /\ accepted \subseteq Slots \X SubmissionIds
          /\ intake \in Partial(Slots, IntakeRow)
    BY <1>1 DEF Init
  <1>. QED
    BY <1>3, <1>4, <1>5 DEF TypeOK, SourcesExist

\* Every step keeps the types, and no report leaves the intake.
LEMMA NextTyped == TypeOK /\ SourcesExist /\ [Next]_vars => TypeOK' /\ SourcesExist'
  <1>. SUFFICES ASSUME TypeOK, SourcesExist, [Next]_vars
                PROVE  TypeOK' /\ SourcesExist'
    OBVIOUS
  <1>1. ASSUME NEW r \in Requests, Submit(r) \/ Resubmit(r)
        PROVE  TypeOK' /\ SourcesExist'
    <2>1. Store(r)
      BY <1>1 DEF Submit, Resubmit
    <2>2. PendingRow(r) \in IntakeRow
      BY DEF PendingRow, IntakeRow, Requests, Reviews
    <2>3. intake' \in [DOMAIN intake \cup {Slot(r)} -> IntakeRow]
      BY <2>1, <2>2, Rows DEF Store
    <2>4. intake' \in Partial(Slots, IntakeRow)
      BY <2>3, SlotType, Rows, IsPartial
    <2>5. TypeOK'
      BY <2>1, <2>4 DEF Store, TypeOK
    <2>. QED
      BY <2>1, <2>3, <2>5 DEF Store, SourcesExist, SourcesOf
  <1>2. ASSUME NEW s \in DOMAIN intake,
               NEW decision \in {"Ready to Consolidate", "Returned"},
               Review(s, decision)
        PROVE  TypeOK' /\ SourcesExist'
    <2>1. intake' \in Partial(Slots, IntakeRow) /\ DOMAIN intake' = DOMAIN intake
      BY <1>2, SetReviewType DEF Review, SetReview, Reviews
    <2>2. <<s, intake[s].version>> \in Slots \X SubmissionIds
      BY Rows DEF IntakeRow
    <2>3. TypeOK'
      BY <1>2, <2>1, <2>2 DEF Review, TypeOK
    <2>. QED
      BY <1>2, <2>1, <2>3 DEF Review, SourcesExist, SourcesOf
  <1>3. ASSUME NEW f \in FinalReports, NEW S \in SUBSET DOMAIN intake,
               Consolidate(f, S)
        PROVE  TypeOK' /\ SourcesExist'
    <2>1. DOMAIN Snapshot(f, S) = S /\ DOMAIN intake' = DOMAIN intake
      BY <1>3 DEF Snapshot, Consolidate, SetReview
    <2>2. \A g \in FinalReports :
            SourcesOf(g)' = IF g = f THEN S ELSE SourcesOf(g)
      BY <1>3, <2>1 DEF Consolidate, SourcesOf, TypeOK
    <2>. QED
      BY <1>3, <2>1, <2>2, ConsolidateType DEF SourcesExist
  <1>4. ASSUME NEW f \in FinalReports, NEW selected \in SUBSET SourcesOf(f),
               ReturnFinal(f, selected)
        PROVE  TypeOK' /\ SourcesExist'
    <2>1. \A s \in DOMAIN intake, review \in Reviews :
            [intake[s] EXCEPT !.review = review] \in IntakeRow
      BY Rows DEF IntakeRow
    <2>2. {"Returned", "Ready to Consolidate"} \subseteq Reviews
      BY DEF Reviews
    <2>3. intake' \in [DOMAIN intake -> IntakeRow]
      BY <1>4, <2>1, <2>2, Rows DEF ReturnFinal
    <2>4. intake' \in Partial(Slots, IntakeRow)
      BY <2>3, Rows, IsPartial
    <2>5. /\ [finals[f] EXCEPT !.status = "Returned for Revision",
                               !.archivedFrom = "none"] \in FinalRow
          /\ [finals[f] EXCEPT !.status = "Returned for Revision",
                               !.archivedFrom = "none"].sources
               = finals[f].sources
      BY Rows DEF FinalRow, FinalStatuses
    <2>6. finals' = [finals EXCEPT ![f] =
                       [finals[f] EXCEPT !.status = "Returned for Revision",
                                         !.archivedFrom = "none"]]
      BY <1>4 DEF ReturnFinal, TypeOK
    <2>7. /\ finals' \in [FinalReports -> FinalRow]
          /\ \A g \in FinalReports : finals'[g].sources = finals[g].sources
      BY <2>5, <2>6 DEF TypeOK
    <2>8. TypeOK'
      BY <1>4, <2>4, <2>7 DEF ReturnFinal, TypeOK
    <2>. QED
      BY <2>3, <2>7, <2>8 DEF SourcesExist, SourcesOf
  <1>5. ASSUME NEW f \in FinalReports, NEW requested \in FinalStatuses,
               SetStatus(f, requested)
        PROVE  TypeOK' /\ SourcesExist'
    <2>1. finals[f] \in FinalRow /\ finals[f].status # "absent"
      BY <1>5, Rows DEF SetStatus
    <2>2. /\ StatusChanged(finals[f], requested) \in FinalRow
          /\ StatusChanged(finals[f], requested).sources = finals[f].sources
      BY <2>1, StatusChangedType
    <2>3. /\ finals' \in [FinalReports -> FinalRow]
          /\ \A g \in FinalReports : finals'[g].sources = finals[g].sources
      BY <1>5, <2>2 DEF SetStatus, TypeOK
    <2>. QED
      BY <1>5, <2>3 DEF SetStatus, TypeOK, SourcesExist, SourcesOf
  <1>6. CASE UNCHANGED vars
    BY <1>6 DEF vars, TypeOK, SourcesExist, SourcesOf
  <1>7. ASSUME NEW f \in FinalReports, NEW S \in SUBSET DOMAIN intake,
               CreateFinal(f, S)
        PROVE  TypeOK' /\ SourcesExist'
    BY <1>3, <1>7 DEF CreateFinal
  <1>8. ASSUME NEW f \in FinalReports, Reconsolidate(f)
        PROVE  TypeOK' /\ SourcesExist'
    BY <1>3, <1>8 DEF Reconsolidate, SourcesExist
  <1>. QED
    BY <1>1, <1>2, <1>4, <1>5, <1>6, <1>7, <1>8 DEF Next

\* Every reachable state is typed.
THEOREM TypeCorrect == Spec => []TypeOK
  <1>1. Init => TypeOK /\ SourcesExist
    BY InitTyped
  <1>2. TypeOK /\ SourcesExist /\ [Next]_vars => TypeOK' /\ SourcesExist'
    BY NextTyped
  <1>. QED
    BY <1>1, <1>2, PTL DEF Spec

-----------------------------------------------------------------------------
(* What each request does to the rows, without the functions and records.  *)

\* A submission leaves one row pending, which was not there or was returned.
LEMMA StoreEffect ==
    ASSUME TypeOK, NEW r \in Requests, Submit(r) \/ Resubmit(r)
    PROVE  /\ finals' = finals /\ accepted' = accepted
           /\ DOMAIN intake' = DOMAIN intake \cup {Slot(r)}
           /\ intake'[Slot(r)].review = "Pending Review"
           /\ \A s \in DOMAIN intake \ {Slot(r)} : intake'[s] = intake[s]
           /\ Slot(r) \in DOMAIN intake => intake[Slot(r)].review = "Returned"
  <1>1. PendingRow(r).review = "Pending Review"
    BY DEF PendingRow
  <1>2. Store(r)
    BY DEF Submit, Resubmit
  <1>3. Slot(r) \in DOMAIN intake => intake[Slot(r)].review = "Returned"
    BY DEF Submit, Resubmit, Replaceable
  <1>. QED
    BY <1>1, <1>2, <1>3 DEF Store

\* A review decides on one pending row, and vouches for it if it accepts it.
LEMMA ReviewEffect ==
    ASSUME TypeOK, NEW s \in DOMAIN intake,
           NEW decision \in {"Ready to Consolidate", "Returned"},
           Review(s, decision)
    PROVE  /\ finals' = finals /\ DOMAIN intake' = DOMAIN intake
           /\ intake[s].review = "Pending Review"
           /\ intake'[s].review = decision
           /\ \A t \in DOMAIN intake : intake'[t].version = intake[t].version
           /\ \A t \in DOMAIN intake \ {s} : intake'[t] = intake[t]
           /\ accepted \subseteq accepted'
           /\ decision = "Ready to Consolidate" =>
                <<s, intake[s].version>> \in accepted'
  <1>1. /\ [intake[s] EXCEPT !.review = decision].version = intake[s].version
        /\ [intake[s] EXCEPT !.review = decision].review = decision
    BY Rows DEF IntakeRow
  <1>. QED
    BY <1>1 DEF Review, SetReview

\* Consolidation takes the versions of the rows it consolidates.
LEMMA ConsolidateEffect ==
    ASSUME TypeOK, NEW f \in FinalReports, NEW S \in SUBSET DOMAIN intake,
           Consolidate(f, S)
    PROVE  /\ accepted' = accepted /\ DOMAIN intake' = DOMAIN intake
           /\ \A s \in S : /\ intake'[s].review = "Consolidated"
                           /\ finals'[f].sources[s] = intake[s].version
           /\ \A s \in DOMAIN intake : intake'[s].version = intake[s].version
           /\ \A s \in DOMAIN intake \ S : intake'[s] = intake[s]
           /\ SourcesOf(f)' = S
           /\ finals'[f].status = "Draft"
           /\ \A g \in FinalReports \ {f} : finals'[g] = finals[g]
  <1>1. \A s \in DOMAIN intake :
          /\ [intake[s] EXCEPT !.review = "Consolidated"].version
               = intake[s].version
          /\ [intake[s] EXCEPT !.review = "Consolidated"].review
               = "Consolidated"
    BY Rows DEF IntakeRow
  <1>2. finals'[f] = [status |-> "Draft", archivedFrom |-> "none",
                      sources |-> Snapshot(f, S)]
    BY DEF Consolidate, TypeOK
  <1>3. \A g \in FinalReports \ {f} : finals'[g] = finals[g]
    BY DEF Consolidate, TypeOK
  <1>. QED
    BY <1>1, <1>2, <1>3 DEF Consolidate, SetReview, Snapshot, SourcesOf

\* A return takes all the sources of a draft back from consolidation.
LEMMA ReturnEffect ==
    ASSUME TypeOK, SourcesExist, NEW f \in FinalReports,
           NEW selected \in SUBSET SourcesOf(f), ReturnFinal(f, selected)
    PROVE  /\ accepted' = accepted /\ DOMAIN intake' = DOMAIN intake
           /\ \A s \in DOMAIN intake : intake'[s].version = intake[s].version
           /\ \A s \in SourcesOf(f) :
                intake'[s].review \in {"Returned", "Ready to Consolidate"}
           /\ \A s \in DOMAIN intake \ SourcesOf(f) : intake'[s] = intake[s]
           /\ finals[f].status = "Draft"
           /\ finals'[f].status = "Returned for Revision"
           /\ finals'[f].sources = finals[f].sources
           /\ \A g \in FinalReports \ {f} : finals'[g] = finals[g]
  <1>1. \A s \in DOMAIN intake, review \in Reviews :
          /\ [intake[s] EXCEPT !.review = review].version = intake[s].version
          /\ [intake[s] EXCEPT !.review = review].review = review
    BY Rows DEF IntakeRow
  <1>2. {"Returned", "Ready to Consolidate"} \subseteq Reviews
    BY DEF Reviews
  <1>3. finals' = [finals EXCEPT ![f] =
                     [finals[f] EXCEPT !.status = "Returned for Revision",
                                       !.archivedFrom = "none"]]
    BY DEF ReturnFinal, TypeOK
  <1>4. LET row == [finals[f] EXCEPT !.status = "Returned for Revision",
                                     !.archivedFrom = "none"]
        IN  /\ row.status = "Returned for Revision"
            /\ row.sources = finals[f].sources
    <2>1. finals[f] \in FinalRow
      BY Rows
    <2>. QED
      BY <2>1 DEF FinalRow
  <1>5. /\ finals'[f].status = "Returned for Revision"
        /\ finals'[f].sources = finals[f].sources
        /\ \A g \in FinalReports \ {f} : finals'[g] = finals[g]
    BY <1>3, <1>4 DEF TypeOK
  <1>6. /\ DOMAIN intake' = DOMAIN intake
        /\ \A s \in DOMAIN intake : intake'[s].version = intake[s].version
    BY <1>1, <1>2 DEF ReturnFinal
  <1>7. \A s \in SourcesOf(f) :
          intake'[s].review \in {"Returned", "Ready to Consolidate"}
    BY <1>1, <1>2 DEF ReturnFinal, SourcesExist
  <1>8. \A s \in DOMAIN intake \ SourcesOf(f) : intake'[s] = intake[s]
    BY DEF ReturnFinal
  <1>. QED
    BY <1>5, <1>6, <1>7, <1>8 DEF ReturnFinal, Returnable

\* A change of status leaves everything else alone.
LEMMA StatusEffect ==
    ASSUME TypeOK, NEW f \in FinalReports, NEW requested \in FinalStatuses,
           SetStatus(f, requested)
    PROVE  /\ accepted' = accepted /\ intake' = intake
           /\ finals[f] \in FinalRow /\ finals[f].status # "absent"
           /\ finals'[f] = StatusChanged(finals[f], requested)
           /\ finals'[f].status # "absent"
           /\ \A g \in FinalReports : finals'[g].sources = finals[g].sources
           /\ \A g \in FinalReports \ {f} : finals'[g] = finals[g]
  <1>1. finals[f] \in FinalRow /\ finals[f].status # "absent"
    BY Rows DEF SetStatus
  <1>2. /\ StatusChanged(finals[f], requested).sources = finals[f].sources
        /\ StatusChanged(finals[f], requested).status # "absent"
    BY <1>1, StatusChangedType
  <1>. QED
    BY <1>1, <1>2 DEF SetStatus, TypeOK

-----------------------------------------------------------------------------
(* The figures of a consolidated report are those its final report shows.  *)

\* A final report that does not exist has no sources.
AbsentIsEmpty ==
    \A f \in FinalReports : finals[f].status = "absent" => SourcesOf(f) = {}

\* A report that is consolidated anew replaces its row, which has no sources
\* if it was absent and the same ones otherwise: no other snapshot is lost.
CurrentInv == /\ TypeOK /\ SourcesExist
              /\ AbsentIsEmpty
              /\ SnapshotIsCurrent

\* Consolidation keeps the invariant.
LEMMA ConsolidateCurrent ==
    ASSUME CurrentInv, NEW f \in FinalReports, NEW S \in SUBSET DOMAIN intake,
           SourcesOf(f) \subseteq S, Consolidate(f, S)
    PROVE  AbsentIsEmpty' /\ SnapshotIsCurrent'
  <1>1. AbsentIsEmpty'
    BY ConsolidateEffect DEF CurrentInv, AbsentIsEmpty, SourcesOf
  <1>2. ASSUME NEW s \in DOMAIN intake', intake'[s].review = "Consolidated"
        PROVE  \E g \in FinalReports :
                 s \in SourcesOf(g)' /\ finals'[g].sources[s] = intake'[s].version
    <2>1. CASE s \in S
      BY <2>1, ConsolidateEffect DEF CurrentInv
    <2>2. CASE s \notin S
      <3>1. s \in DOMAIN intake /\ intake'[s] = intake[s]
        BY <2>2, ConsolidateEffect DEF CurrentInv
      <3>2. PICK g \in FinalReports :
              s \in SourcesOf(g) /\ finals[g].sources[s] = intake[s].version
        BY <1>2, <3>1 DEF CurrentInv, SnapshotIsCurrent
      <3>3. g # f
        BY <2>2, <3>2
      <3>. QED
        BY <3>1, <3>2, <3>3, ConsolidateEffect DEF CurrentInv, SourcesOf
    <2>. QED
      BY <2>1, <2>2
  <1>. QED
    BY <1>1, <1>2 DEF SnapshotIsCurrent

\* So does a step that leaves the sources and consolidates nothing.
LEMMA KeptCurrent ==
    ASSUME CurrentInv,
           \A g \in FinalReports :
              /\ finals'[g].sources = finals[g].sources
              /\ finals'[g].status = "absent" => finals[g].status = "absent",
           \A s \in DOMAIN intake' : intake'[s].review = "Consolidated" =>
              /\ s \in DOMAIN intake /\ intake[s].review = "Consolidated"
              /\ intake'[s].version = intake[s].version
    PROVE  AbsentIsEmpty' /\ SnapshotIsCurrent'
  BY DEF CurrentInv, AbsentIsEmpty, SnapshotIsCurrent, SourcesOf

\* Every step keeps the invariant.
LEMMA NextCurrent == CurrentInv /\ [Next]_vars => CurrentInv'
  <1>. SUFFICES ASSUME CurrentInv, [Next]_vars
                PROVE  AbsentIsEmpty' /\ SnapshotIsCurrent'
    BY NextTyped DEF CurrentInv
  <1>1. ASSUME NEW r \in Requests, Submit(r) \/ Resubmit(r)
        PROVE  AbsentIsEmpty' /\ SnapshotIsCurrent'
    <2>1. /\ finals' = finals
          /\ \A s \in DOMAIN intake' : intake'[s].review = "Consolidated" =>
               s \in DOMAIN intake /\ intake'[s] = intake[s]
      BY <1>1, StoreEffect DEF CurrentInv
    <2>. QED
      BY <2>1, KeptCurrent
  <1>2. ASSUME NEW s \in DOMAIN intake,
               NEW decision \in {"Ready to Consolidate", "Returned"},
               Review(s, decision)
        PROVE  AbsentIsEmpty' /\ SnapshotIsCurrent'
    <2>1. /\ finals' = finals
          /\ \A t \in DOMAIN intake' : intake'[t].review = "Consolidated" =>
               t \in DOMAIN intake /\ intake'[t] = intake[t]
      BY <1>2, ReviewEffect DEF CurrentInv
    <2>. QED
      BY <2>1, KeptCurrent
  <1>3. ASSUME NEW f \in FinalReports, NEW S \in SUBSET DOMAIN intake,
               CreateFinal(f, S)
        PROVE  AbsentIsEmpty' /\ SnapshotIsCurrent'
    BY <1>3, ConsolidateCurrent DEF CreateFinal, CurrentInv, AbsentIsEmpty
  <1>4. ASSUME NEW f \in FinalReports, Reconsolidate(f)
        PROVE  AbsentIsEmpty' /\ SnapshotIsCurrent'
    BY <1>4, ConsolidateCurrent DEF Reconsolidate, CurrentInv, SourcesExist
  <1>5. ASSUME NEW f \in FinalReports, NEW selected \in SUBSET SourcesOf(f),
               ReturnFinal(f, selected)
        PROVE  AbsentIsEmpty' /\ SnapshotIsCurrent'
    <2>1. \A g \in FinalReports :
             /\ finals'[g].sources = finals[g].sources
             /\ finals'[g].status = "absent" => finals[g].status = "absent"
      BY <1>5, ReturnEffect DEF CurrentInv
    <2>2. \A s \in DOMAIN intake' : intake'[s].review = "Consolidated" =>
             s \in DOMAIN intake /\ intake'[s] = intake[s]
      BY <1>5, ReturnEffect DEF CurrentInv
    <2>. QED
      BY <2>1, <2>2, KeptCurrent
  <1>6. ASSUME NEW f \in FinalReports, NEW requested \in FinalStatuses,
               SetStatus(f, requested)
        PROVE  AbsentIsEmpty' /\ SnapshotIsCurrent'
    BY <1>6, StatusEffect, KeptCurrent DEF CurrentInv
  <1>7. CASE UNCHANGED vars
    BY <1>7, KeptCurrent DEF vars
  <1>. QED
    BY <1>1, <1>2, <1>3, <1>4, <1>5, <1>6, <1>7 DEF Next

\* Whatever is requested in whatever state, a consolidated report has exactly
\* the figures that its final report shows.
THEOREM SnapshotsAreCurrent == Spec => []SnapshotIsCurrent
  <1>1. Init => CurrentInv
    BY InitTyped
    DEF Init, Nothing, CurrentInv, AbsentIsEmpty, SnapshotIsCurrent, SourcesOf
  <1>2. CurrentInv /\ [Next]_vars => CurrentInv'
    BY NextCurrent
  <1>3. CurrentInv => SnapshotIsCurrent
    BY DEF CurrentInv
  <1>. QED
    BY <1>1, <1>2, <1>3, PTL DEF Spec

-----------------------------------------------------------------------------
(* The audit, for staff who see the present state of final reports.        *)

\* No two final reports share a source: uq_final_report_source_intake.
SeparateSources ==
    \A f, g \in FinalReports : f # g => SourcesOf(f) \cap SourcesOf(g) = {}

\* An archived report knows what it was archived from.
ArchivedFromKnown ==
    \A f \in FinalReports :
        finals[f].status = "Archived" => finals[f].archivedFrom \in Restorable

\* What may be shown as accepted was accepted.  The sources that a return puts
\* back to "Ready to Consolidate" keep this only if they were consolidated,
\* which is what SourcesMatchStatus says of the sources of a draft.
Vouched ==
    \A s \in DOMAIN intake :
        intake[s].review \in {"Ready to Consolidate", "Consolidated"} =>
            <<s, intake[s].version>> \in accepted

AuditInv == /\ TypeOK /\ SourcesExist
            /\ AbsentIsEmpty
            /\ SeparateSources
            /\ ArchivedFromKnown
            /\ SourcesMatchStatus
            /\ Vouched
            /\ OnlyAcceptedReports

\* The stage of a row, as Stage has it of a final report.
StageOf(row) == IF row.status = "Archived" THEN row.archivedFrom
                                           ELSE row.status

\* What a page offers keeps the stage, except that it finalizes a draft.
LEMMA OfferedKeepsStage ==
    ASSUME NEW row \in FinalRow, row.status # "absent",
           row.status = "Archived" => row.archivedFrom \in Restorable,
           NEW requested \in FinalStatuses, requested \in Offered(row)
    PROVE  LET new == StatusChanged(row, requested)
           IN  /\ new.status = "Archived" => new.archivedFrom \in Restorable
               /\ \/ StageOf(new) = StageOf(row)
                  \/ StageOf(row) = "Draft" /\ StageOf(new) = "Finalized"
  <1>1. /\ Restorable = {"Draft", "Finalized", "Returned for Revision"}
        /\ FinalStatuses = Restorable \cup {"Archived"}
    BY DEF FinalStatuses, Restorable
  <1>2. CASE row.status = "Archived"
    <2>1. requested = row.archivedFrom /\ requested \in Restorable
      BY <1>2 DEF Offered, RestoreTarget
    <2>2. StatusChanged(row, requested)
            = [row EXCEPT !.status = requested, !.archivedFrom = "none"]
      BY <1>1, <1>2, <2>1 DEF StatusChanged, RestoreTarget
    <2>3. [row EXCEPT !.status = requested, !.archivedFrom = "none"].status
            = requested
      BY DEF FinalRow
    <2>4. StatusChanged(row, requested).status = requested
      BY <2>2, <2>3
    <2>. QED
      BY <1>1, <1>2, <2>1, <2>4 DEF StageOf
  <1>3. CASE row.status # "Archived" /\ requested = "Archived"
    <2>1. row.status \in Restorable
      BY <1>1, <1>3 DEF FinalRow
    <2>2. StatusChanged(row, requested)
            = [row EXCEPT !.status = "Archived", !.archivedFrom = row.status]
      BY <1>3 DEF StatusChanged
    <2>3. LET new == [row EXCEPT !.status = "Archived",
                                 !.archivedFrom = row.status]
          IN  new.status = "Archived" /\ new.archivedFrom = row.status
      BY DEF FinalRow
    <2>4. /\ StatusChanged(row, requested).status = "Archived"
          /\ StatusChanged(row, requested).archivedFrom = row.status
      BY <2>2, <2>3
    <2>. QED
      BY <1>3, <2>1, <2>4 DEF StageOf
  <1>4. CASE row.status # "Archived" /\ requested # "Archived"
    <2>1. row.status = "Draft" /\ requested = "Finalized"
      BY <1>4 DEF Offered
    <2>2. StatusChanged(row, requested)
            = [row EXCEPT !.status = "Finalized", !.archivedFrom = "none"]
      BY <2>1 DEF StatusChanged
    <2>3. [row EXCEPT !.status = "Finalized", !.archivedFrom = "none"].status
            = "Finalized"
      BY DEF FinalRow
    <2>4. StatusChanged(row, requested).status = "Finalized"
      BY <2>2, <2>3
    <2>. QED
      BY <2>1, <2>4 DEF StageOf
  <1>. QED
    BY <1>2, <1>3, <1>4

\* A step that changes no final report and touches only rows that are neither
\* consolidated nor vouched for keeps the invariant.
LEMMA KeptAudit ==
    ASSUME AuditInv, TypeOK', SourcesExist', finals' = finals,
           DOMAIN intake \subseteq DOMAIN intake',
           accepted \subseteq accepted',
           \A s \in DOMAIN intake :
              intake[s].review = "Consolidated" <=>
                intake'[s].review = "Consolidated",
           \A s \in DOMAIN intake' :
              intake'[s].review \in {"Ready to Consolidate", "Consolidated"} =>
                \/ s \in DOMAIN intake /\ intake'[s] = intake[s]
                \/ <<s, intake'[s].version>> \in accepted'
    PROVE  AuditInv'
  <1>1. AbsentIsEmpty' /\ SeparateSources' /\ ArchivedFromKnown'
    BY DEF AuditInv, AbsentIsEmpty, SeparateSources, ArchivedFromKnown,
           SourcesOf
  <1>2. SourcesMatchStatus'
    BY DEF AuditInv, SourcesMatchStatus, SourcesExist, SourcesOf, Stage
  <1>3. Vouched' /\ OnlyAcceptedReports'
    BY DEF AuditInv, Vouched, OnlyAcceptedReports, SourcesOf
  <1>. QED
    BY <1>1, <1>2, <1>3 DEF AuditInv

\* Consolidation keeps the invariant if it takes no source from another report.
LEMMA ConsolidateAudit ==
    ASSUME AuditInv, NEW f \in FinalReports, NEW S \in SUBSET DOMAIN intake,
           SourcesOf(f) \subseteq S, Consolidable(S), Consolidate(f, S),
           \A g \in FinalReports \ {f} : SourcesOf(g) \cap S = {}
    PROVE  AuditInv'
  <1>. USE ConsolidateEffect DEF AuditInv
  <1>1. TypeOK' /\ SourcesExist'
    <2>1. \A g \in FinalReports \ {f} : SourcesOf(g)' = SourcesOf(g)
      BY DEF SourcesOf
    <2>. QED
      BY <2>1, ConsolidateType DEF SourcesExist
  <1>2. \A g \in FinalReports \ {f} :
          /\ SourcesOf(g)' = SourcesOf(g) /\ Stage(g)' = Stage(g)
          /\ \A s \in SourcesOf(g) : s \in DOMAIN intake \ S
                                       /\ intake'[s] = intake[s]
    BY DEF SourcesOf, Stage, SourcesExist
  <1>3. SourcesOf(f)' = S /\ Stage(f)' = "Draft"
    BY DEF Stage
  <1>4. AbsentIsEmpty' /\ ArchivedFromKnown'
    BY <1>2 DEF AbsentIsEmpty, ArchivedFromKnown
  <1>5. SeparateSources'
    <2>1. ASSUME NEW g \in FinalReports, NEW h \in FinalReports, g # h
          PROVE  SourcesOf(g)' \cap SourcesOf(h)' = {}
      BY <1>2, <1>3, <2>1 DEF SeparateSources
    <2>. QED
      BY <2>1 DEF SeparateSources
  <1>6. SourcesMatchStatus'
    <2>1. ASSUME NEW g \in FinalReports, NEW s \in SourcesOf(g)'
          PROVE  intake'[s].review = "Consolidated" <=>
                   Stage(g)' # "Returned for Revision"
      <3>1. CASE g = f
        BY <1>3, <3>1
      <3>2. CASE g # f
        <4>1. /\ s \in SourcesOf(g)
              /\ intake'[s] = intake[s] /\ Stage(g)' = Stage(g)
          BY <1>2, <3>2
        <4>2. intake[s].review = "Consolidated" <=>
                Stage(g) # "Returned for Revision"
          BY <4>1 DEF SourcesMatchStatus
        <4>. QED
          BY <4>1, <4>2
      <3>. QED
        BY <3>1, <3>2
    <2>. QED
      BY <2>1 DEF SourcesMatchStatus
  <1>7. \A s \in S : <<s, intake[s].version>> \in accepted
    BY DEF Vouched, Consolidable
  <1>8. Vouched'
    <2>1. \A s \in DOMAIN intake' :
            s \in DOMAIN intake /\ (s \in S \/ intake'[s] = intake[s])
      OBVIOUS
    <2>2. \A s \in S : intake'[s].version = intake[s].version
      OBVIOUS
    <2>3. accepted' = accepted
      OBVIOUS
    <2>4. Vouched
      OBVIOUS
    <2>. HIDE ConsolidateEffect DEF AuditInv
    <2>. QED
      BY <1>7, <2>1, <2>2, <2>3, <2>4 DEF Vouched
  <1>9. OnlyAcceptedReports'
    <2>1. ASSUME NEW g \in FinalReports, NEW s \in SourcesOf(g)'
          PROVE  <<s, finals'[g].sources[s]>> \in accepted'
      <3>1. CASE g = f
        BY <1>3, <1>7, <3>1
      <3>2. CASE g # f
        BY <1>2, <3>2 DEF OnlyAcceptedReports
      <3>. QED
        BY <3>1, <3>2
    <2>. QED
      BY <2>1 DEF OnlyAcceptedReports
  <1>. QED
    BY <1>1, <1>4, <1>5, <1>6, <1>8, <1>9

\* A return keeps the invariant: the sources of a draft are consolidated, so
\* that those it puts back were accepted.
LEMMA ReturnAudit ==
    ASSUME AuditInv, TypeOK', SourcesExist', NEW f \in FinalReports,
           NEW selected \in SUBSET SourcesOf(f), ReturnFinal(f, selected)
    PROVE  AuditInv'
  <1>a. /\ SourcesExist /\ AbsentIsEmpty /\ SeparateSources /\ ArchivedFromKnown
        /\ SourcesMatchStatus /\ Vouched /\ OnlyAcceptedReports
    BY DEF AuditInv
  <1>b. /\ accepted' = accepted /\ DOMAIN intake' = DOMAIN intake
        /\ \A s \in DOMAIN intake : intake'[s].version = intake[s].version
        /\ \A s \in SourcesOf(f) :
             intake'[s].review \in {"Returned", "Ready to Consolidate"}
        /\ \A s \in DOMAIN intake \ SourcesOf(f) : intake'[s] = intake[s]
    BY ReturnEffect DEF AuditInv
  <1>c. /\ finals[f].status = "Draft"
        /\ finals'[f].status = "Returned for Revision"
        /\ finals'[f].sources = finals[f].sources
        /\ \A g \in FinalReports \ {f} : finals'[g] = finals[g]
    BY ReturnEffect DEF AuditInv
  <1>d. \A g \in FinalReports :
          /\ finals'[g].sources = finals[g].sources
          /\ g = f \/ finals'[g] = finals[g]
    BY <1>c
  <1>1. \A g \in FinalReports : SourcesOf(g)' = SourcesOf(g)
    BY <1>d DEF SourcesOf
  <1>2. \A g \in FinalReports \ {f} :
          /\ Stage(g)' = Stage(g)
          /\ \A s \in SourcesOf(g) : intake'[s] = intake[s]
    <2>. SUFFICES ASSUME NEW g \in FinalReports \ {f}
                  PROVE  /\ Stage(g)' = Stage(g)
                         /\ \A s \in SourcesOf(g) : intake'[s] = intake[s]
      OBVIOUS
    <2>1. Stage(g)' = Stage(g)
      BY <1>c DEF Stage
    <2>2. SourcesOf(g) \subseteq DOMAIN intake \ SourcesOf(f)
      BY <1>a DEF SourcesExist, SeparateSources
    <2>. QED
      BY <1>b, <2>1, <2>2
  <1>3. Stage(f) = "Draft" /\ Stage(f)' = "Returned for Revision"
    BY <1>c DEF Stage
  <1>4. AbsentIsEmpty' /\ ArchivedFromKnown' /\ SeparateSources'
    <2>1. \A g \in FinalReports :
            \/ finals'[g] = finals[g]
            \/ finals'[g].status = "Returned for Revision"
      BY <1>c, <1>d
    <2>2. AbsentIsEmpty'
      BY <1>a, <1>1, <2>1 DEF AbsentIsEmpty
    <2>3. ArchivedFromKnown'
      BY <1>a, <2>1 DEF ArchivedFromKnown
    <2>4. SeparateSources'
      BY <1>a, <1>1 DEF SeparateSources
    <2>. QED
      BY <2>2, <2>3, <2>4
  <1>5. SourcesMatchStatus'
    <2>1. ASSUME NEW g \in FinalReports, NEW s \in SourcesOf(g)'
          PROVE  intake'[s].review = "Consolidated" <=>
                   Stage(g)' # "Returned for Revision"
      <3>1. CASE g = f
        BY <1>1, <1>3, <1>b, <3>1
      <3>2. CASE g # f
        <4>0. s \in SourcesOf(g)
          BY <1>1
        <4>1. /\ s \in SourcesOf(g)
              /\ intake'[s] = intake[s] /\ Stage(g)' = Stage(g)
          BY <1>2, <3>2, <4>0
        <4>2. intake[s].review = "Consolidated" <=>
                Stage(g) # "Returned for Revision"
          BY <1>a, <4>1 DEF SourcesMatchStatus
        <4>. QED
          BY <4>1, <4>2
      <3>. QED
        BY <3>1, <3>2
    <2>. QED
      BY <2>1 DEF SourcesMatchStatus
  <1>6. \A s \in SourcesOf(f) :
          s \in DOMAIN intake /\ intake[s].review = "Consolidated"
    BY <1>3, <1>a DEF SourcesMatchStatus, SourcesExist
  <1>7. Vouched'
    <2>1. ASSUME NEW s \in DOMAIN intake,
                 intake'[s].review \in {"Ready to Consolidate", "Consolidated"}
          PROVE  <<s, intake'[s].version>> \in accepted'
      <3>1. CASE s \in SourcesOf(f)
        BY <1>6, <1>a, <1>b, <3>1 DEF Vouched
      <3>2. CASE s \notin SourcesOf(f)
        BY <2>1, <1>a, <1>b, <3>2 DEF Vouched
      <3>. QED
        BY <3>1, <3>2
    <2>. QED
      BY <2>1, <1>b DEF Vouched
  <1>8. OnlyAcceptedReports'
    BY <1>1, <1>a, <1>b, <1>d DEF OnlyAcceptedReports
  <1>. QED
    BY <1>4, <1>5, <1>7, <1>8, <1>a DEF AuditInv

\* A change of status that the page offers keeps the invariant.
LEMMA StatusAudit ==
    ASSUME AuditInv, TypeOK', SourcesExist', FreshViews, NEW f \in FinalReports,
           NEW requested \in FinalStatuses, SetStatus(f, requested)
    PROVE  AuditInv'
  <1>a. /\ AbsentIsEmpty /\ SeparateSources /\ ArchivedFromKnown
        /\ SourcesMatchStatus /\ Vouched /\ OnlyAcceptedReports
    BY DEF AuditInv
  <1>b. /\ accepted' = accepted /\ intake' = intake
        /\ finals[f] \in FinalRow /\ finals[f].status # "absent"
        /\ finals'[f] = StatusChanged(finals[f], requested)
        /\ finals'[f].status # "absent"
        /\ \A g \in FinalReports : finals'[g].sources = finals[g].sources
        /\ \A g \in FinalReports \ {f} : finals'[g] = finals[g]
    BY StatusEffect DEF AuditInv
  <1>1. \A g \in FinalReports : SourcesOf(g)' = SourcesOf(g)
    BY <1>b DEF SourcesOf
  <1>2. /\ finals'[f].status = "Archived" =>
             finals'[f].archivedFrom \in Restorable
        /\ \/ StageOf(finals'[f]) = StageOf(finals[f])
           \/ /\ StageOf(finals[f]) = "Draft"
              /\ StageOf(finals'[f]) = "Finalized"
    <2>1. requested \in Offered(finals[f])
      BY DEF SetStatus
    <2>2. finals[f].status = "Archived" => finals[f].archivedFrom \in Restorable
      BY <1>a DEF ArchivedFromKnown
    <2>. QED
      BY <1>b, <2>1, <2>2, OfferedKeepsStage
  <1>3. \A g \in FinalReports :
          Stage(g)' = "Returned for Revision" <=>
            Stage(g) = "Returned for Revision"
    <2>1. \A g \in FinalReports :
            Stage(g) = StageOf(finals[g]) /\ Stage(g)' = StageOf(finals'[g])
      BY DEF Stage, StageOf
    <2>2. \A g \in FinalReports \ {f} : StageOf(finals'[g]) = StageOf(finals[g])
      BY <1>b
    <2>. QED
      BY <1>2, <2>1, <2>2
  <1>4. AbsentIsEmpty' /\ ArchivedFromKnown' /\ SeparateSources'
    <2>1. AbsentIsEmpty'
      BY <1>a, <1>b, <1>1 DEF AbsentIsEmpty
    <2>2. ArchivedFromKnown'
      BY <1>a, <1>b, <1>2 DEF ArchivedFromKnown
    <2>3. SeparateSources'
      BY <1>a, <1>1 DEF SeparateSources
    <2>. QED
      BY <2>1, <2>2, <2>3
  <1>5. SourcesMatchStatus'
    BY <1>1, <1>3, <1>a, <1>b DEF SourcesMatchStatus
  <1>6. Vouched' /\ OnlyAcceptedReports'
    BY <1>1, <1>a, <1>b DEF Vouched, OnlyAcceptedReports
  <1>. QED
    BY <1>4, <1>5, <1>6 DEF AuditInv

\* Every step of staff with fresh pages keeps the invariant.
LEMMA NextAudit == FreshViews /\ AuditInv /\ [Next]_vars => AuditInv'
  <1>. SUFFICES ASSUME FreshViews, AuditInv, [Next]_vars PROVE AuditInv'
    OBVIOUS
  <1>0. TypeOK' /\ SourcesExist'
    BY NextTyped DEF AuditInv
  <1>1. ASSUME NEW r \in Requests, Submit(r) \/ Resubmit(r)
        PROVE  AuditInv'
    <2>1. /\ finals' = finals /\ accepted' = accepted
          /\ DOMAIN intake \subseteq DOMAIN intake'
      BY <1>1, StoreEffect DEF AuditInv
    <2>2. \A s \in DOMAIN intake : intake[s].review = "Consolidated" <=>
                                     intake'[s].review = "Consolidated"
      BY <1>1, StoreEffect DEF AuditInv
    <2>3. \A s \in DOMAIN intake' :
            intake'[s].review \in {"Ready to Consolidate", "Consolidated"} =>
              s \in DOMAIN intake /\ intake'[s] = intake[s]
      BY <1>1, StoreEffect DEF AuditInv
    <2>. QED
      BY <1>0, <2>1, <2>2, <2>3, KeptAudit
  <1>2. ASSUME NEW s \in DOMAIN intake,
               NEW decision \in {"Ready to Consolidate", "Returned"},
               Review(s, decision)
        PROVE  AuditInv'
    <2>1. /\ finals' = finals /\ accepted \subseteq accepted'
          /\ DOMAIN intake' = DOMAIN intake
      BY <1>2, ReviewEffect DEF AuditInv
    <2>2. \A t \in DOMAIN intake : intake[t].review = "Consolidated" <=>
                                     intake'[t].review = "Consolidated"
      BY <1>2, ReviewEffect DEF AuditInv
    <2>3. \A t \in DOMAIN intake' :
            intake'[t].review \in {"Ready to Consolidate", "Consolidated"} =>
              \/ t \in DOMAIN intake /\ intake'[t] = intake[t]
              \/ <<t, intake'[t].version>> \in accepted'
      BY <1>2, ReviewEffect DEF AuditInv
    <2>. QED
      BY <1>0, <2>1, <2>2, <2>3, KeptAudit
  <1>3. ASSUME NEW f \in FinalReports, NEW S \in SUBSET DOMAIN intake,
               CreateFinal(f, S)
        PROVE  AuditInv'
    <2>1. SourcesOf(f) = {} /\ \A g \in FinalReports : SourcesOf(g) \cap S = {}
      BY <1>3 DEF CreateFinal, Linked, AuditInv, AbsentIsEmpty
    <2>. QED
      BY <1>3, <2>1, ConsolidateAudit DEF CreateFinal
  <1>4. ASSUME NEW f \in FinalReports, Reconsolidate(f)
        PROVE  AuditInv'
    <2>1. /\ SourcesOf(f) \subseteq DOMAIN intake
          /\ \A g \in FinalReports \ {f} : SourcesOf(g) \cap SourcesOf(f) = {}
      BY DEF AuditInv, SourcesExist, SeparateSources
    <2>. QED
      BY <1>4, <2>1, ConsolidateAudit DEF Reconsolidate
  <1>5. ASSUME NEW f \in FinalReports, NEW selected \in SUBSET SourcesOf(f),
               ReturnFinal(f, selected)
        PROVE  AuditInv'
    BY <1>0, <1>5, ReturnAudit
  <1>6. ASSUME NEW f \in FinalReports, NEW requested \in FinalStatuses,
               SetStatus(f, requested)
        PROVE  AuditInv'
    BY <1>0, <1>6, StatusAudit
  <1>7. CASE UNCHANGED vars
    BY <1>0, <1>7, KeptAudit DEF vars
  <1>. QED
    BY <1>1, <1>2, <1>3, <1>4, <1>5, <1>6, <1>7 DEF Next

\* The invariant holds at first.
LEMMA InitAudit == Init => AuditInv
  <1>. SUFFICES ASSUME Init PROVE AuditInv
    OBVIOUS
  <1>1. DOMAIN Nothing = {}
    BY DEF Nothing
  <1>2. \A f \in FinalReports : SourcesOf(f) = {} /\ finals[f].status = "absent"
    BY <1>1 DEF Init, SourcesOf
  <1>. QED
    BY <1>1, <1>2, InitTyped
    DEF Init, AuditInv, AbsentIsEmpty, SeparateSources, ArchivedFromKnown,
        SourcesMatchStatus, Vouched, OnlyAcceptedReports

\* With fresh pages the invariant holds throughout.
LEMMA AuditHolds == FreshViews => (Spec => []AuditInv)
  <1>. SUFFICES ASSUME FreshViews PROVE Spec => []AuditInv
    OBVIOUS
  <1>1. Init => AuditInv
    BY InitAudit
  <1>2. AuditInv /\ [Next]_vars => AuditInv'
    BY NextAudit
  <1>. QED
    BY <1>1, <1>2, PTL DEF Spec

\* Staff who ask for what the page of a final report offers in its present
\* state consolidate only versions of reports that were accepted.
THEOREM AcceptedOnly ==
    ASSUME FreshViews
    PROVE  Spec => []OnlyAcceptedReports
  <1>1. Spec => []AuditInv
    BY AuditHolds
  <1>2. AuditInv => OnlyAcceptedReports
    BY DEF AuditInv
  <1>. QED
    BY <1>1, <1>2, PTL

\* Under the same assumption the sources of a final report are consolidated
\* exactly while it is not returned for revision.
THEOREM SourcesFollowStatus ==
    ASSUME FreshViews
    PROVE  Spec => []SourcesMatchStatus
  <1>1. Spec => []AuditInv
    BY AuditHolds
  <1>2. AuditInv => SourcesMatchStatus
    BY DEF AuditInv
  <1>. QED
    BY <1>1, <1>2, PTL

\* Only a change of status, a consolidation and a return move a final report;
\* none of them takes a finalized one back.
LEMMA StaysFinalized ==
    ASSUME FreshViews, AuditInv, [Next]_vars, NEW f \in FinalReports,
           Stage(f) = "Finalized"
    PROVE  Stage(f)' = "Finalized"
  <1>1. CASE finals'[f] = finals[f]
    BY <1>1 DEF Stage
  <1>2. ASSUME NEW r \in Requests, Submit(r) \/ Resubmit(r)
        PROVE  finals' = finals
    BY <1>2 DEF Submit, Resubmit, Store
  <1>3. ASSUME NEW s, NEW decision, Review(s, decision)
        PROVE  finals' = finals
    BY <1>3 DEF Review
  <1>4. ASSUME NEW g \in FinalReports, NEW S,
               Consolidate(g, S), finals[g].status \in
                                    {"absent", "Returned for Revision"}
        PROVE  finals'[f] = finals[f]
    BY <1>4 DEF Consolidate, AuditInv, TypeOK, Stage
  <1>5. ASSUME NEW g \in FinalReports, NEW selected, ReturnFinal(g, selected)
        PROVE  finals'[f] = finals[f]
    BY <1>5 DEF ReturnFinal, Returnable, AuditInv, TypeOK, Stage
  <1>6. ASSUME NEW g \in FinalReports, NEW requested \in FinalStatuses,
               SetStatus(g, requested)
        PROVE  Stage(f)' = "Finalized"
    <2>1. CASE g # f
      BY <1>1, <1>6, <2>1, StatusEffect DEF AuditInv
    <2>2. CASE g = f
      <3>1. requested \in Offered(finals[f])
        BY <1>6, <2>2 DEF SetStatus
      <3>2. /\ finals[f] \in FinalRow /\ finals[f].status # "absent"
            /\ finals'[f] = StatusChanged(finals[f], requested)
        BY <1>6, <2>2, StatusEffect DEF AuditInv
      <3>3. finals[f].status = "Archived" =>
              finals[f].archivedFrom \in Restorable
        BY DEF AuditInv, ArchivedFromKnown
      <3>4. StageOf(finals[f]) = "Finalized"
        BY DEF Stage, StageOf
      <3>5. StageOf(finals'[f]) = "Finalized"
        BY <3>1, <3>2, <3>3, <3>4, OfferedKeepsStage
      <3>. QED
        BY <3>5 DEF Stage, StageOf
    <2>. QED
      BY <2>1, <2>2
  <1>7. CASE UNCHANGED vars
    BY <1>1, <1>7 DEF vars
  <1>8. CASE Next
    <2>1. CASE \E r \in Requests : Submit(r) \/ Resubmit(r)
      BY <1>1, <1>2, <2>1
    <2>2. CASE \E s \in DOMAIN intake,
                  decision \in {"Ready to Consolidate", "Returned"} :
                    Review(s, decision)
      BY <1>1, <1>3, <2>2
    <2>3. ASSUME NEW g \in FinalReports,
                 \/ \E S \in SUBSET DOMAIN intake : CreateFinal(g, S)
                 \/ Reconsolidate(g)
          PROVE  finals'[f] = finals[f]
      BY <1>4, <2>3 DEF CreateFinal, Reconsolidate
    <2>4. ASSUME NEW g \in FinalReports,
                 \E selected \in SUBSET SourcesOf(g) : ReturnFinal(g, selected)
          PROVE  finals'[f] = finals[f]
      BY <1>5, <2>4
    <2>. QED
      BY <1>1, <1>6, <1>8, <2>1, <2>2, <2>3, <2>4 DEF Next
  <1>. QED
    BY <1>7, <1>8

\* And a final report that was finalized stays so, archived or not: the raw
\* events that the desktop destroyed are never needed again.
THEOREM FinalizedStays ==
    ASSUME FreshViews
    PROVE  Spec => FinalizedForGood
  <1>1. Spec => []AuditInv
    BY AuditHolds
  <1>2. AuditInv /\ [Next]_vars =>
          [\A f \in FinalReports :
             Stage(f) = "Finalized" => Stage(f)' = "Finalized"]_vars
    BY StaysFinalized
  <1>. QED
    BY <1>1, <1>2, PTL DEF Spec, FinalizedForGood

-----------------------------------------------------------------------------
(* A submission id is carried out once.                                    *)

\* A row that comes to be pending was stored by a submission of that version;
\* nothing else makes or leaves a changed row pending.
LEMMA PendingIsStored ==
    ASSUME TypeOK, SourcesExist, [Next]_vars, NEW s \in DOMAIN intake',
           intake'[s].review = "Pending Review",
           s \in DOMAIN intake => intake[s] # intake'[s]
    PROVE  \E r \in Requests :
             Store(r) /\ s = Slot(r) /\ intake'[s].version = r.id
  <1>1. ASSUME NEW r \in Requests, Submit(r) \/ Resubmit(r)
        PROVE  Store(r) /\ s = Slot(r) /\ intake'[s].version = r.id
    <2>1. Store(r)
      BY <1>1 DEF Submit, Resubmit
    <2>2. s = Slot(r)
      <3>1. /\ DOMAIN intake' = DOMAIN intake \cup {Slot(r)}
            /\ \A t \in DOMAIN intake \ {Slot(r)} : intake'[t] = intake[t]
        BY <1>1, StoreEffect
      <3>. QED
        BY <3>1
    <2>3. intake'[s] = PendingRow(r)
      BY <2>1, <2>2 DEF Store
    <2>4. PendingRow(r).version = r.id
      BY DEF PendingRow
    <2>. QED
      BY <2>1, <2>2, <2>3, <2>4
  <1>2. ASSUME NEW t \in DOMAIN intake,
               NEW decision \in {"Ready to Consolidate", "Returned"},
               Review(t, decision)
        PROVE  FALSE
    BY <1>2, ReviewEffect
  <1>3. ASSUME NEW f \in FinalReports, NEW S \in SUBSET DOMAIN intake,
               Consolidate(f, S)
        PROVE  FALSE
    BY <1>3, ConsolidateEffect
  <1>4. ASSUME NEW f \in FinalReports, NEW selected \in SUBSET SourcesOf(f),
               ReturnFinal(f, selected)
        PROVE  FALSE
    BY <1>4, ReturnEffect
  <1>5. ASSUME NEW f \in FinalReports, NEW requested \in FinalStatuses,
               SetStatus(f, requested)
        PROVE  FALSE
    BY <1>5, StatusEffect
  <1>6. ~UNCHANGED vars
    BY DEF vars
  <1>7. ASSUME NEW f \in FinalReports,
               \/ \E S \in SUBSET DOMAIN intake : CreateFinal(f, S)
               \/ Reconsolidate(f)
        PROVE  FALSE
    BY <1>3, <1>7 DEF CreateFinal, Reconsolidate, SourcesExist
  <1>. QED
    BY <1>1, <1>2, <1>4, <1>5, <1>6, <1>7 DEF Next

\* A request under a submission id that was carried out before, repeated or
\* altered, never submits a report again.
THEOREM SubmittedOnce == Spec => CarriedOutOnce
  <1>1. Init => TypeOK /\ SourcesExist
    BY InitTyped
  <1>2. TypeOK /\ SourcesExist /\ [Next]_vars => TypeOK' /\ SourcesExist'
    BY NextTyped
  <1>3. ASSUME TypeOK, SourcesExist, [Next]_vars, NEW s \in DOMAIN intake',
               intake'[s].review = "Pending Review",
               s \in DOMAIN intake => intake[s] # intake'[s],
               NEW o \in operations
        PROVE  <<o.enterprise, o.id>> # <<s[1], intake'[s].version>>
    <2>1. PICK r \in Requests :
            Store(r) /\ s = Slot(r) /\ intake'[s].version = r.id
      BY <1>3, PendingIsStored
    <2>2. ~(o.enterprise = r.enterprise /\ o.id = r.id)
      BY <1>3, <2>1 DEF Store, Known
    <2>. QED
      BY <2>1, <2>2 DEF Slot
  <1>4. TypeOK /\ SourcesExist /\ [Next]_vars =>
          [\A s \in DOMAIN intake' :
             /\ intake'[s].review = "Pending Review"
             /\ s \in DOMAIN intake => intake[s] # intake'[s]
             => \A o \in operations :
                   <<o.enterprise, o.id>> # <<s[1], intake'[s].version>>]_vars
    BY <1>3
  <1>. QED
    BY <1>1, <1>2, <1>4, PTL DEF Spec, CarriedOutOnce

-----------------------------------------------------------------------------
(* The intake that the desktops rely on.                                   *)

\* What a report that is final has been through, and what the others are told.
LEMMA ToldIs ==
    ASSUME AuditInv, NEW s \in Slots
    PROVE  /\ s \notin DOMAIN intake => Told[s] = "none"
           /\ s \in DOMAIN intake /\ intake[s].review = "Returned"
                => Told[s] = "returned"
           /\ Locked(s) => /\ s \in DOMAIN intake /\ Told[s] = "final"
                           /\ intake[s].review = "Consolidated"
           /\ s \in DOMAIN intake /\ intake[s].review # "Returned" /\ ~Locked(s)
                => Told[s] = "pending"
  <1>1. ASSUME Locked(s)
        PROVE  s \in DOMAIN intake /\ intake[s].review = "Consolidated"
    BY <1>1 DEF AuditInv, Locked, SourcesExist, SourcesMatchStatus
  <1>. QED
    BY <1>1 DEF Told

\* A report is no longer told what it was only if its row changes, or a final
\* report that it is in comes to be locked or stops to be so.
LEMMA ToldKept ==
    ASSUME NEW s \in Slots, Locked(s)' = Locked(s),
           s \in DOMAIN intake <=> s \in DOMAIN intake',
           s \in DOMAIN intake =>
             (intake[s].review = "Returned" <=> intake'[s].review = "Returned")
    PROVE  Told'[s] = Told[s]
  <1>. QED
    BY DEF Told

\* The sources of a final report that is not finalized are not locked.
LEMMA SourcesNotLocked ==
    ASSUME AuditInv, NEW f \in FinalReports, NEW s \in SourcesOf(f),
           Stage(f) # "Finalized"
    PROVE  ~Locked(s)
  BY DEF AuditInv, SeparateSources, Locked

\* Reports whose final reports are the same are as locked as they were.
LEMMA LockedKept ==
    ASSUME NEW s,
           \A f \in FinalReports :
              (s \in SourcesOf(f) /\ Stage(f) = "Finalized")
                <=> (s \in SourcesOf(f) /\ Stage(f) = "Finalized")'
    PROVE  Locked(s)' = Locked(s)
  BY DEF Locked

\* A decision about some reports is told to them, and to no others.
LEMMA Decided ==
    ASSUME operations' = operations, NEW S \in SUBSET Slots,
           NEW decision \in {"returned", "final"},
           \A s \in S : Told[s] = "pending" /\ Told'[s] = decision,
           \A s \in Slots \ S : Told'[s] = Told[s]
    PROVE  Intake!IntakeNext
  <1>1. Told' = [s \in Slots |-> IF s \in S THEN decision ELSE Told[s]]
    <2>1. Told' = [s \in Slots |-> Told'[s]]
      BY DEF Told
    <2>. QED
      BY <2>1
  <1>2. CarriedOut' = CarriedOut
    BY DEF CarriedOut
  <1>3. Intake!Decide(S, decision)
    BY <1>1, <1>2 DEF Intake!Decide, Intake!Slots, Slots
  <1>. QED
    BY <1>3 DEF Intake!IntakeNext, Intake!Slots, Slots

\* Nobody is told anything.
LEMMA Untold ==
    ASSUME operations' = operations, \A s \in Slots : Told'[s] = Told[s]
    PROVE  UNCHANGED <<Told, CarriedOut>>
  <1>1. Told' = [s \in Slots |-> Told'[s]] /\ Told = [s \in Slots |-> Told[s]]
    BY DEF Told
  <1>2. Told' = Told
    BY <1>1
  <1>. QED
    BY <1>2 DEF CarriedOut

\* A submission is carried out, once, for a report that is not pending.
LEMMA StoreIntake ==
    ASSUME AuditInv, AuditInv', NEW r \in Requests, Submit(r) \/ Resubmit(r)
    PROVE  Intake!IntakeNext
  <1>. DEFINE slot == Slot(r)
  <1>1. /\ finals' = finals /\ DOMAIN intake' = DOMAIN intake \cup {slot}
        /\ intake'[slot].review = "Pending Review"
        /\ \A s \in DOMAIN intake \ {slot} : intake'[s] = intake[s]
        /\ slot \in DOMAIN intake => intake[slot].review = "Returned"
    BY StoreEffect DEF AuditInv
  <1>2. slot \in Slots /\ slot[1] = r.enterprise /\ r.id \in SubmissionIds
    BY SlotType DEF Slot, Requests
  <1>3. ~Known(r) /\ operations' = operations \cup {r}
    BY DEF Submit, Resubmit, Store
  <1>. HIDE DEF slot
  <1>4. <<r.enterprise, r.id>> \notin CarriedOut
    BY <1>3 DEF CarriedOut, Known
  <1>5. CarriedOut' = CarriedOut \cup {<<r.enterprise, r.id>>}
    BY <1>3 DEF CarriedOut
  <1>6. \A s : Locked(s)' = Locked(s)
    BY <1>1 DEF Locked, SourcesOf, Stage
  <1>7. Told[slot] \in {"none", "returned"}
    BY <1>1, <1>2, ToldIs
  <1>8. ~Locked(slot)
    BY <1>2, <1>7, ToldIs
  <1>9. Told'[slot] = "pending"
    <2>1. Told'[slot] = IF slot \notin DOMAIN intake' THEN "none"
                        ELSE IF intake'[slot].review = "Returned" THEN "returned"
                        ELSE IF Locked(slot)' THEN "final" ELSE "pending"
      BY <1>2 DEF Told
    <2>. QED
      BY <1>1, <1>6, <1>8, <2>1
  <1>10. ASSUME NEW s \in Slots, s # slot PROVE Told'[s] = Told[s]
    BY <1>1, <1>6, <1>10, ToldKept
  <1>11. Told' = [Told EXCEPT ![slot] = "pending"]
    <2>1. Told' = [s \in Slots |-> Told'[s]] /\ Told = [s \in Slots |-> Told[s]]
      BY DEF Told
    <2>. QED
      BY <1>2, <1>9, <1>10, <2>1
  <1>12. Intake!Carry(slot, r.id)
    BY <1>2, <1>4, <1>5, <1>7, <1>11 DEF Intake!Carry
  <1>. QED
    BY <1>2, <1>12 DEF Intake!IntakeNext, Intake!Slots, Slots

\* A review returns a report, or leaves it pending.
LEMMA ReviewIntake ==
    ASSUME AuditInv, NEW t \in DOMAIN intake,
           NEW decision \in {"Ready to Consolidate", "Returned"},
           Review(t, decision)
    PROVE  Intake!IntakeNext \/ UNCHANGED <<Told, CarriedOut>>
  <1>1. /\ finals' = finals /\ DOMAIN intake' = DOMAIN intake
        /\ intake[t].review = "Pending Review" /\ intake'[t].review = decision
        /\ \A s \in DOMAIN intake \ {t} : intake'[s] = intake[s]
    BY ReviewEffect DEF AuditInv
  <1>2. operations' = operations
    BY DEF Review
  <1>3. t \in Slots
    BY Rows DEF AuditInv
  <1>4. \A s : Locked(s)' = Locked(s)
    BY <1>1 DEF Locked, SourcesOf, Stage
  <1>5. ~Locked(t) /\ Told[t] = "pending"
    BY <1>1, <1>3, ToldIs
  <1>6. \A s \in Slots \ {t} : Told'[s] = Told[s]
    BY <1>1, <1>4, ToldKept
  <1>7. CASE decision = "Returned"
    <2>1. Told'[t] = "returned"
      <3>1. Told'[t] = IF t \notin DOMAIN intake' THEN "none"
                       ELSE IF intake'[t].review = "Returned" THEN "returned"
                       ELSE IF Locked(t)' THEN "final" ELSE "pending"
        BY <1>3 DEF Told
      <3>. QED
        BY <1>1, <1>7, <3>1
    <2>2. {t} \in SUBSET Slots
      BY <1>3
    <2>. QED
      BY <1>2, <1>5, <1>6, <2>1, <2>2, Decided
  <1>8. CASE decision = "Ready to Consolidate"
    <2>1. Told'[t] = Told[t]
      BY <1>1, <1>3, <1>4, <1>8, ToldKept
    <2>. QED
      BY <1>2, <1>6, <2>1, Untold
  <1>. QED
    BY <1>7, <1>8

\* A consolidation takes reports that were accepted, and locks none of them.
LEMMA ConsolidateIntake ==
    ASSUME AuditInv, AuditInv', NEW f \in FinalReports,
           NEW S \in SUBSET DOMAIN intake, Consolidable(S), Consolidate(f, S),
           finals[f].status \in {"absent", "Returned for Revision"}
    PROVE  UNCHANGED <<Told, CarriedOut>>
  <1>1. /\ DOMAIN intake' = DOMAIN intake
        /\ \A s \in S : intake'[s].review = "Consolidated"
        /\ \A s \in DOMAIN intake \ S : intake'[s] = intake[s]
        /\ SourcesOf(f)' = S /\ finals'[f].status = "Draft"
        /\ \A g \in FinalReports \ {f} : finals'[g] = finals[g]
    BY ConsolidateEffect DEF AuditInv
  <1>2. operations' = operations /\ DOMAIN intake \subseteq Slots
    BY Rows DEF Consolidate, AuditInv
  <1>3. Stage(f) # "Finalized" /\ Stage(f)' = "Draft"
    BY <1>1 DEF Stage
  <1>4. ASSUME NEW s \in Slots, s \in S PROVE Told'[s] = Told[s]
    <2>1. intake[s].review = "Ready to Consolidate" /\ s \in DOMAIN intake
      BY <1>4 DEF Consolidable
    <2>2. ~Locked(s)
      BY <2>1, ToldIs
    <2>3. ~Locked(s)'
      BY <1>1, <1>3, <1>4 DEF AuditInv, SeparateSources, Locked
    <2>4. Locked(s) = FALSE /\ Locked(s)' = FALSE
      BY <2>2, <2>3 DEF Locked
    <2>5. /\ s \in DOMAIN intake'
          /\ intake[s].review # "Returned" /\ intake'[s].review # "Returned"
      BY <1>1, <1>4, <2>1
    <2>. QED
      BY <2>1, <2>4, <2>5, ToldKept
  <1>5. ASSUME NEW s \in Slots, s \notin S PROVE Told'[s] = Told[s]
    <2>1. \A g \in FinalReports :
             (s \in SourcesOf(g) /\ Stage(g) = "Finalized")
               <=> (s \in SourcesOf(g) /\ Stage(g) = "Finalized")'
      <3>1. \A g \in FinalReports \ {f} :
               SourcesOf(g)' = SourcesOf(g) /\ Stage(g)' = Stage(g)
        BY <1>1 DEF SourcesOf, Stage
      <3>. QED
        BY <1>1, <1>3, <1>5, <3>1
    <2>2. Locked(s)' = Locked(s)
      BY <2>1, LockedKept
    <2>. QED
      BY <1>1, <1>5, <2>2, ToldKept
  <1>. QED
    BY <1>2, <1>4, <1>5, Untold

\* A return gives the selected reports back to their enterprises, and leaves
\* the others pending.
LEMMA ReturnIntake ==
    ASSUME AuditInv, NEW f \in FinalReports,
           NEW selected \in SUBSET SourcesOf(f), ReturnFinal(f, selected)
    PROVE  Intake!IntakeNext
  <1>1. /\ DOMAIN intake' = DOMAIN intake
        /\ \A s \in DOMAIN intake \ SourcesOf(f) : intake'[s] = intake[s]
        /\ finals[f].status = "Draft"
        /\ finals'[f].status = "Returned for Revision"
        /\ finals'[f].sources = finals[f].sources
        /\ \A g \in FinalReports \ {f} : finals'[g] = finals[g]
    BY ReturnEffect DEF AuditInv
  <1>2. /\ operations' = operations
        /\ SourcesOf(f) \subseteq DOMAIN intake /\ DOMAIN intake \subseteq Slots
    BY Rows DEF ReturnFinal, AuditInv, SourcesExist
  <1>3. \A s \in SourcesOf(f) :
           intake'[s].review = IF s \in selected THEN "Returned"
                                                 ELSE "Ready to Consolidate"
    <2>1. \A s \in DOMAIN intake, review \in Reviews :
             [intake[s] EXCEPT !.review = review].review = review
      BY Rows DEF IntakeRow, AuditInv
    <2>2. {"Returned", "Ready to Consolidate"} \subseteq Reviews
      BY DEF Reviews
    <2>. QED
      BY <1>2, <2>1, <2>2 DEF ReturnFinal
  <1>4. Stage(f) = "Draft" /\ Stage(f)' = "Returned for Revision"
    BY <1>1 DEF Stage
  <1>5. \A g \in FinalReports : SourcesOf(g)' = SourcesOf(g)
    BY <1>1 DEF SourcesOf
  <1>6. \A g \in FinalReports \ {f} : Stage(g)' = Stage(g)
    BY <1>1 DEF Stage
  <1>7. \A s : Locked(s)' = Locked(s)
    BY <1>4, <1>5, <1>6, LockedKept
  <1>8. \A s \in SourcesOf(f) : /\ intake[s].review = "Consolidated"
                                /\ ~Locked(s) /\ Told[s] = "pending"
    <2>1. \A s \in SourcesOf(f) : intake[s].review = "Consolidated"
      BY <1>4 DEF AuditInv, SourcesMatchStatus
    <2>2. \A s \in SourcesOf(f) : ~Locked(s)
      BY <1>4, SourcesNotLocked
    <2>. QED
      BY <1>2, <2>1, <2>2, ToldIs
  <1>9. ASSUME NEW s \in selected PROVE Told'[s] = "returned"
    <2>1. s \in DOMAIN intake' /\ intake'[s].review = "Returned" /\ s \in Slots
      BY <1>1, <1>2, <1>3
    <2>. QED
      BY <2>1 DEF Told
  <1>10. ASSUME NEW s \in Slots \ selected PROVE Told'[s] = Told[s]
    <2>1. CASE s \in SourcesOf(f)
      BY <1>1, <1>3, <1>7, <1>8, <1>10, <2>1, ToldKept
    <2>2. CASE s \notin SourcesOf(f)
      BY <1>1, <1>7, <1>10, <2>2, ToldKept
    <2>. QED
      BY <2>1, <2>2
  <1>11. selected \in SUBSET Slots
    BY <1>2
  <1>. QED
    BY <1>2, <1>8, <1>9, <1>10, <1>11, Decided

\* A change of status that staff are offered finalizes a draft, or is not told.
LEMMA StatusIntake ==
    ASSUME AuditInv, FreshViews, NEW f \in FinalReports,
           NEW requested \in FinalStatuses, SetStatus(f, requested)
    PROVE  Intake!IntakeNext \/ UNCHANGED <<Told, CarriedOut>>
  <1>1. /\ intake' = intake /\ finals[f] \in FinalRow
        /\ finals[f].status # "absent"
        /\ finals'[f] = StatusChanged(finals[f], requested)
        /\ \A g \in FinalReports : finals'[g].sources = finals[g].sources
        /\ \A g \in FinalReports \ {f} : finals'[g] = finals[g]
    BY StatusEffect DEF AuditInv
  <1>2. /\ operations' = operations /\ requested \in Offered(finals[f])
        /\ SourcesOf(f) \subseteq DOMAIN intake /\ DOMAIN intake \subseteq Slots
    BY Rows DEF SetStatus, AuditInv, SourcesExist
  <1>3. \A g \in FinalReports : SourcesOf(g)' = SourcesOf(g)
    BY <1>1 DEF SourcesOf
  <1>4. \A g \in FinalReports \ {f} : Stage(g)' = Stage(g)
    BY <1>1 DEF Stage
  <1>5. \/ Stage(f)' = Stage(f)
        \/ Stage(f) = "Draft" /\ Stage(f)' = "Finalized"
    <2>1. finals[f].status = "Archived" => finals[f].archivedFrom \in Restorable
      BY DEF AuditInv, ArchivedFromKnown
    <2>2. \/ StageOf(finals'[f]) = StageOf(finals[f])
          \/ StageOf(finals[f]) = "Draft" /\ StageOf(finals'[f]) = "Finalized"
      BY <1>1, <1>2, <2>1, OfferedKeepsStage
    <2>. QED
      BY <2>2 DEF Stage, StageOf
  <1>6. CASE Stage(f)' = Stage(f)
    <2>1. \A s : Locked(s)' = Locked(s)
      BY <1>3, <1>4, <1>6 DEF Locked
    <2>2. \A s \in Slots : Told'[s] = Told[s]
      BY <1>1, <2>1, ToldKept
    <2>. QED
      BY <1>2, <2>2, Untold
  <1>7. CASE Stage(f) = "Draft" /\ Stage(f)' = "Finalized"
    <2>1. \A s \in SourcesOf(f) : /\ intake[s].review = "Consolidated"
                                  /\ ~Locked(s) /\ Told[s] = "pending"
      <3>1. \A s \in SourcesOf(f) : intake[s].review = "Consolidated"
        BY <1>7 DEF AuditInv, SourcesMatchStatus
      <3>2. \A s \in SourcesOf(f) : ~Locked(s)
        BY <1>7, SourcesNotLocked
      <3>. QED
        BY <1>2, <3>1, <3>2, ToldIs
    <2>2. ASSUME NEW s \in SourcesOf(f) PROVE Told'[s] = "final"
      <3>1. Locked(s)'
        BY <1>3, <1>7 DEF Locked
      <3>2. s \in DOMAIN intake' /\ intake'[s].review # "Returned" /\ s \in Slots
        BY <1>1, <1>2, <2>1
      <3>. QED
        BY <3>1, <3>2 DEF Told
    <2>3. ASSUME NEW s \in Slots \ SourcesOf(f) PROVE Told'[s] = Told[s]
      <3>1. Locked(s)' = Locked(s)
        BY <1>3, <1>4, <2>3 DEF Locked
      <3>. QED
        BY <1>1, <3>1, ToldKept
    <2>4. SourcesOf(f) \in SUBSET Slots
      BY <1>2
    <2>. QED
      BY <1>2, <2>1, <2>2, <2>3, <2>4, Decided
  <1>. QED
    BY <1>5, <1>6, <1>7

\* Every request is a step of the intake, or is not told.
LEMMA NextIntake ==
    ASSUME FreshViews, AuditInv, AuditInv', [Next]_vars
    PROVE  Intake!IntakeNext \/ UNCHANGED <<Told, CarriedOut>>
  <1>1. ASSUME NEW f \in FinalReports, NEW S \in SUBSET DOMAIN intake,
               CreateFinal(f, S)
        PROVE  UNCHANGED <<Told, CarriedOut>>
    BY <1>1, ConsolidateIntake DEF CreateFinal
  <1>2. ASSUME NEW f \in FinalReports, Reconsolidate(f)
        PROVE  UNCHANGED <<Told, CarriedOut>>
    <2>1. SourcesOf(f) \in SUBSET DOMAIN intake
      BY DEF AuditInv, SourcesExist
    <2>. QED
      BY <1>2, <2>1, ConsolidateIntake DEF Reconsolidate
  <1>3. ASSUME UNCHANGED vars PROVE UNCHANGED <<Told, CarriedOut>>
    BY <1>3 DEF vars, Told, CarriedOut, Locked, SourcesOf, Stage
  <1>. QED
    BY <1>1, <1>2, <1>3, StoreIntake, ReviewIntake, ReturnIntake, StatusIntake
    DEF Next

\* policies.py and intake.py: with staff who see the present state of final
\* reports, the requests implement the intake that the desktop takes for
\* granted when it destroys raw events: a submission is carried out once, a
\* report is taken again only when it was returned, and a final one is final.
THEOREM WorkflowImplementsIntake ==
    ASSUME FreshViews
    PROVE  Spec => ImplementsIntake
  <1>1. Init => Intake!IntakeInit
    <2>. SUFFICES ASSUME Init PROVE Intake!IntakeInit
      OBVIOUS
    <2>1. intake = Nothing /\ operations = {}
      BY DEF Init
    <2>2. DOMAIN intake = {}
      BY <2>1 DEF Nothing
    <2>3. Told = [s \in Slots |-> "none"]
      BY <2>2 DEF Told
    <2>4. CarriedOut = {}
      BY <2>1 DEF CarriedOut
    <2>. QED
      BY <2>3, <2>4 DEF Intake!IntakeInit, Intake!Slots, Slots
  <1>2. AuditInv /\ AuditInv' /\ [Next]_vars =>
          [Intake!IntakeNext]_<<Told, CarriedOut>>
    BY NextIntake
  <1>3. Spec => []AuditInv
    BY AuditHolds
  <1>. QED
    BY <1>1, <1>2, <1>3, PTL DEF Spec, ImplementsIntake, Intake!IntakeSpec
=============================================================================
