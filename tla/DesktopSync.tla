---------------------------- MODULE DesktopSync ----------------------------
(***************************************************************************)
(* How the desktop delivers the reports of an enterprise: the page with    *)
(* its session (desktop-tanaw/src: features/login, features/sync,          *)
(* features/reports, app/layouts/EnterpriseShell.tsx), the ledgers of the  *)
(* local ML service (ml-service: local_data_store.py), which is bound to   *)
(* one enterprise at a time, and the backend that accepts the reports.     *)
(*                                                                         *)
(* A page submits into the ledger that is bound, and flows of calls send   *)
(* what is pending there to the backend: the loop that runs periodically,  *)
(* and a flow of its own after each submission.  Nothing ties a flow to    *)
(* the session it began in: each of its calls takes the token and the      *)
(* ledger of its own moment, and so may outlive a logout.                  *)
(***************************************************************************)
EXTENDS Integers, Sequences, Selection

CONSTANTS
    Enterprises,
    NoEnterprise,    \* the ledger of an ML service that is not bound
    Reports,         \* report ids, each with a reporting period of its own
    Flows,           \* flows that may run at one time
    MaxSubmissions,  \* bound: submissions, numbered as they are made
    MaxLogins,       \* bound: logins; the number of one is its token
    MaxFaults        \* bound: calls that fail or lose their answer, tokens
                     \* that expire, reloads, restarts of the ML service

ASSUME DesktopAssumption ==
    /\ NoEnterprise \notin Enterprises
    /\ MaxSubmissions \in Nat /\ MaxLogins \in Nat /\ MaxFaults \in Nat

VARIABLES
    logins,    \* the enterprise that each token was given to
    valid,     \* the tokens that the backend accepts
    token,     \* of the page; 0: nobody is logged in
    ready,     \* mlContextReady of the page
    view,      \* reportsHistory of the page
    coming,    \* a history that was read and is not shown yet
    bound,     \* the enterprise whose ledger the ML service uses
    binds,     \* tokens of pages whose request to bind is under way
    ledger,    \* report_submissions of each enterprise, the newest first
    flow,      \* the flows of calls
    intake,    \* the backend: the reports of each enterprise
    carried,   \* the backend: the submissions that were carried out
    refused,   \* history: the backend has refused a submission
    author,    \* history: the enterprise that made each submission
    faults

session == <<logins, valid, token, ready, view, coming>>
service == <<bound, binds, ledger>>
cloud == <<intake, carried, refused>>
bounds == <<author, faults>>
vars == <<session, service, flow, cloud, bounds>>

Tokens == 1 .. MaxLogins
Submissions == 1 .. MaxSubmissions
Ledgers == Enterprises \cup {NoEnterprise}
Rows == [report: Reports, submission: Submissions, again: BOOLEAN,
         synced: BOOLEAN, purged: BOOLEAN]
Histories == [Reports -> {"none", "locked", "returned"}]
Answers == {"none", "ok", "refused", "denied", "lost"}
Places == {"list", "send", "sent", "mark", "purge", "drop"}

\* A flow that does not run; and one that does: the loop, for all reports, or
\* that of a submission, for one.
Idle == [pc |-> "idle"]
Flow == [pc: Places, loop: BOOLEAN, only: SUBSET Reports, page: Tokens,
         todo: Seq(Rows), token: {0} \cup Tokens, answer: Answers]

TypeOK ==
    /\ logins \in Seq(Enterprises) /\ Len(logins) <= MaxLogins
    /\ valid \subseteq DOMAIN logins /\ token \in {0} \cup DOMAIN logins
    /\ ready \in BOOLEAN /\ view \in Histories
    /\ coming \in Histories \cup {<<>>}
    /\ bound \in Ledgers /\ binds \subseteq DOMAIN logins
    /\ ledger \in [Ledgers -> Seq(Rows)]
    /\ \A e \in Ledgers : \A i, j \in DOMAIN ledger[e] :
         i < j => /\ ledger[e][i].report # ledger[e][j].report
                  /\ ledger[e][i].submission > ledger[e][j].submission
    /\ flow \in [Flows -> {Idle} \cup Flow]
    /\ intake \in [Enterprises -> [Reports -> {"none", "pending", "returned",
                                               "final"}]]
    /\ carried \subseteq Enterprises \X Submissions
    /\ refused \in BOOLEAN /\ author \in Seq(Enterprises)
    /\ faults \in 0 .. MaxFaults

Blank == [r \in Reports |-> "none"]

Init ==
    /\ logins = <<>> /\ valid = {} /\ token = 0 /\ ready = FALSE
    /\ view = Blank /\ coming = <<>>
    /\ bound = NoEnterprise /\ binds = {}
    /\ ledger = [e \in Ledgers |-> <<>>]
    /\ flow = [f \in Flows |-> Idle]
    /\ intake = [e \in Enterprises |-> Blank]
    /\ carried = {} /\ refused = FALSE /\ author = <<>>
    /\ faults = 0

-----------------------------------------------------------------------------
(* The session of the page and the binding of the ML service.              *)

\* The page of a session, or with 0 the one without; logout, and the answer
\* 401 by way of the interceptor of axios, end the session there is.
Mount(t) == /\ token' = t /\ ready' = FALSE /\ view' = Blank /\ coming' = <<>>

Accident == faults < MaxFaults /\ faults' = faults + 1

Login(e) ==
    /\ token = 0 /\ Len(logins) < MaxLogins
    /\ logins' = Append(logins, e)
    /\ LET t == Len(logins) + 1 IN
         /\ valid' = valid \cup {t} /\ Mount(t) /\ binds' = binds \cup {t}
    /\ UNCHANGED <<bound, ledger, flow, cloud, bounds>>

\* handleLogout: the backend forgets the token, or cannot be reached.
Logout ==
    /\ token # 0 /\ Mount(0)
    /\ \/ valid' = valid \ {token} /\ UNCHANGED faults
       \/ Accident /\ UNCHANGED valid
    /\ UNCHANGED <<logins, service, flow, cloud, author>>

Expire(t) ==
    /\ t \in valid /\ valid' = valid \ {t}
    /\ Accident
    /\ UNCHANGED <<logins, token, ready, view, coming>>
    /\ UNCHANGED <<service, flow, cloud, author>>

\* A page that is loaded again: its calls have no one to come back to.
Reload ==
    /\ token # 0 /\ Accident
    /\ Mount(token) /\ binds' = binds \cup {token}
    /\ flow' = [f \in Flows |-> Idle]
    /\ UNCHANGED <<logins, valid, bound, ledger, cloud, author>>

\* setMlEnterpriseContext: the requests are served in any order.
Bind(t) ==
    /\ t \in binds /\ binds' = binds \ {t} /\ bound' = logins[t]
    /\ ready' = (ready \/ t = token)
    /\ UNCHANGED <<logins, valid, token, view, coming>>
    /\ UNCHANGED <<ledger, flow, cloud, bounds>>

\* The service is started again: it is not bound, and the page does not know.
RestartService ==
    /\ Accident
    /\ bound' = NoEnterprise /\ binds' = {}
    /\ UNCHANGED <<session, ledger, flow, cloud, author>>

-----------------------------------------------------------------------------
(* The ledger.                                                             *)

RowsOf(e) == {ledger[e][i] : i \in DOMAIN ledger[e]}
RowOf(e, r) == Those(ledger[e], {row \in RowsOf(e) : row.report = r})
\* Mutant: a correction is not what the list calls pending.
PendingNew(e) ==
    Those(ledger[e], {row \in RowsOf(e) : ~row.synced /\ ~row.again})
Pending(e) == Those(ledger[e], {row \in RowsOf(e) : ~row.synced})

Flag(e, flag, rows) ==
    ledger' = [ledger EXCEPT ![e] =
                 [i \in DOMAIN @ |-> IF @[i] \in rows
                                       THEN [@[i] EXCEPT ![flag] = TRUE]
                                       ELSE @[i]]]

NewRow(r, again) ==
    LET old == RowOf(bound, r)
    IN [report |-> r, submission |-> Len(author) + 1, again |-> again,
        synced |-> FALSE, purged |-> old # <<>> /\ Head(old).purged]

\* Mutant: an insertion, whether there is a row of the report or not.
Insert(r, again) ==
    ledger' = [ledger EXCEPT ![bound] = <<NewRow(r, again)>> \o @]
\* record_report_submission: the row of the report is replaced, at the top.
Record(r, again) ==
    LET others == {row \in RowsOf(bound) : row.report # r}
    IN  ledger' = [ledger EXCEPT ![bound] =
                     <<NewRow(r, again)>> \o Those(@, others)]

\* Mutant: whatever submission of the report was sent.
MarkReport(row) ==
    Flag(bound, "synced", {x \in RowsOf(bound) : x.report = row.report})
\* mark_report_synced
Mark(row) ==
    Flag(bound, "synced", {x \in RowsOf(bound) : /\ x.report = row.report
                                                 /\ x.submission = row.submission})

\* purge_report_raw_events
Purge(row) ==
    Flag(bound, "purged", {x \in RowsOf(bound) : x.report = row.report})

-----------------------------------------------------------------------------
(* The page of reports.                                                    *)

\* mergeReportHistory: what is pending here hides the status over there.
Shown(e, r) ==
    LET here == RowOf(bound, r) IN
    IF here # <<>> /\ ~Head(here).synced THEN "locked"
    ELSE IF e # NoEnterprise /\ intake[e][r] # "none"
      THEN IF intake[e][r] = "returned" THEN "returned" ELSE "locked"
      ELSE IF here # <<>> THEN "locked" ELSE "none"

\* refreshLocalReports: with the cloud's history, or without when it fails.
Refresh ==
    /\ token # 0 /\ ready /\ coming = <<>>
    /\ \/ /\ token \in valid
          /\ coming' = [r \in Reports |-> Shown(logins[token], r)]
          /\ UNCHANGED <<token, ready, view, faults>>
       \/ token \notin valid /\ Mount(0) /\ UNCHANGED faults
       \/ /\ Accident
          /\ coming' = [r \in Reports |-> Shown(NoEnterprise, r)]
          /\ UNCHANGED <<token, ready, view>>
    /\ UNCHANGED <<logins, valid>>
    /\ UNCHANGED <<service, flow, cloud, author>>

Show ==
    /\ coming # <<>> /\ view' = coming /\ coming' = <<>>
    /\ UNCHANGED <<logins, valid, token, ready, service, flow, cloud, bounds>>

Start(f, loop, only) ==
    /\ flow[f] = Idle /\ f = CHOOSE g \in Flows : flow[g] = Idle
    /\ flow' = [flow EXCEPT ![f] =
                  [pc |-> "list", loop |-> loop, only |-> only, page |-> token,
                   todo |-> <<>>, token |-> 0, answer |-> "none"]]

\* Flows of the mounted page: its loop, or its submission.
Mine(loop) == {f \in Flows : /\ flow[f] # Idle /\ flow[f].page = token
                             /\ flow[f].loop = loop}

\* executeSubmit, up to the call that sends the report: a new one, or one
\* that was returned.
Submit(f, r) ==
    /\ token # 0 /\ ready /\ Mine(FALSE) = {}
    /\ Len(author) < MaxSubmissions /\ author' = Append(author, logins[token])
    /\ \/ view[r] = "none" /\ RowOf(bound, r) = <<>> /\ Record(r, FALSE)
       \/ view[r] = "returned" /\ Record(r, TRUE)
    /\ Start(f, FALSE, {r})
    /\ UNCHANGED <<session, bound, binds, cloud, faults>>

\* Mutant: nothing is done unless something is pending.
LoopWhilePending(f) ==
    /\ token # 0 /\ ready /\ Mine(TRUE) = {} /\ Start(f, TRUE, Reports)
    /\ Pending(bound) # <<>>
    /\ UNCHANGED <<session, service, cloud, bounds>>
\* runReportSync, every 20 seconds while the page is there.
Loop(f) ==
    /\ token # 0 /\ ready /\ Mine(TRUE) = {} /\ Start(f, TRUE, Reports)
    /\ UNCHANGED <<session, service, cloud, bounds>>

-----------------------------------------------------------------------------
(* The steps of a flow, from one call to the next.                         *)

At(f, place) == flow[f] # Idle /\ flow[f].pc = place
Goto(f, place, todo) ==
    flow' = [flow EXCEPT ![f].pc = place, ![f].todo = todo,
                         ![f].token = 0, ![f].answer = "none"]

\* A submission that has been sent, or not, is shown as submitted.
Ends(f) ==
    /\ flow' = [flow EXCEPT ![f] = Idle]
    /\ view' = [r \in Reports |->
                  IF /\ ~flow[f].loop /\ r \in flow[f].only
                     /\ flow[f].page = token
                    THEN "locked" ELSE view[r]]

\* listLocalReportSubmissions, of what is pending.
List(f) ==
    /\ At(f, "list")
    /\ LET todo == Those(Pending(bound),
                      {row \in RowsOf(bound) : row.report \in flow[f].only})
       IN IF todo = <<>> /\ ~flow[f].loop
            THEN Ends(f)
            ELSE /\ Goto(f, IF todo = <<>> THEN "purge" ELSE "send", todo)
                 /\ UNCHANGED view
    /\ UNCHANGED <<logins, valid, token, ready, coming, service, cloud, bounds>>

\* The token is that of the page at this moment.
Send(f) ==
    /\ At(f, "send")
    /\ flow' = [flow EXCEPT ![f].pc = "sent", ![f].token = token]
    /\ UNCHANGED <<session, service, cloud, bounds>>

Known(e, row) == <<e, row.submission>> \in carried
Welcome(e, row) ==
    intake[e][row.report] = (IF row.again THEN "returned" ELSE "none")

(* The backend: ingest_report_submission, with its idempotency.  The       *)
(* answer may be lost, and so may the request.                             *)
Serve(f) ==
    /\ At(f, "sent") /\ flow[f].answer = "none"
    /\ LET row == Head(flow[f].todo)
           t == flow[f].token
           Answer(a) ==
             \/ flow' = [flow EXCEPT ![f].answer = a] /\ UNCHANGED faults
             \/ /\ Accident
                /\ flow' = [flow EXCEPT ![f].answer = "lost"]
       IN \/ t \notin valid /\ Answer("denied") /\ UNCHANGED cloud
          \/ /\ t \in valid
             /\ LET e == logins[t] IN
                  \/ Known(e, row) /\ Answer("ok") /\ UNCHANGED cloud
                  \/ /\ ~Known(e, row) /\ Welcome(e, row) /\ Answer("ok")
                     /\ carried' = carried \cup {<<e, row.submission>>}
                     /\ intake' = [intake EXCEPT ![e][row.report] = "pending"]
                     /\ UNCHANGED refused
                  \/ /\ ~Known(e, row) /\ ~Welcome(e, row)
                     /\ Answer("refused") /\ refused' = TRUE
                     /\ UNCHANGED <<intake, carried>>
    /\ UNCHANGED <<session, service, author>>

Accepted(f) == flow[f].answer = "ok"

\* The answer; one that is not good ends the flow.
Receive(f) ==
    /\ At(f, "sent") /\ flow[f].answer # "none"
    /\ IF Accepted(f)
         THEN Goto(f, "mark", flow[f].todo) /\ UNCHANGED session
         ELSE /\ UNCHANGED <<logins, valid>>
              /\ IF flow[f].answer = "denied"
                   THEN flow' = [flow EXCEPT ![f] = Idle] /\ Mount(0)
                   ELSE Ends(f) /\ UNCHANGED <<token, ready, coming>>
    /\ UNCHANGED <<service, cloud, bounds>>

\* markLocalReportSynced, and on to the next report.
MarkSynced(f) ==
    /\ At(f, "mark") /\ Mark(Head(flow[f].todo))
    /\ LET rest == Tail(flow[f].todo)
       IN Goto(f, IF rest = <<>> THEN "purge" ELSE "send", rest)
    /\ UNCHANGED <<session, bound, binds, cloud, bounds>>

\* Mutant: whatever has been accepted for review.
AcceptedReports(e) == {r \in Reports : intake[e][r] \in {"pending", "final"}}
\* The reports of an enterprise that are part of a locked final report.
LockedReports(e) == {r \in Reports : intake[e][r] = "final"}

\* purgeFinalizedLocalReportRawData: what both sides list.
ListFinal(f) ==
    /\ At(f, "purge")
    /\ LET todo == Those(ledger[bound],
                      {row \in RowsOf(bound) :
                          /\ ~row.purged
                          /\ row.report \in LockedReports(logins[token])})
       IN IF token \notin valid
            THEN flow' = [flow EXCEPT ![f] = Idle] /\ Mount(0)
            ELSE /\ UNCHANGED <<token, ready, coming>>
                 /\ IF todo = <<>> THEN Ends(f)
                                   ELSE Goto(f, "drop", todo) /\ UNCHANGED view
    /\ UNCHANGED <<logins, valid, service, cloud, bounds>>

Drop(f) ==
    /\ At(f, "drop") /\ Purge(Head(flow[f].todo))
    /\ LET rest == Tail(flow[f].todo)
       IN IF rest = <<>> THEN Ends(f)
                         ELSE Goto(f, "drop", rest) /\ UNCHANGED view
    /\ UNCHANGED <<logins, valid, token, ready, coming, bound, binds, cloud, bounds>>

\* A call to the local service fails, and the flow ends.
Fail(f) ==
    /\ flow[f] # Idle /\ flow[f].pc \in {"list", "mark", "purge", "drop"}
    /\ Accident /\ Ends(f)
    /\ UNCHANGED <<logins, valid, token, ready, coming>>
    /\ UNCHANGED <<service, cloud, author>>

Step(f) == \/ List(f) \/ Send(f) \/ Serve(f) \/ Receive(f)
           \/ MarkSynced(f) \/ ListFinal(f) \/ Drop(f)

\* The staff review a report, and consolidate it into a final one.
Decide(e, r) ==
    /\ intake[e][r] = "pending"
    /\ \E review \in {"returned", "final"} :
         intake' = [intake EXCEPT ![e][r] = review]
    /\ UNCHANGED <<session, service, flow, carried, refused, bounds>>

Next ==
    \/ \E e \in Enterprises : Login(e) \/ \E r \in Reports : Decide(e, r)
    \/ Logout \/ Reload \/ RestartService
    \/ \E t \in Tokens : Bind(t) \/ Expire(t)
    \/ Refresh \/ Show
    \/ \E f \in Flows : \/ \E r \in Reports : Submit(f, r)
                        \/ Loop(f) \/ Step(f) \/ Fail(f)

Spec == Init /\ [][Next]_vars

(* The loop is run by a timer, and calls come to an end.  Nothing is       *)
(* assumed of the user, and no more of the staff.                          *)
Fairness ==
    /\ WF_vars(\E f \in Flows : Loop(f))
    /\ \A f \in Flows : WF_vars(Step(f))
    /\ \A t \in Tokens : WF_vars(Bind(t))

FairSpec == Spec /\ Fairness

-----------------------------------------------------------------------------
(* What the ledger calls synchronised has reached the backend, in exactly  *)
(* that version: a late answer to a submission that was corrected since,   *)
(* or one that was lost, must not count for its successor.                 *)
SyncedIsCarriedOut ==
    \A e \in Ledgers : \A row \in RowsOf(e) :
        row.synced => \E b \in Enterprises : <<b, row.submission>> \in carried

(* The raw events of a report are kept until a final report has it for     *)
(* good, whichever session lists the reports and whichever the finals.     *)
PurgedIsFinal ==
    \A e \in Ledgers : \A row \in RowsOf(e) :
        row.purged => \E b \in Enterprises : intake[b][row.report] = "final"

(* A session that lasts: the backend accepts it and the ledger is bound.   *)
Stable == token # 0 /\ token \in valid /\ ready /\ bound = logins[token]

(* What was submitted reaches the backend, through lost answers, reloads   *)
(* and logouts, once a session lasts and nothing has been refused.         *)
PendingIsSent ==
    <>[](Stable /\ ~refused) => <>[](\A row \in RowsOf(bound) : row.synced)

(* ... and the raw events of what is final go away in the end.             *)
FinalIsPurged ==
    <>[](Stable /\ ~refused) =>
      []<>(\A row \in RowsOf(bound) :
             bound # NoEnterprise /\ intake[bound][row.report] = "final"
               => row.purged)

(* README.md:759: "Desktop records are separate from PostgreSQL and are    *)
(* scoped by enterprise."  A report is in the ledger of the enterprise     *)
(* that made it, and the backend has it from that enterprise.              *)
ScopedByEnterprise ==
    /\ \A e \in Ledgers : \A row \in RowsOf(e) : author[row.submission] = e
    /\ \A c \in carried : author[c[2]] = c[1]

-----------------------------------------------------------------------------
(* What an enterprise relies on: ReportDelivery.                           *)

Told == [s \in Enterprises \X Reports |-> intake[s[1]][s[2]]]
Entries == [e \in Ledgers |-> RowsOf(e)]

Promise == INSTANCE ReportDelivery WITH
    Periods <- Reports, status <- Told, entries <- Entries, made <- Len(author)

(* Page, sessions, flows, ledgers and intake together keep that promise,   *)
(* whichever ledger is bound and whichever token is sent.                  *)
ImplementsReportDelivery == Promise!Spec
=============================================================================
