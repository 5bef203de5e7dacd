# TANAW in TLA+

TANAW counts the visitors of enterprises with cameras, turns the counts into
reports per period, and lets the staff of a local government unit (LGU) review
and consolidate them. It has three programs: a FastAPI backend on PostgreSQL
(`src/backend-tanaw`), a React portal for the LGU (`src/frontend-tanaw`), and an
Electron application with a Python service for the cameras on the computer of
each enterprise (`src/desktop-tanaw`).

This directory holds TLA+ models of the parts whose correctness depends on the
order of things: what several processes, people, networks and crashes do between
two transactions. The models are translated from the code; `PROJECT.json` maps
each definition to the lines it stands for. TLC checks the models on small
instances, and TLAPS proves the most important results for every instance.

| Module | Models | Checked by | Proved |
| --- | --- | --- | --- |
| `EmailOutbox` | the e-mail outbox, its worker and the mail provider | `window`, `liveness` | all safety, and the refinement, in `EmailOutbox_proofs` |
| `EmailDelivery` | what the outbox promises whoever sends mail | refined by `EmailOutbox` in `window` | `OutboxImplementsDelivery` in `EmailOutbox_proofs` |
| `ReportWorkflow` | submissions, review, consolidation and audit of reports | `audit`, `stale_restore` | `TypeCorrect`, `SnapshotsAreCurrent`, `AcceptedOnly`, `SourcesFollowStatus`, `FinalizedStays`, `SubmittedOnce`, and the refinement, in `ReportWorkflow_proofs` |
| `ReportIntake` | what the backend promises an enterprise of its reports | refined by `ReportWorkflow` and, through `ReportDelivery`, by `DesktopSync` | `WorkflowImplementsIntake` in `ReportWorkflow_proofs` |
| `RealtimeDelivery` | how a change of the database reaches the pages | `updates`, `shared` | all safety, and the refinement, in `RealtimeDelivery_proofs` |
| `PageViews` | what the updates promise a page | refined by `RealtimeDelivery` | `DeliveryImplementsViews` in `RealtimeDelivery_proofs` |
| `LiveEventStream` | the desktop's websocket to its local service | with `ServiceSupervisor` | `SingleSocket` in `ServiceSupervisor_proofs` |
| `ServiceSupervisor` | how the desktop runs its local service, with the stream | `supervisor` | all safety, in `ServiceSupervisor_proofs` |
| `DesktopSync` | sessions, the local ledger and the delivery of reports | `desktop_sync`, `desktop_scope` | all safety, and the refinement, in `DesktopSync_proofs` |
| `ReportDelivery` | what the desktop promises its enterprise, on top of `ReportIntake` | refined by `DesktopSync` | `SyncImplementsDelivery` in `DesktopSync_proofs` |
| `CameraRegistry` | starts and stops of cameras inside the local service | `camera_registry`, `camera_removed` | all safety, in `CameraRegistry_proofs` |
| `CameraControl` | the camera page, on top of `CameraRegistry` | `camera_control` | all safety, for a user who waits, and that of the registry for any, in `CameraControl_proofs` |
| `Selection` | the rows that a query returns, the elements that a filter keeps | used by `RealtimeDelivery`, `DesktopSync` | what its operators return, in `Selection_proofs` |

The modules `MC...` give the constants their values for TLC. To check a run,
`tlc -workers 2 -config EmailOutbox_window.cfg MCEmailOutbox`; to check the
proofs, `tlapm EmailOutbox_proofs.tla`.


# 1. Inventory

## Units of concurrency

* A request to the backend is one unit of work: `get_db` (`db/session.py`) opens
  a transaction, commits it when the route returns and rolls it back when it
  raises. Rows that a decision depends on are read `FOR UPDATE`.
* Background loops of each backend process (mail worker, realtime outbox and
  subscriber, retention) own their transactions. Several processes may run.
* A portal or desktop page is a process of its own: it acts on what it last
  fetched, reconnects when its websocket breaks, and repeats requests.
* The desktop's camera service runs several threads per camera, an asyncio loop
  for its HTTP interface, and a SQLite ledger. The Electron main process starts,
  watches and stops it.

## Components

Each component is listed with its state, its operations, whom it talks to, what
is hard about it, and what makes it correct. `PROJECT.json` lists the same
components with their files and how much of each is modelled.

**E-mail outbox and worker** (`backend-tanaw/app/features/mail`). State: the rows
of `email_outbox` (status, attempts, lease token and expiry, payload hash, time of
the first attempt, whether the last outcome is known) and
`email_delivery_attempts`. Operations: a business transaction enqueues a row or
cancels those of a source; the worker claims rows in batches, renders, prepares,
sends and records; IT retries by hand. It talks to the provider (Brevo), which
forgets idempotency keys after 30 minutes, and to notifications. Hard: leases
that expire under a live dispatch, lost answers, crashes between two of five
transactions, cut-offs measured on clocks. Correct: nobody is mailed twice,
nothing is sent for a cancelled source, no row is written by a dispatch that has
lost its lease, every message is settled.

**Reporting** (`backend-tanaw/app/features/reporting`). State: operations already
carried out (`report_submission_operations`), submissions
(`enterprise_report_submissions`), final reports and the snapshots of their
sources. Operations: submit, resubmit, review, consolidate, consolidate again,
return for revision, finalize, archive, restore. It is used by the desktop's
synchronisation and the portal, and writes notifications and mail. Hard: requests
from pages that are out of date, repeated submissions, and long sequences of legal
requests. Correct: a final report shows the accepted and current figures of its
sources, and stays finalized.

**Realtime updates** (`backend-tanaw/app/features/realtime`, the trigger
`tanaw_capture_realtime_event` of `alembic/versions/0001_initial_tanaw_schema.py`,
`frontend-tanaw/src/shared/realtime`, a near-identical client in the desktop).
State: `realtime_outbox`; per process a `LISTEN` connection, a queue of
notifications and a queue per websocket; per page the last sequence number of each
ordering key and its requests under way. Hard: everything can be lost, dropped,
reordered or cut off. Correct: every connected page comes to show what was
committed, and never goes back.

**Accounts and credentials** (`features/auth`, `features/accounts`). State: user
accounts (status, password, token version), challenges (activation links, recovery
codes, changes of address), rate windows, sign-in lock-outs. Operations: issue,
supersede, attempt, consume, expire. Issues mail through the outbox, and cancels it
when a challenge ends. Hard: single use under concurrent attempts, one live
challenge per account, opposite lock orders, boundaries of windows. Not modelled.

**Monitoring** (`features/monitoring`). Telemetry snapshots open, keep and resolve
visitor alerts, while staff acknowledge them. Hard: two snapshots at one time both
find no open alert; the two thresholds of the hysteresis must not meet. Not
modelled.

**Support, notifications, activity logs, dashboard, sample data** (`features/...`).
A ticket is guarded by one row lock and has three states; the others append rows or
summarise them. Not modelled.

**Retention** (`features/maintenance`). Deletes what is settled and old, in seven
transactions, while others refer to the same rows. Not modelled: it deletes what has
been settled for months.

**Camera service** (`desktop-tanaw/ml-service`). *Registry* (`camera/pipeline_manager.py`):
which cameras are requested, starting and running, under two locks, within a
capacity. *Pipeline* (`camera/camera_manager.py`, `capture_worker.py`,
`reid/async_worker.py`): sessions, three threads, entries that wait for an identity.
*Counting* (`counting/tripwire_counter.py`): one automaton per track.
*Ledger* (`storage/`): reports, whether they were sent, and whether their raw events
are still there, in a database per enterprise. Hard: a start that waits while it is
replaced, cancelled or removed; results of a session that has ended; figures computed
before the transaction that fixes what they are of. Detection and re-identification
are numeric and out of reach.

**Camera page** (`desktop-tanaw/src/features/camera`). State: the action, deadline,
error and status shown of each camera, and the last states read. Operations: start,
stop, save, delete, restart the service, poll. Hard: requests given up by the page
and served later, states shown after an answer they are older than. Correct: no
button hangs, no false alarm, the page comes to show what the service has.

**Desktop synchronisation** (`desktop-tanaw/src/features/sync`, with the session in
`features/login` and the submission in `features/reports`). State: the token, whether
the local service is bound to the enterprise, the merged history, flows of calls.
Operations: login, logout, bind, submit, resubmit, send, mark, purge. It talks to the
ledger and the backend. Hard: a correction made while its predecessor is being sent,
flows that outlive their session, lost answers, restarts of the local service.
Correct: what counts as sent was carried out, raw events go only when a final report
is locked, everything pending is sent in the end.

**Supervisor and live stream** (`desktop-tanaw/electron`). State: the child process,
whether another one was adopted, an error, a queue of operations, one websocket.
Operations: start, restart, shutdown, and the events of children and sockets. Hard:
late exits, a port that somebody else takes, time limits that end either way.
Correct: no child is lost or left behind, nobody else is ended, the quit ends, the
stream comes back.

**Portal and desktop pages, build and deployment.** Presentation and tooling. Two
pieces of the portal matter to correctness and are modelled: which actions the page
of a final report offers, and the realtime client.

## Hazards

`PROJECT.json` lists, at the line where each bites, what in this code is hard to
test, with the properties that cover it. Three of them are left without a property,
for the reason given there: an adopted service that ends unnoticed, queries that a
reconnection does not refresh, and buttons pressed while a request is under way.

More were seen while reading, in parts or at a level that is not modelled, and would
be the reason for the next models:

* `mail`: an expired lease is reclaimed without a test of the attempt ceiling; a
  failure is committed before its notification; the outcome of a later attempt
  overwrites that an earlier one was ambiguous.
* `reporting`: consolidating again and returning lock the same rows in opposite orders
  (PostgreSQL aborts one of the two); two first submissions for one period both find no
  row; the page sends every ready report of a period, so that a returned final report
  cannot be consolidated again once another one is ready.
* `auth`: a reset of a password and a change of the account lock in opposite orders; an
  activation link is used while a newer one is issued. `monitoring`: two snapshots both
  find no open alert (`alerts.py:245`).
* ledger: the figures of a report are computed before the transaction that assigns the
  open events to it (`local_data_store.py:550`); events counted after the metrics were
  read are marked as synchronised with them (`cloud-sync.ts:129`); the id of a report is
  the last six digits of the clock (`useReportsWorkspace.ts:228`).
* camera pipeline: an event is named after a counter read late (`camera_manager.py:1446`);
  frames and errors of a session that has ended arrive in the next one (`:1409`); a
  start that is requested while the enterprise changes (`pipeline_manager.py:105`).


# 2. Plan

The order puts first what the users of TANAW would miss most.

1. `EmailOutbox`, refining `EmailDelivery`. *Done, with the refinement proved.*
2. `ReportWorkflow`, one action per request. *Done, with `ReportIntake` as its promise.*
3. `RealtimeDelivery`. *Done, with its safety proved and `PageViews` as its promise.*
4. `ServiceSupervisor` with `LiveEventStream`. *Done, with its safety proved.*
5. `DesktopSync`: the other end of `ReportWorkflow`. *Done, with its safety proved and
   `ReportDelivery` as its promise.* It has the intake as a small automaton of its own: of
   the workflow it needs only whether a report is pending, returned or final. That this is
   all an enterprise sees of the workflow is `ReportIntake`, which both modules are proved
   to implement.
6. `CameraRegistry`, and `CameraControl` on top of it. *Done, with the safety of both
   proved.*

Candidates for later models: the locks inside the requests of `ReportWorkflow`; the
threads of a camera and the events they leave; challenges of accounts; visitor alerts.

Every invariant and action property of the passing runs is stated by a theorem, and four
components are proved to implement a specification that fits on a page. What could still
be proved: such a specification for `ServiceSupervisor` and for `CameraRegistry`; and the
page of `CameraControl` with a hasty user, once requests of one camera and kind are told
apart in the model.


# 3. The e-mail outbox

## What the model says

One action of `EmailOutbox` is one transaction of the code or one exchange with the
provider. The transactions of one dispatch (`worker.py`, `_dispatch_claim`) are the
steps of a record `dispatch[d]`:

| Step | Code | Actions |
| --- | --- | --- |
| `claimed` | `_claim_email_batch` committed | `Claim`; then `Expire`, `RenderCancelled`, `Render` |
| `rendered` | content exists, nothing was sent | `Misconfigured`, `RefuseAttempt`, `StartAttempt` (`_prepare_provider_attempt`) |
| `sending` | waiting for the provider | `Accept`, `Decline`, `Interrupted` |
| `succeeded`, `cancelled`, `failed` | an outcome has to be recorded | `RecordSuccess`, `RecordCancelled`, `RecordFailure` |
| `notify`, `resolve` | a notification transaction follows | `Notify`, `Resolve` |

`Fenced` is what each recording transaction does when the lease token of the row is
no longer its own. `Abandon` ends a dispatch anywhere: the process dies, a
notification fails and is only logged, or the recording transaction raises. The
business side is `Enqueue`, `CancelSource`, `SourceLapses` and `ManualRetry`.

Some decisions that are easy to miss:

* `cancel_pending_source_emails` runs two `UPDATE` statements, and under READ
  COMMITTED each sees the rows as they are when it starts. A row that changes from
  being processed to waiting between the two is missed by both. `CancelSource` has
  that outcome as a disjunct (`MissedByCancel`); nothing wrong follows, since the
  dispatch looks at the source again before it sends.
* `_prepare_provider_attempt` refuses for four reasons in a fixed order, each with its
  own final status; `Refusals` is that order.
* The lease token is a `uuid4`; the attempt number stands for it, which is as fresh,
  because a claim always counts.
* The provider is external and modelled from how `client.py` reads its answers: it
  remembers a key for `Window` after it accepted it, answers a repeated key with
  "duplicate", may refuse or throttle anything, and answers may be lost.
* `Payloads` are hashes of what a message may render to. Two renderings may differ,
  because templates and settings can change.

## What is checked

* `window` - two dispatches, one message, a manual retry, a lost answer or a crash.
  `AtMostOneDelivery`, `AttemptsInOrder`, `NoAttemptAfterCancel`, `SettledIsFinal`,
  `LastOutcomeNotDenied` (a row does not deny what its last attempt may have done), and
  `ImplementsDelivery`: the outbox implements `EmailDelivery` under the refinement
  mapping at the end of the module.
* `liveness` - one dispatch, a dated and a local message, two renderings, a slow network
  and a crash. `OneKeyOnePayload`, `DeliveredWhileValid`, and `Settles`: every enqueued
  message is settled.

*Bounds.* A unit of time is about two minutes of the configured values, and their
order is kept: request timeout and lease up to the margin, margin below the window.
The last instant lies beyond the window after the first attempt, so keys are
forgotten while requests are retried. Two attempts and a manual retry give three
claims of one row: one that loses its lease, one that takes over, one that is late
for both. A second message would add nothing to `window`, for the only thing messages
share is the dispatchers; in `liveness` there are two, one of them local.
`MaxFaults` bounds crashes, and `EnqueueBy` and `MaxManualRetries` what users do.
`CHECK_DEADLOCK FALSE` is needed because the clock is bounded: when time is over and
all is settled, nothing is left to do.

*Fairness.* Weak fairness of each dispatch, of the network and of the clock: the
worker loop does not stop by itself, `httpx` has a timeout so that every request is
answered or fails, and time passes. Users, sources and faults are never obliged to
act. `Prompt = TRUE` adds that the clock does not run away from the worker, since
polling (1 s) and the request timeout (10 s) are small against the lease (120 s)
and the delays (30 s up); `window` does without.

## What is proved

`TypeCorrect`: the type invariant, for any messages, dispatchers, schedules and
times. The inductive invariant `TypeInv` adds `Counted`: a row that was ever claimed
has counted an attempt, which keeps the index into the retry schedule in its range.

`DeliveredAtMostOnce`: `Spec => []AtMostOneDelivery`. It rests on `MarginAssumption`:
a request that was let out reaches the provider within `Margin`, and the margin is
smaller than the window. `WindowInv` is the strengthening: the first attempt of a row
is dated once and for all (`firstAt`); every request under way was let out before the
cut-off `firstAt + Window - Margin` and has travelled no longer than `SendDelay`; and
every delivery is later than `firstAt`. So a request arrives before `firstAt + Window`,
when the provider still remembers any earlier delivery. `AtMostOneDelivery` alone is
not inductive, because it says nothing of requests under way; and without the margin
it is false, which a mutant shows. No lease is used: the promise holds whatever they
do.

The other safety properties rest on `NextRow`: whatever happens, a row is left alone or
is enqueued, withdrawn, reopened, taken, attempted or recorded (`RowStep`), and a step
does that to one row at most (`OneRow`).

* `SettledStays` follows from that list alone.
* `AttemptsAreOrdered`. Only a row that is processed records an attempt, and then the
  attempt of the last claim is not in the log yet (`LogInv`).
* `CancelledIsNotSent`. A dispatch that has rendered its message and still holds the row
  has a source that is not cancelled (`CancelInv`): a cancellation takes the row away,
  and no later claim gives it back, because tokens grow.
* `OneContent` and `ArrivesWhileValid`. What is under way or delivered has the hash of
  its row, and a row with a hash keeps it with its validity (`ContentInv`, `HashStays`).
  This needs `PayloadsAssumption`: no payload has the hash NULL.
* `OutboxImplementsDelivery`: `Spec => ImplementsDelivery`. With `DeliveredInv` - what is
  accepted, or is to be recorded so, was delivered - and `WindowInv`, each `RowStep` is
  an action of `EmailDelivery` or a stutter, and so is each delivery.

* `OutcomeIsNotDenied`: `Spec => []LastOutcomeNotDenied`. A row says what the dispatch
  that held it has recorded, so `OutcomeInv` is mostly about dispatches. One that has sent
  nothing, or was told by the provider that nothing came of its request, has a claim under
  which no request travels and nothing was accepted (`NothingSent`). To keep that when
  another dispatch sends, claims must differ between dispatches (`ClaimsDiffer`); when the
  provider declines one request, requests and deliveries must differ (`RequestsDiffer`);
  and a new claim is new to all of them because their tokens were drawn before
  (`TokensAreDrawn`). Then a row that denies its last attempt is right to
  (`RowsAreRight`): it is written by the dispatch that holds it (`DeniedRow`), whose claim
  is the last attempt (`TokensAreAttempts`). A cancellation of a row under way leaves it
  uncertain, and a dispatch whose exchange was interrupted says so.

Only model-checked: `Settles`, because liveness under fairness is out of the prover's
reach.

## What it shows

Code and model agree with what the module and the README of the backend promise,
with one exception that no run states. `backend-tanaw/README.md:282-284` says that an
ambiguous result older than the boundary is marked for reconciliation. `RecordFailure`
settles such a result as `terminal_failed` when it is recorded past the cut-off, or
when its next retry would be (`worker.py:389-398`); only the preparation of another
attempt (`RefuseAttempt`) chooses `reconciliation_required`, and nothing prepares one
for a terminal row.


# 4. The report workflow

## What the model says

One action of `ReportWorkflow` is one request, run as one transaction. A request that
is refused rolls back, and one that was carried out before is answered from the
recorded operation: both change nothing and are stuttering steps.

| Action | Code |
| --- | --- |
| `Submit`, `Resubmit` | `intake.py`, `ingest_report_submission`, with `idempotency.py` around it (`Known`, `Store`) |
| `Review` | `intake.py`, `update_report_status` |
| `CreateFinal`, `Reconsolidate` | `final_reports.py`, `create_final_report` (`Consolidable`, `Linked`, `Snapshot`) |
| `ReturnFinal` | `final_reports.py`, `return_final_report_for_revision` |
| `SetStatus` | `final_reports.py`, `update_final_report_status`, with `policies.py` (`StatusChanged`, `RestoreTarget`) |

* The figures of a report are represented by the submission id they came with. A
  final report copies, for each source, that *version*; its totals are sums over the
  same rows in the same statement and are left out.
* `accepted` is a history variable: the versions that staff have accepted.
* Requests come from pages, and a page shows the past: in the model any request
  arrives in any state. `FreshViews = TRUE` restricts `SetStatus` to what the portal
  offers for the present state of the report (`Offered`, from `FinalReportViewer.tsx`).
  Nothing else is restricted: submissions, reviews, returns and consolidations are
  arbitrary in both cases, because the backend guards them.
* A submission may be repeated or altered under the same id; only the shape that the
  router accepts is modelled.

## What is checked

* `audit` (`FreshViews = TRUE`; two of each) - `SnapshotIsCurrent`, a consolidated
  report's figures are those its final report shows; `CarriedOutOnce`, a submission id
  never changes a report twice; `OnlyAcceptedReports`; `SourcesMatchStatus` (no report
  that is being corrected is part of a final report); and `FinalizedForGood`, on which
  the desktop relies when it destroys raw events (`cloud-sync.ts`, 217-233). Two ids
  allow a submission, its correction, and a repetition of the first after the second.
* `stale_restore` (`FreshViews = FALSE`) - what a page that is out of date can do.

*Bounds.* Each action concerns at most two final reports and any set of slots; two
enterprises give selections of one source, of both and overlapping ones, and two
periods selections that mix periods, which consolidation refuses. Nothing has to be
capped: ids run out. The system is then at rest, hence `CHECK_DEADLOCK FALSE`.
Enterprises, final reports and ids are symmetric, and so is each property.

## What is proved

For all enterprises, periods, ids and final reports:

* `TypeCorrect`, and `SnapshotsAreCurrent`, with no assumption. The invariant
  `CurrentInv` adds that the sources of every final report exist, and that a final
  report that does not exist has none: consolidating replaces a row, and no other
  snapshot may be lost with it.
* `AcceptedOnly`, `SourcesFollowStatus` and `FinalizedStays`, assuming `FreshViews`.
  `AuditInv` adds that final reports have separate sources, that an archived report
  knows its stage, and `Vouched`: a version that is ready or consolidated was accepted.
  `Vouched` is where the three hang together. A return puts the sources it does not
  select back to "ready" unseen; that is sound only for sources that were consolidated,
  which is what `SourcesMatchStatus` says of a draft.

* `SubmittedOnce`. Of all requests only a submission makes a row pending or leaves a
  pending row changed (`PendingIsStored`), and it is carried out under a new id only.
* `WorkflowImplementsIntake`, assuming `FreshViews`. What the enterprise is told of a
  report is computed from its row and from the final reports (`Told`): it is returned, or
  final when a finalized or archived report has it (`Locked`, the desktop's
  `isLockedFinalReport`), or else pending. Seen like that the seven requests are the two
  actions of `ReportIntake`: a submission carries a new id and finds nothing or a returned
  report; finalizing and returning decide several reports at once; all others stutter. It
  takes `SourcesMatchStatus` to see that what is finalized was not returned, and
  `FinalizedForGood` that what is final is not taken back. Without `FreshViews` it is
  false: TLC finds a request to restore an archived draft that arrives when the report has
  been finalized, and makes it a draft again after its raw events may have gone.

## What it shows

With pages that are current the workflow does what its documentation says. With pages
that are not, `SetStatus` is the one request that the backend accepts too easily.
`stale_restore`: a restore sent from a page opened while the report was an archived
draft makes a returned report a draft again. If it is returned once more, a source that
was resubmitted meanwhile becomes ready without a review and is consolidated, against
`backend-tanaw/README.md:375`. In the same way (and in no run) a report that was
returned for revision is finalized from a page that still shows the draft, while its
sources are being corrected, against `finalReportActions.ts:14`.


# 5. Realtime delivery

## What the model says

A *topic* is the data whose events share one ordering key
(`frontend-tanaw/src/shared/realtime/types.ts`, 33-43), and its *version* counts the
changes committed to it. The life of a change:

| Step | Code | Actions |
| --- | --- | --- |
| a transaction changes data; the trigger inserts an outbox row, which takes its number at once, or updates the unpublished row of a coalesced topic | `alembic/versions/0001_initial_tanaw_schema.py` | `Insert`, `Coalesce`, `Commit`, `Rollback` |
| a process claims committed rows in order, skipping locked ones; `NOTIFY` and the mark as published commit together | `runtime.py`, `dispatch_batch` | `Claim`, `Publish`, `FailBatch` |
| each listening process queues the notification, or asks all its pages to refresh when the queue is full | `runtime.py`, subscriber | inside `Publish`; `LoseBroker`, `ListenAgain`, `RequireResynchronization` |
| the event goes to the queue of each websocket, or the page is cut off | `runtime.py`, `manager.py` | `Dispatch`, `DispatchFails`, `Put`, `Disconnect`, `Restart` |
| the page drops the event as old or cancels and repeats its requests | `RealtimeProvider.tsx`, `eventRouter.ts` | `ApplyEvent`, `Resynchronize`, `Connect` |
| the backend reads what is committed, and the answer arrives | the REST routes | `Answer`, `Show` |

`Answer` and `Show` are separate, so that an answer read before a change can arrive
after the event about it. A reloaded page is a new page. Some things are left out: who
may see which event (each page sees all topics), heartbeats (a missed one is a
`Disconnect`), duplicated notifications (an event that was seen is no longer new), and
failing REST requests and their retries. The model lets a resynchronization run
between any two dispatches, which is more than the code does.

## What is checked

* `updates` - an ordinary and a coalesced topic, two processes that can overtake each
  other, one fault. `StaleIsInformed`: whenever a connected page shows old data, a
  refresh, an event it will not drop, or an answer is coming; so no loss, overflow,
  reconnection or reordering leaves it behind. `ViewNeverGoesBack`: it never returns to
  an older version. `Converges`: under fairness each page shows the committed version
  again and again.
* `shared` - `SettledIsCurrent` where a topic holds several records; see below.

*Bounds.* Two rows are enough for one process to overtake another, for a batch of two
to overflow the queue of one, and for a change to arrive while an earlier one is
fetched. A queue of one and a websocket queue of two make both overflow. One page
suffices, since pages do not interact. `CHECK_DEADLOCK FALSE`: rows and faults are
bounded, so that the system comes to rest.

*Fairness.* Weak fairness of every loop of a process, of a page's reconnection and
handlers, of the end of each transaction and of each answer: the code restarts each
loop after an error and the page reconnects with a delay for ever. Changes and
failures are never fair.

## What is proved

In `RealtimeDelivery_proofs`, for any topics, processes, pages, sizes of batches and
queues and bounds, from `TopicsAssumption` and `SizesAssumption`:

* `TypeCorrect`, among others that no queue exceeds its size. Publishing and dispatching
  put the rows of a set in order (`InOrder` of `Selection`), so the proofs rest on what
  that operator returns: each member once, the smallest first (`Selection_proofs`).
* `NeverGoesBack`: `Spec => ViewNeverGoesBack`. A page waits for one answer of a topic at
  most, because a new request cancels the one before; and that answer is no older than
  what is shown (`PageInv`).
* `OldDataIsReported`: `Informed` is always so for each topic of a single record that a
  reconnection fetches. It is stronger than `StaleIsInformed` and inductive where that is
  not: also a page with an old answer on its way, which is going to show old data, is
  bound to hear of it. It needs that what has been sent is published (`SentIsPublished`),
  that no two outbox loops hold one row (`ClaimsApart`), and that a row of a single record
  that may still change is the last of its topic (`OpenIsLast`): the event that reports a
  change is then newer than whatever the page has applied. This is where topics of several
  records fail.
* `EveryTopicIsReported` is the invariant of the run `updates`, for instances like its
  own: no topic of several records, and every topic is refreshed by a reconnection.
* `SettledTopics` and `EverySettledPageIsCurrent` conclude that a page that is connected
  with nothing on its way shows what the backend has. The second is the property that the
  run `shared` refutes: its hypothesis `Shared = {}` cannot be dropped.

* `DeliveryImplementsViews`: `Spec => ImplementsViews`. Outbox, broker, websockets and
  requests are hidden: what is left of them is a version that grows and pages that move
  forward to a version that exists, possibly skipping some. `PageInv` gives both bounds of
  each step: what an answer carries is no older than what the page has, and was committed.

Only model-checked: `Converges`, being liveness.

## What it shows

`README.md:119-121` says that correctness does not depend on receiving every message,
since a client that reconnects refreshes. That holds for topics of a single record
which the reconnection refreshes (`StaleIsInformed`, `Converges`). It fails in two
ways, the first the counterexample of a run:

* `shared`: a row takes its number before its transaction commits. Two transactions
  that change different records with one ordering key (notifications or e-mail
  deliveries of one account) may commit in the other order; the page drops the event
  with the lower number and shows the old list until something else refreshes it.
* the events of system settings, the current user and the list of report
  enterprises refresh queries that `resynchronizeActiveRealtimeQueries` leaves out. A
  change published while the page is away is not shown when it is back.


# 6. The local service and its supervisor

## What the model says

`ServiceSupervisor` models `electron/services/ml-service-supervisor.ts` with the quit of
`main.ts`, and extends `LiveEventStream` (`ml-report-live-events.ts`), whose methods are
functions of one record. Operations are queued and run one after the other
(`serialized-operation-queue.ts`); `pc` is the await that the running one is at:

| `pc` | Code | Action |
| --- | --- | --- |
| `idle` | the next operation begins, up to its first await | `Dequeue` (`Stop`) |
| `halt` | `stopCameraProcessingFromTray` inside a shutdown | `Halt` |
| `stopping` | `waitForProcessExit`, then SIGKILL | `Stopping` |
| `find`, `identify`, `releasing` | `stopExternalMlService`, and the same calls when an incompatible service is replaced | `FindListener`, `Identify`, `Releasing` |
| `probe`, `check`, `await` | `startMlServiceUnlocked` | `Probe`, `Check`, `Spawn`, `Await` |

Beside them processes are launched, take the port and end (`Launch`, `Bind`, `Die`), the
`exit` and `error` events of children come late (`ExitSeen`), and sockets open, close and
are made again. An await with a time limit may end either way at any time. Every
combination of what the other process is - ours or foreign, compatible or not, running
already or not, holding the port or not - is an initial state, on Windows and elsewhere.

Abstracted: the child of `uv run` and the process it spawns are one process; delays of
reconnections; a service directory that is missing; the packaged runtime. The close code
1008 is possible for every service that does not accept us.

## What is checked

`supervisor`: `OneSocket` (no second socket, and a socket or a timer but not both),
`NoOrphan` and `LeavesNothing` (no child that nobody holds, none that survives the
application), `ForeignUntouched`, `ConnectsOrReports` (a start ends with a service or an
error), and under fairness `QuitCompletes` and `StreamRecovers`.

*Bounds.* Two children, so that one can be spawned while the exit of the other is still
to come; one other process to compete for the port; a restart, a quit and one accident;
two sockets, one left behind while it connects and its successor. `CHECK_DEADLOCK FALSE`:
the application exits.

*Fairness.* Weak fairness of the operations, of the events of children and of sockets and
timers: each await has a time limit, and Node delivers events. No process has to obey a
signal or to answer.

## What is proved

In `ServiceSupervisor_proofs`, for any number of children, other processes and sockets,
from `ChildrenAssumption` and `NoneAssumption` (the values for "no process" and "no
socket" are neither). One invariant carries all of it, and its parts need each other:

* `Sound`, of the stream: only the current socket is open, and a current socket
  excludes a timer. Each method of the stream keeps it, whoever calls it
  (`SingleSocket`).
* `ChildInv`: a running child is the one that is held, or the one that an operation is
  waiting for; and while an operation stops or starts, none is held. So a new child is
  spawned only where no other runs (`NoChildIsLost`).
* `ForeignInv`: off Windows, what an operation is about to end came from the workspace
  (`OthersAreLeftAlone`).
* `QuitInv`: while the application quits, the shutdown is the last operation, and when
  it has been carried out nothing is queued or held (`NothingIsLeft`, with `ChildInv`).

`StartsAreAnswered` looks at each step that ends a start, with the order of the awaits
(`OrderInv`). Only model-checked: `QuitCompletes` and `StreamRecovers`, being liveness.

## What it shows

The supervisor keeps these promises, with exceptions that the properties name. A restart
that is asked for while the application quits runs after the shutdown and may leave a
child behind (`late`). On Windows the forced end of a stop goes to whichever process then
holds the port. And when a compatible service is too slow for the first probe, the child
that is spawned cannot bind the port; the other service answers the next poll, which
clears the error, and the exit of the child leaves the desktop with neither a connection
nor an error. Not a property but visible in the model: an adopted service that ends is
taken to run until a restart, since only children send events.


# 7. The desktop's reports

## What the model says

`DesktopSync` is the way of a report from the page to the backend. The page has a session
(`Login`, `Logout`, `Expire`, `Reload`) whose token the interceptor of `lib/axios.ts`
reads when a call is made. The ledger is that of the enterprise the local service is
bound to (`Bind`, `RestartService`). `Submit` is `executeSubmit` up to its first call;
what is sent afterwards is a *flow* of calls, either that of the submission or that of
the periodic loop:

| `pc` | Code | Action |
| --- | --- | --- |
| `list` | what is pending in the ledger | `List` |
| `send`, `sent` | the `POST` with its token, and its answer | `Send`, `Serve`, `Receive` |
| `mark` | `markLocalReportSynced` | `MarkSynced` |
| `purge`, `drop` | `purgeFinalizedLocalReportRawData` | `ListFinal`, `Drop` |

A flow is not tied to the session it began in. `Shown` is `mergeReportHistory`: what is
pending here hides what the backend says. A report has a period of its own, and a
submission stands for its figures. The intake of the backend is reduced to pending,
returned or final, with the idempotency of submission ids (`Known`).

Not modelled: the counted events and their figures, telemetry and its marks, drafts. A
refresh reads the ledger and the backend at one instant and is shown later.

## What is checked

* `desktop_sync` - one enterprise, one report with a correction, two sessions, two flows
  at a time, one failure: `SyncedIsCarriedOut`, `PurgedIsFinal`, and under fairness
  `PendingIsSent` and `FinalIsPurged`.
* `desktop_scope` - two enterprises: `ScopedByEnterprise`, which is violated.

*Bounds.* Two submissions are a report and its correction; two flows are the loop and the
flow of a submission; two logins are a session and one that follows while flows of the
first are under way. One failure of any kind. `CHECK_DEADLOCK FALSE`: nobody has to log
in again.

*Fairness.* Weak fairness of the loop (a timer of 20 seconds), of the steps of flows
(each call has a time limit) and of requests to bind. Both liveness properties assume a
session that lasts (`Stable`) and that nothing was refused: the loop ends at the first
report that is refused, so that older ones are not tried again and nothing is purged
(`cloud-sync.ts:139-144`).

## What is proved

In `DesktopSync_proofs`, for any enterprises, reports, numbers of flows, submissions,
logins and failures, from `DesktopAssumption` (the ledger of no enterprise is not one of
an enterprise). One invariant, `SyncInv`, carries the theorems:

* `TypeCorrect`: among others, a ledger lists the newest submission first and no report
  twice (`Ordered`). `mark`, `purge` and a correction rewrite a list, and what they and
  the filters return is stated once, in lemmas that rest on `Selection_proofs` (`Those`).
* `SyncedWasCarriedOut` and `PurgedWasFinal`. A row says so because a flow wrote it, so
  the invariant is also about what a flow knows of its work (`Working`): what it is going
  to mark was carried out, what it is going to drop is final. Between the answer and the
  mark the report may be corrected, the session may end and another ledger may be bound;
  none of that makes it untrue, since the backend forgets neither (`CloudKeeps`).

* `SyncImplementsDelivery`: `Spec => ImplementsReportDelivery`. A ledger becomes a set of
  entries, the intake `ReportIntake`, and the sessions, bindings and flows disappear. A
  correction replaces the one entry of its report (`OneRow`), a mark sets a flag of one
  entry or of none, when it was corrected meanwhile (`FlaggedRow`, `NoRowFlagged`), and
  what the backend carries out was submitted. The last is `WorkMade`, an invariant of the
  work of the flows, which comes from the ledger the flow has listed or from the row that
  a submission has just written (`Listed`).

None of these needs the enterprise of the flow to be that of the ledger: the theorems
speak of some enterprise of the backend, and that it is the right one is what
`desktop_scope` refutes. Only model-checked: `PendingIsSent` and `FinalIsPurged`, being liveness.

## What it shows

Lost answers, overlapping flows and corrections do no harm: the submission id protects
the mark here and the intake there. What does harm is that the page binds the local
service once for each user (`EnterpriseShell.tsx:159-191`). After a restart of the
service it is unbound while the page goes on, and submissions are recorded in a ledger
of no enterprise; a late request to bind, and a flow that goes on with the token of the
next session, mix the reports of two enterprises. `README.md:759` promises that desktop
records are scoped by enterprise.


# 8. Cameras

## What the model says

`CameraRegistry` is `CameraPipelineRegistry` (`ml-service/app/camera/pipeline_manager.py`).
`RequestStart` runs under the short lock and leaves a thread behind; `BeginStart` is that
thread once it has the lifecycle lock, and `EndStart` the end of the start it carries out;
`Stop` and `Replace` need the lock themselves (`busy = <<>>`). `Fluctuate` is whatever a
running pipeline does to its status, `Renew` a restart of the service.

`CameraControl` extends it with the camera page: the buttons (`Start`, `StopCamera`,
`Save`, `Delete`, `Restart`), the requests on their way (`asks`, `lists`), their answers
or time limits (`Serve`, `GiveUp`, and the actions `...Returns` for the code after each
await), the polling of states (`Poll`, `Show`, `Lose`) and the deadline of a start
(`Elapse`, `Monitor`). `Apply` is `applyCameraStates`, which decides from states, actions
and deadlines together what the page shows.

Not modelled: the change of enterprise, testing and adding a camera, a change of a
running configuration that needs no restart and its rollback, a list of cameras that
fails or is overtaken, and the reset that follows a changed process id. The states of all
cameras are read at one instant.

## What is checked

* `camera_registry` - three cameras, two places, two configurations: `CapacityHeld`,
  `StopHolds` (a start that waits does not undo a stop), `LatestWins`.
* `camera_removed` - `RemovedIsDown`, which is violated.
* `camera_control` - two cameras for one place, two buttons, one request that is given
  up: `AlarmIsTrue`, and under fairness `StartSettles` and `ShownIsActual`.

*Bounds.* With three cameras for two places a start is refused, accepted and overtaken;
two configurations make a changed start. The registry alone is not bounded otherwise. On
the page two commands reach a start with a stop, a save, a deletion or a restart after
it. `CHECK_DEADLOCK FALSE`: with no button left and the cameras at rest, only polls that
change nothing go on. `Hasty = FALSE` is a user who waits for an answer before pressing
the next button of a camera; without it the end of a stop clears the action of a start
that was pressed meanwhile (`useCameraRuntimeController.ts:268-270`), and the start hangs
or raises a false alarm.

*Fairness.* Weak fairness of the threads, of requests, of timers and of the code after an
await; strong fairness of showing what was polled, for polls may fail but not for ever
(`backoff-poller.ts`). A camera may connect for ever.

## What is proved

In `CameraRegistry_proofs`, for any finite set of cameras, any configurations and any
limit:

* `RegistryTypeCorrect`, with the fact that a pipeline that is starting is the one the
  lifecycle lock is held for.
* `StopsHold`. The invariant (`AskedFor`) says the same of every camera that is promised
  to run: running, starting, or with a start that waits. Only a request promises, and a
  stop withdraws what waits.
* `CapacityIsHeld`. Only `RequestStart` adds a camera to those that are promised, and it
  counts them first.
* `LatestRequestWins`. The start that waits for a camera, or else what it runs with, is
  the request accepted last (`AllCurrent`). A start must not be dropped for want of a
  place on the way, so that this rests on the limit (`RoomForThePromised`).

The steps are proved for any operation of the registry (`Operation`), whoever asks for it
and with whatever list of cameras. So the same results hold under the page, which the
next module proves.

In `CameraControl_proofs`, for any cameras and numbers of buttons and time limits:

* `CapacityUnderThePage`, `StopsHoldUnderThePage` and `LatestWinsUnderThePage`: each step
  of the page, its requests and the service is an operation of the registry or leaves it
  alone (`StepIsOperation`). They hold for the hasty user as well.
* `ControlTypeCorrect`: what the page waits for has been sent. `NoFalseAlarm`:
  `AlarmIsTrue`. Both have the hypothesis `Hasty = FALSE`, a user who waits, which is the
  value in the run. The invariant `ControlInv` adds that no two requests under way would be
  taken for one call, and five facts about each camera (`Calm`): the deadline of an
  accepted start stands only while the start is shown as under way, not once the page has
  seen the camera settled, and not while it is stopped or saved; a camera that is saved has
  no request under way, and one that is deleted has its stop sent or answered. With `Hasty = TRUE` neither holds: the page
  raises the false alarm described above, and the model, which keeps one call of each kind
  for a camera, cannot tell two starts of it apart.

Only model-checked: `StartSettles` and `ShownIsActual`, being liveness.

## What it shows

The registry and the page agree on starts and stops in every order that was checked. One
disagreement with a test: a camera that is deleted while its first start waits for the
lifecycle lock has no pipeline yet, so `replace_camera_profiles` leaves its start pending
and it is started afterwards, outside the list
(`tests/test_pipeline_manager.py:532-543` expects a removed camera to be gone).


# 9. Reading the checks

Every property of a passing run has a *mutant* in `PROJECT.json`: a definition with a
plausible bug (a dropped guard, a missing reset, a missing margin), kept beside the
original in the module, under which TLC finds the property violated in the same run.
A property that no such bug breaks would say nothing about the code.

The runs of a kind "violation" are expected to fail: each is a property that a comment,
a test or a README states, and the code does not have.

What the tools cannot give here: TLC checks the instances of the configurations only.
TLAPS proves no liveness and nothing about ENABLED, so `Settles`, `Converges`,
`QuitCompletes`, `StreamRecovers`, `PendingIsSent`, `FinalIsPurged`, `StartSettles` and
`ShownIsActual` are model-checked only. Induction over data is out of reach too, so that
what the models need of sequences and sets is defined without recursion: the operators of
`Selection` name the place of each element by its rank.

Of the four refinements only `ImplementsDelivery` is a property of a run. The other three,
`ImplementsIntake`, `ImplementsViews` and `ImplementsReportDelivery`, are left to their
proofs, because the properties of the runs say in pieces what they say at once. TLC checks
them on the same instances when they are added as a `PROPERTY` to
`ReportWorkflow_audit.cfg`, `RealtimeDelivery_updates.cfg` and `DesktopSync.cfg`: it finds
them to hold in the same state spaces as the runs.

The models trust PostgreSQL for the isolation they describe, the provider for its
idempotency window, and clocks that agree between processes.
