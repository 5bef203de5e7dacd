---------------------------- MODULE EmailOutbox ----------------------------
(***************************************************************************)
(* The transactional e-mail outbox of backend-tanaw                        *)
(* (app/features/mail): rows enqueued by a business transaction, claimed   *)
(* under a fencing lease by concurrent dispatches, sent to a provider      *)
(* (Brevo) that deduplicates on an idempotency key for a limited time, and *)
(* retried, cancelled, expired or handed to reconciliation.                *)
(*                                                                         *)
(* One action is one database transaction of the code, or one exchange     *)
(* with the provider.  Between two transactions anything may happen: the   *)
(* lease expires, another dispatch reclaims the row, the source of the     *)
(* message is cancelled, the worker dies.                                  *)
(***************************************************************************)
EXTENDS Integers, Sequences, FiniteSets

CONSTANTS
    Messages,        \* the logical messages; each has its own idempotency key
    LocalMessages,   \* those enqueued with provider "local" (development mode)
    Dispatchers,     \* the _dispatch_claim tasks that can run at one time
    Payloads,        \* hashes of what a message may render to
    Validity,        \* [Messages -> time a message stays valid, or NoTime]
    Lease,           \* email_outbox_lease_seconds
    RequestTimeout,  \* email_request_timeout_seconds
    Window,          \* BREVO_IDEMPOTENCY_WINDOW
    Margin,          \* MANUAL_RETRY_SAFETY_MARGIN
    Schedule,        \* the retry delays of _retry_delay_seconds
    RetryAfters,     \* the Retry-After delays the provider may ask for
    MaxAttempts,     \* email_outbox_max_attempts
    SendDelay,       \* a request reaches the provider this soon, or is lost
    Prompt,          \* TRUE: dispatching keeps up with the clock (see Tick)
    MaxTime,         \* bound: last instant of the clock
    EnqueueBy,       \* bound: last instant at which a message is enqueued
    MaxManualRetries,\* bound: manual retries of one message
    MaxFaults        \* bound: crashes and swallowed notification errors

NoTime == -1

ASSUME MessagesAssumption == LocalMessages \subseteq Messages
\* "none" stands for the NULL of a row that nothing was sent of.
ASSUME PayloadsAssumption == "none" \notin Payloads
ASSUME ValidityAssumption == Validity \in [Messages -> Nat \cup {NoTime}]
ASSUME TimesAssumption ==
    /\ Lease \in Nat \ {0}
    /\ RequestTimeout \in Nat
    /\ Window \in Nat
    /\ Margin \in Nat
    /\ SendDelay \in Nat
    /\ Schedule \in Seq(Nat \ {0}) /\ Schedule # << >>
    /\ RetryAfters \subseteq Nat
ASSUME BoundsAssumption ==
    /\ MaxAttempts \in Nat \ {0}
    /\ Prompt \in BOOLEAN
    /\ MaxTime \in Nat
    /\ EnqueueBy \in Nat
    /\ MaxManualRetries \in Nat
    /\ MaxFaults \in Nat

\* What the safety margin (2 of 30 minutes) is for: a request prepared before
\* the cut-off reaches the provider before the idempotency key is forgotten.
ASSUME MarginAssumption == SendDelay <= Margin /\ Margin < Window

VARIABLES
    now,        \* the clock all processes read
    outbox,     \* [Messages -> row of email_outbox]
    attemptLog, \* [Messages -> attempt numbers of email_delivery_attempts]
    source,     \* [Messages -> state of the record that caused the message]
    alerts,     \* [Messages -> the IT notification about the message]
    dispatch,   \* [Dispatchers -> what a running _dispatch_claim knows]
    inflight,   \* requests on their way to the provider
    accepted,   \* [Messages -> deliveries the provider has accepted]
    faults      \* crashes and swallowed notification errors so far

vars == <<now, outbox, attemptLog, source, alerts, dispatch, inflight,
          accepted, faults>>

-----------------------------------------------------------------------------
Waiting == {"queued", "retry_scheduled"}
Pending == Waiting \cup {"processing"}
Settled == {"accepted", "recorded", "terminal_failed", "cancelled", "expired",
            "reconciliation_required"}
Statuses == {"absent"} \cup Pending \cup Settled

\* A row; "absent" until the business transaction that enqueues it commits.
Row == [status: Statuses, attempts: Nat, maxAttempts: Nat, nextAt: Nat,
        validUntil: Nat \cup {NoTime}, token: Nat,
        lockExpires: Nat \cup {NoTime}, hash: Payloads \cup {"none"},
        firstAt: Nat \cup {NoTime}, uncertain: BOOLEAN, manualRetries: Nat]

NoToken == 0

NewRow(m) ==
    [status |-> "queued", attempts |-> 0, maxAttempts |-> MaxAttempts,
     nextAt |-> now,
     validUntil |-> IF Validity[m] = NoTime THEN NoTime ELSE now + Validity[m],
     token |-> NoToken, lockExpires |-> NoTime, hash |-> "none",
     firstAt |-> NoTime, uncertain |-> FALSE, manualRetries |-> 0]

\* How a dispatch failed: the arguments the except clauses of _dispatch_claim
\* pass to _record_failure.
Failures == [retryable: BOOLEAN, uncertain: BOOLEAN,
             final: {"none", "expired", "terminal_failed",
                     "reconciliation_required"},
             retryAfter: Nat]

Failure(retryable, uncertain, final, retryAfter) ==
    [retryable |-> retryable, uncertain |-> uncertain, final |-> final,
     retryAfter |-> retryAfter]

UnansweredAsFailed == Failure(TRUE, FALSE, "none", 0)   \* mutant
Unanswered == Failure(TRUE, TRUE, "none", 0)   \* network or internal error
Throttled(delay) == Failure(TRUE, FALSE, "none", delay)   \* 408, 429, 5xx
Refused == Failure(FALSE, FALSE, "none", 0)    \* other 4xx, or no API key
Duplicated == Failure(FALSE, TRUE, "reconciliation_required", 0)
Rejected(status, uncertain) == Failure(FALSE, uncertain, status, 0)

\* A dispatch: where it is in _dispatch_claim, the claim it was given, the
\* payload it rendered and the failure it has to record.
Steps == {"idle", "claimed", "rendered", "sending", "succeeded", "cancelled",
          "failed", "notify", "resolve"}
Dispatch ==
    {c \in [step: Steps, msg: Messages \cup {"none"}, token: Nat,
            payload: Payloads \cup {"none"}, failure: Failures] :
        /\ c.step # "idle" => c.msg \in Messages
        /\ c.step = "rendered" => c.payload \in Payloads}
Idle == [step |-> "idle", msg |-> "none", token |-> NoToken,
         payload |-> "none", failure |-> Unanswered]

\* What the provider is sent, and what it remembers having accepted.
Request == [msg: Messages, token: Nat, payload: Payloads, at: Nat]
Delivery == [token: Nat, payload: Payloads, at: Nat]

Go(d, step) == dispatch' = [dispatch EXCEPT ![d].step = step]
Fail(d, failure) ==
    dispatch' = [dispatch EXCEPT ![d] =
                     [@ EXCEPT !.step = "failed", !.failure = failure]]
Finish(d) == dispatch' = [dispatch EXCEPT ![d] = Idle]

\* After recording an outcome, only the message matters.
Report(d, step) ==
    dispatch' = [dispatch EXCEPT ![d] =
                     [Idle EXCEPT !.step = step, !.msg = dispatch[d].msg]]

SetRow(m, row) == outbox' = [outbox EXCEPT ![m] = row]

\* _get_claimed_email: the row of the claim, unless its token has moved on.
Holds(d) ==
    LET row == outbox[dispatch[d].msg]
    IN  /\ dispatch[d].step # "idle"
        /\ row.status = "processing"
        /\ row.token = dispatch[d].token

\* The instant up to which an attempt may be repeated safely.
CutoffWithoutMargin(row) == row.firstAt + Window   \* mutant
Cutoff(row) == row.firstAt + Window - Margin
PastCutoff(row, t) == row.firstAt # NoTime /\ t >= Cutoff(row)
PastValidity(row, t) == row.validUntil # NoTime /\ t >= row.validUntil

\* _retry_delay_seconds, for the attempt counts a failure can see (>= 1).
RetryDelay(attempts) ==
    Schedule[IF attempts <= Len(Schedule) THEN attempts ELSE Len(Schedule)]

Later(a, b) == IF a >= b THEN a ELSE b

TypeOK ==
    /\ now \in Nat
    /\ outbox \in [Messages -> Row]
    /\ attemptLog \in [Messages -> Seq(Nat)]
    /\ source \in [Messages -> {"valid", "lapsed", "cancelled"}]
    /\ alerts \in [Messages -> {"none", "open", "read"}]
    /\ dispatch \in [Dispatchers -> Dispatch]
    /\ inflight \subseteq Request
    /\ accepted \in [Messages -> SUBSET Delivery]
    /\ faults \in Nat

Init ==
    /\ now = 0
    /\ outbox = [m \in Messages |-> [NewRow(m) EXCEPT !.status = "absent"]]
    /\ attemptLog = [m \in Messages |-> << >>]
    /\ source = [m \in Messages |-> "valid"]
    /\ alerts = [m \in Messages |-> "none"]
    /\ dispatch = [d \in Dispatchers |-> Idle]
    /\ inflight = {}
    /\ accepted = [m \in Messages |-> {}]
    /\ faults = 0

-----------------------------------------------------------------------------
(* Business transactions: the callers of mail/service.py.                  *)

\* enqueue_email, in the transaction that creates the source.
Enqueue(m) ==
    /\ outbox[m].status = "absent"
    /\ now <= EnqueueBy
    /\ SetRow(m, NewRow(m))
    /\ UNCHANGED <<now, attemptLog, source, alerts, dispatch, inflight,
                   accepted, faults>>

\* The source stops being valid in a way that touches no outbox row: it
\* expires, its account is deactivated or its address changes.
SourceLapses(m) ==
    /\ source[m] = "valid"
    /\ outbox[m].status # "absent"
    /\ source' = [source EXCEPT ![m] = "lapsed"]
    /\ UNCHANGED <<now, outbox, attemptLog, alerts, dispatch, inflight,
                   accepted, faults>>

\* Mutants: the statement for rows being processed is missing; the statements
\* do not look at the status.
CancelWaitingRow(row) ==
    IF row.status \in Waiting THEN [row EXCEPT !.status = "cancelled"] ELSE row
CancelAnyRow(row) ==
    [row EXCEPT !.status = "cancelled", !.token = NoToken,
                !.lockExpires = NoTime]

CancelledRow(row) ==
    IF row.status \in Pending
      THEN [row EXCEPT !.status = IF @ = "processing"
                                    THEN "reconciliation_required"
                                    ELSE "cancelled",
                       !.uncertain = row.status = "processing",
                       !.token = NoToken, !.lockExpires = NoTime]
      ELSE row

\* A row the two statements of cancel_pending_source_emails both miss: it was
\* not waiting for the first (it was being processed, or had failed), and was
\* waiting again for the second.
MissedByCancel(row) == row.status \in Waiting /\ row.attempts > 0

\* cancel_pending_source_emails, in the transaction that ends the source.
CancelSource(m) ==
    /\ source[m] # "cancelled"
    /\ outbox[m].status # "absent"
    /\ source' = [source EXCEPT ![m] = "cancelled"]
    /\ \/ SetRow(m, CancelledRow(outbox[m]))
       \/ MissedByCancel(outbox[m]) /\ UNCHANGED outbox
    /\ UNCHANGED <<now, attemptLog, alerts, dispatch, inflight, accepted,
                   faults>>

\* Mutant: a manual retry starts to count again.
RetriedRowFromZero(row) ==
    [row EXCEPT !.status = "queued", !.nextAt = now, !.attempts = 0,
                !.manualRetries = row.manualRetries + 1,
                !.token = NoToken, !.lockExpires = NoTime]

\* retry_terminal_email, by an IT user.
RetriedRow(row) ==
    [row EXCEPT !.status = "queued", !.nextAt = now,
                !.maxAttempts = Later(row.maxAttempts, row.attempts + 1),
                !.manualRetries = row.manualRetries + 1,
                !.token = NoToken, !.lockExpires = NoTime]

ManualRetry(m) ==
    /\ outbox[m].status = "terminal_failed"
    /\ m \notin LocalMessages
    /\ ~PastValidity(outbox[m], now)
    /\ ~PastCutoff(outbox[m], now)
    /\ outbox[m].manualRetries < MaxManualRetries
    /\ SetRow(m, RetriedRow(outbox[m]))
    /\ UNCHANGED <<now, attemptLog, source, alerts, dispatch, inflight,
                   accepted, faults>>

-----------------------------------------------------------------------------
(* The worker: mail/worker.py.                                             *)

\* Mutant: nobody takes over an expired lease.
ClaimableWaiting(row) == row.status \in Waiting /\ row.nextAt <= now

Claimable(row) ==
    \/ row.status \in Waiting /\ row.nextAt <= now
    \/ row.status = "processing" /\ row.lockExpires <= now

\* uuid4 draws a token no earlier claim had; the attempt number, which no
\* earlier claim of this row had either, stands for it.
ClaimedRow(row) ==
    [row EXCEPT !.status = "processing", !.attempts = @ + 1,
                !.token = row.attempts + 1, !.lockExpires = now + Lease]

\* _claim_email_batch takes rows in the order of next_attempt_at, skipping
\* those another worker has locked: any claimable row can come next.
Claim(d, m) ==
    /\ dispatch[d].step = "idle"
    /\ Claimable(outbox[m])
    /\ SetRow(m, ClaimedRow(outbox[m]))
    /\ dispatch' = [dispatch EXCEPT ![d] =
           [Idle EXCEPT !.step = "claimed", !.msg = m,
                        !.token = ClaimedRow(outbox[m]).token]]
    /\ UNCHANGED <<now, attemptLog, source, alerts, inflight, accepted,
                   faults>>

\* The transactions of _dispatch_claim that find the token gone write nothing.
Fenced(d) ==
    /\ dispatch[d].step \in {"claimed", "succeeded", "cancelled", "failed"}
    /\ ~Holds(d)
    /\ Finish(d)
    /\ UNCHANGED <<now, outbox, attemptLog, source, alerts, inflight,
                   accepted, faults>>

\* The first transaction of _dispatch_claim: validity, then the source.
Expire(d) ==
    /\ dispatch[d].step = "claimed" /\ Holds(d)
    /\ PastValidity(outbox[dispatch[d].msg], now)
    /\ Fail(d, Rejected("expired", FALSE))
    /\ UNCHANGED <<now, outbox, attemptLog, source, alerts, inflight,
                   accepted, faults>>

RenderCancelled(d) ==
    /\ dispatch[d].step = "claimed" /\ Holds(d)
    /\ ~PastValidity(outbox[dispatch[d].msg], now)
    /\ source[dispatch[d].msg] # "valid"
    /\ Go(d, "cancelled")
    /\ UNCHANGED <<now, outbox, attemptLog, source, alerts, inflight,
                   accepted, faults>>

\* Content depends on templates and settings, so two attempts may differ.
Render(d) ==
    /\ dispatch[d].step = "claimed" /\ Holds(d)
    /\ ~PastValidity(outbox[dispatch[d].msg], now)
    /\ source[dispatch[d].msg] = "valid"
    /\ IF dispatch[d].msg \in LocalMessages
         THEN Go(d, "succeeded")
         ELSE \E p \in Payloads :
                dispatch' = [dispatch EXCEPT ![d] =
                                [@ EXCEPT !.step = "rendered", !.payload = p]]
    /\ UNCHANGED <<now, outbox, attemptLog, source, alerts, inflight,
                   accepted, faults>>

\* _validate_brevo_configuration: the API key is missing.
Misconfigured(d) ==
    /\ dispatch[d].step = "rendered"
    /\ Fail(d, Refused)
    /\ UNCHANGED <<now, outbox, attemptLog, source, alerts, inflight,
                   accepted, faults>>

\* Mutants: the request timeout is not allowed for; the hash is not compared.
TooLateByNow(row) == PastValidity(row, now)
NeverChanged(row, payload) == FALSE

TooLate(row) == PastValidity(row, now + RequestTimeout)
Changed(row, payload) == row.hash \notin {"none", payload}

\* Why _prepare_provider_attempt refuses to let a request out: the first of
\* its tests that fails.  A lost lease and a changed payload carry the default
\* status of EmailDispatchRejected.
Refusals(d) ==
    LET row == outbox[dispatch[d].msg]
    IN  IF ~Holds(d) \/ (~TooLate(row) /\ Changed(row, dispatch[d].payload))
          THEN {Rejected("terminal_failed", FALSE)}
        ELSE IF TooLate(row)
          THEN {Rejected("expired", FALSE)}
        ELSE IF PastCutoff(row, now)
          THEN {Rejected(IF row.uncertain THEN "reconciliation_required"
                                          ELSE "terminal_failed",
                         row.uncertain)}
        ELSE {}

RefuseAttempt(d) ==
    /\ dispatch[d].step = "rendered"
    /\ \E failure \in Refusals(d) : Fail(d, failure)
    /\ UNCHANGED <<now, outbox, attemptLog, source, alerts, inflight,
                   accepted, faults>>

PreparedRow(row, payload) ==
    [row EXCEPT !.hash = payload, !.uncertain = TRUE,
                !.firstAt = IF @ = NoTime THEN now ELSE @]

\* _prepare_provider_attempt commits, and send_email puts the request out.
StartAttempt(d) ==
    LET m == dispatch[d].msg
    IN  /\ dispatch[d].step = "rendered"
        /\ Refusals(d) = {}
        /\ SetRow(m, PreparedRow(outbox[m], dispatch[d].payload))
        /\ inflight' = inflight \cup
               {[msg |-> m, token |-> dispatch[d].token,
                 payload |-> dispatch[d].payload, at |-> now]}
        /\ Go(d, "sending")
        /\ UNCHANGED <<now, attemptLog, source, alerts, accepted, faults>>

\* A network error, an unreadable answer, or any other exception, among them
\* a failing transaction of _record_success after the provider said yes.
Interrupted(d) ==
    /\ dispatch[d].step \in {"claimed", "rendered", "sending", "succeeded"}
    /\ Fail(d, Unanswered)
    /\ UNCHANGED <<now, outbox, attemptLog, source, alerts, inflight,
                   accepted, faults>>

\* _release_lease and the new status, with the attempt's record.
Release(m, row, status, uncertain) ==
    /\ SetRow(m, [row EXCEPT !.status = status, !.uncertain = uncertain,
                             !.token = NoToken, !.lockExpires = NoTime])
    /\ attemptLog' = [attemptLog EXCEPT ![m] = Append(@, row.attempts)]

RecordSuccess(d) ==
    LET m == dispatch[d].msg
    IN  /\ dispatch[d].step = "succeeded" /\ Holds(d)
        /\ Release(m, outbox[m],
                   IF m \in LocalMessages THEN "recorded" ELSE "accepted",
                   FALSE)
        /\ Report(d, "resolve")
        /\ UNCHANGED <<now, source, alerts, inflight, accepted, faults>>

RecordCancelled(d) ==
    LET m == dispatch[d].msg
    IN  /\ dispatch[d].step = "cancelled" /\ Holds(d)
        /\ Release(m, outbox[m], "cancelled", FALSE)
        /\ Finish(d)
        /\ UNCHANGED <<now, source, alerts, inflight, accepted, faults>>

\* What _record_failure does to the row, the lease aside.
ShouldRetry(row, failure) ==
    /\ failure.final = "none"
    /\ failure.retryable
    /\ row.attempts < row.maxAttempts
    /\ ~PastCutoff(row, now)

NextAttempt(row, failure) ==
    now + Later(RetryDelay(row.attempts), failure.retryAfter)

\* Mutant: the status to fall back on is missing.
FailedStatusNoDefault(row, failure) ==
    IF ShouldRetry(row, failure) THEN "retry_scheduled" ELSE failure.final

FailedStatus(row, failure) ==
    LET next == NextAttempt(row, failure)
    IN  IF ShouldRetry(row, failure)
          THEN IF PastCutoff(row, next) \/ PastValidity(row, next)
                 THEN "terminal_failed"
                 ELSE "retry_scheduled"
          ELSE IF failure.final = "none" THEN "terminal_failed"
                                         ELSE failure.final

\* Which outcomes IT hears of.
NeedsAttention(status) ==
    status \in {"terminal_failed", "reconciliation_required"}

RecordFailure(d) ==
    LET m == dispatch[d].msg
        failure == dispatch[d].failure
        status == FailedStatus(outbox[m], failure)
        nextAt == IF ShouldRetry(outbox[m], failure)
                    THEN NextAttempt(outbox[m], failure)
                    ELSE outbox[m].nextAt
    IN  /\ dispatch[d].step = "failed" /\ Holds(d)
        /\ Release(m, [outbox[m] EXCEPT !.nextAt = nextAt], status,
                   failure.uncertain)
        /\ IF NeedsAttention(status)
             THEN Report(d, "notify")
             ELSE Finish(d)
        /\ UNCHANGED <<now, source, alerts, inflight, accepted, faults>>

\* _notify_it_email_problem and _mark_email_problem_resolved: transactions of
\* their own, after the row's.
Notify(d) ==
    /\ dispatch[d].step = "notify"
    /\ alerts' = [alerts EXCEPT ![dispatch[d].msg] = "open"]
    /\ Finish(d)
    /\ UNCHANGED <<now, outbox, attemptLog, source, inflight, accepted,
                   faults>>

Resolve(d) ==
    /\ dispatch[d].step = "resolve"
    /\ alerts' = [alerts EXCEPT ![dispatch[d].msg] =
                      IF @ = "open" THEN "read" ELSE @]
    /\ Finish(d)
    /\ UNCHANGED <<now, outbox, attemptLog, source, inflight, accepted,
                   faults>>

\* The process dies; or a notification fails, which the code logs and drops;
\* or recording an outcome raises, which ends the dispatch with its lease held.
Abandon(d) ==
    /\ dispatch[d].step # "idle"
    /\ faults < MaxFaults
    /\ faults' = faults + 1
    /\ Finish(d)
    /\ UNCHANGED <<now, outbox, attemptLog, source, alerts, inflight,
                   accepted>>

-----------------------------------------------------------------------------
(* The provider, which remembers an idempotency key for Window after it    *)
(* accepted it.  Answers reach the dispatch that still waits, or get lost. *)

Remembered(m) == \E a \in accepted[m] : now < a.at + Window

Take(r) == r \in inflight /\ inflight' = inflight \ {r}

Waits(d, r) ==
    /\ dispatch[d].step = "sending"
    /\ dispatch[d].msg = r.msg
    /\ dispatch[d].token = r.token

Accept(r) ==
    /\ Take(r)
    /\ ~Remembered(r.msg)
    /\ accepted' = [accepted EXCEPT ![r.msg] = @ \cup
           {[token |-> r.token, payload |-> r.payload, at |-> now]}]
    /\ \/ \E d \in Dispatchers : Waits(d, r) /\ Go(d, "succeeded")
       \/ UNCHANGED dispatch
    /\ UNCHANGED <<now, outbox, attemptLog, source, alerts, faults>>

\* No delivery: a duplicate key, a refusal, a throttled or a lost request.
Decline(r) ==
    /\ Take(r)
    /\ \/ \E d \in Dispatchers :
            /\ Waits(d, r)
            /\ \/ Remembered(r.msg) /\ Fail(d, Duplicated)
               \/ ~Remembered(r.msg) /\ Fail(d, Refused)
               \/ \E delay \in RetryAfters : Fail(d, Throttled(delay))
       \/ UNCHANGED dispatch
    /\ UNCHANGED <<now, outbox, attemptLog, source, alerts, accepted, faults>>

-----------------------------------------------------------------------------
(* Time.  A request does not travel longer than SendDelay.  With Prompt, a *)
(* due row is claimed and a live dispatch finishes before its time is up,  *)
(* as the configured values intend: polling (1 s) and the request timeout  *)
(* (10 s) are short against the lease (120 s) and the delays (30 s up).    *)

KeepsUp ==
    /\ \A m \in Messages : ~Claimable(outbox[m])
    /\ \A d \in Dispatchers : dispatch[d].step = "idle"

Tick ==
    /\ now < MaxTime
    /\ \A r \in inflight : now < r.at + SendDelay
    /\ Prompt => KeepsUp
    /\ now' = now + 1
    /\ UNCHANGED <<outbox, attemptLog, source, alerts, dispatch, inflight,
                   accepted, faults>>

-----------------------------------------------------------------------------
DispatchStep(d) ==
    \/ \E m \in Messages : Claim(d, m)
    \/ Fenced(d)
    \/ Expire(d)
    \/ RenderCancelled(d)
    \/ Render(d)
    \/ Misconfigured(d)
    \/ RefuseAttempt(d)
    \/ StartAttempt(d)
    \/ Interrupted(d)
    \/ RecordSuccess(d)
    \/ RecordCancelled(d)
    \/ RecordFailure(d)
    \/ Notify(d)
    \/ Resolve(d)

Next ==
    \/ \E m \in Messages : \/ Enqueue(m)
                           \/ SourceLapses(m)
                           \/ CancelSource(m)
                           \/ ManualRetry(m)
    \/ \E d \in Dispatchers : DispatchStep(d) \/ Abandon(d)
    \/ \E r \in inflight : Accept(r) \/ Decline(r)
    \/ Tick

Spec == Init /\ [][Next]_vars

\* The worker loop never stops by itself, every request is answered or fails,
\* and time passes.  Nothing obliges users, sources or faults to act.
Fairness ==
    /\ \A d \in Dispatchers : WF_vars(DispatchStep(d))
    /\ WF_vars(\E r \in inflight : Accept(r) \/ Decline(r))
    /\ WF_vars(Tick)

FairSpec == Spec /\ Fairness

-----------------------------------------------------------------------------
(* Safety.                                                                 *)

\* The promise of the idempotency window (service.py:13-14, worker.py:515-567):
\* over crashes, reclaimed leases, lost answers, automatic and manual retries,
\* the provider accepts each message at most once.
AtMostOneDelivery ==
    \A m \in Messages : \A a, b \in accepted[m] : a = b

\* The payload hash of _prepare_provider_attempt: under one idempotency key the
\* provider never sees two contents.
OneKeyOnePayload ==
    /\ \A r \in inflight : r.payload = outbox[r.msg].hash
    /\ \A m \in Messages : \A a \in accepted[m] : a.payload = outbox[m].hash

\* The unique (outbox_id, attempt_number) of email_delivery_attempts: every
\* claim records at most one outcome, and outcomes are recorded in the order of
\* the claims, stale dispatches or not.
AttemptsInOrder ==
    \A m \in Messages :
        /\ \A i \in 1 .. Len(attemptLog[m]) - 1 :
              attemptLog[m][i] < attemptLog[m][i + 1]
        /\ \A i \in DOMAIN attemptLog[m] :
              attemptLog[m][i] <= outbox[m].attempts

\* outcome_uncertain: a row that failed or waits for a retry does not deny its
\* last attempt when the provider accepted that very attempt.
LastOutcomeNotDenied ==
    \A m \in Messages :
        /\ outbox[m].status \in {"retry_scheduled", "terminal_failed",
                                 "reconciliation_required"}
        /\ \E a \in accepted[m] : a.token = outbox[m].attempts
        => outbox[m].uncertain

\* The two validity tests of worker.py:157, 529-537: an e-mail is accepted while
\* its request is valid, the network delay beyond the request timeout aside.
DeliveredWhileValid ==
    \A m \in Messages : \A a \in accepted[m] :
        outbox[m].validUntil # NoTime =>
            a.at + RequestTimeout < outbox[m].validUntil + SendDelay

-----------------------------------------------------------------------------
(* What no step does.                                                      *)

\* cancel_pending_source_emails: once a source is cancelled no request of its
\* message goes out, not even from a dispatch that has already rendered it.
NoAttemptAfterCancel ==
    [][\A r \in inflight' \ inflight : source[r.msg] # "cancelled"]_vars

\* A settled row is history: no late dispatch, cancellation or retry changes any
\* of it, but a manual retry, which puts a terminal failure back in the queue.
SettledIsFinal ==
    [][\A m \in Messages :
          outbox[m].status \in Settled /\ outbox'[m] # outbox[m] =>
              /\ outbox[m].status = "terminal_failed"
              /\ outbox'[m].status = "queued"]_vars

-----------------------------------------------------------------------------
(* Liveness.                                                               *)

\* With Prompt and finitely many faults, every enqueued message is settled:
\* retries end, and a lease held by a dead dispatch is taken over.
Settles ==
    \A m \in Messages :
        outbox[m].status \in Pending ~> outbox[m].status \in Settled

-----------------------------------------------------------------------------
(* What a sender of mail relies on: EmailDelivery.                         *)

Abstract == INSTANCE EmailDelivery WITH
    outcome <- [m \in Messages |->
                  IF outbox[m].status \in Pending THEN "pending"
                  ELSE IF outbox[m].status \in {"absent", "accepted"}
                         THEN outbox[m].status
                         ELSE "closed"],
    copies <- [m \in Messages |-> Cardinality(accepted[m])]

ImplementsDelivery == Abstract!Spec
=============================================================================
