------------------------- MODULE EmailOutbox_proofs -------------------------
(***************************************************************************)
(* Proofs about EmailOutbox, for every value of its constants.             *)
(***************************************************************************)
EXTENDS EmailOutbox, FiniteSetTheorems, TLAPS

-----------------------------------------------------------------------------
(* The types of the helpers.                                               *)

\* What the business transactions, a claim and a prepared attempt write is a row.
LEMMA RowTypes ==
    ASSUME now \in Nat, NEW m \in Messages, NEW row \in Row
    PROVE  /\ NewRow(m) \in Row
           /\ CancelledRow(row) \in Row
           /\ RetriedRow(row) \in Row
           /\ ClaimedRow(row) \in Row
           /\ \A p \in Payloads : PreparedRow(row, p) \in Row
  <1>1. NewRow(m) \in Row
    BY ValidityAssumption, BoundsAssumption
    DEF NewRow, Row, Statuses, Pending, Waiting, Settled, NoTime, NoToken
  <1>2. CancelledRow(row) \in Row
    <2>1. \A s \in Statuses, u \in BOOLEAN :
            [row EXCEPT !.status = s, !.uncertain = u, !.token = NoToken,
                        !.lockExpires = NoTime] \in Row
      BY DEF Row, NoTime, NoToken
    <2>2. {"reconciliation_required", "cancelled"} \subseteq Statuses
      BY DEF Statuses, Settled
    <2>3. CASE row.status \notin Pending
      BY <2>3 DEF CancelledRow
    <2>4. CASE row.status \in Pending /\ row.status = "processing"
      <3>1. CancelledRow(row) =
              [row EXCEPT !.status = "reconciliation_required",
                 !.uncertain = TRUE, !.token = NoToken, !.lockExpires = NoTime]
        BY <2>4 DEF CancelledRow
      <3>. QED
        BY <2>1, <2>2, <3>1
    <2>5. CASE row.status \in Pending /\ row.status # "processing"
      <3>1. CancelledRow(row) =
              [row EXCEPT !.status = "cancelled",
                 !.uncertain = FALSE, !.token = NoToken, !.lockExpires = NoTime]
        BY <2>5 DEF CancelledRow
      <3>. QED
        BY <2>1, <2>2, <3>1
    <2>. QED
      BY <2>3, <2>4, <2>5
  <1>3. RetriedRow(row) \in Row
    <2>1. /\ Later(row.maxAttempts, row.attempts + 1) \in Nat
          /\ row.manualRetries + 1 \in Nat
      BY DEF Later, Row
    <2>. QED
      BY <2>1 DEF RetriedRow, Row, Statuses, Pending, Waiting, NoToken, NoTime
  <1>4. ClaimedRow(row) \in Row
    <2>1. /\ now + Lease \in Nat
          /\ row.attempts + 1 \in Nat
      BY TimesAssumption DEF Row
    <2>. QED
      BY <2>1 DEF ClaimedRow, Row, Statuses, Pending, Waiting
  <1>5. \A p \in Payloads : PreparedRow(row, p) \in Row
    <2>1. (IF row.firstAt = NoTime THEN now ELSE row.firstAt)
            \in Nat \cup {NoTime}
      BY DEF Row
    <2>. QED
      BY <2>1 DEF PreparedRow, Row
  <1>. QED
    BY <1>1, <1>2, <1>4, <1>5, <1>3

\* A dispatch that becomes idle, fails or moves on stays a dispatch.
LEMMA DispatchTypes ==
    ASSUME NEW c \in Dispatch
    PROVE  /\ Idle \in Dispatch
           /\ \A f \in Failures :
                c.step # "idle" =>
                  [c EXCEPT !.step = "failed", !.failure = f] \in Dispatch
           /\ \A s \in Steps \ {"rendered"} :
                c.step # "idle" => [c EXCEPT !.step = s] \in Dispatch
           /\ \A p \in Payloads :
                c.step # "idle" =>
                  [c EXCEPT !.step = "rendered", !.payload = p] \in Dispatch
           /\ \A s \in Steps \ {"rendered"}, m \in Messages :
                [Idle EXCEPT !.step = s, !.msg = m] \in Dispatch
           /\ \A m \in Messages, t \in Nat :
                [Idle EXCEPT !.step = "claimed", !.msg = m, !.token = t]
                    \in Dispatch
  <1>1. Unanswered \in Failures
    BY DEF Unanswered, Failure, Failures
  <1>2. Idle \in Dispatch
    BY <1>1 DEF Dispatch, Idle, Steps, NoToken
  <1>3. \A f \in Failures : c.step # "idle" =>
          [c EXCEPT !.step = "failed", !.failure = f] \in Dispatch
    BY DEF Dispatch, Steps
  <1>4. \A s \in Steps \ {"rendered"} :
          c.step # "idle" => [c EXCEPT !.step = s] \in Dispatch
    BY DEF Dispatch
  <1>5. \A p \in Payloads : c.step # "idle" =>
          [c EXCEPT !.step = "rendered", !.payload = p] \in Dispatch
    BY DEF Dispatch, Steps
  <1>6. \A s \in Steps \ {"rendered"}, m \in Messages :
          [Idle EXCEPT !.step = s, !.msg = m] \in Dispatch
    BY <1>1 DEF Dispatch, Idle, NoToken
  <1>7. \A m \in Messages, t \in Nat :
          [Idle EXCEPT !.step = "claimed", !.msg = m, !.token = t] \in Dispatch
    BY <1>1 DEF Dispatch, Idle, Steps
  <1>. QED
    BY <1>2, <1>3, <1>4, <1>5, <1>6, <1>7

\* The durations the arithmetic below is about, without the rest of
\* TimesAssumption.
LEMMA DurationTypes ==
    Window \in Nat /\ Margin \in Nat /\ SendDelay \in Nat
  BY TimesAssumption

\* The failures a dispatch can meet.
LEMMA FailureTypes ==
    /\ {Unanswered, Refused, Duplicated} \subseteq Failures
    /\ \A delay \in RetryAfters : Throttled(delay) \in Failures
    /\ \A u \in BOOLEAN :
         \A s \in {"expired", "terminal_failed", "reconciliation_required"} :
            Rejected(s, u) \in Failures
  BY TimesAssumption
  DEF Failures, Failure, Unanswered, Refused, Duplicated, Throttled, Rejected

\* The row and the log entry that _record_success, _record_cancelled and
\* _record_failure write.
LEMMA ReleaseTypes ==
    ASSUME TypeOK, NEW m \in Messages, NEW row \in Row,
           NEW status \in Statuses, NEW uncertain \in BOOLEAN,
           Release(m, row, status, uncertain)
    PROVE  /\ outbox' \in [Messages -> Row]
           /\ attemptLog' \in [Messages -> Seq(Nat)]
  <1>1. [row EXCEPT !.status = status, !.uncertain = uncertain,
                    !.token = NoToken, !.lockExpires = NoTime] \in Row
    BY DEF Row, NoToken, NoTime
  <1>2. outbox' \in [Messages -> Row]
    BY <1>1 DEF Release, SetRow, TypeOK
  <1>3. row.attempts \in Nat
    BY DEF Row
  <1>4. Append(attemptLog[m], row.attempts) \in Seq(Nat)
    BY <1>3 DEF TypeOK
  <1>. QED
    BY <1>2, <1>4 DEF Release, TypeOK

\* What _record_failure computes: a delay of the retry schedule and a status.
LEMMA FailedRowTypes ==
    ASSUME TypeOK, NEW row \in Row, row.attempts # 0, NEW failure \in Failures
    PROVE  /\ NextAttempt(row, failure) \in Nat
           /\ FailedStatus(row, failure) \in Statuses
  <1>1. RetryDelay(row.attempts) \in Nat
    BY TimesAssumption DEF RetryDelay, Row
  <1>2. /\ now \in Nat
        /\ failure.retryAfter \in Nat
    BY DEF TypeOK, Failures
  <1>3. Later(RetryDelay(row.attempts), failure.retryAfter) \in Nat
    BY <1>1, <1>2 DEF Later
  <1>4. NextAttempt(row, failure) \in Nat
    BY <1>2, <1>3 DEF NextAttempt
  <1>5. FailedStatus(row, failure) \in Statuses
    BY DEF FailedStatus, Failures, Statuses, Pending, Waiting, Settled
  <1>. QED
    BY <1>4, <1>5

-----------------------------------------------------------------------------
(* Type correctness.  A failure indexes the retry schedule with the number *)
(* of attempts, so the invariant also says that a claimed row has some.    *)

Counted ==
    \A m \in Messages : outbox[m].status = "processing" => outbox[m].attempts # 0

TypeInv == TypeOK /\ Counted

\* A dispatch that holds its claim has a row, which is being processed.
LEMMA HeldRow ==
    ASSUME TypeInv, NEW d \in Dispatchers, Holds(d)
    PROVE  /\ dispatch[d] \in Dispatch
           /\ dispatch[d].step # "idle"
           /\ dispatch[d].msg \in Messages
           /\ outbox[dispatch[d].msg] \in Row
           /\ outbox[dispatch[d].msg].status = "processing"
           /\ outbox[dispatch[d].msg].attempts # 0
  <1>1. dispatch[d] \in Dispatch /\ dispatch[d].step # "idle"
    BY DEF TypeInv, TypeOK, Holds
  <1>2. dispatch[d].msg \in Messages
    BY <1>1 DEF Dispatch
  <1>. QED
    BY <1>1, <1>2 DEF TypeInv, TypeOK, Counted, Holds

\* The type invariant holds initially.
LEMMA InitTypeInv == Init => TypeInv
  <1>. SUFFICES ASSUME Init PROVE TypeInv
    OBVIOUS
  <1>1. ASSUME NEW m \in Messages
        PROVE  /\ [NewRow(m) EXCEPT !.status = "absent"] \in Row
               /\ [NewRow(m) EXCEPT !.status = "absent"].status = "absent"
    <2>1. now \in Nat
      BY DEF Init
    <2>3. NewRow(m) \in Row
      BY <2>1, ValidityAssumption, BoundsAssumption
      DEF NewRow, Row, Statuses, Pending, Waiting, Settled, NoTime, NoToken
    <2>4. "absent" \in Statuses
      BY DEF Statuses
    <2>. QED
      BY <2>3, <2>4 DEF Row
  <1>2. Idle \in Dispatch
    BY DEF Idle, Dispatch, Steps, NoToken, Unanswered, Failure, Failures
  <1>3. outbox \in [Messages -> Row] /\ Counted
    BY <1>1 DEF Init, Counted
  <1>. QED
    BY <1>2, <1>3 DEF Init, TypeInv, TypeOK

\* Every action that only moves a dispatch forward.
LEMMA DispatchOnly ==
    ASSUME TypeInv,
           dispatch' \in [Dispatchers -> Dispatch],
           UNCHANGED <<now, outbox, attemptLog, source, alerts, inflight,
                       accepted, faults>>
    PROVE  TypeInv'
  BY DEF TypeInv, TypeOK, Counted

\* Every action that rewrites one row and no dispatch.
LEMMA RowOnly ==
    ASSUME TypeInv, NEW m \in Messages, NEW row \in Row,
           row.status = "processing" => row.attempts # 0,
           SetRow(m, row),
           source' \in [Messages -> {"valid", "lapsed", "cancelled"}],
           UNCHANGED <<now, attemptLog, alerts, dispatch, inflight, accepted,
                       faults>>
    PROVE  TypeInv'
  <1>1. outbox' \in [Messages -> Row] /\ Counted'
    BY DEF TypeInv, TypeOK, SetRow, Counted
  <1>. QED
    BY <1>1 DEF TypeInv, TypeOK

\* The business transactions keep the type invariant.
LEMMA BusinessTypeInv ==
    ASSUME TypeInv, NEW m \in Messages,
           Enqueue(m) \/ SourceLapses(m) \/ CancelSource(m) \/ ManualRetry(m)
    PROVE  TypeInv'
  <1>. /\ now \in Nat
       /\ outbox[m] \in Row
    BY DEF TypeInv, TypeOK
  <1>1. CASE Enqueue(m)
    <2>1. NewRow(m) \in Row /\ NewRow(m).status # "processing"
      BY RowTypes DEF NewRow
    <2>. QED
      BY <1>1, <2>1, RowOnly DEF Enqueue, TypeInv, TypeOK
  <1>2. CASE SourceLapses(m)
    BY <1>2 DEF SourceLapses, TypeInv, TypeOK, Counted
  <1>3. CASE CancelSource(m)
    <2>0. now \in Nat /\ outbox[m] \in Row
      BY DEF TypeInv, TypeOK
    <2>1. /\ CancelledRow(outbox[m]) \in Row
          /\ CancelledRow(outbox[m]).status # "processing"
      <3>1. CancelledRow(outbox[m]) \in Row
        BY <2>0, RowTypes
      <3>2. CancelledRow(outbox[m]).status # "processing"
        BY <2>0 DEF CancelledRow, Pending, Waiting, Row
      <3>. QED
        BY <3>1, <3>2
    <2>2. source' \in [Messages -> {"valid", "lapsed", "cancelled"}]
      BY <1>3 DEF CancelSource, TypeInv, TypeOK
    <2>3. CASE SetRow(m, CancelledRow(outbox[m]))
      BY <1>3, <2>1, <2>2, <2>3, RowOnly DEF CancelSource
    <2>4. CASE UNCHANGED outbox
      BY <1>3, <2>2, <2>4 DEF CancelSource, TypeInv, TypeOK, Counted
    <2>. QED
      BY <1>3, <2>3, <2>4 DEF CancelSource
  <1>4. CASE ManualRetry(m)
    <2>2. /\ RetriedRow(outbox[m]) \in Row
          /\ RetriedRow(outbox[m]).status # "processing"
      <3>1. RetriedRow(outbox[m]) \in Row
        BY RowTypes
      <3>. QED
        BY <3>1 DEF RetriedRow, Row
    <2>. QED
      BY <1>4, <2>2, RowOnly DEF ManualRetry, TypeInv, TypeOK
  <1>. QED
    BY <1>1, <1>2, <1>3, <1>4

\* Claiming a row keeps the type invariant.
LEMMA ClaimTypeInv ==
    ASSUME TypeInv, NEW d \in Dispatchers, NEW m \in Messages, Claim(d, m)
    PROVE  TypeInv'
  <1>1. now \in Nat /\ outbox[m] \in Row
    BY DEF TypeInv, TypeOK
  <1>2. ClaimedRow(outbox[m]) \in Row /\ ClaimedRow(outbox[m]).attempts # 0
    <2>1. ClaimedRow(outbox[m]) \in Row
      BY <1>1, RowTypes
    <2>. QED
      BY <1>1, <2>1 DEF ClaimedRow, Row
  <1>3. ClaimedRow(outbox[m]).token \in Nat
    BY <1>2 DEF Row
  <1>4. dispatch' \in [Dispatchers -> Dispatch]
    BY <1>3, DispatchTypes DEF Claim, TypeInv, TypeOK
  <1>5. outbox' \in [Messages -> Row] /\ Counted'
    BY <1>2 DEF Claim, SetRow, TypeInv, TypeOK, Counted
  <1>. QED
    BY <1>4, <1>5 DEF Claim, TypeInv, TypeOK

\* The actions that only decide how a dispatch goes on.
LEMMA DecideTypeInv ==
    ASSUME TypeInv, NEW d \in Dispatchers,
           \/ Fenced(d) \/ Expire(d) \/ RenderCancelled(d) \/ Render(d)
           \/ Misconfigured(d) \/ RefuseAttempt(d) \/ Interrupted(d)
    PROVE  TypeInv'
  <1>. DEFINE c == dispatch[d]
  <1>1. c \in Dispatch /\ dispatch \in [Dispatchers -> Dispatch]
    BY DEF TypeInv, TypeOK
  <1>2. UNCHANGED <<now, outbox, attemptLog, source, alerts, inflight,
                    accepted, faults>>
    BY DEF Fenced, Expire, RenderCancelled, Render, Misconfigured,
           RefuseAttempt, Interrupted
  <1>3. ASSUME NEW f \in Failures, Fail(d, f), c.step # "idle"
        PROVE  dispatch' \in [Dispatchers -> Dispatch]
    BY <1>1, <1>3, DispatchTypes DEF Fail
  <1>4. ASSUME NEW s \in Steps \ {"rendered"}, Go(d, s), c.step # "idle"
        PROVE  dispatch' \in [Dispatchers -> Dispatch]
    <2>1. [c EXCEPT !.step = s] \in Dispatch
      BY <1>1, <1>4, DispatchTypes
    <2>2. dispatch' = [dispatch EXCEPT ![d] = [c EXCEPT !.step = s]]
      BY <1>1, <1>4 DEF Go
    <2>. QED
      BY <1>1, <2>1, <2>2
  <1>5. dispatch' \in [Dispatchers -> Dispatch]
    <2>1. CASE Fenced(d)
      BY <1>1, <2>1, DispatchTypes DEF Fenced, Finish
    <2>2. CASE Expire(d)
      BY <1>3, <2>2, FailureTypes DEF Expire
    <2>3. CASE RenderCancelled(d)
      BY <1>4, <2>3 DEF RenderCancelled, Steps
    <2>4. CASE Render(d)
      <3>1. CASE c.msg \in LocalMessages
        BY <1>4, <2>4, <3>1 DEF Render, Steps
      <3>2. CASE c.msg \notin LocalMessages
        <4>1. PICK p \in Payloads :
                dispatch' = [dispatch EXCEPT ![d] =
                               [c EXCEPT !.step = "rendered", !.payload = p]]
          BY <1>1, <2>4, <3>2 DEF Render
        <4>2. [c EXCEPT !.step = "rendered", !.payload = p] \in Dispatch
          BY <1>1, <2>4, DispatchTypes DEF Render
        <4>. QED
          BY <1>1, <4>1, <4>2
      <3>. QED
        BY <3>1, <3>2
    <2>5. CASE Misconfigured(d)
      BY <1>3, <2>5, FailureTypes DEF Misconfigured
    <2>6. CASE RefuseAttempt(d)
      <3>1. c.msg \in Messages
        BY <1>1, <2>6 DEF RefuseAttempt, Dispatch
      <3>2. outbox[c.msg].uncertain \in BOOLEAN
        BY <3>1 DEF TypeInv, TypeOK, Row
      <3>3. Refusals(d) \subseteq Failures
        BY <3>2, FailureTypes DEF Refusals
      <3>. QED
        BY <1>3, <2>6, <3>3 DEF RefuseAttempt
    <2>7. CASE Interrupted(d)
      BY <1>3, <2>7, FailureTypes DEF Interrupted
    <2>. QED
      BY <2>1, <2>2, <2>3, <2>4, <2>5, <2>6, <2>7
  <1>. QED
    BY <1>2, <1>5, DispatchOnly

\* Preparing and sending a request keeps the type invariant.
LEMMA StartAttemptTypeInv ==
    ASSUME TypeInv, NEW d \in Dispatchers, StartAttempt(d)
    PROVE  TypeInv'
  <1>. DEFINE c == dispatch[d]
              m == c.msg
  <1>1. Holds(d)
    BY DEF StartAttempt, Refusals
  <1>2. /\ c \in Dispatch /\ c.step = "rendered"
        /\ m \in Messages
        /\ outbox[m] \in Row
        /\ outbox[m].attempts # 0
        /\ now \in Nat
    BY <1>1, HeldRow DEF StartAttempt, TypeInv, TypeOK
  <1>3. c.payload \in Payloads /\ c.token \in Nat
    BY <1>2 DEF Dispatch
  <1>4. PreparedRow(outbox[m], c.payload) \in Row
    BY <1>2, <1>3, RowTypes
  <1>5. PreparedRow(outbox[m], c.payload).attempts # 0
    BY <1>2 DEF PreparedRow, Row
  <1>6. outbox' \in [Messages -> Row] /\ Counted'
    BY <1>2, <1>4, <1>5 DEF StartAttempt, SetRow, TypeInv, TypeOK, Counted
  <1>7. inflight' \subseteq Request
    BY <1>2, <1>3 DEF StartAttempt, Request, TypeInv, TypeOK
  <1>8. dispatch' \in [Dispatchers -> Dispatch]
    <2>1. [c EXCEPT !.step = "sending"] \in Dispatch
      BY <1>2, DispatchTypes DEF Steps
    <2>2. dispatch' = [dispatch EXCEPT ![d] = [c EXCEPT !.step = "sending"]]
      BY DEF StartAttempt, Go, TypeInv, TypeOK
    <2>. QED
      BY <2>1, <2>2 DEF TypeInv, TypeOK
  <1>. QED
    BY <1>6, <1>7, <1>8 DEF StartAttempt, TypeInv, TypeOK

\* Recording an outcome keeps the type invariant.
LEMMA RecordTypeInv ==
    ASSUME TypeInv, NEW d \in Dispatchers,
           RecordSuccess(d) \/ RecordCancelled(d) \/ RecordFailure(d)
    PROVE  TypeInv'
  <1>. DEFINE c == dispatch[d]
              m == c.msg
  <1>1. Holds(d)
    BY DEF RecordSuccess, RecordCancelled, RecordFailure
  <1>2. /\ c \in Dispatch
        /\ m \in Messages
        /\ outbox[m] \in Row
        /\ outbox[m].attempts # 0
    BY <1>1, HeldRow
  <1>3. PICK row \in Row, status \in Statuses \ {"processing"},
             uncertain \in BOOLEAN : Release(m, row, status, uncertain)
    <2>1. CASE RecordSuccess(d)
      BY <1>2, <2>1 DEF RecordSuccess, Statuses, Settled, Pending
    <2>2. CASE RecordCancelled(d)
      BY <1>2, <2>2 DEF RecordCancelled, Statuses, Settled
    <2>3. CASE RecordFailure(d)
      <3>1. c.failure \in Failures
        BY <1>2 DEF Dispatch
      <3>2. c.failure.uncertain \in BOOLEAN
        BY <3>1 DEF Failures
      <3>3. /\ NextAttempt(outbox[m], c.failure) \in Nat
            /\ FailedStatus(outbox[m], c.failure) \in Statuses \ {"processing"}
        <4>1. /\ NextAttempt(outbox[m], c.failure) \in Nat
              /\ FailedStatus(outbox[m], c.failure) \in Statuses
          BY <1>2, <3>1, FailedRowTypes DEF TypeInv
        <4>2. FailedStatus(outbox[m], c.failure) # "processing"
          BY <3>1 DEF FailedStatus, Failures
        <4>. QED
          BY <4>1, <4>2
      <3>. DEFINE nextAt == IF ShouldRetry(outbox[m], c.failure)
                              THEN NextAttempt(outbox[m], c.failure)
                              ELSE outbox[m].nextAt
      <3>4. [outbox[m] EXCEPT !.nextAt = nextAt] \in Row
        <4>1. nextAt \in Nat
          BY <1>2, <3>3 DEF Row
        <4>. QED
          BY <1>2, <4>1 DEF Row
      <3>5. Release(m, [outbox[m] EXCEPT !.nextAt = nextAt],
                    FailedStatus(outbox[m], c.failure), c.failure.uncertain)
        BY <2>3 DEF RecordFailure
      <3>. QED
        BY <3>2, <3>3, <3>4, <3>5
    <2>. QED
      BY <2>1, <2>2, <2>3
  <1>4. /\ outbox' \in [Messages -> Row]
        /\ attemptLog' \in [Messages -> Seq(Nat)]
    BY <1>2, <1>3, ReleaseTypes DEF TypeInv
  <1>5. Counted'
    BY <1>2, <1>3 DEF Release, SetRow, TypeInv, TypeOK, Counted, Row
  <1>6. dispatch' \in [Dispatchers -> Dispatch]
    <2>1. Idle \in Dispatch
      BY <1>2, DispatchTypes
    <2>2. \A s \in {"resolve", "notify"} :
            [Idle EXCEPT !.step = s, !.msg = m] \in Dispatch
      BY <1>2, DispatchTypes DEF Steps
    <2>3. \/ Report(d, "resolve") \/ Report(d, "notify") \/ Finish(d)
      BY DEF RecordSuccess, RecordCancelled, RecordFailure
    <2>. QED
      BY <2>1, <2>2, <2>3 DEF Report, Finish, TypeInv, TypeOK
  <1>. QED
    BY <1>4, <1>5, <1>6
    DEF RecordSuccess, RecordCancelled, RecordFailure, TypeInv, TypeOK

\* The end of a dispatch keeps the type invariant.
LEMMA EndTypeInv ==
    ASSUME TypeInv, NEW d \in Dispatchers,
           Notify(d) \/ Resolve(d) \/ Abandon(d)
    PROVE  TypeInv'
  <1>1. dispatch' \in [Dispatchers -> Dispatch]
    <2>1. dispatch[d] \in Dispatch /\ dispatch \in [Dispatchers -> Dispatch]
      BY DEF TypeInv, TypeOK
    <2>2. Idle \in Dispatch
      BY <2>1, DispatchTypes
    <2>3. dispatch' = [dispatch EXCEPT ![d] = Idle]
      BY DEF Notify, Resolve, Abandon, Finish
    <2>. QED
      BY <2>1, <2>2, <2>3
  <1>2. alerts' \in [Messages -> {"none", "open", "read"}]
    <2>1. alerts \in [Messages -> {"none", "open", "read"}]
      BY DEF TypeInv, TypeOK
    <2>2. CASE Notify(d)
      BY <2>1, <2>2 DEF Notify
    <2>3. CASE Resolve(d) \/ Abandon(d)
      BY <2>1, <2>3 DEF Resolve, Abandon
    <2>. QED
      BY <2>2, <2>3
  <1>3. faults' \in Nat
    BY DEF Notify, Resolve, Abandon, TypeInv, TypeOK
  <1>. QED
    BY <1>1, <1>2, <1>3 DEF Notify, Resolve, Abandon, TypeInv, TypeOK, Counted

\* The provider keeps the type invariant.
LEMMA ProviderTypeInv ==
    ASSUME TypeInv, NEW r \in inflight, Accept(r) \/ Decline(r)
    PROVE  TypeInv'
  <1>1. r \in Request /\ now \in Nat
    BY DEF TypeInv, TypeOK
  <1>2. inflight' \subseteq Request
    BY DEF Accept, Decline, Take, TypeInv, TypeOK
  <1>3. accepted' \in [Messages -> SUBSET Delivery]
    <2>1. [token |-> r.token, payload |-> r.payload, at |-> now] \in Delivery
      BY <1>1 DEF Request, Delivery
    <2>2. CASE Accept(r)
      <3>1. r.msg \in Messages
        BY <1>1 DEF Request
      <3>. QED
        BY <2>1, <2>2, <3>1 DEF Accept, TypeInv, TypeOK
    <2>3. CASE Decline(r)
      BY <2>3 DEF Decline, TypeInv, TypeOK
    <2>. QED
      BY <2>2, <2>3
  <1>4. dispatch' \in [Dispatchers -> Dispatch]
    <2>1. ASSUME NEW d \in Dispatchers, Waits(d, r), NEW f \in Failures,
                 Fail(d, f)
          PROVE  dispatch' \in [Dispatchers -> Dispatch]
      BY <2>1, DispatchTypes DEF Fail, Waits, TypeInv, TypeOK
    <2>2. ASSUME NEW d \in Dispatchers, Waits(d, r), Go(d, "succeeded")
          PROVE  dispatch' \in [Dispatchers -> Dispatch]
      <3>1. dispatch[d] \in Dispatch
        BY DEF TypeInv, TypeOK
      <3>2. [dispatch[d] EXCEPT !.step = "succeeded"] \in Dispatch
        BY <2>2, <3>1, DispatchTypes DEF Waits, Steps
      <3>3. dispatch' = [dispatch EXCEPT ![d] =
                            [dispatch[d] EXCEPT !.step = "succeeded"]]
        BY <2>2 DEF Go, TypeInv, TypeOK
      <3>. QED
        BY <3>2, <3>3 DEF TypeInv, TypeOK
    <2>. QED
      BY <2>1, <2>2, FailureTypes DEF Accept, Decline, TypeInv, TypeOK
  <1>. QED
    BY <1>2, <1>3, <1>4 DEF Accept, Decline, TypeInv, TypeOK, Counted

\* The type invariant is inductive.
LEMMA NextTypeInv == TypeInv /\ [Next]_vars => TypeInv'
  <1>. SUFFICES ASSUME TypeInv, [Next]_vars PROVE TypeInv'
    OBVIOUS
  <1>1. ASSUME NEW m \in Messages,
               \/ Enqueue(m) \/ SourceLapses(m)
               \/ CancelSource(m) \/ ManualRetry(m)
        PROVE  TypeInv'
    BY <1>1, BusinessTypeInv
  <1>2. ASSUME NEW d \in Dispatchers, DispatchStep(d) \/ Abandon(d)
        PROVE  TypeInv'
    BY <1>2, ClaimTypeInv, DecideTypeInv, StartAttemptTypeInv, RecordTypeInv,
       EndTypeInv DEF DispatchStep
  <1>3. ASSUME NEW r \in inflight, Accept(r) \/ Decline(r)
        PROVE  TypeInv'
    BY <1>3, ProviderTypeInv
  <1>4. CASE Tick
    BY <1>4 DEF Tick, TypeInv, TypeOK, Counted
  <1>5. CASE UNCHANGED vars
    BY <1>5 DEF vars, TypeInv, TypeOK, Counted
  <1>. QED
    BY <1>1, <1>2, <1>3, <1>4, <1>5 DEF Next

\* The type invariant holds in every reachable state.
LEMMA AlwaysTypeInv == Spec => []TypeInv
  BY InitTypeInv, NextTypeInv, PTL DEF Spec

\* Every row, dispatch, request and delivery stays in its type: among others, a
\* failure never falls off the retry schedule or leaves a row without a status.
THEOREM TypeCorrect == Spec => []TypeOK
  <1>1. TypeInv => TypeOK
    BY DEF TypeInv
  <1>. QED
    BY <1>1, AlwaysTypeInv, PTL
-----------------------------------------------------------------------------
(* At most one delivery.  Not inductive by itself: a second acceptance is  *)
(* excluded because the first attempt of a row is dated once and for all,  *)
(* every request still travelling was prepared before that attempt's       *)
(* cut-off, and every acceptance is later than that attempt.  So a request *)
(* that arrives does so before the provider forgets the key.               *)

WindowInv ==
    /\ \A m \in Messages :
          /\ outbox[m].status = "absent" => outbox[m].firstAt = NoTime
          /\ outbox[m].firstAt <= now
    /\ \A r \in inflight :
          /\ outbox[r.msg].firstAt # NoTime
          /\ r.at < Cutoff(outbox[r.msg])
          /\ now <= r.at + SendDelay
    /\ \A m \in Messages : \A a \in accepted[m] :
          /\ outbox[m].firstAt # NoTime
          /\ outbox[m].firstAt <= a.at
    /\ AtMostOneDelivery

DeliveryInv == TypeInv /\ WindowInv

\* No request is on its way initially.
LEMMA InitWindowInv == Init => WindowInv
  BY DEF Init, WindowInv, NewRow, NoTime, AtMostOneDelivery

\* The steps that neither date a first attempt nor touch the network.
SameWindow ==
    /\ \A m \in Messages :
          /\ outbox'[m].firstAt = outbox[m].firstAt
          /\ outbox'[m].status = "absent" => outbox[m].status = "absent"
    /\ UNCHANGED <<now, inflight, accepted>>

\* What no request depends on may change freely.
LEMMA SameWindowInv ==
    ASSUME TypeInv, TypeInv', WindowInv, SameWindow
    PROVE  WindowInv'
  <1>1. \A r \in inflight : r.msg \in Messages
    BY DEF TypeInv, TypeOK, Request
  <1>. QED
    BY <1>1 DEF SameWindow, WindowInv, AtMostOneDelivery, Cutoff

\* The business transactions do not reopen the window of a message.
LEMMA BusinessWindowInv ==
    ASSUME TypeInv, TypeInv', WindowInv, NEW m \in Messages,
           Enqueue(m) \/ SourceLapses(m) \/ CancelSource(m) \/ ManualRetry(m)
    PROVE  WindowInv'
  <1>. outbox \in [Messages -> Row]
    BY DEF TypeInv, TypeOK
  <1>1. CASE Enqueue(m)
    <2>1. /\ outbox[m].firstAt = NoTime
          /\ NewRow(m).firstAt = NoTime
          /\ NewRow(m).status # "absent"
      BY <1>1 DEF Enqueue, WindowInv, NewRow
    <2>. QED
      BY <1>1, <2>1, SameWindowInv DEF Enqueue, SetRow, SameWindow
  <1>2. CASE SourceLapses(m)
    BY <1>2, SameWindowInv DEF SourceLapses, SameWindow
  <1>3. CASE CancelSource(m)
    <2>1. /\ CancelledRow(outbox[m]).firstAt = outbox[m].firstAt
          /\ CancelledRow(outbox[m]).status # "absent"
      BY <1>3 DEF CancelSource, CancelledRow, Row
    <2>2. CASE SetRow(m, CancelledRow(outbox[m]))
      BY <1>3, <2>1, <2>2, SameWindowInv DEF CancelSource, SetRow, SameWindow
    <2>3. CASE UNCHANGED outbox
      BY <1>3, <2>3, SameWindowInv DEF CancelSource, SameWindow
    <2>. QED
      BY <1>3, <2>2, <2>3 DEF CancelSource
  <1>4. CASE ManualRetry(m)
    <2>1. /\ RetriedRow(outbox[m]).firstAt = outbox[m].firstAt
          /\ RetriedRow(outbox[m]).status # "absent"
      BY DEF RetriedRow, Row
    <2>. QED
      BY <1>4, <2>1, SameWindowInv DEF ManualRetry, SetRow, SameWindow
  <1>. QED
    BY <1>1, <1>2, <1>3, <1>4

\* A request starts before the cut-off of its message.
LEMMA StartAttemptWindowInv ==
    ASSUME TypeInv, TypeInv', WindowInv, NEW d \in Dispatchers, StartAttempt(d)
    PROVE  WindowInv'
  <1>. DEFINE m == dispatch[d].msg
              request == [msg |-> m, token |-> dispatch[d].token,
                          payload |-> dispatch[d].payload, at |-> now]
  <1>1. /\ m \in Messages
        /\ outbox[m] \in Row
        /\ outbox[m].status = "processing"
        /\ ~PastCutoff(outbox[m], now)
        /\ now \in Nat
    BY HeldRow DEF StartAttempt, Refusals, TypeInv, TypeOK
  <1>2. /\ outbox' = [outbox EXCEPT ![m] =
                         PreparedRow(outbox[m], dispatch[d].payload)]
        /\ inflight' = inflight \cup {request}
        /\ UNCHANGED <<now, accepted>>
    BY DEF StartAttempt, SetRow
  <1>3. /\ outbox'[m].firstAt = IF outbox[m].firstAt = NoTime
                                  THEN now ELSE outbox[m].firstAt
        /\ outbox'[m].status = "processing"
        /\ \A n \in Messages \ {m} : outbox'[n] = outbox[n]
    <2>. DEFINE sent == PreparedRow(outbox[m], dispatch[d].payload)
    <2>1. outbox \in [Messages -> Row]
      BY DEF TypeInv, TypeOK
    <2>2. /\ sent.firstAt = IF outbox[m].firstAt = NoTime
                              THEN now ELSE outbox[m].firstAt
          /\ sent.status = "processing"
      BY <1>1 DEF PreparedRow, Row
    <2>3. outbox' = [outbox EXCEPT ![m] = sent]
      BY <1>2
    <2>. HIDE DEF sent, m
    <2>4. outbox'[m] = sent /\ \A n \in Messages \ {m} : outbox'[n] = outbox[n]
      BY <1>1, <2>1, <2>3
    <2>. QED
      BY <2>2, <2>4
  <1>4. \A n \in Messages :
          outbox[n].firstAt # NoTime => outbox'[n].firstAt = outbox[n].firstAt
    BY <1>3
  <1>5. ASSUME NEW n \in Messages
        PROVE  /\ outbox'[n].status = "absent" => outbox'[n].firstAt = NoTime
               /\ outbox'[n].firstAt <= now
    BY <1>1, <1>3 DEF WindowInv
  <1>6. ASSUME NEW r \in inflight'
        PROVE  /\ outbox'[r.msg].firstAt # NoTime
               /\ r.at < Cutoff(outbox'[r.msg])
               /\ now <= r.at + SendDelay
    <2>1. CASE r \in inflight
      <3>1. r.msg \in Messages
        BY <2>1 DEF TypeInv, TypeOK, Request
      <3>. QED
        BY <1>4, <2>1, <3>1 DEF WindowInv, Cutoff
    <2>2. CASE r = request
      <3>1. outbox'[m].firstAt # NoTime
        BY <1>1, <1>3 DEF NoTime
      <3>2. now < Cutoff(outbox'[m])
        <4>1. CASE outbox[m].firstAt = NoTime
          BY <1>1, <1>3, <4>1, DurationTypes, MarginAssumption DEF Cutoff
        <4>2. CASE outbox[m].firstAt # NoTime
          <5>1. Cutoff(outbox[m]) \in Int
            BY <1>1, <4>2, DurationTypes DEF Cutoff, Row, NoTime
          <5>2. now < Cutoff(outbox[m])
            BY <1>1, <4>2, <5>1 DEF PastCutoff
          <5>3. outbox'[m].firstAt = outbox[m].firstAt
            BY <1>3, <4>2
          <5>. QED
            BY <5>2, <5>3 DEF Cutoff
        <4>. QED
          BY <4>1, <4>2
      <3>. QED
        BY <1>1, <2>2, <3>1, <3>2, DurationTypes
    <2>. QED
      BY <1>2, <2>1, <2>2
  <1>7. ASSUME NEW n \in Messages, NEW a \in accepted'[n]
        PROVE  /\ outbox'[n].firstAt # NoTime
               /\ outbox'[n].firstAt <= a.at
    BY <1>2, <1>4, <1>7 DEF WindowInv
  <1>8. AtMostOneDelivery'
    BY <1>2 DEF WindowInv, AtMostOneDelivery
  <1>. QED
    BY <1>2, <1>5, <1>6, <1>7, <1>8 DEF WindowInv

\* The other steps of a dispatch start no request.
LEMMA DispatchWindowInv ==
    ASSUME TypeInv, TypeInv', WindowInv, NEW d \in Dispatchers,
           DispatchStep(d) \/ Abandon(d)
    PROVE  WindowInv'
  <1>. DEFINE m == dispatch[d].msg
  <1>. outbox \in [Messages -> Row]
    BY DEF TypeInv, TypeOK
  <1>1. ASSUME NEW n \in Messages, Claim(d, n)
        PROVE  WindowInv'
    <2>1. /\ ClaimedRow(outbox[n]).firstAt = outbox[n].firstAt
          /\ ClaimedRow(outbox[n]).status = "processing"
      BY DEF ClaimedRow, Row
    <2>. QED
      BY <1>1, <2>1, SameWindowInv DEF Claim, SetRow, SameWindow
  <1>2. CASE UNCHANGED <<now, outbox, inflight, accepted>>
    BY <1>2, SameWindowInv DEF SameWindow
  <1>3. CASE RecordSuccess(d) \/ RecordCancelled(d) \/ RecordFailure(d)
    <2>1. PICK row, status, uncertain :
            /\ Release(m, row, status, uncertain)
            /\ row \in Row
            /\ row.firstAt = outbox[m].firstAt
            /\ status # "absent"
      <3>1. Holds(d)
        BY <1>3 DEF RecordSuccess, RecordCancelled, RecordFailure
      <3>2. m \in Messages /\ outbox[m] \in Row /\ outbox[m].attempts # 0
        BY <3>1, HeldRow
      <3>3. CASE RecordSuccess(d)
        BY <3>2, <3>3 DEF RecordSuccess
      <3>4. CASE RecordCancelled(d)
        BY <3>2, <3>4 DEF RecordCancelled
      <3>5. CASE RecordFailure(d)
        <4>. DEFINE f == dispatch[d].failure
                    nextAt == IF ShouldRetry(outbox[m], f)
                                THEN NextAttempt(outbox[m], f)
                                ELSE outbox[m].nextAt
        <4>1. f \in Failures
          BY <3>1, HeldRow DEF Dispatch
        <4>2. nextAt \in Nat
          BY <3>2, <4>1, FailedRowTypes DEF TypeInv, Row
        <4>3. /\ [outbox[m] EXCEPT !.nextAt = nextAt] \in Row
              /\ [outbox[m] EXCEPT !.nextAt = nextAt].firstAt
                    = outbox[m].firstAt
          BY <3>2, <4>2 DEF Row
        <4>4. FailedStatus(outbox[m], f) # "absent"
          BY <4>1 DEF FailedStatus, Failures
        <4>5. Release(m, [outbox[m] EXCEPT !.nextAt = nextAt],
                      FailedStatus(outbox[m], f), f.uncertain)
          BY <3>5 DEF RecordFailure
        <4>. QED
          BY <4>3, <4>4, <4>5
      <3>. QED
        BY <1>3, <3>3, <3>4, <3>5
    <2>2. /\ outbox'[m].firstAt = outbox[m].firstAt \/ m \notin Messages
          /\ outbox'[m].status # "absent" \/ m \notin Messages
          /\ \A n \in Messages \ {m} : outbox'[n] = outbox[n]
      BY <2>1 DEF Release, SetRow, Row
    <2>3. UNCHANGED <<now, inflight, accepted>>
      BY <1>3 DEF RecordSuccess, RecordCancelled, RecordFailure
    <2>4. SameWindow
      BY <2>2, <2>3 DEF SameWindow
    <2>. QED
      BY <2>4, SameWindowInv
  <1>4. CASE StartAttempt(d)
    BY <1>4, StartAttemptWindowInv
  <1>. QED
    BY <1>1, <1>2, <1>3, <1>4
    DEF DispatchStep, Abandon, Fenced, Expire, RenderCancelled, Render,
        Misconfigured, RefuseAttempt, Interrupted, Notify, Resolve

\* A request that arrives finds either no earlier acceptance, or a provider
\* that still remembers it.
LEMMA AcceptedOnce ==
    ASSUME TypeInv, WindowInv, NEW r \in inflight, Accept(r)
    PROVE  outbox[r.msg].firstAt # NoTime /\ accepted[r.msg] = {}
  <1>. DEFINE m == r.msg
  <1>1. /\ m \in Messages /\ r.at \in Nat /\ now \in Nat
        /\ outbox[m] \in Row
        /\ accepted[m] \subseteq Delivery
    BY DEF TypeInv, TypeOK, Request
  <1>2. /\ outbox[m].firstAt # NoTime
        /\ now < outbox[m].firstAt + Window
    <2>1. /\ outbox[m].firstAt # NoTime
          /\ r.at < outbox[m].firstAt + Window - Margin
          /\ now <= r.at + SendDelay
      BY DEF WindowInv, Cutoff
    <2>2. outbox[m].firstAt \in Nat
      BY <1>1, <2>1 DEF Row
    <2>. QED
      BY <1>1, <2>1, <2>2, DurationTypes, MarginAssumption
  <1>3. accepted[m] = {}
    <2>. SUFFICES ASSUME NEW a \in accepted[m] PROVE FALSE
      OBVIOUS
    <2>1. a.at \in Nat /\ outbox[m].firstAt \in Nat
      BY <1>1, <1>2 DEF Delivery, Row
    <2>2. outbox[m].firstAt <= a.at
      BY <1>1 DEF WindowInv
    <2>3. ~(now < a.at + Window)
      BY DEF Accept, Remembered
    <2>. QED
      BY <1>1, <1>2, <2>1, <2>2, <2>3, DurationTypes
  <1>. QED
    BY <1>2, <1>3

\* A delivery keeps the invariant of the window.
LEMMA AcceptWindowInv ==
    ASSUME TypeInv, TypeInv', WindowInv, NEW r \in inflight, Accept(r)
    PROVE  WindowInv'
  <1>. DEFINE m == r.msg
              new == [token |-> r.token, payload |-> r.payload, at |-> now]
  <1>1. /\ m \in Messages /\ r.at \in Nat /\ now \in Nat
        /\ outbox[m] \in Row
        /\ accepted[m] \subseteq Delivery
    BY DEF TypeInv, TypeOK, Request
  <1>2. /\ accepted' = [accepted EXCEPT ![m] = @ \cup {new}]
        /\ inflight' = inflight \ {r}
        /\ UNCHANGED <<now, outbox>>
    BY DEF Accept, Take
  <1>3. outbox[m].firstAt # NoTime
    BY AcceptedOnce
  <1>4. accepted[m] = {}
    BY AcceptedOnce
  <1>5. /\ accepted'[m] = {new}
        /\ \A n \in Messages \ {m} : accepted'[n] = accepted[n]
    BY <1>1, <1>2, <1>4 DEF TypeInv, TypeOK
  <1>6. outbox[m].firstAt <= new.at
    BY <1>1 DEF WindowInv
  <1>7. AtMostOneDelivery'
    BY <1>5 DEF WindowInv, AtMostOneDelivery
  <1>8. \A n \in Messages : \A a \in accepted'[n] :
          outbox[n].firstAt # NoTime /\ outbox[n].firstAt <= a.at
    BY <1>3, <1>5, <1>6 DEF WindowInv
  <1>. QED
    BY <1>2, <1>7, <1>8 DEF WindowInv, Cutoff

\* Time does not outrun a request on its way.
LEMMA TickWindowInv ==
    ASSUME TypeInv, TypeInv', WindowInv, Tick
    PROVE  WindowInv'
  <1>1. /\ now \in Nat /\ now' = now + 1
        /\ UNCHANGED <<outbox, inflight, accepted>>
        /\ \A r \in inflight : now < r.at + SendDelay
    BY DEF Tick, TypeInv, TypeOK
  <1>2. \A m \in Messages : outbox[m].firstAt \in Nat \cup {NoTime}
    BY DEF TypeInv, TypeOK, Row
  <1>3. \A m \in Messages : outbox[m].firstAt <= now'
    BY <1>1, <1>2 DEF WindowInv, NoTime
  <1>4. \A r \in inflight : now' <= r.at + SendDelay
    <2>1. \A r \in inflight : r.at \in Nat
      BY DEF TypeInv, TypeOK, Request
    <2>. QED
      BY <1>1, <2>1, DurationTypes
  <1>. QED
    BY <1>1, <1>3, <1>4 DEF WindowInv, AtMostOneDelivery, Cutoff

\* The delivery invariant is inductive.
LEMMA NextDeliveryInv == DeliveryInv /\ [Next]_vars => DeliveryInv'
  <1>. SUFFICES ASSUME TypeInv, WindowInv, [Next]_vars PROVE DeliveryInv'
    BY DEF DeliveryInv
  <1>1. TypeInv'
    BY NextTypeInv
  <1>2. ASSUME NEW m \in Messages,
               \/ Enqueue(m) \/ SourceLapses(m)
               \/ CancelSource(m) \/ ManualRetry(m)
        PROVE  WindowInv'
    BY <1>1, <1>2, BusinessWindowInv
  <1>3. ASSUME NEW d \in Dispatchers, DispatchStep(d) \/ Abandon(d)
        PROVE  WindowInv'
    BY <1>1, <1>3, DispatchWindowInv
  <1>4. ASSUME NEW r \in inflight, Accept(r)
        PROVE  WindowInv'
    BY <1>1, <1>4, AcceptWindowInv
  <1>5. ASSUME NEW r \in inflight, Decline(r)
        PROVE  WindowInv'
    BY <1>5 DEF Decline, Take, WindowInv, AtMostOneDelivery, Cutoff
  <1>6. ASSUME Tick PROVE WindowInv'
    BY <1>1, <1>6, TickWindowInv
  <1>7. ASSUME UNCHANGED vars PROVE WindowInv'
    BY <1>7 DEF vars, WindowInv, AtMostOneDelivery, Cutoff
  <1>8. WindowInv'
    BY <1>2, <1>3, <1>4, <1>5, <1>6, <1>7 DEF Next
  <1>. QED
    BY <1>1, <1>8 DEF DeliveryInv

\* The delivery invariant holds in every reachable state.
LEMMA AlwaysDeliveryInv == Spec => []DeliveryInv
  <1>1. Init => DeliveryInv
    BY InitTypeInv, InitWindowInv DEF DeliveryInv
  <1>. QED
    BY <1>1, NextDeliveryInv, PTL DEF Spec

\* Over crashes, expired leases, lost answers, cancellations and manual retries,
\* the provider accepts each message at most once, whatever the time constants,
\* if a prepared request arrives or is lost within the safety margin.
THEOREM DeliveredAtMostOnce == Spec => []AtMostOneDelivery
  <1>1. DeliveryInv => AtMostOneDelivery
    BY DEF DeliveryInv, WindowInv
  <1>. QED
    BY <1>1, AlwaysDeliveryInv, PTL

-----------------------------------------------------------------------------
(* What a step may do to a row: nothing, or one of six things.             *)

KeptContent(m) ==
    /\ outbox'[m].hash = outbox[m].hash
    /\ outbox'[m].validUntil = outbox[m].validUntil

EnqueuedRow(m) ==
    /\ outbox[m].status = "absent" /\ outbox'[m].status = "queued"
    /\ outbox'[m].attempts = 0 /\ outbox'[m].hash = "none"
    /\ attemptLog'[m] = attemptLog[m]

WithdrawnRow(m) ==
    /\ outbox[m].status \in Pending
    /\ outbox'[m].status \in {"cancelled", "reconciliation_required"}
    /\ outbox'[m].attempts = outbox[m].attempts
    /\ KeptContent(m)
    /\ attemptLog'[m] = attemptLog[m]

ReopenedRow(m) ==
    /\ outbox[m].status = "terminal_failed" /\ outbox'[m].status = "queued"
    /\ outbox'[m].attempts = outbox[m].attempts
    /\ KeptContent(m)
    /\ attemptLog'[m] = attemptLog[m]

TakenRow(m) ==
    /\ outbox[m].status \in Pending /\ outbox'[m].status = "processing"
    /\ outbox'[m].attempts = outbox[m].attempts + 1
    /\ outbox'[m].token = outbox[m].attempts + 1
    /\ KeptContent(m)
    /\ attemptLog'[m] = attemptLog[m]

AttemptedRow(m) ==
    /\ outbox[m].status = "processing" /\ outbox'[m].status = "processing"
    /\ outbox'[m].attempts = outbox[m].attempts
    /\ outbox'[m].token = outbox[m].token
    /\ outbox[m].hash \in {"none", outbox'[m].hash}
    /\ outbox'[m].validUntil = outbox[m].validUntil
    /\ attemptLog'[m] = attemptLog[m]

RecordedRow(m) ==
    /\ outbox[m].status = "processing"
    /\ outbox'[m].status \in Waiting \cup Settled
    /\ outbox'[m].attempts = outbox[m].attempts
    /\ KeptContent(m)
    /\ attemptLog'[m] = Append(attemptLog[m], outbox[m].attempts)

SameRow(m) == outbox'[m] = outbox[m] /\ attemptLog'[m] = attemptLog[m]

RowStep(m) ==
    \/ SameRow(m) \/ EnqueuedRow(m) \/ WithdrawnRow(m) \/ ReopenedRow(m)
    \/ TakenRow(m) \/ AttemptedRow(m) \/ RecordedRow(m)

\* The business transactions change the row of their message.
LEMMA BusinessRow ==
    ASSUME TypeInv, NEW n \in Messages,
           Enqueue(n) \/ SourceLapses(n) \/ CancelSource(n) \/ ManualRetry(n)
    PROVE  \A m \in Messages : RowStep(m)
  <1>. outbox \in [Messages -> Row] /\ outbox[n] \in Row
    BY DEF TypeInv, TypeOK
  <1>1. CASE Enqueue(n)
    <2>1. /\ NewRow(n).status = "queued" /\ NewRow(n).attempts = 0
          /\ NewRow(n).hash = "none"
      BY DEF NewRow
    <2>. QED
      BY <1>1, <2>1 DEF Enqueue, SetRow, RowStep, SameRow, EnqueuedRow
  <1>2. CASE SourceLapses(n)
    BY <1>2 DEF SourceLapses, RowStep, SameRow
  <1>3. CASE CancelSource(n)
    <2>1. CASE SetRow(n, CancelledRow(outbox[n]))
      <3>1. CASE outbox[n].status \in Pending
        <4>1. /\ CancelledRow(outbox[n]).status
                   \in {"cancelled", "reconciliation_required"}
              /\ CancelledRow(outbox[n]).attempts = outbox[n].attempts
              /\ CancelledRow(outbox[n]).hash = outbox[n].hash
              /\ CancelledRow(outbox[n]).validUntil = outbox[n].validUntil
          BY <3>1 DEF CancelledRow, Row
        <4>. QED
          BY <1>3, <2>1, <3>1, <4>1
          DEF CancelSource, SetRow, RowStep, SameRow, WithdrawnRow, KeptContent
      <3>2. CASE outbox[n].status \notin Pending
        BY <1>3, <2>1, <3>2
        DEF CancelSource, CancelledRow, SetRow, RowStep, SameRow
      <3>. QED
        BY <3>1, <3>2
    <2>2. CASE UNCHANGED outbox
      BY <1>3, <2>2 DEF CancelSource, RowStep, SameRow
    <2>. QED
      BY <1>3, <2>1, <2>2 DEF CancelSource
  <1>4. CASE ManualRetry(n)
    <2>1. /\ RetriedRow(outbox[n]).status = "queued"
          /\ RetriedRow(outbox[n]).attempts = outbox[n].attempts
          /\ RetriedRow(outbox[n]).hash = outbox[n].hash
          /\ RetriedRow(outbox[n]).validUntil = outbox[n].validUntil
      BY DEF RetriedRow, Row
    <2>. QED
      BY <1>4, <2>1
      DEF ManualRetry, SetRow, RowStep, SameRow, ReopenedRow, KeptContent
  <1>. QED
    BY <1>1, <1>2, <1>3, <1>4

\* A row that is released waits or is settled, and its attempt is logged.
LEMMA ReleasedRow ==
    ASSUME TypeInv, NEW n \in Messages, outbox[n].status = "processing",
           NEW row \in Row, row.attempts = outbox[n].attempts,
           row.hash = outbox[n].hash, row.validUntil = outbox[n].validUntil,
           NEW status \in Waiting \cup Settled, NEW uncertain,
           Release(n, row, status, uncertain)
    PROVE  /\ RecordedRow(n) /\ outbox'[n].status = status
           /\ \A m \in Messages \ {n} : SameRow(m)
  <1>1. LET released == [row EXCEPT !.status = status,
                                    !.uncertain = uncertain,
                                    !.token = NoToken, !.lockExpires = NoTime]
        IN  /\ released.status = status
            /\ released.attempts = outbox[n].attempts
            /\ released.hash = outbox[n].hash
            /\ released.validUntil = outbox[n].validUntil
    BY DEF Row
  <1>2. /\ outbox'[n].status = status
        /\ outbox'[n].attempts = outbox[n].attempts
        /\ KeptContent(n)
    BY <1>1 DEF Release, SetRow, KeptContent, TypeInv, TypeOK
  <1>3. /\ attemptLog'[n] = Append(attemptLog[n], outbox[n].attempts)
        /\ \A m \in Messages \ {n} : SameRow(m)
    BY DEF Release, SetRow, SameRow, TypeInv, TypeOK
  <1>. QED
    BY <1>2, <1>3 DEF RecordedRow

\* The recording transactions release a row they hold; only the record of a
\* success accepts it.
LEMMA RecordRow ==
    ASSUME TypeInv, NEW d \in Dispatchers,
           RecordSuccess(d) \/ RecordCancelled(d) \/ RecordFailure(d)
    PROVE  \A m \in Messages :
             \/ SameRow(m)
             \/ /\ RecordedRow(m) /\ m = dispatch[d].msg
                /\ outbox'[m].status = "accepted" =>
                     dispatch[d].step = "succeeded" /\ m \notin LocalMessages
  <1>. DEFINE n == dispatch[d].msg
  <1>1. Holds(d)
    BY DEF RecordSuccess, RecordCancelled, RecordFailure
  <1>2. /\ n \in Messages /\ outbox[n] \in Row
        /\ outbox[n].status = "processing"
    BY <1>1, HeldRow
  <1>3. CASE RecordSuccess(d)
    <2>. DEFINE status == IF n \in LocalMessages THEN "recorded" ELSE "accepted"
    <2>1. /\ Release(n, outbox[n], status, FALSE)
          /\ dispatch[d].step = "succeeded"
      BY <1>3 DEF RecordSuccess
    <2>2. status \in Waiting \cup Settled
      BY DEF Settled
    <2>3. status = "accepted" => n \notin LocalMessages
      OBVIOUS
    <2>. HIDE DEF status
    <2>4. /\ RecordedRow(n) /\ outbox'[n].status = status
          /\ \A m \in Messages \ {n} : SameRow(m)
      BY <1>2, <2>1, <2>2, ReleasedRow
    <2>. QED
      BY <1>2, <2>1, <2>3, <2>4
  <1>4. CASE RecordCancelled(d)
    <2>1. Release(n, outbox[n], "cancelled", FALSE)
      BY <1>4 DEF RecordCancelled
    <2>2. "cancelled" \in Waiting \cup Settled
      BY DEF Settled
    <2>3. /\ RecordedRow(n) /\ outbox'[n].status = "cancelled"
          /\ \A m \in Messages \ {n} : SameRow(m)
      BY <1>2, <2>1, <2>2, ReleasedRow
    <2>. QED
      BY <2>3
  <1>5. CASE RecordFailure(d)
    <2>. DEFINE f == dispatch[d].failure
                nextAt == IF ShouldRetry(outbox[n], f)
                            THEN NextAttempt(outbox[n], f)
                            ELSE outbox[n].nextAt
                row == [outbox[n] EXCEPT !.nextAt = nextAt]
                status == FailedStatus(outbox[n], f)
    <2>1. f \in Failures /\ outbox[n].attempts # 0
      BY <1>1, HeldRow DEF Dispatch
    <2>2. nextAt \in Nat
      BY <1>2, <2>1, FailedRowTypes DEF TypeInv, Row
    <2>3. /\ row \in Row /\ row.attempts = outbox[n].attempts
          /\ row.hash = outbox[n].hash
          /\ row.validUntil = outbox[n].validUntil
      BY <1>2, <2>2 DEF Row
    <2>4. status \in Waiting \cup Settled /\ status # "accepted"
      BY <2>1 DEF FailedStatus, Failures, Waiting, Settled
    <2>5. Release(n, row, status, f.uncertain)
      BY <1>5 DEF RecordFailure
    <2>. HIDE DEF row, status
    <2>. QED
      BY <1>2, <2>3, <2>4, <2>5, ReleasedRow
  <1>. QED
    BY <1>3, <1>4, <1>5

\* A claim takes a pending row, and a prepared attempt keeps it.
LEMMA WorkerRow ==
    ASSUME TypeInv, NEW d \in Dispatchers, DispatchStep(d) \/ Abandon(d)
    PROVE  \A m \in Messages : RowStep(m)
  <1>. outbox \in [Messages -> Row]
    BY DEF TypeInv, TypeOK
  <1>1. ASSUME NEW n \in Messages, Claim(d, n)
        PROVE  \A m \in Messages : RowStep(m)
    <2>1. /\ ClaimedRow(outbox[n]).status = "processing"
          /\ ClaimedRow(outbox[n]).attempts = outbox[n].attempts + 1
          /\ ClaimedRow(outbox[n]).token = outbox[n].attempts + 1
          /\ ClaimedRow(outbox[n]).hash = outbox[n].hash
          /\ ClaimedRow(outbox[n]).validUntil = outbox[n].validUntil
      BY DEF ClaimedRow, Row
    <2>2. outbox[n].status \in Pending
      BY <1>1 DEF Claim, Claimable, Pending
    <2>. QED
      BY <1>1, <2>1, <2>2
      DEF Claim, SetRow, RowStep, SameRow, TakenRow, KeptContent
  <1>2. CASE StartAttempt(d)
    <2>. DEFINE n == dispatch[d].msg
    <2>1. Holds(d) /\ ~Changed(outbox[n], dispatch[d].payload)
      BY <1>2 DEF StartAttempt, Refusals
    <2>2. /\ n \in Messages /\ outbox[n] \in Row
          /\ outbox[n].status = "processing"
      BY <2>1, HeldRow
    <2>3. LET row == PreparedRow(outbox[n], dispatch[d].payload)
          IN  /\ row.status = outbox[n].status
              /\ row.attempts = outbox[n].attempts
              /\ row.token = outbox[n].token
              /\ row.validUntil = outbox[n].validUntil
              /\ outbox[n].hash \in {"none", row.hash}
      BY <2>1, <2>2 DEF PreparedRow, Changed, Row
    <2>. QED
      BY <1>2, <2>2, <2>3
      DEF StartAttempt, SetRow, RowStep, SameRow, AttemptedRow
  <1>3. CASE RecordSuccess(d) \/ RecordCancelled(d) \/ RecordFailure(d)
    BY <1>3, RecordRow DEF RowStep
  <1>4. CASE UNCHANGED <<outbox, attemptLog>>
    BY <1>4 DEF RowStep, SameRow
  <1>. QED
    BY <1>1, <1>2, <1>3, <1>4
    DEF DispatchStep, Abandon, Fenced, Expire, RenderCancelled, Render,
        Misconfigured, RefuseAttempt, Interrupted, Notify, Resolve

\* Whatever happens, a row is left alone or does one of the six things.
LEMMA NextRow ==
    ASSUME TypeInv, [Next]_vars PROVE \A m \in Messages : RowStep(m)
  <1>1. ASSUME NEW r \in inflight, Accept(r) \/ Decline(r)
        PROVE  UNCHANGED <<outbox, attemptLog>>
    BY <1>1 DEF Accept, Decline
  <1>2. CASE Tick \/ UNCHANGED vars
    BY <1>2 DEF Tick, vars, RowStep, SameRow
  <1>3. CASE UNCHANGED <<outbox, attemptLog>>
    BY <1>3 DEF RowStep, SameRow
  <1>. QED
    BY <1>1, <1>2, <1>3, BusinessRow, WorkerRow DEF Next

\* A settled row is history: only a manual retry touches one again, and only a
\* terminal failure, however late a dispatch, a cancellation or an answer is.
THEOREM SettledStays == Spec => SettledIsFinal
  <1>1. ASSUME TypeInv, [Next]_vars, NEW m \in Messages,
               outbox[m].status \in Settled, outbox'[m] # outbox[m]
        PROVE  /\ outbox[m].status = "terminal_failed"
               /\ outbox'[m].status = "queued"
    <2>1. RowStep(m)
      BY <1>1, NextRow
    <2>. QED
      BY <1>1, <2>1
      DEF RowStep, SameRow, EnqueuedRow, WithdrawnRow, ReopenedRow, TakenRow,
          AttemptedRow, RecordedRow, Settled, Pending, Waiting
  <1>2. TypeInv /\ [Next]_vars =>
          [\A m \in Messages :
             outbox[m].status \in Settled /\ outbox'[m] # outbox[m] =>
                 /\ outbox[m].status = "terminal_failed"
                 /\ outbox'[m].status = "queued"]_vars
    BY <1>1
  <1>. QED
    BY <1>2, AlwaysTypeInv, PTL DEF Spec, SettledIsFinal

-----------------------------------------------------------------------------
(* The log of attempts.  An outcome is recorded only while the row is      *)
(* processed, and then the attempt of the last claim has none yet.         *)

LogInv ==
    /\ AttemptsInOrder
    /\ \A m \in Messages :
         /\ outbox[m].status = "absent" => attemptLog[m] = << >>
         /\ outbox[m].status = "processing" =>
              \A i \in DOMAIN attemptLog[m] :
                 attemptLog[m][i] < outbox[m].attempts

\* The log of one row stays in order, whatever the row does.
LEMMA RowLog ==
    ASSUME TypeInv, TypeInv', LogInv, NEW m \in Messages, RowStep(m)
    PROVE  /\ \A i \in 1 .. Len(attemptLog'[m]) - 1 :
                 attemptLog'[m][i] < attemptLog'[m][i + 1]
           /\ \A i \in DOMAIN attemptLog'[m] :
                 attemptLog'[m][i] <= outbox'[m].attempts
           /\ outbox'[m].status = "absent" => attemptLog'[m] = << >>
           /\ outbox'[m].status = "processing" =>
                \A i \in DOMAIN attemptLog'[m] :
                   attemptLog'[m][i] < outbox'[m].attempts
  <1>. DEFINE log == attemptLog[m]
              n == outbox[m].attempts
  <1>1. /\ log \in Seq(Nat) /\ Len(log) \in Nat /\ DOMAIN log = 1 .. Len(log)
        /\ \A i \in DOMAIN log : log[i] \in Nat
        /\ n \in Nat /\ outbox[m] \in Row
    <2>1. attemptLog[m] \in Seq(Nat) /\ outbox[m] \in Row
      BY DEF TypeInv, TypeOK
    <2>2. \A q \in Seq(Nat) : /\ Len(q) \in Nat /\ DOMAIN q = 1 .. Len(q)
                             /\ \A i \in DOMAIN q : q[i] \in Nat
      OBVIOUS
    <2>3. \A r \in Row : r.attempts \in Nat
      BY DEF Row
    <2>. QED
      BY <2>1, <2>2, <2>3
  <1>2. /\ \A i \in 1 .. Len(log) - 1 : log[i] < log[i + 1]
        /\ \A i \in DOMAIN log : log[i] <= n
        /\ outbox[m].status = "absent" => log = << >>
        /\ outbox[m].status = "processing" => \A i \in DOMAIN log : log[i] < n
    BY DEF LogInv, AttemptsInOrder
  <1>3. CASE SameRow(m)
    BY <1>2, <1>3 DEF SameRow
  <1>4. CASE EnqueuedRow(m)
    BY <1>2, <1>4 DEF EnqueuedRow
  <1>5. CASE WithdrawnRow(m) \/ ReopenedRow(m)
    BY <1>2, <1>5 DEF WithdrawnRow, ReopenedRow
  <1>6. CASE TakenRow(m)
    <2>1. /\ attemptLog'[m] = log /\ outbox'[m].attempts = n + 1
          /\ outbox'[m].status = "processing"
      BY <1>6 DEF TakenRow
    <2>2. \A i \in DOMAIN log : log[i] < n + 1
      <3>. SUFFICES ASSUME NEW i \in DOMAIN log PROVE log[i] < n + 1
        OBVIOUS
      <3>1. log[i] \in Nat /\ n \in Nat
        BY <1>1
      <3>2. log[i] <= n
        BY <1>2
      <3>. QED
        BY <3>1, <3>2
    <2>3. \A i \in DOMAIN log : log[i] <= n + 1
      <3>. SUFFICES ASSUME NEW i \in DOMAIN log PROVE log[i] <= n + 1
        OBVIOUS
      <3>1. log[i] \in Nat /\ n \in Nat
        BY <1>1
      <3>2. log[i] < n + 1
        BY <2>2
      <3>. QED
        BY <3>1, <3>2
    <2>. QED
      BY <1>2, <2>1, <2>2, <2>3
  <1>7. CASE AttemptedRow(m)
    BY <1>1, <1>2, <1>7 DEF AttemptedRow
  <1>8. CASE RecordedRow(m)
    <2>1. /\ attemptLog'[m] = Append(log, n) /\ outbox'[m].attempts = n
          /\ \A i \in DOMAIN log : log[i] < n
          /\ outbox'[m].status \notin {"absent", "processing"}
      BY <1>2, <1>8 DEF RecordedRow, Waiting, Settled
    <2>2. /\ Len(Append(log, n)) = Len(log) + 1
          /\ DOMAIN Append(log, n) = 1 .. Len(log) + 1
          /\ \A i \in 1 .. Len(log) : Append(log, n)[i] = log[i]
          /\ Append(log, n)[Len(log) + 1] = n
      BY <1>1
    <2>3. \A i \in 1 .. Len(log) + 1 : Append(log, n)[i] <= n
      <3>. SUFFICES ASSUME NEW i \in 1 .. Len(log) + 1
                    PROVE  Append(log, n)[i] <= n
        OBVIOUS
      <3>1. CASE i \in 1 .. Len(log)
        BY <1>1, <2>2, <3>1, <1>2
      <3>2. CASE i = Len(log) + 1
        BY <1>1, <2>2, <3>2
      <3>. QED
        BY <1>1, <3>1, <3>2
    <2>4. \A i \in 1 .. Len(log) :
            Append(log, n)[i] < Append(log, n)[i + 1]
      <3>. SUFFICES ASSUME NEW i \in 1 .. Len(log)
                    PROVE  Append(log, n)[i] < Append(log, n)[i + 1]
        OBVIOUS
      <3>0. Len(log) \in Nat
        BY <1>1
      <3>1. CASE i \in 1 .. Len(log) - 1
        <4>1. i + 1 \in 1 .. Len(log)
          BY <3>0, <3>1
        <4>2. log[i] < log[i + 1]
          BY <1>2, <3>1
        <4>3. Append(log, n)[i] = log[i] /\ Append(log, n)[i + 1] = log[i + 1]
          BY <2>2, <4>1
        <4>. QED
          BY <4>2, <4>3
      <3>2. CASE i = Len(log)
        <4>1. Append(log, n)[i] = log[i] /\ Append(log, n)[i + 1] = n
          BY <2>2, <3>2
        <4>2. log[i] < n
          BY <1>1, <2>1
        <4>. QED
          BY <4>1, <4>2
      <3>3. i \in 1 .. Len(log) - 1 \/ i = Len(log)
        BY <3>0
      <3>. QED
        BY <3>1, <3>2, <3>3
    <2>5. Len(attemptLog'[m]) - 1 = Len(log)
      BY <1>1, <2>1, <2>2
    <2>. QED
      BY <2>1, <2>2, <2>3, <2>4, <2>5
  <1>. QED
    BY <1>3, <1>4, <1>5, <1>6, <1>7, <1>8 DEF RowStep

\* Every claim records at most one outcome, in the order of the claims, however
\* many dispatches lose their lease and come back late.
THEOREM AttemptsAreOrdered == Spec => []AttemptsInOrder
  <1>1. Init => LogInv
    BY DEF Init, LogInv, AttemptsInOrder
  <1>2. ASSUME TypeInv, TypeInv', LogInv, [Next]_vars PROVE LogInv'
    <2>1. \A m \in Messages : RowStep(m)
      BY <1>2, NextRow
    <2>. QED
      BY <1>2, <2>1, RowLog DEF LogInv, AttemptsInOrder
  <1>3. LogInv => AttemptsInOrder
    BY DEF LogInv
  <1>. QED
    BY <1>1, <1>2, <1>3, AlwaysTypeInv, PTL DEF Spec

-----------------------------------------------------------------------------
(* Cancellation.  A dispatch that has rendered its message and still holds *)
(* its row has a source that is not cancelled: to cancel it takes the row  *)
(* away, and who claims the row later has to look at the source again.     *)
(* Tokens grow with the attempts of the row, so that a claim ends every    *)
(* other dispatch of the row.                                              *)

Uncancelled(d) ==
    /\ dispatch[d].step # "idle" =>
         dispatch[d].token <= outbox[dispatch[d].msg].attempts
    /\ dispatch[d].step = "rendered" /\ Holds(d) =>
         source[dispatch[d].msg] # "cancelled"

CancelInv ==
    /\ \A m \in Messages : outbox[m].status = "absent" => outbox[m].attempts = 0
    /\ \A d \in Dispatchers : Uncancelled(d)

\* A dispatch that goes on with its message, and does not render it now.
KeptDispatch(d) ==
    /\ dispatch'[d].step # "idle" =>
         /\ dispatch[d].step # "idle"
         /\ dispatch'[d].msg = dispatch[d].msg
         /\ dispatch'[d].token \in {NoToken, dispatch[d].token}
    /\ dispatch'[d].step = "rendered" => dispatch'[d] = dispatch[d]

\* A row whose source is cancelled in this step is processed by nobody.
CancelTakes(m) ==
    source[m] # "cancelled" /\ source'[m] = "cancelled" =>
        outbox'[m].status # "processing"

\* Attempts are never taken back.
LEMMA AttemptsGrow ==
    ASSUME TypeInv, CancelInv, NEW m \in Messages, RowStep(m)
    PROVE  /\ outbox[m].attempts <= outbox'[m].attempts
           /\ outbox'[m].status = "absent" => outbox'[m].attempts = 0
  <1>1. outbox[m].attempts \in Nat
    BY DEF TypeInv, TypeOK, Row
  <1>2. outbox[m].status = "absent" => outbox[m].attempts = 0
    BY DEF CancelInv
  <1>. QED
    BY <1>1, <1>2
    DEF RowStep, SameRow, EnqueuedRow, WithdrawnRow, ReopenedRow, TakenRow,
        AttemptedRow, RecordedRow, Waiting, Settled

\* A row that is held with an old token was held with it before.
LEMMA StillHeld ==
    ASSUME TypeInv, NEW m \in Messages, RowStep(m), NEW t \in Nat,
           t <= outbox[m].attempts,
           outbox'[m].status = "processing", outbox'[m].token = t
    PROVE  outbox[m].status = "processing" /\ outbox[m].token = t
  <1>1. outbox[m].attempts \in Nat
    BY DEF TypeInv, TypeOK, Row
  <1>. QED
    BY <1>1
    DEF RowStep, SameRow, EnqueuedRow, WithdrawnRow, ReopenedRow, TakenRow,
        AttemptedRow, RecordedRow, Waiting, Settled

\* A dispatch that goes on keeps its part of the invariant.
LEMMA KeptUncancelled ==
    ASSUME TypeInv, TypeInv', CancelInv, NEW d \in Dispatchers,
           KeptDispatch(d), \A m \in Messages : RowStep(m) /\ CancelTakes(m)
    PROVE  Uncancelled(d)'
  <1>. DEFINE c == dispatch[d]
  <1>1. c \in Dispatch
    BY DEF TypeInv, TypeOK
  <1>2. ASSUME dispatch'[d].step # "idle"
        PROVE  /\ c.msg \in Messages /\ c.token \in Nat
               /\ c.token <= outbox[c.msg].attempts
               /\ outbox[c.msg].attempts \in Nat
               /\ outbox'[c.msg].attempts \in Nat
               /\ outbox[c.msg].attempts <= outbox'[c.msg].attempts
    <2>1. c.step # "idle"
      BY <1>2 DEF KeptDispatch
    <2>2. c.msg \in Messages /\ c.token \in Nat
      BY <1>1, <2>1 DEF Dispatch
    <2>3. outbox[c.msg].attempts \in Nat /\ outbox'[c.msg].attempts \in Nat
      BY <2>2 DEF TypeInv, TypeOK, Row
    <2>. QED
      BY <2>1, <2>2, <2>3, AttemptsGrow DEF CancelInv, Uncancelled
  <1>3. ASSUME dispatch'[d].step # "idle"
        PROVE  dispatch'[d].token <= outbox'[dispatch'[d].msg].attempts
    <2>1. /\ dispatch'[d].msg = c.msg
          /\ dispatch'[d].token \in {0, c.token}
      BY <1>3 DEF KeptDispatch, NoToken
    <2>. QED
      BY <1>2, <1>3, <2>1
  <1>4. ASSUME dispatch'[d].step = "rendered", Holds(d)'
        PROVE  source'[dispatch'[d].msg] # "cancelled"
    <2>1. dispatch'[d] = c
      BY <1>4 DEF KeptDispatch
    <2>2. /\ outbox'[c.msg].status = "processing"
          /\ outbox'[c.msg].token = c.token
      BY <1>4, <2>1 DEF Holds
    <2>3. /\ outbox[c.msg].status = "processing"
          /\ outbox[c.msg].token = c.token
      BY <1>2, <1>4, <2>2, StillHeld
    <2>4. source[c.msg] # "cancelled"
      BY <1>4, <2>1, <2>3 DEF Holds, CancelInv, Uncancelled
    <2>. QED
      BY <1>2, <1>4, <2>1, <2>2, <2>4 DEF CancelTakes
  <1>. QED
    BY <1>3, <1>4 DEF Uncancelled

\* Every step of a dispatch but its claim and its rendering lets it go on.
LEMMA WorkerKeeps ==
    ASSUME TypeInv, NEW e \in Dispatchers,
           \/ Fenced(e) \/ Expire(e) \/ RenderCancelled(e) \/ Misconfigured(e)
           \/ RefuseAttempt(e) \/ StartAttempt(e) \/ Interrupted(e)
           \/ RecordSuccess(e) \/ RecordCancelled(e) \/ RecordFailure(e)
           \/ Notify(e) \/ Resolve(e) \/ Abandon(e)
    PROVE  \A d \in Dispatchers : KeptDispatch(d)
  <1>. DEFINE c == dispatch[e]
  <1>1. c \in Dispatch /\ dispatch \in [Dispatchers -> Dispatch]
    BY DEF TypeInv, TypeOK
  <1>2. c.step # "idle"
    BY DEF Fenced, Expire, RenderCancelled, Misconfigured, RefuseAttempt,
           StartAttempt, Interrupted, RecordSuccess, RecordCancelled,
           RecordFailure, Notify, Resolve, Abandon
  <1>3. ASSUME NEW s \in {"cancelled", "sending"}, Go(e, s)
        PROVE  \A d \in Dispatchers : KeptDispatch(d)
    <2>1. /\ [c EXCEPT !.step = s].step = s
          /\ [c EXCEPT !.step = s].msg = c.msg
          /\ [c EXCEPT !.step = s].token = c.token
      BY <1>1 DEF Dispatch
    <2>. QED
      BY <1>1, <1>2, <1>3, <2>1 DEF Go, KeptDispatch
  <1>4. ASSUME NEW f, Fail(e, f)
        PROVE  \A d \in Dispatchers : KeptDispatch(d)
    <2>1. LET x == [c EXCEPT !.step = "failed", !.failure = f]
          IN  x.step = "failed" /\ x.msg = c.msg /\ x.token = c.token
      BY <1>1 DEF Dispatch
    <2>. QED
      BY <1>1, <1>2, <1>4, <2>1 DEF Fail, KeptDispatch
  <1>5. ASSUME Finish(e)
        PROVE  \A d \in Dispatchers : KeptDispatch(d)
    BY <1>1, <1>5 DEF Finish, Idle, KeptDispatch
  <1>6. ASSUME NEW s \in {"notify", "resolve"}, Report(e, s)
        PROVE  \A d \in Dispatchers : KeptDispatch(d)
    BY <1>1, <1>2, <1>6 DEF Report, Idle, KeptDispatch
  <1>7. CASE Fenced(e) \/ RecordCancelled(e) \/ Notify(e) \/ Resolve(e)
             \/ Abandon(e)
    BY <1>5, <1>7 DEF Fenced, RecordCancelled, Notify, Resolve, Abandon
  <1>8. CASE Expire(e) \/ Misconfigured(e) \/ RefuseAttempt(e)
             \/ Interrupted(e)
    BY <1>4, <1>8 DEF Expire, Misconfigured, RefuseAttempt, Interrupted
  <1>9. CASE RenderCancelled(e) \/ StartAttempt(e)
    BY <1>3, <1>9 DEF RenderCancelled, StartAttempt
  <1>10. CASE RecordSuccess(e) \/ RecordFailure(e)
    BY <1>5, <1>6, <1>10 DEF RecordSuccess, RecordFailure
  <1>. QED
    BY <1>7, <1>8, <1>9, <1>10

\* The provider answers a dispatch that waits, which then is not rendered.
LEMMA ProviderKeeps ==
    ASSUME TypeInv, NEW r \in inflight, Accept(r) \/ Decline(r)
    PROVE  \A d \in Dispatchers : KeptDispatch(d)
  <1>1. dispatch \in [Dispatchers -> Dispatch]
    BY DEF TypeInv, TypeOK
  <1>2. ASSUME NEW e \in Dispatchers, Waits(e, r), Go(e, "succeeded")
        PROVE  \A d \in Dispatchers : KeptDispatch(d)
    <2>1. LET x == [dispatch[e] EXCEPT !.step = "succeeded"]
          IN  /\ x.step = "succeeded" /\ x.msg = dispatch[e].msg
              /\ x.token = dispatch[e].token
      BY <1>1 DEF Dispatch
    <2>. QED
      BY <1>1, <1>2, <2>1 DEF Go, Waits, KeptDispatch
  <1>3. ASSUME NEW e \in Dispatchers, Waits(e, r), NEW f, Fail(e, f)
        PROVE  \A d \in Dispatchers : KeptDispatch(d)
    <2>1. LET x == [dispatch[e] EXCEPT !.step = "failed", !.failure = f]
          IN  /\ x.step = "failed" /\ x.msg = dispatch[e].msg
              /\ x.token = dispatch[e].token
      BY <1>1 DEF Dispatch
    <2>. QED
      BY <1>1, <1>3, <2>1 DEF Fail, Waits, KeptDispatch
  <1>4. CASE UNCHANGED dispatch
    BY <1>4 DEF KeptDispatch
  <1>. QED
    BY <1>2, <1>3, <1>4 DEF Accept, Decline

\* The business transactions let every dispatch go on; a cancellation takes the
\* row away from whoever processes it.
LEMMA BusinessKeeps ==
    ASSUME TypeInv, NEW n \in Messages,
           Enqueue(n) \/ SourceLapses(n) \/ CancelSource(n) \/ ManualRetry(n)
    PROVE  /\ UNCHANGED dispatch
           /\ \A m \in Messages : CancelTakes(m)
  <1>. /\ outbox \in [Messages -> Row] /\ outbox[n] \in Row
       /\ source \in [Messages -> {"valid", "lapsed", "cancelled"}]
    BY DEF TypeInv, TypeOK
  <1>1. UNCHANGED dispatch
    BY DEF Enqueue, SourceLapses, CancelSource, ManualRetry
  <1>2. CASE CancelSource(n)
    <2>1. CancelledRow(outbox[n]).status # "processing"
      BY DEF CancelledRow, Pending, Waiting, Row
    <2>2. outbox'[n].status # "processing"
      BY <1>2, <2>1 DEF CancelSource, SetRow, MissedByCancel, Waiting
    <2>. QED
      BY <1>1, <1>2, <2>2 DEF CancelSource, CancelTakes
  <1>3. CASE SourceLapses(n)
    BY <1>1, <1>3 DEF SourceLapses, CancelTakes
  <1>4. CASE UNCHANGED source
    BY <1>1, <1>4 DEF CancelTakes
  <1>. QED
    BY <1>2, <1>3, <1>4 DEF Enqueue, ManualRetry

\* A claim draws a token that no dispatch of the row had.
LEMMA ClaimUncancelled ==
    ASSUME TypeInv, TypeInv', CancelInv, NEW e \in Dispatchers,
           NEW n \in Messages, Claim(e, n), \A m \in Messages : RowStep(m)
    PROVE  \A d \in Dispatchers : Uncancelled(d)'
  <1>. /\ outbox[n] \in Row /\ outbox \in [Messages -> Row]
       /\ dispatch \in [Dispatchers -> Dispatch]
    BY DEF TypeInv, TypeOK
  <1>1. /\ ClaimedRow(outbox[n]).token = outbox[n].attempts + 1
        /\ ClaimedRow(outbox[n]).attempts = outbox[n].attempts + 1
    BY DEF ClaimedRow, Row
  <1>2. /\ dispatch'[e].step = "claimed" /\ dispatch'[e].msg = n
        /\ dispatch'[e].token = outbox[n].attempts + 1
        /\ \A d \in Dispatchers \ {e} : dispatch'[d] = dispatch[d]
    BY <1>1 DEF Claim, Idle
  <1>3. outbox'[n].attempts = outbox[n].attempts + 1
    BY <1>1 DEF Claim, SetRow
  <1>4. Uncancelled(e)'
    <2>1. outbox[n].attempts \in Nat
      BY DEF Row
    <2>. QED
      BY <1>2, <1>3, <2>1 DEF Uncancelled
  <1>5. ASSUME NEW d \in Dispatchers \ {e} PROVE Uncancelled(d)'
    <2>1. KeptDispatch(d) /\ \A m \in Messages : CancelTakes(m)
      BY <1>2, <1>5 DEF KeptDispatch, Claim, CancelTakes
    <2>. QED
      BY <1>5, <2>1, KeptUncancelled
  <1>. QED
    BY <1>4, <1>5

\* A message is rendered while its source is valid.
LEMMA RenderUncancelled ==
    ASSUME TypeInv, TypeInv', CancelInv, NEW e \in Dispatchers, Render(e),
           \A m \in Messages : RowStep(m)
    PROVE  \A d \in Dispatchers : Uncancelled(d)'
  <1>. DEFINE c == dispatch[e]
  <1>1. c \in Dispatch /\ dispatch \in [Dispatchers -> Dispatch]
    BY DEF TypeInv, TypeOK
  <1>2. /\ c.step = "claimed" /\ source[c.msg] = "valid"
        /\ UNCHANGED <<outbox, source>>
    BY DEF Render
  <1>3. PICK x : /\ dispatch' = [dispatch EXCEPT ![e] = x]
                 /\ x.msg = c.msg /\ x.token = c.token
    <2>1. CASE Go(e, "succeeded")
      <3>. DEFINE x == [c EXCEPT !.step = "succeeded"]
      <3>1. dispatch' = [dispatch EXCEPT ![e] = x]
        BY <1>1, <2>1 DEF Go
      <3>2. x.msg = c.msg /\ x.token = c.token
        BY <1>1 DEF Dispatch
      <3>. QED
        BY <3>1, <3>2
    <2>2. ASSUME NEW p \in Payloads,
                 dispatch' = [dispatch EXCEPT ![e] =
                                [@ EXCEPT !.step = "rendered", !.payload = p]]
          PROVE  \E x : /\ dispatch' = [dispatch EXCEPT ![e] = x]
                        /\ x.msg = c.msg /\ x.token = c.token
      <3>. DEFINE x == [c EXCEPT !.step = "rendered", !.payload = p]
      <3>1. dispatch' = [dispatch EXCEPT ![e] = x]
        BY <1>1, <2>2
      <3>2. x.msg = c.msg /\ x.token = c.token
        BY <1>1 DEF Dispatch
      <3>. QED
        BY <3>1, <3>2
    <2>. QED
      BY <2>1, <2>2 DEF Render
  <1>4. /\ dispatch'[e].msg = c.msg /\ dispatch'[e].token = c.token
        /\ \A d \in Dispatchers \ {e} : dispatch'[d] = dispatch[d]
    BY <1>1, <1>3
  <1>5. Uncancelled(e)'
    BY <1>2, <1>4 DEF CancelInv, Uncancelled
  <1>6. ASSUME NEW d \in Dispatchers \ {e} PROVE Uncancelled(d)'
    <2>1. KeptDispatch(d) /\ \A m \in Messages : CancelTakes(m)
      BY <1>2, <1>4, <1>6 DEF KeptDispatch, CancelTakes
    <2>. QED
      BY <1>6, <2>1, KeptUncancelled
  <1>. QED
    BY <1>5, <1>6

\* The invariant of cancellation is inductive.
LEMMA NextCancel ==
    ASSUME TypeInv, TypeInv', CancelInv, [Next]_vars PROVE CancelInv'
  <1>1. \A m \in Messages : RowStep(m)
    BY NextRow
  <1>2. \A m \in Messages :
          outbox'[m].status = "absent" => outbox'[m].attempts = 0
    BY <1>1, AttemptsGrow
  <1>3. ASSUME \A d \in Dispatchers : KeptDispatch(d),
               \A m \in Messages : CancelTakes(m)
        PROVE  \A d \in Dispatchers : Uncancelled(d)'
    BY <1>1, <1>3, KeptUncancelled
  <1>4. UNCHANGED source => \A m \in Messages : CancelTakes(m)
    BY DEF CancelTakes
  <1>5. UNCHANGED dispatch => \A d \in Dispatchers : KeptDispatch(d)
    BY DEF KeptDispatch
  <1>6. ASSUME NEW n \in Messages,
               \/ Enqueue(n) \/ SourceLapses(n)
               \/ CancelSource(n) \/ ManualRetry(n)
        PROVE  \A d \in Dispatchers : Uncancelled(d)'
    BY <1>3, <1>5, <1>6, BusinessKeeps
  <1>7. ASSUME NEW e \in Dispatchers, DispatchStep(e) \/ Abandon(e)
        PROVE  \A d \in Dispatchers : Uncancelled(d)'
    <2>1. CASE \E n \in Messages : Claim(e, n)
      BY <1>1, <2>1, ClaimUncancelled
    <2>2. CASE Render(e)
      BY <1>1, <2>2, RenderUncancelled
    <2>3. ASSUME \/ Fenced(e) \/ Expire(e) \/ RenderCancelled(e)
                 \/ Misconfigured(e) \/ RefuseAttempt(e) \/ StartAttempt(e)
                 \/ Interrupted(e) \/ RecordSuccess(e) \/ RecordCancelled(e)
                 \/ RecordFailure(e) \/ Notify(e) \/ Resolve(e) \/ Abandon(e)
          PROVE  \A d \in Dispatchers : Uncancelled(d)'
      <3>1. UNCHANGED source
        BY <2>3, Zenon
        DEF Fenced, Expire, RenderCancelled, Misconfigured, RefuseAttempt,
            StartAttempt, Interrupted, RecordSuccess, RecordCancelled,
            RecordFailure, Notify, Resolve, Abandon
      <3>. QED
        BY <1>3, <1>4, <2>3, <3>1, WorkerKeeps
    <2>. QED
      BY <1>7, <2>1, <2>2, <2>3 DEF DispatchStep
  <1>8. ASSUME NEW r \in inflight, Accept(r) \/ Decline(r)
        PROVE  \A d \in Dispatchers : Uncancelled(d)'
    <2>1. UNCHANGED source
      BY <1>8 DEF Accept, Decline
    <2>. QED
      BY <1>3, <1>4, <1>8, <2>1, ProviderKeeps
  <1>9. ASSUME Tick \/ UNCHANGED vars
        PROVE  \A d \in Dispatchers : Uncancelled(d)'
    BY <1>3, <1>4, <1>5, <1>9 DEF Tick, vars
  <1>10. \A d \in Dispatchers : Uncancelled(d)'
    BY <1>6, <1>7, <1>8, <1>9 DEF Next
  <1>. QED
    BY <1>2, <1>10 DEF CancelInv

\* The only requests and deliveries that a step adds.
LEMMA NetworkSteps ==
    ASSUME [Next]_vars
    PROVE  /\ \A r \in inflight' \ inflight : \E d \in Dispatchers : StartAttempt(d)
           /\ accepted' # accepted => \E r \in inflight : Accept(r)
  <1>. DEFINE Started == \E d \in Dispatchers : StartAttempt(d)
              Quiet == inflight' = inflight /\ accepted' = accepted
  <1>1. ASSUME NEW m \in Messages,
               \/ Enqueue(m) \/ SourceLapses(m)
               \/ CancelSource(m) \/ ManualRetry(m)
        PROVE  Quiet
    BY <1>1 DEF Enqueue, SourceLapses, CancelSource, ManualRetry
  <1>2. ASSUME NEW d \in Dispatchers, DispatchStep(d) \/ Abandon(d)
        PROVE  accepted' = accepted /\ (Started \/ inflight' = inflight)
    <2>1. CASE StartAttempt(d)
      BY <2>1 DEF StartAttempt
    <2>2. CASE (\E m \in Messages : Claim(d, m)) \/ Fenced(d) \/ Expire(d)
               \/ RenderCancelled(d) \/ Render(d) \/ Misconfigured(d)
               \/ RefuseAttempt(d)
      BY <2>2 DEF Claim, Fenced, Expire, RenderCancelled, Render, Misconfigured,
                  RefuseAttempt
    <2>3. CASE Interrupted(d) \/ RecordSuccess(d) \/ RecordCancelled(d)
               \/ RecordFailure(d) \/ Notify(d) \/ Resolve(d) \/ Abandon(d)
      BY <2>3 DEF Interrupted, RecordSuccess, RecordCancelled, RecordFailure,
                  Notify, Resolve, Abandon
    <2>. QED
      BY <1>2, <2>1, <2>2, <2>3 DEF DispatchStep
  <1>3. ASSUME NEW r \in inflight, Accept(r) \/ Decline(r)
        PROVE  /\ inflight' \subseteq inflight
               /\ accepted' # accepted => Accept(r)
    BY <1>3 DEF Accept, Decline, Take
  <1>4. ASSUME Tick \/ UNCHANGED vars PROVE Quiet
    BY <1>4 DEF Tick, vars
  <1>. HIDE DEF Started
  <1>5. /\ Started \/ inflight' \subseteq inflight
        /\ accepted' # accepted => \E r \in inflight : Accept(r)
    BY <1>1, <1>2, <1>3, <1>4 DEF Next
  <1>. QED
    BY <1>5 DEF Started

\* Once a source is cancelled no request of its message goes out, not even from
\* a dispatch that had rendered it before.
THEOREM CancelledIsNotSent == Spec => NoAttemptAfterCancel
  <1>1. Init => CancelInv
    <2>. SUFFICES ASSUME Init PROVE CancelInv
      OBVIOUS
    <2>1. \A m \in Messages : outbox[m].attempts = 0
      <3>. SUFFICES ASSUME NEW m \in Messages PROVE outbox[m].attempts = 0
        OBVIOUS
      <3>1. [NewRow(m) EXCEPT !.status = "absent"].attempts = 0
        BY DEF NewRow
      <3>2. outbox[m] = [NewRow(m) EXCEPT !.status = "absent"]
        BY DEF Init
      <3>. QED
        BY <3>1, <3>2
    <2>. QED
      BY <2>1 DEF Init, CancelInv, Uncancelled, Idle
  <1>2. TypeInv /\ TypeInv' /\ CancelInv /\ [Next]_vars => CancelInv'
    BY NextCancel
  <1>3. ASSUME TypeInv, CancelInv, [Next]_vars, NEW r \in inflight' \ inflight
        PROVE  source[r.msg] # "cancelled"
    <2>1. PICK d \in Dispatchers : StartAttempt(d)
      BY <1>3, NetworkSteps
    <2>2. /\ r.msg = dispatch[d].msg
          /\ dispatch[d].step = "rendered" /\ Refusals(d) = {}
      BY <1>3, <2>1 DEF StartAttempt
    <2>3. Holds(d)
      BY <2>2 DEF Refusals
    <2>. QED
      BY <1>3, <2>2, <2>3 DEF CancelInv, Uncancelled
  <1>4. TypeInv /\ CancelInv /\ [Next]_vars =>
          [\A r \in inflight' \ inflight : source[r.msg] # "cancelled"]_vars
    BY <1>3
  <1>. QED
    BY <1>1, <1>2, <1>4, AlwaysTypeInv, PTL DEF Spec, NoAttemptAfterCancel

-----------------------------------------------------------------------------
(* Content and validity.  What was sent once fixes the hash of the row and *)
(* with it the time the message stays valid: both only change in a row     *)
(* that nothing was sent of, which the hash tells.                         *)

Sendable(r) ==
    /\ r.payload = outbox[r.msg].hash
    /\ outbox[r.msg].validUntil # NoTime =>
         r.at + RequestTimeout < outbox[r.msg].validUntil

ContentInv ==
    /\ \A m \in Messages : outbox[m].status = "absent" => outbox[m].hash = "none"
    /\ \A r \in inflight : Sendable(r)
    /\ OneKeyOnePayload
    /\ DeliveredWhileValid

\* A row with a hash keeps it, whatever happens.
LEMMA HashStays ==
    ASSUME ContentInv, NEW m \in Messages, RowStep(m)
    PROVE  /\ outbox'[m].status = "absent" => outbox'[m].hash = "none"
           /\ outbox[m].hash # "none" =>
                /\ outbox'[m].hash = outbox[m].hash
                /\ outbox'[m].validUntil = outbox[m].validUntil
  BY DEF ContentInv, RowStep, SameRow, EnqueuedRow, WithdrawnRow, ReopenedRow,
         TakenRow, AttemptedRow, RecordedRow, KeptContent, Waiting, Settled

\* A request that is sent has the hash it leaves in the row, and time.
LEMMA SentIsSendable ==
    ASSUME TypeInv, NEW d \in Dispatchers, StartAttempt(d),
           NEW r \in inflight' \ inflight
    PROVE  r \in Request /\ Sendable(r)'
  <1>. DEFINE m == dispatch[d].msg
  <1>1. Refusals(d) = {} /\ Holds(d)
    BY DEF StartAttempt, Refusals
  <1>2. /\ m \in Messages /\ outbox[m] \in Row /\ dispatch[d] \in Dispatch
        /\ now \in Nat
    BY <1>1, HeldRow DEF TypeInv, TypeOK
  <1>3. r = [msg |-> m, token |-> dispatch[d].token,
             payload |-> dispatch[d].payload, at |-> now]
    BY DEF StartAttempt
  <1>4. r \in Request
    BY <1>2, <1>3 DEF StartAttempt, Dispatch, Request
  <1>5. outbox'[m] = PreparedRow(outbox[m], dispatch[d].payload)
    BY <1>2 DEF StartAttempt, SetRow, TypeInv, TypeOK
  <1>6. /\ outbox'[m].hash = dispatch[d].payload
        /\ outbox'[m].validUntil = outbox[m].validUntil
    BY <1>2, <1>5 DEF PreparedRow, Row
  <1>7. ~TooLate(outbox[m])
    BY <1>1 DEF Refusals
  <1>8. outbox[m].validUntil # NoTime =>
          now + RequestTimeout < outbox[m].validUntil
    <2>. SUFFICES ASSUME outbox[m].validUntil # NoTime
                  PROVE  now + RequestTimeout < outbox[m].validUntil
      OBVIOUS
    <2>. DEFINE v == outbox[m].validUntil
    <2>1. v \in Nat
      BY <1>2 DEF Row
    <2>2. ~(v <= now + RequestTimeout)
      BY <1>7 DEF TooLate, PastValidity
    <2>3. RequestTimeout \in Nat
      BY TimesAssumption
    <2>. HIDE DEF v
    <2>4. now + RequestTimeout < v
      BY <1>2, <2>1, <2>2, <2>3
    <2>. QED
      BY <2>4 DEF v
  <1>9. r.msg = m /\ r.payload = dispatch[d].payload /\ r.at = now
    BY <1>3
  <1>10. Sendable(r)'
    BY <1>6, <1>8, <1>9 DEF Sendable
  <1>. QED
    BY <1>4, <1>10

\* A request that arrives is what it was when it was sent, and not late.
LEMMA ArrivesInTime ==
    ASSUME DeliveryInv, ContentInv, NEW r \in inflight, Accept(r),
           NEW m \in Messages, NEW a \in accepted'[m] \ accepted[m]
    PROVE  /\ a.payload = outbox[m].hash
           /\ outbox[m].validUntil # NoTime =>
                a.at + RequestTimeout < outbox[m].validUntil + SendDelay
  <1>1. /\ r \in Request /\ now \in Nat /\ outbox[m] \in Row
        /\ accepted \in [Messages -> SUBSET Delivery]
    BY DEF DeliveryInv, TypeInv, TypeOK
  <1>2. m = r.msg /\ a = [token |-> r.token, payload |-> r.payload, at |-> now]
    BY <1>1 DEF Accept, Request
  <1>3. Sendable(r) /\ now <= r.at + SendDelay
    BY DEF ContentInv, DeliveryInv, WindowInv
  <1>4. /\ r.at \in Nat /\ outbox[m].validUntil \in Nat \cup {NoTime}
        /\ RequestTimeout \in Nat /\ SendDelay \in Nat
    BY <1>1, TimesAssumption DEF Request, Row
  <1>5. ASSUME outbox[m].validUntil # NoTime
        PROVE  a.at + RequestTimeout < outbox[m].validUntil + SendDelay
    <2>1. r.at + RequestTimeout < outbox[m].validUntil
      BY <1>2, <1>3, <1>5 DEF Sendable
    <2>2. a.at = now /\ outbox[m].validUntil \in Nat
      BY <1>2, <1>4, <1>5
    <2>. QED
      BY <1>1, <1>3, <1>4, <2>1, <2>2
  <1>. QED
    BY <1>2, <1>3, <1>5 DEF Sendable

\* The invariant of the contents is inductive.
LEMMA NextContent ==
    ASSUME DeliveryInv, TypeInv', ContentInv, [Next]_vars PROVE ContentInv'
  <1>. /\ TypeInv
       /\ accepted \in [Messages -> SUBSET Delivery]
       /\ inflight \subseteq Request
    BY DEF DeliveryInv, TypeInv, TypeOK
  <1>1. \A m \in Messages : RowStep(m)
    BY NextRow
  <1>2. \A m \in Messages :
          outbox'[m].status = "absent" => outbox'[m].hash = "none"
    BY <1>1, HashStays
  <1>3. ASSUME NEW r \in inflight' PROVE Sendable(r)' /\ r \in Request
    <2>1. CASE r \in inflight
      <3>1. /\ r.msg \in Messages /\ r.payload # "none" /\ Sendable(r)
        BY <2>1, PayloadsAssumption DEF Request, ContentInv
      <3>2. outbox[r.msg].hash # "none"
        BY <3>1 DEF Sendable
      <3>3. /\ outbox'[r.msg].hash = outbox[r.msg].hash
            /\ outbox'[r.msg].validUntil = outbox[r.msg].validUntil
        BY <1>1, <3>1, <3>2, HashStays
      <3>. QED
        BY <2>1, <3>1, <3>3 DEF Sendable
    <2>2. CASE r \notin inflight
      BY <1>3, <2>2, NetworkSteps, SentIsSendable
    <2>. QED
      BY <2>1, <2>2
  <1>4. ASSUME NEW m \in Messages, NEW a \in accepted'[m]
        PROVE  /\ a.payload = outbox'[m].hash
               /\ outbox'[m].validUntil # NoTime =>
                    a.at + RequestTimeout < outbox'[m].validUntil + SendDelay
    <2>1. CASE a \in accepted[m]
      <3>1. a.payload = outbox[m].hash /\ a.payload # "none"
        BY <2>1, PayloadsAssumption DEF ContentInv, OneKeyOnePayload, Delivery
      <3>2. outbox[m].validUntil # NoTime =>
              a.at + RequestTimeout < outbox[m].validUntil + SendDelay
        BY <2>1 DEF ContentInv, DeliveredWhileValid
      <3>. QED
        BY <1>1, <3>1, <3>2, HashStays
    <2>2. CASE a \notin accepted[m]
      <3>1. PICK r \in inflight : Accept(r)
        BY <1>4, <2>2, NetworkSteps
      <3>2. outbox' = outbox
        BY <3>1 DEF Accept
      <3>. QED
        BY <1>4, <2>2, <3>1, <3>2, ArrivesInTime
    <2>. QED
      BY <2>1, <2>2
  <1>5. OneKeyOnePayload'
    BY <1>3, <1>4 DEF OneKeyOnePayload, Sendable
  <1>6. DeliveredWhileValid'
    BY <1>4 DEF DeliveredWhileValid
  <1>. QED
    BY <1>2, <1>3, <1>5, <1>6 DEF ContentInv

\* The invariant of the contents holds in every reachable state.
LEMMA AlwaysContent == Spec => []ContentInv
  <1>1. Init => ContentInv
    <2>. SUFFICES ASSUME Init PROVE ContentInv
      OBVIOUS
    <2>1. \A m \in Messages : outbox[m].hash = "none"
      <3>. SUFFICES ASSUME NEW m \in Messages PROVE outbox[m].hash = "none"
        OBVIOUS
      <3>1. [NewRow(m) EXCEPT !.status = "absent"].hash = "none"
        BY DEF NewRow
      <3>. QED
        BY <3>1 DEF Init
    <2>. QED
      BY <2>1 DEF Init, ContentInv, OneKeyOnePayload, DeliveredWhileValid
  <1>2. DeliveryInv /\ TypeInv' /\ ContentInv /\ [Next]_vars => ContentInv'
    BY NextContent
  <1>. QED
    BY <1>1, <1>2, AlwaysDeliveryInv, AlwaysTypeInv, PTL DEF Spec

\* Under one idempotency key the provider never sees two contents, although
\* each attempt renders the message anew.
THEOREM OneContent == Spec => []OneKeyOnePayload
  <1>1. ContentInv => OneKeyOnePayload
    BY DEF ContentInv
  <1>. QED
    BY <1>1, AlwaysContent, PTL

\* No message arrives after its validity, up to the time a request travels
\* longer than its timeout.
THEOREM ArrivesWhileValid == Spec => []DeliveredWhileValid
  <1>1. ContentInv => DeliveredWhileValid
    BY DEF ContentInv
  <1>. QED
    BY <1>1, AlwaysContent, PTL

-----------------------------------------------------------------------------
(* The outbox implements EmailDelivery.  A step moves at most one row, or  *)
(* delivers one message; "accepted" is said of what was delivered, because *)
(* a dispatch only comes to record a success after the provider said so.   *)

DeliveredInv ==
    /\ \A m \in Messages : outbox[m].status = "accepted" => accepted[m] # {}
    /\ \A d \in Dispatchers :
         dispatch[d].step = "succeeded" /\ dispatch[d].msg \notin LocalMessages =>
             accepted[dispatch[d].msg] # {}

\* Which dispatch is told to record a success, and when a row is accepted.
SuccessSteps ==
    /\ \A d \in Dispatchers :
         dispatch'[d].step = "succeeded" =>
             \/ dispatch'[d] = dispatch[d]
             \/ dispatch'[d].msg \in LocalMessages
             \/ accepted'[dispatch'[d].msg] # {}
    /\ \A m \in Messages :
         outbox'[m].status = "accepted" =>
             \/ outbox[m].status = "accepted"
             \/ accepted[m] # {}

\* What the mail provider accepted stays accepted.
LEMMA AcceptedGrows ==
    ASSUME TypeInv, [Next]_vars, NEW m \in Messages
    PROVE  accepted[m] \subseteq accepted'[m]
  <1>1. CASE UNCHANGED accepted
    BY <1>1
  <1>2. CASE accepted' # accepted
    <2>1. PICK r \in inflight : Accept(r)
      BY <1>2, NetworkSteps
    <2>. QED
      BY <2>1 DEF Accept, TypeInv, TypeOK
  <1>. QED
    BY <1>1, <1>2

\* No step of the worker but rendering a local message starts to record a
\* success, and only recording one accepts a row.
LEMMA WorkerSuccess ==
    ASSUME TypeInv, DeliveredInv, NEW e \in Dispatchers,
           DispatchStep(e) \/ Abandon(e)
    PROVE  SuccessSteps
  <1>. DEFINE c == dispatch[e]
  <1>1. /\ c \in Dispatch /\ dispatch \in [Dispatchers -> Dispatch]
        /\ outbox \in [Messages -> Row]
    BY DEF TypeInv, TypeOK
  <1>2. ASSUME NEW x, dispatch' = [dispatch EXCEPT ![e] = x],
               x.step # "succeeded" \/ x.msg \in LocalMessages
        PROVE  \A d \in Dispatchers :
                 dispatch'[d].step = "succeeded" =>
                     \/ dispatch'[d] = dispatch[d]
                     \/ dispatch'[d].msg \in LocalMessages
    BY <1>1, <1>2
  <1>3. \A f : [c EXCEPT !.step = "failed", !.failure = f].step = "failed"
    BY <1>1 DEF Dispatch
  <1>4. /\ \A s \in {"cancelled", "sending"} : [c EXCEPT !.step = s].step = s
        /\ [c EXCEPT !.step = "succeeded"].msg = c.msg
        /\ \A p : [c EXCEPT !.step = "rendered", !.payload = p].step
                     = "rendered"
    BY <1>1 DEF Dispatch
  <1>5. CASE \/ Fenced(e) \/ Notify(e) \/ Resolve(e) \/ Abandon(e)
             \/ Expire(e) \/ Misconfigured(e) \/ RefuseAttempt(e)
             \/ Interrupted(e) \/ RenderCancelled(e) \/ Render(e)
    <2>. UNCHANGED outbox
      BY <1>5 DEF Fenced, Notify, Resolve, Abandon, Expire, Misconfigured,
                  RefuseAttempt, Interrupted, RenderCancelled, Render
    <2>1. CASE Fenced(e) \/ Notify(e) \/ Resolve(e) \/ Abandon(e)
      <3>1. dispatch' = [dispatch EXCEPT ![e] = Idle]
        BY <2>1 DEF Fenced, Notify, Resolve, Abandon, Finish
      <3>. QED
        BY <1>2, <3>1 DEF Idle, SuccessSteps
    <2>2. CASE Expire(e) \/ Misconfigured(e) \/ RefuseAttempt(e)
               \/ Interrupted(e)
      <3>1. PICK f : Fail(e, f)
        BY <2>2 DEF Expire, Misconfigured, RefuseAttempt, Interrupted
      <3>2. dispatch' = [dispatch EXCEPT ![e] =
                            [c EXCEPT !.step = "failed", !.failure = f]]
        BY <1>1, <3>1 DEF Fail
      <3>. QED
        BY <1>2, <1>3, <3>2 DEF SuccessSteps
    <2>3. CASE RenderCancelled(e)
      <3>1. dispatch' = [dispatch EXCEPT ![e] = [c EXCEPT !.step = "cancelled"]]
        BY <1>1, <2>3 DEF RenderCancelled, Go
      <3>. QED
        BY <1>2, <1>4, <3>1 DEF SuccessSteps
    <2>4. CASE Render(e) /\ c.msg \in LocalMessages
      <3>1. dispatch' = [dispatch EXCEPT ![e] = [c EXCEPT !.step = "succeeded"]]
        BY <1>1, <2>4 DEF Render, Go
      <3>. QED
        BY <1>2, <1>4, <2>4, <3>1 DEF SuccessSteps
    <2>5. CASE Render(e) /\ c.msg \notin LocalMessages
      <3>1. PICK p : dispatch' = [dispatch EXCEPT ![e] =
                        [c EXCEPT !.step = "rendered", !.payload = p]]
        BY <1>1, <2>5 DEF Render
      <3>. QED
        BY <1>2, <1>4, <3>1 DEF SuccessSteps
    <2>. QED
      BY <1>5, <2>1, <2>2, <2>3, <2>4, <2>5
  <1>6. ASSUME NEW n \in Messages, Claim(e, n)
        PROVE  SuccessSteps
    <2>1. ClaimedRow(outbox[n]).status = "processing"
      BY <1>1 DEF ClaimedRow, Row
    <2>2. \A m \in Messages : outbox'[m].status = "accepted" =>
                                 outbox[m].status = "accepted"
      BY <1>1, <1>6, <2>1 DEF Claim, SetRow
    <2>3. \A d \in Dispatchers : dispatch'[d].step = "succeeded" =>
                                    dispatch'[d] = dispatch[d]
      BY <1>1, <1>6 DEF Claim, Idle
    <2>. QED
      BY <2>2, <2>3 DEF SuccessSteps
  <1>7. CASE StartAttempt(e)
    <2>. DEFINE n == c.msg
    <2>1. n \in Messages /\ outbox[n].status = "processing"
      BY <1>7, HeldRow DEF StartAttempt, Refusals
    <2>2. PreparedRow(outbox[n], c.payload).status = "processing"
      BY <1>1, <2>1 DEF PreparedRow, Row
    <2>3. \A m \in Messages : outbox'[m].status = "accepted" =>
                                 outbox[m].status = "accepted"
      BY <1>1, <1>7, <2>1, <2>2 DEF StartAttempt, SetRow
    <2>4. \A d \in Dispatchers : dispatch'[d].step = "succeeded" =>
                                    dispatch'[d] = dispatch[d]
      BY <1>1, <1>4, <1>7 DEF StartAttempt, Go
    <2>. QED
      BY <2>3, <2>4 DEF SuccessSteps
  <1>8. CASE RecordSuccess(e) \/ RecordCancelled(e) \/ RecordFailure(e)
    <2>. DEFINE n == c.msg
    <2>1. Finish(e) \/ Report(e, "resolve") \/ Report(e, "notify")
      BY <1>8 DEF RecordSuccess, RecordCancelled, RecordFailure
    <2>2. \A d \in Dispatchers : dispatch'[d].step = "succeeded" =>
                                    dispatch'[d] = dispatch[d]
      <3>1. /\ Idle.step # "succeeded"
            /\ [Idle EXCEPT !.step = "resolve", !.msg = n].step # "succeeded"
            /\ [Idle EXCEPT !.step = "notify", !.msg = n].step # "succeeded"
        BY DEF Idle
      <3>. QED
        BY <1>1, <2>1, <3>1 DEF Finish, Report
    <2>3. ASSUME NEW m \in Messages, outbox'[m].status = "accepted",
                 outbox[m].status # "accepted"
          PROVE  accepted[m] # {}
      <3>1. m = n /\ c.step = "succeeded" /\ n \notin LocalMessages
        BY <1>8, <2>3, RecordRow DEF SameRow, RecordSuccess
      <3>. QED
        BY <3>1 DEF DeliveredInv
    <2>. QED
      BY <2>2, <2>3 DEF SuccessSteps
  <1>. QED
    BY <1>5, <1>6, <1>7, <1>8 DEF DispatchStep

\* The provider tells of a success what it has accepted.
LEMMA ProviderSuccess ==
    ASSUME TypeInv, NEW r \in inflight, Accept(r) \/ Decline(r)
    PROVE  SuccessSteps
  <1>1. /\ dispatch \in [Dispatchers -> Dispatch] /\ UNCHANGED outbox
        /\ r \in Request /\ accepted \in [Messages -> SUBSET Delivery]
    BY DEF Accept, Decline, TypeInv, TypeOK
  <1>2. CASE UNCHANGED dispatch
    BY <1>1, <1>2 DEF SuccessSteps
  <1>3. ASSUME NEW e \in Dispatchers, Waits(e, r), NEW f, Fail(e, f)
        PROVE  SuccessSteps
    <2>1. [dispatch[e] EXCEPT !.step = "failed", !.failure = f].step = "failed"
      BY <1>1 DEF Dispatch
    <2>. QED
      BY <1>1, <1>3, <2>1 DEF Fail, SuccessSteps
  <1>4. ASSUME NEW e \in Dispatchers, Waits(e, r), Go(e, "succeeded"), Accept(r)
        PROVE  SuccessSteps
    <2>1. /\ dispatch'[e].msg = r.msg
          /\ \A d \in Dispatchers \ {e} : dispatch'[d] = dispatch[d]
      <3>1. [dispatch[e] EXCEPT !.step = "succeeded"].msg = dispatch[e].msg
        BY <1>1 DEF Dispatch
      <3>. QED
        BY <1>1, <1>4, <3>1 DEF Go, Waits
    <2>2. accepted'[r.msg] # {}
      BY <1>1, <1>4 DEF Accept, Request
    <2>. QED
      BY <1>1, <2>1, <2>2 DEF SuccessSteps
  <1>. QED
    BY <1>2, <1>3, <1>4 DEF Accept, Decline

\* The business transactions accept no row.
LEMMA BusinessSuccess ==
    ASSUME TypeInv, NEW n \in Messages,
           Enqueue(n) \/ SourceLapses(n) \/ CancelSource(n) \/ ManualRetry(n)
    PROVE  SuccessSteps
  <1>1. UNCHANGED dispatch
    BY DEF Enqueue, SourceLapses, CancelSource, ManualRetry
  <1>2. UNCHANGED attemptLog
    BY DEF Enqueue, SourceLapses, CancelSource, ManualRetry
  <1>3. \A m \in Messages : attemptLog[m] \in Seq(Nat)
    BY DEF TypeInv, TypeOK
  <1>4. \A m \in Messages :
          outbox'[m].status = "accepted" => outbox[m].status = "accepted"
    <2>. SUFFICES ASSUME NEW m \in Messages, outbox'[m].status = "accepted"
                  PROVE  outbox[m].status = "accepted"
      OBVIOUS
    <2>1. RowStep(m)
      BY BusinessRow
    <2>2. CASE RecordedRow(m)
      <3>1. attemptLog[m] = Append(attemptLog[m], outbox[m].attempts)
        BY <1>2, <2>2 DEF RecordedRow
      <3>2. /\ Len(Append(attemptLog[m], outbox[m].attempts))
                 = Len(attemptLog[m]) + 1
            /\ Len(attemptLog[m]) \in Nat
        BY <1>3
      <3>. QED
        BY <3>1, <3>2
    <2>. QED
      BY <2>1, <2>2
      DEF RowStep, SameRow, EnqueuedRow, WithdrawnRow, ReopenedRow, TakenRow,
          AttemptedRow
  <1>. QED
    BY <1>1, <1>4 DEF SuccessSteps

\* The invariant is inductive.
LEMMA NextDelivered ==
    ASSUME TypeInv, TypeInv', DeliveredInv, [Next]_vars PROVE DeliveredInv'
  <1>1. SuccessSteps
    <2>1. CASE Tick \/ UNCHANGED vars
      BY <2>1 DEF Tick, vars, SuccessSteps
    <2>. QED
      BY <2>1, BusinessSuccess, WorkerSuccess, ProviderSuccess DEF Next
  <1>2. \A m \in Messages : accepted[m] # {} => accepted'[m] # {}
    BY AcceptedGrows
  <1>3. ASSUME NEW m \in Messages, outbox'[m].status = "accepted"
        PROVE  accepted'[m] # {}
    BY <1>1, <1>2, <1>3 DEF SuccessSteps, DeliveredInv
  <1>4. ASSUME NEW d \in Dispatchers, dispatch'[d].step = "succeeded",
               dispatch'[d].msg \notin LocalMessages
        PROVE  accepted'[dispatch'[d].msg] # {}
    <2>1. dispatch'[d].msg \in Messages
      BY <1>4 DEF TypeInv, TypeOK, Dispatch
    <2>. QED
      BY <1>1, <1>2, <1>4, <2>1 DEF SuccessSteps, DeliveredInv
  <1>. QED
    BY <1>3, <1>4 DEF DeliveredInv

\* A step moves at most one row.
LEMMA OneRow ==
    ASSUME TypeInv, [Next]_vars, NEW m \in Messages, NEW k \in Messages, m # k
    PROVE  SameRow(m) \/ SameRow(k)
  <1>. outbox \in [Messages -> Row] /\ attemptLog \in [Messages -> Seq(Nat)]
    BY DEF TypeInv, TypeOK
  <1>1. ASSUME NEW n, NEW row, SetRow(n, row), NEW log,
               attemptLog' = attemptLog \/ attemptLog' = [attemptLog EXCEPT ![n] = log]
        PROVE  SameRow(m) \/ SameRow(k)
    BY <1>1 DEF SetRow, SameRow
  <1>2. ASSUME UNCHANGED <<outbox, attemptLog>>
        PROVE  SameRow(m) \/ SameRow(k)
    BY <1>2 DEF SameRow
  <1>3. ASSUME NEW n \in Messages,
               \/ Enqueue(n) \/ SourceLapses(n)
               \/ CancelSource(n) \/ ManualRetry(n)
        PROVE  SameRow(m) \/ SameRow(k)
    BY <1>1, <1>2, <1>3 DEF Enqueue, SourceLapses, CancelSource, ManualRetry
  <1>4. ASSUME NEW d \in Dispatchers, DispatchStep(d) \/ Abandon(d)
        PROVE  SameRow(m) \/ SameRow(k)
    <2>1. CASE RecordSuccess(d) \/ RecordCancelled(d) \/ RecordFailure(d)
      BY <2>1, RecordRow
    <2>2. CASE StartAttempt(d) \/ \E n \in Messages : Claim(d, n)
      BY <1>1, <2>2 DEF StartAttempt, Claim
    <2>. QED
      BY <1>2, <1>4, <2>1, <2>2
      DEF DispatchStep, Abandon, Fenced, Expire, RenderCancelled, Render,
          Misconfigured, RefuseAttempt, Interrupted, Notify, Resolve
  <1>. QED
    BY <1>2, <1>3, <1>4 DEF Next, Accept, Decline, Tick, vars

\* What the outbox says of a message, and how often it was delivered.
Told(m) == IF outbox[m].status \in Pending THEN "pending"
           ELSE IF outbox[m].status \in {"absent", "accepted"}
                  THEN outbox[m].status
                  ELSE "closed"
Copies(m) == Cardinality(accepted[m])

\* A message whose row stays as it is is told of as before.
LEMMA SameTold ==
    ASSUME NEW m \in Messages, SameRow(m) PROVE Told(m)' = Told(m)
  BY DEF SameRow, Told

\* What is told of a message changes in five ways.
LEMMA ToldSteps ==
    ASSUME TypeInv, TypeInv', DeliveredInv, DeliveredInv', accepted' = accepted,
           NEW m \in Messages, RowStep(m), Told(m)' # Told(m)
    PROVE  \/ Told(m) = "absent" /\ Told(m)' = "pending"
           \/ Told(m) = "pending" /\ Told(m)' = "closed"
           \/ Told(m) = "closed" /\ Told(m)' = "pending"
           \/ /\ Told(m) = "pending" /\ Told(m)' = "accepted"
              /\ accepted[m] # {}
  <1>1. outbox'[m].status = "accepted" => accepted[m] # {}
    BY DEF DeliveredInv
  <1>2. CASE SameRow(m)
    BY <1>2, SameTold
  <1>3. CASE EnqueuedRow(m) \/ WithdrawnRow(m) \/ ReopenedRow(m)
    BY <1>3
    DEF EnqueuedRow, WithdrawnRow, ReopenedRow, Told, Pending, Waiting
  <1>4. CASE TakenRow(m) \/ AttemptedRow(m)
    BY <1>4 DEF TakenRow, AttemptedRow, Told, Pending, Waiting
  <1>5. CASE RecordedRow(m)
    BY <1>1, <1>5 DEF RecordedRow, Told, Pending, Waiting, Settled
  <1>. QED
    BY <1>2, <1>3, <1>4, <1>5 DEF RowStep

\* One delivery counts as one.
LEMMA OneCopy ==
    ASSUME AtMostOneDelivery, NEW m \in Messages, accepted[m] # {}
    PROVE  Copies(m) = 1
  <1>1. PICK a : a \in accepted[m]
    OBVIOUS
  <1>2. accepted[m] = {a}
    BY <1>1 DEF AtMostOneDelivery
  <1>. QED
    BY <1>2, FS_Singleton DEF Copies

\* A delivery is the first one, of a message that was enqueued and is not yet
\* told to be accepted.
LEMMA FirstDelivery ==
    ASSUME DeliveryInv, DeliveryInv', DeliveredInv, NEW r \in inflight, Accept(r)
    PROVE  /\ r.msg \in Messages /\ outbox' = outbox
           /\ Told(r.msg) \in {"pending", "closed"}
           /\ Copies(r.msg) = 0 /\ Copies(r.msg)' = 1
           /\ \A m \in Messages \ {r.msg} : accepted'[m] = accepted[m]
  <1>. DEFINE m == r.msg
              new == [token |-> r.token, payload |-> r.payload, at |-> now]
  <1>1. /\ m \in Messages /\ outbox' = outbox
        /\ accepted \in [Messages -> SUBSET Delivery]
    BY DEF Accept, DeliveryInv, TypeInv, TypeOK, Request
  <1>2. accepted' = [accepted EXCEPT ![m] = @ \cup {new}]
    BY DEF Accept
  <1>3. accepted'[m] = accepted[m] \cup {new}
    BY <1>1, <1>2
  <1>4. accepted[m] = {}
    BY AcceptedOnce DEF DeliveryInv
  <1>5. Copies(m) = 0 /\ Copies(m)' = 1
    <2>1. accepted'[m] = {new}
      BY <1>3, <1>4
    <2>2. Cardinality(accepted[m]) = 0
      BY <1>4, FS_EmptySet
    <2>3. Cardinality(accepted'[m]) = 1
      BY <2>1, FS_Singleton
    <2>. QED
      BY <2>2, <2>3 DEF Copies
  <1>6. outbox[m].status # "absent"
    BY <1>1 DEF DeliveryInv, WindowInv
  <1>7. outbox[m].status # "accepted"
    BY <1>1, <1>4 DEF DeliveredInv
  <1>. QED
    BY <1>1, <1>2, <1>5, <1>6, <1>7 DEF Told

\* The variables of EmailDelivery, in terms of Told and Copies.
LEMMA NextDelivery ==
    ASSUME DeliveryInv, DeliveryInv', DeliveredInv, DeliveredInv', [Next]_vars
    PROVE  [Abstract!Next]_Abstract!vars
  <1>. DEFINE outcome == [m \in Messages |-> Told(m)]
              copies == [m \in Messages |-> Copies(m)]
  <1>1. CASE accepted' # accepted
    <2>1. PICK r \in inflight : Accept(r)
      BY <1>1, NetworkSteps
    <2>2. /\ r.msg \in Messages /\ outbox' = outbox
          /\ Told(r.msg) \in {"pending", "closed"}
          /\ Copies(r.msg) = 0 /\ Copies(r.msg)' = 1
          /\ \A m \in Messages \ {r.msg} : accepted'[m] = accepted[m]
      BY <2>1, FirstDelivery
    <2>3. /\ outcome' = outcome
          /\ copies' = [copies EXCEPT ![r.msg] = 1]
      BY <2>2 DEF Told, Copies
    <2>4. Abstract!Deliver(r.msg)
      BY <2>2, <2>3 DEF Abstract!Deliver, Told, Copies
    <2>. QED
      BY <2>2, <2>4 DEF Abstract!Next
  <1>2. CASE accepted' = accepted /\ \A m \in Messages : Told(m)' = Told(m)
    <2>1. outcome' = outcome /\ copies' = copies
      BY <1>2 DEF Copies
    <2>. QED
      BY <2>1 DEF Abstract!vars, Told, Copies
  <1>3. ASSUME accepted' = accepted, NEW m \in Messages, Told(m)' # Told(m)
        PROVE  Abstract!Next
    <2>1. \A k \in Messages \ {m} : Told(k)' = Told(k)
      BY <1>3, OneRow, SameTold DEF DeliveryInv
    <2>2. /\ outcome' = [outcome EXCEPT ![m] = Told(m)']
          /\ copies' = copies
      BY <1>3, <2>1 DEF Told, Copies
    <2>3. RowStep(m)
      BY NextRow DEF DeliveryInv
    <2>4. CASE Told(m) = "absent" /\ Told(m)' = "pending"
      BY <2>2, <2>4 DEF Abstract!Next, Abstract!Enqueue, Told, Copies
    <2>5. CASE Told(m) = "pending" /\ Told(m)' = "closed"
      BY <2>2, <2>5 DEF Abstract!Next, Abstract!Close, Told, Copies
    <2>6. CASE Told(m) = "closed" /\ Told(m)' = "pending"
      BY <2>2, <2>6 DEF Abstract!Next, Abstract!Reopen, Told, Copies
    <2>7. CASE /\ Told(m) = "pending" /\ Told(m)' = "accepted"
               /\ accepted[m] # {}
      <3>1. Copies(m) = 1
        BY <2>7, OneCopy DEF DeliveryInv, WindowInv
      <3>. QED
        BY <2>2, <2>7, <3>1 DEF Abstract!Next, Abstract!Accept, Told, Copies
    <2>. QED
      BY <1>3, <2>3, <2>4, <2>5, <2>6, <2>7, ToldSteps DEF DeliveryInv
  <1>. QED
    BY <1>1, <1>2, <1>3

\* The outbox implements EmailDelivery: whoever enqueues a message may rely on
\* what that module says, and need not know of leases, attempts and keys.
THEOREM OutboxImplementsDelivery == Spec => ImplementsDelivery
  <1>1. Init => DeliveredInv
    <2>. SUFFICES ASSUME Init PROVE DeliveredInv
      OBVIOUS
    <2>1. \A m \in Messages : outbox[m].status = "absent"
      <3>. SUFFICES ASSUME NEW m \in Messages PROVE outbox[m].status = "absent"
        OBVIOUS
      <3>1. [NewRow(m) EXCEPT !.status = "absent"].status = "absent"
        BY DEF NewRow
      <3>. QED
        BY <3>1 DEF Init
    <2>. QED
      BY <2>1 DEF Init, DeliveredInv, Idle
  <1>2. Init => Abstract!Init
    <2>. SUFFICES ASSUME Init PROVE Abstract!Init
      OBVIOUS
    <2>1. ASSUME NEW m \in Messages
          PROVE  outbox[m].status = "absent" /\ Cardinality(accepted[m]) = 0
      <3>1. [NewRow(m) EXCEPT !.status = "absent"].status = "absent"
        BY DEF NewRow
      <3>. QED
        BY <3>1, FS_EmptySet DEF Init
    <2>. QED
      BY <2>1 DEF Abstract!Init, Pending, Waiting
  <1>3. DeliveryInv /\ DeliveryInv' /\ DeliveredInv /\ [Next]_vars =>
          DeliveredInv'
    BY NextDelivered DEF DeliveryInv
  <1>4. DeliveryInv /\ DeliveryInv' /\ DeliveredInv /\ DeliveredInv'
          /\ [Next]_vars => [Abstract!Next]_Abstract!vars
    BY NextDelivery
  <1>. QED
    BY <1>1, <1>2, <1>3, <1>4, AlwaysDeliveryInv, PTL
    DEF Spec, ImplementsDelivery, Abstract!Spec

-----------------------------------------------------------------------------
(* Outcomes.  A row that denies its last attempt does so on the word of    *)
(* the dispatch that held it, so the invariant is about dispatches: the    *)
(* claim of one that has sent nothing, or was told that nothing came of    *)
(* it, is the claim of no request and of no delivery.  That needs claims   *)
(* to be told apart: no two dispatches, requests or deliveries of one      *)
(* message share a token, and no token is drawn before its claim.          *)

\* A dispatch that still owes its row an outcome, and one that can say that the
\* provider has nothing from it.
Live(d) ==
    dispatch[d].step \in {"claimed", "rendered", "sending", "succeeded",
                          "cancelled", "failed"}
Unsent(d) ==
    \/ dispatch[d].step \in {"claimed", "rendered"}
    \/ dispatch[d].step = "failed" /\ ~dispatch[d].failure.uncertain

\* The provider has, or may yet get, what was sent under a claim.
Sent(m, t) ==
    \/ \E r \in inflight : r.msg = m /\ r.token = t
    \/ \E a \in accepted[m] : a.token = t

\* Where a failed attempt leaves a row, unless it has expired.
Denying == {"retry_scheduled", "terminal_failed", "reconciliation_required"}

TokensAreAttempts ==
    \A m \in Messages :
        outbox[m].status = "processing" => outbox[m].token = outbox[m].attempts

ClaimsDiffer ==
    \A d, e \in Dispatchers :
        d # e /\ Live(d) /\ Live(e) /\ dispatch[d].msg = dispatch[e].msg =>
            dispatch[d].token # dispatch[e].token

NothingSent ==
    \A d \in Dispatchers :
        Unsent(d) => ~Sent(dispatch[d].msg, dispatch[d].token)

RequestsDiffer ==
    /\ \A r, s \in inflight : r.msg = s.msg /\ r.token = s.token => r = s
    /\ \A r \in inflight : \A a \in accepted[r.msg] : a.token # r.token

TokensAreDrawn ==
    /\ \A r \in inflight : r.token <= outbox[r.msg].attempts
    /\ \A m \in Messages :
         \A a \in accepted[m] : a.token <= outbox[m].attempts

RowsAreRight ==
    \A m \in Messages :
        outbox[m].status \in Denying /\ ~outbox[m].uncertain =>
            ~Sent(m, outbox[m].attempts)

OutcomeInv ==
    /\ TokensAreAttempts
    /\ ClaimsDiffer
    /\ NothingSent
    /\ RequestsDiffer
    /\ TokensAreDrawn
    /\ RowsAreRight

\* Only an attempt adds to what was sent, and only under its own claim.
LEMMA SentSteps ==
    ASSUME TypeInv, [Next]_vars, NEW m \in Messages, NEW t, Sent(m, t)'
    PROVE  \/ Sent(m, t)
           \/ \E d \in Dispatchers : /\ StartAttempt(d)
                                     /\ dispatch[d].msg = m
                                     /\ dispatch[d].token = t
  <1>1. CASE \E r \in inflight' : r.msg = m /\ r.token = t
    <2>1. PICK r \in inflight' : r.msg = m /\ r.token = t
      BY <1>1
    <2>2. CASE r \in inflight
      BY <2>1, <2>2 DEF Sent
    <2>3. CASE r \notin inflight
      <3>1. PICK d \in Dispatchers : StartAttempt(d)
        BY <2>3, NetworkSteps
      <3>2. r.msg = dispatch[d].msg /\ r.token = dispatch[d].token
        BY <2>3, <3>1 DEF StartAttempt
      <3>. QED
        BY <2>1, <3>1, <3>2
    <2>. QED
      BY <2>2, <2>3
  <1>2. CASE \E a \in accepted'[m] : a.token = t
    <2>1. PICK a \in accepted'[m] : a.token = t
      BY <1>2
    <2>2. CASE a \in accepted[m]
      BY <2>1, <2>2 DEF Sent
    <2>3. CASE a \notin accepted[m]
      <3>1. PICK r \in inflight : Accept(r)
        BY <2>1, <2>3, NetworkSteps
      <3>2. m = r.msg /\ a.token = r.token
        BY <2>1, <2>3, <3>1 DEF Accept, TypeInv, TypeOK
      <3>. QED
        BY <2>1, <3>2 DEF Sent
    <2>. QED
      BY <2>2, <2>3
  <1>. QED
    BY <1>1, <1>2 DEF Sent

\* A dispatch that owes an outcome after a step owed it before, under the same
\* claim, and learns of no failure but from the provider.
KeptClaim(d) ==
    Live(d)' =>
        /\ Live(d)
        /\ dispatch'[d].msg = dispatch[d].msg
        /\ dispatch'[d].token = dispatch[d].token

KeptUnsent(d) ==
    Unsent(d)' =>
        Unsent(d) \/ ~Sent(dispatch[d].msg, dispatch[d].token)'

\* The worker goes on like that, but for a claim.
LEMMA WorkerClaims ==
    ASSUME TypeInv, NEW e \in Dispatchers,
           \/ Fenced(e) \/ Expire(e) \/ RenderCancelled(e) \/ Render(e)
           \/ Misconfigured(e) \/ RefuseAttempt(e) \/ StartAttempt(e)
           \/ Interrupted(e) \/ RecordSuccess(e) \/ RecordCancelled(e)
           \/ RecordFailure(e) \/ Notify(e) \/ Resolve(e) \/ Abandon(e)
    PROVE  \A d \in Dispatchers : KeptClaim(d) /\ (Unsent(d)' => Unsent(d))
  <1>. DEFINE c == dispatch[e]
  <1>1. c \in Dispatch /\ dispatch \in [Dispatchers -> Dispatch]
    BY DEF TypeInv, TypeOK
  <1>2. ASSUME NEW x, dispatch' = [dispatch EXCEPT ![e] = x],
               \/ x.step \in {"idle", "notify", "resolve"}
               \/ /\ Live(e) /\ x.msg = c.msg /\ x.token = c.token
                  /\ \/ x.step \in {"sending", "succeeded", "cancelled"}
                     \/ x.step = "failed" /\ x.failure.uncertain
                     \/ x.step \in {"rendered", "failed"} /\ Unsent(e)
        PROVE  \A d \in Dispatchers : KeptClaim(d) /\ (Unsent(d)' => Unsent(d))
    <2>1. dispatch'[e] = x
      BY <1>1, <1>2
    <2>2. \A d \in Dispatchers \ {e} : dispatch'[d] = dispatch[d]
      BY <1>1, <1>2
    <2>3. KeptClaim(e) /\ (Unsent(e)' => Unsent(e))
      BY <1>2, <2>1 DEF KeptClaim, Live, Unsent
    <2>4. ASSUME NEW d \in Dispatchers \ {e}
          PROVE  KeptClaim(d) /\ (Unsent(d)' => Unsent(d))
      BY <2>2, <2>4 DEF KeptClaim, Live, Unsent
    <2>. QED
      BY <2>3, <2>4
  <1>3. ASSUME NEW s \in {"sending", "succeeded", "cancelled"}, Go(e, s), Live(e)
        PROVE  \A d \in Dispatchers : KeptClaim(d) /\ (Unsent(d)' => Unsent(d))
    <2>. DEFINE x == [c EXCEPT !.step = s]
    <2>1. dispatch' = [dispatch EXCEPT ![e] = x]
      BY <1>1, <1>3 DEF Go
    <2>2. x.step = s /\ x.msg = c.msg /\ x.token = c.token
      BY <1>1 DEF Dispatch
    <2>. HIDE DEF x
    <2>. QED
      BY <1>2, <1>3, <2>1, <2>2
  <1>4. ASSUME NEW f, Fail(e, f), Live(e), f.uncertain \/ Unsent(e)
        PROVE  \A d \in Dispatchers : KeptClaim(d) /\ (Unsent(d)' => Unsent(d))
    <2>. DEFINE x == [c EXCEPT !.step = "failed", !.failure = f]
    <2>1. dispatch' = [dispatch EXCEPT ![e] = x]
      BY <1>1, <1>4 DEF Fail
    <2>2. /\ x.step = "failed" /\ x.msg = c.msg /\ x.token = c.token
          /\ x.failure = f
      BY <1>1 DEF Dispatch
    <2>. HIDE DEF x
    <2>. QED
      BY <1>2, <1>4, <2>1, <2>2
  <1>5. CASE Fenced(e) \/ RecordCancelled(e) \/ Notify(e) \/ Resolve(e)
             \/ Abandon(e) \/ RecordSuccess(e) \/ RecordFailure(e)
    <2>1. Finish(e) \/ \E s \in {"notify", "resolve"} : Report(e, s)
      BY <1>5 DEF Fenced, RecordCancelled, Notify, Resolve, Abandon,
                  RecordSuccess, RecordFailure
    <2>2. CASE Finish(e)
      <3>1. Idle.step = "idle"
        BY DEF Idle
      <3>. QED
        BY <1>2, <2>2, <3>1 DEF Finish
    <2>3. ASSUME NEW s \in {"notify", "resolve"}, Report(e, s)
          PROVE  \A d \in Dispatchers : KeptClaim(d) /\ (Unsent(d)' => Unsent(d))
      <3>. DEFINE x == [Idle EXCEPT !.step = s, !.msg = c.msg]
      <3>1. dispatch' = [dispatch EXCEPT ![e] = x]
        BY <2>3 DEF Report
      <3>2. x.step = s
        BY DEF Idle
      <3>. HIDE DEF x
      <3>. QED
        BY <1>2, <3>1, <3>2
    <2>. QED
      BY <2>1, <2>2, <2>3
  <1>6. CASE Expire(e) \/ Misconfigured(e) \/ RefuseAttempt(e)
    <2>1. PICK f : Fail(e, f)
      BY <1>6 DEF Expire, Misconfigured, RefuseAttempt
    <2>2. Live(e) /\ Unsent(e)
      BY <1>6 DEF Expire, Misconfigured, RefuseAttempt, Live, Unsent
    <2>. QED
      BY <1>4, <2>1, <2>2
  <1>7. CASE Interrupted(e)
    <2>1. Fail(e, Unanswered) /\ Live(e) /\ Unanswered.uncertain
      BY <1>7 DEF Interrupted, Live, Unanswered, Failure
    <2>. QED
      BY <1>4, <2>1
  <1>8. CASE RenderCancelled(e) \/ StartAttempt(e)
    <2>1. Live(e) /\ \E s \in {"sending", "cancelled"} : Go(e, s)
      BY <1>8 DEF RenderCancelled, StartAttempt, Live
    <2>. QED
      BY <1>3, <2>1
  <1>9. CASE Render(e)
    <2>1. Live(e) /\ Unsent(e) /\ c.step = "claimed"
      BY <1>9 DEF Render, Live, Unsent
    <2>2. CASE Go(e, "succeeded")
      BY <1>3, <2>1, <2>2
    <2>3. ASSUME NEW p \in Payloads,
                 dispatch' = [dispatch EXCEPT ![e] =
                                [@ EXCEPT !.step = "rendered", !.payload = p]]
          PROVE  \A d \in Dispatchers : KeptClaim(d) /\ (Unsent(d)' => Unsent(d))
      <3>. DEFINE x == [c EXCEPT !.step = "rendered", !.payload = p]
      <3>1. dispatch' = [dispatch EXCEPT ![e] = x]
        BY <1>1, <2>3
      <3>2. x.step = "rendered" /\ x.msg = c.msg /\ x.token = c.token
        BY <1>1 DEF Dispatch
      <3>. HIDE DEF x
      <3>. QED
        BY <1>2, <2>1, <3>1, <3>2
    <2>. QED
      BY <1>9, <2>2, <2>3 DEF Render
  <1>. QED
    BY <1>5, <1>6, <1>7, <1>8, <1>9

\* A dispatch whose request is on its way is not one that has sent nothing.
LEMMA StartedClaim ==
    ASSUME TypeInv, NEW e \in Dispatchers, StartAttempt(e)
    PROVE  ~Unsent(e)'
  <1>1. dispatch[e] \in Dispatch /\ dispatch \in [Dispatchers -> Dispatch]
    BY DEF TypeInv, TypeOK
  <1>2. [dispatch[e] EXCEPT !.step = "sending"].step = "sending"
    BY <1>1 DEF Dispatch
  <1>3. dispatch'[e].step = "sending"
    BY <1>1, <1>2 DEF StartAttempt, Go
  <1>. QED
    BY <1>3 DEF Unsent

\* What a declined request was sent under is the claim of nothing any more.
LEMMA DeclinedIsNotSent ==
    ASSUME RequestsDiffer, NEW r \in inflight, Decline(r)
    PROVE  ~Sent(r.msg, r.token)'
  <1>1. inflight' = inflight \ {r} /\ accepted' = accepted
    BY DEF Decline, Take
  <1>. QED
    BY <1>1 DEF Sent, RequestsDiffer

\* The provider answers under the claim of the request, and a dispatch that
\* hears of a plain failure hears it of the request that is gone.
LEMMA ProviderClaims ==
    ASSUME TypeInv, RequestsDiffer, NEW r \in inflight, Accept(r) \/ Decline(r)
    PROVE  \A d \in Dispatchers : KeptClaim(d) /\ KeptUnsent(d)
  <1>1. dispatch \in [Dispatchers -> Dispatch]
    BY DEF TypeInv, TypeOK
  <1>2. ASSUME UNCHANGED dispatch
        PROVE  \A d \in Dispatchers : KeptClaim(d) /\ KeptUnsent(d)
    BY <1>2 DEF KeptClaim, KeptUnsent, Live, Unsent
  <1>3. ASSUME NEW e \in Dispatchers, Waits(e, r), NEW x,
               dispatch' = [dispatch EXCEPT ![e] = x],
               x.msg = dispatch[e].msg, x.token = dispatch[e].token,
               x.step = "succeeded" \/ (x.step = "failed" /\ Decline(r))
        PROVE  \A d \in Dispatchers : KeptClaim(d) /\ KeptUnsent(d)
    <2>1. dispatch'[e] = x
      BY <1>1, <1>3
    <2>2. \A d \in Dispatchers \ {e} : dispatch'[d] = dispatch[d]
      BY <1>1, <1>3
    <2>3. KeptClaim(e)
      BY <1>3, <2>1 DEF KeptClaim, Live, Waits
    <2>4. KeptUnsent(e)
      <3>1. CASE x.step = "succeeded"
        BY <2>1, <3>1 DEF KeptUnsent, Unsent
      <3>2. CASE Decline(r)
        <4>1. ~Sent(r.msg, r.token)'
          BY <3>2, DeclinedIsNotSent
        <4>2. dispatch'[e].msg = r.msg /\ dispatch'[e].token = r.token
          BY <1>3, <2>1 DEF Waits
        <4>. QED
          BY <4>1, <4>2 DEF KeptUnsent, Sent
      <3>. QED
        BY <1>3, <3>1, <3>2
    <2>5. ASSUME NEW d \in Dispatchers \ {e}
          PROVE  KeptClaim(d) /\ KeptUnsent(d)
      BY <2>2, <2>5 DEF KeptClaim, KeptUnsent, Live, Unsent
    <2>. QED
      BY <2>3, <2>4, <2>5
  <1>4. ASSUME NEW e \in Dispatchers, Waits(e, r), Go(e, "succeeded")
        PROVE  \A d \in Dispatchers : KeptClaim(d) /\ KeptUnsent(d)
    <2>. DEFINE x == [dispatch[e] EXCEPT !.step = "succeeded"]
    <2>1. dispatch' = [dispatch EXCEPT ![e] = x]
      BY <1>1, <1>4 DEF Go
    <2>2. /\ x.step = "succeeded" /\ x.msg = dispatch[e].msg
          /\ x.token = dispatch[e].token
      BY <1>1 DEF Dispatch
    <2>. HIDE DEF x
    <2>. QED
      BY <1>3, <1>4, <2>1, <2>2
  <1>5. ASSUME NEW e \in Dispatchers, Waits(e, r), NEW f, Fail(e, f), Decline(r)
        PROVE  \A d \in Dispatchers : KeptClaim(d) /\ KeptUnsent(d)
    <2>. DEFINE x == [dispatch[e] EXCEPT !.step = "failed", !.failure = f]
    <2>1. dispatch' = [dispatch EXCEPT ![e] = x]
      BY <1>1, <1>5 DEF Fail
    <2>2. /\ x.step = "failed" /\ x.msg = dispatch[e].msg
          /\ x.token = dispatch[e].token
      BY <1>1 DEF Dispatch
    <2>. HIDE DEF x
    <2>. QED
      BY <1>3, <1>5, <2>1, <2>2
  <1>. QED
    BY <1>2, <1>4, <1>5 DEF Accept, Decline

\* A claim draws a token of which nothing was sent and which nobody else has.
LEMMA ClaimOutcome ==
    ASSUME TypeInv, TypeInv', CancelInv, OutcomeInv,
           NEW e \in Dispatchers, NEW n \in Messages, Claim(e, n)
    PROVE  ClaimsDiffer' /\ NothingSent'
  <1>. /\ outbox \in [Messages -> Row] /\ outbox[n].attempts \in Nat
       /\ dispatch \in [Dispatchers -> Dispatch]
       /\ inflight \subseteq Request /\ accepted \in [Messages -> SUBSET Delivery]
    BY DEF TypeInv, TypeOK, Row
  <1>1. ClaimedRow(outbox[n]).token = outbox[n].attempts + 1
    BY DEF ClaimedRow, Row
  <1>2. /\ dispatch'[e].step = "claimed" /\ dispatch'[e].msg = n
        /\ dispatch'[e].token = outbox[n].attempts + 1
        /\ \A d \in Dispatchers \ {e} : dispatch'[d] = dispatch[d]
    BY <1>1 DEF Claim, Idle
  <1>3. UNCHANGED <<inflight, accepted>>
    BY DEF Claim
  <1>4. ASSUME NEW d \in Dispatchers \ {e}, Live(d)', dispatch'[d].msg = n
        PROVE  dispatch'[d].token # outbox[n].attempts + 1
    <2>1. dispatch[d].token <= outbox[n].attempts
      BY <1>2, <1>4 DEF CancelInv, Uncancelled, Live
    <2>2. dispatch[d].token \in Nat
      BY DEF Dispatch
    <2>. QED
      BY <1>2, <2>1, <2>2
  <1>5. ClaimsDiffer'
    <2>. SUFFICES ASSUME NEW d \in Dispatchers, NEW f \in Dispatchers, d # f,
                         Live(d)', Live(f)', dispatch'[d].msg = dispatch'[f].msg
                  PROVE  dispatch'[d].token # dispatch'[f].token
      BY DEF ClaimsDiffer
    <2>1. CASE d = e \/ f = e
      BY <1>2, <1>4, <2>1
    <2>2. CASE d # e /\ f # e
      BY <1>2, <2>2 DEF OutcomeInv, ClaimsDiffer, Live
    <2>. QED
      BY <2>1, <2>2
  <1>6. NothingSent'
    <2>. SUFFICES ASSUME NEW d \in Dispatchers, Unsent(d)'
                  PROVE  ~Sent(dispatch[d].msg, dispatch[d].token)'
      BY DEF NothingSent
    <2>1. CASE d = e
      <3>1. ASSUME NEW r \in inflight, r.msg = n
            PROVE  r.token # outbox[n].attempts + 1
        BY <3>1 DEF OutcomeInv, TokensAreDrawn, Request
      <3>2. ASSUME NEW a \in accepted[n]
            PROVE  a.token # outbox[n].attempts + 1
        <4>1. a.token <= outbox[n].attempts /\ a.token \in Nat
          BY <3>2 DEF OutcomeInv, TokensAreDrawn, Delivery
        <4>. QED
          BY <4>1
      <3>. QED
        BY <1>2, <1>3, <2>1, <3>1, <3>2 DEF Sent
    <2>2. CASE d # e
      BY <1>2, <1>3, <2>2 DEF OutcomeInv, NothingSent, Unsent, Sent
    <2>. QED
      BY <2>1, <2>2
  <1>. QED
    BY <1>5, <1>6

\* The claims of the dispatches after any other step.
LEMMA KeptClaims ==
    ASSUME TypeInv, OutcomeInv, \A d \in Dispatchers : KeptClaim(d)
    PROVE  ClaimsDiffer'
  <1>. SUFFICES ASSUME NEW d \in Dispatchers, NEW e \in Dispatchers, d # e,
                       Live(d)', Live(e)', dispatch'[d].msg = dispatch'[e].msg
                PROVE  dispatch'[d].token # dispatch'[e].token
    BY DEF ClaimsDiffer
  <1>. QED
    BY DEF OutcomeInv, ClaimsDiffer, KeptClaim

\* What dispatches say they have not sent, after a step other than a claim.
LEMMA KeptNothingSent ==
    ASSUME TypeInv, OutcomeInv, [Next]_vars,
           \A d \in Dispatchers : KeptClaim(d) /\ KeptUnsent(d)
    PROVE  NothingSent'
  <1>. SUFFICES ASSUME NEW d \in Dispatchers, Unsent(d)',
                       Sent(dispatch[d].msg, dispatch[d].token)'
                PROVE  FALSE
    BY DEF NothingSent
  <1>. DEFINE m == dispatch[d].msg
              t == dispatch[d].token
  <1>1. Live(d) /\ dispatch'[d].msg = m /\ dispatch'[d].token = t
    BY DEF KeptClaim, Unsent, Live
  <1>2. Unsent(d) /\ m \in Messages
    BY <1>1 DEF KeptUnsent, Live, TypeInv, TypeOK, Dispatch
  <1>3. ~Sent(m, t)
    BY <1>2 DEF OutcomeInv, NothingSent
  <1>4. PICK m0 \in Messages, t0 \in Nat : m0 = m /\ t0 = t
    BY <1>2 DEF TypeInv, TypeOK, Dispatch
  <1>5. Sent(m0, t0)' /\ ~Sent(m0, t0)
    BY <1>1, <1>3, <1>4 DEF Sent
  <1>6. PICK e \in Dispatchers : /\ StartAttempt(e)
                                 /\ dispatch[e].msg = m
                                 /\ dispatch[e].token = t
    BY <1>4, <1>5, SentSteps
  <1>7. Live(e)
    BY <1>6 DEF StartAttempt, Live
  <1>8. d = e
    BY <1>1, <1>6, <1>7 DEF OutcomeInv, ClaimsDiffer
  <1>. QED
    BY <1>6, <1>8, StartedClaim

\* Claims stay apart, and who has sent nothing has sent nothing.
LEMMA NextClaims ==
    ASSUME TypeInv, TypeInv', CancelInv, OutcomeInv, [Next]_vars
    PROVE  ClaimsDiffer' /\ NothingSent'
  <1>1. ASSUME \A d \in Dispatchers : KeptClaim(d) /\ (Unsent(d)' => Unsent(d))
        PROVE  ClaimsDiffer' /\ NothingSent'
    BY <1>1, KeptClaims, KeptNothingSent DEF KeptUnsent
  <1>2. ASSUME UNCHANGED dispatch
        PROVE  ClaimsDiffer' /\ NothingSent'
    BY <1>1, <1>2 DEF KeptClaim, Live, Unsent
  <1>3. ASSUME NEW m \in Messages,
               \/ Enqueue(m) \/ SourceLapses(m)
               \/ CancelSource(m) \/ ManualRetry(m)
        PROVE  ClaimsDiffer' /\ NothingSent'
    BY <1>2, <1>3, BusinessKeeps
  <1>4. ASSUME NEW e \in Dispatchers, DispatchStep(e) \/ Abandon(e)
        PROVE  ClaimsDiffer' /\ NothingSent'
    <2>1. CASE \E n \in Messages : Claim(e, n)
      BY <2>1, ClaimOutcome
    <2>2. ASSUME ~\E n \in Messages : Claim(e, n)
          PROVE  \A d \in Dispatchers : KeptClaim(d) /\ (Unsent(d)' => Unsent(d))
      BY <1>4, <2>2, WorkerClaims DEF DispatchStep
    <2>. QED
      BY <1>1, <2>1, <2>2
  <1>5. ASSUME NEW r \in inflight, Accept(r) \/ Decline(r)
        PROVE  ClaimsDiffer' /\ NothingSent'
    <2>1. RequestsDiffer
      BY DEF OutcomeInv
    <2>2. \A d \in Dispatchers : KeptClaim(d) /\ KeptUnsent(d)
      BY <1>5, <2>1, ProviderClaims
    <2>. QED
      BY <2>2, KeptClaims, KeptNothingSent
  <1>6. CASE Tick \/ UNCHANGED vars
    BY <1>2, <1>6 DEF Tick, vars
  <1>. QED
    BY <1>3, <1>4, <1>5, <1>6 DEF Next

\* Requests and deliveries keep tokens of their own: a request goes out under a
\* claim that nothing was sent of, and a delivery takes its request's place.
LEMMA NextRequests ==
    ASSUME TypeInv, OutcomeInv, [Next]_vars PROVE RequestsDiffer'
  <1>. /\ inflight \subseteq Request /\ accepted \in [Messages -> SUBSET Delivery]
       /\ dispatch \in [Dispatchers -> Dispatch]
    BY DEF TypeInv, TypeOK
  <1>1. RequestsDiffer
    BY DEF OutcomeInv
  <1>2. ASSUME NEW d \in Dispatchers, StartAttempt(d)
        PROVE  RequestsDiffer'
    <2>. DEFINE m == dispatch[d].msg
                request == [msg |-> m, token |-> dispatch[d].token,
                            payload |-> dispatch[d].payload, at |-> now]
    <2>1. inflight' = inflight \cup {request} /\ accepted' = accepted
      BY <1>2 DEF StartAttempt
    <2>2. ~Sent(m, dispatch[d].token)
      BY <1>2 DEF OutcomeInv, NothingSent, Unsent, StartAttempt
    <2>3. request.msg = m /\ request.token = dispatch[d].token
      OBVIOUS
    <2>. HIDE DEF request
    <2>. QED
      BY <1>1, <2>1, <2>2, <2>3 DEF RequestsDiffer, Sent
  <1>3. ASSUME NEW r \in inflight, Accept(r)
        PROVE  RequestsDiffer'
    <2>. DEFINE new == [token |-> r.token, payload |-> r.payload, at |-> now]
    <2>1. /\ inflight' = inflight \ {r}
          /\ accepted' = [accepted EXCEPT ![r.msg] = @ \cup {new}]
      BY <1>3 DEF Accept, Take
    <2>2. new.token = r.token /\ r.msg \in Messages
      BY DEF Request
    <2>. HIDE DEF new
    <2>3. /\ accepted'[r.msg] = accepted[r.msg] \cup {new}
          /\ \A m \in Messages \ {r.msg} : accepted'[m] = accepted[m]
      BY <2>1, <2>2
    <2>4. ASSUME NEW s \in inflight', NEW a \in accepted'[s.msg]
          PROVE  a.token # s.token
      <3>1. s \in inflight /\ s # r /\ s.msg \in Messages
        BY <2>1, <2>4 DEF Request
      <3>2. CASE a \in accepted[s.msg]
        BY <1>1, <3>1, <3>2 DEF RequestsDiffer
      <3>3. CASE a \notin accepted[s.msg]
        <4>1. s.msg = r.msg /\ a = new
          BY <2>3, <2>4, <3>1, <3>3
        <4>. QED
          BY <1>1, <2>2, <3>1, <4>1 DEF RequestsDiffer
      <3>. QED
        BY <3>2, <3>3
    <2>. QED
      BY <1>1, <2>1, <2>4 DEF RequestsDiffer
  <1>4. CASE inflight' \subseteq inflight /\ accepted' = accepted
    BY <1>1, <1>4 DEF RequestsDiffer
  <1>. QED
    BY <1>2, <1>3, <1>4, NetworkSteps

\* No request or delivery has a token that its row has still to draw.
LEMMA NextDrawn ==
    ASSUME TypeInv, TypeInv', CancelInv, OutcomeInv, [Next]_vars
    PROVE  TokensAreDrawn'
  <1>. /\ inflight \subseteq Request /\ accepted \in [Messages -> SUBSET Delivery]
       /\ dispatch \in [Dispatchers -> Dispatch]
    BY DEF TypeInv, TypeOK
  <1>1. \A m \in Messages : /\ outbox[m].attempts \in Nat
                           /\ outbox'[m].attempts \in Nat
                           /\ outbox[m].attempts <= outbox'[m].attempts
    BY NextRow, AttemptsGrow DEF TypeInv, TypeOK, Row
  <1>2. ASSUME NEW m \in Messages, NEW t \in Nat, t <= outbox[m].attempts
        PROVE  t <= outbox'[m].attempts
    BY <1>1, <1>2
  <1>3. ASSUME NEW r \in inflight'
        PROVE  r.token <= outbox'[r.msg].attempts
    <2>1. CASE r \in inflight
      <3>1. r.msg \in Messages /\ r.token \in Nat
        BY <2>1 DEF Request
      <3>. QED
        BY <1>2, <2>1, <3>1 DEF OutcomeInv, TokensAreDrawn
    <2>2. CASE r \notin inflight
      <3>1. PICK d \in Dispatchers : StartAttempt(d)
        BY <1>3, <2>2, NetworkSteps
      <3>2. /\ r.msg = dispatch[d].msg /\ r.token = dispatch[d].token
            /\ dispatch[d].step = "rendered"
        BY <1>3, <2>2, <3>1 DEF StartAttempt
      <3>3. r.msg \in Messages /\ r.token \in Nat
        BY <3>2 DEF Dispatch
      <3>4. r.token <= outbox[r.msg].attempts
        BY <3>2 DEF CancelInv, Uncancelled
      <3>. QED
        BY <1>2, <3>3, <3>4
    <2>. QED
      BY <2>1, <2>2
  <1>4. ASSUME NEW m \in Messages, NEW a \in accepted'[m]
        PROVE  a.token <= outbox'[m].attempts
    <2>1. CASE a \in accepted[m]
      <3>1. a.token \in Nat
        BY <2>1 DEF Delivery
      <3>. QED
        BY <1>2, <2>1, <3>1 DEF OutcomeInv, TokensAreDrawn
    <2>2. CASE a \notin accepted[m]
      <3>1. PICK r \in inflight : Accept(r)
        BY <1>4, <2>2, NetworkSteps
      <3>2. m = r.msg /\ a.token = r.token
        BY <1>4, <2>2, <3>1 DEF Accept
      <3>3. r.token \in Nat
        BY DEF Request
      <3>. QED
        BY <1>2, <3>2, <3>3 DEF OutcomeInv, TokensAreDrawn
    <2>. QED
      BY <2>1, <2>2
  <1>. QED
    BY <1>3, <1>4 DEF TokensAreDrawn

\* A row comes to deny its last attempt only by the failure that its own
\* dispatch records: a cancellation of a row in process leaves it uncertain.
LEMMA DeniedRow ==
    ASSUME TypeInv, [Next]_vars, NEW m \in Messages,
           outbox'[m].status \in Denying, ~outbox'[m].uncertain,
           outbox'[m] # outbox[m]
    PROVE  \E d \in Dispatchers :
              /\ RecordFailure(d) /\ Holds(d) /\ dispatch[d].msg = m
              /\ ~dispatch[d].failure.uncertain
              /\ outbox'[m].attempts = outbox[m].attempts
  <1>. DEFINE Goal ==
         \E d \in Dispatchers :
              /\ RecordFailure(d) /\ Holds(d) /\ dispatch[d].msg = m
              /\ ~dispatch[d].failure.uncertain
              /\ outbox'[m].attempts = outbox[m].attempts
  <1>. SUFFICES Goal
    OBVIOUS
  <1>. HIDE DEF Goal
  <1>. /\ outbox \in [Messages -> Row] /\ outbox[m] \in Row
       /\ outbox # outbox'
    BY DEF TypeInv, TypeOK
  <1>1. ASSUME NEW n, NEW row, SetRow(n, row)
        PROVE  n = m /\ row.status \in Denying /\ ~row.uncertain /\ row # outbox[m]
    BY <1>1 DEF SetRow
  <1>2. ASSUME NEW n \in Messages,
               \/ Enqueue(n) \/ SourceLapses(n)
               \/ CancelSource(n) \/ ManualRetry(n)
        PROVE  Goal
    <2>1. CASE Enqueue(n)
      <3>1. NewRow(n).status = "queued"
        BY DEF NewRow
      <3>. QED
        BY <1>1, <2>1, <3>1 DEF Enqueue, Denying
    <2>2. CASE ManualRetry(n)
      <3>1. RetriedRow(outbox[m]).status = "queued"
        BY DEF RetriedRow, Row
      <3>. QED
        BY <1>1, <2>2, <3>1 DEF ManualRetry, Denying
    <2>3. CASE CancelSource(n)
      <3>1. SetRow(n, CancelledRow(outbox[n]))
        BY <2>3 DEF CancelSource
      <3>2. CancelledRow(outbox[m]).uncertain
            \/ CancelledRow(outbox[m]).status = "cancelled"
            \/ CancelledRow(outbox[m]) = outbox[m]
        BY DEF CancelledRow, Row
      <3>. QED
        BY <1>1, <3>1, <3>2 DEF Denying
    <2>. QED
      BY <1>2, <2>1, <2>2, <2>3 DEF SourceLapses
  <1>3. ASSUME NEW d \in Dispatchers, DispatchStep(d) \/ Abandon(d)
        PROVE  Goal
    <2>1. CASE \E n \in Messages : Claim(d, n)
      <3>1. ClaimedRow(outbox[m]).status = "processing"
        BY DEF ClaimedRow, Row
      <3>. QED
        BY <1>1, <2>1, <3>1 DEF Claim, Denying
    <2>2. CASE StartAttempt(d)
      <3>. DEFINE row == PreparedRow(outbox[m], dispatch[d].payload)
      <3>1. outbox[dispatch[d].msg].status = "processing"
        BY <2>2 DEF StartAttempt, Refusals, Holds
      <3>2. row.status = outbox[m].status
        BY DEF PreparedRow, Row
      <3>3. SetRow(dispatch[d].msg,
                   PreparedRow(outbox[dispatch[d].msg], dispatch[d].payload))
        BY <2>2 DEF StartAttempt
      <3>4. dispatch[d].msg = m /\ row.status \in Denying
        BY <1>1, <3>3
      <3>. QED
        BY <3>1, <3>2, <3>4 DEF Denying
    <2>3. CASE RecordSuccess(d) \/ RecordCancelled(d) \/ RecordFailure(d)
      <3>. DEFINE n == dispatch[d].msg
      <3>1. Holds(d) /\ n \in Messages
        BY <2>3, HeldRow DEF RecordSuccess, RecordCancelled, RecordFailure
      <3>2. CASE RecordSuccess(d) \/ RecordCancelled(d)
        <4>1. PICK status \in {"recorded", "accepted", "cancelled"} :
                 Release(n, outbox[n], status, FALSE)
          BY <3>2 DEF RecordSuccess, RecordCancelled
        <4>2. [outbox[n] EXCEPT !.status = status, !.uncertain = FALSE,
                 !.token = NoToken, !.lockExpires = NoTime].status = status
          BY <3>1 DEF Row
        <4>. QED
          BY <1>1, <4>1, <4>2 DEF Release, Denying
      <3>3. CASE RecordFailure(d)
        <4>1. RecordedRow(m) /\ m = n
          BY <3>3, RecordRow DEF SameRow
        <4>2. PICK row \in Row, status \in Statuses :
                 Release(n, row, status, dispatch[d].failure.uncertain)
          <5>. DEFINE f == dispatch[d].failure
                      nextAt == IF ShouldRetry(outbox[n], f)
                                  THEN NextAttempt(outbox[n], f)
                                  ELSE outbox[n].nextAt
                      row == [outbox[n] EXCEPT !.nextAt = nextAt]
          <5>1. f \in Failures /\ outbox[n] \in Row /\ outbox[n].attempts # 0
            BY <3>1, HeldRow DEF Dispatch
          <5>2. nextAt \in Nat /\ FailedStatus(outbox[n], f) \in Statuses
            BY <5>1, FailedRowTypes DEF TypeInv, Row
          <5>3. row \in Row
            BY <5>1, <5>2 DEF Row
          <5>4. Release(n, row, FailedStatus(outbox[n], f), f.uncertain)
            BY <3>3 DEF RecordFailure
          <5>. HIDE DEF row
          <5>. QED
            BY <5>2, <5>3, <5>4
        <4>3. [row EXCEPT !.status = status,
                 !.uncertain = dispatch[d].failure.uncertain,
                 !.token = NoToken, !.lockExpires = NoTime].uncertain
              = dispatch[d].failure.uncertain
          BY DEF Row
        <4>4. ~dispatch[d].failure.uncertain
          BY <1>1, <4>2, <4>3 DEF Release
        <4>. QED
          BY <3>1, <3>3, <4>1, <4>4 DEF RecordedRow, Goal
      <3>. QED
        BY <2>3, <3>2, <3>3
    <2>. QED
      BY <1>3, <2>1, <2>2, <2>3
      DEF DispatchStep, Abandon, Fenced, Expire, RenderCancelled, Render,
          Misconfigured, RefuseAttempt, Interrupted, Notify, Resolve
  <1>. QED
    BY <1>2, <1>3 DEF Next, Accept, Decline, Tick, vars

\* A row under way was claimed by its last attempt.
LEMMA NextTokens ==
    ASSUME TypeInv, OutcomeInv, [Next]_vars PROVE TokensAreAttempts'
  <1>. SUFFICES ASSUME NEW m \in Messages, outbox'[m].status = "processing"
                PROVE  outbox'[m].token = outbox'[m].attempts
    BY DEF TokensAreAttempts
  <1>1. RowStep(m)
    BY NextRow
  <1>2. outbox[m].status = "processing" => outbox[m].token = outbox[m].attempts
    BY DEF OutcomeInv, TokensAreAttempts
  <1>. QED
    BY <1>1, <1>2
    DEF RowStep, SameRow, EnqueuedRow, WithdrawnRow, ReopenedRow, TakenRow,
        AttemptedRow, RecordedRow, Waiting, Settled

\* A row that denies its last attempt is right to.
LEMMA NextRows ==
    ASSUME TypeInv, TypeInv', OutcomeInv, [Next]_vars PROVE RowsAreRight'
  <1>. SUFFICES ASSUME NEW m \in Messages, outbox'[m].status \in Denying,
                       ~outbox'[m].uncertain,
                       NEW t, t = outbox'[m].attempts, Sent(m, t)'
                PROVE  FALSE
    BY DEF RowsAreRight, Sent
  <1>1. ~Sent(m, t) /\ t = outbox[m].attempts
    <2>1. CASE outbox'[m] = outbox[m]
      BY <2>1 DEF OutcomeInv, RowsAreRight
    <2>2. CASE outbox'[m] # outbox[m]
      <3>1. PICK d \in Dispatchers :
              /\ RecordFailure(d) /\ Holds(d) /\ dispatch[d].msg = m
              /\ ~dispatch[d].failure.uncertain
              /\ outbox'[m].attempts = outbox[m].attempts
        BY <2>2, DeniedRow
      <3>2. dispatch[d].token = t
        BY <3>1 DEF Holds, OutcomeInv, TokensAreAttempts
      <3>3. Unsent(d)
        BY <3>1 DEF RecordFailure, Unsent
      <3>. QED
        BY <3>1, <3>2, <3>3 DEF OutcomeInv, NothingSent
    <2>. QED
      BY <2>1, <2>2
  <1>2. PICK e \in Dispatchers : StartAttempt(e) /\ dispatch[e].msg = m
    BY <1>1, SentSteps
  <1>3. outbox[m].status = "processing"
    BY <1>2 DEF StartAttempt, Refusals, Holds
  <1>4. PreparedRow(outbox[m], dispatch[e].payload).status = "processing"
    BY <1>3 DEF PreparedRow, TypeInv, TypeOK, Row
  <1>5. outbox'[m].status = "processing"
    BY <1>2, <1>4 DEF StartAttempt, SetRow, TypeInv, TypeOK
  <1>. QED
    BY <1>5 DEF Denying

\* A row that failed, or waits for a retry, and is sure of the outcome of its
\* last attempt was not delivered by that attempt: however late the provider's
\* answer, whoever recorded the failure had heard that nothing was accepted, or
\* had sent nothing, and nothing travels that could still be accepted.
THEOREM OutcomeIsNotDenied == Spec => []LastOutcomeNotDenied
  <1>1. Init => CancelInv /\ OutcomeInv
    <2>. SUFFICES ASSUME Init PROVE CancelInv /\ OutcomeInv
      OBVIOUS
    <2>1. \A m \in Messages :
            outbox[m].attempts = 0 /\ outbox[m].status = "absent"
      <3>. SUFFICES ASSUME NEW m \in Messages
                    PROVE  outbox[m].attempts = 0 /\ outbox[m].status = "absent"
        OBVIOUS
      <3>1. /\ [NewRow(m) EXCEPT !.status = "absent"].attempts = 0
            /\ [NewRow(m) EXCEPT !.status = "absent"].status = "absent"
        BY DEF NewRow
      <3>. QED
        BY <3>1 DEF Init
    <2>2. CancelInv
      BY <2>1 DEF Init, CancelInv, Uncancelled, Idle
    <2>3. \A d \in Dispatchers : ~Live(d) /\ ~Unsent(d)
      BY DEF Init, Live, Unsent, Idle
    <2>4. inflight = {} /\ \A m \in Messages : accepted[m] = {}
      BY DEF Init
    <2>. QED
      BY <2>1, <2>2, <2>3, <2>4
      DEF OutcomeInv, TokensAreAttempts, ClaimsDiffer, NothingSent,
          RequestsDiffer, TokensAreDrawn, RowsAreRight, Denying
  <1>2. TypeInv /\ TypeInv' /\ CancelInv /\ OutcomeInv /\ [Next]_vars =>
          CancelInv' /\ OutcomeInv'
    <2>. SUFFICES ASSUME TypeInv, TypeInv', CancelInv, OutcomeInv, [Next]_vars
                  PROVE  CancelInv' /\ OutcomeInv'
      OBVIOUS
    <2>. QED
      BY NextCancel, NextTokens, NextClaims, NextRequests, NextDrawn, NextRows
      DEF OutcomeInv
  <1>3. OutcomeInv => LastOutcomeNotDenied
    BY DEF OutcomeInv, RowsAreRight, LastOutcomeNotDenied, Denying, Sent
  <1>. QED
    BY <1>1, <1>2, <1>3, AlwaysTypeInv, PTL DEF Spec
=============================================================================
