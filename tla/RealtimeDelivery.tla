-------------------------- MODULE RealtimeDelivery --------------------------
(***************************************************************************)
(* How pages stay current: the realtime outbox of backend-tanaw            *)
(* (app/features/realtime and the trigger of alembic 0001) and the client  *)
(* of the web portal (src/shared/realtime).                                *)
(*                                                                         *)
(* A transaction that changes data also inserts an outbox row; the row     *)
(* takes its sequence number when it is inserted, not when the transaction *)
(* commits.  Every backend process claims committed rows and notifies all  *)
(* processes through PostgreSQL; each passes the event to the websockets   *)
(* it holds.  A page that hears of an event fetches the data again, and    *)
(* one that may have missed events fetches everything it knows it shows.   *)
(*                                                                         *)
(* A topic stands for the data whose events share one ordering key, and    *)
(* its version counts the changes committed to it.  Who may see which      *)
(* event is not modelled: every page may see every topic.                  *)
(***************************************************************************)
EXTENDS Integers, Sequences, FiniteSets, Selection

CONSTANTS
    Topics,
    Shared,     \* topics of several records, which transactions change at once
    Coalesced,  \* topics that have at most one unpublished row
    Refreshed,  \* topics that resynchronizeActiveRealtimeQueries fetches
    Processes,  \* backend processes
    Clients,    \* pages
    BatchSize,  \* REALTIME_OUTBOX_BATCH_SIZE
    QueueSize,  \* notifications that wait in a process
    InboxSize,  \* messages that wait for one websocket
    MaxRows,    \* bound: rows of the outbox, and changes of a topic
    MaxFaults   \* bound: failures of connections, processes and statements

ASSUME TopicsAssumption ==
    /\ Shared \subseteq Topics /\ Coalesced \subseteq Topics
    /\ Refreshed \subseteq Topics /\ Shared \cap Coalesced = {}

ASSUME SizesAssumption ==
    /\ BatchSize \in Nat \ {0} /\ QueueSize \in Nat \ {0}
    /\ InboxSize \in Nat \ {0} /\ MaxRows \in Nat /\ MaxFaults \in Nat

VARIABLES
    rows,      \* realtime_outbox; the sequence number of a row is its place
    version,   \* [Topics -> Nat]
    claimed,   \* [Processes -> the rows that its outbox loop has locked]
    listening, \* [Processes -> whether its subscriber is connected]
    queue,     \* [Processes -> _notification_queue, of sequence numbers]
    resync,    \* [Processes -> whether require_resynchronization is to run]
    at,        \* [Clients -> the process its websocket is connected to]
    inbox,     \* [Clients -> messages that wait for or travel to the page]
    latest,    \* [Clients -> latestSequenceByEntity]
    asked,     \* [Clients -> topics with a request the backend has not read]
    answers,   \* [Clients -> <<topic, version>> for answers on their way]
    seen,      \* [Clients -> [Topics -> the version that the page shows]]
    faults

outbox == <<rows, version>>
broker == <<claimed, listening, queue, resync>>
socket == <<at, inbox>>
page == <<latest, asked, answers, seen>>
vars == <<outbox, broker, socket, page, faults>>

-----------------------------------------------------------------------------
\* "aborted" is the gap that a rolled back transaction leaves.
States == {"inserting", "pending", "updating", "published", "aborted"}
Row == [topic: Topics, state: States]

\* The message realtime.ready or realtime.resync_required: both make the page
\* fetch everything.  The other messages are sequence numbers of events.
Refresh == 0
Offline == "offline"

TypeOK ==
    /\ rows \in Seq(Row) /\ Len(rows) <= MaxRows
    /\ version \in [Topics -> Nat]
    /\ claimed \in [Processes -> SUBSET DOMAIN rows]
    /\ listening \in [Processes -> BOOLEAN]
    /\ queue \in [Processes -> Seq(DOMAIN rows)]
    /\ \A p \in Processes : Len(queue[p]) <= QueueSize
    /\ resync \in [Processes -> BOOLEAN]
    /\ at \in [Clients -> Processes \cup {Offline}]
    /\ inbox \in [Clients -> Seq({Refresh} \cup DOMAIN rows)]
    /\ \A c \in Clients : Len(inbox[c]) <= InboxSize
    /\ latest \in [Clients -> [Topics -> Nat]]
    /\ asked \in [Clients -> SUBSET Topics]
    /\ answers \in [Clients -> SUBSET (Topics \X Nat)]
    /\ seen \in [Clients -> [Topics -> Nat]]
    /\ faults \in 0 .. MaxFaults

Init ==
    /\ rows = <<>>
    /\ version = [t \in Topics |-> 0]
    /\ claimed = [p \in Processes |-> {}]
    /\ listening = [p \in Processes |-> TRUE]
    /\ queue = [p \in Processes |-> <<>>]
    /\ resync = [p \in Processes |-> FALSE]
    /\ at = [c \in Clients |-> Offline]
    /\ inbox = [c \in Clients |-> <<>>]
    /\ latest = [c \in Clients |-> [t \in Topics |-> 0]]
    /\ asked = [c \in Clients |-> {}]
    /\ answers = [c \in Clients |-> {}]
    /\ seen = [c \in Clients |-> [t \in Topics |-> 0]]
    /\ faults = 0

Fault == faults < MaxFaults /\ faults' = faults + 1

-----------------------------------------------------------------------------
(* Transactions that change data: tanaw_capture_realtime_event.            *)

RowsOf(t, S) == {r \in DOMAIN rows : rows[r].topic = t /\ rows[r].state \in S}
Locked == UNION {claimed[p] : p \in Processes}
SetState(R, state) ==
    rows' = [r \in DOMAIN rows |->
               IF r \in R THEN [rows[r] EXCEPT !.state = state] ELSE rows[r]]

\* The trigger runs while the changed record is locked, so that the rows of a
\* topic with a single record are inserted one transaction after the other.
Insert(t) ==
    /\ t \notin Shared => RowsOf(t, {"inserting", "updating"}) = {}
    /\ t \in Coalesced => RowsOf(t, {"pending"}) = {}
    /\ Len(rows) < MaxRows
    /\ rows' = Append(rows, [topic |-> t, state |-> "inserting"])
    /\ UNCHANGED <<version, broker, socket, page, faults>>

\* ON CONFLICT (coalesce_key) DO UPDATE waits for the row if it is locked.
Coalesce(r) ==
    /\ rows[r].topic \in Coalesced
    /\ rows[r].state = "pending"
    /\ r \notin Locked
    /\ version[rows[r].topic] < MaxRows
    /\ SetState({r}, "updating")
    /\ UNCHANGED <<version, broker, socket, page, faults>>

Commit(r) ==
    /\ rows[r].state \in {"inserting", "updating"}
    /\ SetState({r}, "pending")
    /\ version' = [version EXCEPT ![rows[r].topic] = @ + 1]
    /\ UNCHANGED <<broker, socket, page, faults>>

Rollback(r) ==
    /\ Fault
    /\ \/ rows[r].state = "inserting" /\ SetState({r}, "aborted")
       \/ rows[r].state = "updating" /\ SetState({r}, "pending")
    /\ UNCHANGED <<version, broker, socket, page>>

-----------------------------------------------------------------------------
(* The outbox loop of a process: dispatch_batch.                           *)

\* The first n numbers of a set.
First(R, n) == {r \in R : Cardinality({q \in R : q <= r}) <= n}

\* SELECT ... ORDER BY sequence LIMIT n FOR UPDATE SKIP LOCKED.
Claim(p) ==
    LET pending == {r \in DOMAIN rows \ Locked : rows[r].state = "pending"}
    IN  /\ claimed[p] = {}
        /\ pending # {}
        /\ claimed' = [claimed EXCEPT ![p] = First(pending, BatchSize)]
        /\ UNCHANGED <<outbox, listening, queue, resync, socket, page, faults>>

\* Mutant: the queue takes any number of notifications.
Unbounded(q, s) == FALSE

\* QueueFull makes the process ask all its pages to fetch everything.
Overflow(q, s) == listening[q] /\ Len(queue[q] \o s) > QueueSize

\* PostgreSQL delivers the notifications when the transaction that marks the
\* rows as published commits, to the processes that listen at that time.
Publish(p) ==
    LET events == InOrder(claimed[p])
    IN  /\ claimed[p] # {}
        /\ SetState(claimed[p], "published")
        /\ claimed' = [claimed EXCEPT ![p] = {}]
        /\ queue' = [q \in Processes |->
                       CASE Overflow(q, events) ->
                              SubSeq(queue[q] \o events, 1, QueueSize)
                         [] listening[q] /\ ~Overflow(q, events) ->
                              queue[q] \o events
                         [] OTHER -> queue[q]]
        /\ resync' = [q \in Processes |-> resync[q] \/ Overflow(q, events)]
        /\ UNCHANGED <<version, listening, socket, page, faults>>

\* The batch fails and its transaction is rolled back.
FailBatch(p) ==
    /\ Fault
    /\ claimed[p] # {}
    /\ claimed' = [claimed EXCEPT ![p] = {}]
    /\ UNCHANGED <<outbox, listening, queue, resync, socket, page>>

-----------------------------------------------------------------------------
(* The subscriber loop of a process and its websockets.                    *)

\* Each message goes to the queue of every page, or the page is disconnected
\* because its queue is full.
Put(m, C) ==
    LET slow == {c \in C : Len(inbox[c]) >= InboxSize}
    IN  /\ inbox' = [c \in Clients |->
                       CASE c \in slow -> <<>>
                         [] c \in C \ slow -> Append(inbox[c], m)
                         [] OTHER -> inbox[c]]
        /\ at' = [c \in Clients |-> IF c \in slow THEN Offline ELSE at[c]]

At(p) == {c \in Clients : at[c] = p}

\* _consume_notifications and _dispatch_event.
Dispatch(p) ==
    /\ listening[p] /\ queue[p] # <<>>
    /\ Put(Head(queue[p]), At(p))
    /\ queue' = [queue EXCEPT ![p] = Tail(@)]
    /\ UNCHANGED <<outbox, claimed, listening, resync, page, faults>>

\* The row cannot be read: the event is gone, and the subscriber reconnects.
DispatchFails(p) ==
    /\ Fault
    /\ listening[p] /\ queue[p] # <<>>
    /\ queue' = [queue EXCEPT ![p] = Tail(@)]
    /\ listening' = [listening EXCEPT ![p] = FALSE]
    /\ UNCHANGED <<outbox, claimed, resync, socket, page>>

LoseBroker(p) ==
    /\ Fault
    /\ listening[p]
    /\ listening' = [listening EXCEPT ![p] = FALSE]
    /\ UNCHANGED <<outbox, claimed, queue, resync, socket, page>>

\* Mutant: pages are not told that the subscriber was away.
ListenAgainSilently(p) ==
    /\ ~listening[p]
    /\ listening' = [listening EXCEPT ![p] = TRUE]
    /\ UNCHANGED <<outbox, claimed, queue, resync, socket, page, faults>>

ListenAgain(p) ==
    /\ ~listening[p]
    /\ listening' = [listening EXCEPT ![p] = TRUE]
    /\ resync' = [resync EXCEPT ![p] = TRUE]
    /\ UNCHANGED <<outbox, claimed, queue, socket, page, faults>>

RequireResynchronization(p) ==
    /\ resync[p]
    /\ Put(Refresh, At(p))
    /\ resync' = [resync EXCEPT ![p] = FALSE]
    /\ UNCHANGED <<outbox, claimed, listening, queue, page, faults>>

\* The process dies, and another one in its place listens before it serves.
Restart(p) ==
    /\ Fault
    /\ claimed' = [claimed EXCEPT ![p] = {}]
    /\ listening' = [listening EXCEPT ![p] = TRUE]
    /\ queue' = [queue EXCEPT ![p] = <<>>]
    /\ resync' = [resync EXCEPT ![p] = FALSE]
    /\ at' = [c \in Clients |-> IF at[c] = p THEN Offline ELSE at[c]]
    /\ inbox' = [c \in Clients |-> IF at[c] = p THEN <<>> ELSE inbox[c]]
    /\ UNCHANGED <<outbox, page>>

-----------------------------------------------------------------------------
(* The page: RealtimeProvider.tsx and eventRouter.ts.                      *)

\* realtime_websocket: the connection is registered, then told to be ready.
Connect(c, p) ==
    /\ at[c] = Offline
    /\ at' = [at EXCEPT ![c] = p]
    /\ inbox' = [inbox EXCEPT ![c] = <<Refresh>>]
    /\ UNCHANGED <<outbox, broker, page, faults>>

Disconnect(c) ==
    /\ Fault
    /\ at[c] # Offline
    /\ at' = [at EXCEPT ![c] = Offline]
    /\ inbox' = [inbox EXCEPT ![c] = <<>>]
    /\ UNCHANGED <<outbox, broker, page>>

\* Mutant: a request that is on its way serves as well.
InvalidateUnlessFetching(c, T) ==
    /\ asked' = [asked EXCEPT ![c] = @ \cup (T \ {a[1] : a \in answers[c]})]
    /\ UNCHANGED answers

\* Mutant: the request that is on its way is not cancelled.
InvalidateWithoutCancel(c, T) ==
    /\ asked' = [asked EXCEPT ![c] = @ \cup T]
    /\ UNCHANGED answers

\* invalidateQueries cancels the requests that are on their way.
Invalidate(c, T) ==
    /\ asked' = [asked EXCEPT ![c] = @ \cup T]
    /\ answers' = [answers EXCEPT ![c] = {a \in @ : a[1] \notin T}]

Resynchronize(c) ==
    /\ inbox[c] # <<>> /\ Head(inbox[c]) = Refresh
    /\ Invalidate(c, Refreshed)
    /\ inbox' = [inbox EXCEPT ![c] = Tail(@)]
    /\ UNCHANGED <<outbox, broker, at, latest, seen, faults>>

\* applyEvent and routeRealtimeEvent.
ApplyEvent(c) ==
    /\ inbox[c] # <<>> /\ Head(inbox[c]) # Refresh
    /\ LET r == Head(inbox[c])
           t == rows[r].topic
       IN  IF r <= latest[c][t]
             THEN UNCHANGED <<latest, asked, answers>>
             ELSE /\ latest' = [latest EXCEPT ![c][t] = r]
                  /\ Invalidate(c, {t})
    /\ inbox' = [inbox EXCEPT ![c] = Tail(@)]
    /\ UNCHANGED <<outbox, broker, at, seen, faults>>

\* The backend reads the data that is committed and answers.
Answer(c, t) ==
    /\ t \in asked[c]
    /\ asked' = [asked EXCEPT ![c] = @ \ {t}]
    /\ answers' = [answers EXCEPT ![c] = @ \cup {<<t, version[t]>>}]
    /\ UNCHANGED <<outbox, broker, socket, latest, seen, faults>>

Show(c, a) ==
    /\ a \in answers[c]
    /\ seen' = [seen EXCEPT ![c][a[1]] = a[2]]
    /\ answers' = [answers EXCEPT ![c] = @ \ {a}]
    /\ UNCHANGED <<outbox, broker, socket, latest, asked, faults>>

-----------------------------------------------------------------------------
Change ==
    \/ \E t \in Topics : Insert(t)
    \/ \E r \in DOMAIN rows : Coalesce(r) \/ Commit(r) \/ Rollback(r)

Next ==
    \/ Change
    \/ \E p \in Processes :
          \/ Claim(p) \/ Publish(p) \/ FailBatch(p)
          \/ Dispatch(p) \/ DispatchFails(p) \/ LoseBroker(p)
          \/ ListenAgain(p) \/ RequireResynchronization(p) \/ Restart(p)
    \/ \E c \in Clients :
          \/ \E p \in Processes : Connect(c, p)
          \/ Disconnect(c) \/ Resynchronize(c) \/ ApplyEvent(c)
          \/ \E t \in Topics : Answer(c, t)
          \/ \E a \in answers[c] : Show(c, a)

Spec == Init /\ [][Next]_vars

\* The loops of a process run until it is stopped, transactions end, pages
\* reconnect (scheduleReconnect) and requests are answered.  Failures are
\* never fair, and neither is a change.
Fairness ==
    /\ \A r \in 1 .. MaxRows :
          WF_vars(r \in DOMAIN rows /\ (Commit(r) \/ Rollback(r)))
    /\ \A p \in Processes :
          /\ WF_vars(Claim(p)) /\ WF_vars(Publish(p)) /\ WF_vars(Dispatch(p))
          /\ WF_vars(ListenAgain(p)) /\ WF_vars(RequireResynchronization(p))
    /\ \A c \in Clients :
          /\ WF_vars(\E p \in Processes : Connect(c, p))
          /\ WF_vars(Resynchronize(c)) /\ WF_vars(ApplyEvent(c))
          /\ \A t \in Topics : WF_vars(Answer(c, t))
          /\ WF_vars(\E a \in answers[c] : Show(c, a))

FairSpec == Spec /\ Fairness

-----------------------------------------------------------------------------
\* Something will make page c show version[t] if nothing else is changed: a
\* request the backend has yet to read or its answer, a refresh, a process
\* that will ask for one, or an event the page will not take for an old one.
Coming(c, t) ==
    \/ t \in asked[c]
    \/ <<t, version[t]>> \in answers[c]
    \/ \E i \in DOMAIN inbox[c] :
          \/ inbox[c][i] = Refresh
          \/ rows[inbox[c][i]].topic = t /\ inbox[c][i] > latest[c][t]
    \/ resync[at[c]] \/ ~listening[at[c]]
    \/ \E i \in DOMAIN queue[at[c]] :
          rows[queue[at[c]][i]].topic = t /\ queue[at[c]][i] > latest[c][t]
    \/ \E r \in RowsOf(t, {"pending", "updating"}) : r > latest[c][t]

\* README.md:119-121: whatever is lost, reordered, dropped or cut off, a page
\* that is connected and shows old data is bound to hear of it.
StaleIsInformed ==
    \A c \in Clients, t \in Topics :
        at[c] # Offline /\ seen[c][t] # version[t] => Coming(c, t)

\* README.md:119-121, "Clients recover from disconnects by reconnecting and
\* refreshing the affected REST resources, so correctness does not depend on
\* receiving every WebSocket message": when nothing is under way any more, a
\* connected page shows the data of the backend.
Settled(c) ==
    /\ \A r \in DOMAIN rows : rows[r].state \in {"published", "aborted"}
    /\ at[c] # Offline
    /\ listening[at[c]] /\ ~resync[at[c]] /\ queue[at[c]] = <<>>
    /\ inbox[c] = <<>> /\ asked[c] = {} /\ answers[c] = {}
SettledIsCurrent ==
    \A c \in Clients : Settled(c) => seen[c] = version

\* RealtimeProvider.tsx:72-84 with the cancelled requests: a page never goes
\* back to older data.
ViewNeverGoesBack ==
    [][\A c \in Clients, t \in Topics : seen'[c][t] >= seen[c][t]]_vars

\* README.md:117-121: every page comes to show what was committed.
Converges ==
    \A c \in Clients, t \in Topics : []<>(seen[c][t] = version[t])

-----------------------------------------------------------------------------
(* What a page relies on: PageViews.                                       *)

Views == INSTANCE PageViews

\* README.md:117-121: outbox, broker, websockets and requests together show
\* each page committed data only, topic by topic, and never older data.
ImplementsViews == Views!Spec
=============================================================================
