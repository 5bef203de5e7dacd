----------------------- MODULE RealtimeDelivery_proofs -----------------------
(***************************************************************************)
(* Proofs about RealtimeDelivery, for any topics, processes, pages, sizes  *)
(* of batches and queues, and bounds.                                      *)
(***************************************************************************)
EXTENDS RealtimeDelivery, Selection_proofs, SequenceTheorems

-----------------------------------------------------------------------------
(* The type invariant.                                                     *)

\* The outbox is well-typed at the start.
LEMMA TypeInit == Init => TypeOK
  <1>. SUFFICES ASSUME Init PROVE TypeOK
    OBVIOUS
  <1>1. rows \in Seq(Row) /\ Len(rows) = 0 /\ DOMAIN rows = {}
    BY DEF Init
  <1>2. \A S : <<>> \in Seq(S) /\ Len(<<>>) = 0
    OBVIOUS
  <1>. QED
    BY <1>1, <1>2, SizesAssumption DEF Init, TypeOK, Offline

\* What changes the state of some rows leaves their number and their topics.
LEMMA StatesSet ==
    ASSUME TypeOK, NEW R, NEW s \in States, SetState(R, s)
    PROVE  /\ rows' \in Seq(Row) /\ Len(rows') = Len(rows)
           /\ DOMAIN rows' = DOMAIN rows
           /\ \A r \in DOMAIN rows : rows'[r].topic = rows[r].topic
           /\ \A r \in DOMAIN rows \cap R : rows'[r].state = s
           /\ \A r \in DOMAIN rows \ R : rows'[r].state = rows[r].state
  <1>1. rows \in Seq(Row) /\ DOMAIN rows = 1 .. Len(rows) /\ Len(rows) \in Nat
    BY DEF TypeOK
  <1>2. \A r \in DOMAIN rows :
           /\ rows[r] \in Row
           /\ [rows[r] EXCEPT !.state = s] = [topic |-> rows[r].topic, state |-> s]
    <2>. SUFFICES ASSUME NEW r \in DOMAIN rows
                  PROVE  /\ rows[r] \in Row
                         /\ [rows[r] EXCEPT !.state = s]
                              = [topic |-> rows[r].topic, state |-> s]
      OBVIOUS
    <2>1. rows[r] \in Row
      BY <1>1
    <2>. QED
      BY <2>1 DEF Row
  <1>3. \A r \in DOMAIN rows :
           /\ rows[r] = [topic |-> rows[r].topic, state |-> rows[r].state]
           /\ rows[r].topic \in Topics /\ rows[r].state \in States
    BY <1>2 DEF Row
  <1>4. rows' = [r \in 1 .. Len(rows) |->
                   [topic |-> rows[r].topic,
                    state |-> IF r \in R THEN s ELSE rows[r].state]]
    BY <1>1, <1>2, <1>3 DEF SetState
  <1>5. rows' \in [1 .. Len(rows) -> Row]
    BY <1>1, <1>3, <1>4 DEF Row
  <1>. QED
    BY <1>1, <1>4, <1>5

\* A new row goes to the end.
LEMMA RowAdded ==
    ASSUME TypeOK, NEW t \in Topics, Insert(t)
    PROVE  /\ rows' \in Seq(Row) /\ Len(rows') = Len(rows) + 1
           /\ Len(rows') <= MaxRows
           /\ DOMAIN rows' = DOMAIN rows \cup {Len(rows) + 1}
           /\ DOMAIN rows \subseteq DOMAIN rows'
           /\ \A r \in DOMAIN rows : rows'[r] = rows[r] /\ r < Len(rows) + 1
           /\ rows'[Len(rows) + 1] = [topic |-> t, state |-> "inserting"]
  <1>1. rows \in Seq(Row) /\ DOMAIN rows = 1 .. Len(rows) /\ Len(rows) \in Nat
    BY DEF TypeOK
  <1>2. [topic |-> t, state |-> "inserting"] \in Row
    BY DEF Row, States
  <1>3. rows' = Append(rows, [topic |-> t, state |-> "inserting"])
        /\ Len(rows) < MaxRows
    BY DEF Insert
  <1>. QED
    BY <1>1, <1>2, <1>3, SizesAssumption

\* Sequences of rows stay such when rows are added.
LEMMA WiderType ==
    ASSUME TypeOK, rows' \in Seq(Row), Len(rows') <= MaxRows,
           DOMAIN rows \subseteq DOMAIN rows', version' \in [Topics -> Nat],
           UNCHANGED <<broker, socket, page>>, faults' \in 0 .. MaxFaults
    PROVE  TypeOK'
  <1>1. \A S, T : S \subseteq T => Seq(S) \subseteq Seq(T)
    BY SeqMonotonic
  <1>. QED
    BY <1>1 DEF TypeOK, broker, socket, page

\* A fault that happens is counted.
LEMMA FaultCounted == TypeOK /\ Fault => faults' \in 0 .. MaxFaults
  BY SizesAssumption DEF TypeOK, Fault

\* Put adds a message to the queue of a page, or cuts the page off.
LEMMA PutEffect ==
    ASSUME TypeOK, NEW m \in {Refresh} \cup DOMAIN rows, NEW C, Put(m, C)
    PROVE  /\ inbox' \in [Clients -> Seq({Refresh} \cup DOMAIN rows)]
           /\ at' \in [Clients -> Processes \cup {Offline}]
           /\ \A c \in Clients : Len(inbox'[c]) <= InboxSize
           /\ \A c \in Clients :
                \/ c \notin C /\ at'[c] = at[c] /\ inbox'[c] = inbox[c]
                \/ at'[c] = Offline /\ inbox'[c] = <<>>
                \/ /\ c \in C /\ at'[c] = at[c]
                   /\ inbox'[c] = Append(inbox[c], m)
  <1>. DEFINE M == {Refresh} \cup DOMAIN rows
              slow == {c \in C : Len(inbox[c]) >= InboxSize}
  <1>1. /\ inbox' = [c \in Clients |-> CASE c \in slow -> <<>>
                                         [] c \in C \ slow -> Append(inbox[c], m)
                                         [] OTHER -> inbox[c]]
        /\ at' = [c \in Clients |-> IF c \in slow THEN Offline ELSE at[c]]
    BY DEF Put
  <1>2. ASSUME NEW c \in Clients
        PROVE  /\ inbox[c] \in Seq(M) /\ Len(inbox[c]) \in Nat
               /\ Len(inbox[c]) <= InboxSize
               /\ Append(inbox[c], m) \in Seq(M)
               /\ Len(Append(inbox[c], m)) = Len(inbox[c]) + 1
               /\ <<>> \in Seq(M) /\ Len(<<>>) = 0
    <2>1. inbox[c] \in Seq(M) /\ Len(inbox[c]) <= InboxSize /\ m \in M
      BY DEF TypeOK
    <2>. HIDE DEF M
    <2>. QED
      BY <2>1
  <1>3. ASSUME NEW c \in Clients
        PROVE  /\ \/ c \notin C /\ at'[c] = at[c] /\ inbox'[c] = inbox[c]
                  \/ c \in slow /\ at'[c] = Offline /\ inbox'[c] = <<>>
                  \/ /\ c \in C /\ at'[c] = at[c] /\ ~(c \in slow)
                     /\ inbox'[c] = Append(inbox[c], m)
    <2>1. CASE c \notin C
      BY <1>1, <2>1
    <2>2. CASE c \in slow
      BY <1>1, <2>2
    <2>3. CASE c \in C \ slow
      BY <1>1, <2>3
    <2>. QED
      BY <2>1, <2>2, <2>3
  <1>4. ASSUME NEW c \in Clients
        PROVE  inbox'[c] \in Seq(M) /\ Len(inbox'[c]) <= InboxSize
    <2>1. InboxSize \in Nat
      BY SizesAssumption
    <2>2. c \in C /\ c \notin slow => Len(inbox[c]) + 1 <= InboxSize
      BY <1>2, <2>1
    <2>. HIDE DEF M, slow
    <2>3. CASE inbox'[c] = inbox[c]
      BY <1>2, <2>3
    <2>4. CASE inbox'[c] = <<>>
      <3>1. <<>> \in Seq(M) /\ Len(<<>>) <= InboxSize
        BY <1>2, <2>1
      <3>. QED
        BY <2>4, <3>1
    <2>5. CASE inbox'[c] = Append(inbox[c], m) /\ c \in C /\ c \notin slow
      <3>1. Len(inbox'[c]) = Len(inbox[c]) + 1 /\ inbox'[c] \in Seq(M)
        BY <1>2, <2>5
      <3>. QED
        BY <2>2, <2>5, <3>1
    <2>. QED
      BY <1>3, <2>3, <2>4, <2>5
  <1>5. at' \in [Clients -> Processes \cup {Offline}]
    BY <1>1 DEF TypeOK
  <1>6. inbox' \in [Clients -> Seq(M)]
    <2>. HIDE DEF M
    <2>1. DOMAIN inbox' = Clients /\ inbox' = [c \in Clients |-> inbox'[c]]
      BY <1>1
    <2>. QED
      BY <1>4, <2>1
  <1>. QED
    BY <1>3, <1>4, <1>5, <1>6

\* A process that listens has the events of a batch in its queue, or it is to
\* make its pages fetch everything; one that does not listen has no more.
LEMMA QueueEffect ==
    ASSUME TypeOK, NEW p \in Processes, Publish(p)
    PROVE  /\ queue' \in [Processes -> Seq(DOMAIN rows)]
           /\ resync' \in [Processes -> BOOLEAN]
           /\ \A q \in Processes :
                /\ Len(queue'[q]) <= QueueSize
                /\ resync[q] => resync'[q]
                /\ \A i \in DOMAIN queue'[q] :
                     \/ i \in DOMAIN queue[q] /\ queue'[q][i] = queue[q][i]
                     \/ queue'[q][i] \in claimed[p]
                /\ \/ ~listening[q] \/ resync'[q]
                   \/ /\ DOMAIN queue[q] \subseteq DOMAIN queue'[q]
                      /\ \A i \in DOMAIN queue[q] : queue'[q][i] = queue[q][i]
                      /\ \A r \in claimed[p] :
                           \E i \in DOMAIN queue'[q] : queue'[q][i] = r
  <1>. DEFINE events == InOrder(claimed[p])
              D == DOMAIN rows
  <1>1. /\ claimed[p] \subseteq D /\ D = 1 .. Len(rows) /\ Len(rows) \in Nat
    BY DEF TypeOK
  <1>2. claimed[p] \in SUBSET Nat /\ IsFiniteSet(claimed[p])
    <2>1. IsFiniteSet(1 .. Len(rows))
      BY <1>1, FS_Interval
    <2>2. IsFiniteSet(claimed[p])
      BY <1>1, <2>1, FS_Subset
    <2>. QED
      BY <1>1, <2>2
  <1>3. /\ events \in Seq(claimed[p])
        /\ \A r \in claimed[p] : \E n \in DOMAIN events : events[n] = r
    BY <1>2, InOrderLists
  <1>4. /\ queue' = [q \in Processes |->
                       CASE Overflow(q, events) ->
                              SubSeq(queue[q] \o events, 1, QueueSize)
                         [] listening[q] /\ ~Overflow(q, events) ->
                              queue[q] \o events
                         [] OTHER -> queue[q]]
        /\ resync' = [q \in Processes |-> resync[q] \/ Overflow(q, events)]
    BY DEF Publish
  <1>. HIDE DEF events
  <1>5. events \in Seq(D) /\ Len(events) \in Nat
        /\ DOMAIN events = 1 .. Len(events)
        /\ \A n \in DOMAIN events : events[n] \in claimed[p]
    <2>1. events \in Seq(D)
      BY <1>1, <1>3, SeqMonotonic
    <2>. QED
      BY <1>3, <2>1
  <1>. HIDE DEF D
  <1>6. ASSUME NEW q \in Processes
        PROVE  /\ queue'[q] \in Seq(D) /\ Len(queue'[q]) <= QueueSize
               /\ resync[q] => resync'[q]
               /\ \A i \in DOMAIN queue'[q] :
                     \/ i \in DOMAIN queue[q] /\ queue'[q][i] = queue[q][i]
                     \/ queue'[q][i] \in claimed[p]
               /\ \/ ~listening[q] \/ resync'[q]
                  \/ /\ DOMAIN queue[q] \subseteq DOMAIN queue'[q]
                     /\ \A i \in DOMAIN queue[q] : queue'[q][i] = queue[q][i]
                     /\ \A r \in claimed[p] :
                           \E i \in DOMAIN queue'[q] : queue'[q][i] = r
    <2>. DEFINE old == queue[q]
                all == queue[q] \o events
    <2>1. /\ old \in Seq(D) /\ Len(old) \in Nat /\ Len(old) <= QueueSize
          /\ DOMAIN old = 1 .. Len(old) /\ QueueSize \in Nat \ {0}
      BY SizesAssumption DEF TypeOK, D
    <2>2. /\ all \in Seq(D) /\ Len(all) = Len(old) + Len(events)
          /\ DOMAIN all = 1 .. Len(old) + Len(events)
          /\ \A i \in 1 .. Len(old) : all[i] = old[i]
          /\ \A i \in 1 .. Len(events) : all[Len(old) + i] = events[i]
          /\ \A i \in DOMAIN all :
               i \in 1 .. Len(old) \/ i - Len(old) \in 1 .. Len(events)
      <3>1. /\ all \in Seq(D) /\ Len(all) = Len(old) + Len(events)
            /\ \A i \in 1 .. Len(old) + Len(events) :
                 all[i] = IF i <= Len(old) THEN old[i] ELSE events[i - Len(old)]
        <4>. DEFINE both == old \o events
        <4>1. /\ both \in Seq(D) /\ Len(both) = Len(old) + Len(events)
              /\ \A i \in 1 .. Len(old) + Len(events) :
                   both[i] = IF i <= Len(old) THEN old[i] ELSE events[i - Len(old)]
          <5>. HIDE DEF old
          <5>. QED
            BY <1>5, <2>1, ConcatProperties
        <4>2. both = all
          OBVIOUS
        <4>. HIDE DEF both, all, old
        <4>. QED
          BY <4>1, <4>2
      <3>. HIDE DEF all, old
      <3>2. DOMAIN all = 1 .. Len(old) + Len(events)
        BY <3>1
      <3>3. \A i \in 1 .. Len(old) : all[i] = old[i]
        BY <1>5, <2>1, <3>1
      <3>4. \A i \in 1 .. Len(events) : all[Len(old) + i] = events[i]
        <4>. SUFFICES ASSUME NEW i \in 1 .. Len(events)
                      PROVE  all[Len(old) + i] = events[i]
          OBVIOUS
        <4>1. /\ Len(old) + i \in 1 .. Len(old) + Len(events)
              /\ ~(Len(old) + i <= Len(old)) /\ (Len(old) + i) - Len(old) = i
          BY <1>5, <2>1
        <4>. QED
          BY <3>1, <4>1
      <3>5. \A i \in DOMAIN all :
              i \in 1 .. Len(old) \/ i - Len(old) \in 1 .. Len(events)
        BY <1>5, <2>1, <3>2
      <3>. QED
        BY <3>1, <3>2, <3>3, <3>4, <3>5
    <2>3. \A i \in DOMAIN all :
             \/ i \in DOMAIN old /\ all[i] = old[i]
             \/ all[i] \in claimed[p]
      <3>. SUFFICES ASSUME NEW i \in DOMAIN all, i \notin 1 .. Len(old)
                    PROVE  all[i] \in claimed[p]
        BY <2>1, <2>2
      <3>. DEFINE j == i - Len(old)
      <3>1. j \in 1 .. Len(events) /\ i = Len(old) + j
        BY <1>5, <2>1, <2>2
      <3>2. all[i] = events[j]
        <4>. HIDE DEF j, all, old
        <4>. QED
          BY <2>2, <3>1
      <3>. QED
        BY <1>5, <3>1, <3>2
    <2>. HIDE DEF all
    <2>4. CASE Overflow(q, events)
      <3>1. resync'[q] /\ queue'[q] = SubSeq(all, 1, QueueSize)
        BY <1>4, <2>4 DEF all
      <3>2. Len(all) > QueueSize
        BY <2>4 DEF Overflow, all
      <3>3. /\ SubSeq(all, 1, QueueSize) \in Seq(D)
            /\ Len(SubSeq(all, 1, QueueSize)) = QueueSize
            /\ DOMAIN SubSeq(all, 1, QueueSize) = 1 .. QueueSize
            /\ \A i \in 1 .. QueueSize : SubSeq(all, 1, QueueSize)[i] = all[i]
        BY <2>1, <2>2, <3>2
      <3>4. 1 .. QueueSize \subseteq DOMAIN all
        BY <1>5, <2>1, <2>2, <3>2
      <3>. QED
        BY <2>1, <2>3, <3>1, <3>3, <3>4
    <2>5. CASE listening[q] /\ ~Overflow(q, events)
      <3>1. queue'[q] = all /\ (resync[q] => resync'[q])
        BY <1>4, <2>5 DEF all
      <3>2. Len(all) <= QueueSize
        BY <1>5, <2>1, <2>2, <2>5 DEF Overflow, all
      <3>3. DOMAIN old \subseteq DOMAIN all
        BY <1>5, <2>1, <2>2
      <3>4. \A r \in claimed[p] : \E i \in DOMAIN all : all[i] = r
        <4>. SUFFICES ASSUME NEW r \in claimed[p]
                      PROVE  \E i \in DOMAIN all : all[i] = r
          OBVIOUS
        <4>1. PICK n \in 1 .. Len(events) : events[n] = r
          BY <1>3, <1>5
        <4>2. Len(old) + n \in DOMAIN all
          BY <1>5, <2>1, <2>2
        <4>. QED
          BY <2>2, <4>1, <4>2
      <3>. QED
        BY <2>1, <2>2, <2>3, <3>1, <3>2, <3>3, <3>4
    <2>6. CASE ~listening[q]
      <3>1. queue'[q] = old /\ ~Overflow(q, events) /\ (resync[q] => resync'[q])
        BY <1>4, <2>6 DEF Overflow
      <3>. QED
        BY <2>1, <2>6, <3>1
    <2>. QED
      BY <2>4, <2>5, <2>6
  <1>7. queue' = [q \in Processes |-> queue'[q]]
    BY <1>4
  <1>8. queue' \in [Processes -> Seq(D)]
    BY <1>6, <1>7
  <1>9. resync' \in [Processes -> BOOLEAN]
    BY <1>4 DEF TypeOK, Overflow
  <1>. QED
    BY <1>6, <1>8, <1>9 DEF D

\* The parts of a row.
LEMMA RowFields ==
    ASSUME TypeOK, NEW r \in DOMAIN rows
    PROVE  /\ r \in Nat \ {0} /\ r <= Len(rows) /\ Len(rows) \in Nat
           /\ rows[r].topic \in Topics /\ rows[r].state \in States
  <1>1. rows \in Seq(Row)
    BY DEF TypeOK
  <1>2. rows[r] \in Row /\ Len(rows) \in Nat /\ DOMAIN rows = 1 .. Len(rows)
    BY <1>1
  <1>3. rows[r].topic \in Topics /\ rows[r].state \in States
    BY <1>2 DEF Row
  <1>. QED
    BY <1>2, <1>3

\* A transaction keeps the types.
LEMMA TypeChange == TypeOK /\ Change => TypeOK'
  <1>. SUFFICES ASSUME TypeOK, Change PROVE TypeOK'
    OBVIOUS
  <1>0. /\ faults \in 0 .. MaxFaults /\ version \in [Topics -> Nat]
        /\ rows \in Seq(Row) /\ Len(rows) <= MaxRows
    BY DEF TypeOK
  <1>1. ASSUME NEW t \in Topics, Insert(t) PROVE TypeOK'
    <2>1. UNCHANGED <<version, broker, socket, page, faults>>
      BY <1>1 DEF Insert
    <2>. QED
      BY <1>0, <1>1, <2>1, RowAdded, WiderType
  <1>2. ASSUME NEW r \in DOMAIN rows, Coalesce(r) PROVE TypeOK'
    <2>1. /\ UNCHANGED <<version, broker, socket, page, faults>>
          /\ SetState({r}, "updating") /\ "updating" \in States
      BY <1>2 DEF Coalesce, States
    <2>. QED
      BY <1>0, <2>1, StatesSet, WiderType
  <1>3. ASSUME NEW r \in DOMAIN rows, Commit(r) PROVE TypeOK'
    <2>1. /\ UNCHANGED <<broker, socket, page, faults>>
          /\ SetState({r}, "pending") /\ "pending" \in States
          /\ version' = [version EXCEPT ![rows[r].topic] = @ + 1]
      BY <1>3 DEF Commit, States
    <2>2. rows[r].topic \in Topics
      BY RowFields
    <2>3. version' \in [Topics -> Nat]
      BY <1>0, <2>1, <2>2
    <2>. QED
      BY <1>0, <2>1, <2>3, StatesSet, WiderType
  <1>4. ASSUME NEW r \in DOMAIN rows, Rollback(r) PROVE TypeOK'
    <2>1. /\ UNCHANGED <<version, broker, socket, page>> /\ Fault
          /\ \E s \in States : SetState({r}, s)
      BY <1>4 DEF Rollback, States
    <2>2. PICK s \in States : SetState({r}, s)
      BY <2>1
    <2>. QED
      BY <1>0, <2>1, <2>2, StatesSet, WiderType, FaultCounted
  <1>. QED
    BY <1>1, <1>2, <1>3, <1>4 DEF Change

\* The first of a queue that is not empty, and the rest of it.
LEMMA HeadAndTail ==
    ASSUME NEW S, NEW s \in Seq(S), s # <<>>
    PROVE  /\ Head(s) \in S /\ Head(s) = s[1] /\ 1 \in DOMAIN s
           /\ Tail(s) \in Seq(S) /\ Len(s) \in Nat
           /\ Len(Tail(s)) \in Nat /\ Len(Tail(s)) <= Len(s)
           /\ \A i \in DOMAIN Tail(s) :
                i + 1 \in DOMAIN s /\ Tail(s)[i] = s[i + 1]
           /\ \A i \in DOMAIN s :
                i # 1 => i - 1 \in DOMAIN Tail(s) /\ Tail(s)[i - 1] = s[i]
  <1>1. Len(s) \in Nat \ {0} /\ DOMAIN s = 1 .. Len(s)
    OBVIOUS
  <1>2. /\ Head(s) = s[1] /\ Tail(s) \in Seq(S) /\ Len(Tail(s)) = Len(s) - 1
        /\ \A i \in 1 .. Len(Tail(s)) : Tail(s)[i] = s[i + 1]
    BY HeadTailProperties
  <1>3. DOMAIN Tail(s) = 1 .. Len(Tail(s)) /\ s[1] \in S
    BY <1>1, <1>2
  <1>4. ASSUME NEW i \in DOMAIN s, i # 1
        PROVE  i - 1 \in 1 .. Len(Tail(s)) /\ (i - 1) + 1 = i
    BY <1>1, <1>2, <1>4
  <1>. QED
    BY <1>1, <1>2, <1>3, <1>4

\* What is in a queue is its first element or in the rest of it.
LEMMA TailKeeps ==
    ASSUME NEW S, NEW s \in Seq(S), s # <<>>, NEW i \in DOMAIN s
    PROVE  s[i] = Head(s) \/ \E j \in DOMAIN Tail(s) : Tail(s)[j] = s[i]
  <1>1. CASE i = 1
    BY <1>1, HeadAndTail
  <1>2. CASE i # 1
    BY <1>2, HeadAndTail
  <1>. QED
    BY <1>1, <1>2

\* A step of a process keeps the types.
LEMMA TypeProcess ==
    ASSUME TypeOK, NEW p \in Processes,
           \/ Claim(p) \/ Publish(p) \/ FailBatch(p)
           \/ Dispatch(p) \/ DispatchFails(p) \/ LoseBroker(p)
           \/ ListenAgain(p) \/ RequireResynchronization(p) \/ Restart(p)
    PROVE  TypeOK'
  <1>. USE DEF TypeOK, outbox, broker, socket, page
  <1>1. CASE Claim(p)
    <2>1. First({r \in DOMAIN rows \ Locked : rows[r].state = "pending"}, BatchSize)
             \subseteq DOMAIN rows
      BY DEF First
    <2>2. claimed' \in [Processes -> SUBSET DOMAIN rows]
      BY <1>1, <2>1 DEF Claim
    <2>. QED
      BY <1>1, <2>2 DEF Claim
  <1>2. CASE Publish(p)
    <2>1. /\ SetState(claimed[p], "published") /\ "published" \in States
          /\ claimed' = [claimed EXCEPT ![p] = {}]
          /\ UNCHANGED <<version, listening, socket, page, faults>>
      BY <1>2 DEF Publish, States
    <2>2. /\ rows' \in Seq(Row) /\ Len(rows') = Len(rows)
          /\ DOMAIN rows' = DOMAIN rows
      BY <2>1, StatesSet
    <2>3. /\ queue' \in [Processes -> Seq(DOMAIN rows)]
          /\ resync' \in [Processes -> BOOLEAN]
          /\ \A q \in Processes : Len(queue'[q]) <= QueueSize
      BY <1>2, QueueEffect
    <2>4. claimed' \in [Processes -> SUBSET DOMAIN rows]
      BY <2>1
    <2>. QED
      BY <2>1, <2>2, <2>3, <2>4
  <1>3. CASE FailBatch(p)
    <2>1. faults' \in 0 .. MaxFaults
      BY <1>3, FaultCounted DEF FailBatch
    <2>2. claimed' \in [Processes -> SUBSET DOMAIN rows]
      BY <1>3 DEF FailBatch
    <2>. QED
      BY <1>3, <2>1, <2>2 DEF FailBatch
  <1>4. ASSUME queue[p] # <<>>, queue' = [queue EXCEPT ![p] = Tail(@)]
        PROVE  /\ queue' \in [Processes -> Seq(DOMAIN rows)]
               /\ \A q \in Processes : Len(queue'[q]) <= QueueSize
               /\ Head(queue[p]) \in DOMAIN rows
    <2>. DEFINE D == DOMAIN rows
    <2>1. queue \in [Processes -> Seq(D)] /\ QueueSize \in Nat
      BY SizesAssumption
    <2>. HIDE DEF D
    <2>2. /\ Head(queue[p]) \in D /\ Tail(queue[p]) \in Seq(D)
          /\ Len(Tail(queue[p])) <= Len(queue[p])
          /\ Len(queue[p]) \in Nat /\ Len(Tail(queue[p])) \in Nat
      BY <1>4, <2>1, HeadAndTail
    <2>3. \A q \in Processes : queue'[q] = IF q = p THEN Tail(queue[p]) ELSE queue[q]
      BY <1>4, <2>1
    <2>4. queue' \in [Processes -> Seq(D)]
      BY <1>4, <2>1, <2>2
    <2>5. ASSUME NEW q \in Processes PROVE Len(queue'[q]) <= QueueSize
      <3>1. Len(queue[q]) <= QueueSize /\ Len(queue[p]) <= QueueSize
        OBVIOUS
      <3>2. Len(queue[p]) \in Nat /\ Len(Tail(queue[p])) \in Nat /\ QueueSize \in Nat
        BY <2>1, <2>2
      <3>3. Len(Tail(queue[p])) <= QueueSize
        BY <2>2, <3>1, <3>2
      <3>. QED
        BY <2>3, <3>1, <3>3
    <2>. QED
      BY <2>2, <2>4, <2>5 DEF D
  <1>5. CASE Dispatch(p)
    <2>1. /\ queue[p] # <<>> /\ queue' = [queue EXCEPT ![p] = Tail(@)]
          /\ Put(Head(queue[p]), At(p))
          /\ UNCHANGED <<outbox, claimed, listening, resync, page, faults>>
      BY <1>5 DEF Dispatch
    <2>2. /\ inbox' \in [Clients -> Seq({Refresh} \cup DOMAIN rows)]
          /\ at' \in [Clients -> Processes \cup {Offline}]
          /\ \A c \in Clients : Len(inbox'[c]) <= InboxSize
      BY <1>4, <2>1, PutEffect
    <2>. QED
      BY <1>4, <2>1, <2>2
  <1>6. CASE DispatchFails(p)
    <2>1. faults' \in 0 .. MaxFaults
      BY <1>6, FaultCounted DEF DispatchFails
    <2>2. listening' \in [Processes -> BOOLEAN]
      BY <1>6 DEF DispatchFails
    <2>. QED
      BY <1>4, <1>6, <2>1, <2>2 DEF DispatchFails
  <1>7. CASE LoseBroker(p)
    <2>1. faults' \in 0 .. MaxFaults
      BY <1>7, FaultCounted DEF LoseBroker
    <2>. QED
      BY <1>7, <2>1 DEF LoseBroker
  <1>8. CASE ListenAgain(p)
    BY <1>8 DEF ListenAgain
  <1>9. CASE RequireResynchronization(p)
    <2>1. /\ Put(Refresh, At(p)) /\ resync' = [resync EXCEPT ![p] = FALSE]
          /\ UNCHANGED <<outbox, claimed, listening, queue, page, faults>>
      BY <1>9 DEF RequireResynchronization
    <2>2. /\ inbox' \in [Clients -> Seq({Refresh} \cup DOMAIN rows)]
          /\ at' \in [Clients -> Processes \cup {Offline}]
          /\ \A c \in Clients : Len(inbox'[c]) <= InboxSize
      BY <2>1, PutEffect
    <2>. QED
      BY <2>1, <2>2
  <1>10. CASE Restart(p)
    <2>. DEFINE D == DOMAIN rows
                M == {Refresh} \cup D
    <2>1. /\ claimed' = [claimed EXCEPT ![p] = {}]
          /\ listening' = [listening EXCEPT ![p] = TRUE]
          /\ queue' = [queue EXCEPT ![p] = <<>>]
          /\ resync' = [resync EXCEPT ![p] = FALSE]
          /\ at' = [c \in Clients |-> IF at[c] = p THEN Offline ELSE at[c]]
          /\ inbox' = [c \in Clients |-> IF at[c] = p THEN <<>> ELSE inbox[c]]
          /\ UNCHANGED <<outbox, page>>
      BY <1>10 DEF Restart
    <2>2. faults' \in 0 .. MaxFaults
      BY <1>10, FaultCounted DEF Restart
    <2>3. /\ claimed' \in [Processes -> SUBSET D]
          /\ listening' \in [Processes -> BOOLEAN]
          /\ resync' \in [Processes -> BOOLEAN]
          /\ at' \in [Clients -> Processes \cup {Offline}]
      BY <2>1
    <2>4. queue' \in [Processes -> Seq(D)] /\ inbox' \in [Clients -> Seq(M)]
      <3>1. queue \in [Processes -> Seq(D)] /\ inbox \in [Clients -> Seq(M)]
        OBVIOUS
      <3>. HIDE DEF D, M
      <3>. QED
        BY <2>1, <3>1
    <2>5. /\ \A q \in Processes : Len(queue'[q]) <= QueueSize
          /\ \A c \in Clients : Len(inbox'[c]) <= InboxSize
      <3>1. Len(<<>>) = 0 /\ QueueSize \in Nat /\ InboxSize \in Nat
        BY SizesAssumption
      <3>2. \A q \in Processes : queue'[q] = IF q = p THEN <<>> ELSE queue[q]
        BY <2>1
      <3>3. \A c \in Clients : inbox'[c] = IF at[c] = p THEN <<>> ELSE inbox[c]
        BY <2>1
      <3>. QED
        BY <3>1, <3>2, <3>3
    <2>. QED
      BY <2>1, <2>2, <2>3, <2>4, <2>5
  <1>. QED
    BY <1>1, <1>2, <1>3, <1>5, <1>6, <1>7, <1>8, <1>9, <1>10

\* A step of a page keeps the types.
LEMMA TypePage ==
    ASSUME TypeOK, NEW c \in Clients,
           \/ \E p \in Processes : Connect(c, p)
           \/ Disconnect(c) \/ Resynchronize(c) \/ ApplyEvent(c)
           \/ \E t \in Topics : Answer(c, t)
           \/ \E a \in answers[c] : Show(c, a)
    PROVE  TypeOK'
  <1>. USE DEF TypeOK, outbox, broker, socket, page
  <1>. DEFINE M == {Refresh} \cup DOMAIN rows
  <1>1. ASSUME NEW s \in Seq(M), Len(s) <= InboxSize, inbox' = [inbox EXCEPT ![c] = s]
        PROVE  /\ inbox' \in [Clients -> Seq(M)]
               /\ \A d \in Clients : Len(inbox'[d]) <= InboxSize
    <2>1. inbox \in [Clients -> Seq(M)]
      OBVIOUS
    <2>2. \A d \in Clients : inbox'[d] = IF d = c THEN s ELSE inbox[d]
      BY <1>1
    <2>3. \A d \in Clients : Len(inbox'[d]) <= InboxSize
      BY <1>1, <2>2
    <2>. HIDE DEF M
    <2>. QED
      BY <1>1, <2>1, <2>3
  <1>2. ASSUME inbox[c] # <<>>, inbox' = [inbox EXCEPT ![c] = Tail(@)]
        PROVE  /\ inbox' \in [Clients -> Seq(M)]
               /\ \A d \in Clients : Len(inbox'[d]) <= InboxSize
               /\ Head(inbox[c]) \in M
    <2>1. inbox[c] \in Seq(M) /\ Len(inbox[c]) <= InboxSize /\ InboxSize \in Nat
          /\ inbox' = [inbox EXCEPT ![c] = Tail(inbox[c])]
      BY <1>2, SizesAssumption
    <2>. HIDE DEF M
    <2>2. /\ Head(inbox[c]) \in M /\ Tail(inbox[c]) \in Seq(M)
          /\ Len(Tail(inbox[c])) <= InboxSize
      BY <1>2, <2>1, HeadAndTail
    <2>. QED
      BY <1>1, <2>1, <2>2
  <1>3. ASSUME NEW p \in Processes, Connect(c, p) PROVE TypeOK'
    <2>1. <<Refresh>> \in Seq(M) /\ Len(<<Refresh>>) <= InboxSize
      <3>1. Refresh \in M /\ InboxSize \in Nat \ {0}
        BY SizesAssumption
      <3>. HIDE DEF M
      <3>. QED
        BY <3>1
    <2>. QED
      BY <1>1, <1>3, <2>1 DEF Connect
  <1>4. CASE Disconnect(c)
    <2>1. faults' \in 0 .. MaxFaults
      BY <1>4, FaultCounted DEF Disconnect
    <2>2. <<>> \in Seq(M) /\ Len(<<>>) <= InboxSize
      <3>1. InboxSize \in Nat /\ Len(<<>>) = 0
        BY SizesAssumption
      <3>. HIDE DEF M
      <3>. QED
        BY <3>1
    <2>3. at' \in [Clients -> Processes \cup {Offline}]
      BY <1>4 DEF Disconnect
    <2>. QED
      BY <1>1, <1>4, <2>1, <2>2, <2>3 DEF Disconnect
  <1>5. ASSUME NEW T \in SUBSET Topics, Invalidate(c, T)
        PROVE  /\ asked' \in [Clients -> SUBSET Topics]
               /\ answers' \in [Clients -> SUBSET (Topics \X Nat)]
    BY <1>5 DEF Invalidate
  <1>6. CASE Resynchronize(c)
    <2>1. Refreshed \in SUBSET Topics
      BY TopicsAssumption
    <2>. QED
      BY <1>2, <1>5, <1>6, <2>1 DEF Resynchronize
  <1>7. CASE ApplyEvent(c)
    <2>. DEFINE r == Head(inbox[c])
                t == rows[r].topic
    <2>1. /\ inbox[c] # <<>> /\ r # Refresh
          /\ inbox' = [inbox EXCEPT ![c] = Tail(@)]
          /\ UNCHANGED <<outbox, broker, at, seen, faults>>
          /\ \/ UNCHANGED <<latest, asked, answers>>
             \/ /\ latest' = [latest EXCEPT ![c][t] = r]
                /\ Invalidate(c, {t})
      BY <1>7 DEF ApplyEvent
    <2>2. r \in DOMAIN rows /\ r \in Nat /\ t \in Topics
      <3>1. r \in DOMAIN rows
        BY <1>2, <2>1
      <3>. HIDE DEF TypeOK
      <3>. QED
        BY <3>1, RowFields
    <2>. HIDE DEF r, t
    <2>3. CASE UNCHANGED <<latest, asked, answers>>
      BY <1>2, <2>1, <2>3
    <2>4. CASE latest' = [latest EXCEPT ![c][t] = r] /\ Invalidate(c, {t})
      <3>1. latest' \in [Clients -> [Topics -> Nat]]
        BY <2>2, <2>4
      <3>2. {t} \in SUBSET Topics
        BY <2>2
      <3>3. /\ asked' \in [Clients -> SUBSET Topics]
            /\ answers' \in [Clients -> SUBSET (Topics \X Nat)]
        BY <1>5, <2>4, <3>2
      <3>. QED
        BY <1>2, <2>1, <3>1, <3>3
    <2>. QED
      BY <2>1, <2>3, <2>4
  <1>8. ASSUME NEW t \in Topics, Answer(c, t) PROVE TypeOK'
    <2>1. <<t, version[t]>> \in Topics \X Nat
      OBVIOUS
    <2>2. /\ asked' \in [Clients -> SUBSET Topics]
          /\ answers' \in [Clients -> SUBSET (Topics \X Nat)]
      BY <1>8, <2>1 DEF Answer
    <2>. QED
      BY <1>8, <2>2 DEF Answer
  <1>9. ASSUME NEW a \in answers[c], Show(c, a) PROVE TypeOK'
    <2>1. a \in Topics \X Nat
      OBVIOUS
    <2>2. a[1] \in Topics /\ a[2] \in Nat
      BY <2>1
    <2>3. /\ seen' \in [Clients -> [Topics -> Nat]]
          /\ answers' \in [Clients -> SUBSET (Topics \X Nat)]
      BY <1>9, <2>2 DEF Show
    <2>. QED
      BY <1>9, <2>3 DEF Show
  <1>. QED
    BY <1>3, <1>4, <1>6, <1>7, <1>8, <1>9

\* Every step keeps the types.
LEMMA TypeNext == TypeOK /\ [Next]_vars => TypeOK'
  <1>. SUFFICES ASSUME TypeOK, [Next]_vars PROVE TypeOK'
    OBVIOUS
  <1>1. CASE UNCHANGED vars
    BY <1>1 DEF TypeOK, vars, outbox, broker, socket, page
  <1>2. CASE Next
    BY <1>2, TypeChange, TypeProcess, TypePage DEF Next
  <1>. QED
    BY <1>1, <1>2

\* Rows, queues, messages, requests and answers are always well-formed, and
\* no queue exceeds its size, however transactions, processes and pages
\* interleave and fail.
THEOREM TypeCorrect == Spec => []TypeOK
  BY TypeInit, TypeNext, PTL DEF Spec

-----------------------------------------------------------------------------
(* The rows of the outbox.                                                 *)

\* The outbox loops hold committed rows, and no two of them the same one.
ClaimsApart ==
    /\ \A p, q \in Processes : p # q => claimed[p] \cap claimed[q] = {}
    /\ \A p \in Processes : \A r \in claimed[p] : rows[r].state = "pending"

\* The row can still be changed, so that the trigger inserts no other one.
Open(r) ==
    \/ rows[r].state \in {"inserting", "updating"}
    \/ rows[r].topic \in Coalesced /\ rows[r].state = "pending"

\* A row of a single record that can still be changed is the last of its topic.
OpenIsLast ==
    \A r, q \in DOMAIN rows :
        /\ rows[r].topic = rows[q].topic /\ rows[r].topic \notin Shared
        /\ Open(r)
        => q <= r

OutboxInv == ClaimsApart /\ OpenIsLast

\* How one step changes the rows: none disappears or changes its topic, and
\* one that is published stays published.
RowsGrow ==
    /\ DOMAIN rows \subseteq DOMAIN rows'
    /\ \A r \in DOMAIN rows :
          /\ rows'[r].topic = rows[r].topic
          /\ rows[r].state = "published" => rows'[r].state = "published"

\* Which steps change which rows.
LEMMA RowsChange ==
    ASSUME TypeOK, [Next]_vars
    PROVE  \/ UNCHANGED rows
           \/ \E t \in Topics : Insert(t)
           \/ \E r \in DOMAIN rows : Coalesce(r) \/ Commit(r) \/ Rollback(r)
           \/ \E p \in Processes : Publish(p)
  <1>1. ASSUME NEW p \in Processes,
               \/ Claim(p) \/ FailBatch(p)
               \/ Dispatch(p) \/ DispatchFails(p) \/ LoseBroker(p)
               \/ ListenAgain(p) \/ RequireResynchronization(p) \/ Restart(p)
        PROVE  UNCHANGED rows
    BY <1>1 DEF Claim, FailBatch, Dispatch, DispatchFails, LoseBroker,
                ListenAgain, RequireResynchronization, Restart, outbox
  <1>2. ASSUME NEW c \in Clients,
               \/ \E p \in Processes : Connect(c, p)
               \/ Disconnect(c) \/ Resynchronize(c) \/ ApplyEvent(c)
               \/ \E t \in Topics : Answer(c, t)
               \/ \E a \in answers[c] : Show(c, a)
        PROVE  UNCHANGED rows
    BY <1>2 DEF Connect, Disconnect, Resynchronize, ApplyEvent, Answer, Show,
                outbox
  <1>3. UNCHANGED vars => UNCHANGED rows
    BY DEF vars, outbox
  <1>. QED
    BY <1>1, <1>2, <1>3 DEF Next, Change

\* The new states of the rows that a step changes.
LEMMA RowsSet ==
    ASSUME TypeOK
    PROVE  /\ \A r \in DOMAIN rows :
                 Coalesce(r) => /\ SetState({r}, "updating")
                                /\ rows[r].topic \in Coalesced
                                /\ rows[r].state = "pending" /\ r \notin Locked
           /\ \A r \in DOMAIN rows :
                 Commit(r) => /\ SetState({r}, "pending")
                              /\ rows[r].state \in {"inserting", "updating"}
           /\ \A r \in DOMAIN rows :
                 Rollback(r) =>
                    \/ rows[r].state = "inserting" /\ SetState({r}, "aborted")
                    \/ rows[r].state = "updating" /\ SetState({r}, "pending")
           /\ \A p \in Processes : Publish(p) => SetState(claimed[p], "published")
  BY DEF Coalesce, Commit, Rollback, Publish

\* The outbox only grows.
LEMMA OutboxGrows == TypeOK /\ [Next]_vars => RowsGrow
  <1>. SUFFICES ASSUME TypeOK, [Next]_vars PROVE RowsGrow
    OBVIOUS
  <1>. USE DEF RowsGrow, States
  <1>1. CASE UNCHANGED rows
    BY <1>1
  <1>2. ASSUME NEW t \in Topics, Insert(t) PROVE RowsGrow
    BY <1>2, RowAdded
  <1>3. ASSUME NEW r \in DOMAIN rows, Coalesce(r) \/ Commit(r) \/ Rollback(r)
        PROVE  RowsGrow
    <2>1. PICK s \in States : SetState({r}, s)
      BY <1>3, RowsSet
    <2>2. rows[r].state # "published"
      BY <1>3, RowsSet
    <2>. QED
      BY <2>1, <2>2, StatesSet
  <1>4. ASSUME NEW p \in Processes, Publish(p) PROVE RowsGrow
    <2>1. SetState(claimed[p], "published")
      BY <1>4, RowsSet
    <2>. QED
      BY <2>1, StatesSet
  <1>. QED
    BY <1>1, <1>2, <1>3, <1>4, RowsChange

\* Only Claim, Publish, FailBatch and Restart change what is claimed.
LEMMA ClaimsChange ==
    ASSUME TypeOK, [Next]_vars
    PROVE  \/ UNCHANGED claimed
           \/ \E p \in Processes :
                 \/ Claim(p) \/ Publish(p)
                 \/ UNCHANGED rows /\ claimed' = [claimed EXCEPT ![p] = {}]
  <1>1. ASSUME NEW p \in Processes,
               \/ Dispatch(p) \/ DispatchFails(p) \/ LoseBroker(p)
               \/ ListenAgain(p) \/ RequireResynchronization(p)
        PROVE  UNCHANGED claimed
    BY <1>1 DEF Dispatch, DispatchFails, LoseBroker, ListenAgain,
                RequireResynchronization
  <1>2. ASSUME NEW p \in Processes, FailBatch(p) \/ Restart(p)
        PROVE  UNCHANGED rows /\ claimed' = [claimed EXCEPT ![p] = {}]
    BY <1>2 DEF FailBatch, Restart, outbox
  <1>3. ASSUME NEW c \in Clients,
               \/ \E p \in Processes : Connect(c, p)
               \/ Disconnect(c) \/ Resynchronize(c) \/ ApplyEvent(c)
               \/ \E t \in Topics : Answer(c, t)
               \/ \E a \in answers[c] : Show(c, a)
        PROVE  UNCHANGED claimed
    BY <1>3 DEF Connect, Disconnect, Resynchronize, ApplyEvent, Answer, Show,
                broker
  <1>4. Change => UNCHANGED claimed
    BY DEF Change, Insert, Coalesce, Commit, Rollback, broker
  <1>5. UNCHANGED vars => UNCHANGED claimed
    BY DEF vars, broker
  <1>. QED
    BY <1>1, <1>2, <1>3, <1>4, <1>5 DEF Next

\* FOR UPDATE SKIP LOCKED: the claims stay apart, and claimed rows committed.
LEMMA ClaimsStep == TypeOK /\ ClaimsApart /\ [Next]_vars => ClaimsApart'
  <1>. SUFFICES ASSUME TypeOK, ClaimsApart, [Next]_vars PROVE ClaimsApart'
    OBVIOUS
  <1>0. /\ claimed \in [Processes -> SUBSET DOMAIN rows]
        /\ \A p \in Processes : claimed[p] \subseteq Locked
    BY DEF TypeOK, Locked
  <1>1. ASSUME NEW p \in Processes, Claim(p) PROVE ClaimsApart'
    <2>. DEFINE pending == {r \in DOMAIN rows \ Locked : rows[r].state = "pending"}
                R == First(pending, BatchSize)
    <2>1. R \subseteq pending
      BY DEF First
    <2>2. rows' = rows /\ claimed' = [claimed EXCEPT ![p] = R]
      BY <1>1 DEF Claim, outbox
    <2>3. \A q \in Processes : claimed'[q] = IF q = p THEN R ELSE claimed[q]
      BY <1>0, <2>2
    <2>4. \A r \in R : rows[r].state = "pending" /\ r \notin Locked
      BY <2>1
    <2>. HIDE DEF R
    <2>. QED
      BY <1>0, <2>2, <2>3, <2>4 DEF ClaimsApart
  <1>2. ASSUME NEW p \in Processes, Publish(p) PROVE ClaimsApart'
    <2>1. /\ SetState(claimed[p], "published") /\ "published" \in States
          /\ claimed' = [claimed EXCEPT ![p] = {}]
      BY <1>2 DEF Publish, States
    <2>2. \A q \in Processes : claimed'[q] = IF q = p THEN {} ELSE claimed[q]
      BY <1>0, <2>1
    <2>3. \A r \in DOMAIN rows : r \notin claimed[p] => rows'[r].state = rows[r].state
      BY <2>1, StatesSet
    <2>. QED
      BY <1>0, <2>2, <2>3 DEF ClaimsApart
  <1>3. ASSUME NEW p \in Processes, UNCHANGED rows,
               claimed' = [claimed EXCEPT ![p] = {}]
        PROVE  ClaimsApart'
    BY <1>0, <1>3 DEF ClaimsApart
  <1>4. ASSUME UNCHANGED claimed,
               \A r \in Locked : rows'[r].state = rows[r].state
        PROVE  ClaimsApart'
    BY <1>0, <1>4 DEF ClaimsApart
  <1>5. Locked \subseteq DOMAIN rows /\ \A r \in Locked : rows[r].state = "pending"
    BY <1>0 DEF ClaimsApart, Locked
  <1>6. ASSUME NEW t \in Topics, Insert(t)
        PROVE  \A r \in Locked : rows'[r].state = rows[r].state
    BY <1>5, <1>6, RowAdded
  <1>7. ASSUME NEW r \in DOMAIN rows, Coalesce(r) \/ Commit(r) \/ Rollback(r)
        PROVE  \A q \in Locked : rows'[q].state = rows[q].state
    <2>1. PICK s \in States : SetState({r}, s)
      BY <1>7, RowsSet DEF States
    <2>2. r \notin Locked
      BY <1>5, <1>7, RowsSet
    <2>. QED
      BY <1>5, <2>1, <2>2, StatesSet
  <1>. QED
    BY <1>1, <1>2, <1>3, <1>4, <1>6, <1>7, ClaimsChange, RowsChange

\* A step other than Insert opens no row.
LEMMA NoneOpened ==
    ASSUME TypeOK, ClaimsApart, NEW R \in SUBSET DOMAIN rows, NEW s \in States,
           SetState(R, s),
           s = "published" \/ s = "aborted" \/ \A r \in R : Open(r)
    PROVE  OpenIsLast => OpenIsLast'
  <1>1. /\ DOMAIN rows' = DOMAIN rows
        /\ \A r \in DOMAIN rows : rows'[r].topic = rows[r].topic
        /\ \A r \in R : rows'[r].state = s
        /\ \A r \in DOMAIN rows \ R : rows'[r].state = rows[r].state
    BY StatesSet
  <1>2. ASSUME NEW r \in DOMAIN rows, Open(r)' PROVE Open(r)
    BY <1>1, <1>2 DEF Open
  <1>. QED
    BY <1>1, <1>2 DEF OpenIsLast

\* A row of a single record is inserted after every other row of it is closed.
LEMMA LastStep == TypeOK /\ OutboxInv /\ [Next]_vars => OpenIsLast'
  <1>. SUFFICES ASSUME TypeOK, ClaimsApart, OpenIsLast, [Next]_vars
                PROVE  OpenIsLast'
    BY DEF OutboxInv
  <1>1. ASSUME NEW t \in Topics, Insert(t) PROVE OpenIsLast'
    <2>. DEFINE new == Len(rows) + 1
    <2>1. /\ DOMAIN rows' = DOMAIN rows \cup {new}
          /\ \A r \in DOMAIN rows : rows'[r] = rows[r] /\ r < new
          /\ rows'[new] = [topic |-> t, state |-> "inserting"] /\ new \in Nat
      <3>1. new \in Nat
        BY DEF TypeOK
      <3>. QED
        BY <1>1, <3>1, RowAdded
    <2>2. /\ t \notin Shared => RowsOf(t, {"inserting", "updating"}) = {}
          /\ t \in Coalesced => RowsOf(t, {"pending"}) = {}
      BY <1>1 DEF Insert
    <2>3. \A r \in DOMAIN rows : r \in Nat
      BY RowFields
    <2>. HIDE DEF new
    <2>4. ASSUME NEW r \in DOMAIN rows', NEW q \in DOMAIN rows',
                 rows'[r].topic = rows'[q].topic, rows'[r].topic \notin Shared,
                 Open(r)'
          PROVE  q <= r
      <3>1. CASE r \in DOMAIN rows /\ q \in DOMAIN rows
        <4>1. Open(r)
          BY <2>1, <2>4, <3>1 DEF Open
        <4>. QED
          BY <2>1, <2>4, <3>1, <4>1 DEF OpenIsLast
      <3>2. CASE r = new
        BY <2>1, <2>3, <3>2
      <3>3. CASE r \in DOMAIN rows /\ q = new
        <4>1. rows[r].topic = t /\ t \notin Shared
          BY <2>1, <2>4, <3>3
        <4>2. rows[r].state \notin {"inserting", "updating"}
          BY <2>2, <3>3, <4>1 DEF RowsOf
        <4>3. t \in Coalesced => rows[r].state # "pending"
          BY <2>2, <3>3, <4>1 DEF RowsOf
        <4>. QED
          BY <2>1, <2>4, <3>3, <4>1, <4>2, <4>3 DEF Open
      <3>. QED
        BY <2>1, <3>1, <3>2, <3>3
    <2>. QED
      BY <2>4 DEF OpenIsLast
  <1>2. ASSUME NEW r \in DOMAIN rows, Coalesce(r) \/ Commit(r) \/ Rollback(r)
        PROVE  OpenIsLast'
    <2>1. PICK s \in States : SetState({r}, s)
      BY <1>2, RowsSet DEF States
    <2>2. Open(r)
      BY <1>2, RowsSet DEF Open
    <2>. QED
      BY <2>1, <2>2, NoneOpened
  <1>3. ASSUME NEW p \in Processes, Publish(p) PROVE OpenIsLast'
    <2>1. SetState(claimed[p], "published") /\ claimed[p] \in SUBSET DOMAIN rows
      BY <1>3, RowsSet DEF TypeOK
    <2>2. "published" \in States
      BY DEF States
    <2>. QED
      BY <2>1, <2>2, NoneOpened
  <1>4. UNCHANGED rows => OpenIsLast'
    BY DEF OpenIsLast, Open
  <1>. QED
    BY <1>1, <1>2, <1>3, <1>4, RowsChange

\* The claims are apart, and open rows are the last ones, at the start and
\* after every step.
LEMMA OutboxInvariant == Spec => []OutboxInv
  <1>1. Init => OutboxInv
    BY DEF Init, OutboxInv, ClaimsApart, OpenIsLast
  <1>2. TypeOK /\ OutboxInv /\ [Next]_vars => OutboxInv'
    BY ClaimsStep, LastStep DEF OutboxInv
  <1>. QED
    BY <1>1, <1>2, TypeCorrect, PTL DEF Spec

-----------------------------------------------------------------------------
(* The events on their way.                                                *)

\* What waits in a process or for a page, and what a page has applied last,
\* are events that are published.
SentIsPublished ==
    /\ \A p \in Processes : \A i \in DOMAIN queue[p] :
          rows[queue[p][i]].state = "published"
    /\ \A c \in Clients : \A i \in DOMAIN inbox[c] :
          inbox[c][i] = Refresh \/ rows[inbox[c][i]].state = "published"
    /\ \A c \in Clients, t \in Topics :
          latest[c][t] = 0 \/ latest[c][t] \in RowsOf(t, {"published"})

\* The rows that queues and messages name exist.
LEMMA SentExists ==
    ASSUME TypeOK
    PROVE  /\ \A p \in Processes : \A i \in DOMAIN queue[p] : queue[p][i] \in DOMAIN rows
           /\ \A c \in Clients : \A i \in DOMAIN inbox[c] :
                 inbox[c][i] = Refresh \/ inbox[c][i] \in DOMAIN rows
  <1>. DEFINE D == DOMAIN rows
              M == {Refresh} \cup D
  <1>1. queue \in [Processes -> Seq(D)] /\ inbox \in [Clients -> Seq(M)]
    BY DEF TypeOK
  <1>. HIDE DEF D
  <1>2. \A p \in Processes : \A i \in DOMAIN queue[p] : queue[p][i] \in D
    BY <1>1
  <1>3. \A c \in Clients : \A i \in DOMAIN inbox[c] : inbox[c][i] \in M
    <2>. HIDE DEF M
    <2>. QED
      BY <1>1
  <1>. QED
    BY <1>2, <1>3 DEF D

\* Which steps change the queue of a process, and how.
QueueChange(p) ==
    \/ queue' = queue
    \/ UNCHANGED rows /\ queue' = [queue EXCEPT ![p] = <<>>]
    \/ /\ queue[p] # <<>> /\ UNCHANGED rows
       /\ queue' = [queue EXCEPT ![p] = Tail(@)]
    \/ Publish(p)

\* Which steps change the messages for a page, and how.
InboxChange(c) ==
    \/ inbox'[c] = inbox[c]
    \/ inbox'[c] = <<>>
    \/ inbox'[c] = <<Refresh>>
    \/ inbox[c] # <<>> /\ inbox'[c] = Tail(inbox[c])
    \/ inbox'[c] = Append(inbox[c], Refresh)
    \/ \E p \in Processes :
          queue[p] # <<>> /\ inbox'[c] = Append(inbox[c], Head(queue[p]))

\* Every step changes the queues and the messages in one of these ways.
LEMMA SentChange ==
    ASSUME TypeOK, [Next]_vars
    PROVE  /\ queue' = queue \/ \E p \in Processes : QueueChange(p)
           /\ \A c \in Clients : InboxChange(c)
           /\ \/ latest' = latest
              \/ \E c \in Clients : ApplyEvent(c)
  <1>. USE DEF QueueChange, InboxChange, outbox, broker, socket, page
  <1>. DEFINE Goal == /\ queue' = queue \/ \E p \in Processes : QueueChange(p)
                      /\ \A c \in Clients : InboxChange(c)
                      /\ latest' = latest \/ \E c \in Clients : ApplyEvent(c)
  <1>1. CASE UNCHANGED vars
    BY <1>1 DEF vars
  <1>2. CASE Change
    BY <1>2 DEF Change, Insert, Coalesce, Commit, Rollback
  <1>3. ASSUME NEW p \in Processes,
               \/ Claim(p) \/ FailBatch(p) \/ LoseBroker(p) \/ ListenAgain(p)
        PROVE  Goal
    BY <1>3 DEF Claim, FailBatch, LoseBroker, ListenAgain
  <1>4. ASSUME NEW p \in Processes, Publish(p) PROVE Goal
    BY <1>4 DEF Publish
  <1>5. ASSUME NEW p \in Processes, Dispatch(p) PROVE Goal
    <2>1. /\ queue[p] # <<>> /\ queue' = [queue EXCEPT ![p] = Tail(@)]
          /\ Put(Head(queue[p]), At(p)) /\ UNCHANGED rows /\ latest' = latest
      BY <1>5 DEF Dispatch
    <2>2. \A c \in Clients : \/ inbox'[c] = inbox[c] \/ inbox'[c] = <<>>
                             \/ inbox'[c] = Append(inbox[c], Head(queue[p]))
      BY <2>1 DEF Put
    <2>. QED
      BY <2>1, <2>2
  <1>6. ASSUME NEW p \in Processes, DispatchFails(p) PROVE Goal
    BY <1>6 DEF DispatchFails
  <1>7. ASSUME NEW p \in Processes, RequireResynchronization(p) PROVE Goal
    <2>1. Put(Refresh, At(p)) /\ queue' = queue /\ latest' = latest
      BY <1>7 DEF RequireResynchronization
    <2>2. \A c \in Clients : \/ inbox'[c] = inbox[c] \/ inbox'[c] = <<>>
                             \/ inbox'[c] = Append(inbox[c], Refresh)
      BY <2>1 DEF Put
    <2>. QED
      BY <2>1, <2>2
  <1>8. ASSUME NEW p \in Processes, Restart(p) PROVE Goal
    BY <1>8 DEF Restart
  <1>9. ASSUME NEW c \in Clients,
               \/ \E p \in Processes : Connect(c, p)
               \/ Disconnect(c) \/ Resynchronize(c) \/ ApplyEvent(c)
               \/ \E t \in Topics : Answer(c, t)
               \/ \E a \in answers[c] : Show(c, a)
        PROVE  Goal
    <2>1. inbox \in [Clients -> Seq({Refresh} \cup DOMAIN rows)]
      BY DEF TypeOK
    <2>2. queue' = queue /\ (latest' = latest \/ ApplyEvent(c))
      BY <1>9 DEF Connect, Disconnect, Resynchronize, ApplyEvent, Answer, Show
    <2>3. \/ inbox' = inbox
          \/ inbox' = [inbox EXCEPT ![c] = <<Refresh>>]
          \/ inbox' = [inbox EXCEPT ![c] = <<>>]
          \/ inbox[c] # <<>> /\ inbox' = [inbox EXCEPT ![c] = Tail(@)]
      BY <1>9 DEF Connect, Disconnect, Resynchronize, ApplyEvent, Answer, Show
    <2>4. \A d \in Clients : InboxChange(d)
      BY <2>1, <2>3
    <2>. QED
      BY <2>2, <2>4
  <1>. QED
    BY <1>1, <1>2, <1>3, <1>4, <1>5, <1>6, <1>7, <1>8, <1>9 DEF Next

\* Nothing is sent that is not published, and it stays published.
LEMMA SentStep ==
    TypeOK /\ SentIsPublished /\ [Next]_vars => SentIsPublished'
  <1>. SUFFICES ASSUME TypeOK, SentIsPublished, [Next]_vars
                PROVE  SentIsPublished'
    OBVIOUS
  <1>0. /\ RowsGrow
        /\ queue \in [Processes -> Seq(DOMAIN rows)]
        /\ inbox \in [Clients -> Seq({Refresh} \cup DOMAIN rows)]
        /\ latest \in [Clients -> [Topics -> Nat]]
    BY OutboxGrows DEF TypeOK
  <1>1. ASSUME NEW p \in Processes PROVE \A i \in DOMAIN queue[p] :
            queue[p][i] \in DOMAIN rows /\ rows'[queue[p][i]].state = "published"
    BY <1>0, SentExists DEF SentIsPublished, RowsGrow
  <1>2. ASSUME NEW c \in Clients PROVE \A i \in DOMAIN inbox[c] :
            inbox[c][i] = Refresh \/ rows'[inbox[c][i]].state = "published"
    BY <1>0, SentExists DEF SentIsPublished, RowsGrow
  <1>3. ASSUME NEW p \in Processes
        PROVE  \A i \in DOMAIN queue'[p] : rows'[queue'[p][i]].state = "published"
    <2>1. CASE queue'[p] = queue[p]
      BY <1>1, <2>1
    <2>2. CASE queue'[p] = <<>>
      BY <2>2
    <2>3. CASE queue[p] # <<>> /\ queue'[p] = Tail(queue[p])
      <3>. DEFINE D == DOMAIN rows
      <3>1. queue[p] \in Seq(D)
        BY <1>0
      <3>. HIDE DEF D
      <3>2. \A i \in DOMAIN queue'[p] :
              i + 1 \in DOMAIN queue[p] /\ queue'[p][i] = queue[p][i + 1]
        BY <2>3, <3>1, HeadAndTail
      <3>. QED
        BY <1>1, <3>2
    <2>4. ASSUME NEW q \in Processes, Publish(q)
          PROVE  \A i \in DOMAIN queue'[p] : rows'[queue'[p][i]].state = "published"
      <3>1. \A i \in DOMAIN queue'[p] :
              \/ i \in DOMAIN queue[p] /\ queue'[p][i] = queue[p][i]
              \/ queue'[p][i] \in claimed[q]
        BY <2>4, QueueEffect
      <3>2. \A r \in claimed[q] : rows'[r].state = "published"
        <4>1. SetState(claimed[q], "published") /\ claimed[q] \subseteq DOMAIN rows
          BY <2>4, RowsSet DEF TypeOK
        <4>. QED
          BY <4>1, StatesSet DEF States
      <3>. QED
        BY <1>1, <3>1, <3>2
    <2>5. \/ queue'[p] = queue[p]
          \/ queue'[p] = <<>>
          \/ queue[p] # <<>> /\ queue'[p] = Tail(queue[p])
          \/ \E q \in Processes : Publish(q)
      BY <1>0, SentChange DEF QueueChange
    <2>. QED
      BY <2>1, <2>2, <2>3, <2>4, <2>5
  <1>4. ASSUME NEW c \in Clients
        PROVE  \A i \in DOMAIN inbox'[c] :
                  inbox'[c][i] = Refresh \/ rows'[inbox'[c][i]].state = "published"
    <2>. DEFINE M == {Refresh} \cup DOMAIN rows
                Fit(m) == m = Refresh \/ rows'[m].state = "published"
    <2>1. inbox[c] \in Seq(M)
      BY <1>0
    <2>2. \A i \in DOMAIN inbox[c] : Fit(inbox[c][i])
      BY <1>2
    <2>3. \A p \in Processes : queue[p] # <<>> => Fit(Head(queue[p]))
      <3>. SUFFICES ASSUME NEW p \in Processes, queue[p] # <<>>
                    PROVE  Fit(Head(queue[p]))
        OBVIOUS
      <3>. DEFINE D == DOMAIN rows
      <3>1. queue[p] \in Seq(D)
        BY <1>0
      <3>. HIDE DEF D
      <3>2. Head(queue[p]) = queue[p][1] /\ 1 \in DOMAIN queue[p]
        BY <3>1, HeadAndTail
      <3>. QED
        BY <1>1, <3>2
    <2>4. Fit(Refresh)
      OBVIOUS
    <2>. HIDE DEF M, Fit
    <2>5. ASSUME NEW m, Fit(m), inbox'[c] = Append(inbox[c], m)
          PROVE  \A i \in DOMAIN inbox'[c] : Fit(inbox'[c][i])
      BY <2>1, <2>2, <2>5
    <2>6. CASE inbox[c] # <<>> /\ inbox'[c] = Tail(inbox[c])
      <3>1. \A i \in DOMAIN inbox'[c] :
              i + 1 \in DOMAIN inbox[c] /\ inbox'[c][i] = inbox[c][i + 1]
        BY <2>1, <2>6, HeadAndTail
      <3>2. \A i \in DOMAIN inbox'[c] : Fit(inbox'[c][i])
        BY <2>2, <3>1
      <3>. QED
        BY <3>2 DEF Fit
    <2>7. CASE inbox'[c] = <<>> \/ inbox'[c] = <<Refresh>>
      BY <2>7
    <2>8. CASE inbox'[c] = inbox[c]
      BY <1>2, <2>8
    <2>9. \A i \in DOMAIN inbox'[c] : Fit(inbox'[c][i])
      BY <2>3, <2>4, <2>5, <2>6, <2>7, <2>8, SentChange DEF InboxChange, Fit
    <2>. QED
      BY <2>9 DEF Fit
  <1>5. ASSUME NEW c \in Clients, NEW t \in Topics
        PROVE  latest'[c][t] = 0 \/ latest'[c][t] \in RowsOf(t, {"published"})'
    <2>1. ASSUME NEW r \in RowsOf(t, {"published"})
          PROVE  r \in RowsOf(t, {"published"})'
      BY <1>0, <2>1 DEF RowsOf, RowsGrow
    <2>2. CASE latest'[c][t] = latest[c][t]
      BY <2>1, <2>2 DEF SentIsPublished
    <2>3. ASSUME NEW d \in Clients, ApplyEvent(d), latest'[c][t] # latest[c][t]
          PROVE  latest'[c][t] \in RowsOf(t, {"published"})
      <3>. DEFINE r == Head(inbox[d])
                  M == {Refresh} \cup DOMAIN rows
      <3>1. /\ inbox[d] # <<>> /\ r # Refresh
            /\ \/ latest' = latest
               \/ latest' = [latest EXCEPT ![d][rows[r].topic] = r]
        BY <2>3 DEF ApplyEvent
      <3>2. latest'[c][t] = r /\ rows[r].topic = t
        <4>1. latest \in [Clients -> [Topics -> Nat]]
          BY <1>0
        <4>2. latest' = [latest EXCEPT ![d][rows[r].topic] = r]
          BY <2>3, <3>1
        <4>. DEFINE top == rows[r].topic
        <4>. HIDE DEF r, top
        <4>. QED
          BY <2>3, <4>1, <4>2 DEF top
      <3>3. inbox[d] \in Seq(M)
        BY <1>0
      <3>4. r = inbox[d][1] /\ 1 \in DOMAIN inbox[d]
        <4>. HIDE DEF M
        <4>. QED
          BY <3>1, <3>3, HeadAndTail
      <3>5. r \in DOMAIN rows /\ rows[r].state = "published"
        BY <3>1, <3>4, SentExists DEF SentIsPublished
      <3>. QED
        BY <3>2, <3>5 DEF RowsOf
    <2>. QED
      BY <2>1, <2>2, <2>3, SentChange
  <1>. QED
    BY <1>3, <1>4, <1>5 DEF SentIsPublished

-----------------------------------------------------------------------------
(* What the pages show.                                                    *)

\* A page waits for one answer of a topic at most; the answer is no older than
\* what the page shows, and no newer than the data of the backend.
PageInv ==
    \A c \in Clients :
       /\ \A a \in answers[c] :
             /\ a[1] \notin asked[c]
             /\ seen[c][a[1]] <= a[2] /\ a[2] <= version[a[1]]
       /\ \A a, b \in answers[c] : a[1] = b[1] => a = b
       /\ \A t \in Topics : seen[c][t] <= version[t]

\* How a step changes what a page has asked, is to be answered and shows.
PageChange(c) ==
    \/ asked'[c] = asked[c] /\ answers'[c] = answers[c] /\ seen'[c] = seen[c]
    \/ \E T \in SUBSET Topics :
          /\ asked'[c] = asked[c] \cup T
          /\ answers'[c] = {a \in answers[c] : a[1] \notin T}
          /\ seen'[c] = seen[c]
    \/ \E t \in asked[c] :
          /\ asked'[c] = asked[c] \ {t}
          /\ answers'[c] = answers[c] \cup {<<t, version[t]>>}
          /\ seen'[c] = seen[c] /\ version' = version
    \/ \E a \in answers[c] :
          /\ asked'[c] = asked[c] /\ answers'[c] = answers[c] \ {a}
          /\ seen'[c] = [seen[c] EXCEPT ![a[1]] = a[2]]

\* Every step changes a page in one of these ways, and versions only grow.
LEMMA PagesChange ==
    ASSUME TypeOK, [Next]_vars
    PROVE  /\ \A c \in Clients : PageChange(c)
           /\ \A t \in Topics : version[t] <= version'[t]
  <1>. USE DEF outbox, broker, socket, page
  <1>0. /\ version \in [Topics -> Nat] /\ asked \in [Clients -> SUBSET Topics]
        /\ answers \in [Clients -> SUBSET (Topics \X Nat)]
        /\ seen \in [Clients -> [Topics -> Nat]]
    BY DEF TypeOK
  <1>1. \A t \in Topics : version[t] <= version[t]
    BY <1>0
  <1>. DEFINE Goal == /\ \A c \in Clients : PageChange(c)
                      /\ \A t \in Topics : version[t] <= version'[t]
  <1>2. ASSUME UNCHANGED page, version' = version PROVE Goal
    BY <1>1, <1>2 DEF PageChange
  <1>3. ASSUME NEW r \in DOMAIN rows, Commit(r) PROVE Goal
    <2>1. version' = [version EXCEPT ![rows[r].topic] = @ + 1] /\ UNCHANGED page
      BY <1>3 DEF Commit
    <2>2. \A t \in Topics : version[t] <= version'[t]
      BY <1>0, <2>1
    <2>. QED
      BY <2>1, <2>2 DEF PageChange
  <1>4. ASSUME NEW c \in Clients, NEW T \in SUBSET Topics, Invalidate(c, T),
               seen' = seen, version' = version
        PROVE  Goal
    <2>1. asked'[c] = asked[c] \cup T
          /\ answers'[c] = {a \in answers[c] : a[1] \notin T}
      BY <1>0, <1>4 DEF Invalidate
    <2>2. \A d \in Clients : d # c => asked'[d] = asked[d] /\ answers'[d] = answers[d]
      BY <1>0, <1>4 DEF Invalidate
    <2>3. PageChange(c)
      BY <1>4, <2>1 DEF PageChange
    <2>4. \A d \in Clients : d # c => PageChange(d)
      BY <1>4, <2>2 DEF PageChange
    <2>. QED
      BY <1>1, <1>4, <2>3, <2>4
  <1>5. ASSUME NEW c \in Clients, Resynchronize(c) PROVE Goal
    <2>1. Invalidate(c, Refreshed) /\ seen' = seen /\ version' = version
      BY <1>5 DEF Resynchronize
    <2>. QED
      BY <1>4, <2>1, TopicsAssumption
  <1>6. ASSUME NEW c \in Clients, ApplyEvent(c) PROVE Goal
    <2>. DEFINE t == rows[Head(inbox[c])].topic
    <2>1. /\ seen' = seen /\ version' = version
          /\ UNCHANGED <<asked, answers>> \/ Invalidate(c, {t})
      BY <1>6 DEF ApplyEvent
    <2>2. CASE UNCHANGED <<asked, answers>>
      BY <1>1, <2>1, <2>2 DEF PageChange
    <2>3. t \in Topics
      <3>. DEFINE M == {Refresh} \cup DOMAIN rows
      <3>1. inbox[c] \in Seq(M) /\ inbox[c] # <<>> /\ Head(inbox[c]) # Refresh
        BY <1>6 DEF ApplyEvent, TypeOK
      <3>2. Head(inbox[c]) \in M
        <4>. HIDE DEF M
        <4>. QED
          BY <3>1, HeadAndTail
      <3>. QED
        BY <3>1, <3>2, RowFields
    <2>4. {t} \in SUBSET Topics
      BY <2>3
    <2>. HIDE DEF t
    <2>. QED
      BY <1>4, <2>1, <2>2, <2>4
  <1>7. ASSUME NEW c \in Clients, NEW t \in Topics, Answer(c, t) PROVE Goal
    <2>1. /\ t \in asked[c] /\ seen' = seen /\ version' = version
          /\ asked' = [asked EXCEPT ![c] = @ \ {t}]
          /\ answers' = [answers EXCEPT ![c] = @ \cup {<<t, version[t]>>}]
      BY <1>7 DEF Answer
    <2>2. PageChange(c)
      BY <1>0, <2>1 DEF PageChange
    <2>3. \A d \in Clients : d # c => PageChange(d)
      BY <1>0, <2>1 DEF PageChange
    <2>. QED
      BY <1>1, <2>1, <2>2, <2>3
  <1>8. ASSUME NEW c \in Clients, NEW a \in answers[c], Show(c, a) PROVE Goal
    <2>1. /\ seen' = [seen EXCEPT ![c][a[1]] = a[2]] /\ version' = version
          /\ answers' = [answers EXCEPT ![c] = @ \ {a}] /\ asked' = asked
      BY <1>8 DEF Show
    <2>2. PageChange(c)
      <3>1. /\ seen'[c] = [seen[c] EXCEPT ![a[1]] = a[2]]
            /\ answers'[c] = answers[c] \ {a} /\ asked'[c] = asked[c]
        BY <1>0, <2>1
      <3>. QED
        BY <3>1 DEF PageChange
    <2>3. \A d \in Clients : d # c => PageChange(d)
      BY <1>0, <2>1 DEF PageChange
    <2>. QED
      BY <1>1, <2>1, <2>2, <2>3
  <1>9. UNCHANGED vars => UNCHANGED page /\ version' = version
    BY DEF vars
  <1>10. ASSUME NEW t \in Topics, Insert(t) PROVE Goal
    BY <1>2, <1>10 DEF Insert
  <1>11. ASSUME NEW r \in DOMAIN rows, Coalesce(r) \/ Rollback(r) PROVE Goal
    BY <1>2, <1>11 DEF Coalesce, Rollback
  <1>12. ASSUME NEW p \in Processes,
                \/ Claim(p) \/ Publish(p) \/ FailBatch(p)
                \/ Dispatch(p) \/ DispatchFails(p) \/ LoseBroker(p)
                \/ ListenAgain(p) \/ RequireResynchronization(p) \/ Restart(p)
         PROVE  Goal
    <2>1. UNCHANGED page /\ version' = version
      BY <1>12 DEF Claim, Publish, FailBatch, Dispatch, DispatchFails,
                   LoseBroker, ListenAgain, RequireResynchronization, Restart
    <2>. QED
      BY <1>2, <2>1
  <1>13. ASSUME NEW c \in Clients,
                (\E p \in Processes : Connect(c, p)) \/ Disconnect(c)
         PROVE  Goal
    BY <1>2, <1>13 DEF Connect, Disconnect
  <1>. HIDE DEF Goal
  <1>14. Goal
    BY <1>2, <1>3, <1>5, <1>6, <1>7, <1>8, <1>9, <1>10, <1>11, <1>12, <1>13
       DEF Next, Change
  <1>. QED
    BY <1>14 DEF Goal

\* A page never has two answers of a topic to choose from.
LEMMA PageStep == TypeOK /\ PageInv /\ [Next]_vars => PageInv'
  <1>. SUFFICES ASSUME TypeOK, PageInv, [Next]_vars, NEW c \in Clients
                PROVE  /\ \A a \in answers'[c] :
                             /\ a[1] \notin asked'[c]
                             /\ seen'[c][a[1]] <= a[2] /\ a[2] <= version'[a[1]]
                       /\ \A a, b \in answers'[c] : a[1] = b[1] => a = b
                       /\ \A t \in Topics : seen'[c][t] <= version'[t]
    BY DEF PageInv
  <1>0. /\ version \in [Topics -> Nat] /\ version' \in [Topics -> Nat]
        /\ asked[c] \in SUBSET Topics /\ seen[c] \in [Topics -> Nat]
        /\ answers[c] \in SUBSET (Topics \X Nat)
    BY TypeNext DEF TypeOK
  <1>1. /\ \A a \in answers[c] :
             /\ a \in Topics \X Nat /\ a[1] \in Topics /\ a[2] \in Nat
             /\ a[1] \notin asked[c]
             /\ seen[c][a[1]] <= a[2] /\ a[2] <= version[a[1]]
             /\ a[2] <= version'[a[1]]
        /\ \A a, b \in answers[c] : a[1] = b[1] => a = b
        /\ \A t \in Topics : seen[c][t] <= version[t] /\ seen[c][t] <= version'[t]
    <2>1. \A a \in answers[c] :
             /\ a \in Topics \X Nat /\ a[1] \in Topics /\ a[2] \in Nat
             /\ a[1] \notin asked[c]
             /\ seen[c][a[1]] <= a[2] /\ a[2] <= version[a[1]]
      BY <1>0 DEF PageInv
    <2>2. \A t \in Topics : version[t] <= version'[t]
      BY PagesChange
    <2>3. \A a \in answers[c] : a[2] <= version'[a[1]]
      BY <1>0, <2>1, <2>2
    <2>4. \A t \in Topics : seen[c][t] <= version[t] /\ seen[c][t] <= version'[t]
      BY <1>0, <2>2 DEF PageInv
    <2>. QED
      BY <2>1, <2>3, <2>4 DEF PageInv
  <1>2. CASE asked'[c] = asked[c] /\ answers'[c] = answers[c] /\ seen'[c] = seen[c]
    BY <1>1, <1>2
  <1>3. ASSUME NEW T \in SUBSET Topics, asked'[c] = asked[c] \cup T,
               answers'[c] = {a \in answers[c] : a[1] \notin T},
               seen'[c] = seen[c]
        PROVE  /\ \A a \in answers'[c] :
                    /\ a[1] \notin asked'[c]
                    /\ seen'[c][a[1]] <= a[2] /\ a[2] <= version'[a[1]]
               /\ \A a, b \in answers'[c] : a[1] = b[1] => a = b
               /\ \A t \in Topics : seen'[c][t] <= version'[t]
    BY <1>1, <1>3
  <1>4. ASSUME NEW t \in asked[c], asked'[c] = asked[c] \ {t},
               answers'[c] = answers[c] \cup {<<t, version[t]>>},
               seen'[c] = seen[c], version' = version
        PROVE  /\ \A a \in answers'[c] :
                    /\ a[1] \notin asked'[c]
                    /\ seen'[c][a[1]] <= a[2] /\ a[2] <= version'[a[1]]
               /\ \A a, b \in answers'[c] : a[1] = b[1] => a = b
               /\ \A u \in Topics : seen'[c][u] <= version'[u]
    <2>. DEFINE new == <<t, version[t]>>
    <2>1. new[1] = t /\ new[2] = version[t] /\ t \in Topics /\ version[t] \in Nat
      BY <1>0
    <2>2. \A a \in answers[c] : a[1] # t
      BY <1>1
    <2>. HIDE DEF new
    <2>3. answers'[c] = answers[c] \cup {new}
      BY <1>4 DEF new
    <2>. QED
      BY <1>0, <1>1, <1>4, <2>1, <2>2, <2>3
  <1>5. ASSUME NEW x \in answers[c], asked'[c] = asked[c],
               answers'[c] = answers[c] \ {x},
               seen'[c] = [seen[c] EXCEPT ![x[1]] = x[2]]
        PROVE  /\ \A a \in answers'[c] :
                    /\ a[1] \notin asked'[c]
                    /\ seen'[c][a[1]] <= a[2] /\ a[2] <= version'[a[1]]
               /\ \A a, b \in answers'[c] : a[1] = b[1] => a = b
               /\ \A t \in Topics : seen'[c][t] <= version'[t]
    <2>1. \A a \in answers'[c] : a[1] # x[1]
      BY <1>1, <1>5
    <2>2. \A t \in Topics : seen'[c][t] = IF t = x[1] THEN x[2] ELSE seen[c][t]
      BY <1>0, <1>5
    <2>. QED
      BY <1>1, <1>5, <2>1, <2>2
  <1>6. PageChange(c)
    BY PagesChange
  <1>. QED
    BY <1>2, <1>3, <1>4, <1>5, <1>6 DEF PageChange

\* What a page shows only ever gets newer.
LEMMA PageGetsNewer ==
    TypeOK /\ PageInv /\ [Next]_vars =>
        \A c \in Clients, t \in Topics : seen'[c][t] >= seen[c][t]
  <1>. SUFFICES ASSUME TypeOK, PageInv, [Next]_vars,
                       NEW c \in Clients, NEW t \in Topics
                PROVE  seen'[c][t] >= seen[c][t]
    OBVIOUS
  <1>1. seen[c] \in [Topics -> Nat] /\ answers[c] \in SUBSET (Topics \X Nat)
    BY DEF TypeOK
  <1>2. CASE seen'[c] = seen[c]
    BY <1>1, <1>2
  <1>3. ASSUME NEW a \in answers[c], seen'[c] = [seen[c] EXCEPT ![a[1]] = a[2]]
        PROVE  seen'[c][t] >= seen[c][t]
    <2>1. a[1] \in Topics /\ a[2] \in Nat /\ seen[c][a[1]] <= a[2]
      BY <1>1 DEF PageInv
    <2>. QED
      BY <1>1, <1>3, <2>1
  <1>4. PageChange(c)
    BY PagesChange
  <1>. QED
    BY <1>2, <1>3, <1>4 DEF PageChange

\* The state of the events and of the pages that every step keeps.
DeliveryInv == SentIsPublished /\ PageInv

\* Events are sent when they are published, and answers come in order.
LEMMA DeliveryInvariant == Spec => []DeliveryInv
  <1>1. Init => DeliveryInv
    <2>. SUFFICES ASSUME Init PROVE DeliveryInv
      OBVIOUS
    <2>1. SentIsPublished
      BY DEF Init, SentIsPublished
    <2>2. PageInv
      BY DEF Init, PageInv
    <2>. QED
      BY <2>1, <2>2 DEF DeliveryInv
  <1>2. TypeOK /\ DeliveryInv /\ [Next]_vars => DeliveryInv'
    BY SentStep, PageStep DEF DeliveryInv
  <1>. QED
    BY <1>1, <1>2, TypeCorrect, PTL DEF Spec

\* RealtimeProvider.tsx: whatever is lost, reordered or asked again, a page
\* never goes back to older data, for each of its topics.
THEOREM NeverGoesBack == Spec => ViewNeverGoesBack
  <1>1. TypeOK /\ DeliveryInv /\ [Next]_vars =>
           [\A c \in Clients, t \in Topics : seen'[c][t] >= seen[c][t]]_vars
    BY PageGetsNewer DEF DeliveryInv
  <1>. QED
    BY <1>1, TypeCorrect, DeliveryInvariant, PTL DEF Spec, ViewNeverGoesBack

\* A commit is a commit of the view, an answer that is shown is one of the
\* versions between what the page shows and what is committed, and no other
\* step is seen.
LEMMA ViewsStep ==
    ASSUME TypeOK, PageInv, [Next]_vars
    PROVE  Views!Next \/ UNCHANGED <<version, seen>>
  <1>. USE DEF outbox, page
  <1>1. ASSUME NEW r \in DOMAIN rows, Commit(r) PROVE Views!Next
    <2>1. rows[r].topic \in Topics
      BY RowFields
    <2>2. /\ version' = [version EXCEPT ![rows[r].topic] = @ + 1]
          /\ seen' = seen
      BY <1>1 DEF Commit
    <2>. QED
      BY <2>1, <2>2 DEF Views!Next, Views!Commit
  <1>2. ASSUME NEW c \in Clients, NEW a \in answers[c], Show(c, a)
        PROVE  Views!Next
    <2>1. seen[c] \in [Topics -> Nat] /\ version \in [Topics -> Nat]
          /\ a \in Topics \X Nat
      BY DEF TypeOK
    <2>2. seen[c][a[1]] <= a[2] /\ a[2] <= version[a[1]]
      BY DEF PageInv
    <2>3. a[1] \in Topics /\ a[2] \in seen[c][a[1]] .. version[a[1]]
      BY <2>1, <2>2
    <2>4. /\ seen' = [seen EXCEPT ![c][a[1]] = a[2]] /\ version' = version
      BY <1>2 DEF Show
    <2>5. Views!Show(c, a[1])
      BY <2>3, <2>4 DEF Views!Show
    <2>. QED
      BY <2>3, <2>5 DEF Views!Next
  <1>3. ASSUME \/ \E t \in Topics : Insert(t)
               \/ \E r \in DOMAIN rows : Coalesce(r) \/ Rollback(r)
        PROVE  UNCHANGED <<version, seen>>
    BY <1>3 DEF Insert, Coalesce, Rollback
  <1>4. ASSUME NEW p \in Processes,
               \/ Claim(p) \/ Publish(p) \/ FailBatch(p)
               \/ Dispatch(p) \/ DispatchFails(p) \/ LoseBroker(p)
               \/ ListenAgain(p) \/ RequireResynchronization(p) \/ Restart(p)
        PROVE  UNCHANGED <<version, seen>>
    BY <1>4 DEF Claim, Publish, FailBatch, Dispatch, DispatchFails, LoseBroker,
                ListenAgain, RequireResynchronization, Restart
  <1>5. ASSUME NEW c \in Clients,
               \/ \E p \in Processes : Connect(c, p)
               \/ Disconnect(c) \/ Resynchronize(c) \/ ApplyEvent(c)
               \/ \E t \in Topics : Answer(c, t)
        PROVE  UNCHANGED <<version, seen>>
    BY <1>5 DEF Connect, Disconnect, Resynchronize, ApplyEvent, Answer
  <1>6. UNCHANGED vars => UNCHANGED <<version, seen>>
    BY DEF vars
  <1>. QED
    BY <1>1, <1>2, <1>3, <1>4, <1>5, <1>6 DEF Next, Change

\* RealtimeProvider.tsx and eventRouter.ts: the outbox, the broker, the
\* websockets and the requests of the pages together implement a view that
\* follows the commits, whatever fails, for any bounds and any topics.
THEOREM DeliveryImplementsViews == Spec => ImplementsViews
  <1>1. Init => Views!Init
    BY DEF Init, Views!Init
  <1>2. TypeOK /\ DeliveryInv /\ [Next]_vars => [Views!Next]_<<version, seen>>
    BY ViewsStep DEF DeliveryInv
  <1>. QED
    BY <1>1, <1>2, TypeCorrect, DeliveryInvariant, PTL
    DEF Spec, ImplementsViews, Views!Spec

-----------------------------------------------------------------------------
(* A page that shows old data is bound to hear of it.                      *)

\* What the page shows, or is going to show, is not what the backend has.
Stale(c, t) ==
    \/ seen[c][t] # version[t]
    \/ \E a \in answers[c] : a[1] = t /\ a[2] # version[t]

\* The invariant that every step keeps: also a page with an old answer on its
\* way is bound to hear of the change.
InformedOf(c, t) == at[c] # Offline /\ Stale(c, t) => Coming(c, t)
Informed == \A c \in Clients, t \in Refreshed \ Shared : InformedOf(c, t)

\* The four places where what is coming can be.
Requested(c, t) == t \in asked[c] \/ <<t, version[t]>> \in answers[c]
Arriving(c, t) ==
    \E i \in DOMAIN inbox[c] :
       \/ inbox[c][i] = Refresh
       \/ rows[inbox[c][i]].topic = t /\ inbox[c][i] > latest[c][t]
Waiting(c, t) ==
    \/ resync[at[c]] \/ ~listening[at[c]]
    \/ \E i \in DOMAIN queue[at[c]] :
          rows[queue[at[c]][i]].topic = t /\ queue[at[c]][i] > latest[c][t]
Stored(c, t) == \E r \in RowsOf(t, {"pending", "updating"}) : r > latest[c][t]

\* They are all that is coming.
LEMMA ComingParts ==
    ASSUME NEW c, NEW t
    PROVE  Coming(c, t) <=> \/ Requested(c, t) \/ Arriving(c, t)
                            \/ Waiting(c, t) \/ Stored(c, t)
  BY DEF Coming, Requested, Arriving, Waiting, Stored

\* A message that stays for the page stays news to it.
LEMMA ArrivingKept ==
    ASSUME TypeOK, RowsGrow, NEW c \in Clients, NEW t \in Topics,
           latest'[c][t] = latest[c][t],
           \A i \in DOMAIN inbox[c] :
              \/ \E j \in DOMAIN inbox'[c] : inbox'[c][j] = inbox[c][i]
              \/ /\ inbox[c][i] # Refresh
                 /\ ~(/\ rows[inbox[c][i]].topic = t
                      /\ inbox[c][i] > latest[c][t])
    PROVE  Arriving(c, t) => Arriving(c, t)'
  <1>. SUFFICES ASSUME Arriving(c, t) PROVE Arriving(c, t)'
    OBVIOUS
  <1>1. PICK i \in DOMAIN inbox[c] :
           \/ inbox[c][i] = Refresh
           \/ rows[inbox[c][i]].topic = t /\ inbox[c][i] > latest[c][t]
    BY DEF Arriving
  <1>2. PICK j \in DOMAIN inbox'[c] : inbox'[c][j] = inbox[c][i]
    BY <1>1
  <1>3. inbox[c][i] = Refresh \/ inbox[c][i] \in DOMAIN rows
    BY SentExists
  <1>. QED
    BY <1>1, <1>2, <1>3 DEF Arriving, RowsGrow

\* What waits in the process of the page stays there.
LEMMA WaitingKept ==
    ASSUME TypeOK, RowsGrow, NEW c \in Clients, NEW t \in Topics,
           at[c] \in Processes, at'[c] = at[c], latest'[c][t] = latest[c][t],
           resync[at[c]] => resync'[at[c]],
           ~listening[at[c]] => ~listening'[at[c]] \/ resync'[at[c]],
           \A i \in DOMAIN queue[at[c]] :
              \E j \in DOMAIN queue'[at[c]] : queue'[at[c]][j] = queue[at[c]][i]
    PROVE  Waiting(c, t) => Waiting(c, t)'
  <1>1. \A i \in DOMAIN queue[at[c]] : queue[at[c]][i] \in DOMAIN rows
    BY SentExists
  <1>2. CASE resync[at[c]] \/ ~listening[at[c]]
    BY <1>2 DEF Waiting
  <1>3. ASSUME NEW i \in DOMAIN queue[at[c]],
               rows[queue[at[c]][i]].topic = t, queue[at[c]][i] > latest[c][t]
        PROVE  Waiting(c, t)'
    <2>1. PICK j \in DOMAIN queue'[at[c]] : queue'[at[c]][j] = queue[at[c]][i]
      OBVIOUS
    <2>2. rows'[queue[at[c]][i]].topic = t
      BY <1>1, <1>3 DEF RowsGrow
    <2>3. /\ rows'[queue'[at[c]][j]].topic = t
          /\ queue'[at[c]][j] > latest[c][t]
      BY <1>3, <2>1, <2>2
    <2>. QED
      BY <2>3 DEF Waiting
  <1>. QED
    BY <1>2, <1>3 DEF Waiting

\* The same page at the same process, with the same data.
SamePage(c, t) ==
    /\ at'[c] = at[c] /\ inbox'[c] = inbox[c]
    /\ latest'[c][t] = latest[c][t] /\ seen'[c][t] = seen[c][t]
    /\ asked'[c] = asked[c] /\ answers'[c] = answers[c]
    /\ version'[t] = version[t]
SameProcess(p) ==
    listening'[p] = listening[p] /\ queue'[p] = queue[p] /\ resync'[p] = resync[p]

\* A step that concerns neither the page nor its process leaves what is coming.
LEMMA Unaffected ==
    ASSUME TypeOK, RowsGrow, NEW c \in Clients, NEW t \in Topics,
           SamePage(c, t), at[c] \in Processes => SameProcess(at[c]),
           \A r \in RowsOf(t, {"pending", "updating"}) :
              r \in RowsOf(t, {"pending", "updating"})'
    PROVE  InformedOf(c, t) => InformedOf(c, t)'
  <1>. SUFFICES ASSUME InformedOf(c, t), at'[c] # Offline, Stale(c, t)'
                PROVE  Coming(c, t)'
    BY DEF InformedOf
  <1>1. at[c] \in Processes /\ at[c] # Offline
    BY DEF SamePage, TypeOK
  <1>2. Stale(c, t)
    BY DEF SamePage, Stale
  <1>3. Requested(c, t) => Requested(c, t)'
    BY DEF SamePage, Requested
  <1>4. Arriving(c, t) => Arriving(c, t)'
    <2>1. latest'[c][t] = latest[c][t] /\ inbox'[c] = inbox[c]
      BY DEF SamePage
    <2>. QED
      BY <2>1, ArrivingKept
  <1>5. Waiting(c, t) => Waiting(c, t)'
    <2>1. /\ at'[c] = at[c] /\ latest'[c][t] = latest[c][t]
          /\ queue'[at[c]] = queue[at[c]] /\ resync'[at[c]] = resync[at[c]]
          /\ listening'[at[c]] = listening[at[c]]
      BY <1>1 DEF SamePage, SameProcess
    <2>. QED
      BY <1>1, <2>1, WaitingKept
  <1>6. Stored(c, t) => Stored(c, t)'
    BY DEF Stored, SamePage
  <1>7. Coming(c, t)
    BY <1>1, <1>2 DEF InformedOf
  <1>8. Requested(c, t)' \/ Arriving(c, t)' \/ Waiting(c, t)' \/ Stored(c, t)'
    BY <1>3, <1>4, <1>5, <1>6, <1>7, ComingParts
  <1>. QED
    BY <1>8 DEF Coming, Requested, Arriving, Waiting, Stored

\* The parts of what is coming after a step make it coming.
LEMMA StillComing ==
    ASSUME NEW c, NEW t,
           Requested(c, t)' \/ Arriving(c, t)' \/ Waiting(c, t)' \/ Stored(c, t)'
    PROVE  Coming(c, t)'
  BY DEF Coming, Requested, Arriving, Waiting, Stored

\* A transaction that commits a change leaves an event that is news to all.
LEMMA InformedByChange ==
    ASSUME TypeOK, OpenIsLast, SentIsPublished, RowsGrow, Change,
           NEW c \in Clients, NEW t \in Topics \ Shared
    PROVE  InformedOf(c, t) => InformedOf(c, t)'
  <1>. DEFINE P == {"pending", "updating"}
  <1>. USE DEF broker, socket, page
  <1>1. /\ \A r \in DOMAIN rows : r \in Nat \ {0}
        /\ latest[c][t] \in Nat
    <2>1. \A r \in DOMAIN rows : r \in Nat \ {0}
      BY RowFields
    <2>2. latest[c][t] \in Nat
      BY DEF TypeOK
    <2>. QED
      BY <2>1, <2>2
  <1>2. ASSUME NEW u \in Topics, Insert(u)
        PROVE  InformedOf(c, t) => InformedOf(c, t)'
    <2>1. SamePage(c, t) /\ \A p \in Processes : SameProcess(p)
      BY <1>2 DEF Insert, SamePage, SameProcess
    <2>2. \A r \in RowsOf(t, P) : r \in RowsOf(t, P)'
      BY <1>2, RowAdded DEF RowsOf
    <2>. QED
      BY <2>1, <2>2, Unaffected
  <1>3. ASSUME NEW r \in DOMAIN rows, Coalesce(r) \/ Rollback(r)
        PROVE  InformedOf(c, t) => InformedOf(c, t)'
    <2>1. SamePage(c, t) /\ \A p \in Processes : SameProcess(p)
      BY <1>3 DEF Coalesce, Rollback, SamePage, SameProcess
    <2>2. /\ \E s \in States : /\ SetState({r}, s)
                               /\ rows[r].state \in P => s \in P
      BY <1>3, RowsSet DEF States
    <2>3. \A q \in RowsOf(t, P) : q \in RowsOf(t, P)'
      BY <2>2, StatesSet DEF RowsOf
    <2>. QED
      BY <2>1, <2>3, Unaffected
  <1>4. ASSUME NEW r \in DOMAIN rows, Commit(r)
        PROVE  InformedOf(c, t) => InformedOf(c, t)'
    <2>1. /\ SetState({r}, "pending") /\ "pending" \in States
          /\ rows[r].state \in {"inserting", "updating"}
          /\ version' = [version EXCEPT ![rows[r].topic] = @ + 1]
          /\ UNCHANGED <<broker, socket, page>>
      BY <1>4 DEF Commit, States
    <2>2. \A q \in RowsOf(t, P) : q \in RowsOf(t, P)'
      BY <2>1, StatesSet DEF RowsOf
    <2>3. CASE rows[r].topic # t
      <3>1. version'[t] = version[t]
        BY <2>1, <2>3 DEF TypeOK
      <3>2. SamePage(c, t) /\ \A p \in Processes : SameProcess(p)
        BY <2>1, <3>1 DEF SamePage, SameProcess
      <3>. QED
        BY <2>2, <3>2, Unaffected
    <2>4. CASE rows[r].topic = t
      <3>1. r \in RowsOf(t, P)'
        BY <2>1, <2>4, StatesSet DEF RowsOf
      <3>2. Open(r)
        BY <2>1 DEF Open
      <3>3. latest[c][t] # 0 =>
               /\ latest[c][t] \in DOMAIN rows /\ rows[latest[c][t]].topic = t
               /\ rows[latest[c][t]].state = "published"
        BY DEF SentIsPublished, RowsOf
      <3>4. latest[c][t] # 0 => latest[c][t] <= r /\ latest[c][t] # r
        BY <2>1, <2>4, <3>2, <3>3 DEF OpenIsLast
      <3>5. r > latest'[c][t]
        BY <1>1, <2>1, <3>4
      <3>6. Stored(c, t)'
        BY <3>1, <3>5 DEF Stored
      <3>. QED
        BY <3>6, StillComing DEF InformedOf
    <2>. QED
      BY <2>3, <2>4
  <1>. QED
    BY <1>2, <1>3, <1>4 DEF Change

\* What a process publishes reaches the process of the page, or that process
\* is away or is to make its pages fetch everything.
LEMMA InformedByPublish ==
    ASSUME TypeOK, ClaimsApart, RowsGrow, NEW p \in Processes, Publish(p),
           NEW c \in Clients, NEW t \in Topics
    PROVE  InformedOf(c, t) => InformedOf(c, t)'
  <1>. DEFINE P == {"pending", "updating"}
  <1>. SUFFICES ASSUME InformedOf(c, t), at'[c] # Offline, Stale(c, t)'
                PROVE  Coming(c, t)'
    BY DEF InformedOf
  <1>1. /\ SetState(claimed[p], "published") /\ "published" \in States
        /\ UNCHANGED <<version, listening, socket, page>>
    BY DEF Publish, States
  <1>2. /\ at' = at /\ inbox' = inbox /\ latest' = latest /\ asked' = asked
        /\ answers' = answers /\ seen' = seen
    BY <1>1 DEF socket, page
  <1>. DEFINE q == at[c]
  <1>3. q \in Processes /\ q # Offline
    BY <1>2 DEF TypeOK
  <1>. HIDE DEF q
  <1>4. /\ resync[q] => resync'[q]
        /\ \/ ~listening[q] \/ resync'[q]
           \/ /\ DOMAIN queue[q] \subseteq DOMAIN queue'[q]
              /\ \A i \in DOMAIN queue[q] : queue'[q][i] = queue[q][i]
              /\ \A r \in claimed[p] : \E i \in DOMAIN queue'[q] : queue'[q][i] = r
    BY <1>3, QueueEffect
  <1>5. Coming(c, t)
    <2>1. Stale(c, t)
      BY <1>1, <1>2 DEF Stale
    <2>. QED
      BY <1>3, <2>1 DEF InformedOf, q
  <1>6. CASE ~listening[q] \/ resync'[q]
    <2>1. Waiting(c, t)'
      BY <1>1, <1>2, <1>6 DEF Waiting, q
    <2>. QED
      BY <2>1, StillComing
  <1>7. CASE /\ DOMAIN queue[q] \subseteq DOMAIN queue'[q]
             /\ \A i \in DOMAIN queue[q] : queue'[q][i] = queue[q][i]
             /\ \A r \in claimed[p] : \E i \in DOMAIN queue'[q] : queue'[q][i] = r
    <2>1. CASE Requested(c, t)
      <3>1. Requested(c, t)'
        BY <1>1, <1>2, <2>1 DEF Requested
      <3>. QED
        BY <3>1, StillComing
    <2>2. CASE Arriving(c, t)
      <3>1. Arriving(c, t)'
        BY <1>2, <2>2, ArrivingKept
      <3>. QED
        BY <3>1, StillComing
    <2>3. CASE Waiting(c, t)
      <3>1. Waiting(c, t)'
        BY <1>1, <1>2, <1>3, <1>4, <1>7, <2>3, WaitingKept DEF q
      <3>. QED
        BY <3>1, StillComing
    <2>4. CASE Stored(c, t)
      <3>1. PICK r \in RowsOf(t, P) : r > latest[c][t]
        BY <2>4 DEF Stored
      <3>2. r \in DOMAIN rows /\ rows[r].topic = t /\ rows[r].state \in P
        BY <3>1 DEF RowsOf
      <3>3. CASE r \in claimed[p]
        <4>1. PICK i \in DOMAIN queue'[q] : queue'[q][i] = r
          BY <1>7, <3>3
        <4>2. rows'[r].topic = t
          BY <3>2 DEF RowsGrow
        <4>3. Waiting(c, t)'
          BY <1>2, <3>1, <4>1, <4>2 DEF Waiting, q
        <4>. QED
          BY <4>3, StillComing
      <3>4. CASE r \notin claimed[p]
        <4>1. r \in RowsOf(t, P)'
          BY <1>1, <3>2, <3>4, StatesSet DEF RowsOf
        <4>2. Stored(c, t)'
          BY <1>2, <3>1, <4>1 DEF Stored
        <4>. QED
          BY <4>2, StillComing
      <3>. QED
        BY <3>3, <3>4
    <2>. QED
      BY <1>5, <2>1, <2>2, <2>3, <2>4, ComingParts
  <1>. QED
    BY <1>4, <1>6, <1>7

\* A message put into the queues of the pages of a process is in the queue of
\* each of them, or the page is cut off; other pages are not concerned.
LEMMA PutKeeps ==
    ASSUME TypeOK, NEW m \in {Refresh} \cup DOMAIN rows, NEW p \in Processes,
           Put(m, At(p)), NEW c \in Clients, at'[c] # Offline
    PROVE  /\ at'[c] = at[c]
           /\ at[c] # p => inbox'[c] = inbox[c]
           /\ at[c] = p => \E i \in DOMAIN inbox'[c] : inbox'[c][i] = m
           /\ \A i \in DOMAIN inbox[c] :
                 \E j \in DOMAIN inbox'[c] : inbox'[c][j] = inbox[c][i]
  <1>. DEFINE M == {Refresh} \cup DOMAIN rows
  <1>1. inbox[c] \in Seq(M) /\ m \in M
    BY DEF TypeOK
  <1>2. \/ c \notin At(p) /\ at'[c] = at[c] /\ inbox'[c] = inbox[c]
        \/ c \in At(p) /\ at'[c] = at[c] /\ inbox'[c] = Append(inbox[c], m)
    BY PutEffect
  <1>3. c \in At(p) <=> at[c] = p
    BY DEF At
  <1>. HIDE DEF M
  <1>4. /\ \A i \in DOMAIN inbox[c] : i \in DOMAIN Append(inbox[c], m)
                                      /\ Append(inbox[c], m)[i] = inbox[c][i]
        /\ Len(inbox[c]) + 1 \in DOMAIN Append(inbox[c], m)
        /\ Append(inbox[c], m)[Len(inbox[c]) + 1] = m
    BY <1>1
  <1>. QED
    BY <1>2, <1>3, <1>4

\* The loops of a process pass on what they take from their queue, or make the
\* pages of the process fetch everything.
LEMMA InformedByProcess ==
    ASSUME TypeOK, RowsGrow, NEW p \in Processes,
           \/ Claim(p) \/ FailBatch(p) \/ Dispatch(p) \/ DispatchFails(p)
           \/ LoseBroker(p) \/ ListenAgain(p) \/ RequireResynchronization(p)
           \/ Restart(p),
           NEW c \in Clients, NEW t \in Topics
    PROVE  InformedOf(c, t) => InformedOf(c, t)'
  <1>. SUFFICES ASSUME InformedOf(c, t), at'[c] # Offline, Stale(c, t)'
                PROVE  Coming(c, t)'
    BY DEF InformedOf
  <1>1. /\ rows' = rows /\ version' = version /\ latest' = latest
        /\ asked' = asked /\ answers' = answers /\ seen' = seen
    BY DEF Claim, FailBatch, Dispatch, DispatchFails, LoseBroker, ListenAgain,
           RequireResynchronization, Restart, outbox, page
  <1>2. /\ Stale(c, t) /\ (Requested(c, t) => Requested(c, t)')
        /\ Stored(c, t) => Stored(c, t)'
    BY <1>1 DEF Stale, Requested, Stored, RowsOf
  <1>3. ASSUME at'[c] = at[c], Arriving(c, t) => Coming(c, t)',
               Waiting(c, t) => Coming(c, t)'
        PROVE  Coming(c, t)'
    <2>1. Coming(c, t)
      BY <1>2, <1>3 DEF InformedOf
    <2>2. CASE Requested(c, t) \/ Stored(c, t)
      BY <1>2, <2>2, StillComing
    <2>. QED
      BY <1>3, <2>1, <2>2, ComingParts
  <1>4. ASSUME at'[c] = at[c], inbox'[c] = inbox[c]
        PROVE  Arriving(c, t) => Coming(c, t)'
    <2>1. Arriving(c, t) => Arriving(c, t)'
      BY <1>1, <1>4, ArrivingKept
    <2>. QED
      BY <2>1, StillComing
  <1>5. ASSUME at'[c] = at[c], SameProcess(at[c])
        PROVE  Waiting(c, t) => Coming(c, t)'
    <2>1. at[c] \in Processes
      BY <1>5 DEF TypeOK
    <2>2. Waiting(c, t) => Waiting(c, t)'
      BY <1>1, <1>5, <2>1, WaitingKept DEF SameProcess
    <2>. QED
      BY <2>2, StillComing
  <1>6. CASE Claim(p) \/ FailBatch(p)
    <2>1. at' = at /\ inbox' = inbox /\ SameProcess(at[c])
      BY <1>6 DEF Claim, FailBatch, socket, SameProcess
    <2>. QED
      BY <1>3, <1>4, <1>5, <2>1
  <1>7. ASSUME queue[p] # <<>>, queue' = [queue EXCEPT ![p] = Tail(@)]
        PROVE  /\ \A q \in Processes : q # p => queue'[q] = queue[q]
               /\ Head(queue[p]) \in DOMAIN rows
               /\ \A i \in DOMAIN queue[p] :
                    \/ queue[p][i] = Head(queue[p])
                    \/ \E j \in DOMAIN queue'[p] : queue'[p][j] = queue[p][i]
    <2>. DEFINE D == DOMAIN rows
    <2>1. queue \in [Processes -> Seq(D)]
      BY DEF TypeOK
    <2>. HIDE DEF D
    <2>2. \A q \in Processes : queue'[q] = IF q = p THEN Tail(queue[p]) ELSE queue[q]
      BY <1>7, <2>1
    <2>3. queue[p] \in Seq(D) /\ queue'[p] = Tail(queue[p])
      BY <2>1, <2>2
    <2>4. Head(queue[p]) \in D
      BY <1>7, <2>3, HeadAndTail
    <2>5. \A i \in DOMAIN queue[p] :
             \/ queue[p][i] = Head(queue[p])
             \/ \E j \in DOMAIN queue'[p] : queue'[p][j] = queue[p][i]
      BY <1>7, <2>3, TailKeeps
    <2>. QED
      BY <2>2, <2>4, <2>5 DEF D
  <1>8. CASE Dispatch(p)
    <2>1. /\ queue[p] # <<>> /\ queue' = [queue EXCEPT ![p] = Tail(@)]
          /\ Put(Head(queue[p]), At(p))
          /\ listening' = listening /\ resync' = resync
      BY <1>8 DEF Dispatch
    <2>. DEFINE m == Head(queue[p])
    <2>2. m \in {Refresh} \cup DOMAIN rows
      BY <1>7, <2>1
    <2>3. /\ at'[c] = at[c] /\ (at[c] # p => inbox'[c] = inbox[c])
          /\ at[c] = p => \E i \in DOMAIN inbox'[c] : inbox'[c][i] = m
          /\ \A i \in DOMAIN inbox[c] :
                 \E j \in DOMAIN inbox'[c] : inbox'[c][j] = inbox[c][i]
      BY <2>1, <2>2, PutKeeps
    <2>4. Arriving(c, t) => Coming(c, t)'
      <3>1. Arriving(c, t) => Arriving(c, t)'
        BY <1>1, <2>3, ArrivingKept
      <3>. QED
        BY <3>1, StillComing
    <2>5. CASE at[c] # p
      <3>1. at[c] \in Processes
        BY <2>3 DEF TypeOK
      <3>2. SameProcess(at[c])
        BY <1>7, <2>1, <2>5, <3>1 DEF SameProcess
      <3>. QED
        BY <1>3, <1>5, <2>3, <2>4, <3>2
    <2>6. CASE at[c] = p
      <3>1. ASSUME Waiting(c, t) PROVE Waiting(c, t)' \/ Arriving(c, t)'
        <4>1. CASE resync[p] \/ ~listening[p]
          BY <2>1, <2>3, <2>6, <4>1 DEF Waiting
        <4>2. CASE ~(resync[p] \/ ~listening[p])
          <5>1. PICK i \in DOMAIN queue[p] :
                   rows[queue[p][i]].topic = t /\ queue[p][i] > latest[c][t]
            BY <2>6, <3>1, <4>2 DEF Waiting
          <5>2. CASE queue[p][i] = m
            <6>1. PICK j \in DOMAIN inbox'[c] : inbox'[c][j] = m
              BY <2>3, <2>6
            <6>2. /\ rows'[inbox'[c][j]].topic = t
                  /\ inbox'[c][j] > latest'[c][t]
              BY <1>1, <5>1, <5>2, <6>1
            <6>. QED
              BY <6>2 DEF Arriving
          <5>3. ASSUME NEW j \in DOMAIN queue'[p], queue'[p][j] = queue[p][i]
                PROVE  Waiting(c, t)'
            BY <1>1, <2>3, <2>6, <5>1, <5>3 DEF Waiting
          <5>. QED
            BY <1>7, <2>1, <5>2, <5>3
        <4>. QED
          BY <4>1, <4>2
      <3>2. Waiting(c, t) => Coming(c, t)'
        BY <3>1, StillComing
      <3>. QED
        BY <1>3, <2>3, <2>4, <3>2
    <2>. QED
      BY <2>5, <2>6
  <1>9. CASE DispatchFails(p) \/ LoseBroker(p)
    <2>1. /\ listening' = [listening EXCEPT ![p] = FALSE] /\ resync' = resync
          /\ at' = at /\ inbox' = inbox
          /\ \/ queue' = queue
             \/ queue[p] # <<>> /\ queue' = [queue EXCEPT ![p] = Tail(@)]
      BY <1>9 DEF DispatchFails, LoseBroker, socket
    <2>2. CASE at[c] = p
      <3>1. ~listening'[p]
        BY <2>1 DEF TypeOK
      <3>2. Waiting(c, t)'
        BY <2>1, <2>2, <3>1 DEF Waiting
      <3>. QED
        BY <3>2, StillComing
    <2>3. CASE at[c] # p
      <3>1. at[c] \in Processes
        BY <2>1 DEF TypeOK
      <3>2. queue'[at[c]] = queue[at[c]]
        BY <1>7, <2>1, <2>3, <3>1
      <3>3. SameProcess(at[c])
        BY <2>1, <2>3, <3>1, <3>2 DEF SameProcess, TypeOK
      <3>. QED
        BY <1>3, <1>4, <1>5, <2>1, <3>3
    <2>. QED
      BY <2>2, <2>3
  <1>10. CASE ListenAgain(p)
    <2>1. /\ listening' = [listening EXCEPT ![p] = TRUE]
          /\ resync' = [resync EXCEPT ![p] = TRUE]
          /\ at' = at /\ inbox' = inbox /\ queue' = queue
      BY <1>10 DEF ListenAgain, socket
    <2>2. CASE at[c] = p
      <3>1. resync'[p]
        BY <2>1 DEF TypeOK
      <3>2. Waiting(c, t)'
        BY <2>1, <2>2, <3>1 DEF Waiting
      <3>. QED
        BY <3>2, StillComing
    <2>3. CASE at[c] # p
      <3>1. at[c] \in Processes
        BY <2>1 DEF TypeOK
      <3>2. SameProcess(at[c])
        BY <2>1, <2>3, <3>1 DEF SameProcess, TypeOK
      <3>. QED
        BY <1>3, <1>4, <1>5, <2>1, <3>2
    <2>. QED
      BY <2>2, <2>3
  <1>11. CASE RequireResynchronization(p)
    <2>1. /\ Put(Refresh, At(p)) /\ resync' = [resync EXCEPT ![p] = FALSE]
          /\ listening' = listening /\ queue' = queue
      BY <1>11 DEF RequireResynchronization
    <2>2. /\ at'[c] = at[c] /\ (at[c] # p => inbox'[c] = inbox[c])
          /\ at[c] = p => \E i \in DOMAIN inbox'[c] : inbox'[c][i] = Refresh
      BY <2>1, PutKeeps
    <2>3. CASE at[c] = p
      <3>1. Arriving(c, t)'
        BY <2>2, <2>3 DEF Arriving
      <3>. QED
        BY <3>1, StillComing
    <2>4. CASE at[c] # p
      <3>1. at[c] \in Processes
        BY <2>2 DEF TypeOK
      <3>2. SameProcess(at[c])
        BY <2>1, <2>4, <3>1 DEF SameProcess, TypeOK
      <3>. QED
        BY <1>3, <1>4, <1>5, <2>2, <2>4, <3>2
    <2>. QED
      BY <2>3, <2>4
  <1>12. CASE Restart(p)
    <2>1. /\ listening' = [listening EXCEPT ![p] = TRUE]
          /\ resync' = [resync EXCEPT ![p] = FALSE]
          /\ queue' = [queue EXCEPT ![p] = <<>>]
          /\ at'[c] = IF at[c] = p THEN Offline ELSE at[c]
          /\ inbox'[c] = IF at[c] = p THEN <<>> ELSE inbox[c]
      BY <1>12 DEF Restart
    <2>2. at[c] # p /\ at'[c] = at[c] /\ inbox'[c] = inbox[c]
      BY <2>1
    <2>3. at[c] \in Processes
      BY <2>2 DEF TypeOK
    <2>4. SameProcess(at[c])
      BY <2>1, <2>2, <2>3 DEF SameProcess, TypeOK
    <2>. QED
      BY <1>3, <1>4, <1>5, <2>2, <2>4
  <1>. QED
    BY <1>6, <1>8, <1>9, <1>10, <1>11, <1>12

\* A page forgets a message only when it asks for the data, or has already
\* asked for newer data; it drops an answer only when it asks again.
LEMMA InformedByPage ==
    ASSUME TypeOK, PageInv, RowsGrow, NEW d \in Clients,
           \/ \E p \in Processes : Connect(d, p)
           \/ Disconnect(d) \/ Resynchronize(d) \/ ApplyEvent(d)
           \/ \E u \in Topics : Answer(d, u)
           \/ \E a \in answers[d] : Show(d, a),
           NEW c \in Clients, NEW t \in Refreshed
    PROVE  InformedOf(c, t) => InformedOf(c, t)'
  <1>0. /\ rows' = rows /\ version' = version /\ listening' = listening
        /\ queue' = queue /\ resync' = resync
        /\ \A q \in Processes : SameProcess(q)
        /\ \A r : r \in RowsOf(t, {"pending", "updating"})
                     => r \in RowsOf(t, {"pending", "updating"})'
    BY DEF Connect, Disconnect, Resynchronize, ApplyEvent, Answer, Show,
           outbox, broker, SameProcess, RowsOf
  <1>1. /\ at \in [Clients -> Processes \cup {Offline}]
        /\ inbox \in [Clients -> Seq({Refresh} \cup DOMAIN rows)]
        /\ latest \in [Clients -> [Topics -> Nat]]
        /\ asked \in [Clients -> SUBSET Topics]
        /\ answers \in [Clients -> SUBSET (Topics \X Nat)]
        /\ seen \in [Clients -> [Topics -> Nat]]
        /\ version \in [Topics -> Nat]
    BY DEF TypeOK
  <1>2. t \in Topics
    BY TopicsAssumption
  <1>3. CASE c # d
    <2>1. /\ at'[c] = at[c] /\ inbox'[c] = inbox[c] /\ latest'[c] = latest[c]
          /\ asked'[c] = asked[c] /\ answers'[c] = answers[c] /\ seen'[c] = seen[c]
      BY <1>1, <1>3 DEF Connect, Disconnect, Resynchronize, ApplyEvent, Answer,
                        Show, Invalidate, socket, page
    <2>2. SamePage(c, t)
      BY <1>0, <2>1 DEF SamePage
    <2>. QED
      BY <1>0, <1>2, <2>2, Unaffected
  <1>4. CASE c = d
    <2>. SUFFICES ASSUME InformedOf(c, t), at'[c] # Offline, Stale(c, t)'
                  PROVE  Coming(c, t)'
      BY DEF InformedOf
    <2>1. ASSUME at'[c] = at[c], Stale(c, t), latest'[c][t] = latest[c][t],
                 Requested(c, t) => Coming(c, t)',
                 Arriving(c, t) => Coming(c, t)'
          PROVE  Coming(c, t)'
      <3>1. Coming(c, t) /\ at[c] \in Processes
        BY <1>1, <2>1 DEF InformedOf
      <3>2. Waiting(c, t) => Waiting(c, t)'
        BY <1>0, <1>2, <2>1, <3>1, WaitingKept DEF SameProcess
      <3>3. Stored(c, t) => Stored(c, t)'
        BY <1>0, <2>1 DEF Stored
      <3>4. CASE Waiting(c, t) \/ Stored(c, t)
        BY <3>2, <3>3, <3>4, StillComing
      <3>. QED
        BY <2>1, <3>1, <3>4, ComingParts
    <2>2. ASSUME inbox[c] # <<>>, inbox'[c] = Tail(inbox[c])
          PROVE  \A i \in DOMAIN inbox[c] :
                    \/ inbox[c][i] = Head(inbox[c])
                    \/ \E j \in DOMAIN inbox'[c] : inbox'[c][j] = inbox[c][i]
      <3>. DEFINE M == {Refresh} \cup DOMAIN rows
      <3>1. inbox[c] \in Seq(M)
        BY <1>1
      <3>. HIDE DEF M
      <3>. QED
        BY <2>2, <3>1, TailKeeps
    <2>3. ASSUME inbox'[c] = inbox[c], latest'[c][t] = latest[c][t]
          PROVE  Arriving(c, t) => Coming(c, t)'
      <3>1. Arriving(c, t) => Arriving(c, t)'
        BY <1>2, <2>3, ArrivingKept
      <3>. QED
        BY <3>1, StillComing
    <2>4. ASSUME NEW p \in Processes, Connect(c, p) PROVE Coming(c, t)'
      <3>1. inbox'[c] = <<Refresh>>
        BY <1>1, <2>4 DEF Connect
      <3>2. 1 \in DOMAIN inbox'[c] /\ inbox'[c][1] = Refresh
        BY <3>1
      <3>3. Arriving(c, t)'
        BY <3>2 DEF Arriving
      <3>. QED
        BY <3>3, StillComing
    <2>5. CASE Disconnect(c)
      <3>1. at'[c] = Offline
        BY <1>1, <2>5 DEF Disconnect
      <3>. QED
        BY <3>1
    <2>6. CASE Resynchronize(c)
      <3>1. t \in asked'[c]
        BY <1>1, <2>6 DEF Resynchronize, Invalidate
      <3>2. Requested(c, t)'
        BY <3>1 DEF Requested
      <3>. QED
        BY <3>2, StillComing
    <2>7. CASE ApplyEvent(c)
      <3>. DEFINE r == Head(inbox[c])
                  u == rows[r].topic
      <3>1. /\ inbox[c] # <<>> /\ r # Refresh /\ at' = at /\ seen' = seen
            /\ inbox'[c] = Tail(inbox[c])
            /\ \/ r <= latest[c][u] /\ UNCHANGED <<latest, asked, answers>>
               \/ /\ ~(r <= latest[c][u])
                  /\ latest' = [latest EXCEPT ![c][u] = r]
                  /\ Invalidate(c, {u})
        BY <1>1, <2>7 DEF ApplyEvent
      <3>2. \A i \in DOMAIN inbox[c] :
                    \/ inbox[c][i] = r
                    \/ \E j \in DOMAIN inbox'[c] : inbox'[c][j] = inbox[c][i]
        BY <2>2, <3>1
      <3>3. r \in Nat
        <4>. DEFINE M == {Refresh} \cup DOMAIN rows
        <4>1. inbox[c] \in Seq(M)
          BY <1>1
        <4>2. r \in M
          <5>. HIDE DEF M
          <5>. QED
            BY <3>1, <4>1, HeadAndTail
        <4>. QED
          BY <3>1, <4>2, RowFields
      <3>. HIDE DEF r
      <3>4. CASE u = t /\ ~(r <= latest[c][u])
        <4>1. t \in asked'[c]
          BY <1>1, <3>1, <3>4 DEF Invalidate
        <4>2. Requested(c, t)'
          BY <4>1 DEF Requested
        <4>. QED
          BY <4>2, StillComing
      <3>5. CASE ~(u = t /\ ~(r <= latest[c][u]))
        <4>1. /\ latest'[c][t] = latest[c][t] /\ asked[c] \subseteq asked'[c]
              /\ \A a \in Topics \X Nat :
                    a[1] = t => (a \in answers'[c] <=> a \in answers[c])
          <5>1. CASE UNCHANGED <<latest, asked, answers>>
            BY <5>1
          <5>2. CASE u # t /\ latest' = [latest EXCEPT ![c][u] = r]
                     /\ Invalidate(c, {u})
            <6>1. /\ asked'[c] = asked[c] \cup {u}
                  /\ answers'[c] = {a \in answers[c] : a[1] \notin {u}}
              BY <1>1, <5>2 DEF Invalidate
            <6>2. latest'[c][t] = latest[c][t]
              BY <1>1, <1>2, <5>2
            <6>3. \A a \in Topics \X Nat :
                    a[1] = t => (a \in answers'[c] <=> a \in answers[c])
              BY <5>2, <6>1
            <6>. QED
              BY <6>1, <6>2, <6>3
          <5>3. \/ UNCHANGED <<latest, asked, answers>>
                \/ u # t /\ latest' = [latest EXCEPT ![c][u] = r]
                         /\ Invalidate(c, {u})
            <6>1. CASE UNCHANGED <<latest, asked, answers>>
              BY <6>1
            <6>2. CASE /\ ~(r <= latest[c][u])
                       /\ latest' = [latest EXCEPT ![c][u] = r]
                       /\ Invalidate(c, {u})
              BY <3>5, <6>2
            <6>. QED
              BY <3>1, <6>1, <6>2
          <5>. QED
            BY <5>1, <5>2, <5>3
        <4>2. answers'[c] \subseteq Topics \X Nat
          BY <1>1, <3>1 DEF Invalidate
        <4>3. Stale(c, t)
          BY <1>0, <3>1, <4>1, <4>2 DEF Stale
        <4>4. Requested(c, t) => Coming(c, t)'
          <5>1. <<t, version[t]>> \in Topics \X Nat /\ <<t, version[t]>>[1] = t
            BY <1>1, <1>2
          <5>2. Requested(c, t) => Requested(c, t)'
            BY <1>0, <4>1, <5>1 DEF Requested
          <5>. QED
            BY <5>2, StillComing
        <4>5. Arriving(c, t) => Coming(c, t)'
          <5>0. latest[c][t] \in Nat
            BY <1>1, <1>2
          <5>1. ~(u = t /\ r > latest[c][t])
            BY <3>3, <3>5, <5>0
          <5>2. Arriving(c, t) => Arriving(c, t)'
            BY <1>2, <3>1, <3>2, <4>1, <5>1, ArrivingKept
          <5>. QED
            BY <5>2, StillComing
        <4>6. at'[c] = at[c]
          BY <3>1
        <4>. QED
          BY <2>1, <4>1, <4>3, <4>4, <4>5, <4>6
      <3>. QED
        BY <3>4, <3>5
    <2>8. ASSUME NEW u \in Topics, Answer(c, u) PROVE Coming(c, t)'
      <3>1. /\ asked'[c] = asked[c] \ {u} /\ at' = at /\ inbox' = inbox
            /\ answers'[c] = answers[c] \cup {<<u, version[u]>>}
            /\ latest' = latest /\ seen' = seen
        BY <1>1, <2>8 DEF Answer, socket
      <3>2. CASE u = t
        <4>1. Requested(c, t)'
          BY <1>0, <3>1, <3>2 DEF Requested
        <4>. QED
          BY <4>1, StillComing
      <3>3. CASE u # t
        <4>1. Stale(c, t)
          BY <1>0, <3>1, <3>3 DEF Stale
        <4>2. Requested(c, t) => Requested(c, t)'
          BY <1>0, <3>1, <3>3 DEF Requested
        <4>. QED
          BY <2>1, <2>3, <3>1, <4>1, <4>2, StillComing
      <3>. QED
        BY <3>2, <3>3
    <2>9. ASSUME NEW a \in answers[c], Show(c, a) PROVE Coming(c, t)'
      <3>1. /\ asked' = asked /\ answers'[c] = answers[c] \ {a}
            /\ seen'[c] = [seen[c] EXCEPT ![a[1]] = a[2]]
            /\ at' = at /\ inbox' = inbox /\ latest' = latest
        BY <1>1, <2>9 DEF Show, socket
      <3>2. CASE a[1] = t
        <4>1. \A b \in answers[c] : b[1] = t => b = a
          BY <3>2 DEF PageInv
        <4>2. seen'[c][t] = a[2]
          BY <1>1, <1>2, <3>1, <3>2
        <4>3. a[2] # version[t]
          BY <1>0, <3>1, <4>1, <4>2 DEF Stale
        <4>4. Stale(c, t)
          BY <3>2, <4>3 DEF Stale
        <4>5. <<t, version[t]>> \notin answers[c]
          <5>1. <<t, version[t]>>[1] = t /\ <<t, version[t]>>[2] = version[t]
            OBVIOUS
          <5>. QED
            BY <4>1, <4>3, <5>1
        <4>6. Requested(c, t) => Requested(c, t)'
          BY <3>1, <4>5 DEF Requested
        <4>. QED
          BY <2>1, <2>3, <3>1, <4>4, <4>6, StillComing
      <3>3. CASE a[1] # t
        <4>1. seen'[c][t] = seen[c][t]
          BY <1>1, <1>2, <3>1, <3>3
        <4>2. Stale(c, t)
          BY <1>0, <3>1, <4>1 DEF Stale
        <4>3. Requested(c, t) => Requested(c, t)'
          <5>1. <<t, version[t]>>[1] = t
            OBVIOUS
          <5>2. <<t, version[t]>> # a
            BY <3>3, <5>1
          <5>. QED
            BY <1>0, <3>1, <5>2 DEF Requested
        <4>. QED
          BY <2>1, <2>3, <3>1, <4>2, <4>3, StillComing
      <3>. QED
        BY <3>2, <3>3
    <2>. QED
      BY <1>4, <2>4, <2>5, <2>6, <2>7, <2>8, <2>9
  <1>. QED
    BY <1>3, <1>4

\* No step leaves a page that shows old data without word of it.
LEMMA InformedStep ==
    TypeOK /\ OutboxInv /\ DeliveryInv /\ Informed /\ [Next]_vars => Informed'
  <1>. SUFFICES ASSUME TypeOK, ClaimsApart, OpenIsLast, SentIsPublished, PageInv,
                       Informed, [Next]_vars,
                       NEW c \in Clients, NEW t \in Refreshed \ Shared
                PROVE  InformedOf(c, t)'
    BY DEF OutboxInv, DeliveryInv, Informed
  <1>1. InformedOf(c, t) /\ RowsGrow /\ t \in Topics
    BY OutboxGrows, TopicsAssumption DEF Informed
  <1>2. CASE Change
    BY <1>1, <1>2, InformedByChange
  <1>3. ASSUME NEW p \in Processes, Publish(p) PROVE InformedOf(c, t)'
    BY <1>1, <1>3, InformedByPublish
  <1>4. ASSUME NEW p \in Processes,
               \/ Claim(p) \/ FailBatch(p) \/ Dispatch(p) \/ DispatchFails(p)
               \/ LoseBroker(p) \/ ListenAgain(p)
               \/ RequireResynchronization(p) \/ Restart(p)
        PROVE  InformedOf(c, t)'
    BY <1>1, <1>4, InformedByProcess
  <1>5. ASSUME NEW d \in Clients,
               \/ \E p \in Processes : Connect(d, p)
               \/ Disconnect(d) \/ Resynchronize(d) \/ ApplyEvent(d)
               \/ \E u \in Topics : Answer(d, u)
               \/ \E a \in answers[d] : Show(d, a)
        PROVE  InformedOf(c, t)'
    BY <1>1, <1>5, InformedByPage
  <1>6. CASE UNCHANGED vars
    <2>1. SamePage(c, t) /\ \A p \in Processes : SameProcess(p)
      BY <1>6 DEF vars, outbox, broker, socket, page, SamePage, SameProcess
    <2>2. \A r \in RowsOf(t, {"pending", "updating"}) :
              r \in RowsOf(t, {"pending", "updating"})'
      BY <1>6 DEF vars, outbox, RowsOf
    <2>. QED
      BY <1>1, <2>1, <2>2, Unaffected
  <1>. QED
    BY <1>2, <1>3, <1>4, <1>5, <1>6 DEF Next

\* README.md:119-121, for every topic of a single record that a reconnection
\* fetches: whatever is lost, reordered, dropped or cut off, a page that is
\* connected and shows old data, or is about to, is bound to hear of it.
THEOREM OldDataIsReported == Spec => []Informed
  <1>1. Init => Informed
    BY DEF Init, Informed, InformedOf
  <1>. QED
    BY <1>1, InformedStep, TypeCorrect, OutboxInvariant, DeliveryInvariant, PTL
       DEF Spec

\* The invariant of the model, where every topic has a single record and a
\* reconnection fetches all of them. Without the first it does not hold: that
\* is the run realtime_shared.
THEOREM EveryTopicIsReported ==
    Shared = {} /\ Refreshed = Topics => (Spec => []StaleIsInformed)
  <1>. SUFFICES ASSUME Shared = {}, Refreshed = Topics
                PROVE  Spec => []StaleIsInformed
    OBVIOUS
  <1>1. Informed => StaleIsInformed
    BY DEF Informed, InformedOf, Stale, StaleIsInformed
  <1>. QED
    BY <1>1, OldDataIsReported, PTL

\* Nothing is coming for a page once nothing is under way any more.
LEMMA NothingComes ==
    ASSUME TypeOK, NEW c \in Clients, NEW t \in Topics, Settled(c)
    PROVE  ~Coming(c, t)
  <1>1. ~Requested(c, t)
    BY DEF Settled, Requested
  <1>2. ~Arriving(c, t)
    BY DEF Settled, Arriving
  <1>3. ~Waiting(c, t)
    BY DEF Settled, Waiting
  <1>4. ~Stored(c, t)
    BY DEF Settled, Stored, RowsOf
  <1>. QED
    BY <1>1, <1>2, <1>3, <1>4, ComingParts

\* The topics of a single record that a reconnection fetches are shown as they
\* are in the backend when nothing is under way any more.
SettledTopicsAreCurrent ==
    \A c \in Clients, t \in Refreshed \ Shared :
        Settled(c) => seen[c][t] = version[t]

\* README.md:119-121: correctness does not depend on receiving every message.
THEOREM SettledTopics == Spec => []SettledTopicsAreCurrent
  <1>1. TypeOK /\ Informed => SettledTopicsAreCurrent
    <2>. SUFFICES ASSUME TypeOK, Informed, NEW c \in Clients,
                         NEW t \in Refreshed \ Shared, Settled(c)
                  PROVE  seen[c][t] = version[t]
      BY DEF SettledTopicsAreCurrent
    <2>1. t \in Topics /\ InformedOf(c, t)
      BY TopicsAssumption DEF Informed
    <2>2. ~Coming(c, t) /\ at[c] # Offline
      BY <2>1, NothingComes DEF Settled
    <2>. QED
      BY <2>1, <2>2 DEF InformedOf, Stale
  <1>. QED
    BY <1>1, TypeCorrect, OldDataIsReported, PTL

\* The invariant of the model, where every topic has a single record and a
\* reconnection fetches all of them.
THEOREM EverySettledPageIsCurrent ==
    Shared = {} /\ Refreshed = Topics => (Spec => []SettledIsCurrent)
  <1>. SUFFICES ASSUME Shared = {}, Refreshed = Topics
                PROVE  Spec => []SettledIsCurrent
    OBVIOUS
  <1>1. TypeOK /\ SettledTopicsAreCurrent => SettledIsCurrent
    <2>. SUFFICES ASSUME TypeOK, SettledTopicsAreCurrent,
                         NEW c \in Clients, Settled(c)
                  PROVE  seen[c] = version
      BY DEF SettledIsCurrent
    <2>1. seen[c] \in [Topics -> Nat] /\ version \in [Topics -> Nat]
      BY DEF TypeOK
    <2>2. \A t \in Topics : seen[c][t] = version[t]
      BY DEF SettledTopicsAreCurrent
    <2>. QED
      BY <2>1, <2>2
  <1>. QED
    BY <1>1, TypeCorrect, SettledTopics, PTL
=============================================================================
