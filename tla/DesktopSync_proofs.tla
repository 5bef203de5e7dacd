-------------------------- MODULE DesktopSync_proofs --------------------------
(***************************************************************************)
(* Proofs about DesktopSync, for any enterprises, reports, flows and       *)
(* bounds.                                                                 *)
(***************************************************************************)
EXTENDS DesktopSync, Selection_proofs, SequenceTheorems

-----------------------------------------------------------------------------
(* The inductive invariant.                                                *)

\* The newest first, and no report twice.
Ordered(s) ==
    \A i, j \in DOMAIN s :
        i < j => s[i].report # s[j].report /\ s[i].submission > s[j].submission

\* The parts of the type invariant.
SessionOK ==
    /\ logins \in Seq(Enterprises) /\ Len(logins) <= MaxLogins
    /\ valid \subseteq DOMAIN logins /\ token \in {0} \cup DOMAIN logins
    /\ ready \in BOOLEAN /\ view \in Histories
    /\ coming \in Histories \cup {<<>>}
    /\ bound \in Ledgers /\ binds \subseteq DOMAIN logins
LedgerOK ==
    /\ ledger \in [Ledgers -> Seq(Rows)]
    /\ \A e \in Ledgers : Ordered(ledger[e])
FlowOK == flow \in [Flows -> {Idle} \cup Flow]
CloudOK ==
    /\ intake \in [Enterprises ->
                     [Reports -> {"none", "pending", "returned", "final"}]]
    /\ carried \subseteq Enterprises \X Submissions /\ refused \in BOOLEAN
BoundsOK == author \in Seq(Enterprises) /\ faults \in 0 .. MaxFaults

\* The backend has carried a submission out; it has a report for good.
CarriedOut(n) == \E b \in Enterprises : <<b, n>> \in carried
IsFinal(r) == \E b \in Enterprises : intake[b][r] = "final"

\* What a flow that runs knows of its work: it has a report to go on with; it
\* has no answer before it asks; what it is going to mark has been carried
\* out; and what it is going to drop is final.
Working(w) ==
    /\ w.pc \in {"send", "sent", "mark", "drop"} => w.todo # <<>>
    /\ w.pc = "send" => w.answer = "none"
    /\ w.pc = "mark" \/ (w.pc = "sent" /\ w.answer = "ok")
         => CarriedOut(Head(w.todo).submission)
    /\ w.pc = "drop" => \A i \in DOMAIN w.todo : IsFinal(w.todo[i].report)
FlowsInv == \A f \in Flows : flow[f] # Idle => Working(flow[f])

\* What the rows of the ledgers say is so, and their numbers have been given.
Truthful(row) ==
    /\ row.submission <= Len(author)
    /\ row.synced => CarriedOut(row.submission)
    /\ row.purged => IsFinal(row.report)
LedgersInv ==
    \A e \in Ledgers : \A i \in DOMAIN ledger[e] : Truthful(ledger[e][i])

\* The type invariant is made of these parts.
LEMMA TypeParts ==
    TypeOK <=> SessionOK /\ LedgerOK /\ FlowOK /\ CloudOK /\ BoundsOK
  BY DEF TypeOK, SessionOK, LedgerOK, FlowOK, CloudOK, BoundsOK, Ordered

-----------------------------------------------------------------------------
(* What the operators of the model return.                                 *)

\* A page that is mounted is of the session it is given.
LEMMA Mounts ==
    ASSUME SessionOK, NEW t \in {0} \cup DOMAIN logins, Mount(t),
           logins' = logins, valid' \subseteq valid, bound' \in Ledgers,
           binds' \subseteq DOMAIN logins
    PROVE  SessionOK'
  BY DEF SessionOK, Mount, Histories, Blank

\* The rows of a ledger.
LEMMA RowTypes ==
    ASSUME LedgerOK, NEW e \in Ledgers
    PROVE  /\ ledger[e] \in Seq(Rows) /\ RowsOf(e) \subseteq Rows
           /\ \A i \in DOMAIN ledger[e] :
                 /\ ledger[e][i] \in Rows /\ ledger[e][i] \in RowsOf(e)
                 /\ i \in Nat
  <1>1. ledger[e] \in Seq(Rows)
    BY DEF LedgerOK
  <1>2. \A i \in DOMAIN ledger[e] : ledger[e][i] \in Rows /\ i \in Nat
    <2>. HIDE DEF Rows
    <2>. QED
      BY <1>1
  <1>. QED
    BY <1>1, <1>2 DEF RowsOf

\* The fields of a row.
LEMMA RowFields ==
    ASSUME NEW row \in Rows
    PROVE  /\ row.report \in Reports /\ row.submission \in Submissions
           /\ row.submission \in Nat
           /\ row.synced \in BOOLEAN /\ row.purged \in BOOLEAN
           /\ row.again \in BOOLEAN
  BY DEF Rows, Submissions

\* The row with one of its flags set.
LEMMA RowFlagged ==
    ASSUME NEW row \in Rows, NEW flag \in {"synced", "purged"}
    PROVE  LET new == [row EXCEPT ![flag] = TRUE]
           IN  /\ new \in Rows /\ new.report = row.report
               /\ new.submission = row.submission
               /\ flag = "synced" => new.synced /\ new.purged = row.purged
               /\ flag = "purged" => new.purged /\ new.synced = row.synced
  <1>1. CASE flag = "synced"
    BY <1>1 DEF Rows
  <1>2. CASE flag = "purged"
    BY <1>2 DEF Rows
  <1>. QED
    BY <1>1, <1>2

\* The flag of those rows of e's ledger, and nothing else, is set by the step.
Marked(e, flag, rows) ==
    /\ \A d \in Ledgers : DOMAIN ledger'[d] = DOMAIN ledger[d]
    /\ \A d \in Ledgers : d # e => ledger'[d] = ledger[d]
    /\ \A i \in DOMAIN ledger[e] :
          ledger'[e][i] = IF ledger[e][i] \in rows
                            THEN [ledger[e][i] EXCEPT ![flag] = TRUE]
                            ELSE ledger[e][i]

\* Setting a flag changes nothing else, neither here nor in another ledger.
LEMMA Flags ==
    ASSUME LedgerOK, NEW e \in Ledgers, NEW flag \in {"synced", "purged"},
           NEW rows, Flag(e, flag, rows)
    PROVE  LedgerOK' /\ Marked(e, flag, rows)
  <1>. DEFINE s == ledger[e]
              new == [i \in DOMAIN s |-> IF s[i] \in rows
                                           THEN [s[i] EXCEPT ![flag] = TRUE]
                                           ELSE s[i]]
  <1>1. ledger' = [ledger EXCEPT ![e] = new] /\ ledger \in [Ledgers -> Seq(Rows)]
    BY DEF Flag, LedgerOK
  <1>2. /\ s \in Seq(Rows) /\ Len(s) \in Nat /\ DOMAIN s = 1 .. Len(s)
        /\ \A i \in DOMAIN s : s[i] \in Rows /\ i \in Nat
    <2>1. s \in Seq(Rows) /\ \A i \in DOMAIN s : s[i] \in Rows /\ i \in Nat
      BY RowTypes
    <2>. HIDE DEF s
    <2>. QED
      BY <2>1
  <1>3. ASSUME NEW i \in DOMAIN s
        PROVE  /\ new[i] \in Rows /\ new[i].report = s[i].report
               /\ new[i].submission = s[i].submission
    <2>1. s[i] \in Rows
      BY <1>2
    <2>2. new[i] = IF s[i] \in rows THEN [s[i] EXCEPT ![flag] = TRUE] ELSE s[i]
      OBVIOUS
    <2>3. [s[i] EXCEPT ![flag] = TRUE] \in Rows
          /\ [s[i] EXCEPT ![flag] = TRUE].report = s[i].report
          /\ [s[i] EXCEPT ![flag] = TRUE].submission = s[i].submission
      BY <2>1, RowFlagged
    <2>. HIDE DEF new, s
    <2>. QED
      BY <2>1, <2>2, <2>3
  <1>4. DOMAIN new = DOMAIN s
    OBVIOUS
  <1>. HIDE DEF new
  <1>5. new \in Seq(Rows)
    <2>1. new = [i \in 1 .. Len(s) |-> new[i]]
      BY <1>2, <1>4 DEF new
    <2>2. \A i \in 1 .. Len(s) : new[i] \in Rows
      BY <1>2, <1>3
    <2>. HIDE DEF s
    <2>. QED
      BY <1>2, <2>1, <2>2
  <1>6. Ordered(new)
    <2>1. Ordered(s)
      BY DEF LedgerOK
    <2>. HIDE DEF s
    <2>. QED
      BY <1>3, <1>4, <2>1 DEF Ordered
  <1>7. \A d \in Ledgers : ledger'[d] = IF d = e THEN new ELSE ledger[d]
    BY <1>1
  <1>8. LedgerOK'
    <2>1. ledger' \in [Ledgers -> Seq(Rows)]
      BY <1>1, <1>5
    <2>. QED
      BY <1>6, <1>7, <2>1 DEF LedgerOK
  <1>9. \A i \in DOMAIN s : new[i] = IF s[i] \in rows
                                       THEN [s[i] EXCEPT ![flag] = TRUE]
                                       ELSE s[i]
    BY DEF new
  <1>10. Marked(e, flag, rows)
    BY <1>4, <1>7, <1>9 DEF Marked
  <1>. QED
    BY <1>8, <1>10

\* The new row of a report.
LEMMA NewRowTypes ==
    ASSUME LedgerOK, LedgersInv, bound \in Ledgers, BoundsOK,
           Len(author) < MaxSubmissions,
           NEW r \in Reports, NEW again \in BOOLEAN
    PROVE  LET row == NewRow(r, again)
           IN  /\ row \in Rows /\ row.report = r /\ ~row.synced
               /\ row.submission = Len(author) + 1 /\ Len(author) \in Nat
               /\ row.purged => IsFinal(r)
  <1>. DEFINE old == RowOf(bound, r)
              T == {x \in RowsOf(bound) : x.report = r}
  <1>1. ledger[bound] \in Seq(Rows)
    BY RowTypes
  <1>2. /\ old \in Seq(Rows)
        /\ \A n \in DOMAIN old :
             \E i \in DOMAIN ledger[bound] : ledger[bound][i] = old[n]
                                             /\ ledger[bound][i] \in T
    <2>1. old = Those(ledger[bound], T)
      BY DEF RowOf
    <2>. HIDE DEF old, T
    <2>. QED
      BY <1>1, <2>1, ThoseSelects
  <1>3. ASSUME old # <<>>
        PROVE  /\ Head(old) \in Rows
               /\ Head(old).purged => IsFinal(r)
    <2>1. Head(old) = old[1] /\ 1 \in DOMAIN old
      <3>. HIDE DEF old
      <3>. QED
        BY <1>2, <1>3
    <2>2. PICK i \in DOMAIN ledger[bound] : /\ ledger[bound][i] = Head(old)
                                            /\ ledger[bound][i] \in T
      BY <1>2, <2>1
    <2>3. Head(old) \in Rows /\ Head(old).report = r
      BY <2>2, RowTypes
    <2>4. Truthful(Head(old))
      BY <2>2 DEF LedgersInv
    <2>. QED
      BY <2>3, <2>4 DEF Truthful
  <1>4. (old # <<>> /\ Head(old).purged) \in BOOLEAN
    BY <1>3 DEF Rows
  <1>5. Len(author) \in Nat /\ Len(author) + 1 \in Submissions
    BY DesktopAssumption DEF BoundsOK, Submissions
  <1>6. NewRow(r, again) = [report |-> r, submission |-> Len(author) + 1,
                            again |-> again, synced |-> FALSE,
                            purged |-> old # <<>> /\ Head(old).purged]
    BY DEF NewRow
  <1>. DEFINE purged == old # <<>> /\ Head(old).purged
              row == [report |-> r, submission |-> Len(author) + 1,
                      again |-> again, synced |-> FALSE, purged |-> purged]
  <1>7. purged => IsFinal(r)
    BY <1>3
  <1>8. purged \in BOOLEAN
    BY <1>4
  <1>. HIDE DEF old, purged
  <1>9. /\ row \in Rows /\ row.report = r /\ ~row.synced
        /\ row.submission = Len(author) + 1 /\ row.purged = purged
    BY <1>5, <1>8 DEF Rows
  <1>. HIDE DEF row
  <1>10. NewRow(r, again) = row
    BY <1>6 DEF row, purged
  <1>. QED
    BY <1>5, <1>7, <1>9, <1>10

\* A submission puts its row at the top, and takes away the one that the
\* report had; nothing else changes, neither here nor in another ledger.
LEMMA Recorded ==
    ASSUME LedgerOK, LedgersInv, bound \in Ledgers, BoundsOK,
           Len(author) < MaxSubmissions,
           NEW r \in Reports, NEW again \in BOOLEAN, Record(r, again)
    PROVE  /\ LedgerOK'
           /\ \A d \in Ledgers : d # bound => ledger'[d] = ledger[d]
           /\ \A i \in DOMAIN ledger'[bound] :
                 \/ ledger'[bound][i] = NewRow(r, again)
                 \/ \E j \in DOMAIN ledger[bound] :
                       ledger'[bound][i] = ledger[bound][j]
  <1>. DEFINE s == ledger[bound]
              T == {row \in RowsOf(bound) : row.report # r}
              rest == Those(s, T)
              top == NewRow(r, again)
              new == <<top>> \o rest
  <1>1. /\ top \in Rows /\ top.report = r /\ top.submission = Len(author) + 1
        /\ Len(author) \in Nat
    BY NewRowTypes
  <1>2. /\ s \in Seq(Rows) /\ Ordered(s)
        /\ \A i \in DOMAIN s : s[i] \in Rows /\ i \in Nat /\ Truthful(s[i])
        /\ \A x \in T : x.report # r
    BY RowTypes DEF LedgersInv, LedgerOK
  <1>3. ledger' = [ledger EXCEPT ![bound] = new] /\ ledger \in [Ledgers -> Seq(Rows)]
    BY DEF Record, LedgerOK
  <1>. HIDE DEF s, T, top
  <1>4. /\ rest \in Seq(Rows)
        /\ \A n \in DOMAIN rest : \E i \in DOMAIN s : s[i] = rest[n] /\ s[i] \in T
        /\ \A m, n \in DOMAIN rest : m < n =>
              \E i, j \in DOMAIN s : i < j /\ s[i] = rest[m] /\ s[j] = rest[n]
    BY <1>2, ThoseSelects
  <1>5. ASSUME NEW n \in DOMAIN rest
        PROVE  /\ rest[n].report # r /\ rest[n].submission < Len(author) + 1
               /\ \E j \in DOMAIN s : rest[n] = s[j]
    <2>1. PICK i \in DOMAIN s : s[i] = rest[n] /\ s[i] \in T
      BY <1>4
    <2>2. s[i].submission <= Len(author) /\ s[i].submission \in Nat
      BY <1>2, <2>1, RowFields DEF Truthful
    <2>. QED
      BY <1>1, <1>2, <2>1, <2>2
  <1>. HIDE DEF rest
  <1>6. /\ new \in Seq(Rows) /\ new[1] = top
        /\ \A i \in DOMAIN new : i # 1 => i - 1 \in DOMAIN rest /\ new[i] = rest[i - 1]
        /\ \A i \in DOMAIN new : i \in Nat \ {0}
        /\ DOMAIN rest \subseteq Nat
    BY <1>1, <1>4
  <1>. HIDE DEF new
  <1>7. Ordered(new)
    <2>. SUFFICES ASSUME NEW m \in DOMAIN new, NEW n \in DOMAIN new, m < n
                  PROVE  /\ new[m].report # new[n].report
                         /\ new[m].submission > new[n].submission
      BY DEF Ordered
    <2>1. n # 1 /\ n - 1 \in DOMAIN rest /\ new[n] = rest[n - 1]
      BY <1>6
    <2>2. CASE m = 1
      <3>1. /\ new[n].report # r /\ new[n].submission < Len(author) + 1
            /\ \E j \in DOMAIN s : new[n] = s[j]
        BY <1>5, <2>1
      <3>2. new[n].submission \in Int
        BY <1>2, <3>1, RowFields
      <3>. QED
        BY <1>1, <1>6, <2>2, <3>1, <3>2
    <2>3. CASE m # 1
      <3>1. m - 1 \in DOMAIN rest /\ new[m] = rest[m - 1] /\ m - 1 < n - 1
        BY <1>6, <2>3
      <3>2. PICK i \in DOMAIN s, j \in DOMAIN s :
               i < j /\ s[i] = rest[m - 1] /\ s[j] = rest[n - 1]
        BY <1>4, <2>1, <3>1
      <3>. QED
        BY <1>2, <2>1, <3>1, <3>2 DEF Ordered
    <2>. QED
      BY <2>2, <2>3
  <1>8. \A d \in Ledgers : ledger'[d] = IF d = bound THEN new ELSE ledger[d]
    BY <1>3
  <1>9. LedgerOK'
    <2>1. ledger' \in [Ledgers -> Seq(Rows)]
      BY <1>3, <1>6
    <2>. QED
      BY <1>7, <1>8, <2>1 DEF LedgerOK
  <1>10. \A i \in DOMAIN new : new[i] = top \/ \E j \in DOMAIN s : new[i] = s[j]
    BY <1>5, <1>6
  <1>. QED
    BY <1>8, <1>9, <1>10 DEF s, top

\* A flow that goes on to a call.
LEMMA Goes ==
    ASSUME FlowOK, NEW f \in Flows, flow[f] # Idle, NEW place \in Places,
           NEW todo \in Seq(Rows), Goto(f, place, todo)
    PROVE  /\ FlowOK' /\ flow'[f] # Idle
           /\ flow'[f].pc = place /\ flow'[f].todo = todo
           /\ flow'[f].answer = "none"
           /\ \A g \in Flows : g # f => flow'[g] = flow[g]
  <1>. DEFINE new == [flow[f] EXCEPT !.pc = place, !.todo = todo, !.token = 0,
                                     !.answer = "none"]
  <1>1. flow[f] \in Flow
    BY DEF FlowOK
  <1>2. flow' = [flow EXCEPT ![f] = new]
    BY DEF Goto, FlowOK
  <1>3. new \in Flow /\ new.pc = place /\ new.todo = todo /\ new.answer = "none"
    BY <1>1 DEF Flow, Answers
  <1>. HIDE DEF new
  <1>4. new # Idle
    BY <1>3 DEF Idle, Places
  <1>5. flow' \in [Flows -> {Idle} \cup Flow] /\ flow'[f] = new
        /\ \A g \in Flows : g # f => flow'[g] = flow[g]
    BY <1>2, <1>3 DEF FlowOK
  <1>. QED
    BY <1>3, <1>4, <1>5 DEF FlowOK

\* A flow that ends.
LEMMA Stops ==
    ASSUME FlowOK, NEW f \in Flows, flow' = [flow EXCEPT ![f] = Idle]
    PROVE  /\ FlowOK' /\ flow'[f] = Idle
           /\ \A g \in Flows : g # f => flow'[g] = flow[g]
  BY DEF FlowOK

\* The end of a flow, and what the page shows then.
LEMMA EndTypes ==
    ASSUME FlowOK, SessionOK, NEW f \in Flows, Ends(f)
    PROVE  /\ FlowOK' /\ view' \in Histories /\ flow'[f] = Idle
           /\ \A g \in Flows : g # f => flow'[g] = flow[g]
  <1>1. flow' = [flow EXCEPT ![f] = Idle]
    BY DEF Ends
  <1>2. view' \in Histories
    BY DEF Ends, SessionOK, Histories
  <1>. QED
    BY <1>1, <1>2, Stops

\* A flow that begins.
LEMMA Starts ==
    ASSUME FlowOK, SessionOK, token # 0, NEW f \in Flows, NEW loop \in BOOLEAN,
           NEW only \in SUBSET Reports, Start(f, loop, only)
    PROVE  /\ FlowOK' /\ flow'[f] # Idle
           /\ flow'[f].pc = "list" /\ flow'[f].answer = "none"
           /\ \A g \in Flows : g # f => flow'[g] = flow[g]
  <1>. DEFINE new == [pc |-> "list", loop |-> loop, only |-> only, page |-> token,
                      todo |-> <<>>, token |-> 0, answer |-> "none"]
  <1>1. flow' = [flow EXCEPT ![f] = new]
    BY DEF Start
  <1>2. token \in Tokens
    <2>1. Len(logins) \in Nat /\ token \in 1 .. Len(logins) /\ Len(logins) <= MaxLogins
      BY DEF SessionOK
    <2>. QED
      BY <2>1, DesktopAssumption DEF Tokens
  <1>3. new \in Flow /\ new.pc = "list" /\ new.answer = "none"
    BY <1>2 DEF Flow, Answers, Places
  <1>4. new # Idle
    BY DEF Idle
  <1>. HIDE DEF new
  <1>5. flow' \in [Flows -> {Idle} \cup Flow] /\ flow'[f] = new
        /\ \A g \in Flows : g # f => flow'[g] = flow[g]
    BY <1>1, <1>3 DEF FlowOK
  <1>. QED
    BY <1>3, <1>4, <1>5 DEF FlowOK

\* The first of what a flow has to do, and the rest.
LEMMA Work ==
    ASSUME FlowOK, NEW f \in Flows, flow[f] # Idle, flow[f].todo # <<>>
    PROVE  /\ flow[f].todo \in Seq(Rows) /\ Head(flow[f].todo) \in Rows
           /\ Head(flow[f].todo) = flow[f].todo[1] /\ 1 \in DOMAIN flow[f].todo
           /\ Tail(flow[f].todo) \in Seq(Rows)
           /\ \A i \in DOMAIN Tail(flow[f].todo) :
                 /\ i + 1 \in DOMAIN flow[f].todo
                 /\ Tail(flow[f].todo)[i] = flow[f].todo[i + 1]
  <1>1. flow[f].todo \in Seq(Rows)
    BY DEF FlowOK, Flow
  <1>. DEFINE s == flow[f].todo
  <1>2. s \in Seq(Rows) /\ s # <<>>
    BY <1>1
  <1>. HIDE DEF s
  <1>3. /\ Head(s) \in Rows /\ Head(s) = s[1] /\ 1 \in DOMAIN s
        /\ Tail(s) \in Seq(Rows)
        /\ \A i \in DOMAIN Tail(s) : i + 1 \in DOMAIN s /\ Tail(s)[i] = s[i + 1]
    BY <1>2
  <1>. QED
    BY <1>2, <1>3 DEF s

-----------------------------------------------------------------------------
(* The steps of the session, the user and the staff.                       *)

SyncInv ==
    /\ SessionOK /\ LedgerOK /\ FlowOK /\ CloudOK /\ BoundsOK
    /\ FlowsInv /\ LedgersInv

\* What the backend has carried out, and what it has for good, remains so.
CloudKeeps ==
    /\ \A n \in Submissions : CarriedOut(n) => CarriedOut(n)'
    /\ \A r \in Reports : IsFinal(r) => IsFinal(r)'

\* What a flow knows of its work stays true.
LEMMA WorkKept ==
    ASSUME NEW w \in Flow, Working(w), CloudKeeps
    PROVE  Working(w)'
  <1>1. w.todo \in Seq(Rows)
    BY DEF Flow
  <1>2. \A i \in DOMAIN w.todo : w.todo[i].report \in Reports
    <2>. HIDE DEF Rows
    <2>1. \A i \in DOMAIN w.todo : w.todo[i] \in Rows
      BY <1>1
    <2>. QED
      BY <2>1, RowFields
  <1>3. w.todo # <<>> => Head(w.todo).submission \in Submissions
    <2>. HIDE DEF Rows
    <2>1. w.todo # <<>> => Head(w.todo) \in Rows
      BY <1>1
    <2>. QED
      BY <2>1, RowFields
  <1>. QED
    BY <1>2, <1>3 DEF Working, CloudKeeps

\* One flow takes a step, and the others keep what they know.
LEMMA FlowsKept ==
    ASSUME FlowOK, FlowsInv, CloudKeeps, NEW f \in Flows,
           \A g \in Flows : g # f => flow'[g] = flow[g],
           flow'[f] # Idle => Working(flow[f])'
    PROVE  FlowsInv'
  <1>. SUFFICES ASSUME NEW g \in Flows, flow'[g] # Idle
                PROVE  Working(flow[g])'
    BY DEF FlowsInv, Idle
  <1>1. CASE g = f
    BY <1>1
  <1>2. CASE g # f
    <2>1. PICK w \in Flow : w = flow[g]
      BY <1>2 DEF FlowOK
    <2>2. flow'[g] = w /\ Working(w)
      BY <1>2, <2>1 DEF FlowsInv
    <2>3. Working(w)'
      BY <2>2, WorkKept
    <2>. QED
      BY <2>2, <2>3 DEF Working
  <1>. QED
    BY <1>1, <1>2

\* The flows keep what they know when none of them takes a step.
LEMMA FlowsSame ==
    ASSUME FlowOK, FlowsInv, CloudKeeps, flow' = flow
    PROVE  FlowsInv'
  <1>. SUFFICES ASSUME NEW g \in Flows, flow[g] # Idle PROVE Working(flow[g])'
    BY DEF FlowsInv, Idle
  <1>1. PICK w \in Flow : w = flow[g]
    BY DEF FlowOK
  <1>2. Working(w)'
    BY <1>1, WorkKept DEF FlowsInv
  <1>. QED
    BY <1>1, <1>2 DEF Working

\* What the row of a ledger says stays true.
LEMMA RowKept ==
    ASSUME NEW row \in Rows, Truthful(row), CloudKeeps,
           Len(author) \in Nat, Len(author') \in Nat, Len(author) <= Len(author')
    PROVE  Truthful(row)'
  BY RowFields DEF Truthful, CloudKeeps

\* The ledgers keep their truth when they are not written.
LEMMA LedgersSame ==
    ASSUME LedgerOK, LedgersInv, CloudKeeps, UNCHANGED <<ledger, author>>, BoundsOK
    PROVE  LedgersInv'
  <1>1. Len(author) \in Nat
    BY DEF BoundsOK
  <1>. SUFFICES ASSUME NEW e \in Ledgers, NEW i \in DOMAIN ledger[e]
                PROVE  Truthful(ledger[e][i])'
    BY DEF LedgersInv
  <1>2. PICK row \in Rows : row = ledger[e][i]
    BY RowTypes
  <1>3. Truthful(row)'
    BY <1>1, <1>2, RowKept DEF LedgersInv
  <1>. QED
    BY <1>2, <1>3 DEF Truthful

\* Nothing is forgotten where nothing changes.
LEMMA CloudSame == UNCHANGED cloud => CloudKeeps
  BY DEF cloud, CloudKeeps, CarriedOut, IsFinal

\* An accident is counted.
LEMMA Counted == BoundsOK /\ Accident /\ author' = author => BoundsOK'
  BY DesktopAssumption DEF BoundsOK, Accident

\* A step of the session alone.
LEMMA SessionStep ==
    ASSUME SyncInv, SessionOK', UNCHANGED <<flow, ledger, cloud>>,
           UNCHANGED bounds \/ (Accident /\ author' = author)
    PROVE  SyncInv'
  <1>1. CloudKeeps
    BY CloudSame
  <1>2. BoundsOK' /\ author' = author
    BY Counted DEF SyncInv, bounds, BoundsOK
  <1>3. FlowsInv' /\ LedgersInv'
    BY <1>1, <1>2, FlowsSame, LedgersSame DEF SyncInv
  <1>. QED
    BY <1>2, <1>3 DEF SyncInv, FlowOK, LedgerOK, CloudOK, cloud

\* Logins, logouts, tokens that expire, and the binding of the ML service.
LEMMA SessionSteps ==
    ASSUME SyncInv,
           \/ \E e \in Enterprises : Login(e)
           \/ Logout \/ RestartService \/ Show
           \/ \E t \in Tokens : Bind(t) \/ Expire(t)
    PROVE  SyncInv'
  <1>. USE DEF session, service, cloud, bounds
  <1>0. SessionOK /\ DesktopAssumption
    BY DesktopAssumption DEF SyncInv
  <1>1. ASSUME NEW e \in Enterprises, Login(e) PROVE SyncInv'
    <2>. DEFINE t == Len(logins) + 1
    <2>1. /\ logins' = Append(logins, e) /\ Len(logins) < MaxLogins
          /\ valid' = valid \cup {t} /\ Mount(t) /\ binds' = binds \cup {t}
          /\ UNCHANGED <<bound, ledger, flow, cloud, bounds>>
      BY <1>1 DEF Login
    <2>2. /\ logins' \in Seq(Enterprises) /\ Len(logins') = t /\ t <= MaxLogins
          /\ DOMAIN logins \subseteq DOMAIN logins' /\ t \in DOMAIN logins'
      BY <1>0, <2>1 DEF SessionOK, DesktopAssumption
    <2>. HIDE DEF t
    <2>3. SessionOK'
      BY <1>0, <2>1, <2>2 DEF SessionOK, Mount, Histories, Blank
    <2>. QED
      BY <2>1, <2>3, SessionStep
  <1>2. CASE Logout
    <2>1. SessionOK'
      BY <1>0, <1>2 DEF Logout, SessionOK, Mount, Histories, Blank
    <2>. QED
      BY <1>2, <2>1, SessionStep DEF Logout
  <1>3. CASE RestartService
    <2>1. SessionOK'
      BY <1>0, <1>3 DEF RestartService, SessionOK, Ledgers
    <2>. QED
      BY <1>3, <2>1, SessionStep DEF RestartService
  <1>4. CASE Show
    <2>1. SessionOK'
      BY <1>0, <1>4 DEF Show, SessionOK
    <2>. QED
      BY <1>4, <2>1, SessionStep DEF Show
  <1>5. ASSUME NEW t \in Tokens, Bind(t) PROVE SyncInv'
    <2>1. logins[t] \in Enterprises /\ binds' \subseteq DOMAIN logins
      BY <1>0, <1>5 DEF Bind, SessionOK
    <2>2. SessionOK'
      BY <1>0, <1>5, <2>1 DEF Bind, SessionOK, Ledgers
    <2>. QED
      BY <1>5, <2>2, SessionStep DEF Bind
  <1>6. ASSUME NEW t \in Tokens, Expire(t) PROVE SyncInv'
    <2>1. SessionOK'
      BY <1>0, <1>6 DEF Expire, SessionOK
    <2>. QED
      BY <1>6, <2>1, SessionStep DEF Expire
  <1>. QED
    BY <1>1, <1>2, <1>3, <1>4, <1>5, <1>6

\* A page that is loaded again, and one that reads the reports.
LEMMA PageSteps ==
    ASSUME SyncInv, Reload \/ Refresh
    PROVE  SyncInv'
  <1>. USE DEF session, service, cloud, bounds
  <1>0. SessionOK
    BY DEF SyncInv
  <1>1. CASE Reload
    <2>1. /\ Accident /\ Mount(token) /\ binds' = binds \cup {token} /\ token # 0
          /\ flow' = [f \in Flows |-> Idle]
          /\ UNCHANGED <<logins, valid, bound, ledger, cloud, author>>
      BY <1>1 DEF Reload
    <2>2. SessionOK'
      BY <1>0, <2>1 DEF SessionOK, Mount, Histories, Blank
    <2>3. FlowOK' /\ FlowsInv'
      BY <2>1 DEF FlowOK, FlowsInv
    <2>4. BoundsOK'
      BY <2>1, Counted DEF SyncInv
    <2>5. LedgersInv'
      BY <2>1, CloudSame, LedgersSame DEF SyncInv
    <2>. QED
      BY <2>1, <2>2, <2>3, <2>4, <2>5 DEF SyncInv, LedgerOK, CloudOK
  <1>2. CASE Refresh
    <2>1. ASSUME NEW e \in Ledgers
          PROVE  [r \in Reports |-> Shown(e, r)] \in Histories
      <3>1. \A r \in Reports : Shown(e, r) \in {"none", "locked", "returned"}
        BY DEF Shown
      <3>. QED
        BY <3>1 DEF Histories
    <2>2. token \in valid => logins[token] \in Ledgers
      BY <1>0 DEF SessionOK, Ledgers
    <2>3. NoEnterprise \in Ledgers
      BY DEF Ledgers
    <2>4. \/ coming' \in Histories /\ UNCHANGED <<token, ready, view>>
          \/ Mount(0)
      BY <1>2, <2>1, <2>2, <2>3 DEF Refresh
    <2>5. /\ UNCHANGED <<logins, valid, service, flow, cloud, author>>
          /\ UNCHANGED faults \/ Accident
      BY <1>2 DEF Refresh
    <2>6. SessionOK'
      BY <1>0, <2>4, <2>5 DEF SessionOK, Mount, Histories, Blank
    <2>. QED
      BY <2>5, <2>6, SessionStep
  <1>. QED
    BY <1>1, <1>2

\* The staff decide on what is pending, and never again on what is final.
LEMMA DecideStep ==
    ASSUME SyncInv, NEW e \in Enterprises, NEW r \in Reports, Decide(e, r)
    PROVE  SyncInv'
  <1>1. /\ intake[e][r] = "pending"
        /\ UNCHANGED <<session, service, flow, carried, refused, bounds>>
    BY DEF Decide
  <1>2. PICK review \in {"returned", "final"} :
           intake' = [intake EXCEPT ![e][r] = review]
    BY DEF Decide
  <1>3. CloudOK'
    BY <1>1, <1>2 DEF SyncInv, CloudOK
  <1>4. CloudKeeps
    <2>1. \A b \in Enterprises, q \in Reports :
             intake[b][q] = "final" => intake'[b][q] = "final"
      BY <1>1, <1>2 DEF SyncInv, CloudOK
    <2>. QED
      BY <1>1, <2>1 DEF CloudKeeps, CarriedOut, IsFinal
  <1>5. UNCHANGED <<ledger, flow, author>>
    BY <1>1 DEF service, bounds
  <1>6. FlowsInv' /\ LedgersInv'
    BY <1>4, <1>5, FlowsSame, LedgersSame DEF SyncInv
  <1>. QED
    BY <1>1, <1>3, <1>6 DEF SyncInv, SessionOK, LedgerOK, FlowOK, BoundsOK,
                            session, service, bounds

-----------------------------------------------------------------------------
(* The steps of the flows.                                                 *)

\* A new flow knows nothing yet.
LEMMA NewFlow ==
    ASSUME SyncInv, CloudKeeps, token # 0, NEW f \in Flows,
           NEW loop \in BOOLEAN, NEW only \in SUBSET Reports,
           Start(f, loop, only)
    PROVE  FlowOK' /\ FlowsInv'
  <1>1. /\ FlowOK' /\ flow'[f] # Idle /\ flow'[f].pc = "list"
        /\ \A g \in Flows : g # f => flow'[g] = flow[g]
    BY Starts DEF SyncInv
  <1>2. Working(flow[f])'
    BY <1>1 DEF Working
  <1>. QED
    BY <1>1, <1>2, FlowsKept DEF SyncInv

\* A submission, and the loop.
LEMMA StartSteps ==
    ASSUME SyncInv, NEW f \in Flows, Loop(f) \/ \E r \in Reports : Submit(f, r)
    PROVE  SyncInv'
  <1>. USE DEF session, service, cloud, bounds
  <1>1. CASE Loop(f)
    <2>1. /\ token # 0 /\ Start(f, TRUE, Reports)
          /\ UNCHANGED <<session, service, cloud, bounds>>
      BY <1>1 DEF Loop
    <2>2. CloudKeeps
      BY <2>1, CloudSame
    <2>3. FlowOK' /\ FlowsInv'
      BY <2>1, <2>2, NewFlow
    <2>4. LedgersInv'
      BY <2>1, <2>2, LedgersSame DEF SyncInv
    <2>. QED
      BY <2>1, <2>3, <2>4 DEF SyncInv, SessionOK, LedgerOK, CloudOK, BoundsOK
  <1>2. ASSUME NEW r \in Reports, Submit(f, r) PROVE SyncInv'
    <2>1. /\ token # 0 /\ Len(author) < MaxSubmissions
          /\ author' = Append(author, logins[token])
          /\ Start(f, FALSE, {r})
          /\ \E again \in BOOLEAN : Record(r, again)
          /\ UNCHANGED <<session, bound, binds, cloud, faults>>
      BY <1>2 DEF Submit
    <2>2. PICK again \in BOOLEAN : Record(r, again)
      BY <2>1
    <2>3. CloudKeeps
      BY <2>1, CloudSame
    <2>4. FlowOK' /\ FlowsInv'
      <3>1. {r} \in SUBSET Reports
        OBVIOUS
      <3>. QED
        BY <2>1, <2>3, <3>1, NewFlow
    <2>5. /\ author \in Seq(Enterprises) /\ logins[token] \in Enterprises
          /\ bound \in Ledgers
      BY <2>1 DEF SyncInv, BoundsOK, SessionOK
    <2>6. /\ author' \in Seq(Enterprises) /\ Len(author) \in Nat
          /\ Len(author') = Len(author) + 1
      BY <2>1, <2>5
    <2>7. /\ LedgerOK'
          /\ \A d \in Ledgers : d # bound => ledger'[d] = ledger[d]
          /\ \A i \in DOMAIN ledger'[bound] :
                \/ ledger'[bound][i] = NewRow(r, again)
                \/ \E j \in DOMAIN ledger[bound] :
                      ledger'[bound][i] = ledger[bound][j]
      BY <2>1, <2>2, <2>5, Recorded DEF SyncInv
    <2>8. ASSUME NEW row, row = NewRow(r, again) PROVE Truthful(row)'
      <3>1. /\ ~row.synced /\ row.submission = Len(author) + 1
            /\ row.purged => IsFinal(r)
            /\ row.report = r
        BY <2>1, <2>5, <2>8, NewRowTypes DEF SyncInv
      <3>. QED
        BY <2>3, <2>6, <3>1 DEF Truthful, CloudKeeps
    <2>9. ASSUME NEW d \in Ledgers, NEW j \in DOMAIN ledger[d],
                 NEW row, row = ledger[d][j]
          PROVE  Truthful(row)'
      <3>1. row \in Rows /\ Truthful(row)
        BY <2>9, RowTypes DEF SyncInv, LedgersInv
      <3>. QED
        BY <2>3, <2>6, <3>1, RowKept
    <2>10. LedgersInv'
      <3>. SUFFICES ASSUME NEW d \in Ledgers, NEW i \in DOMAIN ledger'[d]
                    PROVE  Truthful(ledger[d][i])'
        BY DEF LedgersInv
      <3>1. PICK row : row = ledger'[d][i]
        OBVIOUS
      <3>2. Truthful(row)'
        BY <2>7, <2>8, <2>9, <3>1
      <3>. QED
        BY <3>1, <3>2 DEF Truthful
    <2>. QED
      BY <2>1, <2>4, <2>6, <2>7, <2>10 DEF SyncInv, SessionOK, CloudOK, BoundsOK
  <1>. QED
    BY <1>1, <1>2

\* A step of one flow, which neither writes a ledger nor changes the backend.
LEMMA FlowStep ==
    ASSUME SyncInv, NEW f \in Flows, FlowOK', SessionOK',
           \A g \in Flows : g # f => flow'[g] = flow[g],
           flow'[f] # Idle => Working(flow[f])',
           UNCHANGED <<ledger, cloud, author>>, BoundsOK'
    PROVE  SyncInv'
  <1>1. CloudKeeps
    BY CloudSame
  <1>2. FlowsInv'
    BY <1>1, FlowsKept DEF SyncInv
  <1>3. LedgersInv'
    BY <1>1, LedgersSame DEF SyncInv
  <1>. QED
    BY <1>2, <1>3 DEF SyncInv, LedgerOK, CloudOK, cloud

\* What a flow takes from its ledger to work on.
LEMMA Taken ==
    ASSUME SyncInv, NEW T
    PROVE  /\ Those(ledger[bound], T) \in Seq(Rows)
           /\ \A n \in DOMAIN Those(ledger[bound], T) :
                 Those(ledger[bound], T)[n] \in T
  <1>1. ledger[bound] \in Seq(Rows)
    BY RowTypes DEF SyncInv, SessionOK
  <1>. QED
    BY <1>1, ThoseSelects

\* The list of what is pending, the call that sends, and its answer.
LEMMA SendingSteps ==
    ASSUME SyncInv, NEW f \in Flows, List(f) \/ Send(f) \/ Receive(f)
    PROVE  SyncInv'
  <1>. USE DEF session, service, cloud, bounds
  <1>0. SessionOK /\ FlowOK /\ BoundsOK
    BY DEF SyncInv
  <1>1. CASE List(f)
    <2>. DEFINE todo == Those(Pending(bound),
                          {row \in RowsOf(bound) : row.report \in flow[f].only})
    <2>1. /\ flow[f] # Idle
          /\ UNCHANGED <<logins, valid, token, ready, coming, service, cloud, bounds>>
          /\ IF todo = <<>> /\ ~flow[f].loop
               THEN Ends(f)
               ELSE /\ Goto(f, IF todo = <<>> THEN "purge" ELSE "send", todo)
                    /\ UNCHANGED view
      BY <1>1 DEF List, At
    <2>2. todo \in Seq(Rows)
      <3>1. Pending(bound) \in Seq(Rows)
        BY Taken DEF Pending
      <3>. QED
        BY <3>1, ThoseSelects
    <2>. HIDE DEF todo
    <2>3. CASE Ends(f)
      <3>1. /\ FlowOK' /\ view' \in Histories /\ flow'[f] = Idle
            /\ \A g \in Flows : g # f => flow'[g] = flow[g]
        BY <1>0, <2>3, EndTypes
      <3>2. SessionOK' /\ BoundsOK'
        BY <1>0, <2>1, <3>1 DEF SessionOK, BoundsOK
      <3>. QED
        BY <2>1, <3>1, <3>2, FlowStep
    <2>4. ASSUME NEW place \in {"purge", "send"}, Goto(f, place, todo),
                 todo = <<>> => place = "purge", UNCHANGED view
          PROVE  SyncInv'
      <3>1. place \in Places
        BY DEF Places
      <3>2. /\ FlowOK' /\ flow'[f] # Idle
            /\ flow'[f].pc = place /\ flow'[f].todo = todo
            /\ flow'[f].answer = "none"
            /\ \A g \in Flows : g # f => flow'[g] = flow[g]
        BY <1>0, <2>1, <2>2, <2>4, <3>1, Goes
      <3>3. Working(flow[f])'
        BY <2>4, <3>2 DEF Working
      <3>4. SessionOK' /\ BoundsOK'
        BY <1>0, <2>1, <2>4 DEF SessionOK, BoundsOK
      <3>. QED
        BY <2>1, <3>2, <3>3, <3>4, FlowStep
    <2>. QED
      BY <2>1, <2>3, <2>4
  <1>2. CASE Send(f)
    <2>. DEFINE new == [flow[f] EXCEPT !.pc = "sent", !.token = token]
    <2>1. /\ flow[f] # Idle /\ flow[f].pc = "send" /\ flow[f] \in Flow
          /\ Working(flow[f])
          /\ flow' = [flow EXCEPT ![f].pc = "sent", ![f].token = token]
          /\ UNCHANGED <<session, service, cloud, bounds>>
      BY <1>0, <1>2 DEF Send, At, FlowOK, SyncInv, FlowsInv
    <2>2. token \in {0} \cup Tokens
      <3>1. Len(logins) \in Nat /\ token \in {0} \cup 1 .. Len(logins)
            /\ Len(logins) <= MaxLogins
        BY <1>0 DEF SessionOK
      <3>. QED
        BY <3>1, DesktopAssumption DEF Tokens
    <2>3. /\ new \in Flow /\ new.pc = "sent" /\ new.todo = flow[f].todo
          /\ new.answer = flow[f].answer
      BY <2>1, <2>2 DEF Flow, Places
    <2>4. flow' = [flow EXCEPT ![f] = new]
      BY <1>0, <2>1 DEF FlowOK
    <2>. HIDE DEF new
    <2>5. /\ FlowOK' /\ flow'[f] = new
          /\ \A g \in Flows : g # f => flow'[g] = flow[g]
      BY <1>0, <2>3, <2>4 DEF FlowOK
    <2>6. Working(flow[f])'
      BY <2>1, <2>3, <2>5 DEF Working
    <2>7. SessionOK' /\ BoundsOK'
      BY <1>0, <2>1 DEF SessionOK, BoundsOK
    <2>. QED
      BY <2>1, <2>5, <2>6, <2>7, FlowStep
  <1>3. CASE Receive(f)
    <2>1. /\ flow[f] # Idle /\ flow[f].pc = "sent" /\ Working(flow[f])
          /\ UNCHANGED <<service, cloud, bounds>>
          /\ IF flow[f].answer = "ok"
               THEN Goto(f, "mark", flow[f].todo) /\ UNCHANGED session
               ELSE /\ UNCHANGED <<logins, valid>>
                    /\ IF flow[f].answer = "denied"
                         THEN flow' = [flow EXCEPT ![f] = Idle] /\ Mount(0)
                         ELSE Ends(f) /\ UNCHANGED <<token, ready, coming>>
      BY <1>3 DEF Receive, At, Accepted, SyncInv, FlowsInv
    <2>2. BoundsOK'
      BY <1>0, <2>1 DEF BoundsOK
    <2>3. CASE flow[f].answer = "ok"
      <3>1. flow[f].todo \in Seq(Rows) /\ flow[f].todo # <<>>
        BY <1>0, <2>1, Work DEF Working
      <3>2. "mark" \in Places
        BY DEF Places
      <3>3. /\ FlowOK' /\ flow'[f] # Idle
            /\ flow'[f].pc = "mark" /\ flow'[f].todo = flow[f].todo
            /\ \A g \in Flows : g # f => flow'[g] = flow[g]
        BY <1>0, <2>1, <2>3, <3>1, <3>2, Goes
      <3>4. Working(flow[f])'
        BY <2>1, <2>3, <3>1, <3>3 DEF Working, CarriedOut
      <3>5. SessionOK'
        BY <1>0, <2>1, <2>3 DEF SessionOK
      <3>. QED
        BY <2>1, <2>2, <3>3, <3>4, <3>5, FlowStep
    <2>4. CASE flow[f].answer = "denied"
      <3>1. flow' = [flow EXCEPT ![f] = Idle] /\ Mount(0) /\ UNCHANGED <<logins, valid>>
        BY <2>1, <2>4
      <3>2. SessionOK'
        BY <1>0, <2>1, <3>1 DEF SessionOK, Mount, Histories, Blank
      <3>3. /\ FlowOK' /\ flow'[f] = Idle
            /\ \A g \in Flows : g # f => flow'[g] = flow[g]
        BY <1>0, <3>1, Stops
      <3>. QED
        BY <2>1, <2>2, <3>2, <3>3, FlowStep
    <2>5. CASE flow[f].answer \notin {"ok", "denied"}
      <3>1. Ends(f) /\ UNCHANGED <<token, ready, coming, logins, valid>>
        BY <2>1, <2>5
      <3>2. /\ FlowOK' /\ view' \in Histories /\ flow'[f] = Idle
            /\ \A g \in Flows : g # f => flow'[g] = flow[g]
        BY <1>0, <3>1, EndTypes
      <3>3. SessionOK'
        BY <1>0, <2>1, <3>1, <3>2 DEF SessionOK
      <3>. QED
        BY <2>1, <2>2, <3>2, <3>3, FlowStep
    <2>. QED
      BY <2>3, <2>4, <2>5
  <1>. QED
    BY <1>1, <1>2, <1>3

\* The backend carries a submission out, knows it already, or refuses it; what
\* it has for good it does not take again.
LEMMA ServeStep ==
    ASSUME SyncInv, NEW f \in Flows, Serve(f)
    PROVE  SyncInv'
  <1>. DEFINE row == Head(flow[f].todo)
              t == flow[f].token
  <1>0. /\ SessionOK /\ FlowOK /\ BoundsOK /\ CloudOK
        /\ flow[f] # Idle /\ flow[f] \in Flow /\ flow[f].pc = "sent"
        /\ Working(flow[f]) /\ UNCHANGED <<session, service, author>>
    BY DEF SyncInv, FlowsInv, Serve, At, FlowOK
  <1>1. row \in Rows /\ flow[f].todo # <<>>
    BY <1>0, Work DEF Working
  <1>2. PICK a \in {"denied", "ok", "refused", "lost"} :
           flow' = [flow EXCEPT ![f].answer = a]
    BY DEF Serve
  <1>3. UNCHANGED faults \/ Accident
    BY DEF Serve
  <1>4. \/ UNCHANGED cloud /\ a \in {"denied", "lost"}
        \/ \E e \in Enterprises :
              \/ UNCHANGED cloud /\ Known(e, row)
              \/ /\ Welcome(e, row)
                 /\ carried' = carried \cup {<<e, row.submission>>}
                 /\ intake' = [intake EXCEPT ![e][row.report] = "pending"]
                 /\ UNCHANGED refused
              \/ /\ refused' = TRUE /\ a \in {"refused", "lost"}
                 /\ UNCHANGED <<intake, carried>>
    <2>1. t \in valid => logins[t] \in Enterprises
      BY <1>0 DEF SessionOK
    <2>2. ASSUME NEW x \in {"ok", "refused", "denied"},
                 \/ flow' = [flow EXCEPT ![f].answer = x]
                 \/ flow' = [flow EXCEPT ![f].answer = "lost"]
          PROVE  a \in {x, "lost"}
      <3>1. ASSUME NEW y, flow' = [flow EXCEPT ![f].answer = y]
            PROVE  flow'[f].answer = y
        BY <1>0, <3>1 DEF FlowOK, Flow
      <3>. QED
        BY <1>2, <2>2, <3>1
    <2>3. CASE t \notin valid
      BY <2>2, <2>3 DEF Serve
    <2>4. CASE t \in valid
      <3>. DEFINE e == logins[t]
      <3>1. \/ UNCHANGED cloud /\ Known(e, row)
            \/ /\ Welcome(e, row)
               /\ carried' = carried \cup {<<e, row.submission>>}
               /\ intake' = [intake EXCEPT ![e][row.report] = "pending"]
               /\ UNCHANGED refused
            \/ /\ refused' = TRUE /\ UNCHANGED <<intake, carried>>
               /\ \/ flow' = [flow EXCEPT ![f].answer = "refused"]
                  \/ flow' = [flow EXCEPT ![f].answer = "lost"]
        BY <2>4 DEF Serve
      <3>2. e \in Enterprises
        BY <2>1, <2>4
      <3>. HIDE DEF e, row
      <3>. QED
        BY <2>2, <3>1, <3>2
    <2>. QED
      BY <2>3, <2>4
  <1>. HIDE DEF t
  <1>5. row.submission \in Submissions /\ row.report \in Reports
    BY <1>1, RowFields
  <1>. HIDE DEF row
  <1>6. CloudOK' /\ carried \subseteq carried'
    <2>1. CASE UNCHANGED cloud
      BY <1>0, <2>1 DEF CloudOK, cloud
    <2>2. ASSUME NEW e \in Enterprises,
                 carried' = carried \cup {<<e, row.submission>>},
                 intake' = [intake EXCEPT ![e][row.report] = "pending"],
                 UNCHANGED refused
          PROVE  CloudOK' /\ carried \subseteq carried'
      BY <1>0, <1>5, <2>2 DEF CloudOK
    <2>3. CASE refused' = TRUE /\ UNCHANGED <<intake, carried>>
      BY <1>0, <2>3 DEF CloudOK
    <2>. QED
      BY <1>4, <2>1, <2>2, <2>3
  <1>7. \A b \in Enterprises, r \in Reports :
           intake[b][r] = "final" => intake'[b][r] = "final"
    <2>1. CASE intake' = intake
      BY <2>1
    <2>2. ASSUME NEW e \in Enterprises, Welcome(e, row),
                 intake' = [intake EXCEPT ![e][row.report] = "pending"]
          PROVE  \A b \in Enterprises, r \in Reports :
                    intake[b][r] = "final" => intake'[b][r] = "final"
      <3>1. intake[e][row.report] # "final"
        BY <2>2 DEF Welcome
      <3>. QED
        BY <1>0, <1>5, <2>2, <3>1 DEF CloudOK
    <2>. QED
      BY <1>4, <2>1, <2>2 DEF cloud
  <1>8. CloudKeeps
    BY <1>6, <1>7 DEF CloudKeeps, CarriedOut, IsFinal
  <1>9. a = "ok" => \E b \in Enterprises : <<b, row.submission>> \in carried'
    <2>1. CASE \E e \in Enterprises : UNCHANGED cloud /\ Known(e, row)
      BY <2>1 DEF Known, cloud
    <2>2. CASE \E e \in Enterprises : carried' = carried \cup {<<e, row.submission>>}
      BY <2>2
    <2>. QED
      BY <1>4, <2>1, <2>2
  <1>. DEFINE new == [flow[f] EXCEPT !.answer = a]
  <1>10. /\ new \in Flow /\ new.pc = "sent" /\ new.todo = flow[f].todo
         /\ new.answer = a
    BY <1>0 DEF Flow, Answers
  <1>11. flow' = [flow EXCEPT ![f] = new]
    BY <1>0, <1>2 DEF FlowOK
  <1>. HIDE DEF new
  <1>12. /\ FlowOK' /\ flow'[f] = new
         /\ \A g \in Flows : g # f => flow'[g] = flow[g]
    BY <1>0, <1>10, <1>11 DEF FlowOK
  <1>13. Working(flow[f])'
    BY <1>1, <1>9, <1>10, <1>12 DEF Working, CarriedOut, row
  <1>14. FlowsInv'
    BY <1>0, <1>8, <1>12, <1>13, FlowsKept DEF SyncInv
  <1>15. SessionOK' /\ LedgerOK' /\ UNCHANGED <<ledger, author>>
    BY <1>0 DEF SyncInv, SessionOK, LedgerOK, session, service
  <1>16. BoundsOK'
    BY <1>0, <1>3, Counted DEF BoundsOK
  <1>17. LedgersInv'
    BY <1>8, <1>15, LedgersSame DEF SyncInv
  <1>. QED
    BY <1>6, <1>12, <1>14, <1>15, <1>16, <1>17 DEF SyncInv

\* A call to the local service fails, and the list of what is final.
LEMMA EndingSteps ==
    ASSUME SyncInv, NEW f \in Flows, Fail(f) \/ ListFinal(f)
    PROVE  SyncInv'
  <1>. USE DEF session, service, cloud, bounds
  <1>0. SessionOK /\ FlowOK /\ BoundsOK
    BY DEF SyncInv
  <1>1. ASSUME Ends(f), UNCHANGED <<logins, valid, token, ready, coming>>,
               UNCHANGED <<service, cloud, author>>, BoundsOK'
        PROVE  SyncInv'
    <2>1. /\ FlowOK' /\ view' \in Histories /\ flow'[f] = Idle
          /\ \A g \in Flows : g # f => flow'[g] = flow[g]
      BY <1>0, <1>1, EndTypes
    <2>2. SessionOK'
      BY <1>0, <1>1, <2>1 DEF SessionOK
    <2>. QED
      BY <1>1, <2>1, <2>2, FlowStep
  <1>2. CASE Fail(f)
    <2>1. BoundsOK'
      BY <1>0, <1>2, Counted DEF Fail
    <2>. QED
      BY <1>1, <1>2, <2>1 DEF Fail
  <1>3. CASE ListFinal(f)
    <2>. DEFINE T == {row \in RowsOf(bound) :
                         /\ ~row.purged
                         /\ row.report \in LockedReports(logins[token])}
                todo == Those(ledger[bound], T)
    <2>1. /\ flow[f] # Idle
          /\ UNCHANGED <<logins, valid, service, cloud, bounds>>
          /\ IF token \notin valid
               THEN flow' = [flow EXCEPT ![f] = Idle] /\ Mount(0)
               ELSE /\ UNCHANGED <<token, ready, coming>>
                    /\ IF todo = <<>> THEN Ends(f)
                                      ELSE Goto(f, "drop", todo) /\ UNCHANGED view
      BY <1>3 DEF ListFinal, At
    <2>2. BoundsOK'
      BY <1>0, <2>1 DEF BoundsOK
    <2>3. CASE token \notin valid
      <3>1. flow' = [flow EXCEPT ![f] = Idle] /\ Mount(0)
        BY <2>1, <2>3
      <3>2. SessionOK'
        BY <1>0, <2>1, <3>1 DEF SessionOK, Mount, Histories, Blank
      <3>3. /\ FlowOK' /\ flow'[f] = Idle
            /\ \A g \in Flows : g # f => flow'[g] = flow[g]
        BY <1>0, <3>1, Stops
      <3>. QED
        BY <2>1, <2>2, <3>2, <3>3, FlowStep
    <2>4. CASE token \in valid /\ todo = <<>>
      BY <1>1, <2>1, <2>2, <2>4
    <2>5. CASE token \in valid /\ todo # <<>>
      <3>1. Goto(f, "drop", todo) /\ UNCHANGED <<view, token, ready, coming>>
        BY <2>1, <2>5
      <3>2. /\ todo \in Seq(Rows)
            /\ \A n \in DOMAIN todo : todo[n] \in T
        BY Taken
      <3>3. logins[token] \in Enterprises
        BY <1>0, <2>5 DEF SessionOK
      <3>4. \A x \in T : IsFinal(x.report)
        BY <3>3 DEF IsFinal, LockedReports
      <3>5. "drop" \in Places
        BY DEF Places
      <3>. HIDE DEF todo, T
      <3>6. /\ FlowOK' /\ flow'[f] # Idle
            /\ flow'[f].pc = "drop" /\ flow'[f].todo = todo
            /\ \A g \in Flows : g # f => flow'[g] = flow[g]
        BY <1>0, <2>1, <3>1, <3>2, <3>5, Goes
      <3>7. \A r \in Reports : IsFinal(r) => IsFinal(r)'
        BY <2>1 DEF IsFinal
      <3>8. \A n \in DOMAIN todo :
               \E b \in Enterprises : intake'[b][todo[n].report] = "final"
        BY <2>1, <3>2, <3>4 DEF IsFinal
      <3>9. Working(flow[f])'
        BY <2>5, <3>6, <3>8 DEF Working, IsFinal
      <3>10. SessionOK'
        BY <1>0, <2>1, <3>1 DEF SessionOK
      <3>. QED
        BY <2>1, <2>2, <3>6, <3>9, <3>10, FlowStep
    <2>. QED
      BY <2>3, <2>4, <2>5
  <1>. QED
    BY <1>2, <1>3

\* A flow that sets a flag of rows sets it truthfully.
LEMMA FlagStep ==
    ASSUME SyncInv, NEW flag \in {"synced", "purged"}, NEW rows,
           Flag(bound, flag, rows), UNCHANGED <<cloud, author>>,
           \A x \in rows : /\ flag = "synced" => CarriedOut(x.submission)
                           /\ flag = "purged" => IsFinal(x.report)
    PROVE  LedgerOK' /\ LedgersInv'
  <1>1. /\ LedgerOK'
        /\ \A d \in Ledgers : DOMAIN ledger'[d] = DOMAIN ledger[d]
        /\ \A d \in Ledgers : d # bound => ledger'[d] = ledger[d]
        /\ \A i \in DOMAIN ledger[bound] :
             ledger'[bound][i] = IF ledger[bound][i] \in rows
                                   THEN [ledger[bound][i] EXCEPT ![flag] = TRUE]
                                   ELSE ledger[bound][i]
    <2>1. LedgerOK /\ bound \in Ledgers
      BY DEF SyncInv, SessionOK
    <2>2. LedgerOK' /\ Marked(bound, flag, rows)
      BY <2>1, Flags
    <2>. QED
      BY <2>2 DEF Marked
  <1>2. UNCHANGED <<carried, intake, author>>
    BY DEF cloud
  <1>3. \A row : Truthful(row) => Truthful(row)'
    BY <1>2 DEF Truthful, CarriedOut, IsFinal
  <1>4. ASSUME NEW x \in rows \cap Rows, Truthful(x),
               NEW y, y = [x EXCEPT ![flag] = TRUE]
        PROVE  Truthful(y)
    <2>1. /\ y.report = x.report /\ y.submission = x.submission
          /\ flag = "synced" => y.synced /\ y.purged = x.purged
          /\ flag = "purged" => y.purged /\ y.synced = x.synced
      BY <1>4, RowFlagged
    <2>2. CASE flag = "synced"
      BY <1>4, <2>1, <2>2 DEF Truthful
    <2>3. CASE flag = "purged"
      BY <1>4, <2>1, <2>3 DEF Truthful
    <2>. QED
      BY <2>2, <2>3
  <1>5. ASSUME NEW d \in Ledgers, NEW i \in DOMAIN ledger[d],
               NEW y, y = ledger'[d][i]
        PROVE  Truthful(y)
    <2>1. ledger[d][i] \in Rows /\ Truthful(ledger[d][i])
      BY RowTypes DEF SyncInv, LedgersInv
    <2>2. CASE d # bound \/ ledger[d][i] \notin rows
      BY <1>1, <1>5, <2>1, <2>2
    <2>3. CASE d = bound /\ ledger[d][i] \in rows
      <3>1. y = [ledger[d][i] EXCEPT ![flag] = TRUE]
        BY <1>1, <1>5, <2>3
      <3>. QED
        BY <1>4, <2>1, <2>3, <3>1
    <2>. QED
      BY <2>2, <2>3
  <1>6. LedgersInv'
    <2>. SUFFICES ASSUME NEW d \in Ledgers, NEW i \in DOMAIN ledger'[d]
                  PROVE  Truthful(ledger[d][i])'
      BY DEF LedgersInv
    <2>1. PICK y : y = ledger'[d][i]
      OBVIOUS
    <2>2. Truthful(y)'
      BY <1>1, <1>3, <1>5, <2>1
    <2>. QED
      BY <2>1, <2>2 DEF Truthful
  <1>. QED
    BY <1>1, <1>6

\* A flow marks what has been sent, and drops the raw events of what is final.
LEMMA LedgerSteps ==
    ASSUME SyncInv, NEW f \in Flows, MarkSynced(f) \/ Drop(f)
    PROVE  SyncInv'
  <1>. DEFINE head == Head(flow[f].todo)
              rest == Tail(flow[f].todo)
  <1>0. /\ SessionOK /\ FlowOK /\ BoundsOK /\ CloudOK /\ FlowsInv
        /\ flow[f] # Idle /\ flow[f].pc \in {"mark", "drop"} /\ Working(flow[f])
        /\ UNCHANGED <<bound, binds, cloud, bounds>>
        /\ UNCHANGED <<logins, valid, token, ready, coming>>
    BY DEF SyncInv, FlowsInv, MarkSynced, Drop, At, session
  <1>1. /\ head \in Rows /\ rest \in Seq(Rows)
        /\ head = flow[f].todo[1] /\ 1 \in DOMAIN flow[f].todo
        /\ \A i \in DOMAIN rest :
              i + 1 \in DOMAIN flow[f].todo /\ rest[i] = flow[f].todo[i + 1]
    BY <1>0, Work DEF Working
  <1>2. CloudKeeps /\ BoundsOK' /\ CloudOK' /\ UNCHANGED author
    BY <1>0, CloudSame DEF BoundsOK, CloudOK, cloud, bounds
  <1>3. LedgerOK' /\ LedgersInv'
    <2>1. CASE MarkSynced(f)
      <3>. DEFINE rows == {x \in RowsOf(bound) : /\ x.report = head.report
                                                 /\ x.submission = head.submission}
      <3>1. Flag(bound, "synced", rows) /\ flow[f].pc = "mark"
        BY <2>1 DEF MarkSynced, Mark, At
      <3>2. CarriedOut(head.submission)
        BY <1>0, <3>1 DEF Working
      <3>3. \A x \in rows : CarriedOut(x.submission)
        BY <3>2
      <3>. HIDE DEF rows
      <3>. QED
        BY <1>0, <1>2, <3>1, <3>3, FlagStep
    <2>2. CASE Drop(f)
      <3>. DEFINE rows == {x \in RowsOf(bound) : x.report = head.report}
      <3>1. Flag(bound, "purged", rows) /\ flow[f].pc = "drop"
        BY <2>2 DEF Drop, Purge, At
      <3>2. IsFinal(head.report)
        BY <1>0, <1>1, <3>1 DEF Working
      <3>3. \A x \in rows : IsFinal(x.report)
        BY <3>2
      <3>. HIDE DEF rows
      <3>. QED
        BY <1>0, <1>2, <3>1, <3>3, FlagStep
    <2>. QED
      BY <2>1, <2>2
  <1>. HIDE DEF head, rest
  <1>4. \/ \E place \in {"purge", "send", "drop"} :
              /\ Goto(f, place, rest) /\ UNCHANGED view
              /\ place \in {"send", "drop"} => rest # <<>>
              /\ place = "drop" => flow[f].pc = "drop"
        \/ Ends(f)
    <2>1. CASE MarkSynced(f)
      <3>1. /\ Goto(f, IF rest = <<>> THEN "purge" ELSE "send", rest)
            /\ UNCHANGED session
        BY <2>1 DEF MarkSynced, rest
      <3>. QED
        BY <3>1 DEF session
    <2>2. CASE Drop(f)
      BY <2>2 DEF Drop, At, rest
    <2>. QED
      BY <2>1, <2>2
  <1>5. /\ FlowOK' /\ SessionOK' /\ (flow'[f] # Idle => Working(flow[f])')
        /\ \A g \in Flows : g # f => flow'[g] = flow[g]
    <2>1. CASE Ends(f)
      <3>1. /\ FlowOK' /\ view' \in Histories /\ flow'[f] = Idle
            /\ \A g \in Flows : g # f => flow'[g] = flow[g]
        BY <1>0, <2>1, EndTypes
      <3>. QED
        BY <1>0, <3>1 DEF SessionOK
    <2>2. ASSUME NEW place \in {"purge", "send", "drop"}, Goto(f, place, rest),
                 UNCHANGED view, place \in {"send", "drop"} => rest # <<>>,
                 place = "drop" => flow[f].pc = "drop"
          PROVE  /\ FlowOK' /\ SessionOK' /\ (flow'[f] # Idle => Working(flow[f])')
                 /\ \A g \in Flows : g # f => flow'[g] = flow[g]
      <3>1. /\ FlowOK' /\ flow'[f] # Idle
            /\ flow'[f].pc = place /\ flow'[f].todo = rest
            /\ flow'[f].answer = "none"
            /\ \A g \in Flows : g # f => flow'[g] = flow[g]
        BY <1>0, <1>1, <2>2, Goes DEF Places
      <3>2. place = "drop" =>
              \A i \in DOMAIN rest :
                \E b \in Enterprises : intake'[b][rest[i].report] = "final"
        BY <1>0, <1>1, <2>2 DEF Working, IsFinal, cloud
      <3>3. Working(flow[f])'
        BY <2>2, <3>1, <3>2 DEF Working, IsFinal
      <3>4. SessionOK'
        BY <1>0, <2>2 DEF SessionOK
      <3>. QED
        BY <3>1, <3>3, <3>4
    <2>. QED
      BY <1>4, <2>1, <2>2
  <1>6. FlowsInv'
    BY <1>0, <1>2, <1>5, FlowsKept
  <1>. QED
    BY <1>2, <1>3, <1>5, <1>6 DEF SyncInv

-----------------------------------------------------------------------------
(* The theorems.                                                           *)

\* Nothing is submitted, sent or shown at the start.
LEMMA SyncInit == Init => SyncInv
  <1>. SUFFICES ASSUME Init PROVE SyncInv
    OBVIOUS
  <1>1. SessionOK
    <2>1. <<>> \in Seq(Enterprises) /\ Len(<<>>) = 0
      OBVIOUS
    <2>2. logins \in Seq(Enterprises) /\ Len(logins) <= MaxLogins
      BY <2>1, DesktopAssumption DEF Init
    <2>3. valid \subseteq DOMAIN logins /\ binds \subseteq DOMAIN logins
      BY DEF Init
    <2>4. view \in Histories
      BY DEF Init, Histories, Blank
    <2>5. coming \in Histories \cup {<<>>}
      BY DEF Init
    <2>6. bound \in Ledgers /\ token \in {0} \cup DOMAIN logins /\ ready \in BOOLEAN
      BY DEF Init, Ledgers
    <2>. QED
      BY <2>2, <2>3, <2>4, <2>5, <2>6 DEF SessionOK
  <1>2. LedgerOK
    <2>1. <<>> \in Seq(Rows)
      OBVIOUS
    <2>2. ledger = [e \in Ledgers |-> <<>>]
      BY DEF Init
    <2>. QED
      BY <2>1, <2>2 DEF LedgerOK, Ordered
  <1>3. FlowOK /\ FlowsInv
    BY DEF Init, FlowOK, FlowsInv
  <1>4. CloudOK
    BY DEF Init, CloudOK, Blank
  <1>5. BoundsOK
    BY DesktopAssumption DEF Init, BoundsOK
  <1>6. LedgersInv
    BY DEF Init, LedgersInv
  <1>. QED
    BY <1>1, <1>2, <1>3, <1>4, <1>5, <1>6 DEF SyncInv

\* Every step keeps the invariant.
LEMMA SyncNext == SyncInv /\ [Next]_vars => SyncInv'
  <1>. SUFFICES ASSUME SyncInv, [Next]_vars PROVE SyncInv'
    OBVIOUS
  <1>1. CASE Next
    BY <1>1, SessionSteps, PageSteps, DecideStep, StartSteps, SendingSteps,
       ServeStep, EndingSteps, LedgerSteps DEF Next, Step
  <1>2. CASE UNCHANGED vars
    <2>1. UNCHANGED <<session, service, flow, cloud, bounds>>
      BY <1>2 DEF vars
    <2>2. SessionOK'
      BY <2>1 DEF SyncInv, SessionOK, session, service
    <2>. QED
      BY <2>1, <2>2, SessionStep DEF service
  <1>. QED
    BY <1>1, <1>2

\* The state of the desktop and of the backend, in every reachable state.
LEMMA SyncInvariant == Spec => []SyncInv
  BY SyncInit, SyncNext, PTL DEF Spec

\* The ledgers list each report once and the newest submission first, and the
\* session, the flows and the backend are well-formed, however calls are cut
\* off, lost, or outlive the session they began in.
THEOREM TypeCorrect == Spec => []TypeOK
  <1>1. SyncInv => TypeOK
    BY TypeParts DEF SyncInv
  <1>. QED
    BY <1>1, SyncInvariant, PTL

\* mark_report_synced: what a ledger calls synchronised has reached the
\* backend, in exactly the version that the ledger has.
THEOREM SyncedWasCarriedOut == Spec => []SyncedIsCarriedOut
  <1>1. SyncInv => SyncedIsCarriedOut
    BY DEF SyncInv, LedgersInv, Truthful, CarriedOut, SyncedIsCarriedOut, RowsOf
  <1>. QED
    BY <1>1, SyncInvariant, PTL

\* purge_report_raw_events: the raw events of a report are dropped only when a
\* final report has it for good.
THEOREM PurgedWasFinal == Spec => []PurgedIsFinal
  <1>1. SyncInv => PurgedIsFinal
    BY DEF SyncInv, LedgersInv, Truthful, IsFinal, PurgedIsFinal, RowsOf
  <1>. QED
    BY <1>1, SyncInvariant, PTL

-----------------------------------------------------------------------------
(* What a flow works on was submitted.                                     *)

\* What a flow has to do after a step comes from what it had to do before, or
\* from the ledger that is bound.
Origin(row, f) ==
    \/ \E i \in DOMAIN ledger[bound] : row = ledger[bound][i]
    \/ flow[f] # Idle /\ \E i \in DOMAIN flow[f].todo : row = flow[f].todo[i]
Listed(f) ==
    flow'[f] # Idle =>
      \A i \in DOMAIN flow'[f].todo : Origin(flow'[f].todo[i], f)

\* A flow whose work is the same, or done.
LEMMA SameWork ==
    ASSUME NEW f \in Flows,
           \/ flow'[f] = flow[f] \/ flow'[f] = Idle
           \/ flow[f] # Idle /\ flow'[f].todo = flow[f].todo
    PROVE  Listed(f)
  BY DEF Listed, Origin

\* What is selected from a ledger is from that ledger.
LEMMA FromLedger ==
    ASSUME SyncInv, NEW T, NEW f
    PROVE  LET s == Those(ledger[bound], T)
           IN  \A n \in DOMAIN s : Origin(s[n], f)
  <1>1. ledger[bound] \in Seq(Rows)
    BY RowTypes DEF SyncInv, SessionOK
  <1>. QED
    BY <1>1, ThoseSelects DEF Origin

\* And so is what is selected from what is pending there.
LEMMA FromPending ==
    ASSUME SyncInv, NEW T, NEW f
    PROVE  LET s == Those(Pending(bound), T)
           IN  /\ s \in Seq(Rows)
               /\ \A n \in DOMAIN s : Origin(s[n], f)
  <1>. DEFINE P == {row \in RowsOf(bound) : ~row.synced}
              pending == Those(ledger[bound], P)
  <1>1. /\ pending \in Seq(Rows)
        /\ \A n \in DOMAIN pending : Origin(pending[n], f)
    <2>. HIDE DEF P
    <2>. QED
      BY Taken, FromLedger
  <1>2. Pending(bound) = pending
    BY DEF Pending
  <1>. HIDE DEF pending
  <1>3. /\ Those(pending, T) \in Seq(Rows)
        /\ \A n \in DOMAIN Those(pending, T) :
              \E i \in DOMAIN pending : pending[i] = Those(pending, T)[n]
    BY <1>1, ThoseSelects
  <1>. QED
    BY <1>1, <1>2, <1>3

\* One flow goes on with some work, and the others with theirs.
LEMMA OneListed ==
    ASSUME SyncInv, NEW f \in Flows, flow[f] # Idle, NEW place \in Places,
           NEW todo \in Seq(Rows), Goto(f, place, todo),
           \A i \in DOMAIN todo : Origin(todo[i], f)
    PROVE  \A g \in Flows : Listed(g)
  <1>1. /\ flow'[f].todo = todo
        /\ \A g \in Flows : g # f => flow'[g] = flow[g]
    BY Goes DEF SyncInv
  <1>2. Listed(f)
    BY <1>1 DEF Listed
  <1>. QED
    BY <1>1, <1>2, SameWork

\* One flow ends, and the others go on with their work.
LEMMA EndListed ==
    ASSUME SyncInv, NEW f \in Flows, flow' = [flow EXCEPT ![f] = Idle]
    PROVE  \A g \in Flows : Listed(g)
  <1>1. flow'[f] = Idle /\ \A g \in Flows : g # f => flow'[g] = flow[g]
    BY Stops DEF SyncInv
  <1>. QED
    BY <1>1, SameWork

\* A flow that begins has nothing to do yet.
LEMMA StartListed ==
    ASSUME SyncInv, NEW f \in Flows, NEW loop, NEW only, Start(f, loop, only)
    PROVE  \A g \in Flows : Listed(g)
  <1>1. /\ flow'[f].todo = <<>>
        /\ \A g \in Flows : g # f => flow'[g] = flow[g]
    BY DEF Start, SyncInv, FlowOK
  <1>2. Listed(f)
    BY <1>1 DEF Listed
  <1>. QED
    BY <1>1, <1>2, SameWork

\* The step of a flow leaves its work, takes it from the ledger or goes on to
\* the rest.
LEMMA StepListed ==
    ASSUME SyncInv, NEW f \in Flows, Step(f) \/ Fail(f)
    PROVE  \A g \in Flows : Listed(g)
  <1>. DEFINE rest == Tail(flow[f].todo)
  <1>0. flow[f] # Idle /\ flow[f] \in Flow /\ Working(flow[f])
    BY DEF Step, Fail, List, Send, Serve, Receive, MarkSynced, ListFinal, Drop,
           At, SyncInv, FlowOK, FlowsInv
  <1>1. {"list", "send", "mark", "purge", "drop"} \subseteq Places
    BY DEF Places
  <1>2. CASE List(f)
    <2>. DEFINE T == {row \in RowsOf(bound) : row.report \in flow[f].only}
                todo == Those(Pending(bound), T)
    <2>1. \/ Ends(f)
          \/ Goto(f, IF todo = <<>> THEN "purge" ELSE "send", todo)
      BY <1>2 DEF List
    <2>2. todo \in Seq(Rows) /\ \A n \in DOMAIN todo : Origin(todo[n], f)
      <3>. HIDE DEF T
      <3>. QED
        BY FromPending
    <2>. HIDE DEF todo
    <2>3. (IF todo = <<>> THEN "purge" ELSE "send") \in Places
      BY <1>1
    <2>. QED
      BY <1>0, <2>1, <2>2, <2>3, OneListed, EndListed DEF Ends
  <1>3. CASE Send(f) \/ Serve(f)
    <2>1. \/ flow' = [flow EXCEPT ![f].pc = "sent", ![f].token = token]
          \/ \E a \in {"denied", "ok", "refused", "lost"} :
                flow' = [flow EXCEPT ![f].answer = a]
      BY <1>3 DEF Send, Serve
    <2>2. flow'[f].todo = flow[f].todo
      BY <1>0, <2>1 DEF SyncInv, FlowOK, Flow
    <2>3. \A g \in Flows : g # f => flow'[g] = flow[g]
      BY <2>1 DEF SyncInv, FlowOK
    <2>. QED
      BY <1>0, <2>2, <2>3, SameWork
  <1>4. CASE Receive(f)
    <2>1. \/ Goto(f, "mark", flow[f].todo)
          \/ flow' = [flow EXCEPT ![f] = Idle]
      BY <1>4 DEF Receive, Ends
    <2>2. /\ flow[f].todo \in Seq(Rows)
          /\ \A i \in DOMAIN flow[f].todo : Origin(flow[f].todo[i], f)
      BY <1>0 DEF Flow, Origin
    <2>. QED
      BY <1>0, <1>1, <2>1, <2>2, OneListed, EndListed
  <1>5. CASE MarkSynced(f) \/ Drop(f)
    <2>1. flow[f].todo # <<>>
      BY <1>0, <1>5 DEF MarkSynced, Drop, At, Working
    <2>2. /\ rest \in Seq(Rows)
          /\ \A i \in DOMAIN rest : Origin(rest[i], f)
      <3>1. /\ rest \in Seq(Rows)
            /\ \A i \in DOMAIN rest : /\ i + 1 \in DOMAIN flow[f].todo
                                      /\ rest[i] = flow[f].todo[i + 1]
        BY <1>0, <2>1, Work DEF SyncInv
      <3>. HIDE DEF rest
      <3>. QED
        BY <1>0, <3>1 DEF Origin
    <2>3. \/ \E place \in {"purge", "send", "drop"} : Goto(f, place, rest)
          \/ Ends(f)
      BY <1>5 DEF MarkSynced, Drop
    <2>. HIDE DEF rest
    <2>. QED
      BY <1>0, <1>1, <2>2, <2>3, OneListed, EndListed DEF Ends
  <1>6. CASE ListFinal(f)
    <2>. DEFINE T == {row \in RowsOf(bound) :
                         /\ ~row.purged
                         /\ row.report \in LockedReports(logins[token])}
                todo == Those(ledger[bound], T)
    <2>1. Ends(f) \/ flow' = [flow EXCEPT ![f] = Idle] \/ Goto(f, "drop", todo)
      BY <1>6 DEF ListFinal
    <2>2. todo \in Seq(Rows) /\ \A n \in DOMAIN todo : Origin(todo[n], f)
      <3>. HIDE DEF T
      <3>. QED
        BY Taken, FromLedger
    <2>. HIDE DEF todo
    <2>. QED
      BY <1>0, <1>1, <2>1, <2>2, OneListed, EndListed DEF Ends
  <1>7. CASE Fail(f)
    BY <1>7, EndListed DEF Fail, Ends
  <1>. QED
    BY <1>2, <1>3, <1>4, <1>5, <1>6, <1>7 DEF Step

\* Every step leaves a flow with work that it had, or that is in the ledger.
LEMMA NextListed ==
    ASSUME SyncInv, [Next]_vars
    PROVE  \A g \in Flows : Listed(g)
  <1>1. CASE flow' = flow
    BY <1>1, SameWork
  <1>2. CASE Reload
    BY <1>2, SameWork DEF Reload
  <1>3. ASSUME NEW f \in Flows, Loop(f) \/ \E r \in Reports : Submit(f, r)
        PROVE  \A g \in Flows : Listed(g)
    BY <1>3, StartListed DEF Loop, Submit
  <1>4. ASSUME \/ \E e \in Enterprises : Login(e) \/ \E r \in Reports : Decide(e, r)
               \/ Logout \/ RestartService \/ Refresh \/ Show
               \/ \E t \in Tokens : Bind(t) \/ Expire(t)
        PROVE  flow' = flow
    BY <1>4 DEF Login, Decide, Logout, RestartService, Refresh, Show, Bind, Expire
  <1>5. UNCHANGED vars => flow' = flow
    BY DEF vars
  <1>. QED
    BY <1>1, <1>2, <1>3, <1>4, <1>5, StepListed DEF Next

\* What a flow works on was submitted.
WorkMade ==
    \A f \in Flows : flow[f] # Idle =>
       \A i \in DOMAIN flow[f].todo : flow[f].todo[i].submission <= Len(author)

\* Submissions are numbered as they are made, and none is taken back.
LEMMA AuthorGrows ==
    ASSUME SyncInv, [Next]_vars
    PROVE  /\ Len(author) \in Nat /\ Len(author') \in Nat
           /\ Len(author) <= Len(author')
  <1>1. author \in Seq(Enterprises) /\ author' \in Seq(Enterprises)
    BY SyncNext DEF SyncInv, BoundsOK
  <1>2. ASSUME NEW f \in Flows, NEW r \in Reports, Submit(f, r)
        PROVE  Len(author') = Len(author) + 1
    <2>1. author' = Append(author, logins[token]) /\ logins[token] \in Enterprises
      BY <1>2 DEF Submit, SyncInv, SessionOK
    <2>. QED
      BY <1>1, <2>1
  <1>3. ASSUME NEW f \in Flows, Loop(f) \/ Step(f) \/ Fail(f)
        PROVE  author' = author
    BY <1>3 DEF Loop, Step, Fail, List, Send, Serve, Receive, MarkSynced,
                ListFinal, Drop, bounds
  <1>4. ASSUME \/ \E e \in Enterprises : Login(e) \/ \E r \in Reports : Decide(e, r)
               \/ Logout \/ Reload \/ RestartService \/ Refresh \/ Show
               \/ \E t \in Tokens : Bind(t) \/ Expire(t)
        PROVE  author' = author
    BY <1>4 DEF Login, Decide, Logout, Reload, RestartService, Refresh, Show,
                Bind, Expire, bounds
  <1>5. UNCHANGED vars => author' = author
    BY DEF vars, bounds
  <1>6. author' = author \/ Len(author') = Len(author) + 1
    BY <1>2, <1>3, <1>4, <1>5 DEF Next
  <1>. QED
    BY <1>1, <1>6

\* The work of the flows remains work that was submitted.
LEMMA WorkMadeStep == SyncInv /\ WorkMade /\ [Next]_vars => WorkMade'
  <1>. SUFFICES ASSUME SyncInv, WorkMade, [Next]_vars, NEW f \in Flows,
                       flow'[f] # Idle, NEW i \in DOMAIN flow'[f].todo
                PROVE  flow'[f].todo[i].submission <= Len(author')
    BY DEF WorkMade, Idle
  <1>. DEFINE row == flow'[f].todo[i]
  <1>1. row.submission <= Len(author) /\ row.submission \in Nat
    <2>1. Origin(row, f)
      BY NextListed DEF Listed
    <2>2. ASSUME NEW j \in DOMAIN ledger[bound], row = ledger[bound][j]
          PROVE  row.submission <= Len(author) /\ row \in Rows
      <3>1. bound \in Ledgers /\ Truthful(ledger[bound][j])
        BY DEF SyncInv, SessionOK, LedgersInv
      <3>. QED
        BY <2>2, <3>1, RowTypes DEF SyncInv, Truthful
    <2>3. ASSUME flow[f] # Idle, NEW j \in DOMAIN flow[f].todo,
                 row = flow[f].todo[j]
          PROVE  row.submission <= Len(author) /\ row \in Rows
      <3>1. flow[f].todo \in Seq(Rows)
        BY <2>3 DEF SyncInv, FlowOK, Flow
      <3>2. flow[f].todo[j] \in Rows
        <4>. DEFINE s == flow[f].todo
        <4>1. s \in Seq(Rows) /\ j \in DOMAIN s
          BY <2>3, <3>1
        <4>. HIDE DEF s, Rows
        <4>2. s[j] \in Rows
          BY <4>1
        <4>. QED
          BY <4>2 DEF s
      <3>. QED
        BY <2>3, <3>2 DEF WorkMade
    <2>4. row.submission <= Len(author) /\ row \in Rows
      BY <2>1, <2>2, <2>3 DEF Origin
    <2>. QED
      BY <2>4, RowFields
  <1>. HIDE DEF row
  <1>2. row.submission <= Len(author')
    BY <1>1, AuthorGrows
  <1>. QED
    BY <1>2 DEF row

-----------------------------------------------------------------------------
(* The ledgers as sets of entries.                                         *)

\* A ledger has one row of a report.
LEMMA OneRow ==
    ASSUME LedgerOK, NEW e \in Ledgers, NEW x \in RowsOf(e), NEW y \in RowsOf(e),
           x.report = y.report
    PROVE  x = y
  <1>1. PICK i \in DOMAIN ledger[e] : x = ledger[e][i]
    BY DEF RowsOf
  <1>2. PICK j \in DOMAIN ledger[e] : y = ledger[e][j]
    BY DEF RowsOf
  <1>3. i \in Nat /\ j \in Nat
    BY RowTypes
  <1>4. ~(i < j) /\ ~(j < i)
    BY <1>1, <1>2 DEF LedgerOK, Ordered
  <1>. QED
    BY <1>1, <1>2, <1>3, <1>4

\* Setting a flag of one row changes that row alone.
LEMMA FlaggedRow ==
    ASSUME LedgerOK, NEW e \in Ledgers, NEW flag \in {"synced", "purged"},
           NEW rows, Flag(e, flag, rows)
    PROVE  \A x \in RowsOf(e) :
              x \in rows /\ (\A y \in RowsOf(e) : y \in rows => y = x) =>
                Entries' = [Entries EXCEPT ![e] = (@ \ {x}) \cup
                                                  {[x EXCEPT ![flag] = TRUE]}]
  <1>1. /\ \A d \in Ledgers : DOMAIN ledger'[d] = DOMAIN ledger[d]
        /\ \A d \in Ledgers : d # e => ledger'[d] = ledger[d]
        /\ \A i \in DOMAIN ledger[e] :
              ledger'[e][i] = IF ledger[e][i] \in rows
                                THEN [ledger[e][i] EXCEPT ![flag] = TRUE]
                                ELSE ledger[e][i]
    <2>1. Marked(e, flag, rows)
      BY Flags
    <2>. QED
      BY <2>1 DEF Marked
  <1>. SUFFICES ASSUME NEW x \in RowsOf(e), x \in rows,
                       \A y \in RowsOf(e) : y \in rows => y = x
                PROVE  Entries' = [Entries EXCEPT ![e] = (@ \ {x}) \cup
                                                  {[x EXCEPT ![flag] = TRUE]}]
    OBVIOUS
  <1>. DEFINE s == ledger[e]
              new == ledger'[e]
              y == [x EXCEPT ![flag] = TRUE]
  <1>2. \A i \in DOMAIN s : s[i] \in RowsOf(e)
    BY DEF RowsOf
  <1>3. /\ DOMAIN new = DOMAIN s
        /\ \A i \in DOMAIN s : new[i] = IF s[i] = x THEN y ELSE s[i]
    BY <1>1, <1>2
  <1>4. RowsOf(e) = {s[i] : i \in DOMAIN s}
    BY DEF RowsOf
  <1>5. RowsOf(e)' = {new[i] : i \in DOMAIN new}
    BY DEF RowsOf
  <1>. HIDE DEF s, new, y
  <1>6. RowsOf(e)' = (RowsOf(e) \ {x}) \cup {y}
    <2>1. \A z \in RowsOf(e)' : z \in (RowsOf(e) \ {x}) \cup {y}
      BY <1>1, <1>3, <1>4, <1>5
    <2>2. y \in RowsOf(e)'
      BY <1>1, <1>3, <1>4, <1>5
    <2>3. \A z \in RowsOf(e) \ {x} : z \in RowsOf(e)'
      BY <1>1, <1>3, <1>4, <1>5
    <2>. QED
      BY <2>1, <2>2, <2>3
  <1>7. \A d \in Ledgers : d # e => RowsOf(d)' = RowsOf(d)
    BY <1>1 DEF RowsOf
  <1>. QED
    BY <1>6, <1>7 DEF Entries, y

\* Setting a flag of no row changes none.
LEMMA NoRowFlagged ==
    ASSUME LedgerOK, NEW e \in Ledgers, NEW flag \in {"synced", "purged"},
           NEW rows, Flag(e, flag, rows)
    PROVE  (\A y \in RowsOf(e) : y \notin rows) => Entries' = Entries
  <1>1. /\ \A d \in Ledgers : DOMAIN ledger'[d] = DOMAIN ledger[d]
        /\ \A d \in Ledgers : d # e => ledger'[d] = ledger[d]
        /\ \A i \in DOMAIN ledger[e] :
              ledger'[e][i] = IF ledger[e][i] \in rows
                                THEN [ledger[e][i] EXCEPT ![flag] = TRUE]
                                ELSE ledger[e][i]
    <2>1. Marked(e, flag, rows)
      BY Flags
    <2>. QED
      BY <2>1 DEF Marked
  <1>. SUFFICES ASSUME \A y \in RowsOf(e) : y \notin rows
                PROVE  Entries' = Entries
    OBVIOUS
  <1>2. \A i \in DOMAIN ledger[e] : ledger'[e][i] = ledger[e][i]
    BY <1>1 DEF RowsOf
  <1>3. \A d \in Ledgers : RowsOf(d)' = RowsOf(d)
    BY <1>1, <1>2 DEF RowsOf
  <1>. QED
    BY <1>3 DEF Entries

\* The rows that a selection returns are those of the ledger it selects.
LEMMA Selected ==
    ASSUME LedgerOK, NEW e \in Ledgers, NEW T \in SUBSET RowsOf(e)
    PROVE  LET s == Those(ledger[e], T)
           IN  s \in Seq(Rows) /\ {s[n] : n \in DOMAIN s} = T
  <1>. DEFINE s == Those(ledger[e], T)
  <1>1. ledger[e] \in Seq(Rows)
    BY RowTypes
  <1>2. /\ s \in Seq(Rows)
        /\ \A n \in DOMAIN s :
              \E i \in DOMAIN ledger[e] : ledger[e][i] = s[n] /\ ledger[e][i] \in T
        /\ \A i \in DOMAIN ledger[e] :
              ledger[e][i] \in T => \E n \in DOMAIN s : s[n] = ledger[e][i]
    <2>1. s = Those(ledger[e], T)
      OBVIOUS
    <2>. HIDE DEF s
    <2>. QED
      BY <1>1, <2>1, ThoseSelects
  <1>3. \A x \in T : \E i \in DOMAIN ledger[e] : x = ledger[e][i]
    BY DEF RowsOf
  <1>. HIDE DEF s
  <1>4. {s[n] : n \in DOMAIN s} = T
    <2>1. \A n \in DOMAIN s : s[n] \in T
      BY <1>2
    <2>2. \A x \in T : \E n \in DOMAIN s : s[n] = x
      BY <1>2, <1>3
    <2>. QED
      BY <2>1, <2>2
  <1>. QED
    BY <1>2, <1>4 DEF s

\* A submission puts an entry in the place of what there was of its report,
\* whose raw events stay dropped if they were.
LEMMA RecordedEntry ==
    ASSUME SyncInv, Len(author) < MaxSubmissions,
           NEW r \in Reports, NEW again \in BOOLEAN, Record(r, again)
    PROVE  LET old == {x \in Entries[bound] : x.report = r}
               new == [report |-> r, submission |-> Len(author) + 1,
                       again |-> again, synced |-> FALSE,
                       purged |-> \E x \in old : x.purged]
           IN  /\ Entries' = [Entries EXCEPT ![bound] = (@ \ old) \cup {new}]
               /\ RowOf(bound, r) = <<>> => old = {}
  <1>. DEFINE old == {x \in RowsOf(bound) : x.report = r}
              kept == {x \in RowsOf(bound) : x.report # r}
              has == RowOf(bound, r)
              rest == Those(ledger[bound], kept)
              top == NewRow(r, again)
              new == [report |-> r, submission |-> Len(author) + 1,
                      again |-> again, synced |-> FALSE,
                      purged |-> \E x \in old : x.purged]
  <1>1. bound \in Ledgers /\ LedgerOK /\ LedgersInv /\ BoundsOK
    BY DEF SyncInv, SessionOK
  <1>2. has \in Seq(Rows) /\ {has[n] : n \in DOMAIN has} = old
    <2>. DEFINE s == Those(ledger[bound], old)
    <2>1. old \in SUBSET RowsOf(bound) /\ has = s
      BY DEF RowOf
    <2>. HIDE DEF old
    <2>2. s \in Seq(Rows) /\ {s[n] : n \in DOMAIN s} = old
      BY <1>1, <2>1, Selected
    <2>. HIDE DEF has, s
    <2>. QED
      BY <2>1, <2>2
  <1>3. rest \in Seq(Rows) /\ {rest[n] : n \in DOMAIN rest} = kept
    <2>1. kept \in SUBSET RowsOf(bound)
      OBVIOUS
    <2>. HIDE DEF kept
    <2>. QED
      BY <1>1, <2>1, Selected
  <1>4. has = <<>> => old = {}
    BY <1>2
  <1>5. (has # <<>> /\ Head(has).purged) = (\E x \in old : x.purged)
    <2>1. has # <<>> => Head(has) \in old /\ Head(has) \in Rows
      <3>. HIDE DEF has, old
      <3>. QED
        BY <1>2
    <2>2. \A x \in old : has # <<>> /\ x = Head(has)
      <3>1. \A x, y \in old : x = y
        BY <1>1, OneRow
      <3>. QED
        BY <1>4, <2>1, <3>1
    <2>3. has # <<>> => Head(has).purged \in BOOLEAN
      BY <2>1, RowFields
    <2>. HIDE DEF has, old
    <2>. QED
      BY <2>1, <2>2, <2>3
  <1>6. top = new
    BY <1>5 DEF NewRow
  <1>7. ledger' = [ledger EXCEPT ![bound] = <<top>> \o rest]
    BY DEF Record
  <1>8. top \in Rows
    BY <1>1, NewRowTypes
  <1>. HIDE DEF top, rest, new, kept, old, has
  <1>9. {(<<top>> \o rest)[i] : i \in DOMAIN (<<top>> \o rest)} = kept \cup {top}
    <2>. DEFINE s == <<top>> \o rest
    <2>1. /\ s \in Seq(Rows) /\ 1 \in DOMAIN s /\ s[1] = top
          /\ \A i \in DOMAIN s : i # 1 => i - 1 \in DOMAIN rest /\ s[i] = rest[i - 1]
          /\ \A n \in DOMAIN rest : n + 1 \in DOMAIN s /\ s[n + 1] = rest[n]
      BY <1>3, <1>8
    <2>. HIDE DEF s
    <2>2. \A i \in DOMAIN s : s[i] \in kept \cup {top}
      BY <1>3, <2>1
    <2>3. \A x \in kept : \E i \in DOMAIN s : s[i] = x
      BY <1>3, <2>1
    <2>4. {s[i] : i \in DOMAIN s} = kept \cup {top}
      BY <2>1, <2>2, <2>3
    <2>. QED
      BY <2>4 DEF s
  <1>10. ledger \in [Ledgers -> Seq(Rows)]
    BY <1>1 DEF LedgerOK
  <1>11. ASSUME NEW d \in Ledgers
         PROVE  RowsOf(d)' = IF d = bound THEN kept \cup {top} ELSE RowsOf(d)
    <2>1. ledger'[d] = IF d = bound THEN <<top>> \o rest ELSE ledger[d]
      BY <1>1, <1>7, <1>10
    <2>2. RowsOf(d)' = {ledger'[d][i] : i \in DOMAIN ledger'[d]}
      BY DEF RowsOf
    <2>. QED
      BY <1>9, <2>1, <2>2 DEF RowsOf
  <1>12. kept = RowsOf(bound) \ old
    BY DEF kept, old
  <1>13. Entries' = [Entries EXCEPT ![bound] = (@ \ old) \cup {top}]
    BY <1>1, <1>11, <1>12 DEF Entries
  <1>14. Entries[bound] = RowsOf(bound)
    BY <1>1 DEF Entries
  <1>. QED
    BY <1>4, <1>6, <1>13, <1>14 DEF old, new, has

-----------------------------------------------------------------------------
(* The steps of the promise.                                               *)

\* What neither writes a ledger nor reaches the backend is not seen.
LEMMA Unseen ==
    ASSUME UNCHANGED <<ledger, intake, carried, author>>
    PROVE  UNCHANGED <<Told, carried, Entries, Len(author)>>
  BY DEF Told, Entries, RowsOf

\* A flow marks what was carried out, and drops what is final.
LEMMA LedgerPromise ==
    ASSUME SyncInv, NEW f \in Flows, MarkSynced(f) \/ Drop(f)
    PROVE  Promise!Next \/ UNCHANGED <<Told, carried, Entries, Len(author)>>
  <1>. DEFINE head == Head(flow[f].todo)
  <1>1. /\ LedgerOK /\ bound \in Ledgers /\ Working(flow[f])
        /\ UNCHANGED <<intake, carried, author>>
    BY DEF SyncInv, SessionOK, FlowsInv, MarkSynced, Drop, At, cloud, bounds
  <1>2. UNCHANGED <<Told, carried, Len(author)>>
    BY <1>1 DEF Told
  <1>3. ASSUME NEW flag \in {"synced", "purged"}, NEW rows,
               Flag(bound, flag, rows),
               \A x \in rows : x \in RowsOf(bound) /\ x.report = head.report,
               \A x \in rows : Promise!Mark(bound, x, flag) => Promise!Next
        PROVE  Promise!Next \/ Entries' = Entries
    <2>1. CASE rows = {}
      BY <1>1, <1>3, <2>1, NoRowFlagged
    <2>2. CASE rows # {}
      <3>1. PICK x \in rows : TRUE
        BY <2>2
      <3>2. \A y \in RowsOf(bound) : y \in rows => y = x
        BY <1>1, <1>3, OneRow
      <3>3. Entries' = [Entries EXCEPT ![bound] = (@ \ {x}) \cup
                                                  {[x EXCEPT ![flag] = TRUE]}]
        BY <1>1, <1>3, <3>1, <3>2, FlaggedRow
      <3>4. Promise!Mark(bound, x, flag)
        BY <1>2, <3>3 DEF Promise!Mark
      <3>. QED
        BY <1>3, <3>4
    <2>. QED
      BY <2>1, <2>2
  <1>4. Entries[bound] = RowsOf(bound)
    BY <1>1 DEF Entries
  <1>5. CASE MarkSynced(f)
    <2>. DEFINE rows == {x \in RowsOf(bound) : /\ x.report = head.report
                                               /\ x.submission = head.submission}
    <2>1. Flag(bound, "synced", rows) /\ flow[f].pc = "mark"
      BY <1>5 DEF MarkSynced, Mark, At
    <2>2. CarriedOut(head.submission)
      BY <1>1, <2>1 DEF Working
    <2>3. ASSUME NEW x \in rows, Promise!Mark(bound, x, "synced")
          PROVE  Promise!Next
      <3>1. Promise!Synchronise(bound, x)
        BY <2>2, <2>3 DEF Promise!Synchronise, CarriedOut
      <3>2. x \in Entries[bound]
        BY <1>4
      <3>. HIDE DEF rows
      <3>. QED
        BY <1>1, <3>1, <3>2 DEF Promise!Next
    <2>4. \A x \in rows : x \in RowsOf(bound) /\ x.report = head.report
      OBVIOUS
    <2>. HIDE DEF rows, head
    <2>. QED
      BY <1>2, <1>3, <2>1, <2>3, <2>4
  <1>6. CASE Drop(f)
    <2>. DEFINE rows == {x \in RowsOf(bound) : x.report = head.report}
    <2>1. Flag(bound, "purged", rows) /\ flow[f].pc = "drop"
      BY <1>6 DEF Drop, Purge, At
    <2>2. IsFinal(head.report) /\ head.report \in Reports
      <3>1. /\ head = flow[f].todo[1] /\ 1 \in DOMAIN flow[f].todo
            /\ head \in Rows
        BY <1>1, <1>6, <2>1, Work DEF Working, SyncInv, Drop, At
      <3>. QED
        BY <1>1, <2>1, <3>1, RowFields DEF Working
    <2>3. ASSUME NEW x \in rows, Promise!Mark(bound, x, "purged")
          PROVE  Promise!Next
      <3>1. PICK e \in Enterprises : intake[e][head.report] = "final"
        BY <2>2 DEF IsFinal
      <3>2. Told[<<e, x.report>>] = "final"
        BY <2>2, <3>1 DEF Told
      <3>3. Promise!Purge(bound, x)
        BY <2>3, <3>2 DEF Promise!Purge
      <3>4. x \in Entries[bound]
        BY <1>4
      <3>. HIDE DEF rows
      <3>. QED
        BY <1>1, <3>3, <3>4 DEF Promise!Next
    <2>4. \A x \in rows : x \in RowsOf(bound) /\ x.report = head.report
      OBVIOUS
    <2>. HIDE DEF rows, head
    <2>. QED
      BY <1>2, <1>3, <2>1, <2>3, <2>4
  <1>. QED
    BY <1>5, <1>6

\* A submission is made, in the ledger that is bound.
LEMMA SubmitPromise ==
    ASSUME SyncInv, NEW f \in Flows, NEW r \in Reports, Submit(f, r)
    PROVE  Promise!Next
  <1>1. /\ author' = Append(author, logins[token]) /\ Len(author) < MaxSubmissions
        /\ UNCHANGED <<intake, carried>> /\ bound \in Ledgers
        /\ logins[token] \in Enterprises /\ author \in Seq(Enterprises)
    BY DEF Submit, cloud, SyncInv, SessionOK, BoundsOK
  <1>2. Len(author') = Len(author) + 1
    BY <1>1
  <1>3. PICK again \in BOOLEAN :
           Record(r, again) /\ (again \/ RowOf(bound, r) = <<>>)
    BY DEF Submit
  <1>. DEFINE old == {x \in Entries[bound] : x.report = r}
              new == [report |-> r, submission |-> Len(author) + 1,
                      again |-> again, synced |-> FALSE,
                      purged |-> \E x \in old : x.purged]
  <1>4. /\ Entries' = [Entries EXCEPT ![bound] = (@ \ old) \cup {new}]
        /\ again \/ old = {}
    BY <1>1, <1>3, RecordedEntry
  <1>5. UNCHANGED <<Told, carried>>
    BY <1>1 DEF Told
  <1>6. Promise!Submit(bound, r, again)
    BY <1>2, <1>4, <1>5 DEF Promise!Submit
  <1>. QED
    BY <1>1, <1>6 DEF Promise!Next

\* The answer of the backend: a submission that was made is carried out, once,
\* for a report that is not pending, or nothing changes.
LEMMA ServePromise ==
    ASSUME SyncInv, WorkMade, NEW f \in Flows, Serve(f)
    PROVE  Promise!Next \/ UNCHANGED <<Told, carried, Entries, Len(author)>>
  <1>. DEFINE row == Head(flow[f].todo)
              t == flow[f].token
  <1>1. /\ flow[f] # Idle /\ flow[f].pc = "sent" /\ Working(flow[f])
        /\ UNCHANGED <<ledger, author>> /\ SessionOK
    BY DEF SyncInv, FlowsInv, Serve, At, service
  <1>2. /\ row \in Rows /\ row = flow[f].todo[1] /\ 1 \in DOMAIN flow[f].todo
    BY <1>1, Work DEF Working, SyncInv
  <1>3. /\ row.submission \in Submissions /\ row.report \in Reports
        /\ row.submission <= Len(author)
    BY <1>1, <1>2, RowFields DEF WorkMade
  <1>4. \/ UNCHANGED <<intake, carried>>
        \/ /\ t \in valid /\ ~Known(logins[t], row) /\ Welcome(logins[t], row)
           /\ carried' = carried \cup {<<logins[t], row.submission>>}
           /\ intake' = [intake EXCEPT ![logins[t]][row.report] = "pending"]
    BY DEF Serve, cloud
  <1>5. CASE UNCHANGED <<intake, carried>>
    BY <1>1, <1>5, Unseen
  <1>. HIDE DEF row
  <1>6. ASSUME t \in valid, NEW e, e = logins[t],
               ~Known(e, row), Welcome(e, row),
               carried' = carried \cup {<<e, row.submission>>},
               intake' = [intake EXCEPT ![e][row.report] = "pending"]
        PROVE  Promise!Next
    <2>. DEFINE s == <<e, row.report>>
                n == row.submission
    <2>1. e \in Enterprises
      BY <1>1, <1>6 DEF SessionOK
    <2>2. s \in Enterprises \X Reports /\ s[1] = e /\ s[2] = row.report
      BY <1>3, <2>1
    <2>3. Told[s] \in {"none", "returned"}
      BY <1>6, <2>2 DEF Told, Welcome
    <2>4. Told' = [Told EXCEPT ![s] = "pending"]
      <3>1. intake \in [Enterprises -> [Reports -> {"none", "pending",
                                                    "returned", "final"}]]
        BY DEF SyncInv, CloudOK
      <3>2. \A u \in Enterprises \X Reports :
               intake'[u[1]][u[2]] = IF u = s THEN "pending" ELSE intake[u[1]][u[2]]
        <4>1. \A b \in Enterprises, q \in Reports :
                 intake'[b][q] = IF b = e /\ q = row.report
                                   THEN "pending" ELSE intake[b][q]
          BY <1>3, <1>6, <2>1, <3>1
        <4>. QED
          BY <4>1
      <3>. HIDE DEF s
      <3>. QED
        BY <2>2, <3>2 DEF Told
    <2>5. <<e, n>> \notin carried
      BY <1>6 DEF Known
    <2>6. Promise!Carry(s, n)
      BY <1>6, <2>2, <2>3, <2>4, <2>5 DEF Promise!Carry
    <2>7. Promise!IntakeNext
      BY <1>3, <2>2, <2>6 DEF Promise!IntakeNext, Promise!Slots
    <2>8. \A c \in carried' \ carried : c[2] \in 1 .. Len(author)
      <3>1. n \in 1 .. Len(author)
        BY <1>3, DesktopAssumption DEF Submissions, SyncInv, BoundsOK
      <3>. QED
        BY <1>6, <3>1
    <2>9. UNCHANGED <<Entries, Len(author)>>
      BY <1>1 DEF Entries, RowsOf
    <2>10. Promise!Backend
      BY <2>7, <2>8, <2>9 DEF Promise!Backend
    <2>. QED
      BY <2>10 DEF Promise!Next
  <1>. QED
    BY <1>4, <1>5, <1>6

\* The staff decide on one report at a time.
LEMMA DecidePromise ==
    ASSUME SyncInv, NEW e \in Enterprises, NEW r \in Reports, Decide(e, r)
    PROVE  Promise!Next
  <1>. DEFINE s == <<e, r>>
  <1>1. /\ intake[e][r] = "pending" /\ UNCHANGED <<ledger, carried, author>>
    BY DEF Decide, service, bounds
  <1>2. PICK review \in {"returned", "final"} :
           intake' = [intake EXCEPT ![e][r] = review]
    BY DEF Decide
  <1>3. s \in Enterprises \X Reports /\ {s} \in SUBSET (Enterprises \X Reports)
    OBVIOUS
  <1>4. Told[s] = "pending"
    BY <1>1 DEF Told
  <1>5. Told' = [u \in Enterprises \X Reports |-> IF u \in {s} THEN review ELSE Told[u]]
    <2>1. intake \in [Enterprises -> [Reports -> {"none", "pending", "returned",
                                                  "final"}]]
      BY DEF SyncInv, CloudOK
    <2>2. \A b \in Enterprises, q \in Reports :
             intake'[b][q] = IF b = e /\ q = r THEN review ELSE intake[b][q]
      BY <1>2, <2>1
    <2>3. \A u \in Enterprises \X Reports :
             intake'[u[1]][u[2]] = IF u = s THEN review ELSE intake[u[1]][u[2]]
      BY <2>2
    <2>. QED
      BY <2>3 DEF Told
  <1>. HIDE DEF s
  <1>6. Promise!Decide({s}, review)
    BY <1>1, <1>4, <1>5 DEF Promise!Decide, Promise!Slots
  <1>7. Promise!IntakeNext
    BY <1>3, <1>6 DEF Promise!IntakeNext, Promise!Slots
  <1>8. UNCHANGED <<Entries, Len(author)>> /\ carried' = carried
    BY <1>1 DEF Entries, RowsOf
  <1>9. Promise!Backend
    BY <1>7, <1>8 DEF Promise!Backend
  <1>. QED
    BY <1>9 DEF Promise!Next

\* Every step is a step of the promise, or is not seen.
LEMMA NextPromise ==
    ASSUME SyncInv, WorkMade, [Next]_vars
    PROVE  Promise!Next \/ UNCHANGED <<Told, carried, Entries, Len(author)>>
  <1>1. ASSUME \/ \E e \in Enterprises : Login(e)
               \/ Logout \/ Reload \/ RestartService \/ Refresh \/ Show
               \/ \E t \in Tokens : Bind(t) \/ Expire(t)
        PROVE  UNCHANGED <<ledger, intake, carried, author>>
    BY <1>1 DEF Login, Logout, Reload, RestartService, Refresh, Show, Bind,
                Expire, service, cloud, bounds
  <1>2. ASSUME NEW f \in Flows,
               \/ Loop(f) \/ Fail(f)
               \/ List(f) \/ Send(f) \/ Receive(f) \/ ListFinal(f)
        PROVE  UNCHANGED <<ledger, intake, carried, author>>
    BY <1>2 DEF Loop, Fail, List, Send, Receive, ListFinal, service, cloud, bounds
  <1>3. UNCHANGED vars => UNCHANGED <<ledger, intake, carried, author>>
    BY DEF vars, service, cloud, bounds
  <1>4. CASE UNCHANGED <<ledger, intake, carried, author>>
    BY <1>4, Unseen
  <1>. QED
    BY <1>1, <1>2, <1>3, <1>4, LedgerPromise, SubmitPromise, ServePromise,
       DecidePromise
    DEF Next, Step

\* cloud-sync.ts, local_data_store.py and the backend: whichever sessions
\* overlap and whatever is lost, each submission is carried out at most once
\* and only after it was made, a ledger calls it synchronised only then, and
\* the raw events of a report are dropped only when it is final.
THEOREM SyncImplementsDelivery == Spec => ImplementsReportDelivery
  <1>1. Init => Promise!Init
    <2>. SUFFICES ASSUME Init PROVE Promise!Init
      OBVIOUS
    <2>1. /\ ledger = [e \in Ledgers |-> <<>>] /\ author = <<>> /\ carried = {}
          /\ intake = [e \in Enterprises |-> Blank]
      BY DEF Init
    <2>2. Told = [s \in Enterprises \X Reports |-> "none"]
      BY <2>1 DEF Told, Blank
    <2>3. Entries = [e \in Ledgers |-> {}]
      <3>1. \A e \in Ledgers : RowsOf(e) = {}
        BY <2>1 DEF RowsOf
      <3>. QED
        BY <3>1 DEF Entries
    <2>4. Len(author) = 0
      BY <2>1
    <2>. QED
      BY <2>1, <2>2, <2>3, <2>4
      DEF Promise!Init, Promise!IntakeInit, Promise!Slots
  <1>2. Init => WorkMade
    BY DEF Init, WorkMade
  <1>3. Spec => []WorkMade
    BY <1>2, WorkMadeStep, SyncInvariant, PTL DEF Spec
  <1>4. SyncInv /\ WorkMade /\ [Next]_vars =>
           [Promise!Next]_<<Told, carried, Entries, Len(author)>>
    BY NextPromise
  <1>. QED
    BY <1>1, <1>3, <1>4, SyncInvariant, PTL
    DEF Spec, ImplementsReportDelivery, Promise!Spec
=============================================================================
