--------------------------- MODULE EmailDelivery ---------------------------
(***************************************************************************)
(* What backend-tanaw promises whoever enqueues an e-mail: the message is  *)
(* delivered at most once and only after it was enqueued; "accepted" is    *)
(* said of delivered messages only and for ever; a message closed without  *)
(* acceptance may be tried again, and may have been delivered all the same *)
(* (an ambiguous outcome).                                                 *)
(***************************************************************************)
EXTENDS Naturals

CONSTANT Messages

VARIABLES
    outcome,   \* [Messages -> what the outbox says of the message]
    copies     \* [Messages -> how often the provider has accepted it]

vars == <<outcome, copies>>

Init ==
    /\ outcome = [m \in Messages |-> "absent"]
    /\ copies = [m \in Messages |-> 0]

Enqueue(m) ==
    /\ outcome[m] = "absent"
    /\ outcome' = [outcome EXCEPT ![m] = "pending"]
    /\ UNCHANGED copies

\* The provider takes the message: at any time after it was enqueued, for a
\* request may travel while its message is cancelled or given up.
Deliver(m) ==
    /\ outcome[m] \in {"pending", "closed"}
    /\ copies[m] = 0
    /\ copies' = [copies EXCEPT ![m] = 1]
    /\ UNCHANGED outcome

Accept(m) ==
    /\ outcome[m] = "pending"
    /\ copies[m] = 1
    /\ outcome' = [outcome EXCEPT ![m] = "accepted"]
    /\ UNCHANGED copies

Close(m) ==
    /\ outcome[m] = "pending"
    /\ outcome' = [outcome EXCEPT ![m] = "closed"]
    /\ UNCHANGED copies

Reopen(m) ==
    /\ outcome[m] = "closed"
    /\ outcome' = [outcome EXCEPT ![m] = "pending"]
    /\ UNCHANGED copies

Next == \E m \in Messages :
            \/ Enqueue(m)
            \/ Deliver(m)
            \/ Accept(m)
            \/ Close(m)
            \/ Reopen(m)

Spec == Init /\ [][Next]_vars
=============================================================================
