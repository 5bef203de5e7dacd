------------------------------ MODULE PageViews ------------------------------
(***************************************************************************)
(* What the realtime updates of backend-tanaw promise a page: it shows, of *)
(* each topic, data that was committed, and never goes back to older data; *)
(* but it may skip versions, and be late.                                  *)
(***************************************************************************)
EXTENDS Naturals

CONSTANTS Topics, Clients

VARIABLES
    version,   \* [Topics -> how often the data of the topic was changed]
    seen       \* [Clients -> [Topics -> the version that the page shows]]

Init ==
    /\ version = [t \in Topics |-> 0]
    /\ seen = [c \in Clients |-> [t \in Topics |-> 0]]

Commit(t) ==
    /\ version' = [version EXCEPT ![t] = @ + 1]
    /\ UNCHANGED seen

Show(c, t) ==
    /\ \E v \in seen[c][t] .. version[t] : seen' = [seen EXCEPT ![c][t] = v]
    /\ UNCHANGED version

Next ==
    \/ \E t \in Topics : Commit(t)
    \/ \E c \in Clients, t \in Topics : Show(c, t)

Spec == Init /\ [][Next]_<<version, seen>>
=============================================================================
