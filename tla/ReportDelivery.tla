--------------------------- MODULE ReportDelivery ---------------------------
(***************************************************************************)
(* What the desktop promises the enterprise that uses it: a ledger has one *)
(* entry for each report, the last submission; nothing reaches the backend *)
(* that was not submitted; an entry is called synchronised only when its   *)
(* submission was carried out; and the raw events of a report go away only *)
(* when the backend has it for good.                                       *)
(***************************************************************************)
EXTENDS Naturals, ReportIntake

CONSTANT Ledgers

VARIABLES
    entries,   \* [Ledgers -> set of entries]
    made       \* how many submissions were made

Init ==
    /\ IntakeInit
    /\ entries = [l \in Ledgers |-> {}]
    /\ made = 0

\* A submission takes the place of what the ledger had of the report, which a
\* first submission (it is not sent "again") finds empty.
Submit(l, r, again) ==
    LET old == {x \in entries[l] : x.report = r}
        new == [report |-> r, submission |-> made + 1, again |-> again,
                synced |-> FALSE, purged |-> \E x \in old : x.purged]
    IN  /\ again \/ old = {}
        /\ made' = made + 1
        /\ entries' = [entries EXCEPT ![l] = (@ \ old) \cup {new}]
        /\ UNCHANGED <<status, carried>>

\* The backend, of which the desktop sees no more than ReportIntake.
Backend ==
    /\ IntakeNext
    /\ \A c \in carried' \ carried : c[2] \in 1 .. made
    /\ UNCHANGED <<entries, made>>

Mark(l, x, flag) ==
    /\ entries' = [entries EXCEPT
                     ![l] = (@ \ {x}) \cup {[x EXCEPT ![flag] = TRUE]}]
    /\ UNCHANGED <<status, carried, made>>

Synchronise(l, x) ==
    /\ \E e \in Enterprises : <<e, x.submission>> \in carried
    /\ Mark(l, x, "synced")

Purge(l, x) ==
    /\ \E e \in Enterprises : status[<<e, x.report>>] = "final"
    /\ Mark(l, x, "purged")

Next ==
    \/ Backend
    \/ \E l \in Ledgers :
          \/ \E r \in Periods, again \in BOOLEAN : Submit(l, r, again)
          \/ \E x \in entries[l] : Synchronise(l, x) \/ Purge(l, x)

Spec == Init /\ [][Next]_<<status, carried, entries, made>>
=============================================================================
