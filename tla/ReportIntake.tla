---------------------------- MODULE ReportIntake ----------------------------
(***************************************************************************)
(* What the backend promises an enterprise of its reports: a submission is *)
(* carried out at most once, a report is taken again only after the staff  *)
(* have returned it, and one that is final stays so, whatever is           *)
(* consolidated, returned, archived and restored in between.               *)
(***************************************************************************)
CONSTANTS Enterprises, Periods, Submissions

VARIABLES
    status,    \* [Slots -> what the enterprise is told of its report]
    carried    \* the submissions of each enterprise that were carried out

Slots == Enterprises \X Periods

IntakeInit ==
    /\ status = [s \in Slots |-> "none"]
    /\ carried = {}

Carry(s, n) ==
    /\ <<s[1], n>> \notin carried
    /\ status[s] \in {"none", "returned"}
    /\ carried' = carried \cup {<<s[1], n>>}
    /\ status' = [status EXCEPT ![s] = "pending"]

\* The staff decide on reports together, those of a final report for example.
Decide(S, decision) ==
    /\ \A s \in S : status[s] = "pending"
    /\ status' = [s \in Slots |-> IF s \in S THEN decision ELSE status[s]]
    /\ UNCHANGED carried

IntakeNext ==
    \/ \E s \in Slots, n \in Submissions : Carry(s, n)
    \/ \E S \in SUBSET Slots, decision \in {"returned", "final"} :
          Decide(S, decision)

IntakeSpec == IntakeInit /\ [][IntakeNext]_<<status, carried>>
=============================================================================
