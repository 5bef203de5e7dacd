--------------------------- MODULE MCEmailOutbox ---------------------------
(* EmailOutbox on small instances.  One unit of time stands for about two  *)
(* minutes of the configured values, kept in their order: request timeout  *)
(* and lease <= margin < window.                                           *)
EXTENDS EmailOutbox, TLC

CONSTANTS m1, m2, d1, d2, p1, p2

DispatcherSymmetry == Permutations(Dispatchers)

MCSchedule == <<1, 2>>

\* A message with a deadline, and one (a support reply) without.
Undated == [m \in Messages |-> NoTime]
Mixed == [m \in Messages |-> IF m = m1 THEN 4 ELSE NoTime]
=============================================================================
