------------------------ MODULE MCServiceSupervisor ------------------------
(* ServiceSupervisor on small instances.                                   *)
EXTENDS ServiceSupervisor, TLC

CONSTANTS c1, c2, x1, s1, s2
=============================================================================
