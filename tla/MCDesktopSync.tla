--------------------------- MODULE MCDesktopSync ---------------------------
(* DesktopSync on small instances.                                         *)
EXTENDS DesktopSync, TLC

CONSTANTS e1, e2, r1, r2, f1, f2
=============================================================================
