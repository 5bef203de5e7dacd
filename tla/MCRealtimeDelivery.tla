------------------------- MODULE MCRealtimeDelivery -------------------------
(* RealtimeDelivery on small instances.                                    *)
EXTENDS RealtimeDelivery, TLC

CONSTANTS report, telemetry, mail, settings, b1, b2, c1

ProcessSymmetry == Permutations(Processes)
=============================================================================
