-------------------------- MODULE MCCameraControl --------------------------
(* CameraControl on small instances.                                       *)
EXTENDS CameraControl, TLC

CONSTANTS k1, k2
=============================================================================
