-------------------------- MODULE MCCameraRegistry --------------------------
(* CameraRegistry on small instances.                                      *)
EXTENDS CameraRegistry, TLC

CONSTANTS k1, k2, k3, c1, c2

CameraSymmetry == Permutations(Cameras)
=============================================================================
