---------------------------- MODULE MCControlPlane ----------------------------
(* Values for the constants of ControlPlane. *)
EXTENDS ControlPlane

CONSTANTS s1, r1, r2
=============================================================================
