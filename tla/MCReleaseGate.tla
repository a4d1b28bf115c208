---------------------------- MODULE MCReleaseGate ----------------------------
(* Instances of ReleaseGate for TLC. *)
EXTENDS ReleaseGate
=============================================================================
