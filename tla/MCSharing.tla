----------------------------- MODULE MCSharing -----------------------------
(* Instances of Sharing for TLC. *)
EXTENDS Sharing, TLC
=============================================================================
