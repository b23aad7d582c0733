----------------------------- MODULE MCRoster -----------------------------
(* Instances of Roster for TLC. *)
EXTENDS Roster, TLC
=============================================================================
