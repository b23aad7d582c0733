----------------------------- MODULE MCPasswords -----------------------------
(* Instances of Passwords for TLC. *)
EXTENDS Passwords, TLC

Symmetric == Permutations(Requests)
=============================================================================
