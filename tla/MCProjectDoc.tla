---------------------------- MODULE MCProjectDoc ----------------------------
(* The document row on a small instance. *)
EXTENDS ProjectDoc, TLC

Symmetric == Permutations(Requests) \cup Permutations(Users) \cup Permutations(Contents)
=============================================================================
