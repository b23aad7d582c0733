---------------------------- MODULE MCCollabSync ----------------------------
(* The collaboration sockets on a small instance. *)
EXTENDS CollabSync, TLC

Symmetric == Permutations(Clients) \cup Permutations(Workers)
=============================================================================
