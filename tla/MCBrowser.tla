----------------------------- MODULE MCBrowser -----------------------------
(* Instances of Browser for TLC. *)
EXTENDS Browser, TLC

CONSTANTS a, b, get, boot, logout

InTabs == (get :> a) @@ (boot :> b) @@ (logout :> a)
Kinds == (get :> "get") @@ (boot :> "boot") @@ (logout :> "logout")
=============================================================================
