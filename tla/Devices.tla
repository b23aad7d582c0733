------------------------------ MODULE Devices ------------------------------
(***************************************************************************)
(* What the server promises about the devices an account is signed in on:  *)
(* a device holds one pair of tokens at a time, a pair is exchanged for a  *)
(* new one at most once, and a device that was signed out stays out.       *)
(***************************************************************************)
EXTENDS Naturals

VARIABLES live, \* the pairs that can still be exchanged, as <<device, pair>>
          used  \* how many pairs were ever minted; a device is named by its first

vars == <<live, used>>

Init == live = {} /\ used = 0

SignIn ==
    /\ used' = used + 1
    /\ live' = live \cup {<<used + 1, used + 1>>}

Rotate ==
    \E held \in live :
        /\ used' = used + 1
        /\ live' = (live \ {held}) \cup {<<held[1], used + 1>>}

\* Signing out of one device, of some or of all.
End ==
    /\ \E gone \in SUBSET live : live' = live \ gone
    /\ UNCHANGED used

Next == SignIn \/ Rotate \/ End

Spec == Init /\ [][Next]_vars
=============================================================================
