------------------------------ MODULE Browser ------------------------------
(***************************************************************************)
(* The token pair of one browser: its tabs share one storage, each has a   *)
(* mirror in memory and one slot for a refresh in flight, and each answers *)
(* a 401 by refreshing and sending the call once more.                     *)
(*                                                                         *)
(* The server is what a browser sees of it: which pairs can be exchanged   *)
(* and whose access tokens work.  Sessions says how it gets there.  What a *)
(* tab does between two answers is one step.                               *)
(***************************************************************************)
EXTENDS Naturals

CONSTANTS Tabs,
          Calls,    \* bound: calls in flight at one time
          TabOf,    \* the tab a call belongs to
          KindOf,   \* what it is: "get", "boot" or "logout"
          MaxPairs  \* bound on the pairs ever minted

ASSUME ConstantsOK ==
    /\ TabOf \in [Calls -> Tabs] /\ KindOf \in [Calls -> {"get", "boot", "logout"}]
    /\ MaxPairs \in Nat

VARIABLES minted, \* how many pairs were ever minted
          live,   \* the pairs whose refresh token can be exchanged
          denied, \* the pairs whose access token is on the denylist
          lapsed, \* access tokens up to this one have expired
          stored, \* the pair in localStorage, 0 for none
          mirror, \* mirror[t]: memoryAccess and memoryRefresh
          slot,   \* slot[t]: refreshInFlight
          call    \* call[c]: a request on its way

vars == <<minted, live, denied, lapsed, stored, mirror, slot, call>>
server == <<minted, live, denied, lapsed>>
tokens == <<stored, mirror>>

Idle == [step |-> "idle"]
None == [told |-> "none"]

Pair == 0..minted
Call == {Idle} \cup [step: {"sent"}, pair: Pair, body: Pair, replayed: BOOLEAN] \cup
        [step: {"refused", "waits", "over"}, pair: {0}, body: Pair, replayed: BOOLEAN]
Slot == {None} \cup
        [pair: Pair, held: Pair, told: {"sent", "ok", "rejected", "unavailable"}]

\* Whoever waits, waits for a refresh that is in flight.
TypeOK ==
    /\ minted \in Nat /\ live \subseteq 1..minted
    /\ lapsed \in Pair /\ denied \subseteq lapsed + 1..minted
    /\ stored \in Pair /\ mirror \in [Tabs -> Pair]
    /\ slot \in [Tabs -> Slot] /\ call \in [Calls -> Call]
    /\ \A c \in Calls : call[c].step = "waits" => slot[TabOf[c]] # None /\ ~call[c].replayed

Init ==
    /\ minted = 0 /\ live = {} /\ denied = {} /\ lapsed = 0
    /\ stored = 0 /\ mirror = [t \in Tabs |-> 0]
    /\ slot = [t \in Tabs |-> None]
    /\ call = [c \in Calls |-> Idle]

-----------------------------------------------------------------------------
(* The token store. *)

\* Mutant of Tok: the mirror is consulted first.
TokMirrored(t) == IF mirror[t] # 0 THEN mirror[t] ELSE stored

\* getAccessToken, getRefreshToken: storage first, mirror second.
Tok(t) == IF stored # 0 THEN stored ELSE mirror[t]

SetTokens(t, n) == stored' = n /\ mirror' = [mirror EXCEPT ![t] = n]

ClearTokens(t) == SetTokens(t, 0)

Go(c, j) == call' = [call EXCEPT ![c] = j]

\* What send puts on the wire; the body of a logout was made before.
Sent(pair, body, replayed) ==
    [step |-> "sent", pair |-> pair, body |-> body, replayed |-> replayed]

\* What refreshAccessToken puts in an empty slot. held is a history field: what the
\* storage had then.
Refresh(t) ==
    [pair |-> Tok(t), held |-> stored, told |-> IF Tok(t) = 0 THEN "rejected" ELSE "sent"]

-----------------------------------------------------------------------------
(* A call, from the tab and back. *)

\* Mutant of Begin: signing out clears the tokens and then tells the server.
BeginCleared(c) ==
    LET t == TabOf[c] IN
    /\ call[c] = Idle
    /\ KindOf[c] = "boot" => Tok(t) # 0
    /\ Go(c, Sent(Tok(t), 0, FALSE))
    /\ IF KindOf[c] = "logout" THEN ClearTokens(t) ELSE UNCHANGED tokens
    /\ UNCHANGED <<server, slot>>

\* bootstrap asks nothing without a token; logout takes the refresh token with it.
Begin(c) ==
    LET t == TabOf[c] IN
    /\ call[c] = Idle
    /\ KindOf[c] = "boot" => Tok(t) # 0
    /\ Go(c, Sent(Tok(t), IF KindOf[c] = "logout" THEN Tok(t) ELSE 0, FALSE))
    /\ UNCHANGED <<server, tokens, slot>>

\* 401. Signing out does not look at the denylist.
Refused(c) ==
    LET n == call[c].pair IN
    n = 0 \/ n <= lapsed \/ (KindOf[c] # "logout" /\ n \in denied)

Denying(pairs) == {n \in denied \cup pairs : n > lapsed}

\* service.logout: the session the body names, or else the one the access token is of.
Serve(c) ==
    LET j == call[c]
        session == IF j.body # 0 THEN j.body ELSE j.pair IN
    /\ j.step = "sent"
    /\ CASE Refused(c) ->
              Go(c, [j EXCEPT !.step = "refused", !.pair = 0]) /\ UNCHANGED <<live, denied>>
         [] ~Refused(c) /\ KindOf[c] = "logout" ->
              /\ live' = live \ {session} /\ denied' = Denying({session, j.pair})
              /\ Go(c, [j EXCEPT !.step = "over", !.pair = 0, !.body = 0])
         [] OTHER ->
              Go(c, Idle) /\ UNCHANGED <<live, denied>>
    /\ UNCHANGED <<minted, lapsed, tokens, slot>>

\* No answer, or a 5xx.
Fail(c) ==
    /\ call[c].step = "sent"
    /\ Go(c, IF KindOf[c] = "logout"
             THEN [call[c] EXCEPT !.step = "over", !.pair = 0, !.body = 0] ELSE Idle)
    /\ UNCHANGED <<server, tokens, slot>>

\* A first 401: the call waits for the refresh that is in flight or starts one.
Join(c) ==
    LET t == TabOf[c] IN
    /\ call[c].step = "refused" /\ ~call[c].replayed
    /\ Go(c, [call[c] EXCEPT !.step = "waits"])
    /\ slot' = [slot EXCEPT ![t] = IF @ = None THEN Refresh(t) ELSE @]
    /\ UNCHANGED <<server, tokens>>

\* A second 401, or a sign-out that got as far as it gets: logout and bootstrap clear.
Conclude(c) ==
    /\ \/ call[c].step = "refused" /\ call[c].replayed
       \/ call[c].step = "over"
    /\ IF KindOf[c] = "get" THEN UNCHANGED tokens ELSE ClearTokens(TabOf[c])
    /\ Go(c, Idle)
    /\ UNCHANGED <<server, slot>>

-----------------------------------------------------------------------------
(* The refresh of a tab. *)

\* ensureFreshToken, for a socket that was refused.
Fresh(t) ==
    /\ slot[t] = None
    /\ slot' = [slot EXCEPT ![t] = Refresh(t)]
    /\ UNCHANGED <<server, tokens, call>>

\* With the pair that was sent, or the new one.
Tell(t, outcome, n) == slot' = [slot EXCEPT ![t].told = outcome, ![t].pair = n]

\* refresh_tokens. The answer may get lost on the way back.
ServeRefresh(t) ==
    /\ slot[t].told = "sent"
    /\ IF slot[t].pair \in live
       THEN /\ minted < MaxPairs
            /\ minted' = minted + 1
            /\ live' = (live \ {slot[t].pair}) \cup {minted + 1}
            /\ denied' = Denying({slot[t].pair})
            /\ \E outcome \in {"ok", "unavailable"} : Tell(t, outcome, minted + 1)
       ELSE /\ Tell(t, "rejected", slot[t].pair)
            /\ UNCHANGED <<minted, live, denied>>
    /\ UNCHANGED <<lapsed, tokens, call>>

\* The server is not reached, or has a bad time.
FailRefresh(t) ==
    /\ slot[t].told = "sent"
    /\ Tell(t, "unavailable", slot[t].pair)
    /\ UNCHANGED <<server, tokens, call>>

\* Mutant of Waiting: only one of those who wait is told.
WaitingOne(t) ==
    LET all == {c \in Calls : TabOf[c] = t /\ call[c].step = "waits"} IN
    {c \in all : c = CHOOSE d \in all : TRUE}

Waiting(t) == {c \in Calls : TabOf[c] = t /\ call[c].step = "waits"}

\* Mutant of Verdict: what was not answered is taken for a refusal.
VerdictBoolean(told) == told # "ok"

\* Only a rejection is a verdict on the token.
Verdict(told) == told = "rejected"

\* The refresh is over and whoever waited for it goes on: once more with the new
\* pair, or not at all. A 401 that surfaces ends a logout and a bootstrap.
Arrive(t) ==
    /\ slot[t].told \notin {"none", "sent"}
    /\ slot' = [slot EXCEPT ![t] = None]
    /\ IF slot[t].told = "ok"
       THEN /\ SetTokens(t, slot[t].pair)
            /\ call' = [c \in Calls |-> IF c \in Waiting(t)
                           THEN Sent(slot[t].pair, call[c].body, TRUE) ELSE call[c]]
       ELSE /\ IF \E c \in Waiting(t) : Verdict(slot[t].told) \/ KindOf[c] # "get"
               THEN ClearTokens(t) ELSE UNCHANGED tokens
            /\ call' = [c \in Calls |-> IF c \in Waiting(t) THEN Idle ELSE call[c]]
    /\ UNCHANGED server

-----------------------------------------------------------------------------
(* Signing in, and what happens around the browser. *)

Login(t) ==
    /\ minted < MaxPairs
    /\ minted' = minted + 1
    /\ live' = live \cup {minted + 1}
    /\ SetTokens(t, minted + 1)
    /\ UNCHANGED <<denied, lapsed, slot, call>>

\* A wrong password.
LoginFails(t) ==
    /\ ClearTokens(t)
    /\ UNCHANGED <<server, slot, call>>

\* The page is loaded again.
Reload(t) ==
    /\ mirror' = [mirror EXCEPT ![t] = 0]
    /\ slot' = [slot EXCEPT ![t] = None]
    /\ call' = [c \in Calls |-> IF TabOf[c] = t THEN Idle ELSE call[c]]
    /\ UNCHANGED <<server, stored>>

\* Another device ends the session.
EndElsewhere(n) ==
    /\ n \in live
    /\ live' = live \ {n} /\ denied' = Denying({n})
    /\ UNCHANGED <<minted, lapsed, tokens, slot, call>>

\* An access token expires; the older ones have. What the denylist says of it no
\* longer matters.
Lapse ==
    /\ lapsed < minted
    /\ lapsed' = lapsed + 1
    /\ denied' = denied \ {lapsed'}
    /\ UNCHANGED <<minted, live, tokens, slot, call>>

-----------------------------------------------------------------------------
Next ==
    \/ \E c \in Calls :
          \/ Begin(c) \/ Serve(c) \/ Fail(c) \/ Join(c) \/ Conclude(c)
    \/ \E t \in Tabs :
          \/ Fresh(t) \/ ServeRefresh(t) \/ FailRefresh(t) \/ Arrive(t)
          \/ Login(t) \/ LoginFails(t) \/ Reload(t)
    \/ \E n \in live : EndElsewhere(n)
    \/ Lapse

Spec == Init /\ [][Next]_vars

-----------------------------------------------------------------------------
Ends(c) == call[c] # Idle /\ call'[c] = Idle

\* A pair the server would still take is thrown out of the storage only by a
\* sign-out, by a bootstrap that was refused, by a failed sign-in, or by the
\* rejection of an older pair by a tab whose refresh was sent before this one was
\* stored (clearTokens in requestOnce).
KeptWhileGood ==
    [][stored' = 0 /\ stored \in live =>
          \/ \E c \in Calls : Ends(c) /\ KindOf[c] # "get"
          \/ \E t \in Tabs : Arrive(t) /\ slot[t].told = "rejected" /\ slot[t].held # stored
          \/ \E t \in Tabs : LoginFails(t)]_vars
=============================================================================
