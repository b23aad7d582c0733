--------------------------- MODULE BrowserProofs ----------------------------
(***************************************************************************)
(* Proofs about the token pair of one browser, for any number of tabs and  *)
(* calls: types, and what may throw a good pair out of the storage.        *)
(***************************************************************************)
EXTENDS Browser, TLAPS

\* What is known of a refresh in flight: it carries the pair that was stored when it
\* was sent, a rejected pair is not live and never will be, and success brings a pair.
Known ==
    \A t \in Tabs :
        /\ slot[t].told \in {"sent", "rejected"} /\ slot[t].held # 0 =>
              slot[t].pair = slot[t].held
        /\ slot[t].told = "rejected" => slot[t].pair \notin live
        /\ slot[t].told = "ok" => slot[t].pair # 0

\* The types, part by part, with the number of pairs minted made explicit.
Sends(n) == [step: {"sent"}, pair: 0..n, body: 0..n, replayed: BOOLEAN]
Rests(n) == [step: {"refused", "waits", "over"}, pair: {0}, body: 0..n, replayed: BOOLEAN]
Requests(n) == {Idle} \cup Sends(n) \cup Rests(n)
Flights(n) == {None} \cup
              [pair: 0..n, held: 0..n, told: {"sent", "ok", "rejected", "unavailable"}]

Server ==
    /\ minted \in Nat /\ live \subseteq 1..minted
    /\ lapsed \in 0..minted /\ denied \subseteq lapsed + 1..minted
Tokens == stored \in 0..minted /\ mirror \in [Tabs -> 0..minted]
Slots == slot \in [Tabs -> Flights(minted)]
Requested == call \in [Calls -> Requests(minted)]
Waiters == \A c \in Calls : call[c].step = "waits" => slot[TabOf[c]] # None /\ ~call[c].replayed

IInv == Server /\ Tokens /\ Slots /\ Requested /\ Waiters /\ Known

-----------------------------------------------------------------------------
(* Types. *)

\* The parts make up the type invariant.
LEMMA Types == IInv => TypeOK
<1>1. Call = Requests(minted)
  BY DEF Call, Requests, Sends, Rests, Pair
<1>2. Slot = Flights(minted)
  BY DEF Slot, Flights, Pair
<1>3. QED BY <1>1, <1>2 DEF IInv, TypeOK, Server, Tokens, Slots, Requested, Waiters, Pair

\* What was a well-typed slot or call still is when more pairs have been minted.
LEMMA Grows ==
    ASSUME NEW m \in Nat, NEW n \in Nat, m <= n
    PROVE  0..m \subseteq 0..n /\ Requests(m) \subseteq Requests(n) /\ Flights(m) \subseteq Flights(n)
<1>1. 0..m \subseteq 0..n OBVIOUS
<1>2. Sends(m) \subseteq Sends(n) BY <1>1 DEF Sends
<1>3. Rests(m) \subseteq Rests(n) BY <1>1 DEF Rests
<1>4. Flights(m) \subseteq Flights(n) BY <1>1 DEF Flights
<1>5. QED BY <1>1, <1>2, <1>3, <1>4 DEF Requests

\* The initial states satisfy the invariant: the browser holds nothing.
LEMMA InitIInv == Init => IInv
<1> SUFFICES ASSUME Init PROVE IInv OBVIOUS
<1>1. Server /\ Tokens BY DEF Init, Server, Tokens
<1>2. Slots /\ Known BY DEF Init, Slots, Flights, Known, None
<1>3. Requested /\ Waiters BY DEF Init, Requested, Requests, Waiters, Idle
<1>4. QED BY <1>1, <1>2, <1>3 DEF IInv

\* Both places a token is read from hold pairs that were minted.
LEMMA TokIsPair == ASSUME Tokens, NEW t \in Tabs PROVE Tok(t) \in 0..minted
BY DEF Tokens, Tok

\* What Refresh puts in a slot is well typed.
LEMMA RefreshTyped ==
    ASSUME Server, Tokens, NEW t \in Tabs
    PROVE  /\ Refresh(t) \in Flights(minted) /\ Refresh(t) # None
           /\ Refresh(t).held # 0 => Refresh(t).pair = Refresh(t).held
           /\ Refresh(t).told = "rejected" => Refresh(t).pair \notin live
           /\ Refresh(t).told # "ok"
<1>1. Tok(t) \in 0..minted BY TokIsPair
<1>2. Refresh(t) \in Flights(minted) /\ Refresh(t) # None
  BY <1>1 DEF Refresh, Flights, None, Tokens
<1>3. Refresh(t).held # 0 => Refresh(t).pair = Refresh(t).held
  BY DEF Refresh, Tok
<1>4. Refresh(t).told = "rejected" => Refresh(t).pair = 0
  BY DEF Refresh
<1>5. 0 \notin live BY DEF Server
<1>6. Refresh(t).told # "ok" BY DEF Refresh
<1>7. QED BY <1>2, <1>3, <1>4, <1>5, <1>6

\* The denylist is about tokens that have not expired.
LEMMA DenyingTyped ==
    ASSUME Server, NEW p \in 0..minted, NEW q \in 0..minted
    PROVE  Denying({p, q}) \subseteq lapsed + 1..minted /\ Denying({p}) \subseteq lapsed + 1..minted
<1>1. ASSUME NEW n \in denied \cup {p, q}, n > lapsed PROVE n \in lapsed + 1..minted
  <2>1. CASE n \in denied BY <2>1 DEF Server
  <2>2. CASE n \in 0..minted BY <1>1, <2>2 DEF Server
  <2>3. QED BY <1>1, <2>1, <2>2
<1>2. QED BY <1>1 DEF Denying

\* A step that only moves calls about keeps what is known of the slots.
LEMMA SlotsStay ==
    ASSUME IInv, live' \subseteq live, minted' = minted, UNCHANGED slot
    PROVE  Slots' /\ Known'
<1>1. Slots' BY DEF IInv, Slots
<1>2. Known' BY DEF IInv, Known
<1>3. QED BY <1>1, <1>2

\* One call moves to j: all calls stay well typed.
LEMMA MovesOne ==
    ASSUME IInv, NEW c \in Calls, NEW j, j \in Requests(minted), Go(c, j), minted' = minted
    PROVE  Requested'
BY DEF IInv, Requested, Go

\* A step that leaves the slots alone and puts one call where nothing waits.
LEMMA WaitersStay ==
    ASSUME IInv, NEW c \in Calls, NEW j, j.step # "waits", Go(c, j), UNCHANGED slot
    PROVE  Waiters'
BY DEF IInv, Waiters, Requested, Go

\* SetTokens stores a pair that was minted.
LEMMA SetTokensTyped ==
    ASSUME Tokens, Server, NEW t \in Tabs, NEW n \in 0..minted, SetTokens(t, n), minted' = minted
    PROVE  Tokens'
BY DEF Tokens, SetTokens

-----------------------------------------------------------------------------
(* Steps of a call. *)

\* A call leaves with the token it found.
LEMMA BeginKeeps == ASSUME IInv, NEW c \in Calls, Begin(c) PROVE IInv'
<1> USE ConstantsOK
<1> DEFINE t == TabOf[c]
           body == IF KindOf[c] = "logout" THEN Tok(t) ELSE 0
           j == Sent(Tok(t), body, FALSE)
<1>1. t \in Tabs OBVIOUS
<1>2. Tok(t) \in 0..minted /\ 0 \in 0..minted BY <1>1, TokIsPair DEF IInv, Server
<1>3. body \in 0..minted BY <1>2
<1>4. j \in Requests(minted) /\ j.step = "sent" BY <1>2, <1>3 DEF Sent, Requests, Sends
<1>5. Go(c, j) /\ UNCHANGED <<server, tokens, slot>> BY DEF Begin
<1> HIDE DEF j
<1>6. Requested' /\ Waiters' BY <1>4, <1>5, MovesOne, WaitersStay DEF server
<1>7. Slots' /\ Known' BY <1>5, SlotsStay DEF server
<1>8. Server' /\ Tokens' BY <1>5 DEF IInv, Server, Tokens, server, tokens
<1>9. QED BY <1>6, <1>7, <1>8 DEF IInv

\* What is known of a call that is under way.
LEMMA CallTyped ==
    ASSUME IInv, NEW c \in Calls, call[c] # Idle
    PROVE  /\ call[c] \in Sends(minted) \cup Rests(minted)
           /\ call[c].body \in 0..minted /\ call[c].pair \in 0..minted
           /\ call[c].replayed \in BOOLEAN
<1>1. call[c] \in Requests(minted) BY DEF IInv, Requested
<1>2. 0 \in 0..minted BY DEF IInv, Server
<1>3. QED BY <1>1, <1>2 DEF Requests, Sends, Rests

\* The server answers: it may end a session, which the slots do not notice.
LEMMA ServeKeeps == ASSUME IInv, NEW c \in Calls, Serve(c) PROVE IInv'
<1> DEFINE j == call[c]
           session == IF j.body # 0 THEN j.body ELSE j.pair
           refused == [j EXCEPT !.step = "refused", !.pair = 0]
           over == [j EXCEPT !.step = "over", !.pair = 0, !.body = 0]
<1>1. j.step = "sent" /\ minted' = minted /\ lapsed' = lapsed
      /\ UNCHANGED tokens /\ UNCHANGED slot
  BY DEF Serve
<1>2. call[c] # Idle BY <1>1 DEF Idle
<1>3. j \in Sends(minted) BY <1>1, <1>2, CallTyped DEF Sends, Rests
<1>4. 0 \in 0..minted BY DEF IInv, Server
<1>5. refused \in Requests(minted) /\ refused.step # "waits"
  BY <1>3 DEF Sends, Rests, Requests
<1>6. over \in Requests(minted) /\ over.step # "waits"
  BY <1>3, <1>4 DEF Sends, Rests, Requests
<1>7. Idle \in Requests(minted) /\ Idle.step # "waits"
  BY DEF Requests, Idle
<1>8. session \in 0..minted /\ j.pair \in 0..minted
  BY <1>3 DEF Sends
<1>9. (Go(c, refused) \/ Go(c, over) \/ Go(c, Idle))
      /\ \/ UNCHANGED <<live, denied>>
         \/ live' = live \ {session} /\ denied' = Denying({session, j.pair})
  BY DEF Serve
<1> HIDE DEF refused, over, session
<1>10. Requested' /\ Waiters'
  <2>1. CASE Go(c, refused) BY <2>1, <1>1, <1>5, MovesOne, WaitersStay
  <2>2. CASE Go(c, over) BY <2>2, <1>1, <1>6, MovesOne, WaitersStay
  <2>3. CASE Go(c, Idle) BY <2>3, <1>1, <1>7, MovesOne, WaitersStay
  <2>4. QED BY <1>9, <2>1, <2>2, <2>3
<1>11. live' \subseteq live BY <1>9
<1>12. Slots' /\ Known' BY <1>1, <1>11, SlotsStay
<1>13. Server'
  <2>1. CASE UNCHANGED <<live, denied>> BY <1>1, <2>1 DEF IInv, Server
  <2>2. CASE live' = live \ {session} /\ denied' = Denying({session, j.pair})
    <3>1. live' \subseteq 1..minted BY <1>1, <2>2 DEF IInv, Server
    <3>2. denied' \subseteq lapsed + 1..minted
      BY <1>8, <2>2, DenyingTyped DEF IInv
    <3>3. QED BY <1>1, <3>1, <3>2 DEF IInv, Server
  <2>3. QED BY <1>9, <2>1, <2>2
<1>14. Tokens' BY <1>1 DEF IInv, Tokens, tokens
<1>15. QED BY <1>10, <1>12, <1>13, <1>14 DEF IInv

\* A call that is not answered ends, a sign-out goes on to the end.
LEMMA FailKeeps == ASSUME IInv, NEW c \in Calls, Fail(c) PROVE IInv'
<1> DEFINE over == [call[c] EXCEPT !.step = "over", !.pair = 0, !.body = 0]
           j == IF KindOf[c] = "logout" THEN over ELSE Idle
<1>1. call[c].step = "sent" /\ Go(c, j) /\ UNCHANGED <<server, tokens, slot>>
  BY DEF Fail
<1>2. call[c] # Idle BY <1>1 DEF Idle
<1>3. call[c] \in Sends(minted) BY <1>1, <1>2, CallTyped DEF Sends, Rests
<1>4. 0 \in 0..minted BY DEF IInv, Server
<1>5. over \in Requests(minted) /\ over.step # "waits"
  BY <1>3, <1>4 DEF Sends, Rests, Requests
<1>6. j \in Requests(minted) /\ j.step # "waits"
  BY <1>5 DEF Requests, Idle
<1> HIDE DEF j
<1>7. Requested' /\ Waiters' BY <1>1, <1>6, MovesOne, WaitersStay DEF server
<1>8. Slots' /\ Known' BY <1>1, SlotsStay DEF server
<1>9. Server' /\ Tokens' BY <1>1 DEF IInv, Server, Tokens, server, tokens
<1>10. QED BY <1>7, <1>8, <1>9 DEF IInv

\* A slot that gets a new refresh of its own tab, or keeps what it has.
LEMMA SlotJoins ==
    ASSUME IInv, NEW t \in Tabs, UNCHANGED <<server, tokens>>,
           \/ slot' = [slot EXCEPT ![t] = IF @ = None THEN Refresh(t) ELSE @]
           \/ slot[t] = None /\ slot' = [slot EXCEPT ![t] = Refresh(t)]
    PROVE  Slots' /\ Known' /\ slot'[t] # None /\ \A u \in Tabs : slot[u] # None => slot'[u] # None
<1> DEFINE r == Refresh(t)
<1>1. /\ r \in Flights(minted) /\ r # None
      /\ r.held # 0 => r.pair = r.held
      /\ r.told = "rejected" => r.pair \notin live
      /\ r.told # "ok"
  BY RefreshTyped DEF IInv
<1> HIDE DEF r
<1>2. minted' = minted /\ live' = live BY DEF server
<1>3. slot \in [Tabs -> Flights(minted)] BY DEF IInv, Slots
<1>4. \/ slot' = slot /\ slot[t] # None
      \/ slot' = [slot EXCEPT ![t] = r]
  BY <1>3 DEF r
<1>5. Slots' BY <1>1, <1>2, <1>3, <1>4 DEF Slots
<1>6. Known' BY <1>1, <1>2, <1>3, <1>4 DEF IInv, Known
<1>7. slot'[t] # None /\ \A u \in Tabs : slot[u] # None => slot'[u] # None
  BY <1>1, <1>3, <1>4
<1>8. QED BY <1>5, <1>6, <1>7

\* A refused call waits for a refresh, which there is then.
LEMMA JoinKeeps == ASSUME IInv, NEW c \in Calls, Join(c) PROVE IInv'
<1> USE ConstantsOK
<1> DEFINE t == TabOf[c]
           j == [call[c] EXCEPT !.step = "waits"]
<1>1. t \in Tabs OBVIOUS
<1>2. /\ call[c].step = "refused" /\ ~call[c].replayed /\ Go(c, j)
      /\ slot' = [slot EXCEPT ![t] = IF @ = None THEN Refresh(t) ELSE @]
      /\ UNCHANGED <<server, tokens>>
  BY DEF Join
<1>3. call[c] # Idle BY <1>2 DEF Idle
<1>4. call[c] \in Rests(minted) BY <1>2, <1>3, CallTyped DEF Sends, Rests
<1>5. j \in Requests(minted) /\ ~j.replayed
  BY <1>2, <1>4 DEF Rests, Requests
<1> HIDE DEF j
<1>6. Slots' /\ Known' /\ slot'[t] # None /\ \A u \in Tabs : slot[u] # None => slot'[u] # None
  BY <1>1, <1>2, SlotJoins
<1>7. Requested' BY <1>2, <1>5, MovesOne DEF server
<1>8. Waiters'
  <2>1. SUFFICES ASSUME NEW d \in Calls, call'[d].step = "waits"
                 PROVE  slot'[TabOf[d]] # None /\ ~call'[d].replayed
    BY DEF Waiters
  <2>2. call'[c] = j /\ (d # c => call'[d] = call[d])
    BY <1>2 DEF IInv, Requested, Go
  <2>3. QED BY <1>5, <1>6, <2>1, <2>2 DEF IInv, Waiters
<1>9. Server' /\ Tokens' BY <1>2 DEF IInv, Server, Tokens, server, tokens
<1>10. QED BY <1>6, <1>7, <1>8, <1>9 DEF IInv

\* A call ends.
LEMMA ConcludeKeeps == ASSUME IInv, NEW c \in Calls, Conclude(c) PROVE IInv'
<1> USE ConstantsOK
<1>1. /\ Go(c, Idle) /\ UNCHANGED <<server, slot>>
      /\ UNCHANGED tokens \/ SetTokens(TabOf[c], 0)
  BY DEF Conclude, ClearTokens
<1>2. Idle \in Requests(minted) /\ Idle.step # "waits" BY DEF Requests, Idle
<1>3. Requested' /\ Waiters' BY <1>1, <1>2, MovesOne, WaitersStay DEF server
<1>4. Slots' /\ Known' BY <1>1, SlotsStay DEF server
<1>5. Server' BY <1>1 DEF IInv, Server, server
<1>6. Tokens'
  <2>1. TabOf[c] \in Tabs /\ 0 \in 0..minted /\ minted' = minted
    BY <1>1 DEF IInv, Server, server
  <2>2. CASE SetTokens(TabOf[c], 0) BY <2>1, <2>2, SetTokensTyped DEF IInv
  <2>3. CASE UNCHANGED tokens BY <2>1, <2>3 DEF IInv, Tokens, tokens
  <2>4. QED BY <1>1, <2>2, <2>3
<1>7. QED BY <1>3, <1>4, <1>5, <1>6 DEF IInv

-----------------------------------------------------------------------------
(* Steps of a refresh. *)

\* A socket that was refused starts a refresh.
LEMMA FreshKeeps == ASSUME IInv, NEW t \in Tabs, Fresh(t) PROVE IInv'
<1>1. /\ slot[t] = None /\ slot' = [slot EXCEPT ![t] = Refresh(t)]
      /\ UNCHANGED <<server, tokens>> /\ UNCHANGED call
  BY DEF Fresh
<1>2. Slots' /\ Known' /\ \A u \in Tabs : slot[u] # None => slot'[u] # None
  BY <1>1, SlotJoins
<1>3. Requested' BY <1>1 DEF IInv, Requested, server
<1>4. Waiters' BY <1>1, <1>2, ConstantsOK DEF IInv, Waiters
<1>5. Server' /\ Tokens' BY <1>1 DEF IInv, Server, Tokens, server, tokens
<1>6. QED BY <1>2, <1>3, <1>4, <1>5 DEF IInv

\* The slot of one tab hears how its refresh went.
LEMMA TellKeeps ==
    ASSUME IInv, NEW t \in Tabs, NEW outcome \in {"ok", "rejected", "unavailable"}, NEW n \in Nat,
           slot[t].told = "sent", Tell(t, outcome, n),
           minted' \in Nat, minted <= minted', n <= minted', UNCHANGED call,
           \A u \in Tabs : u # t /\ slot[u].told = "rejected" => slot[u].pair \notin live',
           outcome = "rejected" => n = slot[t].pair /\ n \notin live',
           outcome = "ok" => n # 0
    PROVE  Slots' /\ Known' /\ Requested' /\ Waiters'
<1> DEFINE r == slot'[t]
<1>1. minted \in Nat BY DEF IInv, Server
<1>2. slot \in [Tabs -> Flights(minted)] BY DEF IInv, Slots
<1>3. slot[t] \in [pair: 0..minted, held: 0..minted, told: {"sent", "ok", "rejected", "unavailable"}]
  BY <1>2 DEF Flights, None
<1>4. /\ r = [[slot[t] EXCEPT !.told = outcome] EXCEPT !.pair = n]
      /\ slot' = [slot EXCEPT ![t] = r]
  BY <1>2 DEF Tell
<1>5. /\ 0..minted \subseteq 0..minted' /\ Requests(minted) \subseteq Requests(minted')
      /\ Flights(minted) \subseteq Flights(minted')
  BY <1>1, Grows
<1>6. n \in 0..minted' OBVIOUS
<1>7. r \in Flights(minted') /\ r # None
  <2>1. r \in [pair: 0..minted', held: 0..minted', told: {"sent", "ok", "rejected", "unavailable"}]
    BY <1>3, <1>4, <1>5, <1>6
  <2>2. QED BY <2>1 DEF Flights, None
<1>8. /\ r.told = outcome /\ r.pair = n /\ r.held = slot[t].held
      /\ outcome = "rejected" /\ r.held # 0 => r.pair = r.held
  BY <1>3, <1>4 DEF IInv, Known
<1> HIDE DEF r
<1>9. Slots' BY <1>2, <1>4, <1>5, <1>7 DEF Slots
<1>10. Known'
  <2>1. ASSUME NEW u \in Tabs
        PROVE  /\ slot'[u].told \in {"sent", "rejected"} /\ slot'[u].held # 0 =>
                     slot'[u].pair = slot'[u].held
               /\ slot'[u].told = "rejected" => slot'[u].pair \notin live'
               /\ slot'[u].told = "ok" => slot'[u].pair # 0
    <3>1. CASE u = t
      <4>1. slot'[u] = r BY <1>2, <1>4, <3>1
      <4>2. QED BY <1>8, <4>1
    <3>2. CASE u # t
      <4>1. slot'[u] = slot[u] BY <1>2, <1>4, <3>2
      <4>2. QED BY <3>2, <4>1 DEF IInv, Known
    <3>3. QED BY <3>1, <3>2
  <2>2. QED BY <2>1 DEF Known
<1>11. Requested' BY <1>5 DEF IInv, Requested
<1>12. Waiters'
  <2>1. \A u \in Tabs : slot[u] # None => slot'[u] # None
    BY <1>2, <1>4, <1>7
  <2>2. QED BY <2>1, ConstantsOK DEF IInv, Waiters
<1>13. QED BY <1>9, <1>10, <1>11, <1>12

\* The pair in a slot was minted.
LEMMA SlotPair == ASSUME IInv, NEW t \in Tabs, slot[t] # None PROVE slot[t].pair \in 0..minted
BY DEF IInv, Slots, Flights

\* The server exchanges a live pair for a new one or rejects it.
LEMMA ServeRefreshKeeps == ASSUME IInv, NEW t \in Tabs, ServeRefresh(t) PROVE IInv'
<1>1. slot[t].told = "sent" /\ lapsed' = lapsed /\ UNCHANGED tokens /\ UNCHANGED call
  BY DEF ServeRefresh
<1>2. minted \in Nat BY DEF IInv, Server
<1>3. slot[t].pair \in 0..minted BY <1>1, SlotPair DEF None
<1>4. \A u \in Tabs : slot[u].told = "rejected" => slot[u].pair \notin live /\ slot[u].pair \in 0..minted
  BY SlotPair DEF IInv, Known, None
<1>5. CASE slot[t].pair \in live
  <2>1. /\ minted' = minted + 1
        /\ live' = (live \ {slot[t].pair}) \cup {minted + 1}
        /\ denied' = Denying({slot[t].pair})
    BY <1>5 DEF ServeRefresh
  <2>2. PICK outcome \in {"ok", "unavailable"} : Tell(t, outcome, minted + 1)
    BY <1>5 DEF ServeRefresh
  <2>3. minted' \in Nat /\ minted <= minted' /\ minted + 1 <= minted' /\ minted + 1 # 0
        /\ minted + 1 \in Nat /\ minted + 1 \notin 0..minted
    BY <1>2, <2>1
  <2>4. \A u \in Tabs : slot[u].told = "rejected" => slot[u].pair \notin live'
    BY <1>4, <2>1, <2>3
  <2>5. outcome \in {"ok", "rejected", "unavailable"} /\ outcome # "rejected"
    BY <2>2
  <2>6. Slots' /\ Known' /\ Requested' /\ Waiters'
    BY <1>1, <2>2, <2>3, <2>4, <2>5, TellKeeps
  <2>7. Server'
    <3>1. live' \subseteq 1..minted'
      <4>1. live \subseteq 1..minted BY DEF IInv, Server
      <4>2. 1..minted \subseteq 1..minted + 1 /\ minted + 1 \in 1..minted + 1 BY <1>2
      <4>3. QED BY <2>1, <4>1, <4>2
    <3>2. Denying({slot[t].pair}) \subseteq lapsed + 1..minted
      BY <1>3, DenyingTyped DEF IInv
    <3>3. lapsed \in 0..minted BY DEF IInv, Server
    <3>4. lapsed + 1..minted \subseteq lapsed + 1..minted + 1 /\ lapsed \in 0..minted + 1
      BY <1>2, <3>3
    <3>5. QED BY <1>1, <2>1, <2>3, <3>1, <3>2, <3>4 DEF Server
  <2>8. Tokens'
    <3>1. 0..minted \subseteq 0..minted' BY <1>2, <2>3, Grows
    <3>2. QED BY <1>1, <3>1 DEF IInv, Tokens, tokens
  <2>9. QED BY <2>6, <2>7, <2>8 DEF IInv
<1>6. CASE slot[t].pair \notin live
  <2>1. Tell(t, "rejected", slot[t].pair) /\ UNCHANGED <<minted, live, denied>>
    BY <1>6 DEF ServeRefresh
  <2>2. slot[t].pair \in Nat /\ slot[t].pair <= minted BY <1>2, <1>3
  <2>3. minted' \in Nat /\ minted <= minted' /\ slot[t].pair <= minted' /\ live' = live
    BY <1>2, <2>1, <2>2
  <2>4. Slots' /\ Known' /\ Requested' /\ Waiters'
    BY <1>1, <1>4, <1>6, <2>1, <2>2, <2>3, TellKeeps
  <2>5. Server' /\ Tokens' BY <1>1, <2>1 DEF IInv, Server, Tokens, tokens
  <2>6. QED BY <2>4, <2>5 DEF IInv
<1>7. QED BY <1>5, <1>6

\* A refresh that fails says nothing of the pair.
LEMMA FailRefreshKeeps == ASSUME IInv, NEW t \in Tabs, FailRefresh(t) PROVE IInv'
<1>1. /\ slot[t].told = "sent" /\ Tell(t, "unavailable", slot[t].pair)
      /\ UNCHANGED <<server, tokens>> /\ UNCHANGED call
  BY DEF FailRefresh
<1>2. minted \in Nat /\ minted' = minted /\ live' = live BY <1>1 DEF IInv, Server, server
<1>3. slot[t].pair \in 0..minted BY <1>1, SlotPair DEF None
<1>4. slot[t].pair \in Nat /\ slot[t].pair <= minted' /\ minted <= minted' BY <1>2, <1>3
<1>5. \A u \in Tabs : slot[u].told = "rejected" => slot[u].pair \notin live'
  BY <1>2 DEF IInv, Known
<1>6. Slots' /\ Known' /\ Requested' /\ Waiters'
  BY <1>1, <1>2, <1>4, <1>5, TellKeeps
<1>7. Server' /\ Tokens' BY <1>1 DEF IInv, Server, Tokens, server, tokens
<1>8. QED BY <1>6, <1>7 DEF IInv

\* A slot is emptied, and whoever waited for it with it.
LEMMA SlotEmpties ==
    ASSUME IInv, NEW t \in Tabs, slot' = [slot EXCEPT ![t] = None],
           minted' = minted, live' = live,
           \A c \in Calls : call'[c].step = "waits" => TabOf[c] # t /\ call'[c] = call[c]
    PROVE  Slots' /\ Known' /\ Waiters'
<1>1. slot \in [Tabs -> Flights(minted)] BY DEF IInv, Slots
<1>2. \A u \in Tabs : slot'[u] = IF u = t THEN None ELSE slot[u] BY <1>1
<1>3. None \in Flights(minted) BY DEF Flights
<1>4. Slots' BY <1>1, <1>3 DEF Slots
<1>5. Known' BY <1>2 DEF IInv, Known, None
<1>6. Waiters' BY <1>2, ConstantsOK DEF IInv, Waiters
<1>7. QED BY <1>4, <1>5, <1>6

\* Those who waited are told, and the tokens are stored or cleared.
LEMMA ArriveKeeps == ASSUME IInv, NEW t \in Tabs, Arrive(t) PROVE IInv'
<1>1. /\ slot[t].told \notin {"none", "sent"} /\ slot' = [slot EXCEPT ![t] = None]
      /\ UNCHANGED server
  BY DEF Arrive
<1>2. minted \in Nat /\ minted' = minted /\ live' = live BY <1>1 DEF IInv, Server, server
<1>3. slot[t].pair \in 0..minted BY <1>1, SlotPair DEF None
<1>4. 0 \in 0..minted BY <1>2
<1> DEFINE told(c) == IF slot[t].told = "ok" THEN Sent(slot[t].pair, call[c].body, TRUE) ELSE Idle
<1>5. call' = [c \in Calls |-> IF c \in Waiting(t) THEN told(c) ELSE call[c]]
  BY DEF Arrive
<1>6. ASSUME NEW c \in Calls, c \in Waiting(t)
      PROVE  told(c) \in Requests(minted) /\ told(c).step # "waits"
  <2>1. call[c] # Idle BY <1>6 DEF Waiting, Idle
  <2>2. call[c].body \in 0..minted BY <2>1, CallTyped
  <2>3. QED BY <1>3, <2>2 DEF Sent, Requests, Sends, Idle
<1> HIDE DEF told
<1>7. Requested'
  BY <1>2, <1>5, <1>6 DEF IInv, Requested
<1>8. \A c \in Calls : call'[c].step = "waits" => TabOf[c] # t /\ call'[c] = call[c]
  BY <1>5, <1>6 DEF Waiting
<1>9. Slots' /\ Known' /\ Waiters' BY <1>1, <1>2, <1>8, SlotEmpties
<1>10. Server' BY <1>1 DEF IInv, Server, server
<1>11. Tokens'
  <2>1. UNCHANGED tokens \/ \E n \in 0..minted : SetTokens(t, n)
    BY <1>3, <1>4 DEF Arrive, ClearTokens
  <2>2. CASE UNCHANGED tokens BY <1>2, <2>2 DEF IInv, Tokens, tokens
  <2>3. ASSUME NEW n \in 0..minted, SetTokens(t, n) PROVE Tokens'
    BY <1>2, <2>3, SetTokensTyped DEF IInv
  <2>4. QED BY <2>1, <2>2, <2>3
<1>12. QED BY <1>7, <1>9, <1>10, <1>11 DEF IInv

-----------------------------------------------------------------------------
(* Signing in, and what happens around the browser. *)

\* A sign-in stores a new pair.
LEMMA LoginKeeps == ASSUME IInv, NEW t \in Tabs, Login(t) PROVE IInv'
<1>1. /\ minted' = minted + 1 /\ live' = live \cup {minted + 1} /\ SetTokens(t, minted + 1)
      /\ UNCHANGED <<denied, lapsed, slot, call>>
  BY DEF Login
<1>2. minted \in Nat BY DEF IInv, Server
<1>3. minted' \in Nat /\ minted <= minted' /\ minted + 1 \notin 0..minted BY <1>1, <1>2
<1>4. /\ 0..minted \subseteq 0..minted' /\ Requests(minted) \subseteq Requests(minted')
      /\ Flights(minted) \subseteq Flights(minted')
  BY <1>2, <1>3, Grows
<1>5. Server'
  <2>1. live \subseteq 1..minted /\ lapsed \in 0..minted /\ denied \subseteq lapsed + 1..minted
    BY DEF IInv, Server
  <2>2. /\ 1..minted \subseteq 1..minted + 1 /\ minted + 1 \in 1..minted + 1
        /\ lapsed + 1..minted \subseteq lapsed + 1..minted + 1
    BY <1>2, <2>1
  <2>3. QED BY <1>1, <1>3, <1>4, <2>1, <2>2 DEF Server
<1>6. Tokens'
  <2>1. minted + 1 \in 0..minted' BY <1>1, <1>2
  <2>2. QED BY <1>1, <1>4, <2>1 DEF IInv, Tokens, SetTokens
<1>7. Slots' /\ Requested' /\ Waiters'
  BY <1>1, <1>4 DEF IInv, Slots, Requested, Waiters
<1>8. Known'
  <2>1. \A u \in Tabs : slot[u].told = "rejected" => slot[u].pair \in 0..minted
    BY SlotPair DEF None
  <2>2. QED BY <1>1, <1>3, <2>1 DEF IInv, Known
<1>9. QED BY <1>5, <1>6, <1>7, <1>8 DEF IInv

\* A sign-in that fails clears the tokens.
LEMMA LoginFailsKeeps == ASSUME IInv, NEW t \in Tabs, LoginFails(t) PROVE IInv'
<1>1. SetTokens(t, 0) /\ UNCHANGED <<server, slot, call>>
  BY DEF LoginFails, ClearTokens
<1>2. minted' = minted /\ live' = live /\ 0 \in 0..minted BY <1>1 DEF IInv, Server, server
<1>3. Tokens' BY <1>1, <1>2, SetTokensTyped DEF IInv
<1>4. Slots' /\ Known' BY <1>1, <1>2, SlotsStay
<1>5. Server' /\ Requested' /\ Waiters'
  BY <1>1, <1>2 DEF IInv, Server, Requested, Waiters, server
<1>6. QED BY <1>3, <1>4, <1>5 DEF IInv

\* A page that is loaded again forgets what its calls were about.
LEMMA ReloadKeeps == ASSUME IInv, NEW t \in Tabs, Reload(t) PROVE IInv'
<1>1. /\ mirror' = [mirror EXCEPT ![t] = 0] /\ slot' = [slot EXCEPT ![t] = None]
      /\ call' = [c \in Calls |-> IF TabOf[c] = t THEN Idle ELSE call[c]]
      /\ UNCHANGED <<server, stored>>
  BY DEF Reload
<1>2. minted' = minted /\ live' = live /\ 0 \in 0..minted BY <1>1 DEF IInv, Server, server
<1>3. Requested' BY <1>1, <1>2 DEF IInv, Requested, Requests
<1>4. \A c \in Calls : call'[c].step = "waits" => TabOf[c] # t /\ call'[c] = call[c]
  BY <1>1 DEF Idle
<1>5. Slots' /\ Known' /\ Waiters' BY <1>1, <1>2, <1>4, SlotEmpties
<1>6. Tokens' BY <1>1, <1>2 DEF IInv, Tokens
<1>7. Server' BY <1>1 DEF IInv, Server, server
<1>8. QED BY <1>3, <1>5, <1>6, <1>7 DEF IInv

\* Another device ends the session.
LEMMA EndElsewhereKeeps == ASSUME IInv, NEW n \in live, EndElsewhere(n) PROVE IInv'
<1>1. /\ live' = live \ {n} /\ denied' = Denying({n})
      /\ UNCHANGED <<minted, lapsed, tokens, slot, call>>
  BY DEF EndElsewhere
<1>2. n \in 0..minted BY DEF IInv, Server
<1>3. Server' BY <1>1, <1>2, DenyingTyped DEF IInv, Server
<1>4. Slots' /\ Known' BY <1>1, SlotsStay
<1>5. Tokens' /\ Requested' /\ Waiters'
  BY <1>1 DEF IInv, Tokens, Requested, Waiters, tokens
<1>6. QED BY <1>3, <1>4, <1>5 DEF IInv

\* An access token expires.
LEMMA LapseKeeps == ASSUME IInv, Lapse PROVE IInv'
<1>1. /\ lapsed < minted /\ lapsed' = lapsed + 1 /\ denied' = denied \ {lapsed'}
      /\ UNCHANGED <<minted, live, tokens, slot, call>>
  BY DEF Lapse
<1>2. minted \in Nat /\ lapsed \in 0..minted /\ denied \subseteq lapsed + 1..minted
  BY DEF IInv, Server
<1>3. lapsed' \in 0..minted BY <1>1, <1>2
<1>4. denied' \subseteq lapsed' + 1..minted
  <2>1. SUFFICES ASSUME NEW n \in denied' PROVE n \in lapsed' + 1..minted OBVIOUS
  <2>2. n \in lapsed + 1..minted /\ n # lapsed + 1 BY <1>1, <1>2
  <2>3. QED BY <1>1, <1>2, <2>2
<1>5. Server' BY <1>1, <1>2, <1>3, <1>4 DEF IInv, Server
<1>6. Slots' /\ Known' BY <1>1, SlotsStay
<1>7. Tokens' /\ Requested' /\ Waiters'
  BY <1>1 DEF IInv, Tokens, Requested, Waiters, tokens
<1>8. QED BY <1>5, <1>6, <1>7 DEF IInv

-----------------------------------------------------------------------------
\* The inductive step.
LEMMA NextIInv == IInv /\ [Next]_vars => IInv'
<1> SUFFICES ASSUME IInv, [Next]_vars PROVE IInv' OBVIOUS
<1>1. ASSUME NEW c \in Calls, Begin(c) \/ Serve(c) \/ Fail(c) \/ Join(c) \/ Conclude(c)
      PROVE  IInv'
  BY <1>1, BeginKeeps, ServeKeeps, FailKeeps, JoinKeeps, ConcludeKeeps
<1>2. ASSUME NEW t \in Tabs, \/ Fresh(t) \/ ServeRefresh(t) \/ FailRefresh(t) \/ Arrive(t)
                             \/ Login(t) \/ LoginFails(t) \/ Reload(t)
      PROVE  IInv'
  BY <1>2, FreshKeeps, ServeRefreshKeeps, FailRefreshKeeps, ArriveKeeps, LoginKeeps,
     LoginFailsKeeps, ReloadKeeps
<1>3. ASSUME NEW n \in live, EndElsewhere(n) PROVE IInv'
  BY <1>3, EndElsewhereKeeps
<1>4. CASE Lapse BY <1>4, LapseKeeps
<1>5. CASE UNCHANGED vars
  BY <1>5 DEF IInv, Server, Tokens, Slots, Requested, Waiters, Known, vars
<1>6. QED BY <1>1, <1>2, <1>3, <1>4, <1>5 DEF Next

\* Every reachable state of the browser satisfies the invariant.
LEMMA Inductive == Spec => []IInv
BY InitIInv, NextIInv, PTL DEF Spec

\* Every reachable state of the browser is well typed, and whoever waits, waits for a
\* refresh that is in flight (refreshAccessToken, requestOnce).
THEOREM TypeCorrect == Spec => []TypeOK
BY Types, Inductive, PTL

-----------------------------------------------------------------------------
\* A refresh that is told it was rejected, of the pair that is stored, does not find it
\* live: the storage held an older one when the refresh was sent.
LEMMA RejectedIsOlder ==
    ASSUME IInv, NEW t \in Tabs, slot[t].told = "rejected", stored \in live
    PROVE  slot[t].held # stored
<1>1. stored # 0 BY DEF IInv, Server
<1>2. QED BY <1>1 DEF IInv, Known

\* What a step may do to a pair the server would take.
LEMMA KeptStep ==
    ASSUME IInv, [Next]_vars, stored' = 0, stored \in live
    PROVE  \/ \E c \in Calls : Ends(c) /\ KindOf[c] # "get"
           \/ \E t \in Tabs : Arrive(t) /\ slot[t].told = "rejected" /\ slot[t].held # stored
           \/ \E t \in Tabs : LoginFails(t)
<1>1. stored' # stored /\ minted + 1 # 0 BY DEF IInv, Server
<1>2. ASSUME NEW c \in Calls, Begin(c) \/ Serve(c) \/ Fail(c) \/ Join(c) PROVE FALSE
  BY <1>1, <1>2 DEF Begin, Serve, Fail, Join, tokens
<1>3. ASSUME NEW c \in Calls, Conclude(c) PROVE Ends(c) /\ KindOf[c] # "get"
  <2>1. KindOf[c] # "get" BY <1>1, <1>3 DEF Conclude, tokens
  <2>2. call[c] # Idle BY <1>3 DEF Conclude, Idle
  <2>3. call'[c] = Idle BY <1>3 DEF Conclude, Go, IInv, Requested
  <2>4. QED BY <2>1, <2>2, <2>3 DEF Ends
<1>4. ASSUME NEW t \in Tabs, Fresh(t) \/ ServeRefresh(t) \/ FailRefresh(t) \/ Reload(t) PROVE FALSE
  BY <1>1, <1>4 DEF Fresh, ServeRefresh, FailRefresh, Reload, tokens
<1>5. ASSUME NEW t \in Tabs, Login(t) PROVE FALSE
  BY <1>1, <1>5 DEF Login, SetTokens
<1>6. ASSUME NEW t \in Tabs, Arrive(t)
      PROVE  \/ \E c \in Calls : Ends(c) /\ KindOf[c] # "get"
             \/ slot[t].told = "rejected" /\ slot[t].held # stored
  <2>1. slot[t].told # "ok"
    BY <1>6 DEF Arrive, SetTokens, IInv, Known
  <2>2. PICK c \in Waiting(t) : Verdict(slot[t].told) \/ KindOf[c] # "get"
    BY <1>1, <1>6, <2>1 DEF Arrive, tokens
  <2>3. c \in Calls /\ call[c].step = "waits" BY <2>2 DEF Waiting
  <2>4. call[c] # Idle BY <2>3 DEF Idle
  <2>5. call'[c] = Idle BY <1>6, <2>1, <2>2, <2>3 DEF Arrive
  <2>6. CASE KindOf[c] # "get" BY <2>3, <2>4, <2>5, <2>6 DEF Ends
  <2>7. CASE Verdict(slot[t].told)
    BY <2>7, RejectedIsOlder DEF Verdict
  <2>8. QED BY <2>2, <2>6, <2>7
<1>7. CASE \E n \in live : EndElsewhere(n) BY <1>1, <1>7 DEF EndElsewhere, tokens
<1>8. CASE Lapse BY <1>1, <1>8 DEF Lapse, tokens
<1>9. CASE UNCHANGED vars BY <1>1, <1>9 DEF vars
<1>10. QED BY <1>2, <1>3, <1>4, <1>5, <1>6, <1>7, <1>8, <1>9 DEF Next

\* A pair the server would still take leaves the storage only by the ends of a sign-out
\* or a bootstrap, a failed sign-in, or the rejection of an older pair (requestOnce).
THEOREM KeptWhileGoodHolds == Spec => KeptWhileGood
<1>1. IInv /\ [Next]_vars =>
        [stored' = 0 /\ stored \in live =>
          \/ \E c \in Calls : Ends(c) /\ KindOf[c] # "get"
          \/ \E t \in Tabs : Arrive(t) /\ slot[t].told = "rejected" /\ slot[t].held # stored
          \/ \E t \in Tabs : LoginFails(t)]_vars
  BY KeptStep
<1>2. QED BY <1>1, Inductive, PTL DEF Spec, KeptWhileGood
=============================================================================
