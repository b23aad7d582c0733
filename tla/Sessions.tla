------------------------------ MODULE Sessions ------------------------------
(***************************************************************************)
(* The sign-ins of one account: the sessions table, the denylist of token  *)
(* ids, and the requests that rotate, revoke and sign out, each in a       *)
(* transaction of its own under READ COMMITTED.                            *)
(*                                                                         *)
(* A pair of tokens and its row in sessions are minted together, so one    *)
(* number stands for all three.  What a request reads and what it commits  *)
(* are separate steps; its writes are seen by nobody before the commit.    *)
(***************************************************************************)
EXTENDS Naturals, Sequences

CONSTANTS Requests, \* bound: requests in flight at one time
          MaxPairs  \* bound on the pairs ever minted

ASSUME ConstantsOK == MaxPairs \in Nat

Pairs == 1..MaxPairs

Access(n) == <<"access", n>>
Refresh(n) == <<"refresh", n>>
Tokens == {"access", "refresh"} \X Pairs

VARIABLES device,  \* device[n]: the sign-in that pair n descends from
          revoked, \* the sessions whose revoked_at is set
          denied,  \* the rows of revoked_tokens
          lapsed,  \* the pairs whose access token has expired
          job      \* job[s]: a request and its transaction

vars == <<device, revoked, denied, lapsed, job>>

Minted == DOMAIN device

Idle == [step |-> "idle"]
Job == {Idle} \cup
       [step: {"checked"}, pair: Pairs] \cup
       [step: {"staged"}, pair: Pairs, insert: SUBSET Tokens] \cup
       [step: {"listed"}, mark: SUBSET Pairs, seen: SUBSET Pairs] \cup
       [step: {"ready"}, op: {"refresh", "logout", "end"},
        lock: SUBSET Pairs, mark: SUBSET Pairs, insert: SUBSET Tokens,
        seen: SUBSET Pairs] \cup
       [step: {"done"}, seen: SUBSET Pairs]

TypeOK ==
    /\ device \in Seq(Pairs) /\ Len(device) <= MaxPairs
    /\ revoked \subseteq Minted
    /\ denied \in SUBSET Tokens
    /\ lapsed \subseteq Minted
    /\ job \in [Requests -> Job]

Init ==
    /\ device = <<>>
    /\ revoked = {} /\ denied = {} /\ lapsed = {}
    /\ job = [s \in Requests |-> Idle]

-----------------------------------------------------------------------------
Go(s, j) == job' = [job EXCEPT ![s] = j]

\* An access token the server still takes.
Accepted(n) == n \notin lapsed /\ Access(n) \notin denied

\* SELECT ... FOR UPDATE and UPDATE wait for the row locks of other transactions.
Free(s, rows) ==
    \A x \in Requests \ {s} : job[x].step = "ready" => job[x].lock \cap rows = {}

\* register and authenticate: a pair of a new device.
SignIn ==
    /\ Len(device) < MaxPairs
    /\ device' = Append(device, Len(device) + 1)
    /\ UNCHANGED <<revoked, denied, lapsed, job>>

\* An access token lives for an hour, and the refresh token beside it for weeks.
Lapse(n) ==
    /\ lapsed' = lapsed \cup {n}
    /\ UNCHANGED <<device, revoked, denied, job>>

-----------------------------------------------------------------------------
(* refresh_tokens. *)

\* The denylist is asked before the row is locked.
BeginRefresh(s, n) ==
    /\ job[s] = Idle
    /\ Refresh(n) \notin denied
    /\ Go(s, [step |-> "checked", pair |-> n])
    /\ UNCHANGED <<device, revoked, denied, lapsed>>

\* Mutant of AccessOf: the id of the session is denied, not that of its token.
SessionOf(n) == IF n \in lapsed THEN {} ELSE {<<"session", n>>} \ denied

\* What revoking session n's access token adds to the denylist: nothing if it has
\* expired or is there already.
AccessOf(n) == IF n \in lapsed THEN {} ELSE {Access(n)} \ denied

Rotating(n) ==
    [step |-> "ready", op |-> "refresh", lock |-> {n}, mark |-> {n},
     insert |-> AccessOf(n) \cup ({Refresh(n)} \ denied), seen |-> {n}]

\* Mutant of LockRefresh: the row is not looked at again.
LockRefreshUnread(s) ==
    /\ job[s].step = "checked"
    /\ Free(s, {job[s].pair})
    /\ Go(s, Rotating(job[s].pair))
    /\ UNCHANGED <<device, revoked, denied, lapsed>>

\* _find_session: whoever waited for the row reads it as it is now.
LockRefresh(s) ==
    /\ job[s].step = "checked"
    /\ LET n == job[s].pair IN
       /\ Free(s, {n})
       /\ Go(s, IF n \in revoked THEN Idle ELSE Rotating(n))
    /\ UNCHANGED <<device, revoked, denied, lapsed>>

\* The primary key of revoked_tokens lets in one row for a token; the transaction
\* of the second one fails.
Collides(s, present) == job[s].insert \cap present # {}

\* Mutant of CommitRefresh: the access token of the rotated session is left alone.
CommitRefreshOnly(s) ==
    /\ job[s].step = "ready" /\ job[s].op = "refresh"
    /\ Len(device) < MaxPairs
    /\ \E n \in job[s].mark :
          /\ device' = Append(device, device[n])
          /\ denied' = denied \cup {Refresh(n)}
    /\ revoked' = revoked \cup job[s].mark
    /\ Go(s, Idle)
    /\ UNCHANGED lapsed

\* Mint the next pair of the device, end the old one.
CommitRefresh(s) ==
    /\ job[s].step = "ready" /\ job[s].op = "refresh"
    /\ \/ /\ Collides(s, denied)
          /\ UNCHANGED <<device, revoked, denied>>
       \/ /\ ~Collides(s, denied)
          /\ Len(device) < MaxPairs
          /\ \E n \in job[s].mark : device' = Append(device, device[n])
          /\ revoked' = revoked \cup job[s].mark
          /\ denied' = denied \cup job[s].insert
    /\ Go(s, Idle)
    /\ UNCHANGED lapsed

-----------------------------------------------------------------------------
(* logout, revoke_session, revoke_all_sessions. *)

\* Signing out with the refresh token of pair r: the access token, of whatever pair, is
\* staged before the session is looked up. It need not be accepted, only unexpired.
BeginLogout(s, n, r) ==
    /\ job[s] = Idle
    /\ n \notin lapsed
    /\ Go(s, [step |-> "staged", pair |-> r, insert |-> {Access(n)} \ denied])
    /\ UNCHANGED <<device, revoked, denied, lapsed>>

LockLogout(s) ==
    /\ job[s].step = "staged"
    /\ LET r == job[s].pair IN
       /\ Free(s, {r})
       /\ Go(s, [step |-> "ready", op |-> "logout", lock |-> {r}, mark |-> {r} \ revoked,
                 insert |-> job[s].insert \cup AccessOf(r) \cup ({Refresh(r)} \ denied),
                 seen |-> {r}])
    /\ UNCHANGED <<device, revoked, denied, lapsed>>

\* Signing out without a refresh token finds the session by the access token, and
\* takes no lock.
BeginLogoutBare(s, n) ==
    /\ job[s] = Idle
    /\ n \notin lapsed
    /\ Go(s, [step |-> "ready", op |-> "logout", lock |-> {}, mark |-> {n} \ revoked,
              insert |-> {Access(n)} \ denied, seen |-> {n}])
    /\ UNCHANGED <<device, revoked, denied, lapsed>>

\* Revoking device m from the sessions screen, with access token n.
BeginRevoke(s, n, m) ==
    /\ job[s] = Idle
    /\ Accepted(n)
    /\ Go(s, [step |-> "ready", op |-> "end", lock |-> {}, mark |-> {m},
              insert |-> AccessOf(m), seen |-> {m}])
    /\ UNCHANGED <<device, revoked, denied, lapsed>>

\* revoke_all_sessions lists the sessions, and stamps those it finds unrevoked. It
\* locks none of them.
Listed(others) == [step |-> "listed", mark |-> others \ revoked, seen |-> others]

\* logout_everywhere, reset_password and the operator's reset keep nothing;
\* set_initial_password keeps the session that asks.
BeginEndAll(s) ==
    /\ job[s] = Idle
    /\ Go(s, Listed(Minted))
    /\ UNCHANGED <<device, revoked, denied, lapsed>>

BeginEndOthers(s, keep) ==
    /\ job[s] = Idle
    /\ Accepted(keep)
    /\ Go(s, Listed(Minted \ {keep}))
    /\ UNCHANGED <<device, revoked, denied, lapsed>>

\* Mutant of Deny: revoked_at is stamped and nothing else.
DenyNone(s) ==
    /\ job[s].step = "listed"
    /\ Go(s, [step |-> "ready", op |-> "end", lock |-> {}, mark |-> job[s].mark,
              insert |-> {}, seen |-> job[s].seen])
    /\ UNCHANGED <<device, revoked, denied, lapsed>>

\* Then the token of each is looked up in the denylist, that of a session revoked
\* already too. One look-up at a time comes to the same: what commits between two of
\* them makes the request fail, as if it had come after both, or not, as if before.
Deny(s) ==
    /\ job[s].step = "listed"
    /\ Go(s, [step |-> "ready", op |-> "end", lock |-> {}, mark |-> job[s].mark,
              insert |-> UNION {AccessOf(n) : n \in job[s].seen}, seen |-> job[s].seen])
    /\ UNCHANGED <<device, revoked, denied, lapsed>>

\* Mutant of Purged: the rows of sessions that are over are dropped as well.
PurgedRevoked == denied \ {Access(n) : n \in lapsed \cup revoked}

\* purge_expired_revocations, which signing out runs.
Purged == denied \ {Access(n) : n \in lapsed}

CommitEnd(s) ==
    /\ job[s].step = "ready" /\ job[s].op # "refresh"
    /\ Free(s, job[s].mark)
    /\ LET present == IF job[s].op = "logout" THEN Purged ELSE denied IN
       \/ /\ Collides(s, present)
          /\ Go(s, Idle)
          /\ UNCHANGED <<revoked, denied>>
       \/ /\ ~Collides(s, present)
          /\ revoked' = revoked \cup job[s].mark
          /\ denied' = present \cup job[s].insert
          /\ Go(s, [step |-> "done", seen |-> job[s].seen])
    /\ UNCHANGED <<device, lapsed>>

\* The person is told that they are signed out.
Answer(s) ==
    /\ job[s].step = "done"
    /\ Go(s, Idle)
    /\ UNCHANGED <<device, revoked, denied, lapsed>>

\* A transaction that is cancelled, or loses a deadlock.
Abort(s) ==
    /\ job[s].step \in {"checked", "staged", "listed", "ready"}
    /\ Go(s, Idle)
    /\ UNCHANGED <<device, revoked, denied, lapsed>>

-----------------------------------------------------------------------------
Next ==
    \/ SignIn
    \/ \E n \in Minted : Lapse(n)
    \/ \E s \in Requests :
          \/ \E n \in Minted :
                \/ BeginRefresh(s, n) \/ BeginLogoutBare(s, n) \/ BeginEndOthers(s, n)
                \/ \E m \in Minted : BeginLogout(s, n, m) \/ BeginRevoke(s, n, m)
          \/ BeginEndAll(s)
          \/ LockRefresh(s) \/ CommitRefresh(s)
          \/ LockLogout(s) \/ Deny(s) \/ CommitEnd(s)
          \/ Answer(s) \/ Abort(s)

Spec == Init /\ [][Next]_vars
-----------------------------------------------------------------------------
\* A session that is over has no working access token left: whatever rotates or
\* revokes it stops the access token in the same commit (_revoke_session_access).
RevokedIsDead ==
    \A n \in revoked : ~Accepted(n)

\* What was refused once stays refused, for both tokens of a pair, whatever signing
\* out purges from the denylist (purge_expired_revocations).
RefusedForGood ==
    [][\A n \in Minted :
          /\ ~Accepted(n) => ~Accepted(n)'
          /\ n \in revoked => n \in revoked']_vars

\* Whoever is told that they are signed out is: every session the request looked at
\* is over, its access token too (logout, revoke_session, revoke_all_sessions).
ToldIsDone ==
    \A s \in Requests : job[s].step = "done" =>
        \A n \in job[s].seen : n \in revoked /\ ~Accepted(n)

\* The sessions table implements one live pair per device, exchanged once
\* (refresh_tokens).
DeviceSpec == INSTANCE Devices WITH
    live <- {<<device[n], n>> : n \in Minted \ revoked},
    used <- Len(device)
ImplementsDevices == DeviceSpec!Spec
=============================================================================
