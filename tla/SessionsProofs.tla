--------------------------- MODULE SessionsProofs ---------------------------
(***************************************************************************)
(* Proofs about Sessions for any number of requests and pairs: types, that *)
(* what is over is refused for good, that whoever is told they are signed  *)
(* out is, and that sessions implement Devices.                            *)
(***************************************************************************)
EXTENDS Sessions, TLAPS

\* The state a request's promises are about is passed in, so that the same promise
\* can be read before and after a step.
Dead(n, den, lap) == n \in lap \/ Access(n) \in den

\* What a request has in hand is enough: once it has committed, all it has seen is
\* over and dead.
JobOK(j, mi, rev, den, lap) ==
    /\ j.step \in {"checked", "staged"} => j.pair \in mi
    /\ j.step = "listed" =>
          j.seen \subseteq mi /\ j.mark \subseteq j.seen /\ j.seen \subseteq rev \cup j.mark
    /\ j.step = "ready" =>
          /\ j.lock \subseteq mi /\ j.seen \subseteq mi /\ j.mark \subseteq j.seen
          /\ \A n \in j.seen : n \in rev \cup j.mark /\ Dead(n, den \cup j.insert, lap)
    /\ j.step = "done" =>
          j.seen \subseteq mi /\ \A n \in j.seen : n \in rev /\ Dead(n, den, lap)

JobsOK == \A s \in Requests : JobOK(job[s], Minted, revoked, denied, lapsed)

\* Whoever rotates a pair has it locked and unrevoked, and nobody shares a lock.
Locks == \A s \in Requests : job[s].step = "ready" =>
    /\ job[s].op = "refresh" =>
          \E n \in Minted : job[s].lock = {n} /\ job[s].mark = {n} /\ n \notin revoked
    /\ Free(s, job[s].lock)

IInv == TypeOK /\ RevokedIsDead /\ JobsOK /\ Locks

\* Nothing that is over comes back.
Later(mi, rev, den, lap, mi2, rev2, den2, lap2) ==
    /\ mi \subseteq mi2 /\ rev \subseteq rev2 /\ lap \subseteq lap2
    /\ \A n \in mi : Dead(n, den, lap) => Dead(n, den2, lap2)

Grows == Later(Minted, revoked, denied, lapsed, Minted', revoked', denied', lapsed')

\* What a request has in hand stays enough while nothing comes back.
LEMMA JobLater ==
    ASSUME NEW j, NEW mi, NEW rev, NEW den, NEW lap,
           NEW mi2, NEW rev2, NEW den2, NEW lap2,
           Later(mi, rev, den, lap, mi2, rev2, den2, lap2),
           JobOK(j, mi, rev, den, lap)
    PROVE  JobOK(j, mi2, rev2, den2, lap2)
  <1>1. \A n \in mi : Dead(n, den, lap) => Dead(n, den2, lap2)
    BY DEF Later
  <1>2. ASSUME NEW n \in mi, NEW more, Dead(n, den \cup more, lap)
        PROVE  Dead(n, den2 \cup more, lap2)
    BY <1>1, <1>2 DEF Dead, Later
  <1>3. mi \subseteq mi2 /\ rev \subseteq rev2
    BY DEF Later
  <1>4. CASE j.step = "ready"
    <2>1. /\ j.lock \subseteq mi /\ j.seen \subseteq mi /\ j.mark \subseteq j.seen
          /\ \A n \in j.seen : n \in rev \cup j.mark /\ Dead(n, den \cup j.insert, lap)
      BY <1>4 DEF JobOK
    <2>2. \A n \in j.seen : Dead(n, den2 \cup j.insert, lap2)
      BY <1>2, <2>1
    <2> QED BY <1>3, <1>4, <2>1, <2>2 DEF JobOK
  <1>5. CASE j.step = "done"
    <2>1. \A n \in j.seen : n \in rev /\ Dead(n, den, lap) /\ n \in mi
      BY <1>5 DEF JobOK
    <2> QED BY <1>1, <1>3, <1>5, <2>1 DEF JobOK
  <1>6. CASE j.step = "listed"
    BY <1>3, <1>6 DEF JobOK
  <1>7. CASE j.step \notin {"listed", "ready", "done"}
    BY <1>3, <1>7 DEF JobOK
  <1> QED BY <1>4, <1>5, <1>6, <1>7

\* A token is accepted unless its pair is dead.
LEMMA DeadIsRefused == \A n : Accepted(n) <=> ~Dead(n, denied, lapsed)
  BY DEF Accepted, Dead

\* The same after a step.
LEMMA DeadIsRefusedNext == \A n : Accepted(n)' <=> ~Dead(n, denied', lapsed')
  BY DEF Accepted, Dead, Access

\* An idle request has promised nothing.
LEMMA IdleOK == /\ Idle \in Job /\ Idle.step = "idle"
                /\ \A mi, rev, den, lap : JobOK(Idle, mi, rev, den, lap)
  BY DEF Idle, Job, JobOK

-----------------------------------------------------------------------------
\* The invariant holds at the start.
LEMMA InitIInv == Init => IInv
  <1> SUFFICES ASSUME Init PROVE IInv
    OBVIOUS
  <1>1. TypeOK
    BY ConstantsOK, IdleOK DEF Init, TypeOK, Minted, Tokens
  <1>2. JobsOK /\ Locks
    BY IdleOK DEF Init, JobsOK, Locks
  <1>3. RevokedIsDead
    BY DEF Init, RevokedIsDead
  <1> QED BY <1>1, <1>2, <1>3 DEF IInv

\* One request moves and nothing it depends on is taken back: every request can
\* still keep what it promised.
LEMMA JobsKeep ==
    ASSUME IInv, Grows, NEW s \in Requests, NEW j \in Job, Go(s, j),
           JobOK(j, Minted', revoked', denied', lapsed')
    PROVE  job' \in [Requests -> Job] /\ JobsOK'
  <1>1. job \in [Requests -> Job]
    BY DEF IInv, TypeOK
  <1>2. \A x \in Requests : job'[x] = IF x = s THEN j ELSE job[x]
    BY <1>1 DEF Go
  <1>3. job' \in [Requests -> Job]
    BY <1>1 DEF Go
  <1>4. ASSUME NEW x \in Requests
        PROVE  JobOK(job'[x], Minted', revoked', denied', lapsed')
    <2>1. CASE x = s
      BY <1>2, <2>1
    <2>2. CASE x # s
      <3>1. JobOK(job[x], Minted, revoked, denied, lapsed)
        BY DEF IInv, JobsOK
      <3>2. JobOK(job[x], Minted', revoked', denied', lapsed')
        BY <3>1, JobLater DEF Grows
      <3> QED BY <1>2, <2>2, <3>2
    <2> QED BY <2>1, <2>2
  <1> QED BY <1>3, <1>4 DEF JobsOK

\* A step of somebody else keeps every request's promise.
LEMMA JobsStay ==
    ASSUME IInv, Grows, UNCHANGED job
    PROVE  job' \in [Requests -> Job] /\ JobsOK'
  <1>1. ASSUME NEW x \in Requests
        PROVE  JobOK(job[x], Minted', revoked', denied', lapsed')
    <2>1. JobOK(job[x], Minted, revoked, denied, lapsed)
      BY DEF IInv, JobsOK
    <2> QED BY <2>1, JobLater DEF Grows
  <1> QED BY <1>1 DEF JobsOK, IInv, TypeOK

\* A request that takes no new lock, and one that takes a free one.
LEMMA LocksKeep ==
    ASSUME IInv, NEW s \in Requests, NEW j \in Job, Go(s, j),
           Minted \subseteq Minted',
           \A x \in Requests \ {s} : job[x].step = "ready" => job[x].lock \cap revoked' \subseteq revoked,
           j.step = "ready" =>
              /\ Free(s, j.lock)
              /\ j.op = "refresh" =>
                    \E n \in Minted : j.lock = {n} /\ j.mark = {n} /\ n \notin revoked'
    PROVE  Locks'
  <1>1. job \in [Requests -> Job]
    BY DEF IInv, TypeOK
  <1>2. \A x \in Requests : job'[x] = IF x = s THEN j ELSE job[x]
    BY <1>1 DEF Go
  <1>3. ASSUME NEW x \in Requests, job'[x].step = "ready"
        PROVE  /\ job'[x].op = "refresh" =>
                     \E n \in Minted' : job'[x].lock = {n} /\ job'[x].mark = {n} /\ n \notin revoked'
               /\ \A y \in Requests \ {x} :
                     job'[y].step = "ready" => job'[y].lock \cap job'[x].lock = {}
    <2>1. CASE x = s
      BY <1>2, <1>3, <2>1 DEF Free
    <2>2. CASE x # s
      <3>1. job'[x] = job[x]
        BY <1>2, <2>2
      <3>2. /\ job[x].op = "refresh" =>
                  \E n \in Minted : job[x].lock = {n} /\ job[x].mark = {n} /\ n \notin revoked
            /\ Free(x, job[x].lock)
        BY <1>3, <3>1 DEF IInv, Locks
      <3>3. job[x].lock \cap revoked' \subseteq revoked
        BY <1>3, <2>2, <3>1
      <3>4. j.step = "ready" => j.lock \cap job[x].lock = {}
        BY <1>3, <2>2, <3>1 DEF Free
      <3> QED BY <1>2, <3>1, <3>2, <3>3, <3>4 DEF Free
    <2> QED BY <2>1, <2>2
  <1> QED BY <1>3 DEF Locks, Free

-----------------------------------------------------------------------------
\* A step in which only the request moves.
LEMMA QuietKeeps ==
    ASSUME IInv, NEW s \in Requests, NEW j \in Job, Go(s, j),
           UNCHANGED <<device, revoked, denied, lapsed>>,
           JobOK(j, Minted, revoked, denied, lapsed),
           j.step = "ready" =>
              /\ Free(s, j.lock)
              /\ j.op = "refresh" =>
                    \E n \in Minted : j.lock = {n} /\ j.mark = {n} /\ n \notin revoked
    PROVE  IInv' /\ Grows
  <1>1. Minted' = Minted
    BY DEF Minted
  <1>2. Grows
    BY <1>1 DEF Grows, Later
  <1>3. job' \in [Requests -> Job] /\ JobsOK'
    BY <1>1, <1>2, JobsKeep
  <1>4. Locks'
    BY <1>1, LocksKeep
  <1>5. RevokedIsDead'
    BY DeadIsRefused, DeadIsRefusedNext DEF IInv, RevokedIsDead
  <1>6. TypeOK'
    BY <1>1, <1>3 DEF IInv, TypeOK
  <1> QED BY <1>2, <1>3, <1>4, <1>5, <1>6 DEF IInv

\* Whatever has expired or is on the denylist, or is about to be, is dead.
LEMMA AccessOfKills ==
    ASSUME TypeOK, NEW n \in Minted, NEW more, AccessOf(n) \subseteq more
    PROVE  Dead(n, denied \cup more, lapsed)
  BY DEF AccessOf, Dead

\* The access tokens of a pair are tokens.
LEMMA AccessOfType == ASSUME TypeOK, NEW n \in Minted PROVE AccessOf(n) \subseteq Tokens /\ n \in Pairs
  <1>1. n \in Pairs
    BY ConstantsOK DEF TypeOK, Minted, Pairs
  <1> QED BY <1>1 DEF AccessOf, Access, Tokens

\* The refresh token of a pair is a token.
LEMMA RefreshType == ASSUME NEW n \in Pairs PROVE Refresh(n) \in Tokens
  BY DEF Refresh, Tokens

\* A refresh that begins has written nothing.
LEMMA BeginRefreshKeeps ==
    ASSUME IInv, NEW s \in Requests, NEW n \in Minted, BeginRefresh(s, n)
    PROVE  IInv' /\ Grows
  <1> DEFINE j == [step |-> "checked", pair |-> n]
  <1>1. j \in Job
    BY AccessOfType DEF Job, IInv
  <1>2. JobOK(j, Minted, revoked, denied, lapsed)
    BY DEF JobOK
  <1>3. j.step # "ready" /\ Go(s, j) /\ UNCHANGED <<device, revoked, denied, lapsed>>
    BY DEF BeginRefresh
  <1> HIDE DEF j
  <1> QED BY <1>1, <1>2, <1>3, QuietKeeps

\* A refresh that takes the row finds it unrevoked, and will stamp it.
LEMMA LockRefreshKeeps ==
    ASSUME IInv, NEW s \in Requests, LockRefresh(s)
    PROVE  IInv' /\ Grows
  <1> DEFINE n == job[s].pair
             j == Rotating(n)
  <1>0. n \in Minted
    BY DEF IInv, JobsOK, JobOK, LockRefresh
  <1>1. UNCHANGED <<device, revoked, denied, lapsed>> /\ Free(s, {n})
    BY DEF LockRefresh
  <1>2. CASE Go(s, Idle)
    BY <1>1, <1>2, IdleOK, QuietKeeps
  <1>3. CASE n \notin revoked /\ Go(s, j)
    <2>1. n \in Pairs /\ AccessOf(n) \subseteq Tokens
      BY <1>0, AccessOfType DEF IInv
    <2>2. AccessOf(n) \cup ({Refresh(n)} \ denied) \subseteq Tokens
      BY <2>1, RefreshType
    <2>3. j \in Job
      BY <2>1, <2>2 DEF Job, Rotating
    <2>4. JobOK(j, Minted, revoked, denied, lapsed)
      <3>1. Dead(n, denied \cup j.insert, lapsed)
        BY <1>0, AccessOfKills DEF IInv, Rotating
      <3> QED BY <1>0, <3>1 DEF JobOK, Rotating
    <2>5. j.lock = {n} /\ j.mark = {n}
      BY DEF Rotating
    <2> HIDE DEF j
    <2> QED BY <1>0, <1>1, <1>3, <2>3, <2>4, <2>5, QuietKeeps
  <1> QED BY <1>2, <1>3 DEF LockRefresh

\* A sign-out that begins has written nothing.
LEMMA BeginLogoutKeeps ==
    ASSUME IInv, NEW s \in Requests, NEW n \in Minted, NEW r \in Minted, BeginLogout(s, n, r)
    PROVE  IInv' /\ Grows
  <1> DEFINE j == [step |-> "staged", pair |-> r, insert |-> {Access(n)} \ denied]
  <1>1. n \in Pairs /\ r \in Pairs
    BY AccessOfType DEF IInv
  <1>2. {Access(n)} \ denied \subseteq Tokens
    BY <1>1 DEF Access, Tokens
  <1>3. j \in Job
    BY <1>1, <1>2 DEF Job
  <1>4. JobOK(j, Minted, revoked, denied, lapsed)
    BY DEF JobOK
  <1>5. j.step # "ready" /\ Go(s, j) /\ UNCHANGED <<device, revoked, denied, lapsed>>
    BY DEF BeginLogout
  <1> HIDE DEF j
  <1> QED BY <1>3, <1>4, <1>5, QuietKeeps

\* A request that has read everything it needs and goes on to commit, without a lock
\* or with one it found free.
LEMMA ReadyKeeps ==
    ASSUME IInv, NEW s \in Requests, NEW what \in {"logout", "end"},
           NEW lock \in SUBSET Minted, NEW mark \in SUBSET Minted, NEW seen \in SUBSET Minted,
           NEW insert \in SUBSET Tokens,
           mark \subseteq seen, seen \subseteq revoked \cup mark,
           \A n \in seen : Dead(n, denied \cup insert, lapsed),
           Free(s, lock),
           Go(s, [step |-> "ready", op |-> what, lock |-> lock, mark |-> mark,
                  insert |-> insert, seen |-> seen]),
           UNCHANGED <<device, revoked, denied, lapsed>>
    PROVE  IInv' /\ Grows
  <1> DEFINE j == [step |-> "ready", op |-> what, lock |-> lock, mark |-> mark,
                   insert |-> insert, seen |-> seen]
  <1>1. Minted \subseteq Pairs
    BY AccessOfType DEF IInv
  <1>2. j \in Job
    BY <1>1 DEF Job
  <1>3. JobOK(j, Minted, revoked, denied, lapsed)
    BY DEF JobOK
  <1>4. j.lock = lock /\ j.op # "refresh"
    OBVIOUS
  <1> HIDE DEF j
  <1>5. Go(s, j)
    BY DEF j
  <1> QED BY <1>2, <1>3, <1>4, <1>5, QuietKeeps

\* A sign-out that takes the row will end it and deny its tokens.
LEMMA LockLogoutKeeps ==
    ASSUME IInv, NEW s \in Requests, LockLogout(s)
    PROVE  IInv' /\ Grows
  <1> DEFINE r == job[s].pair
             insert == job[s].insert \cup AccessOf(r) \cup ({Refresh(r)} \ denied)
  <1>1. r \in Minted
    BY DEF IInv, JobsOK, JobOK, LockLogout
  <1>2. job[s].insert \in SUBSET Tokens
    <2>1. job[s] \in Job
      BY DEF IInv, TypeOK
    <2> QED BY <2>1 DEF Job, Idle, LockLogout
  <1>3. insert \in SUBSET Tokens
    BY <1>1, <1>2, AccessOfType, RefreshType DEF IInv
  <1>4. Dead(r, denied \cup insert, lapsed)
    BY <1>1, AccessOfKills DEF IInv
  <1>5. /\ Free(s, {r}) /\ UNCHANGED <<device, revoked, denied, lapsed>>
        /\ Go(s, [step |-> "ready", op |-> "logout", lock |-> {r}, mark |-> {r} \ revoked,
                  insert |-> insert, seen |-> {r}])
    BY DEF LockLogout
  <1>6. /\ {r} \in SUBSET Minted /\ {r} \ revoked \in SUBSET Minted
        /\ {r} \ revoked \subseteq {r} /\ {r} \subseteq revoked \cup ({r} \ revoked)
    BY <1>1
  <1>7. \A n \in {r} : Dead(n, denied \cup insert, lapsed)
    BY <1>4
  <1> HIDE DEF insert, r
  <1> QED BY <1>3, <1>5, <1>6, <1>7, ReadyKeeps

\* A sign-out without a refresh token will deny its access token.
LEMMA BeginLogoutBareKeeps ==
    ASSUME IInv, NEW s \in Requests, NEW n \in Minted, BeginLogoutBare(s, n)
    PROVE  IInv' /\ Grows
  <1> DEFINE insert == {Access(n)} \ denied
  <1>1. insert \in SUBSET Tokens
    BY AccessOfType DEF IInv, Access, Tokens
  <1>2. Dead(n, denied \cup insert, lapsed)
    BY DEF Dead
  <1>3. Free(s, {})
    BY DEF Free
  <1>4. /\ UNCHANGED <<device, revoked, denied, lapsed>>
        /\ Go(s, [step |-> "ready", op |-> "logout", lock |-> {}, mark |-> {n} \ revoked,
                  insert |-> insert, seen |-> {n}])
    BY DEF BeginLogoutBare
  <1>5. /\ {n} \in SUBSET Minted /\ {n} \ revoked \in SUBSET Minted
        /\ {} \in SUBSET Minted
        /\ {n} \ revoked \subseteq {n} /\ {n} \subseteq revoked \cup ({n} \ revoked)
    OBVIOUS
  <1>6. \A k \in {n} : Dead(k, denied \cup insert, lapsed)
    BY <1>2
  <1> HIDE DEF insert
  <1> QED BY <1>1, <1>3, <1>4, <1>5, <1>6, ReadyKeeps

\* Revoking a device will end it and deny its tokens.
LEMMA BeginRevokeKeeps ==
    ASSUME IInv, NEW s \in Requests, NEW n \in Minted, NEW m \in Minted, BeginRevoke(s, n, m)
    PROVE  IInv' /\ Grows
  <1>1. AccessOf(m) \in SUBSET Tokens
    BY AccessOfType DEF IInv
  <1>2. Dead(m, denied \cup AccessOf(m), lapsed)
    BY AccessOfKills DEF IInv
  <1>3. Free(s, {})
    BY DEF Free
  <1>4. /\ UNCHANGED <<device, revoked, denied, lapsed>>
        /\ Go(s, [step |-> "ready", op |-> "end", lock |-> {}, mark |-> {m},
                  insert |-> AccessOf(m), seen |-> {m}])
    BY DEF BeginRevoke
  <1> QED BY <1>1, <1>2, <1>3, <1>4, ReadyKeeps

\* A list of sessions to end has written nothing, and misses none it will not stamp.
LEMMA ListedKeeps ==
    ASSUME IInv, NEW s \in Requests, NEW others \in SUBSET Minted, Go(s, Listed(others)),
           UNCHANGED <<device, revoked, denied, lapsed>>
    PROVE  IInv' /\ Grows
  <1> DEFINE j == Listed(others)
  <1>1. Minted \subseteq Pairs
    BY AccessOfType DEF IInv
  <1>2. j.step = "listed" /\ j.mark = others \ revoked /\ j.seen = others /\ j \in Job
    BY <1>1 DEF Listed, Job
  <1> HIDE DEF j
  <1>3. JobOK(j, Minted, revoked, denied, lapsed)
    BY <1>2 DEF JobOK
  <1>4. Go(s, j)
    BY DEF j
  <1> QED BY <1>2, <1>3, <1>4, QuietKeeps

\* Whose turn has come in the denylist is dead at the commit, whatever was ended since
\* the list was made.
LEMMA DenyKeeps ==
    ASSUME IInv, NEW s \in Requests, Deny(s)
    PROVE  IInv' /\ Grows
  <1> DEFINE seen == job[s].seen
             mark == job[s].mark
             insert == UNION {AccessOf(n) : n \in job[s].seen}
  <1>1. seen \in SUBSET Minted /\ mark \in SUBSET Minted /\ mark \subseteq seen /\ seen \subseteq revoked \cup mark
    BY DEF IInv, JobsOK, JobOK, Deny
  <1>2. insert \in SUBSET Tokens
    BY <1>1, AccessOfType DEF IInv
  <1>3. \A n \in seen : Dead(n, denied \cup insert, lapsed)
    BY <1>1, AccessOfKills DEF IInv
  <1>4. Free(s, {}) /\ {} \in SUBSET Minted
    BY DEF Free
  <1>5. /\ Go(s, [step |-> "ready", op |-> "end", lock |-> {}, mark |-> mark,
                  insert |-> insert, seen |-> seen])
        /\ UNCHANGED <<device, revoked, denied, lapsed>>
    BY DEF Deny
  <1> HIDE DEF insert, seen, mark
  <1> QED BY <1>1, <1>2, <1>3, <1>4, <1>5, ReadyKeeps

\* The end of a request changes nothing that is over.
LEMMA StopKeeps ==
    ASSUME IInv, NEW s \in Requests, Answer(s) \/ Abort(s)
    PROVE  IInv' /\ Grows
  BY IdleOK, QuietKeeps DEF Answer, Abort

-----------------------------------------------------------------------------
\* The pairs are numbered from 1.
LEMMA MintedIsRange == TypeOK => Minted = 1..Len(device) /\ Len(device) \in Nat
  BY DEF TypeOK, Minted

\* Minting the next pair.
LEMMA MintKeeps ==
    ASSUME TypeOK, Len(device) < MaxPairs, NEW d \in Pairs, device' = Append(device, d)
    PROVE  /\ device' \in Seq(Pairs) /\ Len(device') = Len(device) + 1 /\ Len(device') <= MaxPairs
           /\ Minted' = Minted \cup {Len(device) + 1}
           /\ Len(device) + 1 \notin Minted
           /\ \A n \in Minted : device'[n] = device[n]
           /\ device'[Len(device) + 1] = d
  <1>1. device \in Seq(Pairs)
    BY DEF TypeOK
  <1>2. device' \in Seq(Pairs) /\ Len(device') = Len(device) + 1
    BY <1>1
  <1>3. Len(device) \in Nat /\ MaxPairs \in Nat
    BY <1>1, ConstantsOK
  <1>4. Minted = 1..Len(device) /\ Minted' = 1..(Len(device) + 1)
    BY <1>1, <1>2 DEF Minted
  <1>5. \A n \in 1..Len(device) : device'[n] = device[n]
    BY <1>1
  <1>6. device'[Len(device) + 1] = d
    BY <1>1
  <1> QED BY <1>2, <1>3, <1>4, <1>5, <1>6

\* A sign-in mints a pair that nothing is said of yet.
LEMMA SignInKeeps ==
    ASSUME IInv, SignIn
    PROVE  IInv' /\ Grows
  <1>1. Len(device) + 1 \in Pairs
    BY ConstantsOK, MintedIsRange DEF SignIn, Pairs, IInv
  <1>2. /\ device' \in Seq(Pairs) /\ Len(device') <= MaxPairs /\ Minted \subseteq Minted'
    BY <1>1, MintKeeps DEF SignIn, IInv
  <1>3. UNCHANGED <<revoked, denied, lapsed, job>>
    BY DEF SignIn
  <1>4. Grows
    BY <1>2, <1>3 DEF Grows, Later
  <1>5. job' \in [Requests -> Job] /\ JobsOK'
    BY <1>3, <1>4, JobsStay
  <1>6. Locks'
    BY <1>2, <1>3 DEF IInv, Locks, Free
  <1>7. RevokedIsDead'
    BY <1>3, DeadIsRefused, DeadIsRefusedNext DEF IInv, RevokedIsDead
  <1>8. TypeOK'
    BY <1>2, <1>3, <1>5 DEF IInv, TypeOK
  <1> QED BY <1>4, <1>5, <1>6, <1>7, <1>8 DEF IInv

\* An access token that expires is the deader for it.
LEMMA LapseKeeps ==
    ASSUME IInv, NEW n \in Minted, Lapse(n)
    PROVE  IInv' /\ Grows
  <1>1. UNCHANGED <<device, revoked, denied, job>> /\ lapsed' = lapsed \cup {n} /\ Minted' = Minted
    BY DEF Lapse, Minted
  <1>2. Grows
    BY <1>1 DEF Grows, Later, Dead
  <1>3. job' \in [Requests -> Job] /\ JobsOK'
    BY <1>1, <1>2, JobsStay
  <1>4. Locks'
    BY <1>1 DEF IInv, Locks, Free
  <1>5. RevokedIsDead'
    BY <1>1 DEF IInv, RevokedIsDead, Accepted, Access
  <1>6. TypeOK'
    BY <1>1, <1>3 DEF IInv, TypeOK
  <1> QED BY <1>2, <1>3, <1>4, <1>5, <1>6 DEF IInv

\* Purging drops only what has expired.
LEMMA PurgeKeeps ==
    ASSUME NEW n, NEW more, Dead(n, denied, lapsed)
    PROVE  Dead(n, Purged \cup more, lapsed)
  BY DEF Dead, Purged, Access

\* The purge drops the rows of expired tokens only: who is dead stays so.
LEMMA PurgeReady ==
    ASSUME NEW n, NEW more, Dead(n, denied \cup more, lapsed)
    PROVE  Dead(n, Purged \cup more, lapsed)
  BY DEF Dead, Purged, Access

\* What a ready request has in hand.
LEMMA ReadyFacts ==
    ASSUME IInv, NEW s \in Requests, job[s].step = "ready"
    PROVE  /\ job[s].mark \subseteq job[s].seen /\ job[s].seen \subseteq Minted
           /\ job[s].insert \subseteq Tokens
           /\ job[s].seen \subseteq revoked \cup job[s].mark
           /\ \A n \in job[s].seen : Dead(n, denied \cup job[s].insert, lapsed)
           /\ job[s].op \in {"refresh", "logout", "end"}
  <1>1. JobOK(job[s], Minted, revoked, denied, lapsed)
    BY DEF IInv, JobsOK
  <1>2. job[s] \in Job
    BY DEF IInv, TypeOK
  <1>3. job[s].insert \subseteq Tokens /\ job[s].op \in {"refresh", "logout", "end"}
    BY <1>2 DEF Job, Idle
  <1> QED BY <1>1, <1>3 DEF JobOK

\* A rotation ends the pair it has locked and mints one for the same device.
LEMMA CommitRefreshKeeps ==
    ASSUME IInv, NEW s \in Requests, CommitRefresh(s)
    PROVE  /\ IInv' /\ Grows
           /\ \/ UNCHANGED <<device, revoked>>
              \/ \E n \in Minted \ revoked :
                    /\ Len(device) < MaxPairs
                    /\ device' = Append(device, device[n])
                    /\ revoked' = revoked \cup {n}
  <1>1. CASE UNCHANGED <<device, revoked, denied>>
    BY <1>1, IdleOK, QuietKeeps DEF CommitRefresh
  <1>2. CASE ~UNCHANGED <<device, revoked, denied>>
    <2>1. /\ job[s].step = "ready" /\ job[s].op = "refresh" /\ Len(device) < MaxPairs
          /\ \E n \in job[s].mark : device' = Append(device, device[n])
          /\ revoked' = revoked \cup job[s].mark /\ denied' = denied \cup job[s].insert
          /\ Go(s, Idle) /\ lapsed' = lapsed
      BY <1>2 DEF CommitRefresh
    <2>2. PICK n \in Minted : job[s].lock = {n} /\ job[s].mark = {n} /\ n \notin revoked
      BY <2>1 DEF IInv, Locks
    <2>3. device' = Append(device, device[n]) /\ revoked' = revoked \cup {n}
      BY <2>1, <2>2
    <2>4. device[n] \in Pairs
      BY <2>2 DEF IInv, TypeOK, Minted
    <2>5. /\ device' \in Seq(Pairs) /\ Len(device') <= MaxPairs /\ Minted \subseteq Minted'
      BY <2>1, <2>3, <2>4, MintKeeps DEF IInv
    <2>6. job[s].insert \subseteq Tokens /\ Dead(n, denied', lapsed')
      BY <2>1, <2>2, ReadyFacts
    <2>7. \A m : Dead(m, denied, lapsed) => Dead(m, denied', lapsed')
      BY <2>1 DEF Dead
    <2>8. Grows
      BY <2>1, <2>5, <2>7 DEF Grows, Later
    <2>9. job' \in [Requests -> Job] /\ JobsOK'
      BY <2>1, <2>8, IdleOK, JobsKeep
    <2>10. ASSUME NEW x \in Requests \ {s}, job[x].step = "ready"
           PROVE  job[x].lock \cap revoked' \subseteq revoked
      <3>1. Free(s, job[s].lock)
        BY <2>1 DEF IInv, Locks
      <3>2. n \notin job[x].lock
        BY <2>2, <2>10, <3>1 DEF Free
      <3> QED BY <2>3, <3>2
    <2>11. Locks'
      BY <2>1, <2>5, <2>10, IdleOK, LocksKeep
    <2>12. RevokedIsDead'
      BY <2>3, <2>6, <2>7, DeadIsRefused, DeadIsRefusedNext DEF IInv, RevokedIsDead
    <2>13. TypeOK'
      BY <2>1, <2>2, <2>3, <2>5, <2>6, <2>9 DEF IInv, TypeOK
    <2> QED BY <2>1, <2>2, <2>3, <2>8, <2>9, <2>11, <2>12, <2>13 DEF IInv
  <1> QED BY <1>1, <1>2

\* The commit of an ending does what its request had in hand.
LEMMA CommitEndKeeps ==
    ASSUME IInv, NEW s \in Requests, CommitEnd(s)
    PROVE  IInv' /\ Grows /\ UNCHANGED device
  <1>1. CASE UNCHANGED <<revoked, denied>> /\ Go(s, Idle)
    BY <1>1, IdleOK, QuietKeeps DEF CommitEnd
  <1>2. CASE ~(UNCHANGED <<revoked, denied>> /\ Go(s, Idle))
    <2> DEFINE j == [step |-> "done", seen |-> job[s].seen]
    <2>1. /\ job[s].step = "ready" /\ job[s].op # "refresh" /\ Free(s, job[s].mark)
          /\ revoked' = revoked \cup job[s].mark
          /\ denied' \in {Purged \cup job[s].insert, denied \cup job[s].insert}
          /\ Go(s, j) /\ UNCHANGED <<device, lapsed>>
      BY <1>2 DEF CommitEnd
    <2>2. Minted' = Minted
      BY <2>1 DEF Minted
    <2>3. /\ job[s].mark \subseteq job[s].seen /\ job[s].seen \subseteq Minted
          /\ job[s].insert \subseteq Tokens
          /\ job[s].seen \subseteq revoked'
          /\ \A n \in job[s].seen : Dead(n, denied \cup job[s].insert, lapsed)
          /\ job[s].op \in {"logout", "end"}
      BY <2>1, ReadyFacts
    <2>4. \A n : Dead(n, denied, lapsed) => Dead(n, denied', lapsed')
      BY <2>1, PurgeKeeps DEF Dead
    <2>5. \A n \in job[s].seen : Dead(n, denied', lapsed')
      BY <2>1, <2>3, PurgeReady
    <2>6. Grows
      BY <2>1, <2>2, <2>4 DEF Grows, Later
    <2>7. j \in Job
      <3>1. Minted \subseteq Pairs
        BY AccessOfType DEF IInv
      <3> QED BY <2>3, <3>1 DEF Job
    <2>8. JobOK(j, Minted', revoked', denied', lapsed')
      BY <2>2, <2>3, <2>5 DEF JobOK
    <2>9. j.step = "done"
      OBVIOUS
    <2> HIDE DEF j
    <2>10. job' \in [Requests -> Job] /\ JobsOK'
      BY <2>1, <2>6, <2>7, <2>8, JobsKeep
    <2>11. Locks'
      <3>1. ASSUME NEW x \in Requests \ {s}, job[x].step = "ready"
            PROVE  job[x].lock \cap revoked' \subseteq revoked
        BY <2>1, <3>1 DEF Free
      <3> QED BY <2>1, <2>2, <2>7, <2>9, <3>1, LocksKeep
    <2>12. RevokedIsDead'
      <3>1. \A n \in revoked' : Dead(n, denied', lapsed')
        BY <2>1, <2>3, <2>4, <2>5, DeadIsRefused DEF IInv, RevokedIsDead
      <3> QED BY <3>1, DeadIsRefusedNext DEF RevokedIsDead
    <2>13. TypeOK'
      <3>1. denied' \in SUBSET Tokens
        BY <2>1, <2>3 DEF IInv, TypeOK, Purged
      <3> QED BY <2>1, <2>2, <2>3, <2>10, <3>1 DEF IInv, TypeOK
    <2> QED BY <2>1, <2>6, <2>10, <2>11, <2>12, <2>13 DEF IInv
  <1> QED BY <1>1, <1>2 DEF CommitEnd

-----------------------------------------------------------------------------
\* Every step keeps the invariant and takes nothing back.
LEMMA StepKeeps == ASSUME IInv, Next PROVE IInv' /\ Grows
  <1>1. CASE SignIn
    BY <1>1, SignInKeeps
  <1>2. CASE \E n \in Minted : Lapse(n)
    BY <1>2, LapseKeeps
  <1>3. ASSUME NEW s \in Requests, NEW n \in Minted,
               BeginRefresh(s, n) \/ BeginLogoutBare(s, n) \/ BeginEndOthers(s, n)
        PROVE  IInv' /\ Grows
    <2>1. CASE BeginEndOthers(s, n)
      <3>1. Minted \ {n} \in SUBSET Minted
        OBVIOUS
      <3> QED BY <2>1, <3>1, ListedKeeps DEF BeginEndOthers
    <2> QED BY <1>3, <2>1, BeginRefreshKeeps, BeginLogoutBareKeeps
  <1>4. ASSUME NEW s \in Requests, NEW n \in Minted, NEW m \in Minted,
               BeginLogout(s, n, m) \/ BeginRevoke(s, n, m)
        PROVE  IInv' /\ Grows
    BY <1>4, BeginLogoutKeeps, BeginRevokeKeeps
  <1>5. ASSUME NEW s \in Requests, BeginEndAll(s) PROVE IInv' /\ Grows
    <2>1. Minted \in SUBSET Minted
      OBVIOUS
    <2> QED BY <1>5, <2>1, ListedKeeps DEF BeginEndAll
  <1>6. ASSUME NEW s \in Requests,
               \/ LockRefresh(s) \/ CommitRefresh(s) \/ LockLogout(s) \/ Deny(s) \/ CommitEnd(s)
               \/ Answer(s) \/ Abort(s)
        PROVE  IInv' /\ Grows
    BY <1>6, LockRefreshKeeps, CommitRefreshKeeps, LockLogoutKeeps, DenyKeeps, CommitEndKeeps, StopKeeps
  <1> QED BY <1>1, <1>2, <1>3, <1>4, <1>5, <1>6 DEF Next

\* Every step keeps the invariant.
LEMMA NextIInv == IInv /\ [Next]_vars => IInv'
  <1> SUFFICES ASSUME IInv, [Next]_vars PROVE IInv'
    OBVIOUS
  <1>1. CASE UNCHANGED vars
    BY <1>1 DEF vars, IInv, TypeOK, RevokedIsDead, Accepted, Access, JobsOK, Locks, Free, Minted
  <1>2. CASE Next
    BY <1>2, StepKeeps
  <1> QED BY <1>1, <1>2

\* The invariant holds in every reachable state.
THEOREM Invariance == Spec => []IInv
  <1> QED BY InitIInv, NextIInv, PTL DEF Spec

\* Every reachable state is well typed.
THEOREM TypeCorrect == Spec => []TypeOK
  <1>1. IInv => TypeOK
    BY DEF IInv
  <1> QED BY <1>1, Invariance, PTL

\* A session that is over has no working access token left.
THEOREM RevokedIsDeadHolds == Spec => []RevokedIsDead
  <1>1. IInv => RevokedIsDead
    BY DEF IInv
  <1> QED BY <1>1, Invariance, PTL

\* Whoever is told that they are signed out is.
THEOREM ToldIsDoneHolds == Spec => []ToldIsDone
  <1>1. IInv => ToldIsDone
    BY DeadIsRefused DEF IInv, JobsOK, JobOK, ToldIsDone
  <1> QED BY <1>1, Invariance, PTL

\* What was refused once stays refused.
THEOREM RefusedForGoodHolds == Spec => RefusedForGood
  <1> DEFINE Stays == \A n \in Minted : /\ ~Accepted(n) => ~Accepted(n)'
                                        /\ n \in revoked => n \in revoked'
  <1>1. IInv /\ [Next]_vars => [Stays]_vars
    <2> SUFFICES ASSUME IInv, Next PROVE Stays
      OBVIOUS
    <2>1. Grows
      BY StepKeeps
    <2> QED BY <2>1, DeadIsRefused, DeadIsRefusedNext DEF Grows, Later
  <1> QED BY <1>1, Invariance, PTL DEF Spec, RefusedForGood

-----------------------------------------------------------------------------
(* Refinement. *)

Held == {<<device[n], n>> : n \in Minted \ revoked}

\* Minting a pair of device d, and ending pairs at the same time.
LEMMA MintedHeld ==
    ASSUME IInv, Len(device) < MaxPairs, NEW d \in Pairs, device' = Append(device, d),
           NEW gone \in SUBSET Minted, revoked' = revoked \cup gone
    PROVE  /\ Len(device)' = Len(device) + 1
           /\ Held' = (Held \ {<<device[n], n>> : n \in gone}) \cup {<<d, Len(device) + 1>>}
  <1>1. /\ Len(device') = Len(device) + 1
        /\ Minted' = Minted \cup {Len(device) + 1} /\ Len(device) + 1 \notin Minted
        /\ \A n \in Minted : device'[n] = device[n]
        /\ device'[Len(device) + 1] = d
    BY MintKeeps DEF IInv
  <1>2. revoked \subseteq Minted
    BY DEF IInv, TypeOK
  <1>3. ASSUME NEW x \in Held'
        PROVE  x \in (Held \ {<<device[n], n>> : n \in gone}) \cup {<<d, Len(device) + 1>>}
    <2>1. PICK n \in Minted' \ revoked' : x = <<device'[n], n>>
      BY <1>3 DEF Held
    <2>2. CASE n = Len(device) + 1
      BY <1>1, <2>1, <2>2
    <2>3. CASE n \in Minted
      <3>1. x = <<device[n], n>> /\ n \notin revoked /\ n \notin gone
        BY <1>1, <2>1, <2>3
      <3> QED BY <2>3, <3>1 DEF Held
    <2> QED BY <1>1, <2>1, <2>2, <2>3
  <1>4. ASSUME NEW x \in Held, x \notin {<<device[n], n>> : n \in gone}
        PROVE  x \in Held'
    <2>1. PICK n \in Minted \ revoked : x = <<device[n], n>>
      BY <1>4 DEF Held
    <2>2. n \notin gone /\ n \in Minted' \ revoked' /\ x = <<device'[n], n>>
      BY <1>1, <1>4, <2>1
    <2> QED BY <2>2 DEF Held
  <1>5. <<d, Len(device) + 1>> \in Held'
    <2>1. Len(device) + 1 \in Minted' \ revoked'
      BY <1>1, <1>2
    <2> QED BY <1>1, <2>1 DEF Held
  <1> QED BY <1>1, <1>3, <1>4, <1>5

\* Every step is a step of Devices or changes nothing there.
LEMMA StepImplements == ASSUME IInv, Next PROVE [DeviceSpec!Next]_(DeviceSpec!vars)
  <1> USE DEF Held
  <1>1. CASE SignIn
    <2>1. Len(device) + 1 \in Pairs
      BY <1>1, ConstantsOK, MintedIsRange DEF SignIn, Pairs, IInv
    <2>2. {} \in SUBSET Minted /\ revoked' = revoked \cup {}
      BY <1>1 DEF SignIn
    <2>3. /\ Len(device)' = Len(device) + 1
          /\ Held' = (Held \ {<<device[n], n>> : n \in {}}) \cup {<<Len(device) + 1, Len(device) + 1>>}
      BY <1>1, <2>1, <2>2, MintedHeld DEF SignIn
    <2>4. DeviceSpec!SignIn
      BY <2>3 DEF DeviceSpec!SignIn
    <2> QED BY <2>4 DEF DeviceSpec!Next
  <1>2. ASSUME NEW s \in Requests, CommitRefresh(s) PROVE [DeviceSpec!Next]_(DeviceSpec!vars)
    <2>1. CASE UNCHANGED <<device, revoked>>
      BY <2>1 DEF DeviceSpec!vars, Minted
    <2>2. CASE ~UNCHANGED <<device, revoked>>
      <3>1. PICK n \in Minted \ revoked :
               /\ Len(device) < MaxPairs
               /\ device' = Append(device, device[n]) /\ revoked' = revoked \cup {n}
        BY <1>2, <2>2, CommitRefreshKeeps
      <3>2. device[n] \in Pairs /\ {n} \in SUBSET Minted
        BY <3>1 DEF IInv, TypeOK, Minted
      <3>3. /\ Len(device)' = Len(device) + 1
            /\ Held' = (Held \ {<<device[m], m>> : m \in {n}}) \cup {<<device[n], Len(device) + 1>>}
        BY <3>1, <3>2, MintedHeld
      <3>4. <<device[n], n>> \in Held
        BY <3>1
      <3>5. DeviceSpec!Rotate
        <4> DEFINE held == <<device[n], n>>
        <4>1. held[1] = device[n] /\ {<<device[m], m>> : m \in {n}} = {held}
          OBVIOUS
        <4>2. Held' = (Held \ {held}) \cup {<<held[1], Len(device) + 1>>}
          BY <3>3, <4>1
        <4>3. held \in Held
          BY <3>4
        <4> HIDE DEF held
        <4> QED BY <3>3, <4>2, <4>3 DEF DeviceSpec!Rotate
      <3> QED BY <3>5 DEF DeviceSpec!Next
    <2> QED BY <2>1, <2>2
  <1>3. ASSUME NEW s \in Requests, CommitEnd(s) PROVE [DeviceSpec!Next]_(DeviceSpec!vars)
    <2>1. UNCHANGED device /\ Grows
      BY <1>3, CommitEndKeeps
    <2>2. Minted' = Minted /\ revoked \subseteq revoked'
      BY <2>1 DEF Minted, Grows, Later
    <2>3. Held' \subseteq Held
      BY <2>1, <2>2
    <2>4. Held' = Held \ (Held \ Held') /\ Held \ Held' \in SUBSET Held
      BY <2>3
    <2>5. DeviceSpec!End
      <3> HIDE DEF Held
      <3>1. Held' = Held \ (Held \ Held') /\ Held \ Held' \in SUBSET Held /\ UNCHANGED Len(device)
        BY <2>1, <2>4
      <3>2. \E gone \in SUBSET Held : Held' = Held \ gone
        BY <3>1
      <3> QED BY <3>1, <3>2 DEF DeviceSpec!End, Held
    <2> QED BY <2>5 DEF DeviceSpec!Next
  <1>4. ASSUME UNCHANGED <<device, revoked>> PROVE [DeviceSpec!Next]_(DeviceSpec!vars)
    BY <1>4 DEF DeviceSpec!vars, Minted
  <1>5. CASE ~SignIn /\ \A s \in Requests : ~CommitRefresh(s) /\ ~CommitEnd(s)
    <2>1. UNCHANGED <<device, revoked>>
      BY <1>5 DEF Next, Lapse, BeginRefresh, BeginLogoutBare, BeginEndOthers, BeginLogout,
         BeginRevoke, BeginEndAll, LockRefresh, LockLogout, Deny, Answer, Abort
    <2> QED BY <1>4, <2>1
  <1> QED BY <1>1, <1>2, <1>3, <1>5

\* A device holds one live pair, each pair is exchanged at most once, and what was
\* signed out stays out.
THEOREM SessionsImplementDevices == Spec => ImplementsDevices
  <1>1. Init => DeviceSpec!Init
    BY DEF Init, Minted, DeviceSpec!Init
  <1>2. IInv /\ [Next]_vars => [DeviceSpec!Next]_(DeviceSpec!vars)
    <2> SUFFICES ASSUME IInv, [Next]_vars PROVE [DeviceSpec!Next]_(DeviceSpec!vars)
      OBVIOUS
    <2>1. CASE UNCHANGED vars
      BY <2>1 DEF vars, Minted, DeviceSpec!vars
    <2>2. CASE Next
      BY <2>2, StepImplements
    <2> QED BY <2>1, <2>2
  <1> QED BY <1>1, <1>2, Invariance, PTL DEF Spec, ImplementsDevices, DeviceSpec!Spec
=============================================================================
