-------------------------- MODULE MembershipProofs --------------------------
(***************************************************************************)
(* Proofs about Membership for any people, requests, roles and rows:       *)
(* types, that only proven addresses have claimed seats, that a removal    *)
(* deletes the row it was aimed at, that the project keeps an owner, and   *)
(* that a row stays its person's.                                          *)
(***************************************************************************)
EXTENDS Membership, TLAPS

\* ProvenSeats of any table and any accounts.
ProvenIn(table, acc) ==
    \A e \in People : table[e] # NoRow =>
        /\ table[e].user \in {NoUser, e}
        /\ table[e].user = e => acc[e] = "proven" \/ table[e].id = 1

\* What an invitation carries from its look at the account to its commit.
Claims == \A s \in Requests :
    job[s].step = "allowed" /\ job[s].op = "invite" /\ job[s].claimed =>
        account[job[s].target] = "proven"

\* TypeOK without the history.
Types ==
    /\ account \in [People -> {"none", "unproven", "proven"}]
    /\ seat \in Table
    /\ rows \in 1..MaxRows
    /\ job \in [Requests -> Job]
    /\ sock \in [People -> {"none", "resolved", "open"}]

IInv == Types /\ ProvenSeats /\ Claims

\* The same addresses have rows, and the rows their ids.
SameRows(old, new) ==
    \A e \in People : /\ (new[e] = NoRow) = (old[e] = NoRow)
                      /\ old[e] # NoRow => new[e].id = old[e].id

\* A row is there, with fields of their types.
LEMMA RowIsNotNoRow == ASSUME NEW r \in Row PROVE r # NoRow /\ r.id \in 1..MaxRows
                                                  /\ r.user \in People \cup {NoUser} /\ r.role \in Roles
  <1>1. r \in [id: Nat, user: People \cup {NoUser}, role: Roles]
    BY ConstantsOK DEF Row
  <1> QED BY <1>1, ConstantsOK DEF Row

\* Writing the user id of a row that is there.
Claim(table, e, p) == [table EXCEPT ![e].user = p]

\* A claim changes the user of one row and nothing else.
LEMMA BindRow ==
    ASSUME NEW table \in Table, NEW e \in People, table[e] # NoRow, NEW p \in People
    PROVE  /\ Claim(table, e, p) \in Table
           /\ SameRows(table, Claim(table, e, p))
           /\ \A x \in People :
                 Claim(table, e, p)[x] = IF x = e THEN [table[e] EXCEPT !.user = p] ELSE table[x]
  <1>1. table[e] \in Row
    BY DEF Table
  <1>2. [table[e] EXCEPT !.user = p] \in Row /\ [table[e] EXCEPT !.user = p].id = table[e].id
    BY <1>1 DEF Row
  <1>3. \A x \in People :
           Claim(table, e, p)[x] = IF x = e THEN [table[e] EXCEPT !.user = p] ELSE table[x]
    BY DEF Table, Claim
  <1>4. Claim(table, e, p) \in Table
    BY <1>2 DEF Table, Claim
  <1>5. SameRows(table, Claim(table, e, p))
    BY <1>1, <1>2, <1>3, RowIsNotNoRow DEF SameRows
  <1> QED BY <1>3, <1>4, <1>5

\* Binding a row to somebody it matches keeps every seat proven.
LEMMA BoundKeeps ==
    ASSUME IInv, NEW p \in People, NEW e \in Match(p)
    PROVE  /\ Bound(e, p) \in Table
           /\ SameRows(seat, Bound(e, p))
           /\ ProvenIn(Bound(e, p), account)
           /\ Bound(e, p)[e] # NoRow /\ seat[e] # NoRow /\ e \in People
  <1>1. e \in People /\ seat[e] # NoRow /\ seat \in Table
    BY DEF Match, IInv, Types
  <1>2. ProvenIn(seat, account)
    BY DEF IInv, ProvenSeats, ProvenIn
  <1>3. CASE seat[e].user # NoUser
    BY <1>1, <1>2, <1>3 DEF Bound, SameRows
  <1>4. CASE seat[e].user = NoUser
    <2>1. account[p] = "proven" /\ e = p
      BY <1>4, ConstantsOK DEF Match
    <2>2. /\ Bound(e, p) \in Table
          /\ SameRows(seat, Bound(e, p))
          /\ \A x \in People : Bound(e, p)[x] = IF x = e THEN [seat[e] EXCEPT !.user = p] ELSE seat[x]
      <3>1. Bound(e, p) = Claim(seat, e, p)
        BY <1>4 DEF Bound, Claim
      <3> QED BY <1>1, <3>1, BindRow
    <2>3. [seat[e] EXCEPT !.user = p].user = p
      BY <1>1 DEF Table, Row
    <2>4. ProvenIn(Bound(e, p), account)
      BY <1>2, <2>1, <2>2, <2>3 DEF ProvenIn
    <2>5. Bound(e, p)[e] # NoRow
      BY <1>1, <2>2 DEF SameRows
    <2> QED BY <1>1, <2>2, <2>4, <2>5
  <1> QED BY <1>3, <1>4

-----------------------------------------------------------------------------
\* The invariant holds at the start.
LEMMA InitIInv == Init => IInv
  <1> SUFFICES ASSUME Init PROVE IInv
    OBVIOUS
  <1>1. [id |-> 1, user |-> Founder, role |-> "OWNER"] \in Row
    BY ConstantsOK DEF Row
  <1>2. Types
    BY <1>1, ConstantsOK DEF Init, Types, Table, Job
  <1>3. ProvenSeats
    BY DEF Init, ProvenSeats
  <1>4. Claims
    BY DEF Init, Claims, Idle
  <1> QED BY <1>2, <1>3, <1>4 DEF IInv

\* The parts of a next state that do not look at requests.
LEMMA Together ==
    ASSUME account' \in [People -> {"none", "unproven", "proven"}],
           seat' \in Table, ProvenIn(seat', account'),
           rows' \in 1..MaxRows,
           job' \in [Requests -> Job], Claims',
           sock' \in [People -> {"none", "resolved", "open"}]
    PROVE  IInv'
  BY DEF IInv, Types, ProvenSeats, ProvenIn

\* A request whose new job is no invitation about to commit, or a truthful one.
LEMMA GoKeeps ==
    ASSUME IInv, NEW s \in Requests, NEW j \in Job, Go(s, j), UNCHANGED account,
           j.step = "allowed" /\ j.op = "invite" /\ j.claimed => account[j.target] = "proven"
    PROVE  job' \in [Requests -> Job] /\ Claims'
  <1>1. job \in [Requests -> Job] /\ job' = [job EXCEPT ![s] = j]
    BY DEF IInv, Types, Go
  <1>2. \A x \in Requests : job'[x] = IF x = s THEN j ELSE job[x]
    BY <1>1
  <1> QED BY <1>1, <1>2 DEF IInv, Claims

\* A step that leaves requests and accounts alone keeps what requests rely on.
LEMMA NoJobs == ASSUME IInv, UNCHANGED <<job, account>> PROVE job' \in [Requests -> Job] /\ Claims'
  BY DEF IInv, Types, Claims

\* A bulk invitation goes on to a request of the right kind.
LEMMA FurtherIsJob ==
    ASSUME NEW j, j.role \in Roles, NEW next \in Further(j)
    PROVE  next \in Job /\ next.step # "allowed"
  BY DEF Further, Job, Idle

\* resolve_access for a request.
LEMMA ResolveKeeps ==
    ASSUME IInv, NEW s \in Requests, NEW p \in People, NEW e \in Match(p), NEW j \in Job,
           j.step = "resolved", Resolve(s, p, e, j)
    PROVE  IInv' /\ SameRows(seat, seat')
  <1>1. seat' \in Table /\ ProvenIn(seat', account') /\ SameRows(seat, seat')
    BY BoundKeeps DEF Resolve
  <1>2. job' \in [Requests -> Job] /\ Claims'
    BY GoKeeps DEF Resolve
  <1>3. UNCHANGED <<account, rows, sock>>
    BY DEF Resolve
  <1> QED BY <1>1, <1>2, <1>3, Together DEF IInv, Types

\* A request that begins may claim a seat for whoever asks, and does no more.
LEMMA BeginKeeps ==
    ASSUME IInv, NEW s \in Requests, NEW p \in People,
           BeginInvite(s, p) \/ BeginChange(s, p) \/ BeginRemove(s, p) \/ BeginLeave(s, p)
    PROVE  IInv' /\ SameRows(seat, seat')
  <1>1. CASE BeginInvite(s, p)
    <2>1. PICK e \in Owned(p), t \in People, r \in Roles :
            Resolve(s, p, e, [step |-> "resolved", op |-> "invite", target |-> t, role |-> r])
      BY <1>1 DEF BeginInvite
    <2>2. [step |-> "resolved", op |-> "invite", target |-> t, role |-> r] \in Job
      BY DEF Job
    <2> QED BY <2>1, <2>2, ResolveKeeps DEF Owned
  <1>2. CASE BeginChange(s, p)
    <2>1. PICK e \in Owned(p), t \in People, r \in Roles :
            /\ Bound(e, p)[t] # NoRow
            /\ Resolve(s, p, e, [step |-> "resolved", op |-> "change", target |-> t,
                                 role |-> r, read |-> Bound(e, p)[t]])
      BY <1>2 DEF BeginChange
    <2>2. Bound(e, p)[t] \in Row
      BY <2>1, BoundKeeps DEF Table, Owned
    <2>3. [step |-> "resolved", op |-> "change", target |-> t,
           role |-> r, read |-> Bound(e, p)[t]] \in Job
      BY <2>2 DEF Job
    <2> QED BY <2>1, <2>3, ResolveKeeps DEF Owned
  <1>3. CASE BeginRemove(s, p)
    <2>1. PICK e \in Owned(p), t \in People :
            /\ Bound(e, p)[t] # NoRow
            /\ Resolve(s, p, e, [step |-> "resolved", op |-> "remove", target |-> t,
                                 read |-> Bound(e, p)[t]])
      BY <1>3 DEF BeginRemove
    <2>2. Bound(e, p)[t] \in Row
      BY <2>1, BoundKeeps DEF Table, Owned
    <2>3. [step |-> "resolved", op |-> "remove", target |-> t, read |-> Bound(e, p)[t]] \in Job
      BY <2>2 DEF Job
    <2> QED BY <2>1, <2>3, ResolveKeeps DEF Owned
  <1>4. CASE BeginLeave(s, p)
    <2>1. PICK e \in Match(p) :
            Resolve(s, p, e, [step |-> "resolved", op |-> "remove", target |-> e,
                              read |-> Bound(e, p)[e]])
      BY <1>4 DEF BeginLeave
    <2>2. Bound(e, p)[e] \in Row /\ e \in People
      BY BoundKeeps DEF Table
    <2>3. [step |-> "resolved", op |-> "remove", target |-> e, read |-> Bound(e, p)[e]] \in Job
      BY <2>2 DEF Job
    <2> QED BY <2>1, <2>3, ResolveKeeps
  <1> QED BY <1>1, <1>2, <1>3, <1>4

-----------------------------------------------------------------------------
\* The two checks: nothing but the request's own place moves.
LEMMA AllowKeeps ==
    ASSUME IInv, NEW s \in Requests, AllowInvite(s) \/ AllowChange(s)
    PROVE  IInv' /\ UNCHANGED seat
  <1>0. job[s] \in Job /\ Idle \in Job /\ Idle.step = "idle"
    BY DEF IInv, Types, Job, Idle
  <1>1. CASE AllowInvite(s)
    <2>1. job[s].target \in People /\ job[s].role \in Roles
      BY <1>0, <1>1 DEF AllowInvite, Job, Idle
    <2> DEFINE j == [step |-> "allowed", op |-> "invite", target |-> job[s].target,
                     role |-> job[s].role, claimed |-> account[job[s].target] = "proven"]
    <2>2. j \in Job
      BY <2>1 DEF Job
    <2>3. Go(s, j) \/ \E next \in Further(job[s]) : Go(s, next)
      BY <1>1 DEF AllowInvite
    <2>4. job' \in [Requests -> Job] /\ Claims'
      <3>1. CASE Go(s, j)
        BY <1>1, <2>2, <3>1, GoKeeps DEF AllowInvite
      <3>2. CASE \E next \in Further(job[s]) : Go(s, next)
        <4>1. PICK next \in Further(job[s]) : Go(s, next)
          BY <3>2
        <4>2. next \in Job /\ next.step # "allowed"
          BY <2>1, FurtherIsJob
        <4> QED BY <1>1, <4>1, <4>2, GoKeeps DEF AllowInvite
      <3> QED BY <2>3, <3>1, <3>2
    <2> QED BY <1>1, <2>4, Together DEF AllowInvite, IInv, Types, ProvenSeats, ProvenIn
  <1>2. CASE AllowChange(s)
    <2> DEFINE j == [job[s] EXCEPT !.step = "allowed"]
    <2>1. j \in Job /\ j.op # "invite"
      BY <1>0, <1>2 DEF AllowChange, Job, Idle
    <2>2. Go(s, j) \/ Go(s, Idle)
      BY <1>2 DEF AllowChange
    <2>3. job' \in [Requests -> Job] /\ Claims'
      <3>1. CASE Go(s, j)
        <4> HIDE DEF j
        <4> QED BY <1>2, <2>1, <3>1, GoKeeps DEF AllowChange
      <3>2. CASE Go(s, Idle)
        BY <1>0, <1>2, <3>2, GoKeeps DEF AllowChange
      <3> QED BY <2>2, <3>1, <3>2
    <2> QED BY <1>2, <2>3, Together DEF AllowChange, IInv, Types, ProvenSeats, ProvenIn
  <1> QED BY <1>1, <1>2

\* An invitation adds a row at an address that has none.
LEMMA InviteKeeps ==
    ASSUME IInv, NEW s \in Requests, CommitInvite(s)
    PROVE  IInv' /\ \A e \in People : seat[e] # NoRow => seat'[e] = seat[e]
  <1>1. /\ job[s] \in Job /\ job[s].step = "allowed" /\ job[s].op = "invite"
        /\ Idle \in Job /\ Idle.step = "idle"
    BY DEF IInv, Types, Job, Idle, CommitInvite
  <1>2. job[s].target \in People /\ job[s].role \in Roles /\ job[s].claimed \in BOOLEAN
    BY <1>1 DEF Job, Idle
  <1>4. UNCHANGED <<account, sock>>
    BY DEF CommitInvite
  <1>3. job' \in [Requests -> Job] /\ Claims'
    <2>1. PICK next \in Further(job[s]) : Go(s, next)
      BY DEF CommitInvite, Further
    <2>2. next \in Job /\ next.step # "allowed"
      BY <1>2, FurtherIsJob
    <2> QED BY <1>4, <2>1, <2>2, GoKeeps
  <1>5. seat \in Table /\ ProvenIn(seat, account) /\ rows \in 1..MaxRows
    BY DEF IInv, Types, ProvenSeats, ProvenIn
  <1>6. CASE UNCHANGED <<rows, seat>>
    BY <1>3, <1>4, <1>5, <1>6, Together DEF IInv, Types
  <1>7. CASE ~UNCHANGED <<rows, seat>>
    <2> DEFINE t == job[s].target
               row == [id |-> rows + 1, user |-> IF job[s].claimed THEN t ELSE NoUser,
                       role |-> job[s].role]
    <2>1. /\ seat[t] = NoRow /\ rows < MaxRows /\ rows' = rows + 1
          /\ seat' = [seat EXCEPT ![t] = row]
      BY <1>7 DEF CommitInvite
    <2>2. rows' \in 1..MaxRows
      BY <1>5, <2>1, ConstantsOK
    <2>3. row \in Row
      BY <1>2, <1>5, <2>1, <2>2 DEF Row
    <2>4. row.user \in {NoUser, t} /\ (row.user = t => account[t] = "proven")
      <3>1. job[s].claimed => account[t] = "proven"
        BY <1>1 DEF IInv, Claims
      <3>2. t # NoUser
        BY <1>2, ConstantsOK
      <3> QED BY <3>1, <3>2
    <2>5. \A x \in People : seat'[x] = IF x = t THEN row ELSE seat[x]
      BY <1>5, <2>1 DEF Table
    <2>6. seat' \in Table
      <3> HIDE DEF row
      <3> QED BY <1>5, <2>1, <2>3 DEF Table
    <2>7. ProvenIn(seat', account')
      <3> HIDE DEF row
      <3> QED BY <1>4, <1>5, <2>4, <2>5 DEF ProvenIn
    <2>8. \A e \in People : seat[e] # NoRow => seat'[e] = seat[e]
      BY <2>1, <2>5
    <2> QED BY <1>3, <1>4, <2>2, <2>6, <2>7, <2>8, Together DEF IInv, Types
  <1> QED BY <1>6, <1>7

\* A change of role takes no row away.
LEMMA ChangeKeeps ==
    ASSUME IInv, NEW s \in Requests, CommitChange(s)
    PROVE  IInv' /\ \A e \in People : seat[e] # NoRow => seat'[e] # NoRow
  <1>1. /\ job[s] \in Job /\ job[s].step = "allowed" /\ job[s].op = "change"
        /\ Idle \in Job /\ Idle.step = "idle"
    BY DEF IInv, Types, Job, Idle, CommitChange
  <1>2. job[s].target \in People /\ job[s].role \in Roles
    BY <1>1 DEF Job, Idle
  <1>3. seat \in Table /\ ProvenIn(seat, account)
    BY DEF IInv, Types, ProvenSeats, ProvenIn
  <1>4. UNCHANGED <<account, rows, sock>>
    BY DEF CommitChange
  <1> DEFINE t == job[s].target
             out == [step |-> "evict", user |-> seat[t].user]
  <1>5. CASE UNCHANGED seat /\ Go(s, Idle)
    <2>1. job' \in [Requests -> Job] /\ Claims'
      BY <1>1, <1>4, <1>5, GoKeeps
    <2> QED BY <1>3, <1>4, <1>5, <2>1, Together DEF IInv, Types
  <1>6. CASE Still(s) /\ (Go(s, Idle) \/ Go(s, out))
             /\ seat' \in {seat, [seat EXCEPT ![t].role = job[s].role]}
    <2>1. seat[t] \in Row /\ seat[t] # NoRow
      BY <1>2, <1>3, <1>6 DEF Still, Table
    <2>2. out \in Job /\ out.step = "evict"
      BY <2>1 DEF Job, Row
    <2>3. job' \in [Requests -> Job] /\ Claims'
      <3> HIDE DEF out
      <3> QED BY <1>1, <1>4, <1>6, <2>2, GoKeeps
    <2> DEFINE row == [seat[t] EXCEPT !.role = job[s].role]
    <2>4. row \in Row /\ row.id = seat[t].id /\ row.user = seat[t].user /\ row # NoRow
      <3>1. row \in Row /\ row.id = seat[t].id /\ row.user = seat[t].user
        BY <1>2, <2>1 DEF Row
      <3> HIDE DEF row
      <3> QED BY <3>1, RowIsNotNoRow
    <2>5. CASE seat' = seat
      BY <1>3, <1>4, <2>3, <2>5, Together DEF IInv, Types
    <2>6. CASE seat' = [seat EXCEPT ![t].role = job[s].role]
      <3>1. \A x \in People : seat'[x] = IF x = t THEN row ELSE seat[x]
        BY <1>3, <2>6 DEF Table
      <3>2. seat' = [seat EXCEPT ![t] = row]
        BY <2>6
      <3> HIDE DEF row
      <3>3. seat' \in Table
        BY <1>3, <2>4, <3>2 DEF Table
      <3>4. ProvenIn(seat', account')
        BY <1>2, <1>3, <1>4, <2>1, <2>4, <3>1 DEF ProvenIn
      <3>5. \A e \in People : seat[e] # NoRow => seat'[e] # NoRow
        BY <2>4, <3>1
      <3> QED BY <1>4, <2>3, <3>3, <3>4, <3>5, Together DEF IInv, Types
    <2> QED BY <1>6, <2>5, <2>6
  <1> QED BY <1>5, <1>6 DEF CommitChange

\* A removal takes away the row it read, or nothing.
LEMMA RemoveKeeps ==
    ASSUME IInv, NEW s \in Requests, CommitRemove(s)
    PROVE  /\ IInv'
           /\ job[s].step = "allowed" /\ job'[s].step = "evict"
           /\ \A e \in People : seat[e] # NoRow /\ seat'[e] = NoRow => job[s].read.id = seat[e].id
  <1>1. job[s] \in Job /\ job[s].step = "allowed" /\ job[s].op = "remove"
    BY DEF IInv, Types, CommitRemove
  <1>2. job[s].target \in People /\ job[s].read \in Row
    BY <1>1 DEF Job, Idle
  <1>3. seat \in Table /\ ProvenIn(seat, account)
    BY DEF IInv, Types, ProvenSeats, ProvenIn
  <1>4. UNCHANGED <<account, rows, sock>>
    BY DEF CommitRemove
  <1> DEFINE out == [step |-> "evict", user |-> job[s].read.user]
  <1>5. Go(s, out) /\ out \in Job /\ out.step = "evict"
    BY <1>2 DEF CommitRemove, Job, Row
  <1>6. job' \in [Requests -> Job] /\ Claims' /\ job'[s].step = "evict"
    <2>1. job'[s] = out
      BY <1>5 DEF Go, IInv, Types
    <2>2. job' \in [Requests -> Job] /\ Claims'
      <3> HIDE DEF out
      <3> QED BY <1>4, <1>5, GoKeeps
    <2> QED BY <2>1, <2>2
  <1>7. seat' = IF Still(s) THEN [seat EXCEPT ![job[s].target] = NoRow] ELSE seat
    BY DEF CommitRemove
  <1>8. seat' \in Table /\ ProvenIn(seat', account')
    BY <1>2, <1>3, <1>4, <1>7 DEF Table, ProvenIn
  <1>9. \A e \in People : seat[e] # NoRow /\ seat'[e] = NoRow => job[s].read.id = seat[e].id
    BY <1>3, <1>7 DEF Still, Table
  <1> QED BY <1>1, <1>4, <1>6, <1>8, <1>9, Together DEF IInv, Types

\* The end of a request touches no seat.
LEMMA EndKeeps ==
    ASSUME IInv, NEW s \in Requests, Evict(s) \/ Abort(s)
    PROVE  IInv' /\ UNCHANGED seat
  <1>1. Go(s, Idle) /\ UNCHANGED <<account, seat, rows>>
    BY DEF Evict, Abort
  <1>2. Idle \in Job /\ Idle.step = "idle"
    BY DEF Job, Idle
  <1>3. job' \in [Requests -> Job] /\ Claims'
    BY <1>1, <1>2, GoKeeps
  <1>4. sock' \in [People -> {"none", "resolved", "open"}]
    BY DEF Evict, Abort, IInv, Types
  <1> QED BY <1>1, <1>3, <1>4, Together DEF IInv, Types, ProvenSeats, ProvenIn

\* A registration or a confirmation claims seats for the proved address only.
LEMMA AccountKeeps ==
    ASSUME IInv, NEW p \in People, Register(p) \/ Prove(p)
    PROVE  IInv' /\ SameRows(seat, seat')
  <1>1. /\ seat \in Table /\ ProvenIn(seat, account)
        /\ account \in [People -> {"none", "unproven", "proven"}]
    BY DEF IInv, Types, ProvenSeats, ProvenIn
  <1>2. CASE Register(p)
    <2>1. /\ account' = [account EXCEPT ![p] = "unproven"] /\ account[p] = "none"
          /\ UNCHANGED <<seat, rows, job, sock>>
      BY <1>2 DEF Register
    <2>2. \A e \in People : account[e] = "proven" => account'[e] = "proven"
      BY <1>1, <2>1
    <2>3. job' \in [Requests -> Job] /\ Claims'
      <3>1. job \in [Requests -> Job]
        BY DEF IInv, Types
      <3>2. ASSUME NEW s \in Requests, job[s].step = "allowed", job[s].op = "invite"
            PROVE  job[s].target \in People
        BY <3>1, <3>2 DEF Job, Idle
      <3> QED BY <2>1, <2>2, <3>1, <3>2 DEF IInv, Claims
    <2>4. account' \in [People -> {"none", "unproven", "proven"}] /\ ProvenIn(seat', account')
      BY <1>1, <2>1, <2>2 DEF ProvenIn
    <2>5. SameRows(seat, seat')
      BY <2>1 DEF SameRows
    <2> QED BY <1>1, <2>1, <2>3, <2>4, <2>5, Together DEF IInv, Types
  <1>3. CASE Prove(p)
    <2>1. /\ account' = [account EXCEPT ![p] = "proven"]
          /\ seat' = IF seat[p] # NoRow THEN Bound(p, p) ELSE seat
          /\ UNCHANGED <<rows, job, sock>>
      BY <1>3 DEF Prove
    <2>2. \A e \in People : account[e] = "proven" => account'[e] = "proven"
      BY <1>1, <2>1
    <2>3. account'[p] = "proven" /\ account' \in [People -> {"none", "unproven", "proven"}]
      BY <1>1, <2>1
    <2>4. job' \in [Requests -> Job] /\ Claims'
      <3>1. job \in [Requests -> Job]
        BY DEF IInv, Types
      <3>2. ASSUME NEW s \in Requests, job[s].step = "allowed", job[s].op = "invite"
            PROVE  job[s].target \in People
        BY <3>1, <3>2 DEF Job, Idle
      <3> QED BY <2>1, <2>2, <3>1, <3>2 DEF IInv, Claims
    <2>5. ProvenIn(seat, account')
      BY <1>1, <2>2 DEF ProvenIn
    <2>6. CASE seat' = seat
      BY <1>1, <2>1, <2>3, <2>4, <2>5, <2>6, Together DEF SameRows, IInv, Types
    <2>7. CASE seat[p] # NoRow /\ seat' = [seat EXCEPT ![p].user = p]
      <3>1. /\ seat' \in Table /\ SameRows(seat, seat')
            /\ \A x \in People : seat'[x] = IF x = p THEN [seat[p] EXCEPT !.user = p] ELSE seat[x]
        <4>1. seat' = Claim(seat, p, p)
          BY <2>7 DEF Claim
        <4>2. seat[p] # NoRow
          BY <2>7
        <4>3. /\ Claim(seat, p, p) \in Table /\ SameRows(seat, Claim(seat, p, p))
              /\ \A x \in People :
                    Claim(seat, p, p)[x] = IF x = p THEN [seat[p] EXCEPT !.user = p] ELSE seat[x]
          BY <1>1, <4>2, BindRow
        <4> QED BY <4>1, <4>3
      <3>2. [seat[p] EXCEPT !.user = p].user = p
        BY <1>1, <2>7 DEF Table, Row
      <3>3. ProvenIn(seat', account')
        BY <2>3, <2>5, <3>1, <3>2 DEF ProvenIn
      <3> QED BY <2>1, <2>3, <2>4, <3>1, <3>3, Together DEF IInv, Types
    <2> QED BY <2>1, <2>6, <2>7 DEF Bound
  <1> QED BY <1>2, <1>3

\* A socket claims as a request does, and does no more.
LEMMA SocketKeeps ==
    ASSUME IInv, NEW p \in People,
           Visit(p) \/ Connect(p) \/ Join(p) \/ Revalidate(p) \/ HangUp(p)
    PROVE  IInv' /\ SameRows(seat, seat')
  <1>1. UNCHANGED <<account, rows, job>>
    BY DEF Visit, Connect, Join, Revalidate, HangUp
  <1>2. sock' \in [People -> {"none", "resolved", "open"}]
    BY DEF Visit, Connect, Join, Revalidate, HangUp, IInv, Types
  <1>3. seat' \in Table /\ ProvenIn(seat', account) /\ SameRows(seat, seat')
    <2>1. CASE UNCHANGED seat
      BY <2>1 DEF IInv, Types, ProvenSeats, ProvenIn, SameRows
    <2>2. CASE \E e \in Match(p) : seat' = Bound(e, p)
      BY <2>2, BoundKeeps
    <2> QED BY <2>1, <2>2 DEF Visit, Connect, Join, Revalidate, HangUp
  <1> QED BY <1>1, <1>2, <1>3, NoJobs, Together DEF IInv, Types

-----------------------------------------------------------------------------
\* Every step keeps the invariant.
LEMMA NextIInv == IInv /\ [Next]_vars => IInv'
  <1> SUFFICES ASSUME IInv, [Next]_vars PROVE IInv'
    OBVIOUS
  <1>1. CASE UNCHANGED vars
    BY <1>1, NoJobs, Together DEF vars, IInv, Types, ProvenSeats, ProvenIn
  <1>2. CASE Next
    BY <1>2, BeginKeeps, AllowKeeps, InviteKeeps, ChangeKeeps, RemoveKeeps, EndKeeps,
       AccountKeeps, SocketKeeps DEF Next
  <1> QED BY <1>1, <1>2

\* The invariant holds in every reachable state.
THEOREM Invariance == Spec => []IInv
  <1> QED BY InitIInv, NextIInv, PTL DEF Spec

\* The history is a Boolean.
History == crossed \in BOOLEAN

\* What a commit makes of the history is a boolean again.
LEMMA WatchTypes == ASSUME History, Watch PROVE History'
  <1> DEFINE taken == /\ \E e \in People : Owns(e) /\ ~Owns(e)'
                      /\ \E s \in Requests : UnderWay(s)'
  <1>1. CASE taken
    BY <1>1, Zenon DEF Watch, History
  <1>2. CASE ~taken
    BY <1>2, Zenon DEF Watch, History
  <1> QED BY <1>1, <1>2

\* Every step keeps it one.
LEMMA HistoryTyped == Spec => []History
  <1>1. Init => History
    BY Zenon DEF Init, History
  <1>2. History /\ [Next]_vars => History'
    <2> SUFFICES ASSUME History, [Next]_vars PROVE History'
      OBVIOUS
    <2>1. Watch => History'
      BY WatchTypes
    <2>2. ASSUME NEW s \in Requests, CommitChange(s) \/ CommitRemove(s) PROVE Watch
      BY <2>2 DEF CommitChange, CommitRemove
    <2>3. ASSUME NEW s \in Requests,
                 \/ \E p \in People : \/ BeginInvite(s, p) \/ BeginChange(s, p)
                                       \/ BeginRemove(s, p) \/ BeginLeave(s, p)
                 \/ AllowInvite(s) \/ AllowChange(s) \/ CommitInvite(s) \/ Evict(s) \/ Abort(s)
          PROVE  UNCHANGED crossed
      BY <2>3 DEF BeginInvite, BeginChange, BeginRemove, BeginLeave, Resolve, AllowInvite,
                  AllowChange, CommitInvite, Evict, Abort
    <2>4. ASSUME NEW p \in People, \/ Visit(p) \/ Register(p) \/ Prove(p) \/ Connect(p)
                                   \/ Join(p) \/ Revalidate(p) \/ HangUp(p)
          PROVE  UNCHANGED crossed
      BY <2>4 DEF Visit, Register, Prove, Connect, Join, Revalidate, HangUp
    <2>5. UNCHANGED vars => UNCHANGED crossed
      BY DEF vars
    <2>6. UNCHANGED crossed \/ Watch
      BY <2>2, <2>3, <2>4, <2>5 DEF Next
    <2> QED BY <2>1, <2>6 DEF History
  <1> QED BY <1>1, <1>2, PTL DEF Spec

\* Every reachable state is well typed.
THEOREM TypeCorrect == Spec => []TypeOK
  <1>1. IInv /\ History => TypeOK
    BY DEF IInv, Types, TypeOK, History
  <1> QED BY <1>1, Invariance, HistoryTyped, PTL

\* A claimed seat belongs to the account of its own, proven address.
THEOREM ProvenSeatsHold == Spec => []ProvenSeats
  <1>1. IInv => ProvenSeats
    BY DEF IInv
  <1> QED BY <1>1, Invariance, PTL

\* A row goes only by a request that was aimed at that very row.
THEOREM RemovalsAimedHold == Spec => RemovalsAreAimed
  <1> DEFINE Aimed == \A e \in People : seat[e] # NoRow /\ seat'[e] = NoRow =>
                         \E s \in Requests : /\ job[s].step = "allowed" /\ job'[s].step = "evict"
                                             /\ job[s].read.id = seat[e].id
  <1>1. IInv /\ [Next]_vars => [Aimed]_vars
    <2> SUFFICES ASSUME IInv, Next PROVE Aimed
      OBVIOUS
    <2>1. ASSUME NEW s \in Requests, CommitRemove(s) PROVE Aimed
      BY <2>1, RemoveKeeps
    <2>2. ASSUME SameRows(seat, seat') PROVE Aimed
      BY <2>2 DEF SameRows
    <2>3. ASSUME \A e \in People : seat[e] # NoRow => seat'[e] # NoRow PROVE Aimed
      BY <2>3
    <2>4. ASSUME NEW s \in Requests,
                 \/ AllowInvite(s) \/ AllowChange(s) \/ CommitInvite(s)
                 \/ CommitChange(s) \/ Evict(s) \/ Abort(s)
          PROVE  \A e \in People : seat[e] # NoRow => seat'[e] # NoRow
      BY <2>4, AllowKeeps, InviteKeeps, ChangeKeeps, EndKeeps
    <2>5. ASSUME NEW p \in People,
                 \/ \E s \in Requests : \/ BeginInvite(s, p) \/ BeginChange(s, p)
                                        \/ BeginRemove(s, p) \/ BeginLeave(s, p)
                 \/ Visit(p) \/ Register(p) \/ Prove(p)
                 \/ Connect(p) \/ Join(p) \/ Revalidate(p) \/ HangUp(p)
          PROVE  SameRows(seat, seat')
      BY <2>5, BeginKeeps, AccountKeeps, SocketKeeps
    <2> HIDE DEF Aimed
    <2> QED BY <2>1, <2>2, <2>3, <2>4, <2>5 DEF Next
  <1> QED BY <1>1, Invariance, PTL DEF Spec, RemovalsAreAimed

-----------------------------------------------------------------------------
(* The project keeps an owner. *)

\* A row has a number of its own.
Distinct ==
    /\ \A e, f \in People : seat[e] # NoRow /\ seat[f] # NoRow /\ seat[e].id = seat[f].id => e = f
    /\ \A e \in People : seat[e] # NoRow => seat[e].id <= rows

\* The requests that go on only because another row owns the project: they read a row
\* that did not own it, or the owners were counted for them.
RowSafe(j) ==
    \/ j.read.role # "OWNER"
    \/ j.step = "allowed" /\ (j.op = "change" => j.role # "OWNER")

Relies == \A s \in Requests : UnderWay(s) /\ RowSafe(job[s]) => AnotherOwner(job[s].read.id)

Ownership == Distinct /\ History /\ (~crossed => Relies /\ \E e \in People : Owns(e))

\* Whoever owned the project still does, by the same row.
OwnersStay == \A e \in People : Owns(e) => Owns(e)' /\ seat'[e].id = seat[e].id

\* A row that is there has the fields of one.
LEMMA SeatRow == ASSUME IInv, NEW e \in People, seat[e] # NoRow PROVE seat[e] \in Row
  BY DEF IInv, Types, Table

\* Where the owners stay, a row that was not alone is not.
LEMMA AnotherStays ==
    ASSUME OwnersStay, NEW id, AnotherOwner(id) PROVE AnotherOwner(id)'
  BY DEF OwnersStay, AnotherOwner

\* A claim takes nobody's row away.
LEMMA BoundOwners ==
    ASSUME IInv, NEW p \in People, NEW e \in People, seat[e] # NoRow, seat' = Bound(e, p)
    PROVE  OwnersStay /\ SameRows(seat, seat')
  <1>1. seat \in Table /\ p # NoUser
    BY ConstantsOK DEF IInv, Types
  <1>2. CASE seat' = seat
    BY <1>2 DEF OwnersStay, Owns, SameRows
  <1>3. CASE seat' = Claim(seat, e, p)
    <2>1. /\ SameRows(seat, seat')
          /\ \A x \in People : seat'[x] = IF x = e THEN [seat[e] EXCEPT !.user = p] ELSE seat[x]
      BY <1>1, <1>3, BindRow
    <2>2. [seat[e] EXCEPT !.user = p].user = p /\ [seat[e] EXCEPT !.user = p].role = seat[e].role
      BY SeatRow DEF Row
    <2>3. OwnersStay
      BY <1>1, <2>1, <2>2 DEF OwnersStay, Owns, SameRows
    <2> QED BY <2>1, <2>3
  <1> QED BY <1>2, <1>3 DEF Bound, Claim

\* Rows that keep their numbers stay distinct.
LEMMA DistinctKept == ASSUME Distinct, SameRows(seat, seat'), rows' = rows PROVE Distinct'
  BY DEF Distinct, SameRows

\* A step of a request that has nothing to do with a row, or that goes on as it should.
LEMMA RelyingKept ==
    ASSUME IInv, Ownership, Distinct', OwnersStay, UNCHANGED crossed, NEW s \in Requests, NEW j,
           Go(s, j),
           ~crossed /\ j.step \in {"resolved", "allowed"} /\ j.op \in {"change", "remove"}
               /\ RowSafe(j) => AnotherOwner(j.read.id)'
    PROVE  Ownership'
  <1>1. \A x \in Requests : job'[x] = IF x = s THEN j ELSE job[x]
    BY DEF IInv, Types, Go
  <1>2. History'
    BY DEF Ownership, History
  <1>3. ASSUME ~crossed', NEW x \in Requests, UnderWay(x)', RowSafe(job[x])'
        PROVE  AnotherOwner(job[x].read.id)'
    <2>1. CASE x = s
      <3>1. job'[x] = j
        BY <1>1, <2>1
      <3>2. j.step \in {"resolved", "allowed"} /\ j.op \in {"change", "remove"} /\ RowSafe(j)
        BY <1>3, <3>1 DEF UnderWay, RowSafe
      <3>3. AnotherOwner(j.read.id)'
        BY <1>3, <3>2
      <3> QED BY <3>1, <3>3 DEF AnotherOwner
    <2>2. CASE x # s
      <3>1. job'[x] = job[x]
        BY <1>1, <2>2
      <3>2. AnotherOwner(job[x].read.id)
        BY <1>3, <3>1 DEF UnderWay, RowSafe, Ownership, Relies
      <3> QED BY <3>1, <3>2 DEF OwnersStay, AnotherOwner
    <2> QED BY <2>1, <2>2
  <1>4. ~crossed' => \E e \in People : Owns(e)'
    BY DEF Ownership, OwnersStay
  <1> QED BY <1>2, <1>3, <1>4 DEF Ownership, Relies

\* A step that moves no request and takes nobody's row away.
LEMMA QuietOwners ==
    ASSUME Ownership, Distinct', OwnersStay, UNCHANGED <<job, crossed>> PROVE Ownership'
  <1>1. History'
    BY DEF Ownership, History
  <1>2. ~crossed' => Relies'
    BY DEF Ownership, Relies, UnderWay, RowSafe, OwnersStay, AnotherOwner
  <1>3. ~crossed' => \E e \in People : Owns(e)'
    BY DEF Ownership, OwnersStay
  <1> QED BY <1>1, <1>2, <1>3 DEF Ownership

\* Nothing happens to the rows.
LEMMA SameSeats ==
    ASSUME Ownership, UNCHANGED <<seat, rows>> PROVE Distinct' /\ OwnersStay
  <1>1. SameRows(seat, seat')
    BY DEF SameRows
  <1>2. Distinct'
    BY <1>1, DistinctKept DEF Ownership
  <1>3. OwnersStay
    BY DEF OwnersStay, Owns
  <1> QED BY <1>2, <1>3

\* Accounts and sockets.
LEMMA PeopleOwners ==
    ASSUME IInv, Ownership, NEW p \in People,
           \/ Visit(p) \/ Register(p) \/ Prove(p) \/ Connect(p)
           \/ Join(p) \/ Revalidate(p) \/ HangUp(p)
    PROVE  Ownership'
  <1>1. UNCHANGED <<rows, job, crossed>>
    BY DEF Visit, Register, Prove, Connect, Join, Revalidate, HangUp
  <1>2. seat' = seat \/ \E e \in People : seat[e] # NoRow /\ seat' = Bound(e, p)
    BY DEF Visit, Register, Prove, Connect, Join, Revalidate, HangUp, Match
  <1>3. Distinct' /\ OwnersStay
    <2>1. CASE seat' = seat
      BY <1>1, <2>1, SameSeats
    <2>2. ASSUME NEW e \in People, seat[e] # NoRow, seat' = Bound(e, p) PROVE Distinct' /\ OwnersStay
      BY <1>1, <2>2, BoundOwners, DistinctKept DEF Ownership
    <2> QED BY <1>2, <2>1, <2>2
  <1> QED BY <1>1, <1>3, QuietOwners

\* A request that begins with a row that does not own the project, has an owner beside it.
LEMMA ResolveOwners ==
    ASSUME IInv, Ownership, NEW s \in Requests, NEW p \in People, NEW e \in Match(p), NEW j \in Job,
           j.step = "resolved", Resolve(s, p, e, j),
           j.op \in {"change", "remove"} =>
              \E t \in People : Bound(e, p)[t] # NoRow /\ j.read = Bound(e, p)[t]
    PROVE  Ownership'
  <1>1. e \in People /\ seat[e] # NoRow
    BY DEF Match
  <1>2. seat' = Bound(e, p) /\ Go(s, j) /\ UNCHANGED <<rows, crossed>>
    BY DEF Resolve
  <1>3. OwnersStay /\ SameRows(seat, seat') /\ Distinct'
    BY <1>1, <1>2, BoundOwners, DistinctKept DEF Ownership
  <1>4. ASSUME ~crossed, j.op \in {"change", "remove"}, RowSafe(j) PROVE AnotherOwner(j.read.id)'
    <2>1. j.read.role # "OWNER"
      BY <1>4 DEF RowSafe
    <2>2. PICK t \in People : seat'[t] # NoRow /\ j.read = seat'[t]
      BY <1>2, <1>4
    <2>3. PICK o \in People : Owns(o)
      BY <1>4 DEF Ownership
    <2>4. Owns(o)'
      BY <1>3, <2>3 DEF OwnersStay
    <2>5. seat'[o] # NoRow /\ seat'[o].role = "OWNER"
      BY <2>4 DEF Owns
    <2>6. seat'[o].id # seat'[t].id
      BY <1>3, <2>1, <2>2, <2>3, <2>5 DEF Distinct
    <2> QED BY <2>2, <2>3, <2>4, <2>6 DEF AnotherOwner
  <1> QED BY <1>2, <1>3, <1>4, RelyingKept

\* Requests that begin.
LEMMA BeginOwners ==
    ASSUME IInv, Ownership, NEW s \in Requests, NEW p \in People,
           BeginInvite(s, p) \/ BeginChange(s, p) \/ BeginRemove(s, p) \/ BeginLeave(s, p)
    PROVE  Ownership'
  <1>1. CASE BeginInvite(s, p)
    <2>1. PICK e \in Owned(p), t \in People, r \in Roles :
            Resolve(s, p, e, [step |-> "resolved", op |-> "invite", target |-> t, role |-> r])
      BY <1>1 DEF BeginInvite
    <2>2. [step |-> "resolved", op |-> "invite", target |-> t, role |-> r] \in Job
      BY DEF Job
    <2> QED BY <2>1, <2>2, ResolveOwners DEF Owned
  <1>2. CASE BeginChange(s, p)
    <2>1. PICK e \in Owned(p), t \in People, r \in Roles :
            /\ Bound(e, p)[t] # NoRow
            /\ Resolve(s, p, e, [step |-> "resolved", op |-> "change", target |-> t,
                                 role |-> r, read |-> Bound(e, p)[t]])
      BY <1>2 DEF BeginChange
    <2> DEFINE j == [step |-> "resolved", op |-> "change", target |-> t,
                     role |-> r, read |-> Bound(e, p)[t]]
    <2>2. Bound(e, p)[t] \in Row
      BY <2>1, BoundKeeps DEF Table, Owned
    <2>3. j \in Job /\ j.step = "resolved" /\ j.read = Bound(e, p)[t]
      BY <2>2 DEF Job
    <2> HIDE DEF j
    <2> QED BY <2>1, <2>3, ResolveOwners DEF Owned, j
  <1>3. CASE BeginRemove(s, p)
    <2>1. PICK e \in Owned(p), t \in People :
            /\ Bound(e, p)[t] # NoRow
            /\ Resolve(s, p, e, [step |-> "resolved", op |-> "remove", target |-> t,
                                 read |-> Bound(e, p)[t]])
      BY <1>3 DEF BeginRemove
    <2> DEFINE j == [step |-> "resolved", op |-> "remove", target |-> t, read |-> Bound(e, p)[t]]
    <2>2. Bound(e, p)[t] \in Row
      BY <2>1, BoundKeeps DEF Table, Owned
    <2>3. j \in Job /\ j.step = "resolved" /\ j.read = Bound(e, p)[t]
      BY <2>2 DEF Job
    <2> HIDE DEF j
    <2> QED BY <2>1, <2>3, ResolveOwners DEF Owned, j
  <1>4. CASE BeginLeave(s, p)
    <2>1. PICK e \in Match(p) :
            Resolve(s, p, e, [step |-> "resolved", op |-> "remove", target |-> e,
                              read |-> Bound(e, p)[e]])
      BY <1>4 DEF BeginLeave
    <2> DEFINE j == [step |-> "resolved", op |-> "remove", target |-> e, read |-> Bound(e, p)[e]]
    <2>2. Bound(e, p)[e] \in Row /\ Bound(e, p)[e] # NoRow /\ e \in People
      BY BoundKeeps DEF Table
    <2>3. j \in Job /\ j.step = "resolved" /\ j.read = Bound(e, p)[e]
      BY <2>2 DEF Job
    <2> HIDE DEF j
    <2> QED BY <2>1, <2>2, <2>3, ResolveOwners DEF j
  <1> QED BY <1>1, <1>2, <1>3, <1>4

\* The checks: whoever goes on to take an owner's row away has counted another.
LEMMA AllowOwners ==
    ASSUME IInv, Ownership, NEW s \in Requests, AllowInvite(s) \/ AllowChange(s) \/ Evict(s) \/ Abort(s)
    PROVE  Ownership'
  <1>1. UNCHANGED <<seat, rows, crossed>>
    BY DEF AllowInvite, AllowChange, Evict, Abort
  <1>2. Distinct' /\ OwnersStay
    BY <1>1, SameSeats
  <1>3. ASSUME NEW j, Go(s, j), j.step = "idle" \/ j.op = "invite" PROVE Ownership'
    BY <1>1, <1>2, <1>3, RelyingKept
  <1>4. CASE AllowInvite(s)
    <2>1. PICK j : Go(s, j) /\ (j.step = "idle" \/ j.op = "invite")
      BY <1>4 DEF AllowInvite, Further, Idle
    <2> QED BY <1>3, <2>1
  <1>5. CASE Evict(s) \/ Abort(s)
    BY <1>3, <1>5 DEF Evict, Abort, Idle
  <1>6. CASE AllowChange(s)
    <2> DEFINE j == [job[s] EXCEPT !.step = "allowed"]
    <2>1. job[s] \in Job /\ job[s].step = "resolved" /\ job[s].op \in {"change", "remove"}
      BY <1>6 DEF AllowChange, IInv, Types
    <2>2. /\ j.step = "allowed" /\ j.op = job[s].op /\ j.read = job[s].read
          /\ j.op = "change" => j.role = job[s].role
      BY <2>1 DEF Job, Idle
    <2>3. UnderWay(s)
      BY <2>1 DEF UnderWay
    <2>4. CASE Go(s, Idle)
      BY <1>3, <2>4 DEF Idle
    <2>5. CASE Go(s, j) /\ ~(/\ job[s].op = "change" => job[s].role # "OWNER"
                             /\ job[s].read.role = "OWNER" /\ ~AnotherOwner(job[s].read.id))
      <3> HIDE DEF j
      <3>1. PICK k : k = j
        OBVIOUS
      <3>2. /\ Go(s, k)
            /\ k.read = job[s].read /\ k.step = "allowed" /\ k.op = job[s].op
            /\ k.op = "change" => k.role = job[s].role
        BY <2>2, <2>5, <3>1
      <3>3. ASSUME ~crossed, RowSafe(k) PROVE AnotherOwner(k.read.id)'
        <4>1. CASE job[s].read.role # "OWNER"
          <5>1. AnotherOwner(job[s].read.id)
            BY <2>3, <3>3, <4>1 DEF Ownership, Relies, RowSafe
          <5> QED BY <1>2, <3>2, <5>1, AnotherStays
        <4>2. CASE job[s].read.role = "OWNER"
          <5>1. AnotherOwner(k.read.id)
            BY <2>5, <3>2, <3>3, <4>2 DEF RowSafe
          <5> QED BY <1>2, <5>1, AnotherStays
        <4> QED BY <4>1, <4>2
      <3> HIDE DEF Go
      <3> QED BY <1>1, <1>2, <3>2, <3>3, RelyingKept
    <2> QED BY <1>6, <2>4, <2>5 DEF AllowChange
  <1> QED BY <1>4, <1>5, <1>6

\* An invitation adds a row with a number nobody has had.
LEMMA InviteOwners ==
    ASSUME IInv, Ownership, NEW s \in Requests, CommitInvite(s)
    PROVE  Ownership'
  <1>1. job[s] \in Job /\ job[s].step = "allowed" /\ job[s].op = "invite"
    BY DEF IInv, Types, CommitInvite
  <1>2. job[s].target \in People /\ seat \in Table /\ rows \in Nat /\ UNCHANGED crossed
    BY <1>1 DEF Job, Idle, IInv, Types, CommitInvite
  <1>3. PICK j : Go(s, j) /\ (j.step = "idle" \/ j.op = "invite")
    BY DEF CommitInvite, Further, Idle
  <1>4. ASSUME Distinct', OwnersStay PROVE Ownership'
    BY <1>2, <1>3, <1>4, RelyingKept
  <1>5. CASE UNCHANGED <<rows, seat>>
    BY <1>4, <1>5, SameSeats
  <1>6. CASE seat[job[s].target] = NoRow /\ rows' = rows + 1 /\ ~UNCHANGED <<rows, seat>>
    <2>1. PICK row : seat' = [seat EXCEPT ![job[s].target] = row] /\ row.id = rows + 1
      BY <1>6 DEF CommitInvite
    <2>2. \A e \in People : seat'[e] = IF e = job[s].target THEN row ELSE seat[e]
      BY <1>2, <2>1 DEF Table
    <2>3. OwnersStay
      BY <1>6, <2>2 DEF OwnersStay, Owns
    <2>4. \A e \in People : seat[e] # NoRow => seat[e].id \in Nat /\ seat[e].id <= rows
      BY SeatRow DEF Row, Ownership, Distinct
    <2>5. \A e \in People : seat'[e] # NoRow => seat'[e].id <= rows'
      BY <1>2, <1>6, <2>1, <2>2, <2>4
    <2>6. ASSUME NEW e \in People, NEW f \in People, seat'[e] # NoRow, seat'[f] # NoRow,
                 seat'[e].id = seat'[f].id
          PROVE  e = f
      <3>1. CASE e = job[s].target /\ f # job[s].target
        BY <1>2, <2>1, <2>2, <2>4, <2>6, <3>1
      <3>2. CASE f = job[s].target /\ e # job[s].target
        BY <1>2, <2>1, <2>2, <2>4, <2>6, <3>2
      <3>3. CASE e # job[s].target /\ f # job[s].target
        BY <2>2, <2>6, <3>3 DEF Ownership, Distinct
      <3> QED BY <3>1, <3>2, <3>3
    <2> QED BY <1>4, <2>3, <2>5, <2>6 DEF Distinct
  <1> QED BY <1>5, <1>6 DEF CommitInvite

\* What a change or a removal does to the rows: it writes the one it was aimed at, if
\* that is still there, and not to make it an owner's.
Aims(j) ==
    /\ \A e \in People : seat'[e] # NoRow => seat[e] # NoRow /\ seat'[e].id = seat[e].id
    /\ \A e \in People : seat'[e] # seat[e] => seat[e].id = j.read.id
    /\ \A e \in People : Owns(e) /\ ~Owns(e)' => RowSafe(j)

\* A change writes the role of the row it read.
LEMMA ChangeAims ==
    ASSUME IInv, NEW s \in Requests, CommitChange(s)
    PROVE  Aims(job[s]) /\ \E k : Go(s, k) /\ k.step \in {"idle", "evict"}
  <1>1. /\ job[s] \in Job /\ job[s].step = "allowed" /\ job[s].op = "change"
        /\ seat \in Table
    BY DEF IInv, Types, CommitChange
  <1>2. job[s].target \in People /\ job[s].role \in Roles
    BY <1>1 DEF Job, Idle
  <1>3. \E k : Go(s, k) /\ k.step \in {"idle", "evict"}
    BY DEF CommitChange, Idle
  <1>4. CASE UNCHANGED seat
    BY <1>3, <1>4 DEF Aims, Owns
  <1>5. CASE Still(s) /\ seat' = [seat EXCEPT ![job[s].target].role = job[s].role]
    <2> DEFINE row == [seat[job[s].target] EXCEPT !.role = job[s].role]
    <2>1. /\ seat[job[s].target] # NoRow /\ seat[job[s].target].id = job[s].read.id
          /\ seat[job[s].target] \in Row
      BY <1>2, <1>5, SeatRow DEF Still
    <2>2. /\ row \in Row /\ row.id = seat[job[s].target].id
          /\ row.user = seat[job[s].target].user /\ row.role = job[s].role
      BY <1>2, <2>1 DEF Row
    <2>3. \A x \in People : seat'[x] = IF x = job[s].target THEN row ELSE seat[x]
      BY <1>1, <1>5 DEF Table
    <2> HIDE DEF row
    <2>4. row # NoRow
      BY <2>2, RowIsNotNoRow
    <2>5. ASSUME NEW e \in People, Owns(e), ~Owns(e)' PROVE RowSafe(job[s])
      <3>1. job[s].role # "OWNER"
        BY <2>2, <2>3, <2>4, <2>5 DEF Owns
      <3> QED BY <1>1, <3>1 DEF RowSafe
    <2> QED BY <1>3, <2>1, <2>2, <2>3, <2>4, <2>5 DEF Aims
  <1> QED BY <1>3, <1>4, <1>5 DEF CommitChange

\* A removal deletes the row it read.
LEMMA RemoveAims ==
    ASSUME IInv, NEW s \in Requests, CommitRemove(s)
    PROVE  Aims(job[s]) /\ \E k : Go(s, k) /\ k.step \in {"idle", "evict"}
  <1>1. job[s].step = "allowed" /\ job[s].op = "remove" /\ seat \in Table
    BY DEF IInv, Types, CommitRemove
  <1>2. RowSafe(job[s])
    BY <1>1 DEF RowSafe
  <1>3. \A e \in People :
           seat'[e] = IF Still(s) /\ e = job[s].target THEN NoRow ELSE seat[e]
    BY <1>1 DEF CommitRemove, Table
  <1>4. \E k : Go(s, k) /\ k.step \in {"idle", "evict"}
    BY DEF CommitRemove
  <1> QED BY <1>2, <1>3, <1>4 DEF Aims, Still

\* A commit that takes an owner's row away leaves the one it counted, unless the history
\* says that another commit may have taken that.
LEMMA CommitOwners ==
    ASSUME IInv, Ownership, NEW s \in Requests, CommitChange(s) \/ CommitRemove(s)
    PROVE  Ownership'
  <1>1. Aims(job[s]) /\ \E k : Go(s, k) /\ k.step \in {"idle", "evict"}
    BY ChangeAims, RemoveAims
  <1>2. UnderWay(s) /\ Watch /\ UNCHANGED rows
    BY DEF CommitChange, CommitRemove, UnderWay
  <1>3. Distinct'
    BY <1>1, <1>2 DEF Aims, Ownership, Distinct
  <1>4. CASE \A e \in People : Owns(e) => Owns(e)'
    <2>1. OwnersStay
      BY <1>1, <1>4 DEF Aims, OwnersStay, Owns
    <2>2. UNCHANGED crossed
      BY <1>2, <1>4 DEF Watch, Ownership, History
    <2>3. PICK k : Go(s, k) /\ k.step \in {"idle", "evict"}
      BY <1>1
    <2> QED BY <1>3, <2>1, <2>2, <2>3, RelyingKept
  <1>5. ASSUME NEW e \in People, Owns(e), ~Owns(e)' PROVE Ownership'
    <2>1. History'
      BY <1>2, WatchTypes DEF Ownership
    <2>2. ~crossed' => ~crossed /\ \A x \in Requests : ~UnderWay(x)'
      BY <1>2, <1>5 DEF Watch
    <2>3. ~crossed' => Relies'
      BY <2>2 DEF Relies
    <2>4. ASSUME ~crossed PROVE \E o \in People : Owns(o)'
      <3>1. PICK o \in People : Owns(o) /\ seat[o].id # job[s].read.id
        BY <1>1, <1>2, <1>5, <2>4 DEF Aims, Ownership, Relies, AnotherOwner
      <3>2. seat'[o] = seat[o]
        BY <1>1, <3>1 DEF Aims
      <3> QED BY <3>1, <3>2 DEF Owns
    <2> QED BY <1>3, <2>1, <2>2, <2>3, <2>4 DEF Ownership
  <1> QED BY <1>4, <1>5

\* The founder owns the project at the start.
LEMMA InitOwnership == Init => Ownership
  <1> SUFFICES ASSUME Init PROVE Ownership
    OBVIOUS
  <1>1. Founder \in People /\ Founder # NoUser
    BY ConstantsOK
  <1>2. [id |-> 1, user |-> Founder, role |-> "OWNER"] \in Row
    BY <1>1, ConstantsOK DEF Row
  <1>3. seat[Founder] = [id |-> 1, user |-> Founder, role |-> "OWNER"] /\ seat[Founder] # NoRow
    BY <1>1, <1>2, RowIsNotNoRow DEF Init
  <1>4. \A e \in People : seat[e] # NoRow => e = Founder
    BY DEF Init
  <1>5. Distinct
    BY <1>3, <1>4 DEF Distinct, Init
  <1>6. Owns(Founder)
    BY <1>1, <1>3 DEF Owns
  <1>7. Relies
    BY DEF Init, Relies, UnderWay, Idle
  <1>8. History
    BY Zenon DEF Init, History
  <1> QED BY <1>1, <1>5, <1>6, <1>7, <1>8 DEF Ownership

\* Every step keeps the owners' invariant.
LEMMA NextOwnership == IInv /\ Ownership /\ [Next]_vars => Ownership'
  <1> SUFFICES ASSUME IInv, Ownership, [Next]_vars PROVE Ownership'
    OBVIOUS
  <1>1. CASE UNCHANGED vars
    BY <1>1, SameSeats, QuietOwners DEF vars
  <1>2. CASE Next
    BY <1>2, PeopleOwners, BeginOwners, AllowOwners, InviteOwners, CommitOwners DEF Next
  <1> QED BY <1>1, <1>2

\* The project keeps an owner, unless one was taken away while another change or removal
\* was on its way.
THEOREM OwnerRemainsHolds == Spec => []OwnerRemains
  <1>1. Ownership => OwnerRemains
    BY DEF Ownership, OwnerRemains
  <1> QED BY <1>1, Invariance, InitOwnership, NextOwnership, PTL DEF Spec

-----------------------------------------------------------------------------
(* A row is its person's until it is deleted. *)

\* A step replaces no row by another, takes no claimed row from its person, and gives a
\* new row a number no row has had.
KeepsRows ==
    \A e \in People : seat'[e] # NoRow =>
        IF seat[e] = NoRow THEN seat'[e].id > rows
        ELSE /\ seat'[e].id = seat[e].id
             /\ seat[e].user # NoUser => seat'[e].user = seat[e].user

\* A claim takes only a row that nobody has.
LEMMA BoundRows ==
    ASSUME IInv, NEW p \in People, NEW e \in People, seat[e] # NoRow, seat' = Bound(e, p)
    PROVE  KeepsRows
  <1>1. seat \in Table
    BY DEF IInv, Types
  <1>2. CASE seat' = seat
    BY <1>2 DEF KeepsRows
  <1>3. CASE seat' = Claim(seat, e, p) /\ seat[e].user = NoUser
    <2>1. /\ SameRows(seat, seat')
          /\ \A x \in People : seat'[x] = IF x = e THEN [seat[e] EXCEPT !.user = p] ELSE seat[x]
      BY <1>1, <1>3, BindRow
    <2> QED BY <1>3, <2>1 DEF KeepsRows, SameRows
  <1> QED BY <1>2, <1>3 DEF Bound, Claim

\* The commits of invitations, changes and removals.
LEMMA CommitRows ==
    ASSUME IInv, NEW s \in Requests, CommitInvite(s) \/ CommitChange(s) \/ CommitRemove(s)
    PROVE  KeepsRows
  <1>1. seat \in Table /\ rows \in Nat /\ job[s] \in Job
    BY DEF IInv, Types
  <1>2. CASE seat' = seat
    BY <1>2 DEF KeepsRows
  <1>3. CASE CommitInvite(s) /\ seat' # seat
    <2>1. PICK row : seat' = [seat EXCEPT ![job[s].target] = row] /\ row.id = rows + 1
      BY <1>3 DEF CommitInvite
    <2>2. \A e \in People : seat'[e] = IF e = job[s].target THEN row ELSE seat[e]
      BY <1>1, <2>1 DEF Table
    <2>3. seat[job[s].target] = NoRow
      BY <1>3 DEF CommitInvite
    <2> QED BY <1>1, <2>1, <2>2, <2>3 DEF KeepsRows
  <1>4. CASE CommitChange(s) /\ seat' # seat
    <2>1. seat' = [seat EXCEPT ![job[s].target].role = job[s].role] /\ Still(s)
      BY <1>4 DEF CommitChange
    <2>2. job[s].target \in People
      BY <1>1, <1>4 DEF Job, Idle, CommitChange
    <2>3. seat[job[s].target] \in Row
      BY <2>1, <2>2, SeatRow DEF Still
    <2> DEFINE row == [seat[job[s].target] EXCEPT !.role = job[s].role]
    <2>4. row.id = seat[job[s].target].id /\ row.user = seat[job[s].target].user
      BY <2>3 DEF Row
    <2>5. \A x \in People : seat'[x] = IF x = job[s].target THEN row ELSE seat[x]
      BY <1>1, <2>1 DEF Table
    <2> HIDE DEF row
    <2> QED BY <2>1, <2>4, <2>5 DEF KeepsRows, Still
  <1>5. CASE CommitRemove(s)
    <2>1. \A e \in People : seat'[e] \in {NoRow, seat[e]}
      BY <1>1, <1>5 DEF CommitRemove, Table
    <2> QED BY <2>1 DEF KeepsRows
  <1> QED BY <1>2, <1>3, <1>4, <1>5

\* Requests that begin, are checked or end claim a row or leave the rows alone.
LEMMA RequestRows ==
    ASSUME IInv, NEW s \in Requests,
           \/ \E p \in People :
                 BeginInvite(s, p) \/ BeginChange(s, p) \/ BeginRemove(s, p) \/ BeginLeave(s, p)
           \/ AllowInvite(s) \/ AllowChange(s) \/ Evict(s) \/ Abort(s)
    PROVE  KeepsRows
  <1>1. CASE AllowInvite(s) \/ AllowChange(s) \/ Evict(s) \/ Abort(s)
    BY <1>1 DEF AllowInvite, AllowChange, Evict, Abort, KeepsRows
  <1>2. ASSUME NEW p \in People,
               BeginInvite(s, p) \/ BeginChange(s, p) \/ BeginRemove(s, p) \/ BeginLeave(s, p)
        PROVE  KeepsRows
    <2>1. PICK e \in Match(p) : seat' = Bound(e, p)
      BY <1>2 DEF BeginInvite, BeginChange, BeginRemove, BeginLeave, Resolve, Owned
    <2>2. e \in People /\ seat[e] # NoRow
      BY <2>1 DEF Match
    <2> QED BY <2>1, <2>2, BoundRows
  <1> QED BY <1>1, <1>2

\* So do accounts and sockets.
LEMMA PeopleRows ==
    ASSUME IInv, NEW p \in People,
           \/ Visit(p) \/ Register(p) \/ Prove(p) \/ Connect(p)
           \/ Join(p) \/ Revalidate(p) \/ HangUp(p)
    PROVE  KeepsRows
  <1>1. seat' = seat \/ \E e \in People : seat[e] # NoRow /\ seat' = Bound(e, p)
    BY DEF Visit, Register, Prove, Connect, Join, Revalidate, HangUp, Match
  <1>2. CASE seat' = seat
    BY <1>2 DEF KeepsRows
  <1> QED BY <1>1, <1>2, BoundRows

\* A row stays the row of its person as long as it is there, and a row that comes after
\* it is a new one (find_membership, invite_member, update_member_role).
THEOREM RowsAreKept == Spec => [][KeepsRows]_vars
  <1>1. IInv /\ [Next]_vars => [KeepsRows]_vars
    <2>1. IInv /\ Next => KeepsRows
      BY CommitRows, RequestRows, PeopleRows DEF Next
    <2> QED BY <2>1
  <1> QED BY <1>1, Invariance, PTL DEF Spec
=============================================================================
