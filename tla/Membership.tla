----------------------------- MODULE Membership -----------------------------
(***************************************************************************)
(* Who is on one project: the rows of project_members, the accounts that   *)
(* claim them, the owners' requests that change them, and the editor       *)
(* sockets that have to close when somebody goes.                          *)
(*                                                                         *)
(* A person stands for an address and the account that has it; accounts    *)
(* never change address.  A request keeps the rows its session read when   *)
(* access was resolved: later lookups by id answer from them.              *)
(***************************************************************************)
EXTENDS Naturals

CONSTANTS People,   \* addresses
          Founder,  \* who created the project
          NoUser,   \* user_id of a row nobody has claimed
          NoRow,    \* an address that is not on the project
          Requests, \* bound: requests in flight at one time
          Roles,    \* the roles in use
          MaxRows   \* bound on the rows ever inserted

Rank == [VIEWER |-> 10, COMMENTER |-> 20, EDITOR |-> 30, OWNER |-> 40]
AtLeast(r, minimum) == Rank[r] >= Rank[minimum]

ASSUME ConstantsOK ==
    /\ Founder \in People
    /\ NoUser \notin People
    /\ Roles \subseteq DOMAIN Rank /\ "OWNER" \in Roles
    /\ MaxRows \in Nat \ {0}
    /\ NoRow \notin [id: Nat, user: People \cup {NoUser}, role: Roles]

Row == [id: 1..MaxRows, user: People \cup {NoUser}, role: Roles]
Table == [People -> Row \cup {NoRow}]

VARIABLES account, \* account[p]: whether it exists and has proved its address
          seat,    \* seat[e]: the row for address e
          rows,    \* how many rows have been inserted
          job,     \* job[s]: a request that changes who is on the project
          sock,    \* sock[p]: an editor socket of p on the project
          crossed  \* history: a request took an owner away while another one was on its way

vars == <<account, seat, rows, job, sock, crossed>>

Idle == [step |-> "idle"]
Job == {Idle} \cup
       [step: {"resolved"}, op: {"invite"}, target: People, role: Roles] \cup
       [step: {"allowed"}, op: {"invite"}, target: People, role: Roles, claimed: BOOLEAN] \cup
       [step: {"resolved", "allowed"}, op: {"change"}, target: People, role: Roles, read: Row] \cup
       [step: {"resolved", "allowed"}, op: {"remove"}, target: People, read: Row] \cup
       [step: {"evict"}, user: People \cup {NoUser}]

TypeOK ==
    /\ account \in [People -> {"none", "unproven", "proven"}]
    /\ seat \in Table
    /\ rows \in 1..MaxRows
    /\ job \in [Requests -> Job]
    /\ sock \in [People -> {"none", "resolved", "open"}]
    /\ crossed \in BOOLEAN

\* create_project: the founder's row is claimed from the start, proved or not.
Init ==
    /\ \E state \in {"unproven", "proven"} :
          account = [p \in People |-> IF p = Founder THEN state ELSE "none"]
    /\ seat = [e \in People |->
                  IF e = Founder THEN [id |-> 1, user |-> Founder, role |-> "OWNER"] ELSE NoRow]
    /\ rows = 1
    /\ job = [s \in Requests |-> Idle]
    /\ sock = [p \in People |-> "none"]
    /\ crossed = FALSE

-----------------------------------------------------------------------------
(* Access. *)

\* Mutant of Match: the address counts whether it is proved or not.
MatchUnproven(p) == {e \in People : seat[e] # NoRow /\ (seat[e].user = p \/ e = p)}

\* The rows that are p's: by user id, or by an address the account has proved.
Match(p) == {e \in People :
                /\ seat[e] # NoRow
                /\ seat[e].user = p \/ (account[p] = "proven" /\ e = p)}

\* find_membership fills in the user id of a row matched by address, and commits.
\* What commits between its SELECT and its UPDATE can only make it fail.
Bound(e, p) ==
    IF seat[e].user = NoUser THEN [seat EXCEPT ![e].user = p] ELSE seat

\* Any request that resolves access and goes on to something else, or is refused.
Visit(p) ==
    /\ account[p] # "none"
    /\ \E e \in Match(p) : seat' = Bound(e, p)
    /\ UNCHANGED <<account, rows, job, sock, crossed>>

-----------------------------------------------------------------------------
(* Changing who is on the project. *)

Go(s, j) == job' = [job EXCEPT ![s] = j]

\* resolve_access for request s of p, by row e. From here the session answers
\* lookups of a row from memory.
Resolve(s, p, e, j) ==
    /\ job[s] = Idle
    /\ account[p] # "none"
    /\ seat' = Bound(e, p)
    /\ Go(s, j)
    /\ UNCHANGED <<account, rows, sock, crossed>>

Owned(p) == {e \in Match(p) : seat[e].role = "OWNER"}

BeginInvite(s, p) ==
    \E e \in Owned(p), t \in People, r \in Roles :
        Resolve(s, p, e, [step |-> "resolved", op |-> "invite", target |-> t, role |-> r])

\* Nobody changes their own role.
BeginChange(s, p) ==
    \E e \in Owned(p), t \in People, r \in Roles :
        LET read == Bound(e, p)[t] IN
        /\ read # NoRow /\ read.user # p
        /\ Resolve(s, p, e, [step |-> "resolved", op |-> "change", target |-> t,
                             role |-> r, read |-> read])

BeginRemove(s, p) ==
    \E e \in Owned(p), t \in People :
        LET read == Bound(e, p)[t] IN
        /\ read # NoRow
        /\ Resolve(s, p, e, [step |-> "resolved", op |-> "remove", target |-> t, read |-> read])

\* From here leaving is removing one's own row.
BeginLeave(s, p) ==
    \E e \in Match(p) :
        Resolve(s, p, e, [step |-> "resolved", op |-> "remove", target |-> e,
                          read |-> Bound(e, p)[e]])

\* An unclaimed row does not count.
Owns(e) == seat[e] # NoRow /\ seat[e].role = "OWNER" /\ seat[e].user # NoUser

\* Does some row other than this one own the project?
AnotherOwner(id) == \E e \in People : Owns(e) /\ seat[e].id # id

UnderWay(s) == job[s].step \in {"resolved", "allowed"} /\ job[s].op \in {"change", "remove"}

\* What becomes of the history when a change or a removal commits.
Watch == crossed' = (crossed \/ (/\ \E e \in People : Owns(e) /\ ~Owns(e)'
                                /\ \E s \in Requests : UnderWay(s)'))

\* After an invitation the request ends, or goes on to the next address of a bulk
\* one without resolving access again.
Further(j) ==
    {Idle} \cup [step: {"resolved"}, op: {"invite"}, target: People, role: {j.role}]

\* Mutant of AllowInvite: the account is not looked at.
AllowInviteUnread(s) ==
    /\ job[s].step = "resolved" /\ job[s].op = "invite"
    /\ IF seat[job[s].target] = NoRow THEN Go(s, [job[s] EXCEPT !.step = "allowed"]) ELSE Go(s, Idle)
    /\ UNCHANGED <<account, seat, rows, sock, crossed>>

\* member_by_email and get_by_email: is the address free, has its account proved it.
AllowInvite(s) ==
    /\ job[s].step = "resolved" /\ job[s].op = "invite"
    /\ LET j == job[s] IN
       IF seat[j.target] = NoRow
       THEN Go(s, [step |-> "allowed", op |-> "invite", target |-> j.target, role |-> j.role,
                   claimed |-> account[j.target] = "proven"])
       ELSE \E next \in Further(j) : Go(s, next)
    /\ UNCHANGED <<account, seat, rows, sock, crossed>>

\* Mutant of AllowChange: only a demotion is looked at, leaving is not.
AllowChangeLeaving(s) ==
    /\ job[s].step = "resolved" /\ job[s].op \in {"change", "remove"}
    /\ LET j == job[s] IN
       IF /\ j.op = "change" /\ j.role # "OWNER"
          /\ j.read.role = "OWNER" /\ ~AnotherOwner(j.read.id)
       THEN Go(s, Idle)
       ELSE Go(s, [j EXCEPT !.step = "allowed"])
    /\ UNCHANGED <<account, seat, rows, sock, crossed>>

\* A row that stops being an owner's needs another owner.
AllowChange(s) ==
    /\ job[s].step = "resolved" /\ job[s].op \in {"change", "remove"}
    /\ LET j == job[s]
           demotes == j.op = "change" => j.role # "OWNER"
       IN
       IF demotes /\ j.read.role = "OWNER" /\ ~AnotherOwner(j.read.id)
       THEN Go(s, Idle)
       ELSE Go(s, [j EXCEPT !.step = "allowed"])
    /\ UNCHANGED <<account, seat, rows, sock, crossed>>

\* The unique constraint refuses a second row for an address, and that ends a bulk
\* invitation.
CommitInvite(s) ==
    /\ job[s].step = "allowed" /\ job[s].op = "invite"
    /\ LET j == job[s] IN
       \/ /\ seat[j.target] = NoRow
          /\ rows < MaxRows
          /\ rows' = rows + 1
          /\ seat' = [seat EXCEPT ![j.target] =
                [id |-> rows + 1, user |-> IF j.claimed THEN j.target ELSE NoUser, role |-> j.role]]
          /\ \E next \in Further(j) : Go(s, next)
       \/ /\ seat[j.target] # NoRow
          /\ UNCHANGED <<rows, seat>>
          /\ Go(s, Idle)
    /\ UNCHANGED <<account, sock, crossed>>

\* Whether the row a request has in memory is still there to be written.
Still(s) ==
    /\ seat[job[s].target] # NoRow
    /\ seat[job[s].target].id = job[s].read.id

\* Only a role that differs from the one in memory is written, and only a step
\* down from the one in memory closes sockets; the refresh in between reads the
\* user id again.
CommitChange(s) ==
    /\ job[s].step = "allowed" /\ job[s].op = "change"
    /\ LET j == job[s]
           was == j.read.role
       IN
       \/ /\ Still(s)
          /\ seat' = IF j.role = was THEN seat ELSE [seat EXCEPT ![j.target].role = j.role]
          /\ IF AtLeast(j.role, was)
             THEN Go(s, Idle)
             ELSE Go(s, [step |-> "evict", user |-> seat[j.target].user])
       \/ /\ ~Still(s)
          /\ UNCHANGED seat
          /\ Go(s, Idle)
    /\ Watch
    /\ UNCHANGED <<account, rows, sock>>

\* Mutant of CommitRemove: the row is deleted by address.
RemoveByAddress(s) ==
    /\ job[s].step = "allowed" /\ job[s].op = "remove"
    /\ seat' = [seat EXCEPT ![job[s].target] = NoRow]
    /\ Go(s, [step |-> "evict", user |-> job[s].read.user])
    /\ Watch
    /\ UNCHANGED <<account, rows, sock>>

\* remove_member and leave_project: delete the row by id, and evict whoever it
\* belonged to when it was read. A row that is gone is no error.
CommitRemove(s) ==
    /\ job[s].step = "allowed" /\ job[s].op = "remove"
    /\ seat' = IF Still(s) THEN [seat EXCEPT ![job[s].target] = NoRow] ELSE seat
    /\ Go(s, [step |-> "evict", user |-> job[s].read.user])
    /\ Watch
    /\ UNCHANGED <<account, rows, sock>>

\* disconnect_user reaches the sockets that are in a room, unless they are another
\* process's and the bus loses the instruction; nobody is closed for a row nobody
\* had claimed.
Evict(s) ==
    /\ job[s].step = "evict"
    /\ \/ UNCHANGED sock
       \/ /\ job[s].user # NoUser
          /\ sock[job[s].user] = "open"
          /\ sock' = [sock EXCEPT ![job[s].user] = "none"]
    /\ Go(s, Idle)
    /\ UNCHANGED <<account, seat, rows, crossed>>

\* A request that fails or is cancelled before it commits.
Abort(s) ==
    /\ job[s].step \in {"resolved", "allowed"}
    /\ Go(s, Idle)
    /\ UNCHANGED <<account, seat, rows, sock, crossed>>

-----------------------------------------------------------------------------
(* Accounts. *)

Register(p) ==
    /\ account[p] = "none"
    /\ account' = [account EXCEPT ![p] = "unproven"]
    /\ UNCHANGED <<seat, rows, job, sock, crossed>>

\* Registering with the invitation, confirming the address or being created by an
\* operator: claim_invites gives the account the row that waits for it.
Prove(p) ==
    /\ account[p] # "proven"
    /\ account' = [account EXCEPT ![p] = "proven"]
    /\ seat' = IF seat[p] # NoRow THEN Bound(p, p) ELSE seat
    /\ UNCHANGED <<rows, job, sock, crossed>>

-----------------------------------------------------------------------------
(* Editor sockets. *)

Connect(p) ==
    /\ sock[p] = "none"
    /\ account[p] # "none"
    /\ \E e \in Match(p) : seat' = Bound(e, p)
    /\ sock' = [sock EXCEPT ![p] = "resolved"]
    /\ UNCHANGED <<account, rows, job, crossed>>

Join(p) ==
    /\ sock[p] = "resolved"
    /\ sock' = [sock EXCEPT ![p] = "open"]
    /\ UNCHANGED <<account, seat, rows, job, crossed>>

\* Mutant of Revalidate: the session and the account are asked, not the seat.
RevalidateAccount(p) ==
    /\ sock[p] = "open"
    /\ sock' = IF account[p] = "none" THEN [sock EXCEPT ![p] = "none"] ELSE sock
    /\ UNCHANGED <<account, seat, rows, job, crossed>>

\* The tick of an open socket resolves access again.
Revalidate(p) ==
    /\ sock[p] = "open"
    /\ \/ /\ Match(p) = {}
          /\ sock' = [sock EXCEPT ![p] = "none"]
          /\ UNCHANGED seat
       \/ /\ \E e \in Match(p) : seat' = Bound(e, p)
          /\ UNCHANGED sock
    /\ UNCHANGED <<account, rows, job, crossed>>

HangUp(p) ==
    /\ sock[p] # "none"
    /\ sock' = [sock EXCEPT ![p] = "none"]
    /\ UNCHANGED <<account, seat, rows, job, crossed>>

-----------------------------------------------------------------------------
Next ==
    \/ \E s \in Requests :
          \/ \E p \in People :
                BeginInvite(s, p) \/ BeginChange(s, p) \/ BeginRemove(s, p) \/ BeginLeave(s, p)
          \/ AllowInvite(s) \/ AllowChange(s)
          \/ CommitInvite(s) \/ CommitChange(s) \/ CommitRemove(s)
          \/ Evict(s) \/ Abort(s)
    \/ \E p \in People :
          \/ Visit(p) \/ Register(p) \/ Prove(p)
          \/ Connect(p) \/ Join(p) \/ Revalidate(p) \/ HangUp(p)

Spec == Init /\ [][Next]_vars

\* A handshake goes on to the room, and an open socket's deadline always comes,
\* however busy the socket is. What this leaves out is a handler that waits in a send
\* to a client that is connected and does not read: it does not come back to its loop.
Fairness == \A p \in People : WF_vars(Join(p)) /\ WF_vars(Revalidate(p))

FairSpec == Spec /\ Fairness
-----------------------------------------------------------------------------
\* A seat is claimed only by the account of its own address, and only when that
\* account has proved the address; the founder's first row is the exception
\* (find_membership, invite_member, claim_invites).
ProvenSeats ==
    \A e \in People : seat[e] # NoRow =>
        /\ seat[e].user \in {NoUser, e}
        /\ seat[e].user = e => account[e] = "proven" \/ seat[e].id = 1

\* The project keeps an owner who has an account, unless one was taken away while
\* another change or removal was on its way (_assert_another_owner_remains).
OwnerRemains == ~crossed => \E e \in People : Owns(e)

\* Only a request that was aimed at a row deletes it: somebody who was removed and
\* invited again is not thrown out by an older removal still on its way
\* (remove_member, leave_project).
RemovalsAreAimed ==
    [][\A e \in People : seat[e] # NoRow /\ seat'[e] = NoRow =>
          \E s \in Requests : /\ job[s].step = "allowed" /\ job'[s].step = "evict"
                              /\ job[s].read.id = seat[e].id]_vars

\* The socket of somebody who is not on the project closes, whatever the evictions
\* missed, unless they are let in again (_still_authorised).
OutsiderSocketCloses ==
    \A p \in People :
        (sock[p] # "none" /\ Match(p) = {}) ~> (sock[p] = "none" \/ Match(p) # {})
=============================================================================
