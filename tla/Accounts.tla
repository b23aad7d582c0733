------------------------------ MODULE Accounts ------------------------------
(***************************************************************************)
(* The accounts of the platform and the operators who create, promote,     *)
(* switch off and delete them, or delete a project; and the sign-ins and   *)
(* editor sockets that have to end with it.  Everybody is on the project.  *)
(*                                                                         *)
(* A request reads the rows it decides on and writes at its commit, under  *)
(* READ COMMITTED and without a lock; the ORM writes only the columns      *)
(* whose value differs from the one it read.                               *)
(***************************************************************************)
EXTENDS Naturals

CONSTANTS Accounts, \* addresses
          Founders, \* the accounts the seed made, with is_superuser
          Editors,  \* bound: the accounts that open the project
          None,     \* an address without an account
          Requests  \* bound: requests in flight at one time

Roles == {"member", "admin", "superadmin"}
Row == [role: Roles, active: BOOLEAN, gone: BOOLEAN]

ASSUME ConstantsOK == Founders \cup Editors \subseteq Accounts /\ None \notin Row

VARIABLES row,    \* row[u]: the users row of u
          shut,   \* the project is deleted
          signed, \* who has a sign-in that is not over
          sock,   \* sock[u]: an editor socket of u
          job     \* job[s]: an operator's request

vars == <<row, shut, signed, sock, job>>

Idle == [step |-> "idle"]
Pending ==
    [step: {"ready"}, op: {"create"}, super: BOOLEAN, quiet: BOOLEAN, target: Accounts, new: Row] \cup
    [step: {"ready"}, op: {"write"}, super: BOOLEAN, quiet: BOOLEAN, target: Accounts,
     read: Row, new: Row, ends: BOOLEAN] \cup
    [step: {"ready"}, op: {"shut"}, super: {TRUE}, quiet: BOOLEAN]
Job == {Idle} \cup Pending \cup
       [step: {"ending"}, target: Accounts] \cup
       [step: {"closing"}, who: SUBSET Editors]

TypeOK ==
    /\ row \in [Accounts -> Row \cup {None}]
    /\ shut \in BOOLEAN
    /\ signed \subseteq {u \in Accounts : row[u] # None}
    /\ sock \in [Editors -> {"none", "asked", "open"}]
    /\ job \in [Requests -> Job]

\* seed_superadmin.
Init ==
    /\ row = [u \in Accounts |->
                 IF u \in Founders THEN [role |-> "superadmin", active |-> TRUE, gone |-> FALSE]
                 ELSE None]
    /\ shut = FALSE
    /\ signed = {} /\ sock = [u \in Editors |-> "none"]
    /\ job = [s \in Requests |-> Idle]

-----------------------------------------------------------------------------
\* _resolve_user and _load_active_user.
Usable(u) == row[u] # None /\ row[u].active /\ ~row[u].gone

\* The power of an account with row r.
Super(u, r) == u \in Founders \/ r.role = "superadmin"
Privileged(u, r) == Super(u, r) \/ r.role = "admin"

Supers == {u \in Accounts : Usable(u) /\ Super(u, row[u])}

\* Mutant of MayManage: only the role that is granted is looked at.
MayManageAny(actor, target) == TRUE

\* Mutant of MayManage: the founder's flag is not looked at.
MayManageRole(actor, target) ==
    \/ target = actor
    \/ row[target].role # "member" => Super(actor, row[actor])

\* _assert_may_manage.
MayManage(actor, target) ==
    \/ target = actor
    \/ Privileged(target, row[target]) => Super(actor, row[actor])

\* _assert_may_set_role.
MayGrant(actor, role) == role # "member" => Super(actor, row[actor])

\* _assert_another_superadmin_remains: counted without a lock.
AnotherRemains(target) == Supers \ {target} # {}

\* Does update_user take a superadmin away? A founder's flag is not looked at.
Removes(read, new) ==
    /\ read.role = "superadmin"
    /\ new.role # "superadmin" \/ (read.active /\ ~new.active)

-----------------------------------------------------------------------------
(* The operator's requests. *)

Go(s, j) == job' = [job EXCEPT ![s] = j]

Begin(s, j) ==
    /\ Go(s, j)
    /\ UNCHANGED <<row, shut, signed, sock>>

\* get_current_admin, from the row and not from the token.
Operator(s, actor) ==
    job[s] = Idle /\ actor \in signed /\ Usable(actor) /\ Privileged(actor, row[actor])

BeginCreate(s, actor, target, role) ==
    /\ Operator(s, actor)
    /\ row[target] = None
    /\ MayGrant(actor, role)
    /\ Begin(s, [step |-> "ready", op |-> "create", super |-> Super(actor, row[actor]),
                 quiet |-> TRUE, target |-> target,
                 new |-> [role |-> role, active |-> TRUE, gone |-> FALSE]])

\* A request that read the target's row, and writes new over it; whether it goes on to
\* end the sign-ins.
BeginWrite(s, actor, target, new, ends) ==
    /\ MayManage(actor, target)
    /\ Begin(s, [step |-> "ready", op |-> "write", super |-> Super(actor, row[actor]),
                 quiet |-> TRUE, target |-> target, read |-> row[target], new |-> new,
                 ends |-> ends])

\* _load.
Loaded(target) == row[target] # None /\ ~row[target].gone

\* update_user, with a role, with is_active or with both. It ends the sign-ins when
\* is_active is given as false, whatever it was.
BeginUpdate(s, actor, target, role, given) ==
    /\ Operator(s, actor) /\ Loaded(target)
    /\ LET read == row[target]
           new == [read EXCEPT !.role = role, !.active = IF given \in BOOLEAN THEN given ELSE @]
       IN
       /\ new # read \/ given = FALSE
       /\ target # actor
       /\ role # read.role => MayGrant(actor, role)
       /\ Removes(read, new) => AnotherRemains(target)
       /\ BeginWrite(s, actor, target, new, given = FALSE)

\* delete_user, and its route's get_current_superadmin.
BeginDelete(s, actor, target) ==
    /\ Operator(s, actor) /\ Super(actor, row[actor]) /\ Loaded(target)
    /\ target # actor
    /\ Super(target, row[target]) => AnotherRemains(target)
    /\ BeginWrite(s, actor, target, [row[target] EXCEPT !.active = FALSE, !.gone = TRUE], TRUE)

Shutting(actor) ==
    [step |-> "ready", op |-> "shut", super |-> Super(actor, row[actor]), quiet |-> TRUE]

\* Mutant of BeginShut: the route takes any administrator.
BeginShutAny(s, actor) == Operator(s, actor) /\ ~shut /\ Begin(s, Shutting(actor))

\* delete_project, and its route's get_current_superadmin.
BeginShut(s, actor) ==
    /\ Operator(s, actor) /\ Super(actor, row[actor])
    /\ ~shut
    /\ Begin(s, Shutting(actor))

\* What an UPDATE leaves in a column: the new value, unless that is the one read.
Merged(now, read, new) == IF new = read THEN now ELSE new

Written(now, read, new) ==
    [role |-> Merged(now.role, read.role, new.role),
     active |-> Merged(now.active, read.active, new.active),
     gone |-> Merged(now.gone, read.gone, new.gone)]

\* The step after the commit. The others have been overlapped.
Committed(s, j) ==
    job' = [x \in Requests |-> IF x = s THEN j
                               ELSE IF job[x].step = "ready" THEN [job[x] EXCEPT !.quiet = FALSE]
                               ELSE job[x]]

\* The unique index on the address fails the second account.
CommitCreate(s) ==
    /\ job[s].step = "ready" /\ job[s].op = "create"
    /\ row[job[s].target] = None
    /\ row' = [row EXCEPT ![job[s].target] = job[s].new]
    /\ Committed(s, Idle)
    /\ UNCHANGED <<shut, signed, sock>>

CommitWrite(s) ==
    /\ job[s].step = "ready" /\ job[s].op = "write"
    /\ LET j == job[s] IN
       /\ row' = [row EXCEPT ![j.target] = Written(row[j.target], j.read, j.new)]
       /\ Committed(s, IF j.ends THEN [step |-> "ending", target |-> j.target] ELSE Idle)
    /\ UNCHANGED <<shut, signed, sock>>

CommitShut(s) ==
    /\ job[s].step = "ready" /\ job[s].op = "shut"
    /\ shut' = TRUE
    /\ Committed(s, [step |-> "closing", who |-> Editors])
    /\ UNCHANGED <<row, signed, sock>>

\* logout_everywhere, in a transaction of its own.
EndSessions(s) ==
    /\ job[s].step = "ending"
    /\ signed' = signed \ {job[s].target}
    /\ Go(s, [step |-> "closing", who |-> {job[s].target} \cap Editors])
    /\ UNCHANGED <<row, shut, sock>>

\* _close_all_sockets: the sockets that are in the room.
CloseSockets(s) ==
    /\ job[s].step = "closing"
    /\ sock' = [u \in Editors |->
                   IF u \in job[s].who /\ sock[u] = "open" THEN "none" ELSE sock[u]]
    /\ Go(s, Idle)
    /\ UNCHANGED <<row, shut, signed>>

\* The server stops, or the transaction is refused.
Die(s) ==
    /\ job[s] # Idle
    /\ Go(s, Idle)
    /\ UNCHANGED <<row, shut, signed, sock>>

-----------------------------------------------------------------------------
(* The accounts. *)

\* register: a member, whose address somebody may be creating at the moment.
Register(u) ==
    /\ row[u] = None
    /\ row' = [row EXCEPT ![u] = [role |-> "member", active |-> TRUE, gone |-> FALSE]]
    /\ UNCHANGED <<shut, signed, sock, job>>

\* Bound: one sign-in and one socket of an account at a time.
SignIn(u) ==
    /\ Usable(u) /\ (u \in Editors => sock[u] = "none")
    /\ signed' = signed \cup {u}
    /\ UNCHANGED <<row, shut, sock, job>>

MoveSock(u, to) ==
    /\ sock' = [sock EXCEPT ![u] = to]
    /\ UNCHANGED <<row, shut, signed, job>>

\* Mutant of Entitled: the account is not looked at, only its token.
EntitledIfSigned(u) == u \in signed /\ ~shut

\* The token, the account and the project, at the handshake and every half minute.
Entitled(u) == u \in signed /\ Usable(u) /\ ~shut

\* collaborate: entitled when it is asked, in the room when it has joined.
Connect(u) == sock[u] = "none" /\ Entitled(u) /\ MoveSock(u, "asked")
Join(u) == sock[u] = "asked" /\ MoveSock(u, "open")
Revalidate(u) == sock[u] = "open" /\ ~Entitled(u) /\ MoveSock(u, "none")
HangUp(u) == sock[u] # "none" /\ MoveSock(u, "none")

-----------------------------------------------------------------------------
Next ==
    \/ \E s \in Requests :
          \/ \E actor \in Accounts :
                \/ \E target \in Accounts, role \in Roles :
                      \/ BeginCreate(s, actor, target, role)
                      \/ \E given \in BOOLEAN \cup {None} : BeginUpdate(s, actor, target, role, given)
                \/ \E target \in Accounts : BeginDelete(s, actor, target)
                \/ BeginShut(s, actor)
          \/ CommitCreate(s) \/ CommitWrite(s) \/ CommitShut(s)
          \/ EndSessions(s) \/ CloseSockets(s) \/ Die(s)
    \/ \E u \in Accounts :
          Register(u) \/ SignIn(u)
    \/ \E u \in Editors :
          Connect(u) \/ Join(u) \/ Revalidate(u) \/ HangUp(u)

Spec == Init /\ [][Next]_vars

\* A handshake goes on, and the receive loop asks again: it does not wait for ever in
\* a send to a client that is connected and does not read.
FairSpec == Spec /\ \A u \in Editors : WF_vars(Join(u)) /\ WF_vars(Revalidate(u))
-----------------------------------------------------------------------------
\* The last superadmin is not lost to a request that nothing overlapped
\* (_assert_another_superadmin_remains).
SuperadminRemains ==
    [][Supers # {} /\ Supers' = {} =>
          \E s \in Requests : job[s].step = "ready" /\ job'[s].step # "ready" /\ ~job[s].quiet]_vars

\* An account that has, gets or loses administrator's power changes only at the hands
\* of a superadmin or by itself, unless another request overlapped
\* (_assert_may_manage, _assert_may_set_role).
PowerIsTheirs ==
    [][\A u \in Accounts :
          row[u] # row'[u] /\ (\/ row[u] # None /\ Privileged(u, row[u])
                               \/ Privileged(u, row'[u])) =>
             \E s \in Requests : /\ job[s].step = "ready" /\ job'[s].step # "ready"
                                 /\ job[s].super \/ ~job[s].quiet]_vars

\* The socket of an account that was switched off or deleted, or on a deleted
\* project, closes even if the server stopped before it was told to
\* (_still_authorised, _close_all_sockets).
ShutOutSocketsClose ==
    \A u \in Editors :
        sock[u] # "none" /\ (~Usable(u) \/ shut) ~> sock[u] = "none" \/ (Usable(u) /\ ~shut)
=============================================================================
