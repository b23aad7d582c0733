--------------------------- MODULE AccountsProofs ---------------------------
(* Theorems about Accounts, for any number of accounts and of requests. *)
EXTENDS Accounts, TLAPS

CreateJob == [step: {"ready"}, op: {"create"}, super: BOOLEAN, quiet: BOOLEAN,
              target: Accounts, new: Row]
WriteJob == [step: {"ready"}, op: {"write"}, super: BOOLEAN, quiet: BOOLEAN,
             target: Accounts, read: Row, new: Row, ends: BOOLEAN]
ShutJob == [step: {"ready"}, op: {"shut"}, super: {TRUE}, quiet: BOOLEAN]

\* The superadmins of rows r.
SupersOf(r) == {u \in Accounts : /\ r[u] # None /\ r[u].active /\ ~r[u].gone
                                 /\ Super(u, r[u])}

\* What a request that has read its rows knows of the rows r: power is granted and
\* touched by superadmins only; and while nothing overlaps it, its row is the one it
\* read, and the superadmin it is about is not the last.
JobOK(j, r) ==
    j.step = "ready" =>
        /\ j.op = "create" /\ j.new.role # "member" => j.super
        /\ j.op = "write" =>
              /\ r[j.target] # None
              /\ Privileged(j.target, j.read) \/ Privileged(j.target, j.new) => j.super
              /\ j.quiet => /\ r[j.target] = j.read
                            /\ j.target \in SupersOf(r) =>
                                  \E v \in SupersOf(r) : v # j.target

\* The seed made its accounts, and no account is ever taken out.
FoundersHaveRows == \A u \in Founders : row[u] # None

Promises == \A s \in Requests : JobOK(job[s], row)

IInv == TypeOK /\ FoundersHaveRows /\ Promises

-----------------------------------------------------------------------------
\* A job that has read its rows is of one of three kinds.
LEMMA ReadyKinds ==
    ASSUME NEW j \in Job, j.step = "ready"
    PROVE  /\ j.op = "create" => j \in CreateJob
           /\ j.op = "write" => j \in WriteJob
           /\ j \in CreateJob \cup WriteJob \cup ShutJob
<1>1. Job = {Idle} \cup CreateJob \cup WriteJob \cup ShutJob \cup
            [step: {"ending"}, target: Accounts] \cup [step: {"closing"}, who: SUBSET Editors]
  BY DEF Job, Pending, CreateJob, WriteJob, ShutJob
<1>2. Idle.step # "ready" BY DEF Idle
<1>3. j \in CreateJob \cup WriteJob \cup ShutJob BY <1>1, <1>2
<1>4. QED BY <1>3 DEF CreateJob, WriteJob, ShutJob

\* A job of each kind is a job.
LEMMA JobKinds ==
    /\ Idle \in Job
    /\ CreateJob \cup WriteJob \cup ShutJob \subseteq Job
    /\ \A u \in Accounts : [step |-> "ending", target |-> u] \in Job
    /\ \A w \in SUBSET Editors : [step |-> "closing", who |-> w] \in Job
BY DEF Job, Pending, CreateJob, WriteJob, ShutJob

\* The request that has been overlapped.
Loud(j) == [j EXCEPT !.quiet = FALSE]

\* It differs in that alone.
LEMMA LoudIsAJob ==
    ASSUME NEW j \in Job, j.step = "ready"
    PROVE  /\ Loud(j) \in Job /\ Loud(j).step = "ready" /\ Loud(j).quiet = FALSE
           /\ Loud(j).op = j.op /\ Loud(j).super = j.super
           /\ j.op = "create" => Loud(j).new = j.new
           /\ j.op = "write" => /\ Loud(j).target = j.target /\ Loud(j).new = j.new
                                /\ Loud(j).read = j.read
<1>1. CASE j \in CreateJob
  <2>1. Loud(j) \in CreateJob BY <1>1 DEF Loud, CreateJob
  <2>2. QED BY <1>1, <2>1, JobKinds DEF Loud, CreateJob
<1>2. CASE j \in WriteJob
  <2>1. Loud(j) \in WriteJob BY <1>2 DEF Loud, WriteJob
  <2>2. QED BY <1>2, <2>1, JobKinds DEF Loud, WriteJob
<1>3. CASE j \in ShutJob
  <2>1. Loud(j) \in ShutJob BY <1>3 DEF Loud, ShutJob
  <2>2. QED BY <1>3, <2>1, JobKinds DEF Loud, ShutJob
<1>4. QED BY <1>1, <1>2, <1>3, ReadyKinds

\* A request that is not waiting to commit has nothing to promise.
LEMMA OthersAreGood == ASSUME NEW j, NEW r, j.step # "ready" PROVE JobOK(j, r)
BY DEF JobOK

\* An overlapped request keeps what does not depend on its being alone.
LEMMA LoudIsGood ==
    ASSUME NEW j \in Job, j.step = "ready", NEW r, NEW q, JobOK(j, r),
           \A u \in Accounts : r[u] # None => q[u] # None
    PROVE  JobOK(Loud(j), q)
<1>1. Loud(j).step = "ready" /\ Loud(j).quiet = FALSE /\ Loud(j).op = j.op
      /\ Loud(j).super = j.super
  BY LoudIsAJob
<1>2. CASE j.op = "create" BY <1>1, <1>2, LoudIsAJob DEF JobOK
<1>3. CASE j.op = "write"
  <2>1. j.target \in Accounts BY <1>3, ReadyKinds DEF WriteJob
  <2>2. Loud(j).target = j.target /\ Loud(j).new = j.new /\ Loud(j).read = j.read
    BY <1>3, LoudIsAJob
  <2> HIDE DEF Loud
  <2>3. QED BY <1>1, <1>3, <2>1, <2>2 DEF JobOK
<1>4. CASE j.op \notin {"create", "write"} BY <1>1, <1>4 DEF JobOK
<1>5. QED BY <1>2, <1>3, <1>4

\* A request goes on while the rows stay.
LEMMA GoKeeps ==
    ASSUME job \in [Requests -> Job], Promises, UNCHANGED row,
           NEW s \in Requests, NEW j \in Job, JobOK(j, row), Go(s, j)
    PROVE  job' \in [Requests -> Job] /\ Promises'
BY DEF Go, Promises

\* A request commits, and overlaps the others.
LEMMA CommittedKeeps ==
    ASSUME job \in [Requests -> Job], Promises,
           \A u \in Accounts : row[u] # None => row'[u] # None,
           NEW s \in Requests, NEW j \in Job, j.step # "ready", Committed(s, j)
    PROVE  job' \in [Requests -> Job] /\ Promises' /\ job'[s] = j
<1>1. ASSUME NEW x \in Requests PROVE job'[x] \in Job /\ JobOK(job'[x], row')
  <2>1. CASE x = s BY <2>1, OthersAreGood DEF Committed
  <2>2. CASE x # s /\ job[x].step = "ready"
    <3>1. job'[x] = Loud(job[x]) BY <2>2 DEF Committed, Loud
    <3>2. JobOK(job[x], row) /\ job[x] \in Job BY DEF Promises
    <3>3. Loud(job[x]) \in Job BY <2>2, <3>2, LoudIsAJob
    <3>4. JobOK(Loud(job[x]), row') BY <2>2, <3>2, LoudIsGood
    <3>5. QED BY <3>1, <3>3, <3>4
  <2>3. CASE x # s /\ job[x].step # "ready" BY <2>3, OthersAreGood DEF Committed
  <2>4. QED BY <2>1, <2>2, <2>3
<1>2. job' = [x \in Requests |-> job'[x]] /\ job'[s] = j BY DEF Committed
<1>3. QED BY <1>1, <1>2 DEF Promises

-----------------------------------------------------------------------------
\* The initial states are as promised.
LEMMA InitIInv == Init => IInv
<1> SUFFICES ASSUME Init PROVE IInv OBVIOUS
<1> DEFINE r == [role |-> "superadmin", active |-> TRUE, gone |-> FALSE]
<1>1. r \in Row BY DEF Row, Roles
<1>2. row = [u \in Accounts |-> IF u \in Founders THEN r ELSE None] BY DEF Init
<1> HIDE DEF r
<1>3. row \in [Accounts -> Row \cup {None}] BY <1>1, <1>2
<1>4. FoundersHaveRows BY <1>1, <1>2, ConstantsOK DEF FoundersHaveRows
<1>5. job \in [Requests -> Job] /\ Promises
  <2>1. JobOK(Idle, row) BY DEF Idle, JobOK
  <2>2. QED BY <2>1, JobKinds DEF Init, Promises
<1>6. shut \in BOOLEAN /\ signed \subseteq {u \in Accounts : row[u] # None}
      /\ sock \in [Editors -> {"none", "asked", "open"}]
  BY DEF Init
<1>7. QED BY <1>3, <1>4, <1>5, <1>6 DEF IInv, TypeOK

\* A request moves on and writes nothing.
LEMMA MoveKeeps ==
    ASSUME IInv, NEW s \in Requests, NEW j \in Job, JobOK(j, row), Go(s, j),
           UNCHANGED <<row, shut, signed, sock>>
    PROVE  IInv'
<1>1. job' \in [Requests -> Job] /\ Promises' BY GoKeeps DEF IInv, TypeOK
<1>2. QED BY <1>1 DEF IInv, TypeOK, FoundersHaveRows

\* An account is about to be created.
LEMMA BeginCreateKeeps ==
    ASSUME IInv, NEW s \in Requests, NEW actor \in Accounts, NEW target \in Accounts,
           NEW role \in Roles, BeginCreate(s, actor, target, role)
    PROVE  IInv'
<1> DEFINE new == [role |-> role, active |-> TRUE, gone |-> FALSE]
           sup == Super(actor, row[actor])
           j == [step |-> "ready", op |-> "create", super |-> sup,
                 quiet |-> TRUE, target |-> target, new |-> new]
<1>1. new \in Row /\ sup \in BOOLEAN BY DEF Row, Super
<1>2. new.role # "member" => sup BY DEF BeginCreate, MayGrant
<1>3. Go(s, j) /\ UNCHANGED <<row, shut, signed, sock>> BY DEF BeginCreate, Begin
<1> HIDE DEF new, sup
<1>4. j \in CreateJob BY <1>1 DEF CreateJob
<1>5. j \in Job /\ JobOK(j, row) BY <1>2, <1>4, JobKinds DEF JobOK
<1> HIDE DEF j
<1>6. QED BY <1>3, <1>5, MoveKeeps

\* A request about an account begins. Whoever may touch a superadmin is another one.
LEMMA BeginWriteKeeps ==
    ASSUME IInv, NEW s \in Requests, NEW actor \in Accounts, NEW target \in Accounts,
           NEW new \in Row, NEW ends \in BOOLEAN,
           Operator(s, actor), Loaded(target), target # actor,
           new.role # row[target].role => MayGrant(actor, new.role),
           BeginWrite(s, actor, target, new, ends)
    PROVE  IInv'
<1> DEFINE sup == Super(actor, row[actor])
           read == row[target]
           j == [step |-> "ready", op |-> "write", super |-> sup,
                 quiet |-> TRUE, target |-> target, read |-> read, new |-> new,
                 ends |-> ends]
<1>1. read \in Row BY DEF IInv, TypeOK, Loaded
<1>2. Privileged(target, read) => sup BY DEF BeginWrite, MayManage
<1>3. Privileged(target, new) => sup
  <2>1. CASE new.role = read.role BY <1>2, <2>1 DEF Privileged, Super
  <2>2. CASE new.role # read.role /\ new.role # "member" BY <2>2 DEF MayGrant
  <2>3. CASE new.role = "member" BY <1>2, <2>3 DEF Privileged, Super
  <2>4. QED BY <2>1, <2>2, <2>3
<1>4. target \in SupersOf(row) => \E v \in SupersOf(row) : v # target
  BY <1>2 DEF SupersOf, Privileged, Operator, Usable
<1>5. sup \in BOOLEAN /\ read # None BY DEF Super, Loaded
<1>6. Go(s, j) /\ UNCHANGED <<row, shut, signed, sock>> BY DEF BeginWrite, Begin
<1> HIDE DEF sup
<1>7. j \in WriteJob BY <1>1, <1>5 DEF WriteJob
<1>8. j \in Job BY <1>7, JobKinds
<1>9. JobOK(j, row) BY <1>2, <1>3, <1>4, <1>5 DEF JobOK
<1> HIDE DEF j
<1>10. QED BY <1>6, <1>8, <1>9, MoveKeeps

\* A role or the switch is about to change.
LEMMA BeginUpdateKeeps ==
    ASSUME IInv, NEW s \in Requests, NEW actor \in Accounts, NEW target \in Accounts,
           NEW role \in Roles, NEW given, BeginUpdate(s, actor, target, role, given)
    PROVE  IInv'
<1> DEFINE new == [row[target] EXCEPT !.role = role,
                                      !.active = IF given \in BOOLEAN THEN given ELSE @]
           ends == given = FALSE
<1>1. row[target] \in Row BY DEF IInv, TypeOK, BeginUpdate, Loaded
<1>2. new \in Row /\ new.role = role BY <1>1 DEF Row
<1>3. /\ Operator(s, actor) /\ Loaded(target) /\ target # actor
      /\ role # row[target].role => MayGrant(actor, role)
      /\ BeginWrite(s, actor, target, new, ends) /\ ends \in BOOLEAN
  BY DEF BeginUpdate
<1> HIDE DEF new, ends
<1>4. QED BY <1>2, <1>3, BeginWriteKeeps

\* An account is about to be deleted.
LEMMA BeginDeleteKeeps ==
    ASSUME IInv, NEW s \in Requests, NEW actor \in Accounts, NEW target \in Accounts,
           BeginDelete(s, actor, target)
    PROVE  IInv'
<1> DEFINE new == [row[target] EXCEPT !.active = FALSE, !.gone = TRUE]
<1>1. row[target] \in Row BY DEF IInv, TypeOK, BeginDelete, Loaded
<1>2. new \in Row /\ new.role = row[target].role BY <1>1 DEF Row
<1>3. Operator(s, actor) /\ Loaded(target) /\ target # actor
      /\ BeginWrite(s, actor, target, new, TRUE)
  BY DEF BeginDelete
<1> HIDE DEF new
<1>4. QED BY <1>2, <1>3, BeginWriteKeeps

\* The project is about to be deleted.
LEMMA BeginShutKeeps ==
    ASSUME IInv, NEW s \in Requests, NEW actor \in Accounts, BeginShut(s, actor) PROVE IInv'
<1> DEFINE j == Shutting(actor)
<1>1. j \in ShutJob BY DEF BeginShut, Shutting, ShutJob
<1>2. j \in Job /\ JobOK(j, row) BY <1>1, JobKinds DEF ShutJob, JobOK
<1>3. Go(s, j) /\ UNCHANGED <<row, shut, signed, sock>> BY DEF BeginShut, Begin
<1> HIDE DEF j
<1>4. QED BY <1>2, <1>3, MoveKeeps

-----------------------------------------------------------------------------
\* An UPDATE leaves a row, and the row that was wanted if it is the one that was read.
LEMMA WrittenIsARow ==
    ASSUME NEW now \in Row, NEW read \in Row, NEW new \in Row
    PROVE  Written(now, read, new) \in Row /\ (now = read => Written(now, read, new) = new)
<1> DEFINE r == Merged(now.role, read.role, new.role)
           a == Merged(now.active, read.active, new.active)
           g == Merged(now.gone, read.gone, new.gone)
<1>1. r \in Roles /\ a \in BOOLEAN /\ g \in BOOLEAN BY DEF Merged, Row
<1>2. now = read => r = new.role /\ a = new.active /\ g = new.gone BY DEF Merged
<1>3. Written(now, read, new) = [role |-> r, active |-> a, gone |-> g] BY DEF Written
<1>4. new = [role |-> new.role, active |-> new.active, gone |-> new.gone] BY DEF Row
<1> HIDE DEF r, a, g
<1>5. QED BY <1>1, <1>2, <1>3, <1>4 DEF Row

\* What a commit about an account does to the rows.
LEMMA CommitWriteRow ==
    ASSUME IInv, NEW s \in Requests, CommitWrite(s)
    PROVE  /\ job[s] \in WriteJob /\ JobOK(job[s], row)
           /\ row' \in [Accounts -> Row \cup {None}]
           /\ \A u \in Accounts : row[u] # None => row'[u] # None
           /\ \A u \in Accounts : u # job[s].target => row'[u] = row[u]
           /\ row[job[s].target] = job[s].read => row'[job[s].target] = job[s].new
           /\ row'[job[s].target] \in Row /\ row[job[s].target] \in Row
<1> DEFINE j == job[s]
           w == Written(row[j.target], j.read, j.new)
<1>1. j \in WriteJob BY ReadyKinds DEF IInv, TypeOK, CommitWrite
<1>2. JobOK(j, row) BY DEF IInv, Promises
<1>3. j.target \in Accounts /\ j.read \in Row /\ j.new \in Row BY <1>1 DEF WriteJob
<1>4. row[j.target] # None BY <1>2 DEF JobOK, CommitWrite
<1>5. row[j.target] \in Row BY <1>3, <1>4 DEF IInv, TypeOK
<1>6. w \in Row /\ (row[j.target] = j.read => w = j.new) BY <1>3, <1>5, WrittenIsARow
<1>7. row' = [row EXCEPT ![j.target] = w] /\ row \in [Accounts -> Row \cup {None}]
  BY DEF CommitWrite, IInv, TypeOK
<1> HIDE DEF w, j
<1>8. row' \in [Accounts -> Row \cup {None}] /\ row'[j.target] = w BY <1>3, <1>6, <1>7
<1>9. \A u \in Accounts : u # j.target => row'[u] = row[u] BY <1>7
<1>10. w # None BY <1>6, ConstantsOK
<1>11. \A u \in Accounts : row[u] # None => row'[u] # None BY <1>8, <1>9, <1>10
<1>12. QED BY <1>1, <1>2, <1>5, <1>6, <1>8, <1>9, <1>11 DEF j

\* The commit about an account.
LEMMA CommitWriteKeeps == ASSUME IInv, NEW s \in Requests, CommitWrite(s) PROVE IInv'
<1> DEFINE j == job[s]
           e == IF j.ends THEN [step |-> "ending", target |-> j.target] ELSE Idle
<1>1. j.target \in Accounts BY CommitWriteRow DEF WriteJob
<1>2. e \in Job /\ e.step # "ready" BY <1>1, JobKinds DEF Idle
<1>3. Committed(s, e) /\ UNCHANGED <<shut, signed, sock>> BY DEF CommitWrite
<1> HIDE DEF e
<1>4. job' \in [Requests -> Job] /\ Promises'
  BY <1>2, <1>3, CommitWriteRow, CommittedKeeps DEF IInv, TypeOK
<1>5. FoundersHaveRows' BY CommitWriteRow, ConstantsOK DEF IInv, FoundersHaveRows
<1>6. TypeOK' BY <1>3, <1>4, CommitWriteRow DEF IInv, TypeOK
<1>7. QED BY <1>4, <1>5, <1>6 DEF IInv

\* The commit of a new account: its address was free.
LEMMA CommitCreateRow ==
    ASSUME IInv, NEW s \in Requests, CommitCreate(s)
    PROVE  /\ job[s] \in CreateJob /\ JobOK(job[s], row)
           /\ row[job[s].target] = None /\ job[s].target \notin Founders
           /\ row'[job[s].target] = job[s].new /\ job[s].new \in Row
           /\ row' \in [Accounts -> Row \cup {None}]
           /\ \A u \in Accounts : row[u] # None => row'[u] = row[u]
           /\ \A u \in Accounts : u # job[s].target => row'[u] = row[u]
<1>1. job[s] \in CreateJob BY ReadyKinds DEF IInv, TypeOK, CommitCreate
<1>2. job[s].target \in Accounts /\ job[s].new \in Row BY <1>1 DEF CreateJob
<1>3. QED BY <1>1, <1>2 DEF CommitCreate, IInv, TypeOK, FoundersHaveRows, Promises

\* So the invariant stands.
LEMMA CommitCreateKeeps == ASSUME IInv, NEW s \in Requests, CommitCreate(s) PROVE IInv'
<1>1. Committed(s, Idle) /\ UNCHANGED <<shut, signed, sock>> BY DEF CommitCreate
<1>2. \A u \in Accounts : row[u] # None => row'[u] # None BY CommitCreateRow
<1>3. Idle \in Job /\ Idle.step # "ready" BY JobKinds DEF Idle
<1>4. job' \in [Requests -> Job] /\ Promises' BY <1>1, <1>2, <1>3, CommittedKeeps DEF IInv, TypeOK
<1>5. FoundersHaveRows' BY <1>2, ConstantsOK DEF IInv, FoundersHaveRows
<1>6. TypeOK' BY <1>1, <1>2, <1>4, CommitCreateRow DEF IInv, TypeOK
<1>7. QED BY <1>4, <1>5, <1>6 DEF IInv

\* The commit of a deleted project leaves the rows alone.
LEMMA CommitShutKeeps == ASSUME IInv, NEW s \in Requests, CommitShut(s) PROVE IInv'
<1> DEFINE e == [step |-> "closing", who |-> Editors]
<1>1. e \in Job /\ e.step # "ready" BY JobKinds
<1>2. Committed(s, e) /\ shut' = TRUE /\ UNCHANGED <<row, signed, sock>> BY DEF CommitShut
<1> HIDE DEF e
<1>3. job' \in [Requests -> Job] /\ Promises' BY <1>1, <1>2, CommittedKeeps DEF IInv, TypeOK
<1>4. QED BY <1>2, <1>3 DEF IInv, TypeOK, FoundersHaveRows

\* What comes after a commit.
Follows(s) == EndSessions(s) \/ CloseSockets(s) \/ Die(s)

\* It ends sign-ins and sockets, and leaves the rows alone.
LEMMA FollowsKeeps == ASSUME IInv, NEW s \in Requests, Follows(s) PROVE IInv' /\ UNCHANGED row
<1>1. CASE EndSessions(s)
  <2> DEFINE j == [step |-> "closing", who |-> {job[s].target} \cap Editors]
  <2>1. j \in Job BY JobKinds
  <2>2. JobOK(j, row) BY DEF JobOK
  <2>3. Go(s, j) /\ signed' \subseteq signed /\ UNCHANGED <<row, shut, sock>>
    BY <1>1 DEF EndSessions
  <2> HIDE DEF j
  <2>4. job' \in [Requests -> Job] /\ Promises' BY <2>1, <2>2, <2>3, GoKeeps DEF IInv, TypeOK
  <2>5. QED BY <2>3, <2>4 DEF IInv, TypeOK, FoundersHaveRows
<1>2. ASSUME Go(s, Idle), sock' \in [Editors -> {"none", "asked", "open"}],
             UNCHANGED <<row, shut, signed>>
      PROVE  IInv'
  <2>1. Idle \in Job /\ JobOK(Idle, row) BY JobKinds DEF Idle, JobOK
  <2>2. job' \in [Requests -> Job] /\ Promises' BY <1>2, <2>1, GoKeeps DEF IInv, TypeOK
  <2>3. QED BY <1>2, <2>2 DEF IInv, TypeOK, FoundersHaveRows
<1>3. CASE CloseSockets(s) BY <1>2, <1>3 DEF CloseSockets, IInv, TypeOK
<1>4. CASE Die(s) BY <1>2, <1>4 DEF Die, IInv, TypeOK
<1>5. QED BY <1>1, <1>3, <1>4 DEF Follows, EndSessions

\* A member registers: nobody's row changes, and no superadmin is made.
LEMMA RegisterRow ==
    ASSUME IInv, NEW u \in Accounts, Register(u)
    PROVE  /\ u \notin Founders /\ row[u] = None
           /\ row'[u] \in Row /\ row'[u].role = "member"
           /\ row' \in [Accounts -> Row \cup {None}]
           /\ \A v \in Accounts : v # u => row'[v] = row[v]
<1> DEFINE r == [role |-> "member", active |-> TRUE, gone |-> FALSE]
<1>1. r \in Row /\ r.role = "member" BY DEF Row, Roles
<1>2. row' = [row EXCEPT ![u] = r] /\ row[u] = None /\ row \in [Accounts -> Row \cup {None}]
  BY DEF Register, IInv, TypeOK
<1> HIDE DEF r
<1>3. QED BY <1>1, <1>2 DEF IInv, FoundersHaveRows

\* The superadmins are the same after it.
LEMMA RegisterSupers ==
    ASSUME IInv, NEW u \in Accounts, Register(u) PROVE SupersOf(row') = SupersOf(row)
<1>1. u \notin SupersOf(row) BY RegisterRow DEF SupersOf
<1>2. u \notin SupersOf(row') BY RegisterRow DEF SupersOf, Super
<1>3. \A v \in Accounts : v # u => row'[v] = row[v] BY RegisterRow
<1>4. QED BY <1>1, <1>2, <1>3 DEF SupersOf

\* So the invariant stands.
LEMMA RegisterKeeps == ASSUME IInv, NEW u \in Accounts, Register(u) PROVE IInv'
<1>1. UNCHANGED <<shut, signed, sock, job>> BY DEF Register
<1>2. \A v \in Accounts : row[v] # None => row'[v] = row[v] BY RegisterRow
<1>3. ASSUME NEW s \in Requests PROVE JobOK(job'[s], row')
  <2>1. job'[s] = job[s] /\ JobOK(job[s], row) BY <1>1 DEF IInv, Promises
  <2>2. job[s].step = "ready" /\ job[s].op = "write" => job[s].target \in Accounts
    BY ReadyKinds DEF IInv, TypeOK, WriteJob
  <2>3. QED BY <1>2, <2>1, <2>2, RegisterSupers DEF JobOK
<1>4. Promises' BY <1>3 DEF Promises
<1>5. FoundersHaveRows' BY <1>2, ConstantsOK DEF IInv, FoundersHaveRows
<1>6. TypeOK' BY <1>1, <1>2, RegisterRow DEF IInv, TypeOK
<1>7. QED BY <1>4, <1>5, <1>6 DEF IInv

\* The people sign in, connect and hang up.
Sockets(u) == Connect(u) \/ Join(u) \/ Revalidate(u) \/ HangUp(u)

\* The rows and the requests do not see it.
LEMMA PeopleKeep ==
    ASSUME IInv,
           (\E u \in Accounts : SignIn(u)) \/ (\E u \in Editors : Sockets(u))
    PROVE  IInv' /\ UNCHANGED row
<1>1. ASSUME NEW u \in Accounts, SignIn(u) PROVE IInv' /\ UNCHANGED row
  BY <1>1 DEF SignIn, Usable, IInv, TypeOK, FoundersHaveRows, Promises
<1>2. ASSUME NEW u \in Editors, NEW to \in {"none", "asked", "open"}, MoveSock(u, to)
      PROVE  IInv' /\ UNCHANGED row
  BY <1>2 DEF MoveSock, IInv, TypeOK, FoundersHaveRows, Promises
<1>3. QED BY <1>1, <1>2 DEF Sockets, Connect, Join, Revalidate, HangUp

\* The requests that begin.
Starts(s) ==
    \E actor \in Accounts :
       \/ \E target \in Accounts, role \in Roles :
             \/ BeginCreate(s, actor, target, role)
             \/ \E given \in BOOLEAN \cup {None} : BeginUpdate(s, actor, target, role, given)
       \/ \E target \in Accounts : BeginDelete(s, actor, target)
       \/ BeginShut(s, actor)

\* They write nothing.
LEMMA StartsKeep == ASSUME IInv, NEW s \in Requests, Starts(s) PROVE IInv' /\ UNCHANGED row
<1>1. IInv' BY BeginCreateKeeps, BeginUpdateKeeps, BeginDeleteKeeps, BeginShutKeeps DEF Starts
<1>2. ASSUME NEW actor \in Accounts, NEW target \in Accounts, NEW role \in Roles,
             BeginCreate(s, actor, target, role)
      PROVE  UNCHANGED row
  BY <1>2 DEF BeginCreate, Begin
<1>3. ASSUME NEW actor \in Accounts, NEW target \in Accounts, NEW role \in Roles,
             NEW given, BeginUpdate(s, actor, target, role, given)
      PROVE  UNCHANGED row
  BY <1>3 DEF BeginUpdate, BeginWrite, Begin
<1>4. ASSUME NEW actor \in Accounts, NEW target \in Accounts, BeginDelete(s, actor, target)
      PROVE  UNCHANGED row
  BY <1>4 DEF BeginDelete, BeginWrite, Begin
<1>5. ASSUME NEW actor \in Accounts, BeginShut(s, actor) PROVE UNCHANGED row
  BY <1>5 DEF BeginShut, Begin
<1>6. QED BY <1>1, <1>2, <1>3, <1>4, <1>5 DEF Starts

\* The steps, in the order the proofs take them.
LEMMA NextCases ==
    Next <=> \/ \E s \in Requests : Starts(s) \/ Follows(s)
             \/ (\E u \in Accounts : SignIn(u)) \/ (\E u \in Editors : Sockets(u))
             \/ \E s \in Requests : CommitShut(s)
             \/ \E s \in Requests : CommitCreate(s)
             \/ \E s \in Requests : CommitWrite(s)
             \/ \E u \in Accounts : Register(u)
BY DEF Next, Starts, Follows, Sockets

\* The inductive step.
LEMMA NextIInv == IInv /\ [Next]_vars => IInv'
<1> SUFFICES ASSUME IInv, [Next]_vars PROVE IInv' OBVIOUS
<1>1. ASSUME NEW s \in Requests, Starts(s) \/ Follows(s) PROVE IInv'
  BY <1>1, StartsKeep, FollowsKeeps
<1>2. ASSUME (\E u \in Accounts : SignIn(u)) \/ (\E u \in Editors : Sockets(u)) PROVE IInv'
  BY <1>2, PeopleKeep
<1>3. ASSUME NEW s \in Requests, CommitShut(s) \/ CommitCreate(s) \/ CommitWrite(s) PROVE IInv'
  BY <1>3, CommitShutKeeps, CommitCreateKeeps, CommitWriteKeeps
<1>4. ASSUME NEW u \in Accounts, Register(u) PROVE IInv' BY <1>4, RegisterKeeps
<1>5. CASE UNCHANGED vars BY <1>5 DEF IInv, TypeOK, FoundersHaveRows, Promises, vars
<1>6. QED BY <1>1, <1>2, <1>3, <1>4, <1>5, NextCases

\* Every reachable state satisfies the invariant.
LEMMA Inductive == Spec => []IInv
BY InitIInv, NextIInv, PTL DEF Spec

\* Every reachable state of the accounts is well typed.
THEOREM TypeCorrect == Spec => []TypeOK
<1>1. IInv => TypeOK BY DEF IInv
<1>2. QED BY <1>1, Inductive, PTL

-----------------------------------------------------------------------------
\* The step promised by SuperadminRemains.
LastIsOverlapped ==
    Supers # {} /\ Supers' = {} =>
        \E s \in Requests : job[s].step = "ready" /\ job'[s].step # "ready" /\ ~job[s].quiet

\* The superadmins are those of the rows.
LEMMA SupersAreOfTheRows == Supers = SupersOf(row) /\ Supers' = SupersOf(row')
BY DEF Supers, SupersOf, Usable

\* A request that commits is not waiting any more.
LEMMA CommitsLeave ==
    ASSUME IInv, NEW s \in Requests, CommitWrite(s) \/ CommitCreate(s)
    PROVE  job[s].step = "ready" /\ job'[s].step # "ready"
<1>1. CASE CommitWrite(s) BY <1>1 DEF CommitWrite, Committed, Idle
<1>2. CASE CommitCreate(s) BY <1>2 DEF CommitCreate, Committed, Idle
<1>3. QED BY <1>1, <1>2

\* A request that nothing overlapped leaves a superadmin.
LEMMA StepLeavesASuperadmin == IInv /\ [Next]_vars => LastIsOverlapped
<1> SUFFICES ASSUME IInv, [Next]_vars PROVE LastIsOverlapped OBVIOUS
<1>1. ASSUME UNCHANGED row PROVE LastIsOverlapped
  BY <1>1, SupersAreOfTheRows DEF LastIsOverlapped
<1>2. ASSUME NEW s \in Requests, Starts(s) \/ Follows(s) PROVE LastIsOverlapped
  BY <1>1, <1>2, StartsKeep, FollowsKeeps
<1>3. ASSUME (\E u \in Accounts : SignIn(u)) \/ (\E u \in Editors : Sockets(u))
      PROVE  LastIsOverlapped
  BY <1>1, <1>3, PeopleKeep
<1>4. ASSUME NEW s \in Requests, CommitShut(s) PROVE LastIsOverlapped
  BY <1>1, <1>4 DEF CommitShut
<1>5. ASSUME NEW u \in Accounts, Register(u) PROVE LastIsOverlapped
  BY <1>5, RegisterSupers, SupersAreOfTheRows DEF LastIsOverlapped
<1>6. ASSUME NEW s \in Requests, CommitCreate(s) PROVE LastIsOverlapped
  <2>1. \A u \in Accounts : row[u] # None => row'[u] = row[u] BY <1>6, CommitCreateRow
  <2>2. SupersOf(row) \subseteq SupersOf(row') BY <2>1 DEF SupersOf
  <2>3. QED BY <2>2, SupersAreOfTheRows DEF LastIsOverlapped
<1>7. ASSUME NEW s \in Requests, CommitWrite(s) PROVE LastIsOverlapped
  <2> SUFFICES ASSUME job[s].quiet, SupersOf(row) # {} PROVE SupersOf(row') # {}
    BY <1>7, CommitsLeave, SupersAreOfTheRows DEF LastIsOverlapped
  <2>1. PICK v \in SupersOf(row) : v # job[s].target
    <3>1. job[s].target \in SupersOf(row) => \E v \in SupersOf(row) : v # job[s].target
      BY <1>7, CommitWriteRow DEF JobOK, CommitWrite
    <3>2. QED BY <3>1
  <2>2. v \in Accounts /\ row'[v] = row[v] BY <1>7, <2>1, CommitWriteRow DEF SupersOf
  <2>3. v \in SupersOf(row') BY <2>1, <2>2 DEF SupersOf
  <2>4. QED BY <2>3
<1>8. CASE UNCHANGED vars BY <1>1, <1>8 DEF vars
<1>9. QED BY <1>2, <1>3, <1>4, <1>5, <1>6, <1>7, <1>8, NextCases

\* The last superadmin is lost only to requests that overlap
\* (_assert_another_superadmin_remains).
THEOREM SuperadminRemainsHolds == Spec => SuperadminRemains
<1>1. IInv /\ [Next]_vars => [LastIsOverlapped]_vars BY StepLeavesASuperadmin
<1>2. Spec => [][LastIsOverlapped]_vars BY <1>1, Inductive, PTL DEF Spec
<1>3. QED BY <1>2 DEF SuperadminRemains, LastIsOverlapped

\* The step promised by PowerIsTheirs.
PowerByRight ==
    \A u \in Accounts :
        row[u] # row'[u] /\ (\/ row[u] # None /\ Privileged(u, row[u])
                             \/ Privileged(u, row'[u])) =>
            \E s \in Requests : /\ job[s].step = "ready" /\ job'[s].step # "ready"
                                /\ job[s].super \/ ~job[s].quiet

\* Power changes at the hands of a superadmin.
LEMMA StepByRight == IInv /\ [Next]_vars => PowerByRight
<1> SUFFICES ASSUME IInv, [Next]_vars PROVE PowerByRight OBVIOUS
<1>1. ASSUME UNCHANGED row PROVE PowerByRight BY <1>1 DEF PowerByRight
<1>2. ASSUME NEW s \in Requests, Starts(s) \/ Follows(s) PROVE PowerByRight
  BY <1>1, <1>2, StartsKeep, FollowsKeeps
<1>3. ASSUME (\E u \in Accounts : SignIn(u)) \/ (\E u \in Editors : Sockets(u))
      PROVE  PowerByRight
  BY <1>1, <1>3, PeopleKeep
<1>4. ASSUME NEW s \in Requests, CommitShut(s) PROVE PowerByRight
  BY <1>1, <1>4 DEF CommitShut
<1>5. ASSUME NEW u \in Accounts, Register(u) PROVE PowerByRight
  BY <1>5, RegisterRow DEF PowerByRight, Privileged, Super
<1>6. ASSUME NEW s \in Requests, CommitCreate(s) PROVE PowerByRight
  <2> SUFFICES ASSUME NEW u \in Accounts, row[u] # row'[u],
                      (row[u] # None /\ Privileged(u, row[u])) \/ Privileged(u, row'[u])
               PROVE  job[s].super
    BY <1>6, CommitsLeave DEF PowerByRight
  <2>1. u = job[s].target /\ row[u] = None /\ u \notin Founders /\ row'[u] = job[s].new
    BY <1>6, CommitCreateRow
  <2>2. job[s].new.role # "member" BY <2>1 DEF Privileged, Super
  <2>3. QED BY <1>6, <2>2, CommitCreateRow DEF JobOK, CommitCreate
<1>7. ASSUME NEW s \in Requests, CommitWrite(s) PROVE PowerByRight
  <2> SUFFICES ASSUME NEW u \in Accounts, row[u] # row'[u], job[s].quiet,
                      (row[u] # None /\ Privileged(u, row[u])) \/ Privileged(u, row'[u])
               PROVE  job[s].super
    BY <1>7, CommitsLeave DEF PowerByRight
  <2>1. u = job[s].target BY <1>7, CommitWriteRow
  <2>2. row[u] = job[s].read /\ row'[u] = job[s].new
    BY <1>7, <2>1, CommitWriteRow DEF JobOK, CommitWrite
  <2>3. QED BY <1>7, <2>1, <2>2, CommitWriteRow DEF JobOK, CommitWrite
<1>8. CASE UNCHANGED vars BY <1>1, <1>8 DEF vars
<1>9. QED BY <1>2, <1>3, <1>4, <1>5, <1>6, <1>7, <1>8, NextCases

\* An account's power changes only at the hands of a superadmin, unless requests
\* overlap (_assert_may_manage, _assert_may_set_role).
THEOREM PowerIsTheirsHolds == Spec => PowerIsTheirs
<1>1. IInv /\ [Next]_vars => [PowerByRight]_vars BY StepByRight
<1>2. Spec => [][PowerByRight]_vars BY <1>1, Inductive, PTL DEF Spec
<1>3. QED BY <1>2 DEF PowerIsTheirs, PowerByRight
=============================================================================
