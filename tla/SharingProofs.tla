---------------------------- MODULE SharingProofs ----------------------------
(* Theorems about Sharing, for any number of requests and any limit. *)
EXTENDS Sharing, TLAPS

LinkOps == {"enable", "rotate", "disable"}
CommentOps == {"resolve", "unresolve", "remove"}

\* What a request holds on to from the moment it has read its row: enabling had found
\* no link, archiving, deleting and restoring leave the token alone, and the comment
\* was not deleted.
JobOK(j) ==
    j.step = "ready" =>
        /\ j.op = "enable" => j.read.token = 0
        /\ j.op = "project" => j.new.token = j.read.token
        /\ j.op \in CommentOps => ~j.read.deleted

IInv == TypeOK /\ \A s \in Requests : JobOK(job[s])

\* A request about the link holds the project it read.
LEMMA LinkJob ==
    ASSUME NEW j \in Job, j.step = "ready", j.op \in LinkOps PROVE j.read \in Project
BY DEF Job, Idle, LinkOps

\* A request about the project holds the row it read and the row it wants.
LEMMA ProjectJob ==
    ASSUME NEW j \in Job, j.step = "ready", j.op = "project"
    PROVE  j.read \in Project /\ j.new \in Project
BY DEF Job, Idle

\* A request about the comment holds the comment it read.
LEMMA CommentJob ==
    ASSUME NEW j \in Job, j.step = "ready", j.op \in CommentOps PROVE j.read \in Comment
BY DEF Job, Idle, CommentOps

\* An anonymous read has nothing to promise.
LEMMA ReadIsGood ==
    ASSUME NEW x \in {"first", "counted"} PROVE [step |-> x] \in Job /\ JobOK([step |-> x])
BY DEF Job, JobOK

\* A request that goes on with a good job keeps the types and promises of the jobs.
LEMMA GoKeeps ==
    ASSUME job \in [Requests -> Job], \A x \in Requests : JobOK(job[x]),
           NEW s \in Requests, NEW j \in Job, JobOK(j), Go(s, j)
    PROVE  job' \in [Requests -> Job] /\ \A x \in Requests : JobOK(job'[x])
BY DEF Go

\* An idle request has nothing to promise.
LEMMA IdleIsGood == Idle \in Job /\ JobOK(Idle)
BY DEF Idle, Job, JobOK

\* Where the value written is the one read, the column is left alone.
LEMMA MergedSame == ASSUME NEW now, NEW read PROVE Merged(now, read, read) = now
BY DEF Merged

\* What an UPDATE leaves is the value that was there, or the new one.
LEMMA MergedEither ==
    ASSUME NEW now, NEW read, NEW new PROVE Merged(now, read, new) \in {now, new}
BY DEF Merged

\* The initial states are as promised.
LEMMA InitIInv == Init => IInv
<1> SUFFICES ASSUME Init PROVE IInv OBVIOUS
<1>1. project \in Project /\ minted \in Nat /\ project.token <= minted
  BY DEF Init, Project
<1>2. comment \in Comment BY DEF Init, Comment
<1>3. counter \in [count: Nat, expires: BOOLEAN] /\ lost \in BOOLEAN BY DEF Init
<1>4. job \in [Requests -> Job] /\ \A s \in Requests : JobOK(job[s])
  BY IdleIsGood DEF Init
<1>5. QED BY <1>1, <1>2, <1>3, <1>4 DEF IInv, TypeOK

\* Beginning a request about the link.
LEMMA BeginLinkKeeps ==
    ASSUME IInv, NEW s \in Requests, NEW op \in LinkOps, BeginLink(s, op) PROVE IInv'
<1> DEFINE j == [step |-> "ready", op |-> op, read |-> project]
<1>1. j \in Job BY DEF IInv, TypeOK, Job, LinkOps
<1>2. JobOK(j) BY DEF JobOK, BeginLink, Asked, LinkOps, CommentOps
<1>3. Go(s, j) /\ UNCHANGED <<rows, redis>> BY DEF BeginLink, Begin
<1> HIDE DEF j
<1>4. QED BY <1>1, <1>2, <1>3, GoKeeps DEF IInv, TypeOK, rows, redis

\* Beginning a request about the project.
LEMMA BeginProjectKeeps ==
    ASSUME IInv, NEW s \in Requests, BeginProject(s) PROVE IInv'
<1>1. PICK new \in {[project EXCEPT !.archived = ~@], [project EXCEPT !.deleted = ~@]} :
          Begin(s, [step |-> "ready", op |-> "project", read |-> project, new |-> new])
  BY DEF BeginProject
<1>2. new \in Project /\ new.token = project.token BY <1>1 DEF IInv, TypeOK, Project
<1> DEFINE j == [step |-> "ready", op |-> "project", read |-> project, new |-> new]
<1>3. j \in Job BY <1>2 DEF IInv, TypeOK, Job
<1>4. JobOK(j) BY <1>2 DEF JobOK, CommentOps
<1>5. Go(s, j) /\ UNCHANGED <<rows, redis>> BY <1>1 DEF Begin
<1> HIDE DEF j
<1>6. QED BY <1>3, <1>4, <1>5, GoKeeps DEF IInv, TypeOK, rows, redis

\* Beginning a request about the comment.
LEMMA BeginCommentKeeps ==
    ASSUME IInv, NEW s \in Requests, NEW op \in CommentOps, BeginComment(s, op) PROVE IInv'
<1> DEFINE j == [step |-> "ready", op |-> op, read |-> comment]
<1>1. j \in Job BY DEF IInv, TypeOK, Job, CommentOps
<1>2. JobOK(j) BY DEF JobOK, BeginComment, CommentOps
<1>3. Go(s, j) /\ UNCHANGED <<rows, redis>> BY DEF BeginComment, Begin
<1> HIDE DEF j
<1>4. QED BY <1>1, <1>2, <1>3, GoKeeps DEF IInv, TypeOK, rows, redis

\* The commit about the link.
LEMMA CommitLinkKeeps ==
    ASSUME IInv, NEW s \in Requests, CommitLink(s) PROVE IInv'
<1>1. project \in Project /\ minted \in Nat /\ project.token <= minted BY DEF IInv, TypeOK
<1>2. project' \in Project /\ minted' \in Nat /\ project'.token <= minted'
  <2>1. CASE job[s].op = "disable"
    <3> DEFINE t == Merged(project.token, job[s].read.token, 0)
    <3>1. t \in {project.token, 0} BY MergedEither
    <3>2. project' = [project EXCEPT !.token = t] /\ minted' = minted BY <2>1 DEF CommitLink
    <3> HIDE DEF t
    <3>3. QED BY <1>1, <3>1, <3>2 DEF Project
  <2>2. CASE job[s].op # "disable"
    BY <1>1, <2>2 DEF CommitLink, Project
  <2>3. QED BY <2>1, <2>2
<1>3. Go(s, Idle) /\ UNCHANGED <<comment, redis>> BY DEF CommitLink
<1>4. QED BY <1>2, <1>3, GoKeeps, IdleIsGood DEF IInv, TypeOK, redis

\* The commit about the project leaves its token alone.
LEMMA CommitProjectKeeps ==
    ASSUME IInv, NEW s \in Requests, CommitProject(s)
    PROVE  IInv' /\ project'.token = project.token /\ UNCHANGED minted
<1> DEFINE read == job[s].read
           new == job[s].new
           t == Merged(project.token, read.token, new.token)
           a == Merged(project.archived, read.archived, new.archived)
           d == Merged(project.deleted, read.deleted, new.deleted)
<1>1. project \in Project BY DEF IInv, TypeOK
<1>2. read \in Project /\ new \in Project
  BY ProjectJob DEF IInv, TypeOK, CommitProject
<1>3. new.token = read.token BY DEF IInv, JobOK, CommitProject
<1>4. t = project.token BY <1>3, MergedSame
<1>5. a \in BOOLEAN /\ d \in BOOLEAN BY <1>1, <1>2 DEF Merged, Project
<1>6. project' = [token |-> t, archived |-> a, deleted |-> d] BY DEF CommitProject
<1>7. Go(s, Idle) /\ UNCHANGED <<minted, comment, redis>> BY DEF CommitProject
<1> HIDE DEF t, a, d
<1>8. project' \in Project /\ project'.token = project.token BY <1>1, <1>4, <1>5, <1>6 DEF Project
<1>9. QED BY <1>7, <1>8, GoKeeps, IdleIsGood DEF IInv, TypeOK, redis

\* The commit about the comment does not bring it back.
LEMMA CommitCommentKeeps ==
    ASSUME IInv, NEW s \in Requests, CommitComment(s)
    PROVE  IInv' /\ (comment.deleted => comment'.deleted)
<1> DEFINE read == job[s].read
           r == \/ job[s].op = "resolve"
                \/ Merged(comment.resolved, read.resolved,
                          read.resolved /\ job[s].op # "unresolve")
           d == Merged(comment.deleted, read.deleted, job[s].op = "remove")
<1>1. comment \in Comment BY DEF IInv, TypeOK
<1>2. read \in Comment /\ ~read.deleted
  BY CommentJob DEF IInv, TypeOK, JobOK, CommitComment, CommentOps
<1>3. r \in BOOLEAN BY <1>1, <1>2 DEF Merged, Comment
<1>4. d \in BOOLEAN /\ (comment.deleted => d) BY <1>1, <1>2 DEF Merged, Comment
<1>5. comment' = [resolved |-> r, deleted |-> d] BY DEF CommitComment
<1>6. Go(s, Idle) /\ UNCHANGED <<project, minted, redis>> BY DEF CommitComment
<1> HIDE DEF r, d
<1>7. comment' \in Comment /\ (comment.deleted => comment'.deleted)
  BY <1>3, <1>4, <1>5 DEF Comment
<1>8. QED BY <1>6, <1>7, GoKeeps, IdleIsGood DEF IInv, TypeOK, redis

\* The steps of the anonymous read.
Reads(s) == Count(s) \/ SetExpiry(s) \/ LoseExpiry(s) \/ Serve(s) \/ Abort(s)

\* None of them touches the project or the comment.
LEMMA ReadKeeps ==
    ASSUME IInv, NEW s \in Requests, Reads(s) PROVE IInv' /\ UNCHANGED rows
<1>1. counter \in [count: Nat, expires: BOOLEAN] /\ lost \in BOOLEAN BY DEF IInv, TypeOK
<1>2. CASE Count(s)
  <2> DEFINE used == IF counter.count > Limit THEN counter.count ELSE counter.count + 1
             x == IF SetsExpiry(used) THEN "first" ELSE "counted"
  <2>1. used \in Nat BY <1>1
  <2>2. counter' = [counter EXCEPT !.count = used] /\ Go(s, [step |-> x]) /\ UNCHANGED <<rows, lost>>
    BY <1>2 DEF Count
  <2> HIDE DEF used
  <2>3. x \in {"first", "counted"} OBVIOUS
  <2>4. counter' \in [count: Nat, expires: BOOLEAN] BY <1>1, <2>1, <2>2
  <2> HIDE DEF x
  <2>5. QED BY <2>2, <2>3, <2>4, ReadIsGood, GoKeeps DEF IInv, TypeOK, rows
<1>3. CASE SetExpiry(s)
  <2>1. counter' \in [count: Nat, expires: BOOLEAN] BY <1>1, <1>3 DEF SetExpiry
  <2>2. Go(s, [step |-> "counted"]) /\ UNCHANGED <<rows, lost>> BY <1>3 DEF SetExpiry
  <2>3. QED BY <2>1, <2>2, ReadIsGood, GoKeeps DEF IInv, TypeOK, rows
<1>4. CASE LoseExpiry(s)
  <2>1. Go(s, [step |-> "counted"]) \/ Go(s, Idle) BY <1>4 DEF LoseExpiry
  <2>2. lost' = TRUE /\ UNCHANGED <<rows, counter>> BY <1>4 DEF LoseExpiry
  <2>3. job' \in [Requests -> Job] /\ \A x \in Requests : JobOK(job'[x])
    BY <2>1, ReadIsGood, GoKeeps, IdleIsGood DEF IInv, TypeOK
  <2>4. QED BY <2>2, <2>3 DEF IInv, TypeOK, rows
<1>5. CASE Serve(s) BY <1>5, GoKeeps, IdleIsGood DEF Serve, IInv, TypeOK, rows, redis
<1>6. CASE Abort(s) BY <1>6, GoKeeps, IdleIsGood DEF Abort, IInv, TypeOK, rows, redis
<1>7. QED BY <1>2, <1>3, <1>4, <1>5, <1>6 DEF Reads

\* The end of a window touches the counter alone.
LEMMA ExpireKeeps == ASSUME IInv, Expire PROVE IInv' /\ UNCHANGED rows
BY DEF IInv, TypeOK, Expire, rows

\* The steps that write nothing to the rows.
Quiet(s) ==
    \/ \E op \in LinkOps : BeginLink(s, op)
    \/ \E op \in CommentOps : BeginComment(s, op)
    \/ BeginProject(s)
    \/ Reads(s)

\* The steps, in the order the proofs take them.
LEMMA NextCases ==
    Next <=> \/ Expire
             \/ \E s \in Requests :
                   Quiet(s) \/ CommitLink(s) \/ CommitProject(s) \/ CommitComment(s)
BY DEF Next, Quiet, Reads, LinkOps, CommentOps

\* A quiet step keeps the invariant and the rows.
LEMMA QuietKeeps ==
    ASSUME IInv, NEW s \in Requests, Quiet(s) PROVE IInv' /\ UNCHANGED rows
<1>1. CASE \E op \in LinkOps : BeginLink(s, op)
  BY <1>1, BeginLinkKeeps DEF BeginLink, Begin
<1>2. CASE \E op \in CommentOps : BeginComment(s, op)
  BY <1>2, BeginCommentKeeps DEF BeginComment, Begin
<1>3. CASE BeginProject(s) BY <1>3, BeginProjectKeeps DEF BeginProject, Begin
<1>4. CASE Reads(s) BY <1>4, ReadKeeps
<1>5. QED BY <1>1, <1>2, <1>3, <1>4 DEF Quiet

\* The inductive step.
LEMMA NextIInv == IInv /\ [Next]_vars => IInv'
<1> SUFFICES ASSUME IInv, [Next]_vars PROVE IInv' OBVIOUS
<1>1. CASE Expire BY <1>1, ExpireKeeps
<1>2. ASSUME NEW s \in Requests, Quiet(s) \/ CommitLink(s) \/ CommitProject(s) \/ CommitComment(s)
      PROVE  IInv'
  BY <1>2, QuietKeeps, CommitLinkKeeps, CommitProjectKeeps, CommitCommentKeeps
<1>3. CASE UNCHANGED vars BY <1>3 DEF IInv, TypeOK, JobOK, vars, rows, redis
<1>4. QED BY <1>1, <1>2, <1>3, NextCases

\* Every reachable state satisfies the invariant.
LEMMA Inductive == Spec => []IInv
BY InitIInv, NextIInv, PTL DEF Spec

\* Every reachable state of the link, the comment and the counter is well typed.
THEOREM TypeCorrect == Spec => []TypeOK
<1>1. IInv => TypeOK BY DEF IInv
<1>2. QED BY <1>1, Inductive, PTL

\* The step promised by GoneStaysGone.
NothingComesBack ==
    /\ project'.token # project.token => project'.token \in {0} \cup (minted + 1)..minted'
    /\ comment.deleted => comment'.deleted

\* No step brings anything back.
LEMMA StepTakesAway == IInv /\ [Next]_vars => NothingComesBack
<1> SUFFICES ASSUME IInv, [Next]_vars PROVE NothingComesBack OBVIOUS
<1>1. ASSUME UNCHANGED rows PROVE NothingComesBack BY <1>1 DEF NothingComesBack, rows
<1>2. CASE Expire BY <1>1, <1>2, ExpireKeeps
<1>3. ASSUME NEW s \in Requests, Quiet(s) PROVE NothingComesBack BY <1>1, <1>3, QuietKeeps
<1>4. ASSUME NEW s \in Requests, CommitLink(s) PROVE NothingComesBack
  <2>1. project \in Project /\ minted \in Nat BY DEF IInv, TypeOK
  <2>2. CASE job[s].op = "disable"
    <3> DEFINE t == Merged(project.token, job[s].read.token, 0)
    <3>1. t \in {project.token, 0} BY MergedEither
    <3>2. project' = [project EXCEPT !.token = t] /\ UNCHANGED comment BY <1>4, <2>2 DEF CommitLink
    <3> HIDE DEF t
    <3>3. project'.token = t BY <2>1, <3>2 DEF Project
    <3>4. QED BY <3>1, <3>2, <3>3 DEF NothingComesBack
  <2>3. CASE job[s].op # "disable"
    <3>1. project'.token = minted + 1 /\ minted' = minted + 1 /\ UNCHANGED comment
      BY <1>4, <2>1, <2>3 DEF CommitLink, Project
    <3>2. QED BY <2>1, <3>1 DEF NothingComesBack
  <2>4. QED BY <2>2, <2>3
<1>5. ASSUME NEW s \in Requests, CommitProject(s) PROVE NothingComesBack
  <2>1. project'.token = project.token BY <1>5, CommitProjectKeeps
  <2>2. UNCHANGED comment BY <1>5 DEF CommitProject
  <2>3. QED BY <2>1, <2>2 DEF NothingComesBack
<1>6. ASSUME NEW s \in Requests, CommitComment(s) PROVE NothingComesBack
  <2>1. comment.deleted => comment'.deleted BY <1>6, CommitCommentKeeps
  <2>2. UNCHANGED project BY <1>6 DEF CommitComment
  <2>3. QED BY <2>1, <2>2 DEF NothingComesBack
<1>7. CASE UNCHANGED vars BY <1>1, <1>7 DEF vars, rows
<1>8. QED BY <1>2, <1>3, <1>4, <1>5, <1>6, <1>7, NextCases

\* What was taken away does not come back, however the requests overlap
\* (rotate_public_link, disable_public_link, delete_comment).
THEOREM GoneStaysGoneHolds == Spec => GoneStaysGone
<1>1. IInv /\ [Next]_vars => [NothingComesBack]_vars BY StepTakesAway
<1>2. Spec => [][NothingComesBack]_vars BY <1>1, Inductive, PTL DEF Spec
<1>3. QED BY <1>2 DEF GoneStaysGone, NothingComesBack

\* Somebody asked for the link to go.
AskedFor ==
    project.token # 0 /\ project'.token # project.token =>
        \E s \in Requests :
            /\ job[s].step = "ready" /\ job'[s] = Idle
            /\ job[s].op \in {"rotate", "disable"} \/ (job[s].op = "enable" /\ job[s].read.token = 0)

\* No step takes a link unasked.
LEMMA StepAsked == IInv /\ [Next]_vars => AskedFor
<1> SUFFICES ASSUME IInv, [Next]_vars PROVE AskedFor OBVIOUS
<1>1. ASSUME UNCHANGED project PROVE AskedFor BY <1>1 DEF AskedFor
<1>2. CASE Expire BY <1>1, <1>2, ExpireKeeps DEF rows
<1>3. ASSUME NEW s \in Requests, Quiet(s) PROVE AskedFor BY <1>1, <1>3, QuietKeeps DEF rows
<1>4. ASSUME NEW s \in Requests, CommitLink(s) PROVE AskedFor
  <2>1. job'[s] = Idle BY <1>4 DEF CommitLink, Go, IInv, TypeOK
  <2>2. job[s].step = "ready" /\ job[s].op \in LinkOps BY <1>4 DEF CommitLink, LinkOps
  <2>3. job[s].op = "enable" => job[s].read.token = 0 BY <2>2 DEF IInv, JobOK
  <2>4. QED BY <2>1, <2>2, <2>3 DEF AskedFor, LinkOps
<1>5. ASSUME NEW s \in Requests, CommitProject(s) PROVE AskedFor
  BY <1>5, CommitProjectKeeps DEF AskedFor
<1>6. ASSUME NEW s \in Requests, CommitComment(s) PROVE AskedFor
  BY <1>1, <1>6 DEF CommitComment
<1>7. CASE UNCHANGED vars BY <1>1, <1>7 DEF vars, rows
<1>8. QED BY <1>2, <1>3, <1>4, <1>5, <1>6, <1>7, NextCases

\* A link in force goes only at the hands of somebody who asked for that, or who had
\* found the project without one (enable_public_link).
THEOREM LinkStaysHolds == Spec => LinkStays
<1>1. IInv /\ [Next]_vars => [AskedFor]_vars BY StepAsked
<1>2. Spec => [][AskedFor]_vars BY <1>1, Inductive, PTL DEF Spec
<1>3. QED BY <1>2 DEF LinkStays, AskedFor

-----------------------------------------------------------------------------
(* The counter of the anonymous reads. *)

\* A counter without an expiry waits for the request that raised it first, unless that
\* one was lost.
ExpiryComes ==
    counter.count > 0 /\ ~counter.expires => lost \/ \E s \in Requests : job[s].step = "first"

\* A request that is not the first of its window does not delay the expiry.
LEMMA OthersWait ==
    ASSUME IInv, ExpiryComes, NEW s \in Requests, NEW j, Go(s, j), job[s].step # "first",
           UNCHANGED redis
    PROVE  ExpiryComes'
<1>1. \A x \in Requests : x # s => job'[x] = job[x] BY DEF IInv, TypeOK, Go
<1>2. QED BY <1>1 DEF ExpiryComes, redis

\* The first request of a window owes the expiry; the others find it owed or done.
LEMMA CountOwes == ASSUME IInv, ExpiryComes, NEW s \in Requests, Count(s) PROVE ExpiryComes'
<1> DEFINE used == IF counter.count > Limit THEN counter.count ELSE counter.count + 1
           j == [step |-> IF SetsExpiry(used) THEN "first" ELSE "counted"]
<1>1. counter \in [count: Nat, expires: BOOLEAN] /\ job \in [Requests -> Job]
  BY DEF IInv, TypeOK
<1>2. job[s] = Idle /\ counter' = [counter EXCEPT !.count = used] /\ Go(s, j) /\ lost' = lost
  BY DEF Count
<1>3. counter'.expires = counter.expires BY <1>1, <1>2
<1>4. \A x \in Requests : job'[x] = IF x = s THEN j ELSE job[x] BY <1>1, <1>2 DEF Go
<1>5. CASE counter.count = 0
  <2>1. used = 1 BY <1>5, ConstantsOK
  <2>2. j.step = "first" BY <2>1 DEF SetsExpiry
  <2>3. QED BY <1>4, <2>2 DEF ExpiryComes
<1>6. CASE counter.count > 0
  <2>1. counter.expires \/ lost \/ \E x \in Requests : job[x].step = "first"
    BY <1>6 DEF ExpiryComes
  <2>2. job[s].step # "first" BY <1>2 DEF Idle
  <2>3. QED BY <1>2, <1>3, <1>4, <2>1, <2>2 DEF ExpiryComes
<1>7. QED BY <1>1, <1>5, <1>6

\* Every step keeps the promise of an expiry.
LEMMA NextOwes == IInv /\ ExpiryComes /\ [Next]_vars => ExpiryComes'
<1> SUFFICES ASSUME IInv, ExpiryComes, [Next]_vars PROVE ExpiryComes' OBVIOUS
<1>1. CASE Expire
  <2>1. counter'.count = 0 BY <1>1 DEF Expire
  <2>2. QED BY <2>1 DEF ExpiryComes
<1>2. ASSUME NEW s \in Requests, Quiet(s) \/ CommitLink(s) \/ CommitProject(s) \/ CommitComment(s)
      PROVE  ExpiryComes'
  <2>1. CASE \/ \E op \in LinkOps : BeginLink(s, op)
             \/ \E op \in CommentOps : BeginComment(s, op)
             \/ BeginProject(s)
    <3>1. job[s] = Idle /\ UNCHANGED redis /\ \E j : Go(s, j)
      BY <2>1 DEF BeginLink, BeginComment, BeginProject, Begin
    <3>2. QED BY <3>1, OthersWait DEF Idle
  <2>2. CASE CommitLink(s) \/ CommitProject(s) \/ CommitComment(s) \/ Serve(s) \/ Abort(s)
    <3>1. job[s].step \in {"ready", "counted"} /\ UNCHANGED redis /\ Go(s, Idle)
      BY <2>2 DEF CommitLink, CommitProject, CommitComment, Serve, Abort
    <3>2. QED BY <3>1, OthersWait
  <2>3. CASE Count(s) BY <2>3, CountOwes
  <2>4. CASE SetExpiry(s)
    <3>1. counter'.expires = TRUE BY <2>4 DEF SetExpiry, IInv, TypeOK
    <3>2. QED BY <3>1 DEF ExpiryComes
  <2>5. CASE LoseExpiry(s) BY <2>5 DEF LoseExpiry, ExpiryComes
  <2>6. QED BY <1>2, <2>1, <2>2, <2>3, <2>4, <2>5 DEF Quiet, Reads
<1>3. CASE UNCHANGED vars BY <1>3 DEF ExpiryComes, vars, redis
<1>4. QED BY <1>1, <1>2, <1>3, NextCases

\* A counter always has its expiry, or a request that is about to set it, unless one
\* was lost: the safety that WindowEnds rests on, for any limit (consume).
THEOREM ExpiryComesHolds == Spec => []ExpiryComes
<1>1. Init => ExpiryComes BY DEF Init, ExpiryComes
<1>2. QED BY <1>1, NextOwes, Inductive, PTL DEF Spec
=============================================================================
