------------------------------ MODULE Sharing ------------------------------
(***************************************************************************)
(* What a project shows to others: its public link, opened by anybody who  *)
(* holds the token and throttled for each caller by a counter in Redis,    *)
(* and one comment on it.                                                  *)
(*                                                                         *)
(* A request reads the project or the comment when access is resolved and  *)
(* writes at its commit, under READ COMMITTED and without a lock; the ORM  *)
(* writes only the columns whose value differs from the one it read.       *)
(***************************************************************************)
EXTENDS Naturals

CONSTANTS Requests,  \* bound: requests in flight at one time
          MaxTokens, \* bound on the tokens ever minted
          Limit      \* RATE_LIMIT_PUBLIC_READ, requests in one window; beyond it
                     \* all counts are alike

ASSUME ConstantsOK == MaxTokens \in Nat /\ Limit \in Nat \ {0}

VARIABLES project, \* the row: public_token, 0 for NULL, is_archived and is_deleted
          minted,  \* how many tokens were ever minted
          comment, \* the row: whether resolved_at is set, and is_deleted
          counter, \* the caller's key: how often it was raised, and whether it expires
          lost,    \* history: an EXPIRE was not done
          job      \* job[s]: a request

vars == <<project, minted, comment, counter, lost, job>>
rows == <<project, minted, comment>>
redis == <<counter, lost>>

Idle == [step |-> "idle"]
Project == [token: Nat, archived: BOOLEAN, deleted: BOOLEAN]
Comment == [resolved: BOOLEAN, deleted: BOOLEAN]
Job == {Idle} \cup
       [step: {"ready"}, op: {"enable", "rotate", "disable"}, read: Project] \cup
       [step: {"ready"}, op: {"project"}, read: Project, new: Project] \cup
       [step: {"ready"}, op: {"resolve", "unresolve", "remove"}, read: Comment] \cup
       [step: {"first", "counted"}]

TypeOK ==
    /\ project \in Project /\ minted \in Nat /\ project.token <= minted
    /\ comment \in Comment
    /\ counter \in [count: Nat, expires: BOOLEAN] /\ lost \in BOOLEAN
    /\ job \in [Requests -> Job]

Init ==
    /\ project = [token |-> 0, archived |-> FALSE, deleted |-> FALSE]
    /\ minted = 0
    /\ comment = [resolved |-> FALSE, deleted |-> FALSE]
    /\ counter = [count |-> 0, expires |-> FALSE] /\ lost = FALSE
    /\ job = [s \in Requests |-> Idle]

-----------------------------------------------------------------------------
Go(s, j) == job' = [job EXCEPT ![s] = j]

Begin(s, j) ==
    /\ job[s] = Idle
    /\ Go(s, j)
    /\ UNCHANGED <<rows, redis>>

\* Mutant of Merged: the row is written as it was read, with the change.
MergedWhole(now, read, new) == new

\* What an UPDATE leaves in a column: the new value, unless that is the one read.
Merged(now, read, new) == IF new = read THEN now ELSE new

-----------------------------------------------------------------------------
(* The owner's requests. *)

\* Mutant of Asked: enabling mints a token whether there is one or not.
AskedAlways(op) == op = "disable" => project.token # 0

\* Enabling a link that is on, and taking down one that is off, are answered
\* without a write.
Asked(op) ==
    /\ op = "enable" => project.token = 0
    /\ op = "disable" => project.token # 0

\* load_project takes no deleted project.
BeginLink(s, op) ==
    /\ ~project.deleted
    /\ Asked(op)
    /\ Begin(s, [step |-> "ready", op |-> op, read |-> project])

\* rotate_public_link hands over to enable_public_link when there is nothing to replace.
CommitLink(s) ==
    /\ job[s].step = "ready" /\ job[s].op \in {"enable", "rotate", "disable"}
    /\ IF job[s].op = "disable"
       THEN /\ project' = [project EXCEPT !.token = Merged(@, job[s].read.token, 0)]
            /\ UNCHANGED minted
       ELSE /\ minted < MaxTokens
            /\ minted' = minted + 1
            /\ project' = [project EXCEPT !.token = minted + 1]
    /\ Go(s, Idle)
    /\ UNCHANGED <<comment, redis>>

\* update_project with is_archived, delete_project, and restore_project from the trash.
BeginProject(s) ==
    \E new \in {[project EXCEPT !.archived = ~@], [project EXCEPT !.deleted = ~@]} :
       /\ project.deleted => ~new.deleted
       /\ Begin(s, [step |-> "ready", op |-> "project", read |-> project, new |-> new])

CommitProject(s) ==
    /\ job[s].step = "ready" /\ job[s].op = "project"
    /\ LET read == job[s].read
           new == job[s].new IN
       project' = [token |-> Merged(project.token, read.token, new.token),
                   archived |-> Merged(project.archived, read.archived, new.archived),
                   deleted |-> Merged(project.deleted, read.deleted, new.deleted)]
    /\ Go(s, Idle)
    /\ UNCHANGED <<minted, comment, redis>>

\* update_comment with resolved, delete_comment.
BeginComment(s, op) ==
    /\ ~project.deleted /\ ~comment.deleted
    /\ Begin(s, [step |-> "ready", op |-> op, read |-> comment])

\* Resolving stamps a new time in any case.
CommitComment(s) ==
    /\ job[s].step = "ready" /\ job[s].op \in {"resolve", "unresolve", "remove"}
    /\ LET read == job[s].read IN
       comment' =
         [resolved |-> \/ job[s].op = "resolve"
                       \/ Merged(comment.resolved, read.resolved,
                                 read.resolved /\ job[s].op # "unresolve"),
          deleted |-> Merged(comment.deleted, read.deleted, job[s].op = "remove")]
    /\ Go(s, Idle)
    /\ UNCHANGED <<project, minted, redis>>

-----------------------------------------------------------------------------
(* The anonymous read. *)

\* Mutant of SetsExpiry: the count is taken for the one before it was raised.
SetsExpiryZero(used) == used = 0

\* The first request of a window sets its expiry.
SetsExpiry(used) == used = 1

\* consume: INCR.
Count(s) ==
    /\ job[s] = Idle
    /\ LET used == IF counter.count > Limit THEN counter.count ELSE counter.count + 1 IN
       /\ counter' = [counter EXCEPT !.count = used]
       /\ Go(s, [step |-> IF SetsExpiry(used) THEN "first" ELSE "counted"])
    /\ UNCHANGED <<rows, lost>>

\* consume: EXPIRE, a command of its own.
SetExpiry(s) ==
    /\ job[s].step = "first"
    /\ counter' = [counter EXCEPT !.expires = TRUE]
    /\ Go(s, [step |-> "counted"])
    /\ UNCHANGED <<rows, lost>>

\* Redis fails between the two: the request is let through. Or the server stops.
LoseExpiry(s) ==
    /\ job[s].step = "first"
    /\ lost' = TRUE
    /\ \/ Go(s, [step |-> "counted"])
       \/ Go(s, Idle)
    /\ UNCHANGED <<rows, counter>>

\* The page, or a refusal, or the server stops: nothing is written.
Serve(s) ==
    /\ job[s].step = "counted"
    /\ Go(s, Idle)
    /\ UNCHANGED <<rows, redis>>

\* The window ends.
Expire ==
    /\ counter.count > 0 /\ counter.expires
    /\ counter' = [count |-> 0, expires |-> FALSE]
    /\ UNCHANGED <<rows, lost, job>>

\* A transaction that is refused, or the server stops.
Abort(s) ==
    /\ job[s].step = "ready"
    /\ Go(s, Idle)
    /\ UNCHANGED <<rows, redis>>

-----------------------------------------------------------------------------
Next ==
    \/ \E s \in Requests :
          \/ \E op \in {"enable", "rotate", "disable"} : BeginLink(s, op)
          \/ \E op \in {"resolve", "unresolve", "remove"} : BeginComment(s, op)
          \/ BeginProject(s)
          \/ CommitLink(s) \/ CommitProject(s) \/ CommitComment(s)
          \/ Count(s) \/ SetExpiry(s) \/ LoseExpiry(s) \/ Serve(s) \/ Abort(s)
    \/ Expire

Spec == Init /\ [][Next]_vars

\* A request goes on, and Redis drops a key whose time has come.
FairSpec == Spec /\ WF_vars(Expire) /\ \A s \in Requests : WF_vars(SetExpiry(s))
-----------------------------------------------------------------------------
\* What was taken away does not come back with a later write of its row: a token
\* that was replaced or taken down, a deleted comment (rotate_public_link,
\* disable_public_link, delete_comment).
GoneStaysGone ==
    [][/\ project'.token # project.token => project'.token \in {0} \cup (minted + 1)..minted'
       /\ comment.deleted => comment'.deleted]_vars

\* A link in force is replaced or taken down only by whoever asked for that, or by
\* an enabling request that had found the project without one (enable_public_link).
LinkStays ==
    [][project.token # 0 /\ project'.token # project.token =>
          \E s \in Requests :
              /\ job[s].step = "ready" /\ job'[s] = Idle
              /\ job[s].op \in {"rotate", "disable"} \/ (job[s].op = "enable" /\ job[s].read.token = 0)]_vars

\* A caller whose quota is spent is served again one day, unless the expiry of the
\* counter was never set (consume).
WindowEnds == counter.count > Limit ~> counter.count = 0 \/ lost
=============================================================================
