----------------------------- MODULE ProjectDoc -----------------------------
(***************************************************************************)
(* One project's document row under concurrent requests: saves (REST and   *)
(* socket), restores of an old version, named snapshots, renames, trash    *)
(* and un-trash.  A request reads the row when its access is resolved,     *)
(* may wait for the row lock, and then commits, is refused, or dies.       *)
(*                                                                         *)
(* Postgres READ COMMITTED: a step is a statement, a transaction's writes  *)
(* become visible at its commit, and an UPDATE of a row somebody else has  *)
(* locked waits for that lock.                                             *)
(***************************************************************************)
EXTENDS Naturals, FiniteSets, Sequences

CONSTANTS Requests,     \* requests that can be in flight together
          Users,        \* accounts with EDITOR access or more
          Contents,     \* document contents other than the blank one
          Empty,        \* {}, the document a project may be born with
          NoBase,       \* base_version omitted
          NoJob,        \* a request slot that is not in use
          Unread,       \* a row the request has yet to read for good
          Ops,          \* bound: the operations an instance exercises
          Modes,        \* bound: the snapshots its saves take
          VersionLimit, \* settings.PROJECT_VERSION_LIMIT
          MaxRevisions  \* bound on doc_version

Docs == Contents \cup {Empty}

\* projects row: the columns the document path reads or writes.
Row == [doc: Docs, doc_version: Nat, updated_by: Users, is_deleted: BOOLEAN]

\* project_versions row. Labels are not kept apart: "named" is is_auto = FALSE.
VersionRow == [doc: Docs, doc_version: Nat, is_auto: BOOLEAN, created_by: Users]

\* A run of saves by one person in the activity feed.
EditEntry == [actor: Users, from_version: Nat, to_version: Nat, edits: Nat]

\* A request in flight. `seen` is the row as the session last read it, `mode`
\* the snapshot its write takes of the document it replaces.
AllOps == {"save", "restore", "name", "update", "trash", "untrash"}
AllModes == {"none", "auto", "named"}

Job == [stage: {"resolved", "locked"}, op: AllOps,
        user: Users, base: Nat \cup {NoBase}, doc: Docs, mode: AllModes,
        seen: Row \cup {Unread}]

ASSUME ConstantsOK ==
    /\ Empty \notin Contents
    /\ NoBase \notin Nat
    /\ NoJob \notin Job
    /\ Unread \notin Row
    /\ Ops \subseteq AllOps
    /\ Modes \subseteq AllModes
    /\ VersionLimit \in Nat \ {0}
    /\ MaxRevisions \in Nat \ {0}

VARIABLES project,   \* the committed projects row
          versions,  \* the committed project_versions rows
          feed,      \* the committed PROJECT_UPDATED feed entries
          job,       \* job[p]: the request in slot p
          revisions  \* history: revisions[k] is the write that made version k

vars == <<project, versions, feed, job, revisions>>

Revision == [doc: Docs, by: Users, base: Nat \cup {NoBase},
             op: {"create", "save", "restore"}, mode: AllModes]

\* Well-typed states; doc_version counts the revisions there have been.
TypeOK ==
    /\ project \in Row
    /\ versions \subseteq VersionRow
    /\ feed \subseteq EditEntry
    /\ job \in [Requests -> Job \cup {NoJob}]
    /\ revisions \in Seq(Revision)
    /\ Len(revisions) = project.doc_version

-----------------------------------------------------------------------------
\* create_project: version 1, written by its creator, blank or with a document.
Init ==
    /\ \E d \in Docs, u \in Users :
        /\ project = [doc |-> d, doc_version |-> 1, updated_by |-> u, is_deleted |-> FALSE]
        /\ revisions = <<[doc |-> d, by |-> u, base |-> NoBase, op |-> "create", mode |-> "none"]>>
    /\ versions = {}
    /\ feed = {}
    /\ job = [p \in Requests |-> NoJob]

Active(p, op, stage) ==
    /\ job[p] # NoJob
    /\ job[p].op = op
    /\ job[p].stage = stage

Locked(p) == job[p] # NoJob /\ job[p].stage = "locked"

\* Nobody holds the row: SELECT ... FOR UPDATE, an UPDATE of the row and an
\* INSERT that references it can go ahead.
RowFree == \A p \in Requests : ~Locked(p)

Writers == {p \in Requests : job[p] # NoJob /\ job[p].op \in {"save", "restore"}}

Budget == Len(revisions) + Cardinality(Writers) < MaxRevisions

\* Access is resolved; nothing is written yet. What a writer of the document
\* read of the row here is used by nobody: _lock reads it again.
Start(p, op, u, base, doc, mode) ==
    /\ op \in Ops
    /\ job[p] = NoJob
    /\ job' = [job EXCEPT ![p] = [stage |-> "resolved", op |-> op, user |-> u,
                                  base |-> base, doc |-> doc, mode |-> mode,
                                  seen |-> IF op \in {"save", "restore"} THEN Unread ELSE project]]
    /\ UNCHANGED <<project, versions, feed, revisions>>

\* PUT /document takes a snapshot of what it replaces, a named one when the
\* body carries a label; the socket takes one only when its timer is due. The
\* base is a version the client was told of at some time, or omitted.
BeginSave(p) ==
    /\ ~project.is_deleted
    /\ Budget
    /\ \E u \in Users, b \in (1..project.doc_version) \cup {NoBase}, d \in Docs,
          mode \in Modes : Start(p, "save", u, b, d, mode)

\* get_version comes before the lock; a version row never changes, so what is
\* kept of it is its document.
BeginRestore(p) ==
    /\ ~project.is_deleted
    /\ Budget
    /\ \E u \in Users, v \in versions : Start(p, "restore", u, NoBase, v.doc, "auto")

BeginName(p) ==
    /\ ~project.is_deleted
    /\ \E u \in Users : Start(p, "name", u, NoBase, Empty, "named")

BeginUpdate(p) ==
    /\ ~project.is_deleted
    /\ \E u \in Users : Start(p, "update", u, NoBase, Empty, "none")

BeginTrash(p) ==
    /\ ~project.is_deleted
    /\ \E u \in Users : Start(p, "trash", u, NoBase, Empty, "none")

BeginUntrash(p) ==
    /\ project.is_deleted
    /\ \E u \in Users : Start(p, "untrash", u, NoBase, Empty, "none")

\* Mutant of Lock: a plain SELECT, without FOR UPDATE.
LockUnlocked(p) ==
    /\ Active(p, "save", "resolved") \/ Active(p, "restore", "resolved")
    /\ job' = [job EXCEPT ![p].stage = "locked", ![p].seen = project]
    /\ UNCHANGED <<project, versions, feed, revisions>>

\* _lock: wait for the row, then read it again into the session
\* (populate_existing).
Lock(p) ==
    /\ Active(p, "save", "resolved") \/ Active(p, "restore", "resolved")
    /\ RowFree
    /\ job' = [job EXCEPT ![p].stage = "locked", ![p].seen = project]
    /\ UNCHANGED <<project, versions, feed, revisions>>

\* The version check of save_doc.
Stale(j) == j.base # NoBase /\ j.base # j.seen.doc_version

\* Mutant of Refuse: the refusal goes out with the transaction still open.
RefuseHolding(p) ==
    /\ Active(p, "save", "locked")
    /\ Stale(job[p])
    /\ UNCHANGED vars

\* 409: the transaction rolls back, which releases the row.
Refuse(p) ==
    /\ Active(p, "save", "locked")
    /\ Stale(job[p])
    /\ job' = [job EXCEPT ![p] = NoJob]
    /\ UNCHANGED <<project, versions, feed, revisions>>

\* Mutant of Prune: the pending INSERT is not flushed, so OFFSET misses it.
PruneUnflushed(rows) ==
    rows \ {r \in rows :
        /\ r.is_auto
        /\ Cardinality({s \in rows : s.is_auto /\ s.doc_version > r.doc_version})
              > VersionLimit}

\* Mutant of Prune: the filter on is_auto is forgotten.
PruneNamed(rows) ==
    rows \ {r \in rows :
        Cardinality({s \in rows : s.doc_version > r.doc_version}) >= VersionLimit}

\* _prune_auto_versions: keep the newest VersionLimit automatic rows. They are
\* flushed under the row lock, each by a write that then raises doc_version, so
\* newest by created_at is newest by doc_version.
Prune(rows) ==
    rows \ {r \in rows :
        /\ r.is_auto
        /\ Cardinality({s \in rows : s.is_auto /\ s.doc_version > r.doc_version})
              >= VersionLimit}

\* Mutant of VersionOf: the snapshot is numbered as the write about to happen.
VersionOfNext(row, auto) ==
    [doc |-> row.doc, doc_version |-> row.doc_version + 1, is_auto |-> auto,
     created_by |-> row.updated_by]

\* The row _snapshot stores: the document as the session holds it, stamped with
\* whoever updated the project last.
VersionOf(row, auto) ==
    [doc |-> row.doc, doc_version |-> row.doc_version, is_auto |-> auto,
     created_by |-> row.updated_by]

\* _snapshot: nothing for a blank document; an automatic row is pruned after.
Snapshot(rows, row, mode) ==
    IF row.doc = Empty \/ mode = "none" THEN rows
    ELSE IF mode = "auto" THEN Prune(rows \cup {VersionOf(row, TRUE)})
    ELSE rows \cup {VersionOf(row, FALSE)}

\* The document write both save_doc and restore_version end with, from the row
\* their session holds.
WriteDoc(p) ==
    LET j == job[p] IN
    /\ versions' = Snapshot(versions, j.seen, j.mode)
    /\ project' = [j.seen EXCEPT !.doc = j.doc, !.doc_version = @ + 1, !.updated_by = j.user]
    /\ revisions' = Append(revisions, [doc |-> j.doc, by |-> j.user, base |-> j.base,
                                       op |-> j.op, mode |-> j.mode])
    /\ job' = [job EXCEPT ![p] = NoJob]

\* record_edit: extend the author's latest run if it began less than
\* EDIT_SESSION_MINUTES ago, else begin one. How much time has passed is free.
ContinueRun(u, v) ==
    \E e \in feed :
        /\ e.actor = u
        /\ \A f \in feed : f.actor = u => f.to_version <= e.to_version
        /\ feed' = (feed \ {e}) \cup 
               {[actor |-> u, from_version |-> e.from_version,
                 to_version |-> v, edits |-> e.edits + 1]}

\* Mutant of BeginRun: the run starts at the version the save made.
BeginRunLate(u, v) ==
    feed' = feed \cup {[actor |-> u, from_version |-> v, to_version |-> v, edits |-> 1]}

BeginRun(u, v) ==
    feed' = feed \cup {[actor |-> u, from_version |-> v - 1, to_version |-> v, edits |-> 1]}

RecordEdit(u, v) == ContinueRun(u, v) \/ BeginRun(u, v)

CommitSave(p) ==
    /\ Active(p, "save", "locked")
    /\ ~Stale(job[p])
    /\ WriteDoc(p)
    /\ RecordEdit(job[p].user, job[p].seen.doc_version + 1)

CommitRestore(p) ==
    /\ Active(p, "restore", "locked")
    /\ WriteDoc(p)
    /\ UNCHANGED feed

\* save_version takes no lock: it stores the row as it was when access was
\* resolved, and is refused on a blank document. Its INSERT references the
\* project row, so it waits for a writer that holds it.
CommitName(p) ==
    /\ Active(p, "name", "resolved")
    /\ RowFree
    /\ versions' = Snapshot(versions, job[p].seen, "named")
    /\ job' = [job EXCEPT ![p] = NoJob]
    /\ UNCHANGED <<project, feed, revisions>>

\* An unlocked write of the row: only the columns whose value differs from what
\* the session read are sent, so a user already in updated_by is not.
Touch(p, deleted) ==
    LET j == job[p] IN
    /\ RowFree
    /\ project' = [project EXCEPT
          !.updated_by = IF j.user = j.seen.updated_by THEN @ ELSE j.user,
          !.is_deleted = deleted]
    /\ job' = [job EXCEPT ![p] = NoJob]
    /\ UNCHANGED <<versions, feed, revisions>>

\* update_project: a new name, description or archive flag, and updated_by.
CommitUpdate(p) == Active(p, "update", "resolved") /\ Touch(p, project.is_deleted)

CommitTrash(p) == Active(p, "trash", "resolved") /\ Touch(p, TRUE)

CommitUntrash(p) == Active(p, "untrash", "resolved") /\ Touch(p, FALSE)

\* The worker, the connection or the client goes away: rollback.
Die(p) ==
    /\ job[p] # NoJob
    /\ job' = [job EXCEPT ![p] = NoJob]
    /\ UNCHANGED <<project, versions, feed, revisions>>

\* What the server does by itself once a request is in.
Finish(p) ==
    \/ Refuse(p)
    \/ CommitSave(p)
    \/ CommitRestore(p)
    \/ CommitName(p)
    \/ CommitUpdate(p)
    \/ CommitTrash(p)
    \/ CommitUntrash(p)

Next ==
    \E p \in Requests :
        \/ BeginSave(p)
        \/ BeginRestore(p)
        \/ BeginName(p)
        \/ BeginUpdate(p)
        \/ BeginTrash(p)
        \/ BeginUntrash(p)
        \/ Lock(p)
        \/ Finish(p)
        \/ Die(p)

Spec == Init /\ [][Next]_vars

\* A handler that can proceed does; Postgres queues the waiters of a row lock,
\* so a waiter that keeps finding the row free is served in the end.
Fairness == \A p \in Requests : SF_vars(Lock(p)) /\ SF_vars(Finish(p))

FairSpec == Spec /\ Fairness

-----------------------------------------------------------------------------
\* A save that named its base replaced exactly that revision: nobody's accepted
\* write is overwritten by somebody who had not seen it (save_doc, _lock).
NoLostUpdate ==
    \A k \in 2..Len(revisions) :
        revisions[k].base # NoBase => revisions[k].base = k - 1

\* Every stored version is a document the project really had, at that version,
\* also when an unlocked save_version stores a row it read long ago.
VersionRowsAreHistory ==
    \A r \in versions :
        /\ r.doc_version \in 1..Len(revisions)
        /\ r.doc = revisions[r.doc_version].doc

\* Work under an automatic snapshot can be got back: the document it replaced is
\* stored until VersionLimit later writes have been snapshotted, and no longer.
OverwriteRecoverable ==
    LET autos == {r \in versions : r.is_auto}
    IN  /\ Cardinality(autos) <= VersionLimit
        /\ \A k \in 2..Len(revisions) :
              revisions[k].mode = "auto" /\ revisions[k - 1].doc # Empty =>
                 \/ \E r \in autos : r.doc_version = k - 1
                 \/ Cardinality({r \in autos : r.doc_version >= k}) = VersionLimit

\* Each entry of the feed counts exactly its author's saves between its two
\* version numbers, and every save is in one entry (record_edit).
FeedMatchesHistory ==
    LET saves(e) == {k \in (e.from_version + 1)..e.to_version :
                        revisions[k].op = "save" /\ revisions[k].by = e.actor}
    IN  /\ \A e \in feed : e.edits = Cardinality(saves(e))
        /\ \A k \in 1..Len(revisions) : revisions[k].op = "save" =>
              Cardinality({e \in feed : k \in saves(e)}) = 1

\* Every request gets an answer: no writer waits for the row for ever.
EveryRequestAnswered ==
    \A p \in Requests : job[p] # NoJob ~> job[p] = NoJob

-----------------------------------------------------------------------------
\* The document row implements the revision history clients are promised.
History == INSTANCE DocHistory WITH
    current <- project.doc,
    revisions <- [k \in 1..Len(revisions) |->
                    [doc |-> revisions[k].doc, by |-> revisions[k].by,
                     base |-> revisions[k].base]],
    named <- {r.doc_version : r \in {s \in versions : ~s.is_auto}}

ImplementsHistory == History!Spec
=============================================================================
