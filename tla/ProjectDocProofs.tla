-------------------------- MODULE ProjectDocProofs --------------------------
(***************************************************************************)
(* Proofs about the document row: types, no lost update, the row lock,     *)
(* stored versions are history, named versions are kept, the row           *)
(* implements the revision history clients are promised, what was          *)
(* overwritten can be got back, and the feed counts every save.            *)
(***************************************************************************)
EXTENDS ProjectDoc, TLAPS, FiniteSetTheorems

\* What a session holds is a revision there has been.
IsHistory(row) ==
    /\ row.doc_version \in 1..Len(revisions)
    /\ row.doc = revisions[row.doc_version].doc

\* The committed row is the newest revision.
RowIsNewest ==
    /\ Len(revisions) >= 1
    /\ project.doc_version = Len(revisions)
    /\ project.doc = revisions[Len(revisions)].doc

\* One request at most holds the row lock.
OneHolder == \A p, q \in Requests : Locked(p) /\ Locked(q) => p = q

\* The holder of the lock writes the document, from the row as it is, and a
\* restore names no base; any other kind of request acts on a row that once was.
SessionRows ==
    \A p \in Requests : job[p] # NoJob =>
        IF job[p].op \in {"save", "restore"}
        THEN /\ job[p].stage = "locked" => job[p].seen = project
             /\ job[p].op = "restore" => job[p].base = NoBase
        ELSE job[p].stage = "resolved" /\ job[p].seen \in Row /\ IsHistory(job[p].seen)

IInv ==
    /\ TypeOK
    /\ RowIsNewest
    /\ OneHolder
    /\ SessionRows
    /\ NoLostUpdate
    /\ VersionRowsAreHistory

-----------------------------------------------------------------------------
\* Pruning only drops rows, and automatic ones only.
LEMMA PruneDropsAutos ==
    ASSUME NEW rows
    PROVE  /\ Prune(rows) \subseteq rows
           /\ \A r \in rows : ~r.is_auto => r \in Prune(rows)
  BY DEF Prune

\* A snapshot adds at most the row it was given, and keeps what is named.
LEMMA SnapshotAdds ==
    ASSUME NEW rows, NEW row, NEW mode
    PROVE  /\ Snapshot(rows, row, mode)
                \subseteq rows \cup {VersionOf(row, TRUE), VersionOf(row, FALSE)}
           /\ \A r \in rows : ~r.is_auto => r \in Snapshot(rows, row, mode)
  BY PruneDropsAutos DEF Snapshot

\* Appending keeps what was there.
LEMMA AppendKeeps ==
    ASSUME NEW S, NEW s \in Seq(S), NEW e \in S
    PROVE  /\ Append(s, e) \in Seq(S)
           /\ Len(Append(s, e)) = Len(s) + 1
           /\ \A k \in 1..Len(s) : Append(s, e)[k] = s[k]
           /\ Append(s, e)[Len(s) + 1] = e
  OBVIOUS

\* A snapshot of a row is a version row.
LEMMA VersionOfType ==
    ASSUME NEW row \in Row, NEW auto \in BOOLEAN
    PROVE  VersionOf(row, auto) \in VersionRow
  BY DEF VersionOf, VersionRow, Row

\* Initially the invariant holds.
LEMMA InitIInv == Init => IInv
  <1> SUFFICES ASSUME Init PROVE IInv
    OBVIOUS
  <1> PICK d \in Docs, u \in Users :
        /\ project = [doc |-> d, doc_version |-> 1, updated_by |-> u, is_deleted |-> FALSE]
        /\ revisions = <<[doc |-> d, by |-> u, base |-> NoBase, op |-> "create", mode |-> "none"]>>
    BY DEF Init
  <1> versions = {} /\ feed = {} /\ job = [p \in Requests |-> NoJob]
    BY DEF Init
  <1>1. TypeOK
    BY DEF TypeOK, Row, Revision, AllModes
  <1>2. RowIsNewest /\ OneHolder /\ SessionRows /\ NoLostUpdate /\ VersionRowsAreHistory
    BY DEF RowIsNewest, OneHolder, SessionRows, NoLostUpdate, VersionRowsAreHistory, Locked
  <1> QED BY <1>1, <1>2 DEF IInv

\* A step that only sets one request's job keeps the invariant when the new job
\* is typed, took the lock only when it was free, and holds a row that was.
LEMMA JobStep ==
    ASSUME IInv, NEW p \in Requests, NEW x \in Job \cup {NoJob},
           job' = [job EXCEPT ![p] = x],
           UNCHANGED <<project, versions, feed, revisions>>,
           x # NoJob /\ x.stage = "locked" => RowFree,
           x # NoJob =>
             IF x.op \in {"save", "restore"}
             THEN /\ x.stage = "locked" => x.seen = project
                  /\ x.op = "restore" => x.base = NoBase
             ELSE x.stage = "resolved" /\ x.seen \in Row /\ IsHistory(x.seen)
    PROVE  IInv'
  <1>1. TypeOK'
    BY DEF IInv, TypeOK
  <1>2. RowIsNewest'
    BY DEF IInv, RowIsNewest
  <1>3. OneHolder'
    BY DEF IInv, OneHolder, RowFree, Locked, TypeOK
  <1>4. SessionRows'
    BY DEF IInv, SessionRows, TypeOK, IsHistory
  <1>5. NoLostUpdate' /\ VersionRowsAreHistory'
    BY DEF IInv, NoLostUpdate, VersionRowsAreHistory
  <1> QED BY <1>1, <1>2, <1>3, <1>4, <1>5 DEF IInv

\* A request that begins has the current row in memory, or none yet.
LEMMA StartStep ==
    ASSUME IInv, NEW p \in Requests, NEW op \in AllOps, NEW u \in Users,
           NEW base \in Nat \cup {NoBase}, NEW doc \in Docs, NEW mode \in AllModes,
           op = "restore" => base = NoBase,
           Start(p, op, u, base, doc, mode)
    PROVE  IInv'
  <1> DEFINE row == IF op \in {"save", "restore"} THEN Unread ELSE project
             x == [stage |-> "resolved", op |-> op, user |-> u, base |-> base,
                   doc |-> doc, mode |-> mode, seen |-> row]
  <1>1. row \in Row \cup {Unread}
    BY DEF IInv, TypeOK
  <1>2. x \in Job
    BY <1>1 DEF Job
  <1>3. project \in Row /\ IsHistory(project)
    BY DEF IInv, TypeOK, RowIsNewest, IsHistory
  <1>4. job' = [job EXCEPT ![p] = x] /\ UNCHANGED <<project, versions, feed, revisions>>
    BY DEF Start
  <1> QED BY <1>2, <1>3, <1>4, JobStep

\* The lock hands out the row as it is (populate_existing).
LEMMA LockStep ==
    ASSUME IInv, NEW p \in Requests, Lock(p)
    PROVE  IInv'
  <1> DEFINE x == [job[p] EXCEPT !.stage = "locked", !.seen = project]
  <1>1. job[p] \in Job /\ job[p] # NoJob /\ job[p].op \in {"save", "restore"}
    BY DEF IInv, TypeOK, Lock, Active
  <1>2. project \in Row
    BY DEF IInv, TypeOK
  <1>3. /\ x \in Job /\ x.op \in {"save", "restore"} /\ x.seen = project
        /\ x.op = "restore" => x.base = NoBase
    BY <1>1, <1>2 DEF Job, IInv, SessionRows
  <1>4. /\ job' = [job EXCEPT ![p] = x]
        /\ RowFree
        /\ UNCHANGED <<project, versions, feed, revisions>>
    BY DEF Lock
  <1> HIDE DEF x
  <1> QED BY <1>3, <1>4, JobStep

\* A refused or lost request leaves the job slot free.
LEMMA EndStep ==
    ASSUME IInv, NEW p \in Requests, Refuse(p) \/ Die(p)
    PROVE  IInv'
  BY JobStep DEF Refuse, Die

\* The row lock makes the read, the comparison and the write one step.
LEMMA WriteStep ==
    ASSUME IInv, NEW p \in Requests, Locked(p), job[p].op \in {"save", "restore"},
           job[p].op = "save" => ~Stale(job[p]),
           WriteDoc(p), feed' \subseteq EditEntry
    PROVE  IInv'
  <1> DEFINE j == job[p]
             n == Len(revisions)
             e == [doc |-> j.doc, by |-> j.user, base |-> j.base,
                   op |-> j.op, mode |-> j.mode]
  <1>1. j \in Job /\ project \in Row /\ revisions \in Seq(Revision) /\ versions \subseteq VersionRow
    BY DEF IInv, TypeOK, Locked
  <1>2. /\ n \in Nat \ {0} /\ project.doc_version = n
        /\ project.doc = revisions[n].doc
    BY <1>1 DEF IInv, RowIsNewest
  <1>3. j.seen = project /\ (j.op = "restore" => j.base = NoBase)
    BY DEF IInv, SessionRows, Locked
  <1>4. e \in Revision
    BY <1>1 DEF Job, Revision
  <1>5. revisions' = Append(revisions, e)
    BY DEF WriteDoc
  <1>6. /\ revisions' \in Seq(Revision)
        /\ Len(revisions') = n + 1
        /\ \A k \in 1..n : revisions'[k] = revisions[k]
        /\ revisions'[n + 1] = e
    BY <1>1, <1>4, <1>5, AppendKeeps
  <1>7. /\ project' \in Row
        /\ project'.doc = j.doc
        /\ project'.doc_version = n + 1
    <2>1. project' = [project EXCEPT !.doc = j.doc, !.doc_version = @ + 1, !.updated_by = j.user]
      BY <1>3 DEF WriteDoc
    <2>2. j.doc \in Docs /\ j.user \in Users
      BY <1>1 DEF Job
    <2>3. project = [doc |-> project.doc, doc_version |-> n, updated_by |-> project.updated_by,
                     is_deleted |-> project.is_deleted] /\ project.is_deleted \in BOOLEAN
      BY <1>1, <1>2 DEF Row
    <2>4. project' = [doc |-> j.doc, doc_version |-> n + 1, updated_by |-> j.user,
                      is_deleted |-> project.is_deleted]
      BY <1>2, <2>1, <2>3
    <2> HIDE DEF j
    <2> QED BY <1>2, <2>2, <2>3, <2>4 DEF Row
  <1>8. \A r \in versions' : r \in versions
             \/ (r \in VersionRow /\ r.doc = project.doc /\ r.doc_version = n)
    <2>1. versions' \subseteq versions \cup {VersionOf(project, TRUE), VersionOf(project, FALSE)}
      BY <1>3, SnapshotAdds DEF WriteDoc
    <2>2. \A a \in BOOLEAN : /\ VersionOf(project, a) \in VersionRow
                             /\ VersionOf(project, a).doc = project.doc
                             /\ VersionOf(project, a).doc_version = n
      BY <1>1, <1>2, VersionOfType DEF VersionOf
    <2> QED BY <2>1, <2>2
  <1>9. job' = [job EXCEPT ![p] = NoJob]
    BY DEF WriteDoc
  <1>10. TypeOK'
    <2>1. versions' \subseteq VersionRow
      BY <1>1, <1>8
    <2>2. job' \in [Requests -> Job \cup {NoJob}]
      BY <1>9 DEF IInv, TypeOK
    <2> QED BY <1>6, <1>7, <2>1, <2>2 DEF TypeOK
  <1>11. RowIsNewest'
    BY <1>2, <1>4, <1>6, <1>7 DEF RowIsNewest
  <1>12. OneHolder'
    BY <1>9 DEF IInv, OneHolder, Locked, TypeOK
  <1>13. SessionRows'
    <2>1. ASSUME NEW q \in Requests, job'[q] # NoJob
          PROVE  /\ job'[q] = job[q]
                 /\ job[q] # NoJob
                 /\ job[q].stage # "locked"
      <3>1. q # p /\ job'[q] = job[q]
        BY <1>9, <2>1 DEF IInv, TypeOK
      <3> QED BY <2>1, <3>1 DEF IInv, OneHolder, Locked
    <2>2. ASSUME NEW row \in Row, IsHistory(row)
          PROVE  /\ row.doc_version \in 1..Len(revisions')
                 /\ row.doc = revisions'[row.doc_version].doc
      BY <1>2, <1>6, <2>2 DEF IsHistory
    <2> QED BY <2>1, <2>2 DEF IInv, SessionRows, IsHistory
  <1>14. NoLostUpdate'
    <2>1. e.base # NoBase => e.base = n
      BY <1>1, <1>2, <1>3 DEF Stale, Job
    <2> QED BY <1>2, <1>6, <2>1 DEF IInv, NoLostUpdate
  <1>15. VersionRowsAreHistory'
    BY <1>2, <1>6, <1>8 DEF IInv, VersionRowsAreHistory
  <1> QED BY <1>10, <1>11, <1>12, <1>13, <1>14, <1>15 DEF IInv

\* A named snapshot stores a revision there has been, however old its session.
LEMMA NameStep ==
    ASSUME IInv, NEW p \in Requests, CommitName(p)
    PROVE  IInv'
  <1>1. job[p] # NoJob /\ job[p].op = "name"
    BY DEF CommitName, Active
  <1>2. job[p].seen \in Row /\ IsHistory(job[p].seen)
    BY <1>1 DEF IInv, SessionRows
  <1>3. /\ versions' \subseteq versions \cup
               {VersionOf(job[p].seen, TRUE), VersionOf(job[p].seen, FALSE)}
        /\ job' = [job EXCEPT ![p] = NoJob]
        /\ UNCHANGED <<project, feed, revisions>>
    BY SnapshotAdds DEF CommitName
  <1>4. \A a \in BOOLEAN : /\ VersionOf(job[p].seen, a) \in VersionRow
                           /\ VersionOf(job[p].seen, a).doc = job[p].seen.doc
                           /\ VersionOf(job[p].seen, a).doc_version = job[p].seen.doc_version
    BY <1>2, VersionOfType DEF VersionOf
  <1>5. TypeOK'
    BY <1>3, <1>4 DEF IInv, TypeOK
  <1>6. RowIsNewest' /\ NoLostUpdate'
    BY <1>3 DEF IInv, RowIsNewest, NoLostUpdate
  <1>7. OneHolder'
    BY <1>3 DEF IInv, OneHolder, Locked, TypeOK
  <1>8. SessionRows'
    BY <1>3 DEF IInv, SessionRows, TypeOK, IsHistory
  <1>9. VersionRowsAreHistory'
    BY <1>2, <1>3, <1>4 DEF IInv, VersionRowsAreHistory, IsHistory
  <1> QED BY <1>5, <1>6, <1>7, <1>8, <1>9 DEF IInv

\* A write of the other columns leaves the document and its version alone.
LEMMA TouchStep ==
    ASSUME IInv, NEW p \in Requests, NEW deleted \in BOOLEAN,
           job[p] # NoJob, Touch(p, deleted)
    PROVE  IInv'
  <1>1. project \in Row /\ job[p] \in Job
    BY DEF IInv, TypeOK
  <1>2. /\ project' \in Row
        /\ project'.doc = project.doc
        /\ project'.doc_version = project.doc_version
    <2>1. PICK u \in Users : project' = [project EXCEPT !.updated_by = u, !.is_deleted = deleted]
      BY <1>1 DEF Touch, Row, Job
    <2> QED BY <1>1, <2>1 DEF Row
  <1>3. /\ job' = [job EXCEPT ![p] = NoJob]
        /\ \A q \in Requests : ~Locked(q)
        /\ UNCHANGED <<versions, feed, revisions>>
    BY DEF Touch, RowFree
  <1>4. TypeOK'
    BY <1>2, <1>3 DEF IInv, TypeOK
  <1>5. RowIsNewest' /\ NoLostUpdate' /\ VersionRowsAreHistory'
    BY <1>2, <1>3 DEF IInv, RowIsNewest, NoLostUpdate, VersionRowsAreHistory
  <1>6. OneHolder'
    BY <1>3 DEF IInv, OneHolder, Locked, TypeOK
  <1>7. SessionRows'
    BY <1>3 DEF IInv, SessionRows, TypeOK, IsHistory, Locked
  <1> QED BY <1>4, <1>5, <1>6, <1>7 DEF IInv

\* The feed's entries stay typed through record_edit.
LEMMA RecordEditType ==
    ASSUME TypeOK, NEW u \in Users, NEW v \in Nat \ {0}, RecordEdit(u, v)
    PROVE  feed' \subseteq EditEntry
  <1>1. CASE BeginRun(u, v)
    <2>1. v - 1 \in Nat
      OBVIOUS
    <2> QED BY <1>1, <2>1 DEF BeginRun, TypeOK, EditEntry
  <1>2. CASE ContinueRun(u, v)
    <2>1. PICK e \in feed :
             feed' = (feed \ {e}) \cup {[actor |-> u, from_version |-> e.from_version,
                                        to_version |-> v, edits |-> e.edits + 1]}
      BY <1>2 DEF ContinueRun
    <2>2. e.from_version \in Nat /\ e.edits + 1 \in Nat
      BY DEF TypeOK, EditEntry
    <2>3. [actor |-> u, from_version |-> e.from_version, to_version |-> v, edits |-> e.edits + 1]
             \in EditEntry
      BY <2>2 DEF EditEntry
    <2> QED BY <2>1, <2>3 DEF TypeOK
  <1> QED BY <1>1, <1>2 DEF RecordEdit

\* A commit under the lock appends the one revision after the row's.
LEMMA SaveStep ==
    ASSUME IInv, NEW p \in Requests, CommitSave(p) \/ CommitRestore(p)
    PROVE  IInv'
  <1>1. Locked(p) /\ job[p].op \in {"save", "restore"} /\ WriteDoc(p)
    BY DEF CommitSave, CommitRestore, Active, Locked
  <1>2. job[p].op = "save" => ~Stale(job[p])
    BY DEF CommitSave, CommitRestore, Active
  <1>3. job[p] \in Job /\ job[p].seen = project /\ project \in Row
    BY <1>1 DEF IInv, TypeOK, SessionRows, Locked
  <1>4. job[p].user \in Users /\ job[p].seen.doc_version + 1 \in Nat \ {0}
    BY <1>3 DEF Job, Row
  <1>5. feed' \subseteq EditEntry
    BY <1>4, RecordEditType DEF CommitSave, CommitRestore, IInv, TypeOK
  <1> QED BY <1>1, <1>2, <1>5, WriteStep

\* Every step keeps the invariant.
LEMMA NextIInv == IInv /\ [Next]_vars => IInv'
  <1> SUFFICES ASSUME IInv, [Next]_vars PROVE IInv'
    OBVIOUS
  <1>1. CASE UNCHANGED vars
    BY <1>1 DEF vars, IInv, TypeOK, RowIsNewest, OneHolder, Locked, SessionRows, IsHistory,
                NoLostUpdate, VersionRowsAreHistory
  <1>2. ASSUME NEW p \in Requests, BeginSave(p)
        PROVE  IInv'
    <2>1. PICK u \in Users, b \in (1..project.doc_version) \cup {NoBase}, d \in Docs,
               mode \in Modes : Start(p, "save", u, b, d, mode)
      BY <1>2 DEF BeginSave
    <2>2. b \in Nat \cup {NoBase} /\ mode \in AllModes
      BY ConstantsOK DEF IInv, TypeOK, Row
    <2> QED BY <2>1, <2>2, StartStep DEF AllOps
  <1>3. ASSUME NEW p \in Requests, BeginRestore(p)
        PROVE  IInv'
    <2>1. PICK u \in Users, v \in versions : Start(p, "restore", u, NoBase, v.doc, "auto")
      BY <1>3 DEF BeginRestore
    <2>2. v.doc \in Docs
      BY DEF IInv, TypeOK, VersionRow
    <2> QED BY <2>1, <2>2, StartStep DEF AllOps, AllModes
  <1>4. ASSUME NEW p \in Requests,
               BeginName(p) \/ BeginUpdate(p) \/ BeginTrash(p) \/ BeginUntrash(p)
        PROVE  IInv'
    <2>1. PICK u \in Users, op \in {"name", "update", "trash", "untrash"},
               mode \in {"none", "named"} : Start(p, op, u, NoBase, Empty, mode)
      BY <1>4 DEF BeginName, BeginUpdate, BeginTrash, BeginUntrash
    <2>2. Empty \in Docs /\ op \in AllOps /\ mode \in AllModes /\ op # "restore"
      BY DEF Docs, AllOps, AllModes
    <2> QED BY <2>1, <2>2, StartStep
  <1>5. ASSUME NEW p \in Requests, CommitUpdate(p) \/ CommitTrash(p) \/ CommitUntrash(p)
        PROVE  IInv'
    <2>1. job[p] # NoJob /\ project.is_deleted \in BOOLEAN
      BY <1>5 DEF CommitUpdate, CommitTrash, CommitUntrash, Active, IInv, TypeOK, Row
    <2> QED BY <1>5, <2>1, TouchStep DEF CommitUpdate, CommitTrash, CommitUntrash
  <1>6. ASSUME NEW p \in Requests, Next,
               Lock(p) \/ Finish(p) \/ Die(p)
        PROVE  IInv'
    BY <1>5, <1>6, LockStep, SaveStep, NameStep, EndStep DEF Finish
  <1> QED BY <1>1, <1>2, <1>3, <1>4, <1>6 DEF Next

\* The invariant holds in every reachable state.
THEOREM Invariance == Spec => []IInv
  <1> QED BY InitIInv, NextIInv, PTL DEF Spec

\* Type correctness of the document row's model.
THEOREM TypeCorrect == Spec => []TypeOK
  <1>1. IInv => TypeOK
    BY DEF IInv
  <1> QED BY <1>1, Invariance, PTL

\* No accepted save replaces a revision other than the one it named.
THEOREM NoLostUpdateHolds == Spec => []NoLostUpdate
  <1>1. IInv => NoLostUpdate
    BY DEF IInv
  <1> QED BY <1>1, Invariance, PTL

\* Every stored version is a document the project had at that version.
THEOREM VersionRowsHold == Spec => []VersionRowsAreHistory
  <1>1. IInv => VersionRowsAreHistory
    BY DEF IInv
  <1> QED BY <1>1, Invariance, PTL

\* Whoever holds the row is alone with it, has it in the session as it is committed,
\* and is about to commit or to be refused: what NoLostUpdate and
\* EveryRequestAnswered rest on (_lock, populate_existing).
LockWorks ==
    \A p \in Requests : Locked(p) =>
        /\ \A q \in Requests : Locked(q) => q = p
        /\ job[p].seen = project
        /\ Active(p, "save", "locked") \/ Active(p, "restore", "locked")

\* The row lock does what the docstring of _lock says it is for.
THEOREM LockWorksHolds == Spec => []LockWorks
  <1>1. IInv => LockWorks
    BY DEF IInv, TypeOK, OneHolder, SessionRows, LockWorks, Locked, Active
  <1> QED BY <1>1, Invariance, PTL

-----------------------------------------------------------------------------
\* The row, seen through the mapping, as an instance of the history.
View(revs) == [k \in 1..Len(revs) |->
                 [doc |-> revs[k].doc, by |-> revs[k].by, base |-> revs[k].base]]

NamedIn(rows) == {r.doc_version : r \in {s \in rows : ~s.is_auto}}

\* Named snapshots add the revision they hold, or nothing, to what is kept.
LEMMA SnapshotNames ==
    ASSUME NEW rows, NEW row, NEW mode
    PROVE  NamedIn(Snapshot(rows, row, mode))
              \in {NamedIn(rows), NamedIn(rows) \cup {row.doc_version}}
  <1>1. NamedIn(Prune(rows \cup {VersionOf(row, TRUE)})) = NamedIn(rows)
    <2>1. \A r \in Prune(rows \cup {VersionOf(row, TRUE)}) : ~r.is_auto => r \in rows
      BY PruneDropsAutos DEF VersionOf
    <2>2. \A r \in rows : ~r.is_auto => r \in Prune(rows \cup {VersionOf(row, TRUE)})
      BY PruneDropsAutos
    <2> QED BY <2>1, <2>2 DEF NamedIn
  <1>2. NamedIn(rows \cup {VersionOf(row, FALSE)}) = NamedIn(rows) \cup {row.doc_version}
    <2>1. /\ VersionOf(row, FALSE).is_auto = FALSE
          /\ VersionOf(row, FALSE).doc_version = row.doc_version
      BY DEF VersionOf
    <2> DEFINE new == VersionOf(row, FALSE)
    <2> HIDE DEF new
    <2>2. {s \in rows \cup {new} : ~s.is_auto} = {s \in rows : ~s.is_auto} \cup {new}
      BY <2>1 DEF new
    <2> QED BY <2>1, <2>2 DEF NamedIn, new
  <1> QED BY <1>1, <1>2 DEF Snapshot

\* The view of an appended history is the appended view.
LEMMA ViewAppends ==
    ASSUME NEW S, NEW s \in Seq(S), NEW e \in S
    PROVE  View(Append(s, e)) = Append(View(s), [doc |-> e.doc, by |-> e.by, base |-> e.base])
  <1> DEFINE a == [doc |-> e.doc, by |-> e.by, base |-> e.base]
  <1>1. /\ Len(Append(s, e)) = Len(s) + 1 /\ Len(s) \in Nat
        /\ \A k \in 1..Len(s) : Append(s, e)[k] = s[k]
        /\ Append(s, e)[Len(s) + 1] = e
    BY AppendKeeps
  <1>2. View(s) \in Seq({View(s)[k] : k \in 1..Len(s)}) /\ Len(View(s)) = Len(s)
    BY <1>1 DEF View
  <1>3. Append(View(s), a) = [k \in 1..(Len(s) + 1) |-> IF k = Len(s) + 1 THEN a ELSE View(s)[k]]
    BY <1>1, <1>2
  <1>4. \A k \in 1..(Len(s) + 1) :
           View(Append(s, e))[k] = IF k = Len(s) + 1 THEN a ELSE View(s)[k]
    BY <1>1 DEF View
  <1> QED BY <1>1, <1>3, <1>4 DEF View

\* The initial states are initial states of DocHistory.
LEMMA InitMapsToInit == Init => History!Init
  <1> SUFFICES ASSUME Init PROVE History!Init
    OBVIOUS
  <1> PICK d \in Docs, u \in Users :
        /\ project = [doc |-> d, doc_version |-> 1, updated_by |-> u, is_deleted |-> FALSE]
        /\ revisions = <<[doc |-> d, by |-> u, base |-> NoBase, op |-> "create", mode |-> "none"]>>
    BY DEF Init
  <1>1. Len(revisions) = 1 /\ revisions[1].doc = d /\ revisions[1].by = u
          /\ revisions[1].base = NoBase
    OBVIOUS
  <1>2. View(revisions) = <<[doc |-> d, by |-> u, base |-> NoBase]>>
    BY <1>1 DEF View
  <1>3. NamedIn(versions) = {}
    BY DEF NamedIn, Init
  <1> QED BY <1>2, <1>3 DEF History!Init, View, NamedIn

\* Every step of the row is a step of the history or leaves it alone.
LEMMA StepMapsToStep == IInv /\ [Next]_vars => [History!Next]_(History!vars)
  <1> SUFFICES ASSUME IInv, [Next]_vars PROVE [History!Next]_(History!vars)
    OBVIOUS
  <1> DEFINE Same == UNCHANGED <<project.doc, View(revisions), NamedIn(versions)>>
  <1>a. Same => [History!Next]_(History!vars)
    BY DEF History!vars, View, NamedIn
  <1>1. ASSUME NEW p \in Requests, Locked(p), job[p].op \in {"save", "restore"},
               job[p].op = "save" => ~Stale(job[p]), WriteDoc(p)
        PROVE  History!Next
    <2> DEFINE j == job[p]
               e == [doc |-> j.doc, by |-> j.user, base |-> j.base,
                     op |-> j.op, mode |-> j.mode]
    <2>1. /\ j \in Job /\ j.seen = project /\ (j.op = "restore" => j.base = NoBase)
          /\ revisions \in Seq(Revision) /\ project.doc_version = Len(revisions)
          /\ project \in Row
      BY <1>1 DEF IInv, TypeOK, SessionRows, Locked
    <2>2. e \in Revision
      BY <1>1, <2>1 DEF Job, Revision
    <2>3. View(revisions') = Append(View(revisions), [doc |-> j.doc, by |-> j.user, base |-> j.base])
      BY <1>1, <2>1, <2>2, ViewAppends DEF WriteDoc
    <2>4. Len(View(revisions)) = Len(revisions)
      BY <2>1 DEF View
    <2>5. NamedIn(versions') \in {NamedIn(versions), NamedIn(versions) \cup {Len(revisions)}}
      BY <1>1, <2>1, SnapshotNames DEF WriteDoc
    <2>6. project'.doc = j.doc
      BY <1>1, <2>1 DEF WriteDoc, Row
    <2>7. j.doc \in Docs /\ j.user \in Users /\ j.base \in {NoBase, Len(revisions)}
      BY <1>1, <2>1 DEF Stale, Job
    <2>8. History!Revise
      BY <2>3, <2>4, <2>5, <2>6, <2>7 DEF History!Revise, View, NamedIn
    <2> QED BY <2>8 DEF History!Next
  <1>2. ASSUME NEW p \in Requests, CommitName(p)
        PROVE  [History!Next]_(History!vars)
    <2>1. /\ job[p].seen.doc_version \in 1..Len(revisions)
          /\ UNCHANGED <<project, revisions>>
          /\ versions' = Snapshot(versions, job[p].seen, "named")
      BY <1>2 DEF CommitName, Active, IInv, SessionRows, IsHistory
    <2>2. Len(View(revisions)) = Len(revisions)
      BY DEF View, IInv, TypeOK
    <2>3. NamedIn(versions') \in {NamedIn(versions), NamedIn(versions) \cup {job[p].seen.doc_version}}
      BY <2>1, SnapshotNames
    <2>4. CASE NamedIn(versions') = NamedIn(versions)
      BY <2>1, <2>4, <1>a
    <2>5. CASE NamedIn(versions') = NamedIn(versions) \cup {job[p].seen.doc_version}
      <3>1. History!Keep
        BY <2>1, <2>2, <2>5 DEF History!Keep, View, NamedIn
      <3> QED BY <3>1 DEF History!Next
    <2> QED BY <2>3, <2>4, <2>5
  <1>3. ASSUME NEW p \in Requests, CommitSave(p) \/ CommitRestore(p)
        PROVE  History!Next
    BY <1>1, <1>3 DEF CommitSave, CommitRestore, Active, Locked
  <1>4. ASSUME NEW p \in Requests, CommitUpdate(p) \/ CommitTrash(p) \/ CommitUntrash(p)
        PROVE  Same
    BY <1>4 DEF CommitUpdate, CommitTrash, CommitUntrash, Touch, IInv, TypeOK, Row
  <1>5. ASSUME NEW p \in Requests,
               \/ BeginSave(p) \/ BeginRestore(p) \/ BeginName(p) \/ BeginUpdate(p)
               \/ BeginTrash(p) \/ BeginUntrash(p) \/ Lock(p) \/ Refuse(p) \/ Die(p)
        PROVE  Same
    <2>1. UNCHANGED <<project, versions, revisions>>
      BY <1>5 DEF BeginSave, BeginRestore, BeginName, BeginUpdate, BeginTrash, BeginUntrash,
                  Start, Lock, Refuse, Die
    <2> QED BY <2>1
  <1>6. CASE UNCHANGED vars
    BY <1>6, <1>a DEF vars
  <1> HIDE DEF Same
  <1> QED BY <1>a, <1>2, <1>3, <1>4, <1>5, <1>6 DEF Next, Finish

\* The document row implements the promised history: its safety part in full.
THEOREM RowImplementsHistory == Spec => ImplementsHistory
  <1> QED BY InitMapsToInit, StepMapsToStep, Invariance, PTL
          DEF Spec, ImplementsHistory, History!Spec

-----------------------------------------------------------------------------
\* What is recoverable: the automatic rows, and what pruning leaves of them.
AutosOf(rows) == {r \in rows : r.is_auto}
Newer(rows, r) == {s \in AutosOf(rows) : s.doc_version > r.doc_version}

\* Of finitely many rows one is the oldest.
LEMMA OldestExists ==
    ASSUME NEW B, IsFiniteSet(B), B # {}, \A r \in B : r.doc_version \in Nat
    PROVE  \E m \in B : \A r \in B : m.doc_version <= r.doc_version
  <1> DEFINE Older(r) == {s \in B : s.doc_version < r.doc_version}
             T == {Older(r) : r \in B}
             R == StrictSubsetOrdering(B)
  <1>1. T \subseteq FiniteSubsetsOf(B) /\ T # {}
    <2>1. T \subseteq SUBSET B /\ T # {}
      OBVIOUS
    <2>2. FiniteSubsetsOf(B) = SUBSET B
      BY FS_FiniteSubsetsOfFinite
    <2> QED BY <2>1, <2>2
  <1>2. IsWellFoundedOn(R, FiniteSubsetsOf(B))
    BY FS_StrictSubsetOrderingWellFounded
  <1>3. PICK x \in T : \A y \in T : ~(<<y, x>> \in R)
    <2> HIDE DEF T, R
    <2> QED BY <1>1, <1>2, WFMin
  <1>4. PICK m \in B : x = Older(m)
    OBVIOUS
  <1>5. ASSUME NEW s \in Older(m) PROVE FALSE
    <2>1. Older(s) \subseteq Older(m) /\ Older(s) # Older(m)
      OBVIOUS
    <2>2. <<Older(s), x>> \in R
      BY <1>4, <2>1 DEF StrictSubsetOrdering
    <2> QED BY <1>3, <2>2
  <1> QED BY <1>5

\* The automatic rows A of a project at version n: VersionLimit at most, each of
\* another version before n.
Numbered(A, n) ==
    /\ IsFiniteSet(A) /\ Cardinality(A) <= VersionLimit
    /\ \A r \in A : r.doc_version \in 1..(n - 1)
    /\ \A r, s \in A : r.doc_version = s.doc_version => r = s

\* What is still stored of the version before k.
Recoverable(A, k) ==
    \/ \E r \in A : r.doc_version = k - 1
    \/ Cardinality({r \in A : r.doc_version >= k}) = VersionLimit

\* Pruning keeps the automatic rows with fewer than VersionLimit newer ones.
LEMMA PruneKeeps ==
    ASSUME NEW rows, NEW r \in AutosOf(rows)
    PROVE  r \in Prune(rows) <=> ~(Cardinality(Newer(rows, r)) >= VersionLimit)
  BY DEF Prune, AutosOf, Newer

\* Below the limit, pruning leaves everything.
LEMMA PruneKeepsFew ==
    ASSUME NEW rows, IsFiniteSet(AutosOf(rows)), Cardinality(AutosOf(rows)) <= VersionLimit,
           \A r \in AutosOf(rows) : r.doc_version \in Nat
    PROVE  AutosOf(Prune(rows)) = AutosOf(rows)
  <1> DEFINE B == AutosOf(rows)
  <1>1. ASSUME NEW r \in B PROVE r \in Prune(rows)
    <2>1. Newer(rows, r) \subseteq B \ {r}
      BY DEF Newer
    <2>2. IsFiniteSet(B \ {r}) /\ Cardinality(B \ {r}) = Cardinality(B) - 1
      BY FS_RemoveElement
    <2>3. Cardinality(Newer(rows, r)) <= Cardinality(B \ {r})
          /\ Cardinality(Newer(rows, r)) \in Nat
      BY <2>1, <2>2, FS_Subset, FS_CardinalityType
    <2>4. Cardinality(B) \in Nat
      BY FS_CardinalityType
    <2>5. ~(Cardinality(Newer(rows, r)) >= VersionLimit)
      <3> HIDE DEF B
      <3> QED BY <2>2, <2>3, <2>4, ConstantsOK DEF B
    <2> QED BY <2>5, PruneKeeps
  <1>2. AutosOf(Prune(rows)) \subseteq B
    BY DEF AutosOf, Prune
  <1> QED BY <1>1, <1>2 DEF AutosOf

\* One above the limit, it drops the oldest and nothing else.
LEMMA PruneDropsOldest ==
    ASSUME NEW rows, IsFiniteSet(AutosOf(rows)), Cardinality(AutosOf(rows)) = VersionLimit + 1,
           \A r \in AutosOf(rows) : r.doc_version \in Nat,
           \A r, s \in AutosOf(rows) : r.doc_version = s.doc_version => r = s,
           NEW m \in AutosOf(rows),
           \A r \in AutosOf(rows) : m.doc_version <= r.doc_version
    PROVE  AutosOf(Prune(rows)) = AutosOf(rows) \ {m}
           /\ Cardinality(AutosOf(rows) \ {m}) = VersionLimit
  <1> DEFINE B == AutosOf(rows)
  <1>1. /\ IsFiniteSet(B \ {m}) /\ Cardinality(B \ {m}) = Cardinality(B) - 1
        /\ Cardinality(B) \in Nat
    BY FS_RemoveElement, FS_CardinalityType
  <1>2. Cardinality(B \ {m}) = VersionLimit
    <2> HIDE DEF B
    <2> QED BY <1>1, ConstantsOK DEF B
  <1>3. Newer(rows, m) = B \ {m}
    BY DEF Newer
  <1>4. ASSUME NEW r \in B \ {m} PROVE Cardinality(Newer(rows, r)) < VersionLimit
    <2>1. Newer(rows, r) \subseteq (B \ {m}) \ {r}
      BY DEF Newer
    <2>2. /\ IsFiniteSet((B \ {m}) \ {r})
          /\ Cardinality((B \ {m}) \ {r}) = Cardinality(B \ {m}) - 1
      BY <1>1, FS_RemoveElement
    <2>3. Cardinality(Newer(rows, r)) <= Cardinality((B \ {m}) \ {r})
          /\ Cardinality(Newer(rows, r)) \in Nat
      BY <2>1, <2>2, FS_Subset, FS_CardinalityType
    <2> HIDE DEF B
    <2> QED BY <1>2, <2>2, <2>3, ConstantsOK
  <1>5. \A r \in AutosOf(rows) : r \in Prune(rows) <=> ~(Cardinality(Newer(rows, r)) >= VersionLimit)
    BY PruneKeeps
  <1>6. m \notin Prune(rows)
    BY <1>2, <1>3, <1>5, ConstantsOK
  <1>7. \A r \in B \ {m} : r \in Prune(rows)
    <2> TAKE r \in B \ {m}
    <2>1. Cardinality(Newer(rows, r)) \in Nat
      <3>1. Newer(rows, r) \subseteq B
        BY DEF Newer
      <3> QED BY <3>1, FS_Subset, FS_CardinalityType
    <2> QED BY <1>4, <1>5, <2>1, ConstantsOK
  <1>8. AutosOf(Prune(rows)) \subseteq B
    BY DEF AutosOf, Prune
  <1> QED BY <1>2, <1>6, <1>7, <1>8 DEF AutosOf

\* A snapshot of the newest version takes nothing away that was recoverable.
LEMMA SnapshotRecovers ==
    ASSUME NEW rows, NEW n \in Nat \ {0}, Numbered(AutosOf(rows), n),
           NEW row, row.doc_version = n, row.doc # Empty
    PROVE  /\ Numbered(AutosOf(Snapshot(rows, row, "auto")), n + 1)
           /\ \A k \in 1..n : Recoverable(AutosOf(rows), k) =>
                                 Recoverable(AutosOf(Snapshot(rows, row, "auto")), k)
           /\ Recoverable(AutosOf(Snapshot(rows, row, "auto")), n + 1)
  <1> DEFINE A == AutosOf(rows)
             new == VersionOf(row, TRUE)
             more == rows \cup {new}
             B == AutosOf(more)
             C == AutosOf(Snapshot(rows, row, "auto"))
  <1>1. new.doc_version = n /\ new.is_auto = TRUE
    BY DEF VersionOf
  <1>2. C = AutosOf(Prune(more))
    BY DEF Snapshot
  <1>3. B = A \cup {new}
    <2> HIDE DEF new
    <2> QED BY <1>1 DEF AutosOf
  <1>4. /\ IsFiniteSet(A) /\ Cardinality(A) <= VersionLimit /\ Cardinality(A) \in Nat
        /\ \A r \in A : r.doc_version \in 1..(n - 1)
        /\ \A r, s \in A : r.doc_version = s.doc_version => r = s
    BY FS_CardinalityType DEF Numbered
  <1> HIDE DEF A, B, C, new, more
  <1>5. new \notin A
    BY <1>1, <1>4
  <1>6. IsFiniteSet(B) /\ Cardinality(B) = Cardinality(A) + 1
    BY <1>3, <1>4, <1>5, FS_AddElement
  <1>7. /\ \A r \in B : r.doc_version \in 1..n /\ r.doc_version \in Nat
        /\ \A r, s \in B : r.doc_version = s.doc_version => r = s
    BY <1>1, <1>3, <1>4
  <1>8. new \in C => Recoverable(C, n + 1)
    BY <1>1 DEF Recoverable
  <1>9. ASSUME NEW T, T \subseteq B
        PROVE  (\A r \in T : r.doc_version \in 1..n)
               /\ (\A r, s \in T : r.doc_version = s.doc_version => r = s)
    BY <1>7, <1>9
  <1>10. CASE Cardinality(A) < VersionLimit
    <2>1. C = B
      <3>1. Cardinality(B) <= VersionLimit
        BY <1>4, <1>6, <1>10, ConstantsOK
      <3> QED BY <1>2, <1>6, <1>7, <3>1, PruneKeepsFew DEF B
    <2>2. Numbered(C, n + 1)
      <3>1. Cardinality(C) <= VersionLimit
        BY <1>4, <1>6, <1>10, <2>1, ConstantsOK
      <3> QED BY <1>6, <1>9, <2>1, <3>1 DEF Numbered
    <2>3. ASSUME NEW k \in 1..n, Recoverable(A, k) PROVE Recoverable(C, k)
      <3>1. PICK r \in A : r.doc_version = k - 1
        <4>1. CASE Cardinality({r \in A : r.doc_version >= k}) = VersionLimit
          <5>1. Cardinality({r \in A : r.doc_version >= k}) <= Cardinality(A)
            BY <1>4, FS_Subset
          <5> QED BY <1>4, <1>10, <4>1, <5>1, ConstantsOK
        <4> QED BY <2>3, <4>1 DEF Recoverable
      <3> QED BY <1>3, <2>1, <3>1 DEF Recoverable
    <2>4. new \in C
      BY <1>3, <2>1
    <2> QED BY <1>8, <2>2, <2>3, <2>4 DEF A, C
  <1>11. CASE Cardinality(A) = VersionLimit
    <2>1. PICK m \in B : \A r \in B : m.doc_version <= r.doc_version
      <3>1. B # {}
        BY <1>3
      <3> QED BY <1>6, <1>7, <3>1, OldestExists
    <2>2. C = B \ {m} /\ Cardinality(C) = VersionLimit
      <3>1. Cardinality(B) = VersionLimit + 1
        BY <1>6, <1>11
      <3> QED BY <1>2, <1>6, <1>7, <2>1, <3>1, PruneDropsOldest DEF B
    <2>3. A # {}
      BY <1>11, FS_EmptySet, ConstantsOK
    <2>4. new \in C
      <3>1. PICK r \in A : TRUE
        BY <2>3
      <3>2. r.doc_version \in 1..(n - 1) /\ r \in B
        BY <1>3, <1>4
      <3>3. m.doc_version <= r.doc_version /\ m.doc_version \in Nat
        BY <1>7, <2>1, <3>2
      <3>4. m # new
        BY <1>1, <3>2, <3>3
      <3> QED BY <1>3, <2>2, <3>4
    <2>5. Numbered(C, n + 1)
      <3>1. IsFiniteSet(C) /\ C \subseteq B
        BY <1>6, <2>2, FS_RemoveElement
      <3> QED BY <1>9, <2>2, <3>1, ConstantsOK DEF Numbered
    <2>6. ASSUME NEW k \in 1..n, Recoverable(A, k) PROVE Recoverable(C, k)
      <3>1. ASSUME \A r \in C : r.doc_version >= k PROVE Recoverable(C, k)
        <4>1. {r \in C : r.doc_version >= k} = C
          BY <3>1
        <4> QED BY <2>2, <4>1 DEF Recoverable
      <3>2. CASE \E r \in A : r.doc_version = k - 1
        <4>1. PICK r \in A : r.doc_version = k - 1
          BY <3>2
        <4>2. CASE r = m
          <5>1. \A s \in C : s.doc_version >= k
            <6> TAKE s \in C
            <6>1. s \in B /\ s # m
              BY <2>2
            <6>2. /\ s.doc_version \in Nat /\ m.doc_version \in Nat
                  /\ m.doc_version <= s.doc_version /\ s.doc_version # m.doc_version
              BY <1>7, <2>1, <6>1
            <6> QED BY <4>1, <4>2, <6>2
          <5> QED BY <3>1, <5>1
        <4>3. CASE r # m
          BY <1>3, <2>2, <4>1, <4>3 DEF Recoverable
        <4> QED BY <4>2, <4>3
      <3>3. CASE Cardinality({r \in A : r.doc_version >= k}) = VersionLimit
        <4>1. {r \in A : r.doc_version >= k} = A
          BY <1>4, <1>11, <3>3, FS_Subset
        <4>2. \A r \in B : r.doc_version >= k
          BY <1>1, <1>3, <4>1
        <4> QED BY <2>2, <3>1, <4>2
      <3> QED BY <2>6, <3>2, <3>3 DEF Recoverable
    <2> QED BY <1>8, <2>4, <2>5, <2>6 DEF A, C
  <1> QED BY <1>4, <1>10, <1>11, ConstantsOK

-----------------------------------------------------------------------------
\* Request p writes the document.
Writes(p) ==
    /\ p \in Requests /\ Locked(p) /\ WriteDoc(p)
    /\ \/ job[p].op = "restore" /\ UNCHANGED feed
       \/ job[p].op = "save" /\ RecordEdit(job[p].user, Len(revisions) + 1)

\* A step writes the document, stores a named snapshot, or leaves the history, the
\* stored versions and the feed alone.
LEMMA StepKinds ==
    ASSUME IInv, [Next]_vars
    PROVE  \/ UNCHANGED <<versions, revisions, feed>>
           \/ /\ \E row : versions' = Snapshot(versions, row, "named")
              /\ UNCHANGED <<revisions, feed>>
           \/ \E p : Writes(p)
  <1>1. ASSUME NEW p \in Requests, CommitSave(p) \/ CommitRestore(p) PROVE Writes(p)
    <2>1. Locked(p) /\ job[p].op \in {"save", "restore"} /\ WriteDoc(p)
      BY <1>1 DEF CommitSave, CommitRestore, Active, Locked
    <2>2. job[p].seen.doc_version = Len(revisions)
      BY <2>1 DEF IInv, SessionRows, Locked, RowIsNewest
    <2> QED BY <1>1, <2>1, <2>2 DEF CommitSave, CommitRestore, Active, Writes
  <1>2. ASSUME NEW p \in Requests, CommitName(p)
        PROVE  versions' = Snapshot(versions, job[p].seen, "named") /\ UNCHANGED <<revisions, feed>>
    BY <1>2 DEF CommitName
  <1>3. ASSUME NEW p \in Requests, CommitUpdate(p) \/ CommitTrash(p) \/ CommitUntrash(p)
        PROVE  UNCHANGED <<versions, revisions, feed>>
    BY <1>3 DEF CommitUpdate, CommitTrash, CommitUntrash, Touch
  <1>4. ASSUME NEW p \in Requests,
               \/ BeginSave(p) \/ BeginRestore(p) \/ BeginName(p) \/ BeginUpdate(p)
               \/ BeginTrash(p) \/ BeginUntrash(p) \/ Lock(p) \/ Refuse(p) \/ Die(p)
        PROVE  UNCHANGED <<versions, revisions, feed>>
    BY <1>4 DEF BeginSave, BeginRestore, BeginName, BeginUpdate, BeginTrash, BeginUntrash,
                Start, Lock, Refuse, Die
  <1>5. CASE UNCHANGED vars
    BY <1>5 DEF vars
  <1> QED BY <1>1, <1>2, <1>3, <1>4, <1>5 DEF Next, Finish

\* What a write adds to the history and to the stored versions.
LEMMA WriteAdds ==
    ASSUME IInv, NEW p, Writes(p)
    PROVE  /\ Len(revisions) \in Nat \ {0} /\ Len(revisions') = Len(revisions) + 1
           /\ \A k \in 1..Len(revisions) : revisions'[k] = revisions[k]
           /\ revisions'[Len(revisions) + 1].op = job[p].op
           /\ revisions'[Len(revisions) + 1].by = job[p].user
           /\ revisions'[Len(revisions) + 1].mode = job[p].mode
           /\ versions' = Snapshot(versions, project, job[p].mode)
           /\ project.doc_version = Len(revisions)
           /\ project.doc = revisions[Len(revisions)].doc
           /\ job[p].user \in Users
  <1> DEFINE j == job[p]
             e == [doc |-> j.doc, by |-> j.user, base |-> j.base, op |-> j.op, mode |-> j.mode]
  <1>1. /\ j \in Job /\ j.op \in {"save", "restore"} /\ j.seen = project
        /\ revisions \in Seq(Revision)
    BY DEF Writes, IInv, TypeOK, SessionRows, Locked
  <1>2. e \in Revision
    BY <1>1 DEF Job, Revision
  <1>3. revisions' = Append(revisions, e) /\ versions' = Snapshot(versions, project, j.mode)
    BY <1>1 DEF Writes, WriteDoc
  <1>4. /\ Len(revisions') = Len(revisions) + 1
        /\ \A k \in 1..Len(revisions) : revisions'[k] = revisions[k]
        /\ revisions'[Len(revisions) + 1] = e
    BY <1>1, <1>2, <1>3, AppendKeeps
  <1>5. Len(revisions) \in Nat \ {0}
    BY <1>1 DEF IInv, RowIsNewest
  <1>6. j.user \in Users
    BY <1>1 DEF Job
  <1> QED BY <1>3, <1>4, <1>5, <1>6 DEF IInv, RowIsNewest

\* Automatic snapshots below the limit, and what they make recoverable.
AutoInv == Numbered(AutosOf(versions), Len(revisions)) /\ OverwriteRecoverable

\* The property, by its parts.
LEMMA RecoverableParts ==
    OverwriteRecoverable <=>
        /\ Cardinality(AutosOf(versions)) <= VersionLimit
        /\ \A k \in 2..Len(revisions) :
              revisions[k].mode = "auto" /\ revisions[k - 1].doc # Empty =>
                 Recoverable(AutosOf(versions), k)
  BY DEF OverwriteRecoverable, AutosOf, Recoverable

\* A snapshot that is named, or not taken, leaves the automatic rows alone.
LEMMA OtherSnapshots ==
    ASSUME NEW rows, NEW row, NEW mode, mode # "auto" \/ row.doc = Empty
    PROVE  AutosOf(Snapshot(rows, row, mode)) = AutosOf(rows)
  <1> DEFINE new == VersionOf(row, FALSE)
  <1>1. new.is_auto = FALSE
    BY DEF VersionOf
  <1> HIDE DEF new
  <1>2. AutosOf(rows \cup {new}) = AutosOf(rows)
    BY <1>1 DEF AutosOf
  <1> QED BY <1>2 DEF Snapshot, new

\* Initially nothing is stored.
LEMMA InitAutoInv == Init => AutoInv
  <1> SUFFICES ASSUME Init PROVE AutoInv
    OBVIOUS
  <1>1. AutosOf(versions) = {} /\ Len(revisions) = 1
    BY DEF Init, AutosOf
  <1>2. Numbered({}, 1)
    BY FS_EmptySet, ConstantsOK DEF Numbered
  <1>3. OverwriteRecoverable
    BY <1>1, FS_EmptySet, ConstantsOK, RecoverableParts
  <1> QED BY <1>1, <1>2, <1>3 DEF AutoInv

\* Every step keeps what is recoverable.
LEMMA NextAutoInv == IInv /\ AutoInv /\ [Next]_vars => AutoInv'
  <1> SUFFICES ASSUME IInv, AutoInv, [Next]_vars PROVE AutoInv'
    OBVIOUS
  <1> DEFINE n == Len(revisions)
             A == AutosOf(versions)
  <1>1. Numbered(A, n) /\ n \in Nat
    BY DEF AutoInv, IInv, TypeOK
  <1>2. ASSUME AutosOf(versions') = A, UNCHANGED revisions PROVE AutoInv'
    BY <1>1, <1>2, RecoverableParts DEF AutoInv, OverwriteRecoverable, AutosOf
  <1>3. CASE UNCHANGED <<versions, revisions, feed>>
    BY <1>2, <1>3
  <1>4. CASE (\E row : versions' = Snapshot(versions, row, "named")) /\ UNCHANGED <<revisions, feed>>
    BY <1>2, <1>4, OtherSnapshots
  <1>5. ASSUME NEW p, Writes(p) PROVE AutoInv'
    <2> DEFINE C == AutosOf(versions')
    <2>1. /\ n \in Nat \ {0} /\ Len(revisions') = n + 1
          /\ \A k \in 1..n : revisions'[k] = revisions[k]
          /\ revisions'[n + 1].mode = job[p].mode
          /\ versions' = Snapshot(versions, project, job[p].mode)
          /\ project.doc_version = n /\ project.doc = revisions[n].doc
      BY <1>5, WriteAdds
    <2>2. /\ Numbered(C, n + 1)
          /\ \A k \in 1..n : Recoverable(A, k) => Recoverable(C, k)
          /\ job[p].mode = "auto" /\ project.doc # Empty => Recoverable(C, n + 1)
      <3>1. CASE job[p].mode = "auto" /\ project.doc # Empty
        <4>1. versions' = Snapshot(versions, project, "auto")
          BY <2>1, <3>1
        <4> QED BY <1>1, <2>1, <3>1, <4>1, SnapshotRecovers
      <3>2. CASE ~(job[p].mode = "auto" /\ project.doc # Empty)
        <4>1. C = A
          BY <2>1, <3>2, OtherSnapshots
        <4>2. \A r \in A : r.doc_version \in 1..((n + 1) - 1)
          BY <1>1 DEF Numbered
        <4>3. Numbered(A, n + 1)
          BY <1>1, <4>2 DEF Numbered
        <4> QED BY <3>2, <4>1, <4>3
      <3> QED BY <3>1, <3>2
    <2>3. ASSUME NEW k \in 2..(n + 1), revisions'[k].mode = "auto", revisions'[k - 1].doc # Empty
          PROVE  Recoverable(C, k)
      <3>1. CASE k = n + 1
        BY <2>1, <2>2, <2>3, <3>1
      <3>2. CASE k # n + 1
        <4>1. k \in 2..n /\ k \in 1..n /\ k - 1 \in 1..n
          BY <2>1, <3>2
        <4>2. revisions[k].mode = "auto" /\ revisions[k - 1].doc # Empty
          BY <2>1, <2>3, <4>1
        <4>3. Recoverable(A, k)
          BY <4>1, <4>2, RecoverableParts DEF AutoInv
        <4> QED BY <2>2, <4>1, <4>3
      <3> QED BY <3>1, <3>2
    <2>4. OverwriteRecoverable' <=>
             /\ Cardinality(C) <= VersionLimit
             /\ \A k \in 2..Len(revisions') :
                   revisions'[k].mode = "auto" /\ revisions'[k - 1].doc # Empty =>
                      Recoverable(C, k)
      BY DEF OverwriteRecoverable, AutosOf, Recoverable
    <2>5. OverwriteRecoverable'
      BY <2>1, <2>2, <2>3, <2>4 DEF Numbered
    <2> QED BY <2>1, <2>2, <2>5 DEF AutoInv
  <1> QED BY <1>3, <1>4, <1>5, StepKinds

\* An overwritten document is stored until VersionLimit later ones are (_snapshot,
\* _prune_auto_versions).
THEOREM OverwriteRecoverableHolds == Spec => []OverwriteRecoverable
  <1>1. AutoInv => OverwriteRecoverable
    BY DEF AutoInv
  <1> QED BY <1>1, InitAutoInv, NextAutoInv, Invariance, PTL DEF Spec

-----------------------------------------------------------------------------
\* The saves an entry of the feed stands for, in the history revs.
SavesOf(e, revs) ==
    {k \in (e.from_version + 1)..e.to_version : revs[k].op = "save" /\ revs[k].by = e.actor}

\* The entries fd of a history revs of length n: each counts its author's saves, ends
\* where the history does or before, and every save is in one.
FeedOf(fd, revs, n) ==
    /\ IsFiniteSet(fd) /\ fd \subseteq EditEntry
    /\ \A e \in fd : /\ e.from_version <= e.to_version /\ e.to_version <= n
                     /\ e.edits = Cardinality(SavesOf(e, revs))
    /\ \A k \in 1..n : revs[k].op = "save" =>
          \E e \in fd : {f \in fd : k \in SavesOf(f, revs)} = {e}

FeedInv == FeedOf(feed, revisions, Len(revisions))

\* The property is the last part of it.
LEMMA FeedInvShows == FeedInv => FeedMatchesHistory
  <1> SUFFICES ASSUME FeedInv PROVE FeedMatchesHistory
    OBVIOUS
  <1>1. \A e \in feed : e.edits = Cardinality(SavesOf(e, revisions))
    BY DEF FeedInv, FeedOf
  <1>2. ASSUME NEW k \in 1..Len(revisions), revisions[k].op = "save"
        PROVE  Cardinality({e \in feed : k \in SavesOf(e, revisions)}) = 1
    <2>1. PICK e \in feed : {f \in feed : k \in SavesOf(f, revisions)} = {e}
      BY <1>2 DEF FeedInv, FeedOf
    <2> QED BY <2>1, FS_Singleton
  <1> QED BY <1>1, <1>2 DEF FeedMatchesHistory, SavesOf

\* An entry that ended before a write stands for the same saves after it.
LEMMA SavesStay ==
    ASSUME NEW n \in Nat, NEW revs, NEW later, \A k \in 1..n : later[k] = revs[k],
           NEW e \in EditEntry, e.to_version <= n
    PROVE  SavesOf(e, later) = SavesOf(e, revs) /\ SavesOf(e, revs) \subseteq 1..n
  <1>1. e.from_version \in Nat /\ e.to_version \in Nat
    BY DEF EditEntry
  <1>2. (e.from_version + 1)..e.to_version \subseteq 1..n
    BY <1>1
  <1> QED BY <1>2 DEF SavesOf

\* A write that is no save leaves the feed as good as it was.
LEMMA FeedStays ==
    ASSUME NEW n \in Nat, NEW fd, NEW revs, NEW later, FeedOf(fd, revs, n),
           \A k \in 1..n : later[k] = revs[k], later[n + 1].op # "save"
    PROVE  FeedOf(fd, later, n + 1)
  <1>1. ASSUME NEW e \in fd
        PROVE  /\ SavesOf(e, later) = SavesOf(e, revs) /\ e.to_version <= n + 1
               /\ SavesOf(e, revs) \subseteq 1..n
    <2>1. e \in EditEntry /\ e.to_version <= n /\ e.to_version \in Nat
      BY DEF FeedOf, EditEntry
    <2>2. e.to_version <= n + 1
      BY <2>1
    <2>3. SavesOf(e, later) = SavesOf(e, revs) /\ SavesOf(e, revs) \subseteq 1..n
      BY <2>1, SavesStay
    <2> QED BY <2>2, <2>3
  <1>2. ASSUME NEW k \in 1..(n + 1), later[k].op = "save"
        PROVE  \E e \in fd : {f \in fd : k \in SavesOf(f, later)} = {e}
    <2>1. k \in 1..n /\ revs[k].op = "save"
      BY <1>2
    <2>2. PICK e \in fd : {f \in fd : k \in SavesOf(f, revs)} = {e}
      BY <2>1 DEF FeedOf
    <2>3. {f \in fd : k \in SavesOf(f, later)} = {f \in fd : k \in SavesOf(f, revs)}
      BY <1>1
    <2> QED BY <2>2, <2>3
  <1> QED BY <1>1, <1>2 DEF FeedOf

\* A save is counted in an entry x that takes the place of the entries old, and stands
\* for what they stood for and for the save.
LEMMA FeedGrows ==
    ASSUME NEW n \in Nat, NEW fd, NEW revs, NEW later, FeedOf(fd, revs, n),
           \A k \in 1..n : later[k] = revs[k],
           NEW old, IsFiniteSet(old), old \subseteq fd,
           NEW x \in EditEntry, x.from_version <= n + 1, x.to_version = n + 1,
           x.edits = Cardinality(SavesOf(x, later)),
           \A k : k \in SavesOf(x, later) <=>
                    k = n + 1 \/ \E o \in old : k \in SavesOf(o, revs)
    PROVE  FeedOf((fd \ old) \cup {x}, later, n + 1)
  <1> DEFINE fn == (fd \ old) \cup {x}
             In(k) == {f \in fn : k \in SavesOf(f, later)}
  <1>1. \A e \in fd : /\ SavesOf(e, later) = SavesOf(e, revs) /\ e.to_version <= n
                      /\ SavesOf(e, revs) \subseteq 1..n /\ e.to_version \in Nat
    BY SavesStay DEF FeedOf, EditEntry
  <1>2. x \notin fd
    BY <1>1
  <1>3. IsFiniteSet(fn)
    BY FS_Difference, FS_AddElement DEF FeedOf
  <1>4. fn \subseteq EditEntry
    BY DEF FeedOf
  <1>5. \A e \in fn : /\ e.from_version <= e.to_version /\ e.to_version <= n + 1
                     /\ e.edits = Cardinality(SavesOf(e, later))
    <2> TAKE e \in fn
    <2>1. CASE e = x
      <3>1. x.to_version <= n + 1
        OBVIOUS
      <3> QED BY <2>1, <3>1
    <2>2. CASE e # x
      <3>1. /\ e \in fd /\ e.to_version <= n /\ e.to_version \in Nat
            /\ e.from_version <= e.to_version
        BY <1>1, <2>2 DEF FeedOf
      <3>2. e.edits = Cardinality(SavesOf(e, revs)) /\ SavesOf(e, later) = SavesOf(e, revs)
        BY <1>1, <3>1 DEF FeedOf
      <3> QED BY <3>1, <3>2
    <2> QED BY <2>1, <2>2
  <1>6. ASSUME NEW k \in 1..(n + 1), later[k].op = "save" PROVE \E e \in fn : In(k) = {e}
    <2>1. CASE k = n + 1
      <3>1. \A f \in fd : k \notin SavesOf(f, later)
        BY <1>1, <2>1
      <3>2. k \in SavesOf(x, later)
        BY <2>1
      <3>3. In(k) = {x}
        BY <3>1, <3>2
      <3> QED BY <3>3
    <2>2. CASE k # n + 1
      <3>1. k \in 1..n /\ revs[k].op = "save"
        BY <1>6, <2>2
      <3>2. PICK e \in fd : {f \in fd : k \in SavesOf(f, revs)} = {e}
        BY <3>1 DEF FeedOf
      <3>3. \A f \in fd : k \in SavesOf(f, later) <=> f = e
        BY <1>1, <3>2
      <3>4. k \in SavesOf(x, later) <=> e \in old
        <4>1. k \in SavesOf(x, later) <=> \E o \in old : k \in SavesOf(o, revs)
          BY <2>2
        <4>2. \A o \in old : k \in SavesOf(o, revs) <=> o = e
          BY <1>1, <3>3
        <4> QED BY <4>1, <4>2
      <3>5. CASE e \in old
        <4>1. In(k) = {x}
          BY <3>3, <3>4, <3>5
        <4> QED BY <4>1
      <3>6. CASE e \notin old
        <4>1. In(k) = {e} /\ e \in fn
          BY <3>3, <3>4, <3>6
        <4> QED BY <4>1
      <3> QED BY <3>5, <3>6
    <2> QED BY <2>1, <2>2
  <1> QED BY <1>3, <1>4, <1>5, <1>6 DEF FeedOf

\* Initially nobody has saved.
LEMMA InitFeedInv == Init => FeedInv
  <1> SUFFICES ASSUME Init PROVE FeedInv
    OBVIOUS
  <1>1. feed = {} /\ Len(revisions) = 1 /\ revisions[1].op = "create"
    BY DEF Init
  <1> QED BY <1>1, FS_EmptySet DEF FeedInv, FeedOf

\* record_edit: the save ends a run, an old one or its own.
LEMMA SaveKeepsFeed ==
    ASSUME IInv, FeedInv, NEW p, Writes(p), job[p].op = "save" PROVE FeedInv'
  <1> DEFINE n == Len(revisions)
             u == job[p].user
  <1>1. /\ n \in Nat \ {0} /\ Len(revisions') = n + 1
        /\ \A k \in 1..n : revisions'[k] = revisions[k]
        /\ revisions'[n + 1].op = "save" /\ revisions'[n + 1].by = u
        /\ u \in Users
    BY WriteAdds
  <1>2. RecordEdit(u, n + 1)
    BY DEF Writes
  <1>3. FeedOf(feed, revisions, n)
    BY DEF FeedInv
  <1> HIDE DEF n, u
  <1>4. CASE BeginRun(u, n + 1)
    <2> DEFINE x == [actor |-> u, from_version |-> (n + 1) - 1, to_version |-> n + 1, edits |-> 1]
    <2>1. feed' = (feed \ {}) \cup {x}
      BY <1>4 DEF BeginRun
    <2>2. x.actor = u /\ x.from_version = n /\ x.to_version = n + 1 /\ x.edits = 1 /\ x \in EditEntry
      BY <1>1 DEF EditEntry
    <2> HIDE DEF x
    <2>3. SavesOf(x, revisions') = {n + 1}
      BY <1>1, <2>2 DEF SavesOf
    <2>4. FeedOf((feed \ {}) \cup {x}, revisions', n + 1)
      <3>1. \A k : k \in SavesOf(x, revisions') <=>
                     k = n + 1 \/ \E o \in {} : k \in SavesOf(o, revisions)
        BY <2>3
      <3>2. x.edits = Cardinality(SavesOf(x, revisions'))
        BY <2>2, <2>3, FS_Singleton
      <3>3. /\ n \in Nat /\ x.from_version <= n + 1 /\ {} \subseteq feed /\ IsFiniteSet({})
            /\ \A k \in 1..n : revisions'[k] = revisions[k]
        BY <1>1, <2>2, FS_EmptySet
      <3> QED BY <1>3, <2>2, <3>1, <3>2, <3>3, FeedGrows
    <2> QED BY <1>1, <2>1, <2>4 DEF FeedInv
  <1>5. CASE ContinueRun(u, n + 1)
    <2>1. PICK e \in feed :
             /\ e.actor = u
             /\ \A f \in feed : f.actor = u => f.to_version <= e.to_version
             /\ feed' = (feed \ {e}) \cup
                    {[actor |-> u, from_version |-> e.from_version,
                      to_version |-> n + 1, edits |-> e.edits + 1]}
      BY <1>5 DEF ContinueRun
    <2>2. /\ e \in EditEntry /\ e.from_version <= e.to_version /\ e.to_version <= n
          /\ e.edits = Cardinality(SavesOf(e, revisions))
          /\ e.from_version \in Nat /\ e.to_version \in Nat /\ e.edits \in Nat
      BY <1>3 DEF FeedOf, EditEntry
    <2> DEFINE x == [actor |-> u, from_version |-> e.from_version,
                     to_version |-> n + 1, edits |-> e.edits + 1]
    <2>3. /\ x.actor = u /\ x.from_version = e.from_version /\ x.to_version = n + 1
          /\ x.edits = e.edits + 1 /\ x \in EditEntry
      BY <1>1, <2>2 DEF EditEntry
    <2>4. feed' = (feed \ {e}) \cup {x}
      BY <2>1
    <2> HIDE DEF x
    <2>5. ASSUME NEW k \in (e.from_version + 1)..n, revisions[k].op = "save", revisions[k].by = u
          PROVE  k \in SavesOf(e, revisions)
      <3>1. k \in 1..n
        BY <1>1, <2>2
      <3>2. PICK f \in feed : {g \in feed : k \in SavesOf(g, revisions)} = {f}
        BY <1>3, <2>5, <3>1 DEF FeedOf
      <3>3. k \in SavesOf(f, revisions)
        BY <3>2
      <3>4. f.actor = u /\ k <= f.to_version /\ f.to_version \in Nat
        BY <1>3, <2>5, <3>3 DEF SavesOf, FeedOf, EditEntry
      <3>5. k <= e.to_version
        BY <1>1, <2>1, <2>2, <3>1, <3>4
      <3> QED BY <2>1, <2>2, <2>5, <3>1, <3>5 DEF SavesOf
    <2>6. SavesOf(x, revisions') = SavesOf(e, revisions) \cup {n + 1}
      <3>1. n + 1 \in SavesOf(x, revisions')
        <4>1. e.from_version + 1 <= n + 1
          BY <1>1, <2>2
        <4> QED BY <1>1, <2>2, <2>3, <4>1 DEF SavesOf
      <3>2. ASSUME NEW k \in SavesOf(x, revisions'), k # n + 1 PROVE k \in SavesOf(e, revisions)
        <4>1. k \in (e.from_version + 1)..n /\ k \in 1..n
          BY <1>1, <2>2, <2>3, <3>2 DEF SavesOf
        <4>2. revisions[k].op = "save" /\ revisions[k].by = u
          BY <1>1, <2>3, <3>2, <4>1 DEF SavesOf
        <4> QED BY <2>5, <4>1, <4>2
      <3>3. ASSUME NEW k \in SavesOf(e, revisions) PROVE k \in SavesOf(x, revisions')
        <4>1. k \in (e.from_version + 1)..e.to_version /\ k \in 1..n
          BY <1>1, <2>2 DEF SavesOf
        <4>2. k \in (e.from_version + 1)..(n + 1)
          BY <1>1, <2>2, <4>1
        <4> QED BY <1>1, <2>1, <2>3, <4>1, <4>2 DEF SavesOf
      <3> QED BY <3>1, <3>2, <3>3
    <2>7. IsFiniteSet(SavesOf(e, revisions)) /\ n + 1 \notin SavesOf(e, revisions)
      <3>1. IsFiniteSet((e.from_version + 1)..e.to_version)
        <4>1. e.from_version + 1 \in Int /\ e.to_version \in Int
          BY <2>2
        <4> QED BY <4>1, FS_Interval
      <3>2. SavesOf(e, revisions) \subseteq (e.from_version + 1)..e.to_version
        BY DEF SavesOf
      <3> QED BY <1>1, <2>2, <3>1, <3>2, FS_Subset
    <2>8. x.edits = Cardinality(SavesOf(x, revisions'))
      BY <2>2, <2>3, <2>6, <2>7, FS_AddElement
    <2>9. \A k : k \in SavesOf(x, revisions') <=>
                   k = n + 1 \/ \E o \in {e} : k \in SavesOf(o, revisions)
      BY <2>6
    <2>10. FeedOf((feed \ {e}) \cup {x}, revisions', n + 1)
      <3>1. /\ n \in Nat /\ x.from_version <= n + 1 /\ {e} \subseteq feed /\ IsFiniteSet({e})
            /\ \A k \in 1..n : revisions'[k] = revisions[k]
        <4>1. n \in Nat /\ x.from_version <= n + 1
          BY <1>1, <2>2, <2>3
        <4>2. {e} \subseteq feed
          BY <2>1
        <4>3. IsFiniteSet({e})
          BY FS_Singleton
        <4>4. \A k \in 1..n : revisions'[k] = revisions[k]
          BY <1>1
        <4> QED BY <4>1, <4>2, <4>3, <4>4
      <3> QED BY <1>3, <2>3, <2>8, <2>9, <3>1, FeedGrows
    <2> QED BY <1>1, <2>4, <2>10 DEF FeedInv
  <1> QED BY <1>2, <1>4, <1>5 DEF RecordEdit

\* Every step keeps the feed true.
LEMMA NextFeedInv == IInv /\ FeedInv /\ [Next]_vars => FeedInv'
  <1> SUFFICES ASSUME IInv, FeedInv, [Next]_vars PROVE FeedInv'
    OBVIOUS
  <1>1. ASSUME UNCHANGED <<revisions, feed>> PROVE FeedInv'
    BY <1>1 DEF FeedInv, FeedOf, SavesOf
  <1>2. ASSUME NEW p, Writes(p), job[p].op # "save" PROVE FeedInv'
    <2>1. UNCHANGED feed
      BY <1>2 DEF Writes
    <2>2. FeedOf(feed, revisions', Len(revisions) + 1)
      BY <1>2, WriteAdds, FeedStays DEF FeedInv
    <2> QED BY <1>2, <2>1, <2>2, WriteAdds DEF FeedInv
  <1> QED BY <1>1, <1>2, SaveKeepsFeed, StepKinds

\* The feed counts every save once, and its author's only (record_edit).
THEOREM FeedMatchesHistoryHolds == Spec => []FeedMatchesHistory
  <1> QED BY InitFeedInv, NextFeedInv, FeedInvShows, Invariance, PTL DEF Spec
=============================================================================
