----------------------------- MODULE DocHistory -----------------------------
(***************************************************************************)
(* What the server promises about one project's document, seen from        *)
(* outside: a history of revisions that only grows, a current document     *)
(* that is always the newest revision, and named versions that are kept.   *)
(* A save that names the revision it was made from is accepted only when   *)
(* that revision is still the newest one.                                  *)
(***************************************************************************)
EXTENDS Naturals, Sequences

CONSTANTS Users,     \* accounts that write
          Docs,      \* document contents
          NoBase     \* the base of a write that names none

VARIABLES current,   \* the stored document
          revisions, \* revisions[k]: the write that made doc_version k
          named      \* revision numbers somebody chose to keep

vars == <<current, revisions, named>>

Revision == [doc: Docs, by: Users, base: Nat \cup {NoBase}]

Init ==
    \E d \in Docs, u \in Users :
        /\ current = d
        /\ revisions = <<[doc |-> d, by |-> u, base |-> NoBase]>>
        /\ named = {}

\* A write: compare the base with the newest revision, then replace it. The
\* same write may keep the revision it replaces under a name.
Revise ==
    \E d \in Docs, u \in Users, b \in {NoBase, Len(revisions)} :
        /\ current' = d
        /\ revisions' = Append(revisions, [doc |-> d, by |-> u, base |-> b])
        /\ named' \in {named, named \cup {Len(revisions)}}

\* Keep one revision under a name; any revision the document really had.
Keep ==
    \E k \in 1..Len(revisions) :
        /\ named' = named \cup {k}
        /\ UNCHANGED <<current, revisions>>

Next == Revise \/ Keep

Spec == Init /\ [][Next]_vars
=============================================================================
