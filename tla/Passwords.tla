----------------------------- MODULE Passwords -----------------------------
(***************************************************************************)
(* The password of one account: signing in and the lock after too many     *)
(* misses, changing and resetting it, the password an operator issues and  *)
(* the wall the account stays behind until its owner has chosen one.       *)
(*                                                                         *)
(* A request reads its rows first and writes at its commit, under READ     *)
(* COMMITTED and without a row lock.  The ORM writes only the columns      *)
(* whose value differs from the one it read.                               *)
(***************************************************************************)
EXTENDS Naturals, Sequences

CONSTANTS Requests,  \* bound: requests in flight at one time
          MaxFailed, \* MAX_FAILED_LOGINS
          LockTime,  \* LOCKOUT_MINUTES
          MaxTime,   \* bound on the clock, in whole seconds
          MaxLinks,  \* bound on the reset links ever sent
          MaxSignIns \* bound on the sign-ins ever made

ASSUME ConstantsOK == /\ MaxFailed \in Nat \ {0} /\ LockTime \in Nat
                      /\ MaxTime \in Nat /\ MaxLinks \in Nat /\ MaxSignIns \in Nat

Time == 0..MaxTime

VARIABLES cred,    \* the user_credentials row: must_change_password, password_changed_at
          issued,  \* history: the password was issued, not chosen
          crossed, \* history: the flag had moved since the last write read it
          links,   \* links[l]: the second reset link l was made in
          spent,   \* the reset links on the denylist
          made,    \* how many sign-ins were ever made
          live,    \* the sign-ins that are not over
          door,    \* failed_login_count, locked_until; 0 is NULL
          missed,  \* history: the misses since the count was last set to 0
          clock,
          job      \* job[s]: a request

vars == <<cred, issued, crossed, links, spent, made, live, door, missed, clock, job>>
words == <<cred, issued, crossed>>
count == <<door, missed>>

Idle == [step |-> "idle"]
Door == [fails: 0..(MaxFailed - 1), until: Nat]
Writing == {"reset", "change", "initial", "reissue"}
Job == {Idle} \cup
       [step: {"match", "miss"}, door: Door] \cup
       [step: Writing, read: [flag: BOOLEAN, at: Time], door: Door, at: Time,
        link: Nat, keep: Nat, upto: Nat] \cup
       [step: {"ending", "told"}, keep: Nat, upto: Nat]

TypeOK ==
    /\ cred \in [flag: BOOLEAN, at: Time]
    /\ issued \in BOOLEAN /\ crossed \in BOOLEAN
    /\ links \in Seq(Time) /\ spent \subseteq DOMAIN links
    /\ made \in 0..MaxSignIns /\ live \subseteq 1..made
    /\ door \in Door /\ missed \in Nat
    /\ clock \in Time
    /\ job \in [Requests -> Job]

\* An account that registered chose its password; an operator may have issued it.
Init ==
    /\ issued \in BOOLEAN /\ crossed = FALSE
    /\ cred = [flag |-> issued, at |-> 0]
    /\ links = <<>> /\ spent = {}
    /\ made = 0 /\ live = {}
    /\ door = [fails |-> 0, until |-> 0] /\ missed = 0
    /\ clock = 0
    /\ job = [s \in Requests |-> Idle]

-----------------------------------------------------------------------------
Go(s, j) == job' = [job EXCEPT ![s] = j]

\* What an UPDATE leaves in a column: the new value, unless that is the one read.
Merged(now, read, new) == IF new = read THEN now ELSE new

Tick ==
    /\ clock < MaxTime
    /\ clock' = clock + 1
    /\ UNCHANGED <<words, links, spent, made, live, count, job>>

-----------------------------------------------------------------------------
(* Signing in. *)

\* authenticate: the lock is looked at, then the password.
BeginSignIn(s, outcome) ==
    /\ job[s] = Idle
    /\ ~(door.until > clock)
    /\ Go(s, [step |-> outcome, door |-> door])
    /\ UNCHANGED <<words, links, spent, made, live, count, clock>>

\* The count and the lock are set to 0, where the request had read another value.
Opened(read) ==
    /\ door' = [fails |-> Merged(door.fails, read.fails, 0),
                until |-> Merged(door.until, read.until, 0)]
    /\ missed' = Merged(missed, read.fails, 0)

CommitSignIn(s) ==
    /\ job[s].step = "match"
    /\ made < MaxSignIns
    /\ made' = made + 1
    /\ live' = live \cup {made + 1}
    /\ Opened(job[s].door)
    /\ Go(s, Idle)
    /\ UNCHANGED <<words, links, spent, clock>>

\* Mutant of Raised: the count is raised in memory, from the value that was read.
RaisedInMemory(j) == j.door.fails + 1

\* UPDATE ... failed_login_count + 1 RETURNING: from the value in the row.
Raised(j) == door.fails + 1

\* Mutant of CommitMiss: the account is locked one miss too late.
CommitMissLate(s) ==
    /\ job[s].step = "miss"
    /\ LET n == Raised(job[s]) IN
       IF n > MaxFailed
       THEN door' = [fails |-> 0, until |-> clock + LockTime] /\ missed' = 0
       ELSE door' = [door EXCEPT !.fails = n] /\ missed' = missed + 1
    /\ Go(s, Idle)
    /\ UNCHANGED <<words, links, spent, made, live, clock>>

\* _register_failure.
CommitMiss(s) ==
    /\ job[s].step = "miss"
    /\ LET n == Raised(job[s]) IN
       IF n >= MaxFailed
       THEN door' = [fails |-> 0, until |-> clock + LockTime] /\ missed' = 0
       ELSE door' = [door EXCEPT !.fails = n] /\ missed' = missed + 1
    /\ Go(s, Idle)
    /\ UNCHANGED <<words, links, spent, made, live, clock>>

-----------------------------------------------------------------------------
(* Writing the password. *)

ForgotPassword ==
    /\ Len(links) < MaxLinks
    /\ links' = Append(links, clock)
    /\ UNCHANGED <<words, spent, made, live, count, clock, job>>

Begin(s, what, l, n) ==
    /\ job[s] = Idle
    /\ Go(s, [step |-> what, read |-> cred, door |-> door, at |-> clock,
              link |-> l, keep |-> n, upto |-> made])
    /\ UNCHANGED <<words, links, spent, made, live, count, clock>>

\* reset_password: a link is good until it is used, or the password changes in a
\* later second than the one it was made in.
BeginReset(s, l) == l \notin spent /\ ~(links[l] < cred.at) /\ Begin(s, "reset", l, 0)

\* A request of sign-in n that gets past the wall (_assert_password_is_chosen).
BeginChange(s, n) == n \in live /\ ~cred.flag /\ Begin(s, "change", 0, 0)

\* set_initial_password: the one route for a flagged account, and for no other.
BeginInitial(s, n) == n \in live /\ cred.flag /\ Begin(s, "initial", 0, n)

\* The operator's update_user with reset_password.
BeginReissue(s) == Begin(s, "reissue", 0, 0)

\* Mutant of Ended: choosing the first password signs nobody out.
EndedByReset(j, n) == IF j.step = "reset" THEN 1..n ELSE {}

\* revoke_all_sessions, of the sign-ins it finds: a reset ends them all, a first
\* choice all but its own.
Ended(j, n) == IF j.step \in {"reset", "initial"} THEN (1..n) \ {j.keep} ELSE {}

\* Mutant of Flagged: a reset leaves the flag as it was read.
FlaggedUnlessReset(j) == IF j.step = "reset" THEN j.read.flag ELSE j.step = "reissue"

\* _apply_chosen_password takes the flag down, the operator puts it up.
Flagged(j) == j.step = "reissue"

\* Mutant of Refused: the denylist takes a second row for one link.
RefusedNever(j) == FALSE

\* The primary key of revoked_tokens fails the second use of one link.
Refused(j) == j.step = "reset" /\ j.link \in spent

\* change_password ends nothing; an issued password ends everything afterwards.
After(j) ==
    IF j.step = "change" THEN Idle
    ELSE [step |-> IF j.step = "reissue" THEN "ending" ELSE "told", keep |-> j.keep, upto |-> j.upto]

CommitWrite(s) ==
    /\ job[s].step \in Writing
    /\ ~Refused(job[s])
    /\ LET j == job[s] IN
       /\ cred' = [flag |-> Merged(cred.flag, j.read.flag, Flagged(j)), at |-> j.at]
       /\ issued' = (j.step = "reissue")
       /\ crossed' = (cred.flag # j.read.flag)
       /\ \E n \in j.upto..made : live' = live \ Ended(j, n)
       /\ IF j.step = "reset"
          THEN spent' = spent \cup {j.link} /\ Opened(j.door)
          ELSE UNCHANGED <<spent, count>>
       /\ Go(s, After(j))
    /\ UNCHANGED <<links, made, clock>>

\* logout_everywhere, in a transaction of its own.
EndAll(s) ==
    /\ job[s].step = "ending"
    /\ \E n \in job[s].upto..made : live' = live \ (1..n)
    /\ Go(s, [job[s] EXCEPT !.step = "told"])
    /\ UNCHANGED <<words, links, spent, made, count, clock>>

Answer(s) ==
    /\ job[s].step = "told"
    /\ Go(s, Idle)
    /\ UNCHANGED <<words, links, spent, made, live, count, clock>>

\* A transaction that is refused, or the server stops: between the two of the
\* operator as well.
Abort(s) ==
    /\ job[s].step \in Writing \cup {"match", "miss", "ending"}
    /\ Go(s, Idle)
    /\ UNCHANGED <<words, links, spent, made, live, count, clock>>

\* Signing out ends one sign-in.
SignOut(n) ==
    /\ live' = live \ {n}
    /\ UNCHANGED <<words, links, spent, made, count, clock, job>>

-----------------------------------------------------------------------------
Next ==
    \/ Tick \/ ForgotPassword
    \/ \E s \in Requests :
          \/ \E outcome \in {"match", "miss"} : BeginSignIn(s, outcome)
          \/ CommitSignIn(s) \/ CommitMiss(s)
          \/ \E l \in DOMAIN links : BeginReset(s, l)
          \/ \E n \in live : BeginChange(s, n) \/ BeginInitial(s, n)
          \/ BeginReissue(s) \/ CommitWrite(s) \/ EndAll(s)
          \/ Answer(s) \/ Abort(s)
    \/ \E n \in live : SignOut(n)

Spec == Init /\ [][Next]_vars
-----------------------------------------------------------------------------
\* However many requests guess at once, fewer than MaxFailed misses go by without
\* locking the account (_register_failure).
GuessesAreBounded == missed < MaxFailed

\* The wall stands exactly while the password is an issued one, unless the last
\* write overlapped one that moved the flag (_apply_chosen_password, update_user).
WallFollowsPassword == ~crossed => (cred.flag <=> issued)

\* Whoever is told that a password was reset, chosen or issued is alone with it:
\* the sign-ins made before are over, but for the one that asked
\* (revoke_all_sessions, logout_everywhere).
AnsweredIsAlone ==
    \A s \in Requests : job[s].step = "told" =>
        \A n \in live : n > job[s].upto \/ n = job[s].keep

\* A link sets at most one password, however many requests hold it; one that is
\* older than the password sets none, unless that password was written while the
\* request was under way (reset_password).
LinksSetOnce ==
    [][\A s \in Requests : job[s].step = "reset" /\ job'[s].step = "told" =>
          LET l == job[s].link IN
          /\ l \in spent' \ spent
          /\ cred.at <= links[l] \/ cred.at # job[s].read.at]_vars
=============================================================================
