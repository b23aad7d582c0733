--------------------------- MODULE PasswordsProofs ---------------------------
(* Theorems about Passwords, for any number of requests and any limits. *)
EXTENDS Passwords, TLAPS

\* What a request knows of the sign-ins and the links, of which there are n and ls:
\* its sign-ins were made before, and its link was no older than the password it read.
JobOK(j, n, ls) ==
    /\ j.step \in Writing \cup {"ending", "told"} => j.upto <= n
    /\ j.step = "reset" => j.link \in DOMAIN ls /\ j.read.at <= ls[j.link]

\* Whoever was told is alone among the sign-ins lv.
Alone(j, lv) == j.step = "told" => \A n \in lv : n > j.upto \/ n = j.keep

Promises == \A s \in Requests : JobOK(job[s], made, links) /\ Alone(job[s], live)

\* The count in the row is the count of the misses.
CountIsTrue == missed = door.fails

IInv == TypeOK /\ Promises /\ CountIsTrue /\ WallFollowsPassword

-----------------------------------------------------------------------------
\* The jobs by their step.
SignInJob == [step: {"match", "miss"}, door: Door]
WriteJob == [step: Writing, read: [flag: BOOLEAN, at: Time], door: Door, at: Time,
             link: Nat, keep: Nat, upto: Nat]
EndJob == [step: {"ending", "told"}, keep: Nat, upto: Nat]

\* A request that writes holds what it read.
LEMMA WritesAreTyped == ASSUME NEW j \in Job, j.step \in Writing PROVE j \in WriteJob
BY DEF Job, Idle, Writing, WriteJob

\* A request that signs in holds the door it read.
LEMMA SignInsAreTyped ==
    ASSUME NEW j \in Job, j.step \in {"match", "miss"} PROVE j.door \in Door
BY DEF Job, Idle, Writing

\* A request that ends sign-ins knows which.
LEMMA EndsAreTyped ==
    ASSUME NEW j \in Job, j.step \in {"ending", "told"} PROVE j \in EndJob
BY DEF Job, Idle, Writing, EndJob

\* A job of each kind is a job.
LEMMA JobKinds == Idle \in Job /\ SignInJob \subseteq Job /\ WriteJob \subseteq Job /\ EndJob \subseteq Job
BY DEF Job, SignInJob, WriteJob, EndJob

\* What was read before a step: sign-ins and links are only added.
Later ==
    /\ made \in Nat /\ made' \in Nat /\ made <= made'
    /\ links \in Seq(Time) /\ links' \in Seq(Time)
    /\ \A l \in DOMAIN links : l \in DOMAIN links' /\ links'[l] = links[l]
    /\ live' \subseteq Nat /\ \A n \in live' : n \in live \/ n > made

\* So what a request was promised it is still promised after the step.
LEMMA PromisesLast ==
    ASSUME Later, NEW j \in Job, JobOK(j, made, links), Alone(j, live)
    PROVE  JobOK(j, made', links') /\ Alone(j, live')
<1>1. CASE j.step \in Writing
  <2>1. j \in WriteJob BY <1>1, WritesAreTyped
  <2>2. JobOK(j, made', links') BY <1>1, <2>1 DEF JobOK, Later, WriteJob, Writing
  <2>3. j.step # "told" BY <1>1 DEF Writing
  <2>4. QED BY <2>2, <2>3 DEF Alone
<1>2. CASE j.step \in {"ending", "told"}
  <2>1. j \in EndJob BY <1>2, EndsAreTyped
  <2>2. JobOK(j, made', links') BY <1>2, <2>1 DEF JobOK, Later, EndJob, Writing
  <2>3. ASSUME j.step = "told", NEW n \in live', n \notin live PROVE n > j.upto
    <3>1. n > made /\ j.upto <= made BY <2>3 DEF Later, JobOK
    <3>2. n \in Nat /\ made \in Nat /\ j.upto \in Nat BY <2>1 DEF Later, EndJob
    <3>3. QED BY <3>1, <3>2
  <2>4. QED BY <2>2, <2>3 DEF Alone
<1>3. CASE j.step \notin Writing \cup {"ending", "told"}
  BY <1>3 DEF JobOK, Alone, Writing
<1>4. QED BY <1>1, <1>2, <1>3

\* A request that goes on with a good job, while the others keep theirs.
LEMMA GoKeeps ==
    ASSUME job \in [Requests -> Job], Promises, Later, NEW s \in Requests, NEW j \in Job,
           JobOK(j, made', links'), Alone(j, live'), Go(s, j)
    PROVE  job' \in [Requests -> Job] /\ Promises'
<1>1. job' \in [Requests -> Job] BY DEF Go
<1>2. ASSUME NEW x \in Requests PROVE JobOK(job'[x], made', links') /\ Alone(job'[x], live')
  <2>1. CASE x = s BY <2>1 DEF Go
  <2>2. CASE x # s
    <3>1. job'[x] = job[x] BY <2>2 DEF Go
    <3>2. JobOK(job[x], made', links') /\ Alone(job[x], live') BY PromisesLast DEF Promises
    <3>3. QED BY <3>1, <3>2
  <2>3. QED BY <2>1, <2>2
<1>3. QED BY <1>1, <1>2 DEF Promises

\* Where no request moves, all keep their promises.
LEMMA StayKeeps ==
    ASSUME job \in [Requests -> Job], Promises, Later, UNCHANGED job PROVE Promises'
BY PromisesLast DEF Promises

\* An idle request has nothing to promise.
LEMMA IdleIsGood ==
    ASSUME NEW n, NEW ls, NEW lv PROVE Idle \in Job /\ JobOK(Idle, n, ls) /\ Alone(Idle, lv)
BY JobKinds DEF Idle, JobOK, Alone, Writing

\* What a step sees of sign-ins and links when it adds none.
LEMMA FewerIsLater ==
    ASSUME TypeOK, UNCHANGED <<made, links>>, live' \subseteq live PROVE Later
<1>1. made \in Nat /\ live \subseteq Nat BY ConstantsOK DEF TypeOK
<1>2. QED BY <1>1 DEF TypeOK, Later

\* The door opens for whoever knows the password; the count stays true.
LEMMA OpenedIsTrue ==
    ASSUME TypeOK, CountIsTrue, NEW read \in Door, Opened(read)
    PROVE  door' \in Door /\ missed' \in Nat /\ missed' = door'.fails
<1>1. door \in Door /\ missed = door.fails BY DEF TypeOK, CountIsTrue
<1> DEFINE f == Merged(door.fails, read.fails, 0)
           u == Merged(door.until, read.until, 0)
<1>2. 0 \in 0..(MaxFailed - 1) BY ConstantsOK
<1>3. f \in 0..(MaxFailed - 1) /\ u \in Nat BY <1>1, <1>2 DEF Merged, Door
<1>4. door' = [fails |-> f, until |-> u] /\ missed' = f BY <1>1 DEF Opened
<1> HIDE DEF f, u
<1>5. QED BY <1>3, <1>4, ConstantsOK DEF Door

-----------------------------------------------------------------------------
\* The initial states are as promised.
LEMMA InitIInv == Init => IInv
<1> SUFFICES ASSUME Init PROVE IInv OBVIOUS
<1>1. 0 \in Time /\ 0 \in 0..(MaxFailed - 1) /\ 0 \in 0..MaxSignIns BY ConstantsOK DEF Time
<1>2. cred \in [flag: BOOLEAN, at: Time] /\ issued \in BOOLEAN /\ crossed \in BOOLEAN
  BY <1>1 DEF Init
<1>3. links \in Seq(Time) /\ spent \subseteq DOMAIN links BY DEF Init
<1>4. made \in 0..MaxSignIns /\ live \subseteq 1..made /\ clock \in Time BY <1>1 DEF Init
<1>5. door \in Door /\ missed \in Nat /\ missed = door.fails BY <1>1 DEF Init, Door
<1>6. job \in [Requests -> Job] /\ Promises BY IdleIsGood DEF Init, Promises
<1>7. WallFollowsPassword BY DEF Init, WallFollowsPassword
<1>8. QED BY <1>2, <1>3, <1>4, <1>5, <1>6, <1>7 DEF IInv, TypeOK, CountIsTrue

\* Time passes.
LEMMA TickKeeps == ASSUME IInv, Tick PROVE IInv'
<1>1. clock' \in Time BY ConstantsOK DEF IInv, TypeOK, Tick, Time
<1>2. UNCHANGED <<words, links, spent, made, live, count, job>> BY DEF Tick
<1>3. TypeOK' BY <1>1, <1>2 DEF IInv, TypeOK, words, count
<1>4. QED BY <1>2, <1>3 DEF IInv, Promises, CountIsTrue, WallFollowsPassword, words, count

\* A reset link is sent: the ones before keep their places.
LEMMA ForgotKeeps == ASSUME IInv, ForgotPassword PROVE IInv'
<1>1. links \in Seq(Time) /\ clock \in Time BY DEF IInv, TypeOK
<1>2. links' = Append(links, clock) /\ UNCHANGED <<words, spent, made, live, count, clock, job>>
  BY DEF ForgotPassword
<1>3. links' \in Seq(Time) BY <1>1, <1>2
<1>4. \A l \in DOMAIN links : l \in DOMAIN links' /\ links'[l] = links[l] BY <1>1, <1>2
<1>5. Later BY <1>1, <1>2, <1>3, <1>4, ConstantsOK DEF Later, IInv, TypeOK
<1>6. Promises' BY <1>2, <1>5, StayKeeps DEF IInv, TypeOK
<1>7. TypeOK' BY <1>2, <1>3, <1>4 DEF IInv, TypeOK, words, count
<1>8. QED BY <1>2, <1>6, <1>7 DEF IInv, CountIsTrue, WallFollowsPassword, words, count

\* A request moves on and writes nothing.
LEMMA MoveKeeps ==
    ASSUME IInv, NEW s \in Requests, NEW j \in Job, JobOK(j, made, links), Alone(j, live),
           Go(s, j), UNCHANGED <<words, links, spent, made, live, count, clock>>
    PROVE  IInv'
<1>1. Later BY FewerIsLater DEF IInv
<1>2. job' \in [Requests -> Job] /\ Promises' BY <1>1, GoKeeps DEF IInv, TypeOK
<1>3. QED BY <1>2 DEF IInv, TypeOK, CountIsTrue, WallFollowsPassword, words, count

\* Somebody tries a password.
LEMMA BeginSignInKeeps ==
    ASSUME IInv, NEW s \in Requests, NEW outcome \in {"match", "miss"}, BeginSignIn(s, outcome)
    PROVE  IInv'
<1> DEFINE j == [step |-> outcome, door |-> door]
<1>1. j \in Job BY JobKinds DEF IInv, TypeOK, SignInJob
<1>2. JobOK(j, made, links) /\ Alone(j, live) BY DEF JobOK, Alone, Writing
<1>3. Go(s, j) /\ UNCHANGED <<words, links, spent, made, live, count, clock>>
  BY DEF BeginSignIn
<1> HIDE DEF j
<1>4. QED BY <1>1, <1>2, <1>3, MoveKeeps

\* A sign-in: one more, and later than all before.
LEMMA CommitSignInKeeps == ASSUME IInv, NEW s \in Requests, CommitSignIn(s) PROVE IInv'
<1>1. made \in 0..MaxSignIns /\ live \subseteq 1..made /\ made < MaxSignIns
  BY DEF IInv, TypeOK, CommitSignIn
<1>2. made' = made + 1 /\ live' = live \cup {made + 1} /\ Go(s, Idle)
      /\ UNCHANGED <<words, links, spent, clock>>
  BY DEF CommitSignIn
<1>3. made' \in 0..MaxSignIns /\ live' \subseteq 1..made' BY <1>1, <1>2, ConstantsOK
<1>4. job[s].door \in Door BY SignInsAreTyped DEF IInv, TypeOK, CommitSignIn
<1>5. door' \in Door /\ missed' \in Nat /\ missed' = door'.fails
  BY <1>4, OpenedIsTrue DEF IInv, CommitSignIn
<1>6. Later
  <2>1. made \in Nat /\ made' \in Nat /\ made <= made' BY <1>1, <1>2, ConstantsOK
  <2>2. live' \subseteq Nat BY <1>3, <2>1
  <2>3. \A n \in live' : n \in live \/ n > made BY <1>2, <2>1
  <2>4. QED BY <1>2, <2>1, <2>2, <2>3 DEF Later, IInv, TypeOK
<1>7. job' \in [Requests -> Job] /\ Promises'
  BY <1>2, <1>6, GoKeeps, IdleIsGood DEF IInv, TypeOK
<1>8. TypeOK' BY <1>2, <1>3, <1>5, <1>7 DEF IInv, TypeOK, words
<1>9. QED BY <1>2, <1>5, <1>7, <1>8 DEF IInv, CountIsTrue, WallFollowsPassword, words

\* A miss: the count is raised in the row, so none is lost.
LEMMA CommitMissKeeps == ASSUME IInv, NEW s \in Requests, CommitMiss(s) PROVE IInv'
<1>1. door \in Door /\ missed \in Nat /\ missed = door.fails /\ clock \in Nat
  BY ConstantsOK DEF IInv, TypeOK, CountIsTrue, Time
<1>2. Go(s, Idle) /\ UNCHANGED <<words, links, spent, made, live, clock>> BY DEF CommitMiss
<1>3. door' \in Door /\ missed' \in Nat /\ missed' = door'.fails
  <2>1. CASE door.fails + 1 >= MaxFailed
    <3>1. door' = [fails |-> 0, until |-> clock + LockTime] /\ missed' = 0
      BY <2>1 DEF CommitMiss, Raised
    <3>2. 0 \in 0..(MaxFailed - 1) /\ clock + LockTime \in Nat BY <1>1, ConstantsOK
    <3>3. QED BY <3>1, <3>2 DEF Door
  <2>2. CASE ~(door.fails + 1 >= MaxFailed)
    <3>1. door' = [door EXCEPT !.fails = door.fails + 1] /\ missed' = missed + 1
      BY <2>2 DEF CommitMiss, Raised
    <3>2. door.fails + 1 \in 0..(MaxFailed - 1) BY <1>1, <2>2, ConstantsOK DEF Door
    <3>3. QED BY <1>1, <3>1, <3>2 DEF Door
  <2>3. QED BY <2>1, <2>2
<1>4. Later BY <1>2, FewerIsLater DEF IInv
<1>5. job' \in [Requests -> Job] /\ Promises'
  BY <1>2, <1>4, GoKeeps, IdleIsGood DEF IInv, TypeOK
<1>6. TypeOK' BY <1>2, <1>3, <1>5 DEF IInv, TypeOK, words
<1>7. QED BY <1>2, <1>3, <1>5, <1>6 DEF IInv, CountIsTrue, WallFollowsPassword, words

\* A request to write the password begins, with what it read and when.
LEMMA BeginKeeps ==
    ASSUME IInv, NEW s \in Requests, NEW what \in Writing, NEW l \in Nat, NEW n \in Nat,
           what = "reset" => l \in DOMAIN links /\ cred.at <= links[l],
           Begin(s, what, l, n)
    PROVE  IInv'
<1> DEFINE j == [step |-> what, read |-> cred, door |-> door, at |-> clock,
                 link |-> l, keep |-> n, upto |-> made]
<1>1. made \in Nat BY ConstantsOK DEF IInv, TypeOK
<1>2. j \in WriteJob BY <1>1 DEF IInv, TypeOK, WriteJob
<1>3. j \in Job BY <1>2, JobKinds
<1>4. JobOK(j, made, links) /\ Alone(j, live) BY <1>1 DEF JobOK, Alone, Writing
<1>5. Go(s, j) /\ UNCHANGED <<words, links, spent, made, live, count, clock>> BY DEF Begin
<1> HIDE DEF j
<1>6. QED BY <1>3, <1>4, <1>5, MoveKeeps

\* The requests that begin to write.
Starts(s) ==
    \/ \E l \in DOMAIN links : BeginReset(s, l)
    \/ \E n \in live : BeginChange(s, n) \/ BeginInitial(s, n)
    \/ BeginReissue(s)

\* Each of them.
LEMMA StartsKeep == ASSUME IInv, NEW s \in Requests, Starts(s) PROVE IInv'
<1>1. live \subseteq Nat /\ links \in Seq(Time) /\ cred.at \in Time
  BY ConstantsOK DEF IInv, TypeOK
<1>2. ASSUME NEW l \in DOMAIN links, BeginReset(s, l) PROVE IInv'
  <2>1. l \in Nat /\ links[l] \in Time BY <1>1
  <2>2. cred.at <= links[l] BY <1>1, <1>2, <2>1, ConstantsOK DEF BeginReset, Time
  <2>3. QED BY <1>2, <2>1, <2>2, BeginKeeps DEF BeginReset, Writing
<1>3. ASSUME NEW n \in live, BeginChange(s, n) PROVE IInv'
  BY <1>3, BeginKeeps DEF BeginChange, Writing
<1>4. ASSUME NEW n \in live, BeginInitial(s, n) PROVE IInv'
  BY <1>1, <1>4, BeginKeeps DEF BeginInitial, Writing
<1>5. CASE BeginReissue(s) BY <1>5, BeginKeeps DEF BeginReissue, Writing
<1>6. QED BY <1>2, <1>3, <1>4, <1>5 DEF Starts

\* The step a write leaves behind tells the truth about the sign-ins.
LEMMA AfterIsGood ==
    ASSUME IInv, NEW s \in Requests, CommitWrite(s)
    PROVE  After(job[s]) \in Job /\ JobOK(After(job[s]), made', links')
           /\ Alone(After(job[s]), live') /\ live' \subseteq live
<1> DEFINE j == job[s]
<1>1. j \in WriteJob BY WritesAreTyped DEF IInv, TypeOK, CommitWrite
<1>2. j.upto <= made /\ made \in Nat /\ live \subseteq 1..made /\ UNCHANGED <<links, made>>
  BY ConstantsOK DEF IInv, TypeOK, Promises, JobOK, CommitWrite
<1>3. PICK n \in j.upto..made : live' = live \ Ended(j, n) BY DEF CommitWrite
<1>4. live' \subseteq live BY <1>3
<1> DEFINE to == IF j.step = "reissue" THEN "ending" ELSE "told"
           e == [step |-> to, keep |-> j.keep, upto |-> j.upto]
<1>5. e \in EndJob BY <1>1 DEF EndJob, WriteJob
<1>6. e \in Job BY <1>5, JobKinds
<1>7. JobOK(e, made', links') BY <1>2 DEF JobOK, Writing
<1>8. ASSUME j.step # "change" PROVE Alone(e, live')
  <2>1. CASE j.step = "reissue" BY <2>1 DEF Alone
  <2>2. CASE j.step \in {"reset", "initial"}
    <3>1. live' = live \ ((1..n) \ {j.keep}) BY <1>3, <2>2 DEF Ended
    <3>2. n \in Nat /\ n >= j.upto /\ j.upto \in Nat BY <1>1, <1>2, <1>3 DEF WriteJob
    <3>3. ASSUME NEW m \in live' PROVE m > j.upto \/ m = j.keep
      <4>1. m \in 1..made /\ (m \notin 1..n \/ m = j.keep) BY <1>2, <3>1
      <4>2. QED BY <1>2, <3>2, <4>1
    <3>4. QED BY <3>3 DEF Alone
  <2>3. QED BY <1>1, <1>8, <2>1, <2>2 DEF WriteJob, Writing
<1>9. After(j) = IF j.step = "change" THEN Idle ELSE e BY DEF After
<1> HIDE DEF e, j
<1>10. After(j) \in Job /\ JobOK(After(j), made', links') /\ Alone(After(j), live')
  BY <1>6, <1>7, <1>8, <1>9, IdleIsGood
<1>11. QED BY <1>4, <1>10 DEF j

\* A password is written.
LEMMA CommitWriteKeeps == ASSUME IInv, NEW s \in Requests, CommitWrite(s) PROVE IInv'
<1>1. job[s] \in WriteJob BY WritesAreTyped DEF IInv, TypeOK, CommitWrite
<1>2. live' \subseteq live /\ UNCHANGED <<links, made, clock>> BY AfterIsGood DEF CommitWrite
<1>3. Later BY <1>2, FewerIsLater DEF IInv
<1>4. Go(s, After(job[s])) BY DEF CommitWrite
<1>5. job' \in [Requests -> Job] /\ Promises'
  BY <1>3, <1>4, AfterIsGood, GoKeeps DEF IInv, TypeOK
<1> DEFINE read == job[s].read
           flag == Merged(cred.flag, read.flag, Flagged(job[s]))
<1>6. cred' = [flag |-> flag, at |-> job[s].at] /\ issued' = (job[s].step = "reissue")
      /\ crossed' = (cred.flag # read.flag)
  BY DEF CommitWrite
<1>7. cred.flag \in BOOLEAN /\ read.flag \in BOOLEAN /\ job[s].at \in Time
  BY <1>1 DEF IInv, TypeOK, WriteJob
<1>8. flag \in BOOLEAN BY <1>7 DEF Merged, Flagged
<1>9. cred.flag = read.flag => flag = (job[s].step = "reissue") BY <1>7 DEF Merged, Flagged
<1> HIDE DEF flag
<1>10. cred' \in [flag: BOOLEAN, at: Time] /\ issued' \in BOOLEAN /\ crossed' \in BOOLEAN
  BY <1>6, <1>7, <1>8
<1>11. WallFollowsPassword' BY <1>6, <1>9 DEF WallFollowsPassword
<1>12. door' \in Door /\ missed' \in Nat /\ missed' = door'.fails
  <2>1. CASE job[s].step = "reset"
    BY <1>1, <2>1, OpenedIsTrue DEF CommitWrite, WriteJob, IInv
  <2>2. CASE job[s].step # "reset"
    BY <2>2 DEF CommitWrite, IInv, TypeOK, CountIsTrue, count
  <2>3. QED BY <2>1, <2>2
<1>13. spent' \subseteq DOMAIN links
  BY DEF CommitWrite, IInv, TypeOK, Promises, JobOK
<1>14. TypeOK' BY <1>2, <1>5, <1>10, <1>12, <1>13 DEF IInv, TypeOK
<1>15. QED BY <1>5, <1>11, <1>12, <1>14 DEF IInv, CountIsTrue

\* The operator's second transaction ends what was there when it looked.
LEMMA EndAllKeeps == ASSUME IInv, NEW s \in Requests, EndAll(s) PROVE IInv'
<1>1. job[s] \in EndJob BY EndsAreTyped DEF IInv, TypeOK, EndAll
<1>2. PICK n \in job[s].upto..made : live' = live \ (1..n) BY DEF EndAll
<1>3. UNCHANGED <<words, links, spent, made, count, clock>> BY DEF EndAll
<1>4. made \in Nat /\ live \subseteq 1..made /\ job[s].upto <= made
  BY ConstantsOK DEF IInv, TypeOK, Promises, JobOK, EndAll
<1>5. Later BY <1>2, <1>3, FewerIsLater DEF IInv
<1> DEFINE j == [job[s] EXCEPT !.step = "told"]
<1>6. j \in EndJob /\ j.step = "told" /\ j.upto = job[s].upto BY <1>1 DEF EndJob
<1>7. Go(s, j) BY DEF EndAll
<1>8. j \in Job BY <1>6, JobKinds
<1> HIDE DEF j
<1>9. JobOK(j, made', links') BY <1>3, <1>4, <1>6 DEF JobOK
<1>10. ASSUME NEW m \in live' PROVE m > j.upto
  <2>1. m \in 1..made /\ m \notin 1..n BY <1>2, <1>4
  <2>2. n \in Nat /\ n >= j.upto /\ j.upto \in Nat BY <1>1, <1>2, <1>4, <1>6 DEF EndJob
  <2>3. QED BY <1>4, <2>1, <2>2
<1>11. Alone(j, live') BY <1>10 DEF Alone
<1>12. job' \in [Requests -> Job] /\ Promises'
  BY <1>5, <1>7, <1>8, <1>9, <1>11, GoKeeps DEF IInv, TypeOK
<1>13. QED BY <1>2, <1>3, <1>12 DEF IInv, TypeOK, CountIsTrue, WallFollowsPassword, words, count

\* A sign-out takes one away.
LEMMA SignOutKeeps == ASSUME IInv, NEW n \in live, SignOut(n) PROVE IInv'
<1>1. live' \subseteq live /\ UNCHANGED <<words, links, spent, made, count, clock, job>>
  BY DEF SignOut
<1>2. Later BY <1>1, FewerIsLater DEF IInv
<1>3. Promises' BY <1>1, <1>2, StayKeeps DEF IInv, TypeOK
<1>4. QED BY <1>1, <1>3 DEF IInv, TypeOK, CountIsTrue, WallFollowsPassword, words, count

\* A request that is answered or refused.
LEMMA StopKeeps == ASSUME IInv, NEW s \in Requests, Answer(s) \/ Abort(s) PROVE IInv'
BY MoveKeeps, IdleIsGood DEF Answer, Abort

\* The inductive step.
LEMMA NextIInv == IInv /\ [Next]_vars => IInv'
<1> SUFFICES ASSUME IInv, [Next]_vars PROVE IInv' OBVIOUS
<1>1. CASE Tick \/ ForgotPassword BY <1>1, TickKeeps, ForgotKeeps
<1>2. ASSUME NEW s \in Requests,
             \/ \E outcome \in {"match", "miss"} : BeginSignIn(s, outcome)
             \/ CommitSignIn(s) \/ CommitMiss(s)
      PROVE  IInv'
  BY <1>2, BeginSignInKeeps, CommitSignInKeeps, CommitMissKeeps
<1>3. ASSUME NEW s \in Requests, Starts(s) PROVE IInv' BY <1>3, StartsKeep
<1>4. ASSUME NEW s \in Requests, CommitWrite(s) \/ EndAll(s) PROVE IInv'
  BY <1>4, CommitWriteKeeps, EndAllKeeps
<1>5. ASSUME NEW s \in Requests, Answer(s) \/ Abort(s) PROVE IInv' BY <1>5, StopKeeps
<1>6. ASSUME NEW n \in live, SignOut(n) PROVE IInv' BY <1>6, SignOutKeeps
<1>7. CASE UNCHANGED vars
  BY <1>7 DEF IInv, TypeOK, Promises, CountIsTrue, WallFollowsPassword, vars, words, count
<1>8. QED BY <1>1, <1>2, <1>3, <1>4, <1>5, <1>6, <1>7 DEF Next, Starts

\* Every reachable state satisfies the invariant.
LEMMA Inductive == Spec => []IInv
BY InitIInv, NextIInv, PTL DEF Spec

-----------------------------------------------------------------------------
\* Every reachable state of the account's password is well typed.
THEOREM TypeCorrect == Spec => []TypeOK
<1>1. IInv => TypeOK BY DEF IInv
<1>2. QED BY <1>1, Inductive, PTL

\* However many requests guess at once, the account locks in time (_register_failure).
THEOREM GuessesAreBoundedHolds == Spec => []GuessesAreBounded
<1>1. IInv => GuessesAreBounded
  BY ConstantsOK DEF IInv, TypeOK, CountIsTrue, Door, GuessesAreBounded
<1>2. QED BY <1>1, Inductive, PTL

\* The wall stands exactly while the password is an issued one, unless two writes
\* crossed (_apply_chosen_password, update_user).
THEOREM WallFollowsPasswordHolds == Spec => []WallFollowsPassword
<1>1. IInv => WallFollowsPassword BY DEF IInv
<1>2. QED BY <1>1, Inductive, PTL

\* Whoever is told that a password was reset, chosen or issued is alone with it
\* (revoke_all_sessions, logout_everywhere).
THEOREM AnsweredIsAloneHolds == Spec => []AnsweredIsAlone
<1>1. IInv => AnsweredIsAlone BY DEF IInv, Promises, Alone, AnsweredIsAlone
<1>2. QED BY <1>1, Inductive, PTL

\* The step promised by LinksSetOnce.
SetOnce ==
    \A s \in Requests : job[s].step = "reset" /\ job'[s].step = "told" =>
        LET l == job[s].link IN
        /\ l \in spent' \ spent
        /\ cred.at <= links[l] \/ cred.at # job[s].read.at

\* Only the commit of a reset answers it.
LEMMA StepSetsOnce == IInv /\ [Next]_vars => SetOnce
<1> SUFFICES ASSUME IInv, [Next]_vars, NEW s \in Requests,
                    job[s].step = "reset", job'[s].step = "told"
             PROVE  /\ job[s].link \in spent' \ spent
                    /\ cred.at <= links[job[s].link] \/ cred.at # job[s].read.at
  BY DEF SetOnce
<1>1. CommitWrite(s)
  <2>1. ASSUME NEW r \in Requests, r # s, NEW j, Go(r, j) PROVE FALSE
    BY <2>1 DEF Go, IInv, TypeOK
  <2>2. ASSUME NEW j, Go(s, j) PROVE j.step = "told" BY <2>2 DEF Go, IInv, TypeOK
  <2>3. job' # job OBVIOUS
  <2>4. Next /\ ~Tick /\ ~ForgotPassword /\ ~(\E n \in live : SignOut(n))
    BY <2>3 DEF vars, Tick, ForgotPassword, SignOut
  <2>5. PICK r \in Requests :
           \/ \E outcome \in {"match", "miss"} : BeginSignIn(r, outcome)
           \/ CommitSignIn(r) \/ CommitMiss(r)
           \/ Starts(r) \/ CommitWrite(r) \/ EndAll(r) \/ Answer(r) \/ Abort(r)
    BY <2>4 DEF Next, Starts
  <2>6. \E j : Go(r, j)
    BY <2>5 DEF BeginSignIn, CommitSignIn, CommitMiss, Starts, BeginReset, BeginChange,
                BeginInitial, BeginReissue, Begin, CommitWrite, EndAll, Answer, Abort
  <2>7. r = s BY <2>1, <2>6
  <2>8. ~Go(s, Idle) BY <2>2 DEF Idle
  <2>9. job[s] # Idle BY DEF Idle
  <2>10. QED
    BY <2>5, <2>7, <2>8, <2>9 DEF BeginSignIn, CommitSignIn, CommitMiss, Starts, BeginReset,
       BeginChange, BeginInitial, BeginReissue, Begin, EndAll, Answer, Abort
<1>2. job[s].link \in spent' \ spent BY <1>1 DEF CommitWrite, Refused
<1>3. job[s].read.at <= links[job[s].link] BY DEF IInv, Promises, JobOK
<1>4. QED BY <1>2, <1>3

\* A link sets at most one password (reset_password).
THEOREM LinksSetOnceHolds == Spec => LinksSetOnce
<1>1. IInv /\ [Next]_vars => [SetOnce]_vars BY StepSetsOnce
<1>2. Spec => [][SetOnce]_vars BY <1>1, Inductive, PTL DEF Spec
<1>3. QED BY <1>2 DEF LinksSetOnce, SetOnce
=============================================================================
