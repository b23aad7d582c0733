-------------------------- MODULE CollabSyncProofs --------------------------
(***************************************************************************)
(* Proofs about the collaboration sockets, for any number of editors,      *)
(* processes, reconnections and edits: types, no version from the future,  *)
(* truthful frames, useful refusals, saves that contain what they name and *)
(* the way of a save to its answer.  The last part is about the presence   *)
(* roster, which the same hub keeps.                                       *)
(***************************************************************************)
EXTENDS CollabSync, Roster, TLAPS

\* All that is asked of one frame, seen against the revisions r.
Sound(f, r) ==
    /\ f.ver <= Len(r)
    /\ f.kind \in {"hello", "updated", "conflict"} =>
          f.ver \in 1..Len(r) /\ f.doc = r[f.ver].doc
    /\ f.kind = "conflict" => f.sent < f.ver
    /\ f.kind = "none" => f.ver = 0

SoundSeq(q, r) == \A i \in 1..Len(q) : Sound(q[i], r)

\* Every frame there is, is sound.
Frames ==
    /\ \A k \in Sockets :
        /\ Sound(greeting[k], revisions)
        /\ Sound(task[k].frame, revisions)
        /\ SoundSeq(down[k], revisions)
    /\ \A w \in Workers : Sound(relay[w].frame, revisions) /\ SoundSeq(bus[w], revisions)

\* Handlers and clients refuse, name and hold committed versions only.
Updates(q, n) == \A i \in 1..Len(q) : q[i].base <= n

Bases ==
    /\ \A k \in Sockets :
        /\ task[k].at = "refused" => task[k].frame.sent < Newest
        /\ Updates(up[k], Newest)
    /\ \A c \in Clients :
        /\ known[c] <= Newest
        /\ pbase[c] # NoBase => pbase[c] <= Newest

\* A handler runs in a process.
Hosted == \A k \in Sockets : stage[k] # "closed" => host[k] \in Workers

IInv == TypeOK /\ Frames /\ Bases /\ Hosted

-----------------------------------------------------------------------------
\* Appending to a sequence of sound frames, and taking the first one off.
LEMMA AppendSound ==
    ASSUME NEW r, NEW q \in Seq(Frame), NEW f \in Frame, SoundSeq(q, r), Sound(f, r)
    PROVE  Append(q, f) \in Seq(Frame) /\ SoundSeq(Append(q, f), r)
  <1>1. Append(q, f) \in Seq(Frame) /\ Len(Append(q, f)) = Len(q) + 1
    OBVIOUS
  <1>2. ASSUME NEW i \in 1..Len(Append(q, f)) PROVE Sound(Append(q, f)[i], r)
    <2>1. CASE i = Len(q) + 1
      <3> Append(q, f)[i] = f
        BY <2>1
      <3> QED OBVIOUS
    <2>2. CASE i \in 1..Len(q)
      <3> Append(q, f)[i] = q[i]
        BY <2>2
      <3> QED BY <2>2 DEF SoundSeq
    <2> QED BY <1>1, <2>1, <2>2
  <1> QED BY <1>1, <1>2 DEF SoundSeq

\* Taking a frame off a sound queue: it is sound, and so is the rest.
LEMMA HeadSound ==
    ASSUME NEW r, NEW q \in Seq(Frame), q # <<>>, SoundSeq(q, r)
    PROVE  /\ Head(q) \in Frame /\ Sound(Head(q), r)
           /\ Tail(q) \in Seq(Frame) /\ SoundSeq(Tail(q), r)
  <1>1. Head(q) = q[1] /\ Len(q) >= 1 /\ q[1] \in Frame
    OBVIOUS
  <1>2. Tail(q) \in Seq(Frame) /\ Len(Tail(q)) = Len(q) - 1
    OBVIOUS
  <1>3. ASSUME NEW i \in 1..Len(Tail(q)) PROVE Sound(Tail(q)[i], r)
    <2> Tail(q)[i] = q[i + 1] /\ i + 1 \in 1..Len(q)
      BY <1>2
    <2> QED BY DEF SoundSeq
  <1> QED BY <1>1, <1>2, <1>3 DEF SoundSeq

\* What is sound stays sound when a revision is added.
LEMMA SoundKeeps ==
    ASSUME NEW r \in Seq(Revision), NEW x \in Revision, NEW f \in Frame, Sound(f, r)
    PROVE  Sound(f, Append(r, x))
  <1> Len(Append(r, x)) = Len(r) + 1 /\ \A v \in 1..Len(r) : Append(r, x)[v] = r[v]
    OBVIOUS
  <1> QED BY DEF Sound, Frame

\* What was sound stays so when a revision is appended.
LEMMA SoundSeqKeeps ==
    ASSUME NEW r \in Seq(Revision), NEW x \in Revision, NEW q \in Seq(Frame), SoundSeq(q, r)
    PROVE  SoundSeq(q, Append(r, x))
  BY SoundKeeps DEF SoundSeq

\* A frame that says nothing says nothing false.
LEMMA BlankSound == ASSUME TypeOK PROVE Blank \in Frame /\ Sound(Blank, revisions)
  BY DEF Blank, Frame, Sound, TypeOK, Docs

\* The row as a frame.
LEMMA CurrentSound ==
    ASSUME TypeOK, NEW kind \in {"hello", "updated"}
    PROVE  Current(kind) \in Frame /\ Sound(Current(kind), revisions)
  <1> Newest \in Nat /\ Newest >= 1 /\ revisions[Newest] \in Revision
    BY DEF TypeOK, Newest
  <1> QED BY DEF Current, Frame, Sound, Newest, Revision

\* The row handed back with a refusal, and an ack.
LEMMA ConflictSound ==
    ASSUME TypeOK, NEW n \in Nat, n < Newest
    PROVE  LET f == [Current("conflict") EXCEPT !.sent = n]
           IN  f \in Frame /\ Sound(f, revisions)
  <1> DEFINE f == [kind |-> "conflict", ver |-> Newest, doc |-> revisions[Newest].doc, sent |-> n]
  <1>1. Newest \in Nat /\ Newest >= 1 /\ revisions[Newest] \in Revision
    BY DEF TypeOK, Newest
  <1>2. revisions[Newest].doc \in Docs
    BY <1>1 DEF Revision
  <1>3. f \in Frame /\ Sound(f, revisions)
    <2>1. f \in Frame
      BY <1>1, <1>2 DEF Frame
    <2>2. Newest = Len(revisions) /\ Newest \in 1..Newest
      BY <1>1 DEF Newest
    <2>3. /\ f.kind = "conflict" /\ f.ver = Newest /\ f.sent = n
          /\ f.doc = revisions[Newest].doc
      OBVIOUS
    <2> HIDE DEF f
    <2> QED BY <1>1, <2>1, <2>2, <2>3 DEF Sound
  <1>4. [Current("conflict") EXCEPT !.sent = n] = f
    BY DEF Current
  <1> QED BY <1>3, <1>4

\* An ack of a committed version is sound.
LEMMA AckSound ==
    ASSUME TypeOK, NEW n \in Nat, n <= Newest
    PROVE  LET f == [Blank EXCEPT !.kind = "ack", !.ver = n]
           IN  f \in Frame /\ Sound(f, revisions)
  <1> DEFINE f == [Blank EXCEPT !.kind = "ack", !.ver = n]
  <1>1. Blank \in Frame
    BY DEF Blank, Frame, Docs
  <1>2. f \in Frame /\ f.kind = "ack" /\ f.ver = n
    BY <1>1 DEF Frame
  <1> HIDE DEF f
  <1>3. Sound(f, revisions)
    BY <1>2 DEF Sound, Newest
  <1> QED BY <1>2, <1>3 DEF f

\* Sending a sound frame.
LEMMA SentSound ==
    ASSUME IInv, NEW k \in Sockets, NEW f \in Frame, Sound(f, revisions)
    PROVE  /\ Sent(k, f) \in [Sockets -> Seq(Frame)]
           /\ \A j \in Sockets : SoundSeq(Sent(k, f)[j], revisions)
  <1>1. down \in [Sockets -> Seq(Frame)] /\ \A j \in Sockets : SoundSeq(down[j], revisions)
    BY DEF IInv, TypeOK, Frames
  <1>2. Append(down[k], f) \in Seq(Frame) /\ SoundSeq(Append(down[k], f), revisions)
    BY <1>1, AppendSound
  <1> QED BY <1>1, <1>2 DEF Sent

-----------------------------------------------------------------------------
\* The invariant holds at the start.
LEMMA InitIInv == Init => IInv
  <1> SUFFICES ASSUME Init PROVE IInv
    OBVIOUS
  <1>1. revisions \in Seq(Revision) /\ revisions # <<>> /\ Len(revisions) = 1
    BY DEF Init, Revision, Docs
  <1>2. Idle \in Task /\ NoRelay \in Relay /\ Blank \in Frame
    BY DEF Idle, Task, NoRelay, Relay, Blank, Frame, Docs
  <1>3. TypeOK
    BY <1>1, <1>2, ConstantsOK DEF Init, TypeOK, Stage, Docs
  <1>4. Frames
    <2>1. Sound(Blank, revisions) /\ SoundSeq(<<>>, revisions)
      BY <1>3, BlankSound DEF SoundSeq
    <2>2. Idle.frame = Blank /\ NoRelay.frame = Blank
      BY DEF Idle, NoRelay
    <2>3. \A k \in Sockets : greeting[k] = Blank /\ task[k] = Idle /\ down[k] = <<>>
      BY DEF Init
    <2>4. \A w \in Workers : relay[w] = NoRelay /\ bus[w] = <<>>
      BY DEF Init
    <2> QED BY <2>1, <2>2, <2>3, <2>4 DEF Frames
  <1>5. Bases
    BY <1>1 DEF Init, Bases, Updates, Newest, Idle
  <1>6. Hosted
    BY DEF Init, Hosted
  <1> QED BY <1>3, <1>4, <1>5, <1>6 DEF IInv

\* A step of the server that leaves the revisions and the clients alone keeps
\* the invariant when what it puts in its place is typed and sound.
LEMMA ServerStep ==
    ASSUME IInv,
           UNCHANGED <<revisions, edits, up, client>>,
           stage' \in [Sockets -> Stage],
           host' \in [Sockets -> Workers \cup {NoHost}],
           \A k \in Sockets : stage'[k] # "closed" => host'[k] \in Workers,
           subscribed' \subseteq Workers,
           greeting' \in [Sockets -> Frame],
           \A k \in Sockets : Sound(greeting'[k], revisions),
           task' \in [Sockets -> Task],
           \A k \in Sockets : Sound(task'[k].frame, revisions),
           \A k \in Sockets : task'[k].at = "refused" => task'[k].frame.sent < Newest,
           down' \in [Sockets -> Seq(Frame)],
           \A k \in Sockets : SoundSeq(down'[k], revisions),
           bus' \in [Workers -> Seq(Frame)],
           \A w \in Workers : SoundSeq(bus'[w], revisions),
           relay' \in [Workers -> Relay],
           \A w \in Workers : Sound(relay'[w].frame, revisions)
    PROVE  IInv'
  <1>1. TypeOK'
    BY DEF IInv, TypeOK, client
  <1>2. Frames'
    BY DEF Frames
  <1>3. Bases'
    BY DEF IInv, Bases, Newest, client
  <1>4. Hosted'
    BY DEF Hosted
  <1> QED BY <1>1, <1>2, <1>3, <1>4 DEF IInv

\* What the invariant says of each variable, for the steps below.
LEMMA Parts ==
    ASSUME IInv
    PROVE  /\ revisions \in Seq(Revision) /\ revisions # <<>> /\ Newest \in Nat
           /\ stage \in [Sockets -> Stage]
           /\ host \in [Sockets -> Workers \cup {NoHost}]
           /\ \A k \in Sockets : stage[k] # "closed" => host[k] \in Workers
           /\ subscribed \subseteq Workers
           /\ greeting \in [Sockets -> Frame]
           /\ \A k \in Sockets : Sound(greeting[k], revisions)
           /\ task \in [Sockets -> Task]
           /\ \A k \in Sockets : Sound(task[k].frame, revisions)
           /\ \A k \in Sockets : task[k].at = "refused" => task[k].frame.sent < Newest
           /\ up \in [Sockets -> Seq(Update)]
           /\ down \in [Sockets -> Seq(Frame)]
           /\ \A k \in Sockets : SoundSeq(down[k], revisions)
           /\ bus \in [Workers -> Seq(Frame)]
           /\ \A w \in Workers : SoundSeq(bus[w], revisions)
           /\ relay \in [Workers -> Relay]
           /\ \A w \in Workers : Sound(relay[w].frame, revisions)
           /\ Blank \in Frame /\ Sound(Blank, revisions)
           /\ Idle \in Task /\ NoRelay \in Relay
  BY BlankSound DEF IInv, TypeOK, Frames, Bases, Hosted, Newest, Idle, Task, NoRelay, Relay
-----------------------------------------------------------------------------
(* One lemma per group of actions. *)

\* The handshake before the greeting sends nothing.
LEMMA HandshakeStep ==
    ASSUME IInv, NEW k \in Sockets, Resolve(k) \/ Join(k) \/ Subscribe(k)
    PROVE  IInv'
  <1>1. CASE Resolve(k)
    <2>1. Current("hello") \in Frame /\ Sound(Current("hello"), revisions)
      BY CurrentSound DEF IInv
    <2>2. UNCHANGED <<revisions, edits, up, client>>
      BY <1>1 DEF Resolve
    <2>3. UNCHANGED <<task, down, host, subscribed, bus, relay>>
      BY <1>1 DEF Resolve
    <2>4. /\ stage' \in [Sockets -> Stage]
          /\ \A j \in Sockets : stage'[j] # "closed" => host[j] \in Workers
          /\ greeting' \in [Sockets -> Frame]
          /\ \A j \in Sockets : Sound(greeting'[j], revisions)
      BY <1>1, <2>1, Parts DEF Resolve, Stage
    <2> QED BY <2>2, <2>3, <2>4, Parts, ServerStep
  <1>2. CASE Join(k)
    <2>1. UNCHANGED <<revisions, edits, up, client>>
      BY <1>2 DEF Join
    <2>2. UNCHANGED <<greeting, task, down, host, subscribed, bus, relay>>
      BY <1>2 DEF Join
    <2>3. /\ stage' \in [Sockets -> Stage]
          /\ \A j \in Sockets : stage'[j] # "closed" => host[j] \in Workers
      BY <1>2, Parts DEF Join, Stage
    <2> QED BY <2>1, <2>2, <2>3, Parts, ServerStep
  <1>3. CASE Subscribe(k)
    <2>1. UNCHANGED <<revisions, edits, up, client>>
      BY <1>3 DEF Subscribe
    <2>2. UNCHANGED <<greeting, task, down, host, bus, relay>>
      BY <1>3 DEF Subscribe
    <2>3. /\ stage' \in [Sockets -> Stage]
          /\ \A j \in Sockets : stage'[j] # "closed" => host[j] \in Workers
      BY <1>3, Parts DEF Subscribe, Stage
    <2>4. subscribed' \subseteq Workers
      BY <1>3, Parts DEF Subscribe
    <2> QED BY <2>1, <2>2, <2>3, <2>4, Parts, ServerStep
  <1> QED BY <1>1, <1>2, <1>3

\* A socket's task with new parts.
LEMMA TaskSet ==
    ASSUME IInv, NEW k \in Sockets, NEW t \in Task, Sound(t.frame, revisions),
           t.at = "refused" => t.frame.sent < Newest,
           task' = [task EXCEPT ![k] = t]
    PROVE  /\ task' \in [Sockets -> Task]
           /\ \A j \in Sockets : Sound(task'[j].frame, revisions)
           /\ \A j \in Sockets : task'[j].at = "refused" => task'[j].frame.sent < Newest
  <1>1. /\ task \in [Sockets -> Task]
        /\ \A j \in Sockets : Sound(task[j].frame, revisions)
        /\ \A j \in Sockets : task[j].at = "refused" => task[j].frame.sent < Newest
    BY Parts
  <1>2. \A j \in Sockets : task'[j] = IF j = k THEN t ELSE task[j]
    BY <1>1
  <1> QED BY <1>1, <1>2

\* What goes out: the greeting, the refusal with the row as it is, the fan-out
\* and the ack.
LEMMA SendStep ==
    ASSUME IInv, NEW k \in Sockets, Greet(k) \/ Conflict(k) \/ Deliver(k) \/ Ack(k)
    PROVE  IInv'
  <1> USE Parts
  <1>0. Idle.frame = Blank /\ Idle.at = "idle" /\ Idle \in Task
    BY DEF Idle
  <1>1. CASE Greet(k)
    <2>1. UNCHANGED <<revisions, edits, up, client>>
      BY <1>1 DEF Greet
    <2>2. UNCHANGED <<greeting, task, host, subscribed, bus, relay>>
      BY <1>1 DEF Greet
    <2>3. /\ stage' \in [Sockets -> Stage]
          /\ \A j \in Sockets : stage'[j] # "closed" => host[j] \in Workers
      BY <1>1 DEF Greet, Stage
    <2>4. down' \in [Sockets -> Seq(Frame)] /\ \A j \in Sockets : SoundSeq(down'[j], revisions)
      BY <1>1, SentSound DEF Greet
    <2> QED BY <2>1, <2>2, <2>3, <2>4, ServerStep
  <1>2. CASE Conflict(k)
    <2> DEFINE f == [Current("conflict") EXCEPT !.sent = task[k].frame.sent]
    <2>1. UNCHANGED <<revisions, edits, up, client>>
      BY <1>2 DEF Conflict
    <2>2. UNCHANGED <<stage, greeting, host, subscribed, bus, relay>>
      BY <1>2 DEF Conflict
    <2>3. f \in Frame /\ Sound(f, revisions)
      <3>1. task[k].frame.sent \in Nat /\ task[k].frame.sent < Newest
        BY <1>2 DEF Conflict, Task, Frame
      <3> QED BY <3>1, ConflictSound DEF IInv
    <2>4. down' \in [Sockets -> Seq(Frame)] /\ \A j \in Sockets : SoundSeq(down'[j], revisions)
      BY <1>2, <2>3, SentSound DEF Conflict
    <2>5. task' = [task EXCEPT ![k] = Idle]
      BY <1>2 DEF Conflict
    <2>6. /\ task' \in [Sockets -> Task]
          /\ \A j \in Sockets : Sound(task'[j].frame, revisions)
          /\ \A j \in Sockets : task'[j].at = "refused" => task'[j].frame.sent < Newest
      BY <1>0, <2>5, TaskSet
    <2> QED BY <2>1, <2>2, <2>4, <2>6, ServerStep
  <1>3. CASE Deliver(k)
    <2>1. UNCHANGED <<revisions, edits, up, client>>
      BY <1>3 DEF Deliver
    <2>2. UNCHANGED <<stage, greeting, host, subscribed, bus, relay>>
      BY <1>3 DEF Deliver
    <2>3. PICK j \in task[k].todo :
             /\ task' = [task EXCEPT ![k].todo = @ \ {j}]
             /\ down' = Sent(j, task[k].frame)
      BY <1>3 DEF Deliver
    <2>4. j \in Sockets /\ task[k].frame \in Frame
      BY DEF Task
    <2>5. down' \in [Sockets -> Seq(Frame)] /\ \A i \in Sockets : SoundSeq(down'[i], revisions)
      BY <2>3, <2>4, SentSound
    <2> DEFINE t == [task[k] EXCEPT !.todo = @ \ {j}]
    <2>6. t \in Task /\ t.frame = task[k].frame /\ t.at = task[k].at
      BY DEF Task
    <2>7. task' = [task EXCEPT ![k] = t]
      BY <2>3
    <2>8. /\ task' \in [Sockets -> Task]
          /\ \A i \in Sockets : Sound(task'[i].frame, revisions)
          /\ \A i \in Sockets : task'[i].at = "refused" => task'[i].frame.sent < Newest
      <3> HIDE DEF t
      <3> QED BY <2>6, <2>7, TaskSet
    <2> QED BY <2>1, <2>2, <2>5, <2>8, ServerStep
  <1>4. CASE Ack(k)
    <2> DEFINE f == [Blank EXCEPT !.kind = "ack", !.ver = task[k].frame.ver]
    <2>1. UNCHANGED <<revisions, edits, up, client>>
      BY <1>4 DEF Ack
    <2>2. UNCHANGED <<stage, greeting, host, subscribed, bus, relay>>
      BY <1>4 DEF Ack
    <2>3. f \in Frame /\ Sound(f, revisions)
      <3>1. task[k].frame.ver \in Nat /\ task[k].frame.ver <= Newest
        BY DEF Task, Frame, Sound, Newest
      <3> QED BY <3>1, AckSound DEF IInv
    <2>4. down' \in [Sockets -> Seq(Frame)] /\ \A j \in Sockets : SoundSeq(down'[j], revisions)
      BY <1>4, <2>3, SentSound DEF Ack
    <2>5. task' = [task EXCEPT ![k] = Idle]
      BY <1>4 DEF Ack
    <2>6. /\ task' \in [Sockets -> Task]
          /\ \A j \in Sockets : Sound(task'[j].frame, revisions)
          /\ \A j \in Sockets : task'[j].at = "refused" => task'[j].frame.sent < Newest
      BY <1>0, <2>5, TaskSet
    <2> QED BY <2>1, <2>2, <2>4, <2>6, ServerStep
  <1> QED BY <1>1, <1>2, <1>3, <1>4

\* The refresh after the commit, the listing of the room and the publication.
LEMMA FanOutStep ==
    ASSUME IInv, NEW k \in Sockets, Refresh(k) \/ Broadcast(k) \/ Publish(k)
    PROVE  IInv'
  <1> USE Parts
  <1>1. CASE Refresh(k)
    <2>1. UNCHANGED <<revisions, edits, up, client>>
      BY <1>1 DEF Refresh
    <2>2. UNCHANGED <<stage, greeting, down, host, subscribed, bus, relay>>
      BY <1>1 DEF Refresh
    <2>3. Current("updated") \in Frame /\ Sound(Current("updated"), revisions)
      BY CurrentSound DEF IInv
    <2> DEFINE t == [task[k] EXCEPT !.at = "read", !.frame = Current("updated")]
    <2>4. t \in Task /\ t.frame = Current("updated") /\ t.at = "read"
      BY <2>3 DEF Task
    <2>5. task' = [task EXCEPT ![k] = t]
      BY <1>1 DEF Refresh
    <2>6. /\ task' \in [Sockets -> Task]
          /\ \A j \in Sockets : Sound(task'[j].frame, revisions)
          /\ \A j \in Sockets : task'[j].at = "refused" => task'[j].frame.sent < Newest
      <3> HIDE DEF t
      <3> QED BY <2>3, <2>4, <2>5, TaskSet
    <2> QED BY <2>1, <2>2, <2>6, ServerStep
  <1>2. CASE Broadcast(k)
    <2>1. UNCHANGED <<revisions, edits, up, client>>
      BY <1>2 DEF Broadcast
    <2>2. UNCHANGED <<stage, greeting, down, host, subscribed, bus, relay>>
      BY <1>2 DEF Broadcast
    <2> DEFINE t == [task[k] EXCEPT !.at = "fanout", !.todo = Room(host[k]) \ {k}]
    <2>4. t \in Task /\ t.frame = task[k].frame /\ t.at = "fanout"
      BY DEF Task, Room
    <2>5. task' = [task EXCEPT ![k] = t]
      BY <1>2 DEF Broadcast
    <2>6. /\ task' \in [Sockets -> Task]
          /\ \A j \in Sockets : Sound(task'[j].frame, revisions)
          /\ \A j \in Sockets : task'[j].at = "refused" => task'[j].frame.sent < Newest
      <3> HIDE DEF t
      <3> QED BY <2>4, <2>5, TaskSet
    <2> QED BY <2>1, <2>2, <2>6, ServerStep
  <1>3. CASE Publish(k)
    <2>1. UNCHANGED <<revisions, edits, up, client>>
      BY <1>3 DEF Publish
    <2>2. UNCHANGED <<stage, greeting, down, host, subscribed, relay>>
      BY <1>3 DEF Publish
    <2> DEFINE t == [task[k] EXCEPT !.at = "ack"]
    <2>4. t \in Task /\ t.frame = task[k].frame /\ t.at = "ack"
      BY DEF Task
    <2>5. task' = [task EXCEPT ![k] = t]
      BY <1>3 DEF Publish
    <2>6. /\ task' \in [Sockets -> Task]
          /\ \A j \in Sockets : Sound(task'[j].frame, revisions)
          /\ \A j \in Sockets : task'[j].at = "refused" => task'[j].frame.sent < Newest
      <3> HIDE DEF t
      <3> QED BY <2>4, <2>5, TaskSet
    <2>7. bus' \in [Workers -> Seq(Frame)] /\ \A w \in Workers : SoundSeq(bus'[w], revisions)
      <3>1. task[k].frame \in Frame /\ Sound(task[k].frame, revisions)
        BY DEF Task
      <3>2. \A w \in Workers : /\ Append(bus[w], task[k].frame) \in Seq(Frame)
                               /\ SoundSeq(Append(bus[w], task[k].frame), revisions)
        BY <3>1, AppendSound
      <3>3. CASE UNCHANGED bus
        BY <3>3
      <3>4. CASE bus' = [w \in Workers |->
                    IF w \in subscribed \ {host[k]} THEN Append(bus[w], task[k].frame) ELSE bus[w]]
        <4>1. \A w \in Workers : bus'[w] \in {bus[w], Append(bus[w], task[k].frame)}
          BY <3>4
        <4>2. \A w \in Workers : bus'[w] \in Seq(Frame) /\ SoundSeq(bus'[w], revisions)
          BY <3>2, <4>1
        <4> QED BY <3>4, <4>2
      <3> QED BY <1>3, <3>3, <3>4 DEF Publish
    <2> QED BY <2>1, <2>2, <2>6, <2>7, ServerStep
  <1> QED BY <1>1, <1>2, <1>3

\* The listener of a process.
LEMMA ListenerStep ==
    ASSUME IInv, NEW w \in Workers, Listen(w) \/ Replay(w)
    PROVE  IInv'
  <1> USE Parts
  <1>1. CASE Listen(w)
    <2>1. UNCHANGED <<revisions, edits, up, client>>
      BY <1>1 DEF Listen
    <2>2. UNCHANGED <<stage, greeting, task, down, host, subscribed>>
      BY <1>1 DEF Listen
    <2>3. /\ Head(bus[w]) \in Frame /\ Sound(Head(bus[w]), revisions)
          /\ Tail(bus[w]) \in Seq(Frame) /\ SoundSeq(Tail(bus[w]), revisions)
      BY <1>1, HeadSound DEF Listen
    <2>4. bus' \in [Workers -> Seq(Frame)] /\ \A x \in Workers : SoundSeq(bus'[x], revisions)
      BY <1>1, <2>3 DEF Listen
    <2>5. relay' \in [Workers -> Relay] /\ \A x \in Workers : Sound(relay'[x].frame, revisions)
      BY <1>1, <2>3 DEF Listen, Relay, Room
    <2> QED BY <2>1, <2>2, <2>4, <2>5, ServerStep
  <1>2. CASE Replay(w)
    <2>1. UNCHANGED <<revisions, edits, up, client>>
      BY <1>2 DEF Replay
    <2>2. UNCHANGED <<stage, greeting, task, host, subscribed, bus>>
      BY <1>2 DEF Replay
    <2>3. relay' \in [Workers -> Relay] /\ \A x \in Workers : Sound(relay'[x].frame, revisions)
      <3>1. NoRelay.frame = Blank
        BY DEF NoRelay
      <3>2. CASE relay' = [relay EXCEPT ![w] = NoRelay]
        BY <3>1, <3>2
      <3>3. CASE \E j \in relay[w].todo : relay' = [relay EXCEPT ![w].todo = @ \ {j}]
        <4>1. PICK j \in relay[w].todo : relay' = [relay EXCEPT ![w].todo = @ \ {j}]
          BY <3>3
        <4>2. [relay[w] EXCEPT !.todo = @ \ {j}] \in Relay
          BY DEF Relay
        <4>3. [relay[w] EXCEPT !.todo = @ \ {j}].frame = relay[w].frame
          BY DEF Relay
        <4>4. \A x \in Workers :
                 relay'[x] = IF x = w THEN [relay[w] EXCEPT !.todo = @ \ {j}] ELSE relay[x]
          BY <4>1
        <4> QED BY <4>1, <4>2, <4>3, <4>4
      <3> QED BY <1>2, <3>2, <3>3 DEF Replay
    <2>4. down' \in [Sockets -> Seq(Frame)] /\ \A i \in Sockets : SoundSeq(down'[i], revisions)
      <3>1. CASE UNCHANGED down
        BY <3>1
      <3>2. CASE \E j \in relay[w].todo : down' = Sent(j, relay[w].frame)
        <4>1. PICK j \in relay[w].todo : down' = Sent(j, relay[w].frame)
          BY <3>2
        <4>2. relay[w].frame \in Frame /\ j \in Sockets /\ Sound(relay[w].frame, revisions)
          BY DEF Relay
        <4> QED BY <4>1, <4>2, SentSound
      <3> QED BY <1>2, <3>1, <3>2 DEF Replay
    <2> QED BY <2>1, <2>2, <2>3, <2>4, ServerStep
  <1> QED BY <1>1, <1>2

-----------------------------------------------------------------------------
(* Sequences of saves. *)

\* A save that names a committed base may join the queue.
LEMMA AppendUpdate ==
    ASSUME NEW n \in Nat, NEW q \in Seq(Update), NEW u \in Update, Updates(q, n), u.base <= n
    PROVE  Append(q, u) \in Seq(Update) /\ Updates(Append(q, u), n)
  <1>1. Append(q, u) \in Seq(Update) /\ Len(Append(q, u)) = Len(q) + 1
    OBVIOUS
  <1>2. ASSUME NEW i \in 1..Len(Append(q, u)) PROVE Append(q, u)[i].base <= n
    <2>1. CASE i = Len(q) + 1
      <3> Append(q, u)[i] = u
        BY <2>1
      <3> QED OBVIOUS
    <2>2. CASE i \in 1..Len(q)
      <3> Append(q, u)[i] = q[i]
        BY <2>2
      <3> QED BY <2>2 DEF Updates
    <2> QED BY <1>1, <2>1, <2>2
  <1> QED BY <1>1, <1>2 DEF Updates

\* A save taken off the queue names a committed base.
LEMMA HeadUpdate ==
    ASSUME NEW n \in Nat, NEW q \in Seq(Update), q # <<>>, Updates(q, n)
    PROVE  /\ Head(q) \in Update /\ Head(q).base <= n
           /\ Tail(q) \in Seq(Update) /\ Updates(Tail(q), n)
  <1>1. Head(q) = q[1] /\ Len(q) >= 1 /\ q[1] \in Update
    OBVIOUS
  <1>2. Tail(q) \in Seq(Update) /\ Len(Tail(q)) = Len(q) - 1
    OBVIOUS
  <1>3. ASSUME NEW i \in 1..Len(Tail(q)) PROVE Tail(q)[i].base <= n
    <2> Tail(q)[i] = q[i + 1] /\ i + 1 \in 1..Len(q)
      BY <1>2
    <2> QED BY DEF Updates
  <1> QED BY <1>1, <1>2, <1>3 DEF Updates

\* A drop may cut the queue anywhere.
LEMMA CutUpdate ==
    ASSUME NEW n \in Nat, NEW q \in Seq(Update), NEW m \in 0..Len(q), Updates(q, n)
    PROVE  SubSeq(q, 1, m) \in Seq(Update) /\ Updates(SubSeq(q, 1, m), n)
  <1>1. SubSeq(q, 1, m) \in Seq(Update) /\ Len(SubSeq(q, 1, m)) = m
    OBVIOUS
  <1>2. ASSUME NEW i \in 1..m PROVE SubSeq(q, 1, m)[i].base <= n
    <2> SubSeq(q, 1, m)[i] = q[i] /\ i \in 1..Len(q)
      BY <1>1
    <2> QED BY DEF Updates
  <1> QED BY <1>1, <1>2 DEF Updates

\* A bound that grows still bounds.
LEMMA UpdatesKeep ==
    ASSUME NEW n \in Nat, NEW m \in Nat, n <= m, NEW q \in Seq(Update), Updates(q, n)
    PROVE  Updates(q, m)
  <1> SUFFICES ASSUME NEW i \in 1..Len(q) PROVE q[i].base <= m
    BY DEF Updates
  <1>1. q[i] \in Update /\ q[i].base <= n
    BY DEF Updates
  <1> QED BY <1>1 DEF Update

\* A step of the server that takes saves, refuses them or commits one.
LEMMA CommitStep ==
    ASSUME IInv,
           UNCHANGED <<stage, greeting, down, host, subscribed, bus, relay, client>>,
           revisions' = revisions \/ \E x \in Revision : revisions' = Append(revisions, x),
           edits' \in 0..MaxEdits,
           task' \in [Sockets -> Task],
           \A k \in Sockets : Sound(task'[k].frame, revisions),
           \A k \in Sockets : task'[k].at = "refused" => task'[k].frame.sent < Newest,
           up' \in [Sockets -> Seq(Update)],
           \A k \in Sockets : Updates(up'[k], Newest)
    PROVE  IInv'
  <1>1. /\ revisions' \in Seq(Revision) /\ revisions' # <<>>
        /\ Newest \in Nat /\ Newest' \in Nat /\ Newest <= Newest'
    <2>1. revisions \in Seq(Revision) /\ revisions # <<>> /\ Len(revisions) \in Nat
      BY Parts
    <2>2. CASE revisions' = revisions
      BY <2>1, <2>2 DEF Newest
    <2>3. CASE \E x \in Revision : revisions' = Append(revisions, x)
      <3>1. PICK x \in Revision : revisions' = Append(revisions, x)
        BY <2>3
      <3>2. revisions' \in Seq(Revision) /\ Len(revisions') = Len(revisions) + 1
        BY <2>1, <3>1
      <3> QED BY <2>1, <3>2 DEF Newest
    <2> QED BY <2>2, <2>3
  <1>2. TypeOK'
    BY <1>1 DEF IInv, TypeOK, client
  <1>3. \A f \in Frame : Sound(f, revisions) => Sound(f, revisions')
    BY Parts, SoundKeeps
  <1>4. \A q \in Seq(Frame) : SoundSeq(q, revisions) => SoundSeq(q, revisions')
    BY Parts, SoundSeqKeeps
  <1>5. Frames'
    <2>1. \A k \in Sockets : /\ greeting[k] \in Frame /\ Sound(greeting[k], revisions)
                            /\ down[k] \in Seq(Frame) /\ SoundSeq(down[k], revisions)
                            /\ task'[k].frame \in Frame
      BY Parts DEF Task
    <2>2. \A w \in Workers : /\ relay[w].frame \in Frame /\ Sound(relay[w].frame, revisions)
                            /\ bus[w] \in Seq(Frame) /\ SoundSeq(bus[w], revisions)
      BY Parts DEF Relay
    <2> QED BY <1>3, <1>4, <2>1, <2>2 DEF Frames
  <1>6. Bases'
    <2>1. \A k \in Sockets : task'[k].at = "refused" => task'[k].frame.sent < Newest'
      <3> \A k \in Sockets : task'[k].frame.sent \in Nat
        BY DEF Task, Frame
      <3> QED BY <1>1
    <2>2. \A k \in Sockets : Updates(up'[k], Newest')
      BY <1>1, UpdatesKeep
    <2>3. \A c \in Clients : known'[c] <= Newest'
      <3> \A c \in Clients : known[c] \in Nat /\ known[c] <= Newest
        BY DEF IInv, TypeOK, Bases
      <3> QED BY <1>1 DEF client
    <2>4. \A c \in Clients : pbase'[c] # NoBase => pbase'[c] <= Newest'
      <3> \A c \in Clients : pbase[c] # NoBase => pbase[c] \in Nat /\ pbase[c] <= Newest
        BY DEF IInv, TypeOK, Bases
      <3> QED BY <1>1 DEF client
    <2> QED BY <2>1, <2>2, <2>3, <2>4 DEF Bases
  <1>7. Hosted'
    BY DEF IInv, Hosted
  <1> QED BY <1>2, <1>5, <1>6, <1>7 DEF IInv

\* A save that arrives: committed as a revision, or refused (_apply_update).
LEMMA ReceiveStep == ASSUME IInv, NEW k \in Sockets, Receive(k) PROVE IInv'
  <1> DEFINE u == Head(up[k])
  <1>1. up[k] \in Seq(Update) /\ up[k] # <<>> /\ Updates(up[k], Newest) /\ Newest \in Nat
    BY Parts DEF Receive, IInv, Bases
  <1>2. /\ u \in Update /\ u.base <= Newest
        /\ Tail(up[k]) \in Seq(Update) /\ Updates(Tail(up[k]), Newest)
    BY <1>1, HeadUpdate
  <1>3. UNCHANGED <<stage, greeting, down, host, subscribed, bus, relay, client>>
    BY DEF Receive
  <1>4. up' \in [Sockets -> Seq(Update)] /\ \A j \in Sockets : Updates(up'[j], Newest)
    <2> up \in [Sockets -> Seq(Update)] /\ \A j \in Sockets : Updates(up[j], Newest)
      BY DEF IInv, TypeOK, Bases
    <2> up' = [up EXCEPT ![k] = Tail(up[k])]
      BY DEF Receive
    <2> QED BY <1>2
  <1>5. edits' \in 0..MaxEdits
    BY DEF Receive, IInv, TypeOK
  <1>6. /\ Idle \in Task /\ Idle.frame = Blank /\ Blank \in Frame /\ Sound(Blank, revisions)
    BY Parts DEF Idle
  <1>7. CASE u.base = Newest
    <2> DEFINE t == [Idle EXCEPT !.at = "committed"]
    <2>1. t \in Task /\ t.frame = Blank /\ t.at = "committed"
      BY <1>6 DEF Task
    <2>2. task' = [task EXCEPT ![k] = t]
      BY <1>7 DEF Receive
    <2>3. /\ task' \in [Sockets -> Task]
          /\ \A j \in Sockets : Sound(task'[j].frame, revisions)
          /\ \A j \in Sockets : task'[j].at = "refused" => task'[j].frame.sent < Newest
      <3> HIDE DEF t
      <3> QED BY <1>6, <2>1, <2>2, TaskSet
    <2>4. \E x \in Revision : revisions' = Append(revisions, x)
      <3>1. Owner(k) \in Clients
        BY DEF Owner, Sockets
      <3>2. [doc |-> u.doc, by |-> Owner(k), base |-> u.base] \in Revision
        BY <1>2, <3>1 DEF Update, Revision
      <3> QED BY <1>7, <3>2 DEF Receive
    <2> HIDE DEF u
    <2> QED BY <1>3, <1>4, <1>5, <2>3, <2>4, CommitStep
  <1>8. CASE u.base # Newest
    <2> DEFINE t == [at |-> "refused", frame |-> [Blank EXCEPT !.sent = u.base], todo |-> {}]
    <2>1. t \in Task /\ t.at = "refused" /\ t.frame.sent = u.base /\ Sound(t.frame, revisions)
      <3>1. u.base \in Nat
        BY <1>2 DEF Update
      <3> DEFINE f == [Blank EXCEPT !.sent = u.base]
      <3>3. f \in Frame /\ f.sent = u.base /\ f.kind = "none" /\ f.ver = 0
        BY <1>6, <3>1 DEF Frame, Blank
      <3>4. Sound(f, revisions)
        <4> HIDE DEF f
        <4> QED BY <1>1, <3>3, Parts DEF Sound, Newest
      <3> HIDE DEF f, u
      <3> QED BY <3>3, <3>4 DEF f, Task
    <2>2. task' = [task EXCEPT ![k] = t] /\ revisions' = revisions
      BY <1>8 DEF Receive
    <2>3. /\ task' \in [Sockets -> Task]
          /\ \A j \in Sockets : Sound(task'[j].frame, revisions)
          /\ \A j \in Sockets : task'[j].at = "refused" => task'[j].frame.sent < Newest
      <3>1. u.base \in Nat /\ u.base < Newest
        BY <1>1, <1>2, <1>8 DEF Update
      <3> HIDE DEF t, u
      <3> QED BY <3>1, <2>1, <2>2, TaskSet
    <2> HIDE DEF u
    <2> QED BY <1>3, <1>4, <1>5, <2>2, <2>3, CommitStep
  <1> QED BY <1>7, <1>8

\* A save over REST appends a revision.
LEMMA RestStep == ASSUME IInv, RestWrite PROVE IInv'
  <1>1. UNCHANGED <<stage, greeting, down, host, subscribed, bus, relay, client>>
    BY DEF RestWrite
  <1>2. edits' \in 0..MaxEdits /\ edits + 1 \in 1..MaxEdits
    BY ConstantsOK DEF RestWrite, IInv, TypeOK
  <1>3. \E x \in Revision : revisions' = Append(revisions, x)
    <2>1. PICK v \in 1..Newest : \E doc \in {revisions[v].doc, revisions[v].doc \cup {edits + 1}} :
             \E base \in {NoBase, Newest} :
                revisions' = Append(revisions, [doc |-> doc, by |-> Http, base |-> base])
      BY DEF RestWrite
    <2>2. Newest \in Nat /\ revisions[v].doc \in Docs
      <3>1. Newest \in Nat /\ revisions[v] \in Revision
        BY DEF IInv, TypeOK, Newest
      <3> QED BY <3>1 DEF Revision
    <2>3. revisions[v].doc \cup {edits + 1} \in Docs
      BY <1>2, <2>2 DEF Docs
    <2> QED BY <2>1, <2>2, <2>3 DEF Revision
  <1>4. UNCHANGED <<task, up>>
    BY DEF RestWrite
  <1>5. \A k \in Sockets : Updates(up[k], Newest)
    BY DEF IInv, Bases
  <1> QED BY <1>1, <1>2, <1>3, <1>4, <1>5, Parts, CommitStep

-----------------------------------------------------------------------------
(* The clients, and the failures. *)

\* What the steps of a client need of the invariant.
LEMMA ClientParts ==
    ASSUME IInv
    PROVE  /\ edits \in 0..MaxEdits
           /\ \A k \in Sockets : Updates(up[k], Newest)
           /\ socket \in [Clients -> Sockets \cup {NoSocket}]
           /\ links \in [Clients -> 0..MaxLinks]
           /\ screen \in [Clients -> Docs]
           /\ known \in [Clients -> Nat]
           /\ \A c \in Clients : known[c] <= Newest
           /\ pending \in [Clients -> SUBSET Docs]
           /\ pbase \in [Clients -> Nat \cup {NoBase}]
           /\ \A c \in Clients : pbase[c] # NoBase => pbase[c] <= Newest
           /\ stalled \subseteq Sockets /\ astray \subseteq Clients
  BY DEF IInv, TypeOK, Bases

\* A step that commits nothing.
LEMMA QuietStep ==
    ASSUME IInv,
           UNCHANGED revisions,
           greeting' \in [Sockets -> Frame],
           \A k \in Sockets : Sound(greeting'[k], revisions),
           edits' \in 0..MaxEdits,
           stage' \in [Sockets -> Stage],
           host' \in [Sockets -> Workers \cup {NoHost}],
           \A k \in Sockets : stage'[k] # "closed" => host'[k] \in Workers,
           task' \in [Sockets -> Task],
           \A k \in Sockets : Sound(task'[k].frame, revisions),
           \A k \in Sockets : task'[k].at = "refused" => task'[k].frame.sent < Newest,
           up' \in [Sockets -> Seq(Update)],
           \A k \in Sockets : Updates(up'[k], Newest),
           down' \in [Sockets -> Seq(Frame)],
           \A k \in Sockets : SoundSeq(down'[k], revisions),
           subscribed' \subseteq Workers,
           bus' \in [Workers -> Seq(Frame)],
           \A w \in Workers : SoundSeq(bus'[w], revisions),
           relay' \in [Workers -> Relay],
           \A w \in Workers : Sound(relay'[w].frame, revisions),
           socket' \in [Clients -> Sockets \cup {NoSocket}],
           links' \in [Clients -> 0..MaxLinks],
           screen' \in [Clients -> Docs],
           known' \in [Clients -> Nat],
           \A c \in Clients : known'[c] <= Newest,
           pending' \in [Clients -> SUBSET Docs],
           pbase' \in [Clients -> Nat \cup {NoBase}],
           \A c \in Clients : pbase'[c] # NoBase => pbase'[c] <= Newest,
           stalled' \subseteq Sockets,
           astray' \subseteq Clients
    PROVE  IInv'
  <1>1. TypeOK'
    BY DEF IInv, TypeOK
  <1>2. Frames'
    BY DEF IInv, Frames
  <1>3. Bases'
    BY DEF Bases, Newest
  <1>4. Hosted'
    BY DEF Hosted
  <1> QED BY <1>1, <1>2, <1>3, <1>4 DEF IInv

\* A handler that ends reads no more of what was sent to it.
LEMMA LeaveStep == ASSUME IInv, NEW k \in Sockets, Leave(k) PROVE IInv'
  <1>1. UNCHANGED <<revisions, edits, task, down, subscribed, bus, relay>>
    BY DEF Leave
  <1>2. UNCHANGED <<socket, links, screen, known, pending, pbase, stalled, astray>>
    BY DEF Leave, client
  <1>3. /\ stage' \in [Sockets -> Stage]
        /\ host' \in [Sockets -> Workers \cup {NoHost}]
        /\ \A j \in Sockets : stage'[j] # "closed" => host'[j] \in Workers
    BY Parts DEF Leave, Stage
  <1>4. up' \in [Sockets -> Seq(Update)] /\ \A j \in Sockets : Updates(up'[j], Newest)
    <2>1. <<>> \in Seq(Update) /\ Updates(<<>>, Newest)
      BY DEF Updates
    <2>2. up' = [up EXCEPT ![k] = <<>>]
      BY DEF Leave
    <2> QED BY <2>1, <2>2, Parts, ClientParts
  <1>5. greeting' \in [Sockets -> Frame] /\ \A j \in Sockets : Sound(greeting'[j], revisions)
    BY Parts DEF Leave
  <1> QED BY <1>1, <1>2, <1>3, <1>4, <1>5, Parts, ClientParts, QuietStep

\* A tab that connects again does so on a new socket, of which nothing is said.
LEMMA OpenStep == ASSUME IInv, NEW c \in Clients, Open(c) PROVE IInv'
  <1> DEFINE k == <<c, links[c] + 1>>
  <1>1. UNCHANGED <<revisions, edits, greeting, task, up, down, subscribed, bus, relay>>
    BY DEF Open
  <1>2. UNCHANGED <<screen, known, pending, pbase, stalled, astray>>
    BY DEF Open
  <1>3. links[c] + 1 \in 1..MaxLinks
    BY ClientParts, ConstantsOK DEF Open
  <1>4. k \in Sockets
    BY <1>3 DEF Sockets
  <1>5. links' \in [Clients -> 0..MaxLinks] /\ socket' \in [Clients -> Sockets \cup {NoSocket}]
    BY <1>3, <1>4, ClientParts DEF Open
  <1>6. PICK w \in Workers : host' = [host EXCEPT ![k] = w]
    BY DEF Open
  <1>7. stage' = [stage EXCEPT ![k] = "accepted"]
    BY DEF Open
  <1>8. /\ stage' \in [Sockets -> Stage]
        /\ host' \in [Sockets -> Workers \cup {NoHost}]
        /\ \A j \in Sockets : stage'[j] # "closed" => host'[j] \in Workers
    <2> HIDE DEF k
    <2> QED BY <1>4, <1>6, <1>7, Parts DEF Stage
  <1> QED BY <1>1, <1>2, <1>5, <1>8, Parts, ClientParts, QuietStep

\* Typing queues a save on the version that is known, if one is.
LEMMA TypeStep == ASSUME IInv, NEW c \in Clients, Type(c) PROVE IInv'
  <1>1. UNCHANGED <<revisions, greeting, stage, task, up, down>>
    BY DEF Type, server
  <1>2. UNCHANGED <<host, subscribed, bus, relay, socket, links, known, stalled>>
    BY DEF Type, server
  <1>3. edits' \in 0..MaxEdits /\ edits + 1 \in 1..MaxEdits
    BY ClientParts, ConstantsOK DEF Type
  <1>4. screen[c] \cup {edits + 1} \in Docs
    BY <1>3, ClientParts DEF Docs
  <1>5. screen' \in [Clients -> Docs]
    BY <1>4, ClientParts DEF Type
  <1>6. pending' \in [Clients -> SUBSET Docs]
    BY <1>4, ClientParts DEF Type, Queued
  <1>7. /\ pbase' \in [Clients -> Nat \cup {NoBase}]
        /\ \A d \in Clients : pbase'[d] # NoBase => pbase'[d] <= Newest
    BY ClientParts DEF Type, Queued
  <1>8. astray' \subseteq Clients
    BY ClientParts DEF Type
  <1> QED BY <1>1, <1>2, <1>3, <1>5, <1>6, <1>7, <1>8, Parts, ClientParts, QuietStep

\* A flush names a version that is committed.
LEMMA FlushSound ==
    ASSUME IInv, NEW c \in Clients, socket[c] \in Sockets, NEW v \in Nat, v <= Newest,
           FlushAt(c, v)
    PROVE  /\ up' \in [Sockets -> Seq(Update)]
           /\ \A k \in Sockets : Updates(up'[k], Newest)
           /\ pending' \in [Clients -> SUBSET Docs]
           /\ pbase' \in [Clients -> Nat \cup {NoBase}]
           /\ \A d \in Clients : pbase'[d] # NoBase => pbase'[d] <= Newest
  <1>1. PICK doc \in pending[c] :
          up' = [up EXCEPT ![socket[c]] = Append(@, [doc |-> doc, base |-> BaseOf(c, v)])]
    BY DEF FlushAt
  <1> DEFINE u == [doc |-> doc, base |-> BaseOf(c, v)]
  <1>2. BaseOf(c, v) \in Nat /\ BaseOf(c, v) <= Newest
    BY ClientParts DEF BaseOf
  <1>3. u \in Update /\ u.base <= Newest
    BY <1>2, ClientParts DEF Update
  <1>4. /\ up \in [Sockets -> Seq(Update)] /\ Newest \in Nat
        /\ \A k \in Sockets : Updates(up[k], Newest)
    BY Parts, ClientParts
  <1>5. up' = [up EXCEPT ![socket[c]] = Append(up[socket[c]], u)]
    BY <1>1
  <1>6. /\ Append(up[socket[c]], u) \in Seq(Update)
        /\ Updates(Append(up[socket[c]], u), Newest)
    <2> HIDE DEF u
    <2> QED BY <1>3, <1>4, AppendUpdate
  <1>7. up' \in [Sockets -> Seq(Update)] /\ \A k \in Sockets : Updates(up'[k], Newest)
    <2> HIDE DEF u
    <2> QED BY <1>4, <1>5, <1>6
  <1>8. pending' \in [Clients -> SUBSET Docs]
    BY ClientParts DEF FlushAt
  <1>9. /\ pbase' \in [Clients -> Nat \cup {NoBase}]
        /\ \A d \in Clients : pbase'[d] # NoBase => pbase'[d] <= Newest
    BY ClientParts DEF FlushAt
  <1> QED BY <1>7, <1>8, <1>9

\* A flush sends what was queued, with its base.
LEMMA FlushStep == ASSUME IInv, NEW c \in Clients, Flush(c) PROVE IInv'
  <1>1. UNCHANGED <<revisions, greeting, edits, stage, task, down>>
    BY DEF Flush, server
  <1>2. UNCHANGED <<host, subscribed, bus, relay, socket, links, screen, known, stalled, astray>>
    BY DEF Flush, server
  <1>3. socket[c] \in Sockets /\ known[c] \in Nat /\ known[c] <= Newest /\ FlushAt(c, known[c])
    BY ClientParts DEF Flush
  <1>4. /\ up' \in [Sockets -> Seq(Update)]
        /\ \A k \in Sockets : Updates(up'[k], Newest)
        /\ pending' \in [Clients -> SUBSET Docs]
        /\ pbase' \in [Clients -> Nat \cup {NoBase}]
        /\ \A d \in Clients : pbase'[d] # NoBase => pbase'[d] <= Newest
    BY <1>3, FlushSound
  <1> QED BY <1>1, <1>2, <1>4, Parts, ClientParts, QuietStep

\* A tab that handles a sound frame knows a committed version.
LEMMA HandleStep == ASSUME IInv, NEW c \in Clients, Handle(c) PROVE IInv'
  <1> DEFINE f == Head(down[socket[c]])
  <1>1. UNCHANGED <<revisions, greeting, edits, stage, task>>
    BY DEF Handle, server
  <1>2. UNCHANGED <<host, subscribed, bus, relay, socket, links, stalled>>
    BY DEF Handle, server
  <1>3. socket[c] \in Sockets /\ down[socket[c]] # <<>>
    BY ClientParts DEF Handle
  <1>4. /\ f \in Frame /\ Sound(f, revisions)
        /\ Tail(down[socket[c]]) \in Seq(Frame) /\ SoundSeq(Tail(down[socket[c]]), revisions)
    BY <1>3, HeadSound, Parts
  <1>5. f.ver \in Nat /\ f.ver <= Newest /\ f.doc \in Docs
    BY <1>4 DEF Frame, Sound, Newest
  <1>6. down' \in [Sockets -> Seq(Frame)] /\ \A k \in Sockets : SoundSeq(down'[k], revisions)
    <2> down' = [down EXCEPT ![socket[c]] = Tail(down[socket[c]])]
      BY DEF Handle
    <2> QED BY <1>3, <1>4, Parts
  <1>7. known' \in [Clients -> Nat] /\ \A d \in Clients : known'[d] <= Newest
    <2> known' = [known EXCEPT ![c] = f.ver]
      BY DEF Handle
    <2> HIDE DEF f
    <2> QED BY <1>5, ClientParts
  <1>8. screen' \in [Clients -> Docs]
    <2> screen' = IF f.kind = "ack" THEN screen ELSE [screen EXCEPT ![c] = f.doc]
      BY DEF Handle
    <2> HIDE DEF f
    <2> QED BY <1>5, ClientParts
  <1>9. /\ up' \in [Sockets -> Seq(Update)]
        /\ \A k \in Sockets : Updates(up'[k], Newest)
        /\ pending' \in [Clients -> SUBSET Docs]
        /\ pbase' \in [Clients -> Nat \cup {NoBase}]
        /\ \A d \in Clients : pbase'[d] # NoBase => pbase'[d] <= Newest
    <2>1. CASE UNCHANGED <<up, pending, pbase>>
      BY <2>1, Parts, ClientParts
    <2>2. CASE FlushAt(c, f.ver)
      <3> HIDE DEF f
      <3> QED BY <1>3, <1>5, <2>2, FlushSound
    <2>3. CASE /\ pending' = [pending EXCEPT ![c] = {}]
               /\ pbase' = [pbase EXCEPT ![c] = NoBase]
               /\ UNCHANGED up
      BY <2>3, Parts, ClientParts
    <2> QED BY <2>1, <2>2, <2>3 DEF Handle, SettlePending
  <1>10. astray' \subseteq Clients
    BY ClientParts DEF Handle, Astray
  <1> QED BY <1>1, <1>2, <1>6, <1>7, <1>8, <1>9, <1>10, Parts, ClientParts, QuietStep

\* A client that stops reading.
LEMMA StallStep == ASSUME IInv, NEW c \in Clients, Stall(c) PROVE IInv'
  <1>1. UNCHANGED <<revisions, greeting, edits, stage, task, up, down, astray>>
    BY DEF Stall, server
  <1>2. UNCHANGED <<host, subscribed, bus, relay, socket, links, screen, known, pending, pbase>>
    BY DEF Stall, server
  <1>3. stalled' \subseteq Sockets
    BY ClientParts DEF Stall
  <1> QED BY <1>1, <1>2, <1>3, Parts, ClientParts, QuietStep

\* A dropped connection loses a part of what was on its way.
LEMMA DropStep == ASSUME IInv, NEW c \in Clients, Drop(c) PROVE IInv'
  <1>1. UNCHANGED <<revisions, greeting, edits, stage, task>>
    BY DEF Drop, server
  <1>2. UNCHANGED <<host, subscribed, bus, relay, links, screen, known, pending, pbase, astray>>
    BY DEF Drop, server
  <1>3. socket[c] \in Sockets /\ Cut(socket[c])
    BY ClientParts DEF Drop
  <1>4. socket' \in [Clients -> Sockets \cup {NoSocket}] /\ stalled' \subseteq Sockets
    BY ClientParts DEF Drop
  <1>5. down' \in [Sockets -> Seq(Frame)] /\ \A k \in Sockets : SoundSeq(down'[k], revisions)
    <2> <<>> \in Seq(Frame) /\ SoundSeq(<<>>, revisions)
      BY DEF SoundSeq
    <2> down' = [down EXCEPT ![socket[c]] = <<>>]
      BY <1>3 DEF Cut
    <2> QED BY <1>3, Parts
  <1>6. up' \in [Sockets -> Seq(Update)] /\ \A k \in Sockets : Updates(up'[k], Newest)
    <2>1. PICK n \in 0..Len(up[socket[c]]) :
             up' = [up EXCEPT ![socket[c]] = SubSeq(up[socket[c]], 1, n)]
      BY <1>3 DEF Cut
    <2>2. /\ SubSeq(up[socket[c]], 1, n) \in Seq(Update)
          /\ Updates(SubSeq(up[socket[c]], 1, n), Newest)
      BY <1>3, CutUpdate, Parts, ClientParts
    <2> QED BY <1>3, <2>1, <2>2, Parts, ClientParts
  <1> QED BY <1>1, <1>2, <1>4, <1>5, <1>6, Parts, ClientParts, QuietStep

\* A process that dies takes its sockets and its bus with it.
LEMMA CrashStep == ASSUME IInv, NEW w \in Workers, Crash(w) PROVE IInv'
  <1> DEFINE gone == {k \in Sockets : host[k] = w}
  <1>1. UNCHANGED <<revisions, edits, links, screen, known, pending, pbase, astray>>
    BY DEF Crash
  <1>2. /\ <<>> \in Seq(Frame) /\ SoundSeq(<<>>, revisions)
        /\ <<>> \in Seq(Update) /\ Updates(<<>>, Newest)
        /\ Idle.frame = Blank /\ Idle.at = "idle" /\ NoRelay.frame = Blank
    BY DEF SoundSeq, Updates, Idle, NoRelay
  <1>3. /\ stage' \in [Sockets -> Stage]
        /\ host' \in [Sockets -> Workers \cup {NoHost}]
        /\ \A j \in Sockets : stage'[j] # "closed" => host'[j] \in Workers
        /\ greeting' \in [Sockets -> Frame]
        /\ \A j \in Sockets : Sound(greeting'[j], revisions)
    BY Parts DEF Crash, Stage
  <1>4. task' = [k \in Sockets |-> IF k \in gone THEN Idle ELSE task[k]]
    BY DEF Crash
  <1>5. /\ task' \in [Sockets -> Task]
        /\ \A k \in Sockets : Sound(task'[k].frame, revisions)
        /\ \A k \in Sockets : task'[k].at = "refused" => task'[k].frame.sent < Newest
    <2> HIDE DEF gone
    <2> \A k \in Sockets : task'[k] \in {Idle, task[k]}
      BY <1>4
    <2> QED BY <1>2, <1>4, Parts
  <1>6. up' \in [Sockets -> Seq(Update)] /\ \A k \in Sockets : Updates(up'[k], Newest)
    BY <1>2, Parts, ClientParts DEF Crash
  <1>7. down' \in [Sockets -> Seq(Frame)] /\ \A k \in Sockets : SoundSeq(down'[k], revisions)
    BY <1>2, Parts DEF Crash
  <1>8. socket' \in [Clients -> Sockets \cup {NoSocket}] /\ stalled' \subseteq Sockets
    BY ClientParts DEF Crash
  <1>9. /\ subscribed' \subseteq Workers
        /\ bus' \in [Workers -> Seq(Frame)]
        /\ \A x \in Workers : SoundSeq(bus'[x], revisions)
        /\ relay' \in [Workers -> Relay]
        /\ \A x \in Workers : Sound(relay'[x].frame, revisions)
    BY <1>2, Parts DEF Crash
  <1> QED BY <1>1, <1>3, <1>5, <1>6, <1>7, <1>8, <1>9, Parts, ClientParts, QuietStep

-----------------------------------------------------------------------------
(* Every step, and the theorems. *)

\* Nothing happens.
LEMMA StutterKeeps == ASSUME IInv, UNCHANGED vars PROVE IInv'
  <1>1. UNCHANGED <<revisions, greeting, edits, stage, task, up, down, host, subscribed>>
    BY DEF vars
  <1>2. UNCHANGED <<bus, relay, socket, links, screen, known, pending, pbase, stalled, astray>>
    BY DEF vars
  <1> QED BY <1>1, <1>2, Parts, ClientParts, QuietStep

\* Every step keeps the invariant.
LEMMA NextIInv == IInv /\ [Next]_vars => IInv'
  <1> SUFFICES ASSUME IInv, [Next]_vars PROVE IInv'
    OBVIOUS
  <1>1. ASSUME NEW k \in Sockets, Serve(k) PROVE IInv'
    BY <1>1, HandshakeStep, SendStep, FanOutStep, ReceiveStep, LeaveStep DEF Serve
  <1>2. ASSUME NEW w \in Workers, Listen(w) \/ Replay(w) PROVE IInv'
    BY <1>2, ListenerStep
  <1>3. ASSUME NEW w \in Workers, Crash(w) PROVE IInv'
    BY <1>3, CrashStep
  <1>4. ASSUME NEW c \in Clients,
               Open(c) \/ Type(c) \/ Flush(c) \/ Handle(c) \/ Stall(c) \/ Drop(c)
        PROVE  IInv'
    BY <1>4, OpenStep, TypeStep, FlushStep, HandleStep, StallStep, DropStep
  <1>5. CASE RestWrite
    BY <1>5, RestStep
  <1>6. CASE UNCHANGED vars
    BY <1>6, StutterKeeps
  <1> QED BY <1>1, <1>2, <1>3, <1>4, <1>5, <1>6 DEF Next

\* The invariant holds in every reachable state.
THEOREM Invariance == Spec => []IInv
  <1> QED BY InitIInv, NextIInv, PTL DEF Spec

\* Every reachable state is well typed.
THEOREM TypeCorrect == Spec => []TypeOK
  <1>1. IInv => TypeOK
    BY DEF IInv
  <1> QED BY <1>1, Invariance, PTL

\* Nobody is told of, names or holds a version that is not committed.
THEOREM NoFutureVersionHolds == Spec => []NoFutureVersion
  <1>1. ASSUME IInv PROVE NoFutureVersion
    <2>1. ASSUME NEW k \in Sockets
          PROVE  /\ greeting[k].ver <= Newest
                 /\ task[k].frame.ver <= Newest
                 /\ task[k].at = "refused" => task[k].frame.sent < Newest
                 /\ \A i \in 1..Len(up[k]) : up[k][i].base <= Newest
                 /\ \A i \in 1..Len(down[k]) : down[k][i].ver <= Newest
      BY <1>1 DEF IInv, Frames, Bases, Updates, Sound, SoundSeq, Newest
    <2>2. ASSUME NEW w \in Workers
          PROVE  /\ relay[w].frame.ver <= Newest
                 /\ \A i \in 1..Len(bus[w]) : bus[w][i].ver <= Newest
      BY <1>1 DEF IInv, Frames, Sound, SoundSeq, Newest
    <2> QED BY <1>1, <2>1, <2>2 DEF NoFutureVersion, IInv, Bases
  <1> QED BY <1>1, Invariance, PTL

\* Every document a frame carries is the one its version had.
THEOREM FramesTruthfulHolds == Spec => []FramesTruthful
  <1>1. \A f : Sound(f, revisions) => Truthful(f)
    BY DEF Sound, Truthful, Newest
  <1>2. IInv => FramesTruthful
    BY <1>1 DEF IInv, Frames, FramesTruthful, SoundSeq
  <1> QED BY <1>2, Invariance, PTL

\* A refusal always hands back something newer than what it refuses.
THEOREM ConflictIsNewerHolds == Spec => []ConflictIsNewer
  <1>1. IInv => ConflictIsNewer
    BY DEF IInv, Frames, ConflictIsNewer, SoundSeq, Sound
  <1> QED BY <1>1, Invariance, PTL

-----------------------------------------------------------------------------
(* What a client sends contains what it names. *)

\* What is shown contains the version that is known; a save that is queued has a base,
\* and if that can still be accepted, both it and what is shown contain it.
Seen(c) ==
    /\ known[c] # 0 => revisions[known[c]].doc \subseteq screen[c]
    /\ pending[c] # {} => pbase[c] # NoBase
    /\ pbase[c] = Newest =>
          /\ revisions[Newest].doc \subseteq screen[c]
          /\ \A doc \in pending[c] : revisions[Newest].doc \subseteq doc

Seeing ==
    /\ \A c \in Clients \ astray : Seen(c)
    /\ \A c \in Clients : pending[c] = {} => pbase[c] = NoBase
    /\ \A c \in Clients : socket[c] # NoSocket => Owner(socket[c]) = c

\* The step formula of SendsHaveSeenTheirBase.
SendsSeen ==
    \A c \in Clients \ astray : \A k \in Sockets :
          Owner(k) = c /\ Len(up'[k]) > Len(up[k]) =>
              LET u == up'[k][Len(up'[k])]
              IN  u.base = Newest => revisions[Newest].doc \subseteq u.doc

\* Nobody has seen anything, or is asked to, at the start.
LEMMA InitSeeing == Init => Seeing
  <1> SUFFICES ASSUME Init PROVE Seeing
    OBVIOUS
  <1>1. Newest \in Nat /\ NoBase \notin Nat
    BY ConstantsOK DEF Init, Newest
  <1> QED BY <1>1 DEF Init, Seeing, Seen

\* A step that touches neither the revisions nor what a client has in hand, and sends
\* nothing.
LEMMA OthersSee ==
    ASSUME IInv, Seeing, UNCHANGED <<revisions, screen, known, pending, pbase, astray>>,
           \A c \in Clients : socket'[c] \in {NoSocket, socket[c]},
           \A k \in Sockets : ~(Len(up'[k]) > Len(up[k]))
    PROVE  Seeing' /\ SendsSeen
  <1>1. Seeing'
    BY DEF Seeing, Seen, Newest
  <1> QED BY <1>1 DEF SendsSeen

\* A commit leaves every base that is queued behind.
LEMMA CommitSeen ==
    ASSUME IInv, Seeing, NEW x \in Revision, revisions' = Append(revisions, x),
           UNCHANGED <<screen, known, pending, pbase, astray, socket>>,
           \A k \in Sockets : ~(Len(up'[k]) > Len(up[k]))
    PROVE  Seeing' /\ SendsSeen
  <1>1. /\ revisions \in Seq(Revision) /\ Newest = Len(revisions) /\ Newest \in Nat /\ NoBase \notin Nat
        /\ \A c \in Clients : known[c] \in Nat /\ known[c] <= Newest
        /\ \A c \in Clients : pbase[c] \in Nat \cup {NoBase} /\ (pbase[c] # NoBase => pbase[c] <= Newest)
    BY Parts, ClientParts, ConstantsOK DEF Newest
  <1>2. Newest' = Newest + 1 /\ \A v \in 1..Newest : revisions'[v] = revisions[v]
    BY <1>1 DEF Newest
  <1>3. \A c \in Clients : pbase'[c] # Newest'
    BY <1>1, <1>2
  <1>4. ASSUME NEW c \in Clients, Seen(c) PROVE Seen(c)'
    <2>1. known[c] # 0 => known[c] \in 1..Newest
      BY <1>1
    <2> QED BY <1>2, <1>3, <1>4, <2>1 DEF Seen
  <1>5. Seeing'
    BY <1>4 DEF Seeing
  <1> QED BY <1>5 DEF SendsSeen

\* A flush: what is sent is what was queued, with the base it was queued with.
LEMMA FlushSeen ==
    ASSUME IInv, Seeing, NEW c \in Clients, socket[c] # NoSocket, NEW v \in Nat, FlushAt(c, v)
    PROVE  SendsSeen
  <1>1. PICK doc \in pending[c] :
          up' = [up EXCEPT ![socket[c]] = Append(@, [doc |-> doc, base |-> BaseOf(c, v)])]
    BY DEF FlushAt
  <1> DEFINE u == [doc |-> doc, base |-> BaseOf(c, v)]
  <1>2. socket[c] \in Sockets /\ up \in [Sockets -> Seq(Update)] /\ Owner(socket[c]) = c
    BY ClientParts, Parts DEF Seeing
  <1>3. BaseOf(c, v) \in Nat
    BY ClientParts DEF BaseOf
  <1>4. u \in Update
    BY <1>3, ClientParts DEF Update
  <1>5. \A k \in Sockets : up'[k] = IF k = socket[c] THEN Append(up[k], u) ELSE up[k]
    BY <1>1, <1>2
  <1>6. ASSUME NEW k \in Sockets, Len(up'[k]) > Len(up[k])
        PROVE  k = socket[c] /\ up'[k][Len(up'[k])] = u
    <2>1. up[k] \in Seq(Update)
      BY <1>2
    <2>2. k = socket[c]
      BY <1>5, <1>6, <2>1
    <2>3. up'[k] = Append(up[k], u)
      BY <1>5, <2>2
    <2> HIDE DEF u
    <2> QED BY <1>4, <2>1, <2>2, <2>3
  <1>7. c \notin astray => (u.base = Newest => revisions[Newest].doc \subseteq u.doc)
    BY DEF Seeing, Seen, BaseOf
  <1> HIDE DEF u
  <1> QED BY <1>2, <1>6, <1>7 DEF SendsSeen

\* Typing adds to what is shown, and queues that.
LEMMA TypeSees == ASSUME IInv, Seeing, NEW c \in Clients, Type(c) PROVE Seeing' /\ SendsSeen
  <1>1. UNCHANGED <<revisions, known, socket, up>> /\ Newest' = Newest
    BY DEF Type, server, Newest
  <1>2. /\ screen' = [screen EXCEPT ![c] = @ \cup {edits + 1}]
        /\ pending' = [pending EXCEPT ![c] = {screen[c] \cup {edits + 1}}]
        /\ pbase' = [pbase EXCEPT ![c] = IF @ = NoBase /\ known[c] # 0 THEN known[c] ELSE @]
        /\ astray' = IF known[c] = 0 THEN astray \cup {c} ELSE astray
    BY DEF Type, Queued
  <1>3. /\ screen \in [Clients -> Docs] /\ pending \in [Clients -> SUBSET Docs]
        /\ pbase \in [Clients -> Nat \cup {NoBase}] /\ known[c] \in Nat /\ NoBase \notin Nat
    BY ClientParts, ConstantsOK
  <1>4. \A d \in Clients : d # c => screen'[d] = screen[d] /\ pending'[d] = pending[d] /\ pbase'[d] = pbase[d]
    BY <1>2, <1>3
  <1>5. ASSUME c \notin astray' PROVE Seen(c)'
    <2>1. known[c] # 0 /\ Seen(c)
      BY <1>2, <1>5 DEF Seeing
    <2>2. /\ screen'[c] = screen[c] \cup {edits + 1} /\ pending'[c] = {screen[c] \cup {edits + 1}}
          /\ pbase'[c] = IF pbase[c] = NoBase THEN known[c] ELSE pbase[c]
      BY <1>2, <1>3, <2>1
    <2>3. pbase'[c] = Newest => revisions[Newest].doc \subseteq screen[c]
      BY <2>1, <2>2 DEF Seen
    <2> QED BY <1>1, <1>3, <2>1, <2>2, <2>3 DEF Seen
  <1>6. ASSUME NEW d \in Clients, d # c, d \notin astray' PROVE Seen(d)'
    BY <1>1, <1>2, <1>4, <1>6 DEF Seeing, Seen
  <1>7. \A d \in Clients : pending'[d] = {} => pbase'[d] = NoBase
    BY <1>2, <1>3, <1>4 DEF Seeing
  <1>8. SendsSeen
    <2>1. \A k \in Sockets : ~(Len(up'[k]) > Len(up[k]))
      BY <1>1, Parts
    <2> QED BY <2>1 DEF SendsSeen
  <1> QED BY <1>1, <1>5, <1>6, <1>7, <1>8 DEF Seeing

\* After a flush nothing is queued.
LEMMA FlushSees == ASSUME IInv, Seeing, NEW c \in Clients, Flush(c) PROVE Seeing' /\ SendsSeen
  <1>1. UNCHANGED <<revisions, known, screen, socket, astray>> /\ Newest' = Newest
    BY DEF Flush, server, Newest
  <1>2. /\ FlushAt(c, known[c]) /\ socket[c] # NoSocket /\ known[c] \in Nat
    BY ClientParts DEF Flush
  <1>3. /\ pending' = [pending EXCEPT ![c] = {}] /\ pbase' = [pbase EXCEPT ![c] = NoBase]
    BY <1>2 DEF FlushAt
  <1>4. /\ pending \in [Clients -> SUBSET Docs] /\ pbase \in [Clients -> Nat \cup {NoBase}]
        /\ NoBase \notin Nat /\ Newest \in Nat
    BY ClientParts, Parts, ConstantsOK
  <1>5. SendsSeen
    BY <1>2, FlushSeen
  <1>6. ASSUME NEW d \in Clients, d \notin astray' PROVE Seen(d)'
    BY <1>1, <1>3, <1>4, <1>6 DEF Seeing, Seen
  <1>7. \A d \in Clients : pending'[d] = {} => pbase'[d] = NoBase
    BY <1>3, <1>4 DEF Seeing
  <1> QED BY <1>1, <1>5, <1>6, <1>7 DEF Seeing

\* A greeting settles what is queued; any other frame leaves it, and what is shown
\* after it contains what it names, or its client is astray.
LEMMA HandleSees == ASSUME IInv, Seeing, NEW c \in Clients, Handle(c) PROVE Seeing' /\ SendsSeen
  <1> DEFINE f == Head(down[socket[c]])
  <1>1. UNCHANGED <<revisions, socket>> /\ Newest' = Newest
    BY DEF Handle, server, Newest
  <1>2. /\ known' = [known EXCEPT ![c] = f.ver]
        /\ screen' = IF f.kind = "ack" THEN screen ELSE [screen EXCEPT ![c] = f.doc]
        /\ IF f.kind = "hello" THEN SettlePending(c, f.ver) ELSE UNCHANGED <<up, pending, pbase>>
        /\ astray' = Astray(c, f)
        /\ socket[c] # NoSocket /\ down[socket[c]] # <<>>
    BY DEF Handle
  <1>3. /\ screen \in [Clients -> Docs] /\ pending \in [Clients -> SUBSET Docs]
        /\ pbase \in [Clients -> Nat \cup {NoBase}] /\ known \in [Clients -> Nat]
        /\ NoBase \notin Nat /\ Newest \in Nat /\ Newest = Len(revisions) /\ Newest # 0
        /\ pbase[c] # NoBase => pbase[c] <= Newest
    BY ClientParts, Parts, ConstantsOK DEF Newest
  <1>4. f \in Frame /\ Sound(f, revisions)
    <2>1. socket[c] \in Sockets
      BY <1>2, ClientParts
    <2> QED BY <1>2, <2>1, Parts, HeadSound
  <1>5. /\ f.ver \in Nat /\ f.ver <= Newest /\ f.kind \in {"none", "hello", "updated", "ack", "conflict"}
        /\ f.kind # "ack" /\ f.ver # 0 => f.doc = revisions[f.ver].doc
    BY <1>3, <1>4 DEF Sound, Frame
  <1> HIDE DEF f
  <1>6. CASE f.kind = "hello"
    <2>1. \/ UNCHANGED <<up, pending, pbase>> /\ pending[c] = {}
          \/ /\ pending' = [pending EXCEPT ![c] = {}] /\ pbase' = [pbase EXCEPT ![c] = NoBase]
             /\ FlushAt(c, f.ver) \/ UNCHANGED up
      BY <1>2, <1>6 DEF SettlePending, FlushAt
    <2>2. pending'[c] = {} /\ pbase'[c] = NoBase
      BY <1>3, <2>1 DEF Seeing
    <2>3. \A d \in Clients : d # c => pending'[d] = pending[d] /\ pbase'[d] = pbase[d]
      BY <1>3, <2>1
    <2>4. screen' = [screen EXCEPT ![c] = f.doc] /\ astray' = astray \ {c}
      BY <1>2, <1>6 DEF Astray
    <2>5. Seen(c)'
      BY <1>1, <1>2, <1>3, <1>5, <1>6, <2>2, <2>4 DEF Seen
    <2>6. ASSUME NEW d \in Clients, d # c, d \notin astray' PROVE Seen(d)'
      BY <1>1, <1>2, <1>3, <2>3, <2>4, <2>6 DEF Seeing, Seen
    <2>7. SendsSeen
      <3>1. CASE UNCHANGED up
        BY <3>1, Parts DEF SendsSeen
      <3>2. CASE FlushAt(c, f.ver)
        BY <1>2, <1>5, <3>2, FlushSeen
      <3> QED BY <2>1, <3>1, <3>2
    <2> QED BY <1>1, <2>2, <2>3, <2>5, <2>6, <2>7 DEF Seeing
  <1>7. CASE f.kind # "hello"
    <2>1. UNCHANGED <<up, pending, pbase>>
      BY <1>2, <1>7
    <2>2. \A d \in Clients : d # c =>
            known'[d] = known[d] /\ screen'[d] = screen[d] /\ (d \notin astray' => d \notin astray)
      BY <1>2, <1>3 DEF Astray
    <2>3. ASSUME NEW d \in Clients, d # c, d \notin astray' PROVE Seen(d)'
      BY <1>1, <2>1, <2>2, <2>3 DEF Seeing, Seen
    <2>4. ASSUME c \notin astray' PROVE Seen(c)'
      <3>1. known'[c] = f.ver
        BY <1>2, <1>3
      <3>2. CASE f.kind = "ack"
        <4>1. revisions[f.ver].doc \subseteq screen[c] /\ c \notin astray /\ screen' = screen
          BY <1>2, <2>4, <3>2 DEF Astray
        <4> QED BY <1>1, <2>1, <3>1, <4>1 DEF Seeing, Seen
      <3>3. CASE f.kind # "ack" /\ pending[c] = {}
        <4>1. screen'[c] = f.doc /\ pbase[c] = NoBase
          BY <1>2, <1>3, <3>3 DEF Seeing
        <4> QED BY <1>1, <1>3, <1>5, <2>1, <3>1, <3>3, <4>1 DEF Seen
      <3>4. CASE f.kind # "ack" /\ pending[c] # {}
        <4>1. screen'[c] = f.doc
          BY <1>2, <1>3, <3>4
        <4>2. c \notin astray /\ ~(pbase[c] # NoBase /\ f.ver < pbase[c])
          BY <1>2, <1>7, <2>4, <3>4 DEF Astray
        <4>3. pbase[c] = Newest => f.ver = Newest
          BY <1>3, <1>5, <4>2
        <4> QED BY <1>1, <1>3, <1>5, <2>1, <3>1, <3>4, <4>1, <4>2, <4>3 DEF Seeing, Seen
      <3> QED BY <3>2, <3>3, <3>4
    <2>5. SendsSeen
      BY <2>1, Parts DEF SendsSeen
    <2> QED BY <1>1, <2>1, <2>3, <2>4, <2>5 DEF Seeing
  <1> QED BY <1>6, <1>7

\* Opening a socket changes nothing of what its client has in hand.
LEMMA OpenSees == ASSUME IInv, Seeing, NEW c \in Clients, Open(c) PROVE Seeing' /\ SendsSeen
  <1>1. UNCHANGED <<revisions, screen, known, pending, pbase, astray, up>>
    BY DEF Open
  <1>2. \A d \in Clients : socket'[d] # NoSocket => Owner(socket'[d]) = d
    <2>1. \A d \in Clients : socket'[d] = IF d = c THEN <<c, links[c] + 1>> ELSE socket[d]
      BY ClientParts DEF Open
    <2>2. Owner(<<c, links[c] + 1>>) = c
      BY DEF Owner
    <2>3. \A d \in Clients : socket[d] # NoSocket => Owner(socket[d]) = d
      BY DEF Seeing
    <2> QED BY <2>1, <2>2, <2>3, Zenon
  <1>3. \A k \in Sockets : ~(Len(up'[k]) > Len(up[k]))
    BY <1>1, Parts
  <1>4. (\A d \in Clients \ astray : Seen(d))'
    BY <1>1 DEF Seeing, Seen, Newest
  <1>5. (\A d \in Clients : pending[d] = {} => pbase[d] = NoBase)'
    BY <1>1 DEF Seeing
  <1> QED BY <1>2, <1>3, <1>4, <1>5 DEF Seeing, SendsSeen

\* A handler sends nothing to the server, and what it takes or drops it takes off the
\* queue. Only a commit touches the revisions.
LEMMA ServeSees ==
    ASSUME IInv, Seeing, NEW k \in Sockets, Serve(k) PROVE Seeing' /\ SendsSeen
  <1>1. UNCHANGED <<screen, known, pending, pbase, astray, socket>>
    BY DEF Serve, Resolve, Join, Subscribe, Greet, Receive, Conflict, Refresh, Broadcast,
           Deliver, Publish, Ack, Leave, client
  <1>2. \A j \in Sockets : up[j] \in Seq(Update)
    BY Parts
  <1>3. CASE Receive(k)
    <2>1. up' = [up EXCEPT ![k] = Tail(up[k])] /\ up[k] # <<>> /\ up \in [Sockets -> Seq(Update)]
      BY <1>3, Parts DEF Receive
    <2>2. \A j \in Sockets : ~(Len(up'[j]) > Len(up[j]))
      BY <1>2, <2>1
    <2>3. UNCHANGED revisions \/ \E x \in Revision : revisions' = Append(revisions, x)
      <3>1. Head(up[k]) \in Update /\ Owner(k) \in Clients
        BY <1>2, <2>1 DEF Owner, Sockets
      <3>2. [doc |-> Head(up[k]).doc, by |-> Owner(k), base |-> Head(up[k]).base] \in Revision
        BY <3>1 DEF Update, Revision
      <3> QED BY <1>3, <3>2 DEF Receive
    <2>4. CASE UNCHANGED revisions
      BY <1>1, <2>2, <2>4, OthersSee
    <2>5. CASE \E x \in Revision : revisions' = Append(revisions, x)
      BY <1>1, <2>2, <2>5, CommitSeen
    <2> QED BY <2>3, <2>4, <2>5
  <1>4. CASE Leave(k)
    <2>1. up' = [up EXCEPT ![k] = <<>>] /\ up \in [Sockets -> Seq(Update)] /\ UNCHANGED revisions
      BY <1>4, Parts DEF Leave
    <2>2. \A j \in Sockets : ~(Len(up'[j]) > Len(up[j]))
      BY <1>2, <2>1
    <2> QED BY <1>1, <2>1, <2>2, OthersSee
  <1>5. CASE UNCHANGED <<revisions, up>>
    BY <1>1, <1>2, <1>5, OthersSee
  <1> QED BY <1>3, <1>4, <1>5 DEF Serve, Resolve, Join, Subscribe, Greet, Conflict, Refresh,
             Broadcast, Deliver, Publish, Ack

\* The network and the processes take away, and send nothing.
LEMMA FailuresSee ==
    ASSUME IInv, Seeing,
           \/ \E w \in Workers : Listen(w) \/ Replay(w) \/ Crash(w)
           \/ \E c \in Clients : Stall(c) \/ Drop(c)
    PROVE  Seeing' /\ SendsSeen
  <1>1. \A k \in Sockets : up[k] \in Seq(Update)
    BY Parts
  <1>2. ASSUME NEW w \in Workers, Listen(w) \/ Replay(w) PROVE Seeing' /\ SendsSeen
    BY <1>1, <1>2, OthersSee DEF Listen, Replay, client
  <1>3. ASSUME NEW w \in Workers, Crash(w) PROVE Seeing' /\ SendsSeen
    <2>1. /\ UNCHANGED <<revisions, screen, known, pending, pbase, astray>>
          /\ \A c \in Clients : socket'[c] \in {NoSocket, socket[c]}
          /\ \A k \in Sockets : up'[k] = <<>> \/ up'[k] = up[k]
      BY <1>3 DEF Crash
    <2>2. \A k \in Sockets : ~(Len(up'[k]) > Len(up[k]))
      BY <1>1, <2>1
    <2> QED BY <2>1, <2>2, OthersSee
  <1>4. ASSUME NEW c \in Clients, Stall(c) PROVE Seeing' /\ SendsSeen
    BY <1>1, <1>4, OthersSee DEF Stall, server
  <1>5. ASSUME NEW c \in Clients, Drop(c) PROVE Seeing' /\ SendsSeen
    <2>1. /\ UNCHANGED <<revisions, screen, known, pending, pbase, astray>>
          /\ \A d \in Clients : socket'[d] \in {NoSocket, socket[d]}
      BY <1>5, ClientParts DEF Drop, server
    <2>2. PICK n \in 0..Len(up[socket[c]]) : up' = [up EXCEPT ![socket[c]] = SubSeq(@, 1, n)]
      BY <1>5 DEF Drop, Cut
    <2>3. socket[c] \in Sockets /\ up \in [Sockets -> Seq(Update)]
      BY <1>5, ClientParts, Parts DEF Drop
    <2>4. Len(SubSeq(up[socket[c]], 1, n)) = n /\ n <= Len(up[socket[c]]) /\ Len(up[socket[c]]) \in Nat
      BY <2>2, <2>3
    <2>5. \A k \in Sockets : ~(Len(up'[k]) > Len(up[k]))
      BY <1>1, <2>2, <2>3, <2>4
    <2> QED BY <2>1, <2>5, OthersSee
  <1> QED BY <1>2, <1>3, <1>4, <1>5

\* What is written over REST leaves every queued base behind, too.
LEMMA RestSees == ASSUME IInv, Seeing, RestWrite PROVE Seeing' /\ SendsSeen
  <1>1. UNCHANGED <<screen, known, pending, pbase, astray, socket, up>>
    BY DEF RestWrite, client
  <1>2. \A k \in Sockets : ~(Len(up'[k]) > Len(up[k]))
    BY <1>1, Parts
  <1>3. \E x \in Revision : revisions' = Append(revisions, x)
    <2>1. PICK v \in 1..Newest : \E doc \in {revisions[v].doc, revisions[v].doc \cup {edits + 1}} :
             \E base \in {NoBase, Newest} :
                revisions' = Append(revisions, [doc |-> doc, by |-> Http, base |-> base])
      BY DEF RestWrite
    <2>2. edits + 1 \in 1..MaxEdits
      BY ConstantsOK DEF RestWrite, IInv, TypeOK
    <2>3. Newest \in Nat /\ revisions[v].doc \in Docs
      <3>1. Newest \in Nat /\ revisions[v] \in Revision
        BY DEF IInv, TypeOK, Newest
      <3> QED BY <3>1 DEF Revision
    <2>4. revisions[v].doc \cup {edits + 1} \in Docs
      BY <2>2, <2>3 DEF Docs
    <2> QED BY <2>1, <2>3, <2>4 DEF Revision
  <1> QED BY <1>1, <1>2, <1>3, CommitSeen

\* Every step keeps what is seen, and sends nothing that leaves out what it names.
LEMMA NextSeeing == IInv /\ Seeing /\ [Next]_vars => Seeing' /\ [SendsSeen]_vars
  <1> SUFFICES ASSUME IInv, Seeing, [Next]_vars PROVE Seeing' /\ (SendsSeen \/ UNCHANGED vars)
    OBVIOUS
  <1>1. ASSUME Next PROVE Seeing' /\ SendsSeen
    BY <1>1, ServeSees, FailuresSee, OpenSees, TypeSees, FlushSees, HandleSees, RestSees DEF Next
  <1>2. ASSUME UNCHANGED vars PROVE Seeing'
    BY <1>2 DEF vars, Seeing, Seen, Newest
  <1> QED BY <1>1, <1>2

\* No client, unless it was led astray, sends a save that can be accepted and leaves out
\* something of the document it names: for any number of editors, processes, drops and
\* edits (sendDoc, flushDoc, handleMessage).
THEOREM SendsHaveSeenTheirBaseHolds == Spec => SendsHaveSeenTheirBase
  <1>1. Spec => [][SendsSeen]_vars
    BY Invariance, InitSeeing, NextSeeing, PTL DEF Spec
  <1> QED BY <1>1 DEF SendsHaveSeenTheirBase, SendsSeen

-----------------------------------------------------------------------------
(* A save that arrived is answered: the steps on the way. *)

\* A client that is connected has a handler, and a handler that is busy with a save has
\* greeted its client and not left.
ConnectedIsServed ==
    \A k \in Sockets :
        /\ Live(k) => stage[k] # "closed"
        /\ task[k].at # "idle" => stage[k] = "serving"

\* A socket that no client has opened yet has no handler.
NotOpened == \A k \in Sockets : k[2] > links[Owner(k)] => stage[k] = "closed"

Served == ConnectedIsServed /\ NotOpened

\* The ways from a save's commit or refusal to its answer. The fan-out sends to one
\* socket after the other.
GoesOn(old, new) ==
    \/ <<old.at, new.at>> \in {<<"refused", "idle">>, <<"committed", "read">>, <<"read", "fanout">>,
                               <<"fanout", "ack">>, <<"ack", "idle">>}
    \/ /\ old.at = "fanout" /\ new.at = "fanout"
       /\ new.todo \subseteq old.todo /\ new.todo # old.todo

\* Whatever the handler of a busy socket does brings it nearer to its answer, and nothing
\* anybody else does puts it back, as long as its client is connected.
Approaches ==
    \A k \in Sockets : task[k].at # "idle" =>
        /\ Live(k)' => task'[k] = task[k] \/ GoesOn(task[k], task'[k])
        /\ Serve(k) => GoesOn(task[k], task'[k])

\* What a handler does is about its own socket, and goes on.
LEMMA ServeGoesOn ==
    ASSUME IInv, Served, NEW k \in Sockets, Serve(k)
    PROVE  /\ \A x \in Sockets : x # k => task'[x] = task[x] /\ stage'[x] = stage[x]
           /\ task[k].at # "idle" => GoesOn(task[k], task'[k])
           /\ task'[k].at # "idle" => stage'[k] = "serving"
           /\ stage'[k] = "closed" => ~Live(k)
           /\ stage[k] # "closed"
           /\ UNCHANGED <<socket, links>>
  <1>1. /\ task \in [Sockets -> Task] /\ stage \in [Sockets -> Stage] /\ task[k] \in Task
        /\ task[k].at # "idle" => stage[k] = "serving"
    BY DEF IInv, TypeOK, Served, ConnectedIsServed
  <1>2. ASSUME NEW new, task' = [task EXCEPT ![k] = new], GoesOn(task[k], new),
               task[k].at # "idle", UNCHANGED <<stage, socket, links>>
        PROVE  /\ \A x \in Sockets : x # k => task'[x] = task[x] /\ stage'[x] = stage[x]
               /\ GoesOn(task[k], task'[k])
               /\ task'[k].at # "idle" => stage'[k] = "serving"
               /\ stage'[k] # "closed"
               /\ stage[k] # "closed"
               /\ UNCHANGED <<socket, links>>
    BY <1>1, <1>2
  <1>3. CASE Resolve(k) \/ Join(k) \/ Subscribe(k) \/ Greet(k)
    BY <1>1, <1>3 DEF Resolve, Join, Subscribe, Greet, client
  <1>4. CASE Receive(k)
    BY <1>1, <1>4 DEF Receive, client
  <1>5. CASE Leave(k)
    BY <1>1, <1>5 DEF Leave, client
  <1>6. CASE Conflict(k) \/ Ack(k)
    <2>1. task' = [task EXCEPT ![k] = Idle] /\ task[k].at \in {"refused", "ack"}
      BY <1>6 DEF Conflict, Ack
    <2>2. GoesOn(task[k], Idle)
      BY <2>1 DEF GoesOn, Idle
    <2>3. UNCHANGED <<stage, socket, links>>
      BY <1>6 DEF Conflict, Ack, client
    <2> QED BY <1>2, <2>1, <2>2, <2>3
  <1>7. CASE Refresh(k) \/ Broadcast(k) \/ Deliver(k) \/ Publish(k)
    <2>1. UNCHANGED <<stage, socket, links>> /\ task[k].at # "idle"
      BY <1>7 DEF Refresh, Broadcast, Deliver, Publish, client
    <2>2. \E new : task' = [task EXCEPT ![k] = new] /\ GoesOn(task[k], new)
      <3>1. CASE Refresh(k)
        <4>1. task' = [task EXCEPT ![k] = [task[k] EXCEPT !.at = "read", !.frame = Current("updated")]]
          BY <3>1 DEF Refresh
        <4>2. [task[k] EXCEPT !.at = "read", !.frame = Current("updated")].at = "read"
          BY <1>1 DEF Task
        <4> QED BY <3>1, <4>1, <4>2 DEF Refresh, GoesOn
      <3>2. CASE Broadcast(k)
        <4>1. task' = [task EXCEPT ![k] = [task[k] EXCEPT !.at = "fanout", !.todo = Room(host[k]) \ {k}]]
          BY <3>2 DEF Broadcast
        <4>2. [task[k] EXCEPT !.at = "fanout", !.todo = Room(host[k]) \ {k}].at = "fanout"
          BY <1>1 DEF Task
        <4> QED BY <3>2, <4>1, <4>2 DEF Broadcast, GoesOn
      <3>3. CASE Deliver(k)
        <4>1. PICK j \in task[k].todo \ stalled :
                task' = [task EXCEPT ![k] = [task[k] EXCEPT !.todo = task[k].todo \ {j}]]
          BY <3>3 DEF Deliver
        <4>2. /\ [task[k] EXCEPT !.todo = task[k].todo \ {j}].at = "fanout"
              /\ [task[k] EXCEPT !.todo = task[k].todo \ {j}].todo = task[k].todo \ {j}
          BY <1>1, <3>3 DEF Task, Deliver
        <4>3. task[k].todo \ {j} \subseteq task[k].todo /\ task[k].todo \ {j} # task[k].todo
          BY <4>1
        <4> QED BY <3>3, <4>1, <4>2, <4>3 DEF Deliver, GoesOn
      <3>4. CASE Publish(k)
        <4>1. task' = [task EXCEPT ![k] = [task[k] EXCEPT !.at = "ack"]]
          BY <3>4 DEF Publish
        <4>2. [task[k] EXCEPT !.at = "ack"].at = "ack"
          BY <1>1 DEF Task
        <4> QED BY <3>4, <4>1, <4>2 DEF Publish, GoesOn
      <3> QED BY <1>7, <3>1, <3>2, <3>3, <3>4
    <2> QED BY <1>2, <2>1, <2>2
  <1> QED BY <1>3, <1>4, <1>5, <1>6, <1>7 DEF Serve

\* No handler is busy before a client comes.
LEMMA InitServed == Init => Served
  <1> SUFFICES ASSUME Init PROVE Served
    OBVIOUS
  <1>1. \A k \in Sockets : stage[k] = "closed" /\ task[k].at = "idle" /\ Owner(k) \in Clients
    BY DEF Init, Idle, Sockets, Owner
  <1>2. \A k \in Sockets : ~Live(k)
    BY <1>1, ConstantsOK DEF Init, Live, Sockets
  <1> QED BY <1>1, <1>2 DEF Served, ConnectedIsServed, NotOpened

\* A connection that opens gets a handler of its own.
LEMMA OpenServed ==
    ASSUME IInv, Served, NEW c \in Clients, Open(c)
    PROVE  Served' /\ task' = task
  <1> DEFINE new == <<c, links[c] + 1>>
  <1>1. /\ socket \in [Clients -> Sockets \cup {NoSocket}] /\ links \in [Clients -> 0..MaxLinks]
        /\ stage \in [Sockets -> Stage] /\ links[c] < MaxLinks /\ task' = task
    BY DEF IInv, TypeOK, Open
  <1>2. /\ \A d \in Clients : links'[d] = IF d = c THEN links[c] + 1 ELSE links[d]
        /\ \A d \in Clients : socket'[d] = IF d = c THEN new ELSE socket[d]
        /\ \A k \in Sockets : stage'[k] = IF k = new THEN "accepted" ELSE stage[k]
    BY <1>1 DEF Open
  <1>3. \A k \in Sockets : Owner(k) \in Clients /\ k[2] \in Nat /\ (k = new => k[1] = c /\ k[2] = links[c] + 1)
    BY DEF Sockets, Owner
  <1>4. new \in Sockets /\ stage[new] = "closed"
    <2>1. new \in Sockets
      BY <1>1, ConstantsOK DEF Sockets
    <2>2. new[2] > links[Owner(new)]
      BY <1>1 DEF Owner
    <2> HIDE DEF new
    <2> QED BY <2>1, <2>2 DEF Served, NotOpened
  <1>5. ConnectedIsServed'
    <2> HIDE DEF new
    <2>1. ASSUME NEW k \in Sockets, Live(k)' PROVE stage'[k] # "closed"
      BY <1>2, <1>3, <2>1 DEF Live, Served, ConnectedIsServed
    <2>2. ASSUME NEW k \in Sockets, task'[k].at # "idle" PROVE stage'[k] = "serving"
      BY <1>1, <1>2, <1>4, <2>2 DEF Served, ConnectedIsServed
    <2> QED BY <2>1, <2>2 DEF ConnectedIsServed
  <1>6. NotOpened'
    <2>1. ASSUME NEW k \in Sockets, k[2] > links'[Owner(k)] PROVE stage'[k] = "closed"
      <3>1. links[Owner(k)] \in Nat /\ k[2] > links[Owner(k)]
        BY <1>1, <1>2, <1>3, <2>1
      <3>2. k # new
        BY <1>1, <1>2, <1>3, <2>1 DEF Owner
      <3> HIDE DEF new
      <3> QED BY <1>2, <3>1, <3>2 DEF Served, NotOpened
    <2> QED BY <2>1 DEF NotOpened
  <1> QED BY <1>1, <1>5, <1>6 DEF Served

\* A process that dies takes its handlers and their connections with it.
LEMMA CrashServed ==
    ASSUME IInv, Served, NEW w \in Workers, Crash(w)
    PROVE  Served' /\ \A k \in Sockets : Live(k)' => task'[k] = task[k]
  <1>1. /\ \A k \in Sockets : stage'[k] = IF host[k] = w THEN "closed" ELSE stage[k]
        /\ \A k \in Sockets : task'[k] = IF host[k] = w THEN Idle ELSE task[k]
        /\ \A c \in Clients : socket'[c] \in {NoSocket, socket[c]}
        /\ \A c \in Clients : socket[c] \in Sockets /\ host[socket[c]] = w => socket'[c] = NoSocket
        /\ links' = links
    BY DEF Crash
  <1>2. \A k \in Sockets : Owner(k) \in Clients /\ k # NoSocket
    BY ConstantsOK DEF Sockets, Owner
  <1>3. \A k \in Sockets : Live(k)' => Live(k) /\ host[k] # w
    BY <1>1, <1>2 DEF Live
  <1> QED BY <1>1, <1>3 DEF Served, ConnectedIsServed, NotOpened, Idle

\* Every step keeps it, and brings nobody further from an answer.
LEMMA NextServed == IInv /\ Served /\ [Next]_vars => Served' /\ [Approaches]_vars
  <1> SUFFICES ASSUME IInv, Served, [Next]_vars PROVE Served' /\ (UNCHANGED vars \/ Approaches)
    OBVIOUS
  <1>1. ASSUME NEW k \in Sockets, Serve(k) PROVE Served'
    BY <1>1, ServeGoesOn DEF Served, ConnectedIsServed, NotOpened, Live
  <1>2. ASSUME UNCHANGED <<stage, task, links>>,
               \A c \in Clients : socket'[c] \in {NoSocket, socket[c]}
        PROVE  Served'
    <2>1. \A k \in Sockets : Owner(k) \in Clients /\ k # NoSocket
      BY ConstantsOK DEF Sockets, Owner
    <2> QED BY <1>2, <2>1 DEF Served, ConnectedIsServed, NotOpened, Live
  <1>3. ASSUME NEW c \in Clients, Type(c) \/ Flush(c) \/ Handle(c) \/ Stall(c) \/ Drop(c)
        PROVE  Served' /\ task' = task
    <2>1. UNCHANGED <<stage, task, links>> /\ \A d \in Clients : socket'[d] \in {NoSocket, socket[d]}
      BY <1>3 DEF Type, Flush, Handle, Stall, Drop, server, IInv, TypeOK
    <2> QED BY <1>2, <2>1
  <1>4. ASSUME NEW w \in Workers, Listen(w) \/ Replay(w) PROVE Served' /\ task' = task
    <2>1. UNCHANGED <<stage, task, links, socket>>
      BY <1>4 DEF Listen, Replay, client
    <2> QED BY <1>2, <2>1
  <1>5. ASSUME RestWrite PROVE Served' /\ task' = task
    <2>1. UNCHANGED <<stage, task, links, socket>>
      BY <1>5 DEF RestWrite, client
    <2> QED BY <1>2, <2>1
  <1>6. ASSUME UNCHANGED vars PROVE Served'
    <2>1. UNCHANGED <<stage, task, links, socket>>
      BY <1>6 DEF vars
    <2> QED BY <1>2, <2>1
  <1>7. ASSUME Next
        PROVE  Served' /\ \A k \in Sockets : task[k].at # "idle" /\ Live(k)' =>
                             task'[k] = task[k] \/ GoesOn(task[k], task'[k])
    <2>1. ASSUME NEW k \in Sockets, Serve(k)
          PROVE  Served' /\ \A x \in Sockets : task[x].at # "idle" =>
                               task'[x] = task[x] \/ GoesOn(task[x], task'[x])
      BY <1>1, <2>1, ServeGoesOn
    <2>2. ASSUME NEW w \in Workers, Crash(w)
          PROVE  Served' /\ \A k \in Sockets : Live(k)' => task'[k] = task[k]
      BY <2>2, CrashServed
    <2>3. ASSUME NEW c \in Clients, Open(c) PROVE Served' /\ task' = task
      BY <2>3, OpenServed
    <2>4. CASE RestWrite
      BY <1>5, <2>4
    <2> QED BY <1>3, <1>4, <1>7, <2>1, <2>2, <2>3, <2>4 DEF Next
  <1>8. \A k \in Sockets : task[k].at # "idle" /\ Serve(k) => GoesOn(task[k], task'[k])
    BY ServeGoesOn
  <1> QED BY <1>6, <1>7, <1>8 DEF Approaches

\* The invariant of the handlers.
LEMMA ServedInvariance == Spec => []Served
  <1> QED BY Invariance, InitServed, NextServed, PTL DEF Spec

\* Who is connected has a handler, and a busy handler has its client greeted, for any
\* number of editors, processes and reconnections (collaborate).
THEOREM ConnectedIsServedHolds == Spec => []ConnectedIsServed
  <1>1. Served => ConnectedIsServed
    BY DEF Served
  <1> QED BY <1>1, ServedInvariance, PTL

\* The measure behind SentSaveAnswered: a handler's steps lead to the answer, and nobody
\* else's step sets it back (_apply_update, _deliver_local).
THEOREM AnswerApproaches == Spec => [][Approaches]_vars
  <1> QED BY Invariance, ServedInvariance, NextServed, PTL DEF Spec

-----------------------------------------------------------------------------
(***************************************************************************)
(* The roster of who is in the room, for any number of sockets and any     *)
(* time to live.  It is a component of its own, kept by the same hub.      *)
(***************************************************************************)

\* The step of the handler of one socket.
Handles(c) ==
    \/ JoinRoster(c) \/ Ping(c) \/ Record(c) \/ Renew(c) \/ RecordFails(c)
    \/ Evict(c) \/ LeaveRoster(c) \/ LeaveRosterFails(c) \/ Die(c)

\* A key outlives what is left of the time of whoever recorded itself last.
Lasts == \A c \in Conns : hash # {} /\ age[c] < Ttl => left + age[c] >= Ttl

\* A socket in its room that recorded itself within the last Ttl beats is on the
\* roster, unless the key went under its hands.
Shown ==
    \A c \in Conns : Attached(c) /\ c \notin evicted \cup slipped /\ age[c] < Ttl => c \in hash

\* So is one that is between its two commands.
Halfway == \A c \in Conns : at[c] = "expire" /\ c \notin evicted \cup slipped => c \in hash

\* The second half of RosterFollowsSockets.
Cleared == \A c \in Conns : at[c] = "gone" /\ c \notin stuck => c \notin hash

\* A socket that never pinged was never recorded.
Unopened == \A c \in Conns : at[c] = "new" => age[c] = Ttl

\* A key without an expiry has a handler on its way to setting it, unless an expiry was
\* lost.
RosterExpires == left = Never => lost \/ \E c \in Conns : at[c] = "expire"

RosterIInv == RosterTypeOK /\ Lasts /\ Shown /\ Halfway /\ Cleared /\ Unopened /\ RosterExpires

\* The roster begins empty: nobody is there.
LEMMA RosterInitHolds == ASSUME RosterInit PROVE RosterIInv
<1> USE RosterConstantsOK
<1>1. RosterTypeOK
  <2>1. at \in [Conns -> {"new", "set", "expire", "in", "gone", "dead"}] BY DEF RosterInit
  <2>2. age \in [Conns -> 0..Ttl]
    <3>1. Ttl \in 0..Ttl OBVIOUS
    <3>2. QED BY <3>1 DEF RosterInit
  <2>3. left \in 0..Never /\ (hash = {} => left = 0) BY DEF RosterInit, Never
  <2>4. QED BY <2>1, <2>2, <2>3 DEF RosterInit, RosterTypeOK
<1>2. Lasts /\ Shown /\ Halfway /\ Cleared /\ Unopened
  BY DEF RosterInit, Lasts, Shown, Halfway, Cleared, Unopened, Attached
<1>3. RosterExpires BY DEF RosterInit, Never, RosterExpires
<1>4. QED BY <1>1, <1>2, <1>3 DEF RosterIInv

\* The step of one handler keeps the types of the roster.
LEMMA HandlerTypes == ASSUME RosterTypeOK, NEW c \in Conns, Handles(c) PROVE RosterTypeOK'
<1> USE RosterConstantsOK DEF RosterTypeOK, Move, End, Never, key
<1>1. CASE JoinRoster(c) BY <1>1 DEF JoinRoster
<1>2. CASE Ping(c) BY <1>2 DEF Ping
<1>3. CASE Record(c) BY <1>3 DEF Record
<1>4. CASE Renew(c) BY <1>4 DEF Renew, Renewed
<1>5. CASE RecordFails(c) BY <1>5 DEF RecordFails
<1>6. CASE Evict(c) BY <1>6 DEF Evict, Without
<1>7. CASE LeaveRoster(c) BY <1>7 DEF LeaveRoster, Without
<1>8. CASE LeaveRosterFails(c) BY <1>8 DEF LeaveRosterFails
<1>9. CASE Die(c) BY <1>9 DEF Die
<1>10. QED BY <1>1, <1>2, <1>3, <1>4, <1>5, <1>6, <1>7, <1>8, <1>9 DEF Handles

\* So does time.
LEMMA BeatTypes == ASSUME RosterTypeOK, Beat \/ Lapse PROVE RosterTypeOK'
<1>1. CASE Beat BY <1>1, RosterConstantsOK DEF RosterTypeOK, Beat, Never
<1>2. CASE Lapse BY <1>2 DEF RosterTypeOK, Lapse
<1>3. QED BY <1>1, <1>2

\* The step of one handler keeps what is promised of every socket.
LEMMA HandlerKeeps ==
    ASSUME RosterIInv, RosterTypeOK', NEW c \in Conns, Handles(c)
    PROVE  Lasts' /\ Shown' /\ Halfway' /\ Cleared' /\ Unopened'
<1> USE RosterConstantsOK DEF RosterIInv, RosterTypeOK, Lasts, Shown, Halfway, Cleared, Unopened,
            Attached, Move, End, Never, key
<1>1. CASE JoinRoster(c) BY <1>1 DEF JoinRoster
<1>2. CASE Ping(c) BY <1>2 DEF Ping
<1>3. CASE Record(c) BY <1>3 DEF Record
<1>4. CASE Renew(c) BY <1>4 DEF Renew, Renewed
<1>5. CASE RecordFails(c) BY <1>5 DEF RecordFails
<1>6. CASE Evict(c) BY <1>6 DEF Evict, Without
<1>7. CASE LeaveRoster(c) BY <1>7 DEF LeaveRoster, Without
<1>8. CASE LeaveRosterFails(c) BY <1>8 DEF LeaveRosterFails
<1>9. CASE Die(c) BY <1>9 DEF Die
<1>10. QED BY <1>1, <1>2, <1>3, <1>4, <1>5, <1>6, <1>7, <1>8, <1>9 DEF Handles

\* A handler that writes the first field goes on to set the expiry, or loses it.
LEMMA HandlerExpires ==
    ASSUME RosterIInv, NEW c \in Conns, Handles(c) PROVE RosterExpires'
<1> USE RosterConstantsOK DEF RosterIInv, RosterTypeOK, RosterExpires, Move, End, Never, key
<1>1. CASE JoinRoster(c) BY <1>1 DEF JoinRoster
<1>2. CASE Ping(c) BY <1>2 DEF Ping
<1>3. CASE Record(c) BY <1>3 DEF Record
<1>4. CASE Renew(c) BY <1>4 DEF Renew, Renewed
<1>5. CASE RecordFails(c) BY <1>5 DEF RecordFails
<1>6. CASE Evict(c) BY <1>6 DEF Evict, Without
<1>7. CASE LeaveRoster(c) BY <1>7 DEF LeaveRoster, Without
<1>8. CASE LeaveRosterFails(c) BY <1>8 DEF LeaveRosterFails
<1>9. CASE Die(c) BY <1>9 DEF Die
<1>10. QED BY <1>1, <1>2, <1>3, <1>4, <1>5, <1>6, <1>7, <1>8, <1>9 DEF Handles

\* So does a beat: everybody loses one beat of his time, the key one of its own.
LEMMA BeatKeeps == ASSUME RosterIInv, RosterTypeOK', Beat PROVE RosterIInv'
<1> USE RosterConstantsOK DEF RosterIInv, RosterTypeOK, Beat
<1>1. Lasts' BY DEF Lasts, Never
<1>2. Shown' BY DEF Shown, Attached
<1>3. Halfway' /\ Cleared' BY DEF Halfway, Cleared
<1>4. Unopened' BY DEF Unopened
<1>5. RosterExpires' BY DEF RosterExpires, Never
<1>6. QED BY <1>1, <1>2, <1>3, <1>4, <1>5

\* When a key goes, nobody is left who was promised to be on it.
LEMMA LapseKeeps == ASSUME RosterIInv, RosterTypeOK', Lapse PROVE RosterIInv'
<1> USE RosterConstantsOK DEF RosterIInv, RosterTypeOK, Lapse
<1>1. \A c \in Conns : age[c] = Ttl BY DEF Lasts
<1>2. Lasts' /\ Shown' BY <1>1 DEF Lasts, Shown
<1>3. Halfway' /\ Cleared' BY DEF Halfway, Cleared
<1>4. Unopened' /\ RosterExpires' BY DEF Unopened, RosterExpires, Never
<1>5. QED BY <1>2, <1>3, <1>4

\* The inductive step of the roster.
LEMMA RosterNextHolds ==
    ASSUME RosterIInv, [RosterNext]_rosterVars PROVE RosterIInv'
<1>1. CASE Beat \/ Lapse
  <2>1. RosterTypeOK' BY <1>1, BeatTypes DEF RosterIInv
  <2>2. QED BY <1>1, <2>1, BeatKeeps, LapseKeeps
<1>2. ASSUME NEW c \in Conns, Handles(c) PROVE RosterIInv'
  <2>1. RosterTypeOK' BY <1>2, HandlerTypes DEF RosterIInv
  <2>2. QED BY <1>2, <2>1, HandlerKeeps, HandlerExpires DEF RosterIInv
<1>3. CASE UNCHANGED rosterVars
  BY <1>3 DEF RosterIInv, RosterTypeOK, Lasts, Shown, Halfway, Cleared, Unopened, RosterExpires,
              Attached, rosterVars
<1>4. QED BY <1>1, <1>2, <1>3 DEF RosterNext, Handles

\* Every reachable state of the roster satisfies the invariant.
LEMMA RosterInductive == RosterSpec => []RosterIInv
<1>1. RosterInit => RosterIInv BY RosterInitHolds
<1>2. RosterIInv /\ [RosterNext]_rosterVars => RosterIInv' BY RosterNextHolds
<1>3. QED BY <1>1, <1>2, PTL DEF RosterSpec

\* Every reachable state of the roster is well typed (touch_presence, leave).
THEOREM RosterTypeCorrect == RosterSpec => []RosterTypeOK
<1>1. RosterIInv => RosterTypeOK BY DEF RosterIInv
<1>2. QED BY <1>1, RosterInductive, PTL

\* A socket that pings is on the roster whatever the others do, unless the key went
\* between its two commands, and one that left is not (touch_presence, leave).
THEOREM RosterFollowsSocketsHolds == RosterSpec => []RosterFollowsSockets
<1>1. RosterIInv => RosterFollowsSockets
  BY DEF RosterIInv, RosterTypeOK, Shown, Cleared, RosterFollowsSockets, Attached
<1>2. QED BY <1>1, RosterInductive, PTL

\* A key without an expiry has somebody on the way to setting one, unless one was lost,
\* for any number of sockets and any time to live: a ghost does not stay by an oversight
\* (_record_presence, PRESENCE_TTL_SECONDS).
THEOREM RosterExpiresHolds == RosterSpec => []RosterExpires
<1>1. RosterIInv => RosterExpires BY DEF RosterIInv
<1>2. QED BY <1>1, RosterInductive, PTL
=============================================================================
