----------------------------- MODULE CollabSync -----------------------------
(***************************************************************************)
(* One document edited live: the collaboration sockets of one project, the *)
(* rooms and the bus that carry saves between them, and the client hook at *)
(* the other end of each socket.                                           *)
(*                                                                         *)
(* A document is the set of edits it contains, so that what a save leaves  *)
(* out can be seen.  A socket is named by its client and the number of the *)
(* attempt that opened it; both its directions are FIFO.  The commit of a  *)
(* save is one step here: ProjectDoc has its lock and its interleavings.   *)
(*                                                                         *)
(* A client may stop reading without its connection going down.  A send to *)
(* it then does not come back: nothing on the server limits how long.      *)
(***************************************************************************)
EXTENDS Naturals, Sequences

CONSTANTS Clients,     \* open editors (tabs)
          Http,        \* the author of what is written over REST
          Workers,     \* server processes
          NoSocket,    \* a client that is not connected
          NoHost,      \* a socket that is not open
          NoBase,      \* pendingBaseRef when it is null
          MaxLinks,    \* bound on the sockets a client opens
          MaxEdits,    \* bound on the edits made
          Typists,     \* bound: who makes edits
          Sleepers,    \* bound: who opens one socket only, may stop reading and may go for good
          EarlyTyping, \* bound: whether somebody types before the first hello
          RestWriters, \* bound: whether REST saves and restores happen
          Crashes      \* bound: whether a server process may die

ASSUME ConstantsOK ==
    /\ Http \notin Clients
    /\ NoSocket \notin Clients \X (1..MaxLinks)
    /\ NoBase \notin Nat
    /\ NoHost \notin Workers
    /\ MaxLinks \in Nat \ {0}
    /\ MaxEdits \in Nat
    /\ Typists \subseteq Clients /\ Sleepers \subseteq Clients
    /\ {EarlyTyping, RestWriters, Crashes} \subseteq BOOLEAN

Sockets == Clients \X (1..MaxLinks)
Owner(k) == k[1]
Docs == SUBSET (1..MaxEdits)

\* What travels to a client. An ack has no document; `sent` is the base a
\* conflict refuses.
Frame == [kind: {"none", "hello", "updated", "ack", "conflict"},
          ver: Nat, doc: Docs, sent: Nat]
Blank == [kind |-> "none", ver |-> 0, doc |-> {}, sent |-> 0]

\* What travels to the server.
Update == [doc: Docs, base: Nat]

\* Where a socket's handler is.
Stage == {"closed", "accepted", "resolved", "added", "joined", "serving"}
Task == [at: {"idle", "refused", "committed", "read", "fanout", "ack"},
         frame: Frame, todo: SUBSET Sockets]
Idle == [at |-> "idle", frame |-> Blank, todo |-> {}]
Relay == [frame: Frame, todo: SUBSET Sockets]
NoRelay == [frame |-> Blank, todo |-> {}]

VARIABLES revisions,  \* revisions[v]: the committed write that made doc_version v
          edits,      \* how many edits have been made
          stage,      \* stage[k]: how far the handler of socket k has come
          greeting,   \* greeting[k]: the row resolve_access read for hello
          task,       \* task[k]: what _apply_update is doing on socket k
          up, down,   \* frames on their way from and to the client of socket k
          host,       \* host[k]: the process socket k was balanced to, while it serves it
          subscribed, \* processes subscribed to this project's channel
          bus,        \* bus[w]: frames published to process w, not taken yet
          relay,      \* relay[w]: the frame w's listener is delivering
          socket,     \* socketRef of each client, once open
          links,      \* how many sockets each client has opened
          screen,     \* the document each client shows
          known,      \* docVersionRef
          pending,    \* pendingDocRef: the document queued, if any
          pbase,      \* pendingBaseRef
          stalled,    \* connected sockets whose client reads no more
          astray      \* history: clients whose next base may not be of what they show

server == <<revisions, stage, greeting, task, host, subscribed, bus, relay>>
client == <<socket, links, screen, known, pending, pbase, stalled, astray>>
vars == <<revisions, edits, stage, greeting, task, up, down, host, subscribed, bus, relay,
          socket, links, screen, known, pending, pbase, stalled, astray>>

Revision == [doc: Docs, by: Clients \cup {Http}, base: Nat \cup {NoBase}]

Newest == Len(revisions)
Current(kind) ==
    [kind |-> kind, ver |-> Newest, doc |-> revisions[Newest].doc, sent |-> 0]

\* Well-typed states.
TypeOK ==
    /\ revisions \in Seq(Revision) /\ revisions # <<>>
    /\ edits \in 0..MaxEdits
    /\ stage \in [Sockets -> Stage]
    /\ greeting \in [Sockets -> Frame]
    /\ task \in [Sockets -> Task]
    /\ up \in [Sockets -> Seq(Update)]
    /\ down \in [Sockets -> Seq(Frame)]
    /\ host \in [Sockets -> Workers \cup {NoHost}]
    /\ subscribed \subseteq Workers
    /\ bus \in [Workers -> Seq(Frame)]
    /\ relay \in [Workers -> Relay]
    /\ socket \in [Clients -> Sockets \cup {NoSocket}]
    /\ links \in [Clients -> 0..MaxLinks]
    /\ screen \in [Clients -> Docs]
    /\ known \in [Clients -> Nat]
    /\ pending \in [Clients -> SUBSET Docs]
    /\ pbase \in [Clients -> Nat \cup {NoBase}]
    /\ stalled \subseteq Sockets
    /\ astray \subseteq Clients

\* Every editor has loaded version 1 over REST and has no socket yet.
Init ==
    /\ revisions = <<[doc |-> {}, by |-> Http, base |-> NoBase]>>
    /\ edits = 0
    /\ stage = [k \in Sockets |-> "closed"]
    /\ greeting = [k \in Sockets |-> Blank]
    /\ task = [k \in Sockets |-> Idle]
    /\ up = [k \in Sockets |-> <<>>]
    /\ down = [k \in Sockets |-> <<>>]
    /\ host = [k \in Sockets |-> NoHost]
    /\ subscribed = {}
    /\ bus = [w \in Workers |-> <<>>]
    /\ relay = [w \in Workers |-> NoRelay]
    /\ socket = [c \in Clients |-> NoSocket]
    /\ links = [c \in Clients |-> 0]
    /\ screen = [c \in Clients |-> {}]
    /\ known = [c \in Clients |-> 0]
    /\ pending = [c \in Clients |-> {}]
    /\ pbase = [c \in Clients |-> NoBase]
    /\ stalled = {}
    /\ astray = {}

Live(k) == socket[Owner(k)] = k

\* A send to a client whose socket is gone returns False and goes nowhere; one to a
\* client that does not read is never over, and its caller waits.
Sent(k, frame) == IF Live(k) THEN [down EXCEPT ![k] = Append(@, frame)] ELSE down

Room(w) == {k \in Sockets : host[k] = w /\ stage[k] \in {"added", "joined", "serving"}}

-----------------------------------------------------------------------------
(* The server: collaborate, _apply_update and the hub. *)

\* The handshake reads the row; the greeting is built from it much later.
Resolve(k) ==
    /\ stage[k] = "accepted"
    /\ stage' = [stage EXCEPT ![k] = "resolved"]
    /\ greeting' = [greeting EXCEPT ![k] = Current("hello")]
    /\ UNCHANGED <<revisions, edits, task, up, down, host, subscribed, bus, relay, client>>

\* hub.join: the socket is in the room from here. The first one in a room sees
\* to the subscription, and only then goes on.
Join(k) ==
    /\ stage[k] = "resolved"
    /\ stage' = [stage EXCEPT ![k] = IF Room(host[k]) = {} THEN "added" ELSE "joined"]
    /\ UNCHANGED <<revisions, edits, greeting, task, up, down, host, subscribed, bus, relay, client>>

Subscribe(k) ==
    /\ stage[k] = "added"
    /\ stage' = [stage EXCEPT ![k] = "joined"]
    /\ subscribed' = subscribed \cup {host[k]}
    /\ UNCHANGED <<revisions, edits, greeting, task, up, down, host, bus, relay, client>>

\* Before the greeting, join tells everybody else in the room.
Greet(k) ==
    /\ stage[k] = "joined"
    /\ Room(host[k]) \cap stalled = {} /\ k \notin stalled
    /\ stage' = [stage EXCEPT ![k] = "serving"]
    /\ down' = Sent(k, greeting[k])
    /\ UNCHANGED <<revisions, edits, greeting, task, up, host, subscribed, bus, relay, client>>

\* save_doc under the row lock: commit, or refuse a base that is not the newest
\* version and roll back.
Receive(k) ==
    /\ stage[k] = "serving" /\ task[k].at = "idle" /\ up[k] # <<>>
    /\ up' = [up EXCEPT ![k] = Tail(@)]
    /\ LET u == Head(up[k]) IN
       \/ /\ u.base = Newest
          /\ revisions' = Append(revisions, [doc |-> u.doc, by |-> Owner(k), base |-> u.base])
          /\ task' = [task EXCEPT ![k] = [Idle EXCEPT !.at = "committed"]]
       \/ /\ u.base # Newest
          /\ task' = [task EXCEPT ![k] =
                [at |-> "refused", frame |-> [Blank EXCEPT !.sent = u.base], todo |-> {}]]
          /\ UNCHANGED revisions
    /\ UNCHANGED <<edits, stage, greeting, down, host, subscribed, bus, relay, client>>

\* Mutant of Conflict: the document handed back is the one the handshake read.
ConflictFromGreeting(k) ==
    /\ task[k].at = "refused"
    /\ k \notin stalled
    /\ task' = [task EXCEPT ![k] = Idle]
    /\ down' = Sent(k, [greeting[k] EXCEPT !.kind = "conflict", !.sent = task[k].frame.sent])
    /\ UNCHANGED <<revisions, edits, stage, greeting, up, host, subscribed, bus, relay, client>>

\* After the rollback: read the row again and send it with the refusal.
Conflict(k) ==
    /\ task[k].at = "refused"
    /\ k \notin stalled
    /\ task' = [task EXCEPT ![k] = Idle]
    /\ down' = Sent(k, [Current("conflict") EXCEPT !.sent = task[k].frame.sent])
    /\ UNCHANGED <<revisions, edits, stage, greeting, up, host, subscribed, bus, relay, client>>

\* Mutants of Refresh: the increment is added to a row that already has it; the
\* payload takes the document the handshake read.
RefreshAhead(k) ==
    /\ task[k].at = "committed"
    /\ task' = [task EXCEPT ![k].at = "read", ![k].frame = [Current("updated") EXCEPT !.ver = @ + 1]]
    /\ UNCHANGED <<revisions, edits, stage, greeting, up, down, host, subscribed, bus, relay, client>>

RefreshOldDoc(k) ==
    /\ task[k].at = "committed"
    /\ task' = [task EXCEPT ![k].at = "read",
                            ![k].frame = [Current("updated") EXCEPT !.doc = greeting[k].doc]]
    /\ UNCHANGED <<revisions, edits, stage, greeting, up, down, host, subscribed, bus, relay, client>>

\* save_doc ends with db.refresh, after the commit: the payload and the ack are
\* made of the row as it is then.
Refresh(k) ==
    /\ task[k].at = "committed"
    /\ task' = [task EXCEPT ![k].at = "read", ![k].frame = Current("updated")]
    /\ UNCHANGED <<revisions, edits, stage, greeting, up, down, host, subscribed, bus, relay, client>>

\* _deliver_local: list the room, then send to one after the other.
Broadcast(k) ==
    /\ task[k].at = "read"
    /\ task' = [task EXCEPT ![k].at = "fanout", ![k].todo = Room(host[k]) \ {k}]
    /\ UNCHANGED <<revisions, edits, stage, greeting, up, down, host, subscribed, bus, relay, client>>

\* Mutant of Deliver: a send to a dead socket is not given up.
DeliverLiveOnly(k) ==
    /\ task[k].at = "fanout"
    /\ \E j \in task[k].todo :
        /\ Live(j) /\ j \notin stalled
        /\ task' = [task EXCEPT ![k].todo = @ \ {j}]
        /\ down' = Sent(j, task[k].frame)
    /\ UNCHANGED <<revisions, edits, stage, greeting, up, host, subscribed, bus, relay, client>>

Deliver(k) ==
    /\ task[k].at = "fanout"
    /\ \E j \in task[k].todo \ stalled :
        /\ task' = [task EXCEPT ![k].todo = @ \ {j}]
        /\ down' = Sent(j, task[k].frame)
    /\ UNCHANGED <<revisions, edits, stage, greeting, up, host, subscribed, bus, relay, client>>

\* _publish: every other subscribed process gets it, or Redis is down.
Publish(k) ==
    /\ task[k].at = "fanout" /\ task[k].todo = {}
    /\ task' = [task EXCEPT ![k].at = "ack"]
    /\ \/ bus' = [w \in Workers |->
                    IF w \in subscribed \ {host[k]} THEN Append(bus[w], task[k].frame) ELSE bus[w]]
       \/ UNCHANGED bus
    /\ UNCHANGED <<revisions, edits, stage, greeting, up, down, host, subscribed, relay, client>>

Ack(k) ==
    /\ task[k].at = "ack"
    /\ k \notin stalled
    /\ task' = [task EXCEPT ![k] = Idle]
    /\ down' = Sent(k, [Blank EXCEPT !.kind = "ack", !.ver = task[k].frame.ver])
    /\ UNCHANGED <<revisions, edits, stage, greeting, up, host, subscribed, bus, relay, client>>

\* _listen, one message at a time.
Listen(w) ==
    /\ relay[w].frame = Blank /\ bus[w] # <<>>
    /\ relay' = [relay EXCEPT ![w] = [frame |-> Head(bus[w]), todo |-> Room(w)]]
    /\ bus' = [bus EXCEPT ![w] = Tail(@)]
    /\ UNCHANGED <<revisions, edits, stage, greeting, task, up, down, host, subscribed, client>>

Replay(w) ==
    /\ relay[w].frame # Blank
    /\ \/ /\ relay[w].todo = {}
          /\ relay' = [relay EXCEPT ![w] = NoRelay]
          /\ UNCHANGED down
       \/ \E j \in relay[w].todo \ stalled :
          /\ relay' = [relay EXCEPT ![w].todo = @ \ {j}]
          /\ down' = Sent(j, relay[w].frame)
    /\ UNCHANGED <<revisions, edits, stage, greeting, task, up, host, subscribed, bus, client>>

\* hub.leave, once the handler has read what had arrived and finds its client
\* gone, wherever in the handshake it is.
Leave(k) ==
    /\ ~Live(k)
    /\ stage[k] # "closed" /\ task[k].at = "idle"
    /\ stage[k] = "serving" => up[k] = <<>>
    /\ stage' = [stage EXCEPT ![k] = "closed"]
    /\ greeting' = [greeting EXCEPT ![k] = Blank]
    /\ host' = [host EXCEPT ![k] = NoHost]
    /\ up' = [up EXCEPT ![k] = <<>>]
    /\ UNCHANGED <<revisions, edits, task, down, subscribed, bus, relay, client>>

\* What is written over REST, which no socket is told of: a save that names the newest
\* version, a save of anything older that names none, a restore of an older document.
RestWrite ==
    /\ RestWriters
    /\ edits < MaxEdits
    /\ edits' = edits + 1
    /\ \E v \in 1..Newest : \E doc \in {revisions[v].doc, revisions[v].doc \cup {edits + 1}} :
          \E base \in {NoBase, Newest} :
             /\ base = Newest => v = Newest /\ doc # revisions[v].doc
             /\ revisions' = Append(revisions, [doc |-> doc, by |-> Http, base |-> base])
    /\ UNCHANGED <<stage, greeting, task, up, down, host, subscribed, bus, relay, client>>

-----------------------------------------------------------------------------
(* The client: useCollaboration, and an editor that does what its guide says. *)

Open(c) ==
    /\ socket[c] = NoSocket
    /\ links[c] < MaxLinks /\ (c \in Sleepers => links[c] = 0)
    /\ links' = [links EXCEPT ![c] = @ + 1]
    /\ socket' = [socket EXCEPT ![c] = <<c, links[c] + 1>>]
    /\ stage' = [stage EXCEPT ![<<c, links[c] + 1>>] = "accepted"]
    /\ \E w \in Workers : host' = [host EXCEPT ![<<c, links[c] + 1>>] = w]
    /\ UNCHANGED <<revisions, edits, greeting, task, up, down, subscribed, bus, relay,
                   screen, known, pending, pbase, stalled, astray>>

\* sendDoc: the newest document waits for the debounce timer; the base is the
\* version known when the first of them was queued.
Queued(c, doc) ==
    /\ pending' = [pending EXCEPT ![c] = {doc}]
    /\ pbase' = [pbase EXCEPT ![c] =
                    IF @ = NoBase /\ known[c] # 0 THEN known[c] ELSE @]

Type(c) ==
    /\ c \in Typists /\ edits < MaxEdits
    /\ known[c] = 0 => EarlyTyping
    /\ edits' = edits + 1
    /\ screen' = [screen EXCEPT ![c] = @ \cup {edits + 1}]
    /\ Queued(c, screen[c] \cup {edits + 1})
    /\ astray' = IF known[c] = 0 THEN astray \cup {c} ELSE astray
    /\ UNCHANGED <<up, down, server, socket, links, known, stalled>>

\* Mutant of BaseOf: a pending base that is null is sent as it is.
BaseOrNull(c, v) == pbase[c]

\* Mutant of BaseOf: a save names the version known when it leaves.
BaseNow(c, v) == v

\* The base flushDoc names, when docVersionRef is v.
BaseOf(c, v) == IF pbase[c] = NoBase THEN v ELSE pbase[c]

\* flushDoc on an open socket, when docVersionRef is v.
FlushAt(c, v) ==
    /\ \E doc \in pending[c] :
          up' = [up EXCEPT ![socket[c]] = Append(@, [doc |-> doc, base |-> BaseOf(c, v)])]
    /\ pending' = [pending EXCEPT ![c] = {}]
    /\ pbase' = [pbase EXCEPT ![c] = NoBase]

\* The debounce timer. On a socket that is down the save stays queued.
Flush(c) ==
    /\ pending[c] # {}
    /\ socket[c] # NoSocket
    /\ FlushAt(c, known[c])
    /\ UNCHANGED <<edits, down, server, socket, links, screen, known, stalled, astray>>

\* What hello does with a save queued before it: send it, or drop it when it was
\* made from a version the server has moved past.
SettlePending(c, v) ==
    \/ pending[c] = {} /\ UNCHANGED <<up, pending, pbase>>
    \/ /\ pending[c] # {}
       /\ pbase[c] \in {NoBase, v}
       /\ FlushAt(c, v)
    \/ /\ pending[c] # {}
       /\ pbase[c] \notin {NoBase, v}
       /\ pending' = [pending EXCEPT ![c] = {}]
       /\ pbase' = [pbase EXCEPT ![c] = NoBase]
       /\ UNCHANGED up

\* Whom a frame leads astray: a client with an ack of what it does not show, and one
\* that shows a document older than the base of the save it has queued.
Astray(c, f) ==
    CASE f.kind = "ack" /\ ~(revisions[f.ver].doc \subseteq screen[c]) -> astray \cup {c}
      [] f.kind # "ack" /\ (f.kind = "hello" \/ pending[c] = {}) -> astray \ {c}
      [] f.kind # "ack" /\ f.kind # "hello" /\ pending[c] # {}
            /\ pbase[c] # NoBase /\ f.ver < pbase[c] -> astray \cup {c}
      [] OTHER -> astray

\* handleMessage. Every frame sets docVersionRef; the editor shows the document
\* of every frame that has one.
Handle(c) ==
    /\ socket[c] # NoSocket /\ socket[c] \notin stalled
    /\ down[socket[c]] # <<>>
    /\ LET f == Head(down[socket[c]]) IN
       /\ known' = [known EXCEPT ![c] = f.ver]
       /\ screen' = IF f.kind = "ack" THEN screen ELSE [screen EXCEPT ![c] = f.doc]
       /\ IF f.kind = "hello" THEN SettlePending(c, f.ver) ELSE UNCHANGED <<up, pending, pbase>>
       /\ astray' = Astray(c, f)
    /\ down' = [down EXCEPT ![socket[c]] = Tail(@)]
    /\ UNCHANGED <<edits, server, socket, links, stalled>>

\* The client's end of socket k is gone: what was on its way to it is lost, and
\* of what it had sent a tail may be.
Cut(k) ==
    /\ down' = [down EXCEPT ![k] = <<>>]
    /\ \E n \in 0..Len(up[k]) : up' = [up EXCEPT ![k] = SubSeq(@, 1, n)]

\* A browser that has stopped, with its connection up.
Stall(c) ==
    /\ c \in Sleepers /\ socket[c] # NoSocket
    /\ stalled' = stalled \cup {socket[c]}
    /\ UNCHANGED <<edits, up, down, server, socket, links, screen, known, pending, pbase, astray>>

\* The network drops the socket; the hook will open another.
Drop(c) ==
    /\ socket[c] # NoSocket
    /\ links[c] < MaxLinks \/ c \in Sleepers
    /\ Cut(socket[c])
    /\ socket' = [socket EXCEPT ![c] = NoSocket]
    /\ stalled' = stalled \ {socket[c]}
    /\ UNCHANGED <<edits, server, links, screen, known, pending, pbase, astray>>

\* A server process dies: its rooms, handlers and subscription go with it.
Crash(w) ==
    LET gone == {k \in Sockets : host[k] = w} IN
    /\ Crashes
    /\ \A c \in Clients \ Sleepers : socket[c] \in gone => links[c] < MaxLinks
    /\ gone # {}
    /\ stage' = [k \in Sockets |-> IF k \in gone THEN "closed" ELSE stage[k]]
    /\ greeting' = [k \in Sockets |-> IF k \in gone THEN Blank ELSE greeting[k]]
    /\ host' = [k \in Sockets |-> IF k \in gone THEN NoHost ELSE host[k]]
    /\ task' = [k \in Sockets |-> IF k \in gone THEN Idle ELSE task[k]]
    /\ up' = [k \in Sockets |-> IF k \in gone THEN <<>> ELSE up[k]]
    /\ down' = [k \in Sockets |-> IF k \in gone THEN <<>> ELSE down[k]]
    /\ socket' = [c \in Clients |-> IF socket[c] \in gone THEN NoSocket ELSE socket[c]]
    /\ subscribed' = subscribed \ {w}
    /\ bus' = [bus EXCEPT ![w] = <<>>]
    /\ relay' = [relay EXCEPT ![w] = NoRelay]
    /\ stalled' = stalled \ gone
    /\ UNCHANGED <<revisions, edits, links, screen, known, pending, pbase, astray>>

-----------------------------------------------------------------------------
\* What the handler of a socket does by itself.
Serve(k) ==
    \/ Resolve(k)
    \/ Join(k)
    \/ Subscribe(k)
    \/ Greet(k)
    \/ Receive(k)
    \/ Conflict(k)
    \/ Refresh(k)
    \/ Broadcast(k)
    \/ Deliver(k)
    \/ Publish(k)
    \/ Ack(k)
    \/ Leave(k)

Next ==
    \/ \E k \in Sockets : Serve(k)
    \/ \E w \in Workers : Listen(w) \/ Replay(w) \/ Crash(w)
    \/ \E c \in Clients : Open(c) \/ Type(c) \/ Flush(c) \/ Handle(c) \/ Stall(c) \/ Drop(c)
    \/ RestWrite

Spec == Init /\ [][Next]_vars

\* The event loop runs the handler that is ready. Nothing is asked of the listeners
\* and of the clients: nobody has to read, to type or to come back.
FairSpec == Spec /\ \A k \in Sockets : WF_vars(Serve(k))
-----------------------------------------------------------------------------
\* Every frame that has a document pairs it with the version it really had,
\* wherever the frame is: read for a greeting, being fanned out, on the bus or on
\* its way to a client (collaborate, _apply_update, _listen).
Truthful(f) ==
    f.kind \in {"hello", "updated", "conflict"} =>
        f.ver \in 1..Newest /\ f.doc = revisions[f.ver].doc

FramesTruthful ==
    /\ \A k \in Sockets :
        /\ Truthful(greeting[k])
        /\ Truthful(task[k].frame)
        /\ \A i \in 1..Len(down[k]) : Truthful(down[k][i])
    /\ \A w \in Workers :
        /\ Truthful(relay[w].frame)
        /\ \A i \in 1..Len(bus[w]) : Truthful(bus[w][i])

\* Nobody is told of, names or holds a version the server has not committed: what
\* a client sends is never ahead of the row it is compared with.
NoFutureVersion ==
    /\ \A k \in Sockets :
        /\ greeting[k].ver <= Newest
        /\ task[k].frame.ver <= Newest
        /\ task[k].at = "refused" => task[k].frame.sent < Newest
        /\ \A i \in 1..Len(up[k]) : up[k][i].base <= Newest
        /\ \A i \in 1..Len(down[k]) : down[k][i].ver <= Newest
    /\ \A w \in Workers :
        /\ relay[w].frame.ver <= Newest
        /\ \A i \in 1..Len(bus[w]) : bus[w][i].ver <= Newest
    /\ \A c \in Clients :
        /\ known[c] <= Newest
        /\ pbase[c] # NoBase => pbase[c] <= Newest

\* A refused save is answered with something newer than what it was refused for,
\* so a client that adopts it does not come back with the same base
\* (_apply_update, _current_doc).
ConflictIsNewer ==
    \A k \in Sockets : \A i \in 1..Len(down[k]) :
        down[k][i].kind = "conflict" => down[k][i].sent < down[k][i].ver

\* The handler of k waits for somebody who does not read: its own client, one it is to
\* tell of a save, or, before the greeting, anybody in its room.
Blocked(k) ==
    \/ k \in stalled
    \/ task[k].todo \cap stalled # {}
    \/ stage[k] = "joined" /\ Room(host[k]) \cap stalled # {}

\* A save that reaches the server is answered, unless its socket goes or, from some
\* moment on, the handler waits for a client that is connected and reads no more: no
\* dead recipient, conflict or slow fan-out holds it up for ever, and nothing else does
\* (_apply_update, _deliver_local, Connection.send).
SentSaveAnswered ==
    \A k \in Sockets :
        up[k] # <<>> \/ task[k].at # "idle" ~>
            (up[k] = <<>> /\ task[k].at = "idle") \/ ~Live(k) \/ []Blocked(k)

\* A save that can still be accepted contains the document it names, when it was queued
\* before a drop as well as when it is typed on a stale greeting, unless its client was
\* led astray: by an ack of something it does not show, by a frame older than its queued
\* save, or by typing before the first greeting (sendDoc, flushDoc, handleMessage).
SendsHaveSeenTheirBase ==
    [][\A c \in Clients \ astray : \A k \in Sockets :
          Owner(k) = c /\ Len(up'[k]) > Len(up[k]) =>
              LET u == up'[k][Len(up'[k])]
              IN  u.base = Newest => revisions[Newest].doc \subseteq u.doc]_vars

\* An accepted save contains the revision it claims to be based on: nobody's work,
\* the saver's own included, disappears without a conflict (ProjectDocSave,
\* pendingBaseRef).
SaveHasSeenItsBase ==
    \A v \in 2..Newest :
        revisions[v].base # NoBase =>
            revisions[revisions[v].base].doc \subseteq revisions[v].doc
=============================================================================
