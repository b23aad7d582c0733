------------------------------- MODULE Roster -------------------------------
(***************************************************************************)
(* Who is shown as being in a project: one Redis hash with a field for     *)
(* each editor socket.  A socket's own handler writes the field when it    *)
(* joins and at every ping, and deletes it when it ends; an eviction       *)
(* deletes it too.  The time to live belongs to the key, not to a field.   *)
(*                                                                         *)
(* Time passes in beats of the client's ping interval, whatever the        *)
(* handlers are doing.  A key that was given Ttl beats is due after as     *)
(* many, and goes at any moment of the beat that follows: also between the *)
(* two commands of somebody who is recording himself.                      *)
(***************************************************************************)
EXTENDS Naturals

CONSTANTS Conns, \* bound: the sockets ever opened, each on a worker of its own
          Ttl    \* PRESENCE_TTL_SECONDS, in whole ping intervals

ASSUME RosterConstantsOK == Ttl \in Nat \ {0}

Never == Ttl + 1 \* the key has no expiry

VARIABLES at,      \* at[c]: where the handler of c is
          evicted, \* the sockets taken out of their room whose handlers go on
          hash,    \* the fields of the key
          left,    \* the beats before the key is due; 0 also without a key
          age,     \* history: age[c]: the beats since c last recorded itself
          stuck,   \* history: the sockets whose field was not deleted at the end
          slipped, \* history: the sockets whose key went between HSET and EXPIRE
          lost     \* history: a field was written and the expiry was not

rosterVars == <<at, evicted, hash, left, age, stuck, slipped, lost>>
key == <<hash, left>>

RosterTypeOK ==
    /\ at \in [Conns -> {"new", "set", "expire", "in", "gone", "dead"}]
    /\ evicted \subseteq Conns /\ stuck \subseteq Conns /\ slipped \subseteq Conns
    /\ hash \subseteq Conns
    /\ left \in 0..Never /\ (hash = {} => left = 0)
    /\ age \in [Conns -> 0..Ttl]
    /\ lost \in BOOLEAN

RosterInit ==
    /\ at = [c \in Conns |-> "new"]
    /\ evicted = {} /\ stuck = {} /\ slipped = {}
    /\ hash = {} /\ left = 0
    /\ age = [c \in Conns |-> Ttl]
    /\ lost = FALSE

-----------------------------------------------------------------------------
Move(c, to) == at' = [at EXCEPT ![c] = to]

Attached(c) == at[c] \in {"set", "expire", "in"}

\* The handler is over: nothing more is promised of its socket.
End(c, how) ==
    /\ Move(c, how)
    /\ evicted' = evicted \ {c} /\ slipped' = slipped \ {c}
    /\ age' = [age EXCEPT ![c] = Ttl]

\* join and touch_presence begin to record.
JoinRoster(c) ==
    /\ at[c] = "new"
    /\ Move(c, "set")
    /\ UNCHANGED <<evicted, key, age, stuck, slipped, lost>>

\* A ping that was sent before the socket was closed is still received.
Ping(c) ==
    /\ at[c] = "in"
    /\ Move(c, "set")
    /\ UNCHANGED <<evicted, key, age, stuck, slipped, lost>>

\* _record_presence: HSET. A new key has no expiry; one that is there keeps its own.
Record(c) ==
    /\ at[c] = "set"
    /\ hash' = hash \cup {c}
    /\ left' = IF hash = {} THEN Never ELSE left
    /\ Move(c, "expire")
    /\ slipped' = slipped \ {c}
    /\ UNCHANGED <<evicted, age, stuck, lost>>

\* Mutant of Renewed: only a key without an expiry gets one.
RenewedOnce == IF left = Never THEN Ttl ELSE left

\* Mutant of Renewed: the expiry is left out.
RenewedNever == left

\* _record_presence: EXPIRE, a command of its own. If the key has gone meanwhile it
\* answers 0, which nobody looks at.
Renewed == IF hash = {} THEN 0 ELSE Ttl

Renew(c) ==
    /\ at[c] = "expire"
    /\ left' = Renewed
    /\ age' = [age EXCEPT ![c] = 0]
    /\ Move(c, "in")
    /\ UNCHANGED <<evicted, hash, stuck, slipped, lost>>

\* Redis fails at either command; the handler goes on.
RecordFails(c) ==
    /\ at[c] \in {"set", "expire"}
    /\ lost' = (lost \/ at[c] = "expire")
    /\ Move(c, "in")
    /\ UNCHANGED <<evicted, key, age, stuck, slipped>>

\* HDEL: the key goes with its last field.
Without(c) ==
    /\ hash' = hash \ {c}
    /\ left' = IF hash \ {c} = {} THEN 0 ELSE left

\* disconnect_user, and the reaping of a socket that cannot be sent to, on another
\* task than the handler's.
Evict(c) ==
    /\ Attached(c) /\ c \notin evicted
    /\ evicted' = evicted \cup {c}
    /\ Without(c)
    /\ UNCHANGED <<at, age, stuck, slipped, lost>>

\* The handler's finally: leave.
LeaveRoster(c) ==
    /\ at[c] = "in"
    /\ Without(c)
    /\ End(c, "gone")
    /\ UNCHANGED <<stuck, lost>>

LeaveRosterFails(c) ==
    /\ at[c] = "in"
    /\ stuck' = stuck \cup {c}
    /\ End(c, "gone")
    /\ UNCHANGED <<key, lost>>

\* The worker dies.
Die(c) ==
    /\ Attached(c)
    /\ lost' = (lost \/ at[c] = "expire")
    /\ End(c, "dead")
    /\ UNCHANGED <<key, stuck>>

\* Redis drops the key.
Lapse ==
    /\ hash # {} /\ left = 0
    /\ hash' = {}
    /\ slipped' = slipped \cup {c \in Conns : at[c] = "expire"}
    /\ UNCHANGED <<at, evicted, left, age, stuck, lost>>

\* A beat passes; a key that was due has gone by then.
Beat ==
    /\ hash = {} \/ left # 0
    /\ left' = IF left \in {0, Never} THEN left ELSE left - 1
    /\ age' = [c \in Conns |-> IF age[c] < Ttl THEN age[c] + 1 ELSE Ttl]
    /\ UNCHANGED <<at, evicted, hash, stuck, slipped, lost>>

-----------------------------------------------------------------------------
RosterNext ==
    \/ \E c \in Conns :
          \/ JoinRoster(c) \/ Ping(c) \/ Record(c) \/ Renew(c) \/ RecordFails(c)
          \/ Evict(c) \/ LeaveRoster(c) \/ LeaveRosterFails(c) \/ Die(c)
    \/ Lapse
    \/ Beat

RosterSpec == RosterInit /\ [][RosterNext]_rosterVars

\* Time passes, and Redis drops what is due.
RosterFairSpec == RosterSpec /\ WF_rosterVars(Beat) /\ WF_rosterVars(Lapse)
-----------------------------------------------------------------------------
\* A socket in its room is shown for as long as the key lives after its last ping
\* that got through, whatever the others do, unless the key went between the two
\* commands of that very ping; one whose handler has ended is not shown, unless Redis
\* failed at that moment (touch_presence, leave).
RosterFollowsSockets ==
    \A c \in Conns :
        /\ at[c] = "in" /\ c \notin evicted \cup slipped /\ age[c] < Ttl => c \in hash
        /\ at[c] = "gone" /\ c \notin stuck => c \notin hash

\* A ghost, left by a worker that died or a deletion that failed, goes when nobody
\* else is in the room, unless an expiry was lost (PRESENCE_TTL_SECONDS).
GhostsGo ==
    \A c \in Conns :
        c \in hash /\ ~Attached(c) ~> c \notin hash \/ lost \/ \E other \in Conns : Attached(other)
=============================================================================
