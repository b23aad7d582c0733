# Prompt Studio backend: models and proofs

TLA+ models of the Prompt Studio backend (`src/`), the TLC configurations that
check them on small instances and proofs, checked by TLAPS, that hold for every
value of the parameters. Paths below are relative to the repository unless they
name a file of this directory.

## 1. The system

A FastAPI service over PostgreSQL keeps *projects*. A project is one JSON
document with a version counter, shared by a list of members with roles, edited
by saves over REST and by live saves over a WebSocket. Several server processes
run side by side; Redis carries what one process has to tell the others.

| component | code | state | operations |
|---|---|---|---|
| project document | `app/modules/projects/service.py`, `router.py`, `access.py`, `models.py` | the `projects` row (`doc`, `doc_version`, `updated_by`, `is_deleted`), `project_versions`, the edit runs in `project_activity` | create, save, restore a version, keep a named version, rename/archive, trash, un-trash |
| live document sync | `app/modules/collab/router.py`, `hub.py`, `docs/frontend/collab/use-collaboration.ts` | rooms, channel subscriptions, frames in flight; in the client `docVersionRef`, `pendingDocRef`, `pendingBaseRef` | handshake, join, greet, save, conflict, fan-out, publish, listen, ack, leave; queue, flush, handle, reconnect |
| presence | `hub.py` 178-239 | one Redis hash per project with an expiry, the sockets of each room | record, touch, snapshot and reap, forget |
| membership and access | `service.py` 434-663, `access.py` | `project_members` rows: invited or bound, role, opened | invite, claim at registration or verification, bind at first access, change role, remove, leave |
| public link | `service.py` 905-989 | the token of a project and whether it is enabled | enable, rotate, disable, read |
| sessions | `auth/service.py`, `auth/dependencies.py` | `sessions` rows, the denylist `revoked_tokens` | sign in, rotate, logout, revoke a device, logout everywhere |
| passwords | `auth/service.py`, `auth/router.py` | `user_credentials`, `failed_login_count`, `locked_until`, reset links | guess, lock, change, reset, choose, re-issue |
| the browser's tokens | `docs/frontend/api/client.ts`, `token-store.ts`, `stores/auth-store.ts` | the pair in `localStorage`, each tab's mirror and `refreshInFlight` | send, refresh, replay, sign in and out, bootstrap |
| platform administration | `admin/service.py` | accounts, the superadmin flag | create, update, delete an account; delete a project |
| rate limiting | `app/core/rate_limit.py` | a counter with an expiry per key | consume |
| comments and feed | `service.py` 816-884 | rows | add, resolve, delete, page |
| rbac, audit; HTTP plumbing; admin page, migrations, scripts | | | fields, constants, formatting, I/O |

How they interact. A request resolves access (one read of the project row and
the membership) and then runs an operation of the project document, whose commit
ends its transaction. A socket's handler does the same for every live save and
then asks the hub to tell the room: first the sockets of its own process, one
after the other, then the other processes through the Redis channel, then the
saver. Removing a member, demoting one, trashing a project or revoking a session
asks the hub to close sockets. The client hook turns frames into callbacks of an
editor, which answers with saves.

What is hard.

* *The version check.* It is a read, a comparison and a write of one row. What
  makes it a compare-and-swap is `SELECT ... FOR UPDATE` with `populate_existing`:
  the row was already loaded when access was resolved, and without a re-read the
  lock would hand back the stale copy (`service.py` 283-301).
* *What is not under the lock.* Named versions, rename, archive, trash and
  un-trash never take it, and they write columns of the same row.
* *Commit, then refresh.* `save_doc` reads the row again after the commit has
  released the lock; the payload and the ack are made of that second read.
* *Three sources for one socket.* The sockets of a process get frames from
  several handlers at once and from the bus listener: version n+1 may arrive
  before n, and a broadcast before or after an ack.
* *Read early, use late.* The greeting's document is read before the socket is
  accepted and joined; access is resolved once per request.
* *Lost messages.* A publish that fails or comes before the other process has
  subscribed is not sent again; a dropped socket loses what was on its way.
* *The client's base.* A save waits for a debounce timer while other frames move
  the version it will name.
* *Decide, then write.* Accounts, links, comments and credentials are decided on as
  they were read and written at the commit, with no lock. The ORM writes the columns
  that differ from what was *read*, so a value that another request moved meanwhile
  may stay moved.
* *Two commands for one thing.* A counter and its expiry, a field and its expiry, a
  commit and the end of the sessions behind it: a failure may come in between.
* *Two tabs, one storage.* Each tab has a refresh of its own in flight for the pair
  that all of them share.

For each component, what makes it correct:

* document: nobody's save replaces a version its author had not seen unless it
  names no base; every stored version is one the document had; what was
  overwritten can be got back within the retention limit; the feed accounts for
  each save once; every request ends.
* sync: nobody is told of a version that is not committed; a document never
  travels under another version's number; a refused client gets something newer
  than it had; a save that arrives is dealt with; nobody's accepted work is
  dropped unseen; a quiet room shows one document.
* presence: whoever has a live socket that pings is on the roster, and whoever has none
  disappears from it.
* membership: a seat is given only to an account that proved its address; a
  project keeps an owner; a removed member's sockets close.
* public link and comments: what was taken away does not come back, and a link in
  force stays unless somebody asks for another.
* sessions: a refresh token is good for one rotation; what is revoked stays so.
* passwords: guesses are bounded however many come at once; a reset link sets one
  password; an issued password gets nobody past the wall; after a reset nobody else
  is signed in.
* browser: a pair that is still good is not thrown away.
* administration: a superadmin always remains; power is changed by superadmins only;
  who is shut out loses the open sockets too.
* rate limiting: a key never stays limited for ever.

The hazards, line by line, are in `PROJECT.json`.

## 2. Modules

    DocHistory               what the server promises about one document
       ^  refined by
    ProjectDoc  <- MCProjectDoc, ProjectDocProofs       the row, its lock, its requests
    CollabSync  <- MCCollabSync, CollabSyncProofs       sockets, bus, clients
    Roster      <- MCRoster, CollabSyncProofs           the presence hash

    Membership  <- MCMembership, MembershipProofs       seats, claims, removals

    Devices                  what the server promises about signed-in devices
       ^  refined by
    Sessions    <- MCSessions, SessionsProofs           token pairs, the denylist

    Passwords   <- MCPasswords, PasswordsProofs         guesses, links, the wall
    Browser     <- MCBrowser, BrowserProofs             tabs and their stored pair
    Accounts    <- MCAccounts, AccountsProofs           operators and whom they shut out
    Sharing     <- MCSharing, SharingProofs             public link, comment, rate limit

### DocHistory

A history of revisions that only grows; the current document is the newest one;
a write that names a base names the newest one; revisions can be kept by name
and are then never let go. `ProjectDoc` implements it, with the lock.

### ProjectDoc

One project under concurrent REST requests.

| model | code |
|---|---|
| `project` | the `projects` row (`models.py` 29-86): document, `doc_version`, `updated_by`, `is_deleted` |
| `versions` | its `project_versions` rows, newest first |
| `revisions` | a history variable: the write behind each `doc_version`, with its author and the base it named |
| `feed` | the `project.edit` rows of `project_activity` |
| `job[p]` | request `p`: the operation, the row its session has in memory (`seen`) and where it is |
| `Begin...` | access resolution, which loads the row |
| `Lock` | `_lock` 283-301: waits for the row, then re-reads it |
| `Refuse` | the 409 of `save_doc` 356-368 and the end of its transaction |
| `CommitSave`, `CommitRestore` | the rest of `save_doc` 370-394 as one commit: snapshot, prune, write, feed |
| `CommitName`, `CommitUpdate`, `CommitTrash`, `CommitUntrash` | the operations that take no lock |
| `Die` | the connection goes: `get_db` rolls back |

Reads and writes of one transaction that nobody can see before its commit are
one step; what is read before a lock or without one (`seen`) is kept from the
step that read it. Document contents are model values.

### CollabSync

The collaboration sockets of one project, on any number of processes.

| model | code |
|---|---|
| a socket `<<client, n>>` | the n-th connection a tab opens; `host` is the process the balancer gave it |
| `stage`, `greeting` | how far `collaborate` (67-135) has come, and the row read at 93 |
| `up`, `down` | the two FIFO directions of a socket |
| `task` | the local state of `_apply_update` (223-327) between its awaits |
| `subscribed`, `bus`, `relay` | the channel subscriptions, the frames published to a process, the one its `_listen` is delivering |
| `screen`, `known`, `pending`, `pbase` | the document the tab shows, `docVersionRef`, `pendingDocRef`, `pendingBaseRef` |
| `stalled` | connected sockets whose browser has stopped reading: a send to one does not come back |
| `astray` | history: clients whose next base may not be of what they show |
| `Resolve`, `Join`, `Subscribe`, `Greet` | the handshake: read the row, enter the room, subscribe if first, say hello |
| `Receive` | `save_doc` under its lock: commit or refuse. ProjectDoc has the lock itself |
| `Conflict`; `Refresh`, `Broadcast`, `Deliver`, `Publish`, `Ack` | what follows a refusal; what follows a commit |
| `Listen`, `Replay` | `_listen`, one message at a time |
| `RestWrite` | what is written over REST: a save with a base or without one, the restore of an older document |
| `Leave`, `Crash`, `Drop`, `Stall` | a handler that finds its client gone; a process that dies; a connection that drops; a browser that stops with its connection up |
| `Open`, `Queued`, `Flush`, `SettlePending`, `Handle` | the hook: `open`, `sendDoc`, `flushDoc`, the `hello` case and the other frames |

A document is the set of edits it contains, so that the model can tell a save
that leaves somebody's edit out. Typing is external: an editor that does what
`docs/frontend/README.md` says, showing each document it is handed without
sending it back (an effect that saves whatever changes would queue it again; the
hook's comment at 407-410 speaks of that, and what it leads to is not in the model).
A save is one step here, because ProjectDoc has its lock.

### Membership

Who is on one project. A person stands for an address and the account that has
it, which never changes its address.

| model | code |
|---|---|
| `account[p]` | the `users` row: none, not proved, proved (`email_verified_at`) |
| `seat[e]` | the `project_members` row of an address: its id, `user_id`, role. The unique constraint (`models.py` 126-131) makes it one per address |
| `job[s]` | a request: what it wants, the row its session has in memory (`read`), how far it is |
| `sock[p]` | an editor socket: resolved at the handshake, then open in the room |
| `crossed` | history: an owner was taken away while another change or removal was on its way |
| `Match`, `Bound`, `Resolve` | `_membership_match`, `find_membership` with its late claim, `resolve_access` |
| `AllowInvite`, `AllowChange` | the checks of `invite_member`, `update_member_role`, `remove_member`, `leave_project` |
| `CommitInvite`, `CommitChange`, `CommitRemove`, `Evict` | what they write, and the sockets they close afterwards |
| `Further` | the loop of a bulk invitation, which resolves access once |
| `Register`, `Prove` | a new account; `claim_invites` at registration with an invitation, at confirmation, or when an operator creates the account |
| `Connect`, `Join`, `Revalidate`, `HangUp` | a socket's handshake, its entry into the room, its tick (`_still_authorised`), its end |

A change of role or a removal works on the row that was in memory since access
was resolved: `db.get` answers from the session. That is why `CommitRemove`
deletes by the id it read, and why `Evict` may not know whom it removed.

### Devices and Sessions

`Devices` is the promise: a device holds one live pair of tokens, a pair is
exchanged at most once, and a device that is out stays out. `Sessions` is the
sign-ins of one account as its requests change them, each in a transaction of
its own.

| model | code |
|---|---|
| a number `n` | a pair of tokens and its `sessions` row, minted together by `_issue` |
| `device[n]` | the sign-in the pair descends from, a history variable |
| `revoked`, `denied`, `lapsed` | `revoked_at`; the rows of `revoked_tokens`; the access tokens that have expired |
| `job[s]` | a request: the row it has locked, the sessions it will stamp (`mark`), the rows it will insert (`insert`), what it has read (`seen`) |
| `BeginRefresh`, `LockRefresh`, `CommitRefresh` | `refresh_tokens`: the denylist check before the lock, `_find_session`, the rest |
| `BeginLogout`, `LockLogout`, `BeginLogoutBare` | `logout` with a refresh token and without |
| `BeginRevoke` | `revoke_session` |
| `BeginEndAll`, `BeginEndOthers`, `Listed`, `Deny` | `revoke_all_sessions`, for everybody or but for the session that asks: first the SELECT of the sessions, then the look-ups of their tokens in the denylist |
| `Collides` | the primary key of `revoked_tokens`: what two transactions both insert, one of them loses everything for |
| `CommitEnd`, `Purged` | the commit of all of these, and what signing out purges |

### Passwords

The credentials of one account. `Sessions` has what a sign-in is; here it is a
number that is live or not.

| model | code |
|---|---|
| `cred` | the `user_credentials` row: `must_change_password`, `password_changed_at` in whole seconds, as `reset_password` compares them |
| `door` | `failed_login_count` and `locked_until` of the `users` row |
| `links`, `spent` | the reset links that were sent, with their `iat`; the ones on the denylist |
| `issued`, `crossed`, `missed` | history: who made the password up; whether the last write overlapped one that moved the flag; the misses since the count was last 0 |
| `BeginSignIn`, `CommitSignIn`, `CommitMiss` | `authenticate`: the look at the lock; the answer; `_register_failure`, an UPDATE of the row's own value |
| `BeginReset`, `BeginChange`, `BeginInitial`, `BeginReissue` | the checks of `reset_password`, `change_password` and `set_initial_password` behind the wall's dependencies, and the operator's `update_user` |
| `CommitWrite` | what they write: `Flagged`, `Ended`, `Refused`, `Merged` |
| `EndAll` | the operator's `logout_everywhere`, a transaction of its own |

### Browser

Two tabs and what they make of the server's answers. A pair of tokens is a number.

| model | code |
|---|---|
| `stored`, `mirror[t]` | `localStorage`; `memoryAccess` and `memoryRefresh` of a tab |
| `slot[t]` | `refreshInFlight`: the pair that was sent, what came back, and (history) what the storage held |
| `call[c]` | a request: an ordinary one, the `getMe` of `bootstrap`, or a sign-out |
| `Begin`, `Serve`, `Fail`, `Join`, `Conclude` | `send`, the answer, no answer, the first 401, the end |
| `Fresh`, `ServeRefresh`, `FailRefresh`, `Arrive` | `ensureFreshToken`, `performRefresh` with its three outcomes, and everybody who waited for it |
| `Login`, `LoginFails`, `Reload`, `EndElsewhere`, `Lapse` | what goes on around it |

### Accounts

| model | code |
|---|---|
| `row[u]` | the `users` row: role, `is_active`, `is_deleted`. `Founders` have `is_superuser` |
| `signed`, `sock[u]` | a sign-in that is not over; an editor socket |
| `job[s]` | an operator's request: the row it read, the row it wants, whether a superadmin asked (`super`, history) and whether nothing has overlapped (`quiet`, history) |
| `Operator`, `MayManage`, `MayGrant`, `AnotherRemains` | `get_current_admin`, `_assert_may_manage`, `_assert_may_set_role`, `_assert_another_superadmin_remains` |
| `BeginCreate`, `BeginUpdate`, `BeginDelete`, `BeginShut` | `create_user`, `update_user`, `delete_user`, `delete_project` up to their commits; `ends` remembers whether the request itself switches the account off, which is when its sessions end |
| `CommitCreate`, `CommitWrite`, `CommitShut` | the commits |
| `EndSessions`, `CloseSockets`, `Die` | `logout_everywhere` and `_close_all_sockets` behind them; the server stops anywhere |
| `Connect`, `Join`, `Revalidate`, `HangUp` | the socket's handshake, room, tick and end |

### Sharing

| model | code |
|---|---|
| `project` | `public_token`, `is_archived`, `is_deleted` of the row |
| `comment` | whether `resolved_at` is set, and `is_deleted` |
| `counter` | the caller's Redis key and whether it expires |
| `BeginLink`, `CommitLink` | `enable_public_link`, `rotate_public_link`, `disable_public_link` |
| `BeginProject`, `CommitProject` | `update_project` with `is_archived`, `delete_project`, `restore_project` |
| `BeginComment`, `CommitComment` | `update_comment` with `resolved`, `delete_comment` |
| `Count`, `SetExpiry`, `LoseExpiry`, `Expire` | `consume`: INCR, EXPIRE, a failure between them; Redis |
| `Serve` | the rest of the route, which writes nothing |

### Roster

Time passes in beats of the client's ping interval, whatever the handlers are doing.
A key that was given `Ttl` beats is due after as many, and Redis drops it at any moment
of the beat that follows: also between the HSET and the EXPIRE of somebody who is
recording himself.

| model | code |
|---|---|
| `hash`, `left` | the fields of the presence key; the beats before it is due, or none set (`Never`) |
| `at[c]` | where the handler of a socket is: about to HSET, about to EXPIRE, in its loop, ended, dead with its worker |
| `age[c]`, `stuck`, `slipped`, `lost` | history: since when a socket was not recorded; whose deletion failed; under whose hands the key went; whether an expiry was lost |
| `JoinRoster`, `Ping`, `Record`, `Renew`, `RecordFails` | `join`, `touch_presence`, the two commands of `_record_presence` |
| `Evict`, `LeaveRoster`, `LeaveRosterFails`, `Die` | `disconnect_user` or the reaping of a peer; `leave` and `_forget_presence`; a failure; the worker's death |
| `Beat`, `Lapse` | time; Redis drops the key |

## 3. Runs

| run | instance | checks |
|---|---|---|
| `DocWriters` | three requests (saves of any base and version restores) by two people, one automatic snapshot, four revisions | `TypeOK`, `NoLostUpdate`, `FeedMatchesHistory`, `OverwriteRecoverable`, `ImplementsHistory` |
| `DocBeside` | two requests, all six operations, automatic and named snapshots, three revisions; fair | `VersionRowsAreHistory`, `EveryRequestAnswered` |
| `SyncRoom` | two editors, two processes, one socket each, three edits, REST saves and restores, typing before hello | `TypeOK`, `NoFutureVersion`, `FramesTruthful`, `SendsHaveSeenTheirBase` |
| `SyncReconnect` | an editor with two sockets and a reader with one who may go or stop reading, one process, two edits, crashes and drops; fair | `ConflictIsNewer`, `SendsHaveSeenTheirBase`, `SentSaveAnswered` |
| `SyncLostEdit` | one editor, one socket, four edits | `SaveHasSeenItsBase` is violated |
| `Seats` | a founder and a guest, two requests of any kind, two roles, three rows over time; fair | `TypeOK`, `ProvenSeats`, `OwnerRemains`, `RemovalsAreAimed`, `OutsiderSocketCloses` |
| `SignIns` | one account, two requests of any kind, three pairs of tokens | `TypeOK`, `RevokedIsDead`, `ToldIsDone`, `RefusedForGood`, `ImplementsDevices` |
| `Passwords` | one account, two requests of any kind, a lock after two misses, two links, two sign-ins, two seconds | `TypeOK`, `GuessesAreBounded`, `WallFollowsPassword`, `AnsweredIsAlone`, `LinksSetOnce` |
| `Accounts` | a founder and another address, two operators' requests, one socket; fair | `TypeOK`, `SuperadminRemains`, `PowerIsTheirs`, `ShutOutSocketsClose` |
| `Sharing` | two requests of any kind, three tokens, a quota of two; fair | `GoneStaysGone`, `LinkStays`, `WindowEnds` |
| `Roster` | three sockets, a key that lives two beats; fair | `RosterFollowsSockets`, `GhostsGo` |
| `Browser` | two tabs, a call and a sign-out in one and a bootstrap in the other, two pairs | `TypeOK`, `KeptWhileGood` |

Why the bounds are enough. Two requests race for a lock and a third can come
between them; two people are needed for runs of edits to break; one automatic
snapshot is the smallest limit at which pruning removes something, and at four
revisions it has done so twice. In a room, the saver and one other socket are
every role there is in a fan-out, and two processes put the bus between them.
Three edits let a save be in flight, a second be queued and a third be made
elsewhere. A second socket of one tab is enough for a dead socket to linger in a
room the live one is in, and one reader is enough to be dead or to stand still in a
fan-out; with a crash there is nothing a second process would add to who waits for
whom. Three rows let a guest be invited, removed and invited
again while an older request still holds the first row; the highest and the
lowest role are every comparison the code makes. Three pairs are a device that
rotates twice, or one that rotates while another is signed in; every conflict of
the sessions is between two transactions. With a lock after two misses two
concurrent guesses are one too many for a counter kept in memory; two seconds are
"the same second" and "a later one"; two links are the one that is used and
another. Two operators' requests and two addresses are everybody who can overlap,
the founder's flag and the role being the two sources of power. A third token shows
whether the first or the second came back. In the roster, one socket leaves, one
dies and one keeps pinging, and two beats tell a renewed key from one that was not.
In the browser two pairs are the old one and the one another tab has just put there.
Every bound is a constant whose declaration says so (`Max...`, `Typists`, `Sleepers`,
`EarlyTyping`, `RestWriters`, `Crashes`, the sets of requests, sockets and calls).

Deadlock is checked in `DocBeside`, `SignIns`, `Passwords`, `Sharing`, `Roster` and
`Browser`. It is off where a run may really come to its end: at the bounds on edits,
revisions and sockets (`DocWriters` and the `Sync` runs), when nobody is left on the
project (`Seats`), and when the last account has lost its power and everybody is
signed out (`Accounts`).

Symmetry is used only where no liveness property is checked: over people and
requests in `DocWriters`, over clients and processes in `SyncRoom`, over requests
in `SignIns` and `Passwords`.

The types of `Sharing` and `Roster` are not among what their runs check: they are proved.

Several properties end in "unless": `SendsHaveSeenTheirBase`, `SentSaveAnswered`,
`RosterFollowsSockets`, `OwnerRemains`, `SuperadminRemains`, `PowerIsTheirs`,
`WallFollowsPassword`, `LinksSetOnce`, `LinkStays`, `WindowEnds`, `GhostsGo` and
`KeptWhileGood`. The exception is in each case one of the disagreements below, named
as narrowly as the model can, and what the property says is that nothing else leads
there.

### Fairness

`ProjectDoc.FairSpec`: PostgreSQL wakes the waiters of a row lock in turn, so a
request that wants the lock is not passed over for ever (strong fairness of
taking it), and what a running request does next it does (weak fairness).
Nothing is assumed of new requests. `CollabSync.FairSpec`: an event loop runs
whatever task is ready, so each socket's handler is weakly fair. Nothing is assumed of
the listeners, of Redis or of the clients: nobody has to read, to type or to come back,
and nothing has to fail. A handler that waits in a send to a client that does not read
is not ready.
`Membership.FairSpec`: a handshake goes on to the room, and the receive loop of
an open socket checks its deadline on every turn, frames or not
(`collab/router.py` 138-160), so joining and revalidating are weakly fair. An
eviction is not assumed to arrive. `Accounts.FairSpec` assumes the same of its
sockets, and nothing of the requests: the server may stop before it has ended a
session or closed a socket. Both leave out the handler that waits in a send to a client
that is connected and does not read (below): it does not come back to its deadline, and
its socket stays until the connection goes. `Sharing.FairSpec`: a request that has counted 1 goes on
to its EXPIRE (or loses it), and Redis drops a key whose time has come.
`RosterFairSpec`: time passes, and Redis drops a key that is due; nothing is assumed of
any socket. `Sessions`,
`Passwords` and `Browser` have no liveness property.

### Disagreements between the code and what it says

The first is the run `SyncLostEdit`, quoted in `PROJECT.json` with the line that
says otherwise. The others came up while modelling; each is a behaviour of the
models, and where a property comes near it, it is the "unless" of that property.

*Documents and sockets*

* The client takes every version number it is told of. After a conflict has
  replaced the document, the ack of an earlier save raises the version past the
  document shown, and the next save drops accepted edits without a conflict. On the
  way there, the same run shows an editor getting a conflict with its own first save.
* A snapshot is stamped with `updated_by`, which a rename or an archive also writes:
  it may name somebody who did not write the document.
* The ack is made of a second read of the row and may name a later version, somebody
  else's.
* A save between the handshake's read and the join is in neither the greeting nor a
  later frame: the joiner is behind until the next save.
* "`send_json` to a stalled peer is unbounded" (`collab/router.py` 286): the handler
  releases its lock before it sends, but `_deliver_local` (`hub.py` 266) sends to one
  peer after the other and waits for each. A browser that is connected and does not read
  holds up whatever waits behind it in its room for as long as it lasts: the ack of a
  save that is committed, the greeting of whoever joins, and the listener, which is one
  for all the projects of its process. `SentSaveAnswered` says that nothing else holds
  up an answer for ever. Evictions wait in the same way: `leave` (`hub.py` 119-144)
  takes the socket out of the room, and then tells the room before the socket is closed.
* A frame that arrives late replaces a newer document on the screen, while the base of
  a save queued before it stays; and a save typed before the first greeting has no base
  of its own. These two and the ack above are the ways to a save that has not seen what
  it replaces, and `SendsHaveSeenTheirBase` says that there is no other.

*Members and accounts*

* The check that another owner remains is a plain count. Two owners who leave, or
  remove or demote each other, at the same time each count the other, and the
  project has none. `OwnerRemains` says that this takes such an overlap, and that
  otherwise the check is enough. The check that another superadmin remains
  (`CANNOT_DEMOTE_LAST_SUPERADMIN`) is the same count with the same end.
* An administrator's request that was checked against a member acts on a superadmin
  if the member is promoted before it commits.

*Sessions and passwords*

* Signing out everywhere lists the sessions, looks their access tokens up in the
  denylist and ends them at its commit. A refresh that commits after the list adds a
  session that is not on it, and its device stays signed in. If the refresh commits
  after the look-up too, and the old access token has not expired, both insert the same
  row: the second transaction fails on the primary key, and the person is told so. If
  it commits between the two, or the token has expired, nothing collides. A sign-in
  that was checked before a reset and commits after it survives it in the same way,
  with the old password.
* `_apply_chosen_password` "always clears the issued-password flag"
  (`auth/service.py` 421). Assigning the value the session has read writes nothing: a
  change or reset that read the flag down and is overlapped by a re-issue leaves it
  up on a password that its owner chose. The other way round, a re-issue that read
  the flag up and is overlapped by a first choice leaves an issued password without
  the wall.
* "Completing one reset closes the whole window" (`auth/service.py` 467): a second
  link that was checked before the first reset committed still sets a password.

*Link and rate limit*

* "Clicking twice returns the same token" (`projects/router.py` 440): two clicks at
  once may return two, of which the first is dead.
* Columns that belong together part in the same way as the flag above: a rotation
  overlapped by a disable leaves a link without `public_enabled_by_id`, if the same
  owner had enabled it; resolving a comment again, overlapped by an unresolve, leaves
  it resolved by nobody.
* If the EXPIRE is lost, nobody sets one any more, and once the quota is spent the
  caller is refused for good.
* "A worker that dies cannot leave a ghost in the avatar stack forever"
  (`collab/router.py` 163): the time to live is the key's, so a ghost stays as long as
  anybody else pings.
* Recording a socket is an HSET and an EXPIRE. If all that is in the key is a ghost and
  the key is due, it may go between the two: the EXPIRE answers 0, nobody looks at the
  answer, and a socket whose recording has "succeeded" is not shown until its next ping.

*The browser*

* On "unavailable" "the stored tokens are left alone" (`client.ts` 293), but the 401
  that surfaces makes `bootstrap` clear them (`auth-store.ts` 149).
* A tab whose refresh was sent with an older pair clears, on its rejection, the pair
  another tab has stored meanwhile. A failed sign-in does so too (`auth-store.ts` 97).
* If the answer to a refresh is lost on its way, the pair is spent, the next refresh is
  rejected and the browser is signed out.
* A sign-out that is replayed after a refresh still names the old refresh token in its
  body: the old session is ended again, the access token it carries is denied, and
  the successor's refresh token stays exchangeable, which is what the comment at
  `auth-store.ts` 117-123 set out to prevent.

## 4. Proofs

Eight modules, one for each component (presence shares that of the sockets), prove
for every number of people, requests, editors, processes, sockets, tabs, edits and
tokens and for every limit the safety that the runs check on one instance, and what
their liveness properties rest on.

**ProjectDoc.** `TypeOK` and the safety properties are not inductive. A
commit trusts what `Lock` read, so `IInv` adds that a request that holds the
lock has the current row in memory (this is `populate_existing`), that
the row any request has in memory is a revision the document had
(`SessionRows`), and that `doc_version` counts the revisions. From it follow
`TypeCorrect`, `NoLostUpdateHolds`, `VersionRowsHold` and
`RowImplementsHistory`, and `LockWorksHolds`: whoever holds the row is alone with it,
has it as committed, and stands before a commit or a refusal, so nobody who waits for
the row waits for somebody who waits. The refinement maps a commit of a save to `Revise`, a
named version to `Keep` and the rest to stutters.

`OverwriteRecoverableHolds` needs what pruning does to a set of any size. The
automatic rows are a finite set, numbered without repetition by versions that are
over (`Numbered`); pruning keeps the rows with fewer than `VersionLimit` newer ones,
so at most `VersionLimit` of them (`PruneKeepsFew`, by looking at the oldest one
left), and when it drops a row there are `VersionLimit` newer ones
(`PruneDropsOldest`). So a version that cannot be found is older than as many rows
as the limit allows. `FeedMatchesHistoryHolds` rests on `FeedOf`: an entry counts
the saves of its author in its range, and each save is in exactly one entry. A save
replaces some entry by a longer one or starts a new one, and `FeedGrows` is the one
lemma for both.

**CollabSync.** The invariant says of every frame, wherever it is, that its
version is committed, its document is that version's, and what a conflict
refuses is older than what it hands back (`Sound`); that every base in flight,
queued or held is committed (`Bases`); and that a handler runs in a process
(`Hosted`). Soundness survives because revisions are only appended; that is the
lemma `SoundKeeps` on which the proof of `Receive` and `RestWrite` rests. From it
follow `TypeCorrect`, `NoFutureVersionHolds`, `FramesTruthfulHolds` and
`ConflictIsNewerHolds`.

`SendsHaveSeenTheirBaseHolds` needs to know what a client has in hand (`Seen`): as long
as nothing has led it astray, what it shows contains the version it knows, a queued
save has a base, and if that base is still the newest version, both the save and the
screen contain it. A commit by anybody leaves every queued base behind (`CommitSeen`);
a frame with a document renews the screen and the version together, and is truthful;
an ack of something that is shown raises the version only. `NextSeeing` goes through
the actions.

What `SentSaveAnswered` rests on is proved beside it. `ConnectedIsServedHolds`: a
client that is connected has a handler, and a busy handler has greeted its client and
not left (`NotOpened` is what keeps a new connection from meeting an old handler).
`AnswerApproaches`: each step of a busy handler goes one stage on from the commit or
the refusal to the answer, or strikes one socket off the fan-out, dead or not, unless that one does not read; the
steps of everybody else leave it where it is. With that, fairness of the handlers is
all that is left to TLC.

**Membership.** That only proven addresses have claimed seats is not inductive: an
invitation looks at the account before it commits. `IInv` adds that what it
carries is still so (`Claims`), which holds because no proof of an address is
ever withdrawn. `BoundKeeps` is the lemma about the late claim, used by every
request and socket that resolves access. From it follow `TypeCorrect` and
`ProvenSeatsHold`; `RemovalsAimedHold` shows action by action that only a removal
takes a row away, and only the one it read. That is worth something because a row
cannot turn into another's: `RowsAreKept` says that a row keeps its number and its
person, and that a new one has a number no row has had.

`OwnerRemainsHolds` needs to know why a request that takes an owner away may go on.
`Relies` says it: as long as nothing has crossed, every request that is under way and
could take an owner's row has another owner beside the row it aims at (`RowSafe`),
either because the row it read was no owner's, or because the owners were counted.
A commit that takes an owner away is such a request, and the other owner it relied on
stays (`CommitOwners`); afterwards either nobody else is under way or `crossed` is
set. `Aims` (a commit touches only the row with the number it read) and `Distinct`
(numbers tell rows apart) are what makes the counted owner another one. The rest
keeps every owner where they are (`OwnersStay`, `RelyingKept`).

**Sessions.** `IInv` adds what a request has in hand: once it commits, everything
it has seen is over and dead (`JobsOK`), and whoever rotates a pair has it locked
and unrevoked while nobody shares a lock (`Locks`). Both survive other requests
because nothing that is over comes back (`Grows`); that each step only grows in
this sense is `StepKeeps`, which also gives `RefusedForGoodHolds`. The refinement
maps a commit of a refresh to `Rotate`, of the other operations to `End`, and the
rest to stutters. Without the wait for a locked row (`Free`), `SessionsImplementDevices`
does not go through: a request could stamp the pair that is being rotated.

**Passwords.** A request that was promised something keeps it while others go on:
`JobOK` (its sign-ins were made before, its link was no older than the password it
read) and `Alone` (whoever was told it is done is alone) survive because sign-ins
and links are only added (`Later`, `PromisesLast`). That the count in the row is the
count of the misses (`CountIsTrue`) holds because the UPDATE starts from the row and
not from what was read. From them follow `GuessesAreBoundedHolds`,
`WallFollowsPasswordHolds`, `AnsweredIsAloneHolds` and `LinksSetOnceHolds`.

**Accounts.** What a request was checked for is still so as long as nothing has
overlapped it (`JobOK`): it read the row that is there, a superadmin remains without
its target, and a superadmin asked for whatever touches power. Every commit makes the
others loud (`CommittedKeeps`). From it follow `SuperadminRemainsHolds` and
`PowerIsTheirsHolds`.

**Sharing.** The requests are well formed (`JobOK`); the rest is in the steps: a
write that was not asked to change a column leaves it as it finds it (`MergedSame`),
which is `GoneStaysGoneHolds`; and only three requests touch the token, which is
`LinkStaysHolds`. `ExpiryComesHolds` is the safety in `WindowEnds`: a counter without
an expiry has the request that counted 1 still on its way to setting it, unless one
was lost. With it, only the fairness of that request and of Redis is left to TLC.

**Roster.** That a socket which pings is shown is not inductive: between the two
commands its field is there and its age is not yet 0 (`Halfway`), and a key has to be
known to last as long as the age of each of its sockets allows (`Lasts`, `Shown`). Time
passes between any two commands; that the key may go there is what `slipped` records.
From it follows `RosterFollowsSocketsHolds`. `RosterExpiresHolds` is the safety in
`GhostsGo`: a key without an expiry has a handler about to set one, unless one was lost.
Both are proved at the end of `CollabSyncProofs`.

**Browser.** Who waits for a refresh waits for one in flight of their own tab
(`Waiters`, a part of `TypeOK`, which is therefore not only about types). `Known` adds
what a slot promises: it carries the pair that was stored when it was sent, a pair the
server has rejected is not live and never will be, and success brings a pair. With
that, a rejection of the pair that is stored throws nothing good away, and
`KeptWhileGoodHolds` goes through action by action; `Arrive`, where the answer of a
refresh meets a storage that others have written to, is the one that needs it.

The proofs assume only the named assumptions on the constants, which TLC
evaluates in each run.

*Only model-checked:* the liveness properties (`EveryRequestAnswered`,
`SentSaveAnswered`, `OutsiderSocketCloses`, `ShutOutSocketsClose`, `WindowEnds`,
`GhostsGo`), which need fairness and `ENABLED`; and `SaveHasSeenItsBase`, which is
violated.

## 5. What is left out

* In ProjectDoc: the content of documents, their size limit, derived counts,
  comments, and the audit rows. Roles are left to the membership model.
* In CollabSync: cursors, roster frames and error frames; refusals other than a
  conflict; the automatic snapshot timer (ProjectDoc takes a snapshot or not,
  freely). The order of one fan-out within a room is any order, which includes
  the code's. A publish may fail at any time. A send to a dead peer is a step
  that does nothing; the reaping of such peers is left out, since a socket that
  is sent nothing and one that is not in the list are the same to the document.
  So are the roster frames of the handshake and of a departure; a join waits for
  whoever would get one. The listener has one project. A browser that stalls
  stops at once; in the code its buffers fill first.
* In Membership: deactivated accounts, trashed projects, the platform role and
  the activity rows. The late claim's SELECT and UPDATE are one step, and so are a
  commit and the refresh behind it. A person has one socket. A write of a row that
  has gone (a role change) counts as a refusal.
* In Sessions: accounts that are deactivated and the expiry of refresh tokens after
  weeks. A sign-in is one step. The order of the rows in a deadlock between two
  transactions is left out; its loser is `Abort`.
* In Passwords: the password itself (which request knows it is the choice of the
  outcome), its strength, the audit rows, reset links that expire after half an
  hour, and the access tokens, which Sessions has. `logout_everywhere` ends what it
  finds; what it may miss is any number of the sign-ins made since the request began.
* In Browser: `writeKey` of the two tokens is one step; storage works; a pair is one
  thing, so an answer with one token only does not occur; registering is a sign-in.
  `bootstrap` clears on a 403 as on a 401 (`auth-store.ts` 149), but this server does
  not answer `GET /users/me` with a 403: the password wall lets it through
  (`auth/dependencies.py` 44-54) and every other refusal there is a 401.
  That every call ends is not checked: with two tabs the instance is too large for
  fairness, and nothing there waits for anything but a fetch.
* In Accounts: the names and passwords of an account, and more than one socket or
  sign-in of it. Everybody is on the one project.
* In Sharing: who may ask, which is Membership's; the words of a comment; the two
  columns beside the token and the one beside `resolved_at`; what the page shows. There
  is one caller.
* In Roster: the description in each field, the collapsing of several sockets of one
  person, and the frames that tell of a change.
* Not modelled at all: `rbac/permissions.py`, a constant table; `audit/service.py`, an
  append-only log that nothing reads back to decide; the envelope, the error
  translation, paging and mail, which are formatting and pure I/O; the admin page;
  generated migrations; operational scripts. `PROJECT.json` has the notes.

## 6. What could come next

1. `CollabSync`: role refusals and error frames, composed with `Membership`, and the
   snapshot timer of a room.
2. `Membership`: several sockets of one person, and trashing a project under them.
3. `Browser` over `Sessions` by a refinement, in place of the server it assumes now.
4. `Accounts` and `Passwords` together: the re-issue that closes sockets.
5. Who a snapshot names: `ProjectDoc` with a history of who touched the row while a
   version stood, for which its instance with all operations needs a second person.
