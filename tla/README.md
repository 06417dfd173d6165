# Verification of ikyomm-server

TLA+ modules of the parts of ikyomm-server in which several actors change the same
state, the TLC configurations that check them on small instances, and the theorems
about them that TLAPS checks for every value of the constants. `PROJECT.json` is the
index: which part of the system each module models, what each run checks, a mutant of
the code for every property, the source lines behind every definition, the
disagreements found, the hazards of the code, and the theorems.

    tlc  -workers 2 -config PodSessions_core.cfg PodSessionsMC.tla
    tlapm PodSessionsProofs.tla

Paths below are relative to the repository; `ommpods/` is `services/ommpods/src/`,
`kernel/` is `services/kernel/src/`.

## 1. Inventory of the system

A pod is a cabin with a door, lights, an aroma diffuser and a tablet. Users book it by
the minute with credit; the tablet, the app and the hardware follow the state of its
session. The system is a set of Hono services around one PostgreSQL database, one Redis
and an MQTT broker. The repository has no tests; `ARCHITECTURE.md` is its documentation.

| Component | State it keeps | Operations | Module |
|---|---|---|---|
| Reservation (`ommpods/routers/sessions`, `control`, `tablet`) | `pod_sessions`, `user_wallet`, `wallet_transactions`, advisory lock of the pod | book, emergency unlock by pod (door, tablet) and by session (app), delete, permanent delete, restore | `PodSessions` |
| Control events (`control`, `tablet`, `app`) | `pod_session_logs` | mood, aroma, music; what tablet, app and list of pods show | `SessionControls` |
| Door window (`ommpods/mqtt`) | `doorLockTimers`, timers, MQTT client | `publishDoorPulse`, `publishDoorUnlockWindow`, lock timer | `DoorWindow` |
| Hardware publisher (`ommpods/mqtt`, `handlePollingStateUpdate`) | `lastPublishedState` | publish timer, RGB, diffuser; pulse the door when a session is gone | `PodHardware` |
| Polling state (`ommpods/routers/polling`, `socket`) | Redis key per pod, `pollingCache` with its shared fetch, tick intervals of sockets | refresh, poll, socket tick, forced refresh of the tablet | `PollingState` |
| Gateway (`services/gateway`) | polling fallback cache, cookies of the panels | proxy, rename cookies, answer a failed poll from the cache | `Gateway` |
| Wallets (`kernel` wallets, sign-up in `services/auth`) | Ikyomm, company and user wallets, transactions | open, top up, transfer, sign-up credit, debits, removals | `Wallets` |
| Authentication and authorization (`packages/utils/src/middleware/auth.ts`) | session and authorization caches, shared fetches, circuit breaker | authenticate a request | `AuthContext` |
| Auth service (`services/auth`) | Better Auth's users and sessions, status and role caches | `customSession`, sign-up | `AuthContext`, `Wallets`, `Directory` |
| Companies, members, users, agents | `organization`, `member`, `user`, accounts | create, update, remove, restore, remove for good, credentials | `Directory` |
| Roles and permissions | roles, permissions | create, update, remove, seed the defaults | `Roles` |
| Records (pods, moods, musics, playlists, diffusers, locations) | soft-deletable rows | create, update, remove, restore, remove for good | `Records` |
| Ecommerce (`services/ecommerce`) | fourteen tables of a shop | the generic CRUD factory and its hooks | `Catalog` |
| List queries (`packages/utils/src/functions/list-query.ts`) | none | page, total, order | `Listing` |
| Scheduled jobs (`services/auth` crons) | overlap guard, advisory lock | batched cleanup of expired sessions | `Crons` |
| Migrations (`packages/database/src/migration.ts`) | table of applied migrations | baseline, apply, skip known errors | `Migrations` |
| Music scripts (`packages/database/src/music-*.ts`) | playlists, songs, moods, bucket | upload, dry run, synchronise | `MusicLibrary` |
| Helpers (rate limit, headers, validation, ids), logger, mail, static files | none of the system's own | | none |

How they interact: a booking, an unlock and a command commit to PostgreSQL, then call the
refresh of the polling state; the refresh writes Redis and calls the listeners, which are the
sockets and the hardware publisher; the publisher and the handlers pulse the door. The
gateway stands between clients and services and keeps the last answer of each pod. Every
handler is behind the authorization middleware, which asks the auth service and keeps
what it was told. Wallets, companies, users and records are rows that the administration
changes while bookings read them.

What is hard in it, and what must hold:

* **Reservation.** Handlers run concurrently, in several processes, and each reads its
  clock, waits for a lock, reads rows, and writes at commit. A pod must not be booked
  twice; a session must be paid for once, whatever fails; a balance must not become
  negative when one user books two pods; the end delay of a session must be respected
  at its boundary; an unlock that read its clock early must not reopen or prolong a
  session; what was committed must reach the tablet and the hardware.
* **Control events.** What a command, the tablet and the list of pods answer is put
  together from several queries and a clock read before them; it must have been true at
  some moment of the request.
* **Door.** Calls interleave at the await of a publish; messages are skipped while the
  client is disconnected; timers die with the process. A door that is open must have a
  lock on its way, and must not be locked inside the window of a later call.
* **Hardware publisher.** Updates of one pod overlap between reading and storing what
  was published last; publishes that were skipped are remembered as done; nothing tells
  it that a session ended by its timer while the pod is only polled.
* **Polling.** A refresh takes several queries and then overwrites a key; a poll reads
  the key and writes it back; polls share a fetch that may outlive its time limit and
  its cache entry. What is served must be what the database says; one fetch at a time;
  every poll answered.
* **Gateway.** Late answers of polls, degraded answers, a bounded cache; the panels of one
  browser share one cookie jar.
* **Wallets.** Transfers lock rows in different orders; a wallet is looked up, then
  inserted; removals cascade. Credit must be conserved and transfers must end.
* **Authentication.** A fact (session, ban, role, permission, membership) is copied through
  two caches of the auth service, Redis and the memory of each process, with retries whose
  first attempt goes on. What is decided must not be older than the copies' lives allow.
* **Directory, roles, records, shop.** A handler checks in one statement and writes in
  another; only unique indexes and foreign keys hold in between. Rows must stay in step
  unless requests crossed, and an error must have an explanation.
* **Migrations, jobs, scripts.** Two runners, kills between statements, skipped errors.

Each of these is a hazard of `PROJECT.json` at its line, with the properties that cover it.
One has none: a rejected promise that `redis/client.ts:78` keeps when the first connect
fails, for Redis in `AuthContext` answers or loses keys and nothing else.

## 2. Modules

| Module | What it is |
|---|---|
| `PodReservations` | Abstract specification: a booking pays and takes the pod in one indivisible step, a pod has at most one holder, a balance falls only by a booking. |
| `PodSessions`, `PodSessionsMC`, `PodSessionsProofs` | The reservation handlers, statement by statement; implements `PodReservations`. |
| `MqttClient` | The MQTT client that the next two share. |
| `DoorWindow` | The unlock window of the door over MQTT. |
| `PodHardware`, `PodHardwareMC`, `PodHardwareProofs` | The listener that turns polling states into commands for lamp, diffusers and timer; the proofs of both. |
| `PollingState`, `PollingStateMC`, `PollingStateProofs` | Refreshes, the Redis key, the memory cache, polls and ticks of one pod. |
| `AuthContext`, `AuthContextMC`, `AuthContextProofs` | The session middleware and the auth service's `customSession`, with all caches between them. |
| `Wallets`, `WalletsMC`, `WalletsProofs` | The transactions that move credit, with their row locks. |
| `Directory`, `DirectoryMC`, `DirectoryProofs` | Companies, members, users and agents, and the passwords issued to them. |
| `SessionControls`, `Records`, `Catalog`, `Migrations`, `Gateway`, `Roles`, `MusicLibrary`, `Crons`, `Listing` | Nine components by themselves. |
| `Services`, `ServicesMC`, `ServicesInvariants`, `ServicesProofs`, `ControlsProofs` | Those nine in one specification: a behaviour is of one of them, in shared slots `x1`, `x2`, ...; the inductive invariants of each; the proofs, those of `SessionControls` and of all types in the last. |

In all of them a step is one statement, or code from one await to the next; a request, a
call or an execution is a member of a constant set and holds in a record what the handler
carries in its variables. `Fail` (in `MusicLibrary` `Stop`, in `Migrations` `Crash` and
`StatementFails`) is an error of any statement or the death of the process at it; the modules
of caches and devices have the failures and restarts named below. `SessionControls`,
`Records` and `Roles` have none of a kind that leaves something behind: their handlers write in one
statement or transaction, and a failure before it leaves nothing; `Listing` only reads.
A variable commented "history" is read by no action's guard and only says which behaviours
a property excuses.

### PodSessions and the code

A handler execution is a request `r`; `req[r].pc` is where it stands, with the `now` it has
read. The stages are those of `createSessionRoute` (`sessions/handler.ts:295-515`): wait for
`pg_advisory_xact_lock`, pod and slab, overlap check, debit, inserts and commit, refresh,
door pulse. The unlock by pod (door and tablet run the same statements) reads `now`,
waits for the lock, finds, updates and commits, then refreshes and pulses; the unlock by session
has a lookup, a clock and an update by id, with no lock. Delete, permanent delete and
restore are one statement and a refresh.

* A transaction's effects appear at its commit; the debit takes the wallet's row lock when
  its statement runs (`BookDebit`) and shows at the commit (`BookCommit`).
* `Fail`: a transaction rolls back, a committed handler loses its refresh (`lost` records it).
* `UnlockWindow` is `Math.max(getSessionStartEndDelaySeconds(), 5)`, the 5 a constant. When the
  delay is configured below it, an unlock may find a session that is over and end nothing
  (finding 4).
* A pod that an administrator closes or reopens, and a wallet that is credited, are
  actions of the environment (`SwitchPod`, `TopUp`).
* Abstracted: the mood and the pod type are part of `podOpen`; a missing wallet is one
  without credit; `creditMinute`, a PostgreSQL real, is an integer, so its rounding is
  not modelled. A session that ends by its timer keeps the status CONFIRMED: no code sets
  COMPLETED or CANCELLED, and so does no action.

### DoorWindow and the code

An execution of `publishDoorUnlockWindow` is a call `c`: `OpenWindow` runs up to its
await (clear the registered timer, publish the unlock), `SetTimer` what follows it,
`FireTimer` the callback. `Publish` skips when the client is disconnected, as
`publishMqtt` does. The outbox is what the client holds unacknowledged; it delivers in
order and each message once (the duplicates that QoS 1 allows are not modelled: locking
or unlocking twice in a row does nothing). Two pulses that overlap at the await both set a
timer; the one that is orphaned may lock the door inside a later window, which
`WindowKept` excuses by `overlapped`.

### PodHardware and the code

An update `w` is one call of `handlePollingStateUpdate` (`ommpods/mqtt/index.ts:134-187`):
it reads what was published last, compares, publishes timer, RGB and diffusers with an
await each, pulses the door, and stores. `publishRgb` and `publishDiffuser` of the control
handlers come besides it, and may come late. The devices show the last command that
arrived. Containers are numbered by position; a timer's unit is at least two seconds.
Excused are pods whose updates overlapped (`crossed`), for which a command was skipped
while disconnected (`unsent`), or for which a handler published late (`late`); and a session
that ended by its timer (`unnoticed`), which only a refresh would see. The publisher's
door pulse is `DoorWindow!OpenWindow`.

### PollingState and the code

One pod, one ommpods process. A task is a request or a tick; each has two executions, its own
and the fetch that a poll may start, which goes on when the poll has timed out.
`RefreshStamp`, `RefreshSession`, `RefreshControl`, `RefreshPersist` are
`refreshPollingDataForPod` (`polling/state.ts:335-419`), `PollStart`, `ReadRedis`,
`WriteBack`, `Miss`, `Timeout` are `readPollingData` and `startPollingFetch`
(`polling/handler.ts:95-174`), and `TickStart` the tick of the one socket server that is
registered (`socket/socket.ts`; `polling/socket.ts` is not registered by anything).

* A pod has one visible session; its control events are the number of the last one,
  which stands for mood, lights, aroma and music together. The three queries of
  `resolveSessionControlState` are one step.
* What Redis holds is a session and that number; what is answered from it is `Materialize` of
  it, with the countdowns in whole seconds at the moment it is read. The memory cache
  keeps an answer as it was made, and returns it so: its countdowns are those of the clock
  a refresh read before its queries, or of the read of the key. `MemoryFollowsChanges` therefore
  speaks of the session and the control event shown, and of countdowns of some moment before
  the answer was cached.
* A query that fails ends a fetch with the fallback and a request with an error. A tick
  awaits its refresh in a timer's callback that nobody catches (`socket/socket.ts:42`):
  its failure is an unhandled rejection, which ends the Node process.
* A pod that does not exist, a restore (two visible sessions) and several processes
  are not in the model.

### AuthContext and the code

A request `r` of a process looks in the process's memory, then in Redis, then joins the
fetch of its process (`middleware/auth.ts:1189-1328 and what it calls`): attempts with a time limit, a retry, a
circuit that opens at a threshold and half-opens after a while. A handler `h` is an
execution of get-session in the auth service: `customSession` (`auth/index.ts:232-398`)
reads its status and role caches or the database, and replies, perhaps to an attempt that
was given up. Then the organization lookup and the decision. Facts are the session, the
ban, the permission and the membership; each may change at any moment.

* `Lag` is how long a reply may be on its way, a request may hold what it has read, and a
  handler what it has loaded; every step but the copies' expiry is bounded by it.
* One cache key and one session; the deleted session of `revokeSession` stays in Better
  Auth's own Redis copy, which is one of the copies.
* A failed lookup of the organization is cached as no membership, as in the code.
* The local resolution (`middleware/auth.ts:1019-1140`) is not reachable: `customSession`
  always sends an authorization. A Redis that hangs is not modelled.

### Wallets and the code

A request is one transaction: a transfer in any of the directions (`kernel/routers/wallets`),
a top-up, a sign-up or a creation of a user or a company with its wallet and credit, a
booking's debit, a removal with its cascades. Each takes row locks in its handler's order
and writes at commit. PostgreSQL ends a cycle of waits by failing one of its members
(`DetectDeadlock`). A foreign key check shares the row it refers to; so do the audit
columns of what an administrator writes, once the row itself is locked (`Written`, `Sign`).
Removing an administrator locks his row, then every row that names him, to set it to
null (`DeleteAdmin`, `Clear`; which rows name him is a choice): it may deadlock with his own transfer.
Ids of removed users are not reused, those of companies may be (`findNextCompanyId`); the
owner that `CreateCompany` makes is left to `Directory`.

### Directory and the code

A handler of `kernel/routers/company/main`, `company/members`, `ikyomm/users` or its twin in
`services/company` is a request: its checks (`Check`), read at one moment, then its
transaction, then for issued passwords the mail. `Observe` records which requests were under
way together and about the same thing. `EmailFree` is the unique index of `user.email`,
which counts deleted rows; the checks of some handlers do not. `Erased` is ON DELETE.
A permanent removal reads whom to delete in three statements, each of what is committed when it
runs: the members (`ReadMembers`), the users assigned (`ReadAssigned`), and which of both are
members elsewhere (`Collect`); its deletions show together, when it commits (`EraseCompany`).
Users who come, move or go between two of them are in the run; a removal that met one of them
puts its company in `crossed`, and what is claimed then is less.
`restore` also brings back members who were removed one by one; `resendCredentials` recovers
the issued password from the account's id and stores it again before it mails it. Left out:
the banned flag and the revocation of sessions (AuthContext), phone numbers, `isActive` of
companies, the existence of an agent's role, Better Auth's own invitations, roles (`Roles`).

### The nine of Services

* `SessionControls`: the commands of tablet and app for mood, aroma and music, and the
  three readers of a session, query by query; one pod, one session in sight, one reader at a
  time. Nothing is claimed of a read that two changes overlap. An aroma wins over a mood of
  the same millisecond; other ties may go either way. The list shows a pod as free during
  another's introduction and end delay, when a booking refuses it (finding 6): what is
  claimed of it (`Unoccupied`) is that nobody's session ran, not that it could be booked. A pod
  goes on naming its diffuser, and only the diffuser's own state changes. `enabledPodTypes`,
  filters, paging and distance are left out. `scan-unlock` (`sessions/handler.ts:140-206`)
  reads a table `pod_bookings` that no schema or migration creates, then pulses the door.
* `Records`: regions, zones, locations, pods, diffusers, playlists, songs and moods. A
  scene is the two tables in view. An update writes its row even if it was deleted
  meanwhile; a unique index may be hit by a deleted row, a 500. The jsonb references of
  pods and moods have no foreign key and may dangle; repeated diffusers in one body are
  left out, and so are collisions of random ids.
* `Catalog`: the CRUD factory (`ecommerce/src/routers/shared/crud.ts`) over fourteen tables
  with their hooks. PATCH bodies name all columns; one customer and one member of staff;
  whether a subscription is eligible is a choice. Soft deletion does not look at children;
  permanent deletion of a deleted category takes live subcategories with it; two crossing
  brand assignments deadlock and one is answered 500. Any statement may fail or be the
  last of its process (`Fail`), and what is answered may be lost after the last write
  (`Saved`): a product that fails at its collections is answered 500 with its row saved and its
  collections as they were or gone, as in the code (`crud.ts:402-425`,
  `products/openapi.route.ts:90-100`; a statement is given 20 s, `db.ts:29`). No other save can
  end in half (`HalfSavedIsProduct`).
* `Migrations`: the runner with its baseline, its order by time stamps and the errors it
  skips. The journal of the run has the shape of the repository's: entry 36
  (`0036_ancient_wendell_vaughn`) is stamped before entry 35 (`0036_aroma_container_types`),
  so a fresh database never runs nor records it, and `NothingLeftBehind` says just that.
* `Gateway`: polls with their late answers, the bounded fallback cache, and the cookies of
  two panels in one browser (two next-state relations, `NextPolling` and `NextCookies`).
  Left out: a fetch that never answers (it has no time limit), case-insensitive names,
  `__Secure-` and `__Host-` prefixes, path stripping, the WebSocket proxy.
* `Roles`: creation, update, removal of roles, and the seeding of default roles that runs
  whenever a member or a company is created. No index keeps slugs apart; an empty slug is
  not even checked (finding 5); seeding resets a default role that was customised, and two
  at once can make one creation fail.
* `MusicLibrary`: upload and synchronisation with kills and overlapping runs. The upload takes
  the preset whose title is the folder's name in its very letters (`title = moodTitle`); if
  there is none it warns, leaves rows without a mood and ends well. The synchronisation has a map
  from titles to folders of its own (`SyncMap`: `Calm` to `calm`, `Uplift` to `uplifted`), which pairs
  no title with a folder of the same name: with one set of folders and those presets a script
  finds only moods the other does not. So `LibraryPlays` claims a whole playlist for each
  folder, and a mood for it only if a preset has its title. A playlist that
  was deleted is used again; presets that neither script sets may be left dangling;
  overlapping runs may leave duplicates. Folders that differ in case only, several presets of one
  title, and the count that the synchronisation checks after its transaction are left out.
* `Crons`: the cleanup of expired sessions by two processes, while sessions are created,
  renewed, signed out of and expire. One that was being renewed when the job read its clock may be
  deleted (`late`).
* `Listing`: a client walks through the pages of the company list while rows come, go and
  change owners. Rows and total are read by two statements. Excused: a list that shrank, equal
  creation times, rows that changed. A company with two owners takes two rows of a page and
  counts once. Search, filters and the other columns to sort by are left out.

## 3. Runs

| Run | Question | Result |
|---|---|---|
| `core` | Two handlers of any kind over one pod: booked once, paid once, unlock that ends and never reopens, refresh due, refinement of `PodReservations`. | passes |
| `pods` | One user books two pods out of one wallet: does every request end? | passes |
| `restore` | Does the advisory lock keep a pod to one session, restores included? | violated |
| `door` | Three pulses, two doors, lost connections, restarts: is a lock always coming, is a window kept when calls do not overlap, does every door lock again? | passes |
| `hardware` | Four changes over three sessions: do lamp, diffusers and timer show the session? | passes |
| `polling` | Do Redis and the memory follow the changes that overlap nothing; are fetches single; is every poll answered though the database may not answer? | passes |
| `polling_stale` | Does what is stored follow the last change once everybody is done? | violated |
| `auth` | How old may a fact be that decides; is a late answer ever taken for another's? | passes |
| `auth_live` | Is every request answered, does the circuit close again? | passes |
| `wallets` | Is credit conserved, is nothing orphaned, who can deadlock, does every request end? | passes |
| `directory` | Do members follow companies, have errors an explanation, do users know their passwords, whom does a removal take? | passes |
| `services` | The nine components of `Services`, one at a time. | passes |

The two violations are findings of `PROJECT.json`, with the line of the code and the
sentence it contradicts; four more findings have no run of their own:

1. **A restore double-books a pod** (`sessions/handler.ts:590`): delete, book again,
   restore. `NoDoubleBooking` is the same property with restored sessions excepted, and
   holds.
2. **An old state may stay in Redis**, and be renewed by every poll, when a refresh
   overlapped another refresh or a read. `RedisFollowsChanges` excepts overlaps and holds.
3. **A dry run of the music upload inserts playlists** (`music-upload.ts:518`); in
   `MusicLibrary`, `Scan` is the pass that both modes make.
4. **With an end delay below 5 s an unlock may miss the running session**
   (`sessions/handler.ts:68`): the unlock's window is then longer than the booking's hold, a
   session that ended within it is found first and is answered unchanged. The configuration of
   `core` with `Delay = 0` violates `UnlockEndsActiveSession`; `PodSessionsProofs` proves it for
   every `Delay >= MinUnlockWindow`, as the default of 20 s is.
5. **Roles may share the empty slug** (`roles-permission/handler.ts:144`): a name without
   Latin letters or digits yields none, and the check is skipped for it. `SlugsTellApart`
   is of other slugs.
6. **The list of free pods shows pods that a booking refuses** (`app/handler.ts:525`): it
   counts sessions from start to end, a booking also the introduction before and the delay after.

Every property has a mutant in `PROJECT.json`: a definition changed the way a bug in its
code would, with which TLC finds the property violated under the same configuration.

### Bounds, and why they are enough

* `core`: one pod, one user, two session ids, two handlers at once, clock 0..3, credit 0..2
  with a top-up. Handlers are reused after they answer, so a run holds any sequence of
  calls of at most two at a time. Two handlers are what every race found in the code
  needs, for the lock admits one transaction per pod; two sessions are a predecessor and a
  successor. The end delay, the introduction and the unlock's minimum are one tick each, so that
  each boundary (start, end, end of the delay) falls on a value of the clock.
* `pods`: two pods and one wallet with credit for one booking, so that the two kinds of
  lock and a failed debit all occur; a clock that stands, which waits do not depend on.
  `restore`: as `core`, without top-ups.
* `door`: three calls are the least with which one timer is orphaned, one is registered
  and a third window is cut; a window is two ticks; two pods show that doors do not mix.
* `hardware`: four updates, so that two overlap, one is skipped and one comes after; three
  sessions: one shown, one that ends unnoticed, one after it; two colours and two diffusers,
  so that what is left on differs from what is shown. The constraint `Claimed` cuts
  behaviours in which the pod is excused for good.
* `polling`: two tasks, hence up to four executions; two changes, so that an older state
  is not the initial one; sessions, end delay, grace and minimum time to live of one
  second; clock 0..1 (`polling_stale` 0..3, with an introduction).
* `auth`: one process, one request at a time, two executions of get-session, so that one
  may be late; two attempts; a threshold of one failure; one change; every life and limit one tick, Redis's
  two, so that copies of copies outlive their source. `auth_live`: two requests
  that share a fetch, a threshold of three, which retries and waiters together reach, and no
  changes, on which an answer does not depend.
* `wallets`: the Ikyomm wallet, one company and one user are all kinds of owner and both
  orders of every pair of locks; two transactions are what a deadlock of two rows needs;
  a transfer is of one credit. One administrator, who signs what is written and may be
  removed meanwhile, when the rows of one owner name him; one account is deleted softly; of
  the two requests, which are alike, the end of one is looked at (`Watched`).
* `directory`: three requests, two at a time, over two companies with their owners and one
  user of the app, one id and one address free. `Populated` is what three creations leave
  behind; starting there lets three requests reach states that six would need from nothing.
  `DirectoryProofs` starts from nothing and has no bounds.
* `services`: two requests, runners, clients or processes of each component; two names where
  names must differ; `Services.cfg` gives each its bounds. Of the two folders `Calm` is the title
  of a preset and `uplifted` is what the map has for `Uplift`, so that either way of a mood to its
  playlist is taken and missed. A page of two rows
  out of four, a batch of one session out of two and a cache of one entry for two pods are
  full in the interesting moment.

### Fairness

* `PodSessions!FairSpec`: each step of a handler that has begun is weakly fair, for Node
  resumes what PostgreSQL answers; the waits for the advisory lock and for the wallet's row are
  strongly fair, for PostgreSQL serves the waiters of a lock in order. Nobody has to start a
  request, and nothing has to fail.
* `DoorWindow!FairDoorSpec`: timers fire, time passes, the client reconnects
  (`reconnectPeriod` 3 s); delivery is strongly fair, since a connection may break again
  and again. Disconnections and restarts are never required and never excluded.
* `PollingState!FairSpec`: timers fire and Redis answers or fails; the database need
  not answer. If Redis does not, a poll may never be answered: its read is outside the time
  limit and the client retries for ever (`maxRetriesPerRequest: null`,
  `packages/utils/src/redis/client.ts:18`).
* `AuthContext!FairSpec`: time passes, time limits fire, Redis and the database of the auth
  service answer or fail. The auth service need not answer an attempt.
* `Wallets!FairSpec`: a transaction's next statement is strongly fair, for PostgreSQL grants a
  row lock to its waiters in order, and a deadlock is detected.

## 4. Theorems

All are of the modules the runs check, for every value of the constants that the named
assumption allows; nothing is assumed besides. One is of a narrower start:
`DirectoryProofs` starts from an empty directory, where the run starts from `Populated`.

`PodSessionsProofs`, for all sets of pods, users, sessions and handlers, any rates, delays
and bounds, from `ConstantsAssumption`:

* `Invariant`: `Spec => []IInv`, the inductive invariant;
* `TypeCorrect`, `PodsNeverBookedTwice`, `SessionsPaidOnce`, `UnlockedSessionsAreOver`,
  `ChangesArePublished`;
* `EndDelayRespected`: `HoldRespected`, from an invariant of its own on top of `IInv`;
* `OverSessionsStayOver`, `DebitsHaveEntries`: action properties;
* `UnlocksEndActiveSession`: `UnlockEndsActiveSession`, for every delay that is not below the
  unlock's minimum (the default; below it the property fails, finding 4). Its invariant
  `UnlockInv` adds that the confirmed sessions of a pod follow one another with their end
  delays (`InTurn`), so what has ended hides no holder from a lookup that goes back no
  further; and that an unlock on its way to its update has found the one session that held
  the pod when its clock was read (`Aimed`), for its lock keeps new bookings out;
* `ImplementsPodReservations`: every step maps to a step of `PodReservations` or to
  nothing.

None of these is inductive by itself. That a pod is not booked twice rests on what a
booking in flight knows, and `IInv` says it: a transaction that is past the lock holds it
(`LockHeld`), and one past its debit holds the wallet's row and has what it paid
(`DebitCovered`); a clock that was read is not ahead of the clock (`NowIsPast`); once the
overlap check has passed, no holder of the pod can appear until the booking commits
(`ClearAhead`), because only a booking creates one, it needs the lock, and unlocks only
move ends back to a moment that is over. The proofs have one step per action of
`Next` and below it one per conjunct that the action can disturb.

`PodHardwareProofs`, of `DoorWindow`, for all pods, calls and lengths of the window, from
`DoorAssumption` (a natural length, `NoTimer` no call):

* `DoorTypeCorrect`: with it, that `doorLockTimers` never names a timer that is gone;
* `LockAlwaysComing`: `LockIsComing`, with overlaps. Its invariant `DoorInv` adds that an
  unlock handed to the client is awaited by exactly one call (`Awaited`), so that its delivery
  leaves a call under way, which will set a timer;
* `WindowsAreKept`: `WindowKept`. Its invariant `WindowInv` says of a pod without overlaps
  that an armed timer is the registered one, excludes calls under way and outlasts the
  window (`OneTimer`), and that a lock that waits for the connection finds the window over
  and precedes every unlock (`LocksFirst`), since the broker gets messages in order.

`PollingStateProofs`, for any tasks, lengths, delays, ages and bounds, from
`PollingAssumption` (natural durations, a positive second and a positive minimum time to
live, markers that are not values):

* `PollingTypeCorrect`: with it, that no write goes to Redis with an expiry of zero;
* `FetchesAlwaysSettle` and `OneFetchAtATime`, from `FetchInv`: a fetch only ever refreshes,
  a poll that is still reading has none under way, and the entry of the cache knows the
  running fetch unless it was evicted;
* `RedisFollows` and `MemoryFollows`, from `CopyInv`: while no update of a copy overlapped
  another and no refresh was lost, what executions carry between two awaits, and what Redis
  holds once no change is on its way, is what the database says, or no session at all when
  the database's is not visible any more; and what executions will answer, and what the memory
  holds, is what a refresh of the database shows at a moment that is past (`Follows`). It
  needs `PastNow` (a refresh's `now` is not ahead of the clock, so a session it left out stays
  invisible), and two lemmas on what a state of Redis is shown as: a visible session exactly
  as a refresh would answer now, countdowns and introduction included
  (`MaterializeIsFresh`), another one as idle (`MaterializeIsIdle`).

`AuthContextProofs`, for any processes, requests, executions, attempts, thresholds and
periods, from `AuthAssumption`:

* `AuthInvariant`, `AuthTypeCorrect`;
* `ContextsAreRecent`: `ContextIsRecent`. A bound on what is decided is not inductive: a copy may
  be copied again. The invariant says of each place where a copy is kept (status and role
  caches, an execution, a reply, a fetch, Redis, memory, a request) that its age, plus what is
  left of its life there, plus the lives of the copies that may still be made of it, is at
  most `Bound`. Time makes the age grow and what is left shrink by the same tick; a copy
  moves a term from the last sum to the second;
* `OneAnswerPerFetch`: `OneAnswer`, since the attempt that gives up releases its execution.

`DirectoryProofs`, for any requests, users, addresses, slugs and numbers of companies, from
`DirectoryAssumption`:

* `DirectoryInvariant`, `DirectoryTypeCorrect` (with it, that no two users share an address);
* `MembersInStep`: `MembershipsInStep`. Its invariant says what a request that lets someone
  into a company still may rely on after its checks (`Joins`: nobody is removing the company
  and it is as it was checked, or the two met and the company is in `crossed`); that a permanent
  removal has found every member who did not come meanwhile (`Lefts`); that members are users
  of the company they came to (`Keys`); and that ids are new (`Births`). A removal that is checked
  after an admission meets it, and the other way round, because both stay under way until they
  are answered (`CheckRest`);
* `PasswordsKnown`: `PasswordKnown`, from `Known`: the issued password is the first that anyone
  is told, and the account accepts it until its user chooses another;
* `FailuresAreExplained`: `FailuresExplained`. A request that met nobody is about other rows,
  addresses and slugs than all others under way (`Apart`), so what its checks found is true
  until it writes (`Reliable`, of `Sound`). What a request is about changes under it, when
  another moves its user or changes his address; so every statement is shown to add nothing
  to what anyone is about but what its own request is about already (`Reach`), to take away only
  that (`Losses`) and to reuse no id (`Gains`), of all handlers alike (`Moves`);
* `RemovalsTakeTheirOwn`: `RemovalTakesOwnUsers`. A removal deletes a list it read
  in three statements some time before. Whom it lists is of the company still, or the two met
  (`Linked`, `Met`); that takes the converse too, that once members and users are read nobody of
  the company is missing from the list (`Swept`), or another removal of the company could take
  it from him. What a read adds is one lemma for the three (`Finds`, `ReadsFind`).

`WalletsProofs`, for any finite sets of users and companies, any requests and amounts, from
`WalletsAssumption`:

* `WalletsInvariant`, `WalletsTypeCorrect` (with it, that no balance becomes negative);
* `NothingOrphaned`: `NoOrphans`. A transaction writes when it commits, so what it found
  when it read, debited or inserted must be there still, and only the locks it holds say
  so. The invariant says which those are at every step of every kind of transaction
  (`Sane`), that locks of two requests never conflict (`Exclusive`), and what the holder may
  rely on: the wallet it debited has the amount (`Funded`), the account it credits exists
  (`Received`), the row it inserts is nobody else's (`Inserted`), a removal holds the wallet
  that goes with the row it deletes (`Erasing`);
* `LedgerAlwaysBalances`: `LedgerBalances`. Every balance is its ledger's sum (`Explained`),
  and all credit granted is spent, erased or in a wallet (`Conserved`). The latter is a sum
  over a finite set: the induction theorems cannot be used, so what a sum is, what taking
  out, changing or clearing an owner does to it, is shown by a smallest set for
  which it fails (`MinimalSet`, from the library's well-foundedness of strict inclusion);
* `OthersNeverDeadlock`: `OnlyRemovalsDeadlock`. Every request that waits is on a
  `Level`, and waits only for one of a lower level (`Descends`), so a set of waiting
  requests without the removal of a company or of an administrator has a lowest one, which
  does not wait in it. Administrators' rows are the lowest: they are only shared
  unless one is being removed.

`PodHardwareProofs`, of `PodHardware`, for any pods, updates, sessions, colors and bounds and
any finite set of diffusers, from `HardwareAssumption`:

* `PublisherInvariant`, `HardwareTypeCorrect`;
* `HardwareAlwaysFollows` and `SessionAlwaysTimed`: `HardwareFollows`, `SessionTimed`. The
  publisher sends only what differs from `lastPublishedState`, so this must be what the pod
  shows when the comparison is made, and the comparison comes after an await. `Following`
  says of an undisturbed pod that either nothing is under way and it shows what was
  published last (`Steady`), or exactly one update is: until it has compared, the pod
  shows the last published state (`Comparing`); then every command still to be sent leads to the new
  state and all that are needed are among them (`Leads`); what a control handler publishes
  by itself leads there too (`Chosen`).

`ServicesProofs`, of components of `Services`, each from its own assumption
(`ServicesAssumption`) and with its own invariant:

* `CleansAllAlways`: `CleansAll`, for any processes, finite set of sessions, batch size and
  life of a session. The advisory lock is with the one that works
  (`Alone`); a renewal moves an expiry on, and none lies further away than the life of a
  session (`Expiries`); a session that was not being renewed when the job read its clock and is
  renewed later had not expired (`Renewals`); so what is chosen is expired still when
  it is deleted (`ChosenExpired`), and a batch that came out short is all there was
  (`AllChosen`, for which the sessions must be finite).
* `PanelsStayApart`: `PanelsApart`, for any panels. What a panel's own cookie holds was
  issued to it (`CookiesInv`), and of all cookies its own alone goes up under the canonical
  name (`OnlyOwnGoesUp`).
* `FailedPollsFallBack`: `PollsFallBack`, for any clients, pods, ages and sizes of the
  cache. Each pod has at most one entry, the last good answer received for it, the newest
  state unless answers crossed since (`Entries`); whatever was received has an entry or
  gave way (`Retained`).
* `RolesStandUp`: `RolesStand`, for any slugs, finite set of default roles, presets and
  requests. A role that has the slug a request has checked was given it since
  (`SlugKnown`); what a seeding has read holds still but for what it has missed
  (`SeedKnown`), and every write is missed by all others (`Later`, `KnownStill`).
* `RecordsStandUp`: `RecordsStand`, for any names, scenes and numbers of rows. A handler asks in one
  statement and writes in another. `Needs` says which questions the write rests on, and
  `Stands` that each is still to be asked or was answered well and holds now (`Holds`), unless
  a write crossed; the index on names (`IndexHolds`) and the cascade of songs (`SongsHaveLists`)
  leave a 500 no other cause.
* `WritesStand` and `PurchasesAreKept`: `WritesAsAnswered` and `PurchasesKept`, for any tables
  in view, rows and calls of the shop. A call is what is left of its script of statements
  (`Scripted`); one that nobody overlapped may rely on the rows it has found and on the links it
  has removed (`Relies`), and what one write does leaves that so for every call it does not
  touch (`Spares`). What has written its row and not answered is a product at its collections, so
  only that can fail in half (`FailKeeps`). Items go only by themselves or with their order, payments,
  products and collections only by themselves (`DoomedRows`).
* `LibraryStaysWhole`: `LibraryPlays`, for any folders (the same one may come twice), files and
  runs. A file is in the bucket before its row is (`OfPut`, `OfRows`); a run that nobody disturbed
  leaves the moods it is through with playable (`LeftPlayable`); a run that saves rows has read
  every live one of its playlist, or no runs overlapped and the new one is the first of its file
  (`OneEach`). What others do renames no playlist, moves no song and brings none back
  (`ListsStay`, `SongsStay`).
* `WalksMissNothing`: `ListsMissNothing`, for any finite set of companies and any page sizes. A
  company's place in a list without ties is the number of those not after it (`PlaceOf`); rows in
  order have each at its place (`PlacesInOrder`, `RowsInPlace`), and a list that only grows moves
  none to the front (`PlacesGrow`). So whatever stayed and has its place before the next page
  was shown (`PassesNone`), and of a list that stands still the beginning was (`ShowsInOrder`).
* `MigrationsReplayTrue`: `MigrationsReplayed`, for any journal, objects, databases and runners. A
  run goes by what is recorded (`RunKnows`), and its transaction has made of the database what
  the statements so far make of it (`MadeBy`, `SeenBy`). A migration that is not recorded
  and comes before a recorded one is passed over for good (`NoneSkipped`, `Shadowed`), so the
  one that is due comes after all that are recorded and the replay gets one more step
  (`ReplayStands`). That two replays agree is shown by a least index at which they
  differ (`AlikeThroughout`, `GreatestByKey`), since the induction theorems cannot be used.

`ControlsProofs`, of the rest of `Services`:

* `AnswersInForce`: `AnsweredInForce`, for any moods, tunes, containers, times and numbers of
  commands. The readers take the last row of each kind by statements of their own;
  the reference obeys all rows one by one, a mood taking the aroma back to its own, rows of
  the same time in either order. `ResolvedIsShown`: whichever rows may come first
  of their kinds, and whatever preset and diffuser go with them, what a reader makes of them is
  what the reference makes of some order. (Of the order that sorts by time and, in one
  time, by a rank that puts the chosen rows last: `OrderByRank`, `LatestIsLast`,
  `LastRowsStand`.) The invariant of the steps (`ReaderKnows`) says of a reader at every one of
  its statements that what it has read, and what it will, is of logs whose state was in force at
  some moment since it began (`Tells`): the present ones if nothing has changed. One append
  adds a row of one kind: they are the logs with it if that kind is still to be read, and those
  without it if it has been read. Each change is one of a few (`Change`), and each leaves that so.
* `TypesStand`: `TypesOK`, from the invariants of all components together; of the gateway
  `PollsPart` and `CookiesPart`, since either half leaves the other's state alone.

With these every invariant and every action property that a passing run checks is a theorem.
Model-checked only: liveness (`DoorRelocks`, `PollsAnswered`, `RequestsAnswered`,
`RecoversFromFailures`), which is out of the prover's reach, as are `ENABLED` and induction
over data.

## 5. Not modelled

* Configuration of libraries, Better Auth itself and its plugins, database pools (their
  statement time limit is `PodSessions!Fail`), rate limiting (a library's store), security
  headers, validation, mail templates, logging, deployment: no state of the system's own.
* Single statements on one user's rows with nothing to relate them to: favourites, history,
  profile, the read-only lists (of which `Listing` has one with every difficulty), reports.
* Numbers: prices, and rounding of `creditMinute`.
* In `PollingState`: several ommpods processes, and pods that are missing. What a second process
  adds is one more writer of the key, which `polling_stale` shows to be enough for its
  finding with one process.
* In the gateway: the WebSocket proxy, which copies frames both ways, and request rewriting.
