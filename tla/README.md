# A TLA+ model of the linkup backend

TLA+ modules, TLC configurations and TLAPS proofs for the backend of linkup, a
dating application: a FastAPI process over PostgreSQL and Redis that offers
users to each other, records likes, makes matches, runs a nightly "lobby",
carries chats over websockets, and keeps the accounts, profiles and photos of
its users.

Paths are relative to `src/app/` unless they start with `src/`.

1. [The system](#1-the-system) - inventory
2. [Modules](#2-modules) - which models what, and how
3. [Runs](#3-runs) - what TLC checks, bounds, fairness
4. [Theorems](#4-theorems) - what is proved, from what, how
5. [Where the code and its documentation part](#5-where-the-code-and-its-documentation-part)
6. [What is not modelled](#6-what-is-not-modelled)
7. [Plan](#7-plan)

## 1. The system

### How it executes

One uvicorn process (`src/Dockerfile`, `src/docker-compose.yml`) runs one
asyncio event loop. Handlers are `async def`, but most of their queries go
through **synchronous** psycopg2 (`controllers/db_controller.py:8`), so between
two awaits a handler is alone: no other handler and no other callback of the
loop runs. (What runs in threads, `send_otp` and the calls of the object store,
touches only Redis and the store.) What the code must get right is therefore

* what may happen while a handler is suspended: in a websocket send, an
  `asyncio.sleep`, an `asyncio.gather`, an asyncpg query;
* what remains when a handler that commits several times stops half-way, by a
  database error (`handle_db_errors`) or because the container is replaced
  (`src/docker-compose.prod.yml:58`, `restart: unless-stopped`);
* what an exception leaves behind in the process: dictionaries of sockets,
  global flags, Redis keys.

A psycopg2 connection returned to the pool with uncommitted work is rolled back.

### Components

| component | state | operations | hard behaviour | what makes it correct |
|---|---|---|---|---|
| **Matchmaking core**: feed, swipes, Likes-You list, matches, start of a chat, block, account deletion (`routes/actions`, `utilities/{swipe,likes,matches}`, `routes/user/get_user_data.py`) | tables `likes`, `matches`, `chats`, `user_discovery_pool`, `blocked_users`, `users.is_deleted` | get-matches, right, left, like-back, pass, received, start-chat, block, delete, preferences | a like commits, suspends in a notification, then updates the pool row in two more commits; overlapping and repeated requests; errors and restarts between commits | a mutual like connects; nobody is connected without consent; likes persist; limits hold |
| **Websocket registries** (`/ws/connections`, `/ws/chat`, `/ws/lobby`) | a dictionary user -> socket in the process, one coroutine per socket | accept, greet, receive, disconnect | reconnect before the old socket is noticed as gone; exceptions other than a disconnect | an entry belongs to a live coroutine of its user; whoever is connected is found |
| **Lobby event** (`routes/matches/lobby`, `main.py:31-48`) | `event_active`, the event's coroutine, the lobby registry, `matches` | cron start, announce, sleep 5 min, pair, tell, insert, tell | iterates a dictionary across awaits; acts on couples computed before several suspensions; a failing send | pairs disjoint and fitting; what a user is told is true; both of a couple are told |
| **Chat rooms** (`routes/chats/chat_websocket_endpoints.py`, `utilities/chat`, `fetch_chats`) | `messages`, `chat_participants.unseen_count/last_seen`, `chats.last_message_id`, chat registry | message frame, pass on, count; open, mark seen, receipt, fetch | insert, send and count are separate; opening suspends in every statement | unread messages show; none counted twice; order of a sender's messages kept |
| **Chat history pages** (`fetch_chats`, `fetch_paginated_chats`) | the client's cursor | first page, next page | messages arrive between pages; ids do not follow time | no gap between pages; scrolling ends |
| **Login attempt limit** (`utilities/exception/auth`, `routes/auth`) | a Redis counter with a time to live | check, INCR, EXPIRE, delete | two calls that may be separated by a crash; windows that meet | failures bounded; a lock-out ends |
| **Sign-up, one-time codes, password reset, tokens** (`routes/auth`, `utilities/auth`, `utilities/user`, `controllers/redis`) | Redis `otp:<email>`; email, access and refresh tokens; `users.email` and password | ask for and verify a code, sign up, reset, log in, renew, delete | nothing is used up by its use: codes and tokens end by time only; deletion frees an address | one account per address; a password goes back to a recent code; an owner who keeps trying gets in |
| **Connections** (`controllers/db_controller.py`, `main.py`, every handler) | 20 psycopg2 connections, the asyncpg pool, locks in PostgreSQL | take, execute, commit, suspend, return; restart of the database; ALTER TABLE | a synchronous statement that waits for a lock stops the loop; connections are held across awaits; dead ones are found late | no handler is suspended in a write transaction; what is taken is returned; every request ends |
| **Migrations** (`src/migrate.py`) | `schema_migrations`, the schema | read what is applied, run a file, record it, commit; serve | overlapping runs of different releases; a crash or error at every statement | once and in order; a server runs on a migrated database |
| **Uploads** (`routes/common`, `controllers/seaweedfs_controller.py`) | the bucket, `_bucket_ready`, its objects | the four upload endpoints, in steps of their threads | threads race for the bucket; the store refuses; restarts; a fetch without a timeout stops the loop | what a response names is stored; an upload ends if fetches do |
| **Profile** (`utilities/user`, `routes/user/get_user_data.py`) | the row in `users`, `user_metadata` (no unique key), preferences | register, update metadata, picture or preferences, delete | rows can be doubled; an update derives a key the request does not have; a token outlives its account | whoever is offered has a filled profile; all rows of a key agree |
| Reads (`get-connections`), sign-up options cache, cities, status, static pages, data classes | | | | not modelled, see section 6 |

How they interact:

* a swipe or like-back writes `likes` and `matches` and notifies over
  `/ws/connections`; the notification only suspends the handler, since the
  sender swallows every exception;
* the lobby reads `matches` and `chat_participants` and inserts into `matches`;
* start-chat turns a match into a chat; a block deletes matches, messages and
  chats of a pair;
* opening a chat sends a receipt over `/ws/chat`; a message on `/ws/chat` is
  stored, passed on to the other's socket and counted;
* every handler but those of Redis takes a connection from one of the two pools,
  and a migration waits for the handlers' transactions;
* a profile shows the objects that uploads returned; registering makes a user
  complete, which is what the feed looks for; deleting an account clears the
  profile, ends what the matchmaking core offers and frees the address.

The full list of components, and of what in each is hard to test, is in
`PROJECT.json` (`components`, `hazards`).

## 2. Modules

```
MatchEngine  <-- MCMatchEngine <-- MatchClaims
     ^-- MatchEngineProofs
SocketRegistry  <-- Lobby    <-- MCLobby           LobbyPairing
   |   ^            ^-- LobbyProofs (extends LobbyPairing and SocketRegistryProofs too)
   |   ^-- SocketRegistryProofs
   |-- MCSocketRegistry    ^
   `--> ChatRoom <-- MCChatRoom                    Paging
           ^-- ChatRoomProofs (extends SocketRegistryProofs and Paging too)

Uploads <-- Profile <-- ProfileProofs              Connections <-- ConnectionsProofs
LoginLimit <-- Accounts, LoginAttempts             Migrations  <-- MigrationsProofs
AccountsProofs extends Accounts and LoginAttempts

Matchmaking     <--implements--  MatchEngine       Conversation  <--implements--  ChatRoom
Releases        <--implements--  Migrations        FailureCounter <--implements-- LoginAttempts,
SocketRegistry  <--implements--  Lobby, ChatRoom                      Accounts (each address)
```

Five abstract specifications say what a component promises to whoever looks at it
from outside: Matchmaking, Conversation, Releases, FailureCounter, and, for the two
components built on it, the safety of SocketRegistry (`RegistrySafety`). They have no
suspensions, transactions or crashes between two statements; a refinement shows that
those of the code cannot be told from outside.

**MatchEngine** - the matchmaking core. An action is the part of a handler from
one commit or await to the next; `task[r]` says where the request in slot `r`
stands (`sending`, `decided`, `discarded`, `matched`, `half`). `LoopFree` is the
guard of whatever needs the event loop. `SwipeRight`, `LikeBack`, `SwipeLeft`,
`PassLike` contain the assertions that open the handlers; `ProcessLike` is
`process_like` up to its first await; `Discard`/`PostAction` are the two commits
of `update_discovery_and_post_action`, `MatchedLiker`/`MatchedLiked` the two pool
updates after a match; `Fail` and `Restart` abandon requests where they stand.
A `likes` row is a pair in `liked` or `passed`; queues are sets (the order only
affects presentation). `Expire` is the passing of 24 hours, with no code.

**Matchmaking** - the abstract specification: pressing like, passing, being
introduced, blocking, and the set of connected pairs. No tables, queues or
requests. `MatchEngine!KeepsPromise` states the refinement, with
`connected <- pairs with a match row or a chat`, `severed <- blocked`,
`passes <- passed`.

**SocketRegistry** - the dictionary and the coroutines of one websocket
endpoint; the three endpoints share the structure. `Fault` is the end of a
coroutine by an exception that does not unregister. `SendMaySucceed` and
`SendMayRaise` say what a send to a socket may do; both can hold at once.
`faulted` and `overlapped` are history variables. `ProcessKilled` ends every coroutine
and empties the dictionary; the restarts of Lobby and ChatRoom contain it.

**Lobby** extends SocketRegistry - the event's coroutine. `phase` follows
`start_waiting_period` and `send_event_to_user`; `addressee` is the socket of the
suspended send, and `Yielded` (suspended, asleep, or not running) is the guard of
everything other coroutines do. `startSize`, `expected` and `visited` model the
iteration over a dictionary that may change, as CPython does it: the iterator holds
the size at its start and how many entries it has still to return. It raises when the
size differs ("dictionary changed size during iteration"), and when it comes to an
entry after it has returned as many as there were ("dictionary keys changed during
iteration": a returned entry was removed and made again, which puts it at the end).
A dictionary that is rebuilt for want of a free slot closes the gaps of removed
entries, so that the iterator may skip some (`BehindAfter`). The pairing is the choice of a member of
`Pairings`, the maximal sets of disjoint fitting pairs.

**LobbyPairing** - the two nested loops of `get_lobby_users` over the shuffled
list, one turn of the outer loop per step; it justifies `Pairings`.

**ChatRoom** extends SocketRegistry - one room of two participants. `SendMessage`
is the handling of a frame up to its send, `PassedOn`/`PassingFails` the two ways
the send ends, with `add_to_unseen_and_last_message` and its swallowed error
inside; `Open`, `LookUpLast`, `MarkSeen`, `Notified`, `ReadRows`, `OpenFails` are
`fetch_chats` from statement to statement. An opening returns the newest messages
only (`LatestRows`, `OpenLimit`: the code's LIMIT 20), while the count it reset was
that of all; `Reached` is what has been returned and the older messages that scrolling
back from it comes to (Paging). `uncounted`, `cleared`, `read` and
`receipted` are history variables.

**Conversation** - what a chat promises its two participants: a message is stored
once, is on its way until it is counted for its recipient or lost, and a count is
cleared only when the messages it stood for are owed to the reader, who is shown the
last ones, from which the others are found by scrolling back, or loses what was owed. `ChatRoom!ConversationKept` states the refinement, with
`badge <- unseen`, `onWay <- ` the messages of suspended sends, `owed <- cleared`,
`shown <- read`, `lost <- uncounted`.

**Paging** - a client that scrolls back; messages are numbered by timestamp, and
`id` is an arbitrary permutation, since clients choose the UUIDs.

**LoginAttempts** - the counter of one email. Time is a bounded number of ticks.
The limit and the window are declared in LoginLimit, which Accounts shares.

**FailureCounter** - the same limit as a counter with a remaining life, changed by
whole logins. `LoginAttempts!CountsAsOne` maps the counter between INCR and EXPIRE to
what it was before the INCR; Accounts keeps such a counter for every address.

**Connections** - what all handlers share. A handler is the sequence of what it
asks of the pools and of PostgreSQL (`Program`): `get`, reads, writes, `commit`,
`put`, sends, and for asyncpg `lease`, queries, `release`. `loop` is the request
that keeps the event loop; a request loses it only in the awaited operations, so
that a psycopg2 statement that waits for a lock (`Execute` is not enabled) stops
everybody else. Programs differ by table only, and two writes of one table are
taken to meet in a row. `Returned` is `putconn`, with the rollback that fails on a
connection that the database has closed; `Refused` is `PoolError`; `Raise` an
exception anywhere, by way of the `finally`. `DbRestart` kills every connection;
`AskAlter`/`Alter` is the lock of an `ALTER TABLE` that a deployment runs while the
old process serves, and whose wait keeps out whoever comes later.

**Migrations** - `main()` of `migrate.py`, statement by statement, in overlapping
runs with images of different releases. What a file does is its being applied and
the locks it takes (`Locking`): two runs of such a file exclude each other until
the first commits, two runs of another meet at the primary key of
`schema_migrations`. `Deploy` gives a container a newer image.

**Releases** - what a start-up promises: the database goes through the files one by
one, and a container comes up only when the database has all files of its release.
`Migrations!ReleasesKept` states the refinement.

**Uploads** - the four upload endpoints in steps of their executor threads:
`stage[r]` is where an upload is, `part[r]` which object it stores (its own, under
a fresh key, or the picture, under the one key of its user). `ready` is the
process's flag `_bucket_ready`, which a restart forgets and the bucket survives.
The fetch of a URL (`requests.get`, without a timeout) is a stage of its own, in which
the event loop stands still: `LoopFree` is the guard of whatever a handler does, those
of Profile included, and only what threads have begun goes on.

**Profile** extends Uploads - the handlers that write the profile. As
`user_metadata` has no unique key, `meta[u][k]` is a set of values, and a read takes
one of them. Pictures and photos are taken from `given`, what the responses of
uploads gave to the user. `outOfOrder` is a history variable.

**Accounts** - codes, tokens and accounts as remaining lives. An action is a
handler; `sinceCode` and `vouched` are history variables (how long ago a code was
asked for at an address, and how long after one each password was set). Others may
fail at the login of an address; only its owner has its mail. A failed login is one
step of the counter of FailureCounter, in which the EXPIRE may be lost.

In each module the definitions called *variants* are slips the code could
contain. No specification uses them: `PROJECT.json` (`mutants`) names, for every
checked property, the slip that breaks it.

`PROJECT.json` (`map`) gives the source lines of every definition.

## 3. Runs

| run | module, configuration | properties | distinct states |
|---|---|---|---|
| `match_engine` | MCMatchEngine, `MCMatchEngine.cfg` | IInv, MutualLikeConnects, LikesPersist, KeepsPromise | 897 904 |
| `match_quota` | MCMatchEngine, `MCMatchQuota.cfg` | QueueBounded, LikeQuota, SwipeSettles | 217 846 |
| `lobby_pairing` | LobbyPairing | IsMatching, IsMaximal | 7 680 |
| `lobby` | MCLobby, `MCLobby.cfg` | LobbyInv, BothTold, ToldOnce | 244 404 |
| `lobby_return` | MCLobby, `MCLobbyReturn.cfg` | RegistryAccurate, GoneIsForgotten, EventEnds | 138 148 |
| `chat` | MCChatRoom, `MCChatRoom.cfg` | ChatInv, BadgeBounded, InFlightShows, ConversationKept | 915 570 |
| `paging` | Paging | PagingInv, ScrollEnds | 4 940 |
| `login` | LoginAttempts | TwiceTheLimit, CounterCounts, LockedOutEnds | 67 929 |
| `connections` | Connections | ConnInv, SlotsAccounted, RequestEnds | 117 410 |
| `migrations` | Migrations | MigrationInv, ReleasesKept, AllServe | 198 523 |
| `profile` | Profile (and Uploads) | ProfileInv, ShownStored, OfferedIsFilled, NoIsMeant, InOrder, UploadEnds | 311 837 |
| `accounts` | Accounts | AccountsInv, VouchedFresh, OwnerGetsIn | 178 245 |

Further instances, not among the runs: `MCChatLive.cfg`, the chat room with a second
socket of the sender instead of messages of the other side (SenderOrderKept, which is
a part of ChatInv, where a sender has two endpoints); `MCSocketRegistry.cfg`, the
registry alone with three sockets of one user and two of the other, 98 980 states.

What they show:

* **match_engine** - with two requests in flight, errors and restarts at every
  point: two likes of one pair never stand together (`MutualLikesResolved`),
  nobody is connected without having pressed like or been introduced
  (`Consent`), a mutual like connects (`MutualLikeConnects`), queues hold nobody
  already answered (`QueueSound`), a like leaves the table only for a match
  (`LikesPersist`), and the engine implements Matchmaking (`KeepsPromise`).
* **match_quota** - the limits hold although they are checked apart from the
  insert and several requests overlap; a like suspended in its notification is
  recorded as answered in the end, or the pool row was taken away.
* **lobby_pairing** - no user is paired twice, and two users who fit are never
  both left over, for every shuffle.
* **lobby** - couples stay disjoint and fitting, every result told is true, a
  finished event has told both sides of every row it inserted, and no event tells a
  user a second result, whatever users, database and other handlers do meanwhile.
  (An event that a failed send ends may leave a committed match untold.)
* **lobby_return** - a user leaves and comes back on a second socket at every
  suspension, so that the iteration meets entries that were removed and made again:
  every event ends, by its end or by an exception. Over the same behaviours, and when
  the process is killed, the dictionary is exact but for two named exceptions (a
  coroutine that ended by another exception; a user once served by two coroutines),
  and the entry of a client that left goes.
* **chat** - an unread message shows in the counter unless it is still in flight,
  its count was lost to an error, it or a newer one has been returned, or the
  request that reset the counter is about to do so: what an opening clears and does
  not return lies behind what it returns, to be scrolled back to. No message counts
  twice; the messages of a sender never served twice at once are passed on in order
  (in ChatInv); a message in flight comes to show (stated of one message of each
  sender, since no step tells two of a sender apart); the room implements
  Conversation: whatever is suspended where, count and last message change together,
  and no count goes but for a reader who is then shown the latest messages.
* **paging** - what a client holds is always an unbroken stretch up to the
  message that was last when it opened the chat; scrolling ends.
* **login** - a failed login counts in exactly one window; fewer than twice the
  limit fit in a stretch shorter than the window; a lock-out ends unless an
  EXPIRE was lost.
* **connections** - no handler is suspended with uncommitted writes, so that the
  loop never waits for the rows of a suspended handler; while `likes`, the table that
  the repository's migration alters, is altered under the running server, a statement
  waits for nothing but that migration, and the migration for nobody who is suspended
  (`NobodyStuck`: nobody waits in a circle; in `MCPoolAlter.cfg` another table is
  altered, and what is said of `likes` is not claimed); every path of every
  handler gives back what it took, and a restart of the database costs one failed
  request or one slot for each connection it kills; every request ends, also
  during that migration.
* **migrations** - whatever runs overlap, crash, or are replaced by newer ones:
  the files committed are the first ones, each once and in order, and exactly
  those recorded; the runs implement Releases, so that a server comes up only on a
  database with all files of its release;
  every container serves in the end, although runs make each other fail.
* **profile** - pictures and photos that are shown are stored, though uploads
  race for the bucket, the store refuses and the process restarts; whoever is
  complete and not deleted has a picture and every key; a status "False" belongs
  to a plain "No"; who registers first and keeps the preference that registering
  made never has two values for a key; every upload ends if every URL that is
  fetched, by any request, answers. Without that proviso it does not (section 5).
* **accounts** - no address has two accounts, through deletion and another
  sign-up; a password was set less than the two lives after a code was asked for,
  though neither code nor token is used up; an owner who keeps trying is let in again
  and again, unless an EXPIRE was lost and the limit then reached (`LockedForGood`):
  that nothing undoes this, not even a reset of the password, is proved
  (`LockOutStays`).

### Bounds

* `match_engine`: two users and two request slots, so that both sides of a pair
  and two requests of one user overlap; preferences may empty; a daily limit of
  one like, so that it is reached, and a queue of two, so that it is not (the
  other run reaches it); one page, one chat per pair; one user who may block and
  delete. Every property but the limits speaks of one pair, and what other users
  do to a pair (nothing but fill queues) is covered by the proofs for any users.
* `match_quota`: three users, of whom one is offered both others, and limits of
  one: the smallest instance in which a queue can be too long or a limit passed.
* `lobby_pairing`: four users (two disjoint couples or a bad greedy choice) with
  every set of fitting pairs and every order: 64 x 24 initial states.
* `lobby`: three users of whom one fits both others, so that somebody is left
  over; one pair that other handlers connect and block; one socket each.
* `lobby_return`: two users who fit, of whom one has an old and a new socket: the
  fewest with which an entry is removed and made again, before or behind the iterator
  and with another entry beside it. More sockets and users are left to the proofs.
* `chat`: two messages of one side and one of the other, one socket each, one
  reader, failures on; an opening returns two messages, so that one of three is cleared
  and not returned. `MCChatLive.cfg` has a second socket of the sender, which is what
  can disturb the order. Counters are bounded by the messages, which
  have unique ids.
* `paging`: five messages in pages of two: a last page that is short.
* `login`: limit 3, window 3 ticks, 8 ticks: two windows and a part of a third.
* `connections`: two requests, each any of the thirteen kinds, again and again,
  so that every kind overlaps every kind at every suspension; pools of two, which
  two requests and a leaked slot exhaust; one restart of the database; the
  proof is for any number and size.
* `migrations`: three runs, of which each may ship any of the releases 0..2; one
  file that locks and one that does not; one crash or transient error besides
  those that the runs cause each other. The proof is for any number.
* `profile`: one user (handlers touch the row of their own user only), two uploads,
  the fewest that race for the bucket and that give a second photo; the bucket
  there or not at the start. Preferences ask for a non-smoker's opposite only
  (`Wanted`): the choice of the value is of interest to one claim of section 5.
* `accounts`: one address (addresses do not interact) and two rows for it, so that
  it is deleted and signed up again; lives of 2 (code), 3 (email token), 1 and 2
  (access, refresh), in that order as in the code; window and limit of 2; an owner
  forgets the password once.

Deadlock is checked except where the system may stop in the model:
SocketRegistry and ChatRoom (sockets are used up), LobbyPairing (the loop ends),
Paging (all messages are there and fetched), LoginAttempts (time is bounded),
Migrations (all serve the newest release).

### Fairness

* MatchEngine: weak fairness of each step a handler on the loop takes next,
  since nothing else runs before it; strong fairness of the resumption of a
  suspended handler, because asyncio's ready queue is first-in first-out and a
  send ends, if need be by the websocket's ping timeout. Users never have to act.
* SocketRegistry: weak fairness of the greeting and of noticing that a client
  went (uvicorn's ping timeout). Clients never have to leave.
* Lobby: weak fairness of the event's next step, sends included. In `lobby_return`
  also strong fairness of an endpoint's greeting and of noticing that a client went,
  as the endpoints stand still while the event's coroutine runs (`LobbyLiveSpec`).
* ChatRoom: weak fairness of the end of a send and of the steps of a request.
* Paging: weak fairness of the next page (`ScrollEnds` is about a client that
  goes on scrolling).
* LoginAttempts: weak fairness of EXPIRE after INCR and of time.
* Connections: strong fairness of each request's next step: the loop's ready
  queue, the waiters of the asyncpg pool and PostgreSQL's lock queues are
  first-in first-out, and a send ends. Weak fairness of a granted ALTER TABLE.
  Exceptions and restarts never have to happen.
* Migrations: strong fairness of each run's next step: the database answers, a
  lock goes to those who wait for it, and docker restarts a container whose
  start failed (`restart: unless-stopped`). Crashes are bounded; failures that runs
  cause each other are not. A run by hand is treated as a container: that somebody
  starts it again is assumed of it, and is not docker's doing.
* Uploads: weak fairness of each upload's next step; a call of the store ends,
  with an answer or an error. The fetch of a URL has no fairness, as
  `requests.get` has no timeout: that fetches end is a premise of `UploadEnds`. The
  liveness of the other modules is, in the same way, that of a loop no fetch stops.
* Accounts: weak fairness of time; `OwnerGetsIn` is about an owner who keeps trying,
  whose attempts (to ask for a code, verify it, sign up, reset, log in) are strongly
  fair, because others may lock the address in between. That an EXPIRE succeeds is not
  assumed.

## 4. Theorems

All are proved by TLAPS for every value of the constants. The assumptions are the
named ASSUMEs of the modules: finite sets of users (where cardinalities matter),
markers such as `NoSocket` outside the sets they are added to, limits that are
natural numbers.

| theorem | states |
|---|---|
| `MatchEngineProofs!Invariance`, `TypeCorrect` | `Spec => []IInv`, `Spec => []TypeOK` |
| `MatchEngineProofs!MatchmakingSafe` | mutual likes resolved, consent, mutual likes connect |
| `MatchEngineProofs!LikesPersistAlways` | the action property LikesPersist |
| `MatchEngineProofs!LikeQuotaHolds`, `QueueBoundedHolds` | the two limits |
| `MatchEngineProofs!Refinement` | `Spec => Promise!Spec` |
| `SocketRegistryProofs!RegistryAccurateAlways` | RegistryAccurate |
| `LobbyProofs!LobbyImplementsRegistry`, `ChatRoomProofs!ChatImplementsRegistry` | `LobbySpec => RegistrySafety`, `ChatSpec => RegistrySafety` |
| `LobbyProofs!PairingMatches`, `PairingMaximal` | the couples of LobbyPairing are a maximal matching |
| `LobbyProofs!PairingYieldsPairings` | the loop ends in a member of `Lobby!Pairings` |
| `LobbyProofs!LobbyInvariance`, `BothToldAlways` | LobbyInv, with results that are true; both are told |
| `LobbyProofs!ToldOnceAlways` | the action property ToldOnce |
| `ChatRoomProofs!ChatInvariance`, `BadgeShowsAlways`, `SenderOrderAlways` | ChatInv and its two user-visible parts, for any limit of an opening |
| `ChatRoomProofs!BadgeBoundedAlways` | BadgeBounded: no message counts twice |
| `ChatRoomProofs!ChatRefines` | ChatRoom implements Conversation |
| `ChatRoomProofs!PagingInvariance` | the pages join |
| `ConnectionsProofs!ConnInvAlways`, `SlotsAlwaysAccounted` | ConnInv (with the absence of deadlock), SlotsAccounted, for any pools and number of requests |
| `MigrationsProofs!MigrationInvariance`, `ServedMigratedAlways` | MigrationInv; servers run on migrated databases |
| `MigrationsProofs!MigrationsRefine` | Migrations implements Releases |
| `ProfileProofs!ProfileInvAlways`, `ShownStoredAlways` | ProfileInv; what is shown is stored |
| `ProfileProofs!OfferedAlwaysFilled`, `NoIsAlwaysMeant`, `InOrderAlways` | the profile invariants |
| `AccountsProofs!AccountsInvAlways`, `AlwaysVouchedFresh` | AccountsInv; VouchedFresh |
| `AccountsProofs!TwiceTheLimitAlways`, `CounterCountsAlways` | the two invariants of LoginAttempts |
| `AccountsProofs!LoginCountsAsOne` | LoginAttempts implements FailureCounter, lost windows included |
| `AccountsProofs!LockOutStays` | an address locked after a lost EXPIRE stays locked, whatever is reset, deleted or signed up |

The arguments:

* **MatchEngine.** `MutualLikesResolved` and `Consent` are inductive only with
  what is known of likes that are gone: `LikesSaid` (a standing like was
  pressed), `OneRowPerPair` (no pair has a TRUE and a FALSE row) and `NoLikeLost`
  (a like that was pressed stands, or found a FALSE row of its own pair, or became
  a connection, or a block ended it). `MutualLikeConnects` follows from `IInv`:
  if both pressed like and neither passed nor blocked, `NoLikeLost` leaves two
  standing likes, which `MutualLikesResolved` excludes, or a connection. One
  lemma per action; a step of a request changes neither likes nor links, which
  is proved once (`LinksKept`, `PoolKept`). `LikeQuota` and `QueueBounded` are
  inductive together with `IInv` by cardinality lemmas. For the refinement each
  engine step is mapped to a step of Matchmaking or a stutter, using `IInv`.
* **SocketRegistry.** `RegistryAccurate` with the types is inductive: accepting
  a second socket marks the user overlapped, a fault marks the socket. Every step of
  Lobby and of ChatRoom is a step of the registry or leaves its variables alone, so
  that both inherit the invariant instead of proving it again.
* **LobbyPairing.** `IsMaximal` needs `PassedOver`: a user the loop has passed
  unmatched has nobody left to fit, now or later. With `PairingMatches` it gives
  `PairingYieldsPairings`, which joins the loop to the choice in Lobby.
* **Lobby.** `EventProgress` ties phase, couples, introduced rows and results
  together; in particular, whoever is in an introduced pair has been told or is
  the one whose message follows (`second`), from which `BothTold` follows when
  the event is finished. `ToldOnce` needs `NotYetTold`: whoever is left over, in a
  couple or next to be told has no result. It stays so because the couples and the
  introduced pairs are disjoint, and those left over are in neither.
* **ChatRoom.** `BadgeShows` needs that the endpoint that passes a message on is
  its sender's and still there (`FlightsServed`), that a request that marks has
  found a message (`LookedUp`), and the registry's invariant; `SenderOrderKept`
  needs `RegistryAccurate` to know that a sender never overlapped has one
  endpoint. That what is reached stays reached is `ReachedKept` (messages are only
  appended), and that an opening reaches every message of the room `LastReaches`: the
  page ends with the last one. The registry's lemmas are reused. `BadgeBounded` is inductive with
  `BadgeIInv`: the stored messages are finitely many, a message is in flight on one
  endpoint only (`FlightsOnce`) and was stored before; the step that counts moves
  one message from those in flight to those passed on. For the refinement, the end
  of a send is `Arrive`, as the message was in flight on that endpoint only; a frame
  is `Say`, on its way or settled at once; what a failed request cleared and did not
  return is what `Fail` loses.
* **Paging.** A page is an interval ending before its cursor (`PageIsInterval`).
* **Connections.** The invariant needs `WritersCommit`: a request with
  uncommitted writes has the loop, a live connection, and a write or a commit as
  its next operation. This holds because the thirteen programs are `Sound` (a
  write is followed by a write or a commit), which is proved of each program.
  `PoolBounded` is by cardinality. `NobodyStuck` needs `LikesBrief`: whoever holds a
  lock on `likes` is writing, or has the loop and commits or returns its connection
  next, because every program is `Brief` with it. Then the request whose turn it is
  is the only one that can hold `likes`, and a migration that it waits for waits for
  nobody. `SlotsAccounted` needs `TakenInPlace`: what a
  request has taken is what its program holds at its position (`Holds`, `Leases`),
  and nothing is held at the end of a program that is `Balanced`, which is proved
  of the thirteen.
* **Migrations.** `OnceInOrder` needs what a run knows (`LoopSound`): what it read
  as applied is, the files before its own are, and the row it has inserted and not
  yet committed is of a file that is not, and of no other run's. For the refinement,
  a run's `Commit` is the only step that migrates (`CommitsNext`: it appends the file
  after the last), and a run that serves has skipped or committed all of its files.
* **Profile.** `ShownStored` needs `ObjectsOwned` and `GivenStored` (what a response
  named, or an upload that has stored its object will name, is stored) and
  `BucketThere` (past the look for the bucket there is one). The others are one
  conjunction (`Filled`): `InOrder` says that a row implies the preference, whose
  uniqueness keeps a second registration out.
* **Accounts.** `VouchedFresh` needs `LivesCounted`: the remaining life of a code and
  the time since it was asked for add up to at most a code's life, and those of an
  email token to the two lives. `LockOutStays` is a stable predicate: at the limit no
  login gets as far as to reset the counter, and only a window's end would take it
  away. That each address of Accounts behaves as FailureCounter, the step that
  LoginAttempts implements with its two calls, is `AddressesKeepLimit`.
* **LoginAttempts.** Failures are numbered, so that `Current` are those the counter
  has counted and `Earlier` those of keys that are gone. `WindowSound`: a key goes a
  window after the first failure it counts, which is what keeps `EarlierFew` (fewer
  than the limit of earlier failures in a shorter stretch) when a key goes. At
  most the limit are current: together fewer than twice the limit. For the
  refinement INCR is a stutter, and what follows it, an EXPIRE, none, or a lost one, is
  the failure: with its window, without a new one, or with a window that never began.

Only model-checked, and why: the liveness properties `SwipeSettles`,
`GoneIsForgotten`, `EventEnds`, `InFlightShows`, `ScrollEnds`, `LockedOutEnds`,
`RequestEnds`, `AllServe`, `UploadEnds`, `OwnerGetsIn`: liveness under fairness is
out of the prover's reach. All other properties of the runs are proved.

## 5. Where the code and its documentation part

The modelling met statements of the repository that the code does not keep. Each
is a property beside those of the runs, with a configuration in which TLC finds the
behaviour. A configuration with several claims has one of them active; the others
are commented out and take their turn.

| configuration (module), property | claim | the code |
|---|---|---|
| `MCMatchClaims.cfg` (MatchClaims), `PendingAwaitsResponse` | the Likes-You list holds users who "haven't been responded to yet" (`likes_utilities.py:9-11`) | the later like of a match survives and is listed once the match has become a chat |
| `BadgeClearedByViewing` | the badge is "cleared when recipient views the queue" (`src/schema.sql:123`) | it counts likes the list leaves out |
| `AnsweredNotOffered` | `handle_post_action` adds to already_interacted (`swipe_utilities.py:24`) | not for a user without a pool row, who is offered again whom they answered |
| `BlockedNotOffered` | a block is "to essentially prevent them seeing each other" (`routes/user/get_user_data.py:129`) | the blocker's queue keeps the blocked user, and later queues ignore blocks |
| `OneChatPerPair` | a dictionary "other_user_id -> chat_id" (`matches_endpoint.py:101`) | a pair that matches again can start a second chat |
| `MCLikeClaims.cfg` (MatchClaims), `LikeRecorded` | "Records a right-swipe/like-back" (`swipe_utilities.py:72`) | ON CONFLICT DO NOTHING drops a like on someone passed on before |
| `RightSwipesPerDay` | DAILY_LIKE_LIMIT "right-swipes within the last rolling 24 hours" (`swipe_exceptions.py:64`) | a like consumed by a match is no longer counted |
| `MCReconnect.cfg` (MCSocketRegistry), `ServedIsRegistered` | "handle disconnects gracefully" (`src/README.md:110`) | the late end of an old socket unregisters the new one |
| `MCLobbyActive.cfg` (MCLobby), `ActiveMeansEvent` | "Send current event status" (`lobby_websocket_endpoints.py:236`) | `event_active` stays set after an exception while the event is announced |
| `MCLobbyClaims.cfg` (MCLobby), `EveryoneAnswered` | "Send event messages (matched/not-matched)" (`:115`) | when one of a couple left, the other hears nothing |
| `NewLinksOnly` | "ensure no previous chat/match" (`:64`) | a couple connected by a swipe during the announcements gets a second row |
| `BlockedNotIntroduced` | a block is to "prevent them seeing each other" | the pairing does not look at blocks, and a block deletes the rows it looks at |
| `MCChatClaims.cfg` (MCChatRoom), `LastMessageIsLast` | "last message ... of the chats" (`matches_endpoint.py:72`) | the send that ends last decides, not the message that came last |
| `MissedIsCounted` | "no messages are lost" (`src/README.md:110`) | a message whose send raises is stored but never counted |
| `ClearedIsReturned` | an opening returns what it clears the count of | it returns the newest 20 messages (`chats_endpoints.py:174`) and clears the count of all (`:139-143`) |
| `BadgeNotStale` | "unseen counters" (`src/schema.sql:94`) | a reader who has answered keeps the count |
| `MCChatReceipt.cfg` (MCChatRoom), `ReceiptMeansRead` | "read receipts" (`src/README.md:28`) | the receipt goes out before the messages are fetched |
| `MCPagingEnd.cfg` (Paging), `EndIsBeginning` | `has_more` (`routes/chats/chats_endpoints.py:244-249`) | it compares ids, which do not follow the timestamps that order the pages: a client may be told that it has everything while older messages remain |
| `MCLoginClaims.cfg` (LoginAttempts), `LaterIsAllowed` | "Please try again later." (`auth_exceptions.py:20`) | a counter whose EXPIRE was lost locks the email for ever |
| `RollingWindow` | a "rolling" window (`auth_exceptions.py:13`) | the window is fixed by its first failure |
| `MCCodeClaims.cfg` (Accounts), `FiveMinutes` | "valid for 5 minutes" (`auth_utilities.py:109`) | the key lives for 10 (`:146`) |
| `OneTime` | "one-time password" (`:103`) | a code can be verified again until it expires |
| `MCPoolSlot.cfg` (Connections), `AlwaysReturned` | "Always return the connection to the pool" (`user_db_utilities.py:126`) | when the database restarts under a suspended transaction, `putconn` raises in its rollback and the slot is gone |
| `MCPoolAlter.cfg` (Connections), `RequestEnds` | a migration that alters `users` or what hangs on it, where the repository's alters `likes` | a handler suspended in a send after a read of the table keeps the migration waiting, the migration keeps the next statement waiting, and that stops the loop: a caution for later migrations, not a fault of the present one |
| `MCProfileClaims.cfg` (Profile), `StatusDerived` | smoking_status is derived from smoking_info | it is derived anew from every request, also from one without the answer |
| `TwoPhotos` | "At least two photos are required" (`register_request_model.py:58`) | of registering, not of updates |
| `ClosedIsEmpty` | "Anonymize user data" (`get_user_data.py:51`) | a token that is still valid fills the row again |
| `PictureFits` | a picture comes with the blurhash of its image | an upload that ends between storing the picture under its fixed key and the response replaces the image and not the blurhash |
| `OwnUploadEnds` | an upload that fetches nothing does not depend on URLs | another request's `requests.get` without a timeout (`common_endpoints.py:269`) stops the event loop |
| `WishCounts` | preferences are a "soft ranking signal" | a boolean preference is stored as 'true', the metadata as 'True', and `preference_score` compares texts |

## 6. What is not modelled

* The order in which candidates, likers and chats are listed, profiles, photos,
  `times_queued`, and the texts and fields of messages: no property is about them.
* What an HTTP answer contains, except where a property needs it (messages
  returned by `fetch_chats`, `has_more`).
* Reads that change nothing (`get-connections`, `/me`, cities, status): they make one
  answer from tables whose writers are modelled, without a suspension.
* The sign-up options cache: a read-through cache of one list, which nothing else
  depends on.
* Signing and hashing, the digits of a code, the mail, the strength of passwords:
  the model says when a token or code is accepted, and for how long.
* Image processing (one step that succeeds or fails), the temporary files of
  uploads, the object stores of earlier releases (clients that no handler stores
  with), signed URLs. That signing may fail is in `OpenFails` and in `Raise`.
* Reports, which are inserted and never read.
* Frames a client forges in another's name; typing and seen frames, which are
  passed on and change nothing.
* What the SQL of a migration does beyond being applied and its locks.
* In all models but Connections, how many connections are left: a handler has one
  or fails.
* Two lobby events at once (the job runs once a day and an event takes minutes).
* Equal timestamps of two messages.

## 7. Plan

Done, in this order: the matchmaking core with its abstract specification; the
registries; the lobby on top of them; chat rooms on top of them; pages; the
login limit; connections; migrations; uploads and the profile over them; accounts.

Next, most important first:

1. Compose the lobby with MatchEngine: `Lobby!AnnounceCouple` against
   `MatchEngine!LobbyMatch`, by refinement.
2. Compose Accounts with Profile: what a token of a deleted row may still write,
   and when the last such token ends.
3. `get-connections` and the feed's detail reads: which of the rows that the models
   keep apart a client sees together.
4. The sign-up options cache, read through with a fallback.
5. Proofs: an abstract queue of connections that Connections implements; an abstract
   album that Profile over Uploads implements.
