----------------------------- MODULE MatchEngine -----------------------------
(***************************************************************************)
(* The matchmaking core of the backend: who is offered to whom, who liked  *)
(* or passed on whom, and which pairs end up matched or chatting.          *)
(*                                                                         *)
(* The tables likes, matches, chats, user_discovery_pool, blocked_users,   *)
(* users.is_deleted and user_preferences are shared by the HTTP handlers   *)
(* of one asyncio process.  A handler queries through synchronous psycopg2,*)
(* so no other handler runs until it awaits; but it commits several times, *)
(* and an error or a restart of the process can fall between two commits.  *)
(* An action is therefore the part of a handler from one commit or await   *)
(* to the next, and task[r] says where the request in slot r stands.       *)
(*                                                                         *)
(* Notifications reach this module only as the suspension they cause: the  *)
(* sender swallows every exception and writes to no table.                 *)
(***************************************************************************)
EXTENDS Integers, FiniteSets

CONSTANTS
  Users,            \* registered users, profiles complete
  Requests,         \* slots for swipe requests in flight
  Tastes,           \* Tastes[u]: the candidate sets u's preferences may select
  QueueLimit,       \* length a match_queue is filled to
  DailyLikeLimit,   \* DAILY_LIKE_LIMIT
  PageSize,         \* PAGE_SIZE of the Likes-You list
  LobbyPairs,       \* pairs the lobby may introduce
  Blockers,         \* users who may block (bounds exploration)
  Leavers,          \* users who may delete their account (bounds exploration)
  MaxChats,         \* chats a pair may start (bounds exploration)
  MayFail           \* whether database errors and restarts are explored

Pairs == {p \in Users \X Users : p[1] # p[2]}
Edge(p) == {p[1], p[2]}
Edges == {Edge(p) : p \in Pairs}
Reverse(p) == <<p[2], p[1]>>

ASSUME UsersFinite == IsFiniteSet(Users)
ASSUME LimitsAssumption == {QueueLimit, DailyLikeLimit, PageSize, MaxChats} \subseteq Nat
ASSUME TastesAssumption == Tastes \in [Users -> SUBSET SUBSET Users]
ASSUME LobbyAssumption == LobbyPairs \subseteq Edges
ASSUME MayFailAssumption == MayFail \in BOOLEAN

VARIABLES
  liked,       \* pairs <<liker, liked>> with a likes row, liked = TRUE
  passed,      \* pairs <<liker, liked>> with a likes row, liked = FALSE
  unseen,      \* the liked rows whose seen_at is NULL
  recent,      \* the liked rows created within the last 24 hours
  matches,     \* pairs with at least one row in matches
  chats,       \* number of chats each pair shares
  pool,        \* users with a row in user_discovery_pool
  queue,       \* match_queue of that row
  interacted,  \* already_interacted of that row
  blocked,     \* pairs <<blocker, blocked>>
  deleted,     \* users with is_deleted = TRUE
  taste,       \* users selected by university, gender and u's preferences
  task,        \* the swipe request in each slot
  said,        \* history: pairs <<a, b>> where a has ever pressed like on b
  today,       \* history: likes pressed within the last 24 hours
  introduced   \* history: pairs the lobby has ever matched

likeRows == <<liked, passed, unseen, recent>>
poolRows == <<pool, queue, interacted>>
links    == <<matches, chats, introduced>>
people   == <<blocked, deleted, taste>>
history  == <<said, today>>
vars     == <<likeRows, poolRows, links, people, history, task>>

(***************************************************************************)
(* A swipe request: idle, or at one of the points where it has committed   *)
(* something and has more to do.                                           *)
(*   sending    suspended on the notification of a like that did not match *)
(*   decided    the FALSE row is committed, the pool row not yet updated   *)
(*   discarded  the candidate has left the queue, interaction not recorded *)
(*   matched    the match is committed, no pool row updated                *)
(*   half       the liker's pool row is updated, the other's not           *)
(***************************************************************************)
OnLoopPcs == {"decided", "discarded", "matched", "half"}
Idle == [pc |-> "idle"]
Tasks == {Idle} \union [pc : OnLoopPcs \union {"sending"}, pair : Pairs]

Running == {r \in Requests : task[r].pc \in OnLoopPcs}

(***************************************************************************)
(* The event loop is free: no handler is between two of its awaits.        *)
(***************************************************************************)
LoopFree == Running = {}

(* Variants of the definitions below, named in PROJECT.json: each is a slip the
   code could contain, and each must break a property. *)
LikesUsedOnMe(u) == {p \in recent : p[2] = u}
RoomIgnoringQueue(queued) == QueueLimit
InsertedAlways(p) == {p}
ReciprocatedIfRecent(p) == Reverse(p) \in recent
ReciprocatedByAnyRow(p) == Reverse(p) \in liked \/ Reverse(p) \in passed
RecordPassOverwriting(r, p) ==
  /\ passed' = passed \union {p}
  /\ liked' = liked \ {p} /\ unseen' = unseen \ {p} /\ recent' = recent \ {p}
  /\ task' = [task EXCEPT ![r] = [pc |-> "decided", pair |-> p]]
  /\ UNCHANGED <<poolRows, links, people, history>>
HandlePostActionOnOther(u, v) ==
  /\ queue' = [queue EXCEPT ![u] = @ \ {v}]
  /\ interacted' = [interacted EXCEPT ![v] = IF v \in pool THEN @ \union {u} ELSE @]
  /\ UNCHANGED <<likeRows, pool, links, people, history>>

LikesUsed(u) == {p \in recent : p[1] = u}
HasRow(p) == p \in liked \/ p \in passed
IsBlocked(a, b) == <<a, b>> \in blocked \/ <<b, a>> \in blocked

(* The Likes-You list of u: get_pending_liker_ids. *)
Pending(u) ==
  {v \in Users : /\ <<v, u>> \in liked
                 /\ v \notin deleted
                 /\ ~HasRow(<<u, v>>)
                 /\ ~IsBlocked(u, v)
                 /\ {u, v} \notin matches}

(* The candidates a feed request may add to what is already queued. *)
Candidates(u, queued) == (taste[u] \ deleted) \ (interacted[u] \union {u} \union queued)

Init ==
  /\ liked = {} /\ passed = {} /\ unseen = {} /\ recent = {}
  /\ matches = {} /\ chats = [e \in Edges |-> 0]
  /\ pool = {}
  /\ queue = [u \in Users |-> {}]
  /\ interacted = [u \in Users |-> {}]
  /\ blocked = {} /\ deleted = {}
  /\ taste \in [Users -> SUBSET Users] /\ \A u \in Users : taste[u] \in Tastes[u]
  /\ task = [r \in Requests |-> Idle]
  /\ said = {} /\ today = {} /\ introduced = {}
-----------------------------------------------------------------------------
(* How many candidates a queue takes before it is full. *)
Room(queued) == QueueLimit - Cardinality(queued)

(* GET /matches/get-matches.  The queue is topped up to QueueLimit; a
   refresh first empties it, in the same transaction.  When nobody is left
   to show, the handler returns without committing and the transaction, the
   emptying included, is rolled back.  Room keeps the merged queue within
   QueueLimit (QueueBounded), so the final cut of the merge removes nobody. *)
GetMatches(u, refresh) ==
  /\ LoopFree
  /\ LET queued == IF refresh THEN {} ELSE queue[u]
     IN \E new \in SUBSET Candidates(u, queued) :
          /\ Cardinality(new) <= Room(queued)
          /\ Cardinality(new) = Room(queued) \/ new = Candidates(u, queued)
          /\ (queued \ deleted) \union new # {}
          /\ pool' = pool \union {u}
          /\ queue' = [queue EXCEPT ![u] = queued \union new]
  /\ UNCHANGED <<likeRows, interacted, links, people, history, task>>

(* The row a like inserts: none if the pair has one (ON CONFLICT DO NOTHING). *)
Inserted(p) == IF HasRow(p) THEN {} ELSE {p}

(* The other side has a standing like; a match consumes it. *)
Reciprocated(p) == Reverse(p) \in liked
Consumed(p) == IF Reciprocated(p) THEN {Reverse(p)} ELSE {}

(* process_like up to its first await, for a request in slot r: the like is
   inserted unless a row is already there; if the other side has a standing
   like, that like is consumed and a match row inserted. *)
ProcessLike(r, p) ==
  /\ said' = said \union {p}
  /\ today' = today \union {p}
  /\ liked'  = (liked  \union Inserted(p)) \ Consumed(p)
  /\ unseen' = (unseen \union Inserted(p)) \ Consumed(p)
  /\ recent' = (recent \union Inserted(p)) \ Consumed(p)
  /\ matches' = IF Reciprocated(p) THEN matches \union {Edge(p)} ELSE matches
  /\ task' = [task EXCEPT ![r] =
                [pc |-> IF Reciprocated(p) THEN "matched" ELSE "sending", pair |-> p]]
  /\ UNCHANGED <<passed, chats, introduced, poolRows, people>>

(* The checks that open a handler, in the section that writes: nothing can
   change between a check and the write it guards. *)
InMatchQueue(p) == p[2] \in queue[p[1]]
HasLikedMe(p) == Reverse(p) \in liked
UnderDailyLikeLimit(u) == Cardinality(LikesUsed(u)) < DailyLikeLimit

(* POST /swipe/right *)
SwipeRight(r, p) ==
  /\ LoopFree /\ task[r] = Idle
  /\ InMatchQueue(p)
  /\ UnderDailyLikeLimit(p[1])
  /\ ProcessLike(r, p)

(* POST /likes/{liker_id}/like-back *)
LikeBack(r, p) ==
  /\ LoopFree /\ task[r] = Idle
  /\ HasLikedMe(p)
  /\ UnderDailyLikeLimit(p[1])
  /\ ProcessLike(r, p)

(* A FALSE row is committed, unless the pair already has a row. *)
RecordPass(r, p) ==
  /\ passed' = IF HasRow(p) THEN passed ELSE passed \union {p}
  /\ task' = [task EXCEPT ![r] = [pc |-> "decided", pair |-> p]]
  /\ UNCHANGED <<liked, unseen, recent, poolRows, links, people, history>>

(* POST /swipe/left *)
SwipeLeft(r, p) ==
  /\ LoopFree /\ task[r] = Idle
  /\ InMatchQueue(p)
  /\ RecordPass(r, p)

(* POST /likes/{liker_id}/pass *)
PassLike(r, p) ==
  /\ LoopFree /\ task[r] = Idle
  /\ HasLikedMe(p)
  /\ RecordPass(r, p)
-----------------------------------------------------------------------------
(* array_remove on u's queue; a user without a pool row is left alone. *)
Dequeued(u, v) == [queue EXCEPT ![u] = IF u \in pool THEN @ \ {v} ELSE @]

(* handle_post_action(u, v): one UPDATE of u's pool row, then a commit. *)
HandlePostAction(u, v) ==
  /\ queue' = Dequeued(u, v)
  /\ interacted' = [interacted EXCEPT ![u] = IF u \in pool THEN @ \union {v} ELSE @]
  /\ UNCHANGED <<likeRows, pool, links, people, history>>

(* First commit of update_discovery_and_post_action: at once after a pass,
   or when the loop resumes a like whose notification is done. *)
Discard(r) ==
  /\ \/ task[r].pc = "decided"
     \/ task[r].pc = "sending" /\ LoopFree
  /\ queue' = Dequeued(task[r].pair[1], task[r].pair[2])
  /\ task' = [task EXCEPT ![r].pc = "discarded"]
  /\ UNCHANGED <<likeRows, pool, interacted, links, people, history>>

(* Second commit of update_discovery_and_post_action; the request answers. *)
PostAction(r) ==
  /\ task[r].pc = "discarded"
  /\ HandlePostAction(task[r].pair[1], task[r].pair[2])
  /\ task' = [task EXCEPT ![r] = Idle]

(* After a match, the liker's pool row and then the other's are updated.
   What follows (two notifications, the answer) changes no table. *)
MatchedLiker(r) ==
  /\ task[r].pc = "matched"
  /\ HandlePostAction(task[r].pair[1], task[r].pair[2])
  /\ task' = [task EXCEPT ![r].pc = "half"]

MatchedLiked(r) ==
  /\ task[r].pc = "half"
  /\ HandlePostAction(task[r].pair[2], task[r].pair[1])
  /\ task' = [task EXCEPT ![r] = Idle]

(* A database error: the exception leaves the handler, what it committed
   stays and the rest is never done. *)
Fail(r) ==
  /\ MayFail
  /\ \/ task[r].pc \in OnLoopPcs
     \/ task[r].pc = "sending" /\ LoopFree
  /\ task' = [task EXCEPT ![r] = Idle]
  /\ UNCHANGED <<likeRows, poolRows, links, people, history>>

(* The process dies and the container is started again: every request in
   flight is lost, the tables stay. *)
Restart ==
  /\ MayFail
  /\ \E r \in Requests : task[r] # Idle
  /\ task' = [r \in Requests |-> Idle]
  /\ UNCHANGED <<likeRows, poolRows, links, people, history>>
-----------------------------------------------------------------------------
(* mark_likes_seen *)
MarkedSeen(u, page) == unseen \ {<<v, u>> : v \in page}

(* GET /likes/received: any page of the list; the likes on it become seen. *)
GetReceivedLikes(u) ==
  /\ LoopFree
  /\ \E page \in SUBSET Pending(u) :
       /\ Cardinality(page) <= PageSize
       /\ unseen' = MarkedSeen(u, page)
  /\ UNCHANGED <<liked, passed, recent, poolRows, links, people, history, task>>

(* POST /chats/start-chat: every match row of the pair becomes one chat. *)
StartChat(e) ==
  /\ LoopFree
  /\ e \in matches
  /\ chats[e] < MaxChats
  /\ matches' = matches \ {e}
  /\ chats' = [chats EXCEPT ![e] = @ + 1]
  /\ UNCHANGED <<likeRows, poolRows, introduced, people, history, task>>

(* POST /user/block, one transaction.  A user blocking themself is left out. *)
BlockUser(p) ==
  /\ LoopFree
  /\ p[1] \in Blockers
  /\ blocked' = blocked \union {p}
  /\ matches' = matches \ {Edge(p)}
  /\ chats' = [chats EXCEPT ![Edge(p)] = 0]
  /\ pool' = pool \ {p[2]}
  /\ queue' = [queue EXCEPT ![p[2]] = {}]
  /\ interacted' = [interacted EXCEPT ![p[2]] = {}]
  /\ UNCHANGED <<likeRows, introduced, deleted, taste, history, task>>

(* DELETE /user/delete.  The access token stays valid, so the other actions
   remain open to a deleted user. *)
DeleteAccount(u) ==
  /\ LoopFree
  /\ u \in Leavers
  /\ deleted' = deleted \union {u}
  /\ taste' = [taste EXCEPT ![u] = {}]
  /\ pool' = pool \ {u}
  /\ queue' = [queue EXCEPT ![u] = {}]
  /\ interacted' = [interacted EXCEPT ![u] = {}]
  /\ UNCHANGED <<likeRows, links, blocked, history, task>>

(* POST /user/update/preferences *)
UpdatePreferences(u) ==
  /\ LoopFree
  /\ \E t \in Tastes[u] : taste' = [taste EXCEPT ![u] = t]
  /\ UNCHANGED <<likeRows, poolRows, links, blocked, deleted, history, task>>

(* The lobby commits a match of two users who met there (module Lobby). *)
LobbyMatch(e) ==
  /\ LoopFree
  /\ matches' = matches \union {e}
  /\ introduced' = introduced \union {e}
  /\ UNCHANGED <<likeRows, poolRows, chats, people, history, task>>

(* 24 hours have passed since a like.  No code runs: the counting queries
   compare created_at with NOW(). *)
Expire(p) ==
  /\ p \in today
  /\ recent' = recent \ {p}
  /\ today' = today \ {p}
  /\ UNCHANGED <<liked, passed, unseen, poolRows, links, people, said, task>>
-----------------------------------------------------------------------------
UserStep ==
  \/ \E u \in Users :
       \/ \E refresh \in BOOLEAN : GetMatches(u, refresh)
       \/ GetReceivedLikes(u)
       \/ DeleteAccount(u)
       \/ UpdatePreferences(u)
  \/ \E p \in Pairs :
       \/ BlockUser(p)
       \/ Expire(p)
       \/ \E r \in Requests :
            SwipeRight(r, p) \/ LikeBack(r, p) \/ SwipeLeft(r, p) \/ PassLike(r, p)
  \/ \E e \in Edges : StartChat(e)
  \/ \E e \in LobbyPairs : LobbyMatch(e)

RequestStep(r) == Discard(r) \/ PostAction(r) \/ MatchedLiker(r) \/ MatchedLiked(r)

Next ==
  \/ UserStep
  \/ \E r \in Requests : RequestStep(r) \/ Fail(r)
  \/ Restart

Spec == Init /\ [][Next]_vars

(***************************************************************************)
(* The loop runs what is ready.  A step of the handler that holds the loop *)
(* stays enabled until taken; a suspended handler is resumed in its turn   *)
(* although other handlers keep taking the loop, since asyncio's ready     *)
(* queue is first-in first-out and a send ends, if need be by the          *)
(* websocket's ping timeout.  Nothing obliges users to act.                *)
(***************************************************************************)
Fairness ==
  \A r \in Requests : SF_vars(Discard(r)) /\ WF_vars(PostAction(r))
                        /\ WF_vars(MatchedLiker(r)) /\ WF_vars(MatchedLiked(r))

FairSpec == Spec /\ Fairness
-----------------------------------------------------------------------------
(***************************************************************************)
(* Properties                                                              *)
(***************************************************************************)
(* The tables and the requests in flight have the shapes given above. *)
TypeOK ==
  /\ liked \subseteq Pairs /\ passed \subseteq Pairs
  /\ unseen \subseteq liked /\ recent \subseteq liked
  /\ matches \subseteq Edges /\ introduced \subseteq Edges
  /\ chats \in [Edges -> Nat]
  /\ pool \subseteq Users
  /\ queue \in [Users -> SUBSET Users]
  /\ interacted \in [Users -> SUBSET Users]
  /\ blocked \subseteq Pairs /\ deleted \subseteq Users
  /\ taste \in [Users -> SUBSET Users]
  /\ task \in [Requests -> Tasks]
  /\ said \subseteq Pairs /\ today \subseteq said

Connected(e) == e \in matches \/ chats[e] > 0

(* Two users never hold a standing like on each other: whoever answers second
   gets the match in the same transaction, whatever the interleaving of their
   requests and wherever one of them fails. *)
MutualLikesResolved == \A p \in liked : Reverse(p) \notin liked

(* Nobody is matched or put in a chat with someone they never pressed like
   on, unless the lobby introduced the two. *)
Consent ==
  \A p \in Pairs : Connected(Edge(p)) => p \in said \/ Edge(p) \in introduced

(* If both users of a pair have pressed like and neither had passed, they are
   connected, unless one has blocked the other: no mutual like is lost. *)
MutualLikeConnects ==
  \A p \in Pairs :
    p \in said /\ Reverse(p) \in said /\ p \notin passed /\ Reverse(p) \notin passed
      => Connected(Edge(p)) \/ IsBlocked(p[1], p[2])

(* The queue of a user holds neither the user nor anyone recorded as already
   answered, and a user without a pool row has neither list. *)
QueueSound ==
  \A u \in Users :
    /\ queue[u] \intersect (interacted[u] \union {u}) = {}
    /\ u \notin pool => queue[u] = {} /\ interacted[u] = {}

(* A queue never outgrows QueueLimit, so the cut that ends the merge in
   get_matches_by_preference never drops a candidate already counted as shown. *)
QueueBounded == \A u \in Users : Cardinality(queue[u]) <= QueueLimit

(* The likes table never holds more than DailyLikeLimit likes of one user
   from the last 24 hours, although the limit is checked in one query and the
   row inserted in another. *)
LikeQuota == \A u \in Users : Cardinality(LikesUsed(u)) <= DailyLikeLimit

(* A like persists until the other side answers it with a like: no block,
   deletion, pass, retry or failure removes it (schema.sql on delete_old_likes). *)
LikesPersist ==
  [][\A p \in liked \ liked' : Edge(p) \in matches' /\ Reverse(p) \in said']_vars

(* Seen from outside, the engine does what Matchmaking promises: requests that
   overlap, fail half-way or are retried never connect, fail to connect or
   separate a pair in a way Matchmaking does not allow. *)
Promise == INSTANCE Matchmaking
             WITH passes <- passed, severed <- blocked,
                  connected <- {e \in Edges : Connected(e)}
KeepsPromise == Promise!Spec

(* A like whose notification is being sent ends up in the liker's
   already_interacted, unless a block or a deletion takes the pool row away. *)
SwipeSettles ==
  \A p \in Pairs :
    (\E r \in Requests : task[r] = [pc |-> "sending", pair |-> p])
      ~> (p[2] \in interacted[p[1]] \/ p[1] \notin pool)

(***************************************************************************)
(* The inductive invariant behind the state properties.  A standing like   *)
(* was pressed and has no FALSE row beside it, and a like that is no longer *)
(* in the table was turned into a connection or was never recorded because *)
(* its author had passed before.                                           *)
(***************************************************************************)
LikesSaid == liked \subseteq said
OneRowPerPair == liked \intersect passed = {}
NoLikeLost ==
  \A p \in said : p \in liked \/ p \in passed \/ Connected(Edge(p)) \/ IsBlocked(p[1], p[2])

IInv ==
  /\ TypeOK
  /\ LikesSaid
  /\ OneRowPerPair
  /\ MutualLikesResolved
  /\ Consent
  /\ NoLikeLost
  /\ QueueSound
=============================================================================
