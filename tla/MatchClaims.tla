----------------------------- MODULE MatchClaims -----------------------------
(***************************************************************************)
(* What comments and docstrings of the code say of the matchmaking core    *)
(* and MatchEngine does not do.  Each claim has a configuration in which   *)
(* TLC finds a behaviour that breaks it.                                   *)
(***************************************************************************)
EXTENDS MCMatchEngine

(* get_user_data.py:129 on the pool row a block deletes: "essentially prevent
   them seeing each other".  Only the blocked user's row goes; the blocker's
   queue keeps the blocked user, and new queues ignore blocks. *)
BlockedNotOffered ==
  \A p \in blocked : p[2] \notin queue[p[1]] /\ p[1] \notin queue[p[2]]

(* likes_utilities.py:9-11: the Likes-You list holds users who "haven't been
   responded to yet".  A match deletes the earlier like and leaves the later
   one; once the match row has become a chat, its author is listed again. *)
PendingAwaitsResponse ==
  \A u \in Users : \A v \in Pending(u) : <<u, v>> \notin said

(* schema.sql:123: the Likes-You badge is "cleared when recipient views the
   queue".  A like its recipient has already answered is counted by the badge
   but not listed, so no view marks it seen. *)
BadgeClearedByViewing ==
  \A p \in unseen : p[1] \in Pending(p[2])

(* swipe_exceptions.py:64-65: a user gets at most DAILY_LIKE_LIMIT
   "right-swipes within the last rolling 24 hours".  A like consumed by a
   match is no longer counted. *)
RightSwipesPerDay ==
  \A u \in Users : Cardinality({p \in today : p[1] = u}) <= DailyLikeLimit

(* swipe_utilities.py:25: handle_post_action will "add `val` to
   already_interacted array for the user".  It updates no row when there is
   none, so whom the user answered before the first feed is offered again. *)
AnsweredNotOffered ==
  \A p \in liked \union passed :
    p[2] \in queue[p[1]] => \E r \in Requests : task[r] # Idle /\ task[r].pair = p

(* swipe_utilities.py:72: process_like "Records a right-swipe/like-back".  A
   like on someone passed on before hits ON CONFLICT DO NOTHING, and the
   request still answers "Like recorded". *)
LikeRecorded ==
  \A r \in Requests :
    task[r].pc = "sending" =>
      LET p == task[r].pair IN p \in liked \/ Connected(Edge(p)) \/ IsBlocked(p[1], p[2])

(* matches_endpoint.py:101: "other_user_id -> chat_id", one chat for each
   connected user.  A pair that matches again after starting a chat can start
   another, which hides the first. *)
OneChatPerPair == \A e \in Edges : chats[e] <= 1
=============================================================================
