-------------------------- MODULE MatchEngineProofs --------------------------
(***************************************************************************)
(* Proofs about MatchEngine, for every set of users and request slots.     *)
(***************************************************************************)
EXTENDS MatchEngine, TLAPS, FiniteSetTheorems

(* Reversing a pair gives the other pair of the same edge. *)
LEMMA PairFacts ==
  ASSUME NEW p \in Pairs
  PROVE  /\ Reverse(p) \in Pairs
         /\ Reverse(p) # p
         /\ Reverse(Reverse(p)) = p
         /\ Edge(p) \in Edges
         /\ Edge(Reverse(p)) = Edge(p)
  BY DEF Pairs, Reverse, Edge, Edges

(* Two pairs of the same edge are equal or each other's reverse. *)
LEMMA SameEdge ==
  ASSUME NEW p \in Pairs, NEW q \in Pairs, Edge(p) = Edge(q)
  PROVE  q = p \/ q = Reverse(p)
  <1>1. p = <<p[1], p[2]>> /\ q = <<q[1], q[2]>>
    BY DEF Pairs
  <1>2. (q[1] = p[1] /\ q[2] = p[2]) \/ (q[1] = p[2] /\ q[2] = p[1])
    BY DEF Pairs, Edge
  <1> QED BY <1>1, <1>2 DEF Reverse

(* The empty database satisfies the invariant. *)
LEMMA InitIInv == Init => IInv
  <1> SUFFICES ASSUME Init PROVE IInv
    OBVIOUS
  <1> USE DEF Init
  <1>1. TypeOK
    BY DEF TypeOK, Tasks, Idle
  <1>2. LikesSaid /\ OneRowPerPair /\ MutualLikesResolved /\ NoLikeLost /\ QueueSound
    BY DEF LikesSaid, OneRowPerPair, MutualLikesResolved, NoLikeLost, QueueSound
  <1>3. Consent
    BY PairFacts DEF Consent, Connected
  <1> QED BY <1>1, <1>2, <1>3 DEF IInv
-----------------------------------------------------------------------------
(* The parts of IInv speak of few variables each.  A step that leaves the rows
   of a part alone keeps the part. *)
LEMMA LinksKept ==
  ASSUME IInv, UNCHANGED <<liked, passed, said, matches, chats, introduced, blocked>>
  PROVE  (LikesSaid /\ OneRowPerPair /\ MutualLikesResolved /\ Consent /\ NoLikeLost)'
  BY DEF IInv, LikesSaid, OneRowPerPair, MutualLikesResolved, Consent, NoLikeLost,
         Connected, IsBlocked

(* The same for the pool rows. *)
LEMMA PoolKept ==
  ASSUME IInv, UNCHANGED poolRows
  PROVE  QueueSound'
  BY DEF IInv, QueueSound, poolRows

(* A feed request adds to a queue only users it may offer. *)
LEMMA GetMatchesIInv ==
  ASSUME IInv, NEW u \in Users, NEW refresh \in BOOLEAN, GetMatches(u, refresh)
  PROVE  IInv'
  <1> DEFINE queued == IF refresh THEN {} ELSE queue[u]
  <1>1. PICK new \in SUBSET Candidates(u, queued) :
          /\ pool' = pool \union {u}
          /\ queue' = [queue EXCEPT ![u] = queued \union new]
    BY DEF GetMatches
  <1>2. UNCHANGED <<likeRows, interacted, links, people, history, task>>
    BY DEF GetMatches
  <1>3. TypeOK /\ QueueSound
    BY DEF IInv
  <1>4. queue[u] \subseteq Users /\ new \subseteq Users /\ queued \subseteq queue[u]
    BY <1>3 DEF TypeOK, Candidates
  <1>5. TypeOK'
    BY <1>1, <1>2, <1>3, <1>4
    DEF TypeOK, likeRows, links, people, history
  <1>6. QueueSound'
    <2> SUFFICES ASSUME NEW v \in Users
                 PROVE  /\ queue'[v] \intersect (interacted'[v] \union {v}) = {}
                        /\ v \notin pool' => queue'[v] = {} /\ interacted'[v] = {}
      BY DEF QueueSound
    <2>1. CASE v = u
      <3>1. queue'[u] = queued \union new /\ interacted'[u] = interacted[u] /\ u \in pool'
        BY <1>1, <1>2, <1>3 DEF TypeOK
      <3>2. new \intersect (interacted[u] \union {u}) = {}
        BY DEF Candidates
      <3>3. queued \intersect (interacted[u] \union {u}) = {}
        BY <1>3, <1>4 DEF QueueSound
      <3> QED BY <2>1, <3>1, <3>2, <3>3
    <2>2. CASE v # u
      BY <1>1, <1>2, <1>3, <2>2 DEF TypeOK, QueueSound
    <2> QED BY <2>1, <2>2
  <1>7. (LikesSaid /\ OneRowPerPair /\ MutualLikesResolved /\ Consent /\ NoLikeLost)'
    BY <1>2, LinksKept DEF likeRows, links, people, history
  <1> QED BY <1>5, <1>6, <1>7 DEF IInv

(* A like: the step on which the whole invariant turns. *)
LEMMA ProcessLikeIInv ==
  ASSUME IInv, NEW r \in Requests, NEW p \in Pairs, ProcessLike(r, p)
  PROVE  IInv'
  <1> USE PairFacts
  <1>1. TypeOK /\ LikesSaid /\ OneRowPerPair /\ MutualLikesResolved /\ Consent
          /\ NoLikeLost /\ QueueSound
    BY DEF IInv
  <1>2. /\ said' = said \union {p}
        /\ today' = today \union {p}
        /\ liked' = (liked \union Inserted(p)) \ Consumed(p)
        /\ unseen' = (unseen \union Inserted(p)) \ Consumed(p)
        /\ recent' = (recent \union Inserted(p)) \ Consumed(p)
        /\ matches' = IF Reciprocated(p) THEN matches \union {Edge(p)} ELSE matches
        /\ task' = [task EXCEPT ![r] =
                     [pc |-> IF Reciprocated(p) THEN "matched" ELSE "sending", pair |-> p]]
        /\ UNCHANGED <<passed, chats, introduced, poolRows, people>>
    BY DEF ProcessLike
  <1>3. Inserted(p) \subseteq {p} /\ (p \in liked \/ p \in passed \/ p \in Inserted(p))
          /\ Inserted(p) \intersect passed = {}
    BY DEF Inserted, HasRow
  <1>4. Consumed(p) \subseteq {Reverse(p)} /\ (Reciprocated(p) <=> Consumed(p) = {Reverse(p)})
          /\ (Reciprocated(p) <=> Reverse(p) \in liked)
    BY DEF Consumed, Reciprocated
  <1>5. TypeOK'
    <2>1. [pc |-> IF Reciprocated(p) THEN "matched" ELSE "sending", pair |-> p] \in Tasks
      BY DEF Tasks, OnLoopPcs
    <2>2. task' \in [Requests -> Tasks]
      BY <1>1, <1>2, <2>1 DEF TypeOK
    <2>3. liked' \subseteq Pairs /\ passed' \subseteq Pairs /\ unseen' \subseteq liked'
            /\ recent' \subseteq liked' /\ matches' \subseteq Edges
            /\ said' \subseteq Pairs /\ today' \subseteq said'
      BY <1>1, <1>2, <1>3 DEF TypeOK
    <2> QED BY <1>1, <1>2, <2>2, <2>3 DEF TypeOK, poolRows, people
  <1>6. LikesSaid' /\ OneRowPerPair'
    BY <1>1, <1>2, <1>3 DEF LikesSaid, OneRowPerPair
  <1>7. MutualLikesResolved'
    <2> SUFFICES ASSUME NEW q \in liked', Reverse(q) \in liked'
                 PROVE  FALSE
      BY DEF MutualLikesResolved
    <2>1. q \in Pairs /\ Reverse(q) \in Pairs
      BY <1>5 DEF TypeOK
    <2>2. q = p \/ q \in liked
      BY <1>2, <1>3
    <2>3. Reverse(q) = p \/ Reverse(q) \in liked
      BY <1>2, <1>3
    <2>4. Reverse(p) \notin liked'
      BY <1>2, <1>3, <1>4
    <2>5. q # p /\ Reverse(q) # p
      BY <2>1, <2>4
    <2> QED BY <1>1, <2>2, <2>3, <2>5 DEF MutualLikesResolved
  <1>8. Consent'
    <2> SUFFICES ASSUME NEW q \in Pairs, Connected(Edge(q))'
                 PROVE  q \in said' \/ Edge(q) \in introduced'
      BY DEF Consent
    <2>1. CASE Connected(Edge(q))
      BY <1>1, <1>2, <2>1 DEF Consent
    <2>2. CASE ~Connected(Edge(q))
      <3>1. Reciprocated(p) /\ Edge(q) = Edge(p)
        BY <1>2, <2>2 DEF Connected
      <3>2. q = p \/ q = Reverse(p)
        BY <3>1, SameEdge
      <3> QED BY <1>1, <1>2, <1>4, <3>1, <3>2 DEF LikesSaid
    <2> QED BY <2>1, <2>2
  <1>9. NoLikeLost'
    <2> SUFFICES ASSUME NEW q \in said'
                 PROVE  \/ q \in liked' \/ q \in passed'
                        \/ Connected(Edge(q))' \/ IsBlocked(q[1], q[2])'
      BY DEF NoLikeLost
    <2>1. q \in Pairs
      BY <1>5 DEF TypeOK
    <2>2. CASE Reciprocated(p) /\ (q = p \/ q = Reverse(p))
      <3>1. Edge(q) \in matches'
        BY <1>2, <2>2
      <3> QED BY <3>1 DEF Connected
    <2>3. CASE q = p /\ ~Reciprocated(p)
      <3>1. Consumed(p) = {}
        BY <2>3 DEF Consumed
      <3> QED BY <1>2, <1>3, <2>3, <3>1
    <2>4. CASE q # p /\ ~(Reciprocated(p) /\ q = Reverse(p))
      <3>1. q \in said /\ (q \in liked => q \in liked')
        BY <1>2, <1>4, <2>4
      <3> QED BY <1>1, <1>2, <3>1 DEF NoLikeLost, Connected, IsBlocked, people
    <2> QED BY <2>2, <2>3, <2>4
  <1>10. QueueSound'
    BY <1>2, PoolKept
  <1> QED BY <1>5, <1>6, <1>7, <1>8, <1>9, <1>10 DEF IInv

(* A pass writes a FALSE row only where there is no row. *)
LEMMA RecordPassIInv ==
  ASSUME IInv, NEW r \in Requests, NEW p \in Pairs, RecordPass(r, p)
  PROVE  IInv'
  <1>1. TypeOK /\ LikesSaid /\ OneRowPerPair /\ MutualLikesResolved /\ Consent
          /\ NoLikeLost /\ QueueSound
    BY DEF IInv
  <1>2. /\ passed' = IF HasRow(p) THEN passed ELSE passed \union {p}
        /\ task' = [task EXCEPT ![r] = [pc |-> "decided", pair |-> p]]
        /\ UNCHANGED <<liked, unseen, recent, poolRows, links, people, history>>
    BY DEF RecordPass
  <1>3. TypeOK'
    <2>1. [pc |-> "decided", pair |-> p] \in Tasks
      BY DEF Tasks, OnLoopPcs
    <2>2. task' \in [Requests -> Tasks]
      BY <1>1, <1>2, <2>1 DEF TypeOK
    <2> QED BY <1>1, <1>2, <2>2 DEF TypeOK, poolRows, links, people, history
  <1>4. OneRowPerPair'
    BY <1>1, <1>2 DEF OneRowPerPair, HasRow
  <1>5. (LikesSaid /\ MutualLikesResolved /\ Consent /\ NoLikeLost)'
    BY <1>1, <1>2 DEF LikesSaid, MutualLikesResolved, Consent, NoLikeLost,
         Connected, IsBlocked, links, people, history
  <1>6. QueueSound'
    BY <1>2, PoolKept
  <1> QED BY <1>3, <1>4, <1>5, <1>6 DEF IInv
-----------------------------------------------------------------------------
(* The pair of a request in flight is a pair of two users. *)
LEMMA TaskPair ==
  ASSUME TypeOK, NEW r \in Requests, task[r].pc # "idle"
  PROVE  /\ task[r].pair \in Pairs
         /\ task[r].pair[1] \in Users /\ task[r].pair[2] \in Users
  BY DEF TypeOK, Tasks, Idle, Pairs

(* Moving a request to a later point of its handler, or ending it, keeps the
   task typed. *)
LEMMA TaskMoved ==
  ASSUME TypeOK, NEW r \in Requests, NEW pc \in OnLoopPcs \union {"sending"},
         task[r].pc # "idle"
  PROVE  /\ [task EXCEPT ![r].pc = pc] \in [Requests -> Tasks]
         /\ [task EXCEPT ![r] = Idle] \in [Requests -> Tasks]
  <1>1. task \in [Requests -> Tasks]
    BY DEF TypeOK
  <1>2. PICK q \in OnLoopPcs \union {"sending"}, p \in Pairs :
          task[r] = [pc |-> q, pair |-> p]
    BY <1>1 DEF Tasks, Idle
  <1>3. [task[r] EXCEPT !.pc = pc] = [pc |-> pc, pair |-> p]
    BY <1>2
  <1>4. [task[r] EXCEPT !.pc = pc] \in Tasks /\ Idle \in Tasks
    BY <1>3 DEF Tasks
  <1> QED BY <1>1, <1>4

(* Taking a candidate out of a queue keeps the invariant. *)
LEMMA DiscardIInv ==
  ASSUME IInv, NEW r \in Requests, Discard(r)
  PROVE  IInv'
  <1> DEFINE u == task[r].pair[1]
             v == task[r].pair[2]
  <1>1. TypeOK /\ QueueSound
    BY DEF IInv
  <1>2. u \in Users /\ task[r].pc # "idle"
    BY <1>1, TaskPair DEF Discard
  <1>3. /\ queue' = Dequeued(u, v)
        /\ task' = [task EXCEPT ![r].pc = "discarded"]
        /\ UNCHANGED <<likeRows, pool, interacted, links, people, history>>
    BY DEF Discard
  <1>4. queue' \in [Users -> SUBSET Users] /\ \A w \in Users : queue'[w] \subseteq queue[w]
    BY <1>1, <1>2, <1>3 DEF TypeOK, Dequeued
  <1>5. task' \in [Requests -> Tasks]
    BY <1>1, <1>2, <1>3, TaskMoved DEF OnLoopPcs
  <1>6. TypeOK'
    BY <1>1, <1>3, <1>4, <1>5 DEF TypeOK, likeRows, links, people, history
  <1>7. QueueSound'
    BY <1>1, <1>3, <1>4 DEF QueueSound
  <1>8. (LikesSaid /\ OneRowPerPair /\ MutualLikesResolved /\ Consent /\ NoLikeLost)'
    BY <1>3, LinksKept DEF likeRows, links, people, history
  <1> QED BY <1>6, <1>7, <1>8 DEF IInv

(* The UPDATE of a pool row keeps all of IInv but the type of task. *)
LEMMA HandlePostActionIInv ==
  ASSUME IInv, NEW u \in Users, NEW v \in Users, HandlePostAction(u, v),
         task' \in [Requests -> Tasks]
  PROVE  IInv'
  <1>1. TypeOK /\ QueueSound
    BY DEF IInv
  <1>2. /\ queue' = Dequeued(u, v)
        /\ interacted' = [interacted EXCEPT ![u] = IF u \in pool THEN @ \union {v} ELSE @]
        /\ UNCHANGED <<likeRows, pool, links, people, history>>
    BY DEF HandlePostAction
  <1>3. TypeOK'
    <2>1. queue' \in [Users -> SUBSET Users] /\ interacted' \in [Users -> SUBSET Users]
      BY <1>1, <1>2 DEF TypeOK, Dequeued
    <2> QED BY <1>1, <1>2, <2>1 DEF TypeOK, likeRows, links, people, history
  <1>4. QueueSound'
    <2> SUFFICES ASSUME NEW w \in Users
                 PROVE  /\ queue'[w] \intersect (interacted'[w] \union {w}) = {}
                        /\ w \notin pool' => queue'[w] = {} /\ interacted'[w] = {}
      BY DEF QueueSound
    <2>1. CASE w = u /\ u \in pool
      <3>1. queue'[w] = queue[w] \ {v} /\ interacted'[w] = interacted[w] \union {v}
        BY <1>1, <1>2, <2>1 DEF TypeOK, Dequeued
      <3> QED BY <1>1, <1>2, <2>1, <3>1 DEF QueueSound
    <2>2. CASE ~(w = u /\ u \in pool)
      <3>1. queue'[w] = queue[w] /\ interacted'[w] = interacted[w]
        BY <1>1, <1>2, <2>2 DEF TypeOK, Dequeued
      <3> QED BY <1>1, <1>2, <3>1 DEF QueueSound
    <2> QED BY <2>1, <2>2
  <1>5. (LikesSaid /\ OneRowPerPair /\ MutualLikesResolved /\ Consent /\ NoLikeLost)'
    BY <1>2, LinksKept DEF likeRows, links, people, history
  <1> QED BY <1>3, <1>4, <1>5 DEF IInv

(* So does every later step of a swipe request. *)
LEMMA RequestStepIInv ==
  ASSUME IInv, NEW r \in Requests, RequestStep(r)
  PROVE  IInv'
  <1>1. TypeOK
    BY DEF IInv
  <1>2. CASE Discard(r)
    BY <1>2, DiscardIInv
  <1>3. CASE PostAction(r)
    <2>1. task' \in [Requests -> Tasks]
      BY <1>1, <1>3, TaskMoved DEF PostAction, OnLoopPcs
    <2> QED BY <1>1, <1>3, <2>1, TaskPair, HandlePostActionIInv DEF PostAction
  <1>4. CASE MatchedLiker(r)
    <2>1. task' \in [Requests -> Tasks]
      BY <1>1, <1>4, TaskMoved DEF MatchedLiker, OnLoopPcs
    <2> QED BY <1>1, <1>4, <2>1, TaskPair, HandlePostActionIInv DEF MatchedLiker
  <1>5. CASE MatchedLiked(r)
    <2>1. task' \in [Requests -> Tasks]
      BY <1>1, <1>5, TaskMoved DEF MatchedLiked, OnLoopPcs
    <2> QED BY <1>1, <1>5, <2>1, TaskPair, HandlePostActionIInv DEF MatchedLiked
  <1> QED BY <1>2, <1>3, <1>4, <1>5 DEF RequestStep

(* A request that fails, or all of them in a restart, leaves the tables sound. *)
LEMMA FailIInv ==
  ASSUME IInv, (\E r \in Requests : Fail(r)) \/ Restart
  PROVE  IInv'
  <1>1. TypeOK
    BY DEF IInv
  <1>2. UNCHANGED <<likeRows, poolRows, links, people, history>>
    BY DEF Fail, Restart
  <1>3. task' \in [Requests -> Tasks]
    BY <1>1 DEF TypeOK, Fail, Restart, Tasks
  <1>4. TypeOK'
    BY <1>1, <1>2, <1>3 DEF TypeOK, likeRows, poolRows, links, people, history
  <1>5. QueueSound'
    BY <1>2, PoolKept
  <1>6. (LikesSaid /\ OneRowPerPair /\ MutualLikesResolved /\ Consent /\ NoLikeLost)'
    BY <1>2, LinksKept DEF likeRows, links, people, history
  <1> QED BY <1>4, <1>5, <1>6 DEF IInv
-----------------------------------------------------------------------------
(* Viewing the Likes-You list touches only what is unseen. *)
LEMMA GetReceivedLikesIInv ==
  ASSUME IInv, NEW u \in Users, GetReceivedLikes(u)
  PROVE  IInv'
  <1>1. TypeOK
    BY DEF IInv
  <1>2. /\ unseen' \subseteq unseen
        /\ UNCHANGED <<liked, passed, recent, poolRows, links, people, history, task>>
    BY DEF GetReceivedLikes, MarkedSeen
  <1>3. TypeOK'
    BY <1>1, <1>2 DEF TypeOK, poolRows, links, people, history
  <1>4. QueueSound'
    BY <1>2, PoolKept
  <1>5. (LikesSaid /\ OneRowPerPair /\ MutualLikesResolved /\ Consent /\ NoLikeLost)'
    BY <1>2, LinksKept DEF links, people, history
  <1> QED BY <1>3, <1>4, <1>5 DEF IInv

(* Time touches only what is recent. *)
LEMMA ExpireIInv ==
  ASSUME IInv, NEW p \in Pairs, Expire(p)
  PROVE  IInv'
  <1>1. TypeOK
    BY DEF IInv
  <1>2. /\ recent' \subseteq recent /\ today' \subseteq today
        /\ UNCHANGED <<liked, passed, unseen, poolRows, links, people, said, task>>
    BY DEF Expire
  <1>3. TypeOK'
    BY <1>1, <1>2 DEF TypeOK, poolRows, links, people
  <1>4. QueueSound'
    BY <1>2, PoolKept
  <1>5. (LikesSaid /\ OneRowPerPair /\ MutualLikesResolved /\ Consent /\ NoLikeLost)'
    BY <1>2, LinksKept DEF links, people
  <1> QED BY <1>3, <1>4, <1>5 DEF IInv

(* A match that becomes a chat stays a connection. *)
LEMMA StartChatIInv ==
  ASSUME IInv, NEW e \in Edges, StartChat(e)
  PROVE  IInv'
  <1>1. TypeOK /\ Consent /\ NoLikeLost
    BY DEF IInv
  <1>2. /\ e \in matches
        /\ matches' = matches \ {e}
        /\ chats' = [chats EXCEPT ![e] = @ + 1]
        /\ UNCHANGED <<likeRows, poolRows, introduced, people, history, task>>
    BY DEF StartChat
  <1>3. TypeOK'
    BY <1>1, <1>2 DEF TypeOK, likeRows, poolRows, people, history
  <1>4. \A d \in Edges : Connected(d)' <=> Connected(d)
    BY <1>1, <1>2 DEF Connected, TypeOK
  <1>5. Consent'
    BY <1>1, <1>2, <1>4, PairFacts DEF Consent, history
  <1>6. NoLikeLost'
    BY <1>1, <1>2, <1>4, PairFacts
    DEF NoLikeLost, TypeOK, IsBlocked, likeRows, people, history
  <1>7. (LikesSaid /\ OneRowPerPair /\ MutualLikesResolved)'
    BY <1>2 DEF IInv, LikesSaid, OneRowPerPair, MutualLikesResolved, likeRows, history
  <1>8. QueueSound'
    BY <1>2, PoolKept
  <1> QED BY <1>3, <1>5, <1>6, <1>7, <1>8 DEF IInv

(* A lobby match is accounted for by introduced. *)
LEMMA LobbyMatchIInv ==
  ASSUME IInv, NEW e \in LobbyPairs, LobbyMatch(e)
  PROVE  IInv'
  <1>1. TypeOK /\ Consent /\ NoLikeLost
    BY DEF IInv
  <1>2. /\ matches' = matches \union {e}
        /\ introduced' = introduced \union {e}
        /\ UNCHANGED <<likeRows, poolRows, chats, people, history, task>>
    BY DEF LobbyMatch
  <1>3. TypeOK'
    BY <1>1, <1>2, LobbyAssumption DEF TypeOK, likeRows, poolRows, people, history
  <1>4. Consent'
    BY <1>1, <1>2 DEF Consent, Connected, history
  <1>5. NoLikeLost'
    BY <1>1, <1>2 DEF NoLikeLost, Connected, IsBlocked, likeRows, people, history
  <1>6. (LikesSaid /\ OneRowPerPair /\ MutualLikesResolved)'
    BY <1>2 DEF IInv, LikesSaid, OneRowPerPair, MutualLikesResolved, likeRows, history
  <1>7. QueueSound'
    BY <1>2, PoolKept
  <1> QED BY <1>3, <1>4, <1>5, <1>6, <1>7 DEF IInv

(* A block separates the pair, and only that pair. *)
LEMMA BlockUserIInv ==
  ASSUME IInv, NEW p \in Pairs, BlockUser(p)
  PROVE  IInv'
  <1>1. TypeOK /\ Consent /\ NoLikeLost /\ QueueSound
    BY DEF IInv
  <1>2. /\ blocked' = blocked \union {p}
        /\ matches' = matches \ {Edge(p)}
        /\ chats' = [chats EXCEPT ![Edge(p)] = 0]
        /\ pool' = pool \ {p[2]}
        /\ queue' = [queue EXCEPT ![p[2]] = {}]
        /\ interacted' = [interacted EXCEPT ![p[2]] = {}]
        /\ UNCHANGED <<likeRows, introduced, deleted, taste, history, task>>
    BY DEF BlockUser
  <1>3. p[1] \in Users /\ p[2] \in Users /\ p = <<p[1], p[2]>>
    BY DEF Pairs
  <1>4. TypeOK'
    BY <1>1, <1>2, <1>3 DEF TypeOK, likeRows, history
  <1>5. \A d \in Edges : Connected(d)' <=> Connected(d) /\ d # Edge(p)
    BY <1>1, <1>2 DEF Connected, TypeOK
  <1>6. Consent'
    BY <1>1, <1>2, <1>5, PairFacts DEF Consent, history
  <1>7. NoLikeLost'
    <2> SUFFICES ASSUME NEW q \in said'
                 PROVE  \/ q \in liked' \/ q \in passed'
                        \/ Connected(Edge(q))' \/ IsBlocked(q[1], q[2])'
      BY DEF NoLikeLost
    <2>1. q \in said /\ q \in Pairs /\ Edge(q) \in Edges
      BY <1>1, <1>2, PairFacts DEF TypeOK, history
    <2>2. CASE Edge(q) = Edge(p)
      BY <1>2, <1>3, <2>1, <2>2, SameEdge DEF IsBlocked, Reverse
    <2>3. CASE Edge(q) # Edge(p)
      BY <1>1, <1>2, <1>5, <2>1, <2>3 DEF NoLikeLost, IsBlocked, likeRows
    <2> QED BY <2>2, <2>3
  <1>8. QueueSound'
    BY <1>1, <1>2, <1>3 DEF QueueSound, TypeOK
  <1>9. (LikesSaid /\ OneRowPerPair /\ MutualLikesResolved)'
    BY <1>2 DEF IInv, LikesSaid, OneRowPerPair, MutualLikesResolved, likeRows, history
  <1> QED BY <1>4, <1>6, <1>7, <1>8, <1>9 DEF IInv

(* A deletion takes the pool row and leaves likes and connections. *)
LEMMA DeleteAccountIInv ==
  ASSUME IInv, NEW u \in Users, DeleteAccount(u)
  PROVE  IInv'
  <1>1. TypeOK /\ QueueSound
    BY DEF IInv
  <1>2. /\ deleted' = deleted \union {u}
        /\ taste' = [taste EXCEPT ![u] = {}]
        /\ pool' = pool \ {u}
        /\ queue' = [queue EXCEPT ![u] = {}]
        /\ interacted' = [interacted EXCEPT ![u] = {}]
        /\ UNCHANGED <<likeRows, links, blocked, history, task>>
    BY DEF DeleteAccount
  <1>3. TypeOK'
    BY <1>1, <1>2 DEF TypeOK, likeRows, links, history
  <1>4. QueueSound'
    BY <1>1, <1>2 DEF QueueSound, TypeOK
  <1>5. (LikesSaid /\ OneRowPerPair /\ MutualLikesResolved /\ Consent /\ NoLikeLost)'
    BY <1>2, LinksKept DEF likeRows, links, history
  <1> QED BY <1>3, <1>4, <1>5 DEF IInv

(* Preferences touch no table of the invariant. *)
LEMMA UpdatePreferencesIInv ==
  ASSUME IInv, NEW u \in Users, UpdatePreferences(u)
  PROVE  IInv'
  <1>1. TypeOK
    BY DEF IInv
  <1>2. PICK t \in Tastes[u] : taste' = [taste EXCEPT ![u] = t]
    BY DEF UpdatePreferences
  <1>3. UNCHANGED <<likeRows, poolRows, links, blocked, deleted, history, task>>
    BY DEF UpdatePreferences
  <1>4. t \in SUBSET Users
    BY TastesAssumption
  <1>5. TypeOK'
    BY <1>1, <1>2, <1>3, <1>4 DEF TypeOK, likeRows, poolRows, links, history
  <1>6. QueueSound'
    BY <1>3, PoolKept
  <1>7. (LikesSaid /\ OneRowPerPair /\ MutualLikesResolved /\ Consent /\ NoLikeLost)'
    BY <1>3, LinksKept DEF likeRows, links, history
  <1> QED BY <1>5, <1>6, <1>7 DEF IInv

(* A stuttering step keeps the invariant. *)
LEMMA StutterIInv ==
  ASSUME IInv, UNCHANGED vars
  PROVE  IInv'
  <1>1. (LikesSaid /\ OneRowPerPair /\ MutualLikesResolved /\ Consent /\ NoLikeLost)'
    BY LinksKept DEF vars, likeRows, links, people, history
  <1>2. QueueSound'
    BY PoolKept DEF vars
  <1>3. TypeOK'
    BY DEF IInv, TypeOK, vars, likeRows, poolRows, links, people, history
  <1> QED BY <1>1, <1>2, <1>3 DEF IInv
-----------------------------------------------------------------------------
(* Every request of a user keeps the invariant. *)
LEMMA UserStepIInv ==
  ASSUME IInv, UserStep
  PROVE  IInv'
  <1>1. CASE \E u \in Users, refresh \in BOOLEAN : GetMatches(u, refresh)
    BY <1>1, GetMatchesIInv
  <1>2. CASE \E u \in Users : GetReceivedLikes(u)
    BY <1>2, GetReceivedLikesIInv
  <1>3. CASE \E u \in Users : DeleteAccount(u)
    BY <1>3, DeleteAccountIInv
  <1>4. CASE \E u \in Users : UpdatePreferences(u)
    BY <1>4, UpdatePreferencesIInv
  <1>5. CASE \E p \in Pairs : BlockUser(p)
    BY <1>5, BlockUserIInv
  <1>6. CASE \E p \in Pairs : Expire(p)
    BY <1>6, ExpireIInv
  <1>7. CASE \E p \in Pairs, r \in Requests : SwipeRight(r, p) \/ LikeBack(r, p)
    BY <1>7, ProcessLikeIInv DEF SwipeRight, LikeBack
  <1>8. CASE \E p \in Pairs, r \in Requests : SwipeLeft(r, p) \/ PassLike(r, p)
    BY <1>8, RecordPassIInv DEF SwipeLeft, PassLike
  <1>9. CASE \E e \in Edges : StartChat(e)
    BY <1>9, StartChatIInv
  <1>10. CASE \E e \in LobbyPairs : LobbyMatch(e)
    BY <1>10, LobbyMatchIInv
  <1> QED
    BY <1>1, <1>2, <1>3, <1>4, <1>5, <1>6, <1>7, <1>8, <1>9, <1>10 DEF UserStep

(* IInv is inductive. *)
LEMMA NextIInv == IInv /\ [Next]_vars => IInv'
  <1> SUFFICES ASSUME IInv, [Next]_vars PROVE IInv'
    OBVIOUS
  <1>1. CASE UserStep
    BY <1>1, UserStepIInv
  <1>2. CASE \E r \in Requests : RequestStep(r)
    BY <1>2, RequestStepIInv
  <1>3. CASE (\E r \in Requests : Fail(r)) \/ Restart
    BY <1>3, FailIInv
  <1>4. CASE UNCHANGED vars
    BY <1>4, StutterIInv
  <1> QED BY <1>1, <1>2, <1>3, <1>4 DEF Next

(* IInv holds in every reachable state, for any number of users and requests. *)
THEOREM Invariance == Spec => []IInv
  <1> QED BY InitIInv, NextIInv, PTL DEF Spec

(* The tables and requests keep their types. *)
THEOREM TypeCorrect == Spec => []TypeOK
  <1>1. IInv => TypeOK
    BY DEF IInv
  <1> QED BY <1>1, Invariance, PTL

(* A standing like is never mutual, nobody is connected without consent, and a
   mutual like connects. *)
THEOREM MatchmakingSafe ==
  Spec => [](MutualLikesResolved /\ Consent /\ QueueSound /\ MutualLikeConnects)
  <1>1. IInv => MutualLikesResolved /\ Consent /\ QueueSound
    BY DEF IInv
  <1>2. IInv => MutualLikeConnects
    <2> SUFFICES ASSUME IInv, NEW p \in Pairs, p \in said, Reverse(p) \in said,
                        p \notin passed, Reverse(p) \notin passed,
                        ~IsBlocked(p[1], p[2])
                 PROVE  Connected(Edge(p))
      BY DEF MutualLikeConnects
    <2>1. ~IsBlocked(Reverse(p)[1], Reverse(p)[2])
      BY DEF IsBlocked, Reverse
    <2>2. p \notin liked \/ Reverse(p) \notin liked
      BY DEF IInv, MutualLikesResolved
    <2> QED BY <2>1, <2>2, PairFacts DEF IInv, NoLikeLost
  <1> QED BY <1>1, <1>2, Invariance, PTL
-----------------------------------------------------------------------------
(* Only a like that meets another removes a row from likes, and it leaves a
   match in its place. *)
LEMMA LikeRemoved ==
  ASSUME IInv, [Next]_vars, NEW p \in liked, p \notin liked'
  PROVE  Edge(p) \in matches' /\ Reverse(p) \in said'
  <1>1. CASE \E q \in Pairs, r \in Requests : ProcessLike(r, q)
    <2>1. PICK q \in Pairs, r \in Requests : ProcessLike(r, q)
      BY <1>1
    <2>2. p \in Consumed(q) /\ q \in said'
      BY <2>1 DEF ProcessLike
    <2>3. Reciprocated(q) /\ p = Reverse(q)
      BY <2>2 DEF Consumed
    <2>4. Edge(q) \in matches'
      BY <2>1, <2>3 DEF ProcessLike
    <2> QED BY <2>2, <2>3, <2>4, PairFacts
  <1>2. CASE ~\E q \in Pairs, r \in Requests : ProcessLike(r, q)
    <2>1. ~UserStep
      BY <1>2 DEF UserStep, GetMatches, GetReceivedLikes, DeleteAccount,
        UpdatePreferences, BlockUser, Expire, SwipeRight, LikeBack, SwipeLeft,
        PassLike, RecordPass, StartChat, LobbyMatch, likeRows
    <2>2. ~\E r \in Requests : RequestStep(r) \/ Fail(r)
      BY DEF RequestStep, Discard, PostAction, MatchedLiker, MatchedLiked,
        HandlePostAction, Fail, likeRows
    <2>3. ~Restart /\ ~UNCHANGED vars
      BY DEF Restart, vars, likeRows
    <2> QED BY <2>1, <2>2, <2>3 DEF Next
  <1> QED BY <1>1, <1>2

(* A like stays in the table until it becomes a match. *)
THEOREM LikesPersistAlways == Spec => LikesPersist
  <1>1. IInv /\ [Next]_vars
          => [\A p \in liked \ liked' : Edge(p) \in matches' /\ Reverse(p) \in said']_vars
    BY LikeRemoved
  <1> QED BY <1>1, Invariance, PTL DEF Spec, LikesPersist
-----------------------------------------------------------------------------
(* Any set of rows is finite. *)
LEMMA RowsFinite ==
  ASSUME NEW S \in SUBSET Pairs
  PROVE  IsFiniteSet(S)
  <1>1. IsFiniteSet(Users \X Users)
    BY UsersFinite, FS_Product
  <1>2. S \subseteq Users \X Users
    BY DEF Pairs
  <1> QED BY <1>1, <1>2, FS_Subset

(* The check of the limit and the insertion fall in one step, so the count
   of a user's recent likes passes the limit in no interleaving. *)
LEMMA LikeQuotaStep ==
  ASSUME TypeOK, LikeQuota, [Next]_vars
  PROVE  LikeQuota'
  <1> DEFINE Used(u) == {p \in recent : p[1] = u}
  <1> SUFFICES ASSUME NEW u \in Users
               PROVE  Cardinality(Used(u)') <= DailyLikeLimit
    BY DEF LikeQuota, LikesUsed
  <1>1. Used(u) \in SUBSET Pairs /\ IsFiniteSet(Used(u))
    BY RowsFinite DEF TypeOK
  <1>2. Cardinality(Used(u)) \in Nat /\ Cardinality(Used(u)) <= DailyLikeLimit
          /\ DailyLikeLimit \in Nat
    BY <1>1, FS_CardinalityType, LimitsAssumption DEF LikeQuota, LikesUsed
  <1>3. CASE Used(u)' \subseteq Used(u)
    <2>1. IsFiniteSet(Used(u)') /\ Cardinality(Used(u)') <= Cardinality(Used(u))
      BY <1>1, <1>3, FS_Subset
    <2>2. Cardinality(Used(u)') \in Nat
      BY <2>1, FS_CardinalityType
    <2> HIDE DEF Used
    <2> QED BY <1>2, <2>1, <2>2
  <1>4. CASE \E r \in Requests, p \in Pairs : SwipeRight(r, p) \/ LikeBack(r, p)
    <2>1. PICK r \in Requests, p \in Pairs : SwipeRight(r, p) \/ LikeBack(r, p)
      BY <1>4
    <2>2. Cardinality(Used(p[1])) < DailyLikeLimit /\ ProcessLike(r, p)
      BY <2>1 DEF SwipeRight, LikeBack, UnderDailyLikeLimit, LikesUsed
    <2>3. recent' \subseteq recent \union {p}
      BY <2>2 DEF ProcessLike, Inserted
    <2>4. CASE p[1] # u
      <3>1. Used(u)' \subseteq Used(u)
        BY <2>3, <2>4
      <3> QED BY <1>3, <3>1
    <2>5. CASE p[1] = u
      <3>1. Used(u)' \subseteq Used(u) \union {p}
        BY <2>3
      <3>2. /\ IsFiniteSet(Used(u) \union {p})
            /\ Cardinality(Used(u) \union {p}) <= Cardinality(Used(u)) + 1
        BY <1>1, <1>2, FS_AddElement
      <3>3. /\ Cardinality(Used(u)') <= Cardinality(Used(u) \union {p})
            /\ IsFiniteSet(Used(u)')
        BY <3>1, <3>2, FS_Subset
      <3>4. Cardinality(Used(u)') \in Nat /\ Cardinality(Used(u) \union {p}) \in Nat
        BY <3>2, <3>3, FS_CardinalityType
      <3>5. Cardinality(Used(u)) < DailyLikeLimit
        BY <2>2, <2>5
      <3> HIDE DEF Used
      <3> QED BY <1>2, <3>2, <3>3, <3>4, <3>5
    <2> QED BY <2>4, <2>5
  <1>5. CASE ~\E r \in Requests, p \in Pairs : SwipeRight(r, p) \/ LikeBack(r, p)
    <2>1. recent' \subseteq recent
      BY <1>5 DEF Next, UserStep, RequestStep, vars, GetMatches, GetReceivedLikes,
        DeleteAccount, UpdatePreferences, BlockUser, Expire, SwipeLeft, PassLike,
        RecordPass, StartChat, LobbyMatch, Discard, PostAction, MatchedLiker,
        MatchedLiked, HandlePostAction, Fail, Restart, likeRows
    <2>2. Used(u)' \subseteq Used(u)
      BY <2>1
    <2> QED BY <1>3, <2>2
  <1> QED BY <1>4, <1>5

(* No user ever has more than DailyLikeLimit recent likes in the table. *)
THEOREM LikeQuotaHolds == Spec => []LikeQuota
  <1>1. Init => LikeQuota
    <2> SUFFICES ASSUME Init, NEW u \in Users PROVE Cardinality(LikesUsed(u)) <= DailyLikeLimit
      BY DEF LikeQuota
    <2>1. LikesUsed(u) = {}
      BY DEF Init, LikesUsed
    <2> QED BY <2>1, FS_EmptySet, LimitsAssumption
  <1>2. TypeOK /\ LikeQuota /\ [Next]_vars => LikeQuota'
    BY LikeQuotaStep
  <1> QED BY <1>1, <1>2, TypeCorrect, PTL DEF Spec
-----------------------------------------------------------------------------
(* Topping up never overfills: what is added fits in the room that is left. *)
LEMMA TopUp ==
  ASSUME IInv, QueueBounded, NEW u \in Users, NEW refresh \in BOOLEAN,
         GetMatches(u, refresh)
  PROVE  Cardinality(queue'[u]) <= QueueLimit
  <1> DEFINE queued == IF refresh THEN {} ELSE queue[u]
  <1>1. PICK new \in SUBSET Candidates(u, queued) :
          /\ Cardinality(new) <= Room(queued)
          /\ queue' = [queue EXCEPT ![u] = queued \union new]
    BY DEF GetMatches
  <1>2. queued \subseteq Users /\ new \subseteq Users /\ queue'[u] = queued \union new
    BY <1>1 DEF IInv, TypeOK, Candidates
  <1> HIDE DEF queued
  <1>3. IsFiniteSet(queued) /\ IsFiniteSet(new) /\ IsFiniteSet(queued \intersect new)
    BY <1>2, UsersFinite, FS_Subset
  <1>4. /\ Cardinality(queued) \in Nat /\ Cardinality(new) \in Nat
        /\ Cardinality(queued \intersect new) \in Nat
    BY <1>3, FS_CardinalityType
  <1>5. Cardinality(queued \union new)
          = Cardinality(queued) + Cardinality(new) - Cardinality(queued \intersect new)
    BY <1>3, FS_Union
  <1>6. Cardinality(new) <= QueueLimit - Cardinality(queued) /\ QueueLimit \in Nat
    BY <1>1, LimitsAssumption DEF Room
  <1> QED BY <1>2, <1>4, <1>5, <1>6

(* No step makes a queue outgrow its limit. *)
LEMMA QueueBoundedStep ==
  ASSUME IInv, QueueBounded, [Next]_vars
  PROVE  QueueBounded'
  <1> SUFFICES ASSUME NEW w \in Users
               PROVE  Cardinality(queue'[w]) <= QueueLimit
    BY DEF QueueBounded
  <1>1. TypeOK /\ IsFiniteSet(queue[w])
    BY UsersFinite, FS_Subset DEF IInv, TypeOK
  <1>2. Cardinality(queue[w]) \in Nat /\ Cardinality(queue[w]) <= QueueLimit
          /\ QueueLimit \in Nat
    BY <1>1, FS_CardinalityType, LimitsAssumption DEF QueueBounded
  <1>3. CASE queue'[w] \subseteq queue[w]
    <2>1. IsFiniteSet(queue'[w]) /\ Cardinality(queue'[w]) <= Cardinality(queue[w])
      BY <1>1, <1>3, FS_Subset
    <2>2. Cardinality(queue'[w]) \in Nat
      BY <2>1, FS_CardinalityType
    <2> QED BY <1>2, <2>1, <2>2
  <1>4. CASE \E u \in Users, refresh \in BOOLEAN : GetMatches(u, refresh)
    <2>1. PICK u \in Users, refresh \in BOOLEAN : GetMatches(u, refresh)
      BY <1>4
    <2>2. CASE u = w
      BY <2>1, <2>2, TopUp
    <2>3. CASE u # w
      <3>1. queue'[w] = queue[w]
        BY <1>1, <2>1, <2>3 DEF GetMatches, TypeOK
      <3> QED BY <1>3, <3>1
    <2> QED BY <2>2, <2>3
  <1>5. CASE UNCHANGED queue
    BY <1>3, <1>5
  <1>6. CASE \E p \in Pairs : BlockUser(p)
    BY <1>1, <1>3, <1>6 DEF BlockUser, TypeOK
  <1>7. CASE \E u \in Users : DeleteAccount(u)
    BY <1>1, <1>3, <1>7 DEF DeleteAccount, TypeOK
  <1>8. CASE \E u, v : queue' = Dequeued(u, v)
    BY <1>1, <1>3, <1>8 DEF Dequeued, TypeOK
  <1>9. UserStep => \/ \E u \in Users, refresh \in BOOLEAN : GetMatches(u, refresh)
                    \/ \E p \in Pairs : BlockUser(p)
                    \/ \E u \in Users : DeleteAccount(u)
                    \/ UNCHANGED queue
    BY DEF UserStep, GetReceivedLikes, UpdatePreferences, Expire, SwipeRight, LikeBack,
      ProcessLike, SwipeLeft, PassLike, RecordPass, StartChat, LobbyMatch, poolRows
  <1>10. (\E r \in Requests : RequestStep(r)) => \E u, v : queue' = Dequeued(u, v)
    BY DEF RequestStep, Discard, PostAction, MatchedLiker, MatchedLiked, HandlePostAction
  <1>11. (\E r \in Requests : Fail(r)) \/ Restart \/ UNCHANGED vars => UNCHANGED queue
    BY DEF Fail, Restart, vars, poolRows
  <1> QED BY <1>4, <1>5, <1>6, <1>7, <1>8, <1>9, <1>10, <1>11 DEF Next

(* No queue ever outgrows QueueLimit. *)
THEOREM QueueBoundedHolds == Spec => []QueueBounded
  <1>1. Init => QueueBounded
    <2> SUFFICES ASSUME Init, NEW u \in Users PROVE Cardinality(queue[u]) <= QueueLimit
      BY DEF QueueBounded
    <2>1. queue[u] = {}
      BY DEF Init
    <2> QED BY <2>1, FS_EmptySet, LimitsAssumption
  <1>2. IInv /\ QueueBounded /\ [Next]_vars => QueueBounded'
    BY QueueBoundedStep
  <1> QED BY <1>1, <1>2, Invariance, PTL DEF Spec
-----------------------------------------------------------------------------
(* The connections of Matchmaking, read off the tables. *)
Connections == {e \in Edges : Connected(e)}

(* A like of the engine is a like of Matchmaking. *)
LEMMA LikeIsLike ==
  ASSUME IInv, IInv', NEW r \in Requests, NEW p \in Pairs, ProcessLike(r, p)
  PROVE  Promise!Like(p)
  <1> USE PairFacts
  <1>1. /\ said' = said \union {p}
        /\ matches' = IF Reciprocated(p) THEN matches \union {Edge(p)} ELSE matches
        /\ UNCHANGED <<passed, chats, blocked>>
    BY DEF ProcessLike, people
  <1>2. CASE Reciprocated(p)
    <2>1. Connections' = Connections \union {Edge(p)}
      BY <1>1, <1>2 DEF Connections, Connected
    <2>2. Reverse(p) \in said
      BY <1>2 DEF IInv, LikesSaid, Reciprocated
    <2> QED BY <1>1, <2>1, <2>2 DEF Promise!Like, Promise!Back, Promise!Edge, Connections, Reverse, Edge
  <1>3. CASE ~Reciprocated(p)
    <2>1. Connections' = Connections
      BY <1>1, <1>3 DEF Connections, Connected
    <2>2. ASSUME Reverse(p) \in said, p \notin passed, Reverse(p) \notin passed,
                 p \notin blocked, Reverse(p) \notin blocked
          PROVE  Edge(p) \in Connections'
      <3>1. p \in said' /\ Reverse(p) \in said'
        BY <1>1, <2>2
      <3>2. p \notin liked' \/ Reverse(p) \notin liked'
        BY DEF IInv, MutualLikesResolved
      <3>3. p = <<p[1], p[2]>> /\ Reverse(p) = <<p[2], p[1]>>
        BY DEF Pairs, Reverse
      <3>4. ~IsBlocked(p[1], p[2])' /\ ~IsBlocked(Reverse(p)[1], Reverse(p)[2])'
        BY <1>1, <2>2, <3>3 DEF IsBlocked
      <3>5. Connected(Edge(p))'
        BY <1>1, <2>2, <3>1, <3>2, <3>4 DEF IInv, NoLikeLost
      <3> QED BY <3>5 DEF Connections
    <2> QED BY <1>1, <2>1, <2>2 DEF Promise!Like, Promise!Back, Promise!Edge, Connections, Reverse, Edge
  <1> QED BY <1>2, <1>3

(* Every request of a user is a step of Matchmaking or leaves it alone. *)
LEMMA UserStepRefines ==
  ASSUME IInv, IInv', UserStep
  PROVE  [Promise!Next]_Promise!vars
  <1>1. TypeOK
    BY DEF IInv
  <1> DEFINE quiet == UNCHANGED <<said, passed, blocked, Connections>>
  <1>2. quiet => UNCHANGED Promise!vars
    BY DEF Promise!vars, Connections
  <1>3. UNCHANGED <<matches, chats>> => Connections' = Connections
    BY DEF Connections, Connected
  <1>4. CASE \E u \in Users : \/ \E refresh \in BOOLEAN : GetMatches(u, refresh)
                              \/ GetReceivedLikes(u) \/ DeleteAccount(u) \/ UpdatePreferences(u)
    <2>1. quiet
      BY <1>3, <1>4 DEF GetMatches, GetReceivedLikes, DeleteAccount, UpdatePreferences,
        likeRows, links, people, history
    <2> QED BY <1>2, <2>1
  <1>5. CASE \E p \in Pairs : Expire(p)
    <2>1. quiet
      BY <1>3, <1>5 DEF Expire, links, people
    <2> QED BY <1>2, <2>1
  <1>6. CASE \E p \in Pairs : BlockUser(p)
    <2>1. PICK p \in Pairs : BlockUser(p)
      BY <1>6
    <2>2. /\ blocked' = blocked \union {p}
          /\ matches' = matches \ {Edge(p)}
          /\ chats' = [chats EXCEPT ![Edge(p)] = 0]
          /\ UNCHANGED <<said, passed>>
      BY <2>1 DEF BlockUser, likeRows, history
    <2>3. Connections' = Connections \ {Edge(p)}
      BY <1>1, <2>2 DEF Connections, Connected, TypeOK
    <2>4. Promise!Block(p)
      BY <2>2, <2>3 DEF Promise!Block, Promise!Edge, Edge, Connections
    <2> QED BY <2>4 DEF Promise!Next, Promise!Pairs, Pairs
  <1>7. CASE \E p \in Pairs, r \in Requests : SwipeRight(r, p) \/ LikeBack(r, p)
    <2>1. PICK p \in Pairs, r \in Requests : ProcessLike(r, p)
      BY <1>7 DEF SwipeRight, LikeBack
    <2>2. Promise!Like(p)
      BY <2>1, LikeIsLike
    <2> QED BY <2>2 DEF Promise!Next, Promise!Pairs, Pairs
  <1>8. CASE \E p \in Pairs, r \in Requests : SwipeLeft(r, p) \/ PassLike(r, p)
    <2>1. PICK p \in Pairs, r \in Requests : RecordPass(r, p)
      BY <1>8 DEF SwipeLeft, PassLike
    <2>2. UNCHANGED <<said, blocked, Connections>> /\ (passed' = passed \/ passed' = passed \union {p})
      BY <1>3, <2>1 DEF RecordPass, links, people, history
    <2>3. CASE passed' = passed
      BY <1>2, <2>2, <2>3
    <2>4. CASE passed' = passed \union {p}
      <3>1. Promise!Pass(p)
        BY <2>2, <2>4 DEF Promise!Pass, Connections
      <3> QED BY <3>1 DEF Promise!Next, Promise!Pairs, Pairs
    <2> QED BY <2>2, <2>3, <2>4
  <1>9. CASE \E e \in Edges : StartChat(e)
    <2>1. PICK e \in Edges : StartChat(e)
      BY <1>9
    <2>2. Connections' = Connections
      BY <1>1, <2>1 DEF StartChat, Connections, Connected, TypeOK
    <2>3. quiet
      BY <2>1, <2>2 DEF StartChat, likeRows, people, history
    <2> QED BY <1>2, <2>3
  <1>10. CASE \E e \in LobbyPairs : LobbyMatch(e)
    <2>1. PICK e \in LobbyPairs : LobbyMatch(e)
      BY <1>10
    <2>2. Connections' = Connections \union {e}
      BY <2>1, LobbyAssumption DEF LobbyMatch, Connections, Connected
    <2>3. Promise!Introduce(e)
      BY <2>1, <2>2 DEF Promise!Introduce, LobbyMatch, Connections, likeRows, people, history
    <2> QED BY <2>3 DEF Promise!Next
  <1> QED
    BY <1>4, <1>5, <1>6, <1>7, <1>8, <1>9, <1>10 DEF UserStep

(* So is every step of the engine. *)
LEMMA NextRefines ==
  ASSUME IInv, IInv', [Next]_vars
  PROVE  [Promise!Next]_Promise!vars
  <1>1. CASE UserStep
    BY <1>1, UserStepRefines
  <1>2. CASE ~UserStep
    <2>1. UNCHANGED <<said, passed, blocked, matches, chats>>
      BY <1>2 DEF Next, RequestStep, Discard, PostAction, MatchedLiker, MatchedLiked,
        HandlePostAction, Fail, Restart, vars, likeRows, links, people, history
    <2> QED BY <2>1 DEF Promise!vars, Connected
  <1> QED BY <1>1, <1>2

(* MatchEngine implements Matchmaking. *)
THEOREM Refinement == Spec => KeepsPromise
  <1>1. Init => Promise!Init
    BY DEF Init, Promise!Init, Connected
  <1>2. IInv /\ IInv' /\ [Next]_vars => [Promise!Next]_Promise!vars
    BY NextRefines
  <1> QED BY <1>1, <1>2, Invariance, PTL DEF Spec, KeepsPromise, Promise!Spec
=============================================================================
