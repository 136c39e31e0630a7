---------------------------- MODULE ChatRoomProofs ----------------------------
(***************************************************************************)
(* For any two participants, any number of sockets and messages: the       *)
(* unread counter shows every message that is to be read, and an           *)
(* endpoint passes the messages of its user on in order.  For every page   *)
(* size, and however many messages arrive between two pages, what a client *)
(* that scrolls back holds is an unbroken stretch up to the message that   *)
(* was last when the chat was opened.                                      *)
(***************************************************************************)
EXTENDS ChatRoom, Paging, SocketRegistryProofs, FiniteSetTheorems

(* What the invariant says of the dictionary and the rest of it. *)
LEMMA ChatInvRegistry == ChatInv => RegistryInv
  BY DEF ChatInv, ChatTypeOK, RegistryInv

(* A room starts empty. *)
LEMMA ChatInitInv == ChatInit => ChatInv
<1> SUFFICES ASSUME ChatInit PROVE ChatInv
  OBVIOUS
<1> USE DEF ChatInit
<1>1. RegistryInv
  BY RegistryInitInv
<1>2. ChatTypeOK
  BY <1>1, NoMessageAssumption DEF ChatTypeOK, RegistryInv, Stages
<1>3. FlightsServed /\ LookedUp /\ GoneIsEmpty /\ SenderOrderKept
  BY DEF FlightsServed, LookedUp, GoneIsEmpty, SenderOrderKept
<1>4. Stored = {}
  BY DEF Stored
<1>5. BadgeShows
  BY <1>4 DEF BadgeShows
<1> QED BY <1>1, <1>2, <1>3, <1>5 DEF ChatInv, RegistryInv

(* A message counted, or its count lost: the counters stay numbers, the
   recipient's shows, and no other decreases. *)
LEMMA AddEffect ==
  ASSUME ChatTypeOK, NEW m \in Messages, AddToUnseenAndLastMessage(m)
  PROVE  /\ unseen' \in [Users -> Nat] /\ lastMessage' \in Messages \union {NoMessage}
         /\ uncounted \subseteq uncounted' /\ uncounted' \subseteq Messages
         /\ \A u \in Users : unseen[u] > 0 => unseen'[u] > 0
         /\ exists => m \in uncounted' \/ unseen'[Recipient(m)] > 0
<1> USE DEF ChatTypeOK
<1>1. Recipient(m) \in Users
  BY PeerAssumption, SenderAssumption DEF Recipient
<1>2. CASE exists /\ unseen' = Counted(m) /\ lastMessage' = m /\ UNCHANGED uncounted
  <2> DEFINE r == Recipient(m)
  <2>1. unseen' = [unseen EXCEPT ![r] = unseen[r] + 1] /\ r \in Users
    BY <1>1, <1>2 DEF Counted
  <2>2. unseen'[r] = unseen[r] + 1 /\ unseen[r] \in Nat
    BY <2>1
  <2>3. \A u \in Users : u # r => unseen'[u] = unseen[u]
    BY <2>1
  <2>4. unseen' \in [Users -> Nat]
    BY <2>1, <2>2
  <2> HIDE DEF r
  <2>5. \A u \in Users : unseen[u] > 0 => unseen'[u] > 0
    <3> SUFFICES ASSUME NEW u \in Users, unseen[u] > 0 PROVE unseen'[u] > 0
      OBVIOUS
    <3>1. CASE u = r
      BY <2>2, <3>1
    <3>2. CASE u # r
      BY <2>3, <3>2
    <3> QED BY <3>1, <3>2
  <2>6. unseen'[r] > 0
    BY <2>2
  <2> QED BY <1>2, <2>4, <2>5, <2>6 DEF r
<1>3. CASE UNCHANGED <<unseen, lastMessage>> /\ uncounted' = uncounted \union {m}
  BY <1>3
<1>4. CASE ~exists /\ UNCHANGED <<unseen, lastMessage, uncounted>>
  BY <1>4
<1> QED BY <1>2, <1>3, <1>4 DEF AddToUnseenAndLastMessage

(* Where no row goes, whatever was within reach stays so. *)
LEMMA ReachedKept ==
  ASSUME NEW u, log' = log, read[u] \subseteq read'[u]
  PROVE  /\ Reached(u) \subseteq Reached(u)'
         /\ read'[u] = read[u] => Reached(u)' = Reached(u)
  BY DEF Reached

(* Once the last message has been returned, all are within reach. *)
LEMMA LastReaches ==
  ASSUME ChatTypeOK, log' = log, NEW u, LatestRows \subseteq read'[u]
  PROVE  Stored \subseteq Reached(u)'
<1> SUFFICES ASSUME NEW i \in DOMAIN log PROVE log[i] \in Reached(u)'
  BY DEF Stored
<1>1. /\ Len(log) \in DOMAIN log /\ i <= Len(log)
      /\ Len(log) > Len(log) - OpenLimit
  BY OpenLimitAssumption DEF ChatTypeOK
<1>2. log[Len(log)] \in read'[u]
  BY <1>1 DEF LatestRows
<1> QED BY <1>1, <1>2 DEF Reached

(* Steps that only take messages out of flight or into those read or given up,
   and lower no counter, keep the badge. *)
LEMMA BadgeKept ==
  ASSUME ChatInv, log' = log,
         uncounted \subseteq uncounted',
         \A u \in Users : unseen[u] > 0 => unseen'[u] > 0,
         \A u \in Users : read[u] \subseteq read'[u],
         \A u \in Users : cleared[u] \subseteq read'[u] \union cleared'[u] \union uncounted',
         \A m \in Stored : m \in InFlight =>
            m \in InFlight' \/ m \in uncounted' \/ unseen'[Recipient(m)] > 0
  PROVE  BadgeShows'
<1>1. Stored' = Stored /\ Stored \subseteq Messages
  BY DEF Stored, ChatInv, ChatTypeOK
<1>2. \A m \in Messages : Recipient(m) \in Users
  BY PeerAssumption, SenderAssumption DEF Recipient
<1>5. ASSUME NEW u \in Users
      PROVE  /\ Reached(u) \subseteq Reached(u)'
             /\ Stored \intersect read'[u] \subseteq Reached(u)'
  BY ReachedKept DEF Reached, Stored, ChatInv, ChatTypeOK
<1> SUFFICES ASSUME NEW m \in Stored, m \notin InFlight', m \notin uncounted',
                    m \notin Reached(Recipient(m))' \union cleared'[Recipient(m)]
             PROVE  unseen'[Recipient(m)] > 0
  BY <1>1 DEF BadgeShows, Recipient
<1>3. CASE m \in InFlight
  BY <1>3
<1>4. CASE m \notin InFlight
  <2>1. m \notin uncounted /\ m \notin Reached(Recipient(m)) \union cleared[Recipient(m)]
    BY <1>1, <1>2, <1>5
  <2>2. unseen[Recipient(m)] > 0
    BY <1>4, <2>1 DEF ChatInv, BadgeShows
  <2> QED BY <1>1, <1>2, <2>2
<1> QED BY <1>3, <1>4

(* Nothing that leaves the room's rows and the sends as they are disturbs the
   order. *)
LEMMA OrderKept ==
  ASSUME ChatInv, log' = log, overlapped \subseteq overlapped', InFlight' \subseteq InFlight
  PROVE  SenderOrderKept'
  BY DEF ChatInv, SenderOrderKept

(* One send fewer is one message fewer in flight. *)
LEMMA OneFlightLess ==
  ASSUME ChatTypeOK, NEW s \in Sockets, sending[s] # <<>>,
         sending' = [sending EXCEPT ![s] = <<>>]
  PROVE  /\ InFlight' \subseteq InFlight
         /\ sending[s][1] \in Messages
         /\ \A m \in InFlight : m \in InFlight' \/ m = sending[s][1]
         /\ sending' \in [Sockets -> {<<>>} \union (Messages \X Sockets)]
<1> USE DEF ChatTypeOK
<1>1. sending[s] \in Messages \X Sockets
  OBVIOUS
<1>2. \A t \in Sockets : t # s => sending'[t] = sending[t]
  OBVIOUS
<1>3. sending'[s] = <<>>
  OBVIOUS
<1>4. InFlight' \subseteq InFlight
  BY <1>2, <1>3 DEF InFlight
<1>5. \A m \in InFlight : m \in InFlight' \/ m = sending[s][1]
  BY <1>2 DEF InFlight
<1> QED BY <1>1, <1>4, <1>5

(* A frame stored: its message is in flight or counted, and no earlier message
   of the sender is in flight, as the sender's one endpoint was listening. *)
LEMMA SendMessageInv ==
  ASSUME ChatInv, NEW s \in Sockets, NEW m \in Messages, SendMessage(s, m)
  PROVE  ChatInv'
<1> USE PeerAssumption, SenderAssumption, OwnerAssumption, NoSocketAssumption
<1>1. /\ ChatTypeOK /\ RegistryInv /\ FlightsServed /\ BadgeShows /\ SenderOrderKept
      /\ endpoint[s] = "listening" /\ sending[s] = <<>> /\ Sender[m] = Owner[s]
      /\ exists /\ m \notin Stored /\ log' = Append(log, m)
      /\ UNCHANGED <<exists, lastSeen, opening, socketVars>>
  BY ChatInvRegistry DEF ChatInv, SendMessage, Listening
<1>2. UNCHANGED <<registry, endpoint, gone, faulted, overlapped>>
  BY <1>1 DEF socketVars
<1>3. Recipient(m) \in Users
  BY DEF Recipient
<1>4. \/ /\ sending' = [sending EXCEPT ![s] = <<m, registry[Recipient(m)]>>]
         /\ registry[Recipient(m)] # NoSocket
         /\ UNCHANGED <<unseen, lastMessage, uncounted>>
      \/ AddToUnseenAndLastMessage(m) /\ UNCHANGED sending
  BY DEF SendMessage
<1>5. /\ unseen' \in [Users -> Nat] /\ lastMessage' \in Messages \union {NoMessage}
      /\ uncounted \subseteq uncounted' /\ uncounted' \subseteq Messages
      /\ \A u \in Users : unseen[u] > 0 => unseen'[u] > 0
  BY <1>1, <1>4, AddEffect DEF ChatTypeOK
<1>6. sending' \in [Sockets -> {<<>>} \union (Messages \X Sockets)]
  <2>1. registry[Recipient(m)] \in Sockets \union {NoSocket}
    BY <1>1, <1>3 DEF RegistryInv, RegistryTypeOK
  <2>2. CASE UNCHANGED sending
    BY <1>1, <2>2 DEF ChatTypeOK
  <2>3. CASE /\ sending' = [sending EXCEPT ![s] = <<m, registry[Recipient(m)]>>]
             /\ registry[Recipient(m)] # NoSocket
    <3>1. <<m, registry[Recipient(m)]>> \in Messages \X Sockets
      BY <2>1, <2>3
    <3> QED BY <1>1, <2>3, <3>1 DEF ChatTypeOK
  <2> QED BY <1>4, <2>2, <2>3
<1>7. /\ \A t \in Sockets : sending[t] # <<>> => sending'[t] = sending[t]
      /\ \A t \in Sockets : sending'[t] # <<>> => sending'[t] = sending[t] \/ (t = s /\ sending'[t][1] = m)
  BY <1>1, <1>4 DEF ChatTypeOK
<1>8. InFlight \subseteq InFlight' /\ InFlight' \subseteq InFlight \union {m}
  BY <1>7 DEF InFlight
<1>9. /\ log' \in Seq(Messages) /\ Len(log') = Len(log) + 1 /\ Len(log) \in Nat
      /\ log'[Len(log) + 1] = m /\ \A i \in 1..Len(log) : log'[i] = log[i]
  BY <1>1 DEF ChatTypeOK
<1>10. ChatTypeOK'
  BY <1>1, <1>2, <1>5, <1>6, <1>9 DEF ChatTypeOK, RegistryTypeOK, opening
<1>11. RegistryAccurate'
  BY <1>1, <1>2 DEF RegistryInv, RegistryAccurate, EntryAccurate, Serving
<1>12. FlightsServed' /\ LookedUp'
  BY <1>1, <1>2, <1>7 DEF ChatInv, FlightsServed, LookedUp, opening
<1>13. GoneIsEmpty'
  BY <1>1 DEF GoneIsEmpty
<1>14. BadgeShows'
  <2>1. Stored' \subseteq Stored \union {m} /\ Stored \subseteq Messages
    <3>1. Stored' \subseteq Stored \union {m}
      BY <1>1, <1>9 DEF Stored, ChatTypeOK
    <3> QED BY <1>1, <3>1 DEF Stored, ChatTypeOK
  <2>2. UNCHANGED <<read, cleared>>
    BY <1>1 DEF opening
  <2>5. ASSUME NEW u PROVE Reached(u) \subseteq Reached(u)'
    <3>1. /\ DOMAIN log = 1..Len(log) /\ DOMAIN log' = 1..(Len(log) + 1)
          /\ \A i \in DOMAIN log : i \in DOMAIN log' /\ log'[i] = log[i]
      BY <1>1, <1>9 DEF ChatTypeOK
    <3> QED BY <2>2, <3>1 DEF Reached
  <2> SUFFICES ASSUME NEW k \in Stored', k \notin InFlight', k \notin uncounted',
                      k \notin Reached(Recipient(k))' \union cleared[Recipient(k)]
               PROVE  unseen'[Recipient(k)] > 0
    BY <2>2 DEF BadgeShows, Recipient
  <2>3. CASE k = m
    <3>1. CASE sending' = [sending EXCEPT ![s] = <<m, registry[Recipient(m)]>>]
      <4>1. sending'[s] = <<m, registry[Recipient(m)]>>
        BY <1>1, <3>1 DEF ChatTypeOK
      <4>2. m \in InFlight'
        BY <4>1 DEF InFlight
      <4> QED BY <2>3, <4>2
    <3>2. CASE AddToUnseenAndLastMessage(m)
      BY <1>1, <2>3, <3>2, AddEffect
    <3> QED BY <1>4, <3>1, <3>2
  <2>4. CASE k # m
    <3>1. k \in Stored \ (InFlight \union uncounted) /\ Recipient(k) \in Users
      BY <1>5, <1>8, <2>1, <2>4 DEF Recipient
    <3>2. unseen[Recipient(k)] > 0
      BY <1>1, <2>5, <3>1 DEF BadgeShows
    <3> QED BY <1>5, <3>1, <3>2
  <2> QED BY <2>3, <2>4
<1>15. SenderOrderKept'
  <2> SUFFICES ASSUME NEW i \in DOMAIN log', NEW j \in DOMAIN log', i < j,
                      Sender[log'[i]] = Sender[log'[j]], Sender[log'[i]] \notin overlapped
               PROVE  log'[i] \notin InFlight'
    BY <1>2 DEF SenderOrderKept
  <2>1. i \in 1..Len(log) /\ i \in DOMAIN log /\ log'[i] = log[i] /\ log[i] \in Messages
    BY <1>1, <1>9 DEF ChatTypeOK
  <2>2. log[i] # m
    BY <1>1, <2>1 DEF Stored
  <2>3. CASE j \in 1..Len(log)
    <3>1. log'[j] = log[j] /\ j \in DOMAIN log
      BY <1>1, <1>9, <2>3 DEF ChatTypeOK
    <3>2. log[i] \notin InFlight
      BY <1>1, <2>1, <3>1 DEF SenderOrderKept
    <3> QED BY <1>8, <2>1, <2>2, <3>2
  <2>4. CASE j = Len(log) + 1
    <3>1. SUFFICES ASSUME NEW t \in Sockets, sending[t] # <<>>, sending[t][1] = log[i]
                   PROVE  FALSE
      BY <1>8, <2>1, <2>2 DEF InFlight
    <3>2. endpoint[t] = "listening" /\ Owner[t] = Owner[s] /\ Owner[s] \in Users
      BY <1>1, <1>9, <2>1, <2>4, <3>1 DEF FlightsServed
    <3>3. Owner[s] \notin overlapped
      BY <1>1, <1>9, <2>4
    <3>4. Serving(s) /\ Serving(t)
      BY <1>1, <3>2 DEF Serving
    <3>5. registry[Owner[s]] = s /\ registry[Owner[s]] = t
      BY <1>1, <3>2, <3>3, <3>4 DEF RegistryInv, RegistryAccurate, EntryAccurate
    <3> QED BY <1>1, <3>1, <3>5
  <2> QED BY <1>9, <2>3, <2>4
<1> QED BY <1>10, <1>11, <1>12, <1>13, <1>14, <1>15 DEF ChatInv

(* A send that completes has its message counted. *)
LEMMA PassedOnInv ==
  ASSUME ChatInv, NEW s \in Sockets, PassedOn(s)
  PROVE  ChatInv'
<1> DEFINE m == sending[s][1]
<1>1. /\ ChatTypeOK /\ sending[s] # <<>> /\ AddToUnseenAndLastMessage(m)
      /\ sending' = [sending EXCEPT ![s] = <<>>]
      /\ UNCHANGED <<exists, log, lastSeen, opening, socketVars>>
  BY DEF ChatInv, PassedOn
<1>2. /\ InFlight' \subseteq InFlight /\ m \in Messages
      /\ \A k \in InFlight : k \in InFlight' \/ k = m
      /\ sending' \in [Sockets -> {<<>>} \union (Messages \X Sockets)]
  BY <1>1, OneFlightLess
<1>3. /\ unseen' \in [Users -> Nat] /\ lastMessage' \in Messages \union {NoMessage}
      /\ uncounted \subseteq uncounted' /\ uncounted' \subseteq Messages
      /\ \A u \in Users : unseen[u] > 0 => unseen'[u] > 0
      /\ exists => m \in uncounted' \/ unseen'[Recipient(m)] > 0
  BY <1>1, <1>2, AddEffect
<1>4. ChatTypeOK'
  BY <1>1, <1>2, <1>3 DEF ChatTypeOK, RegistryTypeOK, opening, socketVars
<1>5. RegistryAccurate'
  BY <1>1 DEF ChatInv, RegistryAccurate, EntryAccurate, Serving, socketVars
<1>6. FlightsServed' /\ LookedUp' /\ GoneIsEmpty'
  BY <1>1 DEF ChatInv, ChatTypeOK, FlightsServed, LookedUp, GoneIsEmpty, opening, socketVars
<1>7. Stored = {} \/ exists
  BY DEF ChatInv, GoneIsEmpty, Stored
<1>8. BadgeShows'
  BY <1>1, <1>2, <1>3, <1>7, BadgeKept DEF opening
<1>9. SenderOrderKept'
  BY <1>1, <1>2, OrderKept DEF socketVars
<1> QED BY <1>4, <1>5, <1>6, <1>8, <1>9 DEF ChatInv

(* A send that raises has its message given up. *)
LEMMA PassingFailsInv ==
  ASSUME ChatInv, NEW s \in Sockets, PassingFails(s)
  PROVE  ChatInv'
<1> DEFINE m == sending[s][1]
<1>1. /\ ChatTypeOK /\ sending[s] # <<>> /\ uncounted' = uncounted \union {m}
      /\ sending' = [sending EXCEPT ![s] = <<>>]
      /\ UNCHANGED <<rows, opening, socketVars>>
  BY DEF ChatInv, PassingFails
<1>2. /\ InFlight' \subseteq InFlight /\ m \in Messages
      /\ \A k \in InFlight : k \in InFlight' \/ k = m
      /\ sending' \in [Sockets -> {<<>>} \union (Messages \X Sockets)]
  BY <1>1, OneFlightLess
<1>3. ChatTypeOK'
  BY <1>1, <1>2 DEF ChatTypeOK, RegistryTypeOK, rows, opening, socketVars
<1>4. RegistryAccurate'
  BY <1>1 DEF ChatInv, RegistryAccurate, EntryAccurate, Serving, socketVars
<1>5. FlightsServed' /\ LookedUp' /\ GoneIsEmpty'
  BY <1>1 DEF ChatInv, ChatTypeOK, FlightsServed, LookedUp, GoneIsEmpty, rows, opening,
              socketVars
<1>6. BadgeShows'
  BY <1>1, <1>2, BadgeKept DEF rows, opening
<1>7. SenderOrderKept'
  BY <1>1, <1>2, OrderKept DEF rows, socketVars
<1> QED BY <1>3, <1>4, <1>5, <1>6, <1>7 DEF ChatInv

(* Endpoints come and go without touching the room; one that passes a message on
   stays until the send is over. *)
LEMMA EndpointInv ==
  ASSUME ChatInv, NEW s \in Sockets,
         SocketStep(s) \/ \E m \in Messages : InsertFails(s, m)
  PROVE  ChatInv'
<1>1. UNCHANGED <<rows, sending, opening, uncounted>>
  BY DEF SocketStep, InsertFails
<1>2. RegistryInv'
  <2>1. CASE SocketStep(s)
    BY <2>1, ChatInvRegistry, RegistryNextInv DEF SocketStep, RegistryNext
  <2>2. CASE \E m \in Messages : InsertFails(s, m)
    BY <2>2, ChatInvRegistry, FaultInv DEF InsertFails
  <2> QED BY <2>1, <2>2
<1>3. overlapped \subseteq overlapped'
  BY DEF SocketStep, InsertFails, Accept, Greet, GreetFails, ClientLeaves, BadFrame,
         Disconnected, Fault
<1>4. \A t \in Sockets : sending[t] # <<>> /\ endpoint[t] = "listening" => endpoint'[t] = "listening"
  BY DEF ChatInv, ChatTypeOK, RegistryTypeOK, SocketStep, InsertFails, Accept, Greet,
         GreetFails, ClientLeaves, BadFrame, Disconnected, Fault, Listening
<1>5. ChatTypeOK'
  BY <1>1, <1>2 DEF ChatInv, ChatTypeOK, RegistryInv, rows, opening
<1>6. FlightsServed' /\ LookedUp' /\ GoneIsEmpty'
  BY <1>1, <1>4 DEF ChatInv, FlightsServed, LookedUp, GoneIsEmpty, rows, opening
<1>7. InFlight' = InFlight
  BY <1>1 DEF InFlight
<1>8. BadgeShows'
  BY <1>1, <1>7, BadgeKept DEF rows, opening
<1>9. SenderOrderKept'
  BY <1>1, <1>3, <1>7, OrderKept DEF rows
<1> QED BY <1>2, <1>5, <1>6, <1>8, <1>9 DEF ChatInv, RegistryInv

(* A request to open the room moves on without touching the counter or the
   messages, except where it resets the counter, reads, or fails. *)
LEMMA OpenInv ==
  ASSUME ChatInv, NEW u \in Users, Open(u) \/ LookUpLast(u) \/ Notified(u)
  PROVE  ChatInv'
<1>1. UNCHANGED <<rows, sending, read, cleared, uncounted, socketVars>>
  BY DEF Open, LookUpLast, Notified
<1>2. stage' \in [Users -> Stages]
  BY DEF ChatInv, ChatTypeOK, Stages, Open, LookUpLast, Notified
<1>3. looked' \in [Users -> Messages \union {NoMessage}]
  <2>1. CASE Open(u) \/ Notified(u)
    BY <2>1 DEF ChatInv, ChatTypeOK, Open, Notified
  <2>2. CASE LookUpLast(u)
    <3>1. log # <<>> => log[Len(log)] \in Messages
      BY DEF ChatInv, ChatTypeOK
    <3> QED BY <2>2, <3>1 DEF ChatInv, ChatTypeOK, LookUpLast
  <2> QED BY <2>1, <2>2
<1>4. receiptTo' \in [Users -> Sockets \union {NoSocket}]
  BY DEF ChatInv, ChatTypeOK, Open, LookUpLast, Notified
<1>5. receipted' \subseteq Messages
  <2>1. CASE Open(u) \/ LookUpLast(u)
    BY <2>1 DEF ChatInv, ChatTypeOK, Open, LookUpLast
  <2>2. CASE Notified(u)
    BY <2>2 DEF ChatInv, ChatTypeOK, LookedUp, Notified
  <2> QED BY <2>1, <2>2
<1>6. ChatTypeOK'
  BY <1>1, <1>2, <1>3, <1>4, <1>5 DEF ChatInv, ChatTypeOK, RegistryTypeOK, rows, socketVars
<1>7. RegistryAccurate' /\ FlightsServed' /\ GoneIsEmpty'
  BY <1>1 DEF ChatInv, RegistryAccurate, EntryAccurate, Serving, FlightsServed, GoneIsEmpty,
              rows, socketVars
<1>8. InFlight' = InFlight
  BY <1>1 DEF InFlight
<1>9. BadgeShows'
  BY <1>1, <1>8, BadgeKept DEF rows
<1>10. SenderOrderKept'
  BY <1>1, <1>8, OrderKept DEF rows, socketVars
<1>11. LookedUp'
  <2>1. CASE Open(u) \/ Notified(u)
    BY <2>1 DEF ChatInv, ChatTypeOK, LookedUp, Open, Notified
  <2>2. CASE LookUpLast(u)
    <3>1. log # <<>> => log[Len(log)] \in Messages
      BY DEF ChatInv, ChatTypeOK
    <3> QED BY <2>2, <3>1 DEF ChatInv, ChatTypeOK, LookedUp, LookUpLast
  <2> QED BY <2>1, <2>2
<1> QED BY <1>6, <1>7, <1>9, <1>10, <1>11 DEF ChatInv

(* Resetting the counter: what it counted is what the request will return. *)
LEMMA MarkSeenInv ==
  ASSUME ChatInv, NEW u \in Users, MarkSeen(u)
  PROVE  ChatInv'
<1> USE PeerAssumption, SenderAssumption
<1>1. /\ ChatTypeOK
      /\ UNCHANGED <<exists, log, lastMessage, sending, looked, read, receipted, uncounted,
                     socketVars>>
      /\ stage[u] = "marking"
      /\ cleared' = [cleared EXCEPT ![u] = Stored]
      /\ receiptTo' = [receiptTo EXCEPT ![u] = registry[Peer[u]]]
      /\ stage' = [stage EXCEPT ![u] = IF registry[Peer[u]] = NoSocket
                                       THEN "reading" ELSE "notifying"]
  BY DEF ChatInv, MarkSeen
<1>2. Stored \subseteq Messages
  BY <1>1 DEF Stored, ChatTypeOK
<1>3. /\ unseen' \in [Users -> Nat]
      /\ \A v \in Users : v # u => unseen'[v] = unseen[v]
  <2>1. unseen' = [unseen EXCEPT ![u] = 0] \/ unseen' = unseen
    BY DEF MarkSeen, Cleared
  <2> QED BY <1>1, <2>1 DEF ChatTypeOK
<1>4. lastSeen' \in [Users -> Messages \union {NoMessage}]
  <2>1. lastSeen' = [lastSeen EXCEPT ![u] = looked[u]] \/ lastSeen' = lastSeen
    BY DEF MarkSeen
  <2>2. looked[u] \in Messages \union {NoMessage}
    BY <1>1 DEF ChatTypeOK
  <2> QED BY <1>1, <2>1, <2>2 DEF ChatTypeOK
<1>5. receiptTo' \in [Users -> Sockets \union {NoSocket}]
  BY <1>1 DEF ChatTypeOK, RegistryTypeOK
<1>6. stage' \in [Users -> Stages]
  BY <1>1 DEF ChatTypeOK, Stages
<1>7. cleared' \in [Users -> SUBSET Messages]
  BY <1>1, <1>2 DEF ChatTypeOK
<1>8. ChatTypeOK'
  BY <1>1, <1>3, <1>4, <1>5, <1>6, <1>7 DEF ChatTypeOK, RegistryTypeOK, socketVars
<1>9. RegistryAccurate' /\ FlightsServed' /\ GoneIsEmpty'
  BY <1>1 DEF ChatInv, RegistryAccurate, EntryAccurate, Serving, FlightsServed, GoneIsEmpty,
              socketVars
<1>10. LookedUp'
  BY <1>1 DEF ChatInv, ChatTypeOK, LookedUp
<1>11. InFlight' = InFlight /\ Stored' = Stored
  BY <1>1 DEF InFlight, Stored
<1>12. BadgeShows'
  <2> SUFFICES ASSUME NEW m \in Stored, m \notin InFlight, m \notin uncounted,
                      m \notin Reached(Recipient(m)) \union cleared'[Recipient(m)]
               PROVE  unseen'[Recipient(m)] > 0
    BY <1>1, <1>11 DEF BadgeShows, Recipient, Reached
  <2>1. Recipient(m) \in Users
    BY <1>2 DEF Recipient
  <2>2. Recipient(m) # u
    BY <1>1, <2>1 DEF ChatTypeOK
  <2>3. cleared'[Recipient(m)] = cleared[Recipient(m)]
    BY <1>1, <2>1, <2>2 DEF ChatTypeOK
  <2>4. unseen[Recipient(m)] > 0
    BY <2>3 DEF ChatInv, BadgeShows
  <2> QED BY <1>3, <2>1, <2>2, <2>4
<1>13. SenderOrderKept'
  BY <1>1, <1>11, OrderKept DEF socketVars
<1> QED BY <1>8, <1>9, <1>10, <1>12, <1>13 DEF ChatInv

(* The request returns the last messages, which puts all within reach, or gives up
   what it had reset. *)
LEMMA OpenEndsInv ==
  ASSUME ChatInv, NEW u \in Users, ReadRows(u) \/ OpenFails(u)
  PROVE  ChatInv'
<1>1. /\ ChatTypeOK
      /\ UNCHANGED <<rows, sending, receiptTo, receipted, socketVars>>
      /\ stage' = [stage EXCEPT ![u] = "none"]
      /\ looked' = [looked EXCEPT ![u] = NoMessage]
      /\ cleared' = [cleared EXCEPT ![u] = {}]
  BY DEF ChatInv, ReadRows, OpenFails
<1>2. \/ read' = [read EXCEPT ![u] = @ \union LatestRows] /\ uncounted' = uncounted
      \/ read' = read /\ uncounted' = uncounted \union (cleared[u] \ read[u])
  BY DEF ReadRows, OpenFails
<1>3. Stored \subseteq Messages /\ LatestRows \subseteq Stored
  BY <1>1 DEF Stored, LatestRows, ChatTypeOK
<1>4. /\ read' \in [Users -> SUBSET Messages] /\ cleared' \in [Users -> SUBSET Messages]
      /\ uncounted' \subseteq Messages /\ uncounted \subseteq uncounted'
  BY <1>1, <1>2, <1>3 DEF ChatTypeOK
<1>5. ChatTypeOK'
  BY <1>1, <1>4 DEF ChatTypeOK, RegistryTypeOK, Stages, rows, socketVars
<1>6. RegistryAccurate' /\ FlightsServed' /\ GoneIsEmpty'
  BY <1>1 DEF ChatInv, RegistryAccurate, EntryAccurate, Serving, FlightsServed, GoneIsEmpty,
              rows, socketVars
<1>7. LookedUp'
  BY <1>1 DEF ChatInv, ChatTypeOK, LookedUp
<1>8. InFlight' = InFlight /\ Stored' = Stored
  BY <1>1 DEF InFlight, Stored, rows
<1>9. BadgeShows'
  <2>1. CASE read' = read /\ uncounted' = uncounted \union (cleared[u] \ read[u])
    <3>1. /\ log' = log /\ unseen' = unseen
          /\ \A v \in Users : v # u => cleared'[v] = cleared[v]
          /\ cleared[u] \subseteq read[u] \union uncounted'
      BY <1>1, <2>1 DEF rows, ChatTypeOK
    <3> QED BY <1>4, <1>8, <2>1, <3>1, BadgeKept
  <2>2. CASE read' = [read EXCEPT ![u] = @ \union LatestRows] /\ uncounted' = uncounted
    <3>1. /\ log' = log /\ unseen' = unseen
          /\ \A v \in Users : v # u => cleared'[v] = cleared[v] /\ read'[v] = read[v]
          /\ LatestRows \subseteq read'[u]
      BY <1>1, <2>2 DEF rows, ChatTypeOK
    <3>2. Stored \subseteq Reached(u)'
      BY <1>1, <3>1, LastReaches
    <3> SUFFICES ASSUME NEW m \in Stored, m \notin InFlight, m \notin uncounted,
                        m \notin Reached(Recipient(m))' \union cleared'[Recipient(m)]
                 PROVE  unseen[Recipient(m)] > 0
      BY <1>8, <2>2, <3>1 DEF BadgeShows, Recipient
    <3>3. Recipient(m) \in Users /\ Recipient(m) # u
      BY <1>3, <3>2, PeerAssumption, SenderAssumption DEF Recipient
    <3>4. m \notin Reached(Recipient(m)) \union cleared[Recipient(m)]
      BY <3>1, <3>3 DEF Reached
    <3> QED BY <3>4 DEF ChatInv, BadgeShows
  <2> QED BY <1>2, <2>1, <2>2
<1>10. SenderOrderKept'
  BY <1>1, <1>8, OrderKept DEF rows, socketVars
<1> QED BY <1>5, <1>6, <1>7, <1>9, <1>10 DEF ChatInv

(* A block removes the messages with the room. *)
LEMMA BlockInv ==
  ASSUME ChatInv, Block
  PROVE  ChatInv'
<1>1. /\ ChatTypeOK /\ exists' = FALSE /\ log' = <<>> /\ lastMessage' = NoMessage
      /\ unseen' = [u \in Users |-> 0] /\ lastSeen' = [u \in Users |-> NoMessage]
      /\ UNCHANGED <<sending, opening, uncounted, socketVars>>
  BY DEF ChatInv, Block
<1>2. ChatTypeOK'
  <2>1. RegistryTypeOK'
    BY <1>1 DEF ChatTypeOK, RegistryTypeOK, socketVars
  <2>2. log' \in Seq(Messages)
    BY <1>1
  <2>3. unseen' \in [Users -> Nat] /\ lastSeen' \in [Users -> Messages \union {NoMessage}]
    BY <1>1
  <2> QED BY <1>1, <2>1, <2>2, <2>3 DEF ChatTypeOK, opening
<1>3. RegistryAccurate' /\ FlightsServed' /\ LookedUp' /\ GoneIsEmpty'
  BY <1>1 DEF ChatInv, RegistryAccurate, EntryAccurate, Serving, FlightsServed, LookedUp,
              GoneIsEmpty, opening, socketVars
<1>4. Stored' = {} /\ DOMAIN log' = {}
  BY <1>1 DEF Stored
<1>5. BadgeShows' /\ SenderOrderKept'
  BY <1>4 DEF BadgeShows, SenderOrderKept
<1> QED BY <1>2, <1>3, <1>5 DEF ChatInv

(* A restart gives up what was in flight and what was reset and not returned. *)
LEMMA RestartInv ==
  ASSUME ChatInv, Restart
  PROVE  ChatInv'
<1>1. /\ ChatTypeOK
      /\ registry' = [u \in Users |-> NoSocket]
      /\ endpoint' = [s \in Sockets |-> IF Serving(s) THEN "ended" ELSE endpoint[s]]
      /\ gone' = gone \union {s \in Sockets : Serving(s)}
      /\ sending' = [s \in Sockets |-> <<>>]
      /\ stage' = [u \in Users |-> "none"]
      /\ looked' = [u \in Users |-> NoMessage]
      /\ receiptTo' = [u \in Users |-> NoSocket]
      /\ cleared' = [u \in Users |-> {}]
      /\ uncounted' = uncounted \union InFlight \union UNION {cleared[u] \ read[u] : u \in Users}
      /\ UNCHANGED <<faulted, overlapped, rows, read, receipted>>
  BY DEF ChatInv, Restart, ProcessKilled
<1>2. uncounted' \subseteq Messages
  <2>1. InFlight \subseteq Messages
    BY DEF InFlight
  <2>2. \A u \in Users : cleared[u] \ read[u] \subseteq Messages
    BY <1>1 DEF ChatTypeOK
  <2> QED BY <1>1, <2>1, <2>2 DEF ChatTypeOK
<1>4. RegistryInv'
  BY ChatInvRegistry, ProcessKilledInv DEF Restart
<1>5. ChatTypeOK'
  BY <1>1, <1>2, <1>4 DEF ChatTypeOK, RegistryInv, Stages, rows
<1>6. RegistryAccurate'
  BY <1>4 DEF RegistryInv
<1>7. FlightsServed' /\ GoneIsEmpty'
  BY <1>1 DEF ChatInv, FlightsServed, GoneIsEmpty, rows
<1>8. LookedUp'
  BY <1>1 DEF LookedUp
<1>9. InFlight' = {}
  BY <1>1 DEF InFlight
<1>10. \A u \in Users : cleared[u] \subseteq read'[u] \union cleared'[u] \union uncounted'
  BY <1>1
<1>11. BadgeShows'
  BY <1>1, <1>10, BadgeKept DEF rows
<1>12. SenderOrderKept'
  BY <1>1, <1>9, OrderKept DEF rows
<1> QED BY <1>5, <1>6, <1>7, <1>8, <1>11, <1>12 DEF ChatInv

(* Every step of the room keeps the invariant. *)
LEMMA ChatNextInv == ChatInv /\ [ChatNext]_chatVars => ChatInv'
<1> SUFFICES ASSUME ChatInv, [ChatNext]_chatVars PROVE ChatInv'
  OBVIOUS
<1>1. ASSUME NEW s \in Sockets, SocketStep(s) \/ \E m \in Messages : InsertFails(s, m)
      PROVE  ChatInv'
  BY <1>1, EndpointInv
<1>2. ASSUME NEW s \in Sockets, PassedOn(s) PROVE ChatInv'
  BY <1>2, PassedOnInv
<1>3. ASSUME NEW s \in Sockets, PassingFails(s) PROVE ChatInv'
  BY <1>3, PassingFailsInv
<1>4. ASSUME NEW s \in Sockets, NEW m \in Messages, SendMessage(s, m) PROVE ChatInv'
  BY <1>4, SendMessageInv
<1>5. ASSUME NEW u \in Users, Open(u) \/ LookUpLast(u) \/ Notified(u) PROVE ChatInv'
  BY <1>5, OpenInv
<1>6. ASSUME NEW u \in Users, MarkSeen(u) PROVE ChatInv'
  BY <1>6, MarkSeenInv
<1>7. ASSUME NEW u \in Users, ReadRows(u) \/ OpenFails(u) PROVE ChatInv'
  BY <1>7, OpenEndsInv
<1>8. CASE Block
  BY <1>8, BlockInv
<1>9. CASE Restart
  BY <1>9, RestartInv
<1>10. CASE UNCHANGED chatVars
  <2>1. UNCHANGED <<rows, sending, opening, uncounted, socketVars>>
    BY <1>10 DEF chatVars
  <2>2. ChatTypeOK' /\ FlightsServed' /\ LookedUp' /\ GoneIsEmpty' /\ RegistryAccurate'
    BY <2>1 DEF ChatInv, ChatTypeOK, RegistryTypeOK, FlightsServed, LookedUp, GoneIsEmpty,
                RegistryAccurate, EntryAccurate, Serving, rows, opening, socketVars
  <2>3. InFlight' = InFlight
    BY <2>1 DEF InFlight
  <2>4. BadgeShows'
    BY <2>1, <2>3, BadgeKept DEF rows, opening
  <2>5. SenderOrderKept'
    BY <2>1, <2>3, OrderKept DEF rows, socketVars
  <2> QED BY <2>2, <2>4, <2>5 DEF ChatInv
<1> QED
  BY <1>1, <1>2, <1>3, <1>4, <1>5, <1>6, <1>7, <1>8, <1>9, <1>10, ReadersAssumption DEF ChatNext

(* Every step of the chat is a step of the registry or leaves it alone; a frame
   whose insert raises ends its endpoint as one that is not JSON does. *)
LEMMA ChatStepsRegistry == [ChatNext]_chatVars => [RegistryNext]_socketVars
<1> SUFFICES ASSUME [ChatNext]_chatVars PROVE [RegistryNext]_socketVars
  OBVIOUS
<1>1. ASSUME NEW s \in Sockets, SocketStep(s) PROVE RegistryNext
  BY <1>1 DEF SocketStep, RegistryNext
<1>2. ASSUME NEW s \in Sockets, NEW m \in Messages, InsertFails(s, m) PROVE RegistryNext
  BY <1>2 DEF InsertFails, Listening, BadFrame, RegistryNext
<1>3. ASSUME NEW s \in Sockets,
             PassedOn(s) \/ PassingFails(s) \/ \E m \in Messages : SendMessage(s, m)
      PROVE  UNCHANGED socketVars
  BY <1>3 DEF PassedOn, PassingFails, SendMessage
<1>4. ASSUME NEW u \in Readers,
             \/ Open(u) \/ LookUpLast(u) \/ MarkSeen(u) \/ Notified(u) \/ ReadRows(u)
             \/ OpenFails(u)
      PROVE  UNCHANGED socketVars
  BY <1>4 DEF Open, LookUpLast, MarkSeen, Notified, ReadRows, OpenFails
<1>5. CASE Restart
  BY <1>5 DEF Restart, RegistryNext
<1>6. CASE Block \/ UNCHANGED chatVars
  BY <1>6 DEF Block, chatVars
<1> QED BY <1>1, <1>2, <1>3, <1>4, <1>5, <1>6 DEF ChatNext

(* The chat room implements the registry: its dictionary behaves as that of the
   other endpoints, whatever messages and requests are under way. *)
THEOREM ChatImplementsRegistry == ChatSpec => RegistrySafety
<1>1. ChatInit => RegistryInit
  BY DEF ChatInit
<1> QED BY <1>1, ChatStepsRegistry, PTL DEF ChatSpec, RegistrySafety

(* The chat room keeps its invariant, for any participants, sockets and
   messages, with or without failures. *)
THEOREM ChatInvariance == ChatSpec => []ChatInv
<1> QED BY ChatInitInv, ChatNextInv, PTL DEF ChatSpec

(* A stored message always shows in the recipient's counter until it or a newer one
   is returned, but for those in flight and those given up by an error. *)
THEOREM BadgeShowsAlways == ChatSpec => []BadgeShows
<1>1. ChatInv => BadgeShows
  BY DEF ChatInv
<1> QED BY <1>1, ChatInvariance, PTL

-----------------------------------------------------------------------------
(* What of a room's messages has been passed on to u. *)
Passed(u) == {m \in Stored \ InFlight : Recipient(m) = u}

(* The bound on the counters, with what makes it inductive: a message is passed
   on by one endpoint, and has been stored. *)
FlightsOnce ==
  \A s, t \in Sockets :
    sending[s] # <<>> /\ sending[t] # <<>> /\ sending[s][1] = sending[t][1] => s = t
BadgeIInv ==
  /\ IsFiniteSet(Stored) /\ FlightsOnce
  /\ exists => InFlight \subseteq Stored
  /\ BadgeBounded

(* A message that is stored joins those in the room, and no other. *)
LEMMA StoredAppend ==
  ASSUME NEW m \in Messages, log \in Seq(Messages), log' = Append(log, m)
  PROVE  Stored' = Stored \union {m}
<1>1. /\ Len(log') = Len(log) + 1 /\ Len(log) \in Nat
      /\ log'[Len(log) + 1] = m /\ \A i \in 1..Len(log) : log'[i] = log[i]
      /\ DOMAIN log' = 1..(Len(log) + 1) /\ DOMAIN log = 1..Len(log)
  OBVIOUS
<1> QED BY <1>1 DEF Stored

(* The bound is kept where no more is counted than is passed on. *)
LEMMA BoundKept ==
  ASSUME ChatTypeOK, ChatTypeOK', BadgeIInv, IsFiniteSet(Stored'),
         \A u \in Users :
           /\ Passed(u) \subseteq Passed(u)'
           /\ unseen'[u] <= unseen[u]
              \/ (unseen'[u] = unseen[u] + 1 /\ Passed(u)' # Passed(u))
  PROVE  BadgeBounded'
<1> SUFFICES ASSUME NEW u \in Users PROVE unseen'[u] <= Cardinality(Passed(u)')
  BY DEF BadgeBounded, Passed
<1>1. unseen[u] \in Nat /\ unseen'[u] \in Nat
  BY DEF ChatTypeOK
<1>2. IsFiniteSet(Passed(u)') /\ Cardinality(Passed(u)') \in Nat
  BY FS_Subset, FS_CardinalityType DEF Passed
<1>3. Passed(u) \subseteq Passed(u)'
  OBVIOUS
<1>4. /\ Cardinality(Passed(u)) \in Nat
      /\ Cardinality(Passed(u)) <= Cardinality(Passed(u)')
      /\ Cardinality(Passed(u)) = Cardinality(Passed(u)') => Passed(u)' = Passed(u)
  BY <1>2, <1>3, FS_Subset, FS_CardinalityType
<1>5. unseen[u] <= Cardinality(Passed(u))
  BY DEF BadgeIInv, BadgeBounded, Passed
<1> QED BY <1>1, <1>2, <1>4, <1>5

(* A count is one more for the recipient. *)
LEMMA AddCounts ==
  ASSUME ChatTypeOK, NEW m \in Messages, AddToUnseenAndLastMessage(m), NEW u \in Users
  PROVE  unseen'[u] = unseen[u] \/ (exists /\ u = Recipient(m) /\ unseen'[u] = unseen[u] + 1)
<1>1. CASE UNCHANGED unseen
  BY <1>1
<1>2. CASE exists /\ unseen' = Counted(m)
  BY <1>2 DEF Counted, ChatTypeOK
<1> QED BY <1>1, <1>2 DEF AddToUnseenAndLastMessage

(* A message an endpoint begins to pass on joins those in flight. *)
LEMMA FlightBegins ==
  ASSUME ChatTypeOK, NEW s \in Sockets, NEW m \in Messages, NEW t \in Sockets,
         sending[s] = <<>>, sending' = [sending EXCEPT ![s] = <<m, t>>]
  PROVE  InFlight' = InFlight \union {m}
<1>1. /\ sending'[s] # <<>> /\ sending'[s][1] = m
      /\ \A r \in Sockets \ {s} : sending'[r] = sending[r]
  BY DEF ChatTypeOK
<1> QED BY <1>1 DEF InFlight

(* A message an endpoint has passed on, or lost, was in flight and is no more. *)
LEMMA FlightEnds ==
  ASSUME ChatTypeOK, FlightsOnce, NEW s \in Sockets, sending[s] # <<>>,
         sending' = [sending EXCEPT ![s] = <<>>]
  PROVE  /\ sending[s][1] \in Messages /\ sending[s][1] \in InFlight
         /\ InFlight' = InFlight \ {sending[s][1]}
<1>1. sending[s][1] \in Messages /\ sending[s][1] \in InFlight
  BY DEF ChatTypeOK, InFlight
<1>2. sending'[s] = <<>> /\ \A t \in Sockets \ {s} : sending'[t] = sending[t]
  BY DEF ChatTypeOK
<1> QED BY <1>1, <1>2 DEF InFlight, FlightsOnce

LEMMA SendMessageBadge ==
  ASSUME ChatInv, ChatInv', BadgeIInv, NEW s \in Sockets, NEW m \in Messages,
         SendMessage(s, m)
  PROVE  BadgeIInv'
<1>1. /\ log \in Seq(Messages) /\ log' = Append(log, m) /\ m \notin Stored /\ exists
      /\ exists' = exists /\ sending[s] = <<>> /\ ChatTypeOK /\ ChatTypeOK'
      /\ InFlight \subseteq Stored /\ IsFiniteSet(Stored) /\ FlightsOnce
  BY DEF SendMessage, Listening, BadgeIInv, ChatInv, ChatTypeOK
<1>2. Stored' = Stored \union {m} /\ IsFiniteSet(Stored') /\ m \notin InFlight
  BY <1>1, StoredAppend, FS_AddElement
<1>3. CASE registry[Recipient(m)] # NoSocket
  <2>1. /\ sending' = [sending EXCEPT ![s] = <<m, registry[Recipient(m)]>>]
        /\ unseen' = unseen /\ DOMAIN sending = Sockets
    BY <1>1, <1>3 DEF SendMessage, ChatTypeOK
  <2>2. /\ sending'[s] = <<m, registry[Recipient(m)]>>
        /\ \A t \in Sockets \ {s} : sending'[t] = sending[t]
    BY <2>1
  <2>3. InFlight' = InFlight \union {m}
    <3>1. registry[Recipient(m)] \in Sockets
      BY <1>1, <1>3, PeerAssumption, SenderAssumption DEF Recipient, ChatTypeOK, RegistryTypeOK
    <3> QED BY <1>1, <2>1, <3>1, FlightBegins
  <2>4. FlightsOnce'
    <3>1. \A t \in Sockets : sending[t] # <<>> => sending[t][1] \in InFlight
      BY <1>1 DEF InFlight, ChatTypeOK
    <3> QED BY <1>1, <1>2, <2>2, <3>1 DEF FlightsOnce
  <2>5. \A u \in Users : Passed(u) \subseteq Passed(u)'
    BY <1>1, <1>2, <2>3 DEF Passed, Recipient
  <2>6. \A u \in Users : unseen'[u] <= unseen[u]
    BY <1>1, <2>1 DEF ChatTypeOK
  <2>7. BadgeBounded'
    BY <1>1, <1>2, <2>5, <2>6, BoundKept
  <2> QED BY <1>1, <1>2, <2>3, <2>4, <2>7 DEF BadgeIInv
<1>4. CASE registry[Recipient(m)] = NoSocket
  <2>1. sending' = sending /\ AddToUnseenAndLastMessage(m)
    BY <1>4 DEF SendMessage
  <2>2. InFlight' = InFlight /\ FlightsOnce'
    BY <1>1, <2>1 DEF InFlight, FlightsOnce
  <2>3. ASSUME NEW u \in Users
        PROVE  /\ Passed(u) \subseteq Passed(u)'
               /\ unseen'[u] <= unseen[u]
                  \/ (unseen'[u] = unseen[u] + 1 /\ Passed(u)' # Passed(u))
    <3>1. Passed(u) \subseteq Passed(u)' /\ (u = Recipient(m) => m \in Passed(u)' \ Passed(u))
      BY <1>1, <1>2, <2>2 DEF Passed, Recipient
    <3>2. unseen[u] \in Nat /\ unseen'[u] \in Nat
      BY <1>1 DEF ChatTypeOK
    <3> QED BY <1>1, <2>1, <3>1, <3>2, AddCounts
  <2>4. BadgeBounded'
    BY <1>1, <1>2, <2>3, BoundKept
  <2> QED BY <1>1, <1>2, <2>2, <2>4 DEF BadgeIInv
<1> QED BY <1>3, <1>4

(* A message has been passed on, or has been lost: its flight was the only one. *)
LEMMA FlightEndsBadge ==
  ASSUME ChatInv, ChatInv', BadgeIInv, NEW s \in Sockets, PassedOn(s) \/ PassingFails(s)
  PROVE  BadgeIInv'
<1> DEFINE m == sending[s][1]
<1>1. /\ sending[s] # <<>> /\ sending' = [sending EXCEPT ![s] = <<>>]
      /\ exists' = exists /\ log' = log /\ ChatTypeOK /\ ChatTypeOK'
      /\ DOMAIN sending = Sockets /\ m \in Messages /\ FlightsOnce
      /\ IsFiniteSet(Stored) /\ (exists => InFlight \subseteq Stored)
  BY DEF PassedOn, PassingFails, BadgeIInv, ChatInv, ChatTypeOK, rows
<1>2. Stored' = Stored /\ m \in InFlight
  BY <1>1 DEF Stored, InFlight
<1>3. sending'[s] = <<>> /\ \A t \in Sockets \ {s} : sending'[t] = sending[t]
  BY <1>1
<1>4. InFlight' = InFlight \ {m}
  BY <1>1, FlightEnds
<1>5. FlightsOnce'
  BY <1>1, <1>3 DEF FlightsOnce
<1>6. unseen' = unseen \/ AddToUnseenAndLastMessage(m)
  BY DEF PassedOn, PassingFails, rows
<1> HIDE DEF m
<1>7. ASSUME NEW u \in Users
      PROVE  /\ Passed(u) \subseteq Passed(u)'
             /\ unseen'[u] <= unseen[u]
                \/ (unseen'[u] = unseen[u] + 1 /\ Passed(u)' # Passed(u))
  <2>1. Passed(u) \subseteq Passed(u)'
    BY <1>2, <1>4 DEF Passed, Recipient
  <2>2. exists /\ u = Recipient(m) => m \in Passed(u)' \ Passed(u)
    BY <1>1, <1>2, <1>4 DEF Passed, Recipient
  <2>3. unseen[u] \in Nat /\ unseen'[u] \in Nat
    BY <1>1 DEF ChatTypeOK
  <2>4. unseen'[u] = unseen[u] \/ (exists /\ u = Recipient(m) /\ unseen'[u] = unseen[u] + 1)
    BY <1>1, <1>6, AddCounts
  <2> QED BY <2>1, <2>2, <2>3, <2>4
<1>8. BadgeBounded'
  BY <1>1, <1>2, <1>7, BoundKept
<1> QED BY <1>1, <1>2, <1>4, <1>5, <1>8 DEF BadgeIInv

(* A step that counts nothing and stores nothing. *)
LEMMA QuietBadge ==
  ASSUME ChatInv, ChatInv', BadgeIInv, exists' => exists, log' = log,
         sending' = sending \/ sending' = [s \in Sockets |-> <<>>],
         \A u \in Users : unseen'[u] <= unseen[u]
  PROVE  BadgeIInv'
<1>1. Stored' = Stored /\ InFlight' \subseteq InFlight /\ FlightsOnce'
  BY DEF Stored, InFlight, BadgeIInv, FlightsOnce
<1>2. \A u \in Users : Passed(u) \subseteq Passed(u)'
  BY <1>1 DEF Passed, Recipient
<1>3. ChatTypeOK /\ ChatTypeOK' /\ IsFiniteSet(Stored')
  BY <1>1 DEF ChatInv, BadgeIInv
<1>4. BadgeBounded'
  BY <1>2, <1>3, BoundKept
<1> QED BY <1>1, <1>3, <1>4 DEF BadgeIInv

LEMMA BadgeNextInv ==
  ChatInv /\ ChatInv' /\ BadgeIInv /\ [ChatNext]_chatVars => BadgeIInv'
<1> SUFFICES ASSUME ChatInv, ChatInv', BadgeIInv, [ChatNext]_chatVars PROVE BadgeIInv'
  OBVIOUS
<1> USE ReadersAssumption
<1>1. ASSUME NEW s \in Sockets, SocketStep(s) \/ \E m \in Messages : InsertFails(s, m)
      PROVE  BadgeIInv'
  <2>1. exists' = exists /\ log' = log /\ sending' = sending /\ unseen' = unseen
    BY <1>1 DEF SocketStep, InsertFails, rows
  <2>2. \A u \in Users : unseen'[u] <= unseen[u]
    BY <2>1 DEF ChatInv, ChatTypeOK
  <2> QED BY <2>1, <2>2, QuietBadge
<1>2. ASSUME NEW u \in Readers,
             Open(u) \/ LookUpLast(u) \/ Notified(u) \/ ReadRows(u) \/ OpenFails(u)
      PROVE  BadgeIInv'
  <2>1. exists' = exists /\ log' = log /\ sending' = sending /\ unseen' = unseen
    BY <1>2 DEF Open, LookUpLast, Notified, ReadRows, OpenFails, rows
  <2>2. \A v \in Users : unseen'[v] <= unseen[v]
    BY <2>1 DEF ChatInv, ChatTypeOK
  <2> QED BY <2>1, <2>2, QuietBadge
<1>3. ASSUME NEW u \in Readers, MarkSeen(u) PROVE BadgeIInv'
  <2>1. /\ exists' = exists /\ log' = log /\ sending' = sending
        /\ unseen' = unseen \/ unseen' = Cleared(u)
    BY <1>3 DEF MarkSeen
  <2>2. unseen \in [Users -> Nat]
    BY DEF ChatInv, ChatTypeOK
  <2>3. ASSUME NEW v \in Users PROVE unseen'[v] <= unseen[v]
    <3>1. unseen[v] \in Nat /\ (unseen'[v] = unseen[v] \/ unseen'[v] = 0)
      BY <2>1, <2>2 DEF Cleared
    <3> QED BY <3>1
  <2> QED BY <2>1, <2>3, QuietBadge
<1>4. CASE Block
  <2>1. /\ log' = <<>> /\ ~exists' /\ sending' = sending
        /\ \A u \in Users : unseen'[u] = 0
    BY <1>4 DEF Block
  <2>2. Stored' = {} /\ FlightsOnce'
    BY <2>1 DEF Stored, BadgeIInv, FlightsOnce
  <2>3. \A u \in Users : {m \in Stored' \ InFlight' : Recipient(m)' = u} = {}
    BY <2>2
  <2>4. BadgeBounded'
    BY <2>1, <2>3, FS_EmptySet DEF BadgeBounded
  <2> QED BY <2>1, <2>2, <2>4, FS_EmptySet DEF BadgeIInv
<1>5. CASE Restart
  <2>1. /\ exists' = exists /\ log' = log /\ unseen' = unseen
        /\ sending' = [s \in Sockets |-> <<>>]
    BY <1>5 DEF Restart, rows
  <2>2. \A v \in Users : unseen'[v] <= unseen[v]
    BY <2>1 DEF ChatInv, ChatTypeOK
  <2> QED BY <2>1, <2>2, QuietBadge
<1>6. CASE UNCHANGED chatVars
  <2>1. exists' = exists /\ log' = log /\ sending' = sending /\ unseen' = unseen
    BY <1>6 DEF chatVars, rows
  <2>2. \A v \in Users : unseen'[v] <= unseen[v]
    BY <2>1 DEF ChatInv, ChatTypeOK
  <2> QED BY <2>1, <2>2, QuietBadge
<1> QED
  BY <1>1, <1>2, <1>3, <1>4, <1>5, <1>6, SendMessageBadge, FlightEndsBadge DEF ChatNext

LEMMA BadgeInitInv == ChatInit => BadgeIInv
<1> SUFFICES ASSUME ChatInit PROVE BadgeIInv
  OBVIOUS
<1>1. Stored = {} /\ InFlight = {} /\ FlightsOnce
  BY DEF ChatInit, Stored, InFlight, FlightsOnce
<1>2. \A u \in Users : Passed(u) = {} /\ unseen[u] = 0
  BY <1>1 DEF Passed, ChatInit
<1>3. \A u \in Users : unseen[u] <= Cardinality(Passed(u))
  BY <1>2, FS_EmptySet
<1>4. BadgeBounded
  BY <1>3 DEF BadgeBounded, Passed
<1> QED BY <1>1, <1>4, FS_EmptySet DEF BadgeIInv

LEMMA BadgeIInvAlways == ChatSpec => [](ChatInv /\ BadgeIInv)
<1> QED BY BadgeInitInv, BadgeNextInv, ChatInvariance, PTL DEF ChatSpec

(* No counter ever exceeds the messages that have been passed on, for any number
   of messages and sockets: none is counted twice. *)
THEOREM BadgeBoundedAlways == ChatSpec => []BadgeBounded
<1>1. BadgeIInv => BadgeBounded
  BY DEF BadgeIInv
<1> QED BY <1>1, BadgeIInvAlways, PTL

-----------------------------------------------------------------------------
(* Counting a message, or failing to, settles it. *)
LEMMA AddSettles ==
  ASSUME NEW m \in Messages, AddToUnseenAndLastMessage(m)
  PROVE  Promise!Settle(m)
  BY DEF AddToUnseenAndLastMessage, Counted, Recipient, Promise!Settle, Promise!Recipient

(* What a frame with a message is in the conversation: it is said, and on its way
   or settled at once. *)
LEMMA SendMessageSays ==
  ASSUME ChatInv, NEW s \in Sockets, NEW m \in Messages, SendMessage(s, m)
  PROVE  Promise!Say(m)
<1>1. /\ ChatTypeOK /\ exists /\ m \notin Stored /\ sending[s] = <<>>
      /\ log' = Append(log, m) /\ log \in Seq(Messages)
      /\ UNCHANGED <<exists, cleared, read>>
  BY DEF SendMessage, Listening, ChatInv, ChatTypeOK, opening
<1>2. Promise!Messaged = Stored
  BY DEF Promise!Messaged, Stored
<1>3. CASE registry[Recipient(m)] # NoSocket
  <2>1. registry[Recipient(m)] \in Sockets
    BY <1>1, <1>3, PeerAssumption, SenderAssumption DEF Recipient, ChatTypeOK, RegistryTypeOK
  <2>2. InFlight' = InFlight \union {m}
    BY <1>1, <1>3, <2>1, FlightBegins DEF SendMessage
  <2>3. UNCHANGED <<unseen, lastMessage, uncounted>>
    BY <1>3 DEF SendMessage
  <2> QED BY <1>1, <1>2, <2>2, <2>3 DEF Promise!Say
<1>4. CASE registry[Recipient(m)] = NoSocket
  <2>1. InFlight' = InFlight
    BY <1>4 DEF SendMessage, InFlight
  <2>2. AddToUnseenAndLastMessage(m)
    BY <1>4 DEF SendMessage
  <2> QED BY <1>1, <1>2, <2>1, <2>2, AddSettles DEF Promise!Say
<1> QED BY <1>3, <1>4

(* A send that completes or raises is the arrival or the loss of its message, and
   of no other. *)
LEMMA FlightEndsArrives ==
  ASSUME ChatInv, BadgeIInv, NEW s \in Sockets, PassedOn(s) \/ PassingFails(s)
  PROVE  \E m \in Messages : Promise!Arrive(m)
<1>1. /\ sending[s] # <<>> /\ sending' = [sending EXCEPT ![s] = <<>>]
      /\ UNCHANGED <<exists, log, cleared, read>>
      /\ ChatTypeOK /\ FlightsOnce
  BY DEF PassedOn, PassingFails, ChatInv, BadgeIInv, rows, opening
<1>2. PICK m \in InFlight : m = sending[s][1] /\ m \in Messages /\ InFlight' = InFlight \ {m}
  BY <1>1, FlightEnds
<1>3. Promise!Settle(m)
  <2>1. CASE PassedOn(s)
    BY <1>2, <2>1, AddSettles DEF PassedOn
  <2>2. CASE PassingFails(s)
    BY <1>2, <2>2 DEF PassingFails, rows, Promise!Settle
  <2> QED BY <2>1, <2>2
<1> QED BY <1>1, <1>2, <1>3 DEF Promise!Arrive

(* What an opening returns is a last stretch of the messages. *)
LEMMA LatestAreLast ==
  ASSUME ChatTypeOK, log # <<>>
  PROVE  LatestRows \in Promise!LastOnes
<1> DEFINE k == IF Len(log) > OpenLimit THEN Len(log) - OpenLimit + 1 ELSE 1
<1>1. /\ Len(log) \in Nat \ {0} /\ DOMAIN log = 1..Len(log)
  BY DEF ChatTypeOK
<1>2. k \in DOMAIN log /\ k..Len(log) = {j \in DOMAIN log : j > Len(log) - OpenLimit}
  BY <1>1, OpenLimitAssumption
<1>3. LatestRows = {log[i] : i \in k..Len(log)}
  BY <1>2, Zenon DEF LatestRows
<1> HIDE DEF k
<1> QED BY <1>2, <1>3 DEF Promise!LastOnes

(* Opening: only the update, the fetch and a failure are seen in the conversation. *)
LEMMA OpeningShows ==
  ASSUME ChatInv, NEW u \in Readers,
         \/ Open(u) \/ LookUpLast(u) \/ MarkSeen(u) \/ Notified(u) \/ ReadRows(u)
         \/ OpenFails(u)
  PROVE  [Promise!Next]_Promise!vars
<1>1. u \in Users
  BY ReadersAssumption
<1>2. log' = log /\ sending' = sending
  BY DEF Open, LookUpLast, MarkSeen, Notified, ReadRows, OpenFails, rows
<1>3. Stored' = Stored /\ InFlight' = InFlight
  BY <1>2 DEF Stored, InFlight
<1>4. CASE Open(u) \/ LookUpLast(u) \/ Notified(u)
  BY <1>2, <1>3, <1>4 DEF Open, LookUpLast, Notified, rows, Promise!vars
<1>5. CASE MarkSeen(u)
  <2>1. Promise!Clear(u)
    BY <1>3, <1>5 DEF MarkSeen, Cleared, Stored, Promise!Messaged, Promise!Clear
  <2> QED BY <1>1, <2>1 DEF Promise!Next
<1>6. CASE ReadRows(u)
  <2>1. Promise!Show(u)
    <3>1. log = <<>> \/ LatestRows \in Promise!LastOnes
      BY LatestAreLast DEF ChatInv
    <3>2. CASE log = <<>>
      <4>1. LatestRows = {}
        BY <3>2 DEF LatestRows
      <4>2. read' = read
        BY <1>1, <1>6, <4>1 DEF ReadRows, ChatInv, ChatTypeOK
      <4> QED BY <1>2, <1>3, <1>6, <3>2, <4>2 DEF ReadRows, rows, Promise!Show
    <3>3. CASE LatestRows \in Promise!LastOnes
      BY <1>2, <1>3, <1>6, <3>3 DEF ReadRows, rows, Promise!Show
    <3> QED BY <3>1, <3>2, <3>3
  <2> QED BY <1>1, <2>1 DEF Promise!Next
<1>7. CASE OpenFails(u)
  <2>1. Promise!Fail(u)
    BY <1>3, <1>7 DEF OpenFails, rows, Promise!Fail
  <2> QED BY <1>1, <2>1 DEF Promise!Next
<1> QED BY <1>4, <1>5, <1>6, <1>7

LEMMA ChatSimulates ==
  ChatInv /\ BadgeIInv /\ [ChatNext]_chatVars => [Promise!Next]_Promise!vars
<1> SUFFICES ASSUME ChatInv, BadgeIInv, [ChatNext]_chatVars
             PROVE  [Promise!Next]_Promise!vars
  OBVIOUS
<1>1. ASSUME NEW s \in Sockets, SocketStep(s) \/ \E m \in Messages : InsertFails(s, m)
      PROVE  UNCHANGED Promise!vars
  BY <1>1 DEF SocketStep, InsertFails, rows, opening, InFlight, Promise!vars
<1>2. ASSUME NEW s \in Sockets, PassedOn(s) \/ PassingFails(s) PROVE Promise!Next
  BY <1>2, FlightEndsArrives DEF Promise!Next
<1>3. ASSUME NEW s \in Sockets, NEW m \in Messages, SendMessage(s, m) PROVE Promise!Next
  BY <1>3, SendMessageSays DEF Promise!Next
<1>4. ASSUME NEW u \in Readers,
             \/ Open(u) \/ LookUpLast(u) \/ MarkSeen(u) \/ Notified(u) \/ ReadRows(u)
             \/ OpenFails(u)
      PROVE  [Promise!Next]_Promise!vars
  BY <1>4, OpeningShows
<1>5. CASE Block
  <2>1. InFlight' = InFlight
    BY <1>5 DEF Block, InFlight
  <2>2. Promise!Close
    BY <1>5, <2>1 DEF Block, opening, Promise!Close
  <2> QED BY <2>2 DEF Promise!Next
<1>6. CASE Restart
  <2>1. InFlight' = {}
    BY <1>6 DEF Restart, rows, InFlight
  <2>2. Promise!Crash
    BY <1>6, <2>1 DEF Restart, rows, Promise!Crash
  <2> QED BY <2>2 DEF Promise!Next
<1>7. CASE UNCHANGED chatVars
  BY <1>7 DEF chatVars, rows, opening, InFlight, Promise!vars
<1> QED BY <1>1, <1>2, <1>3, <1>4, <1>5, <1>6, <1>7 DEF ChatNext

(* The chat room implements Conversation: with suspended sends, sockets that go,
   requests cut short and crashes, each message is stored once and is counted for
   its recipient, or lost, once, and a count goes only for what the reader is owed. *)
THEOREM ChatRefines == ChatSpec => ConversationKept
<1>1. ChatInit => Promise!Init
  BY DEF ChatInit, InFlight, Promise!Init
<1> QED BY <1>1, ChatSimulates, BadgeIInvAlways, PTL DEF ChatSpec, ConversationKept, Promise!Spec
-----------------------------------------------------------------------------
(* Messages of a sender never served twice at once are passed on in the order in
   which they are stored. *)
THEOREM SenderOrderAlways == ChatSpec => []SenderOrderKept
<1>1. ChatInv => SenderOrderKept
  BY DEF ChatInv
<1> QED BY <1>1, ChatInvariance, PTL
-----------------------------------------------------------------------------
(* A page is an interval that ends just before its cursor, and its oldest
   message is where that interval starts (the ORDER BY and LIMIT of
   fetch_paginated_chats). *)
LEMMA PageIsInterval ==
  ASSUME length \in Nat, NEW c \in 2..(length + 1)
  PROVE  /\ Oldest(PageBefore(c)) \in 1..(c - 1)
         /\ PageBefore(c) = Oldest(PageBefore(c))..(c - 1)
<1> DEFINE start == IF c - PageSize > 1 THEN c - PageSize ELSE 1
<1>1. start \in 1..(c - 1)
  BY PageSizeAssumption
<1>2. PageBefore(c) = start..(c - 1)
  BY PageSizeAssumption DEF PageBefore
<1>3. Oldest(PageBefore(c)) = start
  <2> HIDE DEF start
  <2>1. start \in PageBefore(c) /\ \A j \in PageBefore(c) : start <= j
    BY <1>1, <1>2
  <2>2. \A i \in PageBefore(c) : (\A j \in PageBefore(c) : i <= j) => i = start
    BY <1>1, <1>2
  <2> QED
    BY <2>1, <2>2 DEF Oldest
<1> HIDE DEF start
<1> QED
  BY <1>1, <1>2, <1>3

(* The client's messages are an unbroken stretch, in every reachable state: the
   property of fetch_chats and fetch_paginated_chats taken together. *)
THEOREM PagingInvariance == PagingSpec => []PagingInv
<1>1. PagingInit => PagingInv
  BY MaxMessagesAssumption DEF PagingInit, PagingInv, PagingTypeOK, PagesJoin
<1>2. PagingInv /\ [PagingNext]_pagingVars => PagingInv'
  <2> SUFFICES ASSUME PagingInv, [PagingNext]_pagingVars
               PROVE  PagingInv'
    OBVIOUS
  <2> USE MaxMessagesAssumption DEF PagingInv, PagingTypeOK, PagesJoin
  <2>1. CASE FirstPage
    <3>1. length + 1 \in 2..(length + 1)
      BY <2>1 DEF FirstPage
    <3>2. /\ cursor' \in 1..length
          /\ collected' = cursor'..length
      <4> DEFINE page == PageBefore(length + 1)
      <4>1. collected' = page /\ cursor' = Oldest(page)
        BY <2>1 DEF FirstPage
      <4>2. Oldest(page) \in 1..((length + 1) - 1) /\ page = Oldest(page)..((length + 1) - 1)
        BY <3>1, PageIsInterval
      <4> HIDE DEF page
      <4> QED
        BY <4>1, <4>2
    <3> QED
      BY <2>1, <3>2 DEF FirstPage
  <2>2. CASE NextPage
    <3> DEFINE page == PageBefore(cursor)
    <3>1. opened # 0 /\ cursor \in 1..opened /\ opened <= length /\ collected = cursor..opened
      BY <2>2 DEF NextPage
    <3>2. /\ UNCHANGED <<length, opened>>
          /\ hasMore' \in BOOLEAN
          /\ collected' = collected \union page
          /\ page = {} => cursor' = cursor
          /\ page # {} => cursor' = Oldest(page)
      BY <2>2 DEF NextPage, More
    <3>3. CASE cursor = 1
      <4>1. page = {}
        BY <3>3 DEF PageBefore
      <4> HIDE DEF page
      <4>2. cursor' = cursor /\ collected' = collected
        BY <3>2, <4>1
      <4> QED
        BY <3>1, <3>2, <4>2
    <3>4. CASE cursor # 1
      <4>1. cursor \in 2..(length + 1)
        BY <3>1, <3>4
      <4>2. Oldest(page) \in 1..(cursor - 1) /\ page = Oldest(page)..(cursor - 1)
        BY <4>1, PageIsInterval
      <4> HIDE DEF page
      <4>3. page # {}
        BY <3>1, <4>2
      <4>4. cursor' \in 1..(cursor - 1) /\ cursor' \in 1..length
        BY <3>1, <3>2, <4>2, <4>3
      <4>5. collected' = cursor'..opened
        BY <3>1, <3>2, <4>2, <4>3, <4>4
      <4> QED
        BY <3>1, <3>2, <4>4, <4>5
    <3> QED
      BY <3>3, <3>4
  <2>3. CASE Arrive
    BY <2>3 DEF Arrive
  <2>4. CASE UNCHANGED pagingVars
    BY <2>4 DEF pagingVars
  <2> QED
    BY <2>1, <2>2, <2>3, <2>4 DEF PagingNext
<1> QED
  BY <1>1, <1>2, PTL DEF PagingSpec
=============================================================================
