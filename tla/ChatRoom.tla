------------------------------- MODULE ChatRoom -------------------------------
(***************************************************************************)
(* One chat room of two participants: the messages they send over their    *)
(* websockets, the unseen counters, last message and read receipts kept    *)
(* beside the messages, and the requests that open the chat.  An endpoint  *)
(* handles one frame at a time and is suspended while it passes a message  *)
(* on; opening a chat is suspended in every statement.                     *)
(*                                                                         *)
(* A client sends only messages of its own user to the other participant.  *)
(* Opening resets the count of all that is stored and returns the latest   *)
(* messages, from which the client may scroll back (module Paging).        *)
(* Typing and seen frames of a client are passed on and change nothing.    *)
(***************************************************************************)
EXTENDS SocketRegistry, Sequences

CONSTANTS
  Messages,    \* message ids, chosen by the sending client
  Sender,      \* Sender[m]: the user whose client sends m
  Peer,        \* Peer[u]: the other participant
  Readers,     \* users whose clients open the chat
  MayFail,     \* whether the database and the process fail in this instance
  OpenLimit,   \* LIMIT 20 of fetch_chats
  NoMessage

ASSUME ReadersAssumption == Readers \subseteq Users /\ MayFail \in BOOLEAN
ASSUME OpenLimitAssumption == OpenLimit \in Nat \ {0}
ASSUME PeerAssumption ==
  /\ Peer \in [Users -> Users]
  /\ \A u \in Users : Peer[u] # u /\ Peer[Peer[u]] = u
ASSUME SenderAssumption == Sender \in [Messages -> Users]
ASSUME NoMessageAssumption == NoMessage \notin Messages

VARIABLES
  exists,      \* the chats and chat_participants rows are there
  log,         \* messages, in the order of their timestamps
  unseen,      \* chat_participants.unseen_count
  lastSeen,    \* chat_participants.last_seen_message_id
  lastMessage, \* chats.last_message_id
  sending,     \* sending[s]: <<message, socket>> the endpoint of s is passing on
  stage,       \* stage[u]: where u's request to open the chat is
  looked,      \* looked[u]: the last message that request found
  receiptTo,   \* receiptTo[u]: the socket its SeenEvent is being sent to
  read,        \* history: messages returned to each user
  cleared,     \* history: messages stored when u's request reset the counter
  uncounted,   \* history: messages whose count was lost to an error
  receipted    \* history: messages whose sender was sent a SeenEvent

rows == <<exists, log, unseen, lastSeen, lastMessage>>
opening == <<stage, looked, receiptTo, read, cleared, receipted>>
chatVars == <<socketVars, rows, sending, opening, uncounted>>

Recipient(m) == Peer[Sender[m]]
Stored == {log[i] : i \in DOMAIN log}
InFlight == {m \in Messages : \E s \in Sockets : sending[s] # <<>> /\ sending[s][1] = m}
Stages == {"none", "looking", "marking", "notifying", "reading"}

ChatInit ==
  /\ RegistryInit
  /\ exists = TRUE /\ log = <<>>
  /\ unseen = [u \in Users |-> 0]
  /\ lastSeen = [u \in Users |-> NoMessage]
  /\ lastMessage = NoMessage
  /\ sending = [s \in Sockets |-> <<>>]
  /\ stage = [u \in Users |-> "none"]
  /\ looked = [u \in Users |-> NoMessage]
  /\ receiptTo = [u \in Users |-> NoSocket]
  /\ read = [u \in Users |-> {}] /\ cleared = [u \in Users |-> {}]
  /\ uncounted = {} /\ receipted = {}
-----------------------------------------------------------------------------
(* Variants, each a slip the code could contain. *)
CountedIfOffline(m) ==
  IF registry[Recipient(m)] = NoSocket
  THEN [unseen EXCEPT ![Recipient(m)] = @ + 1] ELSE unseen
OldestRows == {log[i] : i \in {j \in DOMAIN log : j <= OpenLimit}}
CountedForBoth(m) == [u \in Users |-> unseen[u] + 1]
ClearedForBoth(u) == [v \in Users |-> 0]
ListeningWhileSending(s) == endpoint[s] = "listening"

(* The counters after one more message, and after the room is opened by u. *)
Counted(m) == [unseen EXCEPT ![Recipient(m)] = @ + 1]
Cleared(u) == [unseen EXCEPT ![u] = 0]

(* What fetch_chats returns: ORDER BY timestamp DESC with a LIMIT. *)
LatestRows == {log[i] : i \in {j \in DOMAIN log : j > Len(log) - OpenLimit}}

(* The endpoint of s waits for its next frame. *)
Listening(s) == endpoint[s] = "listening" /\ sending[s] = <<>>

(* add_to_unseen_and_last_message: it updates no row when the room is gone, and
   an error is printed and rolled back. *)
AddToUnseenAndLastMessage(m) ==
  \/ /\ IF exists
        THEN unseen' = Counted(m) /\ lastMessage' = m
        ELSE UNCHANGED <<unseen, lastMessage>>
     /\ UNCHANGED uncounted
  \/ /\ MayFail
     /\ uncounted' = uncounted \union {m}
     /\ UNCHANGED <<unseen, lastMessage>>

(* A frame with message m: insert_message_to_db stores it, and it is passed on
   to the recipient's socket, or only counted when there is none. *)
SendMessage(s, m) ==
  /\ Listening(s) /\ Sender[m] = Owner[s]
  /\ exists /\ m \notin Stored
  /\ log' = Append(log, m)
  /\ IF registry[Recipient(m)] # NoSocket
     THEN /\ sending' = [sending EXCEPT ![s] = <<m, registry[Recipient(m)]>>]
          /\ UNCHANGED <<unseen, lastMessage, uncounted>>
     ELSE /\ AddToUnseenAndLastMessage(m)
          /\ UNCHANGED sending
  /\ UNCHANGED <<exists, lastSeen, opening, socketVars>>

(* The insert raises: the room is gone, a client sends a message again that is
   stored already, or the database fails.  Nothing catches it. *)
InsertFails(s, m) ==
  /\ Listening(s) /\ Sender[m] = Owner[s]
  /\ ~exists \/ m \in Stored \/ MayFail
  /\ Fault(s)
  /\ UNCHANGED <<rows, sending, opening, uncounted>>

(* The send to the recipient completes, and the message is counted. *)
PassedOn(s) ==
  /\ sending[s] # <<>> /\ SendMaySucceed(sending[s][2])
  /\ AddToUnseenAndLastMessage(sending[s][1])
  /\ sending' = [sending EXCEPT ![s] = <<>>]
  /\ UNCHANGED <<exists, log, lastSeen, opening, socketVars>>

(* The send raises: send_event_to_user_chat prints the error and counts nothing. *)
PassingFails(s) ==
  /\ sending[s] # <<>> /\ SendMayRaise(sending[s][2])
  /\ uncounted' = uncounted \union {sending[s][1]}
  /\ sending' = [sending EXCEPT ![s] = <<>>]
  /\ UNCHANGED <<rows, opening, socketVars>>
-----------------------------------------------------------------------------
(* fetch_chats: participation is checked first. *)
Open(u) ==
  /\ stage[u] = "none" /\ exists
  /\ stage' = [stage EXCEPT ![u] = "looking"]
  /\ UNCHANGED <<rows, sending, looked, receiptTo, read, cleared, receipted,
                 uncounted, socketVars>>

(* The last message is looked up; only one of the peer's leads to the update. *)
LookUpLast(u) ==
  /\ stage[u] = "looking"
  /\ IF log # <<>> /\ Sender[log[Len(log)]] # u
     THEN /\ looked' = [looked EXCEPT ![u] = log[Len(log)]]
          /\ stage' = [stage EXCEPT ![u] = "marking"]
     ELSE /\ stage' = [stage EXCEPT ![u] = "reading"]
          /\ UNCHANGED looked
  /\ UNCHANGED <<rows, sending, receiptTo, read, cleared, receipted,
                 uncounted, socketVars>>

(* The participant's row is updated, and the SeenEvent goes to the sender's
   socket when there is one. *)
MarkSeen(u) ==
  /\ stage[u] = "marking"
  /\ IF exists
     THEN /\ unseen' = Cleared(u)
          /\ lastSeen' = [lastSeen EXCEPT ![u] = looked[u]]
     ELSE UNCHANGED <<unseen, lastSeen>>
  /\ cleared' = [cleared EXCEPT ![u] = Stored]
  /\ receiptTo' = [receiptTo EXCEPT ![u] = registry[Peer[u]]]
  /\ stage' = [stage EXCEPT ![u] = IF registry[Peer[u]] = NoSocket
                                   THEN "reading" ELSE "notifying"]
  /\ UNCHANGED <<exists, log, lastMessage, sending, looked, read, receipted,
                 uncounted, socketVars>>

(* The SeenEvent is sent, or its send raises and the error is printed. *)
Notified(u) ==
  /\ stage[u] = "notifying"
  /\ \/ /\ SendMaySucceed(receiptTo[u])
        /\ receipted' = receipted \union {looked[u]}
     \/ /\ SendMayRaise(receiptTo[u])
        /\ UNCHANGED receipted
  /\ stage' = [stage EXCEPT ![u] = "reading"]
  /\ receiptTo' = [receiptTo EXCEPT ![u] = NoSocket]
  /\ UNCHANGED <<rows, sending, looked, read, cleared, uncounted, socketVars>>

(* The latest messages are fetched and returned; the others have lost their count
   with them. *)
ReadRows(u) ==
  /\ stage[u] = "reading"
  /\ read' = [read EXCEPT ![u] = @ \union LatestRows]
  /\ stage' = [stage EXCEPT ![u] = "none"]
  /\ looked' = [looked EXCEPT ![u] = NoMessage]
  /\ cleared' = [cleared EXCEPT ![u] = {}]
  /\ UNCHANGED <<rows, sending, receiptTo, receipted, uncounted, socketVars>>

(* A statement or the signing of a media URL fails after some steps; what was
   updated stays updated. *)
OpenFails(u) ==
  /\ MayFail /\ stage[u] \in {"looking", "marking", "reading"}
  /\ uncounted' = uncounted \union (cleared[u] \ read[u])
  /\ stage' = [stage EXCEPT ![u] = "none"]
  /\ looked' = [looked EXCEPT ![u] = NoMessage]
  /\ cleared' = [cleared EXCEPT ![u] = {}]
  /\ UNCHANGED <<rows, sending, receiptTo, read, receipted, socketVars>>
-----------------------------------------------------------------------------
(* One participant blocks the other: messages, participants and chat go. *)
Block ==
  /\ exists
  /\ exists' = FALSE /\ log' = <<>> /\ lastMessage' = NoMessage
  /\ unseen' = [u \in Users |-> 0]
  /\ lastSeen' = [u \in Users |-> NoMessage]
  /\ UNCHANGED <<sending, opening, uncounted, socketVars>>

(* The process is killed and started again. *)
Restart ==
  /\ MayFail
  /\ ProcessKilled
  /\ sending' = [s \in Sockets |-> <<>>]
  /\ stage' = [u \in Users |-> "none"]
  /\ looked' = [u \in Users |-> NoMessage]
  /\ receiptTo' = [u \in Users |-> NoSocket]
  /\ cleared' = [u \in Users |-> {}]
  /\ uncounted' = uncounted \union InFlight \union UNION {cleared[u] \ read[u] : u \in Users}
  /\ UNCHANGED <<rows, read, receipted>>

(* The registry's steps; a frame or a disconnect is received only between two
   messages. *)
SocketStep(s) ==
  /\ \/ Accept(s) \/ Greet(s) \/ GreetFails(s) \/ ClientLeaves(s)
     \/ Listening(s) /\ (BadFrame(s) \/ Disconnected(s))
  /\ UNCHANGED <<rows, sending, opening, uncounted>>

ChatNext ==
  \/ \E s \in Sockets :
       \/ SocketStep(s) \/ PassedOn(s) \/ PassingFails(s)
       \/ \E m \in Messages : SendMessage(s, m) \/ InsertFails(s, m)
  \/ \E u \in Readers :
       \/ Open(u) \/ LookUpLast(u) \/ MarkSeen(u) \/ Notified(u)
       \/ ReadRows(u) \/ OpenFails(u)
  \/ Block \/ Restart

ChatSpec ==
  /\ ChatInit /\ [][ChatNext]_chatVars
  /\ \A s \in Sockets : WF_chatVars(PassedOn(s) \/ PassingFails(s))
  /\ \A u \in Readers : WF_chatVars(LookUpLast(u) \/ MarkSeen(u) \/ Notified(u)
                                     \/ ReadRows(u) \/ OpenFails(u))
-----------------------------------------------------------------------------
ChatTypeOK ==
  /\ RegistryTypeOK
  /\ exists \in BOOLEAN /\ log \in Seq(Messages)
  /\ unseen \in [Users -> Nat]
  /\ lastSeen \in [Users -> Messages \union {NoMessage}]
  /\ lastMessage \in Messages \union {NoMessage}
  /\ sending \in [Sockets -> {<<>>} \union (Messages \X Sockets)]
  /\ stage \in [Users -> Stages]
  /\ looked \in [Users -> Messages \union {NoMessage}]
  /\ receiptTo \in [Users -> Sockets \union {NoSocket}]
  /\ read \in [Users -> SUBSET Messages] /\ cleared \in [Users -> SUBSET Messages]
  /\ uncounted \subseteq Messages /\ receipted \subseteq Messages

(* The messages that u has been returned or finds by scrolling back from one. *)
Reached(u) ==
  {log[i] : i \in {k \in DOMAIN log : \E j \in DOMAIN log : k <= j /\ log[j] \in read[u]}}

(* A stored message that is newer than all its recipient has been returned shows in
   the recipient's counter, unless it is still being passed on, its count was lost
   to an error, or the request that reset the counter is about to return it or a
   newer one. *)
BadgeShows ==
  \A m \in Stored \ (InFlight \union uncounted) :
    LET u == Recipient(m)
    IN m \notin Reached(u) \union cleared[u] => unseen[u] > 0

(* The counter never exceeds the messages the peer has had stored and passed on:
   no message is counted twice. *)
BadgeBounded ==
  \A u \in Users :
    unseen[u] <= Cardinality({m \in Stored \ InFlight : Recipient(m) = u})

(* Messages of a sender who was never served by two endpoints at once are passed
   on in the order in which they are stored: while one is being passed on, none
   of the sender's is stored after it. *)
SenderOrderKept ==
  \A i, j \in DOMAIN log :
    i < j /\ Sender[log[i]] = Sender[log[j]] /\ Sender[log[i]] \notin overlapped
      => log[i] \notin InFlight

(* A message is passed on by an endpoint of its sender that is still there, a
   request to open marks a message it has found, and a room that is gone has no
   messages. *)
FlightsServed ==
  \A s \in Sockets :
    sending[s] # <<>> => endpoint[s] = "listening" /\ Sender[sending[s][1]] = Owner[s]

LookedUp == \A u \in Users : stage[u] \in {"marking", "notifying"} => looked[u] \in Messages

GoneIsEmpty == exists \/ log = <<>>

ChatInv ==
  /\ ChatTypeOK /\ RegistryAccurate
  /\ FlightsServed /\ LookedUp /\ GoneIsEmpty
  /\ BadgeShows /\ SenderOrderKept

(* A message being passed on comes to show, unless it or a newer one is returned
   to its recipient or its count is lost first or the room goes.  No step tells two
   messages of a sender apart, so it is stated of one message of each. *)
InFlightShows ==
  \A m \in {CHOOSE m \in Messages : Sender[m] = u : u \in {Sender[n] : n \in Messages}} :
    m \in InFlight ~> \/ unseen[Recipient(m)] > 0
                      \/ m \in Reached(Recipient(m)) \union cleared[Recipient(m)] \union uncounted
                      \/ ~exists
-----------------------------------------------------------------------------
(* What a chat room promises: to its participants, messages, openings and failures
   are as they are in Conversation. *)
Promise ==
  INSTANCE Conversation WITH
    open <- exists, held <- log, onWay <- InFlight, badge <- unseen,
    latest <- lastMessage, owed <- cleared, shown <- read, lost <- uncounted
ConversationKept == Promise!Spec
-----------------------------------------------------------------------------
Quiet == (\A s \in Sockets : sending[s] = <<>>) /\ (\A u \in Users : stage[u] = "none")

(* The message the chat list shows is the last one: not so, as a send that is
   suspended longer writes an older message over it. *)
LastMessageIsLast ==
  Quiet /\ log # <<>> /\ uncounted = {} => lastMessage = log[Len(log)]

(* A stored message shows in the recipient's counter until it or a newer one is
   returned: not so when the send to the recipient's socket raises. *)
MissedIsCounted ==
  \A m \in Stored \ InFlight :
    LET u == Recipient(m)
    IN m \notin Reached(u) \union cleared[u] => unseen[u] > 0

(* An opening returns every message whose count it clears: not so, it returns
   OpenLimit messages and clears the count of all. *)
ClearedIsReturned ==
  \A m \in Stored \ (InFlight \union uncounted) :
    LET u == Recipient(m)
    IN m \notin read[u] \union cleared[u] => unseen[u] > 0

(* A read receipt is sent only for messages that the reader has been returned or
   finds by scrolling back: not so, it is sent before they are fetched. *)
ReceiptMeansRead ==
  Quiet /\ exists => \A m \in receipted : m \in Reached(Recipient(m))

(* The counter counts unseen messages only: not so, as it is reset only when the
   last message is the peer's. *)
BadgeNotStale ==
  \A u \in Users :
    Quiet => unseen[u] <= Cardinality({m \in Stored : Recipient(m) = u /\ m \notin Reached(u)})
=============================================================================
