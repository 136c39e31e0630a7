----------------------------- MODULE Conversation -----------------------------
(***************************************************************************)
(* What a chat room promises its two participants, with no sockets,        *)
(* suspended sends or requests in sight: every message is stored once, is  *)
(* then on its way until it is counted for its recipient, or lost, once;   *)
(* a count goes only when the reader is owed the messages it stood for,    *)
(* which is made good by showing the latest: the reader scrolls back from  *)
(* them to the others.  ChatRoom implements it.                            *)
(***************************************************************************)
EXTENDS Integers, Sequences

CONSTANTS Users, Messages, Sender, Peer, NoMessage

VARIABLES
  open,        \* the room is there
  held,        \* the messages stored, in order
  onWay,       \* messages neither counted nor lost yet
  badge,       \* the count each participant sees
  latest,      \* the message the room is listed with
  owed,        \* messages whose count has been cleared for the next showing
  shown,       \* messages each participant has been shown
  lost         \* messages that no count and no reading stands for any more

vars == <<open, held, onWay, badge, latest, owed, shown, lost>>

Recipient(m) == Peer[Sender[m]]
Messaged == {held[i] : i \in DOMAIN held}
LastOnes == {{held[i] : i \in k..Len(held)} : k \in DOMAIN held}

Init ==
  /\ open = TRUE /\ held = <<>> /\ onWay = {} /\ lost = {}
  /\ badge = [u \in Users |-> 0] /\ latest = NoMessage
  /\ owed = [u \in Users |-> {}] /\ shown = [u \in Users |-> {}]

(* The count of m and the latest message change together, in a room that is
   there, or m is lost. *)
Settle(m) ==
  \/ /\ open
     /\ badge' = [badge EXCEPT ![Recipient(m)] = @ + 1] /\ latest' = m
     /\ UNCHANGED lost
  \/ /\ ~open /\ UNCHANGED <<badge, latest, lost>>
  \/ /\ lost' = lost \union {m} /\ UNCHANGED <<badge, latest>>

Say(m) ==
  /\ open /\ m \notin Messaged
  /\ held' = Append(held, m)
  /\ \/ onWay' = onWay \union {m} /\ UNCHANGED <<badge, latest, lost>>
     \/ Settle(m) /\ UNCHANGED onWay
  /\ UNCHANGED <<open, owed, shown>>

Arrive(m) ==
  /\ m \in onWay
  /\ onWay' = onWay \ {m}
  /\ Settle(m)
  /\ UNCHANGED <<open, held, owed, shown>>

Clear(u) ==
  /\ badge' = IF open THEN [badge EXCEPT ![u] = 0] ELSE badge
  /\ owed' = [owed EXCEPT ![u] = Messaged]
  /\ UNCHANGED <<open, held, onWay, latest, shown, lost>>

(* The reader is shown the last messages, the very last among them. *)
Show(u) ==
  /\ \/ held = <<>> /\ UNCHANGED shown
     \/ \E S \in LastOnes : shown' = [shown EXCEPT ![u] = @ \union S]
  /\ owed' = [owed EXCEPT ![u] = {}]
  /\ UNCHANGED <<open, held, onWay, badge, latest, lost>>

(* An opening that fails loses what it owed and has not been shown before. *)
Fail(u) ==
  /\ lost' = lost \union (owed[u] \ shown[u])
  /\ owed' = [owed EXCEPT ![u] = {}]
  /\ UNCHANGED <<open, held, onWay, badge, latest, shown>>

(* A crash loses what is on its way or owed. *)
Crash ==
  /\ lost' = lost \union onWay \union UNION {owed[u] \ shown[u] : u \in Users}
  /\ onWay' = {} /\ owed' = [u \in Users |-> {}]
  /\ UNCHANGED <<open, held, badge, latest, shown>>

Close ==
  /\ open /\ open' = FALSE
  /\ held' = <<>> /\ badge' = [u \in Users |-> 0] /\ latest' = NoMessage
  /\ UNCHANGED <<onWay, owed, shown, lost>>

Next ==
  \/ \E m \in Messages : Say(m) \/ Arrive(m)
  \/ \E u \in Users : Clear(u) \/ Show(u) \/ Fail(u)
  \/ Crash \/ Close

Spec == Init /\ [][Next]_vars
=============================================================================
