----------------------------- MODULE Matchmaking -----------------------------
(***************************************************************************)
(* What the backend promises its users about connections, with no tables,  *)
(* queues, requests or commits in sight: two users become connected when   *)
(* the second of them presses like, or when the lobby introduces them, and *)
(* they stay connected until one of them blocks the other.  MatchEngine    *)
(* implements it.                                                          *)
(***************************************************************************)
CONSTANTS Users, LobbyPairs

VARIABLES
  said,        \* pairs <<a, b>> where a has pressed like on b
  passes,      \* pairs <<a, b>> where a has passed on b
  connected,   \* pairs that are matched or chat with each other
  severed      \* pairs <<a, b>> where a has blocked b

vars == <<said, passes, connected, severed>>

Pairs == {p \in Users \X Users : p[1] # p[2]}
Edge(p) == {p[1], p[2]}
Back(p) == <<p[2], p[1]>>

Init == said = {} /\ passes = {} /\ connected = {} /\ severed = {}

(* A like may connect only if it is mutual, and it must when the two have
   never passed on nor blocked each other. *)
Like(p) ==
  LET mutual == Back(p) \in said
      unmarred == \A q \in {p, Back(p)} : q \notin passes /\ q \notin severed
  IN /\ said' = said \union {p}
     /\ \/ mutual /\ connected' = connected \union {Edge(p)}
        \/ connected' = connected
     /\ mutual /\ unmarred => Edge(p) \in connected'
     /\ UNCHANGED <<passes, severed>>

Pass(p) ==
  /\ passes' = passes \union {p}
  /\ UNCHANGED <<said, connected, severed>>

Introduce(e) ==
  /\ connected' = connected \union {e}
  /\ UNCHANGED <<said, passes, severed>>

Block(p) ==
  /\ severed' = severed \union {p}
  /\ connected' = connected \ {Edge(p)}
  /\ UNCHANGED <<said, passes>>

Next ==
  \/ \E p \in Pairs : Like(p) \/ Pass(p) \/ Block(p)
  \/ \E e \in LobbyPairs : Introduce(e)

Spec == Init /\ [][Next]_vars
=============================================================================
