--------------------------------- MODULE Lobby ---------------------------------
(***************************************************************************)
(* The "meet at 8" event: a cron job starts one coroutine, which tells the *)
(* users in the lobby that the event begins, sleeps five minutes, pairs    *)
(* whoever is in the lobby then, and sends everyone a result.  The         *)
(* coroutine is suspended in every send; meanwhile users come and go       *)
(* (module SocketRegistry) and other handlers create and delete matches,   *)
(* chats and blocks.                                                       *)
(*                                                                         *)
(* The pairing runs without a suspension; module LobbyPairing shows that   *)
(* it yields a maximal matching.                                           *)
(***************************************************************************)
EXTENDS SocketRegistry

CONSTANTS
  Seekers,     \* users with an interested_gender preference
  Fits,        \* pairs of seekers whose genders and interests agree
  Outside,     \* pairs that other handlers connect, disconnect and block
  Nothing,     \* no result sent yet
  Unmatched    \* the result of a user the pairing left over

Pairs == {e \in SUBSET Users : \E u, v \in Users : u # v /\ e = {u, v}}

ASSUME UsersFinite == IsFiniteSet(Users)
ASSUME SeekersAssumption == Seekers \subseteq Users
ASSUME FitsAssumption == Fits \subseteq Pairs /\ \A e \in Fits : e \subseteq Seekers
ASSUME OutsideAssumption == Outside \subseteq Pairs
ASSUME ResultAssumption == Nothing \notin Users /\ Unmatched \notin Users /\ Nothing # Unmatched

VARIABLES
  phase,       \* where the event's coroutine is
  addressee,   \* the socket of the suspended send, or NoSocket
  startSize,   \* notifying: size of the dictionary when its iteration began
  expected,    \* notifying: entries the iterator has still to return
  visited,     \* notifying: entries that lie behind the iterator
  leftOver,    \* not_matched users not yet told
  couples,     \* matches not yet announced
  second,      \* announcing: <<user, partner>> whose message follows, or <<>>
  active,      \* event_active
  linked,      \* pairs with a matches row or a chat in common
  blocked,     \* pairs with a blocked_users row
  lobby,       \* history: seekers in the lobby when this event paired
  introduced,  \* history: pairs whose row this event inserted
  told         \* history: the result this event sent each user

eventVars == <<phase, addressee, startSize, expected, visited, leftOver, couples, second,
               active, lobby, introduced, told>>
tableVars == <<linked, blocked>>
lobbyVars == <<socketVars, eventVars, tableVars>>

Phases == {"idle", "notifying", "sleeping", "telling", "announcing", "finished"}
(* The coroutine is suspended, which is when other coroutines run. *)
Yielded == phase \in {"idle", "finished", "sleeping"} \/ addressee # NoSocket

Untold == [u \in Users |-> Nothing]

LobbyInit ==
  /\ RegistryInit
  /\ phase = "idle" /\ addressee = NoSocket
  /\ startSize = 0 /\ expected = 0 /\ visited = {}
  /\ leftOver = {} /\ couples = {} /\ second = <<>>
  /\ active = FALSE
  /\ linked = {} /\ blocked = {}
  /\ lobby = {} /\ introduced = {} /\ told = Untold

(* The coroutine ends, by returning ("finished") or by an exception ("idle"). *)
EventOver(how) ==
  /\ phase' = how
  /\ addressee' = NoSocket /\ startSize' = 0 /\ expected' = 0 /\ visited' = {}
  /\ leftOver' = {} /\ couples' = {} /\ second' = <<>>
  /\ UNCHANGED <<lobby, introduced, told>>

(* The cron job starts the coroutine, which runs up to the iteration. *)
EventStart ==
  /\ phase \in {"idle", "finished"}
  /\ phase' = "notifying" /\ active' = TRUE
  /\ startSize' = Cardinality(Registered) /\ expected' = startSize' /\ visited' = {}
  /\ lobby' = {} /\ introduced' = {} /\ told' = Untold
  /\ UNCHANGED <<addressee, leftOver, couples, second, socketVars, tableVars>>

(* Variants, each a slip the code could contain. *)
SecondOfSwapped(u, v) == <<u, v, registry[u]>>
WithoutPresent(u) == IF u \in Registered THEN leftOver \ {u} ELSE leftOver

(* The message that follows the one that tells u of v, and the users still left
   over when the loop over them has come to u. *)
SecondOf(u, v) == <<v, u, registry[v]>>
Without(u) == leftOver \ {u}

(* The entries ahead of the iterator.  It refuses to go on when the dictionary has
   another size than at the start, or when it finds an entry where it has returned
   as many as there were: one that lay behind it was removed and made again. *)
Remaining == Registered \ visited
DictionaryChanged ==
  Cardinality(Registered) # startSize \/ (Remaining # {} /\ expected = 0)

(* The iteration asks for the next entry: a RuntimeError when the dictionary has
   changed, the sleep when there is none. *)
NotifyNext ==
  /\ phase = "notifying" /\ addressee = NoSocket
  /\ \/ /\ DictionaryChanged
        /\ EventOver("idle") /\ UNCHANGED active
     \/ /\ ~DictionaryChanged
        /\ \E u \in Remaining :
             /\ addressee' = registry[u]
             /\ visited' = visited \union {u}
        /\ expected' = expected - 1
        /\ UNCHANGED <<phase, startSize, leftOver, couples, second, active,
                       lobby, introduced, told>>
     \/ /\ ~DictionaryChanged /\ Remaining = {}
        /\ phase' = "sleeping"
        /\ startSize' = 0 /\ expected' = 0 /\ visited' = {}
        /\ UNCHANGED <<addressee, leftOver, couples, second, active,
                       lobby, introduced, told>>
  /\ UNCHANGED <<socketVars, tableVars>>

(* The suspended send completes. *)
SendCompletes ==
  /\ addressee # NoSocket /\ SendMaySucceed(addressee)
  /\ addressee' = NoSocket
  /\ UNCHANGED <<phase, startSize, expected, visited, leftOver, couples, second, active,
                 lobby, introduced, told, socketVars, tableVars>>

(* The suspended send raises, which nothing catches. *)
SendRaises ==
  /\ addressee # NoSocket /\ SendMayRaise(addressee)
  /\ EventOver("idle")
  /\ UNCHANGED <<active, socketVars, tableVars>>

(* Variants, each a slip the code could contain. *)
PairingsOverlapping(here) ==
  {M \in SUBSET {e \in Fits \ linked : e \subseteq here} :
     \A e \in Fits \ linked : e \subseteq here => \E f \in M : e \intersect f # {}}

(* What the pairing loop may return for the users in the lobby: the maximal
   sets of disjoint pairs that fit and are not linked. *)
Pairings(here) ==
  LET open == {e \in Fits \ linked : e \subseteq here}
  IN {M \in SUBSET open :
        /\ \A e, f \in M : e # f => e \intersect f = {}
        /\ \A e \in open : \E f \in M : e \intersect f # {}}

(* The users in the lobby whom the pairing has left over; and a variant. *)
LeftOverAll(here, M) == here
LeftOver(here, M) == here \ UNION M

(* The sleep ends: the event is no longer active and the pairing runs. *)
MatchTime ==
  /\ phase = "sleeping"
  /\ active' = FALSE
  /\ IF Registered = {}
     THEN phase' = "finished" /\ UNCHANGED <<couples, leftOver, lobby>>
     ELSE /\ phase' = "telling"
          /\ lobby' = Registered \intersect Seekers
          /\ couples' \in Pairings(lobby')
          /\ leftOver' = LeftOver(lobby', couples')
  /\ UNCHANGED <<addressee, startSize, expected, visited, second, introduced, told,
                 socketVars, tableVars>>

(* The loop over not_matched: a user with an entry is sent the result, another
   is passed over. *)
TellLeftOver ==
  /\ phase = "telling" /\ addressee = NoSocket
  /\ \E u \in leftOver :
       /\ leftOver' = Without(u)
       /\ IF u \in Registered
          THEN addressee' = registry[u] /\ told' = [told EXCEPT ![u] = Unmatched]
          ELSE UNCHANGED <<addressee, told>>
  /\ UNCHANGED <<phase, startSize, expected, visited, couples, second, active, lobby,
                 introduced, socketVars, tableVars>>

LeftOverTold ==
  /\ phase = "telling" /\ addressee = NoSocket /\ leftOver = {}
  /\ phase' = "announcing"
  /\ UNCHANGED <<addressee, startSize, expected, visited, leftOver, couples, second, active,
                 lobby, introduced, told, socketVars, tableVars>>

(* The loop over the couples.  When both have an entry their row is inserted
   and committed and the first of them is sent the other; otherwise the couple
   is passed over. *)
AnnounceCouple ==
  /\ phase = "announcing" /\ addressee = NoSocket /\ second = <<>>
  /\ \E u, v \in Users :
       /\ {u, v} \in couples /\ u # v
       /\ couples' = couples \ {{u, v}}
       /\ IF {u, v} \subseteq Registered
          THEN /\ linked' = linked \union {{u, v}}
               /\ introduced' = introduced \union {{u, v}}
               /\ told' = [told EXCEPT ![u] = v]
               /\ addressee' = registry[u]
               /\ second' = SecondOf(u, v)
          ELSE UNCHANGED <<linked, introduced, told, addressee, second>>
  /\ UNCHANGED <<phase, startSize, expected, visited, leftOver, active, lobby, blocked, socketVars>>

(* The second of a couple is sent the first, on the websocket that was read
   before the row was inserted. *)
TellSecond ==
  /\ phase = "announcing" /\ addressee = NoSocket /\ second # <<>>
  /\ addressee' = second[3]
  /\ told' = [told EXCEPT ![second[1]] = second[2]]
  /\ second' = <<>>
  /\ UNCHANGED <<phase, startSize, expected, visited, leftOver, couples, active, lobby,
                 introduced, socketVars, tableVars>>

AllAnnounced ==
  /\ phase = "announcing" /\ addressee = NoSocket /\ second = <<>> /\ couples = {}
  /\ EventOver("finished")
  /\ UNCHANGED <<active, socketVars, tableVars>>

(* The pool has no connection or the database refuses a statement of the
   pairing, of the lookup of the matched users, or of an insert. *)
DatabaseFails ==
  /\ \/ phase = "sleeping" /\ active' = FALSE
     \/ /\ phase = "announcing" /\ addressee = NoSocket /\ second = <<>> /\ couples # {}
        /\ UNCHANGED active
  /\ EventOver("idle")
  /\ UNCHANGED <<socketVars, tableVars>>

(* A swipe matches a pair or they start a chat; a block deletes both. *)
ConnectElsewhere(e) ==
  /\ Yielded
  /\ linked' = linked \union {e}
  /\ UNCHANGED <<blocked, eventVars, socketVars>>

BlockElsewhere(e) ==
  /\ Yielded
  /\ linked' = linked \ {e}
  /\ blocked' = blocked \union {e}
  /\ UNCHANGED <<eventVars, socketVars>>

(* The process is killed, at any point, and started again; rows survive. *)
Restart ==
  /\ ProcessKilled
  /\ EventOver("idle") /\ active' = FALSE
  /\ UNCHANGED tableVars

(* A user leaves: the entry goes, and would come last if it were made again. *)
UserLeaves(s) ==
  /\ Yielded
  /\ Disconnected(s)
  /\ visited' = visited \ {Owner[s]}
  /\ UNCHANGED <<phase, addressee, startSize, expected, leftOver, couples, second,
                 active, lobby, introduced, told, tableVars>>

(* What lies behind the iterator once u, who has no entry, is entered at the end:
   as before, or, when the dictionary is rebuilt for want of a slot, as many
   entries more as slots before the iterator had been freed. *)
BehindAfter(u) ==
  IF phase # "notifying" THEN {visited}
  ELSE {visited \union S : S \in SUBSET Remaining} \union {Registered \union {u}}

(* A user comes, with an entry that is replaced in its place, or with a new one. *)
UserComes(s) ==
  /\ Yielded
  /\ Accept(s)
  /\ IF Owner[s] \in Registered THEN UNCHANGED visited ELSE visited' \in BehindAfter(Owner[s])
  /\ UNCHANGED <<phase, addressee, startSize, expected, leftOver, couples, second,
                 active, lobby, introduced, told, tableVars>>

SocketStep(s) ==
  /\ Yielded
  /\ Greet(s) \/ GreetFails(s) \/ BadFrame(s) \/ ClientLeaves(s)
  /\ UNCHANGED <<eventVars, tableVars>>

EventStep ==
  \/ NotifyNext \/ SendCompletes \/ SendRaises \/ MatchTime \/ TellLeftOver
  \/ LeftOverTold \/ AnnounceCouple \/ TellSecond \/ AllAnnounced

LobbyNext ==
  \/ EventStart \/ EventStep \/ DatabaseFails \/ Restart
  \/ \E e \in Outside : ConnectElsewhere(e) \/ BlockElsewhere(e)
  \/ \E s \in Sockets : UserLeaves(s) \/ UserComes(s) \/ SocketStep(s)

LobbySpec == LobbyInit /\ [][LobbyNext]_lobbyVars /\ WF_lobbyVars(EventStep)

(* The event loop runs what is ready in turn, and uvicorn's pings end a send to a
   client that does not read: a greeting ends, and a client that left is noticed.
   Strong fairness, as the endpoints stand still while the event's coroutine runs. *)
EndpointProceeds(s) ==
  \/ UserLeaves(s)
  \/ SocketStep(s) /\ endpoint[s] = "greeting" /\ endpoint'[s] # "greeting"

LobbyLiveSpec == LobbySpec /\ \A s \in Sockets : SF_lobbyVars(EndpointProceeds(s))
-----------------------------------------------------------------------------
LobbyTypeOK ==
  /\ RegistryTypeOK
  /\ phase \in Phases /\ addressee \in Sockets \union {NoSocket}
  /\ startSize \in Nat /\ expected \in Nat /\ visited \subseteq Users
  /\ leftOver \subseteq Users /\ couples \subseteq Pairs
  /\ second \in {<<>>} \union (Users \X Users \X Sockets)
  /\ active \in BOOLEAN
  /\ linked \subseteq Pairs /\ blocked \subseteq Pairs
  /\ lobby \subseteq Users /\ introduced \subseteq Pairs
  /\ told \in [Users -> Users \union {Nothing, Unmatched}]

(* The pairs of one event fit and are disjoint, those still to be announced
   and those already introduced together. *)
CouplesDisjoint ==
  /\ couples \union introduced \subseteq Fits
  /\ \A e, f \in couples \union introduced : e # f => e \intersect f = {}

(* Every result is true: a user told of a partner has a row with that partner,
   and a user told "unmatched" is in no couple of the event. *)
ResultsTrue ==
  \A u \in Users :
    /\ told[u] \in Users => {u, told[u]} \in introduced
    /\ told[u] = Unmatched => \A e \in couples \union introduced : u \notin e

(* An event that runs to its end has told both users of every row it inserted
   of each other. *)
BothTold ==
  phase = "finished" =>
    \A e \in introduced : \A u, v \in e : u # v => told[u] = v

(* An event sends a user one result, however long it is suspended between the
   loop over those left over and the announcements: it never takes back what it
   told anyone. *)
ToldOnce ==
  [][told' = Untold \/ \A u \in Users : told[u] # Nothing => told'[u] = told[u]]_lobbyVars

(* Every event comes to its end, whatever the users and the database do. *)
EventEnds == phase \notin {"idle", "finished"} ~> phase \in {"idle", "finished"}

(* An exception while the event is announced leaves event_active set, and every
   client is greeted with "event-start" from then on. *)
ActiveMeansEvent == active => phase \in {"notifying", "sleeping"}

(* A user of the lobby gets a result of a finished event unless a socket of
   theirs went: not so, as a couple is passed over when either one has left. *)
EveryoneAnswered ==
  phase = "finished" =>
    \A u \in lobby : told[u] = Nothing => \E s \in gone : Owner[s] = u

(* A pair that is introduced was not connected before. *)
NewLinksOnly == [][\A e \in introduced' \ introduced : e \notin linked]_lobbyVars

(* A blocked pair is not introduced to each other. *)
BlockedNotIntroduced == [][\A e \in introduced' \ introduced : e \notin blocked]_lobbyVars

(* What holds the two together along an event. *)
EventProgress ==
  /\ phase \in {"notifying", "sleeping"} =>
       introduced = {} /\ told = Untold
  /\ phase \notin {"telling", "announcing"} => couples = {} /\ leftOver = {} /\ second = <<>>
  /\ phase = "telling" => introduced = {} /\ second = <<>> /\ \A u \in Users : told[u] \notin Users
  /\ \A u \in leftOver, e \in couples \union introduced : u \notin e
  /\ second # <<>> => {second[1], second[2]} \in introduced /\ second[1] # second[2]
  /\ phase \in {"announcing", "finished"} =>
       \A e \in introduced : \A u \in e :
         told[u] # Nothing \/ (second # <<>> /\ second[1] = u)

(* Whoever is still to be told a result has been told none. *)
NotYetTold ==
  /\ \A u \in leftOver : told[u] = Nothing
  /\ \A e \in couples : \A u \in e : told[u] = Nothing
  /\ second # <<>> => told[second[1]] = Nothing

LobbyCore == CouplesDisjoint /\ ResultsTrue /\ EventProgress /\ NotYetTold

LobbyInv == LobbyTypeOK /\ RegistryAccurate /\ LobbyCore
=============================================================================
