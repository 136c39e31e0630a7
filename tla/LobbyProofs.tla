------------------------------ MODULE LobbyProofs ------------------------------
(***************************************************************************)
(* For any users, sockets and preferences: an event introduces nobody      *)
(* twice, tells nobody a result that is not so, and, when it runs to its   *)
(* end, has told both users of every row it inserted.  For every relation  *)
(* of who fits and every shuffle, the pairing loop of get_lobby_users ends *)
(* with a maximal matching, which is what the event's model takes it for.  *)
(***************************************************************************)
EXTENDS Lobby, LobbyPairing, SocketRegistryProofs, FiniteSetTheorems

(* The part of LobbyInv that the event itself keeps. *)
EventInv == LobbyTypeOK /\ LobbyCore

(* Before the first event there is nothing to tell. *)
LEMMA LobbyInitInv == LobbyInit => EventInv
<1> SUFFICES ASSUME LobbyInit PROVE EventInv
  OBVIOUS
<1> USE DEF LobbyInit, RegistryInit
<1>1. LobbyTypeOK
  BY DEF LobbyTypeOK, RegistryTypeOK, Endpoints, Phases, Untold
<1>2. LobbyCore
  BY ResultAssumption DEF LobbyCore, CouplesDisjoint, ResultsTrue, EventProgress, NotYetTold, Untold
<1> QED BY <1>1, <1>2 DEF EventInv

(* A step that leaves the coroutine's place and its lists alone keeps them in
   order. *)
LEMMA CoreUnchanged ==
  ASSUME LobbyCore, UNCHANGED <<phase, leftOver, couples, second, introduced, told>>
  PROVE  LobbyCore'
  BY DEF LobbyCore, CouplesDisjoint, ResultsTrue, EventProgress, NotYetTold

(* A coroutine that ends by an exception leaves its results true. *)
LEMMA CoreAborted ==
  ASSUME LobbyTypeOK, LobbyCore, EventOver("idle")
  PROVE  LobbyCore'
  BY DEF EventOver, LobbyTypeOK, LobbyCore, CouplesDisjoint, ResultsTrue, EventProgress, NotYetTold

(* The size of the dictionary is a number. *)
LEMMA RegisteredSize == Cardinality(Registered) \in Nat
  BY UsersFinite, FS_Subset, FS_CardinalityType DEF Registered

(* The dictionary holds sockets. *)
LEMMA RegisteredSocket ==
  ASSUME RegistryTypeOK, NEW u \in Registered
  PROVE  u \in Users /\ registry[u] \in Sockets
  BY DEF RegistryTypeOK, Registered

(* Pairings are pairs that fit, are disjoint and lie in the lobby. *)
LEMMA PairingsFit ==
  ASSUME NEW here, NEW M \in Pairings(here)
  PROVE  /\ M \subseteq Fits /\ M \subseteq Pairs
         /\ \A e, f \in M : e # f => e \intersect f = {}
  BY FitsAssumption DEF Pairings

(* The steps of the endpoints keep the dictionary well-typed. *)
LEMMA SocketTypeOK ==
  ASSUME RegistryTypeOK, NEW s \in Sockets,
         Accept(s) \/ Greet(s) \/ GreetFails(s) \/ BadFrame(s) \/ ClientLeaves(s) \/ Disconnected(s)
  PROVE  RegistryTypeOK'
<1> USE OwnerAssumption DEF RegistryTypeOK, Endpoints
<1>1. CASE Accept(s)
  BY <1>1 DEF Accept, RegisteredWith
<1>2. CASE Greet(s)
  BY <1>2 DEF Greet
<1>3. CASE GreetFails(s) \/ BadFrame(s)
  BY <1>3 DEF GreetFails, BadFrame, Fault
<1>4. CASE ClientLeaves(s)
  BY <1>4 DEF ClientLeaves
<1>5. CASE Disconnected(s)
  BY <1>5 DEF Disconnected, Unregistered
<1> QED BY <1>1, <1>2, <1>3, <1>4, <1>5

(* Users come and go. *)
LEMMA UsersInv ==
  ASSUME EventInv, NEW s \in Sockets, UserLeaves(s) \/ UserComes(s) \/ SocketStep(s)
  PROVE  EventInv'
<1>1. RegistryTypeOK'
  BY SocketTypeOK DEF EventInv, LobbyTypeOK, UserLeaves, UserComes, SocketStep
<1>2. UNCHANGED <<phase, addressee, startSize, expected, leftOver, couples, second, active, lobby,
                  introduced, told, linked, blocked>>
  BY DEF UserLeaves, UserComes, SocketStep, eventVars, tableVars
<1>3. visited' \subseteq Users
  <2>1. visited \subseteq Users /\ Owner[s] \in Users
    BY OwnerAssumption DEF EventInv, LobbyTypeOK
  <2>2. \A B \in BehindAfter(Owner[s]) : B \subseteq Users
    BY <2>1 DEF BehindAfter, Remaining, Registered
  <2>3. CASE UserLeaves(s)
    BY <2>1, <2>3 DEF UserLeaves
  <2>4. CASE UserComes(s)
    BY <2>1, <2>2, <2>4 DEF UserComes
  <2>5. CASE SocketStep(s)
    BY <2>1, <2>5 DEF SocketStep, eventVars
  <2> QED BY <2>3, <2>4, <2>5
<1>4. LobbyTypeOK'
  BY <1>1, <1>2, <1>3 DEF EventInv, LobbyTypeOK
<1>5. LobbyCore'
  BY <1>2, CoreUnchanged DEF EventInv
<1> QED BY <1>4, <1>5 DEF EventInv

(* Other handlers connect and block pairs. *)
LEMMA OutsideInv ==
  ASSUME EventInv, NEW e \in Outside, ConnectElsewhere(e) \/ BlockElsewhere(e)
  PROVE  EventInv'
<1>1. UNCHANGED <<eventVars, socketVars>> /\ linked' \subseteq linked \union {e}
      /\ blocked' \subseteq blocked \union {e}
  BY DEF ConnectElsewhere, BlockElsewhere
<1>2. e \in Pairs
  BY OutsideAssumption
<1>3. LobbyTypeOK'
  BY <1>1, <1>2 DEF EventInv, LobbyTypeOK, RegistryTypeOK, eventVars, socketVars
<1>4. LobbyCore'
  BY <1>1, CoreUnchanged DEF EventInv, eventVars
<1> QED BY <1>3, <1>4 DEF EventInv

(* The event begins with no results. *)
LEMMA EventStartInv ==
  ASSUME EventInv, EventStart
  PROVE  EventInv'
<1>1. LobbyTypeOK'
  BY RegisteredSize DEF EventInv, LobbyTypeOK, RegistryTypeOK, EventStart, Phases, Untold,
                        socketVars, tableVars
<1>2. couples = {} /\ leftOver = {} /\ second = <<>>
  BY DEF EventInv, LobbyCore, EventProgress, EventStart
<1>3. LobbyCore'
  BY <1>2, ResultAssumption
     DEF EventStart, LobbyCore, CouplesDisjoint, ResultsTrue, EventProgress, NotYetTold, Untold
<1> QED BY <1>1, <1>3 DEF EventInv

(* The iteration over the dictionary sends no results. *)
LEMMA NotifyNextInv ==
  ASSUME EventInv, NotifyNext
  PROVE  EventInv'
<1>1. UNCHANGED <<socketVars, tableVars>> /\ RegistryTypeOK /\ phase = "notifying"
  BY DEF NotifyNext, EventInv, LobbyTypeOK
<1>2. CASE EventOver("idle") /\ UNCHANGED active
  <2>1. LobbyTypeOK'
    BY <1>1, <1>2 DEF EventOver, EventInv, LobbyTypeOK, RegistryTypeOK, Phases, socketVars, tableVars
  <2> QED BY <1>2, <2>1, CoreAborted DEF EventInv
<1>3. CASE /\ ~DictionaryChanged /\ expected' = expected - 1
           /\ \E u \in Remaining : addressee' = registry[u] /\ visited' = visited \union {u}
           /\ UNCHANGED <<phase, startSize, leftOver, couples, second, active,
                          lobby, introduced, told>>
  <2>1. PICK u \in Remaining : addressee' = registry[u] /\ visited' = visited \union {u}
    BY <1>3
  <2>2. u \in Users /\ registry[u] \in Sockets
    BY <1>1, RegisteredSocket DEF Remaining
  <2>3. expected' \in Nat
    BY <1>3, <2>1 DEF DictionaryChanged, EventInv, LobbyTypeOK
  <2>4. LobbyTypeOK'
    BY <1>1, <1>3, <2>1, <2>2, <2>3 DEF EventInv, LobbyTypeOK, RegistryTypeOK, socketVars, tableVars
  <2> QED BY <1>3, <2>4, CoreUnchanged DEF EventInv
<1>4. CASE /\ phase' = "sleeping" /\ startSize' = 0 /\ expected' = 0 /\ visited' = {}
           /\ UNCHANGED <<addressee, leftOver, couples, second, active, lobby, introduced, told>>
  <2>1. LobbyTypeOK'
    BY <1>1, <1>4 DEF EventInv, LobbyTypeOK, RegistryTypeOK, Phases, socketVars, tableVars
  <2>2. LobbyCore'
    BY <1>1, <1>4 DEF EventInv, LobbyCore, CouplesDisjoint, ResultsTrue, EventProgress, NotYetTold, Untold
  <2> QED BY <2>1, <2>2 DEF EventInv
<1> QED BY <1>2, <1>3, <1>4 DEF NotifyNext

(* A send completes, raises, or the database or the process fails. *)
LEMMA SendInv ==
  ASSUME EventInv, SendCompletes \/ SendRaises \/ DatabaseFails
  PROVE  EventInv'
<1>1. UNCHANGED <<socketVars, tableVars, lobby, introduced, told>> /\ active' \in BOOLEAN
  BY DEF SendCompletes, SendRaises, DatabaseFails, EventOver, EventInv, LobbyTypeOK
<1>2. CASE SendCompletes
  <2>1. LobbyTypeOK'
    BY <1>1, <1>2 DEF SendCompletes, EventInv, LobbyTypeOK, RegistryTypeOK, socketVars, tableVars
  <2> QED BY <1>2, <2>1, CoreUnchanged DEF EventInv, SendCompletes
<1>3. CASE SendRaises \/ DatabaseFails
  <2>1. EventOver("idle")
    BY <1>3 DEF SendRaises, DatabaseFails
  <2>2. LobbyTypeOK'
    BY <1>1, <2>1 DEF EventOver, EventInv, LobbyTypeOK, RegistryTypeOK, Phases, socketVars, tableVars
  <2> QED BY <2>1, <2>2, CoreAborted DEF EventInv
<1> QED BY <1>2, <1>3

(* A restart is the end of the event and of every endpoint. *)
LEMMA RestartInv ==
  ASSUME EventInv, Restart
  PROVE  EventInv'
<1>1. RegistryTypeOK'
  BY DEF Restart, ProcessKilled, EventInv, LobbyTypeOK, RegistryTypeOK, Endpoints
<1>2. LobbyTypeOK'
  BY <1>1 DEF Restart, EventOver, EventInv, LobbyTypeOK, Phases, tableVars
<1> QED BY <1>2, CoreAborted DEF Restart, EventInv

(* The pairing: disjoint couples, and the rest left over. *)
LEMMA MatchTimeInv ==
  ASSUME EventInv, MatchTime
  PROVE  EventInv'
<1>1. /\ UNCHANGED <<addressee, startSize, expected, visited, second, introduced, told, socketVars, tableVars>>
      /\ active' = FALSE /\ phase = "sleeping" /\ LobbyTypeOK
      /\ couples = {} /\ introduced = {} /\ told = Untold /\ second = <<>>
  BY DEF MatchTime, EventInv, LobbyCore, EventProgress
<1>2. CASE phase' = "finished" /\ UNCHANGED <<couples, leftOver, lobby>>
  <2>1. LobbyTypeOK'
    BY <1>1, <1>2 DEF LobbyTypeOK, RegistryTypeOK, Phases, socketVars, tableVars
  <2>2. LobbyCore'
    BY <1>1, <1>2 DEF EventInv, LobbyCore, CouplesDisjoint, ResultsTrue, EventProgress, NotYetTold
  <2> QED BY <2>1, <2>2 DEF EventInv
<1>3. CASE /\ phase' = "telling" /\ lobby' = Registered \intersect Seekers
           /\ couples' \in Pairings(lobby')
           /\ leftOver' = lobby' \ UNION couples'
  <2>1. /\ couples' \subseteq Fits /\ couples' \subseteq Pairs
        /\ \A e, f \in couples' : e # f => e \intersect f = {}
    BY <1>3, PairingsFit
  <2>2. lobby' \subseteq Users /\ leftOver' \subseteq Users
    BY <1>3 DEF Registered
  <2>3. LobbyTypeOK'
    BY <1>1, <1>3, <2>1, <2>2 DEF LobbyTypeOK, RegistryTypeOK, Phases, socketVars, tableVars
  <2>4. CouplesDisjoint'
    BY <1>1, <2>1 DEF CouplesDisjoint
  <2>5. ResultsTrue'
    BY <1>1, ResultAssumption DEF ResultsTrue, Untold
  <2>6. EventProgress'
    BY <1>1, <1>3, ResultAssumption DEF EventProgress, Untold
  <2>7. NotYetTold'
    BY <1>1, <2>1, <2>2 DEF NotYetTold, Untold, Pairs
  <2> QED BY <2>3, <2>4, <2>5, <2>6, <2>7 DEF EventInv, LobbyCore
<1> QED BY <1>2, <1>3 DEF MatchTime, LeftOver

(* A user told "unmatched" is in no couple. *)
LEMMA TellLeftOverInv ==
  ASSUME EventInv, TellLeftOver
  PROVE  EventInv'
<1>1. /\ UNCHANGED <<phase, startSize, expected, visited, couples, second, active, lobby, introduced,
                     socketVars, tableVars>>
      /\ phase = "telling" /\ LobbyTypeOK /\ introduced = {} /\ second = <<>>
      /\ \A u \in Users : told[u] \notin Users
  BY DEF TellLeftOver, EventInv, LobbyCore, EventProgress
<1>2. PICK u \in leftOver :
        /\ leftOver' = leftOver \ {u}
        /\ IF u \in Registered
           THEN addressee' = registry[u] /\ told' = [told EXCEPT ![u] = Unmatched]
           ELSE UNCHANGED <<addressee, told>>
  BY DEF TellLeftOver, Without
<1>3. u \in Users /\ \A e \in couples : u \notin e
  BY <1>1, <1>2 DEF EventInv, LobbyCore, EventProgress, LobbyTypeOK
<1>4. addressee' \in Sockets \union {NoSocket}
  BY <1>1, <1>2, RegisteredSocket DEF LobbyTypeOK
<1>5. /\ told' \in [Users -> Users \union {Nothing, Unmatched}]
      /\ \A v \in Users : told'[v] = told[v] \/ (v = u /\ told'[v] = Unmatched)
  BY <1>1, <1>2, <1>3 DEF LobbyTypeOK
<1>6. LobbyTypeOK'
  BY <1>1, <1>2, <1>4, <1>5 DEF LobbyTypeOK, RegistryTypeOK, socketVars, tableVars
<1>7. CouplesDisjoint'
  BY <1>1 DEF EventInv, LobbyCore, CouplesDisjoint
<1>8. ResultsTrue'
  BY <1>1, <1>3, <1>5, ResultAssumption DEF EventInv, LobbyCore, ResultsTrue
<1>9. EventProgress'
  BY <1>1, <1>2, <1>5, ResultAssumption DEF EventInv, LobbyCore, EventProgress
<1>10. NotYetTold'
  <2>1. couples \subseteq Pairs /\ leftOver \subseteq Users
    BY <1>1 DEF LobbyTypeOK
  <2>2. \A v \in leftOver' : told'[v] = Nothing
    BY <1>2, <1>5, <2>1 DEF EventInv, LobbyCore, NotYetTold
  <2>3. \A e \in couples' : \A v \in e : told'[v] = Nothing
    BY <1>1, <1>3, <1>5, <2>1 DEF EventInv, LobbyCore, NotYetTold, Pairs
  <2> QED BY <1>1, <2>2, <2>3 DEF NotYetTold
<1> QED BY <1>6, <1>7, <1>8, <1>9, <1>10 DEF EventInv, LobbyCore

(* The loop over those left over ends. *)
LEMMA LeftOverToldInv ==
  ASSUME EventInv, LeftOverTold
  PROVE  EventInv'
<1>1. LobbyTypeOK'
  BY DEF LeftOverTold, EventInv, LobbyTypeOK, RegistryTypeOK, Phases, socketVars, tableVars
<1>2. LobbyCore'
  BY DEF LeftOverTold, EventInv, LobbyCore, CouplesDisjoint, ResultsTrue, EventProgress, NotYetTold
<1> QED BY <1>1, <1>2 DEF EventInv

(* A couple is introduced, or passed over. *)
LEMMA AnnounceCoupleInv ==
  ASSUME EventInv, AnnounceCouple
  PROVE  EventInv'
<1>1. /\ UNCHANGED <<phase, startSize, expected, visited, leftOver, active, lobby, blocked, socketVars>>
      /\ phase = "announcing" /\ second = <<>> /\ LobbyTypeOK
  BY DEF AnnounceCouple, EventInv
<1>2. PICK u \in Users, v \in Users :
        /\ {u, v} \in couples /\ u # v
        /\ couples' = couples \ {{u, v}}
        /\ IF {u, v} \subseteq Registered
           THEN /\ linked' = linked \union {{u, v}}
                /\ introduced' = introduced \union {{u, v}}
                /\ told' = [told EXCEPT ![u] = v]
                /\ addressee' = registry[u]
                /\ second' = SecondOf(u, v)
           ELSE UNCHANGED <<linked, introduced, told, addressee, second>>
  BY DEF AnnounceCouple
<1>3. couples' \union introduced' \subseteq couples \union introduced
  BY <1>2
<1>4. CouplesDisjoint'
  BY <1>3 DEF EventInv, LobbyCore, CouplesDisjoint
<1>5. \A w \in leftOver, e \in couples' \union introduced' : w \notin e
  BY <1>3 DEF EventInv, LobbyCore, EventProgress
<1>6. CASE {u, v} \subseteq Registered
  <2>1. /\ introduced' = introduced \union {{u, v}}
        /\ told' = [told EXCEPT ![u] = v] /\ second' = <<v, u, registry[v]>>
        /\ linked' = linked \union {{u, v}} /\ addressee' = registry[u]
    BY <1>2, <1>6 DEF SecondOf
  <2>2. registry[u] \in Sockets /\ registry[v] \in Sockets /\ {u, v} \in Pairs
    BY <1>1, <1>2, <1>6, RegisteredSocket DEF LobbyTypeOK
  <2>3. told'[u] = v /\ \A w \in Users : w # u => told'[w] = told[w]
    BY <1>1, <2>1 DEF LobbyTypeOK
  <2>4. LobbyTypeOK'
    BY <1>1, <1>2, <2>1, <2>2 DEF LobbyTypeOK, RegistryTypeOK, socketVars
  <2>5. ResultsTrue'
    <3> SUFFICES ASSUME NEW w \in Users
                 PROVE  /\ told'[w] \in Users => {w, told'[w]} \in introduced'
                        /\ told'[w] = Unmatched => \A e \in couples' \union introduced' : w \notin e
      BY DEF ResultsTrue
    <3>1. CASE w = u
      BY <1>2, <2>1, <2>3, <3>1, ResultAssumption
    <3>2. CASE w # u
      <4>1. told'[w] = told[w]
        BY <2>3, <3>2
      <4> QED BY <1>3, <2>1, <4>1 DEF EventInv, LobbyCore, ResultsTrue
    <3> QED BY <3>1, <3>2
  <2>6. \A e \in introduced' : \A w \in e :
          told'[w] # Nothing \/ (second' # <<>> /\ second'[1] = w)
    <3> SUFFICES ASSUME NEW e \in introduced', NEW w \in e
                 PROVE  told'[w] # Nothing \/ (second' # <<>> /\ second'[1] = w)
      OBVIOUS
    <3>1. CASE e = {u, v}
      BY <2>1, <2>3, <3>1, ResultAssumption
    <3>2. CASE e \in introduced
      <4>1. told[w] # Nothing /\ w \in Users
        BY <1>1, <3>2 DEF EventInv, LobbyCore, EventProgress, LobbyTypeOK, Pairs
      <4> QED BY <2>3, <4>1, ResultAssumption
    <3> QED BY <2>1, <3>1, <3>2
  <2>7. EventProgress'
    BY <1>1, <1>2, <1>5, <2>1, <2>6 DEF EventProgress
  <2>8. NotYetTold'
    <3>1. told[v] = Nothing
      BY <1>2 DEF EventInv, LobbyCore, NotYetTold
    <3>2. \A w \in leftOver' : told'[w] = Nothing
      <4> SUFFICES ASSUME NEW w \in leftOver' PROVE told'[w] = Nothing
        OBVIOUS
      <4>1. w \in Users /\ w # u /\ told[w] = Nothing
        BY <1>1, <1>2 DEF EventInv, LobbyCore, LobbyTypeOK, EventProgress, NotYetTold
      <4> QED BY <2>3, <4>1
    <3>3. \A e \in couples' : \A w \in e : told'[w] = Nothing
      <4> SUFFICES ASSUME NEW e \in couples', NEW w \in e PROVE told'[w] = Nothing
        OBVIOUS
      <4>1. e \in couples /\ e # {u, v}
        BY <1>2
      <4>2. e \intersect {u, v} = {}
        BY <1>2, <4>1 DEF EventInv, LobbyCore, CouplesDisjoint
      <4>3. w \in Users /\ w # u /\ told[w] = Nothing
        BY <1>1, <4>1, <4>2 DEF EventInv, LobbyCore, LobbyTypeOK, Pairs, NotYetTold
      <4> QED BY <2>3, <4>3
    <3>4. told'[second'[1]] = Nothing
      BY <1>2, <2>1, <2>3, <3>1
    <3> QED BY <3>2, <3>3, <3>4 DEF NotYetTold
  <2> QED BY <1>4, <2>4, <2>5, <2>7, <2>8 DEF EventInv, LobbyCore
<1>7. CASE ~({u, v} \subseteq Registered)
  <2>1. UNCHANGED <<linked, introduced, told, addressee, second>>
    BY <1>2, <1>7
  <2>2. LobbyTypeOK'
    BY <1>1, <1>2, <2>1 DEF LobbyTypeOK, RegistryTypeOK, socketVars
  <2>3. ResultsTrue' /\ EventProgress'
    BY <1>1, <1>2, <1>3, <1>5, <2>1 DEF EventInv, LobbyCore, ResultsTrue, EventProgress
  <2>4. NotYetTold'
    BY <1>1, <1>2, <2>1 DEF EventInv, LobbyCore, NotYetTold
  <2> QED BY <1>4, <2>2, <2>3, <2>4 DEF EventInv, LobbyCore
<1> QED BY <1>6, <1>7

(* The second of a couple is told the first. *)
LEMMA TellSecondInv ==
  ASSUME EventInv, TellSecond
  PROVE  EventInv'
<1>1. /\ UNCHANGED <<phase, startSize, expected, visited, leftOver, couples, active, lobby, introduced,
                     socketVars, tableVars>>
      /\ phase = "announcing" /\ second # <<>> /\ LobbyTypeOK
      /\ addressee' = second[3] /\ told' = [told EXCEPT ![second[1]] = second[2]]
      /\ second' = <<>>
  BY DEF TellSecond, EventInv
<1>2. second \in Users \X Users \X Sockets
  BY <1>1 DEF LobbyTypeOK
<1>3. second[1] \in Users /\ second[2] \in Users /\ second[3] \in Sockets
  BY <1>2
<1>4. {second[1], second[2]} \in introduced
  BY <1>1 DEF EventInv, LobbyCore, EventProgress
<1>5. told'[second[1]] = second[2] /\ \A w \in Users : w # second[1] => told'[w] = told[w]
  BY <1>1, <1>3 DEF LobbyTypeOK
<1>6. LobbyTypeOK'
  BY <1>1, <1>3 DEF LobbyTypeOK, RegistryTypeOK, socketVars, tableVars
<1>7. CouplesDisjoint'
  BY <1>1 DEF EventInv, LobbyCore, CouplesDisjoint
<1>8. ResultsTrue'
  <2> SUFFICES ASSUME NEW w \in Users
               PROVE  /\ told'[w] \in Users => {w, told'[w]} \in introduced'
                      /\ told'[w] = Unmatched => \A e \in couples' \union introduced' : w \notin e
    BY DEF ResultsTrue
  <2>1. CASE w = second[1]
    <3>1. told'[w] = second[2] /\ told'[w] # Unmatched
      BY <1>3, <1>5, <2>1, ResultAssumption
    <3>2. {w, told'[w]} = {second[1], second[2]}
      BY <2>1, <3>1
    <3>3. {second[1], second[2]} \in introduced'
      BY <1>1, <1>4
    <3>4. {w, told'[w]} \in introduced'
      BY <3>2, <3>3, Zenon
    <3> QED BY <3>1, <3>4
  <2>2. CASE w # second[1]
    <3>1. told'[w] = told[w]
      BY <1>5, <2>2
    <3>2. /\ told[w] \in Users => {w, told[w]} \in introduced
          /\ told[w] = Unmatched => \A e \in couples \union introduced : w \notin e
      BY DEF EventInv, LobbyCore, ResultsTrue
    <3>3. couples' = couples /\ introduced' = introduced
      BY <1>1
    <3> QED BY <3>1, <3>2, <3>3
  <2> QED BY <2>1, <2>2
<1>9. \A e \in introduced : \A w \in e : told'[w] # Nothing
  <2> SUFFICES ASSUME NEW e \in introduced, NEW w \in e PROVE told'[w] # Nothing
    OBVIOUS
  <2>1. w \in Users
    BY <1>1 DEF LobbyTypeOK, Pairs
  <2>2. told[w] # Nothing \/ second[1] = w
    BY <1>1 DEF EventInv, LobbyCore, EventProgress
  <2> QED BY <1>3, <1>5, <2>1, <2>2, ResultAssumption
<1>10. EventProgress'
  BY <1>1, <1>9 DEF EventInv, LobbyCore, EventProgress
<1>11. NotYetTold'
  <2>1. \A w \in leftOver' : told'[w] = Nothing
    <3> SUFFICES ASSUME NEW w \in leftOver' PROVE told'[w] = Nothing
      OBVIOUS
    <3>1. w \in Users /\ w # second[1] /\ told[w] = Nothing
      BY <1>1, <1>4 DEF EventInv, LobbyCore, LobbyTypeOK, EventProgress, NotYetTold
    <3> QED BY <1>5, <3>1
  <2>2. \A e \in couples' : \A w \in e : told'[w] = Nothing
    <3> SUFFICES ASSUME NEW e \in couples', NEW w \in e PROVE told'[w] = Nothing
      OBVIOUS
    <3>1. e \in couples /\ w \in Users /\ told[w] = Nothing
      BY <1>1 DEF EventInv, LobbyCore, LobbyTypeOK, Pairs, NotYetTold
    <3>2. w # second[1]
      <4>1. SUFFICES ASSUME second[1] \in e PROVE FALSE
        OBVIOUS
      <4>2. second[1] # second[2] /\ told[second[2]] # Nothing
        BY <1>1, <1>4 DEF EventInv, LobbyCore, EventProgress
      <4>3. e # {second[1], second[2]}
        BY <3>1, <4>2 DEF EventInv, LobbyCore, NotYetTold
      <4>4. e \intersect {second[1], second[2]} = {}
        BY <1>4, <3>1, <4>3 DEF EventInv, LobbyCore, CouplesDisjoint
      <4> QED BY <4>1, <4>4
    <3> QED BY <1>5, <3>1, <3>2
  <2> QED BY <1>1, <2>1, <2>2 DEF NotYetTold
<1> QED BY <1>6, <1>7, <1>8, <1>10, <1>11 DEF EventInv, LobbyCore

(* The event ends with everybody told. *)
LEMMA AllAnnouncedInv ==
  ASSUME EventInv, AllAnnounced
  PROVE  EventInv'
<1>1. LobbyTypeOK'
  BY DEF AllAnnounced, EventOver, EventInv, LobbyTypeOK, RegistryTypeOK, Phases, socketVars, tableVars
<1>2. LobbyCore'
  BY DEF AllAnnounced, EventOver, EventInv, LobbyCore, CouplesDisjoint, ResultsTrue, EventProgress, NotYetTold
<1> QED BY <1>1, <1>2 DEF EventInv

(* Every step keeps the invariant. *)
LEMMA LobbyNextInv == EventInv /\ [LobbyNext]_lobbyVars => EventInv'
<1> SUFFICES ASSUME EventInv, [LobbyNext]_lobbyVars PROVE EventInv'
  OBVIOUS
<1>1. CASE EventStart
  BY <1>1, EventStartInv
<1>2. CASE EventStep
  BY <1>2, NotifyNextInv, SendInv, MatchTimeInv, TellLeftOverInv, LeftOverToldInv,
     AnnounceCoupleInv, TellSecondInv, AllAnnouncedInv DEF EventStep
<1>3. CASE DatabaseFails
  BY <1>3, SendInv
<1>4. CASE Restart
  BY <1>4, RestartInv
<1>5. CASE \E e \in Outside : ConnectElsewhere(e) \/ BlockElsewhere(e)
  BY <1>5, OutsideInv
<1>6. CASE \E s \in Sockets : UserLeaves(s) \/ UserComes(s) \/ SocketStep(s)
  BY <1>6, UsersInv
<1>7. CASE UNCHANGED lobbyVars
  <2>1. UNCHANGED <<socketVars, eventVars, tableVars>>
    BY <1>7 DEF lobbyVars
  <2>2. LobbyTypeOK'
    BY <2>1 DEF EventInv, LobbyTypeOK, RegistryTypeOK, eventVars, socketVars, tableVars
  <2> QED BY <2>1, <2>2, CoreUnchanged DEF EventInv, eventVars
<1> QED BY <1>1, <1>2, <1>3, <1>4, <1>5, <1>6, <1>7 DEF LobbyNext

(* The event changes the dictionary only by what the endpoints do: every step of
   the lobby is a step of the registry or leaves it alone. *)
LEMMA LobbyStepsRegistry == [LobbyNext]_lobbyVars => [RegistryNext]_socketVars
<1> SUFFICES ASSUME [LobbyNext]_lobbyVars PROVE [RegistryNext]_socketVars
  OBVIOUS
<1>1. CASE \/ EventStart \/ EventStep \/ DatabaseFails \/ UNCHANGED lobbyVars
           \/ \E e \in Outside : ConnectElsewhere(e) \/ BlockElsewhere(e)
  BY <1>1 DEF EventStart, EventStep, DatabaseFails, ConnectElsewhere, BlockElsewhere,
              NotifyNext, SendCompletes, SendRaises, MatchTime, TellLeftOver, LeftOverTold,
              AnnounceCouple, TellSecond, AllAnnounced, lobbyVars
<1>2. CASE Restart
  BY <1>2 DEF Restart, RegistryNext
<1>3. CASE \E s \in Sockets : UserLeaves(s) \/ UserComes(s) \/ SocketStep(s)
  BY <1>3 DEF UserLeaves, UserComes, SocketStep, RegistryNext
<1> QED BY <1>1, <1>2, <1>3 DEF LobbyNext

(* The lobby implements the registry: whatever the event does while it is
   suspended in a send, its dictionary behaves as that of the other endpoints. *)
THEOREM LobbyImplementsRegistry == LobbySpec => RegistrySafety
<1>1. LobbyInit => RegistryInit
  BY DEF LobbyInit
<1> QED BY <1>1, LobbyStepsRegistry, PTL DEF LobbySpec, RegistrySafety

(* The lobby event keeps its invariant, whoever comes, goes and fails, and its
   dictionary is as accurate as that of every endpoint. *)
THEOREM LobbyInvariance == LobbySpec => []LobbyInv
<1>1. LobbySpec => []EventInv
  BY LobbyInitInv, LobbyNextInv, PTL DEF LobbySpec
<1>2. EventInv /\ RegistryInv => LobbyInv
  BY DEF EventInv, RegistryInv, LobbyInv
<1> QED BY <1>1, <1>2, LobbyImplementsRegistry, RegistryInvariance, PTL

(* Every result an event sends is true. *)
THEOREM ResultsTrueAlways == LobbySpec => []ResultsTrue
<1>1. LobbyInv => ResultsTrue
  BY DEF LobbyInv, LobbyCore
<1> QED BY <1>1, LobbyInvariance, PTL

(* An event that runs to its end has told both users of every row it inserted. *)
THEOREM BothToldAlways == LobbySpec => []BothTold
<1>1. LobbyInv => BothTold
  <2> SUFFICES ASSUME LobbyInv, phase = "finished", NEW e \in introduced,
                      NEW u \in e, NEW v \in e, u # v
               PROVE  told[u] = v
    BY DEF BothTold
  <2> USE DEF LobbyInv, LobbyCore
  <2>1. e \in Pairs /\ u \in Users
    BY DEF LobbyTypeOK, Pairs
  <2>2. told[u] # Nothing /\ told[u] # Unmatched
    BY <2>1 DEF EventProgress, ResultsTrue
  <2>3. told[u] \in Users
    BY <2>1, <2>2 DEF LobbyTypeOK
  <2>4. {u, told[u]} \in introduced
    BY <2>1, <2>3 DEF ResultsTrue
  <2>5. {u, told[u]} = e
    BY <2>4 DEF CouplesDisjoint
  <2> QED BY <2>5
<1> QED BY <1>1, LobbyInvariance, PTL

(* A step of the event that tells a user something tells one who waits for it. *)
LEMMA TellingStep ==
  ASSUME EventInv, TellLeftOver \/ AnnounceCouple \/ TellSecond, NEW u \in Users, told[u] # Nothing
  PROVE  told'[u] = told[u]
<1> USE DEF EventInv, LobbyCore, NotYetTold, LobbyTypeOK
<1>1. CASE TellLeftOver
  BY <1>1 DEF TellLeftOver, Without
<1>2. CASE AnnounceCouple
  BY <1>2 DEF AnnounceCouple
<1>3. CASE TellSecond
  BY <1>3 DEF TellSecond
<1> QED BY <1>1, <1>2, <1>3

(* No event tells a user two results: those left over are told before the
   couples are announced, and the lists the loops take their users from stay
   disjoint while the coroutine is suspended. *)
THEOREM ToldOnceAlways == LobbySpec => ToldOnce
<1>1. EventInv /\ [LobbyNext]_lobbyVars =>
        [told' = Untold \/ \A u \in Users : told[u] # Nothing => told'[u] = told[u]]_lobbyVars
  <2> SUFFICES ASSUME EventInv, [LobbyNext]_lobbyVars
               PROVE  told' = Untold \/ UNCHANGED told
                      \/ \A u \in Users : told[u] # Nothing => told'[u] = told[u]
    BY Zenon
  <2>1. CASE EventStart
    BY <2>1 DEF EventStart
  <2>2. CASE TellLeftOver \/ AnnounceCouple \/ TellSecond
    BY <2>2, TellingStep
  <2>3. CASE NotifyNext \/ SendCompletes \/ SendRaises \/ MatchTime \/ LeftOverTold \/ AllAnnounced
    BY <2>3 DEF NotifyNext, SendCompletes, SendRaises, MatchTime, LeftOverTold, AllAnnounced, EventOver
  <2>4. CASE DatabaseFails \/ Restart \/ UNCHANGED lobbyVars
    BY <2>4 DEF DatabaseFails, Restart, EventOver, lobbyVars, eventVars
  <2>5. CASE \E e \in Outside : ConnectElsewhere(e) \/ BlockElsewhere(e)
    BY <2>5 DEF ConnectElsewhere, BlockElsewhere, eventVars
  <2>6. CASE \E s \in Sockets : UserLeaves(s) \/ UserComes(s) \/ SocketStep(s)
    BY <2>6 DEF UserLeaves, UserComes, SocketStep, eventVars
  <2> QED BY <2>1, <2>2, <2>3, <2>4, <2>5, <2>6 DEF LobbyNext, EventStep
<1> QED BY <1>1, LobbyInitInv, LobbyNextInv, PTL DEF LobbySpec, ToldOnce
-----------------------------------------------------------------------------
(* A user the inner loop finds is another one, unmatched, who fits. *)
LEMMA FoundFits ==
  ASSUME PairingTypeOK, NEW u \in Present, NEW j \in FitsFor(u)
  PROVE  /\ order[j] \in Present /\ order[j] # u
         /\ ~Matched(order[j]) /\ {u, order[j]} \in fits
  BY DEF PairingTypeOK, FitsFor

(* The loop starts with nobody matched and nobody passed. *)
LEMMA PairingInitInv == PairingInit => PairingInv
<1> SUFFICES ASSUME PairingInit PROVE PairingInv
  OBVIOUS
<1>1. Cardinality(Present) \in Nat
  BY PresentFinite, FS_CardinalityType
<1>2. /\ order \in [1..Cardinality(Present) -> Present]
      /\ \A u \in Present : \E i \in DOMAIN order : order[i] = u
      /\ fits \subseteq Pairable /\ position = 0 /\ matches = {}
  BY DEF PairingInit
<1>3. order \in Seq(Present) /\ Len(order) = Cardinality(Present)
  BY <1>1, <1>2
<1>4. PairingTypeOK
  BY <1>1, <1>2, <1>3 DEF PairingTypeOK
<1>5. IsMatching /\ PassedOver
  BY <1>2 DEF IsMatching, PassedOver
<1> QED BY <1>4, <1>5 DEF PairingInv

(* A turn that matches nobody passes its user over rightly. *)
LEMMA PassInv ==
  ASSUME PairingInv, UNCHANGED <<fits, order, matches>>, position' = position + 1,
         position < Len(order),
         Matched(order[position + 1]) \/ FitsFor(order[position + 1]) = {}
  PROVE  PairingInv'
<1> USE DEF PairingInv
<1>1. PairingTypeOK'
  BY DEF PairingTypeOK
<1>2. IsMatching'
  BY DEF IsMatching
<1>3. PassedOver'
  <2> SUFFICES ASSUME NEW i \in 1..(position + 1)
               PROVE  Matched(order[i]) \/ FitsFor(order[i]) = {}
    BY DEF PassedOver, Matched, FitsFor
  <2>1. CASE i = position + 1
    BY <2>1
  <2>2. CASE i # position + 1
    <3>1. i \in 1..position
      BY <2>2 DEF PairingTypeOK
    <3> QED BY <3>1 DEF PassedOver
  <2> QED BY <2>1, <2>2
<1> QED BY <1>1, <1>2, <1>3

(* A turn that matches its user with one who is found keeps the couples
   disjoint, and leaves those passed over earlier with nobody to fit. *)
LEMMA CoupleInv ==
  ASSUME PairingInv, UNCHANGED <<fits, order>>, position' = position + 1,
         position < Len(order),
         ~Matched(order[position + 1]),
         NEW j \in FitsFor(order[position + 1]),
         matches' = matches \union {{order[position + 1], order[j]}}
  PROVE  PairingInv'
<1> DEFINE u == order[position + 1]
<1> DEFINE v == order[j]
<1> USE DEF PairingInv
<1>1. u \in Present /\ position + 1 \in 1..Len(order)
  BY DEF PairingTypeOK
<1>2. v \in Present /\ v # u /\ ~Matched(v) /\ {u, v} \in fits
  BY <1>1, FoundFits
<1>3. {u, v} \in Pairable
  BY <1>2 DEF PairingTypeOK
<1>4. PairingTypeOK'
  <2>1. matches' \subseteq Pairable
    BY <1>3 DEF PairingTypeOK
  <2>2. position' \in 0..Len(order)
    BY <1>1
  <2> QED BY <2>1, <2>2 DEF PairingTypeOK
<1>5. \A e \in matches : e \intersect {u, v} = {}
  BY <1>2 DEF Matched
<1>6. IsMatching'
  <2>1. matches' \subseteq fits'
    BY <1>2 DEF IsMatching
  <2>2. ASSUME NEW e \in matches', NEW f \in matches', e # f
        PROVE  e \intersect f = {}
    BY <1>5, <2>2 DEF IsMatching
  <2> QED BY <2>1, <2>2 DEF IsMatching
<1>7. \E e \in matches' : u \in e
  OBVIOUS
<1>8. \A w : Matched(w) => Matched(w)'
  BY DEF Matched
<1>9. PassedOver'
  <2> SUFFICES ASSUME NEW i \in 1..(position + 1)
               PROVE  Matched(order[i])' \/ FitsFor(order[i])' = {}
    BY DEF PassedOver, Matched, FitsFor
  <2>1. CASE i = position + 1
    BY <1>7, <2>1 DEF Matched
  <2>2. CASE i # position + 1
    <3>1. i \in 1..position
      BY <2>2 DEF PairingTypeOK
    <3>2. Matched(order[i]) \/ FitsFor(order[i]) = {}
      BY <3>1 DEF PassedOver
    <3>3. CASE Matched(order[i])
      BY <3>3 DEF Matched
    <3>4. CASE FitsFor(order[i]) = {}
      BY <3>4, <1>8 DEF FitsFor, Matched
    <3> QED BY <3>2, <3>3, <3>4
  <2> QED BY <2>1, <2>2
<1> QED BY <1>4, <1>6, <1>9

(* Every turn of the loop keeps the invariant. *)
LEMMA PairingNextInv == PairingInv /\ [PairNext]_pairingVars => PairingInv'
<1> SUFFICES ASSUME PairingInv, [PairNext]_pairingVars PROVE PairingInv'
  OBVIOUS
<1>1. CASE PairNext
  <2>1. CASE UNCHANGED matches /\ (Matched(order[position + 1]) \/ FitsFor(order[position + 1]) = {})
    BY <1>1, <2>1, PassInv DEF PairNext
  <2>2. CASE /\ ~Matched(order[position + 1])
             /\ \E j \in FitsFor(order[position + 1]) :
                  matches' = matches \union {{order[position + 1], order[j]}}
    BY <1>1, <2>2, CoupleInv DEF PairNext
  <2> QED BY <1>1, <2>1, <2>2 DEF PairNext
<1>2. CASE UNCHANGED pairingVars
  BY <1>2 DEF pairingVars, PairingInv, PairingTypeOK, IsMatching, PassedOver, Matched, FitsFor
<1> QED BY <1>1, <1>2

(* The pairing loop of get_lobby_users keeps its invariant throughout. *)
THEOREM PairingInvariance == PairingSpec => []PairingInv
<1> QED BY PairingInitInv, PairingNextInv, PTL DEF PairingSpec

(* Whatever the users and their number: nobody is ever in two couples, and all
   couples fit. *)
THEOREM PairingMatches == PairingSpec => []IsMatching
<1>1. PairingInv => IsMatching
  BY DEF PairingInv
<1> QED BY <1>1, PairingInvariance, PTL

(* Whatever the shuffle: when the loop ends, no two users who fit are both left
   over. *)
THEOREM PairingMaximal == PairingSpec => []IsMaximal
<1>1. PairingInv => IsMaximal
  <2> SUFFICES ASSUME PairingInv, position = Len(order), NEW e \in fits,
                      \A f \in matches : e \intersect f = {}
               PROVE  FALSE
    BY DEF IsMaximal
  <2>1. PICK u \in Present, v \in Present : u # v /\ e = {u, v}
    BY DEF PairingInv, PairingTypeOK, Pairable
  <2>2. ~Matched(u) /\ ~Matched(v)
    BY <2>1 DEF Matched
  <2>3. PICK i \in 1..Len(order) : order[i] = u
    BY DEF PairingInv, PairingTypeOK
  <2>4. PICK j \in 1..Len(order) : order[j] = v
    BY DEF PairingInv, PairingTypeOK
  <2>5. j \in FitsFor(order[i])
    BY <2>1, <2>2, <2>3, <2>4 DEF FitsFor
  <2>6. i \in 1..position
    OBVIOUS
  <2> QED BY <2>2, <2>3, <2>5, <2>6 DEF PairingInv, PassedOver
<1> QED BY <1>1, PairingInvariance, PTL

(* What the loop returns is what the event's model lets it return: run on those
   present whom no row or chat connects, LobbyPairing ends in one of Pairings. *)
THEOREM PairingYieldsPairings ==
  PairingSpec => [](/\ position = Len(order)
                    /\ fits = {e \in Fits \ linked : e \subseteq Present}
                    => matches \in Pairings(Present))
<1>1. ASSUME IsMatching, IsMaximal, position = Len(order),
             fits = {e \in Fits \ linked : e \subseteq Present}
      PROVE  matches \in Pairings(Present)
  BY <1>1 DEF IsMatching, IsMaximal, Pairings
<1> QED BY <1>1, PairingMatches, PairingMaximal, PTL
=============================================================================
