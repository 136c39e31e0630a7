------------------------- MODULE SocketRegistryProofs -------------------------
(***************************************************************************)
(* For any number of users and sockets, the dictionary of active           *)
(* connections is as accurate as RegistryAccurate says.                    *)
(***************************************************************************)
EXTENDS SocketRegistry, TLAPS

RegistryInv == RegistryTypeOK /\ RegistryAccurate

(* No socket is served before the first Accept. *)
LEMMA RegistryInitInv == RegistryInit => RegistryInv
  BY NoSocketAssumption
     DEF RegistryInit, RegistryInv, RegistryTypeOK, RegistryAccurate, EntryAccurate, Endpoints, Serving

(* Accepting a socket enters it, and notes a user who is served already. *)
LEMMA AcceptInv ==
  ASSUME RegistryInv, NEW s \in Sockets, Accept(s)
  PROVE  RegistryInv'
<1> USE OwnerAssumption, NoSocketAssumption DEF RegistryInv
<1>1. RegistryTypeOK'
  BY DEF Accept, RegisteredWith, RegistryTypeOK, Endpoints
<1>2. RegistryAccurate'
  <2> SUFFICES ASSUME NEW u \in Users PROVE EntryAccurate(u)'
    BY DEF RegistryAccurate
  <2>1. CASE u = Owner[s]
    BY <2>1 DEF Accept, RegisteredWith, RegistryTypeOK, Serving, RegistryAccurate, EntryAccurate
  <2>2. CASE u # Owner[s]
    <3>1. registry'[u] = registry[u]
      BY <2>2 DEF Accept, RegisteredWith, RegistryTypeOK
    <3>2. overlapped \subseteq overlapped' /\ faulted' = faulted
      BY DEF Accept
    <3>3. \A t \in Sockets : t # s => (Serving(t)' <=> Serving(t))
      BY DEF Accept, Serving, RegistryTypeOK
    <3>4. registry[u] # s
      BY <2>2 DEF RegistryAccurate, EntryAccurate
    <3> QED BY <2>2, <3>1, <3>2, <3>3, <3>4 DEF RegistryAccurate, EntryAccurate, RegistryTypeOK, Serving
  <2> QED BY <2>1, <2>2
<1> QED BY <1>1, <1>2

(* A coroutine that ends by another exception leaves its entry and is noted. *)
LEMMA FaultInv ==
  ASSUME RegistryInv, NEW s \in Sockets, Fault(s)
  PROVE  RegistryInv'
<1> USE OwnerAssumption, NoSocketAssumption DEF RegistryInv
<1>1. RegistryTypeOK'
  BY DEF Fault, RegistryTypeOK, Endpoints
<1>2. \A t \in Sockets : t # s => (Serving(t)' <=> Serving(t))
  BY DEF Fault, Serving, RegistryTypeOK
<1>3. ~Serving(s)' /\ s \in faulted' /\ faulted \subseteq faulted'
  BY DEF Fault, Serving, RegistryTypeOK
<1>4. registry' = registry /\ overlapped' = overlapped
  BY DEF Fault
<1>5. RegistryAccurate'
  BY <1>2, <1>3, <1>4 DEF RegistryAccurate, EntryAccurate, RegistryTypeOK, Serving
<1> QED BY <1>1, <1>5

(* A disconnect pops the entry of the socket's owner, whichever socket it holds. *)
LEMMA DisconnectedInv ==
  ASSUME RegistryInv, NEW s \in Sockets, Disconnected(s)
  PROVE  RegistryInv'
<1> USE OwnerAssumption, NoSocketAssumption DEF RegistryInv
<1>1. RegistryTypeOK'
  BY DEF Disconnected, Unregistered, RegistryTypeOK, Endpoints
<1>2. \A t \in Sockets : t # s => (Serving(t)' <=> Serving(t))
  BY DEF Disconnected, Serving, RegistryTypeOK
<1>3. Serving(s) /\ ~Serving(s)'
  BY DEF Disconnected, Serving, RegistryTypeOK
<1>4. faulted' = faulted /\ overlapped' = overlapped
  BY DEF Disconnected
<1>5. registry'[Owner[s]] = NoSocket
  BY DEF Disconnected, Unregistered, RegistryTypeOK
<1>6. \A u \in Users : u # Owner[s] => registry'[u] = registry[u]
  BY DEF Disconnected, Unregistered, RegistryTypeOK
<1>7. RegistryAccurate'
  <2> SUFFICES ASSUME NEW u \in Users PROVE EntryAccurate(u)'
    BY DEF RegistryAccurate
  <2>1. CASE u = Owner[s]
    BY <2>1, <1>2, <1>3, <1>4, <1>5 DEF RegistryAccurate, EntryAccurate
  <2>2. CASE u # Owner[s]
    <3>1. registry[u] # s
      BY <2>2 DEF RegistryAccurate, EntryAccurate
    <3> QED BY <2>2, <3>1, <1>2, <1>3, <1>4, <1>6 DEF RegistryAccurate, EntryAccurate, RegistryTypeOK, Serving
  <2> QED BY <2>1, <2>2
<1> QED BY <1>1, <1>7

(* Steps that keep who is served keep the invariant. *)
LEMMA SameServiceInv ==
  ASSUME RegistryInv, RegistryTypeOK', UNCHANGED <<registry, faulted, overlapped>>,
         \A t \in Sockets : Serving(t)' <=> Serving(t)
  PROVE  RegistryInv'
  BY NoSocketAssumption DEF RegistryInv, RegistryAccurate, EntryAccurate, RegistryTypeOK, Serving

(* A killed process leaves nobody served and no entry. *)
LEMMA ProcessKilledInv ==
  ASSUME RegistryInv, ProcessKilled
  PROVE  RegistryInv'
<1>1. \A s \in Sockets : ~Serving(s)'
  BY DEF ProcessKilled, RegistryInv, RegistryTypeOK, Serving
<1>2. RegistryTypeOK'
  BY DEF ProcessKilled, RegistryInv, RegistryTypeOK, Endpoints
<1>3. RegistryAccurate'
  BY <1>1 DEF ProcessKilled, RegistryAccurate, EntryAccurate
<1> QED BY <1>2, <1>3 DEF RegistryInv

(* Every step of an endpoint, a client or the process keeps the invariant. *)
LEMMA RegistryNextInv == RegistryInv /\ [RegistryNext]_socketVars => RegistryInv'
<1> SUFFICES ASSUME RegistryInv, [RegistryNext]_socketVars PROVE RegistryInv'
  OBVIOUS
<1>1. ASSUME NEW s \in Sockets, Accept(s) PROVE RegistryInv'
  BY <1>1, AcceptInv
<1>2. ASSUME NEW s \in Sockets, Greet(s) PROVE RegistryInv'
  <2>1. RegistryTypeOK'
    BY <1>2 DEF Greet, RegistryInv, RegistryTypeOK, Endpoints
  <2>2. \A t \in Sockets : Serving(t)' <=> Serving(t)
    BY <1>2 DEF Greet, Serving, RegistryInv, RegistryTypeOK
  <2> QED BY <1>2, <2>1, <2>2, SameServiceInv DEF Greet
<1>3. ASSUME NEW s \in Sockets, GreetFails(s) PROVE RegistryInv'
  BY <1>3, FaultInv DEF GreetFails
<1>4. ASSUME NEW s \in Sockets, BadFrame(s) PROVE RegistryInv'
  BY <1>4, FaultInv DEF BadFrame
<1>5. ASSUME NEW s \in Sockets, Disconnected(s) PROVE RegistryInv'
  BY <1>5, DisconnectedInv
<1>6. ASSUME NEW s \in Sockets, ClientLeaves(s) PROVE RegistryInv'
  <2>1. RegistryTypeOK'
    BY <1>6 DEF ClientLeaves, RegistryInv, RegistryTypeOK
  <2>2. \A t \in Sockets : Serving(t)' <=> Serving(t)
    BY <1>6 DEF ClientLeaves, Serving
  <2> QED BY <1>6, <2>1, <2>2, SameServiceInv DEF ClientLeaves
<1>7. CASE UNCHANGED socketVars
  BY <1>7 DEF socketVars, RegistryInv, RegistryTypeOK, RegistryAccurate, EntryAccurate, Serving
<1>8. CASE ProcessKilled
  BY <1>8, ProcessKilledInv
<1> QED BY <1>1, <1>2, <1>3, <1>4, <1>5, <1>6, <1>7, <1>8 DEF RegistryNext

(* The dictionary of each websocket endpoint stays well-typed and accurate. *)
THEOREM RegistryInvariance == RegistrySafety => []RegistryInv
<1> QED BY RegistryInitInv, RegistryNextInv, PTL DEF RegistrySafety

(* For any users and sockets: the dictionary finds every user that is served and
   only such users, but for coroutines ended by other exceptions and for users
   who were served twice at once. *)
THEOREM RegistryAccurateAlways == RegistrySpec => []RegistryAccurate
<1>1. RegistryInv => RegistryAccurate
  BY DEF RegistryInv
<1> QED BY <1>1, RegistryInvariance, PTL DEF RegistrySpec
=============================================================================
