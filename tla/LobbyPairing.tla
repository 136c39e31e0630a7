----------------------------- MODULE LobbyPairing -----------------------------
(***************************************************************************)
(* The pairing loop of get_lobby_users: users are taken in a random order, *)
(* and each one not yet matched is matched with the first unmatched user   *)
(* of the same order who fits.  Every result is a maximal matching, which  *)
(* is all that module Lobby assumes of it.                                 *)
(***************************************************************************)
EXTENDS Integers, Sequences, FiniteSets

CONSTANT Present     \* users in the lobby with an interested_gender preference

ASSUME PresentFinite == IsFiniteSet(Present)

VARIABLES
  fits,       \* pairs with mutual preference and no match row or chat
  order,      \* user_ids after the shuffle
  position,   \* how many uid_1 the outer loop has finished
  matches     \* the couples found so far

pairingVars == <<fits, order, position, matches>>

Pairable == {e \in SUBSET Present : \E u, v \in Present : u # v /\ e = {u, v}}

Matched(u) == \E e \in matches : u \in e

(* Variants, each a slip the code could contain. *)
FitsForMatchedToo(u) == {j \in 1..Len(order) : order[j] # u /\ {u, order[j]} \in fits}
FitsForLater(u) ==
  {j \in position + 3 .. Len(order) : ~Matched(order[j]) /\ {u, order[j]} \in fits}

(* The users the inner loop accepts for u, as positions in the order. *)
FitsFor(u) ==
  {j \in 1..Len(order) :
     order[j] # u /\ ~Matched(order[j]) /\ {u, order[j]} \in fits}

PairingInit ==
  /\ fits \in SUBSET Pairable
  /\ order \in {s \in [1..Cardinality(Present) -> Present] :
                  \A u \in Present : \E i \in DOMAIN s : s[i] = u}
  /\ position = 0 /\ matches = {}

(* One turn of the outer loop. *)
PairNext ==
  /\ position < Len(order)
  /\ position' = position + 1
  /\ LET u == order[position + 1]
         found == FitsFor(u)
     IN \/ /\ Matched(u) \/ found = {}
           /\ matches' = matches
        \/ /\ ~Matched(u)
           /\ \E j \in found :
                /\ \A i \in found : j <= i
                /\ matches' = matches \union {{u, order[j]}}
  /\ UNCHANGED <<fits, order>>

PairingSpec == PairingInit /\ [][PairNext]_pairingVars
-----------------------------------------------------------------------------
PairingTypeOK ==
  /\ fits \subseteq Pairable /\ matches \subseteq Pairable
  /\ order \in Seq(Present)
  /\ \A u \in Present : \E i \in 1..Len(order) : order[i] = u
  /\ position \in 0..Len(order)

(* Couples fit, and nobody is in two of them. *)
IsMatching ==
  /\ matches \subseteq fits
  /\ \A e, f \in matches : e # f => e \intersect f = {}

(* When the loop ends, no two users who fit are both left over, whatever the
   shuffle. *)
IsMaximal ==
  position = Len(order) => \A e \in fits : \E f \in matches : e \intersect f # {}

(* A user the loop has passed unmatched has nobody left to fit. *)
PassedOver ==
  \A i \in 1..position : Matched(order[i]) \/ FitsFor(order[i]) = {}

PairingInv == PairingTypeOK /\ IsMatching /\ PassedOver
=============================================================================
