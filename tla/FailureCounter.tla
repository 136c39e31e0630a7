---------------------------- MODULE FailureCounter ----------------------------
(***************************************************************************)
(* The limit on the failed logins of one address, as one counter with a    *)
(* remaining life, changed by whole logins.  LoginAttempts implements it   *)
(* with its two calls of Redis, between which a process may die; Accounts  *)
(* keeps one for every address.                                            *)
(***************************************************************************)
EXTENDS LoginLimit

VARIABLES count, life   \* life: 0 when there is none, and the count stays

vars == <<count, life>>

Init == count = 0 /\ life = 0

UnderLimit == count < MaxAttempts

(* The first failure begins a window, which may be lost; later ones leave it as
   it is. *)
Fail ==
  /\ UnderLimit
  /\ count' = count + 1
  /\ IF count = 0 THEN life' \in {Window, 0} ELSE life' = life

Succeed ==
  /\ UnderLimit
  /\ count' = 0 /\ life' = 0

(* A tick; the count goes with its window. *)
Pass ==
  /\ life > 0
  /\ life' = life - 1
  /\ count' = IF life = 1 THEN 0 ELSE count

Next == Fail \/ Succeed \/ Pass

Spec == Init /\ [][Next]_vars
=============================================================================
