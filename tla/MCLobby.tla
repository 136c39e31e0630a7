------------------------------- MODULE MCLobby -------------------------------
(***************************************************************************)
(* Three users, of whom a fits both others, and a socket each; in some     *)
(* runs a user opens a second one.                                         *)
(***************************************************************************)
EXTENDS Lobby, TLC

CONSTANTS a, b, c, a1, a2, b1, c1

OneEach == a1 :> a @@ b1 :> b @@ c1 :> c
BackA == a1 :> a @@ a2 :> a @@ b1 :> b @@ c1 :> c
ReopenedByA == a1 :> a @@ a2 :> a @@ b1 :> b
=============================================================================
