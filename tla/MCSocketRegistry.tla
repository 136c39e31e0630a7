-------------------------- MODULE MCSocketRegistry --------------------------
(***************************************************************************)
(* Two users, one of whom opens up to three sockets.                       *)
(***************************************************************************)
EXTENDS SocketRegistry, TLC

CONSTANTS a, b, a1, a2, a3, b1, b2

ThreeAndTwo == a1 :> a @@ a2 :> a @@ a3 :> a @@ b1 :> b @@ b2 :> b
=============================================================================
