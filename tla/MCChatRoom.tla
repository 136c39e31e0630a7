------------------------------ MODULE MCChatRoom ------------------------------
(***************************************************************************)
(* Two participants, x with one or two sockets and messages m1 and m2, y   *)
(* with one socket and message n1.                                         *)
(***************************************************************************)
EXTENDS ChatRoom, TLC

CONSTANTS x, y, x1, x2, y1, m1, m2, n1

OneEach == x1 :> x @@ y1 :> y
ReopenedByX == x1 :> x @@ x2 :> x @@ y1 :> y
Authors == m1 :> x @@ m2 :> x @@ n1 :> y
XThenY == m1 :> x @@ n1 :> y
OnlyX == m1 :> x @@ m2 :> x
Pair == x :> y @@ y :> x
=============================================================================
