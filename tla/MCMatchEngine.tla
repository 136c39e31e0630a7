---------------------------- MODULE MCMatchEngine ----------------------------
(***************************************************************************)
(* Small instances of MatchEngine for TLC.                                 *)
(***************************************************************************)
EXTENDS MatchEngine, TLC

CONSTANTS a, b, c, r1, r2

Everyone(u) == {Users \ {u}}
AnyTaste == [u \in Users |-> Everyone(u)]
FickleTaste == [u \in Users |-> Everyone(u) \union {{}}]
OneSided == [u \in Users |-> IF u = a THEN {{b, c}} ELSE IF u = b THEN {{a}} ELSE {{}}]
AllEdges == Edges
NoEdges == {}

RequestSymmetry == Permutations(Requests)
=============================================================================
