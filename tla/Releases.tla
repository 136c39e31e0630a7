------------------------------- MODULE Releases -------------------------------
(***************************************************************************)
(* What the start of a backend container promises, with no connections,    *)
(* transactions or rows in sight: the database goes through the numbered   *)
(* files one by one, and a container serves only when the database has     *)
(* come as far as its release.  Migrations implements it.                  *)
(***************************************************************************)
EXTENDS Integers, Sequences

CONSTANTS Runs, LastFile

VARIABLES
  shipped,     \* the number of files in the release of each container
  up,          \* containers that serve
  ran          \* the files the database has gone through

vars == <<shipped, up, ran>>

Init == shipped \in [Runs -> 0..LastFile] /\ up = {} /\ ran = << >>

(* A container that does not serve yet, and has the next file, runs it. *)
Migrate(c) ==
  /\ c \notin up /\ Len(ran) < shipped[c]
  /\ ran' = Append(ran, Len(ran) + 1)
  /\ UNCHANGED <<shipped, up>>

Start(c) ==
  /\ shipped[c] <= Len(ran)
  /\ up' = up \union {c}
  /\ UNCHANGED <<shipped, ran>>

Stop(c) ==
  /\ up' = up \ {c}
  /\ UNCHANGED <<shipped, ran>>

(* The next release takes the place of a container. *)
Release(c) ==
  /\ shipped[c] < LastFile
  /\ shipped' = [shipped EXCEPT ![c] = @ + 1]
  /\ up' = up \ {c}
  /\ UNCHANGED ran

Next == \E c \in Runs : Migrate(c) \/ Start(c) \/ Stop(c) \/ Release(c)

Spec == Init /\ [][Next]_vars
=============================================================================
