------------------------------- MODULE Migrations -------------------------------
(***************************************************************************)
(* migrate.py: the start of a backend container applies the numbered SQL   *)
(* files its image ships and the database has not seen, and only then      *)
(* serves ("python migrate.py && uvicorn ...").                            *)
(*                                                                         *)
(* Several runs may overlap: a container that restarts, and one started by *)
(* hand with docker compose exec.  A run reads the applied files once,     *)
(* runs each missing file and its INSERT into schema_migrations in one     *)
(* transaction, and is ended by any error, after which docker restarts it. *)
(* Files are numbers in the order of their names.                          *)
(***************************************************************************)
EXTENDS Integers, Sequences

CONSTANTS
  Runs,        \* containers, and runs by hand
  LastFile,    \* number of files of the newest release
  Locking,     \* files whose SQL locks what another run of it would touch
  MaxFaults    \* bound on crashes and transient errors

ASSUME FilesAssumption == LastFile \in Nat /\ Locking \subseteq 1..LastFile
ASSUME FaultsAssumption == MaxFaults \in Nat

VARIABLES
  image,      \* the number of files shipped with the release of each run
  phase,      \* where main() stands
  at,         \* the file the loop is at
  already,    \* already_applied, as read
  table,      \* whether schema_migrations exists
  applied,    \* its rows: the files recorded
  log,        \* history: the files whose SQL was committed, in that order
  faults      \* crashes and transient errors so far

vars == <<image, phase, at, already, table, applied, log, faults>>

Phases == {"down", "connected", "creating", "created", "looping", "executed",
           "inserted", "serving"}
Files == 1..LastFile

Init ==
  /\ image \in [Runs -> 0..LastFile]
  /\ phase = [c \in Runs |-> "down"] /\ at = [c \in Runs |-> 1]
  /\ already = [c \in Runs |-> {}]
  /\ table = FALSE /\ applied = {} /\ log = << >>
  /\ faults = 0

Goes(c, p) == phase' = [phase EXCEPT ![c] = p]

(* psycopg2.connect; a run without files has nothing to do. *)
Connect(c) ==
  /\ phase[c] = "down"
  /\ Goes(c, IF image[c] = 0 THEN "serving" ELSE "connected")
  /\ UNCHANGED <<image, at, already, table, applied, log, faults>>

(* CREATE TABLE IF NOT EXISTS, in a transaction that is committed at once. *)
CreateTable(c) ==
  /\ phase[c] = "connected"
  /\ Goes(c, IF table THEN "created" ELSE "creating")
  /\ UNCHANGED <<image, at, already, table, applied, log, faults>>

CommitTable(c) ==
  /\ phase[c] = "creating" /\ ~table
  /\ table' = TRUE /\ Goes(c, "created")
  /\ UNCHANGED <<image, at, already, applied, log, faults>>

ReadApplied(c) ==
  /\ phase[c] = "created"
  /\ already' = [already EXCEPT ![c] = applied]
  /\ at' = [at EXCEPT ![c] = 1] /\ Goes(c, "looping")
  /\ UNCHANGED <<image, table, applied, log, faults>>

(* Variants, each a slip the code could contain. *)
SkippedNever(c) == FALSE
UnrecordedAlways(f) == TRUE
EndsSwallowed(c) ==
  /\ Goes(c, "serving")
  /\ UNCHANGED <<image, at, already, table, applied, log>>

(* The file is in already_applied. *)
Skipped(c) == at[c] \in already[c]

Skip(c) ==
  /\ phase[c] = "looping" /\ at[c] <= image[c] /\ Skipped(c)
  /\ at' = [at EXCEPT ![c] = @ + 1]
  /\ UNCHANGED <<image, phase, already, table, applied, log, faults>>

(* The SQL of the file runs in a transaction; its locks wait for another run of
   the same file. *)
InTransaction(c, f) == phase[c] \in {"executed", "inserted"} /\ at[c] = f

RunSql(c) ==
  /\ phase[c] = "looping" /\ at[c] <= image[c] /\ ~Skipped(c)
  /\ at[c] \in Locking => \A d \in Runs : ~InTransaction(d, at[c])
  /\ Goes(c, "executed")
  /\ UNCHANGED <<image, at, already, table, applied, log, faults>>

(* The primary key: an INSERT waits for another's uncommitted row of the file
   and fails when there is a committed one. *)
Unrecorded(f) == f \notin applied

Insert(c) ==
  /\ phase[c] = "executed" /\ Unrecorded(at[c])
  /\ ~\E d \in Runs : phase[d] = "inserted" /\ at[d] = at[c]
  /\ Goes(c, "inserted")
  /\ UNCHANGED <<image, at, already, table, applied, log, faults>>

Commit(c) ==
  /\ phase[c] = "inserted"
  /\ applied' = applied \union {at[c]} /\ log' = Append(log, at[c])
  /\ at' = [at EXCEPT ![c] = @ + 1] /\ Goes(c, "looping")
  /\ UNCHANGED <<image, already, table, faults>>

(* main() returns, and the shell goes on to uvicorn. *)
Served(c) == at[c] > image[c]

Serve(c) ==
  /\ phase[c] = "looping" /\ Served(c)
  /\ Goes(c, "serving")
  /\ UNCHANGED <<image, at, already, table, applied, log, faults>>

(* The run ends with its transaction rolled back; the container is restarted. *)
Ends(c) ==
  /\ Goes(c, "down")
  /\ UNCHANGED <<image, at, already, table, applied, log>>

(* Two runs that create the table at once: the second violates a unique index
   of the catalogue. *)
CreateFails(c) == phase[c] = "creating" /\ table /\ Ends(c) /\ UNCHANGED faults

InsertFails(c) ==
  /\ phase[c] = "executed" /\ ~Unrecorded(at[c])
  /\ Ends(c) /\ UNCHANGED faults

(* A crash, or an error of the connection or of the SQL. *)
Fault(c) ==
  /\ phase[c] # "down" /\ faults < MaxFaults
  /\ faults' = faults + 1
  /\ Ends(c)

(* Watchtower replaces a container by one of a newer release. *)
Deploy(c) ==
  /\ image[c] < LastFile
  /\ image' = [image EXCEPT ![c] = @ + 1] /\ Goes(c, "down")
  /\ UNCHANGED <<at, already, table, applied, log, faults>>

Step(c) ==
  \/ Connect(c) \/ CreateTable(c) \/ CommitTable(c) \/ CreateFails(c)
  \/ ReadApplied(c) \/ Skip(c) \/ RunSql(c) \/ Insert(c) \/ InsertFails(c)
  \/ Commit(c) \/ Serve(c)

Next == \E c \in Runs : Step(c) \/ Fault(c) \/ Deploy(c)

Spec == Init /\ [][Next]_vars

(* The database answers, a lock is granted when it is free, and docker restarts
   what ended ("restart: unless-stopped"). *)
FairSpec == Spec /\ \A c \in Runs : SF_vars(Step(c))
-----------------------------------------------------------------------------
TypeOK ==
  /\ image \in [Runs -> 0..LastFile] /\ phase \in [Runs -> Phases]
  /\ at \in [Runs -> 1..(LastFile + 1)]
  /\ already \in [Runs -> SUBSET Files] /\ applied \subseteq Files
  /\ table \in BOOLEAN
  /\ log \in Seq(Files) /\ faults \in 0..MaxFaults

(* migrate.py:8-9: a file is applied "exactly once, in order", whatever runs
   overlap, crash or are replaced: the files committed are the first ones, each
   once and in order, and they are the ones recorded. *)
OnceInOrder ==
  /\ \A i \in 1..Len(log) : log[i] = i
  /\ applied = 1..Len(log)

(* A server runs only on a database that has all the files of its release. *)
ServedMigrated ==
  \A c \in Runs : phase[c] = "serving" => 1..image[c] \subseteq applied

(* What a run knows: the files before the one it is at are applied, and the one
   whose row it has inserted is not. *)
LoopSound ==
  \A c \in Runs :
    /\ already[c] \subseteq applied
    /\ phase[c] \in {"looping", "executed", "inserted"} => 1..(at[c] - 1) \subseteq applied
    /\ phase[c] \in {"executed", "inserted"} => at[c] <= image[c]
    /\ phase[c] = "inserted" =>
         /\ at[c] \notin applied
         /\ \A d \in Runs \ {c} : phase[d] = "inserted" => at[d] # at[c]

(* The containers that serve, and what Migrations promises: whatever runs
   overlap, crash or are replaced, it is as if one file after the other were run at
   once by a container that has it, and containers served only after those of their
   release. *)
Up == {c \in Runs : phase[c] = "serving"}
Promise == INSTANCE Releases WITH shipped <- image, up <- Up, ran <- log
ReleasesKept == Promise!Spec

MigrationInv == TypeOK /\ OnceInOrder /\ ServedMigrated /\ LoopSound

(* Every container serves in the end, although runs that overlap make each
   other fail. *)
AllServe == \A c \in Runs : <>[](phase[c] = "serving")
=============================================================================
