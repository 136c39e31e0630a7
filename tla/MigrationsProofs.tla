---------------------------- MODULE MigrationsProofs ----------------------------
(***************************************************************************)
(* Proofs about Migrations, for any number of runs, files and faults.      *)
(* MigrationInv is inductive: LoopSound is what makes the file a run has   *)
(* inserted the next one of the log.                                       *)
(***************************************************************************)
EXTENDS Migrations, TLAPS

LEMMA InitEstablishes == Init => MigrationInv
<1> SUFFICES ASSUME Init PROVE MigrationInv OBVIOUS
<1> USE FilesAssumption, FaultsAssumption
<1>1. TypeOK
  <2>1. log \in Seq(Files) BY DEF Init
  <2>2. 1 \in 1..(LastFile + 1) /\ 0 \in 0..MaxFaults OBVIOUS
  <2>3. /\ phase \in [Runs -> Phases] /\ at \in [Runs -> 1..(LastFile + 1)]
        /\ already \in [Runs -> SUBSET Files]
    BY <2>2 DEF Init, Phases
  <2>4. QED BY <2>1, <2>2, <2>3 DEF Init, TypeOK
<1>2. OnceInOrder BY DEF Init, OnceInOrder
<1>3. ServedMigrated /\ LoopSound BY DEF Init, ServedMigrated, LoopSound
<1>4. QED BY <1>1, <1>2, <1>3 DEF MigrationInv

(* A step that leaves the rows alone and takes a run out of the loop. *)
LEMMA OutsideKeeps ==
  ASSUME MigrationInv, NEW c \in Runs,
         UNCHANGED <<at, already, applied, log>>,
         image' \in [Runs -> 0..LastFile], phase' \in [Runs -> Phases],
         phase'[c] \notin {"looping", "executed", "inserted", "serving"},
         \A d \in Runs \ {c} : phase'[d] = phase[d] /\ image'[d] = image[d],
         table' \in BOOLEAN, faults' \in 0..MaxFaults
  PROVE  MigrationInv'
<1>1. TypeOK' BY DEF MigrationInv, TypeOK
<1>2. OnceInOrder' BY DEF MigrationInv, OnceInOrder
<1>3. ServedMigrated' BY DEF MigrationInv, ServedMigrated
<1>4. LoopSound' BY DEF MigrationInv, LoopSound
<1>5. QED BY <1>1, <1>2, <1>3, <1>4 DEF MigrationInv

LEMMA GoingTypes ==
  ASSUME TypeOK, NEW c \in Runs, NEW p \in Phases, Goes(c, p)
  PROVE  /\ phase' \in [Runs -> Phases] /\ phase'[c] = p
         /\ \A d \in Runs \ {c} : phase'[d] = phase[d]
BY DEF TypeOK, Goes

LEMMA OutsideSteps ==
  ASSUME MigrationInv, NEW c \in Runs,
         CreateTable(c) \/ CommitTable(c) \/ CreateFails(c) \/ InsertFails(c)
           \/ Fault(c) \/ Deploy(c)
  PROVE  MigrationInv'
<1>0. TypeOK /\ {"down", "created", "creating"} \subseteq Phases BY DEF MigrationInv, Phases
<1>1. CASE CreateTable(c)
  <2>1. PICK p \in {"created", "creating"} : Goes(c, p) BY <1>1 DEF CreateTable
  <2>2. QED BY <1>0, <1>1, <2>1, GoingTypes, OutsideKeeps DEF CreateTable, TypeOK
<1>2. CASE CommitTable(c)
  BY <1>0, <1>2, GoingTypes, OutsideKeeps DEF CommitTable, TypeOK
<1>3. CASE CreateFails(c) \/ InsertFails(c)
  <2>1. Goes(c, "down") /\ UNCHANGED <<image, at, already, table, applied, log, faults>>
    BY <1>3 DEF CreateFails, InsertFails, Ends
  <2>2. QED BY <1>0, <2>1, GoingTypes, OutsideKeeps DEF TypeOK
<1>4. CASE Fault(c)
  <2>1. faults' \in 0..MaxFaults BY <1>4, FaultsAssumption DEF Fault, MigrationInv, TypeOK
  <2>2. Goes(c, "down") /\ UNCHANGED <<image, at, already, table, applied, log>>
    BY <1>4 DEF Fault, Ends
  <2>3. QED BY <1>0, <2>1, <2>2, GoingTypes, OutsideKeeps DEF TypeOK
<1>5. CASE Deploy(c)
  <2>1. /\ image' \in [Runs -> 0..LastFile]
        /\ \A d \in Runs \ {c} : image'[d] = image[d]
    BY <1>0, <1>5, FilesAssumption DEF Deploy, TypeOK
  <2>2. Goes(c, "down") /\ UNCHANGED <<at, already, table, applied, log, faults>>
    BY <1>5 DEF Deploy
  <2>3. QED BY <1>0, <2>1, <2>2, GoingTypes, OutsideKeeps DEF TypeOK
<1>6. QED BY <1>1, <1>2, <1>3, <1>4, <1>5

LEMMA ConnectKeeps ==
  ASSUME MigrationInv, NEW c \in Runs, Connect(c)
  PROVE  MigrationInv'
<1>1. TypeOK' BY DEF Connect, Goes, MigrationInv, TypeOK, Phases
<1>2. OnceInOrder' BY DEF Connect, MigrationInv, OnceInOrder
<1>3. ServedMigrated' BY FilesAssumption DEF Connect, Goes, MigrationInv, ServedMigrated, TypeOK
<1>4. LoopSound' BY DEF Connect, Goes, MigrationInv, LoopSound, TypeOK
<1>5. QED BY <1>1, <1>2, <1>3, <1>4 DEF MigrationInv

LEMMA ReadAppliedKeeps ==
  ASSUME MigrationInv, NEW c \in Runs, ReadApplied(c)
  PROVE  MigrationInv'
<1>1. TypeOK'
  BY FilesAssumption DEF ReadApplied, Goes, MigrationInv, TypeOK, Phases, Files
<1>2. OnceInOrder' BY DEF ReadApplied, MigrationInv, OnceInOrder
<1>3. ServedMigrated' BY DEF ReadApplied, Goes, MigrationInv, ServedMigrated, TypeOK
<1>4. LoopSound' BY DEF ReadApplied, Goes, MigrationInv, LoopSound, TypeOK
<1>5. QED BY <1>1, <1>2, <1>3, <1>4 DEF MigrationInv

LEMMA SkipKeeps ==
  ASSUME MigrationInv, NEW c \in Runs, Skip(c)
  PROVE  MigrationInv'
<1>0. at[c] \in Int /\ image[c] \in 0..LastFile /\ LastFile \in Nat /\ at[c] \in applied
  BY FilesAssumption DEF MigrationInv, TypeOK, LoopSound, Skip, Skipped
<1>1. TypeOK' BY <1>0 DEF Skip, MigrationInv, TypeOK
<1>2. OnceInOrder' BY DEF Skip, MigrationInv, OnceInOrder
<1>3. ServedMigrated' BY DEF Skip, MigrationInv, ServedMigrated
<1>4. LoopSound'
  <2>1. 1..(at'[c] - 1) \subseteq applied
    BY <1>0 DEF Skip, MigrationInv, LoopSound, TypeOK
  <2>2. \A d \in Runs \ {c} : at'[d] = at[d] BY DEF Skip, MigrationInv, TypeOK
  <2>3. QED BY <2>1, <2>2 DEF Skip, MigrationInv, LoopSound
<1>5. QED BY <1>1, <1>2, <1>3, <1>4 DEF MigrationInv

(* Running the SQL and inserting the row. *)
LEMMA TransactionKeeps ==
  ASSUME MigrationInv, NEW c \in Runs, RunSql(c) \/ Insert(c)
  PROVE  MigrationInv'
<1>0. /\ UNCHANGED <<image, at, already, table, applied, log, faults>>
      /\ phase'[c] \in {"executed", "inserted"} /\ phase[c] \in {"looping", "executed"}
      /\ \A d \in Runs \ {c} : phase'[d] = phase[d]
      /\ phase' \in [Runs -> Phases]
  BY DEF RunSql, Insert, Goes, MigrationInv, TypeOK, Phases
<1>1. TypeOK' BY <1>0 DEF MigrationInv, TypeOK
<1>2. OnceInOrder' BY <1>0 DEF MigrationInv, OnceInOrder
<1>3. ServedMigrated' BY <1>0 DEF MigrationInv, ServedMigrated
<1>4. LoopSound'
  <2>1. at[c] <= image[c] BY DEF RunSql, Insert, MigrationInv, LoopSound
  <2>2. phase'[c] = "inserted" =>
          /\ at[c] \notin applied
          /\ \A d \in Runs \ {c} : phase[d] = "inserted" => at[d] # at[c]
    BY DEF RunSql, Insert, Goes, Unrecorded, MigrationInv, TypeOK
  <2>3. QED BY <1>0, <2>1, <2>2 DEF MigrationInv, LoopSound
<1>5. QED BY <1>1, <1>2, <1>3, <1>4 DEF MigrationInv

(* The file a run commits is the next one. *)
LEMMA CommitsNext ==
  ASSUME MigrationInv, NEW c \in Runs, Commit(c)
  PROVE  at[c] = Len(log) + 1 /\ at[c] <= image[c]
<1>0. /\ at[c] \in Files /\ at[c] <= image[c] /\ LastFile \in Nat /\ Len(log) \in Nat
  BY FilesAssumption DEF MigrationInv, TypeOK, LoopSound, Commit, Files
<1>1. at[c] \notin 1..Len(log) /\ 1..(at[c] - 1) \subseteq 1..Len(log)
  BY DEF Commit, MigrationInv, OnceInOrder, LoopSound
<1>2. at[c] \in Nat /\ at[c] >= 1 BY <1>0 DEF Files
<1>3. at[c] > Len(log) BY <1>0, <1>1, <1>2
<1>4. at[c] - 1 <= Len(log)
  <2>1. CASE at[c] = 1 BY <1>0, <2>1
  <2>2. CASE at[c] > 1
    <3>1. at[c] - 1 \in 1..(at[c] - 1) BY <1>2, <2>2
    <3>2. QED BY <1>0, <1>1, <3>1
  <2>3. QED BY <1>2, <2>1, <2>2
<1>5. QED BY <1>0, <1>2, <1>3, <1>4

LEMMA CommitKeeps ==
  ASSUME MigrationInv, NEW c \in Runs, Commit(c)
  PROVE  MigrationInv'
<1>0. /\ at[c] \in Files /\ at[c] <= LastFile /\ LastFile \in Nat /\ Len(log) \in Nat
      /\ log \in Seq(Files)
  BY FilesAssumption DEF MigrationInv, TypeOK, LoopSound, Commit, Files
<1>1. at[c] = Len(log) + 1 BY CommitsNext
<1>2. /\ log' = Append(log, at[c]) /\ Len(log') = Len(log) + 1
      /\ applied' = applied \union {at[c]}
      /\ \A i \in 1..Len(log) : log'[i] = log[i]
      /\ log'[Len(log) + 1] = at[c]
  BY <1>0 DEF Commit
<1>3. /\ at' \in [Runs -> 1..(LastFile + 1)] /\ at'[c] = at[c] + 1
      /\ \A d \in Runs \ {c} : at'[d] = at[d] /\ phase'[d] = phase[d]
      /\ phase'[c] = "looping" /\ phase' \in [Runs -> Phases]
  BY <1>0 DEF Commit, Goes, MigrationInv, TypeOK, Phases, Files
<1>4. TypeOK'
  BY <1>0, <1>2, <1>3 DEF Commit, MigrationInv, TypeOK
<1>5. OnceInOrder'
  BY <1>0, <1>1, <1>2 DEF MigrationInv, OnceInOrder
<1>6. ServedMigrated'
  BY <1>2, <1>3 DEF Commit, MigrationInv, ServedMigrated
<1>7. LoopSound'
  <2>1. 1..(at'[c] - 1) \subseteq applied'
    BY <1>0, <1>1, <1>2, <1>3 DEF MigrationInv, OnceInOrder, Files
  <2>2. \A d \in Runs \ {c} : phase[d] = "inserted" => at[d] # at[c]
    BY DEF Commit, MigrationInv, LoopSound
  <2>3. QED BY <1>2, <1>3, <2>1, <2>2 DEF Commit, MigrationInv, LoopSound
<1>8. QED BY <1>4, <1>5, <1>6, <1>7 DEF MigrationInv

LEMMA ServeKeeps ==
  ASSUME MigrationInv, NEW c \in Runs, Serve(c)
  PROVE  MigrationInv'
<1>0. /\ UNCHANGED <<image, at, already, table, applied, log, faults>>
      /\ phase'[c] = "serving" /\ \A d \in Runs \ {c} : phase'[d] = phase[d]
      /\ phase' \in [Runs -> Phases]
  BY DEF Serve, Goes, MigrationInv, TypeOK, Phases
<1>1. TypeOK' BY <1>0 DEF MigrationInv, TypeOK
<1>2. OnceInOrder' BY <1>0 DEF MigrationInv, OnceInOrder
<1>3. ServedMigrated'
  <2>1. 1..image[c] \subseteq applied
    BY FilesAssumption DEF Serve, Served, MigrationInv, LoopSound, TypeOK
  <2>2. QED BY <1>0, <2>1 DEF MigrationInv, ServedMigrated
<1>4. LoopSound' BY <1>0 DEF MigrationInv, LoopSound
<1>5. QED BY <1>1, <1>2, <1>3, <1>4 DEF MigrationInv

LEMMA NextKeeps == MigrationInv /\ [Next]_vars => MigrationInv'
<1> SUFFICES ASSUME MigrationInv, [Next]_vars PROVE MigrationInv' OBVIOUS
<1>1. ASSUME NEW c \in Runs, Step(c) \/ Fault(c) \/ Deploy(c) PROVE MigrationInv'
  BY <1>1, OutsideSteps, ConnectKeeps, ReadAppliedKeeps, SkipKeeps, TransactionKeeps,
     CommitKeeps, ServeKeeps DEF Step
<1>2. CASE UNCHANGED vars
  BY <1>2 DEF vars, MigrationInv, TypeOK, OnceInOrder, ServedMigrated, LoopSound
<1>3. QED BY <1>1, <1>2 DEF Next

(* Whatever runs overlap, crash or are replaced, the files committed are the
   first ones, each once and in order, and they are the ones recorded. *)
THEOREM MigrationInvariance == Spec => []MigrationInv
<1>1. Init => MigrationInv BY InitEstablishes
<1>2. MigrationInv /\ [Next]_vars => MigrationInv' BY NextKeeps
<1>3. QED BY <1>1, <1>2, PTL DEF Spec

(* No server runs on a database that lacks a file of its release. *)
THEOREM ServedMigratedAlways == Spec => []ServedMigrated
<1>1. MigrationInv => ServedMigrated BY DEF MigrationInv
<1>2. QED BY <1>1, MigrationInvariance, PTL

(* A step that changes no release, no file and not who serves. *)
LEMMA QuietStutters ==
  ASSUME UNCHANGED <<image, log>>, NEW c \in Runs, NEW p \in Phases \ {"serving"},
         phase \in [Runs -> Phases], phase[c] # "serving", Goes(c, p)
  PROVE  UNCHANGED Promise!vars
<1>1. Up' = Up BY DEF Up, Goes
<1>2. QED BY <1>1 DEF Promise!vars

(* What each step of a run is to a reader of the promise: a commit is a Migrate, the
   end of the loop a Start, the end of a container a Stop. *)
LEMMA NextSimulates == MigrationInv /\ [Next]_vars => [Promise!Next]_Promise!vars
<1> SUFFICES ASSUME MigrationInv, [Next]_vars PROVE [Promise!Next]_Promise!vars OBVIOUS
<1>0. /\ phase \in [Runs -> Phases] /\ image \in [Runs -> 0..LastFile]
      /\ log \in Seq(Files) /\ Len(log) \in Nat /\ LastFile \in Nat
  BY FilesAssumption DEF MigrationInv, TypeOK
<1>1. ASSUME NEW c \in Runs,
             \/ CreateTable(c) \/ CommitTable(c) \/ CreateFails(c) \/ ReadApplied(c)
             \/ Skip(c) \/ RunSql(c) \/ Insert(c) \/ InsertFails(c)
      PROVE  UNCHANGED Promise!vars
  <2>1. CASE Skip(c)
    BY <2>1 DEF Skip, Up, Promise!vars
  <2>2. CASE ~Skip(c)
    <3>1. UNCHANGED <<image, log>> /\ phase[c] # "serving"
      BY <1>1, <2>2 DEF CreateTable, CommitTable, CreateFails, ReadApplied, RunSql, Insert,
                        InsertFails, Ends
    <3>2. PICK p \in Phases \ {"serving"} : Goes(c, p)
      BY <1>1, <2>2 DEF CreateTable, CommitTable, CreateFails, ReadApplied, RunSql, Insert,
                        InsertFails, Ends, Phases
    <3>3. QED BY <1>0, <3>1, <3>2, QuietStutters
  <2>3. QED BY <2>1, <2>2
<1>2. ASSUME NEW c \in Runs, Connect(c) \/ Serve(c)
      PROVE  [Promise!Start(c)]_Promise!vars
  <2>1. CASE Connect(c) /\ image[c] # 0
    BY <1>0, <2>1, QuietStutters DEF Connect, Phases
  <2>2. CASE Serve(c) \/ image[c] = 0
    <3>1. UNCHANGED <<image, log>> /\ Goes(c, "serving")
      BY <1>2, <2>2 DEF Connect, Serve
    <3>2. Up' = Up \union {c}
      BY <1>0, <3>1 DEF Up, Goes
    <3>3. image[c] <= Len(log)
      <4>1. CASE image[c] = 0 BY <1>0, <4>1
      <4>2. CASE Serve(c) /\ image[c] # 0
        <5>1. 1..image[c] \subseteq 1..Len(log)
          BY <4>2, FilesAssumption
             DEF Serve, Served, MigrationInv, LoopSound, TypeOK, OnceInOrder
        <5>2. image[c] \in 1..image[c] BY <1>0, <4>2
        <5>3. QED BY <1>0, <5>1, <5>2
      <4>3. QED BY <2>2, <4>1, <4>2
    <3>4. QED BY <3>1, <3>2, <3>3 DEF Promise!Start
  <2>3. QED BY <1>2, <2>1, <2>2
<1>3. ASSUME NEW c \in Runs, Commit(c) PROVE Promise!Migrate(c)
  <2>1. at[c] = Len(log) + 1 /\ at[c] <= image[c] BY <1>3, CommitsNext
  <2>2. Up' = Up /\ c \notin Up BY <1>0, <1>3 DEF Commit, Goes, Up
  <2>3. Len(log) < image[c] BY <1>0, <2>1
  <2>4. QED BY <1>3, <2>1, <2>2, <2>3 DEF Commit, Promise!Migrate
<1>4. ASSUME NEW c \in Runs, Fault(c) PROVE Promise!Stop(c)
  <2>1. Up' = Up \ {c} BY <1>0, <1>4 DEF Fault, Ends, Goes, Up
  <2>2. QED BY <1>4, <2>1 DEF Fault, Ends, Promise!Stop
<1>5. ASSUME NEW c \in Runs, Deploy(c) PROVE Promise!Release(c)
  <2>1. Up' = Up \ {c} BY <1>0, <1>5 DEF Deploy, Goes, Up
  <2>2. QED BY <1>5, <2>1 DEF Deploy, Promise!Release
<1>6. CASE UNCHANGED vars BY <1>6 DEF vars, Up, Promise!vars
<1>7. QED
  BY <1>1, <1>2, <1>3, <1>4, <1>5, <1>6 DEF Next, Step, Promise!Next

(* Migrations implements Releases: however runs overlap, crash, retry and are
   replaced, the files go through one by one, each once and in order, and a
   container serves only after those of its release. *)
THEOREM MigrationsRefine == Spec => ReleasesKept
<1>1. Init => Promise!Init BY DEF Init, Up, Promise!Init
<1>2. MigrationInv /\ [Next]_vars => [Promise!Next]_Promise!vars BY NextSimulates
<1>3. QED BY <1>1, <1>2, MigrationInvariance, PTL DEF Spec, ReleasesKept, Promise!Spec
=============================================================================
