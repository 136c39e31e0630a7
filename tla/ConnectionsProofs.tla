--------------------------- MODULE ConnectionsProofs ---------------------------
(***************************************************************************)
(* Proofs about Connections, for pools of any size and any number of       *)
(* requests: ConnSafe is inductive once it is known where in its program a  *)
(* request with uncommitted writes stands (WritersCommit).                 *)
(***************************************************************************)
EXTENDS Connections, FiniteSetTheorems, TLAPS

Operations ==
  {Get, Commit, Put, Send, Lease, Sign, Release}
    \union {<<o, t>> : o \in {"read", "write", "query", "update"}, t \in Tables}

(* A program is well formed, and a write in it is followed by another write or
   by a commit: no handler is suspended between a write and its commit. *)
Sound(p) ==
  /\ p \in Seq(Operations) /\ Len(p) >= 1
  /\ \A i \in 1..Len(p) :
       p[i][1] = "write" => i < Len(p) /\ p[i + 1][1] \in {"write", "commit"}

-----------------------------------------------------------------------------
(* The programs of the thirteen handlers are sound. *)
LEMMA ProgramsSound == \A k \in Kinds : Sound(Program[k])
<1> USE DEF Sound, Operations, Tables, Op, Get, Commit, Put, Send, Lease, Sign,
            Release, Read, Write, Query, Update
<1>1. Sound(Like) /\ Sound(Matched) /\ Sound(Pass)
  BY DEF Like, Matched, Pass
<1>2. Sound(Received) /\ Sound(Feed) /\ Sound(Detail) /\ Sound(Block) /\ Sound(Profile)
  BY DEF Received, Feed, Detail, Block, Profile
<1>3. Sound(StartChat) /\ Sound(Message) /\ Sound(Event)
  BY DEF StartChat, Message, Event
<1>4. Sound(Open) /\ Sound(Paginate)
  BY DEF Open, Paginate
<1> HIDE DEF Sound
<1>5. QED BY <1>1, <1>2, <1>3, <1>4 DEF Kinds, Program

(* Where a request with uncommitted writes stands: it has the loop and a live
   connection, and its next operation is a write or a commit. *)
WritersCommit ==
  \A r \in Requests : wrote[r] # {} =>
    /\ loop = r /\ kind[r] # Idle /\ conn[r] = "live"
    /\ At(r)[1] \in {"write", "commit"}

IInv == ConnSafe /\ WritersCommit

(* What an operation of a running request is. *)
LEMMA AtOperation ==
  ASSUME TypeOK, NEW r \in Requests, kind[r] # Idle
  PROVE  /\ kind[r] \in Kinds /\ Program[kind[r]] \in Seq(Operations)
         /\ pc[r] \in 1..Len(Program[kind[r]])
         /\ At(r) \in Operations
         /\ At(r)[1] \in {"read", "write", "query", "update"} => At(r)[2] \in Tables
<1>1. kind[r] \in Kinds BY DEF TypeOK
<1>2. Sound(Program[kind[r]]) BY <1>1, ProgramsSound
<1>3. Program[kind[r]] \in Seq(Operations) /\ Len(Program[kind[r]]) \in Nat BY <1>2 DEF Sound
<1>4. pc[r] \in 1..Len(Program[kind[r]]) BY <1>3 DEF TypeOK
<1>5. At(r) \in Operations BY <1>3, <1>4 DEF At
<1>6. At(r)[1] \in {"read", "write", "query", "update"} => At(r)[2] \in Tables
  BY <1>5 DEF Operations, Op, Get, Commit, Put, Send, Lease, Sign, Release
<1>7. QED BY <1>1, <1>3, <1>4, <1>5, <1>6

(* The types of the slot after an operation, and what follows a write. *)
LEMMA MovesTypes ==
  ASSUME TypeOK, NEW r \in Requests, kind[r] # Idle, Moves(r) \/ Ends(r)
  PROVE  /\ kind' \in [Requests -> Kinds \union {Idle}]
         /\ pc' \in [Requests -> Nat \ {0}]
         /\ \A q \in Requests : IF kind'[q] = Idle THEN pc'[q] = 1
                                ELSE pc'[q] <= Len(Program[kind'[q]])
         /\ loop' \in Requests \union {Nobody}
         /\ \A q \in Requests \ {r} : kind'[q] = kind[q] /\ pc'[q] = pc[q]
         /\ Moves(r) /\ At(r)[1] = "write" =>
              /\ kind'[r] = kind[r] /\ loop' = r
              /\ Program[kind'[r]][pc'[r]][1] \in {"write", "commit"}
<1>1. /\ kind[r] \in Kinds /\ Sound(Program[kind[r]])
      /\ pc[r] \in 1..Len(Program[kind[r]]) /\ Len(Program[kind[r]]) \in Nat
  BY AtOperation, ProgramsSound DEF Sound
<1>2. CASE Ends(r)
  <2>1. /\ kind' \in [Requests -> Kinds \union {Idle}]
        /\ pc' \in [Requests -> Nat \ {0}] /\ loop' = Nobody
        /\ kind'[r] = Idle /\ pc'[r] = 1
        /\ \A q \in Requests \ {r} : kind'[q] = kind[q] /\ pc'[q] = pc[q]
    BY <1>2 DEF Ends, TypeOK
  <2>2. Moves(r) /\ At(r)[1] = "write" => FALSE
    <3>1. Moves(r) /\ At(r)[1] = "write" => pc[r] # Len(Program[kind[r]])
      BY <1>1 DEF Sound, At
    <3>2. QED BY <3>1, <1>1, <2>1 DEF Moves, TypeOK
  <2>3. QED BY <2>1, <2>2 DEF TypeOK
<1>3. CASE ~Ends(r)
  <2>1. /\ pc[r] # Len(Program[kind[r]]) /\ pc' = [pc EXCEPT ![r] = @ + 1] /\ kind' = kind
        /\ loop' = LoopFrom(r, Program[kind[r]][pc[r] + 1])
    BY <1>3 DEF Moves
  <2>2. /\ pc' \in [Requests -> Nat \ {0}] /\ pc'[r] = pc[r] + 1
        /\ \A q \in Requests \ {r} : pc'[q] = pc[q]
    BY <2>1 DEF TypeOK
  <2>3. pc'[r] <= Len(Program[kind[r]]) BY <1>1, <2>1, <2>2
  <2>4. At(r)[1] = "write" => Program[kind[r]][pc[r] + 1][1] \in {"write", "commit"}
    BY <1>1 DEF Sound, At
  <2>5. At(r)[1] = "write" => loop' = r
    BY <2>1, <2>4 DEF LoopFrom, AwaitedOps
  <2>6. loop' \in Requests \union {Nobody} BY <2>1 DEF LoopFrom
  <2>7. QED BY <2>1, <2>2, <2>3, <2>4, <2>5, <2>6 DEF TypeOK
<1>4. QED BY <1>2, <1>3
-----------------------------------------------------------------------------
(* Cardinalities of the connections lent. *)
LEMMA LentFinite ==
  ASSUME TypeOK
  PROVE  IsFiniteSet(Lent) /\ Cardinality(Lent) \in Nat
<1>1. IsFiniteSet(Lent) BY RequestsAssumption, FS_Subset DEF Lent
<1>2. QED BY <1>1, FS_CardinalityType

LEMMA LentAfterGet ==
  ASSUME TypeOK, NEW r \in Requests, NEW c \in {"live", "dead"},
         conn' = [conn EXCEPT ![r] = c]
  PROVE  Cardinality(Lent') \in Nat /\ Cardinality(Lent') <= Cardinality(Lent) + 1
<1>1. Lent' = Lent \union {r} BY DEF Lent, TypeOK
<1>2. QED BY <1>1, LentFinite, FS_AddElement

LEMMA LentAfterPut ==
  ASSUME TypeOK, NEW r \in Requests, conn' = [conn EXCEPT ![r] = "none"]
  PROVE  /\ Cardinality(Lent') \in Nat
         /\ Cardinality(Lent') =
              IF conn[r] = "none" THEN Cardinality(Lent) ELSE Cardinality(Lent) - 1
<1>1. Lent' = Lent \ {r} /\ (r \in Lent <=> conn[r] # "none") BY DEF Lent, TypeOK
<1>2. Cardinality(Lent') = IF r \in Lent THEN Cardinality(Lent) - 1 ELSE Cardinality(Lent)
  BY <1>1, LentFinite, FS_RemoveElement
<1>3. IsFiniteSet(Lent') BY <1>1, LentFinite, FS_RemoveElement
<1>4. Cardinality(Lent') \in Nat BY <1>3, FS_CardinalityType
<1>5. QED BY <1>1, <1>2, <1>4

(* What returning a connection preserves. *)
LEMMA ReturnedSound ==
  ASSUME TypeOK, PoolBounded, NEW r \in Requests, NEW closed \in BOOLEAN, Returned(r, closed)
  PROVE  /\ conn' \in [Requests -> {"none", "live", "dead"}]
         /\ idle' \in {"none", "live", "dead"} /\ leaked' \in Nat
         /\ conn' = [conn EXCEPT ![r] = "none"]
         /\ PoolBounded'
<1>1. /\ conn' = [conn EXCEPT ![r] = "none"]
      /\ conn' \in [Requests -> {"none", "live", "dead"}]
      /\ idle' \in {"none", "live", "dead"} /\ leaked' \in Nat
  BY DEF Returned, TypeOK
<1>2. PoolBounded'
  <2>1. /\ Cardinality(Lent) \in Nat /\ Cardinality(Lent') \in Nat
        /\ Cardinality(Lent') = IF conn[r] = "none" THEN Cardinality(Lent)
                                ELSE Cardinality(Lent) - 1
    BY <1>1, LentAfterPut, LentFinite
  <2>2. CASE idle = "none" /\ conn[r] = "dead" /\ ~closed /\ r \in inTx
    BY <2>1, <2>2, SizesAssumption DEF Returned, PoolBounded, TypeOK
  <2>3. CASE ~(idle = "none" /\ conn[r] = "dead" /\ ~closed /\ r \in inTx)
    BY <2>1, <2>3, SizesAssumption DEF Returned, PoolBounded, TypeOK
  <2>4. QED BY <2>2, <2>3
<1>3. QED BY <1>1, <1>2

-----------------------------------------------------------------------------
LEMMA InitEstablishes == Init => IInv
<1> SUFFICES ASSUME Init PROVE IInv OBVIOUS
<1>1. TypeOK BY SizesAssumption DEF Init, TypeOK, NoLocks, Kinds
<1>2. NoLockWhileSuspended /\ WritersCommit
  BY DEF Init, NoLocks, NoLockWhileSuspended, WritersCommit
<1>3. PoolBounded
  <2>1. Lent = {} BY DEF Init, Lent
  <2>2. QED BY <2>1, FS_EmptySet, SizesAssumption DEF Init, PoolBounded
<1>4. QED BY <1>1, <1>2, <1>3 DEF IInv, ConnSafe

(* While a request has uncommitted writes no other request is at its turn. *)
LEMMA WriterAlone ==
  ASSUME IInv, NEW r \in Requests, Turn(r)
  PROVE  \A q \in Requests \ {r} : wrote[q] = {}
BY RequestsAssumption DEF IInv, WritersCommit, Turn

LEMMA StartKeeps ==
  ASSUME IInv, NEW r \in Requests, NEW k \in Kinds, Start(r, k)
  PROVE  IInv'
<1>1. Sound(Program[k]) BY ProgramsSound
<1>2. TypeOK'
  BY <1>1, SizesAssumption DEF IInv, ConnSafe, TypeOK, Start, LoopFrom, Sound, txVars, poolVars, leaseVars, otherVars
<1>3. \A q \in Requests : wrote[q] = {}
  BY RequestsAssumption DEF Start, IInv, WritersCommit
<1>4. NoLockWhileSuspended' /\ WritersCommit'
  BY <1>3 DEF Start, NoLockWhileSuspended, WritersCommit, txVars
<1>5. PoolBounded' BY DEF IInv, ConnSafe, Start, PoolBounded, Lent, poolVars
<1>6. QED BY <1>2, <1>4, <1>5 DEF IInv, ConnSafe

(* A step of a request that does not write leaves no uncommitted writes but
   those of a transaction it does not touch, of which there are none. *)
LEMMA NoWriterLeft ==
  ASSUME IInv, NEW r \in Requests, Turn(r),
         \A q \in Requests \ {r} : wrote'[q] = wrote[q], wrote'[r] = {}
  PROVE  NoLockWhileSuspended' /\ WritersCommit'
<1>1. \A q \in Requests : wrote'[q] = {} BY WriterAlone
<1>2. QED BY <1>1 DEF NoLockWhileSuspended, WritersCommit

(* What every step of a request keeps of the types of the slots. *)
LEMMA SlotTypes ==
  ASSUME IInv, NEW r \in Requests, kind[r] # Idle, Moves(r) \/ Ends(r)
  PROVE  /\ kind' \in [Requests -> Kinds \union {Idle}]
         /\ pc' \in [Requests -> Nat \ {0}]
         /\ \A q \in Requests : IF kind'[q] = Idle THEN pc'[q] = 1
                                ELSE pc'[q] <= Len(Program[kind'[q]])
         /\ loop' \in Requests \union {Nobody}
BY MovesTypes DEF IInv, ConnSafe

LEMMA UnlocksTypes ==
  ASSUME TypeOK, NEW r \in Requests, Unlocks(r)
  PROVE  /\ held' \in [Requests -> SUBSET Tables] /\ wrote' \in [Requests -> SUBSET Tables]
         /\ inTx' \subseteq Requests
         /\ wrote'[r] = {} /\ \A q \in Requests \ {r} : wrote'[q] = wrote[q]
BY DEF TypeOK, Unlocks

LEMMA GetConnKeeps ==
  ASSUME IInv, NEW r \in Requests, GetConn(r)
  PROVE  IInv'
<1>1. kind[r] # Idle /\ Moves(r) /\ Turn(r) BY DEF GetConn, Does
<1>2. PICK c \in {"live", "dead"} :
        /\ conn' = [conn EXCEPT ![r] = c] /\ idle' = "none"
        /\ idle # "none" \/ Cardinality(Lent) + leaked < MaxConn
  <2>1. Cardinality(Lent) + leaked \in Int /\ MaxConn \in Int
    BY LentFinite, SizesAssumption DEF IInv, ConnSafe, TypeOK
  <2>2. CASE idle # "none"
    <3>1. idle \in {"live", "dead"} BY <2>2 DEF IInv, ConnSafe, TypeOK
    <3>2. conn' = [conn EXCEPT ![r] = idle] /\ idle' = "none" BY <2>2 DEF GetConn
    <3>3. QED BY <2>2, <3>1, <3>2
  <2>3. CASE idle = "none"
    <3>1. conn' = [conn EXCEPT ![r] = "live"] /\ idle' = "none" BY <2>3 DEF GetConn
    <3>2. Cardinality(Lent) + leaked < MaxConn BY <2>1, <2>3 DEF GetConn, Full
    <3>3. QED BY <3>1, <3>2
  <2>4. QED BY <2>2, <2>3
<1>3. TypeOK'
  BY <1>1, <1>2, SlotTypes DEF IInv, ConnSafe, TypeOK, GetConn, txVars, leaseVars, otherVars
<1>4. PoolBounded'
  <2>1. /\ Cardinality(Lent) \in Nat /\ Cardinality(Lent') \in Nat
        /\ Cardinality(Lent') <= Cardinality(Lent) + 1
    BY <1>2, LentAfterGet, LentFinite DEF IInv, ConnSafe
  <2>2. QED
    BY <1>2, <2>1, SizesAssumption DEF IInv, ConnSafe, TypeOK, PoolBounded, GetConn
<1>5. wrote[r] = {} BY DEF GetConn, Does, IInv, WritersCommit
<1>6. NoLockWhileSuspended' /\ WritersCommit'
  BY <1>1, <1>5, NoWriterLeft DEF GetConn, txVars
<1>7. QED BY <1>3, <1>4, <1>6 DEF IInv, ConnSafe

(* A step that takes or returns no psycopg2 connection keeps the pool's bound. *)
LEMMA PoolKept ==
  ASSUME PoolBounded, UNCHANGED poolVars
  PROVE  PoolBounded'
BY DEF PoolBounded, Lent, poolVars

(* The steps that change neither transactions nor psycopg2 connections, of a
   request that is not writing. *)
LEMMA QuietKeeps ==
  ASSUME IInv, NEW r \in Requests, Turn(r), kind[r] # Idle, Moves(r) \/ Ends(r),
         At(r)[1] \notin {"write", "commit"},
         UNCHANGED <<txVars, poolVars, otherVars>>,
         leased' \subseteq Requests, lost' \subseteq leased'
  PROVE  IInv'
<1>1. TypeOK'
  BY SlotTypes DEF IInv, ConnSafe, TypeOK, txVars, poolVars, otherVars
<1>2. wrote[r] = {} BY DEF IInv, WritersCommit
<1>3. NoLockWhileSuspended' /\ WritersCommit' BY <1>2, NoWriterLeft DEF txVars
<1>4. PoolBounded' BY PoolKept DEF IInv, ConnSafe
<1>5. QED BY <1>1, <1>3, <1>4 DEF IInv, ConnSafe

LEMMA QuietSteps ==
  ASSUME IInv, NEW r \in Requests,
         Refused(r) \/ Acquire(r) \/ Answered(r) \/ Resume(r) \/ GiveBack(r)
  PROVE  IInv'
<1>1. leased \subseteq Requests /\ lost \subseteq leased BY DEF IInv, ConnSafe, TypeOK
<1>2. CASE Refused(r)
  BY <1>1, <1>2, QuietKeeps DEF Refused, Does, leaseVars
<1>3. CASE Acquire(r)
  BY <1>1, <1>3, QuietKeeps DEF Acquire, Does
<1>4. CASE Answered(r)
  BY <1>1, <1>4, QuietKeeps DEF Answered, Does, leaseVars
<1>5. CASE Resume(r)
  BY <1>1, <1>5, QuietKeeps DEF Resume, Does, leaseVars
<1>6. CASE GiveBack(r)
  BY <1>1, <1>6, QuietKeeps DEF GiveBack, Does, Released
<1>7. QED BY <1>2, <1>3, <1>4, <1>5, <1>6

LEMMA ExecuteKeeps ==
  ASSUME IInv, NEW r \in Requests, Execute(r)
  PROVE  IInv'
<1>1. kind[r] # Idle /\ Moves(r) /\ Turn(r) /\ conn[r] = "live" BY DEF Execute, Does
<1>2. At(r)[2] \in Tables BY <1>1, AtOperation DEF Execute, Does, IInv, ConnSafe
<1>3. TypeOK'
  <2>1. held' \in [Requests -> SUBSET Tables] /\ wrote' \in [Requests -> SUBSET Tables]
    BY <1>2 DEF Execute, IInv, ConnSafe, TypeOK
  <2>2. inTx' \subseteq Requests BY DEF Execute, IInv, ConnSafe, TypeOK
  <2>3. QED
    BY <1>1, <2>1, <2>2, SlotTypes
    DEF Execute, IInv, ConnSafe, TypeOK, poolVars, leaseVars, otherVars
<1>4. PoolBounded' BY PoolKept DEF Execute, IInv, ConnSafe
<1>5. NoLockWhileSuspended' /\ WritersCommit'
  <2>1. CASE Does(r, "read")
    <3>1. wrote' = wrote /\ wrote[r] = {}
      BY <2>1 DEF Execute, Does, IInv, WritersCommit
    <3>2. QED BY <1>1, <3>1, NoWriterLeft
  <2>2. CASE Does(r, "write")
    <3>1. /\ loop' = r /\ kind'[r] # Idle /\ At(r)'[1] \in {"write", "commit"}
      BY <1>1, <2>2, MovesTypes DEF IInv, ConnSafe, Does, At
    <3>2. \A q \in Requests \ {r} : wrote'[q] = {}
      BY <1>1, <2>2, WriterAlone DEF Execute, IInv, ConnSafe, TypeOK
    <3>3. conn'[r] = "live" BY <1>1 DEF Execute, poolVars
    <3>4. QED BY <3>1, <3>2, <3>3 DEF NoLockWhileSuspended, WritersCommit
  <2>3. QED BY <2>1, <2>2 DEF Execute
<1>6. QED BY <1>3, <1>4, <1>5 DEF IInv, ConnSafe

LEMMA CommitsKeeps ==
  ASSUME IInv, NEW r \in Requests, Commits(r)
  PROVE  IInv'
<1>1. kind[r] # Idle /\ Moves(r) /\ Turn(r) /\ Unlocks(r) BY DEF Commits, Does
<1>2. TypeOK'
  BY <1>1, SlotTypes, UnlocksTypes
  DEF Commits, IInv, ConnSafe, TypeOK, poolVars, leaseVars, otherVars
<1>3. PoolBounded' BY PoolKept DEF Commits, IInv, ConnSafe
<1>4. NoLockWhileSuspended' /\ WritersCommit'
  BY <1>1, UnlocksTypes, NoWriterLeft DEF IInv, ConnSafe
<1>5. QED BY <1>2, <1>3, <1>4 DEF IInv, ConnSafe

(* The three ways a handler gives its connection back. *)
LEMMA ReturnKeeps ==
  ASSUME IInv, NEW r \in Requests, Turn(r), kind[r] # Idle, Moves(r) \/ Ends(r),
         NEW closed \in BOOLEAN, Returned(r, closed), Unlocks(r),
         leased' \subseteq Requests, lost' \subseteq leased',
         UNCHANGED <<waiting, restarts, exposed>>, broken' \in Nat
  PROVE  IInv'
<1>1. TypeOK'
  BY SlotTypes, UnlocksTypes, ReturnedSound DEF IInv, ConnSafe, TypeOK
<1>2. PoolBounded' BY ReturnedSound DEF IInv, ConnSafe
<1>3. NoLockWhileSuspended' /\ WritersCommit'
  BY UnlocksTypes, NoWriterLeft DEF IInv, ConnSafe
<1>4. QED BY <1>1, <1>2, <1>3 DEF IInv, ConnSafe

LEMMA ReturningSteps ==
  ASSUME IInv, NEW r \in Requests, PutConn(r) \/ Broken(r)
  PROVE  IInv'
<1>1. leased \subseteq Requests /\ lost \subseteq leased /\ broken \in Nat
  BY DEF IInv, ConnSafe, TypeOK
<1>2. CASE PutConn(r)
  BY <1>1, <1>2, ReturnKeeps DEF PutConn, Does, leaseVars, otherVars
<1>3. CASE Broken(r)
  <2>1. /\ Turn(r) /\ kind[r] # Idle /\ Ends(r) /\ Returned(r, TRUE) /\ Unlocks(r)
        /\ leased' = leased /\ lost' = lost /\ broken' = broken + 1
        /\ UNCHANGED <<waiting, restarts, exposed>>
    BY <1>3 DEF Broken, Does, leaseVars
  <2>2. broken' \in Nat BY <1>1, <2>1
  <2>3. QED BY <1>1, <2>1, <2>2, ReturnKeeps
<1>4. QED BY <1>2, <1>3

LEMMA AbandonKeeps ==
  ASSUME IInv, NEW r \in Requests, Turn(r), kind[r] # Idle, Abandon(r)
  PROVE  IInv'
<1>1. /\ leased' \subseteq Requests /\ lost' \subseteq leased' /\ broken \in Nat /\ Ends(r)
  BY DEF Abandon, Released, IInv, ConnSafe, TypeOK
<1>2. CASE conn[r] # "none"
  BY <1>1, <1>2, ReturnKeeps DEF Abandon, otherVars
<1>3. CASE conn[r] = "none"
  <2>1. wrote[r] = {} BY <1>3 DEF IInv, WritersCommit
  <2>2. UNCHANGED <<poolVars, txVars, otherVars>> BY <1>3 DEF Abandon
  <2>3. TypeOK'
    BY <1>1, <2>2, SlotTypes DEF IInv, ConnSafe, TypeOK, txVars, poolVars, otherVars
  <2>4. NoLockWhileSuspended' /\ WritersCommit'
    BY <2>1, <2>2, NoWriterLeft DEF txVars
  <2>5. PoolBounded' BY <2>2, PoolKept DEF IInv, ConnSafe
  <2>6. QED BY <2>3, <2>4, <2>5 DEF IInv, ConnSafe
<1>4. QED BY <1>2, <1>3

LEMMA MigrationKeeps ==
  ASSUME IInv, (\E t \in Altered : AskAlter(t)) \/ Alter
  PROVE  IInv'
<1>1. /\ UNCHANGED <<reqVars, txVars, poolVars, leaseVars, restarts, broken, exposed>>
      /\ waiting' \in Altered \union {NoTable}
  BY DEF AskAlter, Alter
<1>2. TypeOK'
  BY <1>1 DEF IInv, ConnSafe, TypeOK, reqVars, txVars, poolVars, leaseVars
<1>3. NoLockWhileSuspended' /\ WritersCommit'
  BY <1>1 DEF IInv, ConnSafe, NoLockWhileSuspended, WritersCommit, At, reqVars, txVars, poolVars
<1>4. PoolBounded' BY <1>1, PoolKept DEF IInv, ConnSafe
<1>5. QED BY <1>2, <1>3, <1>4 DEF IInv, ConnSafe

LEMMA DbRestartKeeps ==
  ASSUME IInv, DbRestart
  PROVE  IInv'
<1>1. /\ conn' \in [Requests -> {"none", "live", "dead"}] /\ idle' \in {"none", "live", "dead"}
      /\ \A r \in Requests : conn'[r] = "none" <=> conn[r] = "none"
      /\ idle' = "none" <=> idle = "none"
  BY DEF DbRestart, Killed, IInv, ConnSafe, TypeOK
<1>2. exposed' \in Nat
  <2>1. IsFiniteSet(Live) BY RequestsAssumption, FS_Subset DEF Live
  <2>2. Cardinality(Live) \in Nat BY <2>1, FS_CardinalityType
  <2>3. QED BY <2>2 DEF DbRestart, IInv, ConnSafe, TypeOK
<1>3. TypeOK'
  BY <1>1, <1>2, SizesAssumption DEF DbRestart, NoLocks, IInv, ConnSafe, TypeOK, reqVars
<1>4. NoLockWhileSuspended' /\ WritersCommit'
  BY DEF DbRestart, NoLocks, NoLockWhileSuspended, WritersCommit
<1>5. PoolBounded'
  <2>1. Lent' = Lent BY <1>1 DEF Lent
  <2>2. QED BY <1>1, <2>1 DEF DbRestart, PoolBounded, IInv, ConnSafe
<1>6. QED BY <1>3, <1>4, <1>5 DEF IInv, ConnSafe

LEMMA NextKeeps == IInv /\ [Next]_vars => IInv'
<1> SUFFICES ASSUME IInv, [Next]_vars PROVE IInv' OBVIOUS
<1>1. ASSUME NEW r \in Requests, Step(r) PROVE IInv'
  <2>1. CASE Lost(r) BY <2>1, AbandonKeeps DEF Lost, Does
  <2>2. CASE ~Lost(r)
    BY <1>1, <2>2, GetConnKeeps, QuietSteps, ReturningSteps, ExecuteKeeps, CommitsKeeps DEF Step
  <2>3. QED BY <2>1, <2>2
<1>2. ASSUME NEW r \in Requests, Raise(r) PROVE IInv'
  BY <1>2, AbandonKeeps DEF Raise, Turn
<1>3. ASSUME NEW r \in Requests, NEW k \in Kinds, Start(r, k) PROVE IInv'
  BY <1>3, StartKeeps
<1>4. CASE UNCHANGED vars
  BY <1>4 DEF vars, reqVars, txVars, poolVars, leaseVars, otherVars, IInv, ConnSafe, TypeOK,
     NoLockWhileSuspended, WritersCommit, PoolBounded, Lent, At
<1>5. QED BY <1>1, <1>2, <1>3, <1>4, MigrationKeeps, DbRestartKeeps DEF Next

-----------------------------------------------------------------------------
(* A program that has read likes commits or returns its connection next. *)
Brief(p) ==
  \A i \in 1..Len(p) :
    p[i] = Read("likes") => i < Len(p) /\ p[i + 1][1] \in {"commit", "put"}

(* The programs of the thirteen handlers are brief with likes. *)
LEMMA ProgramsBrief == \A k \in Kinds : Brief(Program[k])
<1> USE DEF Brief, Op, Get, Commit, Put, Send, Lease, Sign, Release, Read, Write, Query, Update
<1>1. Brief(Like) /\ Brief(Matched) /\ Brief(Pass)
  BY DEF Like, Matched, Pass
<1>2. Brief(Received) /\ Brief(Feed) /\ Brief(Detail) /\ Brief(Block) /\ Brief(Profile)
  BY DEF Received, Feed, Detail, Block, Profile
<1>3. Brief(StartChat) /\ Brief(Message) /\ Brief(Event)
  BY DEF StartChat, Message, Event
<1>4. Brief(Open) /\ Brief(Paginate)
  BY DEF Open, Paginate
<1> HIDE DEF Brief
<1>5. QED BY <1>1, <1>2, <1>3, <1>4 DEF Kinds, Program

(* Where a request that holds a lock on likes stands: it is writing, or the loop
   is its own and it commits or returns its connection next. *)
LikesBrief ==
  \A r \in Requests : "likes" \in held[r] =>
    \/ wrote[r] # {}
    \/ loop = r /\ kind[r] # Idle /\ conn[r] = "live" /\ At(r)[1] \in {"commit", "put"}

LikesInv == IInv /\ LikesBrief

(* Whoever holds likes has the loop, a connection, and one of three operations
   before it. *)
LEMMA HolderStands ==
  ASSUME LikesInv, NEW r \in Requests, "likes" \in held[r]
  PROVE  /\ loop = r /\ kind[r] # Idle /\ conn[r] = "live"
         /\ At(r)[1] \in {"write", "commit", "put"}
BY DEF LikesInv, LikesBrief, IInv, WritersCommit

(* Nobody but the request whose turn it is holds likes. *)
LEMMA HolderAlone ==
  ASSUME LikesInv, NEW r \in Requests, Turn(r)
  PROVE  \A q \in Requests \ {r} : "likes" \notin held[q]
BY HolderStands, RequestsAssumption DEF Turn

(* A step of a request that ends without likes, and leaves the locks of the others. *)
LEMMA NoHolderLeft ==
  ASSUME LikesInv, NEW r \in Requests, Turn(r), "likes" \notin held'[r],
         \A q \in Requests \ {r} : held'[q] = held[q]
  PROVE  LikesBrief'
BY HolderAlone DEF LikesBrief

LEMMA BriefUnlocks ==
  ASSUME LikesInv, NEW r \in Requests, Turn(r), Unlocks(r)
  PROVE  LikesBrief'
BY NoHolderLeft DEF Unlocks, LikesInv, IInv, ConnSafe, TypeOK

(* Operations that are neither a statement of psycopg2 nor a return. *)
LEMMA BriefQuiet ==
  ASSUME LikesInv, NEW r \in Requests, Turn(r), UNCHANGED held,
         At(r)[1] \notin {"write", "commit", "put"} \/ conn[r] = "none"
  PROVE  LikesBrief'
BY HolderStands, NoHolderLeft

LEMMA BriefExecute ==
  ASSUME LikesInv, NEW r \in Requests, Execute(r)
  PROVE  LikesBrief'
<1> USE DEF LikesInv, IInv, ConnSafe
<1>1. /\ Turn(r) /\ kind[r] # Idle /\ conn[r] = "live" /\ Moves(r) /\ conn' = conn
      /\ held' = [held EXCEPT ![r] = @ \union {At(r)[2]}]
  BY DEF Execute, Does, poolVars
<1>2. /\ held'[r] = held[r] \union {At(r)[2]}
      /\ \A q \in Requests \ {r} : held'[q] = held[q]
  BY <1>1 DEF TypeOK
<1>3. \A q \in Requests \ {r} : "likes" \notin held'[q]
  BY <1>1, <1>2, HolderAlone
<1>4. CASE Does(r, "write")
  <2>1. wrote'[r] # {}
    BY <1>4 DEF Execute, TypeOK
  <2>2. QED BY <1>3, <2>1 DEF LikesBrief
<1>5. CASE Does(r, "read")
  <2>1. "likes" \notin held[r]
    BY <1>5, HolderStands DEF Does
  <2>2. CASE At(r)[2] # "likes"
    BY <1>1, <1>2, <2>1, <2>2, NoHolderLeft
  <2>3. CASE At(r)[2] = "likes"
    <3>1. /\ Brief(Program[kind[r]]) /\ pc[r] \in 1..Len(Program[kind[r]])
          /\ Len(Program[kind[r]]) \in Nat /\ At(r) \in Operations
      BY <1>1, AtOperation, ProgramsBrief
    <3>2. At(r) = Read("likes")
      BY <1>5, <2>3, <3>1 DEF Does, Operations, Read, Op, Get, Commit, Put, Send, Lease, Sign, Release
    <3>3. /\ pc[r] # Len(Program[kind[r]])
          /\ Program[kind[r]][pc[r] + 1][1] \in {"commit", "put"}
      BY <3>1, <3>2 DEF Brief, At
    <3>4. kind' = kind /\ pc'[r] = pc[r] + 1 /\ loop' = r
      BY <1>1, <3>3 DEF Moves, LoopFrom, AwaitedOps, TypeOK
    <3>5. At(r)'[1] \in {"commit", "put"}
      BY <3>3, <3>4 DEF At
    <3>6. QED BY <1>1, <1>3, <3>4, <3>5 DEF LikesBrief
  <2>4. QED BY <2>2, <2>3
<1>6. QED BY <1>4, <1>5 DEF Execute

LEMMA BriefAbandon ==
  ASSUME LikesInv, NEW r \in Requests, Turn(r), Abandon(r)
  PROVE  LikesBrief'
<1>1. CASE conn[r] = "none"
  BY <1>1, BriefQuiet DEF Abandon, txVars
<1>2. CASE conn[r] # "none"
  BY <1>2, BriefUnlocks DEF Abandon
<1>3. QED BY <1>1, <1>2

LEMMA BriefStep ==
  ASSUME LikesInv, NEW r \in Requests, Step(r) \/ Raise(r)
  PROVE  LikesBrief'
<1>1. CASE GetConn(r) \/ Refused(r)
  BY <1>1, BriefQuiet DEF GetConn, Refused, Does, txVars
<1>2. CASE PutConn(r) \/ Commits(r) \/ Broken(r)
  BY <1>2, BriefUnlocks DEF PutConn, Commits, Broken
<1>3. CASE Acquire(r) \/ Answered(r) \/ Resume(r) \/ GiveBack(r)
  BY <1>3, BriefQuiet DEF Acquire, Answered, Resume, GiveBack, Does, txVars
<1>4. CASE Lost(r) \/ Raise(r)
  BY <1>4, BriefAbandon DEF Lost, Raise
<1>5. QED BY <1>1, <1>2, <1>3, <1>4, BriefExecute DEF Step

LEMMA BriefNext == LikesInv /\ [Next]_vars => LikesInv'
<1> SUFFICES ASSUME LikesInv, [Next]_vars PROVE LikesBrief'
  BY NextKeeps DEF LikesInv
<1>1. ASSUME NEW r \in Requests, NEW k \in Kinds, Start(r, k) PROVE LikesBrief'
  <2>1. \A q \in Requests : "likes" \notin held[q]
    BY <1>1, HolderStands, RequestsAssumption DEF Start
  <2>2. QED BY <1>1, <2>1 DEF Start, txVars, LikesBrief
<1>2. CASE DbRestart
  BY <1>2 DEF DbRestart, NoLocks, LikesBrief
<1>3. CASE (\E t \in Altered : AskAlter(t)) \/ Alter \/ UNCHANGED vars
  <2>1. UNCHANGED <<reqVars, txVars, poolVars>>
    BY <1>3 DEF AskAlter, Alter, vars
  <2>2. QED BY <2>1 DEF LikesInv, LikesBrief, At, reqVars, txVars, poolVars
<1>4. QED BY <1>1, <1>2, <1>3, BriefStep DEF Next

(* Whoever waits, waits for a migration that nobody keeps from going on. *)
LEMMA WaitsForMigration == LikesInv => NobodyStuck
<1> SUFFICES ASSUME LikesInv, Altered \subseteq {"likes"}, NEW r \in Requests, Waits(r)
             PROVE  waiting = At(r)[2] /\ \A q \in Requests : waiting \notin held[q]
  BY DEF NobodyStuck
<1>1. Turn(r)
  BY DEF Waits
<1>2. Unwritten(r, At(r)[2])
  BY <1>1, WriterAlone DEF LikesInv, Unwritten
<1>3. waiting = At(r)[2] /\ waiting \notin held[r]
  BY <1>2 DEF Waits, Granted
<1>4. kind[r] # Idle /\ TypeOK
  BY <1>1 DEF Turn, LikesInv, IInv, ConnSafe
<1>5. At(r)[2] \in Tables
  BY <1>4, AtOperation DEF Waits
<1>6. waiting = "likes"
  BY <1>3, <1>4, <1>5, AlteredAssumption DEF TypeOK
<1>7. QED BY <1>1, <1>3, <1>6, HolderAlone

(* The handlers never leave uncommitted writes behind a suspension, so that no
   synchronous statement waits for a suspended handler's rows; psycopg2 never
   opens more connections than the size of its pool, whatever is lent, returned,
   killed or leaked; and while likes is altered, no statement waits for anything
   but the migration, which can go on. *)
THEOREM ConnInvAlways == Spec => []ConnInv
<1>1. Init => LikesInv
  BY InitEstablishes DEF LikesInv, LikesBrief, Init, NoLocks
<1>2. LikesInv /\ [Next]_vars => LikesInv'
  BY BriefNext
<1>3. LikesInv => ConnInv
  BY WaitsForMigration DEF LikesInv, IInv, ConnInv
<1>4. QED BY <1>1, <1>2, <1>3, PTL DEF Spec
-----------------------------------------------------------------------------
(* What a program has taken, and not returned, before its operation i. *)
Holds(p, i) ==
  \E j \in 1..(i - 1) : p[j][1] = "get" /\ \A m \in j..(i - 1) : p[m][1] # "put"
Leases(p, i) ==
  \E j \in 1..(i - 1) : p[j][1] = "lease" /\ \A m \in j..(i - 1) : p[m][1] # "release"

(* A program takes one connection at a time, from one pool, and returns it. *)
Balanced(p) ==
  /\ \A i \in 1..Len(p) :
       /\ p[i][1] = "get" => ~Holds(p, i)
       /\ p[i][1] \in {"get", "read", "write", "commit"} => ~Leases(p, i)
  /\ ~Holds(p, Len(p) + 1) /\ ~Leases(p, Len(p) + 1)

(* One Get first, one Put last and no Lease between them: most programs. *)
Bracketed(p) ==
  /\ Len(p) \in Nat \ {0} /\ p[Len(p)][1] = "put"
  /\ \A i \in 1..Len(p) : p[i][1] # "lease" /\ (p[i][1] = "get" => i = 1)

LEMMA BracketBalanced ==
  ASSUME NEW p, Bracketed(p)
  PROVE  Balanced(p)
<1>1. \A i : i \in 1..Len(p) \/ i = Len(p) + 1 => ~Leases(p, i)
  BY DEF Leases, Bracketed
<1>2. \A i \in 1..Len(p) : p[i][1] = "get" => ~Holds(p, i)
  BY DEF Holds, Bracketed
<1>3. ~Holds(p, Len(p) + 1)
  BY DEF Holds, Bracketed
<1>4. QED BY <1>1, <1>2, <1>3 DEF Balanced

(* The same of Lease and Release, in a program of asyncpg. *)
LeaseBracketed(p) ==
  /\ Len(p) \in Nat \ {0} /\ p[Len(p)][1] = "release"
  /\ \A i \in 1..Len(p) : p[i][1] \notin {"get", "read", "write", "commit"}

LEMMA LeaseBalanced ==
  ASSUME NEW p, LeaseBracketed(p)
  PROVE  Balanced(p)
<1>1. \A i : i \in 1..Len(p) \/ i = Len(p) + 1 => ~Holds(p, i)
  BY DEF Holds, LeaseBracketed
<1>2. ~Leases(p, Len(p) + 1)
  BY DEF Leases, LeaseBracketed
<1>3. QED BY <1>1, <1>2 DEF Balanced, LeaseBracketed

(* The programs of the thirteen handlers are balanced. *)
LEMMA ProgramsBalanced == \A k \in Kinds : Balanced(Program[k])
<1> USE DEF Op, Get, Commit, Put, Send, Lease, Sign, Release, Read, Write, Query, Update
<1>1. Bracketed(Like) /\ Bracketed(Matched) /\ Bracketed(Pass)
  BY DEF Bracketed, Like, Matched, Pass
<1>2. Bracketed(Received) /\ Bracketed(Feed) /\ Bracketed(Detail)
  BY DEF Bracketed, Received, Feed, Detail
<1>3. Bracketed(Block) /\ Bracketed(Profile) /\ Bracketed(StartChat) /\ Bracketed(Event)
  BY DEF Bracketed, Block, Profile, StartChat, Event
<1>4. LeaseBracketed(Open) /\ LeaseBracketed(Paginate)
  BY DEF LeaseBracketed, Open, Paginate
<1>5. Balanced(Message)
  <2>1. Len(Message) = 9 /\ \A i \in 1..9 : Message[i][1] # "lease"
    BY DEF Message
  <2>2. \A i \in 1..9 : Message[i][1] = "get" => i \in {1, 6}
    BY DEF Message
  <2>3. Message[4][1] = "put" /\ Message[9][1] = "put"
    BY DEF Message
  <2> HIDE DEF Op, Get, Commit, Put, Send, Lease, Sign, Release, Read, Write, Query, Update
  <2>4. \A i \in 1..10 : ~Leases(Message, i)
    BY <2>1 DEF Leases
  <2>5. ~Holds(Message, 1) /\ ~Holds(Message, 6) /\ ~Holds(Message, 10)
    BY <2>2, <2>3 DEF Holds
  <2>6. QED BY <2>1, <2>2, <2>4, <2>5 DEF Balanced
<1> HIDE DEF Balanced
<1>6. QED
  BY <1>1, <1>2, <1>3, <1>4, <1>5, BracketBalanced, LeaseBalanced DEF Kinds, Program
-----------------------------------------------------------------------------
(* What a request has taken is what its program says it holds. *)
TakenInPlace ==
  \A r \in Requests :
    /\ conn[r] # "none" => kind[r] # Idle /\ Holds(Program[kind[r]], pc[r])
    /\ r \in leased => kind[r] # Idle /\ Leases(Program[kind[r]], pc[r])

SlotsInv == IInv /\ TakenInPlace /\ LossesPaid

LEMMA AtBalanced ==
  ASSUME TypeOK, NEW r \in Requests, kind[r] # Idle
  PROVE  /\ Balanced(Program[kind[r]]) /\ Len(Program[kind[r]]) \in Nat
         /\ pc[r] \in 1..Len(Program[kind[r]])
<1>1. kind[r] \in Kinds BY DEF TypeOK
<1>2. QED BY <1>1, ProgramsBalanced, AtOperation

(* An operation other than a return keeps what is held, and a taking adds it. *)
LEMMA HeldNext ==
  ASSUME NEW p, NEW i \in Nat \ {0}
  PROVE  /\ p[i][1] = "get" => Holds(p, i + 1)
         /\ Holds(p, i) /\ p[i][1] # "put" => Holds(p, i + 1)
         /\ p[i][1] = "lease" => Leases(p, i + 1)
         /\ Leases(p, i) /\ p[i][1] # "release" => Leases(p, i + 1)
<1>1. p[i][1] = "get" => Holds(p, i + 1)
  BY DEF Holds
<1>2. Holds(p, i) /\ p[i][1] # "put" => Holds(p, i + 1)
  BY DEF Holds
<1>3. p[i][1] = "lease" => Leases(p, i + 1)
  BY DEF Leases
<1>4. Leases(p, i) /\ p[i][1] # "release" => Leases(p, i + 1)
  BY DEF Leases
<1>5. QED BY <1>1, <1>2, <1>3, <1>4

(* A request moves on with what it had, but for what its operation takes or
   returns. *)
LEMMA MovesInPlace ==
  ASSUME IInv, TakenInPlace, NEW r \in Requests, kind[r] # Idle, Moves(r),
         \A q \in Requests \ {r} : conn'[q] = conn[q] /\ (q \in leased' <=> q \in leased),
         conn'[r] # "none" => At(r)[1] = "get" \/ (conn[r] # "none" /\ At(r)[1] # "put"),
         r \in leased' => At(r)[1] = "lease" \/ (r \in leased /\ At(r)[1] # "release")
  PROVE  TakenInPlace'
<1> DEFINE p == Program[kind[r]]
<1>1. /\ Balanced(p) /\ Len(p) \in Nat /\ pc[r] \in 1..Len(p)
  BY AtBalanced DEF IInv, ConnSafe
<1>2. \A q \in Requests \ {r} : kind'[q] = kind[q] /\ pc'[q] = pc[q]
  BY MovesTypes DEF IInv, ConnSafe
<1>3. /\ conn'[r] # "none" => Holds(p, pc[r] + 1)
      /\ r \in leased' => Leases(p, pc[r] + 1)
  BY <1>1, HeldNext DEF At, TakenInPlace
<1>4. CASE pc[r] = Len(p)
  BY <1>1, <1>2, <1>3, <1>4 DEF Balanced, TakenInPlace
<1>5. CASE pc[r] # Len(p)
  <2>1. kind'[r] = kind[r] /\ pc'[r] = pc[r] + 1
    BY <1>5 DEF Moves, IInv, ConnSafe, TypeOK
  <2>2. QED BY <1>2, <1>3, <2>1 DEF TakenInPlace
<1>6. QED BY <1>4, <1>5

(* A request that ends without connection and lease. *)
LEMMA EndsInPlace ==
  ASSUME IInv, TakenInPlace, NEW r \in Requests, kind[r] # Idle, Ends(r),
         \A q \in Requests \ {r} : conn'[q] = conn[q] /\ (q \in leased' <=> q \in leased),
         conn'[r] = "none", r \notin leased'
  PROVE  TakenInPlace'
<1>1. \A q \in Requests \ {r} : kind'[q] = kind[q] /\ pc'[q] = pc[q]
  BY MovesTypes DEF IInv, ConnSafe
<1>2. QED BY <1>1 DEF TakenInPlace

(* What is not held at an operation is not taken there. *)
LEMMA NotTaken ==
  ASSUME IInv, TakenInPlace, NEW r \in Requests, kind[r] # Idle
  PROVE  /\ At(r)[1] = "get" => conn[r] = "none"
         /\ At(r)[1] \in {"get", "read", "write", "commit"} => r \notin leased
BY AtBalanced DEF IInv, ConnSafe, Balanced, TakenInPlace, At
-----------------------------------------------------------------------------
LEMMA DeadFinite ==
  ASSUME TypeOK
  PROVE  IsFiniteSet(Dead) /\ Cardinality(Dead) \in Nat
<1>1. IsFiniteSet(Dead) BY RequestsAssumption, FS_Subset DEF Dead
<1>2. QED BY <1>1, FS_CardinalityType

(* One request's connection changes: the number of dead ones with it. *)
LEMMA DeadAfterTaken ==
  ASSUME TypeOK, NEW r \in Requests, conn' = [conn EXCEPT ![r] = "dead"]
  PROVE  Cardinality(Dead') \in Nat /\ Cardinality(Dead') <= Cardinality(Dead) + 1
<1>1. Dead' = Dead \union {r} BY DEF Dead, TypeOK
<1>2. QED BY <1>1, DeadFinite, FS_AddElement

LEMMA DeadAfterLeft ==
  ASSUME TypeOK, NEW r \in Requests, NEW c \in {"none", "live"},
         conn' = [conn EXCEPT ![r] = c]
  PROVE  /\ Cardinality(Dead') \in Nat
         /\ Cardinality(Dead') =
              IF conn[r] = "dead" THEN Cardinality(Dead) - 1 ELSE Cardinality(Dead)
<1>1. Dead' = Dead \ {r} /\ (r \in Dead <=> conn[r] = "dead") BY DEF Dead, TypeOK
<1>2. Cardinality(Dead') = IF r \in Dead THEN Cardinality(Dead) - 1 ELSE Cardinality(Dead)
  BY <1>1, DeadFinite, FS_RemoveElement
<1>3. IsFiniteSet(Dead') BY <1>1, DeadFinite, FS_RemoveElement
<1>4. Cardinality(Dead') \in Nat BY <1>3, FS_CardinalityType
<1>5. QED BY <1>1, <1>2, <1>4

(* A connection that is returned, known to be dead or not, is paid for. *)
LEMMA ReturnedPaid ==
  ASSUME TypeOK, LossesPaid, NEW r \in Requests, NEW closed \in BOOLEAN,
         Returned(r, closed), exposed' = exposed, broken' \in Nat,
         broken' = broken \/ (broken' = broken + 1 /\ closed /\ conn[r] = "dead")
  PROVE  LossesPaid'
<1>1. conn' = [conn EXCEPT ![r] = "none"] BY DEF Returned
<1>2. /\ Cardinality(Dead') \in Nat /\ Cardinality(Dead) \in Nat
      /\ Cardinality(Dead') = IF conn[r] = "dead" THEN Cardinality(Dead) - 1
                              ELSE Cardinality(Dead)
  BY <1>1, DeadAfterLeft, DeadFinite
<1>3. leaked \in Nat /\ broken \in Nat /\ exposed \in Nat BY DEF TypeOK
<1>4. CASE idle = "none" /\ conn[r] = "dead" /\ ~closed /\ r \in inTx
  <2>1. leaked' = leaked + 1 /\ idle' = idle BY <1>4 DEF Returned
  <2>2. QED BY <1>2, <1>3, <1>4, <2>1 DEF LossesPaid
<1>5. CASE ~(idle = "none" /\ conn[r] = "dead" /\ ~closed /\ r \in inTx)
  <2>1. leaked' = leaked /\ idle' = IF idle = "none" /\ ~closed THEN conn[r] ELSE idle
    BY <1>5 DEF Returned
  <2>2. CASE closed
    BY <1>2, <1>3, <2>1, <2>2 DEF LossesPaid
  <2>3. CASE ~closed
    BY <1>2, <1>3, <2>1, <2>3 DEF LossesPaid
  <2>4. QED BY <2>2, <2>3
<1>6. QED BY <1>4, <1>5

(* Steps that neither take, return nor kill a connection. *)
LEMMA LossesKept ==
  ASSUME LossesPaid, UNCHANGED <<poolVars, broken, exposed>>
  PROVE  LossesPaid'
BY DEF LossesPaid, Dead, poolVars

LEMMA SlotsStart ==
  ASSUME SlotsInv, NEW r \in Requests, NEW k \in Kinds, Start(r, k)
  PROVE  TakenInPlace' /\ LossesPaid'
<1>1. LossesPaid' BY LossesKept DEF SlotsInv, Start, otherVars
<1>2. \A q \in Requests \ {r} : kind'[q] = kind[q] BY DEF Start, SlotsInv, IInv, ConnSafe, TypeOK
<1>3. QED
  BY <1>1, <1>2 DEF SlotsInv, TakenInPlace, Start, poolVars, leaseVars

LEMMA SlotsGet ==
  ASSUME SlotsInv, NEW r \in Requests, GetConn(r)
  PROVE  TakenInPlace' /\ LossesPaid'
<1> USE DEF SlotsInv, IInv, ConnSafe
<1>1. /\ kind[r] # Idle /\ Moves(r) /\ At(r)[1] = "get" /\ conn[r] = "none"
      /\ r \notin leased
  BY NotTaken DEF GetConn, Does
<1>2. conn' = [conn EXCEPT ![r] = IF idle # "none" THEN idle ELSE "live"] /\ idle' = "none"
  BY DEF GetConn
<1>3. UNCHANGED <<leased, leaked, broken, exposed>> BY DEF GetConn, leaseVars, otherVars
<1>4. TakenInPlace'
  <2>1. \A q \in Requests \ {r} : conn'[q] = conn[q] BY <1>2 DEF TypeOK
  <2>2. QED BY <1>1, <1>3, <2>1, MovesInPlace
<1>5. LossesPaid'
  <2>1. leaked \in Nat /\ broken \in Nat /\ exposed \in Nat
    BY DEF TypeOK
  <2>2. CASE idle = "dead"
    <3>1. conn' = [conn EXCEPT ![r] = "dead"] BY <1>2, <2>2
    <3>2. /\ Cardinality(Dead') \in Nat /\ Cardinality(Dead) \in Nat
          /\ Cardinality(Dead') <= Cardinality(Dead) + 1
      BY <3>1, DeadAfterTaken, DeadFinite
    <3>3. QED BY <1>2, <1>3, <2>1, <2>2, <3>2 DEF LossesPaid
  <2>3. CASE idle # "dead"
    <3>1. conn' = [conn EXCEPT ![r] = "live"] BY <1>2, <2>3 DEF TypeOK
    <3>2. /\ Cardinality(Dead') \in Nat /\ Cardinality(Dead) \in Nat
          /\ Cardinality(Dead') = Cardinality(Dead)
      BY <1>1, <3>1, DeadAfterLeft, DeadFinite
    <3>3. QED BY <1>2, <1>3, <2>1, <2>3, <3>2 DEF LossesPaid
  <2>4. QED BY <2>2, <2>3
<1>6. QED BY <1>4, <1>5

(* Steps of a request that leave the psycopg2 connections where they are. *)
LEMMA SlotsQuiet ==
  ASSUME SlotsInv, NEW r \in Requests,
         \/ Refused(r) \/ Acquire(r) \/ Answered(r) \/ Resume(r) \/ GiveBack(r)
         \/ Execute(r) \/ Commits(r)
  PROVE  TakenInPlace' /\ LossesPaid'
<1> USE DEF SlotsInv, IInv, ConnSafe
<1>1. LossesPaid'
  BY LossesKept DEF Refused, Acquire, Answered, Resume, GiveBack, Execute, Commits, otherVars
<1>2. kind[r] # Idle /\ conn' = conn
  BY DEF Refused, Acquire, Answered, Resume, GiveBack, Execute, Commits, Does, poolVars
<1>3. CASE Refused(r)
  BY <1>1, <1>2, <1>3, NotTaken, EndsInPlace DEF Refused, Does, leaseVars
<1>4. CASE Acquire(r)
  BY <1>1, <1>2, <1>4, MovesInPlace DEF Acquire, Does
<1>5. CASE Answered(r)
  BY <1>1, <1>2, <1>5, MovesInPlace DEF Answered, Does, leaseVars
<1>6. CASE Resume(r)
  BY <1>1, <1>2, <1>6, MovesInPlace DEF Resume, Does, leaseVars
<1>7. CASE GiveBack(r)
  BY <1>1, <1>2, <1>7, MovesInPlace DEF GiveBack, Does, Released
<1>8. CASE Execute(r)
  BY <1>1, <1>2, <1>8, MovesInPlace DEF Execute, Does, leaseVars
<1>9. CASE Commits(r)
  BY <1>1, <1>2, <1>9, MovesInPlace DEF Commits, Does, leaseVars
<1>10. QED BY <1>3, <1>4, <1>5, <1>6, <1>7, <1>8, <1>9

LEMMA SlotsReturned ==
  ASSUME SlotsInv, NEW r \in Requests, PutConn(r) \/ Broken(r)
  PROVE  TakenInPlace' /\ LossesPaid'
<1> USE DEF SlotsInv, IInv, ConnSafe
<1>1. broken \in Nat BY DEF TypeOK
<1>2. kind[r] # Idle /\ leased' = leased /\ exposed' = exposed
  BY DEF PutConn, Broken, Does, leaseVars, otherVars
<1>3. conn' = [conn EXCEPT ![r] = "none"] BY DEF PutConn, Broken, Returned
<1>4. conn'[r] = "none" /\ \A q \in Requests \ {r} : conn'[q] = conn[q]
  BY <1>3 DEF TypeOK
<1>5. CASE PutConn(r)
  <2>1. TakenInPlace' BY <1>2, <1>4, <1>5, MovesInPlace DEF PutConn, Does
  <2>2. LossesPaid' BY <1>1, <1>2, <1>5, ReturnedPaid DEF PutConn, otherVars
  <2>3. QED BY <2>1, <2>2
<1>6. CASE Broken(r)
  <2>1. r \notin leased BY <1>2, <1>6, NotTaken DEF Broken, Does
  <2>2. TakenInPlace' BY <1>2, <1>4, <1>6, <2>1, EndsInPlace DEF Broken
  <2>3. Returned(r, TRUE) /\ conn[r] = "dead" /\ broken' = broken + 1
    BY <1>6 DEF Broken
  <2>4. broken' \in Nat BY <1>1, <2>3
  <2>5. LossesPaid' BY <1>2, <2>3, <2>4, ReturnedPaid
  <2>6. QED BY <2>2, <2>5
<1>7. QED BY <1>5, <1>6

LEMMA SlotsAbandon ==
  ASSUME SlotsInv, NEW r \in Requests, kind[r] # Idle, Abandon(r)
  PROVE  TakenInPlace' /\ LossesPaid'
<1> USE DEF SlotsInv, IInv, ConnSafe
<1>1. Ends(r) /\ leased' = leased \ {r} /\ UNCHANGED <<broken, exposed>>
  BY DEF Abandon, Released, otherVars
<1>2. broken' \in Nat BY <1>1 DEF TypeOK
<1>3. CASE conn[r] = "none"
  <2>1. UNCHANGED poolVars BY <1>3 DEF Abandon
  <2>2. QED BY <1>1, <1>3, <2>1, LossesKept, EndsInPlace DEF poolVars
<1>4. CASE conn[r] # "none"
  <2>1. Returned(r, FALSE) BY <1>4 DEF Abandon
  <2>2. conn'[r] = "none" /\ \A q \in Requests \ {r} : conn'[q] = conn[q]
    BY <2>1 DEF Returned, TypeOK
  <2>3. QED BY <1>1, <1>2, <2>1, <2>2, ReturnedPaid, EndsInPlace
<1>5. QED BY <1>3, <1>4

(* A restart of the database kills what it exposes. *)
LEMMA SlotsDbRestart ==
  ASSUME SlotsInv, DbRestart
  PROVE  TakenInPlace' /\ LossesPaid'
<1> USE DEF SlotsInv, IInv, ConnSafe
<1>1. /\ \A r \in Requests : conn'[r] = Killed(conn[r])
      /\ idle' = Killed(idle) /\ leased' = leased /\ kind' = kind /\ pc' = pc
      /\ broken' = broken /\ leaked' = leaked
      /\ exposed' = exposed + Cardinality(Live) + (IF idle = "live" THEN 1 ELSE 0)
  BY DEF DbRestart, reqVars
<1>2. TakenInPlace'
  BY <1>1 DEF TakenInPlace, Killed
<1>3. LossesPaid'
  <2>1. Dead' = Dead \union Live
    BY <1>1 DEF Dead, Live, Killed
  <2>2. Dead \intersect Live = {} BY DEF Dead, Live
  <2>3. IsFiniteSet(Live) BY RequestsAssumption, FS_Subset DEF Live
  <2>4. /\ Cardinality(Live) \in Nat /\ Cardinality(Dead) \in Nat
        /\ Cardinality(Dead') = Cardinality(Dead) + Cardinality(Live)
    <3>1. Cardinality(Dead \intersect Live) = 0 BY <2>2, FS_EmptySet
    <3>2. Cardinality(Live) \in Nat BY <2>3, FS_CardinalityType
    <3>3. Cardinality(Dead \union Live)
            = Cardinality(Dead) + Cardinality(Live) - Cardinality(Dead \intersect Live)
      BY <2>3, DeadFinite, FS_Union
    <3>4. QED BY <2>1, <3>1, <3>2, <3>3, DeadFinite
  <2>5. leaked \in Nat /\ broken \in Nat /\ exposed \in Nat BY DEF TypeOK
  <2>6. QED BY <1>1, <2>4, <2>5 DEF LossesPaid, Killed
<1>4. QED BY <1>2, <1>3

LEMMA SlotsNext == SlotsInv /\ [Next]_vars => SlotsInv'
<1> SUFFICES ASSUME SlotsInv, [Next]_vars PROVE SlotsInv' OBVIOUS
<1>1. IInv' BY NextKeeps DEF SlotsInv
<1>2. ASSUME NEW r \in Requests, Step(r) PROVE TakenInPlace' /\ LossesPaid'
  BY <1>2, SlotsGet, SlotsQuiet, SlotsReturned, SlotsAbandon DEF Step, Lost, Does
<1>3. ASSUME NEW r \in Requests, Raise(r) PROVE TakenInPlace' /\ LossesPaid'
  BY <1>3, SlotsAbandon DEF Raise, Turn
<1>4. ASSUME NEW r \in Requests, NEW k \in Kinds, Start(r, k)
      PROVE  TakenInPlace' /\ LossesPaid'
  BY <1>4, SlotsStart
<1>5. CASE (\E t \in Altered : AskAlter(t)) \/ Alter \/ UNCHANGED vars
  <2>1. UNCHANGED <<reqVars, poolVars, leaseVars, broken, exposed>>
    BY <1>5 DEF AskAlter, Alter, vars, otherVars
  <2>2. TakenInPlace' BY <2>1 DEF SlotsInv, TakenInPlace, reqVars, poolVars, leaseVars
  <2>3. QED BY <2>1, <2>2, <1>1, LossesKept DEF SlotsInv
<1>6. QED BY <1>1, <1>2, <1>3, <1>4, <1>5, SlotsDbRestart DEF Next, SlotsInv

(* Every path of every handler returns what it took, and a restart of the
   database costs no more failed requests and slots of the pool than the
   connections that it killed. *)
THEOREM SlotsAlwaysAccounted == Spec => []SlotsAccounted
<1>1. Init => SlotsInv
  <2> SUFFICES ASSUME Init PROVE SlotsInv OBVIOUS
  <2>1. IInv BY InitEstablishes
  <2>2. Dead = {} /\ TakenInPlace BY DEF Init, Dead, TakenInPlace
  <2>3. LossesPaid BY <2>2, FS_EmptySet DEF Init, LossesPaid
  <2>4. QED BY <2>1, <2>2, <2>3 DEF SlotsInv
<1>2. SlotsInv /\ [Next]_vars => SlotsInv' BY SlotsNext
<1>3. SlotsInv => SlotsAccounted
  BY DEF SlotsInv, TakenInPlace, SlotsAccounted, AllReturned
<1>4. QED BY <1>1, <1>2, <1>3, PTL DEF Spec
=============================================================================
