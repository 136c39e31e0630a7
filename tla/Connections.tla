------------------------------ MODULE Connections ------------------------------
(***************************************************************************)
(* What the handlers share: the event loop, the psycopg2 pool of           *)
(* controllers/db_controller.py, the asyncpg pool of main.py, and the      *)
(* locks of PostgreSQL.                                                    *)
(*                                                                         *)
(* A handler is the sequence of what it asks of them (Program).  psycopg2  *)
(* is synchronous: while a statement of a handler waits for a lock, the    *)
(* loop waits with it, and so does whoever holds the lock, if it is        *)
(* suspended.  A commit before a send is therefore what keeps the server   *)
(* alive, against other handlers and against a migration that alters a     *)
(* table while the server runs.                                            *)
(*                                                                         *)
(* The worst case is assumed of rows: two writes of one table meet.  The   *)
(* database may restart, which kills connections without telling psycopg2  *)
(* until the next statement.                                               *)
(***************************************************************************)
EXTENDS Integers, Sequences, FiniteSets

CONSTANTS
  Requests,     \* slots for handlers in flight
  Nobody,       \* the loop is free
  NoTable,      \* no migration waits
  Altered,      \* tables a migration may alter while the server runs
  MaxConn,      \* size of the psycopg2 pool, 20 in the code
  MaxLease,     \* size of the asyncpg pool, its default of 10 in the code
  MaxRestarts   \* bound on the restarts of the database

Tables == {"likes", "people", "chats"}

ASSUME RequestsAssumption == IsFiniteSet(Requests) /\ Nobody \notin Requests
ASSUME AlteredAssumption == Altered \subseteq Tables /\ NoTable \notin Tables
ASSUME SizesAssumption == MaxConn \in Nat \ {0} /\ MaxLease \in Nat \ {0} /\ MaxRestarts \in Nat

(* Operations.  "people" stands for users and what hangs on them (metadata,
   preferences, discovery pool), "chats" for chats, participants, messages
   and matches. *)
Op(name) == <<name, NoTable>>
Get == Op("get")          \* db_pool.getconn()
Commit == Op("commit")
Put == Op("put")          \* db_pool.putconn(conn), in a finally
Send == Op("send")        \* a websocket send
Lease == Op("lease")      \* app.state.db_pool.acquire()
Sign == Op("sign")        \* signed URLs, in the executor
Release == Op("release")
Read(t) == <<"read", t>>
Write(t) == <<"write", t>>
Query(t) == <<"query", t>>     \* asyncpg, a transaction of its own
Update(t) == <<"update", t>>

AwaitedOps == {"send", "lease", "query", "update", "sign", "release"}

(* Variants, each a slip the code could contain. *)
LikeCommittingLate ==
  << Get, Read("people"), Write("likes"), Read("likes"), Send,
     Write("people"), Commit, Write("people"), Commit, Put >>
LikeWithoutLastCommit ==
  << Get, Read("people"), Write("likes"), Commit, Read("likes"), Send,
     Write("people"), Commit, Write("people"), Commit, Put >>

(* The handlers. *)
Like ==
  << Get, Read("people"), Write("likes"), Commit, Read("likes"), Commit, Send,
     Write("people"), Commit, Write("people"), Commit, Put >>
Matched ==
  << Get, Read("people"), Write("likes"), Write("chats"), Commit,
     Write("people"), Commit, Write("people"), Commit, Send, Put >>
Pass ==
  << Get, Read("people"), Write("likes"), Commit,
     Write("people"), Commit, Write("people"), Commit, Put >>
Received == << Get, Read("people"), Write("likes"), Commit, Put >>
Feed == << Get, Read("people"), Write("people"), Commit, Read("likes"), Put >>
Detail == << Get, Read("people"), Read("likes"), Put >>
Block == << Get, Write("people"), Write("chats"), Commit, Put >>
Profile == << Get, Write("people"), Commit, Put >>
StartChat == << Get, Read("chats"), Write("chats"), Commit, Send, Put >>
Message ==
  << Get, Write("chats"), Commit, Put, Send, Get, Write("chats"), Commit, Put >>
Event ==
  << Get, Read("people"), Read("chats"), Send, Write("chats"), Commit,
     Send, Send, Put >>
Open ==
  << Lease, Query("chats"), Query("chats"), Update("chats"), Send,
     Query("chats"), Sign, Release >>
Paginate == << Lease, Query("chats"), Query("chats"), Sign, Query("chats"), Release >>

Program ==
  [like |-> Like, matched |-> Matched, pass |-> Pass, received |-> Received,
   feed |-> Feed, detail |-> Detail, block |-> Block, profile |-> Profile,
   startChat |-> StartChat, message |-> Message, event |-> Event,
   open |-> Open, paginate |-> Paginate]

Kinds == DOMAIN Program
Idle == "idle"

(* The functions that notify swallow what their send raises; for a message this
   skips the rest of the program. *)
SwallowingKinds == {"like", "matched", "startChat", "open"}

VARIABLES
  kind,        \* the handler in each slot, or Idle
  pc,          \* the position of its next operation
  loop,        \* the request that keeps the event loop, or Nobody
  conn,        \* its psycopg2 connection: "none", "live" or "dead"
  inTx,        \* requests whose psycopg2 connection believes in a transaction
  held, wrote, \* tables and rows their transactions have locked in the database
  idle,        \* the connection kept by the psycopg2 pool (minconn is 1)
  leased,      \* requests that hold an asyncpg connection
  lost,        \* those whose asyncpg connection the database has closed
  waiting,     \* the table a migration waits to alter
  restarts,    \* restarts of the database
  leaked,      \* slots of the psycopg2 pool that nobody can return any more
  broken,      \* history: statements that failed on a dead psycopg2 connection
  exposed      \* history: psycopg2 connections killed by restarts

reqVars == <<kind, pc, loop>>
txVars == <<inTx, held, wrote>>
poolVars == <<conn, idle, leaked>>
leaseVars == <<leased, lost>>
otherVars == <<waiting, restarts, broken, exposed>>
vars == <<reqVars, txVars, poolVars, leaseVars, otherVars>>

NoLocks == [r \in Requests |-> {}]

Init ==
  /\ kind = [r \in Requests |-> Idle] /\ pc = [r \in Requests |-> 1]
  /\ loop = Nobody
  /\ conn = [r \in Requests |-> "none"]
  /\ inTx = {} /\ held = NoLocks /\ wrote = NoLocks
  /\ idle = "live" /\ leaked = 0
  /\ leased = {} /\ lost = {}
  /\ waiting = NoTable
  /\ restarts = 0 /\ broken = 0 /\ exposed = 0
-----------------------------------------------------------------------------
At(r) == Program[kind[r]][pc[r]]
Does(r, name) == kind[r] # Idle /\ At(r)[1] = name

(* A request suspended in an awaited operation resumes when the loop is free;
   any other operation is reached with the loop. *)
Turn(r) == kind[r] # Idle /\ loop = IF At(r)[1] \in AwaitedOps THEN Nobody ELSE r

LoopFrom(r, op) == IF op[1] \in AwaitedOps THEN Nobody ELSE r

Start(r, k) ==
  /\ loop = Nobody /\ kind[r] = Idle
  /\ kind' = [kind EXCEPT ![r] = k]
  /\ loop' = LoopFrom(r, Program[k][1])
  /\ UNCHANGED <<pc, txVars, poolVars, leaseVars, otherVars>>

Ends(r) ==
  /\ kind' = [kind EXCEPT ![r] = Idle] /\ pc' = [pc EXCEPT ![r] = 1]
  /\ loop' = Nobody

(* On to the next operation, or the end of the handler. *)
Moves(r) ==
  IF pc[r] = Len(Program[kind[r]]) THEN Ends(r)
  ELSE /\ pc' = [pc EXCEPT ![r] = @ + 1]
       /\ loop' = LoopFrom(r, Program[kind[r]][pc[r] + 1])
       /\ UNCHANGED kind

-----------------------------------------------------------------------------
(* The psycopg2 pool. *)
Lent == {r \in Requests : conn[r] # "none"}
Full == Cardinality(Lent) + leaked >= MaxConn

(* The pool hands out the connection it keeps, untested, or opens one. *)
GetConn(r) ==
  /\ Turn(r) /\ Does(r, "get")
  /\ idle # "none" \/ ~Full
  /\ conn' = [conn EXCEPT ![r] = IF idle # "none" THEN idle ELSE "live"]
  /\ idle' = "none"
  /\ Moves(r)
  /\ UNCHANGED <<txVars, leaked, leaseVars, otherVars>>

(* getconn does not wait: it raises PoolError, and outside the try. *)
Refused(r) ==
  /\ Turn(r) /\ Does(r, "get")
  /\ idle = "none" /\ Full
  /\ Ends(r)
  /\ UNCHANGED <<txVars, poolVars, leaseVars, otherVars>>

Unlocks(r) ==
  /\ inTx' = inTx \ {r}
  /\ held' = [held EXCEPT ![r] = {}] /\ wrote' = [wrote EXCEPT ![r] = {}]

(* A variant. *)
ReturnedOpen(r, closed) ==
  /\ conn' = [conn EXCEPT ![r] = "none"]
  /\ idle' = IF idle = "none" THEN conn[r] ELSE idle
  /\ UNCHANGED leaked

(* putconn.  A connection beyond the one that is kept is closed, and one known
   to be closed is dropped.  One in a transaction is rolled back first: when
   the database has gone, the rollback raises before the slot is freed. *)
Returned(r, closed) ==
  /\ conn' = [conn EXCEPT ![r] = "none"]
  /\ IF idle = "none" /\ conn[r] = "dead" /\ ~closed /\ r \in inTx
     THEN leaked' = leaked + 1 /\ UNCHANGED idle
     ELSE /\ idle' = IF idle = "none" /\ ~closed THEN conn[r] ELSE idle
          /\ UNCHANGED leaked

PutConn(r) ==
  /\ Turn(r) /\ Does(r, "put")
  /\ Returned(r, FALSE) /\ Unlocks(r)
  /\ Moves(r)
  /\ UNCHANGED <<leaseVars, otherVars>>
-----------------------------------------------------------------------------
(* The database. *)

(* A request that waits for ALTER TABLE's lock keeps out those that come later. *)
Granted(r, t) == waiting # t \/ t \in held[r]
Unwritten(r, t) == \A q \in Requests \ {r} : t \notin wrote[q]

Execute(r) ==
  /\ Turn(r) /\ (Does(r, "read") \/ Does(r, "write")) /\ conn[r] = "live"
  /\ LET t == At(r)[2] IN
       /\ Granted(r, t)
       /\ Does(r, "write") => Unwritten(r, t)
       /\ held' = [held EXCEPT ![r] = @ \union {t}]
       /\ wrote' = IF Does(r, "write") THEN [wrote EXCEPT ![r] = @ \union {t}] ELSE wrote
  /\ inTx' = inTx \union {r}
  /\ Moves(r)
  /\ UNCHANGED <<poolVars, leaseVars, otherVars>>

Commits(r) ==
  /\ Turn(r) /\ Does(r, "commit") /\ conn[r] = "live"
  /\ Unlocks(r) /\ Moves(r)
  /\ UNCHANGED <<poolVars, leaseVars, otherVars>>

(* A statement on a dead connection fails, closes it and ends the handler. *)
Broken(r) ==
  /\ Turn(r) /\ (Does(r, "read") \/ Does(r, "write") \/ Does(r, "commit"))
  /\ conn[r] = "dead"
  /\ Returned(r, TRUE) /\ Unlocks(r) /\ Ends(r)
  /\ broken' = broken + 1
  /\ UNCHANGED <<leaseVars, waiting, restarts, exposed>>

(* asyncpg: acquire waits for a free connection; a statement runs in the
   database, where it may wait, while the loop serves others. *)
Acquire(r) ==
  /\ Turn(r) /\ Does(r, "lease")
  /\ Cardinality(leased) < MaxLease
  /\ leased' = leased \union {r}
  /\ Moves(r)
  /\ UNCHANGED <<txVars, poolVars, lost, otherVars>>

Answered(r) ==
  /\ Turn(r) /\ (Does(r, "query") \/ Does(r, "update")) /\ r \notin lost
  /\ Granted(r, At(r)[2])
  /\ Does(r, "update") => Unwritten(r, At(r)[2])
  /\ Moves(r)
  /\ UNCHANGED <<txVars, poolVars, leaseVars, otherVars>>

Resume(r) ==
  /\ Turn(r) /\ (Does(r, "send") \/ Does(r, "sign"))
  /\ Moves(r)
  /\ UNCHANGED <<txVars, poolVars, leaseVars, otherVars>>

(* The end of the async with block. *)
Released(r) == leased' = leased \ {r} /\ lost' = lost \ {r}

GiveBack(r) ==
  /\ Turn(r) /\ Does(r, "release")
  /\ Released(r) /\ Moves(r)
  /\ UNCHANGED <<txVars, poolVars, otherVars>>

(* An exception: an assertion, the database, a send or the signing.  It ends
   the handler by way of its finally or its async with. *)
Abandon(r) ==
  /\ Ends(r) /\ Released(r)
  /\ IF conn[r] = "none" THEN UNCHANGED <<poolVars, txVars>>
     ELSE Returned(r, FALSE) /\ Unlocks(r)
  /\ UNCHANGED otherVars

Lost(r) ==
  /\ Turn(r) /\ (Does(r, "query") \/ Does(r, "update")) /\ r \in lost
  /\ Abandon(r)

Raise(r) ==
  /\ Turn(r) /\ At(r)[1] \notin {"put", "release"}
  /\ Does(r, "send") => kind[r] \notin SwallowingKinds
  /\ conn[r] = "dead" => At(r)[1] \notin {"read", "write", "commit"}
  /\ Abandon(r)

-----------------------------------------------------------------------------
(* A migration alters a table: its lock waits for every transaction on it. *)
AskAlter(t) ==
  /\ waiting = NoTable /\ waiting' = t
  /\ UNCHANGED <<reqVars, txVars, poolVars, leaseVars, restarts, broken, exposed>>

Alter ==
  /\ waiting # NoTable
  /\ \A r \in Requests : waiting \notin held[r]
  /\ waiting' = NoTable
  /\ UNCHANGED <<reqVars, txVars, poolVars, leaseVars, restarts, broken, exposed>>

Killed(c) == IF c = "live" THEN "dead" ELSE c
Live == {r \in Requests : conn[r] = "live"}

(* The database restarts: every connection is dead, every lock is gone, and the
   migration fails. *)
DbRestart ==
  /\ restarts < MaxRestarts /\ restarts' = restarts + 1
  /\ exposed' = exposed + Cardinality(Live) + (IF idle = "live" THEN 1 ELSE 0)
  /\ conn' = [r \in Requests |-> Killed(conn[r])] /\ idle' = Killed(idle)
  /\ held' = NoLocks /\ wrote' = NoLocks
  /\ lost' = leased
  /\ waiting' = NoTable
  /\ UNCHANGED <<reqVars, inTx, leaked, leased, broken>>

Step(r) ==
  \/ GetConn(r) \/ Refused(r) \/ PutConn(r)
  \/ Execute(r) \/ Commits(r) \/ Broken(r)
  \/ Acquire(r) \/ Answered(r) \/ Resume(r) \/ GiveBack(r) \/ Lost(r)

Next ==
  \/ \E r \in Requests : Step(r) \/ Raise(r) \/ \E k \in Kinds : Start(r, k)
  \/ \E t \in Altered : AskAlter(t)
  \/ Alter
  \/ DbRestart

Spec == Init /\ [][Next]_vars

(* The ready queue of the loop, the waiters of the asyncpg pool and the lock
   queues of the database are first-in first-out, and a send ends. *)
FairSpec == Spec /\ (\A r \in Requests : SF_vars(Step(r))) /\ WF_vars(Alter)
-----------------------------------------------------------------------------
TypeOK ==
  /\ kind \in [Requests -> Kinds \union {Idle}]
  /\ pc \in [Requests -> Nat \ {0}]
  /\ \A r \in Requests : IF kind[r] = Idle THEN pc[r] = 1 ELSE pc[r] <= Len(Program[kind[r]])
  /\ loop \in Requests \union {Nobody}
  /\ conn \in [Requests -> {"none", "live", "dead"}] /\ idle \in {"none", "live", "dead"}
  /\ held \in [Requests -> SUBSET Tables] /\ wrote \in [Requests -> SUBSET Tables]
  /\ inTx \subseteq Requests /\ leased \subseteq Requests /\ lost \subseteq leased
  /\ waiting \in Altered \union {NoTable}
  /\ restarts \in 0..MaxRestarts /\ leaked \in Nat /\ broken \in Nat /\ exposed \in Nat

(* Only the request that has the loop has uncommitted writes, so that no
   statement of psycopg2 ever waits for the rows of a suspended handler. *)
NoLockWhileSuspended == \A r \in Requests : wrote[r] # {} => loop = r

(* psycopg2 never has more connections open than the pool's size. *)
PoolBounded ==
  Cardinality(Lent) + leaked + (IF idle = "none" THEN 0 ELSE 1) <= MaxConn

(* A request whose turn it is cannot go on with its statement. *)
Waits(r) ==
  /\ Turn(r)
  /\ At(r)[1] \in {"read", "write", "query", "update"}
  /\ ~ /\ Granted(r, At(r)[2])
       /\ At(r)[1] \in {"write", "update"} => Unwritten(r, At(r)[2])

(* While the server runs, a migration may alter likes: a statement then waits for
   that migration only, and the migration for nobody.  The commit after the SELECT
   in process_like is what keeps a suspended handler from holding likes. *)
NobodyStuck ==
  Altered \subseteq {"likes"} =>
    \A r \in Requests : Waits(r) =>
      waiting = At(r)[2] /\ \A q \in Requests : waiting \notin held[q]

ConnSafe == TypeOK /\ NoLockWhileSuspended /\ PoolBounded

(* The safety of the shared resources. *)
ConnInv == ConnSafe /\ NobodyStuck

(* Every path of every handler returns what it took: a handler that is not
   running has neither connection nor lease. *)
AllReturned == \A r \in Requests : kind[r] = Idle => conn[r] = "none" /\ r \notin leased

(* A connection killed by a restart of the database costs one failed request or
   one slot of the pool, never more. *)
Dead == {r \in Requests : conn[r] = "dead"}
LossesPaid ==
  broken + leaked + Cardinality(Dead) + (IF idle = "dead" THEN 1 ELSE 0) <= exposed

SlotsAccounted == AllReturned /\ LossesPaid

(* Every request ends, although the loop waits for the database, handlers wait
   for the asyncpg pool, and tables are altered while the server runs. *)
RequestEnds == \A r \in Requests : kind[r] # Idle ~> kind[r] = Idle

(* user_db_utilities.py:126: "Always return the connection to the pool".  A
   handler suspended in a transaction while the database restarts loses its
   slot for good. *)
AlwaysReturned == leaked = 0
=============================================================================
