----------------------------- MODULE LoginAttempts -----------------------------
(***************************************************************************)
(* The failed-login counter of one email: a Redis key that INCR creates    *)
(* and a separate EXPIRE gives its time to live.  The login handler never  *)
(* suspends, so that logins do not interleave, but its password check      *)
(* takes time, and the process may die, or Redis refuse the call, between  *)
(* INCR and EXPIRE.  Time passes in ticks, much longer than the step from  *)
(* INCR to EXPIRE; a key is gone when its time has come.                   *)
(***************************************************************************)
EXTENDS LoginLimit, FiniteSets

CONSTANT Horizon   \* bound on time

ASSUME HorizonAssumption == Horizon \in Nat

VARIABLES
  now,
  counter,       \* value of login_attempts:<email>, 0 when there is no key
  expiry,        \* when the key goes, 0 when it has no time to live
  handler,       \* "idle", "checked" (limit passed) or "counted" (INCR done)
  failures,      \* history: <<time, n>> of every failed login since the last good one
  lost           \* history: an EXPIRE has been lost

attemptVars == <<now, counter, expiry, handler, failures, lost>>

LoginInit ==
  /\ now = 0 /\ counter = 0 /\ expiry = 0
  /\ handler = "idle" /\ failures = {} /\ lost = FALSE

(* Variants, each a slip the code could contain. *)
UnderLimitOneLate == counter <= MaxAttempts
ExpireEveryTime == TRUE
ExpireOnLast == counter = MaxAttempts + 1

(* assert_under_login_attempt_limit, and the test that calls EXPIRE. *)
CountUnderLimit == counter < MaxAttempts
FirstAttempt == counter = 1

(* A login passes the limit; the password is yet to be verified. *)
Attempt ==
  /\ handler = "idle" /\ CountUnderLimit
  /\ handler' = "checked"
  /\ UNCHANGED <<now, counter, expiry, failures, lost>>

(* No such account, or a wrong password: INCR. *)
CountFailure ==
  /\ handler = "checked"
  /\ counter' = counter + 1
  /\ handler' = "counted"
  /\ failures' = failures \union {<<now, Cardinality(failures) + 1>>}
  /\ UNCHANGED <<now, expiry, lost>>

(* record_failed_login_attempt goes on: EXPIRE after the first. *)
SetExpiry ==
  /\ handler = "counted"
  /\ expiry' = IF FirstAttempt THEN now + Window ELSE expiry
  /\ handler' = "idle"
  /\ UNCHANGED <<now, counter, failures, lost>>

(* The process dies, or Redis refuses the EXPIRE. *)
ExpireLost ==
  /\ handler = "counted"
  /\ handler' = "idle" /\ lost' = TRUE
  /\ UNCHANGED <<now, counter, expiry, failures>>

(* The password is right: the key is deleted. *)
GoodLogin ==
  /\ handler = "checked"
  /\ counter' = 0 /\ expiry' = 0 /\ failures' = {} /\ handler' = "idle"
  /\ UNCHANGED <<now, lost>>

(* Time passes, and Redis drops the key whose time has come. *)
TimePasses ==
  /\ handler # "counted" /\ now < Horizon
  /\ now' = now + 1
  /\ IF expiry = now + 1
     THEN counter' = 0 /\ expiry' = 0
     ELSE UNCHANGED <<counter, expiry>>
  /\ UNCHANGED <<handler, failures, lost>>

LoginNext == Attempt \/ CountFailure \/ SetExpiry \/ ExpireLost \/ GoodLogin \/ TimePasses
LoginSpec ==
  /\ LoginInit /\ [][LoginNext]_attemptVars
  /\ WF_attemptVars(SetExpiry) /\ WF_attemptVars(TimePasses)
-----------------------------------------------------------------------------
FailuresSince(t) == {f \in failures : f[1] >= t}

(* The window is fixed, not rolling: the key counts the failures since it was
   made, so any stretch of time shorter than the window holds fewer than twice
   the limit. *)
TwiceTheLimit == Cardinality(FailuresSince(now - Window + 1)) < 2 * MaxAttempts

(* A counter with a time to live counts exactly the failures since its window
   began, however logins and the passing of time are ordered. *)
CounterCounts ==
  expiry # 0 => Cardinality(FailuresSince(expiry - Window)) = counter

(* An email at the limit comes to be under it again unless an EXPIRE has been
   lost (stated where the bound on time leaves room for a window). *)
AtLimit == counter >= MaxAttempts /\ now + Window < Horizon
LockedOutEnds == AtLimit ~> counter < MaxAttempts \/ lost

(* To everybody else a login is one step: a failure counts when its handler is
   through with both calls, and what is left of the window is its remaining life. *)
Counted == IF handler = "counted" THEN counter - 1 ELSE counter
Remains == IF expiry = 0 THEN 0 ELSE expiry - now
Whole == INSTANCE FailureCounter WITH count <- Counted, life <- Remains
CountsAsOne == Whole!Spec

(* "Please try again later.": it comes to be under it in any case.  Not so: a
   key whose EXPIRE was lost stays for ever. *)
LaterIsAllowed == AtLimit ~> counter < MaxAttempts

(* At most MAX_LOGIN_ATTEMPTS failures in any rolling window: not so, as the
   window starts with the first failure. *)
RollingWindow == Cardinality(FailuresSince(now - Window + 1)) <= MaxAttempts
=============================================================================
