------------------------------ MODULE LoginLimit ------------------------------
(***************************************************************************)
(* The limit on failed logins, constants/global_constants.py: shared by    *)
(* LoginAttempts, the counter in detail, and Accounts, who gets in.        *)
(***************************************************************************)
EXTENDS Integers

CONSTANTS
  MaxAttempts,   \* MAX_LOGIN_ATTEMPTS
  Window         \* LOGIN_ATTEMPT_WINDOW_SECONDS, in ticks

ASSUME LimitAssumption == MaxAttempts \in Nat \ {0} /\ Window \in Nat \ {0}
=============================================================================
