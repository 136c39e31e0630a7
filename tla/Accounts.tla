------------------------------- MODULE Accounts -------------------------------
(***************************************************************************)
(* Who gets into which account: one-time codes, the email tokens they are  *)
(* exchanged for, sign-up, password reset, login under the limit on failed *)
(* attempts, tokens and their renewal, deletion.  The handlers are alone   *)
(* from beginning to end, so that each is one step; send_otp runs in a     *)
(* thread, but its one change is one call of Redis.                        *)
(*                                                                         *)
(* What expires is its remaining life, in ticks, 0 when there is none; of  *)
(* several tokens of one sort only the longest-lived is kept, as it can do *)
(* what the others can.  An address is used by its owner, who may forget   *)
(* the password; others only fail to log in.  What the digits of a code    *)
(* are is left out: the model says when one is accepted.  The counter of   *)
(* failed attempts is that of module FailureCounter: the two Redis calls   *)
(* of LoginAttempts are one step, which may lose the second of them.       *)
(***************************************************************************)
EXTENDS LoginLimit, FiniteSets

CONSTANTS
  Emails,
  Ids,          \* ids of users rows; bounds the sign-ups
  Free,         \* no row with this id yet
  Anonymous,    \* the address of a deleted row, different for each
  CodeLife,     \* store_otp: 10 minutes
  ProofLife,    \* EMAIL_TOKEN_EXPIRE_MINUTES
  AccessLife,   \* ACCESS_TOKEN_EXPIRE_MINUTES
  RefreshLife,  \* REFRESH_TOKEN_EXPIRE_DAYS
  MaxForgets    \* bound on how often an owner forgets

ASSUME AddressAssumption == {Free, Anonymous} \intersect Emails = {} /\ Free # Anonymous
ASSUME LivesAssumption ==
  /\ {CodeLife, ProofLife, AccessLife, RefreshLife} \subseteq Nat \ {0}
  /\ AccessLife <= RefreshLife /\ MaxForgets \in Nat

VARIABLES
  code,       \* Redis otp:<email>: its remaining life
  proof,      \* proof[e][s]: email token with subject s
  address,    \* users.email
  token,      \* access or refresh token for the row
  attempts,   \* Redis login_attempts:<email>
  lock,       \* its remaining life
  known,      \* rows whose password is the one their owner remembers
  forgets,    \* how often an owner has forgotten
  sinceCode,  \* history: age of the last request for a code, at most Never
  vouched     \* history: that age when the row's password was last set

accountVars ==
  <<code, proof, address, token, attempts, lock, known, forgets, sinceCode, vouched>>

Subjects == {"email_verification", "forgot_password"}
Never == CodeLife + ProofLife

(* retrieve_otp_email, verify_email_token and decode_token on what has not
   expired, and get_user_from_db. *)
CodeStored(e) == code[e] > 0
Verified(e, s) == proof[e][s] > 0
LoggedIn(i) == token[i] > 0
Row(e) == {i \in Ids : address[i] = e}
Longer(a, b) == IF a > b THEN a ELSE b

AccountsInit ==
  /\ code = [e \in Emails |-> 0]
  /\ proof = [e \in Emails |-> [s \in Subjects |-> 0]]
  /\ address = [i \in Ids |-> Free]
  /\ token = [i \in Ids |-> 0]
  /\ attempts = [e \in Emails |-> 0] /\ lock = [e \in Emails |-> 0]
  /\ known = {} /\ forgets = 0
  /\ sinceCode = [e \in Emails |-> Never]
  /\ vouched = [i \in Ids |-> 0]

(* Variants, each a slip the code could contain. *)
CodeRenewed(e) == code' = [code EXCEPT ![e] = CodeLife]
AvailableTwice(e, i) == address[i] = Free
ResettableKnown(e) == Row(e) \intersect known

(* The code is not taken away when it is verified. *)
CodeKept(e) == code' = code

(* users.email is unique, and ids are not used again. *)
Available(e, i) == Row(e) = {} /\ address[i] = Free

(* A reset finds the row by its address alone. *)
Resettable(e) == Row(e)

(* send_otp: store_otp, then the mail, which may fail or not. *)
RequestCode(e) ==
  /\ code' = [code EXCEPT ![e] = CodeLife]
  /\ sinceCode' = [sinceCode EXCEPT ![e] = 0]
  /\ UNCHANGED <<proof, address, token, attempts, lock, known, forgets, vouched>>

(* verify_otp_internal with the right code; a wrong one changes nothing. *)
VerifyCode(e, s) ==
  /\ CodeStored(e)
  /\ CodeKept(e)
  /\ proof' = [proof EXCEPT ![e][s] = ProofLife]
  /\ UNCHANGED <<address, token, attempts, lock, known, forgets, sinceCode, vouched>>

(* add_partial_user_to_db. *)
SignUp(e, i) ==
  /\ Verified(e, "email_verification")
  /\ Available(e, i)
  /\ address' = [address EXCEPT ![i] = e]
  /\ token' = [token EXCEPT ![i] = RefreshLife]
  /\ known' = known \union {i}
  /\ vouched' = [vouched EXCEPT ![i] = sinceCode[e]]
  /\ UNCHANGED <<code, proof, attempts, lock, forgets, sinceCode>>

(* reset_user_password: tokens and the count of failures stay. *)
ResetPassword(e) ==
  /\ Verified(e, "forgot_password")
  /\ \E i \in Resettable(e) :
       /\ known' = known \union {i}
       /\ vouched' = [vouched EXCEPT ![i] = sinceCode[e]]
  /\ UNCHANGED <<code, proof, address, token, attempts, lock, forgets, sinceCode>>

UnderLimit(e) == attempts[e] < MaxAttempts

(* The owner logs in. *)
Login(e) ==
  /\ UnderLimit(e)
  /\ \E i \in Row(e) \intersect known : token' = [token EXCEPT ![i] = RefreshLife]
  /\ attempts' = [attempts EXCEPT ![e] = 0] /\ lock' = [lock EXCEPT ![e] = 0]
  /\ UNCHANGED <<code, proof, address, known, forgets, sinceCode, vouched>>

(* Anybody fails to, with an account or without: INCR, and EXPIRE for the first
   failure, which a crash or an error of Redis may lose.  Nothing makes up for it. *)
FailedLogin(e) ==
  /\ UnderLimit(e)
  /\ attempts' = [attempts EXCEPT ![e] = @ + 1]
  /\ IF attempts[e] = 0
     THEN \E life \in {Window, 0} : lock' = [lock EXCEPT ![e] = life]
     ELSE UNCHANGED lock
  /\ UNCHANGED <<code, proof, address, token, known, forgets, sinceCode, vouched>>

(* /refresh asks only that a row with the token's id exists. *)
Refresh(i) ==
  /\ LoggedIn(i) /\ address[i] # Free
  /\ token' = [token EXCEPT ![i] = Longer(@, AccessLife)]
  /\ UNCHANGED <<code, proof, address, attempts, lock, known, forgets, sinceCode, vouched>>

(* delete_account: the address is free to be signed up again, nothing matches the
   hash it writes, and tokens stay.  Ids is a bound: as long as one is left. *)
DeleteAccount(i) ==
  /\ LoggedIn(i)
  /\ \E j \in Ids : address[j] = Free
  /\ address' = [address EXCEPT ![i] = Anonymous]
  /\ known' = known \ {i}
  /\ UNCHANGED <<code, proof, token, attempts, lock, forgets, sinceCode, vouched>>

Forget(i) ==
  /\ i \in known /\ forgets < MaxForgets
  /\ known' = known \ {i} /\ forgets' = forgets + 1
  /\ UNCHANGED <<code, proof, address, token, attempts, lock, sinceCode, vouched>>

Older(n) == IF n = 0 THEN 0 ELSE n - 1

(* Time passes: keys go and tokens expire when their time has come. *)
Tick ==
  /\ code' = [e \in Emails |-> Older(code[e])]
  /\ proof' = [e \in Emails |-> [s \in Subjects |-> Older(proof[e][s])]]
  /\ token' = [i \in Ids |-> Older(token[i])]
  /\ lock' = [e \in Emails |-> Older(lock[e])]
  /\ attempts' = [e \in Emails |-> IF lock[e] = 1 THEN 0 ELSE attempts[e]]
  /\ sinceCode' = [e \in Emails |-> IF sinceCode[e] < Never THEN sinceCode[e] + 1 ELSE Never]
  /\ UNCHANGED <<address, known, forgets, vouched>>

AccountsNext ==
  \/ \E e \in Emails :
       \/ RequestCode(e) \/ ResetPassword(e) \/ Login(e) \/ FailedLogin(e)
       \/ \E s \in Subjects : VerifyCode(e, s)
       \/ \E i \in Ids : SignUp(e, i)
  \/ \E i \in Ids : Refresh(i) \/ DeleteAccount(i) \/ Forget(i)
  \/ Tick

AccountsSpec == AccountsInit /\ [][AccountsNext]_accountVars

(* An owner who keeps trying: asks for a code, and is at last quick enough with
   it, with the token it gives and with a login between two lock-outs.  Nothing
   is asked of anybody else. *)
Trying(e) ==
  /\ WF_accountVars(RequestCode(e))
  /\ \A s \in Subjects : SF_accountVars(VerifyCode(e, s))
  /\ SF_accountVars(\E i \in Ids : SignUp(e, i))
  /\ SF_accountVars(ResetPassword(e))
  /\ SF_accountVars(Login(e))

TryingSpec == AccountsSpec /\ WF_accountVars(Tick) /\ \A e \in Emails : Trying(e)
-----------------------------------------------------------------------------
AccountsTypeOK ==
  /\ code \in [Emails -> 0..CodeLife]
  /\ proof \in [Emails -> [Subjects -> 0..ProofLife]]
  /\ address \in [Ids -> Emails \union {Free, Anonymous}]
  /\ token \in [Ids -> 0..RefreshLife]
  /\ attempts \in [Emails -> 0..MaxAttempts] /\ lock \in [Emails -> 0..Window]
  /\ known \subseteq Ids /\ forgets \in 0..MaxForgets
  /\ sinceCode \in [Emails -> 0..Never] /\ vouched \in [Ids -> 0..Never]

(* No address has two accounts, whatever is deleted and signed up again. *)
OneAccount == \A i, j \in Ids : address[i] = address[j] /\ address[i] \in Emails => i = j

(* Every password was set less than the life of a code and of an email token
   after a code was asked for at the address, though neither is used up by its
   use. *)
VouchedFresh == \A i \in Ids : vouched[i] <= CodeLife + ProofLife - 2

(* A code and an email token never outlive the request they go back to. *)
LivesCounted ==
  \A e \in Emails :
    /\ code[e] > 0 => code[e] + sinceCode[e] <= CodeLife
    /\ \A s \in Subjects :
         proof[e][s] > 0 => proof[e][s] + sinceCode[e] <= CodeLife + ProofLife - 1

(* A window is that of a counter, and only a row with an address can be logged in
   to. *)
WindowCounts == \A e \in Emails : lock[e] > 0 => attempts[e] > 0
RowsLive == \A i \in Ids : /\ i \in known => address[i] \in Emails
                           /\ token[i] > 0 => address[i] # Free

AccountsInv == AccountsTypeOK /\ OneAccount /\ LivesCounted /\ WindowCounts /\ RowsLive

(* At the limit with a counter that will not go, as its EXPIRE was lost. *)
LockedForGood(e) == attempts[e] >= MaxAttempts /\ lock[e] = 0

(* The owner of an address, who keeps trying, is let in again and again, however
   others fail at its login, and through forgetting, deletion and another
   sign-up: unless an EXPIRE has been lost and the limit was reached then, which
   not even a reset of the password undoes. *)
OwnerGetsIn == \A e \in Emails : []<>(LockedForGood(e) \/ \E i \in Row(e) : LoggedIn(i))
-----------------------------------------------------------------------------
(* Claims of the code that do not hold. *)

Granted(e) == \E s \in Subjects : proof'[e][s] > proof[e][s]

(* "This OTP is valid for 5 minutes", a tick: the key lives for 10. *)
FiveMinutes == [][\A e \in Emails : Granted(e) => sinceCode[e] < 1]_accountVars

(* "one-time password (OTP)": it can be verified again. *)
OneTime == [][\A e \in Emails : Granted(e) => code'[e] = 0]_accountVars
=============================================================================
