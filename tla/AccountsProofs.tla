---------------------------- MODULE AccountsProofs ----------------------------
(***************************************************************************)
(* Accounts, for any addresses, lives and limits: no address has two       *)
(* accounts, and every password goes back to a code asked for shortly      *)
(* before.  LoginAttempts, for any limit and window: how many logins may   *)
(* fail in a window, and what the counter of an address counts.            *)
(***************************************************************************)
EXTENDS Accounts, LoginAttempts, FiniteSetTheorems, TLAPS

IInv == AccountsInv /\ VouchedFresh

(* The lives as the provers are to see them. *)
LEMMA Lives ==
  /\ CodeLife \in Nat \ {0} /\ ProofLife \in Nat \ {0} /\ AccessLife \in Nat \ {0}
  /\ RefreshLife \in Nat \ {0} /\ Window \in Nat \ {0} /\ MaxAttempts \in Nat \ {0}
  /\ AccessLife <= RefreshLife /\ MaxForgets \in Nat
  /\ Free \notin Emails /\ Anonymous \notin Emails /\ Free # Anonymous
  BY LivesAssumption, LimitAssumption, AddressAssumption

LEMMA InitInv == AccountsInit => IInv
<1> SUFFICES ASSUME AccountsInit PROVE IInv
  OBVIOUS
<1> USE Lives DEF AccountsInit
<1>1. AccountsTypeOK
  BY DEF AccountsTypeOK, Subjects, Never
<1>2. OneAccount /\ WindowCounts /\ RowsLive
  BY DEF OneAccount, WindowCounts, RowsLive
<1>3. LivesCounted
  BY DEF LivesCounted
<1>4. VouchedFresh
  BY DEF VouchedFresh
<1> QED BY <1>1, <1>2, <1>3, <1>4 DEF IInv, AccountsInv

(* A request for a code makes a new code and a new age. *)
LEMMA RequestCodeInv == ASSUME IInv, NEW e \in Emails, RequestCode(e) PROVE IInv'
<1> USE Lives DEF IInv, AccountsInv, RequestCode
<1>1. AccountsTypeOK'
  BY DEF AccountsTypeOK, Never
<1>2. OneAccount' /\ WindowCounts' /\ RowsLive' /\ VouchedFresh'
  BY DEF OneAccount, WindowCounts, RowsLive, VouchedFresh
<1>3. LivesCounted'
  <2>1. ASSUME NEW f \in Emails
        PROVE  /\ code'[f] > 0 => code'[f] + sinceCode'[f] <= CodeLife
               /\ \A s \in Subjects :
                    proof'[f][s] > 0 => proof'[f][s] + sinceCode'[f] <= CodeLife + ProofLife - 1
    <3>1. CASE f = e
      BY <3>1 DEF AccountsTypeOK
    <3>2. CASE f # e
      BY <3>2 DEF AccountsTypeOK, LivesCounted
    <3> QED BY <3>1, <3>2
  <2> QED BY <2>1 DEF LivesCounted
<1> QED BY <1>1, <1>2, <1>3

(* An email token is made while its code lives. *)
LEMMA VerifyCodeInv ==
  ASSUME IInv, NEW e \in Emails, NEW s \in Subjects, VerifyCode(e, s)
  PROVE  IInv'
<1> USE Lives DEF IInv, AccountsInv, VerifyCode, CodeStored, CodeKept
<1>1. AccountsTypeOK'
  BY DEF AccountsTypeOK
<1>2. OneAccount' /\ WindowCounts' /\ RowsLive' /\ VouchedFresh'
  BY DEF OneAccount, WindowCounts, RowsLive, VouchedFresh
<1>3. LivesCounted'
  <2>1. code[e] \in Int /\ sinceCode[e] \in Int /\ code[e] + sinceCode[e] <= CodeLife
    BY DEF AccountsTypeOK, LivesCounted, Never
  <2>2. ASSUME NEW f \in Emails, NEW t \in Subjects, proof'[f][t] > 0
        PROVE  proof'[f][t] + sinceCode[f] <= CodeLife + ProofLife - 1
    <3>1. CASE f = e /\ t = s
      BY <2>1, <3>1 DEF AccountsTypeOK
    <3>2. CASE ~(f = e /\ t = s)
      <4>1. proof'[f][t] = proof[f][t]
        BY <3>2 DEF AccountsTypeOK
      <4> QED BY <2>2, <4>1 DEF LivesCounted
    <3> QED BY <3>1, <3>2
  <2> QED BY <2>2 DEF LivesCounted
<1> QED BY <1>1, <1>2, <1>3

(* A password is set while its email token lives. *)
LEMMA TokenFresh ==
  ASSUME IInv, NEW e \in Emails, NEW s \in Subjects, proof[e][s] > 0
  PROVE  sinceCode[e] \in 0..Never /\ sinceCode[e] <= CodeLife + ProofLife - 2
<1>1. /\ proof[e][s] \in 0..ProofLife /\ sinceCode[e] \in 0..Never
      /\ proof[e][s] + sinceCode[e] <= CodeLife + ProofLife - 1
  BY DEF IInv, AccountsInv, AccountsTypeOK, LivesCounted
<1> QED BY <1>1, Lives DEF Never

LEMMA SignUpInv ==
  ASSUME IInv, NEW e \in Emails, NEW i \in Ids, SignUp(e, i)
  PROVE  IInv'
<1> USE Lives DEF SignUp, Verified, Available
<1>1. sinceCode[e] \in 0..Never /\ sinceCode[e] <= CodeLife + ProofLife - 2
  BY TokenFresh DEF Subjects
<1> USE DEF IInv, AccountsInv
<1>2. AccountsTypeOK'
  BY <1>1 DEF AccountsTypeOK
<1>3. OneAccount'
  BY DEF OneAccount, AccountsTypeOK, Row
<1>4. WindowCounts' /\ RowsLive'
  BY DEF WindowCounts, RowsLive, AccountsTypeOK
<1>5. VouchedFresh'
  BY <1>1 DEF VouchedFresh, AccountsTypeOK
<1>6. LivesCounted'
  BY DEF LivesCounted
<1> QED BY <1>2, <1>3, <1>4, <1>5, <1>6

LEMMA ResetPasswordInv ==
  ASSUME IInv, NEW e \in Emails, ResetPassword(e)
  PROVE  IInv'
<1> USE Lives
<1>1. sinceCode[e] \in 0..Never /\ sinceCode[e] <= CodeLife + ProofLife - 2
  BY TokenFresh DEF Subjects, ResetPassword, Verified
<1>2. PICK i \in Row(e) : /\ known' = known \union {i}
                          /\ vouched' = [vouched EXCEPT ![i] = sinceCode[e]]
  BY DEF ResetPassword, Resettable
<1>3. i \in Ids /\ address[i] \in Emails
  BY <1>2 DEF Row
<1>4. UNCHANGED <<code, proof, address, token, attempts, lock, forgets, sinceCode>>
  BY DEF ResetPassword
<1> USE DEF IInv, AccountsInv
<1>5. AccountsTypeOK'
  BY <1>1, <1>2, <1>3, <1>4 DEF AccountsTypeOK
<1>6. OneAccount' /\ WindowCounts' /\ LivesCounted'
  BY <1>4 DEF OneAccount, WindowCounts, LivesCounted
<1>7. RowsLive'
  BY <1>2, <1>3, <1>4 DEF RowsLive
<1>8. VouchedFresh'
  BY <1>1, <1>2, <1>3 DEF VouchedFresh, AccountsTypeOK
<1> QED BY <1>5, <1>6, <1>7, <1>8

(* Logins, renewals and deletions set no password. *)
LEMMA LoginInv == ASSUME IInv, NEW e \in Emails, Login(e) PROVE IInv'
<1> USE Lives DEF IInv, AccountsInv
<1>1. PICK i \in Ids : /\ token' = [token EXCEPT ![i] = RefreshLife]
                       /\ address[i] = e
  BY DEF Login, Row
<1>2. AccountsTypeOK'
  BY <1>1 DEF Login, AccountsTypeOK
<1>3. OneAccount' /\ LivesCounted' /\ VouchedFresh'
  BY DEF Login, OneAccount, LivesCounted, VouchedFresh
<1>4. WindowCounts'
  BY DEF Login, WindowCounts, AccountsTypeOK
<1>5. RowsLive'
  BY <1>1 DEF Login, RowsLive, AccountsTypeOK
<1> QED BY <1>2, <1>3, <1>4, <1>5

LEMMA FailedLoginInv == ASSUME IInv, NEW e \in Emails, FailedLogin(e) PROVE IInv'
<1> USE Lives DEF IInv, AccountsInv, FailedLogin, UnderLimit
<1>0. lock' \in [Emails -> 0..Window]
  <2>1. CASE attempts[e] = 0
    <3>1. PICK life \in {Window, 0} : lock' = [lock EXCEPT ![e] = life]
      BY <2>1
    <3> QED BY <3>1 DEF AccountsTypeOK
  <2>2. CASE attempts[e] # 0
    BY <2>2 DEF AccountsTypeOK
  <2> QED BY <2>1, <2>2
<1>1. AccountsTypeOK'
  <2>1. attempts' \in [Emails -> 0..MaxAttempts]
    BY DEF AccountsTypeOK
  <2> QED BY <1>0, <2>1 DEF AccountsTypeOK
<1>2. OneAccount' /\ LivesCounted' /\ VouchedFresh' /\ RowsLive'
  BY DEF OneAccount, LivesCounted, VouchedFresh, RowsLive
<1>3. WindowCounts'
  BY DEF WindowCounts, AccountsTypeOK
<1> QED BY <1>1, <1>2, <1>3

LEMMA RefreshInv == ASSUME IInv, NEW i \in Ids, Refresh(i) PROVE IInv'
<1> USE Lives DEF IInv, AccountsInv, Refresh, LoggedIn
<1>1. AccountsTypeOK'
  BY DEF AccountsTypeOK, Longer
<1>2. OneAccount' /\ LivesCounted' /\ VouchedFresh' /\ WindowCounts'
  BY DEF OneAccount, LivesCounted, VouchedFresh, WindowCounts
<1>3. RowsLive'
  BY DEF RowsLive, AccountsTypeOK
<1> QED BY <1>1, <1>2, <1>3

LEMMA DeleteAccountInv == ASSUME IInv, NEW i \in Ids, DeleteAccount(i) PROVE IInv'
<1> USE Lives DEF IInv, AccountsInv, DeleteAccount, LoggedIn
<1>1. AccountsTypeOK'
  BY DEF AccountsTypeOK
<1>2. LivesCounted' /\ VouchedFresh' /\ WindowCounts'
  BY DEF LivesCounted, VouchedFresh, WindowCounts
<1>3. OneAccount' /\ RowsLive'
  BY DEF OneAccount, RowsLive, AccountsTypeOK
<1> QED BY <1>1, <1>2, <1>3

LEMMA ForgetInv == ASSUME IInv, NEW i \in Ids, Forget(i) PROVE IInv'
<1> USE Lives DEF IInv, AccountsInv, Forget
<1>1. AccountsTypeOK'
  BY DEF AccountsTypeOK
<1>2. LivesCounted' /\ VouchedFresh' /\ WindowCounts' /\ OneAccount'
  BY DEF LivesCounted, VouchedFresh, WindowCounts, OneAccount
<1>3. RowsLive'
  BY DEF RowsLive
<1> QED BY <1>1, <1>2, <1>3

(* The passing of time shortens lives as it lengthens the age of the request. *)
LEMMA TickInv == ASSUME IInv, Tick PROVE IInv'
<1> USE Lives DEF IInv, AccountsInv, Tick
<1>1. \A n \in Nat : Older(n) \in Nat /\ Older(n) <= n /\ (Older(n) > 0 => n = Older(n) + 1)
                     /\ (n > 1 => Older(n) > 0)
  BY DEF Older
<1>2. AccountsTypeOK'
  <2>1. code' \in [Emails -> 0..CodeLife]
    BY <1>1 DEF AccountsTypeOK
  <2>2. proof' \in [Emails -> [Subjects -> 0..ProofLife]]
    BY <1>1 DEF AccountsTypeOK
  <2>3. token' \in [Ids -> 0..RefreshLife] /\ lock' \in [Emails -> 0..Window]
    BY <1>1 DEF AccountsTypeOK
  <2>4. attempts' \in [Emails -> 0..MaxAttempts] /\ sinceCode' \in [Emails -> 0..Never]
    BY DEF AccountsTypeOK, Never
  <2> QED BY <2>1, <2>2, <2>3, <2>4 DEF AccountsTypeOK
<1>3. LivesCounted'
  <2>1. ASSUME NEW e \in Emails, code'[e] > 0
        PROVE  code'[e] + sinceCode'[e] <= CodeLife
    BY <1>1, <2>1 DEF LivesCounted, AccountsTypeOK, Never
  <2>2. ASSUME NEW e \in Emails, NEW s \in Subjects, proof'[e][s] > 0
        PROVE  proof'[e][s] + sinceCode'[e] <= CodeLife + ProofLife - 1
    <3>1. proof[e][s] \in Nat /\ proof'[e][s] = Older(proof[e][s]) /\ sinceCode[e] \in 0..Never
      BY DEF AccountsTypeOK
    <3> QED BY <1>1, <2>2, <3>1 DEF LivesCounted, Never
  <2> QED BY <2>1, <2>2 DEF LivesCounted
<1>4. WindowCounts'
  BY <1>1 DEF WindowCounts, AccountsTypeOK
<1>5. RowsLive'
  BY <1>1 DEF RowsLive, AccountsTypeOK
<1>6. OneAccount' /\ VouchedFresh'
  BY DEF OneAccount, VouchedFresh
<1> QED BY <1>2, <1>3, <1>4, <1>5, <1>6

LEMMA NextInv == IInv /\ [AccountsNext]_accountVars => IInv'
<1> SUFFICES ASSUME IInv, [AccountsNext]_accountVars PROVE IInv'
  OBVIOUS
<1>1. CASE AccountsNext
  BY <1>1, RequestCodeInv, VerifyCodeInv, SignUpInv, ResetPasswordInv, LoginInv,
     FailedLoginInv, RefreshInv, DeleteAccountInv, ForgetInv, TickInv DEF AccountsNext
<1>2. CASE UNCHANGED accountVars
  BY <1>2 DEF accountVars, IInv, AccountsInv, AccountsTypeOK, OneAccount, LivesCounted,
     WindowCounts, RowsLive, VouchedFresh
<1> QED BY <1>1, <1>2

LEMMA IInvAlways == AccountsSpec => []IInv
BY InitInv, NextInv, PTL DEF AccountsSpec

(* No address has two accounts, and what is alive is accounted for. *)
THEOREM AccountsInvAlways == AccountsSpec => []AccountsInv
<1>1. IInv => AccountsInv
  BY DEF IInv
<1> QED BY <1>1, IInvAlways, PTL

(* Every password goes back to a code asked for at the address less than the two
   lives before. *)
THEOREM AlwaysVouchedFresh == AccountsSpec => []VouchedFresh
<1>1. IInv => VouchedFresh
  BY DEF IInv
<1> QED BY <1>1, IInvAlways, PTL

-----------------------------------------------------------------------------
(* LoginAttempts. *)

(* Failures are numbered, those of the key that stands come last: Current are
   the ones that the counter has counted. *)
Total == Cardinality(failures)
Current == {f \in failures : f[2] > Total - counter}
Earlier == failures \ Current
EarlierSince(t) == {f \in Earlier : f[1] >= t}

FailuresNumbered ==
  /\ now \in Nat /\ counter \in Nat /\ expiry \in Nat /\ IsFiniteSet(failures)
  /\ failures \subseteq Nat \X (1..Total)
  /\ \A f \in failures : f[1] <= now

(* What a key counts, and until when. *)
KeySound ==
  /\ handler \in {"idle", "checked", "counted"}
  /\ counter <= MaxAttempts /\ (handler = "checked" => counter < MaxAttempts)
  /\ Cardinality(Current) = counter
  /\ counter = 0 => expiry = 0 /\ \A f \in failures : f[1] < now
  /\ \A e \in Earlier, f \in Current : e[1] < f[1]
  /\ handler = "counted" => counter > 0
  /\ handler = "counted" /\ counter = 1 => expiry = 0 /\ \A f \in Current : f[1] = now

(* A key with a time to live goes a window after the first failure it counts. *)
WindowSound ==
  expiry # 0 =>
    /\ now < expiry /\ expiry <= now + Window
    /\ \A f \in Current : f[1] >= expiry - Window
    /\ \E f \in Current : f[1] = expiry - Window

(* Of the failures before, fewer than the limit are in any shorter stretch. *)
EarlierFew == Cardinality(EarlierSince(now - Window + 1)) < MaxAttempts

CounterInv == FailuresNumbered /\ KeySound /\ WindowSound /\ EarlierFew

LEMMA FailureSets ==
  ASSUME FailuresNumbered
  PROVE  /\ Total \in Nat
         /\ IsFiniteSet(Current) /\ Cardinality(Current) \in Nat
         /\ \A t \in Int : IsFiniteSet(EarlierSince(t)) /\ Cardinality(EarlierSince(t)) \in Nat
<1>1. Total \in Nat BY FS_CardinalityType DEF FailuresNumbered, Total
<1>2. IsFiniteSet(Current) BY FS_Subset DEF FailuresNumbered, Current
<1>3. \A t \in Int : IsFiniteSet(EarlierSince(t))
  BY FS_Subset DEF FailuresNumbered, Earlier, EarlierSince
<1>4. QED BY <1>1, <1>2, <1>3, FS_CardinalityType

(* In a stretch shorter than a window are, of the failures the key counts, at most
   all, and of those before fewer than the limit. *)
LEMMA CounterInvImplies ==
  ASSUME CounterInv
  PROVE  TwiceTheLimit /\ CounterCounts
<1> USE DEF CounterInv, FailuresNumbered, KeySound
<1> DEFINE t == now - Window + 1
<1>1. t \in Int /\ MaxAttempts \in Nat BY LimitAssumption
<1>2. TwiceTheLimit
  <2>1. FailuresSince(t) \subseteq Current \union EarlierSince(t)
    BY DEF FailuresSince, Earlier, EarlierSince
  <2>2. /\ IsFiniteSet(Current \union EarlierSince(t))
        /\ Cardinality(Current \union EarlierSince(t)) \in Nat
        /\ Cardinality(Current \union EarlierSince(t))
             <= Cardinality(Current) + Cardinality(EarlierSince(t))
    <3>1. IsFiniteSet(Current) /\ IsFiniteSet(EarlierSince(t)) BY <1>1, FailureSets
    <3>2. IsFiniteSet(Current \intersect EarlierSince(t)) BY <3>1, FS_Intersection
    <3>3. /\ IsFiniteSet(Current \union EarlierSince(t))
          /\ Cardinality(Current \union EarlierSince(t))
               = Cardinality(Current) + Cardinality(EarlierSince(t))
                   - Cardinality(Current \intersect EarlierSince(t))
      BY <3>1, FS_Union
    <3>4. QED BY <3>1, <3>2, <3>3, FS_CardinalityType
  <2>3. /\ Cardinality(FailuresSince(t)) \in Nat
        /\ Cardinality(FailuresSince(t)) <= Cardinality(Current \union EarlierSince(t))
    BY <2>1, <2>2, FS_Subset, FS_CardinalityType
  <2>4. Cardinality(EarlierSince(t)) < MaxAttempts BY DEF EarlierFew
  <2>5. Cardinality(EarlierSince(t)) \in Nat BY <1>1, FailureSets
  <2>6. Cardinality(FailuresSince(t)) < 2 * MaxAttempts
    BY <1>1, <2>2, <2>3, <2>4, <2>5
  <2>7. QED BY <2>6 DEF TwiceTheLimit
<1>3. CounterCounts
  <2>1. SUFFICES ASSUME expiry # 0 PROVE FailuresSince(expiry - Window) = Current
    BY DEF CounterCounts
  <2>2. PICK f \in Current : f[1] = expiry - Window BY <2>1 DEF WindowSound
  <2>3. \A e \in Earlier : e[1] < expiry - Window BY <2>2
  <2>4. \A e \in Current : e[1] >= expiry - Window BY <2>1 DEF WindowSound
  <2>5. \A e \in failures : e[1] \in Int BY DEF Current
  <2>6. expiry - Window \in Int BY LimitAssumption
  <2>7. QED
    BY <2>3, <2>4, <2>5, <2>6 DEF FailuresSince, Earlier, Current
<1>4. QED BY <1>2, <1>3

-----------------------------------------------------------------------------
LEMMA CounterInitInv == LoginInit => CounterInv
<1> SUFFICES ASSUME LoginInit PROVE CounterInv OBVIOUS
<1> USE DEF LoginInit
<1>1. IsFiniteSet(failures) /\ Total = 0 BY FS_EmptySet DEF Total
<1>2. Current = {} /\ Earlier = {} /\ \A t : EarlierSince(t) = {}
  BY DEF Current, Earlier, EarlierSince
<1>3. FailuresNumbered BY <1>1 DEF FailuresNumbered
<1>4. KeySound BY <1>2, FS_EmptySet, LimitAssumption DEF KeySound
<1>5. WindowSound BY DEF WindowSound
<1>6. EarlierFew BY <1>2, FS_EmptySet, LimitAssumption DEF EarlierFew
<1>7. QED BY <1>3, <1>4, <1>5, <1>6 DEF CounterInv

(* Steps that neither fail nor let time pass. *)
LEMMA AttemptInv == ASSUME CounterInv, Attempt PROVE CounterInv'
<1> USE DEF CounterInv, Attempt, CountUnderLimit
<1>1. Total' = Total /\ Current' = Current /\ Earlier' = Earlier
      /\ EarlierSince(now - Window + 1)' = EarlierSince(now - Window + 1)
  BY DEF Total, Current, Earlier, EarlierSince
<1>2. FailuresNumbered' BY <1>1 DEF FailuresNumbered
<1>3. KeySound' BY <1>1 DEF KeySound
<1>4. WindowSound' BY <1>1 DEF WindowSound
<1>5. EarlierFew' BY <1>1 DEF EarlierFew
<1>6. QED BY <1>2, <1>3, <1>4, <1>5

LEMMA ExpireLostInv == ASSUME CounterInv, ExpireLost PROVE CounterInv'
<1> USE DEF CounterInv, ExpireLost
<1>1. Total' = Total /\ Current' = Current /\ Earlier' = Earlier
      /\ EarlierSince(now - Window + 1)' = EarlierSince(now - Window + 1)
  BY DEF Total, Current, Earlier, EarlierSince
<1>2. FailuresNumbered' BY <1>1 DEF FailuresNumbered
<1>3. KeySound' BY <1>1 DEF KeySound
<1>4. WindowSound' BY <1>1 DEF WindowSound
<1>5. EarlierFew' BY <1>1 DEF EarlierFew
<1>6. QED BY <1>2, <1>3, <1>4, <1>5

LEMMA SetExpiryInv == ASSUME CounterInv, SetExpiry PROVE CounterInv'
<1> USE DEF CounterInv, SetExpiry, FirstAttempt
<1>1. Total' = Total /\ Current' = Current /\ Earlier' = Earlier
      /\ EarlierSince(now - Window + 1)' = EarlierSince(now - Window + 1)
  BY DEF Total, Current, Earlier, EarlierSince
<1>2. FailuresNumbered' BY <1>1, LimitAssumption DEF FailuresNumbered
<1>3. KeySound' BY <1>1 DEF KeySound
<1>4. WindowSound'
  <2>1. CASE counter = 1
    <3>1. expiry' = now + Window /\ now' = now /\ now \in Nat
      BY <2>1 DEF FailuresNumbered
    <3>2. \A f \in Current : f[1] = now BY <2>1 DEF KeySound
    <3>3. Current # {} BY <2>1, FS_EmptySet DEF KeySound
    <3>4. Window \in Nat \ {0} /\ expiry' - Window = now BY <3>1, LimitAssumption
    <3> HIDE DEF CounterInv, SetExpiry, FirstAttempt
    <3>5. now' < expiry' /\ expiry' <= now' + Window BY <3>1, <3>4
    <3>6. \A f \in Current' : f[1] >= expiry' - Window BY <1>1, <3>1, <3>2, <3>4
    <3>7. \E f \in Current' : f[1] = expiry' - Window BY <1>1, <3>2, <3>3, <3>4
    <3>8. QED BY <3>5, <3>6, <3>7 DEF WindowSound
  <2>2. CASE counter # 1
    <3>1. expiry' = expiry /\ now' = now BY <2>2
    <3>2. WindowSound OBVIOUS
    <3>3. QED BY <1>1, <3>1, <3>2 DEF WindowSound
  <2>3. QED BY <2>1, <2>2
<1>5. EarlierFew' BY <1>1 DEF EarlierFew
<1>6. QED BY <1>2, <1>3, <1>4, <1>5

LEMMA GoodLoginInv == ASSUME CounterInv, GoodLogin PROVE CounterInv'
<1> USE DEF GoodLogin
<1>1. IsFiniteSet(failures') /\ Total' = 0 BY FS_EmptySet DEF Total
<1>2. Current' = {} /\ Earlier' = {} /\ EarlierSince(now - Window + 1)' = {}
  BY DEF Current, Earlier, EarlierSince
<1>3. FailuresNumbered' BY <1>1 DEF CounterInv, FailuresNumbered
<1>4. KeySound' BY <1>2, FS_EmptySet, LimitAssumption DEF KeySound
<1>5. WindowSound' BY DEF WindowSound
<1>6. EarlierFew' BY <1>2, FS_EmptySet, LimitAssumption DEF EarlierFew
<1>7. QED BY <1>3, <1>4, <1>5, <1>6 DEF CounterInv

(* A failure takes the next number and is counted. *)
LEMMA CountFailureInv == ASSUME CounterInv, CountFailure PROVE CounterInv'
<1> DEFINE new == <<now, Total + 1>>
<1>1. FailuresNumbered /\ KeySound /\ WindowSound /\ EarlierFew BY DEF CounterInv
<1>2. /\ failures' = failures \union {new} /\ counter' = counter + 1
      /\ now' = now /\ expiry' = expiry /\ handler' = "counted" /\ handler = "checked"
  BY DEF CountFailure, Total
<1>3. Total \in Nat /\ now \in Nat /\ counter \in Nat /\ counter < MaxAttempts
  BY <1>1, <1>2, FailureSets DEF FailuresNumbered, KeySound
<1>4. \A f \in failures : f[2] \in 1..Total /\ f[1] \in Nat BY <1>1 DEF FailuresNumbered
<1>5. new \notin failures BY <1>3, <1>4
<1>6. IsFiniteSet(failures') /\ Total' = Total + 1
  BY <1>1, <1>2, <1>5, FS_AddElement DEF FailuresNumbered, Total
<1>7. /\ Current' = Current \union {new}
  <2>1. \A f \in failures : f[2] > Total' - counter' <=> f[2] > Total - counter
    BY <1>2, <1>3, <1>4, <1>6
  <2>2. new[2] > Total' - counter' BY <1>2, <1>3, <1>6
  <2>3. QED BY <1>2, <2>1, <2>2 DEF Current
<1>8. Earlier' = Earlier BY <1>2, <1>5, <1>7 DEF Earlier, Current
<1>9. FailuresNumbered'
  <2>1. failures' \subseteq Nat \X (1..Total')
    <3>1. failures \subseteq Nat \X (1..Total) BY <1>1 DEF FailuresNumbered
    <3>2. (1..Total) \subseteq 1..Total' /\ Total + 1 \in 1..Total' BY <1>3, <1>6
    <3>3. QED BY <1>2, <1>3, <3>1, <3>2
  <2>2. \A f \in failures' : f[1] <= now' BY <1>1, <1>2, <1>3 DEF FailuresNumbered
  <2>3. counter' \in Nat /\ now' \in Nat /\ expiry' \in Nat
    BY <1>1, <1>2 DEF FailuresNumbered
  <2>4. QED BY <1>6, <2>1, <2>2, <2>3 DEF FailuresNumbered
<1>10. \A e \in Earlier : e[1] < now
  <2>1. CASE counter = 0 BY <1>1, <2>1 DEF KeySound, Earlier
  <2>2. CASE counter # 0
    <3>1. PICK f \in Current : TRUE BY <1>1, <2>2, FS_EmptySet DEF KeySound
    <3>2. f \in failures /\ \A e \in Earlier : e[1] < f[1] /\ e \in failures
      BY <1>1 DEF KeySound, Current, Earlier
    <3>3. f[1] <= now BY <1>1, <3>2 DEF FailuresNumbered
    <3>4. QED BY <1>3, <1>4, <3>2, <3>3
  <2>3. QED BY <2>1, <2>2
<1>11. KeySound'
  <2>1. Cardinality(Current') = counter'
    <3>1. new \notin Current BY <1>5 DEF Current
    <3>2. QED BY <1>1, <1>2, <1>7, <3>1, FailureSets, FS_AddElement DEF KeySound
  <2>2. \A e \in Earlier', f \in Current' : e[1] < f[1]
    BY <1>1, <1>7, <1>8, <1>10 DEF KeySound
  <2>3. counter' = 1 => expiry' = 0 /\ \A f \in Current' : f[1] = now'
    <3>1. counter' = 1 => counter = 0 BY <1>2, <1>3
    <3>2. counter = 0 => expiry = 0 /\ Current = {}
      BY <1>1, FailureSets, FS_EmptySet DEF KeySound
    <3>3. QED BY <1>2, <1>7, <3>1, <3>2
  <2>4. counter' <= MaxAttempts /\ counter' > 0 BY <1>2, <1>3, LimitAssumption
  <2>5. QED BY <1>2, <2>1, <2>2, <2>3, <2>4 DEF KeySound
<1>12. WindowSound'
  <2>1. expiry # 0 => new[1] >= expiry - Window
    BY <1>1, <1>3, LimitAssumption DEF WindowSound, FailuresNumbered
  <2>2. QED BY <1>1, <1>2, <1>7, <2>1 DEF WindowSound
<1>13. EarlierFew'
  <2>1. EarlierSince(now - Window + 1)' = EarlierSince(now - Window + 1)
    BY <1>2, <1>8 DEF EarlierSince
  <2>2. QED BY <1>1, <2>1 DEF EarlierFew
<1>14. QED BY <1>9, <1>11, <1>12, <1>13 DEF CounterInv

(* Time passes.  When the key goes, what it counted is earlier from now on, and
   the first of it is already a window ago. *)
LEMMA TimePassesInv == ASSUME CounterInv, TimePasses PROVE CounterInv'
<1>1. FailuresNumbered /\ KeySound /\ WindowSound /\ EarlierFew BY DEF CounterInv
<1>2. /\ now' = now + 1 /\ failures' = failures /\ handler' = handler
      /\ handler # "counted" /\ Total' = Total
  BY DEF TimePasses, Total
<1>3. Total \in Nat /\ now \in Nat /\ counter \in Nat /\ expiry \in Nat
      /\ Window \in Nat \ {0} /\ MaxAttempts \in Nat \ {0}
  BY <1>1, FailureSets, LimitAssumption DEF FailuresNumbered
<1>4. \A f \in failures : f[2] \in 1..Total /\ f[1] \in Nat /\ f[1] <= now
  BY <1>1 DEF FailuresNumbered
<1> DEFINE t == now - Window + 2
<1>5. CASE expiry = now + 1
  <2>1. counter' = 0 /\ expiry' = 0 BY <1>5 DEF TimePasses
  <2>2. Current' = {} /\ Earlier' = failures
    BY <1>2, <1>3, <1>4, <2>1 DEF Current, Earlier
  <2>3. FailuresNumbered' BY <1>1, <1>2, <1>3, <1>4, <2>1 DEF FailuresNumbered
  <2>4. KeySound'
    BY <1>1, <1>2, <1>3, <1>4, <2>1, <2>2, FS_EmptySet DEF KeySound
  <2>5. WindowSound' BY <2>1 DEF WindowSound
  <2>6. EarlierFew'
    <3>1. PICK f \in Current : f[1] = expiry - Window
      BY <1>3, <1>1, <1>5 DEF WindowSound
    <3>2. \A e \in failures : e[1] >= t => e \in Current \ {f}
      <4>1. \A e \in Earlier : e[1] < f[1] BY <1>1, <3>1 DEF KeySound
      <4>2. f[1] = t - 1 BY <1>3, <1>5, <3>1
      <4>3. \A e \in failures : e[1] >= t => e \notin Earlier /\ e # f
        BY <1>3, <1>4, <4>1, <4>2
      <4>4. QED BY <4>3 DEF Earlier
    <3>3. EarlierSince(now - Window + 1)' \subseteq Current \ {f}
      <4>1. (now - Window + 1)' = t BY <1>2, <1>3
      <4>2. QED BY <2>2, <3>2, <4>1 DEF EarlierSince
    <3>4. IsFiniteSet(Current \ {f}) /\ Cardinality(Current \ {f}) = counter - 1
      BY <1>1, <3>1, FailureSets, FS_RemoveElement DEF KeySound
    <3>5. /\ Cardinality(EarlierSince(now - Window + 1)') \in Nat
          /\ Cardinality(EarlierSince(now - Window + 1)') <= counter - 1
      BY <3>3, <3>4, FS_Subset, FS_CardinalityType
    <3>6. counter <= MaxAttempts BY <1>1 DEF KeySound
    <3>7. QED BY <1>3, <3>5, <3>6 DEF EarlierFew
  <2>7. QED BY <2>3, <2>4, <2>5, <2>6 DEF CounterInv
<1>6. CASE expiry # now + 1
  <2>1. counter' = counter /\ expiry' = expiry BY <1>6 DEF TimePasses
  <2>2. Current' = Current /\ Earlier' = Earlier
    BY <1>2, <2>1 DEF Current, Earlier
  <2>3. FailuresNumbered' BY <1>1, <1>2, <1>3, <1>4, <2>1 DEF FailuresNumbered
  <2>4. KeySound'
    BY <1>1, <1>2, <1>3, <1>4, <2>1, <2>2 DEF KeySound
  <2>5. WindowSound'
    BY <1>1, <1>2, <1>3, <1>6, <2>1, <2>2 DEF WindowSound
  <2>6. EarlierFew'
    <3>1. EarlierSince(now - Window + 1)' \subseteq EarlierSince(now - Window + 1)
      BY <1>2, <1>3, <1>4, <2>2 DEF EarlierSince, Earlier
    <3>2. /\ IsFiniteSet(EarlierSince(now - Window + 1))
          /\ Cardinality(EarlierSince(now - Window + 1)) \in Nat
      BY <1>1, <1>3, FailureSets
    <3>3. /\ Cardinality(EarlierSince(now - Window + 1)') \in Nat
          /\ Cardinality(EarlierSince(now - Window + 1)')
               <= Cardinality(EarlierSince(now - Window + 1))
      BY <3>1, <3>2, FS_Subset, FS_CardinalityType
    <3>4. QED BY <1>1, <1>3, <3>2, <3>3 DEF EarlierFew
  <2>7. QED BY <2>3, <2>4, <2>5, <2>6 DEF CounterInv
<1>7. QED BY <1>5, <1>6

LEMMA CounterNextInv == CounterInv /\ [LoginNext]_attemptVars => CounterInv'
<1> SUFFICES ASSUME CounterInv, [LoginNext]_attemptVars PROVE CounterInv' OBVIOUS
<1>1. CASE UNCHANGED attemptVars
  BY <1>1 DEF attemptVars, CounterInv, FailuresNumbered, KeySound, WindowSound, EarlierFew,
     Total, Current, Earlier, EarlierSince
<1>2. QED
  BY <1>1, AttemptInv, CountFailureInv, SetExpiryInv, ExpireLostInv, GoodLoginInv,
     TimePassesInv DEF LoginNext

(* Fewer than twice the limit of logins fail in any stretch of time shorter than
   the window, since the last good one, though an EXPIRE may be lost. *)
THEOREM TwiceTheLimitAlways == LoginSpec => []TwiceTheLimit
<1>1. LoginInit => CounterInv BY CounterInitInv
<1>2. CounterInv /\ [LoginNext]_attemptVars => CounterInv' BY CounterNextInv
<1>3. CounterInv => TwiceTheLimit BY CounterInvImplies
<1>4. QED BY <1>1, <1>2, <1>3, PTL DEF LoginSpec

(* A counter that will go has counted exactly the failures since its window
   began. *)
THEOREM CounterCountsAlways == LoginSpec => []CounterCounts
<1>1. LoginInit => CounterInv BY CounterInitInv
<1>2. CounterInv /\ [LoginNext]_attemptVars => CounterInv' BY CounterNextInv
<1>3. CounterInv => CounterCounts BY CounterInvImplies
<1>4. QED BY <1>1, <1>2, <1>3, PTL DEF LoginSpec
-----------------------------------------------------------------------------
(* What each step of a login is to everybody else: the second call of Redis, or
   its loss, is the failure, the first and the check before it are nothing. *)
LEMMA LoginSimulates == CounterInv /\ [LoginNext]_attemptVars => [Whole!Next]_Whole!vars
<1> SUFFICES ASSUME CounterInv, [LoginNext]_attemptVars PROVE [Whole!Next]_Whole!vars
  OBVIOUS
<1>0. /\ counter \in Nat /\ counter <= MaxAttempts /\ MaxAttempts \in Nat /\ Window \in Nat \ {0}
      /\ handler = "checked" => counter < MaxAttempts
      /\ handler = "counted" => counter > 0
      /\ handler = "counted" /\ counter = 1 => expiry = 0
      /\ now \in Nat /\ expiry \in Nat /\ (expiry # 0 => now < expiry)
      /\ counter = 0 => expiry = 0
  BY FailureSets, LimitAssumption DEF CounterInv, FailuresNumbered, KeySound, WindowSound
<1>1. CASE Attempt
  BY <1>1 DEF Attempt, Counted, Remains, Whole!vars
<1>2. CASE CountFailure
  BY <1>0, <1>2 DEF CountFailure, Counted, Remains, Whole!vars
<1>3. CASE SetExpiry
  <2>1. Counted < MaxAttempts /\ Counted' = Counted + 1
    BY <1>0, <1>3 DEF SetExpiry, Counted
  <2>2. CASE counter = 1
    BY <1>0, <1>3, <2>1, <2>2
       DEF SetExpiry, FirstAttempt, Counted, Remains, Whole!Next, Whole!Fail, Whole!UnderLimit
  <2>3. CASE counter # 1
    <3>1. Counted # 0 /\ Remains' = Remains
      BY <1>0, <1>3, <2>3 DEF SetExpiry, FirstAttempt, Counted, Remains
    <3> QED BY <2>1, <3>1 DEF Whole!Next, Whole!Fail, Whole!UnderLimit
  <2> QED BY <2>2, <2>3
<1>4. CASE ExpireLost
  <2>1. /\ Counted < MaxAttempts /\ Counted' = Counted + 1
        /\ Remains' = Remains /\ (Counted = 0 => Remains = 0)
    BY <1>0, <1>4 DEF ExpireLost, Counted, Remains
  <2> QED BY <2>1 DEF Whole!Next, Whole!Fail, Whole!UnderLimit
<1>5. CASE GoodLogin
  BY <1>0, <1>5 DEF GoodLogin, Counted, Remains, Whole!Next, Whole!Succeed, Whole!UnderLimit
<1>6. CASE TimePasses
  <2>1. Counted = counter /\ Counted' = counter'
    BY <1>6 DEF TimePasses, Counted
  <2>2. CASE expiry = 0
    BY <1>0, <1>6, <2>1, <2>2 DEF TimePasses, Remains, Whole!vars
  <2>3. CASE expiry # 0
    <3>1. Remains > 0 /\ Remains' = Remains - 1
          /\ counter' = IF Remains = 1 THEN 0 ELSE counter
      BY <1>0, <1>6, <2>3 DEF TimePasses, Remains
    <3> QED BY <2>1, <3>1 DEF Whole!Next, Whole!Pass
  <2> QED BY <2>2, <2>3
<1>7. CASE UNCHANGED attemptVars
  BY <1>7 DEF attemptVars, Counted, Remains, Whole!vars
<1> QED BY <1>1, <1>2, <1>3, <1>4, <1>5, <1>6, <1>7 DEF LoginNext

(* The two calls of Redis, with a death or a refusal between them, implement the
   counter that changes in one step. *)
THEOREM LoginCountsAsOne == LoginSpec => CountsAsOne
<1>1. LoginInit => Whole!Init BY DEF LoginInit, Counted, Remains, Whole!Init
<1>2. CounterInv /\ [LoginNext]_attemptVars => [Whole!Next]_Whole!vars BY LoginSimulates
<1>3. LoginInit => CounterInv BY CounterInitInv
<1>4. CounterInv /\ [LoginNext]_attemptVars => CounterInv' BY CounterNextInv
<1> QED BY <1>1, <1>2, <1>3, <1>4, PTL DEF LoginSpec, CountsAsOne, Whole!Spec
-----------------------------------------------------------------------------
(* The counter of each address in Accounts. *)
Limit(e) == INSTANCE FailureCounter WITH count <- attempts[e], life <- lock[e]

(* Logging in to one address leaves the counters of the others alone. *)
LEMMA AddressSimulates ==
  ASSUME NEW e \in Emails, IInv, [AccountsNext]_accountVars
  PROVE  [Limit(e)!Next]_(Limit(e)!vars)
<1>0. /\ attempts \in [Emails -> 0..MaxAttempts] /\ lock \in [Emails -> 0..Window]
      /\ Window \in Nat /\ MaxAttempts \in Nat
  BY LimitAssumption DEF IInv, AccountsInv, AccountsTypeOK
<1>1. CASE UNCHANGED <<attempts, lock>>
  BY <1>1 DEF Limit!vars
<1>2. ASSUME NEW f \in Emails, Login(f) PROVE [Limit(e)!Next]_(Limit(e)!vars)
  BY <1>0, <1>2 DEF Login, UnderLimit, Limit!Next, Limit!Succeed, Limit!UnderLimit, Limit!vars
<1>3. ASSUME NEW f \in Emails, FailedLogin(f) PROVE [Limit(e)!Next]_(Limit(e)!vars)
  BY <1>0, <1>3 DEF FailedLogin, UnderLimit, Limit!Next, Limit!Fail, Limit!UnderLimit, Limit!vars
<1>4. CASE Tick
  BY <1>0, <1>4 DEF Tick, Older, Limit!Next, Limit!Pass, Limit!vars
<1>5. CASE UNCHANGED accountVars
  BY <1>1, <1>5 DEF accountVars
<1>6. ASSUME NEW f \in Emails,
             \/ RequestCode(f) \/ ResetPassword(f)
             \/ \E s \in Subjects : VerifyCode(f, s)
             \/ \E i \in Ids : SignUp(f, i)
      PROVE  UNCHANGED <<attempts, lock>>
  BY <1>6 DEF RequestCode, ResetPassword, VerifyCode, SignUp
<1>7. ASSUME NEW i \in Ids, Refresh(i) \/ DeleteAccount(i) \/ Forget(i)
      PROVE  UNCHANGED <<attempts, lock>>
  BY <1>7 DEF Refresh, DeleteAccount, Forget
<1> QED BY <1>1, <1>2, <1>3, <1>4, <1>5, <1>6, <1>7 DEF AccountsNext

(* The same counter is what Accounts keeps for each address, whatever else is done
   with the address and whoever tries: neither a reset, nor a deletion, nor another
   sign-up touches it, so that one whose window was lost stays until a good login. *)
THEOREM AddressesKeepLimit == AccountsSpec => \A e \in Emails : Limit(e)!Spec
<1> SUFFICES ASSUME NEW e \in Emails PROVE AccountsSpec => Limit(e)!Spec
  OBVIOUS
<1>1. AccountsInit => Limit(e)!Init BY DEF AccountsInit, Limit!Init
<1>2. IInv /\ [AccountsNext]_accountVars => [Limit(e)!Next]_(Limit(e)!vars) BY AddressSimulates
<1> QED BY <1>1, <1>2, IInvAlways, PTL DEF AccountsSpec, Limit!Spec

(* At the limit, with the window lost, no step lets the address out. *)
LEMMA LockedStep ==
  ASSUME NEW e \in Emails, IInv, LockedForGood(e), [AccountsNext]_accountVars
  PROVE  LockedForGood(e)'
<1>0. /\ attempts \in [Emails -> 0..MaxAttempts] /\ lock \in [Emails -> 0..Window]
      /\ MaxAttempts \in Nat /\ attempts[e] >= MaxAttempts /\ lock[e] = 0
  BY LimitAssumption DEF IInv, AccountsInv, AccountsTypeOK, LockedForGood
<1>1. CASE UNCHANGED <<attempts, lock>>
  BY <1>0, <1>1 DEF LockedForGood
<1>2. ASSUME NEW f \in Emails, Login(f) PROVE LockedForGood(e)'
  BY <1>0, <1>2 DEF Login, UnderLimit, LockedForGood
<1>3. ASSUME NEW f \in Emails, FailedLogin(f) PROVE LockedForGood(e)'
  BY <1>0, <1>3 DEF FailedLogin, UnderLimit, LockedForGood
<1>4. CASE Tick
  BY <1>0, <1>4 DEF Tick, Older, LockedForGood
<1>5. CASE UNCHANGED accountVars
  BY <1>1, <1>5 DEF accountVars
<1>6. ASSUME NEW f \in Emails,
             \/ RequestCode(f) \/ ResetPassword(f)
             \/ \E s \in Subjects : VerifyCode(f, s)
             \/ \E i \in Ids : SignUp(f, i)
      PROVE  UNCHANGED <<attempts, lock>>
  BY <1>6 DEF RequestCode, ResetPassword, VerifyCode, SignUp
<1>7. ASSUME NEW i \in Ids, Refresh(i) \/ DeleteAccount(i) \/ Forget(i)
      PROVE  UNCHANGED <<attempts, lock>>
  BY <1>7 DEF Refresh, DeleteAccount, Forget
<1> QED BY <1>1, <1>2, <1>3, <1>4, <1>5, <1>6, <1>7 DEF AccountsNext

(* The code has no way out of a lost window: an address that comes to the limit
   without one is locked for good, whatever is reset, deleted or signed up again.
   Only this keeps OwnerGetsIn from being []<> of a login. *)
THEOREM LockOutStays ==
  AccountsSpec => \A e \in Emails : [](LockedForGood(e) => []LockedForGood(e))
<1> SUFFICES ASSUME NEW e \in Emails
             PROVE  AccountsSpec => [](LockedForGood(e) => []LockedForGood(e))
  OBVIOUS
<1>1. IInv /\ LockedForGood(e) /\ [AccountsNext]_accountVars => LockedForGood(e)'
  BY LockedStep
<1> QED BY <1>1, IInvAlways, PTL DEF AccountsSpec
=============================================================================
