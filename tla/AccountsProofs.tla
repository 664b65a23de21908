--------------------------- MODULE AccountsProofs --------------------------
(***************************************************************************)
(* What Accounts guarantees for any number of accounts, sessions and       *)
(* requests.  Each part is inductive once the variables have their types.  *)
(***************************************************************************)
EXTENDS Accounts, TLAPS

AInv == ATypeOK /\ CodeOnce /\ SessionsBurned

---------------------------------------------------------------------------
LEMMA Limit == /\ MaxFailed \in Nat \ {0} /\ 0 \in 0..MaxFailed
               /\ Nobody \notin Users \cup Sessions
  BY AccountsAssumption

\* The helpers that several handlers share.

LEMMA IssueTyped ==
  ASSUME ATypeOK, NEW u \in Users, NEW keyed \in BOOLEAN, Issue(u, keyed)
  PROVE  /\ session' \in [Sessions -> SessionRow]
         /\ \A s \in Sessions : session'[s] = session[s] \/ session'[s].before = {}
  BY DEF ATypeOK, Issue, SessionRow

LEMMA RevokeTyped ==
  ASSUME ATypeOK, NEW u \in Users, RevokeAll(u)
  PROVE  /\ session' \in [Sessions -> SessionRow]
         /\ \A s \in Sessions : session'[s] = session[s] \/ session'[s].before = {}
         /\ \A s \in Sessions : session'[s].of # u
  BY Limit DEF ATypeOK, RevokeAll, NoSession, SessionRow

\* A request is well formed: what ATypeOK says about the variable request.
Requested == /\ request \in [Requests -> RequestRow]
             /\ \A r \in Requests : request[r].at # "idle" => request[r].of \in Users
             /\ \A r \in Requests : request[r].at \in {"acting", "stepping"} =>
                  request[r].session \in Sessions

LEMMA AnswerTyped ==
  ASSUME ATypeOK, NEW r \in Requests, Answer(r)
  PROVE  Requested'
  BY Limit DEF ATypeOK, Requested, Answer, NoRequest, RequestRow, Stages, Levels, Status

LEMMA AdvanceTyped ==
  ASSUME ATypeOK, NEW r \in Requests, NEW at \in Stages, Advance(r, at),
         request[r].at # "idle",
         at \in {"acting", "stepping"} => request[r].at = "acting"
  PROVE  Requested'
  <1>1. request[r] \in RequestRow
    BY DEF ATypeOK
  <1>2. [request[r] EXCEPT !.at = at] \in RequestRow
    BY <1>1 DEF RequestRow
  <1>3. [request[r] EXCEPT !.at = at].of = request[r].of
    BY <1>1 DEF RequestRow
  <1> QED BY <1>2, <1>3 DEF ATypeOK, Requested, Advance, RequestRow

LEMMA KnowingTyped ==
  ASSUME ATypeOK, NEW r \in Requests, NEW at \in Stages \ {"acting", "stepping"},
         NEW l \in Levels, Knowing(r, at, l), request[r].at # "idle"
  PROVE  Requested'
  <1> DEFINE q == [request[r] EXCEPT !.at = at, !.level = l, !.status = "ABSENT", !.failed = 0]
  <1>1. request[r] \in RequestRow
    BY DEF ATypeOK
  <1>2. q \in RequestRow /\ q.of = request[r].of /\ q.at = at
    BY <1>1, Limit DEF RequestRow, Status
  <1>3. request' = [request EXCEPT ![r] = q]
    BY DEF Knowing
  <1> QED BY <1>2, <1>3 DEF ATypeOK, Requested, RequestRow

LEMMA ReadTyped ==
  ASSUME ATypeOK, NEW r \in Requests, NEW q \in RequestRow, q.of \in Users,
         q.at \in {"acting", "stepping"} => q.session \in Sessions,
         request' = [request EXCEPT ![r] = q]
  PROVE  Requested'
  BY DEF ATypeOK, Requested

\* Edits of one row of users keep it a row.
LEMMA RowTyped ==
  ASSUME NEW a \in Account
  PROVE  /\ \A n \in 0..MaxFailed : [a EXCEPT !.failed = n] \in Account
         /\ \A st \in Status : [a EXCEPT !.status = st] \in Account
         /\ \A l \in Levels : [a EXCEPT !.level = l] \in Account
         /\ \A b \in BOOLEAN : [a EXCEPT !.key = b] \in Account /\ [a EXCEPT !.pin = b] \in Account
  BY DEF Account

LEMMA ClearedTyped ==
  ASSUME NEW a \in Account
  PROVE  [a EXCEPT !.failed = 0] \in Account
  BY Limit DEF Account

LEMMA MissedTyped ==
  ASSUME NEW u \in Users, NEW q \in RequestRow, account[u] \in Account
  PROVE  Missed(u, q) \in Account
  <1>1. q.failed \in 0..MaxFailed /\ q.status \in Status
    BY DEF RequestRow
  <1>2. ASSUME NEW n \in 0..MaxFailed, NEW st \in Status
        PROVE  [account[u] EXCEPT !.failed = n, !.status = st] \in Account
    <2>1. [account[u] EXCEPT !.failed = n] \in Account
      BY RowTyped
    <2> QED BY <2>1, RowTyped
  <1>3. CASE ~(q.failed + 1 >= MaxFailed)
    <2>1. q.failed + 1 \in 0..MaxFailed
      BY <1>1, <1>3, Limit
    <2> QED BY <1>1, <1>2, <1>3, <2>1 DEF Missed
  <1>4. CASE q.failed + 1 >= MaxFailed
    <2>1. MaxFailed \in 0..MaxFailed /\ "LOCKED" \in Status
      BY Limit DEF Status
    <2> QED BY <1>2, <1>4, <2>1 DEF Missed
  <1> QED BY <1>3, <1>4

LEMMA WriteTyped ==
  ASSUME ATypeOK, NEW u \in Users, NEW a \in Account, account' = [account EXCEPT ![u] = a]
  PROVE  account' \in [Users -> Account]
  BY DEF ATypeOK

---------------------------------------------------------------------------
\* Types.

LEMMA SignInTyped ==
  ASSUME ATypeOK, NEW r \in Requests, SignIn(r)
  PROVE  ATypeOK'
  <1> DEFINE u == request[r].of
  <1> USE Limit
  <1>0. /\ request[r] \in RequestRow /\ request[r].level \in Levels
        /\ request[r].at # "idle" => u \in Users /\ account[u] \in Account
    BY DEF ATypeOK, RequestRow
  <1>1. CASE WrongPassword(r)
    <2>1. u \in Users /\ account[u] \in Account
      BY <1>0, <1>1 DEF WrongPassword
    <2>2. account' \in [Users -> Account]
      BY <1>0, <1>1, <2>1, MissedTyped, WriteTyped DEF WrongPassword, Write
    <2>3. Requested'
      BY <1>1, AnswerTyped DEF WrongPassword
    <2> QED BY <1>1, <2>2, <2>3 DEF WrongPassword, ATypeOK, Requested
  <1>2. CASE RightPassword(r)
    <2>1. /\ u \in Users /\ account[u] \in Account
          /\ account' = [account EXCEPT ![u] = [account[u] EXCEPT !.failed = 0]]
      BY <1>0, <1>2 DEF RightPassword
    <2>2. [account[u] EXCEPT !.failed = 0] \in Account
      BY <1>0, <2>1, ClearedTyped
    <2>3. Requested'
      BY <1>0, <1>2, KnowingTyped DEF RightPassword, Stages
    <2> QED BY <1>2, <2>1, <2>2, <2>3, WriteTyped DEF RightPassword, ATypeOK, Requested
  <1>3. CASE Admit(r) \/ Authenticated(r)
    <2>1. Requested'
      BY <1>3, AnswerTyped DEF Admit, Authenticated
    <2> QED BY <1>0, <1>3, <2>1, IssueTyped DEF Admit, Authenticated, ATypeOK, Requested
  <1>4. CASE Challenge(r)
    <2>1. Requested'
      BY <1>4, KnowingTyped DEF Challenge, Stages, Levels
    <2> QED BY <1>4, <2>1 DEF Challenge, ATypeOK, Requested
  <1>5. CASE Authenticate(r)
    <2>1. Requested'
      BY <1>5, AdvanceTyped DEF Authenticate, Stages
    <2> QED BY <1>5, <2>1 DEF Authenticate, ATypeOK, Requested
  <1> QED BY <1>1, <1>2, <1>3, <1>4, <1>5 DEF SignIn

LEMMA RecoveryTyped ==
  ASSUME ATypeOK, NEW r \in Requests, Recovery(r)
  PROVE  ATypeOK'
  <1> DEFINE u == request[r].of
  <1>0. request[r].at # "idle" => u \in Users /\ account[u] \in Account
    BY DEF ATypeOK
  <1>1. CASE Redeem(r)
    <2>1. Requested'
      BY <1>1, AdvanceTyped DEF Redeem, Stages
    <2>2. session' \in [Sessions -> SessionRow]
      BY <1>1 DEF Redeem, MarkedBy, ATypeOK, SessionRow
    <2> QED BY <1>1, <2>1, <2>2 DEF Redeem, ATypeOK, Requested
  <1>2. CASE Burn(r)
    <2>1. Requested'
      BY <1>2, AdvanceTyped DEF Burn, Stages
    <2> QED BY <1>0, <1>2, <2>1, RevokeTyped DEF Burn, ATypeOK, Requested
  <1>3. CASE DropKeys(r)
    <2>1. Requested'
      BY <1>3, AdvanceTyped DEF DropKeys, Stages
    <2>2. u \in Users /\ account' = [account EXCEPT ![u] = [account[u] EXCEPT !.key = FALSE]]
      BY <1>0, <1>3 DEF DropKeys
    <2> QED BY <1>0, <1>3, <2>1, <2>2, RowTyped, WriteTyped DEF DropKeys, ATypeOK, Requested
  <1>4. CASE Suspend(r)
    <2>1. Requested'
      BY <1>4, AdvanceTyped DEF Suspend, Stages
    <2>2. u \in Users /\ account' = [account EXCEPT ![u] = [account[u] EXCEPT !.status = Unenrolled]]
      BY <1>0, <1>4 DEF Suspend
    <2>3. Unenrolled \in Status
      BY DEF Unenrolled, Status
    <2> QED BY <1>0, <1>4, <2>1, <2>2, <2>3, RowTyped, WriteTyped DEF Suspend, ATypeOK, Requested
  <1>5. CASE Recover(r)
    <2>1. Requested'
      BY <1>5, AnswerTyped DEF Recover
    <2> QED BY <1>0, <1>5, <2>1, IssueTyped DEF Recover, ATypeOK, Requested
  <1> QED BY <1>1, <1>2, <1>3, <1>4, <1>5 DEF Recovery

LEMMA OwnAccountTyped ==
  ASSUME ATypeOK, NEW r \in Requests, OwnAccount(r)
  PROVE  ATypeOK'
  <1> DEFINE u == request[r].of
             s == request[r].session
  <1>0. /\ request[r].at # "idle" => u \in Users /\ account[u] \in Account
        /\ request[r].at \in {"acting", "stepping"} => s \in Sessions /\ session[s] \in SessionRow
    BY DEF ATypeOK
  <1>1. CASE Register(r)
    <2>1. Requested'
      BY <1>1, AnswerTyped DEF Register
    <2>2. u \in Users /\ [account[u] EXCEPT !.key = TRUE] \in Account
      BY <1>0, <1>1, RowTyped DEF Register, Acting
    <2>3. [[account[u] EXCEPT !.key = TRUE] EXCEPT !.status = "ACTIVE"] \in Account
      BY <2>2, RowTyped DEF Status
    <2> QED BY <1>1, <2>1, <2>2, <2>3, WriteTyped DEF Register, Write, ATypeOK, Requested
  <1>2. CASE SetPin(r)
    <2>1. Requested'
      BY <1>2, AnswerTyped DEF SetPin
    <2>2. u \in Users /\ account' = [account EXCEPT ![u] = [account[u] EXCEPT !.pin = TRUE]]
      BY <1>0, <1>2 DEF SetPin, Acting
    <2> QED BY <1>0, <1>2, <2>1, <2>2, RowTyped, WriteTyped DEF SetPin, Acting, ATypeOK, Requested
  <1>3. CASE RegenerateCodes(r)
    <2>1. Requested'
      BY <1>3, AnswerTyped DEF RegenerateCodes
    <2> QED BY <1>3, <2>1 DEF RegenerateCodes, ATypeOK, Requested
  <1>4. CASE StepUp(r)
    <2>1. Requested'
      BY <1>4, AdvanceTyped DEF StepUp, Acting, Stages
    <2> QED BY <1>4, <2>1 DEF StepUp, ATypeOK, Requested
  <1>5. CASE SteppedUp(r)
    <2>1. Requested'
      BY <1>5, AnswerTyped DEF SteppedUp
    <2>2. [session[s] EXCEPT !.keyed = TRUE] \in SessionRow
      BY <1>0, <1>5 DEF SteppedUp, SessionRow
    <2>3. session' \in [Sessions -> SessionRow]
      BY <1>0, <1>5, <2>2 DEF SteppedUp, ATypeOK
    <2> QED BY <1>5, <2>1, <2>3 DEF SteppedUp, ATypeOK, Requested
  <1>6. CASE Logout(r)
    <2>1. Requested'
      BY <1>6, AnswerTyped DEF Logout
    <2>2. NoSession \in SessionRow
      BY DEF NoSession, SessionRow
    <2>3. session' \in [Sessions -> SessionRow]
      BY <1>0, <1>6, <2>2, RevokeTyped DEF Logout, Acting, ATypeOK
    <2> QED BY <1>6, <2>1, <2>3 DEF Logout, ATypeOK, Requested
  <1> QED BY <1>1, <1>2, <1>3, <1>4, <1>5, <1>6 DEF OwnAccount

LEMMA AdministrationTyped ==
  ASSUME ATypeOK, NEW r \in Requests, Administration(r)
  PROVE  ATypeOK'
  <1> PICK v \in Users : \/ CreateUser(r, v) \/ PatchUser(r, v)
                         \/ AdminRecovery(r, v) \/ RevokeDevice(r, v)
    BY DEF Administration
  <1> USE Limit
  <1>0. account[v] \in Account
    BY DEF ATypeOK
  <1>1. Requested'
    BY AnswerTyped DEF CreateUser, PatchUser, AdminRecovery, RevokeDevice
  <1>2. CASE CreateUser(r, v)
    <2>1. PICK l \in Levels, pin \in BOOLEAN :
            account' = [account EXCEPT ![v] =
              [level |-> l, status |-> IF l = "L1" THEN "ACTIVE" ELSE Unenrolled,
               pin |-> pin, key |-> FALSE, failed |-> 0]]
      BY <1>2 DEF CreateUser, Write
    <2>2. account' \in [Users -> Account]
      BY <2>1 DEF ATypeOK, Account, Status, Unenrolled
    <2> QED BY <1>1, <1>2, <2>2 DEF CreateUser, ATypeOK, Requested
  <1>3. CASE PatchUser(r, v)
    <2>1. PICK unlock, reset, revoke \in BOOLEAN,
               st \in {"kept", "ACTIVE", "DISABLED", "LOCKED"}, l \in Levels :
            /\ ~(v = request[r].of /\ st = "DISABLED")
            /\ Lawful(Unlocked(account[v], unlock))
            /\ Lawful(Restated(Unlocked(account[v], unlock), st))
            /\ Write(v, Cleared([Restated(Unlocked(account[v], unlock), st) EXCEPT !.level = l], reset))
            /\ IF revoke \/ st = "DISABLED" THEN RevokeAll(v) ELSE session' = session
      BY <1>3, Zenon DEF PatchUser
    <2>2. Unlocked(account[v], unlock) \in Account
      <3>1. [account[v] EXCEPT !.failed = 0, !.status = "ACTIVE"] \in Account
        BY <1>0 DEF Account, Status
      <3> QED BY <1>0, <3>1 DEF Unlocked
    <2>3. Restated(Unlocked(account[v], unlock), st) \in Account
      BY <2>2, RowTyped DEF Restated, Status
    <2>4. [Restated(Unlocked(account[v], unlock), st) EXCEPT !.level = l] \in Account
      BY <2>3, RowTyped
    <2>5. Cleared([Restated(Unlocked(account[v], unlock), st) EXCEPT !.level = l], reset) \in Account
      BY <2>4, ClearedTyped DEF Cleared
    <2>6. account' \in [Users -> Account]
      BY <2>1, <2>5, WriteTyped DEF Write
    <2>7. session' \in [Sessions -> SessionRow]
      BY <2>1, RevokeTyped DEF ATypeOK
    <2> QED BY <1>1, <1>3, <2>6, <2>7 DEF PatchUser, ATypeOK, Requested
  <1>4. CASE AdminRecovery(r, v)
    <2>1. account' \in [Users -> Account]
      BY <1>0, <1>4 DEF AdminRecovery, ATypeOK, Account, Status, Unenrolled
    <2>2. session' \in [Sessions -> SessionRow]
      BY <1>4, RevokeTyped DEF AdminRecovery
    <2> QED BY <1>1, <1>4, <2>1, <2>2 DEF AdminRecovery, ATypeOK, Requested
  <1>5. CASE RevokeDevice(r, v)
    BY <1>1, <1>5, RevokeTyped DEF RevokeDevice, ATypeOK, Requested
  <1> QED BY <1>2, <1>3, <1>4, <1>5

LEMMA InitTyped == AInit => ATypeOK
  BY AccountsAssumption DEF AInit, ATypeOK, NoSession, NoRequest, Stages, Levels, Status,
     SessionRow, RequestRow

LEMMA NextTyped ==
  ASSUME ATypeOK, [ANext]_avars
  PROVE  ATypeOK'
  <1> USE Limit
  <1>1. CASE UNCHANGED avars
    BY <1>1 DEF avars, ATypeOK
  <1>2. ASSUME NEW r \in Requests, Abort(r) PROVE ATypeOK'
    <2>1. Requested'
      BY <1>2, AnswerTyped DEF Abort
    <2>2. session' \in [Sessions -> SessionRow]
      BY <1>2 DEF Abort, ATypeOK, SessionRow
    <2> QED BY <1>2, <2>1, <2>2 DEF Abort, ATypeOK, Requested
  <1>3. ASSUME NEW r \in Requests, NEW u \in Users, NEW goal \in {"login", "redeem"},
               ReadAccount(r, u, goal)
        PROVE  ATypeOK'
    <2> DEFINE q == [request[r] EXCEPT !.at = goal, !.of = u, !.level = account[u].level,
                       !.status = account[u].status, !.failed = account[u].failed]
    <2>1. q \in RequestRow /\ q.of = u /\ q.at = goal
      BY DEF ATypeOK, RequestRow, Account, Stages
    <2>2. request' = [request EXCEPT ![r] = q]
      BY <1>3 DEF ReadAccount
    <2>3. Requested'
      BY <2>1, <2>2, ReadTyped
    <2> QED BY <1>3, <2>3 DEF ReadAccount, Arrives, ATypeOK, Requested
  <1>4. ASSUME NEW r \in Requests, NEW s \in Sessions, Resolve(r, s) PROVE ATypeOK'
    <2> DEFINE q == [NoRequest EXCEPT !.at = "acting", !.of = session[s].of,
                       !.level = account[session[s].of].level, !.session = s, !.keyed = session[s].keyed]
    <2>1. session[s].of \in Users /\ session[s].keyed \in BOOLEAN
      BY <1>4 DEF Resolve, ATypeOK, SessionRow
    <2>2. q \in RequestRow /\ q.of \in Users /\ q.session \in Sessions
      BY <2>1 DEF ATypeOK, RequestRow, Account, Stages, Status, NoRequest
    <2>3. request' = [request EXCEPT ![r] = q]
      BY <1>4 DEF Resolve
    <2>4. Requested'
      BY <2>1, <2>2, <2>3, ReadTyped
    <2> QED BY <1>4, <2>4 DEF Resolve, Arrives, ATypeOK, Requested
  <1>5. ASSUME NEW s \in Sessions, ExpireSession(s) PROVE ATypeOK'
    <2>1. NoSession \in SessionRow
      BY DEF NoSession, SessionRow
    <2> QED BY <1>5, <2>1 DEF ExpireSession, ATypeOK
  <1> QED BY <1>1, <1>2, <1>3, <1>4, <1>5, SignInTyped, RecoveryTyped, OwnAccountTyped,
             AdministrationTyped DEF ANext

---------------------------------------------------------------------------
\* One recovery per code.

LEMMA CodeKept ==
  ASSUME ATypeOK, CodeOnce, [ANext]_avars
  PROVE  CodeOnce'
  <1>1. CASE UNCHANGED <<code, redeemed>>
    BY <1>1 DEF CodeOnce
  <1>2. ASSUME NEW r \in Requests, Redeem(r) PROVE CodeOnce'
    <2>1. request[r].of \in Users
      BY <1>2 DEF Redeem, ATypeOK
    <2> QED BY <1>2, <2>1 DEF Redeem, CodeOnce, ATypeOK
  <1>3. ASSUME NEW r \in Requests, RegenerateCodes(r) PROVE CodeOnce'
    BY <1>3 DEF RegenerateCodes, CodeOnce, ATypeOK
  <1>4. ASSUME NEW r \in Requests, NEW v \in Users, AdminRecovery(r, v) PROVE CodeOnce'
    BY <1>4 DEF AdminRecovery, CodeOnce, ATypeOK
  <1>5. ASSUME NEW r \in Requests, SignIn(r) \/ Abort(r) PROVE UNCHANGED <<code, redeemed>>
    BY <1>5 DEF SignIn, WrongPassword, RightPassword, Admit, Challenge, Authenticate,
                Authenticated, Abort
  <1>6. ASSUME NEW r \in Requests, Recovery(r) PROVE Redeem(r) \/ UNCHANGED <<code, redeemed>>
    BY <1>6 DEF Recovery, Burn, DropKeys, Suspend, Recover
  <1>7. ASSUME NEW r \in Requests, OwnAccount(r)
        PROVE  RegenerateCodes(r) \/ UNCHANGED <<code, redeemed>>
    BY <1>7 DEF OwnAccount, Register, SetPin, StepUp, SteppedUp, Logout
  <1>8. ASSUME NEW r \in Requests, Administration(r)
        PROVE  (\E v \in Users : AdminRecovery(r, v)) \/ UNCHANGED <<code, redeemed>>
    BY <1>8 DEF Administration, CreateUser, PatchUser, RevokeDevice
  <1>9. UNCHANGED avars => UNCHANGED <<code, redeemed>>
    BY DEF avars
  <1>10. ASSUME NEW r \in Requests, NEW u \in Users, NEW goal \in {"login", "redeem"},
                ReadAccount(r, u, goal)
         PROVE  UNCHANGED <<code, redeemed>>
    BY <1>10 DEF ReadAccount
  <1>11. ASSUME NEW s \in Sessions, ExpireSession(s) \/ \E r \in Requests : Resolve(r, s)
         PROVE  UNCHANGED <<code, redeemed>>
    BY <1>11 DEF ExpireSession, Resolve
  <1> QED BY <1>1, <1>2, <1>3, <1>4, <1>5, <1>6, <1>7, <1>8, <1>9, <1>10, <1>11, Zenon DEF ANext

---------------------------------------------------------------------------
\* An account that is out.

LEMMA Answered ==
  ASSUME ATypeOK, NEW r \in Requests, Answer(r), request[r].at # "idle"
  PROVE  Acts(r)
  BY DEF ATypeOK, Answer, NoRequest, Acts

LEMMA OutKept ==
  ASSUME ATypeOK, [ANext]_avars, NEW u \in Users, PutOut(u), account'[u].status \in Usable
  PROVE  \E r \in Requests : Acts(r) /\ (LetInBefore(r, u) \/ Executive(r))
  <1>0. /\ account \in [Users -> Account]
        /\ account[u].status \notin Usable
    BY DEF ATypeOK, PutOut, Usable
  <1>1. account' # account
    BY <1>0
  <1>2. ASSUME NEW v \in Users, NEW a \in Account, account' = [account EXCEPT ![v] = a]
        PROVE  v = u /\ a.status \in Usable
    BY <1>0, <1>2
  <1>3. ASSUME NEW r \in Requests, SignIn(r)
        PROVE  Acts(r) /\ LetInBefore(r, u)
    <2>1. request[r].of \in Users /\ request[r] \in RequestRow /\ Acts(r)
      <3>1. request[r].at # "idle"
        BY <1>3 DEF SignIn, WrongPassword, RightPassword, Admit, Challenge, Authenticate,
                    Authenticated
      <3>2. account' # account => WrongPassword(r) \/ RightPassword(r)
        BY <1>3 DEF SignIn, Admit, Challenge, Authenticate, Authenticated
      <3>3. WrongPassword(r) => Acts(r)
        BY <3>1, Answered DEF WrongPassword
      <3>4. RightPassword(r) => Acts(r)
        <4> SUFFICES ASSUME RightPassword(r) PROVE Acts(r)
          OBVIOUS
        <4>1. PICK at \in {"admitted", "entitled"} : Knowing(r, at, request[r].level)
          BY DEF RightPassword
        <4>2. request'[r].at = at
          BY <4>1 DEF Knowing, ATypeOK, RequestRow
        <4> QED BY <4>2 DEF RightPassword, Acts
      <3> QED BY <1>1, <3>1, <3>2, <3>3, <3>4 DEF ATypeOK
    <2>2. CASE WrongPassword(r)
      <3>1. account'[u].status = account[u].status
            \/ /\ u = request[r].of
               /\ account'[u].status \in {"LOCKED", request[r].status}
        BY <1>0, <2>1, <2>2 DEF WrongPassword, Write, Missed, Account
      <3> QED BY <1>0, <2>1, <2>2, <3>1 DEF WrongPassword, LetInBefore, Usable
    <2>3. CASE RightPassword(r)
      BY <1>0, <2>1, <2>3 DEF RightPassword, Account
    <2> QED BY <1>1, <1>3, <2>2, <2>3 DEF SignIn, Admit, Challenge, Authenticate, Authenticated
  <1>4. ASSUME NEW r \in Requests, Recovery(r)
        PROVE  Acts(r) /\ LetInBefore(r, u)
    <2>1. CASE DropKeys(r)
      BY <1>0, <2>1 DEF DropKeys, ATypeOK, Account
    <2>2. CASE Suspend(r)
      <3>1. request[r].of = u
        BY <1>0, <2>2 DEF Suspend, ATypeOK, Account
      <3> QED BY <2>2, <3>1 DEF Suspend, Advance, Acts, LetInBefore, ATypeOK, RequestRow
    <2> QED BY <1>1, <1>4, <2>1, <2>2 DEF Recovery, Redeem, Burn, Recover
  <1>5. ASSUME NEW r \in Requests, OwnAccount(r) PROVE FALSE
    <2>1. CASE Register(r)
      <3>1. account'[u].status = account[u].status \/ account[u].status = Unenrolled
        BY <1>0, <2>1 DEF Register, Write, ATypeOK, Account, Acting
      <3> QED BY <1>0, <3>1 DEF Unenrolled, Usable
    <2>2. CASE SetPin(r)
      BY <1>0, <2>2 DEF SetPin, Acting, ATypeOK, Account
    <2> QED BY <1>1, <1>5, <2>1, <2>2 DEF OwnAccount, RegenerateCodes, StepUp, SteppedUp, Logout
  <1>6. ASSUME NEW r \in Requests, Administration(r)
        PROVE  Acts(r) /\ Executive(r)
    <2>1. Executive(r) /\ Answer(r)
      BY <1>6 DEF Administration, CreateUser, PatchUser, AdminRecovery, RevokeDevice
    <2> QED BY <2>1, Answered DEF Executive, Acting
  <1>7. ASSUME NEW r \in Requests,
               \/ Abort(r)
               \/ \E v \in Users, goal \in {"login", "redeem"} : ReadAccount(r, v, goal)
               \/ \E s \in Sessions : Resolve(r, s)
        PROVE  FALSE
    BY <1>1, <1>7 DEF Abort, ReadAccount, Resolve
  <1>8. ASSUME NEW s \in Sessions, ExpireSession(s) PROVE FALSE
    BY <1>1, <1>8 DEF ExpireSession
  <1> QED BY <1>1, <1>3, <1>4, <1>5, <1>6, <1>7, <1>8 DEF ANext, avars

---------------------------------------------------------------------------
\* A finished revocation is final.

\* A step after which every session is an old one or marked by nobody, and no
\* request has just revoked anything.
LEMMA Unmarking ==
  ASSUME ATypeOK, SessionsBurned,
         \A s \in Sessions : session'[s] = session[s] \/ session'[s].before = {},
         \A r \in Requests : request'[r].at \in {"burned", "keyless", "suspended"} =>
           /\ request[r].at \in {"burned", "keyless", "suspended"}
           /\ request'[r].of = request[r].of
  PROVE  SessionsBurned'
  BY DEF SessionsBurned

LEMMA BurnedKept ==
  ASSUME ATypeOK, SessionsBurned, [ANext]_avars
  PROVE  SessionsBurned'
  <1> DEFINE Quiet == \A r \in Requests : request'[r].at \in {"burned", "keyless", "suspended"} =>
                        /\ request[r].at \in {"burned", "keyless", "suspended"}
                        /\ request'[r].of = request[r].of
             Fewer == \A s \in Sessions : session'[s] = session[s] \/ session'[s].before = {}
  <1>0. Quiet /\ Fewer => SessionsBurned'
    BY Unmarking
  <1>1. ASSUME NEW r \in Requests, Answer(r) PROVE Quiet
    BY <1>1 DEF Answer, NoRequest, ATypeOK
  <1>2. ASSUME NEW r \in Requests, NEW at, Advance(r, at),
               at \in {"burned", "keyless", "suspended"} =>
                 request[r].at \in {"burned", "keyless", "suspended"}
        PROVE  Quiet
    BY <1>2 DEF Advance, ATypeOK, RequestRow
  <1>3. CASE UNCHANGED avars
    BY <1>3 DEF avars, SessionsBurned
  <1>4. ASSUME NEW r \in Requests, SignIn(r) PROVE SessionsBurned'
    <2>1. Quiet
      <3>1. CASE RightPassword(r)
        BY <3>1 DEF RightPassword, Knowing, ATypeOK, RequestRow
      <3>2. CASE Challenge(r)
        BY <3>2 DEF Challenge, Knowing, ATypeOK, RequestRow
      <3> QED BY <1>1, <1>2, <1>4, <3>1, <3>2
              DEF SignIn, WrongPassword, Admit, Authenticate, Authenticated
    <2>2. Fewer
      <3>1. CASE Admit(r) \/ Authenticated(r)
        BY <3>1, IssueTyped DEF Admit, Authenticated, ATypeOK
      <3> QED BY <1>4, <3>1 DEF SignIn, WrongPassword, RightPassword, Challenge, Authenticate
    <2> QED BY <1>0, <2>1, <2>2
  <1>5. ASSUME NEW r \in Requests, Redeem(r) PROVE SessionsBurned'
    <2>1. /\ request' = [request EXCEPT ![r].at = "consumed"]
          /\ session' = MarkedBy(r)
      BY <1>5 DEF Redeem, Advance
    <2>2. \A q \in Requests : q # r => request'[q] = request[q]
      BY <2>1 DEF ATypeOK
    <2>3. request'[r].at = "consumed"
      BY <2>1 DEF ATypeOK, RequestRow
    <2>4. \A s \in Sessions : /\ session'[s].of = session[s].of
                              /\ session'[s].before \subseteq session[s].before \cup {r}
      BY <2>1 DEF MarkedBy, ATypeOK, SessionRow
    <2> QED BY <2>2, <2>3, <2>4 DEF SessionsBurned
  <1>6. ASSUME NEW r \in Requests, Burn(r) PROVE SessionsBurned'
    <2>1. /\ request' = [request EXCEPT ![r].at = "burned"]
          /\ request[r].of \in Users
      BY <1>6 DEF Burn, Advance, ATypeOK
    <2>2. /\ \A q \in Requests : q # r => request'[q] = request[q]
          /\ request'[r].of = request[r].of
      BY <2>1 DEF ATypeOK, RequestRow
    <2>3. /\ \A s \in Sessions : session'[s].of # request[r].of
          /\ Fewer
      BY <1>6, <2>1, RevokeTyped DEF Burn
    <2> QED BY <2>2, <2>3 DEF SessionsBurned
  <1>7. ASSUME NEW r \in Requests, DropKeys(r) \/ Suspend(r) \/ Recover(r) PROVE SessionsBurned'
    <2>1. Quiet
      BY <1>1, <1>2, <1>7 DEF DropKeys, Suspend, Recover
    <2>2. Fewer
      <3>1. CASE Recover(r)
        BY <3>1, IssueTyped DEF Recover, ATypeOK
      <3> QED BY <1>7, <3>1 DEF DropKeys, Suspend
    <2> QED BY <1>0, <2>1, <2>2
  <1>8. ASSUME NEW r \in Requests, SteppedUp(r) PROVE SessionsBurned'
    <2>1. Quiet
      BY <1>1, <1>8 DEF SteppedUp
    <2>2. \A s \in Sessions : /\ session'[s].of = session[s].of
                              /\ session'[s].before = session[s].before
      BY <1>8 DEF SteppedUp, ATypeOK, SessionRow
    <2> QED BY <2>1, <2>2 DEF SessionsBurned
  <1>9. ASSUME NEW r \in Requests, OwnAccount(r) PROVE SessionsBurned'
    <2>1. CASE Logout(r)
      <3>1. Fewer
        BY <2>1, RevokeTyped DEF Logout, Acting, ATypeOK, NoSession
      <3> QED BY <1>0, <1>1, <2>1, <3>1 DEF Logout
    <2>2. CASE StepUp(r)
      BY <1>0, <1>2, <2>2 DEF StepUp
    <2>3. CASE Register(r) \/ SetPin(r) \/ RegenerateCodes(r)
      BY <1>0, <1>1, <2>3 DEF Register, SetPin, RegenerateCodes
    <2> QED BY <1>8, <1>9, <2>1, <2>2, <2>3 DEF OwnAccount
  <1>10. ASSUME NEW r \in Requests, Administration(r) PROVE SessionsBurned'
    <2>1. PICK v \in Users : \/ CreateUser(r, v) \/ PatchUser(r, v)
                             \/ AdminRecovery(r, v) \/ RevokeDevice(r, v)
      BY <1>10 DEF Administration
    <2>2. Quiet
      BY <1>1, <2>1 DEF CreateUser, PatchUser, AdminRecovery, RevokeDevice
    <2>3. RevokeAll(v) \/ session' = session
      BY <2>1 DEF CreateUser, PatchUser, AdminRecovery, RevokeDevice
    <2> QED BY <1>0, <2>2, <2>3, RevokeTyped
  <1>11. ASSUME NEW r \in Requests, Abort(r) PROVE SessionsBurned'
    <2>1. Quiet
      BY <1>1, <1>11 DEF Abort
    <2>2. \A s \in Sessions : /\ session'[s].of = session[s].of
                              /\ session'[s].before \subseteq session[s].before
      BY <1>11 DEF Abort, ATypeOK, SessionRow
    <2> QED BY <2>1, <2>2 DEF SessionsBurned
  <1>12. ASSUME NEW r \in Requests, NEW u \in Users, NEW goal \in {"login", "redeem"},
                ReadAccount(r, u, goal)
         PROVE  SessionsBurned'
    <2>1. Quiet
      BY <1>12 DEF ReadAccount, ATypeOK, RequestRow
    <2> QED BY <1>0, <1>12, <2>1 DEF ReadAccount
  <1>13. ASSUME NEW r \in Requests, NEW s \in Sessions, Resolve(r, s) PROVE SessionsBurned'
    <2>1. Quiet
      BY <1>13 DEF Resolve, NoRequest, ATypeOK
    <2> QED BY <1>0, <1>13, <2>1 DEF Resolve
  <1>14. ASSUME NEW s \in Sessions, ExpireSession(s) PROVE SessionsBurned'
    BY <1>14 DEF ExpireSession, NoSession, SessionsBurned, ATypeOK
  <1> QED BY <1>3, <1>4, <1>5, <1>6, <1>7, <1>9, <1>10, <1>11, <1>12, <1>13, <1>14
          DEF ANext, Recovery

---------------------------------------------------------------------------
\* The variables of Accounts keep their types.
THEOREM AccountsTypes == ASpec => []ATypeOK
  BY InitTyped, NextTyped, PTL DEF ASpec

\* AInv, one conjunct at a time.
THEOREM AccountsInvariant == ASpec => []AInv
  <1>1. AInit => AInv
    <2> SUFFICES ASSUME AInit PROVE AInv
      OBVIOUS
    <2>1. CodeOnce
      BY DEF AInit, CodeOnce
    <2>2. SessionsBurned
      BY DEF AInit, SessionsBurned, NoRequest
    <2> QED BY <2>1, <2>2, InitTyped DEF AInv
  <1>2. AInv /\ [ANext]_avars => AInv'
    BY NextTyped, CodeKept, BurnedKept DEF AInv
  <1> QED BY <1>1, <1>2, PTL DEF ASpec

\* A recovery code recovers an account at most once, however redemptions and
\* regenerations of the codes interleave.
THEOREM OneRecoveryPerCode == ASpec => []CodeOnce
  BY AccountsInvariant, PTL DEF AInv

\* An account that was disabled or locked is brought back by an executive, or
\* by a sign-in or recovery that was let in before: not by what its sessions
\* enrol, nor by an attempt that found it out (the UPDATEs of users.status).
THEOREM OutsStayOut == ASpec => OutStaysOut
  <1>1. ATypeOK /\ [ANext]_avars =>
          [\A u \in Users : PutOut(u) /\ account'[u].status \in Usable =>
             \E r \in Requests : Acts(r) /\ (LetInBefore(r, u) \/ Executive(r))]_avars
    BY OutKept
  <1> QED BY <1>1, AccountsTypes, PTL DEF ASpec, OutStaysOut

\* Once a recovery has revoked the sessions, none of them comes back.
THEOREM RecoveryEndsSessions == ASpec => []SessionsBurned
  BY AccountsInvariant, PTL DEF AInv
===========================================================================
