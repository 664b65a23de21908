------------------------------ MODULE Accounts -----------------------------
(***************************************************************************)
(* The accounts of one organisation and the sessions their owners hold     *)
(* (services/auth.ts, routes/auth.ts, the user routes of routes/admin.ts): *)
(* sign-in in two stages, lockout, recovery by code, enrolment of a        *)
(* security key and a PIN, and what an executive may do to an account.     *)
(*                                                                         *)
(* A request reads the account, works on what it read, and writes in one   *)
(* or several statements; the routes that need one transaction are one     *)
(* step.  Secrets are left out: a check of one succeeds or fails; so are   *)
(* locked_until and the device binding, which only refuse.                 *)
(***************************************************************************)
EXTENDS Integers, FiniteSets

CONSTANTS
  Users,            \* the accounts there may be
  InitialAccounts,  \* what the organisation may start from
  Requests,         \* requests in flight at the same time
  Sessions,         \* sessions alive at the same time
  MaxFailed,        \* MAX_FAILED_LOGINS
  MaxRequests       \* bound on the requests of a behaviour

Levels == {"L1", "L2", "L3"}
Status == {"ABSENT", "ACTIVE", "LOCKED", "DISABLED", "PENDING_ENROLMENT"}
Usable == {"ACTIVE", "PENDING_ENROLMENT"}
Nobody == "nobody"

Account == [level : Levels, status : Status,
            pin : BOOLEAN,          \* authorization_pin_hash IS NOT NULL
            key : BOOLEAN,          \* an ACTIVE row of webauthn_credentials
            failed : 0..MaxFailed]  \* failed_login_count

ASSUME AccountsAssumption == /\ MaxFailed \in Nat \ {0} /\ MaxRequests \in Nat
                             /\ InitialAccounts \subseteq [Users -> Account]
                             /\ \A rows \in InitialAccounts, u \in Users :
                                  rows[u].level = "L1" \/ rows[u].pin \/ rows[u].status # "ACTIVE"
                             /\ Nobody \notin Users \cup Sessions

VARIABLES
  account,   \* account[u]: the row of users, and whether u has a key
  code,      \* code[u]: u's recovery code, "none", "live" or "used"
  redeemed,  \* history: how often that code has recovered the account
  session,   \* session[s]: a live session, or none
  request,   \* request[r]: how far a request has got, and what it read
  served     \* counts the requests

avars == <<account, code, redeemed, session, request, served>>

NoSession == [of |-> Nobody, keyed |-> FALSE, before |-> {}]
NoRequest == [at |-> "idle", of |-> Nobody, level |-> "L1", status |-> "ABSENT", failed |-> 0,
              session |-> Nobody, keyed |-> FALSE]

Stages == {"idle", "login", "redeem", "admitted", "ticket", "asserted",
           "entitled", "consumed", "burned", "keyless", "suspended", "acting", "stepping"}

AInit == /\ account \in InitialAccounts
         /\ code = [u \in Users |-> IF account[u].status = "ABSENT" THEN "none" ELSE "live"]
         /\ redeemed = [u \in Users |-> 0]
         /\ session = [s \in Sessions |-> NoSession]
         /\ request = [r \in Requests |-> NoRequest]
         /\ served = 0

---------------------------------------------------------------------------
\* Mutant: a status the column does not know.
UnenrolledMisnamed == "RECOVERY"

\* The status of an officer who has to enrol a security key.
Unenrolled == "PENDING_ENROLMENT"

\* users_privileged_requires_pin: every UPDATE of a row has to pass it.
Lawful(a) == a.level = "L1" \/ a.pin \/ a.status # "ACTIVE"

\* The row of u after an UPDATE; one that is refused undoes its transaction.
Write(u, a) == Lawful(a) /\ account' = [account EXCEPT ![u] = a]

Arrives == served < MaxRequests /\ served' = served + 1
Advance(r, at) == request' = [request EXCEPT ![r].at = at]
Knowing(r, at, level) ==  \* the rest of what was read is not used again
  request' = [request EXCEPT ![r].at = at, ![r].level = level, ![r].status = "ABSENT", ![r].failed = 0]
Answer(r) == request' = [request EXCEPT ![r] = NoRequest]

SessionsOf(u) == {s \in Sessions : session[s].of = u}
Free(s) == session[s].of = Nobody /\ \A r \in Requests : request[r].session # s

Issue(u, keyed) == \E s \in Sessions :
  Free(s) /\ session' = [session EXCEPT ![s] = [of |-> u, keyed |-> keyed, before |-> {}]]

RevokeAll(u) == session' = [s \in Sessions |-> IF session[s].of = u THEN NoSession ELSE session[s]]

---------------------------------------------------------------------------
\* Sign-in and recovery: verifyPasswordStage, for a login or a redemption.
ReadAccount(r, u, goal) ==
  /\ request[r].at = "idle"
  /\ account[u].status # "ABSENT"
  /\ request' = [request EXCEPT ![r].at = goal, ![r].of = u, ![r].level = account[u].level,
                   ![r].status = account[u].status, ![r].failed = account[u].failed]
  /\ Arrives
  /\ UNCHANGED <<account, code, redeemed, session>>

\* A wrong password: count and status are written from what was read.
Missed(u, q) ==
  IF q.failed + 1 >= MaxFailed
    THEN [account[u] EXCEPT !.failed = MaxFailed, !.status = "LOCKED"]
    ELSE [account[u] EXCEPT !.failed = q.failed + 1, !.status = q.status]

WrongPassword(r) ==
  /\ request[r].at \in {"login", "redeem"}
  /\ Write(request[r].of, Missed(request[r].of, request[r]))
  /\ Answer(r)
  /\ UNCHANGED <<code, redeemed, session, served>>

RightPassword(r) ==
  /\ request[r].at \in {"login", "redeem"} /\ request[r].status \in Usable
  /\ account' = [account EXCEPT ![request[r].of].failed = 0]
  /\ Knowing(r, IF request[r].at = "login" THEN "admitted" ELSE "entitled", request[r].level)
  /\ UNCHANGED <<code, redeemed, session, served>>

\* POST /login, after the password: L1 is in; a keyless officer gets a session
\* to enrol with; the others a ticket for a WebAuthn challenge.
Admit(r) ==
  /\ request[r].at = "admitted"
  /\ request[r].level = "L1" \/ ~account[request[r].of].key
  /\ Issue(request[r].of, FALSE) /\ Answer(r)
  /\ UNCHANGED <<account, code, redeemed, served>>

Challenge(r) ==
  /\ request[r].at = "admitted"
  /\ request[r].level # "L1" /\ account[request[r].of].key
  /\ Knowing(r, "ticket", "L1")
  /\ UNCHANGED <<account, code, redeemed, session, served>>

\* POST /webauthn/authenticate: the key is looked up, later the session is issued.
Authenticate(r) ==
  /\ request[r].at = "ticket" /\ account[request[r].of].key
  /\ Advance(r, "asserted")
  /\ UNCHANGED <<account, code, redeemed, session, served>>

Authenticated(r) ==
  /\ request[r].at = "asserted"
  /\ Issue(request[r].of, TRUE) /\ Answer(r)
  /\ UNCHANGED <<account, code, redeemed, served>>

---------------------------------------------------------------------------
\* POST /recovery/redeem, one statement after the other.

\* The sessions there are now are the ones this redemption has to end.
MarkedBy(r) == [s \in Sessions |-> IF session[s].of = request[r].of
                  THEN [session[s] EXCEPT !.before = @ \cup {r}] ELSE session[s]]

\* Mutant: the code is looked up without marking it used in the same statement.
RedeemUnmarked(r) ==
  /\ request[r].at = "entitled" /\ code[request[r].of] = "live"
  /\ redeemed' = [redeemed EXCEPT ![request[r].of] = @ + 1]
  /\ session' = MarkedBy(r)
  /\ Advance(r, "consumed")
  /\ UNCHANGED <<account, code, served>>

Redeem(r) ==
  /\ request[r].at = "entitled" /\ code[request[r].of] = "live"
  /\ code' = [code EXCEPT ![request[r].of] = "used"]
  /\ redeemed' = [redeemed EXCEPT ![request[r].of] = @ + 1]
  /\ session' = MarkedBy(r)
  /\ Advance(r, "consumed")
  /\ UNCHANGED <<account, served>>

Burn(r) ==
  /\ request[r].at = "consumed"
  /\ RevokeAll(request[r].of)
  /\ Advance(r, "burned")
  /\ UNCHANGED <<account, code, redeemed, served>>

DropKeys(r) ==
  /\ request[r].at = "burned" /\ request[r].level # "L1"
  /\ account' = [account EXCEPT ![request[r].of].key = FALSE]
  /\ Advance(r, "keyless")
  /\ UNCHANGED <<code, redeemed, session, served>>

Suspend(r) ==
  /\ request[r].at = "keyless"
  /\ account' = [account EXCEPT ![request[r].of].status = Unenrolled]
  /\ Advance(r, "suspended")
  /\ UNCHANGED <<code, redeemed, session, served>>

Recover(r) ==
  /\ \/ request[r].at = "suspended"
     \/ request[r].at = "burned" /\ request[r].level = "L1"
  /\ Issue(request[r].of, FALSE) /\ Answer(r)
  /\ UNCHANGED <<account, code, redeemed, served>>

---------------------------------------------------------------------------
\* What a session is good for.  resolveSession runs first, in its own
\* statement; the handler then works with the actor it returned.
Resolve(r, s) ==
  LET u == session[s].of IN
  /\ request[r].at = "idle" /\ u # Nobody /\ account[u].status \in Usable
  /\ request' = [request EXCEPT ![r] =
       [NoRequest EXCEPT !.at = "acting", !.of = u, !.level = account[u].level,
                         !.session = s, !.keyed = session[s].keyed]]
  /\ Arrives
  /\ UNCHANGED <<account, code, redeemed, session>>

Acting(r) == request[r].at = "acting"

\* Mutant: whoever enrols a key is ACTIVE, without the WHERE on the status.
RegisterActivating(r) ==
  LET u == request[r].of IN
  /\ Acting(r) /\ Answer(r)
  /\ Write(u, [account[u] EXCEPT !.key = TRUE, !.status = "ACTIVE"])
  /\ UNCHANGED <<code, redeemed, session, served>>

\* POST /webauthn/register: key and status in one transaction.
Register(r) ==
  LET u == request[r].of
      a == [account[u] EXCEPT !.key = TRUE] IN
  /\ Acting(r) /\ Answer(r)
  /\ Write(u, IF a.status = Unenrolled THEN [a EXCEPT !.status = "ACTIVE"] ELSE a)
  /\ UNCHANGED <<code, redeemed, session, served>>

\* POST /authorization-pin.
SetPin(r) ==
  /\ Acting(r) /\ Answer(r)
  /\ account' = [account EXCEPT ![request[r].of].pin = TRUE]
  /\ UNCHANGED <<code, redeemed, session, served>>

\* POST /recovery-codes: the old codes are used up, a new one is handed out.
RegenerateCodes(r) ==
  /\ Acting(r) /\ Answer(r)
  /\ code' = [code EXCEPT ![request[r].of] = "live"]
  /\ redeemed' = [redeemed EXCEPT ![request[r].of] = 0]
  /\ UNCHANGED <<account, session, served>>

\* POST /step-up: an assertion by a key, then the session row, if it is live.
StepUp(r) ==
  /\ Acting(r) /\ account[request[r].of].key
  /\ Advance(r, "stepping")
  /\ UNCHANGED <<account, code, redeemed, session, served>>

\* Mutant: the row is written whether or not it was revoked meanwhile.
SteppedUpReviving(r) ==
  /\ request[r].at = "stepping" /\ Answer(r)
  /\ session' = [session EXCEPT ![request[r].session] =
       [of |-> request[r].of, keyed |-> TRUE, before |-> Requests]]
  /\ UNCHANGED <<account, code, redeemed, served>>

SteppedUp(r) ==
  LET s == request[r].session IN
  /\ request[r].at = "stepping" /\ Answer(r)
  /\ session' = IF session[s].of = Nobody THEN session ELSE [session EXCEPT ![s].keyed = TRUE]
  /\ UNCHANGED <<account, code, redeemed, served>>

\* POST /logout and POST /logout-all.
Logout(r) ==
  /\ Acting(r) /\ Answer(r)
  /\ \/ session' = [session EXCEPT ![request[r].session] = NoSession]
     \/ RevokeAll(request[r].of)
  /\ UNCHANGED <<account, code, redeemed, served>>

---------------------------------------------------------------------------
\* What an L3 may do: the level is the one resolveSession read.
Executive(r) == Acting(r) /\ request[r].level = "L3"

\* POST /users: an officer is created with a PIN and enrols at first sign-in.
CreateUser(r, v) ==
  /\ Executive(r) /\ Answer(r)
  /\ account[v].status = "ABSENT"
  /\ \E l \in Levels, pin \in BOOLEAN :
       /\ l # "L1" => pin
       /\ Write(v, [level |-> l, status |-> IF l = "L1" THEN "ACTIVE" ELSE Unenrolled,
                    pin |-> pin, key |-> FALSE, failed |-> 0])
  /\ UNCHANGED <<code, redeemed, session, served>>

\* PATCH /users/:id: up to four updates of the row, each of which must be lawful.
Unlocked(a, unlock) == IF unlock THEN [a EXCEPT !.failed = 0, !.status = "ACTIVE"] ELSE a
Restated(a, st) == IF st = "kept" THEN a ELSE [a EXCEPT !.status = st]
Cleared(a, reset) == IF reset THEN [a EXCEPT !.failed = 0] ELSE a

PatchUser(r, v) ==
  /\ Executive(r) /\ Answer(r)
  /\ account[v].status # "ABSENT"
  /\ \E unlock, reset, revoke \in BOOLEAN,
        st \in {"kept", "ACTIVE", "DISABLED", "LOCKED"}, l \in Levels :
       /\ ~(v = request[r].of /\ st = "DISABLED")
       /\ Lawful(Unlocked(account[v], unlock))
       /\ Lawful(Restated(Unlocked(account[v], unlock), st))
       /\ Write(v, Cleared([Restated(Unlocked(account[v], unlock), st) EXCEPT !.level = l], reset))
       /\ IF revoke \/ st = "DISABLED" THEN RevokeAll(v) ELSE session' = session
  /\ UNCHANGED <<code, redeemed, served>>

\* POST /users/:id/admin-recovery, with the executive's key and PIN.
AdminRecovery(r, v) ==
  /\ Executive(r) /\ Answer(r)
  /\ request[r].keyed /\ account[request[r].of].pin
  /\ account[v].status # "ABSENT"
  /\ account' = [account EXCEPT ![v] = [level |-> account[v].level, status |-> Unenrolled,
                   pin |-> FALSE, key |-> FALSE, failed |-> 0]]
  /\ code' = [code EXCEPT ![v] = IF @ = "live" THEN "used" ELSE @]
  /\ RevokeAll(v)
  /\ UNCHANGED <<redeemed, served>>

\* POST /security/devices/:id/revoke: the holder's sessions end with it.
RevokeDevice(r, v) ==
  /\ Executive(r) /\ Answer(r)
  /\ RevokeAll(v)
  /\ UNCHANGED <<account, code, redeemed, served>>

---------------------------------------------------------------------------
\* A refused or interrupted request: what it has already written stays.
Abort(r) == /\ request[r].at # "idle" /\ Answer(r)
            /\ session' = [s \in Sessions |-> [session[s] EXCEPT !.before = @ \ {r}]]
            /\ UNCHANGED <<account, code, redeemed, served>>

\* expires_at passes.
ExpireSession(s) == /\ session[s].of # Nobody
                    /\ session' = [session EXCEPT ![s] = NoSession]
                    /\ UNCHANGED <<account, code, redeemed, request, served>>

SignIn(r) == \/ WrongPassword(r) \/ RightPassword(r) \/ Admit(r) \/ Challenge(r)
             \/ Authenticate(r) \/ Authenticated(r)
Recovery(r) == Redeem(r) \/ Burn(r) \/ DropKeys(r) \/ Suspend(r) \/ Recover(r)
OwnAccount(r) == \/ Register(r) \/ SetPin(r) \/ RegenerateCodes(r)
                 \/ StepUp(r) \/ SteppedUp(r) \/ Logout(r)
Administration(r) == \E v \in Users : \/ CreateUser(r, v) \/ PatchUser(r, v)
                                      \/ AdminRecovery(r, v) \/ RevokeDevice(r, v)

ANext == \/ \E r \in Requests : \/ SignIn(r) \/ Recovery(r) \/ OwnAccount(r)
                                \/ Administration(r) \/ Abort(r)
                                \/ \E u \in Users, goal \in {"login", "redeem"} : ReadAccount(r, u, goal)
                                \/ \E s \in Sessions : Resolve(r, s)
         \/ \E s \in Sessions : ExpireSession(s)

ASpec == AInit /\ [][ANext]_avars

---------------------------------------------------------------------------
\* Properties.

SessionRow == [of : Users \cup {Nobody}, keyed : BOOLEAN, before : SUBSET Requests]
RequestRow == [at : Stages, of : Users \cup {Nobody}, level : Levels, status : Status,
               failed : 0..MaxFailed, session : Sessions \cup {Nobody}, keyed : BOOLEAN]

ATypeOK ==
  /\ account \in [Users -> Account]
  /\ code \in [Users -> {"none", "live", "used"}]
  /\ redeemed \in [Users -> Nat] /\ served \in Nat
  /\ session \in [Sessions -> SessionRow]
  /\ request \in [Requests -> RequestRow]
  /\ \A r \in Requests : request[r].at # "idle" => request[r].of \in Users
  /\ \A r \in Requests : request[r].at \in {"acting", "stepping"} => request[r].session \in Sessions

\* "Each code can be used once" (the redemption's error message), also when two
\* redemptions and a regeneration of the codes run at the same time.
CodeOnce == \A u \in Users : /\ redeemed[u] <= 1
                             /\ code[u] = "live" => redeemed[u] = 0

\* "Recovery burns every existing session" (routes/auth.ts): once it has, no
\* session from before is live, whatever requests of that session still write.
SessionsBurned == \A r \in Requests, s \in Sessions :
  request[r].at \in {"burned", "keyless", "suspended"} /\ session[s].of = request[r].of =>
    r \notin session[s].before

\* The requests that may bring an account back: a sign-in or a recovery let in
\* when the account could be used, or one of an executive.
PutOut(u) == account[u].status \in {"DISABLED", "LOCKED"}
LetInBefore(r, u) ==
  request[r].of = u /\ \/ request[r].at \in {"login", "redeem"} /\ request[r].status \in Usable
                       \/ request[r].at = "keyless"
Acts(r) == request'[r] # request[r]

\* An account that was disabled or locked stays out, whatever its live sessions
\* enrol and its owner tries: only an executive, or a sign-in or recovery that
\* was let in before, writes a usable status over it.  The latter happen: the
\* status read before the hash is written back (verifyPasswordStage), and a
\* recovery ends in an unconditional PENDING_ENROLMENT.
OutStaysOut ==
  [][\A u \in Users : PutOut(u) /\ account'[u].status \in Usable =>
       \E r \in Requests : Acts(r) /\ (LetInBefore(r, u) \/ Executive(r))]_avars

\* "At least one executive authority [has] to exist and never zero"
\* (0001_foundation.sql, above the table organization_l3_guarantee).
NeverWithoutExecutive == \E u \in Users : account[u].level = "L3"
===========================================================================
