---------------------------- MODULE Integration ----------------------------
(***************************************************************************)
(* The M-PESA configurations of one organisation (routes/admin.ts, the     *)
(* daraja routes, and services/daraja-config.ts), the payments sent with   *)
(* them and the callbacks those payments wait for.                         *)
(*                                                                         *)
(* A configuration is three things that no transaction covers: a row, the  *)
(* credentials in the secret store, and the client each process keeps.     *)
(* The four secrets of a configuration are written and read together here. *)
(***************************************************************************)
EXTENDS Integers, FiniteSets

CONSTANTS
  Envs,         \* the environments; Preferred is production
  Preferred,
  Requests,     \* requests in flight at the same time
  Processes,    \* API and worker processes
  MaxRequests,  \* bound on the requests of a behaviour
  MaxPayments   \* bound on the payments M-PESA is still working on

ASSUME IntegrationAssumption == /\ Preferred \in Envs /\ IsFiniteSet(Requests)
                                /\ MaxRequests \in Nat /\ MaxPayments \in Nat

VARIABLES
  config,    \* config[e]: the row of daraja_configurations, or NoRow
  stored,    \* stored[e]: what the secret store holds for e
  client,    \* client[p]: clientCache of process p, by configuration id
  request,   \* request[r]: how far a request has got, and what it holds
  inflight,  \* payments M-PESA has taken and not reported
  trial,     \* the ledger row of a test payment
  minted,    \* the secrets and credentials there have been
  served     \* counts the requests

ivars == <<config, stored, client, request, inflight, trial, minted, served>>

Nothing == 0   \* no id, no credentials, no secret
NoRow == [id |-> Nothing, status |-> "DISABLED", tested |-> FALSE, version |-> 0,
          url |-> Nothing, keys |-> Nothing]
NoClient == [version |-> 0, keys |-> Nothing]
NoHost == "no host"
Idle == [at |-> "idle", host |-> NoHost, goal |-> "none", env |-> Preferred, row |-> NoRow,
         url |-> Nothing, keys |-> Nothing, others |-> {}]

Tokens == 0..(2 * MaxRequests + 2)   \* a request mints at most two
Ids == Tokens \ {Nothing}

\* Nothing configured yet, or production set up, tested and enabled.
Fresh == /\ config = [e \in Envs |-> NoRow]
         /\ stored = [e \in Envs |-> [keys |-> Nothing, secret |-> Nothing]]
         /\ minted = 0
Established ==
  /\ config = [e \in Envs |-> IF e # Preferred THEN NoRow ELSE
       [id |-> 2, status |-> "ENABLED", tested |-> TRUE, version |-> 1, url |-> 1, keys |-> 2]]
  /\ stored = [e \in Envs |-> IF e # Preferred THEN [keys |-> Nothing, secret |-> Nothing]
                              ELSE [keys |-> 2, secret |-> 1]]
  /\ minted = 2

IInit == /\ Fresh \/ Established
         /\ client = [p \in Processes |-> [i \in Ids |-> NoClient]]
         /\ request = [r \in Requests |-> Idle]
         /\ inflight = {}
         /\ trial = "none"
         /\ served = 0

---------------------------------------------------------------------------
Begin(r, state) ==   \* whichever process takes it
  /\ request[r].at = "idle" /\ served < MaxRequests
  /\ \E p \in Processes : request' = [request EXCEPT ![r] = [state EXCEPT !.host = p]]
  /\ served' = served + 1
Answer(r) == request' = [request EXCEPT ![r] = Idle]

Exists(e) == config[e].id # Nothing
\* The rows an enabling transaction has updated and not yet committed.
Locked(e) == \E r \in Requests : request[r].at = "others off" /\ e \in request[r].others

Drop(p, i) == client' = [client EXCEPT ![p][i] = NoClient]   \* invalidateClientCache
Kept(r) == client[request[r].host][request[r].row.id]   \* clientCache.get

\* POST /daraja: rotation keeps the callback secret, a first configuration
\* mints one.
Configure(r, e) ==
  /\ Begin(r, [Idle EXCEPT !.at = "configuring", !.env = e,
                           !.url = IF Exists(e) /\ stored[e].secret # Nothing
                                     THEN stored[e].secret ELSE minted + 1])
  /\ minted' = IF Exists(e) /\ stored[e].secret # Nothing THEN minted ELSE minted + 1
  /\ UNCHANGED <<config, stored, client, inflight, trial>>

PutSecrets(r) ==
  /\ request[r].at = "configuring"
  /\ minted' = minted + 1
  /\ stored' = [stored EXCEPT ![request[r].env] = [keys |-> minted', secret |-> request[r].url]]
  /\ request' = [request EXCEPT ![r].at = "secrets put", ![r].keys = minted']
  /\ UNCHANGED <<config, client, inflight, trial, served>>

\* A new row gets an id of its own; what was just put will do for one.
Upserted(old, q) ==
  [id |-> IF old.id = Nothing THEN q.keys ELSE old.id, status |-> "TESTING", tested |-> FALSE,
   version |-> old.version + 1, url |-> q.url, keys |-> q.keys]

UpsertRow(r) ==
  LET e == request[r].env IN
  /\ request[r].at = "secrets put" /\ ~Locked(e)
  /\ config' = [config EXCEPT ![e] = Upserted(config[e], request[r])]
  /\ Drop(request[r].host, config'[e].id)
  /\ Answer(r)
  /\ UNCHANGED <<stored, inflight, trial, minted, served>>

---------------------------------------------------------------------------
\* loadDarajaClient and loadDarajaClientById: the row, then the client.
Loaded(goal, e) == [Idle EXCEPT !.at = "row read", !.goal = goal, !.env = e, !.row = config[e]]

LoadById(r, e, goal) ==   \* a connection test or a test payment
  /\ Exists(e)
  /\ goal = "trial" => trial = "none"
  /\ Begin(r, Loaded(goal, e))
  /\ UNCHANGED <<config, stored, client, inflight, trial, minted>>

Enabled(e) == config[e].status = "ENABLED"

LoadEnabled(r, e) ==   \* a payment, or the sweep's query
  /\ Enabled(e) /\ (e # Preferred => ~Enabled(Preferred))
  /\ Begin(r, Loaded("pay", e))
  /\ UNCHANGED <<config, stored, client, inflight, trial, minted>>

\* Mutant: the process has a client, whatever credentials it was built from.
CachedByIdAlone(r) == Kept(r).version # 0

Cached(r) == Kept(r).version = request[r].row.version

\* buildClient; the credentials are fetched in either case, and must be there.
TakeCached(r) ==
  /\ request[r].at = "row read" /\ stored[request[r].env].keys # Nothing
  /\ Cached(r)
  /\ request' = [request EXCEPT ![r].at = "client", ![r].keys = Kept(r).keys]
  /\ UNCHANGED <<config, stored, client, inflight, trial, minted, served>>

FetchSecrets(r) ==
  /\ request[r].at = "row read" /\ stored[request[r].env].keys # Nothing
  /\ ~Cached(r)
  /\ request' = [request EXCEPT ![r].at = "fetched", ![r].keys = stored[request[r].env].keys]
  /\ UNCHANGED <<config, stored, client, inflight, trial, minted, served>>

KeepClient(r) ==
  LET q == request[r] IN
  /\ q.at = "fetched"
  /\ client' = [client EXCEPT ![q.host][q.row.id] = [version |-> q.row.version, keys |-> q.keys]]
  /\ request' = [request EXCEPT ![r].at = "client"]
  /\ UNCHANGED <<config, stored, inflight, trial, minted, served>>

\* Mutant: a status the table does not know.
AfterTestUnnamed(ok) == IF ok THEN "TESTED" ELSE "ERROR"

AfterTest(ok) == IF ok THEN "TESTING" ELSE "ERROR"

\* POST /daraja/:id/test: the answer is written to the row of that id, as it
\* is by then.
Tested(r, ok) ==
  LET q == request[r] e == q.env IN
  /\ q.at = "client" /\ q.goal = "test" /\ ~Locked(e)
  /\ config' = IF config[e].id # q.row.id THEN config ELSE
       [config EXCEPT ![e].tested = ok, ![e].status = AfterTest(ok)]
  /\ Answer(r)
  /\ UNCHANGED <<stored, client, inflight, trial, minted, served>>

\* A payment's request: it carries the row's callback address.
Sent(q) == inflight' = inflight \cup {[env |-> q.env, id |-> q.row.id, url |-> q.row.url, of |-> q.goal]}

Pay(r) ==
  /\ request[r].at = "client" /\ request[r].goal = "pay"
  /\ Cardinality(inflight) < MaxPayments
  /\ Sent(request[r]) /\ Answer(r)
  /\ UNCHANGED <<config, stored, client, trial, minted, served>>

---------------------------------------------------------------------------
\* POST /daraja/:id/test-payment: the ledger row, the call, the outcome.  The
\* row has no submission date until the outcome is written.
OpenTrial(r) ==
  /\ request[r].at = "client" /\ request[r].goal = "trial" /\ trial = "none"
  /\ trial' = "undated"
  /\ request' = [request EXCEPT ![r].at = "ledger"]
  /\ UNCHANGED <<config, stored, client, inflight, minted, served>>

SendTrial(r) ==
  /\ request[r].at = "ledger" /\ Cardinality(inflight) < MaxPayments
  /\ Sent(request[r])
  /\ request' = [request EXCEPT ![r].at = "answered"]
  /\ UNCHANGED <<config, stored, client, trial, minted, served>>

RefuseTrial(r) ==
  /\ request[r].at = "ledger"
  /\ trial' \in {"settled", "dated"}   \* FAILED; or TIMEOUT, the answer being lost
  /\ Answer(r)
  /\ UNCHANGED <<config, stored, client, inflight, minted, served>>

\* AWAITING_CALLBACK or TIMEOUT; guard_transaction_update refuses it once a
\* result was quicker.
FinalizeTrial(r) ==
  /\ request[r].at = "answered"
  /\ trial' = IF trial = "settled" THEN trial ELSE "dated"
  /\ Answer(r)
  /\ UNCHANGED <<config, stored, client, inflight, minted, served>>

\* loadCallbackSecret: that of an enabled row if there is one, else of any.
Asked == IF \E e \in Envs : Enabled(e) THEN {e \in Envs : Enabled(e)} ELSE {e \in Envs : Exists(e)}

Callback(p) ==
  /\ p \in inflight
  /\ inflight' = inflight \ {p}
  /\ \/ \E e \in Asked : stored[e].secret = p.url /\ trial' = IF p.of = "trial" THEN "settled" ELSE trial
     \/ (\A e \in Envs : e \in Asked => stored[e].secret # p.url) /\ UNCHANGED trial  \* a security event
  /\ UNCHANGED <<config, stored, client, request, minted, served>>

---------------------------------------------------------------------------
\* POST /daraja/:id/enable, one transaction: what it read, the other rows,
\* this row, which has to pass the table's CHECK.
Enable(r, e) ==
  /\ Exists(e) /\ config[e].tested
  /\ Begin(r, [Idle EXCEPT !.at = "enabling", !.env = e, !.row = config[e]])
  /\ UNCHANGED <<config, stored, client, inflight, trial, minted>>

OthersOff(r) ==
  LET others == {e \in Envs \ {request[r].env} : Enabled(e)} IN
  /\ request[r].at = "enabling" /\ \A e \in others : ~Locked(e)
  /\ request' = [request EXCEPT ![r].at = "others off", ![r].others = others]
  /\ UNCHANGED <<config, stored, client, inflight, trial, minted, served>>

\* daraja_enabled_requires_passing_test
CheckPasses(row) == row.tested

ThisOn(r) ==
  LET q == request[r] this == q.env IN
  /\ q.at = "others off" /\ ~Locked(this)
  /\ config[this].id = q.row.id => CheckPasses(config[this])
  /\ config' = [e \in Envs |->
       IF e \in q.others THEN [config[e] EXCEPT !.status = "DISABLED"]
       ELSE IF e = this /\ config[e].id = q.row.id THEN [config[e] EXCEPT !.status = "ENABLED"]
       ELSE config[e]]
  /\ Answer(r)
  /\ UNCHANGED <<stored, client, inflight, trial, minted, served>>

Disable(r, e) ==
  /\ Exists(e) /\ ~Locked(e)
  /\ request[r].at = "idle" /\ served < MaxRequests /\ served' = served + 1
  /\ config' = [config EXCEPT ![e].status = "DISABLED"]
  /\ \E p \in Processes : Drop(p, config[e].id)
  /\ UNCHANGED <<stored, request, inflight, trial, minted>>

\* PATCH /daraja/:id: short code, initiator or command.
EditDetails(r, e) ==
  /\ Exists(e) /\ ~Locked(e)
  /\ config' = [config EXCEPT ![e].status = "TESTING", ![e].tested = FALSE]
  /\ Begin(r, [Idle EXCEPT !.at = "edited", !.env = e, !.row = config[e]])
  /\ UNCHANGED <<stored, client, inflight, trial, minted>>

AfterEdit(r) ==
  /\ request[r].at = "edited"
  /\ Drop(request[r].host, request[r].row.id) /\ Answer(r)
  /\ UNCHANGED <<config, stored, inflight, trial, minted, served>>

\* DELETE /daraja/:id: the row, then its secrets and the client.
Delete(r, e) ==
  /\ Exists(e) /\ ~Locked(e) /\ ~Enabled(e)
  /\ config' = [config EXCEPT ![e] = NoRow]
  /\ Begin(r, [Idle EXCEPT !.at = "deleted", !.env = e, !.row = config[e]])
  /\ UNCHANGED <<stored, client, inflight, trial, minted>>

DestroySecrets(r) ==
  LET q == request[r] IN
  /\ q.at = "deleted"
  /\ stored' = [stored EXCEPT ![q.env] = [keys |-> Nothing, secret |-> Nothing]]
  /\ Drop(q.host, q.row.id) /\ Answer(r)
  /\ UNCHANGED <<config, inflight, trial, minted, served>>

\* A request stops between two steps: an error, a refusal, the process dies.
Stop(r) ==
  /\ request[r].at # "idle"
  /\ Answer(r)
  /\ UNCHANGED <<config, stored, client, inflight, trial, minted, served>>

Restart(p) ==
  /\ client' = [client EXCEPT ![p] = [i \in Ids |-> NoClient]]
  /\ request' = [r \in Requests |-> IF request[r].host = p THEN Idle ELSE request[r]]
  /\ UNCHANGED <<config, stored, inflight, trial, minted, served>>

INext ==
  \/ \E r \in Requests, e \in Envs :
       \/ Configure(r, e) \/ LoadEnabled(r, e) \/ Enable(r, e) \/ Disable(r, e)
       \/ EditDetails(r, e) \/ Delete(r, e)
       \/ \E goal \in {"test", "trial"} : LoadById(r, e, goal)
  \/ \E r \in Requests :
       \/ PutSecrets(r) \/ UpsertRow(r) \/ TakeCached(r) \/ FetchSecrets(r) \/ KeepClient(r)
       \/ \E ok \in BOOLEAN : Tested(r, ok)
       \/ Pay(r) \/ OpenTrial(r) \/ SendTrial(r) \/ RefuseTrial(r) \/ FinalizeTrial(r)
       \/ OthersOff(r) \/ ThisOn(r) \/ AfterEdit(r) \/ DestroySecrets(r) \/ Stop(r)
  \/ \E p \in inflight : Callback(p)
  \/ \E p \in Processes : Restart(p)

ISpec == IInit /\ [][INext]_ivars

---------------------------------------------------------------------------
Rows == [id : {Nothing} \cup Ids, status : {"DISABLED", "TESTING", "ENABLED", "ERROR"},
         tested : BOOLEAN, version : 0..(MaxRequests + 1), url : Tokens, keys : Tokens]

Stages == {"idle", "configuring", "secrets put", "row read", "fetched", "client", "ledger",
           "answered", "enabling", "others off", "edited", "deleted"}

\* Type invariant.
ITypeOK ==
  /\ config \in [Envs -> Rows]
  /\ stored \in [Envs -> [keys : Tokens, secret : Tokens]]
  /\ client \in [Processes -> [Ids -> [version : 0..(MaxRequests + 1), keys : Tokens]]]
  /\ request \in [Requests -> [at : Stages, host : Processes \cup {NoHost},
                    goal : {"none", "test", "pay", "trial"}, env : Envs, row : Rows,
                    url : Tokens, keys : Tokens, others : SUBSET Envs]]
  /\ inflight \subseteq [env : Envs, id : Ids, url : Tokens, of : {"pay", "trial"}]
  /\ trial \in {"none", "undated", "dated", "settled"}
  /\ minted \in Tokens
  /\ served \in 0..MaxRequests

\* A request never goes out with credentials older than the ones its
\* configuration was written with, whatever rotation, deletion and the clients
\* the processes keep have done meanwhile (buildClient, credential_version).
FreshKeys == \A r \in Requests : request[r].at \in {"fetched", "client"} =>
                                   request[r].keys >= request[r].row.keys

\* daraja-credential-rotation.md: after a rotation the integration "cannot keep
\* processing payments on credentials that have not been proven to work": the
\* connection test that marks a row as tested was made with the credentials the
\* row has by then.
TestVouches ==
  [][\A r \in Requests, e \in Envs :
       /\ request[r].at = "client" /\ request'[r].at = "idle"
       /\ ~config[e].tested /\ config'[e].tested
       => request[r].keys >= config'[e].keys]_ivars

\* admin.ts: "Instructions already in flight will still report their outcome":
\* while the configuration it was sent with is there, a payment's result is
\* let in.
InFlightReports == \A p \in inflight : config[p.env].id = p.id =>
                     \A e \in Asked : stored[e].secret = p.url

\* admin.ts: "A test payment can never hang untracked": once its request is
\* over it has been settled or the sweep, which asks for a date, finds it.
TrialTracked ==
  trial = "undated" => \E r \in Requests : request[r].at \in {"ledger", "answered"}

\* admin.ts: "Only one enabled integration per organisation".
OneEnabled == \A e, f \in Envs : Enabled(e) /\ Enabled(f) => e = f

============================================================================
