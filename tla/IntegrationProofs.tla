-------------------------- MODULE IntegrationProofs ------------------------
(***************************************************************************)
(* The M-PESA configurations, the secret store and the clients, for any    *)
(* environments, processes and number of requests in flight.               *)
(***************************************************************************)
EXTENDS Integration, FiniteSetTheorems, TLAPS

\* Requests that have yet to mint credentials, or to count a version of e up.
Configuring == {r \in Requests : request[r].at = "configuring"}
Changing(e) == {r \in Requests : request[r].at \in {"configuring", "secrets put"} /\ request[r].env = e}

\* What is minted, and the version of a row, stay within what was asked for.
Counted == /\ minted + Cardinality(Configuring) <= 2 * served + 2
           /\ \A e \in Envs : config[e].version + Cardinality(Changing(e)) <= served + 1

\* Where a request has read a row that was there.
Reading == {"row read", "fetched", "client", "ledger", "answered", "enabling", "others off",
            "edited", "deleted"}

RowsThere == \A e \in Envs : IF config[e].id = Nothing THEN config[e] = NoRow
                             ELSE config[e].version > 0

RequestsHold == \A r \in Requests : /\ request[r].at # "idle" => request[r].host \in Processes
                                    /\ request[r].at \in Reading => request[r].row.id # Nothing
                                    /\ request[r].at = "secrets put" => request[r].keys # Nothing
                                    /\ request[r].at = "ledger" => request[r].goal = "trial"

RequestSet == [at : Stages, host : Processes \cup {NoHost},
               goal : {"none", "test", "pay", "trial"}, env : Envs, row : Rows,
               url : Tokens, keys : Tokens, others : SUBSET Envs]

TypesInv == ITypeOK /\ Counted /\ RowsThere /\ RequestsHold

---------------------------------------------------------------------------
\* Counting requests.

LEMMA RequestSetsFinite ==
  ASSUME NEW S \in SUBSET Requests
  PROVE  IsFiniteSet(S) /\ Cardinality(S) \in Nat
  BY IntegrationAssumption, FS_Subset, FS_CardinalityType

LEMMA NoMore ==
  ASSUME NEW S \in SUBSET Requests, NEW T \in SUBSET S
  PROVE  Cardinality(T) <= Cardinality(S)
  BY RequestSetsFinite, FS_Subset

LEMMA OneMore ==
  ASSUME NEW S \in SUBSET Requests, NEW r \in Requests, NEW T \in SUBSET (S \cup {r})
  PROVE  Cardinality(T) <= Cardinality(S) + 1
  <1>1. Cardinality(S \cup {r}) <= Cardinality(S) + 1
    <2>1. CASE r \in S
      <3>1. S \cup {r} = S
        BY <2>1
      <3> QED BY <3>1, RequestSetsFinite
    <2>2. CASE r \notin S
      BY <2>2, RequestSetsFinite, FS_AddElement
    <2> QED BY <2>1, <2>2
  <1>2. Cardinality(T) <= Cardinality(S \cup {r})
    BY NoMore
  <1> QED BY <1>1, <1>2, RequestSetsFinite

LEMMA OneLess ==
  ASSUME NEW S \in SUBSET Requests, NEW r \in S, NEW T \in SUBSET (S \ {r})
  PROVE  Cardinality(T) + 1 <= Cardinality(S)
  <1>1. Cardinality(S \ {r}) = Cardinality(S) - 1
    BY RequestSetsFinite, FS_RemoveElement
  <1>2. Cardinality(T) <= Cardinality(S \ {r})
    BY NoMore
  <1> QED BY <1>1, <1>2, RequestSetsFinite

LEMMA CountTypes ==
  ASSUME ITypeOK
  PROVE  /\ served \in Nat /\ minted \in Nat
         /\ \A e \in Envs : config[e] \in Rows /\ config[e].version \in Nat
  <1>1. served \in Nat
    BY IntegrationAssumption DEF ITypeOK
  <1>2. minted \in Nat
    BY IntegrationAssumption DEF ITypeOK, Tokens
  <1>3. ASSUME NEW e \in Envs PROVE config[e] \in Rows
    BY DEF ITypeOK
  <1>4. ASSUME NEW e \in Envs PROVE config[e].version \in Nat
    BY <1>3, IntegrationAssumption DEF Rows
  <1> QED BY <1>1, <1>2, <1>3, <1>4
---------------------------------------------------------------------------
\* What the steps do to a request: it starts with the row it has read, gets on
\* with that row, or is over.

TypedRequests == request' \in [Requests -> RequestSet]
Rest(r) == \A s \in Requests \ {r} : request'[s] = request[s]

StartsWith(r, e) == /\ TypedRequests /\ Rest(r)
                    /\ request'[r].host \in Processes
                    /\ request'[r].env = e /\ request'[r].row = config[e]

GetsOn(r, from, to) == /\ TypedRequests /\ Rest(r)
                       /\ request[r].at = from /\ request'[r].at = to
                       /\ request'[r].host = request[r].host
                       /\ request'[r].env = request[r].env /\ request'[r].row = request[r].row

Ends(r) == TypedRequests /\ Rest(r) /\ request'[r] = Idle

LEMMA IdleTyped == Idle \in RequestSet /\ NoRow \in Rows
  <1>1. NoRow \in Rows
    BY IntegrationAssumption DEF NoRow, Rows, Nothing, Tokens
  <1>2. Preferred \in Envs /\ Nothing \in Tokens
    BY IntegrationAssumption DEF Nothing, Tokens
  <1> QED BY <1>1, <1>2 DEF Idle, RequestSet, Stages

LEMMA Requested ==
  ASSUME ITypeOK
  PROVE  request \in [Requests -> RequestSet] /\ config \in [Envs -> Rows]
  BY DEF ITypeOK, RequestSet

LEMMA Begun ==
  ASSUME ITypeOK, NEW r \in Requests, NEW s \in RequestSet, Begin(r, s)
  PROVE  /\ TypedRequests /\ Rest(r)
         /\ request'[r].host \in Processes
         /\ request'[r].at = s.at /\ request'[r].env = s.env /\ request'[r].row = s.row
         /\ served' = served + 1 /\ served' \in 0..MaxRequests
  <1>1. PICK p \in Processes : request' = [request EXCEPT ![r] = [s EXCEPT !.host = p]]
    BY DEF Begin
  <1>2. /\ [s EXCEPT !.host = p] \in RequestSet
        /\ [s EXCEPT !.host = p].host = p
        /\ [s EXCEPT !.host = p].at = s.at
        /\ [s EXCEPT !.host = p].env = s.env
        /\ [s EXCEPT !.host = p].row = s.row
    BY DEF RequestSet
  <1>3. served' = served + 1 /\ served < MaxRequests /\ served \in 0..MaxRequests
    BY DEF Begin, ITypeOK
  <1>4. served' \in 0..MaxRequests
    BY <1>3, IntegrationAssumption
  <1> QED BY <1>1, <1>2, <1>3, <1>4, Requested DEF TypedRequests, Rest

LEMMA Loads ==
  ASSUME ITypeOK, NEW r \in Requests, NEW e \in Envs,
         LoadEnabled(r, e) \/ \E goal \in {"test", "trial"} : LoadById(r, e, goal)
  PROVE  StartsWith(r, e) /\ request'[r].at = "row read"
  <1>1. PICK goal \in {"pay", "test", "trial"} : Begin(r, Loaded(goal, e))
    BY DEF LoadEnabled, LoadById
  <1>2. /\ Loaded(goal, e) \in RequestSet /\ Loaded(goal, e).at = "row read"
        /\ Loaded(goal, e).env = e /\ Loaded(goal, e).row = config[e]
    <2>1. config[e] \in Rows
      BY Requested
    <2> QED BY <2>1, IdleTyped DEF Loaded, RequestSet, Stages
  <1> QED BY <1>1, <1>2, Begun DEF StartsWith

LEMMA Operations ==
  ASSUME ITypeOK, NEW r \in Requests, NEW e \in Envs,
         Enable(r, e) \/ EditDetails(r, e) \/ Delete(r, e)
  PROVE  StartsWith(r, e) /\ request'[r].at \in {"enabling", "edited", "deleted"}
  <1> DEFINE s(a) == [Idle EXCEPT !.at = a, !.env = e, !.row = config[e]]
  <1>1. PICK a \in {"enabling", "edited", "deleted"} : Begin(r, s(a))
    BY DEF Enable, EditDetails, Delete
  <1>2. s(a) \in RequestSet /\ s(a).at = a /\ s(a).env = e /\ s(a).row = config[e]
    <2>1. config[e] \in Rows
      BY Requested
    <2> QED BY <2>1, IdleTyped DEF RequestSet, Stages
  <1> HIDE DEF s
  <1> QED BY <1>1, <1>2, Begun DEF StartsWith

\* The client a request looks up is there to be looked up.
LEMMA Looks ==
  ASSUME TypesInv, NEW r \in Requests, request[r].at \in Reading
  PROVE  /\ request[r] \in RequestSet /\ request[r].host \in Processes /\ request[r].row.id \in Ids
         /\ Kept(r) \in [version : 0..(MaxRequests + 1), keys : Tokens]
  <1>1. request[r] \in RequestSet /\ request[r].row \in Rows
    BY Requested DEF TypesInv, RequestSet
  <1>2. request[r].host \in Processes /\ request[r].row.id # Nothing
    BY DEF TypesInv, RequestsHold, Reading
  <1>3. request[r].row.id \in Ids
    BY <1>1, <1>2 DEF Rows
  <1> QED BY <1>1, <1>2, <1>3 DEF Kept, TypesInv, ITypeOK

LEMMA OneMoves ==
  ASSUME ITypeOK, NEW r \in Requests, NEW q \in RequestSet, request' = [request EXCEPT ![r] = q]
  PROVE  TypedRequests /\ Rest(r) /\ request'[r] = q
  BY Requested DEF TypedRequests, Rest

LEMMA Advances ==
  ASSUME TypesInv, NEW r \in Requests
  PROVE  /\ TakeCached(r)   => GetsOn(r, "row read", "client") /\ request'[r].keys = Kept(r).keys
         /\ FetchSecrets(r) => /\ GetsOn(r, "row read", "fetched")
                               /\ request'[r].keys = stored[request[r].env].keys
         /\ KeepClient(r)   => GetsOn(r, "fetched", "client") /\ request'[r].keys = request[r].keys
         /\ OpenTrial(r)    => GetsOn(r, "client", "ledger")
         /\ SendTrial(r)    => GetsOn(r, "ledger", "answered")
         /\ OthersOff(r)    => GetsOn(r, "enabling", "others off")
         /\ PutSecrets(r) /\ minted' \in Tokens =>
              GetsOn(r, "configuring", "secrets put") /\ request'[r].keys = minted'
  <1>1. ITypeOK /\ request[r] \in RequestSet /\ request \in [Requests -> RequestSet]
    BY Requested DEF TypesInv
  <1>2. ASSUME TakeCached(r)
        PROVE  GetsOn(r, "row read", "client") /\ request'[r].keys = Kept(r).keys
    <2> DEFINE q == [request[r] EXCEPT !.at = "client", !.keys = Kept(r).keys]
    <2>1. request[r].at = "row read" /\ request' = [request EXCEPT ![r] = q]
      BY <1>1, <1>2 DEF TakeCached, RequestSet
    <2>2. Kept(r).keys \in Tokens
      BY <2>1, Looks DEF Reading
    <2>3. /\ q \in RequestSet /\ q.at = "client" /\ q.host = request[r].host
          /\ q.env = request[r].env /\ q.row = request[r].row /\ q.keys = Kept(r).keys
      BY <1>1, <2>1, <2>2 DEF RequestSet, Stages
    <2> HIDE DEF q
    <2> QED BY <1>1, <2>1, <2>3, OneMoves DEF GetsOn
  <1>3. ASSUME FetchSecrets(r)
        PROVE  GetsOn(r, "row read", "fetched") /\ request'[r].keys = stored[request[r].env].keys
    <2> DEFINE q == [request[r] EXCEPT !.at = "fetched", !.keys = stored[request[r].env].keys]
    <2>1. request[r].at = "row read" /\ request' = [request EXCEPT ![r] = q]
      BY <1>1, <1>3 DEF FetchSecrets, RequestSet
    <2>2. stored[request[r].env].keys \in Tokens
      BY <1>1 DEF ITypeOK, RequestSet
    <2>3. /\ q \in RequestSet /\ q.at = "fetched" /\ q.host = request[r].host
          /\ q.env = request[r].env /\ q.row = request[r].row /\ q.keys = stored[request[r].env].keys
      BY <1>1, <2>1, <2>2 DEF RequestSet, Stages
    <2> HIDE DEF q
    <2> QED BY <1>1, <2>1, <2>3, OneMoves DEF GetsOn
  <1>4. ASSUME KeepClient(r)
        PROVE  GetsOn(r, "fetched", "client") /\ request'[r].keys = request[r].keys
    <2> DEFINE q == [request[r] EXCEPT !.at = "client"]
    <2>1. request[r].at = "fetched" /\ request' = [request EXCEPT ![r] = q]
      BY <1>1, <1>4 DEF KeepClient, RequestSet
    <2>3. /\ q \in RequestSet /\ q.at = "client" /\ q.host = request[r].host
          /\ q.env = request[r].env /\ q.row = request[r].row /\ q.keys = request[r].keys
      BY <1>1, <2>1 DEF RequestSet, Stages
    <2> HIDE DEF q
    <2> QED BY <1>1, <2>1, <2>3, OneMoves DEF GetsOn
  <1>5. ASSUME OpenTrial(r)
        PROVE  GetsOn(r, "client", "ledger")
    <2> DEFINE q == [request[r] EXCEPT !.at = "ledger"]
    <2>1. request[r].at = "client" /\ request' = [request EXCEPT ![r] = q]
      BY <1>1, <1>5 DEF OpenTrial, RequestSet
    <2>3. /\ q \in RequestSet /\ q.at = "ledger" /\ q.host = request[r].host
          /\ q.env = request[r].env /\ q.row = request[r].row
      BY <1>1, <2>1 DEF RequestSet, Stages
    <2> HIDE DEF q
    <2> QED BY <1>1, <2>1, <2>3, OneMoves DEF GetsOn
  <1>6. ASSUME SendTrial(r)
        PROVE  GetsOn(r, "ledger", "answered")
    <2> DEFINE q == [request[r] EXCEPT !.at = "answered"]
    <2>1. request[r].at = "ledger" /\ request' = [request EXCEPT ![r] = q]
      BY <1>1, <1>6 DEF SendTrial, RequestSet
    <2>3. /\ q \in RequestSet /\ q.at = "answered" /\ q.host = request[r].host
          /\ q.env = request[r].env /\ q.row = request[r].row
      BY <1>1, <2>1 DEF RequestSet, Stages
    <2> HIDE DEF q
    <2> QED BY <1>1, <2>1, <2>3, OneMoves DEF GetsOn
  <1>7. ASSUME OthersOff(r) PROVE GetsOn(r, "enabling", "others off")
    <2>0. PICK x \in SUBSET Envs : request' = [request EXCEPT ![r].at = "others off", ![r].others = x]
      BY <1>7 DEF OthersOff
    <2> DEFINE q == [request[r] EXCEPT !.at = "others off", !.others = x]
    <2>1. request[r].at = "enabling" /\ request' = [request EXCEPT ![r] = q]
      BY <1>1, <1>7, <2>0 DEF OthersOff, RequestSet
    <2>3. /\ q \in RequestSet /\ q.at = "others off" /\ q.host = request[r].host
          /\ q.env = request[r].env /\ q.row = request[r].row
      BY <1>1, <2>1 DEF RequestSet, Stages
    <2> HIDE DEF q
    <2> QED BY <1>1, <2>1, <2>3, OneMoves DEF GetsOn
  <1>8. ASSUME PutSecrets(r), minted' \in Tokens
        PROVE  GetsOn(r, "configuring", "secrets put") /\ request'[r].keys = minted'
    <2> DEFINE q == [request[r] EXCEPT !.at = "secrets put", !.keys = minted']
    <2>1. request[r].at = "configuring" /\ request' = [request EXCEPT ![r] = q]
      BY <1>1, <1>8 DEF PutSecrets, RequestSet
    <2>3. /\ q \in RequestSet /\ q.at = "secrets put" /\ q.host = request[r].host
          /\ q.env = request[r].env /\ q.row = request[r].row /\ q.keys = minted'
      BY <1>1, <2>1, <1>8 DEF RequestSet, Stages
    <2> HIDE DEF q
    <2> QED BY <1>1, <2>1, <2>3, OneMoves DEF GetsOn
  <1> QED BY <1>2, <1>3, <1>4, <1>5, <1>6, <1>7, <1>8

LEMMA Answers ==
  ASSUME ITypeOK, NEW r \in Requests,
         \/ UpsertRow(r) \/ \E ok \in BOOLEAN : Tested(r, ok)
         \/ Pay(r) \/ RefuseTrial(r) \/ FinalizeTrial(r) \/ ThisOn(r) \/ AfterEdit(r)
         \/ DestroySecrets(r) \/ Stop(r)
  PROVE  Ends(r)
  <1>1. request' = [request EXCEPT ![r] = Idle]
    BY DEF UpsertRow, Tested, Pay, RefuseTrial, FinalizeTrial, ThisOn, AfterEdit, DestroySecrets,
           Stop, Answer
  <1> QED BY <1>1, Requested, IdleTyped DEF Ends, TypedRequests, Rest

LEMMA Restarts ==
  ASSUME ITypeOK, NEW p \in Processes, Restart(p)
  PROVE  /\ TypedRequests
         /\ \A r \in Requests : request'[r] = request[r] \/ request'[r] = Idle
  BY Requested, IdleTyped DEF Restart, TypedRequests

\* The steps other than those of a configuration's three writes.
Quiet == \/ \E r \in Requests, e \in Envs :
              \/ LoadEnabled(r, e) \/ Enable(r, e) \/ Disable(r, e) \/ EditDetails(r, e) \/ Delete(r, e)
              \/ \E goal \in {"test", "trial"} : LoadById(r, e, goal)
         \/ \E r \in Requests :
              \/ TakeCached(r) \/ FetchSecrets(r) \/ KeepClient(r) \/ \E ok \in BOOLEAN : Tested(r, ok)
              \/ Pay(r) \/ OpenTrial(r) \/ SendTrial(r) \/ RefuseTrial(r) \/ FinalizeTrial(r)
              \/ OthersOff(r) \/ ThisOn(r) \/ AfterEdit(r) \/ DestroySecrets(r) \/ Stop(r)
         \/ \E p \in inflight : Callback(p)
         \/ \E p \in Processes : Restart(p)

LEMMA StepKinds ==
  ASSUME INext
  PROVE  \/ Quiet
         \/ \E r \in Requests : PutSecrets(r) \/ UpsertRow(r) \/ \E e \in Envs : Configure(r, e)
  BY DEF INext, Quiet


\* All of them together: what a request holds stays with it, or is what it has
\* just read; nobody starts to configure.
LEMMA QuietRequests ==
  ASSUME TypesInv, Quiet
  PROVE  /\ TypedRequests
         /\ \A s \in Requests :
              \/ request'[s] = request[s] \/ request'[s] = Idle
              \/ /\ request'[s].at \in Reading /\ request'[s].host \in Processes
                 /\ \/ request'[s].row = request[s].row /\ request[s].at \in Reading
                    \/ config[request'[s].env].id # Nothing
                       /\ request'[s].row = config[request'[s].env]
         /\ \A s \in Requests : request'[s].at \in {"configuring", "secrets put"} =>
              request'[s] = request[s]
  <1> DEFINE Held(s) == \/ request'[s] = request[s] \/ request'[s] = Idle
                        \/ /\ request'[s].at \in Reading /\ request'[s].host \in Processes
                           /\ \/ request'[s].row = request[s].row /\ request[s].at \in Reading
                              \/ config[request'[s].env].id # Nothing
                                 /\ request'[s].row = config[request'[s].env]
             Goal == TypedRequests /\ \A s \in Requests : Held(s)
  <1>0. ITypeOK /\ Idle.at = "idle"
    BY DEF TypesInv, Idle
  <1>1. ASSUME NEW r \in Requests, NEW e \in Envs,
               \/ LoadEnabled(r, e) \/ Enable(r, e) \/ EditDetails(r, e) \/ Delete(r, e)
               \/ \E goal \in {"test", "trial"} : LoadById(r, e, goal)
        PROVE  Goal
    <2>1. Exists(e)
      <3>1. CASE LoadEnabled(r, e)
        BY <3>1 DEF LoadEnabled, Enabled, Exists, TypesInv, RowsThere, NoRow
      <3> QED BY <1>1, <3>1 DEF Enable, EditDetails, Delete, LoadById
    <2>2. StartsWith(r, e) /\ request'[r].at \in Reading
      BY <1>0, <1>1, Loads, Operations DEF Reading
    <2> QED BY <2>1, <2>2 DEF StartsWith, Rest, Exists
  <1>2. ASSUME NEW r \in Requests,
               \/ TakeCached(r) \/ FetchSecrets(r) \/ KeepClient(r) \/ OpenTrial(r) \/ SendTrial(r)
               \/ OthersOff(r)
        PROVE  Goal
    <2>1. PICK from, to \in Reading : GetsOn(r, from, to)
      BY <1>2, Advances DEF Reading
    <2>2. request[r].host \in Processes
      BY <2>1, Looks DEF GetsOn
    <2> QED BY <2>1, <2>2 DEF GetsOn, Rest
  <1>3. ASSUME NEW r \in Requests,
               \/ \E ok \in BOOLEAN : Tested(r, ok)
               \/ Pay(r) \/ RefuseTrial(r) \/ FinalizeTrial(r) \/ ThisOn(r) \/ AfterEdit(r)
               \/ DestroySecrets(r) \/ Stop(r)
        PROVE  Goal
    BY <1>0, <1>3, Answers DEF Ends, Rest
  <1>4. ASSUME NEW p \in Processes, Restart(p) PROVE Goal
    BY <1>0, <1>4, Restarts
  <1>5. ASSUME \/ \E p \in inflight : Callback(p)
               \/ \E r \in Requests, e \in Envs : Disable(r, e)
        PROVE  Goal
    BY <1>0, <1>5, Requested DEF Callback, Disable, TypedRequests
  <1>6. Goal
    BY <1>1, <1>2, <1>3, <1>4, <1>5 DEF Quiet
  <1>7. ASSUME NEW s \in Requests, request'[s].at \in {"configuring", "secrets put"}
        PROVE  request'[s] = request[s]
    BY <1>0, <1>6, <1>7 DEF Reading
  <1> QED BY <1>6, <1>7
---------------------------------------------------------------------------
\* What the steps do to the table: its row stays in what tells it from others,
\* or is gone, but for UpsertRow.

TypedConfig == config' \in [Envs -> Rows]
SameEdition(e) == /\ config'[e].id = config[e].id /\ config'[e].version = config[e].version
                  /\ config'[e].keys = config[e].keys

LEMMA RowUpdated ==
  ASSUME ITypeOK, RowsThere, NEW e \in Envs, NEW row \in Rows,
         config' = [config EXCEPT ![e] = row], Exists(e),
         row.id = config[e].id, row.version = config[e].version, row.keys = config[e].keys
  PROVE  /\ TypedConfig /\ RowsThere'
         /\ \A f \in Envs : SameEdition(f)
  <1>1. config'[e] = row /\ \A f \in Envs \ {e} : config'[f] = config[f]
    BY Requested
  <1>2. TypedConfig
    BY Requested DEF TypedConfig
  <1>3. \A f \in Envs : SameEdition(f)
    BY <1>1 DEF SameEdition
  <1>4. RowsThere'
    BY <1>1 DEF RowsThere, Exists
  <1> QED BY <1>2, <1>3, <1>4

LEMMA RowMarked ==
  ASSUME ITypeOK, RowsThere, NEW r \in Requests, NEW e \in Envs,
         Disable(r, e) \/ EditDetails(r, e)
  PROVE  /\ TypedConfig /\ RowsThere'
         /\ \A f \in Envs : SameEdition(f)
  <1>0. config \in [Envs -> Rows] /\ config[e] \in Rows
    BY Requested
  <1>1. CASE Disable(r, e)
    <2> DEFINE row == [config[e] EXCEPT !.status = "DISABLED"]
    <2>1. config' = [config EXCEPT ![e] = row] /\ Exists(e)
      BY <1>1 DEF Disable
    <2>2. /\ row \in Rows /\ row.id = config[e].id
          /\ row.version = config[e].version /\ row.keys = config[e].keys
      BY <1>0 DEF Rows
    <2> HIDE DEF row
    <2> QED BY <2>1, <2>2, RowUpdated
  <1>2. CASE EditDetails(r, e)
    <2> DEFINE row == [config[e] EXCEPT !.status = "TESTING", !.tested = FALSE]
    <2>1. config' = [config EXCEPT ![e] = row] /\ Exists(e)
      BY <1>0, <1>2 DEF EditDetails, Rows
    <2>2. /\ row \in Rows /\ row.id = config[e].id
          /\ row.version = config[e].version /\ row.keys = config[e].keys
      BY <1>0 DEF Rows
    <2> HIDE DEF row
    <2> QED BY <2>1, <2>2, RowUpdated
  <1> QED BY <1>1, <1>2

LEMMA RowTested ==
  ASSUME TypesInv, NEW r \in Requests, NEW ok \in BOOLEAN, Tested(r, ok)
  PROVE  /\ TypedConfig /\ RowsThere'
         /\ \A f \in Envs : SameEdition(f)
  <1> DEFINE e == request[r].env
             row == [config[e] EXCEPT !.tested = ok, !.status = AfterTest(ok)]
  <1>0. /\ request[r] \in RequestSet /\ e \in Envs
        /\ config \in [Envs -> Rows] /\ config[e] \in Rows
    BY Requested DEF TypesInv, RequestSet
  <1>1. CASE config[e].id # request[r].row.id
    BY <1>0, <1>1
    DEF Tested, TypedConfig, SameEdition, RowsThere, TypesInv
  <1>2. CASE config[e].id = request[r].row.id
    <2>1. config' = [config EXCEPT ![e] = row]
      BY <1>0, <1>2 DEF Tested, Rows
    <2>2. Exists(e)
      BY <1>2, Looks DEF Tested, Reading, Exists, Ids
    <2>3. /\ row \in Rows /\ row.id = config[e].id
          /\ row.version = config[e].version /\ row.keys = config[e].keys
      BY <1>0 DEF Rows, AfterTest
    <2> HIDE DEF row
    <2> QED BY <1>0, <2>1, <2>2, <2>3, RowUpdated DEF TypesInv
  <1> QED BY <1>1, <1>2

\* The enabling transaction's second half.
LEMMA RowEnabled ==
  ASSUME TypesInv, NEW r \in Requests, ThisOn(r)
  PROVE  /\ TypedConfig /\ RowsThere'
         /\ \A f \in Envs : SameEdition(f)
  <1> DEFINE off(f) == [config[f] EXCEPT !.status = "DISABLED"]
             on(f)  == [config[f] EXCEPT !.status = "ENABLED"]
  <1>1. request[r].row.id # Nothing
    BY Looks DEF ThisOn, Reading, Ids
  <1>2. ASSUME NEW f \in Envs
        PROVE  /\ config'[f] \in Rows /\ SameEdition(f)
               /\ IF config'[f].id = Nothing THEN config'[f] = NoRow ELSE config'[f].version > 0
    <2>0. /\ config[f] \in Rows
          /\ IF config[f].id = Nothing THEN config[f] = NoRow ELSE config[f].version > 0
      BY Requested DEF TypesInv, RowsThere
    <2>1. /\ off(f) \in Rows /\ off(f).id = config[f].id /\ off(f).version = config[f].version
          /\ off(f).keys = config[f].keys
          /\ config[f] = NoRow => off(f) = NoRow
      BY <2>0 DEF Rows, NoRow
    <2>2. /\ on(f) \in Rows /\ on(f).id = config[f].id /\ on(f).version = config[f].version
          /\ on(f).keys = config[f].keys
      BY <2>0 DEF Rows
    <2>3. \/ config'[f] = off(f) \/ config'[f] = config[f]
          \/ config'[f] = on(f) /\ config[f].id = request[r].row.id
      BY DEF ThisOn
    <2> HIDE DEF off, on
    <2> QED BY <1>1, <2>0, <2>1, <2>2, <2>3 DEF SameEdition
  <1>3. config' = [f \in Envs |-> config'[f]]
    BY DEF ThisOn
  <1>4. TypedConfig
    BY <1>2, <1>3 DEF TypedConfig
  <1> QED BY <1>2, <1>4 DEF RowsThere

LEMMA RowGone ==
  ASSUME ITypeOK, RowsThere, NEW r \in Requests, NEW e \in Envs, Delete(r, e)
  PROVE  /\ TypedConfig /\ RowsThere'
         /\ config'[e] = NoRow /\ \A f \in Envs \ {e} : config'[f] = config[f]
  <1>1. config' = [config EXCEPT ![e] = NoRow]
    BY DEF Delete
  <1>2. config'[e] = NoRow /\ \A f \in Envs \ {e} : config'[f] = config[f]
    BY <1>1, Requested
  <1>3. TypedConfig
    BY <1>1, Requested, IdleTyped DEF TypedConfig
  <1>0. NoRow.id = Nothing /\ NoRow.status = "DISABLED"
    BY DEF NoRow
  <1>4. RowsThere'
    BY <1>0, <1>2 DEF RowsThere
  <1> QED BY <1>2, <1>3, <1>4

\* All of them together.
LEMMA QuietTable ==
  ASSUME TypesInv, Quiet
  PROVE  /\ TypedConfig /\ RowsThere'
         /\ \A f \in Envs : SameEdition(f) \/ config'[f] = NoRow
  <1>0. ITypeOK /\ RowsThere
    BY DEF TypesInv
  <1>1. ASSUME config' = config
        PROVE  TypedConfig /\ RowsThere' /\ \A f \in Envs : SameEdition(f)
    BY <1>0, <1>1, Requested DEF TypedConfig, RowsThere, SameEdition
  <1>2. ASSUME NEW r \in Requests, NEW e \in Envs, Delete(r, e)
        PROVE  \A f \in Envs : SameEdition(f) \/ config'[f] = NoRow
    BY <1>0, <1>2, RowGone DEF SameEdition
  <1>3. ASSUME \A r \in Requests : /\ ~ThisOn(r) /\ \A ok \in BOOLEAN : ~Tested(r, ok)
                                   /\ \A e \in Envs : ~Disable(r, e) /\ ~EditDetails(r, e) /\ ~Delete(r, e)
        PROVE  config' = config
    BY <1>3
    DEF Quiet, LoadEnabled, Enable, LoadById, TakeCached,
        FetchSecrets, KeepClient, Pay, OpenTrial, SendTrial, RefuseTrial, FinalizeTrial,
        OthersOff, AfterEdit, DestroySecrets, Stop, Callback, Restart
  <1> QED BY <1>0, <1>1, <1>2, <1>3, RowMarked, RowTested, RowEnabled, RowGone

\* The upsert: the row of the request's environment counts its version up.
LEMMA RowUpserted ==
  ASSUME TypesInv, Counted', NEW r \in Requests, UpsertRow(r),
         request[r].keys # Nothing, NEW e \in Envs, e = request[r].env
  PROVE  /\ TypedConfig /\ RowsThere'
         /\ \A f \in Envs \ {e} : config'[f] = config[f]
         /\ config'[e].id = IF config[e].id = Nothing THEN request[r].keys ELSE config[e].id
         /\ config'[e].version = config[e].version + 1 /\ config'[e].keys = request[r].keys
  <1> DEFINE row == Upserted(config[e], request[r])
  <1>0. /\ request[r] \in RequestSet
        /\ config \in [Envs -> Rows] /\ config[e] \in Rows
    BY Requested DEF TypesInv, RequestSet
  <1>1. /\ config' = [config EXCEPT ![e] = row]
        /\ config'[e] = row /\ \A f \in Envs \ {e} : config'[f] = config[f]
    BY <1>0 DEF UpsertRow
  <1>2. /\ row.id = IF config[e].id = Nothing THEN request[r].keys ELSE config[e].id
        /\ row.version = config[e].version + 1 /\ row.keys = request[r].keys
        /\ row.status = "TESTING" /\ ~row.tested /\ row.url = request[r].url
    BY DEF Upserted
  <1> HIDE DEF row
  <1>3. row.version \in 0..(MaxRequests + 1)
    <2>1. config'[e].version + Cardinality(Changing(e)') <= served' + 1
      BY <1>0 DEF Counted
    <2>2. Cardinality(Changing(e)') \in Nat
      BY RequestSetsFinite DEF Changing
    <2>3. served' \in 0..MaxRequests
      BY DEF UpsertRow, TypesInv, ITypeOK
    <2>4. row.version \in Nat
      BY <1>0, <1>2, IntegrationAssumption DEF Rows
    <2>5. row.version + Cardinality(Changing(e)') <= served' + 1
      BY <1>1, <2>1
    <2> QED BY <2>2, <2>3, <2>4, <2>5, IntegrationAssumption
  <1>4. row \in Rows /\ row.id # Nothing /\ row.version > 0
    <2>1. row.id \in {Nothing} \cup Ids /\ row.url \in Tokens /\ row.keys \in Tokens
      BY <1>0, <1>2 DEF RequestSet, Rows, Ids
    <2>2. row.id # Nothing
      BY <1>2
    <2>3. row.version > 0
      <3>1. config[e].version \in Nat
        BY <1>0, IntegrationAssumption DEF Rows
      <3> QED BY <1>2, <3>1
    <2>4. row \in Rows
      BY <1>3, <2>1 DEF row, Upserted, Rows
    <2> QED BY <2>2, <2>3, <2>4
  <1>5. TypedConfig
    BY <1>0, <1>1, <1>4 DEF TypedConfig
  <1>6. RowsThere'
    BY <1>1, <1>4 DEF RowsThere, TypesInv
  <1> QED BY <1>0, <1>1, <1>2, <1>5, <1>6
---------------------------------------------------------------------------
\* The counts.

\* No request starts to configure; no row counts its version up.
NoneConfigures == \A r \in Requests : request'[r].at \in {"configuring", "secrets put"} =>
                    request'[r].at = request[r].at /\ request'[r].env = request[r].env
VersionsStand  == \A e \in Envs : config'[e].version \in Nat /\ config'[e].version <= config[e].version

LEMMA NothingCounted ==
  ASSUME TypesInv, minted' = minted, served' \in Nat, served' >= served, NoneConfigures, VersionsStand
  PROVE  Counted'
  <1>0. /\ served \in Nat /\ minted \in Nat
        /\ \A e \in Envs : config[e].version \in Nat
    BY CountTypes DEF TypesInv
  <1>1. Cardinality(Configuring') <= Cardinality(Configuring)
    <2>1. Configuring' \subseteq Configuring
      BY DEF Configuring, NoneConfigures
    <2> QED BY <2>1, NoMore DEF Configuring
  <1>2. ASSUME NEW e \in Envs PROVE Cardinality(Changing(e)') <= Cardinality(Changing(e))
    <2>1. Changing(e)' \subseteq Changing(e)
      BY DEF Changing, NoneConfigures
    <2> QED BY <2>1, NoMore DEF Changing
  <1>3. /\ Cardinality(Configuring) \in Nat /\ Cardinality(Configuring') \in Nat
        /\ \A e \in Envs : Cardinality(Changing(e)) \in Nat /\ Cardinality(Changing(e)') \in Nat
    BY RequestSetsFinite DEF Configuring, Changing
  <1>4. minted' + Cardinality(Configuring') <= 2 * served' + 2
    <2>1. minted + Cardinality(Configuring) <= 2 * served + 2
      BY DEF TypesInv, Counted
    <2> QED BY <1>0, <1>1, <1>3, <2>1
  <1>5. ASSUME NEW e \in Envs PROVE config'[e].version + Cardinality(Changing(e)') <= served' + 1
    <2>1. config[e].version + Cardinality(Changing(e)) <= served + 1
      BY DEF TypesInv, Counted
    <2>2. config'[e].version \in Nat /\ config'[e].version <= config[e].version
      BY DEF VersionsStand
    <2> QED BY <1>0, <1>2, <1>3, <2>1, <2>2
  <1> QED BY <1>4, <1>5 DEF Counted

LEMMA ConfigureCounted ==
  ASSUME TypesInv, NEW r \in Requests, NEW e \in Envs, Configure(r, e)
  PROVE  Counted'
  <1>0. /\ served \in Nat /\ minted \in Nat
        /\ \A f \in Envs : config[f] \in Rows /\ config[f].version \in Nat
    BY CountTypes DEF TypesInv
  <1>1. /\ minted' \in {minted, minted + 1} /\ served' = served + 1 /\ config' = config
        /\ \A s \in Requests \ {r} : request'[s] = request[s]
    BY DEF Configure, Begin, TypesInv, ITypeOK
  <1>2. Cardinality(Configuring') <= Cardinality(Configuring) + 1
    <2>1. Configuring' \subseteq Configuring \cup {r}
      BY <1>1 DEF Configuring
    <2> QED BY <2>1, OneMore DEF Configuring
  <1>3. ASSUME NEW f \in Envs PROVE Cardinality(Changing(f)') <= Cardinality(Changing(f)) + 1
    <2>1. Changing(f)' \subseteq Changing(f) \cup {r}
      BY <1>1 DEF Changing
    <2> QED BY <2>1, OneMore DEF Changing
  <1>4. /\ Cardinality(Configuring) \in Nat /\ Cardinality(Configuring') \in Nat
        /\ \A f \in Envs : Cardinality(Changing(f)) \in Nat /\ Cardinality(Changing(f)') \in Nat
    BY RequestSetsFinite DEF Configuring, Changing
  <1>5. minted' + Cardinality(Configuring') <= 2 * served' + 2
    <2>1. minted + Cardinality(Configuring) <= 2 * served + 2
      BY DEF TypesInv, Counted
    <2> QED BY <1>0, <1>1, <1>2, <1>4, <2>1
  <1>6. ASSUME NEW f \in Envs PROVE config'[f].version + Cardinality(Changing(f)') <= served' + 1
    <2>1. config[f].version + Cardinality(Changing(f)) <= served + 1
      BY DEF TypesInv, Counted
    <2> QED BY <1>0, <1>1, <1>3, <1>4, <2>1
  <1> QED BY <1>5, <1>6 DEF Counted

LEMMA PutSecretsCounted ==
  ASSUME TypesInv, NEW r \in Requests, PutSecrets(r)
  PROVE  Counted'
  <1>0. /\ served \in Nat /\ minted \in Nat
        /\ \A f \in Envs : config[f] \in Rows /\ config[f].version \in Nat
    BY CountTypes DEF TypesInv
  <1>1. minted' = minted + 1 /\ served' = served /\ config' = config
    BY DEF PutSecrets
  <1>7. /\ \A s \in Requests \ {r} : request'[s] = request[s]
        /\ request'[r].at = "secrets put" /\ request'[r].env = request[r].env
        /\ request[r].at = "configuring"
    BY DEF PutSecrets, TypesInv, ITypeOK
  <1>2. Cardinality(Configuring') + 1 <= Cardinality(Configuring)
    <2>1. r \in Configuring /\ Configuring' \subseteq Configuring \ {r}
      BY <1>7 DEF Configuring
    <2> QED BY <2>1, OneLess DEF Configuring
  <1>3. ASSUME NEW f \in Envs PROVE Cardinality(Changing(f)') <= Cardinality(Changing(f))
    <2>1. Changing(f)' \subseteq Changing(f)
      BY <1>7 DEF Changing
    <2> QED BY <2>1, NoMore DEF Changing
  <1>4. /\ Cardinality(Configuring) \in Nat /\ Cardinality(Configuring') \in Nat
        /\ \A f \in Envs : Cardinality(Changing(f)) \in Nat /\ Cardinality(Changing(f)') \in Nat
    BY RequestSetsFinite DEF Configuring, Changing
  <1>5. minted' + Cardinality(Configuring') <= 2 * served' + 2
    <2>1. minted + Cardinality(Configuring) <= 2 * served + 2
      BY DEF TypesInv, Counted
    <2> QED BY <1>0, <1>1, <1>2, <1>4, <2>1
  <1>6. ASSUME NEW f \in Envs PROVE config'[f].version + Cardinality(Changing(f)') <= served' + 1
    <2>1. config[f].version + Cardinality(Changing(f)) <= served + 1
      BY DEF TypesInv, Counted
    <2> QED BY <1>0, <1>1, <1>3, <1>4, <2>1
  <1> QED BY <1>5, <1>6 DEF Counted

LEMMA UpsertCounted ==
  ASSUME TypesInv, NEW r \in Requests, UpsertRow(r), NEW e \in Envs, e = request[r].env
  PROVE  Counted'
  <1>0. /\ served \in Nat /\ minted \in Nat /\ e \in Envs
        /\ \A f \in Envs : config[f] \in Rows /\ config[f].version \in Nat
    BY CountTypes DEF TypesInv, ITypeOK
  <1>1. minted' = minted /\ served' = served
    BY DEF UpsertRow
  <1>8. /\ config'[e].version = config[e].version + 1
        /\ \A f \in Envs \ {e} : config'[f].version = config[f].version
    BY <1>0 DEF UpsertRow, Upserted, TypesInv, ITypeOK
  <1>9. /\ \A s \in Requests \ {r} : request'[s] = request[s]
        /\ request'[r].at = "idle" /\ request[r].at = "secrets put"
    BY DEF UpsertRow, Answer, Idle, TypesInv, ITypeOK
  <1>2. Cardinality(Configuring') <= Cardinality(Configuring)
    <2>1. Configuring' \subseteq Configuring
      BY <1>9 DEF Configuring
    <2> QED BY <2>1, NoMore DEF Configuring
  <1>3. ASSUME NEW f \in Envs PROVE Cardinality(Changing(f)') <= Cardinality(Changing(f))
    <2>1. Changing(f)' \subseteq Changing(f)
      BY <1>9 DEF Changing
    <2> QED BY <2>1, NoMore DEF Changing
  <1>4. Cardinality(Changing(e)') + 1 <= Cardinality(Changing(e))
    <2>1. r \in Changing(e) /\ Changing(e)' \subseteq Changing(e) \ {r}
      BY <1>9 DEF Changing
    <2> QED BY <2>1, OneLess DEF Changing
  <1>5. /\ Cardinality(Configuring) \in Nat /\ Cardinality(Configuring') \in Nat
        /\ \A f \in Envs : Cardinality(Changing(f)) \in Nat /\ Cardinality(Changing(f)') \in Nat
    BY RequestSetsFinite DEF Configuring, Changing
  <1>6. minted' + Cardinality(Configuring') <= 2 * served' + 2
    <2>1. minted + Cardinality(Configuring) <= 2 * served + 2
      BY DEF TypesInv, Counted
    <2> QED BY <1>0, <1>1, <1>2, <1>5, <2>1
  <1>7. ASSUME NEW f \in Envs PROVE config'[f].version + Cardinality(Changing(f)') <= served' + 1
    <2>1. config[f].version + Cardinality(Changing(f)) <= served + 1
      BY DEF TypesInv, Counted
    <2>2. CASE f = e
      BY <1>0, <1>1, <1>8, <1>4, <1>5, <2>1, <2>2
    <2>3. CASE f # e
      BY <1>0, <1>1, <1>8, <1>3, <1>5, <2>1, <2>3
    <2> QED BY <2>2, <2>3
  <1> QED BY <1>6, <1>7 DEF Counted

LEMMA QuietCounted ==
  ASSUME TypesInv, Quiet
  PROVE  Counted'
  <1>0. ITypeOK
    BY DEF TypesInv
  <1>1. minted' = minted /\ served' \in Nat /\ served' >= served
    <2>1. served \in Nat /\ minted' = minted /\ served' \in {served, served + 1}
      BY <1>0, CountTypes
      DEF Quiet, LoadEnabled, Enable, Disable, EditDetails, Delete, LoadById, TakeCached,
          FetchSecrets, KeepClient, Tested, Pay, OpenTrial, SendTrial, RefuseTrial, FinalizeTrial,
          OthersOff, ThisOn, AfterEdit, DestroySecrets, Stop, Callback, Restart, Begin
    <2> QED BY <2>1
  <1>2. NoneConfigures
    BY <1>0, QuietRequests DEF NoneConfigures
  <1>3. VersionsStand
    <2>0. /\ NoRow.version = 0
          /\ \A e \in Envs : config[e].version \in Nat
      BY <1>0, CountTypes DEF NoRow
    <2> QED BY <2>0, QuietTable DEF VersionsStand, SameEdition
  <1> QED BY <1>1, <1>2, <1>3, NothingCounted

LEMMA CountStep ==
  ASSUME TypesInv, INext
  PROVE  Counted'
  <1>1. ASSUME NEW r \in Requests, UpsertRow(r) PROVE Counted'
    BY <1>1, UpsertCounted DEF TypesInv, ITypeOK
  <1> QED BY <1>1, StepKinds, QuietCounted, ConfigureCounted, PutSecretsCounted

---------------------------------------------------------------------------
\* The other variables.

ServedNext == \/ served' = served
              \/ served' = served + 1 /\ served < MaxRequests
MintedNext == minted' = minted \/ minted' = minted + 1

LEMMA NumbersTyped ==
  ASSUME TypesInv, Counted', INext
  PROVE  /\ minted' \in Tokens /\ minted' \in Nat /\ minted' >= minted
         /\ served' \in 0..MaxRequests
  <1>0. ITypeOK
    BY DEF TypesInv
  <1>1. served \in 0..MaxRequests /\ minted \in Nat
    <2>1. served \in 0..MaxRequests
      BY <1>0 DEF ITypeOK
    <2> QED BY <1>0, <2>1, CountTypes
  <1>2. ServedNext /\ MintedNext
    <2>1. ASSUME Quiet PROVE ServedNext /\ MintedNext
      BY <2>1
      DEF Quiet, LoadEnabled, Enable, Disable, EditDetails, Delete, LoadById, TakeCached,
          FetchSecrets, KeepClient, Tested, Pay, OpenTrial, SendTrial, RefuseTrial, FinalizeTrial,
          OthersOff, ThisOn, AfterEdit, DestroySecrets, Stop, Callback, Restart, Begin,
          ServedNext, MintedNext
    <2>2. ASSUME NEW r \in Requests, PutSecrets(r) \/ UpsertRow(r) PROVE ServedNext /\ MintedNext
      BY <2>2 DEF PutSecrets, UpsertRow, ServedNext, MintedNext
    <2>3. ASSUME NEW r \in Requests, NEW e \in Envs, Configure(r, e) PROVE ServedNext /\ MintedNext
      BY <2>3 DEF Configure, Begin, ServedNext, MintedNext
    <2> QED BY <2>1, <2>2, <2>3, StepKinds
  <1>3. served' \in 0..MaxRequests
    BY <1>1, <1>2, IntegrationAssumption DEF ServedNext
  <1>4. minted' <= 2 * MaxRequests + 2
    <2>1. minted' + Cardinality(Configuring') <= 2 * served' + 2
      BY DEF Counted
    <2>2. Cardinality(Configuring') \in Nat
      BY RequestSetsFinite DEF Configuring
    <2>3. minted' \in Nat /\ served' <= MaxRequests /\ served' \in Nat
      BY <1>1, <1>2, <1>3, IntegrationAssumption DEF MintedNext
    <2> QED BY <2>1, <2>2, <2>3, IntegrationAssumption
  <1>5. minted' \in Nat /\ minted' >= minted
    BY <1>1, <1>2 DEF MintedNext
  <1> QED BY <1>3, <1>4, <1>5, IntegrationAssumption DEF Tokens

LEMMA Configures ==
  ASSUME TypesInv, NEW r \in Requests, NEW e \in Envs, Configure(r, e), minted' \in Tokens
  PROVE  /\ TypedRequests /\ Rest(r) /\ request'[r].host \in Processes
         /\ request'[r].at = "configuring" /\ request'[r].row = NoRow
  <1> DEFINE u == IF Exists(e) /\ stored[e].secret # Nothing THEN stored[e].secret ELSE minted + 1
             s == [Idle EXCEPT !.at = "configuring", !.env = e, !.url = u]
  <1>1. ITypeOK /\ stored[e].secret \in Tokens
    BY DEF TypesInv, ITypeOK
  <1>2. u \in Tokens /\ Begin(r, s)
    BY <1>1 DEF Configure
  <1>3. s \in RequestSet /\ s.at = "configuring" /\ s.row = NoRow
    <2> HIDE DEF u
    <2>1. Idle.row = NoRow
      BY DEF Idle
    <2> QED BY <1>2, <2>1, IdleTyped DEF RequestSet, Stages
  <1> HIDE DEF s
  <1> QED BY <1>1, <1>2, <1>3, Begun

ClientSet == [version : 0..(MaxRequests + 1), keys : Tokens]
TypedClients == client' \in [Processes -> [Ids -> ClientSet]]
Thinned == \A p \in Processes, i \in Ids : client'[p][i] = client[p][i] \/ client'[p][i] = NoClient

LEMMA NoClientTyped == NoClient \in ClientSet
  <1>1. Nothing \in Tokens
    BY IntegrationAssumption DEF Nothing, Tokens
  <1> QED BY <1>1, IntegrationAssumption DEF NoClient, ClientSet

LEMMA Drops ==
  ASSUME ITypeOK, NEW p \in Processes, NEW i \in Ids, Drop(p, i)
  PROVE  TypedClients /\ Thinned
  BY NoClientTyped DEF Drop, ITypeOK, ClientSet, TypedClients, Thinned

\* Every client but the one KeepClient keeps.
LEMMA ClientsThinned ==
  ASSUME TypesInv, INext, \A r \in Requests : ~KeepClient(r),
         \A e \in Envs : config'[e] \in Rows,
         \A r \in Requests : UpsertRow(r) => config'[request[r].env].id # Nothing
  PROVE  TypedClients /\ Thinned
  <1>0. ITypeOK
    BY DEF TypesInv
  <1>1. ASSUME NEW r \in Requests, AfterEdit(r) \/ DestroySecrets(r) PROVE TypedClients /\ Thinned
    BY <1>0, <1>1, Looks, Drops DEF AfterEdit, DestroySecrets, Reading
  <1>2. ASSUME NEW r \in Requests, UpsertRow(r) PROVE TypedClients /\ Thinned
    <2>1. request[r].env \in Envs /\ request[r].host \in Processes
      BY <1>2, Requested DEF UpsertRow, TypesInv, RequestsHold, RequestSet
    <2>2. config'[request[r].env].id \in Ids
      BY <1>2, <2>1 DEF Rows
    <2>3. Drop(request[r].host, config'[request[r].env].id)
      BY <1>2 DEF UpsertRow
    <2> QED BY <1>0, <2>1, <2>2, <2>3, Drops
  <1>3. ASSUME NEW r \in Requests, NEW e \in Envs, Disable(r, e) PROVE TypedClients /\ Thinned
    <2>1. config[e].id \in Ids
      BY <1>0, <1>3, Requested DEF Disable, Exists, Rows
    <2> QED BY <1>0, <1>3, <2>1, Drops DEF Disable
  <1>4. ASSUME NEW p \in Processes, Restart(p) PROVE TypedClients /\ Thinned
    BY <1>0, <1>4, NoClientTyped DEF Restart, ITypeOK, ClientSet, TypedClients, Thinned
  <1>5. ASSUME client' = client PROVE TypedClients /\ Thinned
    BY <1>0, <1>5 DEF ITypeOK, ClientSet, TypedClients, Thinned
  <1>6. ASSUME \A r \in Requests : /\ ~AfterEdit(r) /\ ~DestroySecrets(r) /\ ~UpsertRow(r)
                                   /\ \A e \in Envs : ~Disable(r, e),
               \A p \in Processes : ~Restart(p)
        PROVE  client' = client
    BY <1>6
    DEF INext, LoadEnabled, Enable, EditDetails, Delete, LoadById, TakeCached,
        FetchSecrets, Tested, Pay, OpenTrial, SendTrial, RefuseTrial, FinalizeTrial,
        OthersOff, ThisOn, Stop, Callback, Configure, PutSecrets
  <1> QED BY <1>1, <1>2, <1>3, <1>4, <1>5, <1>6

LEMMA OneKept ==
  ASSUME client \in [Processes -> [Ids -> ClientSet]], NEW h \in Processes, NEW j \in Ids,
         NEW c, client' = [client EXCEPT ![h][j] = c], NEW p \in Processes, NEW i \in Ids
  PROVE  client'[p][i] = IF p = h /\ i = j THEN c ELSE client[p][i]
  <1> HIDE DEF ClientSet
  <1>1. client[h] \in [Ids -> ClientSet]
    OBVIOUS
  <1>2. client'[p] = IF p = h THEN [client[h] EXCEPT ![j] = c] ELSE client[p]
    OBVIOUS
  <1> QED BY <1>1, <1>2

LEMMA KeepsClient ==
  ASSUME TypesInv, NEW r \in Requests, KeepClient(r)
  PROVE  /\ TypedClients
         /\ \A p \in Processes, i \in Ids :
              \/ client'[p][i] = client[p][i]
              \/ i = request[r].row.id /\ client'[p][i].version = request[r].row.version
                 /\ client'[p][i].keys = request[r].keys
  <1> DEFINE q == request[r]
             c == [version |-> q.row.version, keys |-> q.keys]
  <1>1. q \in RequestSet /\ q.host \in Processes /\ q.row.id \in Ids
    BY Looks DEF KeepClient, Reading
  <1>2. c \in ClientSet /\ c.version = q.row.version /\ c.keys = q.keys
    BY <1>1 DEF RequestSet, Rows, ClientSet
  <1>3. client' = [client EXCEPT ![q.host][q.row.id] = c]
    BY DEF KeepClient
  <1>4. client \in [Processes -> [Ids -> ClientSet]]
    BY DEF TypesInv, ITypeOK, ClientSet
  <1> HIDE DEF c, q
  <1>5. TypedClients
    BY <1>1, <1>2, <1>3, <1>4 DEF TypedClients
  <1>6. ASSUME NEW p \in Processes, NEW i \in Ids
        PROVE  client'[p][i] = client[p][i] \/ (i = q.row.id /\ client'[p][i] = c)
    BY <1>1, <1>2, <1>3, <1>4, OneKept
  <1> QED BY <1>2, <1>5, <1>6 DEF q

---------------------------------------------------------------------------
\* Type correctness, and what an enabled configuration has behind it.

\* Only a test payment opens a ledger row.
TrialsOnly == \A s \in Requests : request[s].at = "ledger" => request[s].goal = "trial"

LEMMA TrialsStep ==
  ASSUME TypesInv, INext, minted' \in Tokens
  PROVE  TrialsOnly'
  <1>0. ITypeOK /\ TrialsOnly
    BY DEF TypesInv, RequestsHold, TrialsOnly
  <1> DEFINE Fine(r) == Rest(r) /\ (request'[r].at = "ledger" => request'[r].goal = "trial")
  <1>1. ASSUME NEW r \in Requests, Fine(r) PROVE TrialsOnly'
    BY <1>0, <1>1 DEF Rest, TrialsOnly
  <1>2. ASSUME NEW r \in Requests, NEW e \in Envs,
               \/ LoadEnabled(r, e) \/ \E goal \in {"test", "trial"} : LoadById(r, e, goal)
               \/ Enable(r, e) \/ EditDetails(r, e) \/ Delete(r, e)
        PROVE  Fine(r)
    BY <1>0, <1>2, Loads, Operations DEF StartsWith
  <1>3. ASSUME NEW r \in Requests,
               \/ TakeCached(r) \/ FetchSecrets(r) \/ KeepClient(r) \/ SendTrial(r)
               \/ OthersOff(r) \/ PutSecrets(r)
        PROVE  Fine(r)
    BY <1>3, Advances DEF GetsOn
  <1>4. ASSUME NEW r \in Requests, OpenTrial(r) PROVE Fine(r)
    <2> DEFINE q == [request[r] EXCEPT !.at = "ledger"]
    <2>1. request' = [request EXCEPT ![r] = q] /\ request[r] \in RequestSet
      BY <1>0, <1>4, Requested DEF OpenTrial
    <2>2. q \in RequestSet /\ q.goal = request[r].goal
      BY <2>1 DEF RequestSet, Stages
    <2>3. request[r].goal = "trial"
      BY <1>4 DEF OpenTrial
    <2> HIDE DEF q
    <2> QED BY <1>0, <2>1, <2>2, <2>3, OneMoves
  <1>5. ASSUME NEW r \in Requests,
               \/ \E ok \in BOOLEAN : Tested(r, ok)
               \/ Pay(r) \/ RefuseTrial(r) \/ FinalizeTrial(r) \/ ThisOn(r) \/ AfterEdit(r)
               \/ DestroySecrets(r) \/ Stop(r) \/ UpsertRow(r)
        PROVE  Fine(r)
    <2>1. Ends(r) /\ Idle.at = "idle"
      BY <1>0, <1>5, Answers DEF Idle
    <2> QED BY <2>1 DEF Ends
  <1>6. ASSUME NEW r \in Requests, NEW e \in Envs, Configure(r, e) PROVE Fine(r)
    BY <1>6, Configures
  <1>7. ASSUME NEW p \in Processes, Restart(p) PROVE TrialsOnly'
    <2>1. Idle.at = "idle"
      BY DEF Idle
    <2> QED BY <1>0, <1>7, <2>1, Restarts DEF TrialsOnly
  <1>8. ASSUME UNCHANGED request PROVE TrialsOnly'
    BY <1>0, <1>8 DEF TrialsOnly
  <1>9. ASSUME \/ \E r \in Requests, e \in Envs : Disable(r, e)
               \/ \E p \in inflight : Callback(p)
        PROVE  UNCHANGED request
    BY <1>9 DEF Disable, Callback
  <1> HIDE DEF Fine
  <1> QED BY <1>1, <1>2, <1>3, <1>4, <1>5, <1>6, <1>7, <1>8, <1>9 DEF INext

\* What the requests hold.
LEMMA HoldsStep ==
  ASSUME TypesInv, INext, minted' \in Tokens, minted' \in Nat, minted' >= minted
  PROVE  TypedRequests /\ RequestsHold'
  <1> DEFINE Holds(s) == /\ request'[s].at # "idle" => request'[s].host \in Processes
                         /\ request'[s].at \in Reading => request'[s].row.id # Nothing
                         /\ request'[s].at = "secrets put" => request'[s].keys # Nothing
             Held(s) == /\ request[s].at # "idle" => request[s].host \in Processes
                        /\ request[s].at \in Reading => request[s].row.id # Nothing
                        /\ request[s].at = "secrets put" => request[s].keys # Nothing
  <1>0. ITypeOK /\ \A s \in Requests : Held(s)
    BY DEF TypesInv, RequestsHold
  <1>1. TrialsOnly'
    BY TrialsStep
  <1>2. /\ Idle.at = "idle" /\ Idle.at \notin Reading
        /\ "configuring" \notin Reading /\ "secrets put" \notin Reading
    BY DEF Idle, Reading
  <1>3. SUFFICES TypedRequests /\ \A s \in Requests : Holds(s)
    BY <1>1, <1>3 DEF RequestsHold, TrialsOnly
  <1>4. CASE Quiet
    <2>1. TypedRequests
      BY <1>4, QuietRequests
    <2>2. ASSUME NEW s \in Requests PROVE Holds(s)
      <3>1. CASE request'[s] = request[s]
        BY <1>0, <3>1
      <3>2. CASE request'[s] = Idle
        BY <1>2, <3>2
      <3>3. CASE /\ request'[s].at \in Reading /\ request'[s].host \in Processes
                 /\ \/ request'[s].row = request[s].row /\ request[s].at \in Reading
                    \/ config[request'[s].env].id # Nothing
                       /\ request'[s].row = config[request'[s].env]
        BY <1>0, <1>2, <3>3
      <3> QED BY <1>4, <3>1, <3>2, <3>3, QuietRequests
    <2> QED BY <2>1, <2>2
  <1>5. ASSUME NEW r \in Requests, PutSecrets(r) PROVE TypedRequests /\ \A s \in Requests : Holds(s)
    <2>1. minted' # Nothing
      <3>1. minted' = minted + 1
        BY <1>5 DEF PutSecrets
      <3>2. minted \in Nat
        BY <1>0, CountTypes
      <3> QED BY <3>1, <3>2 DEF Nothing
    <2>2. GetsOn(r, "configuring", "secrets put") /\ request'[r].keys = minted'
      BY <1>5, Advances
    <2> QED BY <1>0, <1>2, <2>1, <2>2 DEF GetsOn, Rest
  <1>6. ASSUME NEW r \in Requests, UpsertRow(r) PROVE TypedRequests /\ \A s \in Requests : Holds(s)
    <2>1. Ends(r)
      BY <1>0, <1>6, Answers
    <2> QED BY <1>0, <1>2, <2>1 DEF Ends, Rest
  <1>7. ASSUME NEW r \in Requests, NEW e \in Envs, Configure(r, e)
        PROVE  TypedRequests /\ \A s \in Requests : Holds(s)
    BY <1>0, <1>2, <1>7, Configures DEF Rest
  <1> QED BY <1>4, <1>5, <1>6, <1>7, StepKinds

LEMMA StoredTyped ==
  ASSUME TypesInv, INext, minted' \in Tokens
  PROVE  stored' \in [Envs -> [keys : Tokens, secret : Tokens]]
  <1>0. ITypeOK /\ stored \in [Envs -> [keys : Tokens, secret : Tokens]]
    BY DEF TypesInv, ITypeOK
  <1>1. ASSUME NEW r \in Requests, PutSecrets(r)
        PROVE  stored' \in [Envs -> [keys : Tokens, secret : Tokens]]
    <2>1. request[r].env \in Envs /\ request[r].url \in Tokens
      BY <1>0, Requested DEF RequestSet
    <2> DEFINE u == request[r].url
    <2>2. stored' = [stored EXCEPT ![request[r].env] = [keys |-> minted', secret |-> u]]
      BY <1>1 DEF PutSecrets
    <2>3. [keys |-> minted', secret |-> u] \in [keys : Tokens, secret : Tokens]
      BY <2>1
    <2> QED BY <1>0, <2>2, <2>3
  <1>2. ASSUME NEW r \in Requests, DestroySecrets(r)
        PROVE  stored' \in [Envs -> [keys : Tokens, secret : Tokens]]
    <2>1. Nothing \in Tokens
      BY IntegrationAssumption DEF Nothing, Tokens
    <2>2. [keys |-> Nothing, secret |-> Nothing] \in [keys : Tokens, secret : Tokens]
      BY <2>1
    <2>3. stored' = [stored EXCEPT ![request[r].env] = [keys |-> Nothing, secret |-> Nothing]]
      BY <1>2 DEF DestroySecrets
    <2> QED BY <1>0, <2>2, <2>3
  <1>3. ASSUME \A r \in Requests : ~PutSecrets(r) /\ ~DestroySecrets(r)
        PROVE  stored' = stored
    BY <1>3
    DEF INext, LoadEnabled, Enable, Disable, EditDetails, Delete, LoadById, TakeCached,
        FetchSecrets, KeepClient, Tested, Pay, OpenTrial, SendTrial, RefuseTrial, FinalizeTrial,
        OthersOff, ThisOn, AfterEdit, Stop, Callback, Restart, Configure, UpsertRow
  <1> QED BY <1>0, <1>1, <1>2, <1>3

LEMMA InflightTyped ==
  ASSUME TypesInv, INext
  PROVE  inflight' \subseteq [env : Envs, id : Ids, url : Tokens, of : {"pay", "trial"}]
  <1> DEFINE Payments == [env : Envs, id : Ids, url : Tokens, of : {"pay", "trial"}]
  <1>0. inflight \subseteq Payments
    BY DEF TypesInv, ITypeOK
  <1>1. ASSUME NEW r \in Requests, Pay(r) \/ SendTrial(r) PROVE inflight' \subseteq Payments
    <2> DEFINE q == request[r]
    <2>1. q \in RequestSet /\ q.row.id \in Ids
      BY <1>1, Looks DEF Pay, SendTrial, Reading
    <2>2. q.goal \in {"pay", "trial"}
      BY <1>1 DEF Pay, SendTrial, TypesInv, RequestsHold
    <2>3. Sent(q)
      BY <1>1 DEF Pay, SendTrial
    <2>4. [env |-> q.env, id |-> q.row.id, url |-> q.row.url, of |-> q.goal] \in Payments
      BY <2>1, <2>2 DEF RequestSet, Rows
    <2> HIDE DEF q, Payments
    <2> QED BY <1>0, <2>3, <2>4 DEF Sent
  <1>2. ASSUME NEW p \in inflight, Callback(p) PROVE inflight' \subseteq Payments
    <2>1. inflight' = inflight \ {p}
      BY <1>2 DEF Callback
    <2> QED BY <1>0, <2>1
  <1>3. ASSUME \A r \in Requests : ~Pay(r) /\ ~SendTrial(r), \A p \in inflight : ~Callback(p)
        PROVE  inflight' = inflight
    BY <1>3
    DEF INext, LoadEnabled, Enable, Disable, EditDetails, Delete, LoadById, TakeCached,
        FetchSecrets, KeepClient, Tested, OpenTrial, RefuseTrial, FinalizeTrial,
        OthersOff, ThisOn, AfterEdit, Stop, Restart, Configure, UpsertRow, PutSecrets,
        DestroySecrets
  <1> QED BY <1>0, <1>1, <1>2, <1>3

LEMMA TrialTyped ==
  ASSUME TypesInv, INext
  PROVE  trial' \in {"none", "undated", "dated", "settled"}
  <1>0. trial \in {"none", "undated", "dated", "settled"}
    BY DEF TypesInv, ITypeOK
  <1>1. ASSUME NEW r \in Requests, OpenTrial(r) \/ RefuseTrial(r) \/ FinalizeTrial(r)
        PROVE  trial' \in {"none", "undated", "dated", "settled"}
    BY <1>0, <1>1 DEF OpenTrial, RefuseTrial, FinalizeTrial
  <1>2. ASSUME NEW p \in inflight, Callback(p)
        PROVE  trial' \in {trial, "settled"}
    BY <1>2 DEF Callback
  <1>3. ASSUME \A r \in Requests : ~OpenTrial(r) /\ ~RefuseTrial(r) /\ ~FinalizeTrial(r),
               \A p \in inflight : ~Callback(p)
        PROVE  trial' = trial
    BY <1>3
    DEF INext, LoadEnabled, Enable, Disable, EditDetails, Delete, LoadById, TakeCached,
        FetchSecrets, KeepClient, Tested, Pay, SendTrial,
        OthersOff, ThisOn, AfterEdit, Stop, Restart, Configure, UpsertRow, PutSecrets,
        DestroySecrets
  <1> QED BY <1>0, <1>1, <1>2, <1>3

\* The table, whichever the step.
LEMMA TableStep ==
  ASSUME TypesInv, INext, Counted'
  PROVE  /\ TypedConfig /\ RowsThere'
         /\ \A r \in Requests : UpsertRow(r) => config'[request[r].env].id # Nothing
  <1>1. ASSUME NEW r \in Requests, UpsertRow(r)
        PROVE  /\ TypedConfig /\ RowsThere'
               /\ config'[request[r].env].id # Nothing
    <2>1. request[r].env \in Envs
      BY Requested DEF TypesInv, RequestSet
    <2>2. request[r].keys # Nothing
      BY <1>1 DEF UpsertRow, TypesInv, RequestsHold
    <2>3. PICK e \in Envs : e = request[r].env
      BY <2>1
    <2> QED BY <1>1, <2>2, <2>3, RowUpserted
  <1>2. ASSUME config' = config PROVE TypedConfig /\ RowsThere'
    BY <1>2, Requested DEF TypesInv, TypedConfig, RowsThere
  <1>3. ASSUME NEW r \in Requests, PutSecrets(r) \/ \E e \in Envs : Configure(r, e)
        PROVE  config' = config
    BY <1>3 DEF PutSecrets, Configure
  <1>4. \A r \in Requests : UpsertRow(r) => config'[request[r].env].id # Nothing
    BY <1>1
  <1>5. TypedConfig /\ RowsThere'
    BY <1>1, <1>2, <1>3, StepKinds, QuietTable
  <1> QED BY <1>4, <1>5

LEMMA TypesStep ==
  ASSUME TypesInv, INext
  PROVE  TypesInv'
  <1>1. Counted'
    BY CountStep
  <1>2. /\ minted' \in Tokens /\ minted' \in Nat /\ minted' >= minted
        /\ served' \in 0..MaxRequests
    BY <1>1, NumbersTyped
  <1>3. TypedRequests /\ RequestsHold'
    BY <1>2, HoldsStep
  <1>4. /\ TypedConfig /\ RowsThere'
        /\ \A r \in Requests : UpsertRow(r) => config'[request[r].env].id # Nothing
    BY <1>1, TableStep
  <1>5. TypedClients
    BY <1>4, KeepsClient, ClientsThinned DEF TypedConfig
  <1>6. ITypeOK'
    BY <1>2, <1>3, <1>4, <1>5, StoredTyped, InflightTyped, TrialTyped
    DEF ITypeOK, TypedRequests, RequestSet, TypedConfig, TypedClients, ClientSet
  <1> QED BY <1>1, <1>3, <1>4, <1>6 DEF TypesInv

LEMMA TypesStutter ==
  ASSUME TypesInv, UNCHANGED ivars
  PROVE  TypesInv'
  <1>1. ITypeOK'
    BY DEF ivars, TypesInv, ITypeOK
  <1>2. Counted' /\ RowsThere' /\ RequestsHold'
    BY DEF ivars, TypesInv, Counted, Configuring, Changing, RowsThere, RequestsHold
  <1> QED BY <1>1, <1>2 DEF TypesInv

LEMMA TypesInit ==
  ASSUME IInit
  PROVE  TypesInv
  <1>1. /\ 0 \in Tokens /\ 1 \in Tokens /\ 2 \in Tokens /\ 2 \in Ids /\ 1 \in 0..(MaxRequests + 1)
        /\ Nothing = 0 /\ 0 \in 0..MaxRequests
    BY IntegrationAssumption DEF Tokens, Ids, Nothing
  <1> DEFINE up == [id |-> 2, status |-> "ENABLED", tested |-> TRUE, version |-> 1, url |-> 1, keys |-> 2]
  <1>2. /\ config \in [Envs -> Rows]
        /\ \A e \in Envs : config[e] = NoRow \/ config[e] = up
    <2>1. up \in Rows
      BY <1>1 DEF Rows
    <2> HIDE DEF up
    <2>2. CASE Fresh
      BY <2>2, IdleTyped DEF Fresh
    <2>3. CASE Established
      BY <2>1, <2>3, IdleTyped DEF Established, up
    <2> QED BY <2>2, <2>3 DEF IInit
  <1>3. /\ stored \in [Envs -> [keys : Tokens, secret : Tokens]]
        /\ minted \in {0, 2}
    <2>1. /\ [keys |-> Nothing, secret |-> Nothing] \in [keys : Tokens, secret : Tokens]
          /\ [keys |-> 2, secret |-> 1] \in [keys : Tokens, secret : Tokens]
      BY <1>1
    <2>2. CASE Fresh
      BY <2>1, <2>2 DEF Fresh
    <2>3. CASE Established
      BY <2>1, <2>3 DEF Established
    <2> QED BY <2>2, <2>3 DEF IInit
  <1>4. request \in [Requests -> RequestSet] /\ \A r \in Requests : request[r] = Idle
    BY IdleTyped DEF IInit
  <1>5. client \in [Processes -> [Ids -> ClientSet]]
    BY NoClientTyped DEF IInit
  <1>6. ITypeOK
    BY <1>1, <1>2, <1>3, <1>4, <1>5 DEF IInit, ITypeOK, RequestSet, ClientSet
  <1>7. Idle.at = "idle" /\ "idle" \notin Reading /\ NoRow.version = 0 /\ NoRow.status = "DISABLED"
        /\ NoRow.id = 0
    BY <1>1 DEF Idle, Reading, NoRow
  <1>8. up.id = 2 /\ up.version = 1 /\ up.tested
    OBVIOUS
  <1> HIDE DEF up
  <1>9. Counted
    <2>1. Configuring = {} /\ \A e \in Envs : Changing(e) = {}
      BY <1>4, <1>7 DEF Configuring, Changing
    <2>2. Cardinality({}) = 0
      BY FS_EmptySet
    <2>3. \A e \in Envs : config[e].version \in {0, 1}
      BY <1>2, <1>7, <1>8
    <2>4. served = 0
      BY DEF IInit
    <2>5. Cardinality(Configuring) = 0 /\ \A e \in Envs : Cardinality(Changing(e)) = 0
      BY <2>1, <2>2
    <2>6. minted + 0 <= 2 * served + 2 /\ \A e \in Envs : config[e].version + 0 <= served + 1
      BY <1>3, <2>3, <2>4
    <2> QED BY <2>5, <2>6 DEF Counted
  <1>10. RowsThere
    BY <1>1, <1>2, <1>7, <1>8 DEF RowsThere
  <1>11. RequestsHold
    BY <1>4, <1>7 DEF RequestsHold
  <1> QED BY <1>6, <1>9, <1>10, <1>11 DEF TypesInv

\* Type correctness, for any environments, processes and number of requests.
THEOREM IntegrationTypes == ISpec => []ITypeOK
  <1>1. TypesInv /\ [INext]_ivars => TypesInv'
    BY TypesStep, TypesStutter
  <1>2. TypesInv => ITypeOK
    BY DEF TypesInv
  <1> QED BY <1>1, <1>2, TypesInit, PTL DEF ISpec

---------------------------------------------------------------------------
\* Credentials.

\* What tells one version of a configuration's credentials from another, as
\* the table has it and as requests remember it.
Edition(a) == [id |-> a.id, version |-> a.version, keys |-> a.keys]
Seen       == {Edition(config[e]) : e \in Envs} \cup {Edition(request[r].row) : r \in Requests}

\* One version of a configuration has one set of credentials, and the table has
\* the latest version.
VersionsAgree ==
  /\ \A a, b \in Seen : a.id # Nothing /\ a.id = b.id /\ a.version = b.version => a.keys = b.keys
  /\ \A a \in Seen, e \in Envs : a.id # Nothing /\ config[e].id = a.id => a.version <= config[e].version
  /\ \A a \in Seen : a.id <= minted /\ a.keys <= minted /\ (a.id # Nothing => a.version > 0)
  /\ \A e, f \in Envs : config[e].id # Nothing /\ config[e].id = config[f].id => e = f

\* A client that is kept is at least as new as the rows of its version.
ClientsKept ==
  /\ \A a \in Seen, p \in Processes :
       a.id # Nothing /\ client[p][a.id].version = a.version => client[p][a.id].keys >= a.keys
  /\ \A p \in Processes, e \in Envs :
       config[e].id # Nothing => client[p][config[e].id].version <= config[e].version
  /\ \A p \in Processes, i \in Ids : client[p][i].version # 0 => i <= minted

\* The credentials just put will do for an id: nothing has that id yet.
Putting(r) == request[r].at = "secrets put"
PutsAreNew ==
  \A r \in Requests : Putting(r) =>
    /\ request[r].keys # Nothing /\ request[r].keys <= minted
    /\ \A a \in Seen : a.id # request[r].keys
    /\ \A p \in Processes : client[p][request[r].keys].version = 0
    /\ \A s \in Requests \ {r} : Putting(s) => request[s].keys # request[r].keys

\* The secret store is never behind a row, nor behind a request about to use it.
Behind(e, k) == stored[e].keys # Nothing => k <= stored[e].keys
StoreAhead ==
  /\ \A e \in Envs : Behind(e, config[e].keys)
  /\ \A r \in Requests : /\ request[r].at = "row read" => Behind(request[r].env, request[r].row.keys)
                         /\ Putting(r) => Behind(request[r].env, request[r].keys)

KeysInv == VersionsAgree /\ ClientsKept /\ PutsAreNew /\ StoreAhead /\ FreshKeys

LEMMA TokensAreNumbers == Tokens \subseteq Nat /\ Ids \subseteq Tokens /\ Ids \subseteq Nat
  BY IntegrationAssumption DEF Tokens, Ids

LEMMA AtMost ==
  ASSUME NEW i \in Nat, NEW m \in Nat, NEW n \in Nat, i <= m, n >= m
  PROVE  i <= n
  OBVIOUS

LEMMA NoneBelowZero ==
  ASSUME NEW n \in Nat
  PROVE  0 <= n
  OBVIOUS

LEMMA NotBeyond ==
  ASSUME NEW i \in Nat, NEW m \in Nat, NEW n, n = m + 1
  PROVE  /\ i <= m => i # n
         /\ ~(n <= m)
  OBVIOUS

LEMMA Earlier ==
  ASSUME NEW i \in Nat, NEW m \in Nat, NEW n, n = m + 1, i <= m
  PROVE  i <= n /\ i # n
  OBVIOUS

LEMMA Fields ==
  ASSUME NEW a
  PROVE  Edition(a).id = a.id /\ Edition(a).version = a.version /\ Edition(a).keys = a.keys
  BY DEF Edition

LEMMA SeenThere ==
  /\ \A e \in Envs : Edition(config[e]) \in Seen
  /\ \A r \in Requests : Edition(request[r].row) \in Seen
  BY DEF Seen

LEMMA SeenTyped ==
  ASSUME TypesInv, NEW a \in Seen
  PROVE  /\ a.id \in Tokens /\ a.id \in Nat /\ a.version \in Nat /\ a.keys \in Nat
         /\ a.id # Nothing => a.id \in Ids
  <1>1. PICK row \in Rows : a = Edition(row)
    <2>1. (\A e \in Envs : config[e] \in Rows) /\ (\A r \in Requests : request[r].row \in Rows)
      BY Requested DEF TypesInv, RequestSet
    <2> QED BY <2>1 DEF Seen
  <1>2. a.id = row.id /\ a.version = row.version /\ a.keys = row.keys
    BY <1>1, Fields
  <1>3. row.id \in {Nothing} \cup Ids /\ row.version \in 0..(MaxRequests + 1) /\ row.keys \in Tokens
    BY <1>1 DEF Rows
  <1>4. Nothing \in Tokens /\ Ids \subseteq Tokens /\ Tokens \subseteq Nat
    BY IntegrationAssumption DEF Nothing, Tokens, Ids
  <1>5. row.version \in Nat
    BY <1>3, IntegrationAssumption
  <1>6. row.id \in Tokens /\ row.id \in Nat /\ row.keys \in Nat /\ (row.id # Nothing => row.id \in Ids)
    BY <1>3, <1>4
  <1> QED BY <1>2, <1>5, <1>6

\* Nothing new is seen but rows that are gone.
SeenBefore == Seen' \subseteq Seen \cup {Edition(NoRow)}
RowsLast   == \A e \in Envs : SameEdition(e) \/ config'[e] = NoRow

LEMMA NoRowFields ==
  /\ NoRow.id = Nothing /\ NoRow.version = 0 /\ NoRow.keys = Nothing /\ Nothing = 0
  /\ Edition(NoRow).id = Nothing /\ Edition(NoRow).version = 0 /\ Edition(NoRow).keys = Nothing
  <1>1. NoRow.id = Nothing /\ NoRow.version = 0 /\ NoRow.keys = Nothing /\ Nothing = 0
    BY DEF NoRow, Nothing
  <1> QED BY <1>1, Fields

LEMMA SeenStill ==
  ASSUME RowsLast,
         \A s \in Requests : \/ request'[s].row = request[s].row \/ request'[s].row = NoRow
                             \/ \E e \in Envs : request'[s].row = config[e]
  PROVE  SeenBefore
  <1>1. ASSUME NEW e \in Envs PROVE Edition(config'[e]) \in Seen \cup {Edition(NoRow)}
    <2>1. CASE SameEdition(e)
      <3>1. Edition(config'[e]) = Edition(config[e])
        BY <2>1 DEF SameEdition, Edition
      <3> QED BY <3>1, SeenThere
    <2> QED BY <2>1 DEF RowsLast
  <1>2. ASSUME NEW s \in Requests PROVE Edition(request'[s].row) \in Seen \cup {Edition(NoRow)}
    BY SeenThere
  <1>3. Seen' = {Edition(config'[e]) : e \in Envs} \cup {Edition(request'[r].row) : r \in Requests}
    BY DEF Seen, Edition
  <1> QED BY <1>1, <1>2, <1>3 DEF SeenBefore

LEMMA VersionsStill ==
  ASSUME TypesInv, VersionsAgree, SeenBefore, RowsLast, minted' \in Nat, minted' >= minted
  PROVE  VersionsAgree'
  <1>1. minted \in Nat
    BY CountTypes DEF TypesInv
  <1>2. ASSUME NEW a \in Seen', a.id # Nothing PROVE a \in Seen
    BY <1>2, NoRowFields DEF SeenBefore
  <1>3. ASSUME NEW e \in Envs, config'[e].id # Nothing PROVE SameEdition(e)
    BY <1>3, NoRowFields DEF RowsLast
  <1>4. \A a, b \in Seen' : a.id # Nothing /\ a.id = b.id /\ a.version = b.version => a.keys = b.keys
    BY <1>2 DEF VersionsAgree
  <1>5. \A a \in Seen', e \in Envs : a.id # Nothing /\ config'[e].id = a.id => a.version <= config'[e].version
    BY <1>2, <1>3 DEF VersionsAgree, SameEdition
  <1>6. ASSUME NEW a \in Seen'
        PROVE  a.id <= minted' /\ a.keys <= minted' /\ (a.id # Nothing => a.version > 0)
    <2>1. CASE a = Edition(NoRow)
      BY <2>1, NoRowFields
    <2>2. CASE a \in Seen
      <3>1. a.id \in Nat /\ a.keys \in Nat
        BY <2>2, SeenTyped
      <3>2. a.id <= minted /\ a.keys <= minted /\ (a.id # Nothing => a.version > 0)
        BY <2>2 DEF VersionsAgree
      <3> QED BY <1>1, <3>1, <3>2
    <2> QED BY <2>1, <2>2 DEF SeenBefore
  <1>7. \A e, f \in Envs : config'[e].id # Nothing /\ config'[e].id = config'[f].id => e = f
    BY <1>3 DEF VersionsAgree, SameEdition
  <1> QED BY <1>4, <1>5, <1>6, <1>7 DEF VersionsAgree

LEMMA ClientsStill ==
  ASSUME TypesInv, VersionsAgree, ClientsKept, SeenBefore, RowsLast, Thinned,
         minted' \in Nat, minted' >= minted
  PROVE  ClientsKept'
  <1>1. minted \in Nat /\ NoClient.version = 0 /\ Ids \subseteq Nat
    BY CountTypes, IntegrationAssumption DEF TypesInv, NoClient, Ids, Tokens
  <1>2. ASSUME NEW a \in Seen', a.id # Nothing PROVE a \in Seen
    BY <1>2, NoRowFields DEF SeenBefore
  <1>3. ASSUME NEW e \in Envs, config'[e].id # Nothing PROVE SameEdition(e)
    BY <1>3, NoRowFields DEF RowsLast
  <1>4. ASSUME NEW a \in Seen', NEW p \in Processes, a.id # Nothing,
               client'[p][a.id].version = a.version
        PROVE  client'[p][a.id].keys >= a.keys
    <2>1. a \in Seen /\ a.version > 0 /\ a.id \in Ids
      BY <1>2, <1>4, SeenTyped DEF VersionsAgree
    <2>2. client'[p][a.id] # NoClient
      BY <1>1, <1>4, <2>1
    <2>3. client'[p][a.id] = client[p][a.id]
      BY <2>1, <2>2 DEF Thinned
    <2> QED BY <1>4, <2>1, <2>3 DEF ClientsKept
  <1>5. ASSUME NEW p \in Processes, NEW e \in Envs, config'[e].id # Nothing
        PROVE  client'[p][config'[e].id].version <= config'[e].version
    <2>1. config[e].id = config'[e].id /\ config[e].version = config'[e].version
      BY <1>3, <1>5 DEF SameEdition
    <2>2. config[e].id \in Ids /\ config[e].version \in Nat
      BY <1>5, <2>1, CountTypes, Requested DEF TypesInv, Rows
    <2>3. client'[p][config[e].id] = client[p][config[e].id] \/ client'[p][config[e].id] = NoClient
      BY <2>2 DEF Thinned
    <2> QED BY <1>1, <1>5, <2>1, <2>2, <2>3 DEF ClientsKept
  <1>6. ASSUME NEW p \in Processes, NEW i \in Ids, client'[p][i].version # 0 PROVE i <= minted'
    <2>1. client'[p][i] = client[p][i]
      BY <1>1, <1>6 DEF Thinned
    <2>2. i <= minted /\ i \in Nat
      BY <1>1, <1>6, <2>1 DEF ClientsKept
    <2> QED BY <1>1, <2>2
  <1> QED BY <1>4, <1>5, <1>6 DEF ClientsKept

\* What a step other than a configuration's writes does to the requests that
\* are loading a client.
LEMMA QuietLoading ==
  ASSUME TypesInv, Quiet, NEW s \in Requests
  PROVE  /\ request'[s].at = "row read" =>
              \/ request'[s] = request[s]
              \/ request'[s].env \in Envs /\ request'[s].row = config[request'[s].env]
         /\ request'[s].at \in {"fetched", "client"} =>
              \/ request'[s] = request[s]
              \/ TakeCached(s) \/ FetchSecrets(s) \/ KeepClient(s)
  <1> DEFINE Reads(t) == request'[t].at = "row read" =>
                           \/ request'[t] = request[t]
                           \/ request'[t].env \in Envs /\ request'[t].row = config[request'[t].env]
             Has(t) == request'[t].at \in {"fetched", "client"} =>
                         \/ request'[t] = request[t]
                         \/ TakeCached(t) \/ FetchSecrets(t) \/ KeepClient(t)
             Goal == \A t \in Requests : Reads(t) /\ Has(t)
  <1>0. ITypeOK /\ Idle.at = "idle"
    BY DEF TypesInv, Idle
  <1>1. ASSUME NEW r \in Requests, Rest(r), Reads(r), Has(r) PROVE Goal
    BY <1>1 DEF Rest
  <1>2. ASSUME NEW r \in Requests, NEW e \in Envs,
               LoadEnabled(r, e) \/ \E goal \in {"test", "trial"} : LoadById(r, e, goal)
        PROVE  Goal
    <2>1. StartsWith(r, e) /\ request'[r].at = "row read"
      BY <1>0, <1>2, Loads
    <2>2. Rest(r) /\ Reads(r) /\ Has(r)
      BY <2>1 DEF StartsWith
    <2> HIDE DEF Goal, Reads, Has
    <2> QED BY <1>1, <2>2
  <1>3. ASSUME NEW r \in Requests, NEW e \in Envs, Enable(r, e) \/ EditDetails(r, e) \/ Delete(r, e)
        PROVE  Goal
    <2>1. Rest(r) /\ request'[r].at \in {"enabling", "edited", "deleted"}
      BY <1>0, <1>3, Operations DEF StartsWith
    <2> QED BY <1>1, <2>1
  <1>4. ASSUME NEW r \in Requests, TakeCached(r) \/ FetchSecrets(r) \/ KeepClient(r)
        PROVE  Goal
    <2>1. Rest(r) /\ request'[r].at \in {"fetched", "client"}
      BY <1>4, Advances DEF GetsOn
    <2>2. Reads(r) /\ Has(r)
      BY <1>4, <2>1
    <2> HIDE DEF Goal, Reads, Has
    <2> QED BY <1>1, <2>1, <2>2
  <1>5. ASSUME NEW r \in Requests, OpenTrial(r) \/ SendTrial(r) \/ OthersOff(r) PROVE Goal
    <2>1. Rest(r) /\ request'[r].at \in {"ledger", "answered", "others off"}
      BY <1>5, Advances DEF GetsOn
    <2> QED BY <1>1, <2>1
  <1>6. ASSUME NEW r \in Requests,
               \/ \E ok \in BOOLEAN : Tested(r, ok)
               \/ Pay(r) \/ RefuseTrial(r) \/ FinalizeTrial(r) \/ ThisOn(r) \/ AfterEdit(r)
               \/ DestroySecrets(r) \/ Stop(r)
        PROVE  Goal
    <2>1. Ends(r)
      BY <1>0, <1>6, Answers
    <2>2. Rest(r) /\ request'[r].at = "idle"
      BY <1>0, <2>1 DEF Ends
    <2> QED BY <1>1, <2>2
  <1>7. ASSUME NEW p \in Processes, Restart(p) PROVE Goal
    <2>1. \A t \in Requests : request'[t] = request[t] \/ request'[t].at = "idle"
      BY <1>0, <1>7, Restarts
    <2> QED BY <2>1
  <1>8. ASSUME \/ \E r \in Requests, e \in Envs : Disable(r, e)
               \/ \E p \in inflight : Callback(p)
        PROVE  Goal
    BY <1>8 DEF Disable, Callback
  <1>9. Goal
    <2> HIDE DEF Goal
    <2> QED BY <1>2, <1>3, <1>4, <1>5, <1>6, <1>7, <1>8 DEF Quiet
  <1> QED BY <1>9

\* The secret store keeps what it has of a configuration, or has nothing left.
StoreKeeps == \A e \in Envs : stored'[e].keys = stored[e].keys \/ stored'[e].keys = Nothing

LEMMA QuietStore ==
  ASSUME TypesInv, Quiet
  PROVE  StoreKeeps
  <1>1. ASSUME NEW r \in Requests, DestroySecrets(r) PROVE StoreKeeps
    <2>1. stored \in [Envs -> [keys : Tokens, secret : Tokens]]
      BY DEF TypesInv, ITypeOK
    <2>2. stored' = [stored EXCEPT ![request[r].env] = [keys |-> Nothing, secret |-> Nothing]]
      BY <1>1 DEF DestroySecrets
    <2> QED BY <2>1, <2>2 DEF StoreKeeps
  <1>2. ASSUME \A r \in Requests : ~DestroySecrets(r) PROVE stored' = stored
    BY <1>2
    DEF Quiet, LoadEnabled, Enable, Disable, EditDetails, Delete, LoadById, TakeCached,
        FetchSecrets, KeepClient, Tested, Pay, OpenTrial, SendTrial, RefuseTrial, FinalizeTrial,
        OthersOff, ThisOn, AfterEdit, Stop, Callback, Restart
  <1> QED BY <1>1, <1>2 DEF StoreKeeps

LEMMA StoreStill ==
  ASSUME TypesInv, StoreAhead, StoreKeeps, RowsLast,
         \A s \in Requests :
           /\ request'[s].at = "row read" =>
                \/ request'[s] = request[s]
                \/ request'[s].env \in Envs /\ request'[s].row = config[request'[s].env]
           /\ request'[s].at = "secrets put" => request'[s] = request[s]
  PROVE  StoreAhead'
  <1>1. ASSUME NEW e \in Envs, NEW k, Behind(e, k)
        PROVE  stored'[e].keys # Nothing => k <= stored'[e].keys
    BY <1>1 DEF StoreKeeps, Behind
  <1>2. \A r \in Requests : request[r].env \in Envs
    BY Requested DEF TypesInv, RequestSet
  <1>3. ASSUME NEW e \in Envs PROVE stored'[e].keys # Nothing => config'[e].keys <= stored'[e].keys
    <2>1. CASE SameEdition(e)
      BY <1>1, <2>1 DEF SameEdition, StoreAhead
    <2>2. CASE config'[e] = NoRow
      <3>1. stored[e].keys \in Tokens
        BY DEF TypesInv, ITypeOK
      <3>2. stored[e].keys \in Nat
        BY <3>1, TokensAreNumbers
      <3>3. config'[e].keys = 0
        BY <2>2, NoRowFields
      <3>4. stored'[e].keys = stored[e].keys \/ stored'[e].keys = Nothing
        BY DEF StoreKeeps
      <3>5. Nothing \in Nat
        BY DEF Nothing
      <3>6. stored'[e].keys \in Nat
        BY <3>2, <3>4, <3>5, Zenon
      <3>7. 0 <= stored'[e].keys
        BY <3>6, NoneBelowZero, Zenon
      <3> QED BY <3>3, <3>7, Zenon
    <2> QED BY <2>1, <2>2 DEF RowsLast
  <1>4. ASSUME NEW s \in Requests, request'[s].at = "row read"
        PROVE  stored'[request'[s].env].keys # Nothing => request'[s].row.keys <= stored'[request'[s].env].keys
    BY <1>1, <1>2, <1>4 DEF StoreAhead
  <1>5. ASSUME NEW s \in Requests, request'[s].at = "secrets put"
        PROVE  stored'[request'[s].env].keys # Nothing => request'[s].keys <= stored'[request'[s].env].keys
    BY <1>1, <1>2, <1>5 DEF StoreAhead, Putting
  <1> QED BY <1>3, <1>4, <1>5 DEF StoreAhead, Behind, Putting

\* A request that loads a client gets one no older than the row it has read.
LEMMA FreshStill ==
  ASSUME TypesInv, KeysInv,
         \A s \in Requests : request'[s].at \in {"fetched", "client"} =>
           request'[s] = request[s] \/ TakeCached(s) \/ FetchSecrets(s) \/ KeepClient(s)
  PROVE  FreshKeys'
  <1>1. ASSUME NEW s \in Requests, request'[s].at \in {"fetched", "client"}
        PROVE  request'[s].keys >= request'[s].row.keys
    <2>1. CASE request'[s] = request[s]
      BY <1>1, <2>1 DEF KeysInv, FreshKeys
    <2>2. CASE KeepClient(s)
      <3>1. request[s].keys >= request[s].row.keys
        BY <2>2 DEF KeepClient, KeysInv, FreshKeys
      <3> QED BY <2>2, <3>1, Advances DEF GetsOn
    <2>3. CASE FetchSecrets(s)
      <3>1. Behind(request[s].env, request[s].row.keys) /\ stored[request[s].env].keys # Nothing
        BY <2>3 DEF FetchSecrets, KeysInv, StoreAhead
      <3>2. request'[s].row = request[s].row /\ request'[s].keys = stored[request[s].env].keys
        BY <2>3, Advances DEF GetsOn
      <3>3. stored[request[s].env].keys \in Nat /\ request[s].row.keys \in Nat
        BY IntegrationAssumption, Requested DEF TypesInv, ITypeOK, RequestSet, Rows, Tokens
      <3> QED BY <3>1, <3>2, <3>3 DEF Behind
    <2>4. CASE TakeCached(s)
      <3> DEFINE a == Edition(request[s].row)
      <3>1. request[s].at \in Reading /\ Kept(s).version = request[s].row.version
        BY <2>4 DEF TakeCached, Cached, Reading
      <3>2. request[s].row.id \in Ids /\ request[s].host \in Processes /\ request[s].row.id # Nothing
        BY <3>1, Looks DEF TypesInv, RequestsHold
      <3>3. a \in Seen /\ a.id = request[s].row.id /\ a.version = request[s].row.version
            /\ a.keys = request[s].row.keys
        BY SeenThere, Fields
      <3> HIDE DEF a
      <3>4. Kept(s).keys >= request[s].row.keys
        BY <3>1, <3>2, <3>3 DEF Kept, KeysInv, ClientsKept
      <3> QED BY <2>4, <3>4, Advances DEF GetsOn
    <2> QED BY <1>1, <2>1, <2>2, <2>3, <2>4
  <1> QED BY <1>1 DEF FreshKeys

LEMMA PutsStill ==
  ASSUME TypesInv, PutsAreNew, SeenBefore, minted' \in Nat, minted' >= minted,
         \A s \in Requests : request'[s].at = "secrets put" => request'[s] = request[s],
         \A p \in Processes, i \in Ids :
           client'[p][i].version = 0 \/ client'[p][i] = client[p][i] \/ \E a \in Seen : a.id = i
  PROVE  PutsAreNew'
  <1>1. ASSUME NEW r \in Requests, request'[r].at = "secrets put"
        PROVE  /\ request'[r].keys # Nothing /\ request'[r].keys <= minted'
               /\ \A a \in Seen' : a.id # request'[r].keys
               /\ \A p \in Processes : client'[p][request'[r].keys].version = 0
               /\ \A s \in Requests \ {r} : request'[s].at = "secrets put" => request'[s].keys # request'[r].keys
    <2>1. request'[r] = request[r] /\ Putting(r)
      BY <1>1 DEF Putting
    <2>2. /\ request[r].keys # Nothing /\ request[r].keys <= minted
          /\ \A a \in Seen : a.id # request[r].keys
          /\ \A p \in Processes : client[p][request[r].keys].version = 0
          /\ \A s \in Requests \ {r} : Putting(s) => request[s].keys # request[r].keys
      BY <2>1 DEF PutsAreNew
    <2>3. request[r].keys \in Tokens /\ minted \in Nat
      BY CountTypes, Requested DEF TypesInv, RequestSet
    <2>4. request[r].keys \in Ids /\ request[r].keys \in Nat
      BY <2>2, <2>3, TokensAreNumbers DEF Ids
    <2>5. request[r].keys <= minted'
      BY <2>2, <2>3, <2>4, AtMost
    <2>6. \A a \in Seen' : a.id # request[r].keys
      BY <2>2, NoRowFields DEF SeenBefore
    <2>7. \A p \in Processes : client'[p][request[r].keys].version = 0
      BY <2>2, <2>4
    <2>8. \A s \in Requests \ {r} : request'[s].at = "secrets put" => request'[s].keys # request[r].keys
      BY <2>2 DEF Putting
    <2> QED BY <2>1, <2>2, <2>5, <2>6, <2>7, <2>8
  <1> QED BY <1>1 DEF PutsAreNew, Putting

\* Keeping a client: it is as new as the row it is kept for.
LEMMA KeepClientKeys ==
  ASSUME TypesInv, KeysInv, SeenBefore, RowsLast, minted' = minted, NEW r \in Requests, KeepClient(r)
  PROVE  ClientsKept'
  <1> DEFINE a0 == Edition(request[r].row)
  <1>1. minted \in Nat /\ Ids \subseteq Nat
    BY CountTypes, IntegrationAssumption DEF TypesInv, Ids, Tokens
  <1>2. ASSUME NEW a \in Seen', a.id # Nothing PROVE a \in Seen
    BY <1>2, NoRowFields DEF SeenBefore
  <1>3. ASSUME NEW e \in Envs, config'[e].id # Nothing PROVE SameEdition(e)
    BY <1>3, NoRowFields DEF RowsLast
  <1>4. /\ a0 \in Seen /\ a0.id = request[r].row.id /\ a0.version = request[r].row.version
        /\ a0.keys = request[r].row.keys
    BY SeenThere, Fields
  <1> HIDE DEF a0
  <1>5. a0.id # Nothing /\ request[r].keys >= a0.keys /\ request[r].keys \in Nat
    <2>1. request[r].at = "fetched" /\ request[r].at \in Reading
      BY DEF KeepClient, Reading
    <2>2. request[r].keys \in Tokens
      BY Requested DEF TypesInv, RequestSet
    <2> QED BY <1>4, <2>1, <2>2, TokensAreNumbers DEF TypesInv, RequestsHold, KeysInv, FreshKeys
  <1>6. \A p \in Processes, i \in Ids :
          \/ client'[p][i] = client[p][i]
          \/ i = a0.id /\ client'[p][i].version = a0.version /\ client'[p][i].keys = request[r].keys
    BY <1>4, KeepsClient
  <1>7. ASSUME NEW a \in Seen', NEW p \in Processes, a.id # Nothing,
               client'[p][a.id].version = a.version
        PROVE  client'[p][a.id].keys >= a.keys
    <2>1. a \in Seen /\ a.id \in Ids
      BY <1>2, <1>7, SeenTyped
    <2>2. CASE client'[p][a.id] = client[p][a.id]
      BY <1>7, <2>1, <2>2 DEF KeysInv, ClientsKept
    <2>3. CASE a.id = a0.id /\ client'[p][a.id].version = a0.version /\ client'[p][a.id].keys = request[r].keys
      <3>1. a.keys = a0.keys
        BY <1>4, <1>7, <2>1, <2>3 DEF KeysInv, VersionsAgree
      <3> QED BY <1>5, <2>3, <3>1
    <2> QED BY <1>6, <2>1, <2>2, <2>3
  <1>8. ASSUME NEW p \in Processes, NEW e \in Envs, config'[e].id # Nothing
        PROVE  client'[p][config'[e].id].version <= config'[e].version
    <2>1. config[e].id = config'[e].id /\ config[e].version = config'[e].version
      BY <1>3, <1>8 DEF SameEdition
    <2>2. config[e].id \in Ids
      BY <1>8, <2>1, Requested DEF TypesInv, Rows
    <2>3. CASE client'[p][config[e].id] = client[p][config[e].id]
      BY <1>8, <2>1, <2>3 DEF KeysInv, ClientsKept
    <2>4. CASE config[e].id = a0.id /\ client'[p][config[e].id].version = a0.version
      BY <1>4, <1>5, <2>1, <2>4 DEF KeysInv, VersionsAgree
    <2> QED BY <1>6, <2>1, <2>2, <2>3, <2>4
  <1>9. ASSUME NEW p \in Processes, NEW i \in Ids, client'[p][i].version # 0 PROVE i <= minted'
    <2>1. CASE client'[p][i] = client[p][i]
      BY <1>9, <2>1 DEF KeysInv, ClientsKept
    <2>2. CASE i = a0.id
      BY <1>4, <2>2 DEF KeysInv, VersionsAgree
    <2> QED BY <1>6, <2>1, <2>2
  <1> QED BY <1>7, <1>8, <1>9 DEF ClientsKept

LEMMA QuietKeys ==
  ASSUME TypesInv, KeysInv, Quiet, \A e \in Envs : config'[e] \in Rows
  PROVE  KeysInv'
  <1>1. minted' = minted /\ minted' \in Nat /\ minted' >= minted
    <2>1. minted' = minted
      BY DEF Quiet, LoadEnabled, Enable, Disable, EditDetails, Delete, LoadById, TakeCached,
             FetchSecrets, KeepClient, Tested, Pay, OpenTrial, SendTrial, RefuseTrial, FinalizeTrial,
             OthersOff, ThisOn, AfterEdit, DestroySecrets, Stop, Callback, Restart
    <2>2. minted \in Nat
      BY CountTypes DEF TypesInv
    <2> QED BY <2>1, <2>2
  <1>2. RowsLast
    BY QuietTable DEF RowsLast
  <1>3. \A s \in Requests : \/ request'[s].row = request[s].row \/ request'[s].row = NoRow
                            \/ \E e \in Envs : request'[s].row = config[e]
    <2>1. Idle.row = NoRow
      BY DEF Idle
    <2>2. \A s \in Requests : request'[s] \in RequestSet
      BY QuietRequests DEF TypedRequests
    <2>3. \A s \in Requests : request'[s].env \in Envs
      BY <2>2 DEF RequestSet
    <2> QED BY <2>1, <2>3, QuietRequests
  <1>4. SeenBefore
    BY <1>2, <1>3, SeenStill
  <1>5. VersionsAgree'
    BY <1>1, <1>2, <1>4, VersionsStill DEF KeysInv
  <1>6. /\ ClientsKept'
        /\ \A p \in Processes, i \in Ids :
             client'[p][i].version = 0 \/ client'[p][i] = client[p][i] \/ \E a \in Seen : a.id = i
    <2>1. CASE \A r \in Requests : ~KeepClient(r)
      <3>2. INext
        BY DEF INext, Quiet
      <3>1. \A r \in Requests : UpsertRow(r) => config'[request[r].env].id # Nothing
        BY <3>2, CountStep, TableStep
      <3>3. Thinned
        BY <2>1, <3>1, <3>2, ClientsThinned
      <3>4. NoClient.version = 0
        BY DEF NoClient
      <3> QED BY <1>1, <1>2, <1>4, <3>3, <3>4, ClientsStill DEF KeysInv, Thinned
    <2>2. ASSUME NEW r \in Requests, KeepClient(r)
          PROVE  /\ ClientsKept'
                 /\ \A p \in Processes, i \in Ids :
                      client'[p][i].version = 0 \/ client'[p][i] = client[p][i] \/ \E a \in Seen : a.id = i
      <3>1. Edition(request[r].row) \in Seen /\ Edition(request[r].row).id = request[r].row.id
        BY SeenThere, Fields
      <3> QED BY <1>1, <1>2, <1>4, <2>2, <3>1, KeepClientKeys, KeepsClient
    <2> QED BY <2>1, <2>2
  <1>7. PutsAreNew'
    BY <1>1, <1>4, <1>6, QuietRequests, PutsStill DEF KeysInv
  <1>8. StoreAhead'
    BY <1>2, QuietStore, QuietRequests, QuietLoading, StoreStill DEF KeysInv
  <1>9. FreshKeys'
    BY QuietLoading, FreshStill
  <1> QED BY <1>5, <1>6, <1>7, <1>8, <1>9 DEF KeysInv

\* Where a configuration's secrets are put: what is minted is newer than
\* everything anybody remembers.
LEMMA PutSecretsKeys ==
  ASSUME TypesInv, KeysInv, NEW r \in Requests, PutSecrets(r), minted' \in Tokens
  PROVE  KeysInv'
  <1>1. /\ minted \in Nat /\ minted' = minted + 1 /\ minted' \in Nat /\ minted' >= minted
        /\ minted' # Nothing /\ minted' \in Ids
    <2>1. minted \in Nat
      BY CountTypes DEF TypesInv
    <2>2. minted' = minted + 1
      BY DEF PutSecrets
    <2>3. minted' # Nothing
      BY <2>1, <2>2 DEF Nothing
    <2> QED BY <2>1, <2>2, <2>3 DEF Ids
  <1>2. config' = config /\ client' = client
    BY DEF PutSecrets
  <1>3. /\ GetsOn(r, "configuring", "secrets put") /\ request'[r].keys = minted'
        /\ Rest(r) /\ request'[r].row = request[r].row /\ request'[r].env = request[r].env
        /\ request'[r].at = "secrets put" /\ request[r].at = "configuring" /\ TypedRequests
    BY Advances DEF GetsOn
  <1>4. RowsLast /\ Thinned
    BY <1>2 DEF RowsLast, SameEdition, Thinned
  <1>5. SeenBefore
    BY <1>3, <1>4, SeenStill DEF Rest
  <1>6. VersionsAgree'
    BY <1>1, <1>4, <1>5, VersionsStill DEF KeysInv
  <1>7. ClientsKept'
    BY <1>1, <1>4, <1>5, ClientsStill DEF KeysInv
  <1>8. \A a \in Seen' : a.id # minted'
    <2>1. ASSUME NEW a \in Seen' PROVE a.id # minted'
      <3>1. CASE a = Edition(NoRow)
        BY <1>1, <3>1, NoRowFields
      <3>2. CASE a \in Seen
        <4>1. a.id \in Nat /\ a.id <= minted
          BY <3>2, SeenTyped DEF KeysInv, VersionsAgree
        <4> QED BY <1>1, <4>1, NotBeyond
      <3> QED BY <1>5, <3>1, <3>2 DEF SeenBefore
    <2> QED BY <2>1
  <1>9. \A p \in Processes : client'[p][minted'].version = 0
    <2>1. ASSUME NEW p \in Processes, client'[p][minted'].version # 0 PROVE FALSE
      <3>1. minted' <= minted
        BY <1>1, <1>2, <2>1 DEF KeysInv, ClientsKept
      <3> QED BY <1>1, <3>1, NotBeyond
    <2> QED BY <2>1
  <1>10. PutsAreNew'
    <2>1. ASSUME NEW s \in Requests \ {r}, request'[s].at = "secrets put"
          PROVE  /\ request'[s] = request[s] /\ Putting(s)
                 /\ request[s].keys # minted' /\ request[s].keys <= minted'
                 /\ request[s].keys \in Ids
      <3>1. request'[s] = request[s] /\ Putting(s)
        BY <1>3, <2>1 DEF Rest, Putting
      <3>2. request[s].keys \in Tokens /\ request[s].keys \in Nat
        BY TokensAreNumbers, Requested DEF TypesInv, RequestSet
      <3>3. request[s].keys <= minted /\ request[s].keys # Nothing
        BY <3>1 DEF KeysInv, PutsAreNew
      <3>4. request[s].keys # minted' /\ request[s].keys <= minted'
        BY <1>1, <3>2, <3>3, NotBeyond, AtMost
      <3> QED BY <3>1, <3>2, <3>3, <3>4 DEF Ids
    <2>2. minted' <= minted'
      BY <1>1
    <2>3. ASSUME NEW s \in Requests, request'[s].at = "secrets put", s # r
          PROVE  /\ request'[s].keys # Nothing /\ request'[s].keys <= minted'
                 /\ \A a \in Seen' : a.id # request'[s].keys
                 /\ \A p \in Processes : client'[p][request'[s].keys].version = 0
                 /\ \A t \in Requests \ {s} : request'[t].at = "secrets put" =>
                      request'[t].keys # request'[s].keys
      <3>1. /\ request'[s] = request[s] /\ Putting(s)
            /\ request[s].keys # minted' /\ request[s].keys <= minted'
        BY <2>1, <2>3
      <3>2. /\ request[s].keys # Nothing
            /\ \A a \in Seen : a.id # request[s].keys
            /\ \A p \in Processes : client[p][request[s].keys].version = 0
            /\ \A t \in Requests \ {s} : Putting(t) => request[t].keys # request[s].keys
        BY <3>1 DEF KeysInv, PutsAreNew
      <3>3. \A a \in Seen' : a.id # request[s].keys
        BY <1>5, <3>2, NoRowFields DEF SeenBefore
      <3>4. \A t \in Requests \ {s} : request'[t].at = "secrets put" =>
              request'[t].keys # request[s].keys
        BY <1>3, <2>1, <3>1, <3>2
      <3> QED BY <1>2, <3>1, <3>2, <3>3, <3>4
    <2>4. \A t \in Requests \ {r} : request'[t].at = "secrets put" => request'[t].keys # minted'
      BY <2>1
    <2>5. ASSUME NEW s \in Requests, request'[s].at = "secrets put"
          PROVE  /\ request'[s].keys # Nothing /\ request'[s].keys <= minted'
                 /\ \A a \in Seen' : a.id # request'[s].keys
                 /\ \A p \in Processes : client'[p][request'[s].keys].version = 0
                 /\ \A t \in Requests \ {s} : request'[t].at = "secrets put" =>
                      request'[t].keys # request'[s].keys
      <3>1. CASE s # r
        BY <2>3, <2>5, <3>1
      <3>2. CASE s = r
        <4>1. minted' # Nothing
          BY <1>1
        <4>2. request'[s].keys = minted'
          BY <1>3, <3>2
        <4> QED BY <1>8, <1>9, <2>2, <2>4, <3>2, <4>1, <4>2
      <3> QED BY <3>1, <3>2
    <2> QED BY <2>5 DEF PutsAreNew, Putting
  <1>11. StoreAhead'
    <2> DEFINE e0 == request[r].env
    <2>1. e0 \in Envs /\ \A s \in Requests : request[s].env \in Envs
      BY Requested DEF TypesInv, RequestSet
    <2>2. stored' = [stored EXCEPT ![e0] = [keys |-> minted', secret |-> request[r].url]]
      BY DEF PutSecrets
    <2>3. stored \in [Envs -> [keys : Tokens, secret : Tokens]]
      BY DEF TypesInv, ITypeOK
    <2>4. stored'[e0].keys = minted' /\ \A e \in Envs \ {e0} : stored'[e] = stored[e]
      BY <2>1, <2>2, <2>3
    <2> HIDE DEF e0
    <2>5. ASSUME NEW e \in Envs, NEW k \in Nat, k <= minted, Behind(e, k)
          PROVE  stored'[e].keys # Nothing => k <= stored'[e].keys
      <3>1. CASE e = e0
        <4>1. k <= minted'
          BY <1>1, <2>5, AtMost
        <4> QED BY <2>4, <3>1, <4>1
      <3>2. CASE e # e0
        BY <2>4, <2>5, <3>2 DEF Behind
      <3> QED BY <3>1, <3>2
    <2>6. ASSUME NEW e \in Envs PROVE stored'[e].keys # Nothing => config'[e].keys <= stored'[e].keys
      <3>1. Edition(config[e]) \in Seen /\ Edition(config[e]).keys = config[e].keys
        BY SeenThere, Fields
      <3>2. config[e].keys \in Nat /\ config[e].keys <= minted
        BY <3>1, SeenTyped DEF KeysInv, VersionsAgree
      <3> QED BY <1>2, <2>5, <3>2 DEF KeysInv, StoreAhead
    <2>7. ASSUME NEW s \in Requests, request'[s].at = "row read"
          PROVE  stored'[request'[s].env].keys # Nothing => request'[s].row.keys <= stored'[request'[s].env].keys
      <3>1. request'[s] = request[s]
        BY <1>3, <2>7 DEF Rest
      <3>2. Edition(request[s].row) \in Seen /\ Edition(request[s].row).keys = request[s].row.keys
        BY SeenThere, Fields
      <3>3. request[s].row.keys \in Nat /\ request[s].row.keys <= minted
        BY <3>2, SeenTyped DEF KeysInv, VersionsAgree
      <3>4. Behind(request[s].env, request[s].row.keys)
        BY <2>7, <3>1 DEF KeysInv, StoreAhead
      <3> QED BY <2>1, <2>5, <3>1, <3>3, <3>4
    <2>8. ASSUME NEW s \in Requests, request'[s].at = "secrets put", s # r
          PROVE  stored'[request'[s].env].keys # Nothing => request'[s].keys <= stored'[request'[s].env].keys
      <3>1. request'[s] = request[s] /\ Putting(s)
        BY <1>3, <2>8 DEF Rest, Putting
      <3>2. request[s].keys \in Nat
        BY TokensAreNumbers, Requested DEF TypesInv, RequestSet
      <3>3. request[s].keys <= minted /\ Behind(request[s].env, request[s].keys)
        BY <3>1 DEF KeysInv, PutsAreNew, StoreAhead
      <3> QED BY <2>1, <2>5, <3>1, <3>2, <3>3
    <2>9. stored'[request'[r].env].keys # Nothing => request'[r].keys <= stored'[request'[r].env].keys
      <3>1. minted' <= minted'
        BY <1>1
      <3> QED BY <1>3, <2>4, <3>1 DEF e0
    <2> QED BY <2>6, <2>7, <2>8, <2>9 DEF StoreAhead, Behind, Putting
  <1>12. FreshKeys'
    BY <1>3 DEF KeysInv, FreshKeys, Rest
  <1> QED BY <1>6, <1>7, <1>10, <1>11, <1>12 DEF KeysInv

LEMMA ConfigureKeys ==
  ASSUME TypesInv, KeysInv, NEW r \in Requests, NEW e \in Envs, Configure(r, e), minted' \in Tokens
  PROVE  KeysInv'
  <1>1. minted' \in Nat /\ minted' >= minted
    <2>1. minted \in Nat
      BY CountTypes DEF TypesInv
    <2>2. minted' = minted \/ minted' = minted + 1
      BY DEF Configure
    <2> QED BY <2>1, <2>2
  <1>2. config' = config /\ client' = client /\ stored' = stored
    BY DEF Configure
  <1>3. /\ TypedRequests /\ Rest(r)
        /\ request'[r].at = "configuring" /\ request'[r].row = NoRow
    BY Configures
  <1>4. RowsLast /\ Thinned /\ StoreKeeps
    BY <1>2 DEF RowsLast, SameEdition, Thinned, StoreKeeps
  <1>5. SeenBefore
    BY <1>3, <1>4, SeenStill DEF Rest
  <1>6. VersionsAgree' /\ ClientsKept'
    BY <1>1, <1>4, <1>5, VersionsStill, ClientsStill DEF KeysInv
  <1>7. PutsAreNew'
    BY <1>1, <1>2, <1>3, <1>5, PutsStill DEF KeysInv, Rest
  <1>8. StoreAhead'
    BY <1>3, <1>4, StoreStill DEF KeysInv, Rest
  <1>9. FreshKeys'
    BY <1>3 DEF KeysInv, FreshKeys, Rest
  <1> QED BY <1>6, <1>7, <1>8, <1>9 DEF KeysInv

LEMMA UpsertDrops ==
  ASSUME ITypeOK, NEW r \in Requests, UpsertRow(r), request[r].host \in Processes,
         config'[request[r].env].id \in Ids
  PROVE  Thinned
  <1>1. Drop(request[r].host, config'[request[r].env].id)
    BY DEF UpsertRow
  <1> QED BY <1>1, Drops

\* The upsert: the row's new edition is later than every one of its id that is
\* remembered, and a new id is nobody's.
LEMMA UpsertKeys ==
  ASSUME TypesInv, KeysInv, NEW r \in Requests, UpsertRow(r), INext,
         NEW e \in Envs, e = request[r].env
  PROVE  KeysInv'
  <1> DEFINE n == Edition(config'[e])
  <1>0. ITypeOK /\ Counted'
    BY CountStep DEF TypesInv
  <1>1. /\ minted' = minted /\ minted \in Nat /\ minted' \in Nat /\ minted' >= minted
        /\ stored' = stored /\ request[r].at = "secrets put" /\ Putting(r)
    <2>1. minted' = minted /\ stored' = stored /\ request[r].at = "secrets put"
      BY DEF UpsertRow
    <2>2. minted \in Nat
      BY <1>0, CountTypes
    <2>3. minted >= minted
      BY <2>2
    <2>4. minted' \in Nat /\ minted' >= minted
      BY <2>1, <2>2, <2>3, Zenon
    <2> QED BY <2>1, <2>2, <2>4, Zenon DEF Putting
  <1>2. /\ request[r].keys # Nothing /\ request[r].keys <= minted
        /\ request[r].keys \in Nat /\ request[r].keys \in Ids
        /\ \A a \in Seen : a.id # request[r].keys
        /\ \A p \in Processes : client[p][request[r].keys].version = 0
        /\ \A s \in Requests \ {r} : Putting(s) => request[s].keys # request[r].keys
        /\ Behind(e, request[r].keys)
    <2>1. request[r].keys \in Tokens /\ request[r].keys # Nothing
      BY <1>0, <1>1, Requested DEF RequestSet, KeysInv, PutsAreNew
    <2>2. request[r].keys \in Nat /\ request[r].keys \in Ids
      BY <2>1, TokensAreNumbers DEF Ids
    <2> QED BY <1>1, <2>2 DEF KeysInv, PutsAreNew, StoreAhead
  <1>3. /\ TypedConfig /\ \A f \in Envs \ {e} : config'[f] = config[f]
        /\ config'[e].id = IF config[e].id = Nothing THEN request[r].keys ELSE config[e].id
        /\ config'[e].version = config[e].version + 1 /\ config'[e].keys = request[r].keys
    BY <1>0, <1>2, RowUpserted
  <1>4. /\ n.id = config'[e].id /\ n.version = config'[e].version /\ n.keys = request[r].keys
        /\ config[e].version \in Nat
    BY <1>0, <1>3, Fields, CountTypes
  <1>5. /\ Edition(config[e]) \in Seen
        /\ Edition(config[e]).id = config[e].id /\ Edition(config[e]).version = config[e].version
    BY SeenThere, Fields
  <1> HIDE DEF n
  <1>6. /\ TypedRequests /\ Rest(r) /\ request'[r] = Idle /\ Idle.at = "idle" /\ Idle.row = NoRow
    BY <1>0, Answers DEF Ends, Idle
  <1>7. Seen' \subseteq Seen \cup {Edition(NoRow), n}
    <2>1. Seen' = {Edition(config'[f]) : f \in Envs} \cup {Edition(request'[s].row) : s \in Requests}
      BY DEF Seen, Edition
    <2>2. ASSUME NEW f \in Envs PROVE Edition(config'[f]) \in Seen \cup {n}
      BY <1>3, SeenThere DEF n
    <2>3. ASSUME NEW s \in Requests PROVE Edition(request'[s].row) \in Seen \cup {Edition(NoRow)}
      BY <1>6, SeenThere DEF Rest
    <2> QED BY <2>1, <2>2, <2>3
  <1>8. ASSUME NEW a \in Seen', a.id # Nothing PROVE a \in Seen \/ a = n
    BY <1>7, <1>8, NoRowFields
  \* What of the row's id is remembered is of an earlier version.
  <1>9. ASSUME NEW a \in Seen, a.id = n.id
        PROVE  a.version <= config[e].version /\ a.version # n.version /\ a.version <= n.version
    <2>1. config[e].id # Nothing /\ a.id = config[e].id /\ a.id # Nothing
      BY <1>2, <1>3, <1>4, <1>9
    <2>2. a.version <= config[e].version /\ a.version \in Nat
      BY <1>0, <2>1, SeenTyped DEF KeysInv, VersionsAgree
    <2>3. n.version = config[e].version + 1
      BY <1>3, <1>4
    <2> QED BY <1>4, <2>2, <2>3, Earlier
  <1>10. \A f \in Envs \ {e} : config'[f].id = config[f].id /\ (config[f].id # Nothing => config[f].id # n.id)
    <2>1. ASSUME NEW f \in Envs \ {e}, config[f].id # Nothing, config[f].id = n.id PROVE FALSE
      <3>1. Edition(config[f]) \in Seen /\ Edition(config[f]).id = config[f].id
        BY SeenThere, Fields
      <3>2. config[e].id # Nothing /\ config[f].id = config[e].id
        BY <1>2, <1>3, <1>4, <2>1, <3>1
      <3> QED BY <2>1, <3>2 DEF KeysInv, VersionsAgree
    <2> QED BY <1>3, <2>1
  <1>11. n.id <= minted /\ n.id # Nothing /\ n.id \in Ids
    <2>1. CASE config[e].id = Nothing
      BY <1>2, <1>3, <1>4, <2>1
    <2>2. CASE config[e].id # Nothing
      <3>1. config[e].id <= minted
        BY <1>5 DEF KeysInv, VersionsAgree
      <3>2. config[e].id \in Ids
        BY <1>0, <2>2, Requested DEF Rows
      <3> QED BY <1>3, <1>4, <2>2, <3>1, <3>2
    <2> QED BY <2>1, <2>2
  <1>12. VersionsAgree'
    <2>1. ASSUME NEW a \in Seen', NEW b \in Seen', a.id # Nothing, a.id = b.id, a.version = b.version
          PROVE  a.keys = b.keys
      <3>1. CASE a \in Seen /\ b \in Seen
        BY <2>1, <3>1 DEF KeysInv, VersionsAgree
      <3> QED BY <1>8, <1>9, <2>1, <3>1
    <2>2. ASSUME NEW a \in Seen', NEW f \in Envs, a.id # Nothing, config'[f].id = a.id
          PROVE  a.version <= config'[f].version
      <3>1. CASE f = e
        <4>1. CASE a = n
          <5>1. n.version \in Nat
            BY <1>3, <1>4
          <5> QED BY <1>4, <3>1, <4>1, <5>1
        <4>2. CASE a \in Seen
          BY <1>4, <1>9, <2>2, <3>1, <4>2
        <4> QED BY <1>8, <2>2, <4>1, <4>2
      <3>2. CASE f # e
        <4>1. config[f].id = a.id /\ config'[f] = config[f] /\ a # n
          BY <1>3, <1>10, <2>2, <3>2
        <4> QED BY <1>8, <2>2, <4>1 DEF KeysInv, VersionsAgree
      <3> QED BY <3>1, <3>2
    <2>3. ASSUME NEW a \in Seen'
          PROVE  a.id <= minted /\ a.keys <= minted /\ (a.id # Nothing => a.version > 0)
      <3>1. CASE a \in Seen
        BY <3>1 DEF KeysInv, VersionsAgree
      <3>2. CASE a = n
        <4>1. n.version > 0
          BY <1>3, <1>4
        <4> QED BY <1>2, <1>4, <1>11, <3>2, <4>1
      <3>3. CASE a = Edition(NoRow)
        <4>1. 0 <= minted
          BY <1>1, NoneBelowZero, Zenon
        <4> QED BY <3>3, <4>1, NoRowFields
      <3> QED BY <1>7, <3>1, <3>2, <3>3
    <2>4. ASSUME NEW f \in Envs, NEW g \in Envs, config'[f].id # Nothing, config'[f].id = config'[g].id
          PROVE  f = g
      <3>1. CASE f = e /\ g # e
        BY <1>4, <1>10, <2>4, <3>1
      <3>2. CASE g = e /\ f # e
        BY <1>4, <1>10, <2>4, <3>2
      <3>3. CASE f # e /\ g # e
        BY <1>3, <2>4, <3>3 DEF KeysInv, VersionsAgree
      <3> QED BY <3>1, <3>2, <3>3
    <2> QED BY <1>1, <2>1, <2>2, <2>3, <2>4 DEF VersionsAgree
  <1>13. Thinned /\ NoClient.version = 0
    <2>1. request[r].host \in Processes
      BY <1>1 DEF TypesInv, RequestsHold
    <2> QED BY <1>0, <1>4, <1>11, <2>1, UpsertDrops DEF NoClient
  \* No process has a client of the new edition.
  <1>14. \A p \in Processes : client[p][n.id].version <= config[e].version /\ client[p][n.id].version \in Nat
    <2> TAKE p \in Processes
    <2>0. client[p][n.id].version \in Nat
      <3>1. client[p][n.id] \in ClientSet
        BY <1>0, <1>11 DEF ITypeOK, ClientSet
      <3> QED BY <3>1, IntegrationAssumption DEF ClientSet
    <2>1. CASE config[e].id = Nothing
      <3>1. n.id = request[r].keys
        BY <1>3, <1>4, <2>1
      <3>2. client[p][n.id].version = 0
        BY <1>2, <3>1
      <3>3. 0 <= config[e].version
        BY <1>4, NoneBelowZero
      <3> QED BY <2>0, <3>2, <3>3
    <2>2. CASE config[e].id # Nothing
      <3>1. n.id = config[e].id
        BY <1>3, <1>4, <2>2
      <3> QED BY <2>0, <2>2, <3>1 DEF KeysInv, ClientsKept
    <2> QED BY <2>1, <2>2
  <1>15. \A p \in Processes : /\ client'[p][n.id].version <= n.version
                              /\ client'[p][n.id].version # n.version
    <2> TAKE p \in Processes
    <2>1. client'[p][n.id] = client[p][n.id] \/ client'[p][n.id] = NoClient
      BY <1>11, <1>13 DEF Thinned
    <2>2. n.version = config[e].version + 1
      BY <1>3, <1>4
    <2>3. client'[p][n.id].version \in Nat /\ client'[p][n.id].version <= config[e].version
      <3>1. 0 <= config[e].version
        BY <1>4, NoneBelowZero
      <3> QED BY <1>13, <1>14, <2>1, <3>1
    <2> QED BY <1>4, <2>2, <2>3, Earlier
  <1>16. ClientsKept'
    <2>1. ASSUME NEW a \in Seen', NEW p \in Processes, a.id # Nothing,
                 client'[p][a.id].version = a.version
          PROVE  client'[p][a.id].keys >= a.keys
      <3>1. a # n
        BY <1>15, <2>1
      <3>2. a \in Seen /\ a.version > 0 /\ a.id \in Ids
        BY <1>8, <2>1, <3>1, SeenTyped DEF KeysInv, VersionsAgree
      <3>3. client'[p][a.id] # NoClient
        BY <1>13, <2>1, <3>2
      <3>4. client'[p][a.id] = client[p][a.id]
        BY <1>13, <3>2, <3>3 DEF Thinned
      <3> QED BY <2>1, <3>2, <3>4 DEF KeysInv, ClientsKept
    <2>2. ASSUME NEW p \in Processes, NEW f \in Envs, config'[f].id # Nothing
          PROVE  client'[p][config'[f].id].version <= config'[f].version
      <3>1. CASE f = e
        BY <1>4, <1>15, <3>1
      <3>2. CASE f # e
        <4>1. config'[f] = config[f] /\ config[f].id \in Ids /\ config[f].version \in Nat
          BY <1>0, <1>3, <2>2, <3>2, Requested, CountTypes DEF Rows
        <4>2. client'[p][config[f].id] = client[p][config[f].id] \/ client'[p][config[f].id] = NoClient
          BY <1>13, <4>1 DEF Thinned
        <4>3. 0 <= config[f].version
          BY <4>1, NoneBelowZero
        <4> QED BY <1>13, <2>2, <4>1, <4>2, <4>3 DEF KeysInv, ClientsKept
      <3> QED BY <3>1, <3>2
    <2>3. ASSUME NEW p \in Processes, NEW i \in Ids, client'[p][i].version # 0 PROVE i <= minted'
      <3>1. client'[p][i] = client[p][i]
        BY <1>13, <2>3 DEF Thinned
      <3> QED BY <1>1, <2>3, <3>1 DEF KeysInv, ClientsKept
    <2> QED BY <2>1, <2>2, <2>3 DEF ClientsKept
  <1>17. PutsAreNew'
    <2>1. ASSUME NEW s \in Requests, request'[s].at = "secrets put"
          PROVE  /\ request'[s].keys # Nothing /\ request'[s].keys <= minted'
                 /\ \A a \in Seen' : a.id # request'[s].keys
                 /\ \A p \in Processes : client'[p][request'[s].keys].version = 0
                 /\ \A t \in Requests \ {s} : request'[t].at = "secrets put" =>
                      request'[t].keys # request'[s].keys
      <3>1. s # r /\ request'[s] = request[s] /\ Putting(s)
        BY <1>6, <2>1 DEF Rest, Putting
      <3>2. /\ request[s].keys # Nothing /\ request[s].keys <= minted
            /\ \A a \in Seen : a.id # request[s].keys
            /\ \A p \in Processes : client[p][request[s].keys].version = 0
            /\ \A t \in Requests \ {s} : Putting(t) => request[t].keys # request[s].keys
        BY <3>1 DEF KeysInv, PutsAreNew
      <3>3. n.id # request[s].keys
        BY <1>2, <1>3, <1>4, <1>5, <3>1, <3>2
      <3>4. request[s].keys \in Ids
        BY <1>0, <3>2, Requested DEF RequestSet, Ids
      <3>5. \A a \in Seen' : a.id # request[s].keys
        BY <1>7, <3>2, <3>3, NoRowFields
      <3>6. \A p \in Processes : client'[p][request[s].keys].version = 0
        BY <1>13, <3>2, <3>4 DEF Thinned
      <3>7. \A t \in Requests \ {s} : request'[t].at = "secrets put" => request'[t].keys # request[s].keys
        BY <1>6, <3>2 DEF Rest, Putting
      <3> QED BY <1>1, <3>1, <3>2, <3>5, <3>6, <3>7
    <2> QED BY <2>1 DEF PutsAreNew, Putting
  <1>18. StoreAhead'
    <2>1. ASSUME NEW f \in Envs PROVE stored'[f].keys # Nothing => config'[f].keys <= stored'[f].keys
      BY <1>1, <1>2, <1>3 DEF Behind, KeysInv, StoreAhead
    <2>2. ASSUME NEW s \in Requests, request'[s].at \in {"row read", "secrets put"}
          PROVE  request'[s] = request[s]
      BY <1>6, <2>2 DEF Rest
    <2> QED BY <1>1, <2>1, <2>2 DEF KeysInv, StoreAhead, Behind, Putting
  <1>19. FreshKeys'
    BY <1>6 DEF KeysInv, FreshKeys, Rest
  <1> QED BY <1>12, <1>16, <1>17, <1>18, <1>19 DEF KeysInv

LEMMA KeysStep ==
  ASSUME TypesInv, KeysInv, INext
  PROVE  KeysInv'
  <1>1. Counted'
    BY CountStep
  <1>2. minted' \in Tokens
    BY <1>1, NumbersTyped
  <1>3. \A e \in Envs : config'[e] \in Rows
    BY <1>1, TableStep DEF TypedConfig
  <1>4. \A r \in Requests : request[r].env \in Envs
    BY Requested DEF TypesInv, RequestSet
  <1>5. ASSUME NEW r \in Requests, UpsertRow(r) PROVE KeysInv'
    BY <1>4, <1>5, UpsertKeys
  <1> QED BY <1>2, <1>3, <1>5, StepKinds, QuietKeys, PutSecretsKeys, ConfigureKeys

LEMMA KeysStutter ==
  ASSUME KeysInv, UNCHANGED ivars
  PROVE  KeysInv'
  <1>1. VersionsAgree' /\ ClientsKept'
    BY DEF ivars, KeysInv, VersionsAgree, ClientsKept, Seen
  <1>2. PutsAreNew' /\ StoreAhead' /\ FreshKeys'
    BY DEF ivars, KeysInv, PutsAreNew, StoreAhead, FreshKeys, Seen, Putting, Behind
  <1> QED BY <1>1, <1>2 DEF KeysInv

LEMMA KeysInit ==
  ASSUME IInit
  PROVE  KeysInv
  <1> DEFINE up == [id |-> 2, status |-> "ENABLED", tested |-> TRUE, version |-> 1, url |-> 1, keys |-> 2]
  <1>1. /\ \A e \in Envs : config[e] = NoRow \/ (config[e] = up /\ e = Preferred /\ minted = 2)
        /\ minted \in {0, 2}
    <2>1. CASE Fresh
      BY <2>1 DEF Fresh
    <2>2. CASE Established
      BY <2>2 DEF Established
    <2> QED BY <2>1, <2>2 DEF IInit
  <1>2. \A e \in Envs : /\ config[e] = NoRow => stored[e].keys = Nothing
                        /\ config[e] = up => stored[e].keys = 2
    <2>1. NoRow.keys # up.keys
      BY DEF NoRow, Nothing
    <2>2. CASE Fresh
      BY <2>1, <2>2 DEF Fresh
    <2>3. CASE Established
      BY <2>1, <2>3 DEF Established
    <2> QED BY <2>2, <2>3 DEF IInit
  <1>3. \A r \in Requests : request[r].at = "idle" /\ request[r].row = NoRow
    BY DEF IInit, Idle
  <1>4. \A p \in Processes, i \in Ids : client[p][i].version = 0
    BY DEF IInit, NoClient
  <1>5. up.id = 2 /\ up.version = 1 /\ up.keys = 2
    OBVIOUS
  <1>6. Nothing = 0 /\ NoRow.id = 0 /\ NoRow.version = 0 /\ NoRow.keys = 0
    BY NoRowFields
  <1> HIDE DEF up
  <1>7. Edition(up).id = 2 /\ Edition(up).version = 1 /\ Edition(up).keys = 2
    BY <1>5, Fields
  <1>8. Seen \subseteq {Edition(NoRow), Edition(up)} /\ (Edition(up) \in Seen => minted = 2)
    <2>1. Edition(NoRow) # Edition(up)
      BY <1>6, <1>7, NoRowFields
    <2> QED BY <1>1, <1>3, <2>1 DEF Seen
  <1>9. \A a \in Seen : \/ a.id = 0 /\ a.version = 0 /\ a.keys = 0
                        \/ a.id = 2 /\ a.version = 1 /\ a.keys = 2 /\ minted = 2
    BY <1>6, <1>7, <1>8, NoRowFields
  <1>10. \A e \in Envs : \/ config[e].id = 0 /\ config[e].keys = 0
                         \/ config[e].id = 2 /\ config[e].version = 1 /\ config[e].keys = 2 /\ e = Preferred
    BY <1>1, <1>5, <1>6
  <1>11. VersionsAgree
    <2>1. ASSUME NEW a \in Seen, NEW e \in Envs, a.id # Nothing, config[e].id = a.id
          PROVE  a.version <= config[e].version
      <3>1. a.version = 1 /\ config[e].version = 1
        BY <1>6, <1>9, <1>10, <2>1
      <3> QED BY <3>1
    <2>2. ASSUME NEW a \in Seen
          PROVE  a.id <= minted /\ a.keys <= minted /\ (a.id # Nothing => a.version > 0)
      <3>1. CASE a.id = 0 /\ a.version = 0 /\ a.keys = 0
        BY <1>1, <1>6, <3>1
      <3>2. CASE a.id = 2 /\ a.version = 1 /\ a.keys = 2 /\ minted = 2
        BY <3>2
      <3> QED BY <1>9, <3>1, <3>2
    <2>3. \A a, b \in Seen : a.id # Nothing /\ a.id = b.id /\ a.version = b.version => a.keys = b.keys
      BY <1>6, <1>9
    <2>4. \A e, f \in Envs : config[e].id # Nothing /\ config[e].id = config[f].id => e = f
      BY <1>6, <1>10
    <2> QED BY <2>1, <2>2, <2>3, <2>4 DEF VersionsAgree
  <1>13. ClientsKept
    <2>1. 2 \in Ids
      BY IntegrationAssumption DEF Ids, Tokens, Nothing
    <2>2. ASSUME NEW a \in Seen, NEW p \in Processes, a.id # Nothing PROVE client[p][a.id].version # a.version
      <3>1. a.id = 2 /\ a.version = 1
        BY <1>6, <1>9, <2>2
      <3>2. client[p][2].version = 0
        BY <1>4, <2>1
      <3> QED BY <3>1, <3>2
    <2>3. ASSUME NEW p \in Processes, NEW e \in Envs, config[e].id # Nothing
          PROVE  client[p][config[e].id].version <= config[e].version
      <3>1. config[e].id = 2 /\ config[e].version = 1
        BY <1>6, <1>10, <2>3
      <3>2. client[p][2].version = 0
        BY <1>4, <2>1
      <3> QED BY <3>1, <3>2
    <2> QED BY <1>4, <2>2, <2>3 DEF ClientsKept
  <1>14. PutsAreNew /\ FreshKeys
    BY <1>3 DEF PutsAreNew, Putting, FreshKeys
  <1>15. StoreAhead
    <2>1. ASSUME NEW e \in Envs PROVE Behind(e, config[e].keys)
      <3>1. CASE config[e] = NoRow
        BY <1>2, <3>1 DEF Behind
      <3>2. CASE config[e] = up
        <4>1. stored[e].keys = 2 /\ config[e].keys = 2
          BY <1>2, <1>5, <3>2
        <4> QED BY <4>1 DEF Behind
      <3> QED BY <1>1, <3>1, <3>2
    <2> QED BY <1>3, <2>1 DEF StoreAhead, Putting
  <1> QED BY <1>11, <1>13, <1>14, <1>15 DEF KeysInv

\* Whatever rotation, deletion and the clients the processes keep have done
\* meanwhile, a request never goes out with credentials older than the ones
\* its configuration was written with: the version buildClient compares tells
\* the editions of a configuration apart, and the secret store is written
\* before the row is.
THEOREM RequestsUseFreshKeys == ISpec => []FreshKeys
  <1>1. IInit => TypesInv /\ KeysInv
    BY TypesInit, KeysInit
  <1>2. TypesInv /\ KeysInv /\ [INext]_ivars => TypesInv' /\ KeysInv'
    BY TypesStep, TypesStutter, KeysStep, KeysStutter
  <1>3. KeysInv => FreshKeys
    BY DEF KeysInv
  <1> QED BY <1>1, <1>2, <1>3, PTL DEF ISpec

============================================================================
