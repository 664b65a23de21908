-------------------------- MODULE GovernanceProofs -------------------------
(***************************************************************************)
(* What Ceremony guarantees for any number of people, edits, policies and  *)
(* ceremonies.  One invariant is inductive: GInv.  Its parts relate the    *)
(* batch to its challenges (CeremonyMatchesState), to its release          *)
(* (ReleasedOnce) and to the review behind it (Chained); from it the chain *)
(* implements DualControl step by step.                                    *)
(***************************************************************************)
EXTENDS Ceremony, TLAPS

\* Whatever is not released has no trace of a release, and a batch that was
\* not yet created has no author.
Untouched ==
  /\ state # "QUEUED" => releases = 0 /\ released = Unreleased /\ With("consumed") = {}
  /\ state = "QUEUED" => releases = 1
  /\ state = "NONE" => creator = Nobody /\ editors = {}
  /\ approver = approval.by

GInv == GTypeOK /\ CeremonyMatchesState /\ ReleasedOnce /\ Chained /\ Untouched

\* The handlers of routes/batches.ts and the rest leave the ceremony alone.
CeremonySame == UNCHANGED <<policy, challenge, released, releases>>

---------------------------------------------------------------------------
\* What each command's edges say, read off BATCH_EDGES.

LEMMA Judgements ==
  ASSUME NEW u \in Users, NEW command \in {"REJECT", "RETURN_TO_L1", "HOLD", "RELEASE_HOLD", "CANCEL"},
         Command(u, command)
  PROVE  /\ state' \in {"REJECTED", "RETURNED_FOR_CORRECTION", "ON_HOLD", "L2_REVIEW", "CANCELLED"}
         /\ state \notin {"NONE", "QUEUED", "REJECTED", "CANCELLED"}
         /\ state \in {"DRAFT", "AUTHORIZATION_PENDING"} => state' = "CANCELLED"
  BY DEF Command, Edges, PreparationEdges, ReviewEdges, AuthorizationEdges

LEMMA Preparations ==
  ASSUME NEW u \in Users
  PROVE  /\ Command(u, "VALIDATE") => state = "DRAFT" /\ state' = "VALIDATED"
         /\ Command(u, "SUBMIT_TO_L2") => /\ state \in {"VALIDATED", "RETURNED_FOR_CORRECTION"}
                                          /\ state' = "SUBMITTED_TO_L2"
  BY DEF Command, Edges, PreparationEdges, ReviewEdges, AuthorizationEdges

LEMMA Authorizations ==
  ASSUME NEW u \in Users
  PROVE  /\ Command(u, "BEGIN_AUTHORIZATION") => /\ state = "L3_READY"
                                                 /\ state' = "AUTHORIZATION_PENDING"
         /\ Command(u, "ABANDON_AUTHORIZATION") => /\ state = "AUTHORIZATION_PENDING"
                                                   /\ state' = "L3_READY"
         /\ <<state, "AUTHORIZE", "AUTHORIZED", level[u]>> \in Edges =>
              state = "AUTHORIZATION_PENDING"
         /\ <<state, "BEGIN_L2_REVIEW", "L2_REVIEW", level[u]>> \in Edges =>
              state = "SUBMITTED_TO_L2"
  BY DEF Command, Edges, PreparationEdges, ReviewEdges, AuthorizationEdges

---------------------------------------------------------------------------
\* The steps before the ceremony keep the invariant.

LEMMA DraftingKeeps ==
  ASSUME GInv, CeremonySame, NEW u \in Users,
         Create(u) \/ TemplateDraft(u) \/ Upload(u) \/ Retry(u) \/ RetryIntoNew(u)
  PROVE  GInv'
  <1>1. /\ state \in {"NONE"} \cup EditableStates /\ state' = "DRAFT"
        /\ UNCHANGED <<level, submitter, approver, approval, screened>>
    BY DEF Create, TemplateDraft, Upload, Retry, RetryIntoNew, Edited
  <1>2. /\ version' \in Nat /\ content' \in Nat
        /\ creator' \in {creator, u} /\ editors' \in {editors, editors \cup {u}, {u}}
    BY LifecycleAssumption
    DEF Create, TemplateDraft, Upload, Retry, RetryIntoNew, Edited, GInv, GTypeOK
  <1>3. With("open") = {} /\ With("consumed") = {}
    BY <1>1 DEF GInv, CeremonyMatchesState, Untouched, EditableStates
  <1>4. With("open")' = {} /\ With("consumed")' = {}
    BY <1>3 DEF With, CeremonySame
  <1>5. GTypeOK'
    BY <1>1, <1>2 DEF GInv, GTypeOK, CeremonySame, BatchState
  <1>6. CeremonyMatchesState'
    BY <1>1, <1>4 DEF CeremonyMatchesState
  <1>7. ReleasedOnce'
    BY <1>3 DEF GInv, ReleasedOnce, CeremonySame, With
  <1>8. Chained'
    BY <1>1, <1>4 DEF Chained
  <1>9. Untouched'
    BY <1>1, <1>4 DEF GInv, Untouched, CeremonySame, EditableStates
  <1> QED BY <1>5, <1>6, <1>7, <1>8, <1>9 DEF GInv

LEMMA ReviewKeeps ==
  ASSUME GInv, CeremonySame, NEW u \in Users,
         Validate(u) \/ Submit(u) \/ Approve(u)
  PROVE  GInv'
  <1>1. /\ state \in EditableStates \cup {"SUBMITTED_TO_L2", "L2_REVIEW"}
        /\ state' \in {"VALIDATED", "SUBMITTED_TO_L2", "L3_READY"}
        /\ UNCHANGED <<level, version, content, creator, editors>>
    BY Preparations, Authorizations DEF Validate, Submit, Approve, EditableStates
  <1>2. With("open") = {} /\ With("consumed") = {}
    BY <1>1 DEF GInv, CeremonyMatchesState, Untouched, EditableStates
  <1>3. With("open")' = {} /\ With("consumed")' = {}
    BY <1>2 DEF With, CeremonySame
  <1>4. GTypeOK'
    BY <1>1 DEF GInv, GTypeOK, CeremonySame, BatchState, Validate, Submit, Approve
  <1>5. CeremonyMatchesState'
    BY <1>1, <1>3 DEF CeremonyMatchesState
  <1>6. ReleasedOnce'
    BY <1>2 DEF GInv, ReleasedOnce, CeremonySame, With
  <1>7. Untouched'
    BY <1>1, <1>3 DEF GInv, Untouched, CeremonySame, EditableStates, Validate, Submit, Approve
  <1>8. Chained'
    <2>1. CASE Validate(u)
      BY <1>3, <2>1, Preparations DEF Validate, Chained
    <2>2. CASE Submit(u)
      BY <1>3, <2>2, Preparations DEF Submit, Chained, GInv
    <2>3. CASE Approve(u)
      <3>1. screened' = version'
        BY <2>3, Authorizations DEF Approve, Chained, GInv
      <3>2. u # Nobody /\ u \notin {creator, submitter} \cup editors
        BY <2>3, LifecycleAssumption DEF Approve, NotSelfApproval
      <3> QED BY <1>3, <2>3, <3>1, <3>2 DEF Approve, Chained, NotSelfApproval
    <2> QED BY <2>1, <2>2, <2>3
  <1> QED BY <1>4, <1>5, <1>6, <1>7, <1>8 DEF GInv

LEMMA JudgementKeeps ==
  ASSUME GInv, CeremonySame, NEW u \in Users, Judge(u)
  PROVE  GInv'
  <1>1. PICK command \in {"REJECT", "RETURN_TO_L1", "HOLD", "RELEASE_HOLD", "CANCEL"} :
          Judged(u, command)
    BY DEF Judge
  <1>2. /\ state' \in {"REJECTED", "RETURNED_FOR_CORRECTION", "ON_HOLD", "L2_REVIEW", "CANCELLED"}
        /\ state \notin {"NONE", "QUEUED", "REJECTED", "CANCELLED"}
        /\ state \in {"DRAFT", "AUTHORIZATION_PENDING"} => state' = "CANCELLED"
    BY <1>1, Judgements DEF Judged
  <1>3. UNCHANGED <<level, version, content, creator, submitter, approver, editors, approval,
                    screened, policy, challenge, released, releases>>
    BY <1>1 DEF Judged, CeremonySame
  <1>4. With("open")' = With("open") /\ With("consumed")' = With("consumed")
    BY <1>3 DEF With
  <1>5. GTypeOK'
    BY <1>2, <1>3 DEF GInv, GTypeOK, BatchState
  <1>6. CeremonyMatchesState'
    BY <1>2, <1>4 DEF GInv, CeremonyMatchesState
  <1>7. ReleasedOnce'
    BY <1>2, <1>3, <1>4 DEF GInv, ReleasedOnce, Untouched, With
  <1>8. Chained'
    BY <1>2, <1>3, <1>4 DEF GInv, Chained
  <1>9. Untouched'
    BY <1>2, <1>3, <1>4 DEF GInv, Untouched
  <1> QED BY <1>5, <1>6, <1>7, <1>8, <1>9 DEF GInv

---------------------------------------------------------------------------
\* The steps of the ceremony.

LEMMA OpenKeeps ==
  ASSUME GInv, NEW u \in Users, NEW c \in Ceremonies, Open(u, c)
  PROVE  GInv'
  <1>1. state = "L3_READY" /\ state' = "AUTHORIZATION_PENDING"
    BY Authorizations DEF Open
  <1>2. UNCHANGED <<level, version, content, creator, submitter, approver, editors, approval,
                    screened, policy, released, releases>>
    BY DEF Open
  <1>3. /\ challenge'[c] = [status |-> "open", age |-> "fresh", by |-> u, version |-> version,
                            content |-> content, policy |-> policy]
        /\ \A d \in Ceremonies \ {c} : challenge'[d] = challenge[d]
    BY DEF Open, GInv, GTypeOK
  <1>4. With("open")' = {c} /\ With("consumed")' = {}
    BY <1>1, <1>3 DEF Open, With, GInv, Untouched
  <1>5. GTypeOK'
    BY <1>1, <1>2 DEF Open, GInv, GTypeOK, BatchState, ChallengeStatus, Ages
  <1>6. CeremonyMatchesState'
    BY <1>1, <1>4 DEF CeremonyMatchesState
  <1>7. ReleasedOnce'
    BY <1>2, <1>4 DEF GInv, ReleasedOnce, With
  <1>8. Chained'
    BY <1>1, <1>2, <1>3, <1>4 DEF GInv, Chained, NotSelfApproval
  <1>9. Untouched'
    BY <1>1, <1>2, <1>4 DEF GInv, Untouched
  <1> QED BY <1>5, <1>6, <1>7, <1>8, <1>9 DEF GInv

LEMMA ReleaseKeeps ==
  ASSUME GInv, NEW u \in Users, NEW c \in Ceremonies, ReleaseBatch(u, c)
  PROVE  GInv'
  <1>1. state = "AUTHORIZATION_PENDING" /\ state' = "QUEUED"
    BY Authorizations DEF ReleaseBatch, Dispatched
  <1>2. UNCHANGED <<level, version, content, creator, submitter, approver, editors, approval,
                    screened, policy>>
    BY DEF ReleaseBatch
  <1>3. challenge[c].status = "open" /\ With("open") = {c}
    BY DEF ReleaseBatch, Bound, GInv, CeremonyMatchesState, With
  <1>4. /\ challenge'[c].status = "consumed"
        /\ \A d \in Ceremonies \ {c} : challenge'[d] = challenge[d]
        /\ challenge' \in [Ceremonies -> [status : ChallengeStatus, age : Ages,
                             by : Users \cup {Nobody}, version : Nat, content : Nat,
                             policy : Policies \cup {Nobody}]]
    BY DEF ReleaseBatch, GInv, GTypeOK, ChallengeStatus
  <1>5. With("open")' = {} /\ With("consumed")' = {c}
    BY <1>1, <1>3, <1>4 DEF With, GInv, Untouched
  <1>6. releases' = 1
    BY <1>1 DEF ReleaseBatch, GInv, Untouched
  <1>7. GTypeOK'
    BY <1>1, <1>2, <1>4, <1>6 DEF GInv, GTypeOK, BatchState
  <1>8. CeremonyMatchesState'
    BY <1>1, <1>5 DEF CeremonyMatchesState
  <1>9. ReleasedOnce'
    BY <1>1, <1>5, <1>6 DEF ReleasedOnce, With
  <1>10. Chained'
    BY <1>1, <1>2, <1>5 DEF GInv, Chained, NotSelfApproval
  <1>11. Untouched'
    BY <1>1, <1>2, <1>6 DEF GInv, Untouched
  <1> QED BY <1>7, <1>8, <1>9, <1>10, <1>11 DEF GInv

\* Abandonment by a person, or by housekeeping.
LEMMA ClosingKeeps ==
  ASSUME GInv, (\E u \in Users : Abandon(u)) \/ Housekeeping
  PROVE  GInv'
  <1>1. UNCHANGED <<level, version, content, creator, submitter, approver, editors, approval,
                    screened, policy, released, releases>>
    BY DEF Abandon, Housekeeping
  <1>2. /\ state \in {"AUTHORIZATION_PENDING", "CANCELLED"}
        /\ state' = IF state = "AUTHORIZATION_PENDING" THEN "L3_READY" ELSE state
    BY Authorizations DEF Abandon, Housekeeping, GInv, CeremonyMatchesState
  <1>3. With("open")' = {}
    <2>1. CASE \E u \in Users : Abandon(u)
      BY <2>1 DEF Abandon, With
    <2>2. CASE Housekeeping
      BY <2>2 DEF Housekeeping, With, GInv, CeremonyMatchesState
    <2> QED BY <2>1, <2>2
  <1>4. \A d \in Ceremonies : /\ challenge'[d].status = "consumed" <=> challenge[d].status = "consumed"
                              /\ challenge'[d] \in [status : ChallengeStatus, age : Ages,
                                   by : Users \cup {Nobody}, version : Nat, content : Nat,
                                   policy : Policies \cup {Nobody}]
    BY DEF Abandon, Housekeeping, With, GInv, GTypeOK, ChallengeStatus
  <1>5. With("consumed")' = {}
    BY <1>2, <1>4 DEF With, GInv, Untouched
  <1>6. challenge' = [d \in Ceremonies |-> challenge'[d]]
    BY DEF Abandon, Housekeeping
  <1>7. GTypeOK'
    BY <1>1, <1>2, <1>4, <1>6 DEF GInv, GTypeOK, BatchState
  <1>8. CeremonyMatchesState'
    BY <1>2, <1>3 DEF CeremonyMatchesState
  <1>9. ReleasedOnce'
    BY <1>1, <1>5 DEF GInv, ReleasedOnce, With
  <1>10. Chained'
    BY <1>1, <1>2, <1>3 DEF GInv, Chained, NotSelfApproval
  <1>11. Untouched'
    BY <1>1, <1>2, <1>5 DEF GInv, Untouched
  <1> QED BY <1>7, <1>8, <1>9, <1>10, <1>11 DEF GInv

\* Time, policy and people's authority move under the batch.
LEMMA SurroundingsKeep ==
  ASSUME GInv,
         \/ \E u \in Users : ChangeLevel(u) /\ CeremonySame
         \/ ChangePolicy
         \/ \E c \in Ceremonies : Tick(c)
         \/ UNCHANGED gvars
  PROVE  GInv'
  <1>1. UNCHANGED <<batch, released, releases>>
    BY DEF ChangeLevel, CeremonySame, ChangePolicy, Tick, gvars
  <1>2. level' \in [Users -> Levels] /\ policy' \in Policies
    BY DEF ChangeLevel, CeremonySame, ChangePolicy, Tick, gvars, GInv, GTypeOK
  <1>3. \A d \in Ceremonies : /\ challenge'[d].status = challenge[d].status
                              /\ challenge'[d].version = challenge[d].version
                              /\ challenge'[d].content = challenge[d].content
    BY DEF ChangeLevel, CeremonySame, ChangePolicy, Tick, gvars, GInv, GTypeOK
  <1>4. challenge' \in [Ceremonies -> [status : ChallengeStatus, age : Ages,
                          by : Users \cup {Nobody}, version : Nat, content : Nat,
                          policy : Policies \cup {Nobody}]]
    BY DEF ChangeLevel, CeremonySame, ChangePolicy, Tick, gvars, GInv, GTypeOK, Ages
  <1>5. With("open")' = With("open") /\ With("consumed")' = With("consumed")
    BY <1>3 DEF With
  <1>6. GTypeOK'
    BY <1>1, <1>2, <1>4 DEF GInv, GTypeOK, batch
  <1>7. CeremonyMatchesState'
    BY <1>1, <1>5 DEF GInv, CeremonyMatchesState, batch
  <1>8. ReleasedOnce'
    BY <1>1, <1>3, <1>5 DEF GInv, ReleasedOnce, batch
  <1>9. Chained'
    BY <1>1, <1>3, <1>5 DEF GInv, Chained, NotSelfApproval, batch, With
  <1>10. Untouched'
    BY <1>1, <1>5 DEF GInv, Untouched, batch
  <1> QED BY <1>6, <1>7, <1>8, <1>9, <1>10 DEF GInv

---------------------------------------------------------------------------
\* The chain of custody is an invariant of the specification.

LEMMA GInitInv == ASSUME GInit PROVE GInv
  BY LifecycleAssumption
  DEF GInit, BatchInit, GInv, GTypeOK, CeremonyMatchesState, ReleasedOnce, Chained, Untouched,
      With, NoChallenge, NoApproval, BatchState, ChallengeStatus, Ages, Levels, Nobody

LEMMA GNextInv == ASSUME GInv, [GNext]_gvars PROVE GInv'
  <1>1. CASE UNCHANGED gvars
    BY <1>1, SurroundingsKeep
  <1>2. ASSUME NEW u \in Users, BatchStep(u), CeremonySame PROVE GInv'
    BY <1>2, DraftingKeeps, ReviewKeeps, JudgementKeeps, SurroundingsKeep DEF BatchStep
  <1>3. ASSUME NEW u \in Users, CeremonyStep(u) PROVE GInv'
    BY <1>3, OpenKeeps, ReleaseKeeps, ClosingKeeps DEF CeremonyStep
  <1>4. CASE Housekeeping \/ ChangePolicy \/ \E c \in Ceremonies : Tick(c)
    BY <1>4, ClosingKeeps, SurroundingsKeep
  <1> QED BY <1>1, <1>2, <1>3, <1>4 DEF GNext, CeremonySame

THEOREM GovernanceInvariant == GSpec => []GInv
  <1>1. GInit => GInv
    BY GInitInv
  <1>2. GInv /\ [GNext]_gvars => GInv'
    BY GNextInv
  <1> QED BY <1>1, <1>2, PTL DEF GSpec

\* The values the batch, its challenges and its release may take.
THEOREM GovernanceTypes == GSpec => []GTypeOK
  BY GovernanceInvariant, PTL DEF GInv

\* A batch waits for authorization exactly while a challenge of it is open.
THEOREM OneOpenCeremony == GSpec => []CeremonyMatchesState
  BY GovernanceInvariant, PTL DEF GInv

\* No retry, race or second ceremony releases a batch twice.
THEOREM NoSecondRelease == GSpec => []ReleasedOnce
  BY GovernanceInvariant, PTL DEF GInv

\* What reaches the ceremony was validated and approved as it stands.
THEOREM ChainOfCustody == GSpec => []Chained
  BY GovernanceInvariant, PTL DEF GInv

---------------------------------------------------------------------------
\* What is out stays out.

LEMMA OutStays ==
  ASSUME GInv, [GNext]_gvars, state \in {"CANCELLED", "REJECTED", "QUEUED"}
  PROVE  state' = state
  <1>1. ASSUME NEW u \in Users, BatchStep(u) PROVE state' = state
    <2>1. ~(Create(u) \/ TemplateDraft(u) \/ Upload(u) \/ Retry(u) \/ RetryIntoNew(u))
      BY DEF Create, TemplateDraft, Upload, Retry, RetryIntoNew, EditableStates
    <2>2. ~(Validate(u) \/ Submit(u) \/ Approve(u))
      BY Preparations, Authorizations DEF Validate, Submit, Approve
    <2>3. ~Judge(u)
      BY Judgements DEF Judge, Judged
    <2> QED BY <1>1, <2>1, <2>2, <2>3 DEF BatchStep, ChangeLevel, batch
  <1>2. ASSUME NEW u \in Users, CeremonyStep(u) PROVE FALSE
    BY <1>2, Authorizations DEF CeremonyStep, Abandon, Open, ReleaseBatch
  <1>3. CASE Housekeeping
    BY <1>3 DEF Housekeeping
  <1>4. CASE ChangePolicy \/ (\E c \in Ceremonies : Tick(c)) \/ UNCHANGED gvars
    BY <1>4 DEF ChangePolicy, Tick, gvars, batch
  <1> QED BY <1>1, <1>2, <1>3, <1>4 DEF GNext

\* A cancelled, rejected or released batch never comes back to the chain.
THEOREM OutForGood == GSpec => OutIsOut
  <1>1. GInv /\ [GNext]_gvars =>
          [(state \in {"CANCELLED", "REJECTED", "QUEUED"}) => (state' = state)]_gvars
    BY OutStays
  <1> QED BY <1>1, GovernanceInvariant, PTL DEF GSpec, OutIsOut

---------------------------------------------------------------------------
\* Every step of the chain is a step of DualControl, or none of its business.

Endorsed == [by |-> approval.by, content |-> approval.content]

LEMMA EditsPrepare ==
  ASSUME GInv, NEW u \in Users, CeremonySame,
         Create(u) \/ TemplateDraft(u) \/ Upload(u) \/ Retry(u) \/ RetryIntoNew(u)
  PROVE  Promise!Prepare
  <1>1. state # "QUEUED"
    BY DEF Create, TemplateDraft, Upload, Retry, RetryIntoNew, EditableStates
  <1>2. content' \in Nat
    BY LifecycleAssumption
    DEF Create, TemplateDraft, Upload, Retry, RetryIntoNew, GInv, GTypeOK
  <1>3. Authors' = Authors \cup {u}
    <2>1. CASE Create(u) \/ TemplateDraft(u) \/ RetryIntoNew(u)
      BY <2>1, LifecycleAssumption
      DEF Create, TemplateDraft, RetryIntoNew, Authors, GInv, Untouched
    <2>2. CASE Upload(u) \/ Retry(u)
      BY <2>2 DEF Upload, Retry, Edited, Authors
    <2> QED BY <2>1, <2>2
  <1>4. UNCHANGED <<approval, released>>
    BY DEF Create, TemplateDraft, Upload, Retry, RetryIntoNew, CeremonySame
  <1>5. released = Promise!Unreleased
    BY <1>1 DEF GInv, Untouched, Unreleased, Promise!Unreleased
  <1> QED BY <1>2, <1>3, <1>4, <1>5 DEF Promise!Prepare

LEMMA ApprovalEndorses ==
  ASSUME GInv, NEW u \in Users, CeremonySame, Approve(u)
  PROVE  Promise!Endorse
  <1>1. state # "QUEUED"
    BY Authorizations DEF Approve
  <1>2. released = Promise!Unreleased
    BY <1>1 DEF GInv, Untouched, Unreleased, Promise!Unreleased
  <1>3. u \in Users \ Authors
    BY DEF Approve, NotSelfApproval, Authors
  <1>4. Endorsed' = [by |-> u, content |-> content]
    BY DEF Approve, Endorsed
  <1>5. UNCHANGED <<content, Authors, released>>
    BY DEF Approve, Authors, CeremonySame
  <1> QED BY <1>2, <1>3, <1>4, <1>5 DEF Promise!Endorse, Endorsed

LEMMA ReleaseReleases ==
  ASSUME GInv, NEW u \in Users, NEW c \in Ceremonies, ReleaseBatch(u, c)
  PROVE  Promise!Release
  <1>1. state = "AUTHORIZATION_PENDING"
    BY Authorizations DEF ReleaseBatch
  <1>2. released = Promise!Unreleased
    BY <1>1 DEF GInv, Untouched, Unreleased, Promise!Unreleased
  <1>3. /\ approval.by = approver /\ approval.content = content
        /\ approver \in Users \ Authors
    BY <1>1 DEF GInv, GTypeOK, Chained, NotSelfApproval, Authors
  <1>4. u \in Users \ (Authors \cup {approver})
    BY DEF ReleaseBatch, NotSelfAuthorization, Authors
  <1>5. UNCHANGED <<content, Authors, approval>> /\ released' = [by |-> u, content |-> content]
    BY DEF ReleaseBatch, Authors
  <1> QED BY <1>2, <1>3, <1>4, <1>5 DEF Promise!Release

LEMMA RestStutters ==
  ASSUME GInv,
         \/ \E u \in Users : \/ /\ Validate(u) \/ Submit(u) \/ Judge(u) \/ ChangeLevel(u)
                               /\ CeremonySame
                            \/ Abandon(u)
                            \/ \E c \in Ceremonies : Open(u, c)
         \/ Housekeeping \/ ChangePolicy
         \/ \E c \in Ceremonies : Tick(c)
         \/ UNCHANGED gvars
  PROVE  UNCHANGED <<content, Authors, Endorsed, released>>
  <1>1. UNCHANGED <<content, creator, editors, approval, released>>
    BY DEF Validate, Submit, Judge, Judged, ChangeLevel, CeremonySame, Abandon, Open,
           Housekeeping, ChangePolicy, Tick, gvars, batch
  <1> QED BY <1>1 DEF Authors, Endorsed

LEMMA StepKeepsPromise ==
  ASSUME GInv, [GNext]_gvars PROVE [Promise!DNext]_(Promise!dvars)
  <1>1. ASSUME NEW u \in Users, BatchStep(u), CeremonySame
        PROVE  Promise!DNext \/ UNCHANGED <<content, Authors, Endorsed, released>>
    BY <1>1, EditsPrepare, ApprovalEndorses, RestStutters DEF BatchStep, Promise!DNext
  <1>2. ASSUME NEW u \in Users, CeremonyStep(u)
        PROVE  Promise!DNext \/ UNCHANGED <<content, Authors, Endorsed, released>>
    BY <1>2, ReleaseReleases, RestStutters DEF CeremonyStep, Promise!DNext
  <1>3. Promise!DNext \/ UNCHANGED <<content, Authors, Endorsed, released>>
    BY <1>1, <1>2, RestStutters DEF GNext, CeremonySame
  <1> QED BY <1>3 DEF Promise!dvars, Endorsed

LEMMA InitKeepsPromise == ASSUME GInit PROVE Promise!DInit
  BY DEF GInit, BatchInit, NoApproval, Unreleased, Authors, Promise!DInit, Promise!Unreleased

\* The approval chain implements the dual control it promises.
THEOREM ChainImplementsDualControl == GSpec => PromiseKept
  <1>1. GInit => Promise!DInit
    BY InitKeepsPromise
  <1>2. GInv /\ [GNext]_gvars => [Promise!DNext]_(Promise!dvars)
    BY StepKeepsPromise
  <1> QED BY <1>1, <1>2, GovernanceInvariant, PTL DEF GSpec, PromiseKept, Promise!DSpec
===========================================================================
