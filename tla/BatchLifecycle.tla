--------------------------- MODULE BatchLifecycle --------------------------
(***************************************************************************)
(* One payment batch before the authorization ceremony: how it is drafted, *)
(* filled, validated, submitted, reviewed, held, returned and cancelled    *)
(* (routes/batches.ts, the retry route, the template scheduler), under the *)
(* edges of batch-state.ts and the separation of duties of sod.ts.  Every  *)
(* handler is one transaction that locks the batch first.                  *)
(*                                                                         *)
(* No route changes or removes an instruction, so the content of a batch   *)
(* is its number of instructions.  A refusal changes nothing; permissions, *)
(* risk findings and cooling-off only refuse.                              *)
(***************************************************************************)
EXTENDS Integers

CONSTANTS
  Users,                \* the people of the organisation
  InitialLevel,         \* the authority each of them starts with
  Promotable,           \* those whose authority may change
  MaxBatchInstructions, \* policy.maxBatchInstructions
  MaxVersion            \* bound on the edits of the batch

Levels == {"L1", "L2", "L3"}
Nobody == "nobody"

ASSUME LifecycleAssumption == /\ InitialLevel \in [Users -> Levels]
                              /\ Promotable \subseteq Users
                              /\ MaxBatchInstructions \in Nat \ {0}
                              /\ MaxVersion \in Nat \ {0}
                              /\ Nobody \notin Users

VARIABLES
  level,     \* level[u]: the authority u's next request is made with
  state,     \* payment_batches.state; "NONE" before the insert
  version,   \* payment_batches.version
  content,   \* the number of its instructions
  creator, submitter, approver,  \* the ..._by_user_id columns
  editors,   \* batch_editors
  approval,  \* the latest APPROVE row, with the content its author had before him
  screened   \* history: the version that was last validated

batch == <<state, version, content, creator, submitter, approver, editors, approval, screened>>

BatchState == {"NONE", "DRAFT", "VALIDATED", "SUBMITTED_TO_L2", "L2_REVIEW", "L3_READY",
               "AUTHORIZATION_PENDING", "QUEUED", "RETURNED_FOR_CORRECTION", "ON_HOLD",
               "REJECTED", "CANCELLED"}
EditableStates == {"DRAFT", "VALIDATED", "RETURNED_FOR_CORRECTION"}

NoApproval == [by |-> Nobody, version |-> 0, content |-> 0]

BatchInit == /\ level = InitialLevel
             /\ state = "NONE" /\ version = 0 /\ content = 0
             /\ creator = Nobody /\ submitter = Nobody /\ approver = Nobody
             /\ editors = {} /\ approval = NoApproval /\ screened = 0

---------------------------------------------------------------------------
\* BATCH_EDGES, the ones a person drives: <<from, command, to, authority>>.
PreparationEdges ==
  { <<"DRAFT", "VALIDATE", "VALIDATED", "L1">>,
    <<"VALIDATED", "SUBMIT_TO_L2", "SUBMITTED_TO_L2", "L1">>,
    <<"RETURNED_FOR_CORRECTION", "SUBMIT_TO_L2", "SUBMITTED_TO_L2", "L1">>,
    <<"DRAFT", "CANCEL", "CANCELLED", "L1">>,
    <<"VALIDATED", "CANCEL", "CANCELLED", "L1">>,
    <<"RETURNED_FOR_CORRECTION", "CANCEL", "CANCELLED", "L1">> }

ReviewEdges ==
  { <<"SUBMITTED_TO_L2", "BEGIN_L2_REVIEW", "L2_REVIEW", "L2">>,
    <<"L2_REVIEW", "APPROVE_TO_L3", "L3_READY", "L2">>,
    <<"L2_REVIEW", "REJECT", "REJECTED", "L2">>,
    <<"L2_REVIEW", "RETURN_TO_L1", "RETURNED_FOR_CORRECTION", "L2">>,
    <<"L2_REVIEW", "HOLD", "ON_HOLD", "L2">>,
    <<"SUBMITTED_TO_L2", "HOLD", "ON_HOLD", "L2">>,
    <<"SUBMITTED_TO_L2", "REJECT", "REJECTED", "L2">>,
    <<"ON_HOLD", "RELEASE_HOLD", "L2_REVIEW", "L2">> }

AuthorizationEdges ==
  { <<"L3_READY", "HOLD", "ON_HOLD", "L3">>,
    <<"L3_READY", "REJECT", "REJECTED", "L3">>,
    <<"L3_READY", "CANCEL", "CANCELLED", "L3">>,
    <<"L3_READY", "BEGIN_AUTHORIZATION", "AUTHORIZATION_PENDING", "L3">>,
    <<"AUTHORIZATION_PENDING", "ABANDON_AUTHORIZATION", "L3_READY", "L3">>,
    <<"AUTHORIZATION_PENDING", "AUTHORIZE", "AUTHORIZED", "L3">>,
    <<"AUTHORIZATION_PENDING", "CANCEL", "CANCELLED", "L3">>,
    <<"ON_HOLD", "CANCEL", "CANCELLED", "L3">> }

\* Mutant: a ceremony can still be abandoned once its batch was released.
EdgesReopening == PreparationEdges \cup ReviewEdges \cup AuthorizationEdges \cup
                  {<<"QUEUED", "ABANDON_AUTHORIZATION", "L3_READY", "L3">>}

Edges == PreparationEdges \cup ReviewEdges \cup AuthorizationEdges

\* Mutant: an edit leaves the state alone, so that no new review is needed.
EditedInPlace(u) ==
  /\ version < MaxVersion
  /\ version' = version + 1 /\ state' = state
  /\ editors' = editors \cup {u}

\* What every edit does to the batch: back to DRAFT under a new version.
Edited(u) ==
  /\ version < MaxVersion
  /\ version' = version + 1 /\ state' = "DRAFT"
  /\ editors' = editors \cup {u}

\* The command is the actor's to give, and the batch takes its edge.
Command(u, command) ==
  \E to \in BatchState : /\ <<state, command, to, level[u]>> \in Edges
                         /\ state' = to

---------------------------------------------------------------------------
\* POST /payment-batches.
Create(u) ==
  /\ state = "NONE"
  /\ state' = "DRAFT" /\ version' = 1 /\ creator' = u
  /\ UNCHANGED <<level, content, submitter, approver, editors, approval, screened>>

\* runTemplateScheduler: a draft filled from a template, in an L1 user's name.
TemplateDraft(u) ==
  /\ state = "NONE" /\ level[u] = "L1"
  /\ state' = "DRAFT" /\ version' = 1 /\ creator' = u
  /\ content' \in 0..MaxBatchInstructions
  /\ UNCHANGED <<level, submitter, approver, editors, approval, screened>>

\* POST .../upload.  The set is replaced by DELETE and INSERT, but the trigger
\* instructions_guard_delete refuses every DELETE: only an empty batch is filled.
Upload(u) ==
  /\ state \in EditableStates
  /\ content = 0
  /\ Edited(u)
  /\ content' \in 0..MaxBatchInstructions
  /\ UNCHANGED <<level, creator, submitter, approver, approval, screened>>

\* POST /transactions/:id/retry: a failed payment is reissued into an editable
\* correction batch (SELECT ... FOR UPDATE), or into a new one.
Retry(u) ==
  /\ state \in EditableStates
  /\ Edited(u)
  /\ content' = content + 1
  /\ UNCHANGED <<level, creator, submitter, approver, approval, screened>>

RetryIntoNew(u) ==
  /\ state = "NONE"
  /\ state' = "DRAFT" /\ version' = 2 /\ creator' = u /\ editors' = {u}
  /\ content' = 1
  /\ UNCHANGED <<level, submitter, approver, approval, screened>>

\* POST .../validate.
Validate(u) ==
  /\ Command(u, "VALIDATE")
  /\ content \in 1..MaxBatchInstructions
  /\ screened' = version
  /\ UNCHANGED <<level, version, content, creator, submitter, approver, editors, approval>>

\* POST .../submit.
Submit(u) ==
  /\ Command(u, "SUBMIT_TO_L2")
  /\ submitter' = u
  /\ UNCHANGED <<level, version, content, creator, approver, editors, approval, screened>>

\* assertNotSelfApproval, and the CHECK batches_no_self_approval.
NotSelfApproval(u) == u \notin {creator, submitter} \cup editors

\* POST .../approve: a batch still SUBMITTED_TO_L2 is reviewed on the way.
Approve(u) ==
  /\ \/ state = "L2_REVIEW"
     \/ <<state, "BEGIN_L2_REVIEW", "L2_REVIEW", level[u]>> \in Edges
  /\ <<"L2_REVIEW", "APPROVE_TO_L3", "L3_READY", level[u]>> \in Edges
  /\ NotSelfApproval(u)
  /\ state' = "L3_READY" /\ approver' = u
  /\ approval' = [by |-> u, version |-> version, content |-> content]
  /\ UNCHANGED <<level, version, content, creator, submitter, editors, screened>>

\* POST .../reject, return, hold, release-hold, cancel: the edge, and an
\* approvals row that nothing reads again.
Judged(u, command) ==
  /\ Command(u, command)
  /\ UNCHANGED <<level, version, content, creator, submitter, approver, editors, approval, screened>>

Judge(u) == \E command \in {"REJECT", "RETURN_TO_L1", "HOLD", "RELEASE_HOLD", "CANCEL"} :
              Judged(u, command)

\* PATCH /users: what u's requests carry from now on (requireAuth reads it, and
\* a handler that is already running keeps what it read).
ChangeLevel(u) == /\ u \in Promotable
                  /\ level' \in {[level EXCEPT ![u] = l] : l \in Levels}
                  /\ UNCHANGED batch

BatchStep(u) ==
  \/ Create(u) \/ TemplateDraft(u) \/ Upload(u) \/ Retry(u) \/ RetryIntoNew(u)
  \/ Validate(u) \/ Submit(u) \/ Approve(u) \/ Judge(u) \/ ChangeLevel(u)

---------------------------------------------------------------------------
\* "Ingest a CSV into an editable batch" and "Replace the instruction set
\* wholesale" (the upload handler): whoever corrects a batch can replace it.
EditableTakesUpload ==
  state \in EditableStates /\ version < MaxVersion => \E u \in Users : ENABLED Upload(u)
===========================================================================
