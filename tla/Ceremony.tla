------------------------------ MODULE Ceremony -----------------------------
(***************************************************************************)
(* The authorization ceremony of the batch (services/authorization.ts and  *)
(* routes/authorization.ts) on top of its life cycle: challenges that are  *)
(* opened, released, abandoned or swept by housekeeping, while the policy  *)
(* and people's authority change around them.                              *)
(***************************************************************************)
EXTENDS BatchLifecycle

CONSTANTS
  Ceremonies,  \* the challenges that may be issued
  Policies     \* the policies the organisation may have, by their digest

VARIABLES
  policy,     \* the organisation's policy
  challenge,  \* challenge[c]: the row of authorization_challenges
  released,   \* history: what the release handed to the executor, and by whom
  releases    \* history: how many times that happened

gvars == <<level, batch, policy, challenge, released, releases>>
bvars == <<level, batch>>

Ages == {"fresh", "expired", "stale"}  \* within 5 minutes, later, an hour later
ChallengeStatus == {"none", "open", "consumed", "abandoned"}

NoChallenge == [status |-> "none", age |-> "fresh", by |-> Nobody, version |-> 0,
                content |-> 0, policy |-> Nobody]
Unreleased == [by |-> Nobody]

With(s) == {c \in Ceremonies : challenge[c].status = s}

GInit == /\ BatchInit
         /\ policy \in Policies
         /\ challenge = [c \in Ceremonies |-> NoChallenge]
         /\ released = Unreleased /\ releases = 0

---------------------------------------------------------------------------
\* Mutant: assertNotSelfAuthorization forgets the approver.
NotSelfAuthorizationUnapproved(u) == u \notin {creator} \cup editors

\* assertNotSelfAuthorization, and the CHECK batches_no_self_authorization.
NotSelfAuthorization(u) == u \notin {creator, approver} \cup editors

\* loadCurrentApproval: the latest approval is of the version at hand.
CurrentApproval == approval.by # Nobody /\ approval.version = version

\* openAuthorizationCeremony.  The partial unique index has no room for a
\* second open challenge of the batch.
Open(u, c) ==
  /\ Command(u, "BEGIN_AUTHORIZATION")
  /\ CurrentApproval
  /\ NotSelfAuthorization(u)
  /\ With("open") = {} /\ challenge[c].status = "none"
  /\ challenge' = [challenge EXCEPT ![c] =
       [status |-> "open", age |-> "fresh", by |-> u, version |-> version,
        content |-> content, policy |-> policy]]
  /\ UNCHANGED <<level, version, content, creator, submitter, approver, editors, approval,
                 screened, policy, released, releases>>

\* verifyChallengeBinding over the manifest rebuilt from the live rows, and the
\* checks on abandoned_at and policy_digest around it.
Bound(u, c) ==
  LET ch == challenge[c] IN
  /\ ch.status = "open"
  /\ ch.age = "fresh" /\ ch.by = u
  /\ ch.version = version /\ ch.content = content /\ ch.policy = policy

\* Mutant: the update that says the jobs are there is forgotten.
AuthorizedOnly == "AUTHORIZED"

\* The state the release commits: AUTHORIZED is overwritten before the commit.
Dispatched == "QUEUED"

\* releaseBatch, up to the hand-over to the executor.  The PIN, the signature,
\* the freshness of the login and the policy's gates only refuse.
ReleaseBatch(u, c) ==
  /\ <<state, "AUTHORIZE", "AUTHORIZED", level[u]>> \in Edges
  /\ Bound(u, c)
  /\ NotSelfAuthorization(u)
  /\ challenge' = [challenge EXCEPT ![c].status = "consumed"]
  /\ state' = Dispatched
  /\ released' = [by |-> u, content |-> content]
  /\ releases' = releases + 1
  /\ UNCHANGED <<level, version, content, creator, submitter, approver, editors, approval,
                 screened, policy>>

\* Mutant: the batch goes back but its challenge stays open.
AbandonLeavingOpen(u) ==
  /\ Command(u, "ABANDON_AUTHORIZATION")
  /\ UNCHANGED <<level, version, content, creator, submitter, approver, editors, approval,
                 screened, challenge, policy, released, releases>>

\* abandonCeremony, by any L3.
Abandon(u) ==
  /\ Command(u, "ABANDON_AUTHORIZATION")
  /\ challenge' = [c \in Ceremonies |-> IF challenge[c].status = "open"
                     THEN [challenge[c] EXCEPT !.status = "abandoned"] ELSE challenge[c]]
  /\ UNCHANGED <<level, version, content, creator, submitter, approver, editors, approval,
                 screened, policy, released, releases>>

\* Mutant: the sweep closes the challenge and forgets the batch.
HousekeepingForgetsBatch ==
  LET swept == {c \in With("open") : challenge[c].age = "stale"} IN
  /\ swept # {}
  /\ challenge' = [c \in Ceremonies |-> IF c \in swept
                     THEN [challenge[c] EXCEPT !.status = "abandoned"] ELSE challenge[c]]
  /\ UNCHANGED <<level, batch, policy, released, releases>>

\* Mutant: the batch is put back whatever state it is in by now.
HousekeepingAnyState ==
  LET swept == {c \in With("open") : challenge[c].age = "stale"} IN
  /\ swept # {}
  /\ challenge' = [c \in Ceremonies |-> IF c \in swept
                     THEN [challenge[c] EXCEPT !.status = "abandoned"] ELSE challenge[c]]
  /\ state' = "L3_READY"
  /\ UNCHANGED <<level, version, content, creator, submitter, approver, editors, approval,
                 screened, policy, released, releases>>

\* runHousekeeping: challenges an hour past their expiry are abandoned and
\* their batches, when they still wait for one, go back to L3_READY.
Housekeeping ==
  LET swept == {c \in With("open") : challenge[c].age = "stale"} IN
  /\ swept # {}
  /\ challenge' = [c \in Ceremonies |-> IF c \in swept
                     THEN [challenge[c] EXCEPT !.status = "abandoned"] ELSE challenge[c]]
  /\ state' = IF state = "AUTHORIZATION_PENDING" THEN "L3_READY" ELSE state
  /\ UNCHANGED <<level, version, content, creator, submitter, approver, editors, approval,
                 screened, policy, released, releases>>

\* PATCH /policies.
ChangePolicy == /\ policy' \in Policies
                /\ UNCHANGED <<level, batch, challenge, released, releases>>

\* The clock, as far as a challenge's expiry goes.
Tick(c) == /\ challenge[c].status = "open" /\ challenge[c].age # "stale"
           /\ challenge' = [challenge EXCEPT ![c].age =
                              IF challenge[c].age = "fresh" THEN "expired" ELSE "stale"]
           /\ UNCHANGED <<level, batch, policy, released, releases>>

CeremonyStep(u) == \/ Abandon(u)
                   \/ \E c \in Ceremonies : Open(u, c) \/ ReleaseBatch(u, c)

GNext == \/ \E u \in Users : \/ BatchStep(u) /\ UNCHANGED <<policy, challenge, released, releases>>
                             \/ CeremonyStep(u)
         \/ Housekeeping \/ ChangePolicy
         \/ \E c \in Ceremonies : Tick(c)

GSpec == GInit /\ [][GNext]_gvars

\* Time passes and housekeeping comes back every day (a day lost to a crash is
\* made up for by the next).  Nobody has to prepare, judge or release anything.
GFairness == WF_gvars(Housekeeping) /\ \A c \in Ceremonies : WF_gvars(Tick(c))

GFairSpec == GSpec /\ GFairness

---------------------------------------------------------------------------
\* Properties.

GTypeOK ==
  /\ level \in [Users -> Levels]
  /\ state \in BatchState
  /\ version \in Nat /\ content \in Nat /\ screened \in Nat
  /\ {creator, submitter, approver} \subseteq Users \cup {Nobody}
  /\ editors \subseteq Users
  /\ approval \in [by : Users \cup {Nobody}, version : Nat, content : Nat]
  /\ policy \in Policies
  /\ challenge \in [Ceremonies -> [status : ChallengeStatus, age : Ages,
                                   by : Users \cup {Nobody}, version : Nat, content : Nat,
                                   policy : Policies \cup {Nobody}]]
  /\ releases \in Nat

\* The batch and its challenges are moved by five handlers and a timer: a batch
\* waits for authorization exactly while a challenge is open, unless it was
\* cancelled meanwhile, so BEGIN_AUTHORIZATION never runs into the unique index
\* and no challenge can be presented for a batch that left the ceremony.
CeremonyMatchesState ==
  /\ state = "AUTHORIZATION_PENDING" => With("open") # {}
  /\ With("open") # {} => state \in {"AUTHORIZATION_PENDING", "CANCELLED"}
  /\ \A c, d \in With("open") : c = d

\* A double-clicked, retried or raced release happens once (the comments on the
\* conditional UPDATE in releaseBatch), and it uses up exactly one challenge.
ReleasedOnce == /\ releases <= 1
                /\ \A c \in Ceremonies : challenge[c].status = "consumed" =>
                     /\ releases = 1 /\ state = "QUEUED"
                     /\ With("consumed") = {c}

\* From the submission on the content is the one that was validated, also when
\* a returned batch is resubmitted without validation; from the approval on it
\* is the one that was approved, by nobody who prepared or submitted it.
Chained ==
  /\ state \notin {"NONE", "DRAFT", "CANCELLED"} => screened = version
  /\ state \in {"L3_READY", "AUTHORIZATION_PENDING", "QUEUED"} =>
       /\ approval = [by |-> approver, version |-> version, content |-> content]
       /\ approver # Nobody /\ NotSelfApproval(approver)
  /\ \A c \in With("open") : challenge[c].version = version /\ challenge[c].content = content

\* What was cancelled, rejected or released never comes back to the chain, not
\* even when housekeeping gets to the challenge that a cancellation left open.
OutIsOut ==
  [][(state \in {"CANCELLED", "REJECTED", "QUEUED"}) => (state' = state)]_gvars

\* A ceremony that nobody finishes does not block its batch for good
\* (runHousekeeping's comment on the partial unique index).
CeremonyEnds == state = "AUTHORIZATION_PENDING" ~> state # "AUTHORIZATION_PENDING"

\* The chain implements the promise of DualControl.
Authors == editors \cup ({creator} \ {Nobody})
Promise == INSTANCE DualControl WITH
             People <- Users, Contents <- Nat, draft <- content, authors <- Authors,
             endorsed <- [by |-> approval.by, content |-> approval.content],
             released <- released
PromiseKept == Promise!DSpec
===========================================================================
