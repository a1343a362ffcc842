--------------------------- MODULE VisionDelivery ---------------------------
(***************************************************************************)
(* The one-shot delivery of a screen picture to the vision provider        *)
(* (perception/screen_vision_delivery.rs) with the process-local slots it  *)
(* is built from: the candidate picture and its lease, the READY / BOUND / *)
(* CONSUMED grant, the user's review, and the authorities every step reads *)
(* again: the durable screen policy, the session gate's fence, the         *)
(* outbound policy's revision and the active destination.                  *)
(*                                                                         *)
(* Three threads share the slots, each slot behind a mutex of its own.     *)
(* `pr' prepares a review (one at a time: the capture gate), `ex' executes *)
(* one (one at a time: the delivery gate) and the main thread serves the   *)
(* synchronous commands: status, abandon and the settings.  An action is   *)
(* one critical section or one read of an authority.                       *)
(*                                                                         *)
(* A preparation's number names its candidate and its review, which are    *)
(* created with it.  An attempt stands for the confirmation event and the  *)
(* delivery id, which the frontend draws together for one confirmation.    *)
(* One life: the checks of the current life compare a constant.            *)
(***************************************************************************)
EXTENDS Naturals, FiniteSets

CONSTANTS
    Attempts,       \* the attempts (confirmation event, delivery id) of the frontend
    Destinations,   \* the vision profiles that can be the active one
    MaxPreps,       \* bound on preparations
    MaxArms,        \* bound on arming the session gate
    MaxPolicyRev,         \* bound on the revisions of the two policies
    None            \* no attempt, no destination

ASSUME BoundsAreNat ==
    /\ MaxPreps \in Nat \ {0} /\ MaxArms \in Nat \ {0} /\ MaxPolicyRev \in Nat \ {0, 1}
ASSUME NoneIsNobody == None \notin Attempts \cup Destinations

VARIABLES
    screen,     \* the durable screen-perception policy: on, revision
    disarming,  \* the policy update has committed its disable, not yet disarmed
    gate,       \* the fence of the armed session, 0 when disarmed
    arms,       \* the generation counter of the gate
    outbound,   \* the durable outbound policy: on, revision
    dest,       \* the active vision destination
    cand,       \* the candidate slot
    grant,      \* the grant slot
    review,     \* the review slot
    preps,      \* the preparations begun
    issuedGrants,     \* the grants issued
    pr,         \* the preparing thread
    ex,         \* the executing thread
    sent,       \* history: what was handed to the provider
    observed    \* history: candidates whose delivery was recorded as definite

policyVars == <<screen, disarming, gate, arms, outbound, dest>>
slots == <<cand, grant, review>>
history == <<sent, observed>>
visionVars == <<policyVars, slots, preps, issuedGrants, pr, ex, history>>

NoCand == [id |-> 0, fence |-> 0, rev |-> 0, leased |-> FALSE, old |-> FALSE]

NoGrant == [st |-> "Empty", id |-> 0, att |-> None, cand |-> 0, dest |-> None,
            fence |-> 0, rev |-> 0, old |-> FALSE]

NoReview == [st |-> "Empty", id |-> 0, dest |-> None, att |-> None, grant |-> 0, old |-> FALSE]

NotPreparing == [pc |-> "idle", n |-> 0, round |-> 0, dest |-> None, fence |-> 0, rev |-> 0]

NotExecuting == [pc |-> "idle", stage |-> "none", id |-> 0, att |-> None, dest |-> None,
                 grant |-> 0, fresh |-> FALSE, fence |-> 0, rev |-> 0, consent |-> FALSE]

\* Both policies are created disabled at revision 1 and were enabled once.
VisionInit ==
    /\ screen = [on |-> TRUE, rev |-> 2] /\ disarming = FALSE
    /\ gate = 0 /\ arms = 0
    /\ outbound = [on |-> TRUE, rev |-> 2]
    /\ dest \in Destinations
    /\ cand = NoCand /\ grant = NoGrant /\ review = NoReview
    /\ preps = 0 /\ issuedGrants = 0
    /\ pr = NotPreparing /\ ex = NotExecuting
    /\ sent = {} /\ observed = {}

-----------------------------------------------------------------------------
(* Time.  A slot is past its time to live from some moment on; a grant is  *)
(* issued after its review was shown and lives as long, so it is not the   *)
(* first of the two to expire.                                             *)

AgeCandidate ==
    /\ cand.id # 0 /\ ~cand.old
    /\ cand' = [cand EXCEPT !.old = TRUE]
    /\ UNCHANGED <<policyVars, grant, review, preps, issuedGrants, pr, ex, history>>

AgeReview ==
    /\ review.st = "Ready" /\ ~review.old
    /\ review' = [review EXCEPT !.old = TRUE]
    /\ UNCHANGED <<policyVars, cand, grant, preps, issuedGrants, pr, ex, history>>

AgeGrant ==
    /\ grant.st = "Ready" /\ ~grant.old
    /\ review.id = grant.cand /\ review.st = "Ready" => review.old
    /\ grant' = [grant EXCEPT !.old = TRUE]
    /\ UNCHANGED <<policyVars, cand, review, preps, issuedGrants, pr, ex, history>>

-----------------------------------------------------------------------------
(* The settings commands of the main thread.                               *)

Arm ==
    /\ ~disarming /\ screen.on /\ arms < MaxArms
    /\ arms' = arms + 1
    /\ gate' = arms + 1
    /\ UNCHANGED <<screen, disarming, outbound, dest, slots, preps, issuedGrants, pr, ex, history>>

Disarm ==
    /\ ~disarming /\ gate # 0
    /\ gate' = 0
    /\ UNCHANGED <<screen, disarming, arms, outbound, dest, slots, preps, issuedGrants, pr, ex,
                   history>>

\* A disable commits first and disarms the session afterwards.
UpdateScreenPolicy ==
    /\ ~disarming /\ screen.rev < MaxPolicyRev
    /\ screen' = [on |-> ~screen.on, rev |-> screen.rev + 1]
    /\ disarming' = screen.on
    /\ UNCHANGED <<gate, arms, outbound, dest, slots, preps, issuedGrants, pr, ex, history>>

DisarmIfBound ==
    /\ disarming
    /\ gate' = 0
    /\ disarming' = FALSE
    /\ UNCHANGED <<screen, arms, outbound, dest, slots, preps, issuedGrants, pr, ex, history>>

UpdateOutboundPolicy ==
    /\ ~disarming /\ outbound.rev < MaxPolicyRev
    /\ outbound' = [on |-> ~outbound.on, rev |-> outbound.rev + 1]
    /\ UNCHANGED <<screen, disarming, gate, arms, dest, slots, preps, issuedGrants, pr, ex, history>>

ActivateProfile ==
    /\ ~disarming
    /\ dest' \in Destinations \ {dest}
    /\ UNCHANGED <<screen, disarming, gate, arms, outbound, slots, preps, issuedGrants, pr, ex,
                   history>>

-----------------------------------------------------------------------------
(* The candidate slot.                                                     *)

\* Mutant: the picture of a running delivery is replaced, too.
ReplaceAnyCandidate(n, fence, rev) ==
    cand' = [id |-> n, fence |-> fence, rev |-> rev, leased |-> FALSE, old |-> FALSE]

ReplaceCandidate(n, fence, rev) ==
    /\ ~cand.leased
    /\ cand' = [id |-> n, fence |-> fence, rev |-> rev, leased |-> FALSE, old |-> FALSE]

\* revoke_candidate_best_effort: the exact candidate, unless it is leased.  An
\* expired one goes whichever it is.
Revoked(c, n) == IF ~c.leased /\ (c.id = n \/ c.old) THEN NoCand ELSE c

\* The candidate of the executing thread, leased by it, within its time to live.
CandidateHolds == cand.id = ex.id /\ cand.leased /\ ~cand.old

Unleased(c) == IF c.id = ex.id THEN [c EXCEPT !.leased = FALSE] ELSE c

-----------------------------------------------------------------------------
(* Preparing a review.  The authorities are read before the capture and    *)
(* twice after it.                                                         *)

PrepareBegin ==
    /\ pr.pc = "idle" /\ preps < MaxPreps
    /\ review.st \in {"Empty", "Ready"}
    /\ preps' = preps + 1
    /\ pr' = [NotPreparing EXCEPT !.pc = "policy", !.n = preps + 1, !.round = 1, !.dest = dest]
    /\ UNCHANGED <<policyVars, slots, issuedGrants, ex, history>>

PreparePolicy ==
    /\ pr.pc = "policy"
    /\ pr' = IF screen.on THEN [pr EXCEPT !.pc = "fence"] ELSE NotPreparing
    /\ UNCHANGED <<policyVars, slots, preps, issuedGrants, ex, history>>

PrepareFence ==
    /\ pr.pc = "fence"
    /\ pr' = IF gate # 0 /\ (pr.round = 1 \/ gate = pr.fence)
             THEN [pr EXCEPT !.pc = "revision", !.fence = gate]
             ELSE NotPreparing
    /\ UNCHANGED <<policyVars, slots, preps, issuedGrants, ex, history>>

PrepareRevision ==
    /\ pr.pc = "revision"
    /\ pr' = IF outbound.on /\ (pr.round = 1 \/ outbound.rev = pr.rev)
             THEN [pr EXCEPT !.pc = IF pr.round = 3 THEN "install" ELSE "policy",
                             !.rev = outbound.rev,
                             !.round = IF pr.round = 3 THEN 3 ELSE pr.round + 1]
             ELSE NotPreparing
    /\ UNCHANGED <<policyVars, slots, preps, issuedGrants, ex, history>>

\* The capture or the projection fails.
PrepareFail ==
    /\ pr.pc = "policy" /\ pr.round > 1
    /\ pr' = NotPreparing
    /\ UNCHANGED <<policyVars, slots, preps, issuedGrants, ex, history>>

PrepareInstall ==
    /\ pr.pc = "install"
    /\ \/ /\ ReplaceCandidate(pr.n, pr.fence, pr.rev)
          /\ pr' = [pr EXCEPT !.pc = "resolve"]
       \/ /\ cand.leased
          /\ pr' = NotPreparing
          /\ UNCHANGED cand
    /\ UNCHANGED <<policyVars, grant, review, preps, issuedGrants, ex, history>>

\* The destination is resolved again; a changed one takes the candidate back.
PrepareResolve ==
    /\ pr.pc = "resolve"
    /\ \/ /\ dest = pr.dest
          /\ pr' = [pr EXCEPT !.pc = "ready"]
          /\ UNCHANGED cand
       \/ /\ dest # pr.dest
          /\ cand' = Revoked(cand, pr.n)
          /\ pr' = NotPreparing
    /\ UNCHANGED <<policyVars, grant, review, preps, issuedGrants, ex, history>>

InstallReady ==
    /\ pr.pc = "ready"
    /\ \/ /\ review.st \in {"Empty", "Ready"}
          /\ review' = [NoReview EXCEPT !.st = "Ready", !.id = pr.n, !.dest = pr.dest]
          /\ UNCHANGED cand
       \/ /\ review.st \notin {"Empty", "Ready"}
          /\ cand' = Revoked(cand, pr.n)
          /\ UNCHANGED review
    /\ pr' = NotPreparing
    /\ UNCHANGED <<policyVars, grant, preps, issuedGrants, ex, history>>

-----------------------------------------------------------------------------
(* Executing a review.                                                     *)

\* The status command drops a review past its time to live.
Status ==
    /\ ~disarming
    /\ review.st = "Ready" /\ review.old
    /\ review' = NoReview
    /\ UNCHANGED <<policyVars, cand, grant, preps, issuedGrants, pr, ex, history>>

\* get_for_execution: a live READY review, or the committed one with its exact
\* attempt.
GetForExecution(n, a) ==
    \/ /\ review.st = "Ready" /\ review.old
       /\ review' = NoReview
       /\ UNCHANGED ex
    \/ /\ review.st = "Ready" /\ ~review.old /\ review.id = n
       /\ ex' = [NotExecuting EXCEPT !.pc = "resolve", !.id = n, !.att = a,
                                     !.dest = review.dest, !.fresh = TRUE]
       /\ UNCHANGED review
    \/ /\ review.st = "Committed" /\ review.id = n /\ review.att = a
       /\ ex' = [NotExecuting EXCEPT !.pc = "resolve", !.id = n, !.att = a,
                                     !.dest = review.dest, !.grant = review.grant]
       /\ UNCHANGED review

ExecuteBegin ==
    /\ ex.pc = "idle"
    /\ \E n \in 1 .. preps, a \in Attempts : GetForExecution(n, a)
    /\ UNCHANGED <<policyVars, cand, grant, preps, issuedGrants, pr, history>>

\* revoke_ready_exact of the grant of a failed claim
RevokedReady(g) ==
    IF ex.fresh /\ g.id = ex.grant /\ g.st = "Ready" THEN [g EXCEPT !.st = "Consumed"] ELSE g

\* Every error before the provider's answer: the lease and the delivery gate are
\* dropped; a committed review keeps its attempt for a retry.
GiveUp ==
    /\ ex' = NotExecuting
    /\ cand' = Unleased(cand)
    /\ grant' = IF ex.stage = "claim" THEN RevokedReady(grant) ELSE grant
    /\ UNCHANGED review

ExecuteResolve ==
    /\ ex.pc = "resolve"
    /\ ex' = IF dest = ex.dest THEN [ex EXCEPT !.pc = "lease"] ELSE NotExecuting
    /\ UNCHANGED <<policyVars, slots, preps, issuedGrants, pr, history>>

ExecuteLease ==
    /\ ex.pc = "lease"
    /\ \/ /\ cand.id = ex.id /\ ~cand.old /\ ~cand.leased
          /\ cand' = [cand EXCEPT !.leased = TRUE]
          /\ ex' = [ex EXCEPT !.pc = "candidate", !.fence = cand.fence, !.rev = cand.rev,
                              !.stage = IF ex.fresh THEN "issue" ELSE "claim"]
       \/ /\ ~(cand.id = ex.id /\ ~cand.old /\ ~cand.leased)
          /\ cand' = IF cand.old /\ ~cand.leased THEN NoCand ELSE cand
          /\ ex' = NotExecuting
    /\ UNCHANGED <<policyVars, grant, review, preps, issuedGrants, pr, history>>

\* One of the reads that issuing, claiming and the last guard repeat: go on, or
\* give up.
Read(at, ok, next) ==
    /\ ex.pc = at
    /\ \/ ok /\ ex' = [ex EXCEPT !.pc = next] /\ UNCHANGED slots
       \/ ~ok /\ GiveUp
    /\ UNCHANGED <<policyVars, preps, issuedGrants, pr, history>>

ReadCandidate == Read("candidate", CandidateHolds, "policy")

ReadPolicy == Read("policy", screen.on, "fence")

ReadFence == Read("fence", gate # 0 /\ gate = ex.fence, "revision")

ReadRevision == Read("revision", outbound.on /\ outbound.rev = ex.rev, "slot")

-----------------------------------------------------------------------------
(* The grant slot.                                                         *)

\* A READY grant past its time to live is consumed by whoever looks at it.
Current(g) == IF g.st = "Ready" /\ g.old THEN [g EXCEPT !.st = "Consumed"] ELSE g

Issued == [st |-> "Ready", id |-> issuedGrants + 1, att |-> ex.att, cand |-> ex.id, dest |-> ex.dest,
           fence |-> ex.fence, rev |-> ex.rev, old |-> FALSE]

SameScope(g) ==
    /\ g.att = ex.att /\ g.cand = ex.id /\ g.dest = ex.dest
    /\ g.fence = ex.fence /\ g.rev = ex.rev

\* Issued anew, or replayed for the same confirmation of the same candidate.
IssueVisionGrant ==
    /\ ex.pc = "slot" /\ ex.stage = "issue"
    /\ LET g == Current(grant)
           replay == g.st = "Ready" /\ SameScope(g)
           free == g.st = "Empty"
                   \/ (g.st # "Bound" /\ g.att # ex.att /\ g.cand # ex.id)
       IN \/ /\ replay
             /\ grant' = g
             /\ ex' = [ex EXCEPT !.pc = "candidate", !.stage = "claim", !.grant = g.id]
             /\ UNCHANGED <<cand, issuedGrants>>
          \/ /\ free /\ CandidateHolds
             /\ grant' = Issued
             /\ issuedGrants' = issuedGrants + 1
             /\ ex' = [ex EXCEPT !.pc = "candidate", !.stage = "claim", !.grant = issuedGrants + 1]
             /\ UNCHANGED cand
          \/ /\ ~replay /\ (free => ~CandidateHolds)
             /\ grant' = g
             /\ ex' = NotExecuting
             /\ cand' = Unleased(cand)
             /\ UNCHANGED issuedGrants
    /\ UNCHANGED <<policyVars, review, preps, pr, history>>

\* READY becomes BOUND to the attempt; a grant bound to it already is a replay.
GrantClaimable(g) ==
    /\ g.id = ex.grant /\ g.cand = ex.id /\ g.dest = ex.dest
    /\ g.st = "Ready" \/ (g.st = "Bound" /\ g.att = ex.att)

ClaimGrant ==
    /\ ex.pc = "slot" /\ ex.stage \in {"claim", "reclaim"}
    /\ LET g == Current(grant)
           ok == CandidateHolds /\ GrantClaimable(g)
       IN \/ /\ ok
             /\ grant' = [g EXCEPT !.st = "Bound"]
             /\ ex' = [ex EXCEPT !.pc = IF ex.stage = "reclaim" THEN "send"
                                        ELSE IF ex.fresh THEN "commit" ELSE "encode"]
             /\ UNCHANGED cand
          \/ /\ ~ok
             /\ grant' = IF ex.stage = "claim" THEN RevokedReady(g) ELSE g
             /\ ex' = NotExecuting
             /\ cand' = Unleased(cand)
    /\ UNCHANGED <<policyVars, review, preps, issuedGrants, pr, history>>

\* commit_exact.  A review that is gone fails the call; the claimed grant stays.
Commit ==
    \/ /\ review.st = "Ready" /\ review.id = ex.id
       /\ review' = [review EXCEPT !.st = "Committed", !.att = ex.att, !.grant = ex.grant,
                                   !.old = FALSE]
       /\ ex' = [ex EXCEPT !.pc = "encode"]
       /\ UNCHANGED cand
    \/ /\ ~(review.st = "Ready" /\ review.id = ex.id)
       /\ ex' = NotExecuting
       /\ cand' = Unleased(cand)
       /\ UNCHANGED review

ExecuteCommit ==
    /\ ex.pc = "commit"
    /\ Commit
    /\ UNCHANGED <<policyVars, grant, preps, issuedGrants, pr, history>>

-----------------------------------------------------------------------------
(* The send and the settlement.                                            *)

\* What the user allowed when the picture was taken still stands.
Consented == screen.on /\ gate = ex.fence /\ outbound.on /\ outbound.rev = ex.rev

\* The picture is encoded and the transport connects; either may fail.
ExecuteEncode ==
    /\ ex.pc = "encode"
    /\ \/ /\ ex' = [ex EXCEPT !.pc = "guard", !.stage = "guard"]
          /\ UNCHANGED slots
       \/ GiveUp
    /\ UNCHANGED <<policyVars, preps, issuedGrants, pr, history>>

ReviewIsMine(st) ==
    review.st = st /\ review.id = ex.id /\ review.att = ex.att /\ review.grant = ex.grant

\* final_pre_send_guard begins: the committed review and the destination.
GuardReview ==
    /\ ex.pc = "guard"
    /\ \/ /\ ReviewIsMine("Committed") /\ dest = ex.dest
          /\ ex' = [ex EXCEPT !.pc = "policy", !.consent = Consented]
          /\ UNCHANGED slots
       \/ /\ ~(ReviewIsMine("Committed") /\ dest = ex.dest)
          /\ GiveUp
    /\ UNCHANGED <<policyVars, preps, issuedGrants, pr, history>>

\* The guard's candidate, lease and bound grant; the claim follows once more.
GuardBound ==
    /\ ex.pc = "slot" /\ ex.stage = "guard"
    /\ LET ok == CandidateHolds /\ grant.st = "Bound" /\ grant.id = ex.grant /\ SameScope(grant)
       IN \/ /\ ok
             /\ ex' = [ex EXCEPT !.pc = "candidate", !.stage = "reclaim"]
             /\ UNCHANGED slots
          \/ ~ok /\ GiveUp
    /\ UNCHANGED <<policyVars, preps, issuedGrants, pr, history>>

Send ==
    /\ ex.pc = "send"
    /\ sent' = sent \cup {[cand |-> ex.id, att |-> ex.att, grant |-> ex.grant,
                           dest |-> ex.dest, consent |-> ex.consent]}
    /\ ex' = [ex EXCEPT !.pc = "sent"]
    /\ UNCHANGED <<policyVars, slots, preps, issuedGrants, pr, observed>>

\* A response with its status, of success or of an error, is a definite delivery:
\* mark_definite_delivery_observed_exact.
Answer ==
    /\ ex.pc = "sent"
    /\ observed' = observed \cup {ex.id}
    /\ ReviewIsMine("Committed")
    /\ review' = [review EXCEPT !.st = "Observed"]
    /\ ex' = [ex EXCEPT !.pc = "observed"]
    /\ UNCHANGED <<policyVars, cand, grant, preps, issuedGrants, pr, sent>>

\* No status: the request may have been sent or was not, or a response arrived whose
\* encoding or body the transport rejected.
NoAnswer ==
    /\ ex.pc = "sent"
    /\ GiveUp
    /\ UNCHANGED <<policyVars, preps, issuedGrants, pr, history>>

\* Mutant: the settlement ends with the candidate and leaves the review.
RetireAndStop ==
    /\ ex.pc = "observed"
    /\ grant' = [grant EXCEPT !.st = "Consumed"]
    /\ cand' = Revoked(Unleased(cand), ex.id)
    /\ ex' = NotExecuting
    /\ UNCHANGED <<policyVars, review, preps, issuedGrants, pr, history>>

RetireGrant ==
    /\ ex.pc = "observed"
    /\ grant.st = "Bound" /\ grant.id = ex.grant /\ grant.att = ex.att
    /\ grant' = [grant EXCEPT !.st = "Consumed"]
    /\ ex' = [ex EXCEPT !.pc = "retired"]
    /\ UNCHANGED <<policyVars, cand, review, preps, issuedGrants, pr, history>>

ReleaseCandidate ==
    /\ ex.pc = "retired"
    /\ cand' = Unleased(cand)
    /\ ex' = [ex EXCEPT !.pc = "released"]
    /\ UNCHANGED <<policyVars, grant, review, preps, issuedGrants, pr, history>>

RevokeCandidate ==
    /\ ex.pc = "released"
    /\ cand' = Revoked(cand, ex.id)
    /\ ex' = [ex EXCEPT !.pc = "revoked"]
    /\ UNCHANGED <<policyVars, grant, review, preps, issuedGrants, pr, history>>

ClearReview ==
    /\ ex.pc = "revoked"
    /\ ReviewIsMine("Observed")
    /\ review' = NoReview
    /\ ex' = NotExecuting
    /\ UNCHANGED <<policyVars, cand, grant, preps, issuedGrants, pr, history>>

\* abandon_main_screen_vision_delivery, under the delivery gate.
Abandon ==
    /\ ~disarming /\ ex.pc = "idle"
    /\ review.st = "Committed"
    /\ grant.st = "Bound" /\ grant.id = review.grant /\ grant.att = review.att
    /\ grant' = [grant EXCEPT !.st = "Consumed"]
    /\ cand' = Revoked(cand, review.id)
    /\ review' = NoReview
    /\ UNCHANGED <<policyVars, preps, issuedGrants, pr, ex, history>>

-----------------------------------------------------------------------------

Time == AgeCandidate \/ AgeReview \/ AgeGrant

Settings ==
    \/ Arm \/ Disarm \/ UpdateScreenPolicy \/ DisarmIfBound
    \/ UpdateOutboundPolicy \/ ActivateProfile

Prepare ==
    \/ PrepareBegin \/ PreparePolicy \/ PrepareFence \/ PrepareRevision \/ PrepareFail
    \/ PrepareInstall \/ PrepareResolve \/ InstallReady

ExecuteStep ==
    \/ ExecuteResolve \/ ExecuteLease
    \/ ReadCandidate \/ ReadPolicy \/ ReadFence \/ ReadRevision
    \/ IssueVisionGrant \/ ClaimGrant \/ ExecuteCommit
    \/ ExecuteEncode \/ GuardReview \/ GuardBound \/ Send
    \/ Answer \/ NoAnswer
    \/ RetireGrant \/ ReleaseCandidate \/ RevokeCandidate \/ ClearReview

VisionNext == Time \/ Settings \/ Prepare \/ Status \/ ExecuteBegin \/ ExecuteStep \/ Abandon

VisionSpec == VisionInit /\ [][VisionNext]_visionVars

-----------------------------------------------------------------------------

\* The slots, the authorities and the two threads stay within the values the code
\* gives them; a lease is held only on a candidate that is there.
VisionTypeOK ==
    /\ screen \in [on : BOOLEAN, rev : 2 .. MaxPolicyRev] /\ disarming \in BOOLEAN
    /\ arms \in 0 .. MaxArms /\ gate \in 0 .. arms
    /\ outbound \in [on : BOOLEAN, rev : 2 .. MaxPolicyRev] /\ dest \in Destinations
    /\ preps \in 0 .. MaxPreps /\ issuedGrants \in 0 .. preps
    /\ cand \in [id : 0 .. preps, fence : 0 .. MaxArms, rev : 0 .. MaxPolicyRev,
                 leased : BOOLEAN, old : BOOLEAN]
    /\ cand.leased => cand.id # 0
    /\ grant \in [st : {"Empty", "Ready", "Bound", "Consumed"}, id : 0 .. issuedGrants,
                  att : Attempts \cup {None}, cand : 0 .. preps,
                  dest : Destinations \cup {None}, fence : 0 .. MaxArms, rev : 0 .. MaxPolicyRev,
                  old : BOOLEAN]
    /\ review \in [st : {"Empty", "Ready", "Committed", "Observed"}, id : 0 .. preps,
                   dest : Destinations \cup {None}, att : Attempts \cup {None},
                   grant : 0 .. issuedGrants, old : BOOLEAN]
    /\ pr.n \in 0 .. preps /\ ex.id \in 0 .. preps /\ ex.grant \in 0 .. issuedGrants

\* Nothing is sent under an allowance withdrawn before the last guard began: when
\* final_pre_send_guard was entered the screen policy was enabled, the session was
\* the one the picture was captured in and the outbound policy was unchanged since.
SentUnderConsent == \A s \in sent : s.consent

\* A picture leaves under one confirmation only: every send of a candidate, retries
\* included, carries the same attempt, grant and destination.
OneConfirmationPerPicture ==
    \A s, t \in sent : s.cand = t.cand => s.att = t.att /\ s.grant = t.grant /\ s.dest = t.dest

\* While the executing thread holds its lease the picture it was confirmed for is
\* the one in the slot: no preparation replaces it and nothing revokes it.
LeaseKeepsPicture ==
    ex.pc \notin {"idle", "resolve", "lease", "released", "revoked"} =>
        cand.id = ex.id /\ cand.leased

\* Once a response's status was recorded for a picture it is never sent again,
\* whatever the settlement, the retry or a new confirmation does.
NoResendAfterObserved ==
    [][ex.pc = "send" /\ ex'.pc = "sent" => ex.id \notin observed]_visionVars

\* The two brokers agree on what awaits a decision: a committed review has its
\* grant BOUND to the same attempt, picture and destination, so that the retry and
\* the abandonment the status offers are both possible.
CommittedIsBound ==
    review.st = "Committed" =>
        /\ grant.st = "Bound" /\ grant.id = review.grant /\ grant.att = review.att
        /\ grant.cand = review.id /\ grant.dest = review.dest

\* A confirmed delivery comes to an end: a review that was committed or observed as
\* delivered is eventually cleared, by its settlement or by the user's abandonment.
DeliveryEnds == review.st \in {"Committed", "Observed"} ~> review.st = "Empty"

\* Whatever is revoked, retried or prepared anew, and when, a picture goes out under
\* the one consent that was given for it, and brokers and slot agree on it.
VisionSafe ==
    /\ VisionTypeOK /\ SentUnderConsent /\ OneConfirmationPerPicture
    /\ LeaseKeepsPicture /\ CommittedIsBound
=============================================================================
