---------------------------- MODULE EffectProofs ----------------------------
(***************************************************************************)
(* The parts of the application that have an effect outside of it, for any *)
(* number of attempts, destinations, replacements, executors, processes,   *)
(* turns and calls, and any bounds.  A picture of the screen leaves only   *)
(* under the consent, the attempt and the grant that were given for it,    *)
(* and is never sent again once it has arrived.  A file of the workspace   *)
(* is overwritten only with a journaled preimage, callers are told what is *)
(* true of the disk, and a file that was left half-written is found.  A    *)
(* process runs only as the user confirmed it, and a session that ends     *)
(* takes everything it holds with it.                                      *)
(***************************************************************************)
EXTENDS VisionDelivery, WorkspaceRecovery, VitaSession, FiniteSetTheorems, TLAPS

-----------------------------------------------------------------------------
(* The delivery of a picture *)

\* What the executing thread reads the policies, the fence and the slot for.
Stages == {"none", "issue", "claim", "guard", "reclaim"}
\* The steps after the response, in which the settlement goes from slot to slot.
Settled == {"observed", "retired", "released", "revoked"}
\* The steps of the executing thread,
ExecuteLabels == {"idle", "resolve", "lease", "candidate", "policy", "fence", "revision", "slot",
                  "commit", "encode", "guard", "send", "sent"} \cup Settled
\* and those of the preparing thread.
PrepareLabels == {"idle", "policy", "fence", "revision", "install", "resolve", "ready"}

\* What the slots and the threads hold: the candidate,
CandRow == [id : 0 .. preps, fence : 0 .. arms, rev : 0 .. MaxPolicyRev, leased : BOOLEAN,
            old : BOOLEAN]
\* the grant,
GrantRow == [st : {"Empty", "Ready", "Bound", "Consumed"}, id : 0 .. issuedGrants,
             att : Attempts \cup {None}, cand : 0 .. preps, dest : Destinations \cup {None},
             fence : 0 .. arms, rev : 0 .. MaxPolicyRev, old : BOOLEAN]
\* the review,
ReviewRow == [st : {"Empty", "Ready", "Committed", "Observed"}, id : 0 .. preps,
              dest : Destinations \cup {None}, att : Attempts \cup {None},
              grant : 0 .. issuedGrants, old : BOOLEAN]
\* the preparing thread,
PrepareRow == [pc : PrepareLabels, n : 0 .. preps, round : 0 .. 3, dest : Destinations \cup {None},
               fence : 0 .. arms, rev : 0 .. MaxPolicyRev]
\* and the executing thread.
ExecuteRow == [pc : ExecuteLabels, stage : Stages, id : 0 .. preps, att : Attempts \cup {None},
               dest : Destinations \cup {None}, grant : 0 .. issuedGrants, fresh : BOOLEAN,
               fence : 0 .. arms, rev : 0 .. MaxPolicyRev, consent : BOOLEAN]

\* The settings of the user.  A screen policy that is off is being disarmed or has closed
\* the fence.
SettingsTyped ==
  /\ screen \in [on : BOOLEAN, rev : 2 .. MaxPolicyRev] /\ disarming \in BOOLEAN
  /\ arms \in 0 .. MaxArms /\ gate \in 0 .. arms
  /\ outbound \in [on : BOOLEAN, rev : 2 .. MaxPolicyRev] /\ dest \in Destinations
  /\ preps \in 0 .. MaxPreps
  /\ disarming => ~screen.on
  /\ ~screen.on => disarming \/ gate = 0

\* Types of the slots and of the threads.
SlotsTyped ==
  /\ issuedGrants \in 0 .. preps
  /\ cand \in CandRow /\ grant \in GrantRow /\ review \in ReviewRow
  /\ pr \in PrepareRow /\ ex \in ExecuteRow

\* The fence f and the revision r were current once, and allowed sending.
Seen(f, r) ==
  /\ f \in 1 .. arms
  /\ r <= outbound.rev
  /\ r = outbound.rev => outbound.on

\* The candidate was captured under a fence and a revision that allowed it, after the one
\* of the grant; a lease is on a candidate.
CandSound ==
  /\ cand.leased => cand.id # 0
  /\ cand.id # 0 => Seen(cand.fence, cand.rev) /\ cand.id >= grant.cand

\* The grant is the last that was issued, and there were no more of them than candidates.
GrantSound ==
  /\ grant.id = issuedGrants
  /\ issuedGrants <= grant.cand
  /\ grant.st = "Empty" => issuedGrants = 0

\* A review has a candidate exactly when there is one.
ReviewSound ==
  /\ review.st = "Empty" => review.id = 0
  /\ review.st # "Empty" => review.id # 0

\* A preparation works on the newest candidate, which nobody has reviewed, executed or sent.
PrepareSound ==
  /\ pr.pc # "idle" => /\ pr.n = preps /\ preps # 0
                       /\ review.id # pr.n /\ ex.id # pr.n /\ pr.n \notin observed
                       /\ \A s \in sent : s.cand # pr.n
  /\ pr.pc = "revision" => pr.fence \in 1 .. arms
  /\ pr.round \in {2, 3} => Seen(pr.fence, pr.rev)
  /\ pr.pc \in {"install", "resolve", "ready"} => pr.round = 3

\* What the executing thread carries.
ExecuteSound ==
  /\ ex.pc # "idle" => ex.id # 0
  /\ ex.pc \notin {"idle", "resolve", "lease"} => Seen(ex.fence, ex.rev)
  /\ ex.pc \in {"idle", "resolve", "lease"} <=> ex.stage = "none"
  /\ ex.pc = "candidate" => ex.stage \in {"issue", "claim", "reclaim"}
  /\ ex.pc \in {"commit", "encode"} => ex.stage = "claim"
  /\ ex.pc = "commit" => ex.fresh
  /\ ex.pc = "guard" => ex.stage = "guard"
  /\ ex.pc \in {"send", "sent"} \cup Settled => ex.stage = "reclaim"
  /\ ex.stage = "issue" => ex.fresh

\* The executing thread works on a review that it has not committed yet.
Uncommitted ==
  /\ ex.fresh /\ ex.stage \in {"none", "issue", "claim"} /\ ex.pc \notin {"idle", "encode"}

\* Before the commit the review still waits and names the destination that was confirmed,
\* its picture was not sent, and the grant that is claimed is the one of this attempt.
UncommittedSound ==
  Uncommitted =>
    /\ review.st \in {"Empty", "Ready"}
    /\ review.st = "Ready" /\ review.id = ex.id => review.dest = ex.dest
    /\ \A s \in sent : s.cand # ex.id
    /\ ex.stage = "claim" => /\ grant.id = ex.grant /\ grant.att = ex.att
                             /\ grant.cand = ex.id /\ grant.dest = ex.dest
    /\ ex.pc = "commit" => grant.st = "Bound"

\* After it the thread works on its own review, to the destination of the review.
CommittedSound ==
  ex.pc # "idle" /\ ~Uncommitted =>
    /\ ReviewIsMine(IF ex.pc \in Settled THEN "Observed" ELSE "Committed")
    /\ review.dest = ex.dest

\* Where the last guard began without consent it will not end well.
GuardSound ==
  /\ ex.stage = "guard" /\ ~ex.consent =>
       /\ ex.pc = "policy" => disarming \/ gate # ex.fence \/ outbound.rev # ex.rev
       /\ ex.pc = "fence" => gate # ex.fence \/ outbound.rev # ex.rev
       /\ ex.pc = "revision" => outbound.rev # ex.rev
       /\ ex.pc # "slot"
  /\ ex.stage = "reclaim" => ex.consent

\* What was sent under the review of the slot has the attempt, grant and destination of it.
SentSound ==
  \A s \in sent :
    /\ s.cand \in 1 .. preps
    /\ review.id = s.cand => /\ review.st \in {"Committed", "Observed"}
                             /\ s.att = review.att /\ s.grant = review.grant /\ s.dest = review.dest

\* A picture whose response is recorded is not in a review that could be sent.
ObservedSound ==
  \A n \in observed : n \in 1 .. preps /\ (review.id = n => review.st = "Observed")

\* The inductive invariant.
VisionInv ==
  /\ SettingsTyped /\ SlotsTyped /\ CandSound /\ GrantSound /\ ReviewSound /\ PrepareSound
  /\ ExecuteSound /\ UncommittedSound /\ CommittedSound /\ GuardSound /\ SentSound
  /\ ObservedSound
  /\ SentUnderConsent /\ OneConfirmationPerPicture /\ LeaseKeepsPicture /\ CommittedIsBound

\* It holds initially.
LEMMA InitVision == VisionInit => VisionInv
<1> SUFFICES ASSUME VisionInit PROVE VisionInv
  OBVIOUS
<1>1. SettingsTyped
  <2>1. MaxPolicyRev \in Nat /\ 2 <= MaxPolicyRev /\ MaxArms \in Nat /\ MaxPreps \in Nat
    BY BoundsAreNat
  <2>2. screen \in [on : BOOLEAN, rev : 2 .. MaxPolicyRev] /\ screen.on = TRUE
    BY <2>1 DEF VisionInit
  <2>3. outbound \in [on : BOOLEAN, rev : 2 .. MaxPolicyRev]
    BY <2>1 DEF VisionInit
  <2>4. disarming \in BOOLEAN /\ (disarming => ~screen.on) /\ gate = 0 /\ arms = 0 /\ preps = 0
        /\ dest \in Destinations
    <3>1. disarming = FALSE
      BY DEF VisionInit
    <3>2. disarming \in BOOLEAN /\ ~disarming
      BY <3>1, Zenon
    <3> QED
      BY <3>2 DEF VisionInit
  <2> QED
    BY <2>1, <2>2, <2>3, <2>4 DEF SettingsTyped
<1>2. /\ cand.id = 0 /\ cand.leased = FALSE /\ cand \in CandRow
  BY BoundsAreNat DEF VisionInit, NoCand, CandRow
<1>3. /\ grant.st = "Empty" /\ grant.id = 0 /\ grant.cand = 0 /\ grant \in GrantRow
  BY BoundsAreNat DEF VisionInit, NoGrant, GrantRow
<1>4. /\ review.st = "Empty" /\ review.id = 0 /\ review \in ReviewRow
  BY BoundsAreNat DEF VisionInit, NoReview, ReviewRow
<1>5. /\ pr.pc = "idle" /\ pr.round = 0 /\ pr \in PrepareRow
  BY BoundsAreNat DEF VisionInit, NotPreparing, PrepareRow, PrepareLabels
<1>6. /\ ex.pc = "idle" /\ ex.stage = "none" /\ ex \in ExecuteRow
  BY BoundsAreNat DEF VisionInit, NotExecuting, ExecuteRow, ExecuteLabels, Stages
<1>7. issuedGrants = 0 /\ preps = 0 /\ sent = {} /\ observed = {} /\ arms = 0
  BY DEF VisionInit
<1>8. SlotsTyped /\ CandSound /\ GrantSound /\ ReviewSound /\ PrepareSound /\ ExecuteSound
  BY <1>2, <1>3, <1>4, <1>5, <1>6, <1>7
     DEF SlotsTyped, CandSound, GrantSound, ReviewSound, PrepareSound, ExecuteSound, Settled
<1>9. UncommittedSound /\ CommittedSound /\ GuardSound /\ SentSound /\ ObservedSound
  BY <1>6, <1>7
     DEF UncommittedSound, Uncommitted, CommittedSound, GuardSound, SentSound, ObservedSound
<1>10. SentUnderConsent /\ OneConfirmationPerPicture /\ LeaseKeepsPicture /\ CommittedIsBound
  BY <1>4, <1>6, <1>7
     DEF SentUnderConsent, OneConfirmationPerPicture, LeaseKeepsPicture, CommittedIsBound
<1> QED
  BY <1>1, <1>8, <1>9, <1>10 DEF VisionInv

\* The numbers of the settings are naturals.
LEMMA VisionNumbers ==
  ASSUME SettingsTyped
  PROVE  /\ arms \in Nat /\ gate \in Nat /\ preps \in Nat /\ MaxArms \in Nat /\ MaxPreps \in Nat
         /\ outbound.rev \in Nat /\ screen.rev \in Nat /\ MaxPolicyRev \in Nat
         /\ outbound.on \in BOOLEAN /\ screen.on \in BOOLEAN
BY BoundsAreNat DEF SettingsTyped

\* The settings of the user change.
LEMMA SettingsMove ==
  ASSUME VisionInv, SettingsTyped', UNCHANGED <<slots, preps, issuedGrants, pr, ex, history>>,
         arms' >= arms, outbound'.rev >= outbound.rev,
         outbound'.rev = outbound.rev => outbound'.on = outbound.on,
         gate' = gate \/ gate' \notin 1 .. arms,
         disarming => disarming' \/ gate' = 0
  PROVE  VisionInv'
<1>1. UNCHANGED <<cand, grant, review, preps, issuedGrants, pr, ex, sent, observed>>
  BY DEF slots, history
<1>2. /\ arms \in Nat /\ arms' \in Nat /\ outbound.rev \in Nat /\ outbound'.rev \in Nat
      /\ 0 .. arms \subseteq 0 .. arms' /\ 1 .. arms \subseteq 1 .. arms'
  BY BoundsAreNat DEF VisionInv, SettingsTyped
<1>3. SlotsTyped'
  BY <1>1, <1>2 DEF VisionInv, SlotsTyped, CandRow, GrantRow, ReviewRow, PrepareRow, ExecuteRow
<1>4. ASSUME NEW f, NEW r \in Nat, Seen(f, r)
      PROVE  /\ f \in 1 .. arms' /\ r <= outbound'.rev /\ (r = outbound'.rev => outbound'.on)
             /\ Seen(f, r)'
             /\ (gate # f => gate' # f) /\ (outbound.rev # r => outbound'.rev # r)
             /\ f # 0
  BY <1>2, <1>4 DEF Seen
<1>5. cand.rev \in Nat /\ pr.rev \in Nat /\ ex.rev \in Nat
  BY BoundsAreNat DEF VisionInv, SlotsTyped, CandRow, PrepareRow, ExecuteRow
<1>6. CandSound'
  <2>1. cand.id # 0 => /\ cand.fence \in 1 .. arms' /\ cand.rev <= outbound'.rev
                       /\ cand.rev = outbound'.rev => outbound'.on
    BY <1>4, <1>5 DEF VisionInv, CandSound
  <2> QED
    BY <1>1, <2>1 DEF VisionInv, CandSound, Seen
<1>7. PrepareSound'
  <2>1. pr.round \in {2, 3} => Seen(pr.fence, pr.rev)'
    BY <1>4, <1>5 DEF VisionInv, PrepareSound
  <2> QED
    BY <1>1, <1>2, <2>1 DEF VisionInv, PrepareSound, Seen
<1>8. ExecuteSound'
  <2>1. ex.pc \notin {"idle", "resolve", "lease"} => Seen(ex.fence, ex.rev)'
    BY <1>4, <1>5 DEF VisionInv, ExecuteSound
  <2> QED
    BY <1>1, <2>1 DEF VisionInv, ExecuteSound, Seen
<1>9. GuardSound'
  <2>1. ex.stage = "guard" => ex.pc \notin {"idle", "resolve", "lease"}
    BY DEF VisionInv, ExecuteSound
  <2>2. ex.stage = "guard" => Seen(ex.fence, ex.rev)
    BY <2>1 DEF VisionInv, ExecuteSound
  <2>3. ex.stage = "guard" => /\ gate # ex.fence => gate' # ex.fence
                              /\ outbound.rev # ex.rev => outbound'.rev # ex.rev
                              /\ ex.fence # 0
    BY <1>4, <1>5, <2>2
  <2> QED
    BY <1>1, <2>3 DEF VisionInv, GuardSound
<1>10. /\ GrantSound' /\ ReviewSound' /\ UncommittedSound' /\ CommittedSound' /\ SentSound'
       /\ ObservedSound' /\ SentUnderConsent' /\ OneConfirmationPerPicture' /\ LeaseKeepsPicture'
       /\ CommittedIsBound'
  BY <1>1 DEF VisionInv, GrantSound, ReviewSound, UncommittedSound, Uncommitted, CommittedSound,
     ReviewIsMine, SentSound, ObservedSound, SentUnderConsent, OneConfirmationPerPicture,
     LeaseKeepsPicture, CommittedIsBound
<1> QED
  BY <1>3, <1>6, <1>7, <1>8, <1>9, <1>10 DEF VisionInv

\* So the invariant survives them.
LEMMA SettingsKeep == ASSUME VisionInv, Settings PROVE VisionInv'
<1>0. /\ arms \in Nat /\ outbound.rev \in Nat /\ gate \in 0 .. arms
      /\ MaxArms \in Nat /\ MaxPolicyRev \in Nat /\ screen.rev \in Nat
  BY VisionNumbers DEF VisionInv, SettingsTyped
<1>1. CASE Arm
  <2>1. SettingsTyped'
    BY <1>0, <1>1 DEF Arm, VisionInv, SettingsTyped
  <2> QED
    BY <1>0, <1>1, <2>1, SettingsMove DEF Arm
<1>2. CASE Disarm
  <2>1. SettingsTyped'
    BY <1>0, <1>2 DEF Disarm, VisionInv, SettingsTyped
  <2> QED
    BY <1>0, <1>2, <2>1, SettingsMove DEF Disarm
<1>3. CASE UpdateScreenPolicy
  <2>1. SettingsTyped'
    BY <1>0, <1>3 DEF UpdateScreenPolicy, VisionInv, SettingsTyped
  <2> QED
    BY <1>0, <1>3, <2>1, SettingsMove DEF UpdateScreenPolicy
<1>4. CASE DisarmIfBound
  <2>2. gate' = 0 /\ disarming' = FALSE /\ UNCHANGED <<screen, arms, outbound, dest, preps>>
    BY <1>4 DEF DisarmIfBound
  <2>3. disarming' \in BOOLEAN /\ ~disarming'
    BY <2>2, Zenon
  <2>1. SettingsTyped'
    BY <1>0, <2>2, <2>3 DEF VisionInv, SettingsTyped
  <2> QED
    BY <1>0, <1>4, <2>1, SettingsMove DEF DisarmIfBound
<1>5. CASE UpdateOutboundPolicy
  <2>1. SettingsTyped'
    BY <1>0, <1>5 DEF UpdateOutboundPolicy, VisionInv, SettingsTyped
  <2>2. outbound'.rev = outbound.rev + 1
    BY <1>5 DEF UpdateOutboundPolicy
  <2> QED
    BY <1>0, <1>5, <2>1, <2>2, SettingsMove DEF UpdateOutboundPolicy
<1>6. CASE ActivateProfile
  <2>1. SettingsTyped'
    BY <1>0, <1>6 DEF ActivateProfile, VisionInv, SettingsTyped
  <2> QED
    BY <1>0, <1>6, <2>1, SettingsMove DEF ActivateProfile
<1> QED
  BY <1>1, <1>2, <1>3, <1>4, <1>5, <1>6 DEF Settings

\* The row of a preparing thread that does nothing.
LEMMA IdlePreparation ==
  /\ NotPreparing.pc = "idle" /\ NotPreparing.round = 0 /\ NotPreparing.n = 0
  /\ NotPreparing.fence = 0 /\ NotPreparing.rev = 0 /\ NotPreparing.dest = None
BY DEF NotPreparing

\* It is well typed.
LEMMA IdlePreparationTyped ==
  ASSUME SettingsTyped PROVE NotPreparing \in PrepareRow
<1>1. MaxPolicyRev \in Nat /\ arms \in Nat /\ preps \in Nat
  BY VisionNumbers
<1> QED
  BY <1>1 DEF NotPreparing, PrepareRow, PrepareLabels

\* The preparing thread moves, and may change the candidate.
LEMMA PrepareMoves ==
  ASSUME VisionInv, UNCHANGED <<policyVars, grant, review, preps, issuedGrants, ex, history>>,
         pr' \in PrepareRow, cand' \in CandRow, PrepareSound', CandSound', LeaseKeepsPicture'
  PROVE  VisionInv'
<1>1. UNCHANGED <<screen, disarming, gate, arms, outbound, dest, grant, review, preps,
                  issuedGrants, ex, sent, observed>>
  BY DEF policyVars, history
<1>2. SettingsTyped' /\ SlotsTyped'
  BY <1>1
     DEF VisionInv, SettingsTyped, SlotsTyped, CandRow, GrantRow, ReviewRow, PrepareRow, ExecuteRow
<1>3. /\ GrantSound' /\ ReviewSound' /\ ExecuteSound' /\ UncommittedSound' /\ CommittedSound'
      /\ GuardSound'
  BY <1>1 DEF VisionInv, GrantSound, ReviewSound, ExecuteSound, Seen, UncommittedSound, Uncommitted,
     CommittedSound, ReviewIsMine, GuardSound
<1>4. /\ SentSound' /\ ObservedSound' /\ SentUnderConsent' /\ OneConfirmationPerPicture'
      /\ CommittedIsBound'
  BY <1>1 DEF VisionInv, SentSound, ObservedSound, SentUnderConsent, OneConfirmationPerPicture,
     CommittedIsBound
<1> QED
  BY <1>2, <1>3, <1>4 DEF VisionInv

\* A preparation that stops is sound.
LEMMA PrepareStops ==
  ASSUME VisionInv, pr' = NotPreparing PROVE pr' \in PrepareRow /\ PrepareSound'
BY IdlePreparation, IdlePreparationTyped DEF VisionInv, PrepareSound, PrepareRow

\* What the preparing thread may take from the slot: a picture that is not leased.
LEMMA CandidateGoes ==
  ASSUME VisionInv, UNCHANGED <<arms, preps, outbound, grant, ex>>,
         cand' \in {cand, NoCand}, cand' = NoCand => ~cand.leased
  PROVE  cand' \in CandRow /\ CandSound' /\ LeaseKeepsPicture'
<1>1. CASE cand' = cand
  BY <1>1 DEF VisionInv, SlotsTyped, CandRow, CandSound, Seen, LeaseKeepsPicture
<1>2. CASE cand' = NoCand /\ ~cand.leased
  <2>1. cand'.id = 0 /\ cand'.leased = FALSE /\ cand' \in CandRow
    BY <1>2, VisionNumbers DEF NoCand, CandRow, VisionInv
  <2>2. CandSound'
    BY <2>1 DEF CandSound
  <2>3. LeaseKeepsPicture'
    BY <1>2 DEF VisionInv, LeaseKeepsPicture
  <2> QED
    BY <2>1, <2>2, <2>3
<1> QED
  BY <1>1, <1>2

\* A candidate that is left alone.
LEMMA CandidateStays ==
  ASSUME VisionInv, UNCHANGED <<arms, preps, outbound, cand, grant, ex>>
  PROVE  cand' \in CandRow /\ CandSound' /\ LeaseKeepsPicture'
BY DEF VisionInv, SlotsTyped, CandRow, CandSound, Seen, LeaseKeepsPicture

\* AgeCandidate preserves the invariant.
LEMMA AgeCandidateKeeps == ASSUME VisionInv, AgeCandidate PROVE VisionInv'
<1>1. PICK c : c = [cand EXCEPT !.old = TRUE]
  OBVIOUS
<1>2. /\ cand' = c /\ pr' = pr
      /\ UNCHANGED <<policyVars, grant, review, preps, issuedGrants, ex, history>>
  BY <1>1 DEF AgeCandidate
<1>3. cand \in CandRow
  BY DEF VisionInv, SlotsTyped
<1>4. /\ c \in CandRow /\ c.id = cand.id /\ c.fence = cand.fence /\ c.rev = cand.rev
      /\ c.leased = cand.leased
  BY <1>1, <1>3 DEF CandRow
<1>5. cand' \in CandRow /\ pr' \in PrepareRow
  BY <1>2, <1>4 DEF VisionInv, SlotsTyped
<1>6. CandSound' /\ PrepareSound' /\ LeaseKeepsPicture'
  BY <1>2, <1>4 DEF VisionInv, CandSound, Seen, PrepareSound, LeaseKeepsPicture, policyVars, history
<1> QED
  BY <1>2, <1>5, <1>6, PrepareMoves

\* PrepareBegin preserves the invariant.
LEMMA PrepareBeginKeeps == ASSUME VisionInv, PrepareBegin PROVE VisionInv'
<1>1. PICK n : n = preps + 1
  OBVIOUS
<1>11. PICK o : o = NotPreparing
  OBVIOUS
<1>12. o = [pc |-> "idle", n |-> 0, round |-> 0, dest |-> None, fence |-> 0, rev |-> 0]
  BY <1>11 DEF NotPreparing
<1>2. PICK p : p = [o EXCEPT !.pc = "policy", !.n = n, !.round = 1, !.dest = dest]
  OBVIOUS
<1>3. /\ pr' = p /\ preps' = n /\ preps < MaxPreps
      /\ UNCHANGED <<screen, disarming, gate, arms, outbound, dest, cand, grant, review,
                     issuedGrants, ex, sent, observed>>
  BY <1>1, <1>2, <1>11 DEF PrepareBegin, policyVars, slots, history
<1>4. /\ preps \in Nat /\ arms \in Nat /\ MaxPreps \in Nat /\ MaxPolicyRev \in Nat /\ n \in Nat
      /\ 0 .. preps \subseteq 0 .. n /\ dest \in Destinations /\ n # 0 /\ n \notin 0 .. preps
      /\ n \in 0 .. MaxPreps /\ 1 .. preps \subseteq 0 .. preps /\ 1 .. preps \subseteq 1 .. n
      /\ 0 .. preps \subseteq Nat
  BY <1>1, <1>3, VisionNumbers DEF VisionInv, SettingsTyped
<1>13. p = [pc |-> "policy", n |-> n, round |-> 1, dest |-> dest, fence |-> 0, rev |-> 0]
  BY <1>2, <1>12
<1>14. n \in 0 .. n /\ 1 \in 0 .. 3 /\ 0 \in 0 .. arms /\ 0 \in 0 .. MaxPolicyRev
  BY <1>4
<1>5. /\ p.pc = "policy" /\ p.n = n /\ p.round = 1 /\ p.dest = dest /\ p.fence = 0 /\ p.rev = 0
      /\ p \in [pc : PrepareLabels, n : 0 .. n, round : 0 .. 3, dest : Destinations \cup {None},
               fence : 0 .. arms, rev : 0 .. MaxPolicyRev]
  <2>1. dest \in Destinations
    BY <1>4
  <2> QED
    BY <1>13, <1>14, <2>1 DEF PrepareLabels
<1>6. SettingsTyped'
  BY <1>3, <1>4 DEF VisionInv, SettingsTyped
<1>7. SlotsTyped'
  <2>1. pr' \in PrepareRow'
    BY <1>3, <1>5 DEF PrepareRow
  <2>2. cand' \in CandRow' /\ grant' \in GrantRow' /\ issuedGrants' \in 0 .. n
    BY <1>3, <1>4 DEF VisionInv, SlotsTyped, CandRow, GrantRow
  <2>3. review' \in ReviewRow' /\ ex' \in ExecuteRow'
    BY <1>3, <1>4 DEF VisionInv, SlotsTyped, ReviewRow, ExecuteRow
  <2> QED
    BY <1>3, <2>1, <2>2, <2>3 DEF SlotsTyped
<1>8. PrepareSound'
  <2>1. review.id \in 0 .. preps /\ ex.id \in 0 .. preps
    BY DEF VisionInv, SlotsTyped, ReviewRow, ExecuteRow
  <2>2. (\A s \in sent : s.cand \in 0 .. preps) /\ \A b \in observed : b \in 0 .. preps
    BY <1>4 DEF VisionInv, SentSound, ObservedSound
  <2> QED
    BY <1>3, <1>4, <1>5, <2>1, <2>2 DEF PrepareSound
<1>9. /\ CandSound' /\ GrantSound' /\ ReviewSound' /\ ExecuteSound' /\ UncommittedSound'
      /\ CommittedSound' /\ GuardSound'
  BY <1>3 DEF VisionInv, CandSound, GrantSound, ReviewSound, ExecuteSound, Seen, UncommittedSound,
     Uncommitted, CommittedSound, ReviewIsMine, GuardSound
<1>10. /\ SentSound' /\ ObservedSound' /\ SentUnderConsent' /\ OneConfirmationPerPicture'
       /\ CommittedIsBound' /\ LeaseKeepsPicture'
  BY <1>3, <1>4
     DEF VisionInv, SentSound, ObservedSound, SentUnderConsent, OneConfirmationPerPicture,
     CommittedIsBound, LeaseKeepsPicture
<1> QED
  BY <1>6, <1>7, <1>8, <1>9, <1>10 DEF VisionInv

\* The preparing thread goes on with what it has read, for the same picture.
LEMMA PrepareGoesOn ==
  ASSUME VisionInv, UNCHANGED <<policyVars, slots, preps, issuedGrants, ex, history>>,
         NEW p \in PrepareRow, pr' = p, pr.pc # "idle", p.n = pr.n,
         p.pc = "revision" => p.fence \in 1 .. arms,
         p.round \in {2, 3} => Seen(p.fence, p.rev),
         p.pc \in {"install", "resolve", "ready"} => p.round = 3
  PROVE  VisionInv'
<1>1. UNCHANGED <<arms, outbound, cand, grant, review, preps, ex, sent, observed>>
  BY DEF policyVars, slots, history
<1>2. PrepareSound'
  BY <1>1 DEF VisionInv, PrepareSound, Seen
<1>3. cand' \in CandRow /\ CandSound' /\ LeaseKeepsPicture'
  BY <1>1, CandidateStays
<1> QED
  BY <1>1, <1>2, <1>3, PrepareMoves DEF slots

\* A preparation ends and gives up its candidate.
LEMMA PrepareEnds ==
  ASSUME VisionInv, UNCHANGED <<policyVars, slots, preps, issuedGrants, ex, history>>,
         pr' = NotPreparing
  PROVE  VisionInv'
<1>1. UNCHANGED <<arms, outbound, cand, grant, review, preps, ex, sent, observed>>
  BY DEF policyVars, slots, history
<1>2. pr' \in PrepareRow /\ PrepareSound'
  BY PrepareStops
<1>3. cand' \in CandRow /\ CandSound' /\ LeaseKeepsPicture'
  BY <1>1, CandidateStays
<1> QED
  BY <1>1, <1>2, <1>3, PrepareMoves DEF slots

\* What the invariant says of a preparation.
LEMMA PrepareOf ==
  ASSUME VisionInv
  PROVE  /\ pr \in PrepareRow /\ PrepareSound /\ CandSound /\ GrantSound /\ cand \in CandRow
         /\ gate \in 0 .. arms /\ arms \in Nat /\ outbound.rev \in 2 .. MaxPolicyRev
         /\ MaxPolicyRev \in Nat
BY VisionNumbers DEF VisionInv, SlotsTyped, SettingsTyped

\* PreparePolicy preserves the invariant.
LEMMA PreparePolicyKeeps == ASSUME VisionInv, PreparePolicy PROVE VisionInv'
<1>1. CASE screen.on
  <2>1. PICK q : q = pr
    OBVIOUS
  <2>2. q \in PrepareRow /\ q.pc = "policy"
    BY <2>1, PrepareOf DEF PreparePolicy
  <2>3. PICK p : p = [q EXCEPT !.pc = "fence"]
    OBVIOUS
  <2>4. /\ p \in PrepareRow /\ p.pc = "fence" /\ p.n = q.n /\ p.round = q.round /\ p.fence = q.fence
        /\ p.rev = q.rev
    BY <2>2, <2>3 DEF PrepareRow, PrepareLabels
  <2>5. pr' = p
    BY <1>1, <2>1, <2>3 DEF PreparePolicy
  <2>6. p.round \in {2, 3} => Seen(p.fence, p.rev)
    BY <2>1, <2>4, PrepareOf DEF PrepareSound
  <2> QED
    BY <2>1, <2>2, <2>4, <2>5, <2>6, PrepareGoesOn DEF PreparePolicy
<1>2. CASE ~screen.on
  BY <1>2, PrepareEnds DEF PreparePolicy
<1> QED
  BY <1>1, <1>2

\* PrepareFence preserves the invariant.
LEMMA PrepareFenceKeeps == ASSUME VisionInv, PrepareFence PROVE VisionInv'
<1>1. CASE gate # 0 /\ (pr.round = 1 \/ gate = pr.fence)
  <2>1. PICK q : q = pr
    OBVIOUS
  <2>2. q \in PrepareRow /\ q.pc = "fence"
    BY <2>1, PrepareOf DEF PrepareFence
  <2>3. PICK f : f = gate
    OBVIOUS
  <2>4. f \in 0 .. arms /\ f \in 1 .. arms
    BY <1>1, <2>3, PrepareOf
  <2>5. PICK p : p = [q EXCEPT !.pc = "revision", !.fence = f]
    OBVIOUS
  <2>6. /\ p \in PrepareRow /\ p.pc = "revision" /\ p.n = q.n /\ p.round = q.round /\ p.fence = f
        /\ p.rev = q.rev
    BY <2>2, <2>4, <2>5 DEF PrepareRow, PrepareLabels
  <2>7. pr' = p
    BY <1>1, <2>1, <2>3, <2>5 DEF PrepareFence
  <2>8. p.round \in {2, 3} => Seen(p.fence, p.rev)
    BY <1>1, <2>1, <2>3, <2>6, PrepareOf DEF PrepareSound
  <2> QED
    BY <2>1, <2>2, <2>4, <2>6, <2>7, <2>8, PrepareGoesOn DEF PrepareFence
<1>2. CASE ~(gate # 0 /\ (pr.round = 1 \/ gate = pr.fence))
  BY <1>2, PrepareEnds DEF PrepareFence
<1> QED
  BY <1>1, <1>2

\* PrepareRevision preserves the invariant.
LEMMA PrepareRevisionKeeps == ASSUME VisionInv, PrepareRevision PROVE VisionInv'
<1>1. CASE outbound.on /\ (pr.round = 1 \/ outbound.rev = pr.rev)
  <2>1. PICK q : q = pr
    OBVIOUS
  <2>2. q \in PrepareRow /\ q.pc = "revision" /\ q.fence \in 1 .. arms /\ q.round \in 0 .. 3
    BY <2>1, PrepareOf DEF PrepareRevision, PrepareSound, PrepareRow
  <2>3. PICK r : r = outbound.rev
    OBVIOUS
  <2>4. r \in 0 .. MaxPolicyRev /\ r <= outbound.rev /\ outbound.on
    BY <1>1, <2>3, PrepareOf
  <2>5. PICK l \in {"install", "policy"} : l = IF q.round = 3 THEN "install" ELSE "policy"
    OBVIOUS
  <2>6. PICK k \in 0 .. 3 : k = IF q.round = 3 THEN 3 ELSE q.round + 1
    BY <2>2
  <2>7. PICK p : p = [q EXCEPT !.pc = l, !.rev = r, !.round = k]
    OBVIOUS
  <2>8. /\ p \in PrepareRow /\ p.pc = l /\ p.n = q.n /\ p.round = k /\ p.fence = q.fence
             /\ p.rev = r
    BY <2>2, <2>4, <2>7 DEF PrepareRow, PrepareLabels
  <2>9. pr' = p
    BY <1>1, <2>1, <2>3, <2>5, <2>6, <2>7 DEF PrepareRevision
  <2>10. Seen(p.fence, p.rev)
    BY <2>2, <2>4, <2>8 DEF Seen
  <2>11. p.pc = "install" => p.round = 3
    BY <2>5, <2>6, <2>8
  <2> QED
    BY <2>1, <2>2, <2>5, <2>8, <2>9, <2>10, <2>11, PrepareGoesOn DEF PrepareRevision
<1>2. CASE ~(outbound.on /\ (pr.round = 1 \/ outbound.rev = pr.rev))
  BY <1>2, PrepareEnds DEF PrepareRevision
<1> QED
  BY <1>1, <1>2

\* PrepareInstall preserves the invariant.
LEMMA PrepareInstallKeeps == ASSUME VisionInv, PrepareInstall PROVE VisionInv'
<1>1. CASE ReplaceCandidate(pr.n, pr.fence, pr.rev) /\ pr' = [pr EXCEPT !.pc = "resolve"]
  <2>1. PICK q : q = pr
    OBVIOUS
  <2>2. /\ q \in PrepareRow /\ q.pc = "install" /\ q.round = 3 /\ Seen(q.fence, q.rev)
        /\ q.n = preps /\ preps # 0
    BY <2>1, PrepareOf DEF PrepareInstall, PrepareSound
  <2>3. PICK p : p = [q EXCEPT !.pc = "resolve"]
    OBVIOUS
  <2>4. /\ p \in PrepareRow /\ p.pc = "resolve" /\ p.n = q.n /\ p.round = q.round
             /\ p.fence = q.fence
        /\ p.rev = q.rev
    BY <2>2, <2>3 DEF PrepareRow, PrepareLabels
  <2>5. pr' = p /\ ~cand.leased
    BY <1>1, <2>1, <2>3 DEF ReplaceCandidate
  <2>6. PICK c : c = [id |-> q.n, fence |-> q.fence, rev |-> q.rev, leased |-> FALSE, old |-> FALSE]
    OBVIOUS
  <2>7. cand' = c
    BY <1>1, <2>1, <2>6 DEF ReplaceCandidate
  <2>8. q.n \in 0 .. preps /\ q.fence \in 0 .. arms /\ q.rev \in 0 .. MaxPolicyRev
    BY <2>2 DEF PrepareRow
  <2>9. c \in CandRow /\ c.id = q.n /\ c.fence = q.fence /\ c.rev = q.rev /\ c.leased = FALSE
    BY <2>6, <2>8 DEF CandRow
  <2>10. UNCHANGED <<arms, outbound, grant, review, preps, ex, sent, observed>>
    BY DEF PrepareInstall, policyVars, history
  <2>11. PrepareSound'
    BY <2>1, <2>2, <2>4, <2>5, <2>10, PrepareOf DEF PrepareSound, Seen
  <2>12. preps >= grant.cand
    BY VisionNumbers DEF VisionInv, SlotsTyped, GrantRow
  <2>13. CandSound'
    BY <2>2, <2>7, <2>9, <2>10, <2>12 DEF CandSound, Seen
  <2>14. LeaseKeepsPicture'
    BY <2>5, <2>10 DEF VisionInv, LeaseKeepsPicture
  <2>15. cand' \in CandRow /\ pr' \in PrepareRow
    BY <2>4, <2>5, <2>7, <2>9
  <2> QED
    BY <2>11, <2>13, <2>14, <2>15, PrepareMoves DEF PrepareInstall
<1>2. CASE cand.leased /\ pr' = NotPreparing /\ UNCHANGED cand
  BY <1>2, PrepareEnds DEF PrepareInstall, slots
<1> QED
  BY <1>1, <1>2 DEF PrepareInstall

\* PrepareResolve preserves the invariant.
LEMMA PrepareResolveKeeps == ASSUME VisionInv, PrepareResolve PROVE VisionInv'
<1>1. CASE pr' = [pr EXCEPT !.pc = "ready"] /\ UNCHANGED cand
  <2>1. PICK q : q = pr
    OBVIOUS
  <2>2. q \in PrepareRow /\ q.pc = "resolve" /\ q.round = 3
    BY <2>1, PrepareOf DEF PrepareResolve, PrepareSound
  <2>3. PICK p : p = [q EXCEPT !.pc = "ready"]
    OBVIOUS
  <2>4. /\ p \in PrepareRow /\ p.pc = "ready" /\ p.n = q.n /\ p.round = q.round /\ p.fence = q.fence
        /\ p.rev = q.rev
    BY <2>2, <2>3 DEF PrepareRow, PrepareLabels
  <2>5. pr' = p
    BY <1>1, <2>1, <2>3
  <2>6. p.round \in {2, 3} => Seen(p.fence, p.rev)
    BY <2>1, <2>4, PrepareOf DEF PrepareSound
  <2> QED
    BY <1>1, <2>1, <2>2, <2>4, <2>5, <2>6, PrepareGoesOn DEF PrepareResolve, slots
<1>2. CASE cand' = Revoked(cand, pr.n) /\ pr' = NotPreparing
  <2>1. UNCHANGED <<arms, preps, outbound, grant, ex>>
    BY DEF PrepareResolve, policyVars
  <2>2. cand' \in CandRow /\ CandSound' /\ LeaseKeepsPicture'
    <3>1. CASE cand' = cand
      BY <2>1, <3>1, CandidateStays
    <3>2. CASE cand' # cand
      <4>1. cand' = NoCand /\ ~cand.leased
        BY <1>2, <3>2 DEF Revoked
      <4> QED
        BY <2>1, <4>1, CandidateGoes
    <3> QED
      BY <3>1, <3>2
  <2>3. pr' \in PrepareRow /\ PrepareSound'
    BY <1>2, PrepareStops
  <2> QED
    BY <2>2, <2>3, PrepareMoves DEF PrepareResolve
<1> QED
  BY <1>1, <1>2 DEF PrepareResolve

\* The empty review slot.
LEMMA EmptyReview ==
  /\ NoReview.st = "Empty" /\ NoReview.id = 0 /\ NoReview.dest = None /\ NoReview.att = None
  /\ NoReview.grant = 0 /\ NoReview.old = FALSE
BY DEF NoReview

\* It is well typed.
LEMMA EmptyReviewTyped == ASSUME VisionInv PROVE NoReview \in ReviewRow
<1>1. preps \in Nat /\ issuedGrants \in Nat
  BY VisionNumbers DEF VisionInv, SlotsTyped
<1> QED
  BY <1>1 DEF NoReview, ReviewRow

\* The review slot changes, and the preparing thread with it at most.
LEMMA ReviewMoves ==
  ASSUME VisionInv, UNCHANGED <<policyVars, cand, grant, preps, issuedGrants, ex, history>>,
         pr' \in PrepareRow, review' \in ReviewRow, ReviewSound', PrepareSound', UncommittedSound',
         CommittedSound', SentSound', ObservedSound', CommittedIsBound'
  PROVE  VisionInv'
<1>1. UNCHANGED <<screen, disarming, gate, arms, outbound, dest, cand, grant, preps,
                  issuedGrants, ex, sent, observed>>
  BY DEF policyVars, history
<1>2. SettingsTyped' /\ SlotsTyped'
  BY <1>1
     DEF VisionInv, SettingsTyped, SlotsTyped, CandRow, GrantRow, ReviewRow, PrepareRow, ExecuteRow
<1>3. /\ CandSound' /\ GrantSound' /\ ExecuteSound' /\ GuardSound'
  BY <1>1 DEF VisionInv, CandSound, GrantSound, ExecuteSound, Seen, GuardSound
<1>4. SentUnderConsent' /\ OneConfirmationPerPicture' /\ LeaseKeepsPicture'
  BY <1>1 DEF VisionInv, SentUnderConsent, OneConfirmationPerPicture, LeaseKeepsPicture
<1> QED
  BY <1>2, <1>3, <1>4 DEF VisionInv

\* What the invariant says of the review.
LEMMA ReviewOf ==
  ASSUME VisionInv
  PROVE  /\ review \in ReviewRow /\ pr \in PrepareRow /\ ReviewSound /\ PrepareSound /\ SentSound
         /\ ObservedSound /\ UncommittedSound /\ CommittedSound /\ preps \in Nat
BY VisionNumbers DEF VisionInv, SlotsTyped

\* A review that nobody executes yet is dropped.
LEMMA ReviewDropped ==
  ASSUME VisionInv, UNCHANGED <<policyVars, cand, grant, preps, issuedGrants, pr, ex, history>>,
         review.st = "Ready", review' = NoReview
  PROVE  VisionInv'
<1>1. UNCHANGED <<arms, outbound, preps, pr, ex, grant, sent, observed>>
  BY DEF policyVars, history
<1>2. /\ review'.st = "Empty" /\ review'.id = 0 /\ review' \in ReviewRow /\ pr' \in PrepareRow
  BY <1>1, EmptyReview, EmptyReviewTyped, ReviewOf
<1>3. ReviewSound' /\ CommittedIsBound'
  BY <1>2 DEF ReviewSound, CommittedIsBound
<1>4. PrepareSound'
  BY <1>1, <1>2, ReviewOf DEF PrepareSound, Seen
<1>5. UncommittedSound' /\ CommittedSound'
  BY <1>1, <1>2, ReviewOf DEF UncommittedSound, Uncommitted, CommittedSound, ReviewIsMine
<1>6. SentSound' /\ ObservedSound'
  BY <1>1, <1>2, ReviewOf DEF SentSound, ObservedSound
<1> QED
  BY <1>2, <1>3, <1>4, <1>5, <1>6, ReviewMoves

\* AgeReview preserves the invariant.
LEMMA AgeReviewKeeps == ASSUME VisionInv, AgeReview PROVE VisionInv'
<1>1. PICK r : r = review
  OBVIOUS
<1>2. r \in ReviewRow /\ r.st = "Ready"
  BY <1>1, ReviewOf DEF AgeReview
<1>3. PICK n : n = [r EXCEPT !.old = TRUE]
  OBVIOUS
<1>4. /\ n \in ReviewRow /\ n.st = r.st /\ n.id = r.id /\ n.dest = r.dest /\ n.att = r.att
      /\ n.grant = r.grant
  BY <1>2, <1>3 DEF ReviewRow
<1>5. /\ review' = n
      /\ UNCHANGED <<arms, outbound, cand, grant, preps, issuedGrants, pr, ex, sent, observed>>
  BY <1>1, <1>3 DEF AgeReview, policyVars, history
<1>6. ReviewSound' /\ CommittedIsBound' /\ review' \in ReviewRow /\ pr' \in PrepareRow
  BY <1>1, <1>2, <1>4, <1>5, ReviewOf DEF ReviewSound, CommittedIsBound
<1>7. PrepareSound' /\ SentSound' /\ ObservedSound'
  BY <1>1, <1>4, <1>5, ReviewOf DEF PrepareSound, Seen, SentSound, ObservedSound
<1>8. UncommittedSound' /\ CommittedSound'
  BY <1>1, <1>4, <1>5, ReviewOf DEF UncommittedSound, Uncommitted, CommittedSound, ReviewIsMine
<1> QED
  BY <1>6, <1>7, <1>8, ReviewMoves DEF AgeReview

\* InstallReady preserves the invariant.
LEMMA InstallReadyKeeps == ASSUME VisionInv, InstallReady PROVE VisionInv'
<1>0. pr' = NotPreparing /\ pr.pc = "ready" /\ pr' \in PrepareRow /\ PrepareSound'
      /\ UNCHANGED <<arms, outbound, grant, preps, issuedGrants, ex, sent, observed>>
  BY PrepareStops DEF InstallReady, policyVars, history
<1>1. CASE /\ review.st \in {"Empty", "Ready"}
           /\ review' = [NoReview EXCEPT !.st = "Ready", !.id = pr.n, !.dest = pr.dest]
           /\ UNCHANGED cand
  <2>1. PICK q : q = pr
    OBVIOUS
  <2>2. /\ q \in PrepareRow /\ q.n = preps /\ preps # 0 /\ review.id # q.n /\ ex.id # q.n
        /\ q.n \notin observed /\ (\A s \in sent : s.cand # q.n)
    BY <1>0, <2>1, ReviewOf DEF PrepareSound
  <2>3. PICK o : o = NoReview
    OBVIOUS
  <2>4. PICK n : n = [o EXCEPT !.st = "Ready", !.id = q.n, !.dest = q.dest]
    OBVIOUS
  <2>5. review' = n
    BY <1>1, <2>1, <2>3, <2>4
  <2>6. q.n \in 0 .. preps /\ q.dest \in Destinations \cup {None}
    BY <2>2 DEF PrepareRow
  <2>7. o \in ReviewRow
    BY <2>3, EmptyReviewTyped
  <2>8. n \in ReviewRow /\ n.st = "Ready" /\ n.id = q.n
    BY <2>4, <2>6, <2>7 DEF ReviewRow
  <2>9. ReviewSound' /\ CommittedIsBound' /\ SentSound' /\ ObservedSound'
    BY <1>0, <2>2, <2>5, <2>8, ReviewOf DEF ReviewSound, CommittedIsBound, SentSound, ObservedSound
  <2>10. UncommittedSound' /\ CommittedSound'
    BY <1>0, <1>1, <2>2, <2>5, <2>8, ReviewOf
       DEF UncommittedSound, Uncommitted, CommittedSound, ReviewIsMine
  <2> QED
    BY <1>0, <1>1, <2>5, <2>8, <2>9, <2>10, ReviewMoves DEF InstallReady
<1>2. CASE cand' = Revoked(cand, pr.n) /\ UNCHANGED review
  <2>1. cand' \in CandRow /\ CandSound' /\ LeaseKeepsPicture'
    <3>1. CASE cand' = cand
      BY <1>0, <3>1, CandidateStays
    <3>2. CASE cand' # cand
      <4>1. cand' = NoCand /\ ~cand.leased
        BY <1>2, <3>2 DEF Revoked
      <4> QED
        BY <1>0, <4>1, CandidateGoes
    <3> QED
      BY <3>1, <3>2
  <2> QED
    BY <1>0, <1>2, <2>1, PrepareMoves DEF InstallReady
<1> QED
  BY <1>1, <1>2 DEF InstallReady

\* AgeGrant preserves the invariant.
LEMMA AgeGrantKeeps == ASSUME VisionInv, AgeGrant PROVE VisionInv'
<1>1. PICK g : g = grant
  OBVIOUS
<1>2. g \in GrantRow
  BY <1>1 DEF VisionInv, SlotsTyped
<1>3. PICK n : n = [g EXCEPT !.old = TRUE]
  OBVIOUS
<1>4. /\ n \in GrantRow /\ n.st = g.st /\ n.id = g.id /\ n.att = g.att /\ n.cand = g.cand
      /\ n.dest = g.dest
  BY <1>2, <1>3 DEF GrantRow
<1>5. /\ grant' = n
      /\ UNCHANGED <<screen, disarming, gate, arms, outbound, dest, cand, review, preps,
                     issuedGrants, pr, ex, sent, observed>>
  BY <1>1, <1>3 DEF AgeGrant, policyVars, history
<1>6. SettingsTyped' /\ ReviewSound' /\ PrepareSound' /\ ExecuteSound' /\ GuardSound'
  BY <1>5 DEF VisionInv, SettingsTyped, ReviewSound, PrepareSound, ExecuteSound, Seen, GuardSound
<1>7. SlotsTyped'
  BY <1>4, <1>5 DEF VisionInv, SlotsTyped, CandRow, GrantRow, ReviewRow, PrepareRow, ExecuteRow
<1>8. CandSound' /\ GrantSound' /\ UncommittedSound' /\ CommittedSound' /\ CommittedIsBound'
  BY <1>1, <1>4, <1>5 DEF VisionInv, CandSound, GrantSound, Seen, UncommittedSound, Uncommitted,
     CommittedSound, ReviewIsMine, CommittedIsBound
<1>9. SentSound' /\ ObservedSound' /\ SentUnderConsent' /\ OneConfirmationPerPicture'
      /\ LeaseKeepsPicture'
  BY <1>5 DEF VisionInv, SentSound, ObservedSound, SentUnderConsent, OneConfirmationPerPicture,
     LeaseKeepsPicture
<1> QED
  BY <1>6, <1>7, <1>8, <1>9 DEF VisionInv

\* Abandon preserves the invariant.
LEMMA AbandonKeeps == ASSUME VisionInv, Abandon PROVE VisionInv'
<1>1. PICK g : g = grant
  OBVIOUS
<1>2. g \in GrantRow /\ preps \in Nat
  BY <1>1, VisionNumbers DEF VisionInv, SlotsTyped
<1>3. PICK n : n = [g EXCEPT !.st = "Consumed"]
  OBVIOUS
<1>4. n \in GrantRow /\ n.st = "Consumed" /\ n.id = g.id /\ n.cand = g.cand
  BY <1>2, <1>3 DEF GrantRow
<1>5. /\ grant' = n /\ cand' = Revoked(cand, review.id) /\ review' = NoReview /\ ex.pc = "idle"
      /\ UNCHANGED <<screen, disarming, gate, arms, outbound, dest, preps,
                     issuedGrants, pr, ex, sent, observed>>
  BY <1>1, <1>3 DEF Abandon, policyVars, history
<1>6. review'.st = "Empty" /\ review'.id = 0 /\ review' \in ReviewRow
  BY <1>5, EmptyReview, EmptyReviewTyped
<1>7. cand' \in CandRow /\ CandSound'
  <2>1. CASE cand' = cand
    BY <1>1, <1>4, <1>5, <2>1 DEF VisionInv, SlotsTyped, CandSound, Seen
  <2>2. CASE cand' # cand
    <3>1. cand' = NoCand
      BY <1>5, <2>2 DEF Revoked
    <3>2. cand'.id = 0 /\ cand'.leased = FALSE /\ cand' \in CandRow
      BY <3>1, VisionNumbers DEF NoCand, CandRow, VisionInv
    <3> QED
      BY <3>2 DEF CandSound
  <2> QED
    BY <2>1, <2>2
<1>8. SettingsTyped' /\ ExecuteSound' /\ GuardSound' /\ GrantSound' /\ ReviewSound'
  BY <1>1, <1>4, <1>5, <1>6
     DEF VisionInv, SettingsTyped, ReviewSound, ExecuteSound, Seen, GuardSound, GrantSound
<1>9. SlotsTyped'
  BY <1>4, <1>5, <1>6, <1>7
     DEF VisionInv, SlotsTyped, CandRow, GrantRow, ReviewRow, PrepareRow, ExecuteRow
<1>10. UncommittedSound' /\ CommittedSound' /\ LeaseKeepsPicture' /\ CommittedIsBound'
  BY <1>5, <1>6
     DEF UncommittedSound, Uncommitted, CommittedSound, LeaseKeepsPicture, CommittedIsBound
<1>11. PrepareSound'
  BY <1>2, <1>5, <1>6, ReviewOf DEF PrepareSound, Seen
<1>12. SentSound' /\ ObservedSound'
  BY <1>5, <1>6, ReviewOf DEF SentSound, ObservedSound
<1>13. SentUnderConsent' /\ OneConfirmationPerPicture'
  BY <1>5 DEF VisionInv, SentUnderConsent, OneConfirmationPerPicture
<1> QED
  BY <1>7, <1>8, <1>9, <1>10, <1>11, <1>12, <1>13 DEF VisionInv

\* The row of an executing thread that does nothing.
LEMMA IdleExecution ==
  /\ NotExecuting.pc = "idle" /\ NotExecuting.stage = "none" /\ NotExecuting.id = 0
  /\ NotExecuting.att = None /\ NotExecuting.dest = None /\ NotExecuting.grant = 0
  /\ NotExecuting.fresh = FALSE /\ NotExecuting.fence = 0 /\ NotExecuting.rev = 0
  /\ NotExecuting.consent = FALSE
BY DEF NotExecuting

\* It is well typed.
LEMMA IdleExecutionTyped == ASSUME VisionInv PROVE NotExecuting \in ExecuteRow
<1>1. preps \in Nat /\ issuedGrants \in Nat /\ arms \in Nat /\ MaxPolicyRev \in Nat
  BY VisionNumbers DEF VisionInv, SlotsTyped
<1>2. PICK o : o = NotExecuting
  OBVIOUS
<1>3. o = [pc |-> "idle", stage |-> "none", id |-> 0, att |-> None, dest |-> None,
           grant |-> 0, fresh |-> FALSE, fence |-> 0, rev |-> 0, consent |-> FALSE]
  BY <1>2 DEF NotExecuting
<1>4. 0 \in 0 .. preps /\ 0 \in 0 .. issuedGrants /\ 0 \in 0 .. arms /\ 0 \in 0 .. MaxPolicyRev
  BY <1>1
<1>5. o \in ExecuteRow
  BY <1>3, <1>4 DEF ExecuteRow, ExecuteLabels, Stages
<1> QED
  BY <1>2, <1>5

\* The executing thread moves, and may change the candidate and the grant.
LEMMA ExecuteMoves ==
  ASSUME VisionInv, UNCHANGED <<policyVars, review, preps, issuedGrants, pr, history>>,
         cand' \in CandRow, grant' \in GrantRow, ex' \in ExecuteRow,
         pr.pc # "idle" => ex'.id # pr.n,
         CandSound', GrantSound', ExecuteSound', UncommittedSound', CommittedSound', GuardSound',
         LeaseKeepsPicture', CommittedIsBound'
  PROVE  VisionInv'
<1>1. UNCHANGED <<screen, disarming, gate, arms, outbound, dest, review, preps, issuedGrants, pr,
                  sent, observed>>
  BY DEF policyVars, history
<1>2. SettingsTyped' /\ SlotsTyped'
  BY <1>1
     DEF VisionInv, SettingsTyped, SlotsTyped, CandRow, GrantRow, ReviewRow, PrepareRow, ExecuteRow
<1>3. ReviewSound' /\ PrepareSound'
  BY <1>1 DEF VisionInv, ReviewSound, PrepareSound, Seen
<1>4. SentSound' /\ ObservedSound' /\ SentUnderConsent' /\ OneConfirmationPerPicture'
  BY <1>1 DEF VisionInv, SentSound, ObservedSound, SentUnderConsent, OneConfirmationPerPicture
<1> QED
  BY <1>2, <1>3, <1>4 DEF VisionInv

\* The executing thread stops; what it leaves behind in the slots is sound.
LEMMA ExecuteStops ==
  ASSUME VisionInv, UNCHANGED <<policyVars, review, preps, issuedGrants, pr, history>>,
         ex' = NotExecuting, cand' \in CandRow, grant' \in GrantRow,
         CandSound', GrantSound', CommittedIsBound'
  PROVE  VisionInv'
<1>1. ex'.pc = "idle" /\ ex'.stage = "none" /\ ex'.id = 0 /\ ex' \in ExecuteRow /\ ~ex'.fresh
  BY IdleExecution, IdleExecutionTyped
<1>2. ExecuteSound' /\ UncommittedSound' /\ CommittedSound' /\ GuardSound' /\ LeaseKeepsPicture'
  BY <1>1 DEF ExecuteSound, Settled, UncommittedSound, Uncommitted, CommittedSound, GuardSound,
     LeaseKeepsPicture
<1>3. pr.pc # "idle" => ex'.id # pr.n
  BY <1>1, VisionNumbers, ReviewOf DEF PrepareSound
<1> QED
  BY <1>1, <1>2, <1>3, ExecuteMoves

\* What the invariant says of the executing thread.
LEMMA ExecuteOf ==
  ASSUME VisionInv
  PROVE  /\ ex \in ExecuteRow /\ ExecuteSound /\ UncommittedSound /\ CommittedSound /\ GuardSound
         /\ LeaseKeepsPicture /\ CommittedIsBound /\ cand \in CandRow /\ grant \in GrantRow
         /\ CandSound /\ GrantSound
         /\ preps \in Nat /\ issuedGrants \in Nat /\ arms \in Nat /\ MaxPolicyRev \in Nat
         /\ pr.pc # "idle" => ex.id # pr.n
BY VisionNumbers DEF VisionInv, SlotsTyped, PrepareSound

\* What an execution that ends leaves of the candidate.
LEMMA UnleasedOf ==
  ASSUME VisionInv, NEW c, c = Unleased(cand)
  PROVE  /\ c \in CandRow /\ c.id = cand.id /\ c.fence = cand.fence /\ c.rev = cand.rev
         /\ c.old = cand.old /\ (c.leased => cand.leased) /\ (c.id = ex.id => ~c.leased)
<1>1. PICK d : d = cand
  OBVIOUS
<1>2. d \in CandRow
  BY <1>1, ExecuteOf
<1>3. CASE d.id = ex.id
  <2>1. c = [d EXCEPT !.leased = FALSE]
    BY <1>1, <1>3 DEF Unleased
  <2> QED
    BY <1>1, <1>2, <2>1 DEF CandRow
<1>4. CASE d.id # ex.id
  BY <1>1, <1>2, <1>4 DEF Unleased
<1> QED
  BY <1>3, <1>4

\* A candidate with the same picture is as sound as it was.
LEMMA SamePicture ==
  ASSUME VisionInv, UNCHANGED <<arms, outbound>>, NEW c, cand' = c,
         c.id = cand.id, c.fence = cand.fence, c.rev = cand.rev, c.leased => cand.leased,
         grant'.cand = grant.cand
  PROVE  CandSound'
BY DEF VisionInv, CandSound, Seen

\* What steps of the executing thread leave alone.
LEMMA ExecuteFrame ==
  ASSUME UNCHANGED <<policyVars, review, preps, issuedGrants, pr, history>>
  PROVE  UNCHANGED <<screen, disarming, gate, arms, outbound, dest, review, preps, issuedGrants, pr,
                     sent, observed>>
BY DEF policyVars, history

\* The lease and the delivery gate are dropped, a grant of the attempt may be given up.
LEMMA StopsUnleased ==
  ASSUME VisionInv, UNCHANGED <<policyVars, review, preps, issuedGrants, pr, history>>,
         ex' = NotExecuting, cand' = Unleased(cand),
         grant' \in GrantRow, grant'.id = grant.id, grant'.cand = grant.cand,
         grant.st = "Empty" <=> grant'.st = "Empty", CommittedIsBound'
  PROVE  VisionInv'
<1>1. PICK c : c = Unleased(cand)
  OBVIOUS
<1>2. /\ c \in CandRow /\ c.id = cand.id /\ c.fence = cand.fence /\ c.rev = cand.rev
      /\ c.leased => cand.leased
  BY <1>1, UnleasedOf
<1>3. UNCHANGED <<arms, outbound, issuedGrants>> /\ cand' = c
  BY <1>1, ExecuteFrame
<1>4. CandSound' /\ cand' \in CandRow
  BY <1>2, <1>3, SamePicture
<1>5. GrantSound'
  BY <1>3, ExecuteOf DEF GrantSound
<1> QED
  BY <1>4, <1>5, ExecuteStops

\* A grant that is left alone.
LEMMA GrantKept ==
  ASSUME VisionInv, UNCHANGED <<grant, review, issuedGrants>>
  PROVE  grant' \in GrantRow /\ GrantSound' /\ CommittedIsBound'
BY DEF VisionInv, SlotsTyped, GrantSound, CommittedIsBound

\* The grant of a failed claim: consumed if it was READY, never the bound one of a
\* committed review.
LEMMA RevokedReadyOf ==
  ASSUME VisionInv, NEW g \in GrantRow, NEW h, h \in {g, RevokedReady(g)}
  PROVE  /\ h \in GrantRow /\ h.id = g.id /\ h.cand = g.cand /\ h.att = g.att /\ h.dest = g.dest
         /\ (h.st = "Empty" <=> g.st = "Empty") /\ (g.st # "Ready" => h = g)
<1>1. CASE h = g
  BY <1>1
<1>2. CASE h # g
  <2>1. h = [g EXCEPT !.st = "Consumed"] /\ g.st = "Ready"
    BY <1>2 DEF RevokedReady
  <2> QED
    BY <2>1 DEF GrantRow
<1> QED
  BY <1>1, <1>2

\* GiveUp preserves the invariant.
LEMMA GiveUpKeeps ==
  ASSUME VisionInv, GiveUp, UNCHANGED <<policyVars, preps, issuedGrants, pr, history>>
  PROVE  VisionInv'
<1>1. PICK g : g = grant
  OBVIOUS
<1>2. PICK h : h = IF ex.stage = "claim" THEN RevokedReady(g) ELSE g
  OBVIOUS
<1>3. g \in GrantRow /\ h \in {g, RevokedReady(g)}
  BY <1>1, <1>2, ExecuteOf
<1>4. /\ h \in GrantRow /\ h.id = g.id /\ h.cand = g.cand /\ h.att = g.att /\ h.dest = g.dest
      /\ (h.st = "Empty" <=> g.st = "Empty") /\ (g.st # "Ready" => h = g)
  BY <1>3, RevokedReadyOf
<1>5. grant' = h /\ ex' = NotExecuting /\ cand' = Unleased(cand) /\ review' = review
  BY <1>1, <1>2 DEF GiveUp
<1>6. CommittedIsBound'
  BY <1>1, <1>4, <1>5, ExecuteOf DEF CommittedIsBound
<1>7. UNCHANGED <<policyVars, review, preps, issuedGrants, pr, history>>
  BY <1>5
<1> QED
  BY <1>1, <1>4, <1>5, <1>6, <1>7, StopsUnleased

\* The executing thread goes on and leaves the slots alone.
LEMMA ExecuteGoes ==
  ASSUME VisionInv, UNCHANGED <<policyVars, slots, preps, issuedGrants, pr, history>>,
         ex' \in ExecuteRow, pr.pc # "idle" => ex'.id # pr.n,
         ExecuteSound', UncommittedSound', CommittedSound', GuardSound', LeaseKeepsPicture'
  PROVE  VisionInv'
<1>1. UNCHANGED <<arms, outbound, cand, grant, review, preps, issuedGrants>>
  BY DEF policyVars, slots
<1>2. cand' \in CandRow /\ CandSound'
  BY <1>1 DEF VisionInv, SlotsTyped, CandSound, Seen
<1>3. grant' \in GrantRow /\ GrantSound' /\ CommittedIsBound'
  BY <1>1, GrantKept
<1> QED
  BY <1>1, <1>2, <1>3, ExecuteMoves DEF slots

\* ExecuteBegin preserves the invariant.
LEMMA ExecuteBeginKeeps == ASSUME VisionInv, ExecuteBegin PROVE VisionInv'
<1>0. UNCHANGED <<policyVars, cand, grant, preps, issuedGrants, pr, history>> /\ ex.pc = "idle"
  BY DEF ExecuteBegin
<1>1. PICK n \in 1 .. preps : \E a \in Attempts : GetForExecution(n, a)
  BY DEF ExecuteBegin
<1>2. PICK a \in Attempts : GetForExecution(n, a)
  BY <1>1
<1>3. CASE review.st = "Ready" /\ review' = NoReview /\ UNCHANGED ex
  BY <1>0, <1>3, ReviewDropped
<1>4. ASSUME UNCHANGED review, NEW p, ex' = p, p \in ExecuteRow, p.pc = "resolve", p.stage = "none",
             p.id = n, p.dest = review.dest, review.id = n,
             \/ p.fresh = TRUE /\ review.st = "Ready"
             \/ /\ p.fresh = FALSE /\ review.st = "Committed"
                /\ p.att = review.att /\ p.grant = review.grant
      PROVE  VisionInv'
  <2>1. UNCHANGED <<policyVars, slots, preps, issuedGrants, pr, history>>
    BY <1>0, <1>4 DEF slots
  <2>2. UNCHANGED <<review, sent>>
    BY <1>0, <1>4 DEF history
  <2>3. pr.pc # "idle" => ex'.id # pr.n
    BY <1>4, ReviewOf DEF PrepareSound
  <2>4. n # 0
    BY <1>1, ReviewOf
  <2>5. ExecuteSound' /\ GuardSound' /\ LeaseKeepsPicture'
    BY <1>4, <2>4 DEF ExecuteSound, Settled, GuardSound, LeaseKeepsPicture
  <2>6. UncommittedSound'
    BY <1>4, <2>2, ReviewOf DEF UncommittedSound, Uncommitted, SentSound
  <2>7. CommittedSound'
    BY <1>4, <2>2 DEF CommittedSound, Uncommitted, ReviewIsMine, Settled
  <2> QED
    BY <1>4, <2>1, <2>3, <2>5, <2>6, <2>7, ExecuteGoes
<1>5. PICK o : o = NotExecuting
  OBVIOUS
<1>6. o \in ExecuteRow /\ o.stage = "none" /\ o.fresh = FALSE
  BY <1>5, IdleExecution, IdleExecutionTyped
<1>7. PICK r : r = review
  OBVIOUS
<1>8. /\ r.dest \in Destinations \cup {None} /\ r.grant \in 0 .. issuedGrants
      /\ n \in 0 .. preps /\ a \in Attempts \cup {None}
  <2>1. r \in ReviewRow
    BY <1>7, ReviewOf
  <2>2. preps \in Nat
    BY ReviewOf
  <2> QED
    BY <1>1, <1>2, <2>1, <2>2 DEF ReviewRow
<1>9. CASE /\ r.st = "Ready" /\ r.id = n /\ UNCHANGED review
           /\ ex' = [NotExecuting EXCEPT !.pc = "resolve", !.id = n, !.att = a,
                                         !.dest = review.dest, !.fresh = TRUE]
  <2>1. PICK p : p = [o EXCEPT !.pc = "resolve", !.id = n, !.att = a, !.dest = r.dest,
          !.fresh = TRUE]
    OBVIOUS
  <2>2. /\ p \in ExecuteRow /\ p.pc = "resolve" /\ p.stage = "none" /\ p.id = n /\ p.dest = r.dest
        /\ p.fresh = TRUE
    BY <1>6, <1>8, <2>1 DEF ExecuteRow, ExecuteLabels
  <2>3. ex' = p
    BY <1>5, <1>7, <1>9, <2>1
  <2> QED
    BY <1>4, <1>7, <1>9, <2>2, <2>3
<1>10. CASE /\ r.st = "Committed" /\ r.id = n /\ r.att = a /\ UNCHANGED review
            /\ ex' = [NotExecuting EXCEPT !.pc = "resolve", !.id = n, !.att = a,
                                          !.dest = review.dest, !.grant = review.grant]
  <2>1. PICK p : p = [o EXCEPT !.pc = "resolve", !.id = n, !.att = a, !.dest = r.dest,
          !.grant = r.grant]
    OBVIOUS
  <2>2. /\ p \in ExecuteRow /\ p.pc = "resolve" /\ p.stage = "none" /\ p.id = n /\ p.dest = r.dest
        /\ p.fresh = FALSE /\ p.att = r.att /\ p.grant = r.grant
    BY <1>6, <1>8, <1>10, <2>1 DEF ExecuteRow, ExecuteLabels
  <2>3. ex' = p
    BY <1>5, <1>7, <1>10, <2>1
  <2> QED
    BY <1>4, <1>7, <1>10, <2>2, <2>3
<1> QED
  BY <1>2, <1>3, <1>7, <1>9, <1>10 DEF GetForExecution

\* ExecuteResolve preserves the invariant.
LEMMA ExecuteResolveKeeps == ASSUME VisionInv, ExecuteResolve PROVE VisionInv'
<1>1. UNCHANGED <<policyVars, slots, preps, issuedGrants, pr, history>> /\ ex.pc = "resolve"
      /\ UNCHANGED <<arms, outbound, cand, grant, review, sent, observed>>
  BY DEF ExecuteResolve, policyVars, slots, history
<1>2. CASE dest = ex.dest
  <2>1. PICK q : q = ex
    OBVIOUS
  <2>2. q \in ExecuteRow /\ q.pc = "resolve" /\ q.stage = "none" /\ q.id # 0
    BY <1>1, <2>1, ExecuteOf DEF ExecuteSound
  <2>3. PICK p : p = [q EXCEPT !.pc = "lease"]
    OBVIOUS
  <2>4. /\ p \in ExecuteRow /\ p.pc = "lease" /\ p.stage = q.stage /\ p.id = q.id /\ p.att = q.att
        /\ p.dest = q.dest /\ p.grant = q.grant /\ p.fresh = q.fresh
    BY <2>2, <2>3 DEF ExecuteRow, ExecuteLabels
  <2>5. ex' = p
    BY <1>2, <2>1, <2>3 DEF ExecuteResolve
  <2>6. ExecuteSound' /\ GuardSound' /\ LeaseKeepsPicture'
    BY <2>2, <2>4, <2>5 DEF ExecuteSound, Settled, GuardSound, LeaseKeepsPicture
  <2>7. UncommittedSound' /\ CommittedSound'
    BY <1>1, <2>1, <2>2, <2>4, <2>5, ExecuteOf
       DEF UncommittedSound, Uncommitted, CommittedSound, ReviewIsMine, Settled
  <2> QED
    BY <1>1, <2>1, <2>4, <2>5, <2>6, <2>7, ExecuteOf, ExecuteGoes
<1>3. CASE dest # ex.dest
  <2>1. ex' = NotExecuting
    BY <1>3 DEF ExecuteResolve
  <2>2. cand' \in CandRow /\ CandSound'
    BY <1>1 DEF VisionInv, SlotsTyped, CandSound, Seen
  <2>3. grant' \in GrantRow /\ GrantSound' /\ CommittedIsBound'
    BY <1>1, GrantKept DEF ExecuteResolve
  <2> QED
    BY <1>1, <2>1, <2>2, <2>3, ExecuteStops
<1> QED
  BY <1>2, <1>3

\* ExecuteLease preserves the invariant.
LEMMA ExecuteLeaseKeeps == ASSUME VisionInv, ExecuteLease PROVE VisionInv'
<1>1. UNCHANGED <<policyVars, review, preps, issuedGrants, pr, history>> /\ ex.pc = "lease"
      /\ UNCHANGED <<arms, outbound, grant, review, sent, observed, issuedGrants>>
  BY DEF ExecuteLease, policyVars, history
<1>2. grant' \in GrantRow /\ GrantSound' /\ CommittedIsBound'
  BY <1>1, GrantKept
<1>3. CASE /\ cand.id = ex.id /\ ~cand.old /\ ~cand.leased
           /\ cand' = [cand EXCEPT !.leased = TRUE]
           /\ ex' = [ex EXCEPT !.pc = "candidate", !.fence = cand.fence, !.rev = cand.rev,
                               !.stage = IF ex.fresh THEN "issue" ELSE "claim"]
  <2>1. PICK q : q = ex
    OBVIOUS
  <2>2. PICK c : c = cand
    OBVIOUS
  <2>3. /\ q \in ExecuteRow /\ q.pc = "lease" /\ q.stage = "none" /\ q.id # 0 /\ c \in CandRow
        /\ c.id = q.id
    BY <1>1, <1>3, <2>1, <2>2, ExecuteOf DEF ExecuteSound
  <2>4. Seen(c.fence, c.rev) /\ c.fence \in 0 .. arms /\ c.rev \in 0 .. MaxPolicyRev
        /\ c.id >= grant.cand
    BY <2>2, <2>3, ExecuteOf DEF CandSound, CandRow
  <2>5. PICK s \in {"issue", "claim"} : s = IF q.fresh THEN "issue" ELSE "claim"
    OBVIOUS
  <2>6. PICK p : p = [q EXCEPT !.pc = "candidate", !.fence = c.fence, !.rev = c.rev, !.stage = s]
    OBVIOUS
  <2>7. /\ p \in ExecuteRow /\ p.pc = "candidate" /\ p.stage = s /\ p.id = q.id /\ p.att = q.att
        /\ p.dest = q.dest /\ p.grant = q.grant /\ p.fresh = q.fresh /\ p.fence = c.fence
        /\ p.rev = c.rev
    BY <2>3, <2>4, <2>6 DEF ExecuteRow, ExecuteLabels, Stages
  <2>8. PICK d : d = [c EXCEPT !.leased = TRUE]
    OBVIOUS
  <2>9. d \in CandRow /\ d.id = c.id /\ d.fence = c.fence /\ d.rev = c.rev /\ d.leased = TRUE
    BY <2>3, <2>8 DEF CandRow
  <2>10. ex' = p /\ cand' = d
    BY <1>3, <2>1, <2>2, <2>5, <2>6, <2>8
  <2>11. CandSound'
    BY <1>1, <2>3, <2>4, <2>9, <2>10 DEF CandSound, Seen
  <2>12. q.fresh \in BOOLEAN
    BY <2>3 DEF ExecuteRow
  <2>13. ExecuteSound'
    BY <1>1, <2>3, <2>4, <2>5, <2>7, <2>10 DEF ExecuteSound, Settled, Seen
  <2>14. GuardSound' /\ LeaseKeepsPicture'
    BY <2>3, <2>5, <2>7, <2>9, <2>10 DEF GuardSound, LeaseKeepsPicture
  <2>15. UncommittedSound'
    BY <1>1, <2>1, <2>3, <2>5, <2>7, <2>10, ExecuteOf DEF UncommittedSound, Uncommitted
  <2>16. CommittedSound'
    BY <1>1, <2>1, <2>3, <2>5, <2>7, <2>10, <2>12, ExecuteOf
       DEF Uncommitted, CommittedSound, ReviewIsMine, Settled
  <2> QED
    BY <1>1, <1>2, <2>1, <2>7, <2>9, <2>10, <2>11, <2>13, <2>14, <2>15, <2>16, ExecuteOf,
       ExecuteMoves
<1>4. CASE /\ cand' = IF cand.old /\ ~cand.leased THEN NoCand ELSE cand
           /\ ex' = NotExecuting
  <2>1. cand' \in CandRow /\ CandSound'
    <3>1. CASE cand' = cand
      BY <1>1, <3>1 DEF VisionInv, SlotsTyped, CandSound, Seen
    <3>2. CASE cand' # cand
      <4>1. cand' = NoCand
        BY <1>4, <3>2
      <4>2. cand'.id = 0 /\ cand'.leased = FALSE /\ cand' \in CandRow
        BY <4>1, VisionNumbers DEF NoCand, CandRow, VisionInv
      <4> QED
        BY <4>2 DEF CandSound
    <3> QED
      BY <3>1, <3>2
  <2> QED
    BY <1>1, <1>2, <1>4, <2>1, ExecuteStops
<1> QED
  BY <1>3, <1>4 DEF ExecuteLease

\* A read succeeded: the execution goes on to the next one.
LEMMA ReadGoesOn ==
  ASSUME VisionInv, UNCHANGED <<policyVars, slots, preps, issuedGrants, pr, history>>,
         ex.pc \in {"candidate", "policy", "fence", "revision"},
         NEW next \in {"policy", "fence", "revision", "slot"}, ex' = [ex EXCEPT !.pc = next],
         ex.stage = "guard" /\ ~ex.consent =>
           /\ next = "policy" => disarming \/ gate # ex.fence \/ outbound.rev # ex.rev
           /\ next = "fence" => gate # ex.fence \/ outbound.rev # ex.rev
           /\ next = "revision" => outbound.rev # ex.rev
           /\ next # "slot"
  PROVE  VisionInv'
<1>1. UNCHANGED <<disarming, gate, arms, outbound, cand, grant, review, preps, sent, observed>>
  BY DEF policyVars, slots, history
<1>2. PICK q : q = ex
  OBVIOUS
<1>3. /\ q \in ExecuteRow /\ q.pc \in {"candidate", "policy", "fence", "revision"}
           /\ q.stage # "none"
      /\ q.id # 0
  BY <1>2, ExecuteOf DEF ExecuteSound
<1>4. PICK p : p = [q EXCEPT !.pc = next]
  OBVIOUS
<1>5. /\ p \in ExecuteRow /\ p.pc = next /\ p.stage = q.stage /\ p.id = q.id /\ p.att = q.att
      /\ p.dest = q.dest /\ p.grant = q.grant /\ p.fresh = q.fresh /\ p.fence = q.fence
      /\ p.rev = q.rev /\ p.consent = q.consent
  BY <1>3, <1>4 DEF ExecuteRow, ExecuteLabels
<1>6. ex' = p
  BY <1>2, <1>4
<1>7. ExecuteSound'
  BY <1>1, <1>2, <1>3, <1>5, <1>6, ExecuteOf DEF ExecuteSound, Settled, Seen
<1>8. GuardSound'
  BY <1>1, <1>2, <1>5, <1>6, ExecuteOf DEF GuardSound
<1>9. LeaseKeepsPicture'
  BY <1>1, <1>2, <1>3, <1>5, <1>6, ExecuteOf DEF LeaseKeepsPicture
<1>10. UncommittedSound' /\ CommittedSound'
  BY <1>1, <1>2, <1>3, <1>5, <1>6, ExecuteOf
     DEF UncommittedSound, Uncommitted, CommittedSound, ReviewIsMine, Settled
<1> QED
  BY <1>2, <1>5, <1>6, <1>7, <1>8, <1>9, <1>10, ExecuteOf, ExecuteGoes

\* The reads of the policies, of the fence and of the revision preserve the invariant.
LEMMA ReadsKeep ==
  ASSUME VisionInv, ReadCandidate \/ ReadPolicy \/ ReadFence \/ ReadRevision PROVE VisionInv'
<1>1. CASE GiveUp /\ UNCHANGED <<policyVars, preps, issuedGrants, pr, history>>
  BY <1>1, GiveUpKeeps
<1>2. CASE /\ UNCHANGED <<policyVars, slots, preps, issuedGrants, pr, history>>
           /\ ex.pc = "candidate" /\ ex' = [ex EXCEPT !.pc = "policy"]
  <2>1. ex.stage # "guard"
    BY <1>2, ExecuteOf DEF ExecuteSound
  <2> QED
    BY <1>2, <2>1, ReadGoesOn
<1>3. CASE /\ UNCHANGED <<policyVars, slots, preps, issuedGrants, pr, history>>
           /\ ex.pc = "policy" /\ screen.on /\ ex' = [ex EXCEPT !.pc = "fence"]
  <2>1. ~disarming
    BY <1>3 DEF VisionInv, SettingsTyped
  <2> QED
    BY <1>3, <2>1, ReadGoesOn, ExecuteOf DEF GuardSound
<1>4. CASE /\ UNCHANGED <<policyVars, slots, preps, issuedGrants, pr, history>>
           /\ ex.pc = "fence" /\ gate = ex.fence /\ ex' = [ex EXCEPT !.pc = "revision"]
  BY <1>4, ReadGoesOn, ExecuteOf DEF GuardSound
<1>5. CASE /\ UNCHANGED <<policyVars, slots, preps, issuedGrants, pr, history>>
           /\ ex.pc = "revision" /\ outbound.rev = ex.rev /\ ex' = [ex EXCEPT !.pc = "slot"]
  BY <1>5, ReadGoesOn, ExecuteOf DEF GuardSound
<1> QED
  BY <1>1, <1>2, <1>3, <1>4, <1>5 DEF ReadCandidate, ReadPolicy, ReadFence, ReadRevision, Read

\* Looking at the grant slot consumes a READY grant past its time to live.
LEMMA CurrentOf ==
  ASSUME NEW h \in GrantRow, NEW g, g = Current(h)
  PROVE  /\ g \in GrantRow /\ g.id = h.id /\ g.cand = h.cand /\ g.att = h.att /\ g.dest = h.dest
         /\ (g.st = "Empty" <=> h.st = "Empty") /\ (h.st # "Ready" => g = h)
<1>1. CASE h.st = "Ready" /\ h.old
  <2>1. g = [h EXCEPT !.st = "Consumed"]
    BY <1>1 DEF Current
  <2> QED
    BY <1>1, <2>1 DEF GrantRow
<1>2. CASE ~(h.st = "Ready" /\ h.old)
  BY <1>2 DEF Current
<1> QED
  BY <1>1, <1>2

\* How many grants were issued.
LEMMA IssuedOf ==
  ASSUME VisionInv, NEW g, g = Issued, NEW m \in Nat, m = issuedGrants + 1
  PROVE  /\ g \in [st : {"Empty", "Ready", "Bound", "Consumed"}, id : 0 .. m,
                   att : Attempts \cup {None}, cand : 0 .. preps, dest : Destinations \cup {None},
                   fence : 0 .. arms, rev : 0 .. MaxPolicyRev, old : BOOLEAN]
         /\ g.st = "Ready" /\ g.id = m /\ g.att = ex.att /\ g.cand = ex.id /\ g.dest = ex.dest
<1>1. PICK q : q = ex
  OBVIOUS
<1>2. q \in ExecuteRow
  BY <1>1, ExecuteOf
<1>3. /\ q.att \in Attempts \cup {None} /\ q.id \in 0 .. preps
           /\ q.dest \in Destinations \cup {None}
      /\ q.fence \in 0 .. arms /\ q.rev \in 0 .. MaxPolicyRev
  BY <1>2 DEF ExecuteRow
<1>4. g = [st |-> "Ready", id |-> m, att |-> q.att, cand |-> q.id, dest |-> q.dest,
           fence |-> q.fence, rev |-> q.rev, old |-> FALSE]
  BY <1>1 DEF Issued
<1>5. m \in 0 .. m
  OBVIOUS
<1> QED
  BY <1>1, <1>3, <1>4, <1>5

\* IssueVisionGrant preserves the invariant.
LEMMA IssueVisionGrantKeeps == ASSUME VisionInv, IssueVisionGrant PROVE VisionInv'
<1>0. /\ UNCHANGED <<policyVars, review, preps, pr, history>>
      /\ UNCHANGED <<screen, disarming, gate, arms, outbound, dest, review, preps, pr, sent,
                      observed>>
      /\ ex.pc = "slot" /\ ex.stage = "issue"
  BY DEF IssueVisionGrant, policyVars, history
<1>1. PICK g : g = Current(grant)
  OBVIOUS
<1>2. PICK h : h = grant
  OBVIOUS
<1>3. h \in GrantRow
  BY <1>2, ExecuteOf
<1>4. /\ g \in GrantRow /\ g.id = h.id /\ g.cand = h.cand /\ g.att = h.att /\ g.dest = h.dest
      /\ (g.st = "Empty" <=> h.st = "Empty") /\ (h.st # "Ready" => g = h)
  BY <1>1, <1>2, <1>3, CurrentOf
<1>5. PICK q : q = ex
  OBVIOUS
<1>6. /\ q \in ExecuteRow /\ q.pc = "slot" /\ q.stage = "issue" /\ q.fresh /\ q.id # 0
      /\ Seen(q.fence, q.rev)
  BY <1>0, <1>5, ExecuteOf DEF ExecuteSound
<1>7. /\ review.st \in {"Empty", "Ready"}
      /\ review.st = "Ready" /\ review.id = q.id => review.dest = q.dest
      /\ \A s \in sent : s.cand # q.id
  BY <1>0, <1>5, <1>6, ExecuteOf DEF UncommittedSound, Uncommitted
<1>8. cand.id = q.id /\ cand.leased
  BY <1>0, <1>5, ExecuteOf DEF LeaseKeepsPicture
<1>9. q.id \in 0 .. preps
  BY <1>6 DEF ExecuteRow
<1>10. CASE /\ g.st = "Ready" /\ SameScope(g) /\ grant' = g
            /\ ex' = [ex EXCEPT !.pc = "candidate", !.stage = "claim", !.grant = g.id]
            /\ UNCHANGED <<cand, issuedGrants>>
  <2>1. PICK p : p = [q EXCEPT !.pc = "candidate", !.stage = "claim", !.grant = g.id]
    OBVIOUS
  <2>2. g.id \in 0 .. issuedGrants
    BY <1>4 DEF GrantRow
  <2>3. /\ p \in ExecuteRow /\ p.pc = "candidate" /\ p.stage = "claim" /\ p.grant = g.id
             /\ p.id = q.id
        /\ p.att = q.att /\ p.dest = q.dest /\ p.fresh = q.fresh /\ p.fence = q.fence
             /\ p.rev = q.rev
    BY <1>6, <2>1, <2>2 DEF ExecuteRow, ExecuteLabels, Stages
  <2>4. ex' = p
    BY <1>5, <1>10, <2>1
  <2>5. g.att = q.att /\ g.cand = q.id /\ g.dest = q.dest
    BY <1>5, <1>10 DEF SameScope
  <2>51. grant' = g
    BY <1>10
  <2>6. UncommittedSound' /\ CommittedSound'
    BY <1>0, <1>6, <1>7, <2>3, <2>4, <2>5, <2>51 DEF UncommittedSound, Uncommitted, CommittedSound
  <2>7. ExecuteSound'
    BY <1>0, <1>6, <2>3, <2>4 DEF ExecuteSound, Settled, Seen
  <2>8. GuardSound' /\ LeaseKeepsPicture' /\ CommittedIsBound'
    BY <1>0, <1>7, <1>8, <1>10, <2>3, <2>4 DEF GuardSound, LeaseKeepsPicture, CommittedIsBound
  <2>9. CandSound' /\ GrantSound'
    BY <1>0, <1>2, <1>4, <1>10, ExecuteOf DEF CandSound, Seen, GrantSound
  <2>10. cand' \in CandRow /\ grant' \in GrantRow
    BY <1>4, <1>10, ExecuteOf
  <2>11. pr.pc # "idle" => ex'.id # pr.n
    BY <1>5, <2>3, <2>4, ExecuteOf
  <2> QED
    BY <1>0, <1>10, <2>3, <2>4, <2>6, <2>7, <2>8, <2>9, <2>10, <2>11, ExecuteMoves
<1>11. CASE /\ g.st = "Empty" \/ (g.st # "Bound" /\ g.att # ex.att /\ g.cand # ex.id)
            /\ grant' = Issued /\ issuedGrants' = issuedGrants + 1
            /\ ex' = [ex EXCEPT !.pc = "candidate", !.stage = "claim", !.grant = issuedGrants + 1]
            /\ UNCHANGED cand
  <2>1. PICK m : m = issuedGrants + 1
    OBVIOUS
  <2>2. m \in Nat /\ 0 .. issuedGrants \subseteq 0 .. m /\ m \in 0 .. m /\ issuedGrants \in Nat
    BY <2>1, ExecuteOf
  <2>3. m <= q.id
    <3>1. h.id = issuedGrants /\ issuedGrants <= h.cand /\ (h.st = "Empty" => issuedGrants = 0)
          /\ q.id >= h.cand
      BY <1>2, <1>6, <1>8, ExecuteOf DEF GrantSound, CandSound
    <3>2. h.cand \in Nat /\ q.id \in Nat
      BY <1>3, <1>9, ExecuteOf DEF GrantRow
    <3>3. h.st = "Empty" \/ h.cand # q.id
      BY <1>4, <1>5, <1>11
    <3> QED
      BY <1>6, <2>1, <2>2, <3>1, <3>2, <3>3
  <2>4. PICK p : p = [q EXCEPT !.pc = "candidate", !.stage = "claim", !.grant = m]
    OBVIOUS
  <2>5. /\ p \in [pc : ExecuteLabels, stage : Stages, id : 0 .. preps, att : Attempts \cup {None},
                  dest : Destinations \cup {None}, grant : 0 .. m, fresh : BOOLEAN,
                  fence : 0 .. arms, rev : 0 .. MaxPolicyRev, consent : BOOLEAN]
        /\ p.pc = "candidate" /\ p.stage = "claim" /\ p.grant = m /\ p.id = q.id
        /\ p.att = q.att /\ p.dest = q.dest /\ p.fresh = q.fresh /\ p.fence = q.fence
             /\ p.rev = q.rev
    BY <1>6, <2>2, <2>4 DEF ExecuteRow, ExecuteLabels, Stages
  <2>6. ex' = p /\ issuedGrants' = m
    BY <1>5, <1>11, <2>1, <2>4
  <2>7. PICK n : n = Issued
    OBVIOUS
  <2>8. /\ n \in [st : {"Empty", "Ready", "Bound", "Consumed"}, id : 0 .. m,
                  att : Attempts \cup {None}, cand : 0 .. preps, dest : Destinations \cup {None},
                  fence : 0 .. arms, rev : 0 .. MaxPolicyRev, old : BOOLEAN]
        /\ n.st = "Ready" /\ n.id = m /\ n.att = q.att /\ n.cand = q.id /\ n.dest = q.dest
    BY <1>5, <2>1, <2>2, <2>7, IssuedOf
  <2>9. grant' = n
    BY <1>11, <2>7
  <2>10. SettingsTyped'
    BY <1>0 DEF VisionInv, SettingsTyped
  <2>11. SlotsTyped'
    <3>1. m \in 0 .. preps
      BY <1>9, <2>2, <2>3, ExecuteOf
    <3>2. cand' \in CandRow' /\ pr' \in PrepareRow'
      BY <1>0, <1>11 DEF VisionInv, SlotsTyped, CandRow, PrepareRow
    <3>3. grant' \in GrantRow'
      BY <1>0, <2>6, <2>8, <2>9 DEF GrantRow
    <3>4. ex' \in ExecuteRow'
      BY <1>0, <2>5, <2>6 DEF ExecuteRow
    <3>5. review' \in ReviewRow'
      BY <1>0, <2>2, <2>6 DEF VisionInv, SlotsTyped, ReviewRow
    <3> QED
      BY <1>0, <2>6, <3>1, <3>2, <3>3, <3>4, <3>5 DEF SlotsTyped
  <2>12. GrantSound'
    BY <2>3, <2>6, <2>8, <2>9 DEF GrantSound
  <2>13. CandSound'
    <3>1. cand.id >= q.id
      BY <1>8, <1>9, ExecuteOf
    <3> QED
      BY <1>0, <1>11, <2>8, <2>9, <3>1, ExecuteOf DEF CandSound, Seen
  <2>14. ReviewSound' /\ PrepareSound'
    BY <1>0, <1>5, <2>5, <2>6, ReviewOf DEF ReviewSound, PrepareSound, Seen
  <2>15. ExecuteSound'
    BY <1>0, <1>6, <2>5, <2>6 DEF ExecuteSound, Settled, Seen
  <2>16. UncommittedSound' /\ CommittedSound'
    BY <1>0, <1>6, <1>7, <2>5, <2>6, <2>8, <2>9 DEF UncommittedSound, Uncommitted, CommittedSound
  <2>17. GuardSound' /\ LeaseKeepsPicture' /\ CommittedIsBound'
    BY <1>0, <1>7, <1>8, <1>11, <2>5, <2>6 DEF GuardSound, LeaseKeepsPicture, CommittedIsBound
  <2>18. SentSound' /\ ObservedSound' /\ SentUnderConsent' /\ OneConfirmationPerPicture'
    BY <1>0 DEF VisionInv, SentSound, ObservedSound, SentUnderConsent, OneConfirmationPerPicture
  <2> QED
    BY <2>10, <2>11, <2>12, <2>13, <2>14, <2>15, <2>16, <2>17, <2>18 DEF VisionInv
<1>12. CASE grant' = g /\ ex' = NotExecuting /\ cand' = Unleased(cand) /\ UNCHANGED issuedGrants
  <2>1. CommittedIsBound'
    BY <1>0, <1>7 DEF CommittedIsBound
  <2> QED
    BY <1>0, <1>2, <1>4, <1>12, <2>1, StopsUnleased
<1> QED
  BY <1>1, <1>10, <1>11, <1>12 DEF IssueVisionGrant

\* ClaimGrant preserves the invariant.
LEMMA ClaimGrantKeeps == ASSUME VisionInv, ClaimGrant PROVE VisionInv'
<1>0. /\ UNCHANGED <<policyVars, review, preps, issuedGrants, pr, history>>
      /\ UNCHANGED <<arms, outbound, review, preps, issuedGrants, pr, sent, observed>>
      /\ ex.pc = "slot" /\ ex.stage \in {"claim", "reclaim"}
  BY DEF ClaimGrant, policyVars, history
<1>1. PICK g : g = Current(grant)
  OBVIOUS
<1>2. PICK h : h = grant
  OBVIOUS
<1>3. h \in GrantRow
  BY <1>2, ExecuteOf
<1>4. /\ g \in GrantRow /\ g.id = h.id /\ g.cand = h.cand /\ g.att = h.att /\ g.dest = h.dest
      /\ (g.st = "Empty" <=> h.st = "Empty") /\ (h.st # "Ready" => g = h)
  BY <1>1, <1>2, <1>3, CurrentOf
<1>5. PICK q : q = ex
  OBVIOUS
<1>6. /\ q \in ExecuteRow /\ q.pc = "slot" /\ q.stage \in {"claim", "reclaim"} /\ q.id # 0
      /\ Seen(q.fence, q.rev) /\ q.fresh \in BOOLEAN
  BY <1>0, <1>5, ExecuteOf DEF ExecuteSound, ExecuteRow
<1>8. cand.id = q.id /\ cand.leased
  BY <1>0, <1>5, ExecuteOf DEF LeaseKeepsPicture
<1>9. CASE /\ GrantClaimable(g)
           /\ grant' = [g EXCEPT !.st = "Bound"]
           /\ ex' = [ex EXCEPT !.pc = IF ex.stage = "reclaim" THEN "send"
                                      ELSE IF ex.fresh THEN "commit" ELSE "encode"]
           /\ UNCHANGED cand
  <2>1. PICK l \in {"send", "commit", "encode"} :
             l = IF q.stage = "reclaim" THEN "send" ELSE IF q.fresh THEN "commit" ELSE "encode"
    OBVIOUS
  <2>2. PICK p : p = [q EXCEPT !.pc = l]
    OBVIOUS
  <2>3. /\ p \in ExecuteRow /\ p.pc = l /\ p.stage = q.stage /\ p.id = q.id /\ p.att = q.att
        /\ p.dest = q.dest /\ p.grant = q.grant /\ p.fresh = q.fresh /\ p.fence = q.fence
        /\ p.rev = q.rev /\ p.consent = q.consent
    BY <1>6, <2>1, <2>2 DEF ExecuteRow, ExecuteLabels
  <2>4. PICK n : n = [g EXCEPT !.st = "Bound"]
    OBVIOUS
  <2>5. /\ n \in GrantRow /\ n.st = "Bound" /\ n.id = g.id /\ n.cand = g.cand /\ n.att = g.att
        /\ n.dest = g.dest
    BY <1>4, <2>4 DEF GrantRow
  <2>6. ex' = p /\ grant' = n
    BY <1>5, <1>9, <2>1, <2>2, <2>4
  <2>7. ExecuteSound'
    BY <1>0, <1>6, <2>1, <2>3, <2>6 DEF ExecuteSound, Settled, Seen
  <2>8. GuardSound' /\ LeaseKeepsPicture'
    BY <1>0, <1>5, <1>6, <1>8, <1>9, <2>3, <2>6, ExecuteOf DEF GuardSound, LeaseKeepsPicture
  <2>9. UncommittedSound'
    BY <1>0, <1>2, <1>4, <1>5, <1>6, <2>1, <2>3, <2>5, <2>6, ExecuteOf
       DEF UncommittedSound, Uncommitted
  <2>10. CommittedSound'
    BY <1>0, <1>5, <1>6, <2>1, <2>3, <2>6, ExecuteOf
       DEF Uncommitted, CommittedSound, ReviewIsMine, Settled
  <2>11. CommittedIsBound'
    BY <1>0, <1>2, <1>4, <2>5, <2>6, ExecuteOf DEF CommittedIsBound
  <2>12. CandSound' /\ GrantSound'
    BY <1>0, <1>2, <1>4, <1>9, <2>5, <2>6, ExecuteOf DEF CandSound, Seen, GrantSound
  <2>13. cand' \in CandRow /\ grant' \in GrantRow
    BY <1>9, <2>5, <2>6, ExecuteOf
  <2>14. pr.pc # "idle" => ex'.id # pr.n
    BY <1>5, <2>3, <2>6, ExecuteOf
  <2> QED
    BY <1>0, <2>3, <2>6, <2>7, <2>8, <2>9, <2>10, <2>11, <2>12, <2>13, <2>14, ExecuteMoves
<1>10. CASE /\ grant' = IF ex.stage = "claim" THEN RevokedReady(g) ELSE g
            /\ ex' = NotExecuting
            /\ cand' = Unleased(cand)
  <2>1. PICK n : n = IF ex.stage = "claim" THEN RevokedReady(g) ELSE g
    OBVIOUS
  <2>2. /\ n \in GrantRow /\ n.id = g.id /\ n.cand = g.cand /\ n.att = g.att /\ n.dest = g.dest
        /\ (n.st = "Empty" <=> g.st = "Empty") /\ (g.st # "Ready" => n = g)
    BY <1>4, <2>1, RevokedReadyOf
  <2>3. grant' = n
    BY <1>10, <2>1
  <2>4. CommittedIsBound'
    BY <1>0, <1>2, <1>4, <2>2, <2>3, ExecuteOf DEF CommittedIsBound
  <2> QED
    BY <1>0, <1>2, <1>4, <1>10, <2>2, <2>3, <2>4, StopsUnleased
<1> QED
  BY <1>1, <1>9, <1>10 DEF ClaimGrant

\* ExecuteCommit preserves the invariant.
LEMMA ExecuteCommitKeeps == ASSUME VisionInv, ExecuteCommit PROVE VisionInv'
<1>0. /\ UNCHANGED <<policyVars, grant, preps, issuedGrants, pr, history>>
      /\ UNCHANGED <<screen, disarming, gate, arms, outbound, dest, grant, preps, issuedGrants, pr,
                     sent, observed>>
      /\ ex.pc = "commit"
  BY DEF ExecuteCommit, policyVars, history
<1>1. PICK q : q = ex
  OBVIOUS
<1>2. /\ q \in ExecuteRow /\ q.pc = "commit" /\ q.stage = "claim" /\ q.id # 0 /\ q.fresh
      /\ Seen(q.fence, q.rev)
  BY <1>0, <1>1, ExecuteOf DEF ExecuteSound
<1>3. CASE /\ review.st = "Ready" /\ review.id = ex.id
           /\ review' = [review EXCEPT !.st = "Committed", !.att = ex.att, !.grant = ex.grant,
                                       !.old = FALSE]
           /\ ex' = [ex EXCEPT !.pc = "encode"]
           /\ UNCHANGED cand
  <2>1. PICK r : r = review
    OBVIOUS
  <2>2. r \in ReviewRow /\ r.st = "Ready" /\ r.id = q.id
    BY <1>1, <1>3, <2>1, ReviewOf
  <2>3. /\ r.dest = q.dest /\ (\A s \in sent : s.cand # q.id)
        /\ grant.id = q.grant /\ grant.att = q.att /\ grant.cand = q.id /\ grant.dest = q.dest
        /\ grant.st = "Bound"
    BY <1>1, <1>2, <2>1, <2>2, ExecuteOf DEF UncommittedSound, Uncommitted
  <2>4. PICK n : n = [r EXCEPT !.st = "Committed", !.att = q.att, !.grant = q.grant, !.old = FALSE]
    OBVIOUS
  <2>5. q.att \in Attempts \cup {None} /\ q.grant \in 0 .. issuedGrants
    BY <1>2 DEF ExecuteRow
  <2>6. /\ n \in ReviewRow /\ n.st = "Committed" /\ n.id = r.id /\ n.dest = r.dest /\ n.att = q.att
        /\ n.grant = q.grant
    BY <2>2, <2>4, <2>5 DEF ReviewRow
  <2>7. PICK p : p = [q EXCEPT !.pc = "encode"]
    OBVIOUS
  <2>8. /\ p \in ExecuteRow /\ p.pc = "encode" /\ p.stage = q.stage /\ p.id = q.id /\ p.att = q.att
        /\ p.dest = q.dest /\ p.grant = q.grant /\ p.fresh = q.fresh /\ p.fence = q.fence
        /\ p.rev = q.rev
    BY <1>2, <2>7 DEF ExecuteRow, ExecuteLabels
  <2>9. review' = n /\ ex' = p /\ cand' = cand
    BY <1>1, <1>3, <2>1, <2>4, <2>7
  <2>10. SettingsTyped' /\ CandSound' /\ GrantSound' /\ SentUnderConsent'
           /\ OneConfirmationPerPicture'
    BY <1>0, <2>9 DEF VisionInv, SettingsTyped, CandSound, Seen, GrantSound, SentUnderConsent,
       OneConfirmationPerPicture
  <2>11. SlotsTyped'
    BY <1>0, <2>6, <2>8, <2>9
       DEF VisionInv, SlotsTyped, CandRow, GrantRow, ReviewRow, PrepareRow, ExecuteRow
  <2>12. ReviewSound' /\ CommittedIsBound' /\ LeaseKeepsPicture'
    BY <1>0, <1>1, <1>2, <2>2, <2>3, <2>6, <2>8, <2>9, ExecuteOf
       DEF ReviewSound, CommittedIsBound, LeaseKeepsPicture
  <2>13. PrepareSound'
    BY <1>0, <1>1, <2>1, <2>6, <2>8, <2>9, ReviewOf DEF PrepareSound, Seen
  <2>14. ExecuteSound' /\ GuardSound'
    BY <1>0, <1>2, <2>8, <2>9 DEF ExecuteSound, Settled, Seen, GuardSound
  <2>15. UncommittedSound' /\ CommittedSound'
    BY <1>0, <2>2, <2>3, <2>6, <2>8, <2>9
       DEF UncommittedSound, Uncommitted, CommittedSound, ReviewIsMine, Settled
  <2>16. SentSound' /\ ObservedSound'
    BY <1>0, <2>1, <2>2, <2>3, <2>6, <2>9, ReviewOf DEF SentSound, ObservedSound
  <2> QED
    BY <2>10, <2>11, <2>12, <2>13, <2>14, <2>15, <2>16 DEF VisionInv
<1>4. CASE ex' = NotExecuting /\ cand' = Unleased(cand) /\ UNCHANGED review
  <2>1. UNCHANGED <<policyVars, review, preps, issuedGrants, pr, history>>
    BY <1>0, <1>4
  <2>2. grant' \in GrantRow /\ GrantSound' /\ CommittedIsBound'
    BY <1>0, <1>4, GrantKept
  <2> QED
    BY <1>0, <1>4, <2>1, <2>2, StopsUnleased
<1> QED
  BY <1>3, <1>4 DEF ExecuteCommit, Commit

\* The executing thread serves its committed review, and leaves the slots alone.
LEMMA ServesCommitted ==
  ASSUME VisionInv, UNCHANGED <<policyVars, slots, preps, issuedGrants, pr, history>>,
         ex.pc # "idle", ~Uncommitted, ex.pc \notin Settled,
         ex.pc \notin {"resolve", "lease"},
         NEW p \in ExecuteRow, ex' = p, p.id = ex.id, p.att = ex.att, p.dest = ex.dest,
         p.grant = ex.grant, p.fresh = ex.fresh, p.fence = ex.fence, p.rev = ex.rev,
         \/ p.pc = "guard" /\ p.stage = "guard"
         \/ p.pc = "policy" /\ p.stage = "guard"
         \/ p.pc = "candidate" /\ p.stage = "reclaim",
         GuardSound'
  PROVE  VisionInv'
<1>1. UNCHANGED <<arms, outbound, cand, grant, review, preps, sent, observed>>
  BY DEF policyVars, slots, history
<1>2. ex.id # 0 /\ Seen(ex.fence, ex.rev)
  BY ExecuteOf DEF ExecuteSound
<1>3. ExecuteSound'
  BY <1>1, <1>2 DEF ExecuteSound, Settled, Seen
<1>4. LeaseKeepsPicture'
  BY <1>1, ExecuteOf DEF LeaseKeepsPicture, Settled
<1>5. UncommittedSound' /\ CommittedSound'
  BY <1>1, ExecuteOf DEF UncommittedSound, Uncommitted, CommittedSound, ReviewIsMine, Settled
<1> QED
  BY <1>3, <1>4, <1>5, ExecuteOf, ExecuteGoes

\* ExecuteEncode preserves the invariant.
LEMMA ExecuteEncodeKeeps == ASSUME VisionInv, ExecuteEncode PROVE VisionInv'
<1>1. CASE ex' = [ex EXCEPT !.pc = "guard", !.stage = "guard"] /\ UNCHANGED slots
  <2>1. PICK q : q = ex
    OBVIOUS
  <2>2. q \in ExecuteRow /\ q.pc = "encode"
    BY <2>1, ExecuteOf DEF ExecuteEncode
  <2>3. PICK p : p = [q EXCEPT !.pc = "guard", !.stage = "guard"]
    OBVIOUS
  <2>4. /\ p \in ExecuteRow /\ p.pc = "guard" /\ p.stage = "guard" /\ p.id = q.id /\ p.att = q.att
        /\ p.dest = q.dest /\ p.grant = q.grant /\ p.fresh = q.fresh /\ p.fence = q.fence
        /\ p.rev = q.rev
    BY <2>2, <2>3 DEF ExecuteRow, ExecuteLabels, Stages
  <2>5. ex' = p
    BY <1>1, <2>1, <2>3
  <2>6. ~Uncommitted /\ ex.pc \notin Settled
    BY <2>1, <2>2 DEF Uncommitted, Settled
  <2>7. GuardSound'
    BY <2>4, <2>5 DEF GuardSound
  <2> QED
    BY <1>1, <2>1, <2>2, <2>4, <2>5, <2>6, <2>7, ServesCommitted DEF ExecuteEncode
<1>2. CASE GiveUp
  BY <1>2, GiveUpKeeps DEF ExecuteEncode
<1> QED
  BY <1>1, <1>2 DEF ExecuteEncode

\* GuardReview preserves the invariant.
LEMMA GuardReviewKeeps == ASSUME VisionInv, GuardReview PROVE VisionInv'
<1>1. CASE ex' = [ex EXCEPT !.pc = "policy", !.consent = Consented] /\ UNCHANGED slots
  <2>1. PICK q : q = ex
    OBVIOUS
  <2>2. q \in ExecuteRow /\ q.pc = "guard" /\ q.stage = "guard" /\ Seen(q.fence, q.rev)
    BY <2>1, ExecuteOf DEF GuardReview, ExecuteSound
  <2>3. PICK b \in BOOLEAN : b = Consented
    BY Zenon DEF Consented
  <2>4. PICK p : p = [q EXCEPT !.pc = "policy", !.consent = b]
    OBVIOUS
  <2>5. /\ p \in ExecuteRow /\ p.pc = "policy" /\ p.stage = "guard" /\ p.id = q.id /\ p.att = q.att
        /\ p.dest = q.dest /\ p.grant = q.grant /\ p.fresh = q.fresh /\ p.fence = q.fence
        /\ p.rev = q.rev /\ p.consent = b
    BY <2>2, <2>4 DEF ExecuteRow, ExecuteLabels, Stages
  <2>6. ex' = p
    BY <1>1, <2>1, <2>3, <2>4
  <2>7. ~Uncommitted /\ ex.pc \notin Settled
    BY <2>1, <2>2 DEF Uncommitted, Settled
  <2>8. ~b => disarming \/ gate # q.fence \/ outbound.rev # q.rev
    <3>1. ~b => ~screen.on \/ gate # q.fence \/ ~outbound.on \/ outbound.rev # q.rev
      BY <2>1, <2>3 DEF Consented
    <3>2. ~screen.on => disarming \/ gate # q.fence
      BY <2>2, ExecuteOf DEF VisionInv, SettingsTyped, Seen
    <3>3. ~outbound.on => outbound.rev # q.rev
      BY <2>2 DEF Seen
    <3> QED
      BY <3>1, <3>2, <3>3
  <2>9. UNCHANGED <<disarming, gate, outbound>>
    BY DEF GuardReview, policyVars
  <2>10. GuardSound'
    BY <2>5, <2>6, <2>8, <2>9 DEF GuardSound
  <2> QED
    BY <1>1, <2>1, <2>2, <2>5, <2>6, <2>7, <2>10, ServesCommitted DEF GuardReview
<1>2. CASE GiveUp
  BY <1>2, GiveUpKeeps DEF GuardReview
<1> QED
  BY <1>1, <1>2 DEF GuardReview

\* GuardBound preserves the invariant.
LEMMA GuardBoundKeeps == ASSUME VisionInv, GuardBound PROVE VisionInv'
<1>1. CASE ex' = [ex EXCEPT !.pc = "candidate", !.stage = "reclaim"] /\ UNCHANGED slots
  <2>1. PICK q : q = ex
    OBVIOUS
  <2>2. q \in ExecuteRow /\ q.pc = "slot" /\ q.stage = "guard" /\ q.consent
    BY <2>1, ExecuteOf DEF GuardBound, GuardSound
  <2>3. PICK p : p = [q EXCEPT !.pc = "candidate", !.stage = "reclaim"]
    OBVIOUS
  <2>4. /\ p \in ExecuteRow /\ p.pc = "candidate" /\ p.stage = "reclaim" /\ p.id = q.id
             /\ p.att = q.att
        /\ p.dest = q.dest /\ p.grant = q.grant /\ p.fresh = q.fresh /\ p.fence = q.fence
        /\ p.rev = q.rev /\ p.consent = q.consent
    BY <2>2, <2>3 DEF ExecuteRow, ExecuteLabels, Stages
  <2>5. ex' = p
    BY <1>1, <2>1, <2>3
  <2>6. ~Uncommitted /\ ex.pc \notin Settled
    BY <2>1, <2>2 DEF Uncommitted, Settled
  <2>7. GuardSound'
    BY <2>2, <2>4, <2>5 DEF GuardSound
  <2> QED
    BY <1>1, <2>1, <2>2, <2>4, <2>5, <2>6, <2>7, ServesCommitted DEF GuardBound
<1>2. CASE GiveUp
  BY <1>2, GiveUpKeeps DEF GuardBound
<1> QED
  BY <1>1, <1>2 DEF GuardBound

\* What the send and the settlement know of the review and of the attempt.
LEMMA ServedOf ==
  ASSUME VisionInv, ex.pc \in {"send", "sent"} \cup Settled
  PROVE  /\ ~Uncommitted /\ ex.stage = "reclaim" /\ ex.id # 0 /\ ex.id \in 1 .. preps
         /\ Seen(ex.fence, ex.rev) /\ ex.consent
         /\ review.st = (IF ex.pc \in Settled THEN "Observed" ELSE "Committed")
         /\ review.id = ex.id /\ review.att = ex.att /\ review.grant = ex.grant
         /\ review.dest = ex.dest
<1>1. ex.stage = "reclaim" /\ ex.id # 0 /\ Seen(ex.fence, ex.rev) /\ ex.pc # "idle"
  BY ExecuteOf DEF ExecuteSound, Settled
<1>2. ~Uncommitted
  BY <1>1 DEF Uncommitted
<1>3. ex.id \in 1 .. preps
  BY <1>1, ExecuteOf DEF ExecuteRow
<1>4. ex.consent
  BY <1>1, ExecuteOf DEF GuardSound
<1> QED
  BY <1>1, <1>2, <1>3, <1>4, ExecuteOf DEF CommittedSound, ReviewIsMine

\* Send preserves the invariant.
LEMMA SendKeeps == ASSUME VisionInv, Send PROVE VisionInv'
<1>1. PICK q : q = ex
  OBVIOUS
<1>2. /\ q \in ExecuteRow /\ q.pc = "send" /\ q.stage = "reclaim" /\ q.id # 0 /\ q.id \in 1 .. preps
      /\ q.consent /\ Seen(q.fence, q.rev) /\ review.st = "Committed" /\ review.id = q.id
      /\ review.att = q.att /\ review.grant = q.grant /\ review.dest = q.dest
  BY <1>1, ExecuteOf, ServedOf DEF Send, Settled
<1>3. PICK p : p = [q EXCEPT !.pc = "sent"]
  OBVIOUS
<1>4. /\ p \in ExecuteRow /\ p.pc = "sent" /\ p.stage = q.stage /\ p.id = q.id /\ p.att = q.att
      /\ p.dest = q.dest /\ p.grant = q.grant /\ p.fresh = q.fresh /\ p.fence = q.fence
      /\ p.rev = q.rev /\ p.consent = q.consent
  BY <1>2, <1>3 DEF ExecuteRow, ExecuteLabels
<1>5. PICK m : m = [cand |-> q.id, att |-> q.att, grant |-> q.grant, dest |-> q.dest,
                    consent |-> q.consent]
  OBVIOUS
<1>6. m.cand = q.id /\ m.att = q.att /\ m.grant = q.grant /\ m.dest = q.dest
        /\ m.consent = q.consent
  BY <1>5
<1>7. /\ ex' = p /\ sent' = sent \cup {m}
      /\ UNCHANGED <<screen, disarming, gate, arms, outbound, dest, cand, grant, review, preps,
                     issuedGrants, pr, observed>>
  BY <1>1, <1>3, <1>5 DEF Send, policyVars, slots
<1>8. /\ SettingsTyped' /\ CandSound' /\ GrantSound' /\ ReviewSound' /\ ObservedSound'
      /\ CommittedIsBound'
  BY <1>7 DEF VisionInv, SettingsTyped, CandSound, Seen, GrantSound, ReviewSound, ObservedSound,
     CommittedIsBound
<1>9. SlotsTyped'
  BY <1>4, <1>7 DEF VisionInv, SlotsTyped, CandRow, GrantRow, ReviewRow, PrepareRow, ExecuteRow
<1>10. PrepareSound'
  BY <1>1, <1>4, <1>6, <1>7, ReviewOf DEF PrepareSound, Seen
<1>11. ExecuteSound' /\ GuardSound'
  BY <1>2, <1>4, <1>7 DEF ExecuteSound, Settled, Seen, GuardSound
<1>12. UncommittedSound' /\ CommittedSound'
  BY <1>2, <1>4, <1>7 DEF UncommittedSound, Uncommitted, CommittedSound, ReviewIsMine, Settled
<1>13. LeaseKeepsPicture'
  BY <1>1, <1>2, <1>4, <1>7, ExecuteOf DEF LeaseKeepsPicture
<1>14. SentSound'
  BY <1>2, <1>6, <1>7, ReviewOf DEF SentSound
<1>15. SentUnderConsent'
  BY <1>2, <1>6, <1>7 DEF VisionInv, SentUnderConsent
<1>16. OneConfirmationPerPicture'
  <2>1. \A s \in sent : s.cand = q.id => s.att = q.att /\ s.grant = q.grant /\ s.dest = q.dest
    BY <1>2, ReviewOf DEF SentSound
  <2> QED
    BY <1>6, <1>7, <2>1 DEF VisionInv, OneConfirmationPerPicture
<1> QED
  BY <1>8, <1>9, <1>10, <1>11, <1>12, <1>13, <1>14, <1>15, <1>16 DEF VisionInv

\* Answer preserves the invariant.
LEMMA AnswerKeeps == ASSUME VisionInv, Answer PROVE VisionInv'
<1>1. PICK q : q = ex
  OBVIOUS
<1>2. /\ q \in ExecuteRow /\ q.pc = "sent" /\ q.stage = "reclaim" /\ q.id # 0 /\ q.id \in 1 .. preps
      /\ q.consent /\ Seen(q.fence, q.rev) /\ review.st = "Committed" /\ review.id = q.id
      /\ review.att = q.att /\ review.grant = q.grant /\ review.dest = q.dest
  BY <1>1, ExecuteOf, ServedOf DEF Answer, Settled
<1>3. PICK p : p = [q EXCEPT !.pc = "observed"]
  OBVIOUS
<1>4. /\ p \in ExecuteRow /\ p.pc = "observed" /\ p.stage = q.stage /\ p.id = q.id /\ p.att = q.att
      /\ p.dest = q.dest /\ p.grant = q.grant /\ p.fresh = q.fresh /\ p.fence = q.fence
      /\ p.rev = q.rev /\ p.consent = q.consent
  BY <1>2, <1>3 DEF ExecuteRow, ExecuteLabels, Settled
<1>5. PICK r : r = review
  OBVIOUS
<1>6. PICK n : n = [r EXCEPT !.st = "Observed"]
  OBVIOUS
<1>61. r \in ReviewRow
  BY <1>5, ReviewOf
<1>62. /\ n \in ReviewRow /\ n.st = "Observed" /\ n.id = r.id /\ n.dest = r.dest /\ n.att = r.att
       /\ n.grant = r.grant
  BY <1>6, <1>61 DEF ReviewRow
<1>7. /\ ex' = p /\ review' = n /\ observed' = observed \cup {q.id}
      /\ UNCHANGED <<screen, disarming, gate, arms, outbound, dest, cand, grant, preps,
                     issuedGrants, pr, sent>>
  BY <1>1, <1>3, <1>5, <1>6 DEF Answer, policyVars
<1>8. /\ SettingsTyped' /\ CandSound' /\ GrantSound' /\ SentUnderConsent'
           /\ OneConfirmationPerPicture'
  BY <1>7 DEF VisionInv, SettingsTyped, CandSound, Seen, GrantSound, SentUnderConsent,
     OneConfirmationPerPicture
<1>9. SlotsTyped'
  BY <1>4, <1>62, <1>7
     DEF VisionInv, SlotsTyped, CandRow, GrantRow, ReviewRow, PrepareRow, ExecuteRow
<1>10. PrepareSound'
  BY <1>1, <1>4, <1>5, <1>62, <1>7, ReviewOf, ExecuteOf DEF PrepareSound, Seen
<1>11. ExecuteSound' /\ GuardSound'
  BY <1>2, <1>4, <1>7 DEF ExecuteSound, Settled, Seen, GuardSound
<1>12. UncommittedSound' /\ CommittedSound'
  BY <1>2, <1>4, <1>5, <1>62, <1>7
     DEF UncommittedSound, Uncommitted, CommittedSound, ReviewIsMine, Settled
<1>13. LeaseKeepsPicture' /\ CommittedIsBound' /\ ReviewSound'
  BY <1>1, <1>2, <1>4, <1>5, <1>62, <1>7, ExecuteOf
     DEF LeaseKeepsPicture, CommittedIsBound, ReviewSound
<1>14. SentSound' /\ ObservedSound'
  BY <1>2, <1>5, <1>62, <1>7, ReviewOf DEF SentSound, ObservedSound
<1> QED
  BY <1>8, <1>9, <1>10, <1>11, <1>12, <1>13, <1>14 DEF VisionInv

\* The settlement goes on to its next slot.
LEMMA SettlesOn ==
  ASSUME VisionInv, UNCHANGED <<policyVars, review, preps, issuedGrants, pr, history>>,
         ex.pc \in Settled, NEW l \in {"retired", "released", "revoked"},
         ex' = [ex EXCEPT !.pc = l],
         cand' \in CandRow, CandSound', grant' \in GrantRow, GrantSound',
         l = "retired" => cand' = cand /\ ex.pc = "observed"
  PROVE  VisionInv'
<1>0. UNCHANGED <<arms, outbound, review>>
  BY ExecuteFrame
<1>1. PICK q : q = ex
  OBVIOUS
<1>2. /\ q \in ExecuteRow /\ q.stage = "reclaim" /\ q.id # 0
      /\ q.consent /\ Seen(q.fence, q.rev) /\ review.st = "Observed" /\ review.id = q.id
      /\ review.att = q.att /\ review.grant = q.grant /\ review.dest = q.dest
  BY <1>1, ExecuteOf, ServedOf
<1>3. PICK p : p = [q EXCEPT !.pc = l]
  OBVIOUS
<1>4. /\ p \in ExecuteRow /\ p.pc = l /\ p.stage = q.stage /\ p.id = q.id /\ p.att = q.att
      /\ p.dest = q.dest /\ p.grant = q.grant /\ p.fresh = q.fresh /\ p.fence = q.fence
      /\ p.rev = q.rev /\ p.consent = q.consent
  BY <1>2, <1>3 DEF ExecuteRow, ExecuteLabels, Settled
<1>5. ex' = p
  BY <1>1, <1>3
<1>6. ExecuteSound' /\ GuardSound' /\ CommittedIsBound'
  BY <1>0, <1>2, <1>4, <1>5 DEF ExecuteSound, Settled, Seen, GuardSound, CommittedIsBound
<1>7. UncommittedSound' /\ CommittedSound'
  <2>1. /\ review'.st = "Observed" /\ review'.id = p.id /\ review'.att = p.att
        /\ review'.grant = p.grant /\ review'.dest = p.dest /\ p.pc \in Settled
    BY <1>0, <1>2, <1>4 DEF Settled
  <2>2. UncommittedSound'
    BY <1>2, <1>4, <1>5 DEF UncommittedSound, Uncommitted
  <2>3. CommittedSound'
    BY <1>5, <2>1 DEF CommittedSound, ReviewIsMine
  <2> QED
    BY <2>2, <2>3
<1>8. LeaseKeepsPicture'
  BY <1>1, <1>4, <1>5, ExecuteOf DEF LeaseKeepsPicture
<1>9. pr.pc # "idle" => ex'.id # pr.n
  BY <1>1, <1>4, <1>5, ExecuteOf
<1> QED
  BY <1>4, <1>5, <1>6, <1>7, <1>8, <1>9, ExecuteMoves

\* RetireGrant preserves the invariant.
LEMMA RetireGrantKeeps == ASSUME VisionInv, RetireGrant PROVE VisionInv'
<1>1. PICK g : g = grant
  OBVIOUS
<1>2. g \in GrantRow /\ g.st = "Bound"
  BY <1>1, ExecuteOf DEF RetireGrant
<1>3. PICK n : n = [g EXCEPT !.st = "Consumed"]
  OBVIOUS
<1>4. n \in GrantRow /\ n.st = "Consumed" /\ n.id = g.id /\ n.cand = g.cand
  BY <1>2, <1>3 DEF GrantRow
<1>5. grant' = n /\ UNCHANGED <<arms, outbound, cand, issuedGrants>>
  BY <1>1, <1>3 DEF RetireGrant, policyVars
<1>6. cand' \in CandRow /\ CandSound' /\ grant' \in GrantRow /\ GrantSound'
  BY <1>1, <1>2, <1>4, <1>5, ExecuteOf DEF CandSound, Seen, GrantSound
<1>7. ex.pc \in Settled /\ ex' = [ex EXCEPT !.pc = "retired"]
  BY DEF RetireGrant, Settled
<1> QED
  BY <1>5, <1>6, <1>7, SettlesOn DEF RetireGrant

\* ReleaseCandidate preserves the invariant.
LEMMA ReleaseCandidateKeeps == ASSUME VisionInv, ReleaseCandidate PROVE VisionInv'
<1>1. PICK c : c = Unleased(cand)
  OBVIOUS
<1>2. /\ c \in CandRow /\ c.id = cand.id /\ c.fence = cand.fence /\ c.rev = cand.rev
      /\ c.leased => cand.leased
  BY <1>1, UnleasedOf
<1>3. cand' = c /\ UNCHANGED <<arms, outbound, grant, review, issuedGrants>>
  BY <1>1 DEF ReleaseCandidate, policyVars
<1>4. cand' \in CandRow /\ CandSound'
  BY <1>2, <1>3, SamePicture
<1>5. grant' \in GrantRow /\ GrantSound'
  BY <1>3, GrantKept
<1>6. ex.pc \in Settled /\ ex' = [ex EXCEPT !.pc = "released"]
  BY DEF ReleaseCandidate, Settled
<1> QED
  BY <1>4, <1>5, <1>6, SettlesOn DEF ReleaseCandidate

\* RevokeCandidate preserves the invariant.
LEMMA RevokeCandidateKeeps == ASSUME VisionInv, RevokeCandidate PROVE VisionInv'
<1>1. UNCHANGED <<arms, outbound, grant, review, issuedGrants>>
  BY DEF RevokeCandidate, policyVars
<1>2. cand' \in CandRow /\ CandSound'
  <2>1. CASE cand' = cand
    BY <1>1, <2>1 DEF VisionInv, SlotsTyped, CandSound, Seen
  <2>2. CASE cand' # cand
    <3>1. cand' = NoCand
      BY <2>2 DEF RevokeCandidate, Revoked
    <3>2. cand'.id = 0 /\ cand'.leased = FALSE /\ cand' \in CandRow
      BY <3>1, VisionNumbers DEF NoCand, CandRow, VisionInv
    <3> QED
      BY <3>2 DEF CandSound
  <2> QED
    BY <2>1, <2>2
<1>3. grant' \in GrantRow /\ GrantSound'
  BY <1>1, GrantKept
<1>4. ex.pc \in Settled /\ ex' = [ex EXCEPT !.pc = "revoked"]
  BY DEF RevokeCandidate, Settled
<1> QED
  BY <1>2, <1>3, <1>4, SettlesOn DEF RevokeCandidate

\* ClearReview preserves the invariant.
LEMMA ClearReviewKeeps == ASSUME VisionInv, ClearReview PROVE VisionInv'
<1>1. /\ ex' = NotExecuting /\ review' = NoReview
      /\ UNCHANGED <<screen, disarming, gate, arms, outbound, dest, cand, grant, preps,
                     issuedGrants, pr, sent, observed>>
  BY DEF ClearReview, policyVars, history
<1>2. ex'.pc = "idle" /\ ex'.stage = "none" /\ ex'.id = 0 /\ ex' \in ExecuteRow /\ ~ex'.fresh
  BY <1>1, IdleExecution, IdleExecutionTyped
<1>3. review'.st = "Empty" /\ review'.id = 0 /\ review' \in ReviewRow
  BY <1>1, EmptyReview, EmptyReviewTyped
<1>4. /\ SettingsTyped' /\ CandSound' /\ GrantSound' /\ SentUnderConsent'
           /\ OneConfirmationPerPicture'
  BY <1>1 DEF VisionInv, SettingsTyped, CandSound, Seen, GrantSound, SentUnderConsent,
     OneConfirmationPerPicture
<1>5. SlotsTyped'
  BY <1>1, <1>2, <1>3
     DEF VisionInv, SlotsTyped, CandRow, GrantRow, ReviewRow, PrepareRow, ExecuteRow
<1>6. ReviewSound' /\ CommittedIsBound' /\ ExecuteSound' /\ GuardSound' /\ LeaseKeepsPicture'
  BY <1>2, <1>3
     DEF ReviewSound, CommittedIsBound, ExecuteSound, Settled, GuardSound, LeaseKeepsPicture
<1>7. UncommittedSound' /\ CommittedSound'
  BY <1>2 DEF UncommittedSound, Uncommitted, CommittedSound
<1>8. PrepareSound'
  BY <1>1, <1>2, <1>3, ReviewOf DEF PrepareSound, Seen
<1>9. SentSound' /\ ObservedSound'
  BY <1>1, <1>3, ReviewOf DEF SentSound, ObservedSound
<1> QED
  BY <1>4, <1>5, <1>6, <1>7, <1>8, <1>9 DEF VisionInv

\* A step of something else preserves the invariant.
LEMMA VisionStutters == ASSUME VisionInv, UNCHANGED visionVars PROVE VisionInv'
<1>1. ex' = ex /\ UNCHANGED <<policyVars, slots, preps, issuedGrants, pr, history>>
  BY DEF visionVars
<1>2. UNCHANGED <<disarming, gate, arms, outbound, cand, grant, review, preps, sent, observed>>
  BY <1>1 DEF policyVars, slots, history
<1>3. ex' \in ExecuteRow /\ (pr.pc # "idle" => ex'.id # pr.n)
  BY <1>1, ExecuteOf
<1>4. ExecuteSound' /\ UncommittedSound' /\ CommittedSound' /\ GuardSound' /\ LeaseKeepsPicture'
  BY <1>1, <1>2, ExecuteOf DEF ExecuteSound, Seen, UncommittedSound, Uncommitted, CommittedSound,
     ReviewIsMine, GuardSound, LeaseKeepsPicture
<1> QED
  BY <1>1, <1>3, <1>4, ExecuteGoes

\* Every step preserves the invariant.
LEMMA VisionStep == VisionInv /\ [VisionNext]_visionVars => VisionInv'
<1> SUFFICES ASSUME VisionInv, [VisionNext]_visionVars PROVE VisionInv'
  OBVIOUS
<1>1. CASE Time
  BY <1>1, AgeCandidateKeeps, AgeReviewKeeps, AgeGrantKeeps DEF Time
<1>2. CASE Settings
  BY <1>2, SettingsKeep
<1>3. CASE Prepare
  <2>1. CASE PrepareFail
    BY <2>1, PrepareEnds DEF PrepareFail
  <2> QED
    BY <1>3, <2>1, PrepareBeginKeeps, PreparePolicyKeeps, PrepareFenceKeeps, PrepareRevisionKeeps,
       PrepareInstallKeeps, PrepareResolveKeeps, InstallReadyKeeps DEF Prepare
<1>4. CASE Status
  BY <1>4, ReviewDropped DEF Status
<1>5. CASE ExecuteBegin
  BY <1>5, ExecuteBeginKeeps
<1>6. CASE ExecuteStep
  <2>1. CASE NoAnswer
    BY <2>1, GiveUpKeeps DEF NoAnswer
  <2> QED
    BY <1>6, <2>1, ExecuteResolveKeeps, ExecuteLeaseKeeps, ReadsKeep, IssueVisionGrantKeeps,
       ClaimGrantKeeps, ExecuteCommitKeeps, ExecuteEncodeKeeps, GuardReviewKeeps, GuardBoundKeeps,
       SendKeeps, AnswerKeeps, RetireGrantKeeps, ReleaseCandidateKeeps, RevokeCandidateKeeps,
       ClearReviewKeeps DEF ExecuteStep
<1>7. CASE Abandon
  BY <1>7, AbandonKeeps
<1>8. CASE UNCHANGED visionVars
  BY <1>8, VisionStutters
<1> QED
  BY <1>1, <1>2, <1>3, <1>4, <1>5, <1>6, <1>7, <1>8 DEF VisionNext

\* The invariant implies the safety of the delivery.
LEMMA VisionInvImplies == VisionInv => VisionSafe
<1> SUFFICES ASSUME VisionInv PROVE VisionSafe
  OBVIOUS
<1>1. 0 .. arms \subseteq 0 .. MaxArms
  BY VisionNumbers DEF VisionInv, SettingsTyped
<1>2. VisionTypeOK
  <2>1. cand \in [id : 0 .. preps, fence : 0 .. MaxArms, rev : 0 .. MaxPolicyRev,
                  leased : BOOLEAN, old : BOOLEAN]
    BY <1>1 DEF VisionInv, SlotsTyped, CandRow
  <2>2. grant \in [st : {"Empty", "Ready", "Bound", "Consumed"}, id : 0 .. issuedGrants,
                   att : Attempts \cup {None}, cand : 0 .. preps,
                   dest : Destinations \cup {None}, fence : 0 .. MaxArms, rev : 0 .. MaxPolicyRev,
                   old : BOOLEAN]
    BY <1>1 DEF VisionInv, SlotsTyped, GrantRow
  <2>3. review \in ReviewRow
    BY ReviewOf
  <2>4. pr.n \in 0 .. preps /\ ex.id \in 0 .. preps /\ ex.grant \in 0 .. issuedGrants
    BY DEF VisionInv, SlotsTyped, PrepareRow, ExecuteRow
  <2>5. cand.leased => cand.id # 0
    BY DEF VisionInv, CandSound
  <2>6. issuedGrants \in 0 .. preps
    BY DEF VisionInv, SlotsTyped
  <2>7. /\ screen \in [on : BOOLEAN, rev : 2 .. MaxPolicyRev] /\ disarming \in BOOLEAN
        /\ arms \in 0 .. MaxArms /\ gate \in 0 .. arms
        /\ outbound \in [on : BOOLEAN, rev : 2 .. MaxPolicyRev] /\ dest \in Destinations
        /\ preps \in 0 .. MaxPreps
    BY Zenon DEF VisionInv, SettingsTyped
  <2> QED
    BY <2>1, <2>2, <2>3, <2>4, <2>5, <2>6, <2>7, Zenon DEF VisionTypeOK, ReviewRow
<1> QED
  BY <1>2 DEF VisionInv, VisionSafe

\* Whatever is revoked, retried, abandoned or prepared anew, and between which steps of the
\* two threads: a picture is sent only under the consent that was current when its last
\* guard began, under one attempt, one grant and to one destination; its lease keeps it in
\* the slot; and a committed review and its grant agree.
THEOREM SentAsConfirmed == VisionSpec => []VisionSafe
<1>1. VisionInit => VisionInv
  BY InitVision
<1>2. VisionInv /\ [VisionNext]_visionVars => VisionInv'
  BY VisionStep
<1>3. VisionInv => VisionSafe
  BY VisionInvImplies
<1> QED
  BY <1>1, <1>2, <1>3, PTL DEF VisionSpec

\* Once the status of a response is recorded for a picture, no step sends it again.
THEOREM NoResendHolds == VisionSpec => NoResendAfterObserved
<1>1. VisionInv => (ex.pc = "send" => ex.id \notin observed)
  <2> SUFFICES ASSUME VisionInv, ex.pc = "send" PROVE ex.id \notin observed
    OBVIOUS
  <2>1. review.st = "Committed" /\ review.id = ex.id
    BY ServedOf DEF Settled
  <2> QED
    BY <2>1, ReviewOf DEF ObservedSound
<1>2. VisionInv /\ [VisionNext]_visionVars
        => [ex.pc = "send" /\ ex'.pc = "sent" => ex.id \notin observed]_visionVars
  BY <1>1
<1>3. VisionInit => VisionInv
  BY InitVision
<1>4. VisionInv /\ [VisionNext]_visionVars => VisionInv'
  BY VisionStep
<1> QED
  BY <1>2, <1>3, <1>4, PTL DEF VisionSpec, NoResendAfterObserved

-----------------------------------------------------------------------------
(* The replacement of a file and its recovery *)

\* The steps of the worker of a replacement.
TxLabels == {IdlePc} \cup Preparing \cup Working \cup EndStates
\* The row of a replacement,
TxRow == [pc : TxLabels, obj : Objects \cup {NoFile}, expect : AnyContent, repl : AnyContent,
          cancelled : BOOLEAN, wrote : BOOLEAN, outcome : Outcomes]
\* of the executor of a recovery,
RecRow == [pc : RecStates, of : Txs \cup {NoOne}, cur : AnyContent, rev : Nat]
\* the journal of a replacement,
JournalRow == [state : FileStates, before : AnyContent]
\* and its three markers.
MarkerRow == [Markers -> FileStates]

\* Types of the files, the handles and the rows.
RecoveryTyped ==
  /\ bound \in Objects \cup {NoFile} /\ content \in [Objects -> AnyContent]
  /\ held \in [Objects -> Txs \cup Recoverers \cup {NoOne}]
  /\ journal \in [Txs -> JournalRow] /\ marker \in [Txs -> MarkerRow]
  /\ tx \in [Txs -> TxRow] /\ rec \in [Recoverers -> RecRow]
  /\ authority \in [enabled : BOOLEAN, revision : Nat]

\* An exclusive handle is open exactly while its owner is inside its native call.
HandlesSound ==
  /\ \A x \in Txs, o \in Objects : held[o] = x <=> tx[x].pc \in Holding /\ tx[x].obj = o
  /\ \A q \in Recoverers, o \in Objects :
       held[o] = q <=> rec[q].pc \in RecHolding /\ tx[rec[q].of].obj = o

\* Answers that say nothing was written, or no recovery is needed.
TruthfulRow(t, m) ==
  t.pc = "done" =>
    /\ t.outcome.kind \in {"denied", "conflict", "error"} => ~t.wrote
    /\ t.outcome.kind \in {"denied", "conflict", "error"} /\ t.outcome.recovery = "none"
         => m["started"] = "absent"
    /\ t.outcome.kind = "committed" => t.wrote /\ m["committed"] = "valid" /\ m["started"] = "valid"

\* The row t of a replacement, its journal j and its markers m.
TxSound(t, j, m) ==
  /\ t.pc # IdlePc => t.obj \in Objects
  /\ t.pc \in {IdlePc, "granted", "admitted"} => j.state = "absent"
  /\ t.pc = "creating" => j.state = "torn"
  /\ t.pc \in Working \ {"admitted", "creating"} => j.state = "valid"
  /\ j.state # "valid" => m["started"] = "absent"
  /\ m["started"] # "valid" => m["committed"] = "absent" /\ m["recovered"] = "absent"
  /\ t.pc \in {"prepared", "opened"} => m["started"] = "absent"
  /\ t.pc = "starting" => m["started"] \in {"absent", "torn"}
  /\ t.pc \in {"started", "writing", "written"}
       => m["started"] = "valid" /\ m["committed"] = "absent"
  /\ t.pc = "committing" => m["started"] = "valid" /\ m["committed"] \in {"absent", "torn"}
  /\ t.pc \in {IdlePc, "failed"} \cup Preparing \cup {"prepared", "opened", "starting", "started"}
       => ~t.wrote
  /\ t.pc \in {"writing", "written", "committing"} => t.wrote
  /\ TruthfulRow(t, m)

\* An executor works on a replacement that has begun, and has created the .recovered file
\* before it completes it.
RecSound(q) ==
  /\ rec[q].pc # IdlePc =>
       /\ rec[q].of \in Txs /\ journal[rec[q].of].state = "valid"
       /\ marker[rec[q].of]["started"] = "valid"
  /\ rec[q].pc = "marked" => marker[rec[q].of]["recovered"] = "torn"

\* A start whose end is not known to be on disk.
OpenRow(j, m) ==
  /\ j.state = "valid" /\ m["started"] = "valid"
  /\ m["committed"] # "valid" /\ m["recovered"] # "valid"

\* The replacement x is open.
Open(x) == OpenRow(journal[x], marker[x])

\* It is alone on its target.
OpenAlone ==
  \A x, y \in Txs :
    x # y /\ tx[x].obj = tx[y].obj /\ Open(x) => ~Open(y) /\ tx[y].pc # "starting"

\* No two executors complete the same .recovered file.
MarkedAlone ==
  \A q, r \in Recoverers :
    rec[q].pc = "marked" /\ rec[r].pc = "marked" /\ rec[q].of = rec[r].of => q = r

\* The inductive invariant for any executors.
RecoveryInv ==
  /\ RecoveryTyped /\ HandlesSound
  /\ \A x \in Txs : TxSound(tx[x], journal[x], marker[x])
  /\ \A q \in Recoverers : RecSound(q)
  /\ OpenAlone /\ MarkedAlone

-----------------------------------------------------------------------------
\* The hypothesis on which a torn file can be restored: recovery is asked when the
\* replacement has ended, and one executor carries it out.
OneRecovery == ~LiveRecovery /\ \A q, r \in Recoverers : q = r

\* What the worker of a replacement knows of the bytes on disk.
BytesRow(t, j, m, c) ==
  /\ m["recovered"] # "absent" => t.pc \in EndStates
  /\ t.pc \in {"creating", "prepared"} \cup Holding => j.before = t.expect
  /\ m["started"] # "absent" \/ t.pc = "starting" => j.before # Torn
  /\ t.pc \in {"opened", "starting", "started"} => c[t.obj] = t.expect
  /\ t.pc = "writing" => c[t.obj] = Torn
  /\ t.repl \in FileContents \/ t.pc = IdlePc

\* An executor works on a replacement that has ended and has no end on disk.  Under its
\* handle the bytes are those that were confirmed, and once they are restored they are whole.
RestoreSound(q) ==
  /\ rec[q].pc # IdlePc =>
       /\ tx[rec[q].of].pc \in EndStates
       /\ marker[rec[q].of]["committed"] = "absent"
       /\ rec[q].pc # "marked" => marker[rec[q].of]["recovered"] = "absent"
  /\ rec[q].pc = "open" => content[tx[rec[q].of].obj] = rec[q].cur
  /\ rec[q].pc \in {"restored", "marking", "marked"} => content[tx[rec[q].of].obj] # Torn

\* It has begun and has no end.
RequiredRow(j, m) ==
  /\ j.state = "valid" /\ m["started"] = "valid"
  /\ m["committed"] = "absent" /\ m["recovered"] = "absent"

\* The replacement that a half-written file is to be recovered from.
TornBy(x, o) ==
  /\ tx[x].obj = o /\ RequiredRow(journal[x], marker[x]) /\ tx[x].pc \in {"writing"} \cup EndStates

\* A half-written file has such a replacement.
TornSound == \A o \in Objects : content[o] = Torn => \E x \in Txs : TornBy(x, o)

\* The inductive invariant for one executor.
RestoreInv ==
  /\ RecoveryInv
  /\ \A x \in Txs : BytesRow(tx[x], journal[x], marker[x], content)
  /\ \A q \in Recoverers : RestoreSound(q)
  /\ TornSound

\* Nobody is two of these.
LEMMA Persons ==
  /\ \A x \in Txs : x # NoOne /\ x \notin Recoverers
  /\ \A q \in Recoverers : q # NoOne /\ q \notin Txs
  /\ Torn \notin FileContents /\ NoFile \notin Objects
BY ConstantsAssumption

\* The answers a caller gets.
LEMMA OutcomesOf ==
  /\ {CommitUnknown, LifecycleUnknown, CommittedOutcome, Error, NoOutcome,
      Denied("none"), Denied("required"), Conflict("none"), Conflict("required")} \subseteq Outcomes
  /\ CommitUnknown.kind = "unknown" /\ LifecycleUnknown.kind = "lifecycle"
  /\ CommittedOutcome.kind = "committed" /\ Error.kind = "error"
  /\ \A r : Denied(r).kind = "denied" /\ Denied(r).recovery = r
  /\ \A r : Conflict(r).kind = "conflict" /\ Conflict(r).recovery = r
<1>1. /\ CommitUnknown.kind = "unknown" /\ LifecycleUnknown.kind = "lifecycle"
      /\ CommittedOutcome.kind = "committed" /\ Error.kind = "error"
  BY DEF CommitUnknown, LifecycleUnknown, CommittedOutcome, Error
<1>2. /\ \A r : Denied(r).kind = "denied" /\ Denied(r).recovery = r
      /\ \A r : Conflict(r).kind = "conflict" /\ Conflict(r).recovery = r
  BY DEF Denied, Conflict
<1>3. {CommitUnknown, LifecycleUnknown, CommittedOutcome, Error, NoOutcome} \subseteq Outcomes
  BY Zenon DEF Outcomes
<1>4. \A r \in {"none", "required"} : Denied(r) \in Outcomes /\ Conflict(r) \in Outcomes
  BY Zenon DEF Outcomes
<1> QED
  BY <1>1, <1>2, <1>3, <1>4

\* What the invariant says of a replacement.
LEMMA TxOf ==
  ASSUME RecoveryInv, NEW x \in Txs
  PROVE  /\ tx[x] \in TxRow /\ journal[x] \in JournalRow /\ marker[x] \in MarkerRow
         /\ TxSound(tx[x], journal[x], marker[x])
BY DEF RecoveryInv, RecoveryTyped

\* It includes the types.
LEMMA RecoveryTypes ==
  ASSUME RecoveryInv
  PROVE  RecoveryTyped
BY DEF RecoveryInv

\* What TxState tells of the files.
LEMMA StateOf ==
  ASSUME RecoveryTyped, NEW x \in Txs
  PROVE  /\ TxState(x) = "required" <=> RequiredRow(journal[x], marker[x])
         /\ TxState(x) = "prepared" =>
              journal[x].state = "valid" /\ \A k \in Markers : marker[x][k] = "absent"
         /\ TxState(x) = "committed" => marker[x]["committed"] = "valid"
         /\ Open(x) => TxState(x) \in {"required", "poisoned"} /\ x \in On(tx[x].obj)
<1>1. PICK m : m = marker[x]
  OBVIOUS
<1>2. /\ m \in MarkerRow /\ m["started"] \in FileStates /\ m["committed"] \in FileStates
      /\ m["recovered"] \in FileStates
  BY <1>1 DEF RecoveryTyped, MarkerRow, Markers
<1>3. TornMarker(x) <=> m["started"] = "torn" \/ m["committed"] = "torn" \/ m["recovered"] = "torn"
  BY <1>1 DEF TornMarker, Markers
<1>4. /\ "started" \in Present(x) <=> m["started"] = "valid"
      /\ "committed" \in Present(x) <=> m["committed"] = "valid"
      /\ "recovered" \in Present(x) <=> m["recovered"] = "valid"
      /\ \A k \in Present(x) : k \in {"started", "committed", "recovered"}
  BY <1>1 DEF Present, Markers
<1>5. PICK p : p = Present(x)
  OBVIOUS
<1>6. /\ p = {} <=> m["started"] # "valid" /\ m["committed"] # "valid" /\ m["recovered"] # "valid"
      /\ p = {"started"} <=> m["started"] = "valid" /\ m["committed"] # "valid"
           /\ m["recovered"] # "valid"
      /\ p = {"started", "committed"} => m["committed"] = "valid"
      /\ p = {"started", "recovered"} => m["recovered"] = "valid"
  <2>1. /\ "started" \in p <=> m["started"] = "valid"
        /\ "committed" \in p <=> m["committed"] = "valid"
        /\ "recovered" \in p <=> m["recovered"] = "valid"
        /\ \A k \in p : k \in {"started", "committed", "recovered"}
    BY <1>4, <1>5
  <2> HIDE <1>5
  <2>2. p = {} <=> "started" \notin p /\ "committed" \notin p /\ "recovered" \notin p
    BY <2>1
  <2>3. p = {"started"} <=> "started" \in p /\ "committed" \notin p /\ "recovered" \notin p
    BY <2>1
  <2> QED
    BY <2>1, <2>2, <2>3
<1>7. TxState(x) = IF journal[x].state # "valid" THEN "none"
                   ELSE IF TornMarker(x) THEN "poisoned"
                   ELSE CASE p = {}                       -> "prepared"
                          [] p = {"started"}              -> "required"
                          [] p = {"started", "committed"} -> "committed"
                          [] p = {"started", "recovered"} -> "recovered"
                          [] OTHER                        -> "poisoned"
  BY <1>5 DEF TxState
<1> QED
  BY <1>1, <1>2, <1>3, <1>6, <1>7
     DEF RequiredRow, Open, OpenRow, On, Markers, FileStates

\* Only the worker of x moves: its row becomes t.
TxMoves(x, t) ==
  /\ tx' \in [Txs -> TxRow] /\ tx'[x] = t /\ \A y \in Txs \ {x} : tx'[y] = tx[y]
\* Only the journal of x changes, and becomes j.
JournalMoves(x, j) ==
  /\ journal' \in [Txs -> JournalRow] /\ journal'[x] = j
  /\ \A y \in Txs \ {x} : journal'[y] = journal[y]
\* Only the markers of x change, and become m.
MarkersMove(x, m) ==
  /\ marker' \in [Txs -> MarkerRow] /\ marker'[x] = m
  /\ \A y \in Txs \ {x} : marker'[y] = marker[y]

\* The handles after a step of a, which holds h or, if h is no object, nothing.
HandlesMove(a, h) ==
  /\ held' \in [Objects -> Txs \cup Recoverers \cup {NoOne}]
  /\ \A o \in Objects : held'[o] = a <=> o = h
  /\ \A o \in Objects : held'[o] = held[o] \/ (held'[o] = NoOne /\ held[o] = a)
                        \/ (held'[o] = a /\ held[o] = NoOne)

\* The object a row holds.
HeldBy(t) == IF t.pc \in Holding THEN t.obj ELSE NoFile

\* A step of one worker preserves the invariant when its row, journal and markers are sound
\* after it and it begins no second open replacement of a target.
LEMMA WorkerMoves ==
  ASSUME RecoveryInv, NEW x \in Txs, NEW t \in TxRow, NEW j \in JournalRow, NEW m \in MarkerRow,
         TxMoves(x, t), JournalMoves(x, j), MarkersMove(x, m), UNCHANGED <<bound, rec, authority>>,
         content' \in [Objects -> AnyContent], HandlesMove(x, HeldBy(t)),
         TxSound(t, j, m),
         tx[x].pc # IdlePc => t.obj = tx[x].obj,
         journal[x].state = "valid" => j.state = "valid",
         marker[x]["started"] = "valid" => m["started"] = "valid",
         m["recovered"] = marker[x]["recovered"],
         OpenRow(j, m) => Open(x) \/ tx[x].pc = "starting",
         t.pc = "starting" => tx[x].pc = "starting"
                              \/ \A y \in Txs \ {x} : tx[y].obj = t.obj => ~Open(y)
  PROVE  RecoveryInv'
<1>1. RecoveryTyped'
  BY DEF RecoveryInv, RecoveryTyped, TxMoves, JournalMoves, MarkersMove, HandlesMove
<1>2. \A y \in Txs \ {x} : tx'[y] = tx[y] /\ journal'[y] = journal[y] /\ marker'[y] = marker[y]
  BY DEF TxMoves, JournalMoves, MarkersMove
<1>3. tx'[x] = t /\ journal'[x] = j /\ marker'[x] = m
  BY DEF TxMoves, JournalMoves, MarkersMove
<1>4. \A y \in Txs : TxSound(tx'[y], journal'[y], marker'[y])
  BY <1>2, <1>3 DEF RecoveryInv
<1>5. \A y \in Txs : tx[y].pc # IdlePc => tx'[y].obj = tx[y].obj
  BY <1>2, <1>3
<1>6. \A y \in Txs : journal[y].state = "valid" => tx[y].pc # IdlePc
  BY DEF RecoveryInv, TxSound
<1>7. \A q \in Recoverers : RecSound(q)'
  <2>1. \A y \in Txs : /\ journal[y].state = "valid" => journal'[y].state = "valid"
                       /\ marker[y]["started"] = "valid" => marker'[y]["started"] = "valid"
                       /\ marker'[y]["recovered"] = marker[y]["recovered"]
    BY <1>2, <1>3
  <2> SUFFICES ASSUME NEW q \in Recoverers PROVE RecSound(q)'
    OBVIOUS
  <2>2. RecSound(q) /\ rec' = rec
    BY DEF RecoveryInv
  <2> QED
    BY <2>1, <2>2 DEF RecSound, IdlePc
<1>8. HandlesSound'
  <2>1. ASSUME NEW y \in Txs, NEW o \in Objects
        PROVE  held'[o] = y <=> tx'[y].pc \in Holding /\ tx'[y].obj = o
    <3>1. CASE y = x
      BY <1>3, <2>1, <3>1, Persons DEF HandlesMove, HeldBy
    <3>2. CASE y # x
      BY <1>2, <2>1, <3>2, Persons DEF HandlesMove, RecoveryInv, HandlesSound
    <3> QED
      BY <3>1, <3>2
  <2>2. ASSUME NEW q \in Recoverers, NEW o \in Objects
        PROVE  held'[o] = q <=> rec'[q].pc \in RecHolding /\ tx'[rec'[q].of].obj = o
    <3>1. held'[o] = q <=> held[o] = q
      BY <2>2, Persons DEF HandlesMove
    <3>2. rec[q].pc \in RecHolding => tx'[rec[q].of].obj = tx[rec[q].of].obj
      BY <1>5, <1>6, <2>2 DEF RecoveryInv, RecSound, RecHolding, IdlePc
    <3> QED
      BY <2>2, <3>1, <3>2 DEF RecoveryInv, HandlesSound
  <2> QED
    BY <2>1, <2>2 DEF HandlesSound
<1>9. OpenAlone'
  <2>1. ASSUME NEW y \in Txs, NEW z \in Txs, y # z, tx'[y].obj = tx'[z].obj, Open(y)'
        PROVE  ~Open(z)' /\ tx'[z].pc # "starting"
    <3>1. \A w \in Txs \ {x} : Open(w)' <=> Open(w)
      BY <1>2 DEF Open
    <3>2. Open(x)' => Open(x) \/ tx[x].pc = "starting"
      BY <1>3 DEF Open
    <3>3. Open(x) => tx[x].pc # IdlePc
      BY <1>6 DEF Open, OpenRow
    <3>4. tx[x].pc = "starting" => \A w \in Txs \ {x} : tx[w].obj = tx[x].obj
            => tx[w].pc # "starting"
      <4> SUFFICES ASSUME tx[x].pc = "starting", NEW w \in Txs \ {x}, tx[w].obj = tx[x].obj,
                          tx[w].pc = "starting"
                   PROVE  FALSE
        OBVIOUS
      <4>1. tx[x].obj \in Objects
        BY TxOf DEF TxSound, IdlePc
      <4>2. held[tx[x].obj] = x /\ held[tx[x].obj] = w
        BY <4>1 DEF RecoveryInv, HandlesSound, Holding
      <4> QED
        BY <4>2
    <3>5. CASE y = x
      <4>1. t.obj = tx[x].obj /\ tx[z].obj = tx[x].obj /\ z \in Txs \ {x}
        BY <1>2, <1>3, <2>1, <3>2, <3>3, <3>5 DEF IdlePc
      <4>2. ~Open(z) /\ tx[z].pc # "starting"
        BY <2>1, <3>2, <3>4, <3>5, <4>1 DEF RecoveryInv, OpenAlone
      <4> QED
        BY <1>2, <3>1, <4>1, <4>2
    <3>6. CASE z = x
      <4>1. Open(y) /\ y \in Txs \ {x} /\ tx'[y] = tx[y] /\ tx[y].obj = t.obj
        BY <1>2, <1>3, <2>1, <3>1, <3>6
      <4>2. Open(x) \/ tx[x].pc = "starting" => FALSE
        <5> SUFFICES ASSUME Open(x) \/ tx[x].pc = "starting" PROVE FALSE
          OBVIOUS
        <5>1. tx[x].obj = tx[y].obj
          BY <3>3, <4>1 DEF IdlePc
        <5> QED
          BY <4>1, <5>1 DEF RecoveryInv, OpenAlone
      <4> QED
        BY <1>3, <3>2, <3>6, <4>1, <4>2
    <3>7. CASE y # x /\ z # x
      BY <1>2, <2>1, <3>1, <3>7 DEF RecoveryInv, OpenAlone
    <3> QED
      BY <3>5, <3>6, <3>7
  <2> QED
    BY <2>1 DEF OpenAlone
<1>10. MarkedAlone'
  BY DEF RecoveryInv, MarkedAlone
<1> QED
  BY <1>1, <1>4, <1>7, <1>8, <1>9, <1>10 DEF RecoveryInv

\* The row of a worker that goes to another step.
SameRow(t, s) ==
  /\ t.obj = s.obj /\ t.expect = s.expect /\ t.repl = s.repl /\ t.cancelled = s.cancelled
  /\ t.wrote = s.wrote

\* The row after a worker has gone to another step,
LEMMA ToRow ==
  ASSUME RecoveryTyped, NEW x \in Txs, NEW p \in TxLabels, To(x, p)
  PROVE  \E t \in TxRow : TxMoves(x, t) /\ t.pc = p /\ SameRow(t, tx[x])
           /\ t.outcome = tx[x].outcome
<1>1. PICK s : s = tx[x]
  OBVIOUS
<1>2. s \in TxRow
  BY <1>1 DEF RecoveryTyped
<1>3. PICK t : t = [s EXCEPT !.pc = p]
  OBVIOUS
<1>4. t \in TxRow /\ t.pc = p /\ SameRow(t, s) /\ t.outcome = s.outcome
  BY <1>2, <1>3 DEF TxRow, SameRow
<1>5. tx' = [tx EXCEPT ![x] = t]
  BY <1>1, <1>3 DEF To
<1>6. TxMoves(x, t)
  BY <1>4, <1>5 DEF TxMoves, RecoveryTyped
<1> QED
  BY <1>1, <1>4, <1>6

\* and after it has returned.
LEMMA ReturnsRow ==
  ASSUME RecoveryTyped, NEW x \in Txs, NEW r \in Outcomes, Returns(x, r)
  PROVE  \E t \in TxRow : TxMoves(x, t) /\ t.pc = "done" /\ SameRow(t, tx[x]) /\ t.outcome = r
<1>1. PICK s : s = tx[x]
  OBVIOUS
<1>2. s \in TxRow
  BY <1>1 DEF RecoveryTyped
<1>3. PICK t : t = [s EXCEPT !.pc = "done", !.outcome = r]
  OBVIOUS
<1>4. t \in TxRow /\ t.pc = "done" /\ SameRow(t, s) /\ t.outcome = r
  BY <1>2, <1>3 DEF TxRow, SameRow, TxLabels, EndStates
<1>5. tx' = [tx EXCEPT ![x] = t]
  BY <1>1, <1>3 DEF Returns
<1>6. TxMoves(x, t)
  BY <1>4, <1>5 DEF TxMoves, RecoveryTyped
<1> QED
  BY <1>1, <1>4, <1>6

\* The handles after their owner has closed its own.
LEMMA ClosingHandles ==
  ASSUME RecoveryTyped, NEW a \in Txs \cup Recoverers, ClosesHandle(a)
  PROVE  HandlesMove(a, NoFile)
BY Persons DEF ClosesHandle, HandlesMove, RecoveryTyped

\* A handle that is kept is the one its owner has by now.
LEMMA KeepingHandles ==
  ASSUME RecoveryInv, NEW x \in Txs, UNCHANGED held
  PROVE  HandlesMove(x, HeldBy(tx[x]))
<1>1. tx[x].pc \in Holding => tx[x].obj \in Objects
  BY TxOf DEF TxSound, Holding, IdlePc
<1> QED
  BY <1>1, Persons DEF HandlesMove, HeldBy, RecoveryInv, RecoveryTyped, HandlesSound

\* A journal and markers that are left alone.
LEMMA SameFiles ==
  ASSUME RecoveryTyped, NEW x \in Txs
  PROVE  /\ UNCHANGED journal => JournalMoves(x, journal[x])
         /\ UNCHANGED marker => MarkersMove(x, marker[x])
BY DEF RecoveryTyped, JournalMoves, MarkersMove

\* The marker file k of x comes to the state s.
MarkerGoes(x, k, s) == marker' = [marker EXCEPT ![x][k] = s]

\* What it does to the markers.
LEMMA MarkerChanges ==
  ASSUME RecoveryTyped, NEW x \in Txs, NEW k \in Markers, NEW s \in FileStates,
         MarkerGoes(x, k, s)
  PROVE  \E m \in MarkerRow : MarkersMove(x, m) /\ m[k] = s
           /\ \A l \in Markers \ {k} : m[l] = marker[x][l]
<1>1. PICK n : n = marker[x]
  OBVIOUS
<1>2. n \in [Markers -> FileStates]
  BY <1>1 DEF RecoveryTyped, MarkerRow
<1>3. PICK m : m = [n EXCEPT ![k] = s]
  OBVIOUS
<1>4. m \in MarkerRow /\ m[k] = s /\ \A l \in Markers \ {k} : m[l] = n[l]
  BY <1>2, <1>3 DEF MarkerRow
<1>5. marker' = [marker EXCEPT ![x] = m]
  BY <1>1, <1>3 DEF MarkerGoes
<1>6. MarkersMove(x, m)
  BY <1>4, <1>5 DEF MarkersMove, RecoveryTyped
<1> QED
  BY <1>1, <1>4, <1>6

\* What a change of the journal does,
LEMMA JournalChanges ==
  ASSUME RecoveryTyped, NEW x \in Txs, NEW j \in JournalRow, journal' = [journal EXCEPT ![x] = j]
  PROVE  JournalMoves(x, j)
BY DEF JournalMoves, RecoveryTyped

\* and a change of its state.
LEMMA JournalStateChanges ==
  ASSUME RecoveryTyped, NEW x \in Txs, NEW s \in FileStates,
         journal' = [journal EXCEPT ![x].state = s]
  PROVE  \E j \in JournalRow : JournalMoves(x, j) /\ j.state = s /\ j.before = journal[x].before
<1>1. PICK n : n = journal[x]
  OBVIOUS
<1>2. n \in JournalRow
  BY <1>1 DEF RecoveryTyped
<1>3. PICK j : j = [n EXCEPT !.state = s]
  OBVIOUS
<1>4. j \in JournalRow /\ j.state = s /\ j.before = n.before
  BY <1>2, <1>3 DEF JournalRow
<1>5. journal' = [journal EXCEPT ![x] = j]
  BY <1>1, <1>3
<1> QED
  BY <1>1, <1>4, <1>5, JournalChanges

\* An answer that is true.
TruthfulAnswer(r, wrote, m) ==
  /\ r.kind \in {"denied", "conflict", "error"} => ~wrote
  /\ r.kind \in {"denied", "conflict", "error"} /\ r.recovery = "none" => m["started"] = "absent"
  /\ r.kind = "committed" => wrote /\ m["committed"] = "valid" /\ m["started"] = "valid"

\* The worker of a replacement returns.
LEMMA ReturnsKeeps ==
  ASSUME RecoveryInv, NEW x \in Txs, NEW r \in Outcomes, Returns(x, r),
         UNCHANGED <<bound, rec, authority>>, content' \in [Objects -> AnyContent],
         NEW j \in JournalRow, NEW m \in MarkerRow, JournalMoves(x, j), MarkersMove(x, m),
         tx[x].pc # IdlePc,
         journal[x].state = "valid" => j.state = "valid",
         marker[x]["started"] = "valid" => m["started"] = "valid",
         m["recovered"] = marker[x]["recovered"],
         OpenRow(j, m) => Open(x) \/ tx[x].pc = "starting",
         j.state # "valid" => m["started"] = "absent",
         m["started"] # "valid" => m["committed"] = "absent" /\ m["recovered"] = "absent",
         TruthfulAnswer(r, tx[x].wrote, m)
  PROVE  RecoveryInv'
<1>1. PICK t \in TxRow : TxMoves(x, t) /\ t.pc = "done" /\ SameRow(t, tx[x]) /\ t.outcome = r
  BY ReturnsRow, RecoveryTypes
<1>2. tx[x].obj \in Objects
  BY TxOf DEF TxSound
<1>3. TxSound(t, j, m)
  BY <1>1, <1>2
     DEF TxSound, TruthfulRow, TruthfulAnswer, SameRow, IdlePc, Working, Holding, Preparing
<1>4. HandlesMove(x, HeldBy(t))
  BY <1>1, ClosingHandles, RecoveryTypes DEF Returns, HeldBy, Holding
<1> QED
  BY <1>1, <1>3, <1>4, WorkerMoves DEF SameRow

\* It returns and leaves the recovery directory alone.
LEMMA ReturnsAsItIs ==
  ASSUME RecoveryInv, NEW x \in Txs, NEW r \in Outcomes, Returns(x, r),
         UNCHANGED <<bound, rec, authority, journal, marker>>, content' \in [Objects -> AnyContent],
         tx[x].pc # IdlePc, TruthfulAnswer(r, tx[x].wrote, marker[x])
  PROVE  RecoveryInv'
<1>1. JournalMoves(x, journal[x]) /\ MarkersMove(x, marker[x])
  BY SameFiles, RecoveryTypes
<1>2. /\ journal[x] \in JournalRow /\ marker[x] \in MarkerRow
      /\ journal[x].state # "valid" => marker[x]["started"] = "absent"
      /\ marker[x]["started"] # "valid"
           => marker[x]["committed"] = "absent" /\ marker[x]["recovered"] = "absent"
      /\ OpenRow(journal[x], marker[x]) => Open(x)
  BY TxOf DEF TxSound, Open
<1> QED
  BY <1>1, <1>2, ReturnsKeeps

\* The worker of a replacement goes to another step, with its handle or without one.
LEMMA ToKeeps ==
  ASSUME RecoveryInv, NEW x \in Txs, NEW p \in TxLabels, To(x, p),
         UNCHANGED <<bound, rec, authority>>, content' \in [Objects -> AnyContent],
         NEW j \in JournalRow, NEW m \in MarkerRow, JournalMoves(x, j), MarkersMove(x, m),
         tx[x].pc # IdlePc, p \in Working,
         \/ UNCHANGED held /\ (p \in Holding <=> tx[x].pc \in Holding)
         \/ ClosesHandle(x) /\ p \notin Holding,
         journal[x].state = "valid" => j.state = "valid",
         marker[x]["started"] = "valid" => m["started"] = "valid",
         m["recovered"] = marker[x]["recovered"],
         OpenRow(j, m) => Open(x) \/ tx[x].pc = "starting",
         \A t \in TxRow : t.pc = p /\ SameRow(t, tx[x]) => TxSound(t, j, m),
         p = "starting" => tx[x].pc = "starting"
                           \/ \A y \in Txs \ {x} : tx[y].obj = tx[x].obj => ~Open(y)
  PROVE  RecoveryInv'
<1>1. PICK t \in TxRow : TxMoves(x, t) /\ t.pc = p /\ SameRow(t, tx[x])
  BY ToRow, RecoveryTypes
<1>2. t.obj = tx[x].obj
  BY <1>1 DEF SameRow
<1>3. HandlesMove(x, HeldBy(t))
  <2>1. CASE UNCHANGED held /\ (p \in Holding <=> tx[x].pc \in Holding)
    <3>1. HeldBy(t) = HeldBy(tx[x])
      BY <1>1, <1>2, <2>1 DEF HeldBy
    <3> QED
      BY <2>1, <3>1, KeepingHandles
  <2>2. CASE ClosesHandle(x) /\ p \notin Holding
    BY <1>1, <2>2, ClosingHandles, RecoveryTypes DEF HeldBy
  <2> QED
    BY <2>1, <2>2
<1> QED
  BY <1>1, <1>2, <1>3, WorkerMoves

\* Before anything is known of a row that goes on.
LEMMA RowOf ==
  ASSUME RecoveryInv, NEW x \in Txs
  PROVE  /\ TxSound(tx[x], journal[x], marker[x]) /\ tx[x] \in TxRow
         /\ journal[x] \in JournalRow /\ marker[x] \in MarkerRow
         /\ UNCHANGED journal => JournalMoves(x, journal[x])
         /\ UNCHANGED marker => MarkersMove(x, marker[x])
         /\ UNCHANGED content => content' \in [Objects -> AnyContent]
         /\ OpenRow(journal[x], marker[x]) <=> Open(x)
BY TxOf, SameFiles, RecoveryTypes DEF Open, RecoveryTyped

\* IssueWorkspaceGrant preserves the invariant.
LEMMA IssueWorkspaceGrantKeeps ==
  ASSUME RecoveryInv, NEW x \in Txs, IssueWorkspaceGrant(x) PROVE RecoveryInv'
<1>1. /\ tx[x].pc = IdlePc /\ bound \in Objects
      /\ UNCHANGED <<bound, content, held, journal, marker, rec, authority>>
  BY DEF IssueWorkspaceGrant, RecoveryInv, RecoveryTyped
<1>2. PICK r \in FileContents :
         tx' = [tx EXCEPT ![x].pc = "granted", ![x].obj = bound,
                          ![x].expect = content[bound], ![x].repl = r]
  BY DEF IssueWorkspaceGrant
<1>3. PICK s : s = tx[x]
  OBVIOUS
<1>4. PICK o \in Objects : o = bound
  BY <1>1
<1>5. PICK c \in AnyContent : c = content[o]
  BY RecoveryTypes DEF RecoveryTyped
<1>6. PICK t : t = [s EXCEPT !.pc = "granted", !.obj = o, !.expect = c, !.repl = r]
  OBVIOUS
<1>7. s \in TxRow
  BY <1>3, RowOf
<1>8. t \in TxRow /\ t.pc = "granted" /\ t.obj = o /\ t.wrote = s.wrote
  BY <1>6, <1>7 DEF TxRow, AnyContent, TxLabels, Preparing
<1>9. tx' = [tx EXCEPT ![x] = t]
  BY <1>2, <1>3, <1>4, <1>5, <1>6
<1>10. TxMoves(x, t)
  BY <1>8, <1>9, RecoveryTypes DEF TxMoves, RecoveryTyped
<1>11. TxSound(t, journal[x], marker[x])
  BY <1>1, <1>3, <1>8, RowOf
     DEF TxSound, TruthfulRow, Working, Holding, Preparing, IdlePc, EndStates
<1>12. HandlesMove(x, HeldBy(t))
  <2>1. HeldBy(t) = NoFile /\ HeldBy(tx[x]) = NoFile
    BY <1>1, <1>8 DEF HeldBy, Holding, IdlePc
  <2> QED
    BY <1>1, <2>1, KeepingHandles
<1> QED
  BY <1>1, <1>8, <1>10, <1>11, <1>12, RowOf, WorkerMoves

\* CancelReplacement preserves the invariant.
LEMMA CancelReplacementKeeps ==
  ASSUME RecoveryInv, NEW x \in Txs, CancelReplacement(x) PROVE RecoveryInv'
<1>1. /\ tx[x].pc \in Working \cup {"granted"} /\ tx' = [tx EXCEPT ![x].cancelled = TRUE]
      /\ UNCHANGED <<bound, content, held, journal, marker, rec, authority>>
  BY DEF CancelReplacement
<1>3. PICK s : s = tx[x]
  OBVIOUS
<1>6. PICK t : t = [s EXCEPT !.cancelled = TRUE]
  OBVIOUS
<1>7. s \in TxRow
  BY <1>3, RowOf
<1>8. t \in TxRow /\ t.pc = s.pc /\ t.obj = s.obj /\ t.wrote = s.wrote /\ t.outcome = s.outcome
  BY <1>6, <1>7 DEF TxRow
<1>9. tx' = [tx EXCEPT ![x] = t]
  BY <1>1, <1>3, <1>6
<1>10. TxMoves(x, t)
  BY <1>8, <1>9, RecoveryTypes DEF TxMoves, RecoveryTyped
<1>11. TxSound(t, journal[x], marker[x])
  BY <1>3, <1>8, RowOf DEF TxSound, TruthfulRow
<1>12. HandlesMove(x, HeldBy(t))
  <2>1. HeldBy(t) = HeldBy(tx[x])
    BY <1>3, <1>8 DEF HeldBy
  <2> QED
    BY <1>1, <2>1, KeepingHandles
<1> QED
  BY <1>1, <1>3, <1>8, <1>10, <1>11, <1>12, RowOf, WorkerMoves

\* Admit preserves the invariant.
LEMMA AdmitKeeps == ASSUME RecoveryInv, NEW x \in Txs, Admit(x) PROVE RecoveryInv'
<1>1. tx[x].pc = "granted" /\ UNCHANGED <<bound, content, journal, marker, rec, authority>>
  BY DEF Admit
<1>2. CASE To(x, "admitted") /\ UNCHANGED held
  BY <1>1, <1>2, RowOf, ToKeeps
     DEF TxSound, TruthfulRow, SameRow, TxLabels, Working, Holding, Preparing, IdlePc, EndStates
<1>3. CASE Returns(x, Error)
  <2>1. TruthfulAnswer(Error, tx[x].wrote, marker[x])
    BY <1>1, RowOf, OutcomesOf DEF TruthfulAnswer, TxSound, Preparing
  <2> QED
    BY <1>1, <1>3, <2>1, RowOf, OutcomesOf, ReturnsAsItIs DEF IdlePc
<1> QED
  BY <1>2, <1>3 DEF Admit

\* CreateJournal preserves the invariant.
LEMMA CreateJournalKeeps == ASSUME RecoveryInv, NEW x \in Txs, CreateJournal(x) PROVE RecoveryInv'
<1>1. tx[x].pc = "admitted" /\ UNCHANGED <<bound, content, marker, rec, authority>>
  BY DEF CreateJournal
<1>2. CASE /\ journal' = [journal EXCEPT ![x] = [state |-> "torn", before |-> content[tx[x].obj]]]
           /\ To(x, "creating") /\ UNCHANGED held
  <2>1. tx[x].obj \in Objects
    BY <1>1, RowOf DEF TxSound, IdlePc
  <2>2. PICK b \in AnyContent : b = content[tx[x].obj]
    BY <2>1, RecoveryTypes DEF RecoveryTyped
  <2>3. PICK j : j = [state |-> "torn", before |-> b]
    OBVIOUS
  <2>4. j \in JournalRow /\ j.state = "torn"
    BY <2>3 DEF JournalRow, FileStates
  <2>5. JournalMoves(x, j)
    BY <1>2, <2>2, <2>3, <2>4, JournalChanges, RecoveryTypes
  <2>6. journal[x].state = "absent" /\ ~tx[x].wrote /\ marker[x]["started"] = "absent"
    BY <1>1, RowOf DEF TxSound, Preparing
  <2>7. \A t \in TxRow : t.pc = "creating" /\ SameRow(t, tx[x]) => TxSound(t, j, marker[x])
    BY <1>1, <2>1, <2>4, <2>6, RowOf
       DEF TxSound, TruthfulRow, SameRow, Working, Holding, Preparing, IdlePc, EndStates
  <2>8. ~OpenRow(j, marker[x])
    BY <2>4 DEF OpenRow
  <2>9. "creating" \in TxLabels /\ "creating" \in Working /\ "creating" \notin Holding
        /\ tx[x].pc \notin Holding /\ tx[x].pc # IdlePc
    BY <1>1 DEF TxLabels, Working, Holding, Preparing, IdlePc
  <2> QED
    BY <1>1, <1>2, <2>4, <2>5, <2>6, <2>7, <2>8, <2>9, RowOf, ToKeeps
<1>3. CASE Returns(x, Error) /\ UNCHANGED journal
  <2>1. TruthfulAnswer(Error, tx[x].wrote, marker[x])
    BY <1>1, RowOf, OutcomesOf DEF TruthfulAnswer, TxSound, Preparing
  <2> QED
    BY <1>1, <1>3, <2>1, RowOf, OutcomesOf, ReturnsAsItIs DEF IdlePc
<1> QED
  BY <1>2, <1>3 DEF CreateJournal

\* JournalWritten preserves the invariant.
LEMMA JournalWrittenKeeps ==
  ASSUME RecoveryInv, NEW x \in Txs, JournalWritten(x) PROVE RecoveryInv'
<1>1. /\ tx[x].pc = "creating" /\ UNCHANGED <<bound, content, held, marker, rec, authority>>
      /\ To(x, "prepared") /\ journal' = [journal EXCEPT ![x].state = "valid"]
  BY DEF JournalWritten
<1>2. PICK j \in JournalRow : JournalMoves(x, j) /\ j.state = "valid"
  BY <1>1, JournalStateChanges, RecoveryTypes DEF FileStates
<1>3. /\ tx[x].obj \in Objects /\ ~tx[x].wrote /\ marker[x]["started"] = "absent"
      /\ marker[x]["committed"] = "absent" /\ marker[x]["recovered"] = "absent"
  BY <1>1, RowOf DEF TxSound, Preparing, IdlePc
<1>4. \A t \in TxRow : t.pc = "prepared" /\ SameRow(t, tx[x]) => TxSound(t, j, marker[x])
  BY <1>2, <1>3 DEF TxSound, TruthfulRow, SameRow, Working, Holding, Preparing, IdlePc, EndStates
<1>5. ~OpenRow(j, marker[x])
  BY <1>3 DEF OpenRow
<1>6. "prepared" \in TxLabels /\ "prepared" \in Working /\ "prepared" \notin Holding
      /\ tx[x].pc \notin Holding /\ tx[x].pc # IdlePc
  BY <1>1 DEF TxLabels, Working, Holding, Preparing, IdlePc
<1> QED
  BY <1>1, <1>2, <1>3, <1>4, <1>5, <1>6, RowOf, ToKeeps

\* JournalFails preserves the invariant.
LEMMA JournalFailsKeeps == ASSUME RecoveryInv, NEW x \in Txs, JournalFails(x) PROVE RecoveryInv'
<1>1. /\ tx[x].pc = "creating" /\ UNCHANGED <<bound, content, marker, rec, authority>>
      /\ Returns(x, Error)
  BY DEF JournalFails
<1>2. PICK s \in FileStates : journal' = [journal EXCEPT ![x].state = s]
  BY DEF JournalFails
<1>3. PICK j \in JournalRow : JournalMoves(x, j) /\ j.state = s
  BY <1>2, JournalStateChanges, RecoveryTypes
<1>4. /\ ~tx[x].wrote /\ marker[x]["started"] = "absent" /\ journal[x].state = "torn"
      /\ marker[x]["committed"] = "absent" /\ marker[x]["recovered"] = "absent"
  BY <1>1, RowOf DEF TxSound, Preparing, IdlePc
<1>5. ~OpenRow(j, marker[x])
  BY <1>4 DEF OpenRow
<1>6. TruthfulAnswer(Error, tx[x].wrote, marker[x])
  BY <1>4, OutcomesOf DEF TruthfulAnswer
<1> QED
  BY <1>1, <1>3, <1>4, <1>5, <1>6, RowOf, OutcomesOf, ReturnsKeeps DEF IdlePc

\* A target that a scan finds clear has no other open replacement.
LEMMA ClearTarget ==
  ASSUME RecoveryTyped, NEW o, NEW E, Lifecycle(o, E) = "clear"
  PROVE  \A y \in Txs \ E : tx[y].obj = o => ~Open(y)
<1> SUFFICES ASSUME NEW y \in Txs \ E, tx[y].obj = o, Open(y) PROVE FALSE
  OBVIOUS
<1>1. TxState(y) \in {"required", "poisoned"} /\ y \in On(o)
  BY StateOf
<1>2. ~(\E z \in On(o) \ E : TxState(z) = "poisoned") /\ Required(o) \ E = {}
  BY DEF Lifecycle
<1>3. TxState(y) = "required"
  BY <1>1, <1>2
<1>4. y \in Required(o) \ E
  BY <1>1, <1>3 DEF Required
<1> QED
  BY <1>2, <1>4

\* What a marker may follow.
LEMMA MarkerFollows ==
  ASSUME RecoveryTyped, NEW x \in Txs, NEW k \in Markers, MayPersist(x, k)
  PROVE  /\ k = "started" => /\ journal[x].state = "valid"
                             /\ \A l \in Markers : marker[x][l] = "absent"
         /\ k # "started" => RequiredRow(journal[x], marker[x])
         /\ \A y \in Txs \ {x} : tx[y].obj = tx[x].obj => ~Open(y)
<1>1. Lifecycle(tx[x].obj, {x}) = "clear" /\ <<TxState(x), k>> \in LegalNext
  BY DEF MayPersist
<1>2. /\ k = "started" => TxState(x) = "prepared"
      /\ k # "started" => TxState(x) = "required"
  BY <1>1 DEF LegalNext
<1>3. \A y \in Txs \ {x} : tx[y].obj = tx[x].obj => ~Open(y)
  BY <1>1, ClearTarget
<1> QED
  BY <1>2, <1>3, StateOf

\* OpenTarget preserves the invariant.
LEMMA OpenTargetKeeps == ASSUME RecoveryInv, NEW x \in Txs, OpenTarget(x) PROVE RecoveryInv'
<1>1. tx[x].pc = "prepared" /\ UNCHANGED <<bound, content, journal, marker, rec, authority>>
  BY DEF OpenTarget
<1>2. PICK o \in Objects : o = tx[x].obj
  BY <1>1, RowOf DEF TxSound, IdlePc
<1>3. CASE \E r \in {Denied("none"), Conflict("none")} : Returns(x, r)
  <2>1. PICK r \in {Denied("none"), Conflict("none")} : Returns(x, r)
    BY <1>3
  <2>2. r \in Outcomes /\ r.kind \in {"denied", "conflict"}
    BY OutcomesOf
  <2>3. TruthfulAnswer(r, tx[x].wrote, marker[x])
    BY <1>1, <2>2, RowOf DEF TruthfulAnswer, TxSound
  <2> QED
    BY <1>1, <2>1, <2>2, <2>3, RowOf, ReturnsAsItIs DEF IdlePc
<1>4. CASE /\ ~tx[x].cancelled /\ Matches(x, o, tx[x].expect)
           /\ To(x, "opened") /\ held' = [held EXCEPT ![o] = x]
  <2>1. PICK t \in TxRow : TxMoves(x, t) /\ t.pc = "opened" /\ SameRow(t, tx[x])
    BY <1>4, ToRow, RecoveryTypes DEF TxLabels, Working, Holding
  <2>2. TxSound(t, journal[x], marker[x])
    BY <1>1, <2>1, RowOf
       DEF TxSound, TruthfulRow, SameRow, Working, Holding, Preparing, IdlePc, EndStates
  <2>3. \A p \in Objects : held[p] # x
    BY <1>1 DEF RecoveryInv, HandlesSound, Holding
  <2>4. HeldBy(t) = o /\ held[o] = NoOne /\ held \in [Objects -> Txs \cup Recoverers \cup {NoOne}]
    BY <1>2, <1>4, <2>1, RecoveryTypes DEF HeldBy, SameRow, Holding, Matches, RecoveryTyped
  <2>5. HandlesMove(x, HeldBy(t))
    BY <1>4, <2>3, <2>4 DEF HandlesMove
  <2> QED
    BY <1>1, <2>1, <2>2, <2>5, RowOf, WorkerMoves DEF SameRow
<1> QED
  BY <1>2, <1>3, <1>4 DEF OpenTarget

\* FenceCancelled preserves the invariant.
LEMMA FenceCancelledKeeps ==
  ASSUME RecoveryInv, NEW x \in Txs, FenceCancelled(x) PROVE RecoveryInv'
<1>1. /\ tx[x].pc = "opened" /\ UNCHANGED <<bound, content, journal, marker, rec, authority>>
      /\ Returns(x, Denied("none"))
  BY DEF FenceCancelled
<1>2. TruthfulAnswer(Denied("none"), tx[x].wrote, marker[x])
  BY <1>1, RowOf, OutcomesOf DEF TruthfulAnswer, TxSound
<1> QED
  BY <1>1, <1>2, RowOf, OutcomesOf, ReturnsAsItIs DEF IdlePc

\* RefusedBeforeStart preserves the invariant.
LEMMA RefusedBeforeStartKeeps ==
  ASSUME RecoveryInv, NEW x \in Txs, RefusedBeforeStart(x) PROVE RecoveryInv'
<1>1. /\ tx[x].pc \in {"prepared", "opened"}
      /\ UNCHANGED <<bound, content, journal, marker, rec, authority>>
      /\ Returns(x, Denied("none"))
  BY DEF RefusedBeforeStart
<1>2. TruthfulAnswer(Denied("none"), tx[x].wrote, marker[x])
  BY <1>1, RowOf, OutcomesOf DEF TruthfulAnswer, TxSound
<1> QED
  BY <1>1, <1>2, RowOf, OutcomesOf, ReturnsAsItIs DEF IdlePc

\* PersistStarted preserves the invariant.
LEMMA PersistStartedKeeps ==
  ASSUME RecoveryInv, NEW x \in Txs, PersistStarted(x) PROVE RecoveryInv'
<1>1. tx[x].pc = "opened" /\ UNCHANGED <<bound, content, journal, marker, rec, authority>>
  BY DEF PersistStarted
<1>2. CASE MayPersist(x, "started") /\ To(x, "starting") /\ UNCHANGED held
  <2>1. \A y \in Txs \ {x} : tx[y].obj = tx[x].obj => ~Open(y)
    BY <1>2, MarkerFollows, RecoveryTypes DEF Markers
  <2>2. \A t \in TxRow : t.pc = "starting" /\ SameRow(t, tx[x]) => TxSound(t, journal[x], marker[x])
    BY <1>1, RowOf DEF TxSound, TruthfulRow, SameRow, Working, Holding, Preparing, IdlePc, EndStates
  <2>3. "starting" \in TxLabels /\ "starting" \in Working /\ "starting" \in Holding
        /\ tx[x].pc \in Holding /\ tx[x].pc # IdlePc
    BY <1>1 DEF TxLabels, Working, Holding, IdlePc
  <2> QED
    BY <1>1, <1>2, <2>1, <2>2, <2>3, RowOf, ToKeeps
<1>3. CASE To(x, "failed") /\ ClosesHandle(x)
  <2>2. \A t \in TxRow : t.pc = "failed" /\ SameRow(t, tx[x]) => TxSound(t, journal[x], marker[x])
    BY <1>1, RowOf DEF TxSound, TruthfulRow, SameRow, Working, Holding, Preparing, IdlePc, EndStates
  <2>3. "failed" \in TxLabels /\ "failed" \in Working /\ "failed" \notin Holding
        /\ tx[x].pc # IdlePc
    BY <1>1 DEF TxLabels, Working, Holding, IdlePc
  <2> QED
    BY <1>1, <1>3, <2>2, <2>3, RowOf, ToKeeps
<1> QED
  BY <1>2, <1>3 DEF PersistStarted

\* CreateMarker preserves the invariant.
LEMMA CreateMarkerKeeps ==
  ASSUME RecoveryInv, NEW x \in Txs, CreateMarker(x) PROVE RecoveryInv'
<1>1. UNCHANGED <<bound, content, held, journal, tx, rec, authority>>
  BY DEF CreateMarker
<1>2. PICK k \in Markers :
        /\ Creates(x, k)
        /\ \/ k = "started" /\ tx[x].pc = "starting"
           \/ k = "committed" /\ tx[x].pc = "committing"
  BY DEF CreateMarker, Markers
<1>3. marker[x][k] = "absent" /\ MarkerGoes(x, k, "torn")
  BY <1>2 DEF Creates, MarkerGoes
<1>4. "torn" \in FileStates
  BY DEF FileStates
<1>5. PICK m \in MarkerRow :
        MarkersMove(x, m) /\ m[k] = "torn" /\ \A l \in Markers \ {k} : m[l] = marker[x][l]
  BY <1>3, <1>4, MarkerChanges, RecoveryTypes
<1>6. TxSound(tx[x], journal[x], m)
  BY <1>2, <1>3, <1>5, RowOf
     DEF TxSound, TruthfulRow, Markers, Working, Holding, Preparing, IdlePc, EndStates
<1>7. TxMoves(x, tx[x])
  BY <1>1, RecoveryTypes DEF TxMoves, RecoveryTyped
<1>8. HandlesMove(x, HeldBy(tx[x]))
  BY <1>1, KeepingHandles
<1>9. /\ marker[x]["started"] = "valid" => m["started"] = "valid"
      /\ m["recovered"] = marker[x]["recovered"]
      /\ OpenRow(journal[x], m) => Open(x)
  BY <1>2, <1>3, <1>5 DEF Markers, OpenRow, Open
<1>10. tx[x].pc = "starting" => tx[x].pc = "starting"
  OBVIOUS
<1> QED
  BY <1>1, <1>5, <1>6, <1>7, <1>8, <1>9, RowOf, WorkerMoves

\* StartedWritten preserves the invariant.
LEMMA StartedWrittenKeeps ==
  ASSUME RecoveryInv, NEW x \in Txs, StartedWritten(x) PROVE RecoveryInv'
<1>1. /\ tx[x].pc = "starting" /\ UNCHANGED <<bound, content, held, journal, rec, authority>>
      /\ To(x, "started") /\ MarkerGoes(x, "started", "valid")
  BY DEF StartedWritten, Completes, MarkerGoes
<1>2. "started" \in Markers /\ "valid" \in FileStates
  BY DEF Markers, FileStates
<1>3. PICK m \in MarkerRow :
        MarkersMove(x, m) /\ m["started"] = "valid"
        /\ \A l \in Markers \ {"started"} : m[l] = marker[x][l]
  BY <1>1, <1>2, MarkerChanges, RecoveryTypes
<1>4. \A t \in TxRow : t.pc = "started" /\ SameRow(t, tx[x]) => TxSound(t, journal[x], m)
  BY <1>1, <1>3, RowOf
     DEF TxSound, TruthfulRow, SameRow, Markers, Working, Holding, Preparing, IdlePc, EndStates
<1>5. "started" \in TxLabels /\ "started" \in Working /\ "started" \in Holding
      /\ tx[x].pc \in Holding /\ tx[x].pc # IdlePc
  BY <1>1 DEF TxLabels, Working, Holding, IdlePc
<1>6. m["recovered"] = marker[x]["recovered"]
  BY <1>3 DEF Markers
<1> QED
  BY <1>1, <1>3, <1>4, <1>5, <1>6, RowOf, ToKeeps

\* StartedFails preserves the invariant.
LEMMA StartedFailsKeeps ==
  ASSUME RecoveryInv, NEW x \in Txs, StartedFails(x) PROVE RecoveryInv'
<1>1. /\ tx[x].pc = "starting" /\ UNCHANGED <<bound, content, journal, rec, authority>>
      /\ To(x, "failed") /\ ClosesHandle(x)
  BY DEF StartedFails
<1>2. "started" \in Markers
  BY DEF Markers
<1>3. PICK s \in FileStates : MarkerGoes(x, "started", s)
  BY DEF StartedFails, LeavesSome, MarkerGoes
<1>4. PICK m \in MarkerRow :
        MarkersMove(x, m) /\ m["started"] = s
        /\ \A l \in Markers \ {"started"} : m[l] = marker[x][l]
  BY <1>2, <1>3, MarkerChanges, RecoveryTypes
<1>5. \A t \in TxRow : t.pc = "failed" /\ SameRow(t, tx[x]) => TxSound(t, journal[x], m)
  BY <1>1, <1>4, RowOf
     DEF TxSound, TruthfulRow, SameRow, Markers, Working, Holding, Preparing, IdlePc, EndStates
<1>6. "failed" \in TxLabels /\ "failed" \in Working /\ "failed" \notin Holding
      /\ tx[x].pc # IdlePc
  BY <1>1 DEF TxLabels, Working, Holding, IdlePc
<1>7. m["recovered"] = marker[x]["recovered"] /\ marker[x]["started"] # "valid"
  BY <1>1, <1>4, RowOf DEF Markers, TxSound
<1> QED
  BY <1>1, <1>4, <1>5, <1>6, <1>7, RowOf, ToKeeps

\* The answer after a start that could not be persisted is true.
LEMMA ReconciledIsTrue ==
  ASSUME RecoveryInv, NEW x \in Txs, tx[x].pc = "failed"
  PROVE  Reconciled(x) \in Outcomes /\ TruthfulAnswer(Reconciled(x), tx[x].wrote, marker[x])
<1>1. ~tx[x].wrote
  BY RowOf DEF TxSound
<1>2. CASE Reconciled(x) = Denied("none") /\ TxState(x) = "prepared"
  BY <1>1, <1>2, StateOf, RecoveryTypes, OutcomesOf DEF TruthfulAnswer, Markers
<1>3. CASE Reconciled(x) = Denied("required")
  BY <1>1, <1>3, OutcomesOf DEF TruthfulAnswer
<1>4. CASE Reconciled(x) = LifecycleUnknown
  BY <1>4, OutcomesOf DEF TruthfulAnswer
<1> QED
  BY <1>2, <1>3, <1>4 DEF Reconciled

\* ReconcileStarted preserves the invariant.
LEMMA ReconcileStartedKeeps ==
  ASSUME RecoveryInv, NEW x \in Txs, ReconcileStarted(x) PROVE RecoveryInv'
<1>1. tx[x].pc = "failed" /\ UNCHANGED <<bound, content, journal, marker, rec, authority>>
  BY DEF ReconcileStarted
<1>2. PICK r : r = Reconciled(x)
  OBVIOUS
<1>3. r \in Outcomes /\ TruthfulAnswer(r, tx[x].wrote, marker[x]) /\ Returns(x, r)
  BY <1>1, <1>2, ReconciledIsTrue DEF ReconcileStarted
<1> HIDE <1>2
<1> QED
  BY <1>1, <1>3, RowOf, ReturnsAsItIs DEF IdlePc

\* CancelledAfterStart preserves the invariant.
LEMMA CancelledAfterStartKeeps ==
  ASSUME RecoveryInv, NEW x \in Txs, CancelledAfterStart(x) PROVE RecoveryInv'
<1>1. /\ tx[x].pc = "started" /\ UNCHANGED <<bound, content, journal, marker, rec, authority>>
      /\ Returns(x, Denied("required"))
  BY DEF CancelledAfterStart
<1>2. TruthfulAnswer(Denied("required"), tx[x].wrote, marker[x])
  BY <1>1, RowOf, OutcomesOf DEF TruthfulAnswer, TxSound
<1> QED
  BY <1>1, <1>2, RowOf, OutcomesOf, ReturnsAsItIs DEF IdlePc

\* RefusedAfterStart preserves the invariant.
LEMMA RefusedAfterStartKeeps ==
  ASSUME RecoveryInv, NEW x \in Txs, RefusedAfterStart(x) PROVE RecoveryInv'
<1>1. /\ tx[x].pc = "started" /\ UNCHANGED <<bound, content, journal, marker, rec, authority>>
      /\ Returns(x, Denied("required"))
  BY DEF RefusedAfterStart
<1>2. TruthfulAnswer(Denied("required"), tx[x].wrote, marker[x])
  BY <1>1, RowOf, OutcomesOf DEF TruthfulAnswer, TxSound
<1> QED
  BY <1>1, <1>2, RowOf, OutcomesOf, ReturnsAsItIs DEF IdlePc

\* The bytes of object o become c.
BytesGo(o, c) == content' = [content EXCEPT ![o] = c]

\* What it does to the contents.
LEMMA BytesChange ==
  ASSUME RecoveryTyped, NEW o \in Objects, NEW c \in AnyContent, BytesGo(o, c)
  PROVE  /\ content' \in [Objects -> AnyContent] /\ content'[o] = c
         /\ \A p \in Objects \ {o} : content'[p] = content[p]
BY DEF BytesGo, RecoveryTyped

\* FirstWrite preserves the invariant.
LEMMA FirstWriteKeeps ==
  ASSUME RecoveryInv, NEW x \in Txs, FirstWrite(x) PROVE RecoveryInv'
<1>1. /\ tx[x].pc = "started" /\ UNCHANGED <<bound, held, journal, marker, rec, authority>>
      /\ tx' = [tx EXCEPT ![x].pc = "writing", ![x].wrote = TRUE]
      /\ BytesGo(tx[x].obj, Torn)
  BY DEF FirstWrite, BytesGo
<1>2. tx[x].obj \in Objects /\ Torn \in AnyContent
  BY <1>1, RowOf DEF TxSound, IdlePc, AnyContent
<1>3. content' \in [Objects -> AnyContent]
  BY <1>1, <1>2, BytesChange, RecoveryTypes
<1>4. PICK s : s = tx[x]
  OBVIOUS
<1>5. PICK t : t = [s EXCEPT !.pc = "writing", !.wrote = TRUE]
  OBVIOUS
<1>6. s \in TxRow
  BY <1>4, RowOf
<1>7. t \in TxRow /\ t.pc = "writing" /\ t.obj = s.obj /\ t.wrote
  BY <1>5, <1>6 DEF TxRow, TxLabels, Working, Holding
<1>8. tx' = [tx EXCEPT ![x] = t]
  BY <1>1, <1>4, <1>5
<1>9. TxMoves(x, t)
  BY <1>7, <1>8, RecoveryTypes DEF TxMoves, RecoveryTyped
<1>10. TxSound(t, journal[x], marker[x])
  BY <1>1, <1>4, <1>7, RowOf
     DEF TxSound, TruthfulRow, Working, Holding, Preparing, IdlePc, EndStates
<1>11. HandlesMove(x, HeldBy(t))
  <2>1. HeldBy(t) = HeldBy(tx[x])
    BY <1>1, <1>4, <1>7 DEF HeldBy, Holding
  <2> QED
    BY <1>1, <2>1, KeepingHandles
<1> QED
  BY <1>1, <1>3, <1>4, <1>7, <1>9, <1>10, <1>11, RowOf, WorkerMoves

\* WriteDone preserves the invariant.
LEMMA WriteDoneKeeps ==
  ASSUME RecoveryInv, NEW x \in Txs, WriteDone(x) PROVE RecoveryInv'
<1>1. /\ tx[x].pc = "writing" /\ UNCHANGED <<bound, journal, marker, rec, authority>>
      /\ To(x, "written") /\ ClosesHandle(x) /\ BytesGo(tx[x].obj, tx[x].repl)
  BY DEF WriteDone, BytesGo
<1>2. tx[x].obj \in Objects /\ tx[x].repl \in AnyContent
  BY <1>1, RowOf DEF TxSound, IdlePc, TxRow
<1>3. content' \in [Objects -> AnyContent]
  BY <1>1, <1>2, BytesChange, RecoveryTypes
<1>4. \A t \in TxRow : t.pc = "written" /\ SameRow(t, tx[x]) => TxSound(t, journal[x], marker[x])
  BY <1>1, RowOf DEF TxSound, TruthfulRow, SameRow, Working, Holding, Preparing, IdlePc, EndStates
<1>5. "written" \in TxLabels /\ "written" \in Working /\ "written" \notin Holding
      /\ tx[x].pc # IdlePc
  BY <1>1 DEF TxLabels, Working, Holding, IdlePc
<1> QED
  BY <1>1, <1>3, <1>4, <1>5, RowOf, ToKeeps

\* WriteFails preserves the invariant.
LEMMA WriteFailsKeeps ==
  ASSUME RecoveryInv, NEW x \in Txs, WriteFails(x) PROVE RecoveryInv'
<1>1. /\ tx[x].pc = "writing" /\ UNCHANGED <<bound, journal, marker, rec, authority>>
      /\ Returns(x, CommitUnknown)
  BY DEF WriteFails
<1>2. PICK c \in {Torn, tx[x].repl} : BytesGo(tx[x].obj, c)
  BY DEF WriteFails, BytesGo
<1>3. tx[x].obj \in Objects /\ c \in AnyContent
  BY <1>1, RowOf DEF TxSound, IdlePc, TxRow, AnyContent
<1>4. content' \in [Objects -> AnyContent]
  BY <1>2, <1>3, BytesChange, RecoveryTypes
<1>5. TruthfulAnswer(CommitUnknown, tx[x].wrote, marker[x])
  BY OutcomesOf DEF TruthfulAnswer
<1> QED
  BY <1>1, <1>4, <1>5, RowOf, OutcomesOf, ReturnsAsItIs DEF IdlePc

\* PersistCommitted preserves the invariant.
LEMMA PersistCommittedKeeps ==
  ASSUME RecoveryInv, NEW x \in Txs, PersistCommitted(x) PROVE RecoveryInv'
<1>1. tx[x].pc = "written" /\ UNCHANGED <<bound, content, journal, marker, rec, authority>>
  BY DEF PersistCommitted
<1>2. CASE To(x, "committing") /\ UNCHANGED held
  <2>1. \A t \in TxRow : t.pc = "committing" /\ SameRow(t, tx[x])
                           => TxSound(t, journal[x], marker[x])
    BY <1>1, RowOf DEF TxSound, TruthfulRow, SameRow, Working, Holding, Preparing, IdlePc, EndStates
  <2>2. "committing" \in TxLabels /\ "committing" \in Working /\ "committing" \notin Holding
        /\ tx[x].pc \notin Holding /\ tx[x].pc # IdlePc
    BY <1>1 DEF TxLabels, Working, Holding, IdlePc
  <2> QED
    BY <1>1, <1>2, <2>1, <2>2, RowOf, ToKeeps
<1>3. CASE Returns(x, CommitUnknown)
  <2>1. TruthfulAnswer(CommitUnknown, tx[x].wrote, marker[x])
    BY OutcomesOf DEF TruthfulAnswer
  <2> QED
    BY <1>1, <1>3, <2>1, RowOf, OutcomesOf, ReturnsAsItIs DEF IdlePc
<1> QED
  BY <1>2, <1>3 DEF PersistCommitted

\* CommittedWritten preserves the invariant.
LEMMA CommittedWrittenKeeps ==
  ASSUME RecoveryInv, NEW x \in Txs, CommittedWritten(x) PROVE RecoveryInv'
<1>1. /\ tx[x].pc = "committing" /\ UNCHANGED <<bound, content, journal, rec, authority>>
      /\ Returns(x, CommittedOutcome) /\ MarkerGoes(x, "committed", "valid")
  BY DEF CommittedWritten, Completes, MarkerGoes
<1>2. "committed" \in Markers /\ "valid" \in FileStates
  BY DEF Markers, FileStates
<1>3. PICK m \in MarkerRow :
        MarkersMove(x, m) /\ m["committed"] = "valid"
        /\ \A l \in Markers \ {"committed"} : m[l] = marker[x][l]
  BY <1>1, <1>2, MarkerChanges, RecoveryTypes
<1>4. marker[x]["started"] = "valid" /\ tx[x].wrote /\ journal[x].state = "valid"
  BY <1>1, RowOf DEF TxSound, Working
<1>5. m["started"] = "valid" /\ m["recovered"] = marker[x]["recovered"]
  BY <1>3, <1>4 DEF Markers
<1>6. TruthfulAnswer(CommittedOutcome, tx[x].wrote, m)
  BY <1>3, <1>4, <1>5, OutcomesOf DEF TruthfulAnswer
<1>7. ~OpenRow(journal[x], m)
  BY <1>3 DEF OpenRow
<1> QED
  BY <1>1, <1>3, <1>4, <1>5, <1>6, <1>7, RowOf, OutcomesOf, ReturnsKeeps DEF IdlePc

\* CommittedFails preserves the invariant.
LEMMA CommittedFailsKeeps ==
  ASSUME RecoveryInv, NEW x \in Txs, CommittedFails(x) PROVE RecoveryInv'
<1>1. /\ tx[x].pc = "committing" /\ UNCHANGED <<bound, content, journal, rec, authority>>
      /\ Returns(x, CommitUnknown)
  BY DEF CommittedFails
<1>2. "committed" \in Markers
  BY DEF Markers
<1>3. PICK s \in FileStates : MarkerGoes(x, "committed", s)
  BY DEF CommittedFails, LeavesSome, MarkerGoes
<1>4. PICK m \in MarkerRow :
        MarkersMove(x, m) /\ m["committed"] = s
        /\ \A l \in Markers \ {"committed"} : m[l] = marker[x][l]
  BY <1>2, <1>3, MarkerChanges, RecoveryTypes
<1>5. marker[x]["started"] = "valid" /\ marker[x]["committed"] # "valid"
        /\ journal[x].state = "valid"
  BY <1>1, RowOf DEF TxSound, Working
<1>6. m["started"] = "valid" /\ m["recovered"] = marker[x]["recovered"]
  BY <1>4, <1>5 DEF Markers
<1>7. TruthfulAnswer(CommitUnknown, tx[x].wrote, m)
  BY OutcomesOf DEF TruthfulAnswer
<1>8. OpenRow(journal[x], m) => Open(x)
  BY <1>5, <1>6 DEF Open, OpenRow
<1> QED
  BY <1>1, <1>4, <1>5, <1>6, <1>7, <1>8, RowOf, OutcomesOf, ReturnsKeeps DEF IdlePc

\* The answer after a panic is true.
LEMMA AfterPanicIsTrue ==
  ASSUME RecoveryInv, NEW x \in Txs,
         tx[x].pc \in {"prepared", "opened", "started", "writing", "written"}
  PROVE  AfterPanic(x) \in Outcomes /\ TruthfulAnswer(AfterPanic(x), tx[x].wrote, marker[x])
<1>1. marker[x]["committed"] = "absent"
  BY RowOf DEF TxSound
<1>2. TxState(x) # "committed"
  BY <1>1, StateOf, RecoveryTypes
<1>3. CASE AfterPanic(x) = Denied("none") /\ TxState(x) = "prepared" /\ ~tx[x].wrote
  BY <1>3, StateOf, RecoveryTypes, OutcomesOf DEF TruthfulAnswer, Markers
<1>4. CASE AfterPanic(x) = Denied("required") /\ ~tx[x].wrote
  BY <1>4, OutcomesOf DEF TruthfulAnswer
<1>5. CASE AfterPanic(x) \in {LifecycleUnknown, CommitUnknown}
  BY <1>5, OutcomesOf DEF TruthfulAnswer
<1> QED
  BY <1>2, <1>3, <1>4, <1>5 DEF AfterPanic

\* Panic preserves the invariant.
LEMMA PanicKeeps == ASSUME RecoveryInv, NEW x \in Txs, Panic(x) PROVE RecoveryInv'
<1>1. /\ tx[x].pc \in {"prepared", "opened", "started", "writing", "written"}
      /\ UNCHANGED <<bound, content, journal, marker, rec, authority>>
  BY DEF Panic
<1>2. PICK r : r = AfterPanic(x)
  OBVIOUS
<1>3. r \in Outcomes /\ TruthfulAnswer(r, tx[x].wrote, marker[x]) /\ Returns(x, r)
  BY <1>1, <1>2, AfterPanicIsTrue DEF Panic
<1> HIDE <1>2
<1> QED
  BY <1>1, <1>3, RowOf, ReturnsAsItIs DEF IdlePc

\* Only the executor q moves: its row becomes r.
RecMoves(q, r) ==
  /\ rec' \in [Recoverers -> RecRow] /\ rec'[q] = r /\ \A p \in Recoverers \ {q} : rec'[p] = rec[p]

\* It touches no marker but the .recovered file of the transaction it acts on, and only in its
\* last two steps.
RecoveredMoves(q) ==
  /\ marker' \in [Txs -> MarkerRow]
  /\ \A y \in Txs : /\ marker'[y]["started"] = marker[y]["started"]
                    /\ marker'[y]["committed"] = marker[y]["committed"]
  /\ \A y \in Txs :
       \/ marker'[y]["recovered"] = marker[y]["recovered"]
       \/ y = rec[q].of /\ rec[q].pc = "marking" /\ marker[y]["recovered"] = "absent"
       \/ y = rec[q].of /\ rec[q].pc = "marked"

\* The object an executor's row holds.
RecHeldBy(r) == IF r.pc \in RecHolding THEN tx[r.of].obj ELSE NoFile

\* A step of one executor preserves the invariant when its row is sound after it.
LEMMA RecovererMoves ==
  ASSUME RecoveryInv, NEW q \in Recoverers, NEW r \in RecRow, RecMoves(q, r), RecoveredMoves(q),
         UNCHANGED <<bound, tx, journal, authority>>, content' \in [Objects -> AnyContent],
         HandlesMove(q, RecHeldBy(r)),
         r.pc # IdlePc => /\ r.of \in Txs /\ journal[r.of].state = "valid"
                          /\ marker[r.of]["started"] = "valid",
         r.pc = "marked" => /\ marker[r.of]["recovered"] = "absent"
                            /\ marker'[r.of]["recovered"] = "torn"
  PROVE  RecoveryInv'
<1>1. RecoveryTyped'
  BY DEF RecoveryInv, RecoveryTyped, RecMoves, RecoveredMoves, HandlesMove
<1>2. rec'[q] = r /\ \A p \in Recoverers \ {q} : rec'[p] = rec[p]
  BY DEF RecMoves
<1>3. RecSound(q)
  BY DEF RecoveryInv
<1>4. \A y \in Txs : marker'[y]["recovered"] # marker[y]["recovered"] =>
        marker[y]["started"] = "valid" /\ marker[y]["recovered"] # "valid"
  BY <1>3 DEF RecoveredMoves, RecSound, IdlePc
<1>5. \A y \in Txs : TxSound(tx'[y], journal'[y], marker'[y])
  <2> SUFFICES ASSUME NEW y \in Txs PROVE TxSound(tx[y], journal[y], marker'[y])
    OBVIOUS
  <2> QED
    BY <1>4, RowOf DEF RecoveredMoves, TxSound, TruthfulRow
<1>6. \A p \in Recoverers : RecSound(p)'
  <2> SUFFICES ASSUME NEW p \in Recoverers PROVE RecSound(p)'
    OBVIOUS
  <2>1. CASE p = q
    BY <1>2, <2>1 DEF RecSound, RecoveredMoves
  <2>2. CASE p # q
    <3>1. rec'[p] = rec[p] /\ RecSound(p)
      BY <1>2, <2>2 DEF RecoveryInv
    <3>2. rec[p].pc = "marked" => marker'[rec[p].of]["recovered"] = marker[rec[p].of]["recovered"]
      BY <1>3, <2>2, <3>1 DEF RecoveredMoves, RecSound, RecoveryInv, MarkedAlone, IdlePc
    <3> QED
      BY <3>1, <3>2 DEF RecSound, RecoveredMoves
  <2> QED
    BY <2>1, <2>2
<1>7. HandlesSound'
  <2>1. ASSUME NEW y \in Txs, NEW o \in Objects
        PROVE  held'[o] = y <=> tx'[y].pc \in Holding /\ tx'[y].obj = o
    BY <2>1, Persons DEF HandlesMove, RecoveryInv, HandlesSound
  <2>2. ASSUME NEW p \in Recoverers, NEW o \in Objects
        PROVE  held'[o] = p <=> rec'[p].pc \in RecHolding /\ tx'[rec'[p].of].obj = o
    <3>1. CASE p = q
      BY <1>2, <2>2, <3>1, Persons DEF HandlesMove, RecHeldBy
    <3>2. CASE p # q
      BY <1>2, <2>2, <3>2, Persons DEF HandlesMove, RecoveryInv, HandlesSound
    <3> QED
      BY <3>1, <3>2
  <2> QED
    BY <2>1, <2>2 DEF HandlesSound
<1>8. OpenAlone'
  <2>1. \A y \in Txs : Open(y)' => Open(y)
    BY <1>4 DEF Open, OpenRow, RecoveredMoves
  <2> QED
    BY <2>1 DEF RecoveryInv, OpenAlone
<1>9. MarkedAlone'
  <2>1. ASSUME NEW p \in Recoverers \ {q}, rec[p].pc = "marked", r.pc = "marked", rec[p].of = r.of
        PROVE  FALSE
    BY <2>1 DEF RecoveryInv, RecSound
  <2> QED
    BY <1>2, <2>1 DEF RecoveryInv, MarkedAlone
<1> QED
  BY <1>1, <1>5, <1>6, <1>7, <1>8, <1>9 DEF RecoveryInv

\* Markers that are left alone.
LEMMA MarkersStay ==
  ASSUME RecoveryTyped, NEW q \in Recoverers, UNCHANGED marker
  PROVE  RecoveredMoves(q)
BY DEF RecoveredMoves, RecoveryTyped

\* The row of an executor that goes to another step.
LEMMA GoRow ==
  ASSUME RecoveryTyped, NEW q \in Recoverers, NEW p \in RecStates, Go(q, p)
  PROVE  \E r \in RecRow : /\ RecMoves(q, r) /\ r.pc = p /\ r.of = rec[q].of
                           /\ r.cur = rec[q].cur /\ r.rev = rec[q].rev
<1>1. PICK s : s = rec[q]
  OBVIOUS
<1>2. s \in RecRow
  BY <1>1 DEF RecoveryTyped
<1>3. PICK r : r = [s EXCEPT !.pc = p]
  OBVIOUS
<1>4. r \in RecRow /\ r.pc = p /\ r.of = s.of /\ r.cur = s.cur /\ r.rev = s.rev
  BY <1>2, <1>3 DEF RecRow
<1>5. rec' = [rec EXCEPT ![q] = r]
  BY <1>1, <1>3 DEF Go
<1>6. RecMoves(q, r)
  BY <1>4, <1>5 DEF RecMoves, RecoveryTyped
<1> QED
  BY <1>1, <1>4, <1>6

\* An executor goes to another step, with its handle or without one.
LEMMA GoKeeps ==
  ASSUME RecoveryInv, NEW q \in Recoverers, NEW p \in RecStates, Go(q, p), RecoveredMoves(q),
         UNCHANGED <<bound, tx, journal, authority>>, content' \in [Objects -> AnyContent],
         p = IdlePc \/ rec[q].pc # IdlePc,
         p = "marked" => /\ marker[rec[q].of]["recovered"] = "absent"
                         /\ marker'[rec[q].of]["recovered"] = "torn",
         \/ UNCHANGED held /\ (p \in RecHolding <=> rec[q].pc \in RecHolding)
         \/ ClosesHandle(q) /\ p \notin RecHolding
  PROVE  RecoveryInv'
<1>1. PICK r \in RecRow : RecMoves(q, r) /\ r.pc = p /\ r.of = rec[q].of
  BY GoRow, RecoveryTypes
<1>2. RecSound(q)
  BY DEF RecoveryInv
<1>3. HandlesMove(q, RecHeldBy(r))
  <2>1. CASE UNCHANGED held /\ (p \in RecHolding <=> rec[q].pc \in RecHolding)
    <3>1. rec[q].pc \in RecHolding => tx[rec[q].of].obj \in Objects
      BY <1>2, RowOf DEF RecSound, RecHolding, TxSound, IdlePc
    <3> QED
      BY <1>1, <2>1, <3>1, Persons
         DEF HandlesMove, RecHeldBy, RecoveryInv, RecoveryTyped, HandlesSound
  <2>2. CASE ClosesHandle(q) /\ p \notin RecHolding
    BY <1>1, <2>2, ClosingHandles, RecoveryTypes DEF RecHeldBy
  <2> QED
    BY <2>1, <2>2
<1> QED
  BY <1>1, <1>2, <1>3, RecovererMoves DEF RecSound

\* AskRecovery preserves the invariant.
LEMMA AskRecoveryKeeps ==
  ASSUME RecoveryInv, NEW q \in Recoverers, NEW x \in Txs, AskRecovery(q, x) PROVE RecoveryInv'
<1>1. /\ rec[q].pc = IdlePc /\ TxState(x) = "required" /\ bound \in Objects
      /\ UNCHANGED <<bound, content, held, journal, marker, tx, authority>>
      /\ rec' = [rec EXCEPT ![q] = [pc |-> "asked", of |-> x, cur |-> content[bound],
                                    rev |-> authority.revision]]
  BY DEF AskRecovery, RecoveryInv, RecoveryTyped
<1>2. PICK c \in AnyContent : c = content[bound]
  BY <1>1, RecoveryTypes DEF RecoveryTyped
<1>3. PICK v \in Nat : v = authority.revision
  BY RecoveryTypes DEF RecoveryTyped
<1>4. PICK r : r = [pc |-> "asked", of |-> x, cur |-> c, rev |-> v]
  OBVIOUS
<1>5. r \in RecRow /\ r.pc = "asked" /\ r.of = x
  BY <1>4 DEF RecRow, RecStates
<1>6. rec' = [rec EXCEPT ![q] = r]
  BY <1>1, <1>2, <1>3, <1>4
<1>7. RecMoves(q, r)
  BY <1>5, <1>6, RecoveryTypes DEF RecMoves, RecoveryTyped
<1>8. journal[x].state = "valid" /\ marker[x]["started"] = "valid"
  BY <1>1, StateOf, RecoveryTypes DEF RequiredRow
<1>9. HandlesMove(q, RecHeldBy(r))
  BY <1>1, <1>5, Persons
     DEF HandlesMove, RecHeldBy, RecHolding, RecoveryInv, RecoveryTyped, HandlesSound, IdlePc
<1> QED
  BY <1>1, <1>5, <1>7, <1>8, <1>9, RowOf, MarkersStay, RecoveryTypes, RecovererMoves

\* The steps that only look.
LEMMA LookingKeeps ==
  ASSUME RecoveryInv, NEW q \in Recoverers, RecoverScan(q) \/ RecoverGrant(q) \/ PersistRecovered(q)
  PROVE  RecoveryInv'
<1>1. PICK p \in {"scanned", "granted", "marking", IdlePc} : Go(q, p)
  BY DEF RecoverScan, RecoverGrant, PersistRecovered
<1>2. /\ rec[q].pc \in {"asked", "scanned", "restored"}
      /\ UNCHANGED <<bound, content, held, journal, marker, tx, authority>>
  BY DEF RecoverScan, RecoverGrant, PersistRecovered
<1>3. /\ p \in RecStates /\ p \notin RecHolding /\ p # "marked" /\ rec[q].pc # IdlePc
      /\ rec[q].pc \notin RecHolding
  BY <1>1, <1>2 DEF RecStates, RecHolding, IdlePc
<1>4. content' \in [Objects -> AnyContent]
  BY <1>2, RecoveryTypes DEF RecoveryTyped
<1> QED
  BY <1>1, <1>2, <1>3, <1>4, MarkersStay, RecoveryTypes, GoKeeps

\* RecoverOpen preserves the invariant.
LEMMA RecoverOpenKeeps ==
  ASSUME RecoveryInv, NEW q \in Recoverers, RecoverOpen(q) PROVE RecoveryInv'
<1>1. rec[q].pc = "granted" /\ UNCHANGED <<bound, content, journal, marker, tx, authority>>
  BY DEF RecoverOpen
<1>2. content' \in [Objects -> AnyContent] /\ RecoveredMoves(q)
  BY <1>1, MarkersStay, RecoveryTypes DEF RecoveryTyped
<1>3. RecSound(q) /\ rec[q].pc # IdlePc
  BY <1>1 DEF RecoveryInv, IdlePc
<1>4. PICK o \in Objects : o = tx[rec[q].of].obj
  BY <1>3, RowOf DEF RecSound, TxSound, IdlePc
<1>5. CASE Matches(q, o, rec[q].cur) /\ Go(q, "open") /\ held' = [held EXCEPT ![o] = q]
  <2>1. PICK r \in RecRow : RecMoves(q, r) /\ r.pc = "open" /\ r.of = rec[q].of
    BY <1>5, GoRow, RecoveryTypes DEF RecStates, RecHolding
  <2>2. \A p \in Objects : held[p] # q
    BY <1>1 DEF RecoveryInv, HandlesSound, RecHolding
  <2>3. RecHeldBy(r) = o /\ held[o] = NoOne
          /\ held \in [Objects -> Txs \cup Recoverers \cup {NoOne}]
    BY <1>4, <1>5, <2>1, RecoveryTypes DEF RecHeldBy, RecHolding, Matches, RecoveryTyped
  <2>4. HandlesMove(q, RecHeldBy(r))
    BY <1>5, <2>2, <2>3 DEF HandlesMove
  <2> QED
    BY <1>1, <1>2, <1>3, <2>1, <2>4, RecovererMoves DEF RecSound
<1>6. CASE Go(q, IdlePc) /\ UNCHANGED held
  BY <1>1, <1>2, <1>6, GoKeeps DEF RecStates, RecHolding, IdlePc
<1> QED
  BY <1>4, <1>5, <1>6 DEF RecoverOpen

\* RecoverFence preserves the invariant.
LEMMA RecoverFenceKeeps ==
  ASSUME RecoveryInv, NEW q \in Recoverers, RecoverFence(q) PROVE RecoveryInv'
<1>1. rec[q].pc = "open" /\ UNCHANGED <<bound, journal, marker, tx, authority>>
  BY DEF RecoverFence
<1>2. RecoveredMoves(q)
  BY <1>1, MarkersStay, RecoveryTypes
<1>3. RecSound(q) /\ rec[q].pc # IdlePc
  BY <1>1 DEF RecoveryInv, IdlePc
<1>4. PICK o \in Objects : o = tx[rec[q].of].obj
  BY <1>3, RowOf DEF RecSound, TxSound, IdlePc
<1>5. CASE \E p \in {IdlePc, "restored"} : Go(q, p) /\ ClosesHandle(q) /\ UNCHANGED content
  <2>1. content' \in [Objects -> AnyContent]
    BY <1>5, RecoveryTypes DEF RecoveryTyped
  <2>2. PICK p \in {IdlePc, "restored"} : Go(q, p) /\ ClosesHandle(q)
    BY <1>5
  <2>3. p \in RecStates /\ p \notin RecHolding /\ p # "marked"
    BY DEF RecStates, RecHolding, IdlePc
  <2> QED
    BY <1>1, <1>2, <1>3, <2>1, <2>2, <2>3, GoKeeps
<1>6. CASE BytesGo(o, Torn) /\ Go(q, "restoring") /\ UNCHANGED held
  <2>1. content' \in [Objects -> AnyContent]
    BY <1>6, BytesChange, RecoveryTypes DEF AnyContent
  <2>2. "restoring" \in RecStates /\ "restoring" \in RecHolding /\ rec[q].pc \in RecHolding
    BY <1>1 DEF RecStates, RecHolding
  <2> QED
    BY <1>1, <1>2, <1>3, <1>6, <2>1, <2>2, GoKeeps
<1> QED
  BY <1>4, <1>5, <1>6 DEF RecoverFence, BytesGo

\* RecoverWritten preserves the invariant.
LEMMA RecoverWrittenKeeps ==
  ASSUME RecoveryInv, NEW q \in Recoverers, RecoverWritten(q) PROVE RecoveryInv'
<1>1. /\ rec[q].pc = "restoring" /\ UNCHANGED <<bound, journal, marker, tx, authority>>
      /\ Go(q, "restored") /\ ClosesHandle(q)
      /\ BytesGo(tx[rec[q].of].obj, journal[rec[q].of].before)
  BY DEF RecoverWritten, BytesGo
<1>2. RecSound(q) /\ rec[q].pc # IdlePc
  BY <1>1 DEF RecoveryInv, IdlePc
<1>3. tx[rec[q].of].obj \in Objects /\ journal[rec[q].of].before \in AnyContent
  BY <1>2, RowOf DEF RecSound, TxSound, IdlePc, JournalRow
<1>4. content' \in [Objects -> AnyContent] /\ RecoveredMoves(q)
  BY <1>1, <1>3, BytesChange, MarkersStay, RecoveryTypes
<1>5. "restored" \in RecStates /\ "restored" \notin RecHolding
  BY DEF RecStates, RecHolding
<1> QED
  BY <1>1, <1>2, <1>4, <1>5, GoKeeps

\* RecoverFails preserves the invariant.
LEMMA RecoverFailsKeeps ==
  ASSUME RecoveryInv, NEW q \in Recoverers, RecoverFails(q) PROVE RecoveryInv'
<1>1. /\ UNCHANGED <<bound, content, journal, marker, tx, authority>>
      /\ Go(q, IdlePc) /\ ClosesHandle(q)
  BY DEF RecoverFails
<1>2. content' \in [Objects -> AnyContent] /\ RecoveredMoves(q)
  BY <1>1, MarkersStay, RecoveryTypes DEF RecoveryTyped
<1>3. IdlePc \in RecStates /\ IdlePc \notin RecHolding /\ IdlePc # "marked"
  BY DEF RecStates, RecHolding, IdlePc
<1> QED
  BY <1>1, <1>2, <1>3, GoKeeps

\* The .recovered file of the transaction of q comes to the state s.
LEMMA RecoveredGoes ==
  ASSUME RecoveryInv, NEW q \in Recoverers, NEW s \in FileStates,
         MarkerGoes(rec[q].of, "recovered", s),
         \/ rec[q].pc = "marking" /\ marker[rec[q].of]["recovered"] = "absent"
         \/ rec[q].pc = "marked"
  PROVE  RecoveredMoves(q) /\ marker'[rec[q].of]["recovered"] = s
<1>1. PICK x \in Txs : x = rec[q].of
  BY DEF RecoveryInv, RecSound, IdlePc
<1>2. "recovered" \in Markers
  BY DEF Markers
<1>3. PICK m \in MarkerRow :
        MarkersMove(x, m) /\ m["recovered"] = s
        /\ \A l \in Markers \ {"recovered"} : m[l] = marker[x][l]
  BY <1>1, <1>2, MarkerChanges, RecoveryTypes
<1> QED
  BY <1>1, <1>3 DEF RecoveredMoves, MarkersMove, Markers

\* CreateRecovered preserves the invariant.
LEMMA CreateRecoveredKeeps ==
  ASSUME RecoveryInv, NEW q \in Recoverers, CreateRecovered(q) PROVE RecoveryInv'
<1>1. rec[q].pc = "marking" /\ UNCHANGED <<bound, content, held, journal, tx, authority>>
  BY DEF CreateRecovered
<1>2. content' \in [Objects -> AnyContent]
  BY <1>1, RecoveryTypes DEF RecoveryTyped
<1>3. /\ IdlePc \in RecStates /\ IdlePc \notin RecHolding /\ IdlePc # "marked"
      /\ "marked" \in RecStates /\ "marked" \notin RecHolding
      /\ rec[q].pc \notin RecHolding /\ rec[q].pc # IdlePc
  BY <1>1 DEF RecStates, RecHolding, IdlePc
<1>4. CASE /\ marker[rec[q].of]["recovered"] = "absent"
           /\ MarkerGoes(rec[q].of, "recovered", "torn") /\ Go(q, "marked")
  <2>1. "torn" \in FileStates
    BY DEF FileStates
  <2>2. RecoveredMoves(q) /\ marker'[rec[q].of]["recovered"] = "torn"
    BY <1>1, <1>4, <2>1, RecoveredGoes
  <2> QED
    BY <1>1, <1>2, <1>3, <1>4, <2>2, GoKeeps
<1>5. CASE UNCHANGED marker /\ Go(q, IdlePc)
  <2>1. RecoveredMoves(q)
    BY <1>5, MarkersStay, RecoveryTypes
  <2> QED
    BY <1>1, <1>2, <1>3, <1>5, <2>1, GoKeeps
<1> QED
  BY <1>4, <1>5 DEF CreateRecovered, Creates, MarkerGoes

\* The last marker is complete, or is left as the failing call left it.
LEMMA LastMarkerKeeps ==
  ASSUME RecoveryInv, NEW q \in Recoverers, RecoveredWritten(q) \/ RecoveredFails(q)
  PROVE  RecoveryInv'
<1>1. /\ rec[q].pc = "marked" /\ UNCHANGED <<bound, content, held, journal, tx, authority>>
      /\ Go(q, IdlePc)
  BY DEF RecoveredWritten, RecoveredFails
<1>2. content' \in [Objects -> AnyContent]
  BY <1>1, RecoveryTypes DEF RecoveryTyped
<1>3. /\ IdlePc \in RecStates /\ IdlePc \notin RecHolding /\ IdlePc # "marked"
      /\ rec[q].pc \notin RecHolding /\ rec[q].pc # IdlePc
  BY <1>1 DEF RecStates, RecHolding, IdlePc
<1>4. PICK s \in FileStates : MarkerGoes(rec[q].of, "recovered", s)
  BY DEF RecoveredWritten, RecoveredFails, Completes, LeavesSome, FileStates, MarkerGoes
<1>5. RecoveredMoves(q)
  BY <1>1, <1>4, RecoveredGoes
<1> QED
  BY <1>1, <1>2, <1>3, <1>5, GoKeeps

\* No worker, executor or file of the recovery directory moves.
LEMMA OutsideKeeps ==
  ASSUME RecoveryInv, UNCHANGED <<held, journal, marker, tx, rec>>,
         bound' \in Objects \cup {NoFile}, content' \in [Objects -> AnyContent],
         authority' \in [enabled : BOOLEAN, revision : Nat]
  PROVE  RecoveryInv'
<1>1. RecoveryTyped'
  BY DEF RecoveryInv, RecoveryTyped
<1>2. HandlesSound' /\ MarkedAlone' /\ OpenAlone'
  BY DEF RecoveryInv, HandlesSound, MarkedAlone, OpenAlone, Open
<1>3. \A y \in Txs : TxSound(tx'[y], journal'[y], marker'[y])
  BY DEF RecoveryInv
<1>4. \A q \in Recoverers : RecSound(q)'
  BY DEF RecoveryInv, RecSound
<1> QED
  BY <1>1, <1>2, <1>3, <1>4 DEF RecoveryInv

\* Disable preserves the invariant.
LEMMA DisableKeeps == ASSUME RecoveryInv, Disable PROVE RecoveryInv'
<1>1. authority \in [enabled : BOOLEAN, revision : Nat]
  BY RecoveryTypes DEF RecoveryTyped
<1>2. authority' = [enabled |-> FALSE, revision |-> authority.revision + 1]
  BY DEF Disable
<1>3. authority' \in [enabled : BOOLEAN, revision : Nat]
  BY <1>1, <1>2
<1> QED
  BY <1>3, OutsideKeeps, RecoveryTypes DEF Disable, RecoveryTyped

\* Edit preserves the invariant.
LEMMA EditKeeps == ASSUME RecoveryInv, NEW o \in Objects, Edit(o) PROVE RecoveryInv'
<1>1. PICK c \in FileContents : BytesGo(o, c)
  BY DEF Edit, BytesGo
<1>2. content' \in [Objects -> AnyContent]
  BY <1>1, BytesChange, RecoveryTypes DEF AnyContent
<1> QED
  BY <1>2, OutsideKeeps, RecoveryTypes DEF Edit, RecoveryTyped

\* Rebind preserves the invariant.
LEMMA RebindKeeps == ASSUME RecoveryInv, Rebind PROVE RecoveryInv'
BY OutsideKeeps, RecoveryTypes DEF Rebind, RecoveryTyped

\* What the death of a process leaves.
LEMMA CrashRows ==
  ASSUME RecoveryInv, NEW p \in Procs, AgentCrash(p)
  PROVE  /\ \A x \in Txs :
              /\ tx'[x] \in TxRow /\ tx'[x].obj = tx[x].obj /\ tx'[x].repl = tx[x].repl
              /\ \/ tx'[x] = tx[x] /\ (ProcOf[x] = p => tx[x].pc \in EndStates \cup {IdlePc})
                 \/ ProcOf[x] = p /\ tx'[x].pc = "dead" /\ tx[x].pc # IdlePc
         /\ \A q \in Recoverers :
              /\ rec'[q] \in RecRow
              /\ \/ rec'[q] = rec[q] /\ ProcOf[q] # p
                 \/ ProcOf[q] = p /\ rec'[q].pc = IdlePc
         /\ tx' \in [Txs -> TxRow] /\ rec' \in [Recoverers -> RecRow]
<1>1. ASSUME NEW x \in Txs
      PROVE  /\ tx'[x] \in TxRow /\ tx'[x].obj = tx[x].obj /\ tx'[x].repl = tx[x].repl
             /\ \/ tx'[x] = tx[x] /\ (ProcOf[x] = p => tx[x].pc \in EndStates \cup {IdlePc})
                \/ ProcOf[x] = p /\ tx'[x].pc = "dead" /\ tx[x].pc # IdlePc
  <2>1. PICK s \in TxRow : s = tx[x]
    BY RowOf
  <2>2. PICK t : t = [s EXCEPT !.pc = "dead"]
    OBVIOUS
  <2>3. t \in TxRow /\ t.pc = "dead" /\ t.obj = s.obj /\ t.repl = s.repl
    BY <2>1, <2>2 DEF TxRow, TxLabels, EndStates
  <2>4. tx'[x] = IF ProcOf[x] = p /\ s.pc \notin EndStates \cup {IdlePc} THEN t ELSE s
    BY <2>1, <2>2 DEF AgentCrash
  <2> QED
    BY <2>1, <2>3, <2>4
<1>2. ASSUME NEW q \in Recoverers
      PROVE  /\ rec'[q] \in RecRow
             /\ \/ rec'[q] = rec[q] /\ ProcOf[q] # p
                \/ ProcOf[q] = p /\ rec'[q].pc = IdlePc
  <2>1. PICK s \in RecRow : s = rec[q]
    BY RecoveryTypes DEF RecoveryTyped
  <2>2. PICK t : t = [s EXCEPT !.pc = IdlePc]
    OBVIOUS
  <2>3. t \in RecRow /\ t.pc = IdlePc
    BY <2>1, <2>2 DEF RecRow, RecStates
  <2>4. rec'[q] = IF ProcOf[q] = p THEN t ELSE s
    BY <2>1, <2>2 DEF AgentCrash
  <2> QED
    BY <2>1, <2>3, <2>4
<1>3. \E f : tx' = [x \in Txs |-> f[x]]
  <2>1. PICK f : f = [x \in Txs |-> IF ProcOf[x] = p /\ tx[x].pc \notin EndStates \cup {IdlePc}
                                    THEN [tx[x] EXCEPT !.pc = "dead"] ELSE tx[x]]
    OBVIOUS
  <2>2. tx' = f
    BY <2>1 DEF AgentCrash
  <2> QED
    BY <2>1, <2>2
<1>4. \E f : rec' = [q \in Recoverers |-> f[q]]
  <2>1. PICK f : f = [q \in Recoverers |-> IF ProcOf[q] = p THEN [rec[q] EXCEPT !.pc = IdlePc]
                                           ELSE rec[q]]
    OBVIOUS
  <2>2. rec' = f
    BY <2>1 DEF AgentCrash
  <2> QED
    BY <2>1, <2>2
<1> QED
  BY <1>1, <1>2, <1>3, <1>4

\* AgentCrash preserves the invariant.
LEMMA AgentCrashKeeps == ASSUME RecoveryInv, NEW p \in Procs, AgentCrash(p) PROVE RecoveryInv'
<1>1. UNCHANGED <<bound, content, journal, marker, authority>>
  BY DEF AgentCrash
<1>2. /\ held' \in [Objects -> Txs \cup Recoverers \cup {NoOne}]
      /\ \A o \in Objects : held'[o] = IF held[o] # NoOne /\ ProcOf[held[o]] = p THEN NoOne
                                       ELSE held[o]
  BY RecoveryTypes DEF AgentCrash, RecoveryTyped
<1>3. RecoveryTyped'
  BY <1>1, <1>2, CrashRows, RecoveryTypes DEF RecoveryTyped
<1>4. ASSUME NEW x \in Txs PROVE TxSound(tx'[x], journal'[x], marker'[x])
  <2>1. CASE tx'[x] = tx[x]
    BY <1>1, <2>1, RowOf
  <2>2. CASE tx'[x].pc = "dead" /\ tx[x].pc # IdlePc /\ tx'[x].obj = tx[x].obj
    BY <1>1, <2>2, RowOf
       DEF TxSound, TruthfulRow, Working, Holding, Preparing, IdlePc, EndStates
  <2> QED
    BY <2>1, <2>2, CrashRows
<1>5. ASSUME NEW q \in Recoverers PROVE RecSound(q)'
  <2>1. CASE rec'[q] = rec[q]
    BY <1>1, <2>1 DEF RecoveryInv, RecSound
  <2>2. CASE rec'[q].pc = IdlePc
    BY <2>2 DEF RecSound, IdlePc
  <2> QED
    BY <2>1, <2>2, CrashRows
<1>6. HandlesSound'
  <2>1. ASSUME NEW x \in Txs, NEW o \in Objects
        PROVE  held'[o] = x <=> tx'[x].pc \in Holding /\ tx'[x].obj = o
    <3>1. held[o] = x <=> tx[x].pc \in Holding /\ tx[x].obj = o
      BY DEF RecoveryInv, HandlesSound
    <3>2. held'[o] = x <=> held[o] = x /\ ProcOf[x] # p
      BY <1>2, Persons
    <3>3. CASE tx'[x] = tx[x] /\ (ProcOf[x] = p => tx[x].pc \in EndStates \cup {IdlePc})
      BY <3>1, <3>2, <3>3 DEF Holding, EndStates, IdlePc
    <3>4. CASE ProcOf[x] = p /\ tx'[x].pc = "dead"
      BY <3>2, <3>4 DEF Holding
    <3> QED
      BY <3>3, <3>4, CrashRows
  <2>2. ASSUME NEW q \in Recoverers, NEW o \in Objects
        PROVE  held'[o] = q <=> rec'[q].pc \in RecHolding /\ tx'[rec'[q].of].obj = o
    <3>1. held[o] = q <=> rec[q].pc \in RecHolding /\ tx[rec[q].of].obj = o
      BY DEF RecoveryInv, HandlesSound
    <3>2. held'[o] = q <=> held[o] = q /\ ProcOf[q] # p
      BY <1>2, Persons
    <3>3. CASE rec'[q] = rec[q] /\ ProcOf[q] # p
      <4>1. rec[q].pc \in RecHolding => rec[q].of \in Txs
        BY DEF RecoveryInv, RecSound, RecHolding, IdlePc
      <4>2. rec[q].pc \in RecHolding => tx'[rec[q].of].obj = tx[rec[q].of].obj
        BY <4>1, CrashRows
      <4> QED
        BY <3>1, <3>2, <3>3, <4>2
    <3>4. CASE ProcOf[q] = p /\ rec'[q].pc = IdlePc
      BY <3>2, <3>4 DEF RecHolding, IdlePc
    <3> QED
      BY <3>3, <3>4, CrashRows
  <2> QED
    BY <2>1, <2>2 DEF HandlesSound
<1>7. OpenAlone'
  <2>1. \A x \in Txs : Open(x)' <=> Open(x)
    BY <1>1 DEF Open
  <2>2. \A x \in Txs : tx'[x].obj = tx[x].obj /\ (tx'[x].pc = "starting" => tx[x].pc = "starting")
    BY CrashRows
  <2> QED
    BY <2>1, <2>2 DEF RecoveryInv, OpenAlone
<1>8. MarkedAlone'
  <2>1. \A q \in Recoverers : rec'[q].pc = "marked" => rec'[q] = rec[q]
    BY CrashRows DEF IdlePc
  <2> QED
    BY <2>1 DEF RecoveryInv, MarkedAlone
<1> QED
  BY <1>3, <1>4, <1>5, <1>6, <1>7, <1>8 DEF RecoveryInv

\* The invariant holds initially.
LEMMA RecoveryStarts == ASSUME RecoveryInit PROVE RecoveryInv
<1>1. /\ bound \in Objects /\ content \in [Objects -> FileContents]
      /\ held = [o \in Objects |-> NoOne]
      /\ journal = [x \in Txs |-> [state |-> "absent", before |-> Torn]]
      /\ marker = [x \in Txs |-> [k \in Markers |-> "absent"]]
      /\ authority = [enabled |-> TRUE, revision |-> 0]
  BY DEF RecoveryInit
<1>2. PICK t : t = [pc |-> IdlePc, obj |-> NoFile, expect |-> Torn, repl |-> Torn,
                    cancelled |-> FALSE, wrote |-> FALSE, outcome |-> NoOutcome]
  OBVIOUS
<1>3. tx = [x \in Txs |-> t]
  BY <1>2 DEF RecoveryInit
<1>4. t \in TxRow /\ t.pc = IdlePc /\ ~t.wrote
  BY <1>2, OutcomesOf DEF TxRow, TxLabels, AnyContent
<1>5. PICK r : r = [pc |-> IdlePc, of |-> NoOne, cur |-> Torn, rev |-> 0]
  OBVIOUS
<1>6. rec = [q \in Recoverers |-> r]
  BY <1>5 DEF RecoveryInit
<1>7. r \in RecRow /\ r.pc = IdlePc
  BY <1>5 DEF RecRow, RecStates, AnyContent
<1>8. PICK j : j = [state |-> "absent", before |-> Torn]
  OBVIOUS
<1>9. j \in JournalRow /\ j.state = "absent" /\ journal = [x \in Txs |-> j]
  BY <1>1, <1>8 DEF JournalRow, FileStates, AnyContent
<1>10. PICK m : m = [k \in Markers |-> "absent"]
  OBVIOUS
<1>11. /\ m \in MarkerRow /\ m["started"] = "absent" /\ m["committed"] = "absent"
       /\ m["recovered"] = "absent" /\ marker = [x \in Txs |-> m]
  BY <1>1, <1>10 DEF MarkerRow, FileStates, Markers
<1>12. RecoveryTyped
  BY <1>1, <1>3, <1>4, <1>6, <1>7, <1>9, <1>11 DEF RecoveryTyped, AnyContent
<1>13. HandlesSound
  BY <1>1, <1>3, <1>4, <1>6, <1>7, Persons DEF HandlesSound, Holding, RecHolding, IdlePc
<1>14. \A x \in Txs : TxSound(tx[x], journal[x], marker[x])
  BY <1>3, <1>4, <1>9, <1>11
     DEF TxSound, TruthfulRow, Working, Holding, Preparing, IdlePc, EndStates
<1>15. \A q \in Recoverers : RecSound(q)
  BY <1>6, <1>7 DEF RecSound, IdlePc
<1>16. OpenAlone /\ MarkedAlone
  BY <1>6, <1>7, <1>9, <1>11 DEF OpenAlone, Open, OpenRow, MarkedAlone, IdlePc
<1> QED
  BY <1>12, <1>13, <1>14, <1>15, <1>16 DEF RecoveryInv

\* RecoveryNext preserves the invariant.
LEMMA RecoveryNextKeeps == ASSUME RecoveryInv, [RecoveryNext]_recoveryVars PROVE RecoveryInv'
<1>1. ASSUME NEW x \in Txs, TxStep(x) PROVE RecoveryInv'
  BY <1>1, AdmitKeeps, CreateJournalKeeps, JournalWrittenKeeps, OpenTargetKeeps,
     FenceCancelledKeeps, PersistStartedKeeps, CreateMarkerKeeps, StartedWrittenKeeps,
     ReconcileStartedKeeps, CancelledAfterStartKeeps, FirstWriteKeeps, WriteDoneKeeps,
     PersistCommittedKeeps, CommittedWrittenKeeps DEF TxStep
<1>2. ASSUME NEW x \in Txs, TxFault(x) PROVE RecoveryInv'
  BY <1>2, JournalFailsKeeps, RefusedBeforeStartKeeps, StartedFailsKeeps, RefusedAfterStartKeeps,
     WriteFailsKeeps, CommittedFailsKeeps, PanicKeeps DEF TxFault
<1>3. ASSUME NEW q \in Recoverers, RecStep(q) \/ RecFault(q) PROVE RecoveryInv'
  BY <1>3, LookingKeeps, RecoverOpenKeeps, RecoverFenceKeeps, RecoverWrittenKeeps,
     CreateRecoveredKeeps, LastMarkerKeeps, RecoverFailsKeeps DEF RecStep, RecFault
<1>4. CASE UNCHANGED recoveryVars
  BY <1>4, OutsideKeeps, RecoveryTypes DEF recoveryVars, RecoveryTyped
<1> QED
  BY <1>1, <1>2, <1>3, <1>4, IssueWorkspaceGrantKeeps, CancelReplacementKeeps, AskRecoveryKeeps,
     DisableKeeps, EditKeeps, RebindKeeps, AgentCrashKeeps DEF RecoveryNext

\* So it always holds.
LEMMA RecoveryInvariant == RecoverySpec => []RecoveryInv
BY RecoveryStarts, RecoveryNextKeeps, PTL DEF RecoverySpec

-----------------------------------------------------------------------------
\* What the general invariant says of the properties.
LEMMA HandlesAndTypes == ASSUME RecoveryInv PROVE RecoveryTypeOK
<1>1. RecoveryTyped /\ HandlesSound
  BY DEF RecoveryInv
<1>2. [Txs -> MarkerRow] = [Txs -> [Markers -> FileStates]]
  BY DEF MarkerRow
<1> QED
  BY <1>1, <1>2
     DEF RecoveryTypeOK, RecoveryTyped, HandlesSound, TxRow, TxLabels, RecRow, JournalRow

\* At most one unresolved replacement of a target is found by a scan.
LEMMA AloneOnItsTarget == ASSUME RecoveryInv PROVE OneActivePerTarget
<1> SUFFICES ASSUME NEW o \in Objects PROVE Cardinality(Required(o)) <= 1
  BY DEF OneActivePerTarget
<1>1. \A x \in Required(o) : x \in Txs /\ tx[x].obj = o /\ Open(x)
  BY StateOf, RecoveryTypes DEF Required, On, RequiredRow, Open, OpenRow
<1>2. \A x, y \in Required(o) : x = y
  BY <1>1 DEF RecoveryInv, OpenAlone
<1>3. CASE Required(o) = {}
  BY <1>3, FS_EmptySet
<1>4. CASE \E x : Required(o) = {x}
  <2>1. PICK x : Required(o) = {x}
    BY <1>4
  <2>2. Cardinality({x}) = 1
    BY FS_Singleton
  <2> QED
    BY <2>1, <2>2
<1> QED
  BY <1>2, <1>3, <1>4

\* What callers were told is true of the disk.
LEMMA AnswersAreTrue == ASSUME RecoveryInv PROVE OutcomeIsTruthful
<1> SUFFICES ASSUME NEW x \in Txs, tx[x].pc = "done"
             PROVE  LET out == tx[x].outcome IN
                    /\ out.kind \in {"denied", "conflict", "error"} => ~tx[x].wrote
                    /\ out.kind \in {"denied", "conflict", "error"} /\ out.recovery = "none"
                         => marker[x]["started"] = "absent"
                    /\ out.kind = "committed" => tx[x].wrote /\ "committed" \in Present(x)
  BY DEF OutcomeIsTruthful
<1>1. TruthfulRow(tx[x], marker[x])
  BY RowOf DEF TxSound
<1> QED
  BY <1>1 DEF TruthfulRow, Present, Markers

\* For any processes, executors and replacements, with recoveries that race each other and
\* the replacements: handles belong to whoever is inside a native call, a target never has
\* two unresolved replacements, and what the caller of a replacement was told is true of
\* the disk for ever, whatever fails, dies or is edited.
THEOREM AnswersMatchDisk == RecoverySpec
  => [](RecoveryTypeOK /\ OneActivePerTarget /\ OutcomeIsTruthful)
<1>1. RecoveryInv => RecoveryTypeOK /\ OneActivePerTarget /\ OutcomeIsTruthful
  BY HandlesAndTypes, AloneOnItsTarget, AnswersAreTrue
<1> QED
  BY <1>1, RecoveryInvariant, PTL

\* What RestoreInv says of one replacement.
LEMMA BytesOf ==
  ASSUME RestoreInv, NEW x \in Txs
  PROVE  /\ RecoveryInv /\ BytesRow(tx[x], journal[x], marker[x], content)
         /\ tx[x].pc \notin EndStates => marker[x]["recovered"] = "absent"
         /\ tx[x].pc \in {"started", "writing"} => RequiredRow(journal[x], marker[x]) /\ Open(x)
         /\ tx[x].pc \in Holding => tx[x].obj \in Objects /\ held[tx[x].obj] = x
<1>1. RecoveryInv /\ BytesRow(tx[x], journal[x], marker[x], content)
  BY DEF RestoreInv
<1>2. TxSound(tx[x], journal[x], marker[x])
  BY <1>1, RowOf
<1>3. tx[x].pc \notin EndStates => marker[x]["recovered"] = "absent"
  BY <1>1 DEF BytesRow
<1>4. tx[x].pc \in {"started", "writing"} => RequiredRow(journal[x], marker[x]) /\ Open(x)
  BY <1>2, <1>3 DEF TxSound, RequiredRow, Open, OpenRow, Working, Holding, EndStates
<1>5. tx[x].pc \in Holding => tx[x].obj \in Objects
  BY <1>2 DEF TxSound, Holding, IdlePc
<1>6. tx[x].pc \in Holding => held[tx[x].obj] = x
  BY <1>1, <1>5 DEF RecoveryInv, HandlesSound
<1> QED
  BY <1>1, <1>3, <1>4, <1>5, <1>6

\* What it says of one executor.
LEMMA RestoreOf ==
  ASSUME RestoreInv, NEW q \in Recoverers
  PROVE  /\ RestoreSound(q) /\ RecSound(q)
         /\ rec[q].pc # IdlePc => Open(rec[q].of) /\ tx[rec[q].of].obj \in Objects
         /\ rec[q].pc \in RecHolding => held[tx[rec[q].of].obj] = q
<1>1. RestoreSound(q) /\ RecSound(q) /\ RecoveryInv
  BY DEF RestoreInv, RecoveryInv
<1>2. rec[q].pc # IdlePc => Open(rec[q].of)
  BY <1>1 DEF RestoreSound, RecSound, Open, OpenRow
<1>3. rec[q].pc # IdlePc => tx[rec[q].of].obj \in Objects
  BY <1>1, RowOf DEF RestoreSound, RecSound, TxSound, EndStates, IdlePc
<1>4. rec[q].pc \in RecHolding => held[tx[rec[q].of].obj] = q
  BY <1>1, <1>3 DEF RecoveryInv, HandlesSound, RecHolding, IdlePc
<1> QED
  BY <1>1, <1>2, <1>3, <1>4

\* The bytes of an object change only under the handle of the worker x that writes it.
WrittenBy(x) ==
  \A o \in Objects :
    content'[o] # content[o] => o = tx[x].obj /\ tx[x].pc \in {"started", "writing"}

\* Worker preserves RestoreInv.
LEMMA WorkerRestores ==
  ASSUME RestoreInv, RecoveryInv', NEW x \in Txs, NEW t, NEW j, NEW m,
         TxMoves(x, t), JournalMoves(x, j), MarkersMove(x, m), UNCHANGED rec,
         tx[x].pc \notin EndStates, tx[x].pc # IdlePc => t.obj = tx[x].obj,
         WrittenBy(x), BytesRow(t, j, m, content'),
         content'[tx[x].obj] = Torn /\ tx[x].pc \in {"started", "writing"}
           => RequiredRow(j, m) /\ t.pc \in {"writing"} \cup EndStates
  PROVE  RestoreInv'
<1>1. /\ tx'[x] = t /\ journal'[x] = j /\ marker'[x] = m
      /\ \A y \in Txs \ {x} : tx'[y] = tx[y] /\ journal'[y] = journal[y] /\ marker'[y] = marker[y]
  BY DEF TxMoves, JournalMoves, MarkersMove
<1>2. \A o \in Objects : content'[o] # content[o] => held[o] = x /\ o = tx[x].obj
  BY BytesOf DEF WrittenBy, Holding
<1>3. ASSUME NEW y \in Txs PROVE BytesRow(tx'[y], journal'[y], marker'[y], content')
  <2>1. CASE y = x
    BY <1>1, <2>1
  <2>2. CASE y # x
    <3>1. tx[y].pc \in Holding => content'[tx[y].obj] = content[tx[y].obj]
      BY <1>2, <2>2, BytesOf
    <3> QED
      BY <1>1, <2>2, <3>1, BytesOf DEF BytesRow, Holding
  <2> QED
    BY <2>1, <2>2
<1>4. ASSUME NEW q \in Recoverers PROVE RestoreSound(q)'
  <2>1. rec'[q] = rec[q] /\ RestoreSound(q) /\ RecSound(q)
    BY RestoreOf
  <2>2. CASE rec[q].pc = IdlePc
    BY <2>1, <2>2 DEF RestoreSound, IdlePc
  <2>3. CASE rec[q].pc # IdlePc
    <3>1. PICK y \in Txs : y = rec[q].of
      BY <2>1, <2>3 DEF RecSound
    <3>2. y # x /\ Open(y) /\ tx[y].obj \in Objects
      BY <2>1, <2>3, <3>1, RestoreOf DEF RestoreSound
    <3>3. content'[tx[y].obj] = content[tx[y].obj]
      <4> SUFFICES ASSUME content'[tx[y].obj] # content[tx[y].obj] PROVE FALSE
        OBVIOUS
      <4>1. tx[x].obj = tx[y].obj /\ Open(x)
        BY <3>2, BytesOf DEF WrittenBy
      <4> QED
        BY <3>2, <4>1, BytesOf DEF RecoveryInv, OpenAlone
    <3>4. tx'[y] = tx[y] /\ marker'[y] = marker[y]
      BY <1>1, <3>2
    <3> QED
      BY <2>1, <3>1, <3>3, <3>4 DEF RestoreSound
  <2> QED
    BY <2>2, <2>3
<1>5. ASSUME NEW o \in Objects, content'[o] = Torn PROVE \E y \in Txs : TornBy(y, o)'
  <2>1. CASE o = tx[x].obj /\ tx[x].pc \in {"started", "writing"}
    <3>1. t.obj = o /\ RequiredRow(j, m) /\ t.pc \in {"writing"} \cup EndStates
      BY <1>5, <2>1 DEF IdlePc
    <3> QED
      BY <1>1, <3>1 DEF TornBy
  <2>2. CASE ~(o = tx[x].obj /\ tx[x].pc \in {"started", "writing"})
    <3>1. content[o] = Torn
      BY <1>5, <2>2 DEF WrittenBy
    <3>2. PICK y \in Txs : TornBy(y, o)
      BY <3>1 DEF RestoreInv, TornSound
    <3>3. y # x
      BY <2>2, <3>2 DEF TornBy
    <3>4. tx'[y] = tx[y] /\ journal'[y] = journal[y] /\ marker'[y] = marker[y]
      BY <1>1, <3>3
    <3> QED
      BY <3>2, <3>4 DEF TornBy
  <2> QED
    BY <2>1, <2>2
<1> QED
  BY <1>3, <1>4, <1>5 DEF RestoreInv, TornSound

\* Contents that are left alone.
LEMMA Untouched == ASSUME NEW x \in Txs, UNCHANGED content PROVE WrittenBy(x)
BY DEF WrittenBy

\* The worker of a replacement returns.
LEMMA ReturnsRestores ==
  ASSUME RestoreInv, RecoveryInv', NEW x \in Txs, NEW r \in Outcomes, Returns(x, r), UNCHANGED rec,
         NEW j, NEW m, JournalMoves(x, j), MarkersMove(x, m),
         tx[x].pc \notin EndStates \cup {IdlePc}, WrittenBy(x),
         m["started"] # "absent" => j.before # Torn,
         tx[x].pc \in {"started", "writing"} => RequiredRow(j, m)
  PROVE  RestoreInv'
<1>1. PICK t \in TxRow : TxMoves(x, t) /\ t.pc = "done" /\ SameRow(t, tx[x])
  BY ReturnsRow, RecoveryTypes DEF RestoreInv
<1>2. BytesRow(t, j, m, content')
  BY <1>1, BytesOf DEF BytesRow, SameRow, EndStates, Holding
<1> QED
  BY <1>1, <1>2, WorkerRestores DEF SameRow, EndStates

\* It returns and leaves the files alone.
LEMMA ReturnsQuietly ==
  ASSUME RestoreInv, RecoveryInv', NEW x \in Txs, NEW r \in Outcomes, Returns(x, r),
         UNCHANGED <<rec, journal, marker, content>>, tx[x].pc \notin EndStates \cup {IdlePc}
  PROVE  RestoreInv'
<1>1. JournalMoves(x, journal[x]) /\ MarkersMove(x, marker[x])
  BY SameFiles, RecoveryTypes DEF RestoreInv
<1>2. marker[x]["started"] # "absent" => journal[x].before # Torn
  BY BytesOf DEF BytesRow
<1>3. tx[x].pc \in {"started", "writing"} => RequiredRow(journal[x], marker[x])
  BY BytesOf
<1> QED
  BY <1>1, <1>2, <1>3, Untouched, ReturnsRestores

\* It goes to another step.
LEMMA ToRestores ==
  ASSUME RestoreInv, RecoveryInv', NEW x \in Txs, NEW p \in TxLabels, To(x, p), UNCHANGED rec,
         NEW j, NEW m, JournalMoves(x, j), MarkersMove(x, m),
         tx[x].pc \notin EndStates, tx[x].pc # IdlePc, WrittenBy(x),
         \A t \in TxRow : t.pc = p /\ SameRow(t, tx[x]) => BytesRow(t, j, m, content'),
         content'[tx[x].obj] = Torn => tx[x].pc \notin {"started", "writing"}
                                       \/ (p = "writing" /\ RequiredRow(j, m))
  PROVE  RestoreInv'
<1>1. PICK t \in TxRow : TxMoves(x, t) /\ t.pc = p /\ SameRow(t, tx[x])
  BY ToRow, RecoveryTypes DEF RestoreInv
<1>2. BytesRow(t, j, m, content')
  BY <1>1
<1> QED
  BY <1>1, <1>2, WorkerRestores DEF SameRow

\* What is known before a step of the worker of x.
LEMMA BeforeStep ==
  ASSUME RestoreInv, NEW x \in Txs
  PROVE  /\ BytesRow(tx[x], journal[x], marker[x], content)
         /\ TxSound(tx[x], journal[x], marker[x]) /\ tx[x] \in TxRow
         /\ UNCHANGED journal => JournalMoves(x, journal[x])
         /\ UNCHANGED marker => MarkersMove(x, marker[x])
         /\ RecoveryTyped /\ RecoveryInv
BY BytesOf, RowOf, RecoveryTypes

\* IssueWorkspaceGrant preserves RestoreInv.
LEMMA IssueWorkspaceGrantRestores ==
  ASSUME RestoreInv, RecoveryInv', NEW x \in Txs, IssueWorkspaceGrant(x) PROVE RestoreInv'
<1>1. /\ tx[x].pc = IdlePc /\ UNCHANGED <<content, journal, marker, rec>>
  BY DEF IssueWorkspaceGrant
<1>2. PICK r \in FileContents :
         tx' = [tx EXCEPT ![x].pc = "granted", ![x].obj = bound,
                          ![x].expect = content[bound], ![x].repl = r]
  BY DEF IssueWorkspaceGrant
<1>3. PICK s \in TxRow : s = tx[x]
  BY BeforeStep
<1>4. PICK t : t = [s EXCEPT !.pc = "granted", !.obj = bound, !.expect = content[bound], !.repl = r]
  OBVIOUS
<1>5. t.pc = "granted" /\ t.repl = r
  BY <1>3, <1>4 DEF TxRow
<1>6. tx' = [tx EXCEPT ![x] = t]
  BY <1>2, <1>3, <1>4
<1>7. TxMoves(x, t)
  BY <1>6, BeforeStep DEF TxMoves, RecoveryTyped, RecoveryInv
<1>8. marker[x]["started"] = "absent" /\ marker[x]["recovered"] = "absent"
  BY <1>1, BeforeStep DEF TxSound, IdlePc
<1>9. BytesRow(t, journal[x], marker[x], content')
  BY <1>5, <1>8 DEF BytesRow, Holding
<1>10. tx[x].pc \notin EndStates /\ tx[x].pc \notin {"started", "writing"}
  BY <1>1 DEF IdlePc, EndStates
<1> QED
  BY <1>1, <1>7, <1>9, <1>10, BeforeStep, Untouched, WorkerRestores

\* CancelReplacement preserves RestoreInv.
LEMMA CancelReplacementRestores ==
  ASSUME RestoreInv, RecoveryInv', NEW x \in Txs, CancelReplacement(x) PROVE RestoreInv'
<1>1. /\ tx[x].pc \in Working \cup {"granted"} /\ tx' = [tx EXCEPT ![x].cancelled = TRUE]
      /\ UNCHANGED <<content, journal, marker, rec>>
  BY DEF CancelReplacement
<1>2. PICK s \in TxRow : s = tx[x]
  BY BeforeStep
<1>3. PICK t : t = [s EXCEPT !.cancelled = TRUE]
  OBVIOUS
<1>4. /\ t.pc = s.pc /\ t.obj = s.obj /\ t.expect = s.expect /\ t.repl = s.repl
  BY <1>2, <1>3 DEF TxRow
<1>5. tx' = [tx EXCEPT ![x] = t]
  BY <1>1, <1>2, <1>3
<1>6. TxMoves(x, t)
  BY <1>5, BeforeStep DEF TxMoves, RecoveryTyped, RecoveryInv
<1>7. BytesRow(t, journal[x], marker[x], content')
  BY <1>1, <1>2, <1>4, BeforeStep DEF BytesRow
<1>8. tx[x].pc \notin EndStates
  BY <1>1 DEF Working, Holding, EndStates
<1>9. tx[x].pc \in {"started", "writing"} /\ content[tx[x].obj] = Torn
        => RequiredRow(journal[x], marker[x]) /\ t.pc = "writing"
  <2> SUFFICES ASSUME tx[x].pc \in {"started", "writing"}, content[tx[x].obj] = Torn
               PROVE  RequiredRow(journal[x], marker[x]) /\ tx[x].pc = "writing"
    BY <1>2, <1>4
  <2>1. tx[x].pc # "started"
    BY BeforeStep DEF BytesRow, TxSound, Holding
  <2> QED
    BY <2>1, BytesOf
<1> QED
  BY <1>1, <1>2, <1>4, <1>6, <1>7, <1>8, <1>9, BeforeStep, Untouched, WorkerRestores

\* Admit preserves RestoreInv.
LEMMA AdmitRestores ==
  ASSUME RestoreInv, RecoveryInv', NEW x \in Txs, Admit(x) PROVE RestoreInv'
<1>1. /\ tx[x].pc = "granted" /\ UNCHANGED <<content, journal, marker, rec>>
      /\ tx[x].pc \notin EndStates \cup {IdlePc}
  BY DEF Admit, EndStates, IdlePc
<1>2. CASE To(x, "admitted")
  <2>1. \A t \in TxRow : t.pc = "admitted" /\ SameRow(t, tx[x])
                           => BytesRow(t, journal[x], marker[x], content')
    BY <1>1, BeforeStep DEF BytesRow, SameRow, Holding, EndStates, IdlePc
  <2>2. "admitted" \in TxLabels
    BY DEF TxLabels, Working
  <2> QED
    BY <1>1, <1>2, <2>1, <2>2, BeforeStep, Untouched, ToRestores
<1>3. CASE Returns(x, Error)
  BY <1>1, <1>3, OutcomesOf, ReturnsQuietly
<1> QED
  BY <1>2, <1>3 DEF Admit

\* CreateJournal preserves RestoreInv.
LEMMA CreateJournalRestores ==
  ASSUME RestoreInv, RecoveryInv', NEW x \in Txs, CreateJournal(x) PROVE RestoreInv'
<1>1. /\ tx[x].pc = "admitted" /\ UNCHANGED <<content, marker, rec>>
      /\ tx[x].pc \notin EndStates \cup {IdlePc}
  BY DEF CreateJournal, EndStates, IdlePc
<1>2. CASE /\ Matches(x, tx[x].obj, tx[x].expect)
           /\ journal' = [journal EXCEPT ![x] = [state |-> "torn", before |-> content[tx[x].obj]]]
           /\ To(x, "creating")
  <2>1. PICK b : b = content[tx[x].obj]
    OBVIOUS
  <2>2. b = tx[x].expect /\ b \in AnyContent
    BY <1>2, <2>1, BeforeStep DEF Matches, TxRow
  <2>3. PICK j : j = [state |-> "torn", before |-> b]
    OBVIOUS
  <2>4. j.before = b /\ j \in JournalRow
    BY <2>2, <2>3 DEF JournalRow, FileStates
  <2>5. JournalMoves(x, j)
    BY <1>2, <2>1, <2>3, <2>4, JournalChanges, BeforeStep
  <2>6. marker[x]["started"] = "absent"
    BY <1>1, BeforeStep DEF TxSound
  <2>7. \A t \in TxRow : t.pc = "creating" /\ SameRow(t, tx[x])
          => BytesRow(t, j, marker[x], content')
    BY <1>1, <2>2, <2>4, <2>6, BeforeStep DEF BytesRow, SameRow, Holding, EndStates, IdlePc
  <2>8. "creating" \in TxLabels
    BY DEF TxLabels, Working
  <2> QED
    BY <1>1, <1>2, <2>5, <2>7, <2>8, BeforeStep, Untouched, ToRestores
<1>3. CASE Returns(x, Error) /\ UNCHANGED journal
  BY <1>1, <1>3, OutcomesOf, ReturnsQuietly
<1> QED
  BY <1>2, <1>3 DEF CreateJournal

\* JournalWritten preserves RestoreInv.
LEMMA JournalWrittenRestores ==
  ASSUME RestoreInv, RecoveryInv', NEW x \in Txs, JournalWritten(x) PROVE RestoreInv'
<1>1. /\ tx[x].pc = "creating" /\ UNCHANGED <<content, marker, rec>>
      /\ tx[x].pc \notin EndStates \cup {IdlePc} /\ To(x, "prepared")
      /\ journal' = [journal EXCEPT ![x].state = "valid"]
  BY DEF JournalWritten, EndStates, IdlePc
<1>2. PICK j \in JournalRow : JournalMoves(x, j) /\ j.before = journal[x].before
  BY <1>1, JournalStateChanges, BeforeStep DEF FileStates
<1>3. \A t \in TxRow : t.pc = "prepared" /\ SameRow(t, tx[x]) => BytesRow(t, j, marker[x], content')
  BY <1>1, <1>2, BeforeStep DEF BytesRow, SameRow, Holding, EndStates, IdlePc
<1>4. "prepared" \in TxLabels
  BY DEF TxLabels, Working
<1> QED
  BY <1>1, <1>2, <1>3, <1>4, BeforeStep, Untouched, ToRestores

\* JournalFails preserves RestoreInv.
LEMMA JournalFailsRestores ==
  ASSUME RestoreInv, RecoveryInv', NEW x \in Txs, JournalFails(x) PROVE RestoreInv'
<1>1. /\ tx[x].pc = "creating" /\ UNCHANGED <<content, marker, rec>>
      /\ tx[x].pc \notin EndStates \cup {IdlePc} /\ Returns(x, Error)
  BY DEF JournalFails, EndStates, IdlePc
<1>2. PICK s \in FileStates : journal' = [journal EXCEPT ![x].state = s]
  BY DEF JournalFails
<1>3. PICK j \in JournalRow : JournalMoves(x, j)
  BY <1>2, JournalStateChanges, BeforeStep
<1>4. marker[x]["started"] = "absent"
  BY <1>1, BeforeStep DEF TxSound
<1>5. tx[x].pc \notin {"started", "writing"}
  BY <1>1
<1> QED
  BY <1>1, <1>3, <1>4, <1>5, OutcomesOf, BeforeStep, Untouched, ReturnsRestores

\* OpenTarget preserves RestoreInv.
LEMMA OpenTargetRestores ==
  ASSUME RestoreInv, RecoveryInv', NEW x \in Txs, OpenTarget(x) PROVE RestoreInv'
<1>1. /\ tx[x].pc = "prepared" /\ UNCHANGED <<content, journal, marker, rec>>
      /\ tx[x].pc \notin EndStates \cup {IdlePc}
  BY DEF OpenTarget, EndStates, IdlePc
<1>2. CASE Matches(x, tx[x].obj, tx[x].expect) /\ To(x, "opened")
  <2>1. \A t \in TxRow : t.pc = "opened" /\ SameRow(t, tx[x])
                           => BytesRow(t, journal[x], marker[x], content')
    BY <1>1, <1>2, BeforeStep DEF BytesRow, SameRow, Holding, EndStates, IdlePc, Matches
  <2>2. "opened" \in TxLabels
    BY DEF TxLabels, Working, Holding
  <2> QED
    BY <1>1, <1>2, <2>1, <2>2, BeforeStep, Untouched, ToRestores
<1>3. CASE Returns(x, Denied("none")) \/ Returns(x, Conflict("none"))
  BY <1>1, <1>3, OutcomesOf, ReturnsQuietly
<1> QED
  BY <1>2, <1>3 DEF OpenTarget

\* Before it begins, the bytes are those of the journal and are whole.
LEMMA BeginsWhole ==
  ASSUME RestoreInv, NEW x \in Txs, tx[x].pc = "opened", MayPersist(x, "started")
  PROVE  journal[x].before # Torn
<1>1. journal[x].before = content[tx[x].obj] /\ tx[x].obj \in Objects
  BY BeforeStep DEF BytesRow, Holding, TxSound, IdlePc
<1>2. \A y \in Txs \ {x} : tx[y].obj = tx[x].obj => ~Open(y)
  BY MarkerFollows, BeforeStep DEF Markers
<1> SUFFICES ASSUME content[tx[x].obj] = Torn PROVE FALSE
  BY <1>1
<1>3. PICK y \in Txs : TornBy(y, tx[x].obj)
  BY <1>1 DEF RestoreInv, TornSound
<1>4. y # x /\ tx[y].obj = tx[x].obj /\ Open(y)
  BY <1>3 DEF TornBy, EndStates, RequiredRow, Open, OpenRow
<1> QED
  BY <1>2, <1>4

\* PersistStarted preserves RestoreInv.
LEMMA PersistStartedRestores ==
  ASSUME RestoreInv, RecoveryInv', NEW x \in Txs, PersistStarted(x) PROVE RestoreInv'
<1>1. /\ tx[x].pc = "opened" /\ UNCHANGED <<content, journal, marker, rec>>
      /\ tx[x].pc \notin EndStates \cup {IdlePc}
  BY DEF PersistStarted, EndStates, IdlePc
<1>2. CASE MayPersist(x, "started") /\ To(x, "starting")
  <2>1. journal[x].before # Torn
    BY <1>1, <1>2, BeginsWhole
  <2>2. \A t \in TxRow : t.pc = "starting" /\ SameRow(t, tx[x])
                           => BytesRow(t, journal[x], marker[x], content')
    BY <1>1, <2>1, BeforeStep DEF BytesRow, SameRow, Holding, EndStates, IdlePc
  <2>3. "starting" \in TxLabels
    BY DEF TxLabels, Working, Holding
  <2> QED
    BY <1>1, <1>2, <2>2, <2>3, BeforeStep, Untouched, ToRestores
<1>3. CASE To(x, "failed")
  <2>1. \A t \in TxRow : t.pc = "failed" /\ SameRow(t, tx[x])
                           => BytesRow(t, journal[x], marker[x], content')
    BY <1>1, BeforeStep DEF BytesRow, SameRow, Holding, EndStates, IdlePc
  <2>2. "failed" \in TxLabels
    BY DEF TxLabels, Working
  <2> QED
    BY <1>1, <1>3, <2>1, <2>2, BeforeStep, Untouched, ToRestores
<1> QED
  BY <1>2, <1>3 DEF PersistStarted

\* CreateMarker preserves RestoreInv.
LEMMA CreateMarkerRestores ==
  ASSUME RestoreInv, RecoveryInv', NEW x \in Txs, CreateMarker(x) PROVE RestoreInv'
<1>1. /\ UNCHANGED <<content, journal, tx, rec>> /\ tx[x].pc \in {"starting", "committing"}
      /\ tx[x].pc \notin EndStates \cup {IdlePc}
  BY DEF CreateMarker, EndStates, IdlePc
<1>2. PICK k \in {"started", "committed"} :
        MarkerGoes(x, k, "torn") /\ (k = "started" => tx[x].pc = "starting")
  BY DEF CreateMarker, Creates, MarkerGoes
<1>3. k \in Markers /\ "torn" \in FileStates
  BY DEF Markers, FileStates
<1>4. PICK m \in MarkerRow :
        MarkersMove(x, m) /\ m[k] = "torn" /\ \A l \in Markers \ {k} : m[l] = marker[x][l]
  BY <1>2, <1>3, MarkerChanges, BeforeStep
<1>5. m["recovered"] = marker[x]["recovered"] /\ (k # "started"
        => m["started"] = marker[x]["started"])
  BY <1>4 DEF Markers
<1>6. BytesRow(tx[x], journal[x], m, content')
  BY <1>1, <1>2, <1>5, BeforeStep DEF BytesRow
<1>7. TxMoves(x, tx[x])
  BY <1>1, BeforeStep DEF TxMoves, RecoveryTyped
<1>8. tx[x].pc \notin {"started", "writing"}
  BY <1>1
<1> QED
  BY <1>1, <1>4, <1>6, <1>7, <1>8, BeforeStep, Untouched, WorkerRestores

\* StartedWritten preserves RestoreInv.
LEMMA StartedWrittenRestores ==
  ASSUME RestoreInv, RecoveryInv', NEW x \in Txs, StartedWritten(x) PROVE RestoreInv'
<1>1. /\ tx[x].pc = "starting" /\ UNCHANGED <<content, journal, rec>>
      /\ tx[x].pc \notin EndStates \cup {IdlePc}
      /\ To(x, "started") /\ MarkerGoes(x, "started", "valid")
  BY DEF StartedWritten, Completes, MarkerGoes, EndStates, IdlePc
<1>2. "started" \in Markers /\ "valid" \in FileStates
  BY DEF Markers, FileStates
<1>3. PICK m \in MarkerRow :
        MarkersMove(x, m) /\ \A l \in Markers \ {"started"} : m[l] = marker[x][l]
  BY <1>1, <1>2, MarkerChanges, BeforeStep
<1>4. m["recovered"] = marker[x]["recovered"]
  BY <1>3 DEF Markers
<1>5. \A t \in TxRow : t.pc = "started" /\ SameRow(t, tx[x]) => BytesRow(t, journal[x], m, content')
  BY <1>1, <1>4, BeforeStep DEF BytesRow, SameRow, Holding, EndStates, IdlePc
<1>6. "started" \in TxLabels /\ tx[x].pc \notin {"started", "writing"}
  BY <1>1 DEF TxLabels, Working, Holding
<1> QED
  BY <1>1, <1>3, <1>5, <1>6, BeforeStep, Untouched, ToRestores

\* StartedFails preserves RestoreInv.
LEMMA StartedFailsRestores ==
  ASSUME RestoreInv, RecoveryInv', NEW x \in Txs, StartedFails(x) PROVE RestoreInv'
<1>1. /\ tx[x].pc = "starting" /\ UNCHANGED <<content, journal, rec>>
      /\ tx[x].pc \notin EndStates \cup {IdlePc} /\ To(x, "failed")
  BY DEF StartedFails, EndStates, IdlePc
<1>2. PICK s \in FileStates : MarkerGoes(x, "started", s)
  BY DEF StartedFails, LeavesSome, MarkerGoes
<1>3. "started" \in Markers
  BY DEF Markers
<1>4. PICK m \in MarkerRow :
        MarkersMove(x, m) /\ \A l \in Markers \ {"started"} : m[l] = marker[x][l]
  BY <1>2, <1>3, MarkerChanges, BeforeStep
<1>5. m["recovered"] = marker[x]["recovered"]
  BY <1>4 DEF Markers
<1>6. \A t \in TxRow : t.pc = "failed" /\ SameRow(t, tx[x]) => BytesRow(t, journal[x], m, content')
  BY <1>1, <1>5, BeforeStep DEF BytesRow, SameRow, Holding, EndStates, IdlePc
<1>7. "failed" \in TxLabels /\ tx[x].pc \notin {"started", "writing"}
  BY <1>1 DEF TxLabels, Working, Holding
<1> QED
  BY <1>1, <1>4, <1>6, <1>7, BeforeStep, Untouched, ToRestores

\* The steps that return and touch no file.
LEMMA QuietReturnsRestore ==
  ASSUME RestoreInv, RecoveryInv', NEW x \in Txs,
         \/ FenceCancelled(x) \/ RefusedBeforeStart(x) \/ ReconcileStarted(x)
         \/ CancelledAfterStart(x) \/ RefusedAfterStart(x) \/ Panic(x)
  PROVE  RestoreInv'
<1>1. /\ UNCHANGED <<content, journal, marker, rec>>
      /\ tx[x].pc \in {"prepared", "opened", "failed", "started", "writing", "written"}
  BY DEF FenceCancelled, RefusedBeforeStart, ReconcileStarted, CancelledAfterStart,
         RefusedAfterStart, Panic
<1>2. tx[x].pc \notin EndStates \cup {IdlePc}
  BY <1>1 DEF EndStates, IdlePc
<1>3. \E r \in Outcomes : Returns(x, r)
  <2>1. CASE Panic(x)
    <3>1. AfterPanic(x) \in Outcomes /\ Returns(x, AfterPanic(x))
      BY <2>1, AfterPanicIsTrue, BeforeStep DEF Panic
    <3> QED
      BY <3>1
  <2>2. CASE ReconcileStarted(x)
    <3>1. Reconciled(x) \in Outcomes /\ Returns(x, Reconciled(x))
      BY <2>2, ReconciledIsTrue, BeforeStep DEF ReconcileStarted
    <3> QED
      BY <3>1
  <2>3. CASE \/ FenceCancelled(x) \/ RefusedBeforeStart(x) \/ CancelledAfterStart(x)
             \/ RefusedAfterStart(x)
    <3>1. Returns(x, Denied("none")) \/ Returns(x, Denied("required"))
      BY <2>3 DEF FenceCancelled, RefusedBeforeStart, CancelledAfterStart, RefusedAfterStart
    <3> QED
      BY <3>1, OutcomesOf
  <2> QED
    BY <2>1, <2>2, <2>3
<1>4. PICK r \in Outcomes : Returns(x, r)
  BY <1>3
<1> QED
  BY <1>1, <1>2, <1>4, ReturnsQuietly

\* FirstWrite preserves RestoreInv.
LEMMA FirstWriteRestores ==
  ASSUME RestoreInv, RecoveryInv', NEW x \in Txs, FirstWrite(x) PROVE RestoreInv'
<1>1. /\ tx[x].pc = "started" /\ UNCHANGED <<journal, marker, rec>>
      /\ tx' = [tx EXCEPT ![x].pc = "writing", ![x].wrote = TRUE]
      /\ BytesGo(tx[x].obj, Torn) /\ tx[x].pc \notin EndStates
  BY DEF FirstWrite, BytesGo, EndStates
<1>2. tx[x].obj \in Objects /\ RequiredRow(journal[x], marker[x])
  BY <1>1, BytesOf DEF Holding
<1>3. content'[tx[x].obj] = Torn /\ WrittenBy(x)
  BY <1>1, <1>2, BytesChange, BeforeStep DEF WrittenBy, AnyContent
<1>4. PICK s \in TxRow : s = tx[x]
  BY BeforeStep
<1>5. PICK t : t = [s EXCEPT !.pc = "writing", !.wrote = TRUE]
  OBVIOUS
<1>6. t.pc = "writing" /\ t.obj = s.obj /\ t.expect = s.expect /\ t.repl = s.repl
  BY <1>4, <1>5 DEF TxRow
<1>7. tx' = [tx EXCEPT ![x] = t]
  BY <1>1, <1>4, <1>5
<1>8. TxMoves(x, t)
  BY <1>7, BeforeStep DEF TxMoves, RecoveryTyped, RecoveryInv
<1>9. BytesRow(t, journal[x], marker[x], content')
  BY <1>1, <1>3, <1>4, <1>6, BeforeStep DEF BytesRow, Holding, EndStates, IdlePc
<1> QED
  BY <1>1, <1>2, <1>3, <1>4, <1>6, <1>8, <1>9, BeforeStep, WorkerRestores

\* WriteDone preserves RestoreInv.
LEMMA WriteDoneRestores ==
  ASSUME RestoreInv, RecoveryInv', NEW x \in Txs, WriteDone(x) PROVE RestoreInv'
<1>1. /\ tx[x].pc = "writing" /\ UNCHANGED <<journal, marker, rec>>
      /\ To(x, "written") /\ BytesGo(tx[x].obj, tx[x].repl)
      /\ tx[x].pc \notin EndStates \cup {IdlePc}
  BY DEF WriteDone, BytesGo, EndStates, IdlePc
<1>2. tx[x].obj \in Objects /\ tx[x].repl \in FileContents
  BY <1>1, BytesOf DEF Holding, BytesRow, IdlePc
<1>3. content'[tx[x].obj] # Torn /\ WrittenBy(x)
  BY <1>1, <1>2, BytesChange, BeforeStep, Persons DEF WrittenBy, AnyContent
<1>4. \A t \in TxRow : t.pc = "written" /\ SameRow(t, tx[x])
                         => BytesRow(t, journal[x], marker[x], content')
  BY <1>1, BeforeStep DEF BytesRow, SameRow, Holding, EndStates, IdlePc
<1>5. "written" \in TxLabels
  BY DEF TxLabels, Working
<1> QED
  BY <1>1, <1>3, <1>4, <1>5, BeforeStep, ToRestores

\* WriteFails preserves RestoreInv.
LEMMA WriteFailsRestores ==
  ASSUME RestoreInv, RecoveryInv', NEW x \in Txs, WriteFails(x) PROVE RestoreInv'
<1>1. /\ tx[x].pc = "writing" /\ UNCHANGED <<journal, marker, rec>>
      /\ Returns(x, CommitUnknown) /\ tx[x].pc \notin EndStates \cup {IdlePc}
  BY DEF WriteFails, EndStates, IdlePc
<1>2. PICK c \in {Torn, tx[x].repl} : BytesGo(tx[x].obj, c)
  BY DEF WriteFails, BytesGo
<1>3. tx[x].obj \in Objects /\ c \in AnyContent /\ RequiredRow(journal[x], marker[x])
  BY <1>1, BytesOf, BeforeStep DEF Holding, AnyContent, TxRow
<1>4. WrittenBy(x)
  BY <1>1, <1>2, <1>3, BytesChange, BeforeStep DEF WrittenBy
<1>5. marker[x]["started"] # "absent" => journal[x].before # Torn
  BY BeforeStep DEF BytesRow
<1> QED
  BY <1>1, <1>3, <1>4, <1>5, OutcomesOf, BeforeStep, ReturnsRestores

\* PersistCommitted preserves RestoreInv.
LEMMA PersistCommittedRestores ==
  ASSUME RestoreInv, RecoveryInv', NEW x \in Txs, PersistCommitted(x) PROVE RestoreInv'
<1>1. /\ tx[x].pc = "written" /\ UNCHANGED <<content, journal, marker, rec>>
      /\ tx[x].pc \notin EndStates \cup {IdlePc}
  BY DEF PersistCommitted, EndStates, IdlePc
<1>2. CASE To(x, "committing")
  <2>1. \A t \in TxRow : t.pc = "committing" /\ SameRow(t, tx[x])
                           => BytesRow(t, journal[x], marker[x], content')
    BY <1>1, BeforeStep DEF BytesRow, SameRow, Holding, EndStates, IdlePc
  <2>2. "committing" \in TxLabels
    BY DEF TxLabels, Working
  <2> QED
    BY <1>1, <1>2, <2>1, <2>2, BeforeStep, Untouched, ToRestores
<1>3. CASE Returns(x, CommitUnknown)
  BY <1>1, <1>3, OutcomesOf, ReturnsQuietly
<1> QED
  BY <1>2, <1>3 DEF PersistCommitted

\* The .committed file is complete, or is left as the failing call left it.
LEMMA CommitEndRestores ==
  ASSUME RestoreInv, RecoveryInv', NEW x \in Txs, CommittedWritten(x) \/ CommittedFails(x)
  PROVE  RestoreInv'
<1>1. /\ tx[x].pc = "committing" /\ UNCHANGED <<content, journal, rec>>
      /\ tx[x].pc \notin EndStates \cup {IdlePc}
  BY DEF CommittedWritten, CommittedFails, EndStates, IdlePc
<1>2. PICK r \in {CommittedOutcome, CommitUnknown} : Returns(x, r)
  BY DEF CommittedWritten, CommittedFails
<1>3. PICK s \in FileStates : MarkerGoes(x, "committed", s)
  BY DEF CommittedWritten, CommittedFails, Completes, LeavesSome, FileStates, MarkerGoes
<1>4. "committed" \in Markers
  BY DEF Markers
<1>5. PICK m \in MarkerRow :
        MarkersMove(x, m) /\ \A l \in Markers \ {"committed"} : m[l] = marker[x][l]
  BY <1>3, <1>4, MarkerChanges, BeforeStep
<1>6. m["started"] = marker[x]["started"]
  BY <1>5 DEF Markers
<1>7. m["started"] # "absent" => journal[x].before # Torn
  BY <1>6, BeforeStep DEF BytesRow
<1>8. r \in Outcomes /\ tx[x].pc \notin {"started", "writing"}
  BY <1>1, OutcomesOf
<1> QED
  BY <1>1, <1>2, <1>5, <1>7, <1>8, BeforeStep, Untouched, ReturnsRestores

\* WorkerStep preserves RestoreInv.
LEMMA WorkerStepRestores ==
  ASSUME RestoreInv, RecoveryInv', NEW x \in Txs,
         IssueWorkspaceGrant(x) \/ CancelReplacement(x) \/ TxStep(x) \/ TxFault(x)
  PROVE  RestoreInv'
<1>1. CASE TxStep(x)
  BY <1>1, AdmitRestores, CreateJournalRestores, JournalWrittenRestores, OpenTargetRestores,
     PersistStartedRestores, CreateMarkerRestores, StartedWrittenRestores, QuietReturnsRestore,
     FirstWriteRestores, WriteDoneRestores, PersistCommittedRestores, CommitEndRestores DEF TxStep
<1>2. CASE TxFault(x)
  BY <1>2, JournalFailsRestores, StartedFailsRestores, QuietReturnsRestore, WriteFailsRestores,
     CommitEndRestores DEF TxFault
<1> QED
  BY <1>1, <1>2, IssueWorkspaceGrantRestores, CancelReplacementRestores

\* An executor acts on a replacement that has ended and writes under its own handle.
LEMMA RecovererRestores ==
  ASSUME RestoreInv, RecoveryInv', OneRecovery, NEW q \in Recoverers, NEW r,
         RecMoves(q, r), RecoveredMoves(q), UNCHANGED <<tx, journal>>,
         r.pc # IdlePc => /\ r.of \in Txs /\ tx[r.of].pc \in EndStates
                          /\ marker[r.of]["committed"] = "absent"
                          /\ r.pc # "marked" => marker'[r.of]["recovered"] = "absent",
         r.pc = "open" => content'[tx[r.of].obj] = r.cur,
         r.pc \in {"restored", "marking", "marked"} => content'[tx[r.of].obj] # Torn,
         \A o \in Objects : content'[o] # content[o] =>
           o = tx[rec[q].of].obj /\ rec[q].pc \in RecHolding
  PROVE  RestoreInv'
<1>1. rec'[q] = r /\ \A p \in Recoverers : p = q
  BY DEF RecMoves, OneRecovery
<1>2. RestoreSound(q) /\ RecSound(q)
  BY RestoreOf
<1>3. \A y \in Txs : marker'[y]["recovered"] # marker[y]["recovered"] =>
        y = rec[q].of /\ rec[q].pc \in {"marking", "marked"}
  BY DEF RecoveredMoves
<1>4. ASSUME NEW y \in Txs PROVE BytesRow(tx'[y], journal'[y], marker'[y], content')
  <2>1. marker'[y]["recovered"] # "absent" => tx[y].pc \in EndStates
    BY <1>2, <1>3, BytesOf DEF RestoreSound, IdlePc
  <2>2. tx[y].pc \in Holding => content'[tx[y].obj] = content[tx[y].obj]
    BY BytesOf, RestoreOf, Persons
  <2>3. marker'[y]["started"] = marker[y]["started"]
    BY DEF RecoveredMoves
  <2> QED
    BY <2>1, <2>2, <2>3, BytesOf DEF BytesRow, Holding
<1>5. ASSUME NEW p \in Recoverers PROVE RestoreSound(p)'
  <2>1. p = q /\ rec'[p] = r
    BY <1>1
  <2>2. r.pc # IdlePc => marker'[r.of]["committed"] = "absent"
    BY DEF RecoveredMoves
  <2>3. r.pc \in {"open", "restored", "marking", "marked"} => r.pc # IdlePc
    BY DEF IdlePc
  <2> QED
    BY <2>1, <2>2, <2>3 DEF RestoreSound
<1>6. ASSUME NEW o \in Objects, content'[o] = Torn PROVE \E y \in Txs : TornBy(y, o)'
  <2>1. CASE content[o] = Torn
    <3>1. PICK y \in Txs : TornBy(y, o)
      BY <2>1 DEF RestoreInv, TornSound
    <3>2. marker'[y]["recovered"] = marker[y]["recovered"]
      BY <1>2, <1>3, <2>1, <3>1 DEF TornBy, RestoreSound
    <3> QED
      BY <3>1, <3>2 DEF TornBy, RequiredRow, RecoveredMoves
  <2>2. CASE content[o] # Torn
    <3>1. o = tx[rec[q].of].obj /\ rec[q].pc \in RecHolding
      BY <1>6, <2>2
    <3>2. PICK y \in Txs : y = rec[q].of
      BY <1>2, <3>1 DEF RecSound, RecHolding, IdlePc
    <3>3. RequiredRow(journal[y], marker[y]) /\ tx[y].pc \in EndStates
      BY <1>2, <3>1, <3>2 DEF RestoreSound, RecSound, RequiredRow, RecHolding, IdlePc
    <3>4. marker'[y]["recovered"] = marker[y]["recovered"]
      BY <1>3, <3>1 DEF RecHolding
    <3> QED
      BY <3>1, <3>2, <3>3, <3>4 DEF TornBy, RequiredRow, RecoveredMoves
  <2> QED
    BY <2>1, <2>2
<1> QED
  BY <1>4, <1>5, <1>6 DEF RestoreInv, TornSound

\* Go preserves RestoreInv.
LEMMA GoRestores ==
  ASSUME RestoreInv, RecoveryInv', OneRecovery, NEW q \in Recoverers, NEW p \in RecStates,
         Go(q, p), RecoveredMoves(q), UNCHANGED <<tx, journal>>,
         p = IdlePc \/ (rec[q].pc \notin {IdlePc, "marked"} /\ (p = "marked" \/ UNCHANGED marker)),
         p = "open" => content'[tx[rec[q].of].obj] = rec[q].cur,
         p \in {"restored", "marking", "marked"} => content'[tx[rec[q].of].obj] # Torn,
         \A o \in Objects : content'[o] # content[o] =>
           o = tx[rec[q].of].obj /\ rec[q].pc \in RecHolding
  PROVE  RestoreInv'
<1>1. PICK r \in RecRow : RecMoves(q, r) /\ r.pc = p /\ r.of = rec[q].of /\ r.cur = rec[q].cur
  BY GoRow, RecoveryTypes DEF RestoreInv
<1>2. RestoreSound(q) /\ RecSound(q)
  BY RestoreOf
<1>3. r.pc # IdlePc => /\ r.of \in Txs /\ tx[r.of].pc \in EndStates
                       /\ marker[r.of]["committed"] = "absent"
                       /\ r.pc # "marked" => marker'[r.of]["recovered"] = "absent"
  BY <1>1, <1>2 DEF RestoreSound, RecSound
<1> QED
  BY <1>1, <1>3, RecovererRestores

\* AskRecovery preserves RestoreInv.
LEMMA AskRecoveryRestores ==
  ASSUME RestoreInv, RecoveryInv', OneRecovery, NEW q \in Recoverers, NEW x \in Txs,
         AskRecovery(q, x)
  PROVE  RestoreInv'
<1>1. /\ rec[q].pc = IdlePc /\ TxState(x) = "required"
      /\ UNCHANGED <<content, journal, marker, tx>> /\ tx[x].pc \in EndStates
      /\ rec' = [rec EXCEPT ![q] = [pc |-> "asked", of |-> x, cur |-> content[bound],
                                    rev |-> authority.revision]]
  BY DEF AskRecovery, OneRecovery
<1>2. PICK r : r = [pc |-> "asked", of |-> x, cur |-> content[bound], rev |-> authority.revision]
  OBVIOUS
<1>3. r.pc = "asked" /\ r.of = x /\ rec' = [rec EXCEPT ![q] = r]
  BY <1>1, <1>2
<1>4. RecMoves(q, r)
  BY <1>3, RecoveryTypes DEF RecMoves, RestoreInv, RecoveryInv, RecoveryTyped
<1>5. RecoveryTyped
  BY RecoveryTypes DEF RestoreInv
<1>6. RequiredRow(journal[x], marker[x])
  BY <1>1, <1>5, StateOf
<1>7. RecoveredMoves(q)
  BY <1>1, <1>5, MarkersStay
<1> QED
  BY <1>1, <1>3, <1>4, <1>6, <1>7, RecovererRestores DEF RequiredRow

\* The steps that touch no file.
LEMMA LookingRestores ==
  ASSUME RestoreInv, RecoveryInv', OneRecovery, NEW q \in Recoverers,
         \/ RecoverScan(q) \/ RecoverGrant(q) \/ RecoverOpen(q) \/ PersistRecovered(q)
         \/ RecoverFails(q)
  PROVE  RestoreInv'
<1>1. UNCHANGED <<content, journal, marker, tx>> /\ RecoveryTyped
  BY RecoveryTypes
     DEF RecoverScan, RecoverGrant, RecoverOpen, PersistRecovered, RecoverFails, RestoreInv
<1>2. RecoveredMoves(q) /\ RestoreSound(q)
  BY <1>1, MarkersStay, RestoreOf
<1>3. CASE \E p \in {"scanned", "granted", IdlePc} :
             Go(q, p) /\ (p = IdlePc \/ rec[q].pc \in {"asked", "scanned"})
  <2>1. PICK p \in {"scanned", "granted", IdlePc} :
          Go(q, p) /\ (p = IdlePc \/ rec[q].pc \in {"asked", "scanned"})
    BY <1>3
  <2>2. p \in RecStates /\ p \notin {"open", "restored", "marking", "marked"}
    BY DEF RecStates, IdlePc
  <2> QED
    BY <1>1, <1>2, <2>1, <2>2, GoRestores DEF IdlePc
<1>4. CASE RecoverOpen(q) /\ Go(q, "open") /\ Matches(q, tx[rec[q].of].obj, rec[q].cur)
  <2>1. rec[q].pc = "granted" /\ content'[tx[rec[q].of].obj] = rec[q].cur
    BY <1>1, <1>4 DEF RecoverOpen, Matches
  <2>2. "open" \in RecStates
    BY DEF RecStates, RecHolding
  <2> QED
    BY <1>1, <1>2, <1>4, <2>1, <2>2, GoRestores DEF IdlePc
<1>5. CASE PersistRecovered(q) /\ Go(q, "marking")
  <2>1. rec[q].pc = "restored" /\ content'[tx[rec[q].of].obj] # Torn
    BY <1>1, <1>2, <1>5 DEF PersistRecovered, RestoreSound
  <2>2. "marking" \in RecStates
    BY DEF RecStates
  <2> QED
    BY <1>1, <1>2, <1>5, <2>1, <2>2, GoRestores DEF IdlePc
<1> QED
  BY <1>3, <1>4, <1>5 DEF RecoverScan, RecoverGrant, RecoverOpen, PersistRecovered, RecoverFails

\* The preimage a recovery writes back is whole.
LEMMA PreimageWhole ==
  ASSUME RestoreInv, NEW q \in Recoverers, rec[q].pc # IdlePc
  PROVE  journal[rec[q].of].before \in AnyContent \ {Torn} /\ tx[rec[q].of].obj \in Objects
<1>1. PICK x \in Txs : x = rec[q].of /\ marker[x]["started"] = "valid"
  BY RestoreOf DEF RecSound
<1>2. journal[x].before \in AnyContent /\ journal[x].before # Torn
  BY <1>1, BeforeStep DEF BytesRow, RecoveryTyped, JournalRow
<1> QED
  BY <1>1, <1>2, RestoreOf

\* RecoverFence preserves RestoreInv.
LEMMA RecoverFenceRestores ==
  ASSUME RestoreInv, RecoveryInv', OneRecovery, NEW q \in Recoverers, RecoverFence(q)
  PROVE  RestoreInv'
<1>1. rec[q].pc = "open" /\ UNCHANGED <<journal, marker, tx>> /\ RecoveryTyped
  BY RecoveryTypes DEF RecoverFence, RestoreInv
<1>2. RecoveredMoves(q) /\ rec[q].pc \notin {IdlePc, "marked"} /\ rec[q].pc \in RecHolding
  BY <1>1, MarkersStay DEF IdlePc, RecHolding
<1>3. PICK o \in Objects : o = tx[rec[q].of].obj
  BY <1>2, PreimageWhole
<1>4. CASE Go(q, IdlePc) /\ UNCHANGED content
  BY <1>1, <1>2, <1>4, GoRestores DEF RecStates, IdlePc
<1>5. CASE content[o] = journal[rec[q].of].before /\ Go(q, "restored") /\ UNCHANGED content
  <2>1. "restored" \in RecStates /\ content'[o] # Torn
    BY <1>2, <1>5, PreimageWhole DEF RecStates
  <2> QED
    BY <1>1, <1>2, <1>3, <1>5, <2>1, GoRestores
<1>6. CASE BytesGo(o, Torn) /\ Go(q, "restoring")
  <2>1. \A p \in Objects : content'[p] # content[p] => p = o
    BY <1>1, <1>6, BytesChange DEF AnyContent
  <2>2. "restoring" \in RecStates
    BY DEF RecStates, RecHolding
  <2> QED
    BY <1>1, <1>2, <1>3, <1>6, <2>1, <2>2, GoRestores
<1> QED
  BY <1>3, <1>4, <1>5, <1>6 DEF RecoverFence, BytesGo

\* RecoverWritten preserves RestoreInv.
LEMMA RecoverWrittenRestores ==
  ASSUME RestoreInv, RecoveryInv', OneRecovery, NEW q \in Recoverers, RecoverWritten(q)
  PROVE  RestoreInv'
<1>1. /\ rec[q].pc = "restoring" /\ UNCHANGED <<journal, marker, tx>> /\ Go(q, "restored")
      /\ BytesGo(tx[rec[q].of].obj, journal[rec[q].of].before) /\ RecoveryTyped
  BY RecoveryTypes DEF RecoverWritten, BytesGo, RestoreInv
<1>2. RecoveredMoves(q) /\ rec[q].pc \notin {IdlePc, "marked"} /\ rec[q].pc \in RecHolding
  BY <1>1, MarkersStay DEF IdlePc, RecHolding
<1>3. /\ content'[tx[rec[q].of].obj] # Torn
      /\ \A p \in Objects : content'[p] # content[p] => p = tx[rec[q].of].obj
  BY <1>1, <1>2, PreimageWhole, BytesChange
<1>4. "restored" \in RecStates
  BY DEF RecStates
<1> QED
  BY <1>1, <1>2, <1>3, <1>4, GoRestores

\* CreateRecovered preserves RestoreInv.
LEMMA CreateRecoveredRestores ==
  ASSUME RestoreInv, RecoveryInv', OneRecovery, NEW q \in Recoverers, CreateRecovered(q)
  PROVE  RestoreInv'
<1>1. /\ rec[q].pc = "marking" /\ UNCHANGED <<content, journal, tx>> /\ RecoveryTyped
      /\ RecoveryInv
  BY RecoveryTypes DEF CreateRecovered, RestoreInv
<1>2. rec[q].pc \notin {IdlePc, "marked"} /\ content[tx[rec[q].of].obj] # Torn
  BY <1>1, RestoreOf DEF IdlePc, RestoreSound
<1>3. CASE /\ marker[rec[q].of]["recovered"] = "absent"
           /\ MarkerGoes(rec[q].of, "recovered", "torn") /\ Go(q, "marked")
  <2>1. RecoveredMoves(q)
    BY <1>1, <1>3, RecoveredGoes DEF FileStates
  <2>2. "marked" \in RecStates
    BY DEF RecStates
  <2> QED
    BY <1>1, <1>2, <1>3, <2>1, <2>2, GoRestores
<1>4. CASE UNCHANGED marker /\ Go(q, IdlePc)
  <2>1. RecoveredMoves(q)
    BY <1>1, <1>4, MarkersStay
  <2> QED
    BY <1>1, <1>4, <2>1, GoRestores DEF RecStates, IdlePc
<1> QED
  BY <1>3, <1>4 DEF CreateRecovered, Creates, MarkerGoes

\* LastMarker preserves RestoreInv.
LEMMA LastMarkerRestores ==
  ASSUME RestoreInv, RecoveryInv', OneRecovery, NEW q \in Recoverers,
         RecoveredWritten(q) \/ RecoveredFails(q)
  PROVE  RestoreInv'
<1>1. /\ rec[q].pc = "marked" /\ UNCHANGED <<content, journal, tx>> /\ Go(q, IdlePc)
      /\ RecoveryInv
  BY DEF RecoveredWritten, RecoveredFails, RestoreInv
<1>2. PICK s \in FileStates : MarkerGoes(rec[q].of, "recovered", s)
  BY DEF RecoveredWritten, RecoveredFails, Completes, LeavesSome, FileStates, MarkerGoes
<1>3. RecoveredMoves(q)
  BY <1>1, <1>2, RecoveredGoes
<1> QED
  BY <1>1, <1>3, GoRestores DEF RecStates, IdlePc

-----------------------------------------------------------------------------
\* Edit preserves RestoreInv.
LEMMA EditRestores == ASSUME RestoreInv, RecoveryInv', NEW o \in Objects, Edit(o) PROVE RestoreInv'
<1>1. held[o] = NoOne /\ UNCHANGED <<journal, marker, tx, rec>>
  BY DEF Edit
<1>2. PICK c \in FileContents : BytesGo(o, c)
  BY DEF Edit, BytesGo
<1>3. /\ content'[o] = c /\ c # Torn
      /\ \A p \in Objects \ {o} : content'[p] = content[p]
  BY <1>2, BytesChange, RecoveryTypes, Persons DEF RestoreInv, AnyContent
<1>4. ASSUME NEW x \in Txs PROVE BytesRow(tx'[x], journal'[x], marker'[x], content')
  <2>1. tx[x].pc \in Holding => content'[tx[x].obj] = content[tx[x].obj]
    BY <1>1, <1>3, BytesOf, Persons
  <2> QED
    BY <1>1, <2>1, BytesOf DEF BytesRow, Holding
<1>5. ASSUME NEW q \in Recoverers PROVE RestoreSound(q)'
  <2>1. rec[q].pc = "open" => content'[tx[rec[q].of].obj] = content[tx[rec[q].of].obj]
    BY <1>1, <1>3, RestoreOf, Persons DEF RecHolding, IdlePc
  <2>2. rec[q].pc # IdlePc /\ content[tx[rec[q].of].obj] # Torn
          => content'[tx[rec[q].of].obj] # Torn
    BY <1>3, RestoreOf
  <2> QED
    BY <1>1, <2>1, <2>2, RestoreOf DEF RestoreSound, IdlePc
<1>6. TornSound'
  BY <1>1, <1>3 DEF RestoreInv, TornSound, TornBy
<1> QED
  BY <1>4, <1>5, <1>6 DEF RestoreInv

\* Steps that leave the bytes, the directory and the rows alone.
LEMMA OutsideRestores ==
  ASSUME RestoreInv, RecoveryInv', UNCHANGED <<content, journal, marker, tx, rec>>
  PROVE  RestoreInv'
<1>1. \A x \in Txs : BytesRow(tx'[x], journal'[x], marker'[x], content')
  BY DEF RestoreInv
<1>2. \A q \in Recoverers : RestoreSound(q)'
  BY DEF RestoreInv, RestoreSound
<1>3. TornSound'
  BY DEF RestoreInv, TornSound, TornBy
<1> QED
  BY <1>1, <1>2, <1>3 DEF RestoreInv

\* AgentCrash preserves RestoreInv.
LEMMA AgentCrashRestores ==
  ASSUME RestoreInv, RecoveryInv', NEW p \in Procs, AgentCrash(p) PROVE RestoreInv'
<1>1. UNCHANGED <<content, journal, marker>> /\ RecoveryInv
  BY DEF AgentCrash, RestoreInv
<1>2. ASSUME NEW x \in Txs PROVE BytesRow(tx'[x], journal'[x], marker'[x], content')
  <2>1. CASE tx'[x] = tx[x]
    BY <1>1, <2>1, BytesOf
  <2>2. CASE tx'[x].pc = "dead" /\ tx[x].pc # IdlePc /\ tx'[x].repl = tx[x].repl
    BY <1>1, <2>2, BytesOf DEF BytesRow, Holding, EndStates
  <2> QED
    BY <1>1, <2>1, <2>2, CrashRows
<1>3. \A x \in Txs : /\ tx'[x].obj = tx[x].obj
                     /\ tx[x].pc \in EndStates => tx'[x].pc \in EndStates
                     /\ tx[x].pc = "writing" => tx'[x].pc \in {"writing"} \cup EndStates
  BY <1>1, CrashRows DEF EndStates
<1>4. ASSUME NEW q \in Recoverers PROVE RestoreSound(q)'
  <2>1. CASE rec'[q] = rec[q]
    <3>1. rec[q].pc # IdlePc => rec[q].of \in Txs
      BY RestoreOf DEF RecSound
    <3> QED
      BY <1>1, <1>3, <2>1, <3>1, RestoreOf DEF RestoreSound, IdlePc
  <2>2. CASE rec'[q].pc = IdlePc
    BY <2>2 DEF RestoreSound, IdlePc
  <2> QED
    BY <1>1, <2>1, <2>2, CrashRows
<1>5. TornSound'
  BY <1>1, <1>3 DEF RestoreInv, TornSound, TornBy
<1> QED
  BY <1>2, <1>4, <1>5 DEF RestoreInv

\* RestoreInv holds initially.
LEMMA RestoreStarts == ASSUME RecoveryInit PROVE RestoreInv
<1>1. RecoveryInv
  BY RecoveryStarts
<1>2. \A x \in Txs : tx[x].pc = IdlePc /\ marker[x]["started"] = "absent"
                     /\ marker[x]["recovered"] = "absent"
  BY DEF RecoveryInit, Markers
<1>3. \A x \in Txs : BytesRow(tx[x], journal[x], marker[x], content)
  BY <1>2 DEF BytesRow, Holding, IdlePc
<1>4. \A q \in Recoverers : rec[q].pc = IdlePc
  BY DEF RecoveryInit
<1>5. \A q \in Recoverers : RestoreSound(q)
  BY <1>4 DEF RestoreSound, IdlePc
<1>6. TornSound
  BY Persons DEF TornSound, RecoveryInit
<1> QED
  BY <1>1, <1>3, <1>5, <1>6 DEF RestoreInv

\* Every step preserves it.
LEMMA RestoreNext ==
  ASSUME RestoreInv, OneRecovery, [RecoveryNext]_recoveryVars PROVE RestoreInv'
<1>1. RecoveryInv'
  BY RecoveryNextKeeps DEF RestoreInv
<1>2. ASSUME NEW q \in Recoverers, RecStep(q) \/ RecFault(q) PROVE RestoreInv'
  BY <1>1, <1>2, LookingRestores, RecoverFenceRestores, RecoverWrittenRestores,
     CreateRecoveredRestores, LastMarkerRestores DEF RecStep, RecFault
<1>3. CASE Disable \/ Rebind \/ UNCHANGED recoveryVars
  <2>1. UNCHANGED <<content, journal, marker, tx, rec>>
    BY <1>3 DEF Disable, Rebind, recoveryVars
  <2> QED
    BY <1>1, <2>1, OutsideRestores
<1> QED
  BY <1>1, <1>2, <1>3, WorkerStepRestores, AskRecoveryRestores, EditRestores, AgentCrashRestores
     DEF RecoveryNext

\* So it always holds.
LEMMA RestoreInvariant == ASSUME OneRecovery PROVE RecoverySpec => []RestoreInv
<1>1. RestoreInv /\ [RecoveryNext]_recoveryVars => RestoreInv'
  BY RestoreNext
<1> QED
  BY <1>1, RestoreStarts, PTL DEF RecoverySpec

\* An unresolved replacement is found by a scan of its target.
LEMMA FoundByScan ==
  ASSUME RecoveryTyped, NEW x \in Txs, RequiredRow(journal[x], marker[x])
  PROVE  x \in Required(tx[x].obj)
BY StateOf DEF Required, On, RequiredRow

\* The replacement of a torn file is found by a scan of its target.
LEMMA TornIsFound == ASSUME RestoreInv PROVE TornIsUnresolved
<1> SUFFICES ASSUME NEW o \in Objects, content[o] = Torn PROVE Lifecycle(o, {}) # "clear"
  BY DEF TornIsUnresolved
<1>1. PICK x \in Txs : TornBy(x, o)
  BY DEF RestoreInv, TornSound
<1>2. x \in Required(o)
  BY <1>1, FoundByScan, BeforeStep DEF TornBy
<1> QED
  BY <1>2 DEF Lifecycle

\* With one executor that recovers replacements that have ended, also a torn file always
\* has an unresolved replacement that a scan finds, wherever the writing or restoring
\* process died or failed; so it can be restored and nothing is admitted on top of it.
THEOREM TornFilesAreRecoverable ==
  ASSUME OneRecovery
  PROVE  RecoverySpec => []RecoverySafe
<1>1. RestoreInv => RecoverySafe
  BY TornIsFound, HandlesAndTypes, AloneOnItsTarget, AnswersAreTrue DEF RestoreInv, RecoverySafe
<1> QED
  BY <1>1, RestoreInvariant, PTL

\* One step that makes an object torn.
TearsOnlyNamed ==
  \A o \in Objects : content'[o] = Torn /\ content[o] # Torn =>
    \/ \E x \in Required(o) : journal[x].before = content[o]
    \/ \E q \in Recoverers : rec[q].pc = "open" /\ rec[q].of \in Required(o)
         /\ rec[q].cur = content[o]

\* The worker of a replacement tears only what it has journaled.
LEMMA WorkerTears ==
  ASSUME RestoreInv, NEW x \in Txs,
         IssueWorkspaceGrant(x) \/ CancelReplacement(x) \/ TxStep(x) \/ TxFault(x)
  PROVE  TearsOnlyNamed
<1>1. CASE FirstWrite(x)
  <2>1. tx[x].pc = "started" /\ BytesGo(tx[x].obj, Torn)
    BY <1>1 DEF FirstWrite, BytesGo
  <2>2. tx[x].obj \in Objects /\ RequiredRow(journal[x], marker[x])
    BY <2>1, BytesOf DEF Holding
  <2>3. \A o \in Objects : content'[o] # content[o] => o = tx[x].obj
    BY <2>1, <2>2, BytesChange, BeforeStep DEF AnyContent
  <2>4. journal[x].before = content[tx[x].obj]
    BY <2>1, BeforeStep DEF BytesRow, Holding
  <2>5. x \in Required(tx[x].obj)
    BY <2>2, FoundByScan, BeforeStep
  <2> QED
    BY <2>3, <2>4, <2>5 DEF TearsOnlyNamed
<1>2. CASE WriteDone(x) \/ WriteFails(x)
  <2>1. tx[x].pc = "writing"
    BY <1>2 DEF WriteDone, WriteFails
  <2>2. tx[x].obj \in Objects /\ content[tx[x].obj] = Torn
    BY <2>1, BytesOf DEF Holding, BytesRow
  <2>3. PICK c \in {Torn, tx[x].repl} : BytesGo(tx[x].obj, c)
    BY <1>2 DEF WriteDone, WriteFails, BytesGo
  <2>4. c \in AnyContent
    BY <2>3, BeforeStep DEF AnyContent, TxRow
  <2>5. \A o \in Objects : content'[o] # content[o] => o = tx[x].obj
    BY <2>2, <2>3, <2>4, BytesChange, BeforeStep
  <2> QED
    BY <2>2, <2>5 DEF TearsOnlyNamed
<1>3. CASE UNCHANGED content
  BY <1>3 DEF TearsOnlyNamed
<1>4. TxStep(x) => UNCHANGED content \/ FirstWrite(x) \/ WriteDone(x)
  BY DEF TxStep, Admit, CreateJournal, JournalWritten, OpenTarget, FenceCancelled, PersistStarted,
         CreateMarker, StartedWritten, ReconcileStarted, CancelledAfterStart, PersistCommitted,
         CommittedWritten
<1>5. TxFault(x) => UNCHANGED content \/ WriteFails(x)
  BY DEF TxFault, JournalFails, RefusedBeforeStart, StartedFails, RefusedAfterStart,
         CommittedFails, Panic
<1>6. IssueWorkspaceGrant(x) \/ CancelReplacement(x) => UNCHANGED content
  BY DEF IssueWorkspaceGrant, CancelReplacement
<1> QED
  BY <1>1, <1>2, <1>3, <1>4, <1>5, <1>6

\* An executor tears only what the user has confirmed.
LEMMA RecovererTears ==
  ASSUME RestoreInv, NEW q \in Recoverers,
         RecStep(q) \/ RecFault(q) \/ \E x \in Txs : AskRecovery(q, x)
  PROVE  TearsOnlyNamed
<1>1. CASE RecoverFence(q)
  <2>1. rec[q].pc = "open" /\ (UNCHANGED content \/ BytesGo(tx[rec[q].of].obj, Torn))
    BY <1>1 DEF RecoverFence, BytesGo
  <2>2. PICK x \in Txs : x = rec[q].of /\ RequiredRow(journal[x], marker[x])
    BY <2>1, RestoreOf DEF RestoreSound, RecSound, RequiredRow, IdlePc
  <2>3. tx[x].obj \in Objects /\ content[tx[x].obj] = rec[q].cur
    BY <2>1, <2>2, RestoreOf DEF RestoreSound, IdlePc
  <2>4. x \in Required(tx[x].obj)
    BY <2>2, FoundByScan DEF RestoreInv, RecoveryInv
  <2>5. \A o \in Objects : content'[o] # content[o] => o = tx[x].obj
    BY <2>1, <2>2, <2>3, BytesChange DEF RestoreInv, RecoveryInv, AnyContent
  <2> QED
    BY <2>1, <2>2, <2>3, <2>4, <2>5 DEF TearsOnlyNamed
<1>2. CASE RecoverWritten(q)
  <2>1. rec[q].pc # IdlePc /\ BytesGo(tx[rec[q].of].obj, journal[rec[q].of].before)
    BY <1>2 DEF RecoverWritten, BytesGo, IdlePc
  <2>2. \A o \in Objects : content'[o] # content[o] => content'[o] # Torn
    BY <2>1, PreimageWhole, BytesChange DEF RestoreInv, RecoveryInv
  <2> QED
    BY <2>2 DEF TearsOnlyNamed
<1>3. CASE UNCHANGED content
  BY <1>3 DEF TearsOnlyNamed
<1>4. RecStep(q) => UNCHANGED content \/ RecoverFence(q) \/ RecoverWritten(q)
  BY DEF RecStep, RecoverScan, RecoverGrant, RecoverOpen, PersistRecovered, CreateRecovered,
         RecoveredWritten
<1>5. RecFault(q) \/ (\E x \in Txs : AskRecovery(q, x)) => UNCHANGED content
  BY DEF RecFault, RecoverFails, RecoveredFails, AskRecovery
<1> QED
  BY <1>1, <1>2, <1>3, <1>4, <1>5

\* Nothing else tears a file.
LEMMA StepTears == ASSUME RestoreInv, [RecoveryNext]_recoveryVars PROVE TearsOnlyNamed
<1>1. ASSUME NEW o \in Objects, Edit(o) PROVE TearsOnlyNamed
  <2>1. PICK c \in FileContents : BytesGo(o, c)
    BY <1>1 DEF Edit, BytesGo
  <2>2. \A p \in Objects : content'[p] # content[p] => content'[p] # Torn
    BY <2>1, BytesChange, Persons DEF RestoreInv, RecoveryInv, AnyContent
  <2> QED
    BY <2>2 DEF TearsOnlyNamed
<1>2. CASE Disable \/ Rebind \/ (\E p \in Procs : AgentCrash(p)) \/ UNCHANGED recoveryVars
  <2>1. UNCHANGED content
    BY <1>2 DEF Disable, Rebind, AgentCrash, recoveryVars
  <2> QED
    BY <2>1 DEF TearsOnlyNamed
<1> QED
  BY <1>1, <1>2, WorkerTears, RecovererTears DEF RecoveryNext

\* With one executor that recovers replacements that have ended, no step destroys a content
\* that is neither the journaled preimage of a started replacement nor the one the user
\* confirmed for the recovery of an unresolved one.
THEOREM OverwritesOnlyNamedHolds ==
  ASSUME OneRecovery
  PROVE  RecoverySpec => OverwritesOnlyNamed
<1>1. RestoreInv /\ [RecoveryNext]_recoveryVars => TearsOnlyNamed
  BY StepTears
<1>2. TearsOnlyNamed => [\A o \in Objects : content'[o] = Torn /\ content[o] # Torn =>
         \/ \E x \in Required(o) : journal[x].before = content[o]
         \/ \E q \in Recoverers : /\ rec[q].pc = "open"
                                  /\ rec[q].of \in Required(o)
                                  /\ rec[q].cur = content[o]]_recoveryVars
  BY DEF TearsOnlyNamed
<1> QED
  BY <1>1, <1>2, RestoreInvariant, PTL DEF RecoverySpec, OverwritesOnlyNamed

-----------------------------------------------------------------------------
(* The session of the Host and the sidecar *)

\* What is pending, and what an approval or a grant was given for.
PendingRow == [turn : Turns, call : Calls]
EvidenceRow == [turn : Turns, call : Calls, rev : 1 .. MaxRev]

\* The frames to the sidecar: commands and replies.
CommandFrames ==
  [k : {"start", "cancelTurn"}, turn : Turns] \cup [k : {"cancelAction", "shutdown"},
  turn : 0 .. MaxTurns]
    \cup [k : Replies, call : Calls, ok : BOOLEAN, rev : -1 .. MaxRev]

\* The frames to the Host: states of a turn, the last words, and questions of a call.
ReportFrames ==
  [k : {"live", "ended", "cancelled"}, turn : Turns] \cup [k : {"fatal"}, turn : {0}]
    \cup [k : {"evaluate", "confirm", "issue", "revalidate"}, turn : Turns, call : Calls,
          rev : -1 .. MaxRev]

\* What the Host keeps: approvals, grants and questions have their types, one is pending.
HostTyped ==
  /\ root \in [on : BOOLEAN, rev : 1 .. MaxRev]
  /\ auth \in [st : {"Idle", "Active", "Cancelling", "Terminal"},
               turn : 0 .. MaxTurns, codex : 0 .. MaxTurns]
  /\ shownTurn \in 0 .. MaxTurns /\ turns \in 0 .. MaxTurns
  /\ pend \subseteq PendingRow /\ appr \subseteq EvidenceRow /\ grants \subseteq EvidenceRow
  /\ ticket \subseteq Calls /\ hand \subseteq Calls
  /\ late \subseteq Calls /\ lateGrant \subseteq Calls
  /\ \A p, q \in pend : p = q
  /\ \A c, d \in ticket : c = d

\* Where the two threads are, and what they carry out of the lock.
ThreadsTyped ==
  /\ main.pc \in {"idle", "begun", "deciding", "cancelling", "retire", "clear", "terminal",
                  "gone"}
  /\ main.pc = "begun" => main.turn \in Turns
  /\ main.pc = "deciding" => main.taken \in PendingRow /\ main.yes \in BOOLEAN
  /\ main.pc = "cancelling" => main.turn \in 0 .. MaxTurns /\ main.left \subseteq PendingRow
  /\ reader.pc \in {"read", "admit", "schedule", "show", "retire", "clear", "terminal", "gone"}
  /\ reader.pc = "admit" => reader.turn \in Turns /\ reader.call \in Calls
  /\ reader.pc = "schedule" => reader.call \in Calls
  /\ reader.pc = "show" => reader.turn \in 0 .. MaxTurns /\ reader.left \subseteq PendingRow

\* The pipes carry frames, and the command queue is within its capacity.
PipesTyped ==
  /\ toV \in Seq(CommandFrames) /\ toH \in Seq(ReportFrames)
  /\ cmds \in Seq(CommandFrames) /\ Len(cmds) <= CmdCap

\* The steps of a call and of the task of a turn, and what they keep.
CallLabels == {"none", "evaluate", "evaluating", "ready", "awaiting", "issuing", "launch",
               "revalidating", "running", "done"}
TaskLabels == {"none", "new", "turn", "back", "current", "reported", "done"}
TaskRow == [pc : TaskLabels, res : {"none", "ended", "cancelled"}, cancelled : BOOLEAN]
CallRow == [pc : CallLabels, token : BOOLEAN, cur : BOOLEAN, ans : -1 .. MaxRev]
AskedRow == [pc : {"asked", "answered"}, call : Calls, turn : Turns, rev : -1 .. MaxRev]

\* What the sidecar keeps: one call at a time has the admission, one waits in the queue.
SidecarTyped ==
  /\ ident \in 0 .. MaxTurns /\ gateway \in 0 .. MaxTurns
  /\ owner \in 0 .. MaxTurns /\ thread \in 0 .. MaxTurns
  /\ loop \in [pc : {"idle", "interrupt", "join"}, turn : 0 .. MaxTurns]
  /\ loop.pc # "idle" => loop.turn \in Turns
  /\ task \in [Turns -> TaskRow]
  /\ \A t \in Turns : task[t].pc \in {"back", "current"} => task[t].res # "none"
  /\ call \in [Calls -> CallRow]
  /\ lease \subseteq Calls /\ queue \subseteq Calls
  /\ \A c, d \in lease : c = d
  /\ \A c, d \in queue : c = d
  /\ asking = [pc |-> "idle"] \/ asking \in AskedRow

\* The types of the whole session.
SessionTyped == HostTyped /\ ThreadsTyped /\ PipesTyped /\ SidecarTyped

\* One of the Host's threads has come to one of these steps of retire.
Retiring(pcs) == main.pc \in pcs \/ reader.pc \in pcs

\* What the Host holds: approvals and grants are confirmations of the user, and what a
\* thread that retires the session has found is still so.
EvidenceSound ==
  /\ \A e \in appr \cup grants : <<e.turn, e.call, e.rev>> \in confirmed
  /\ RunsAreConfirmed /\ EvidenceIsCurrent /\ PendingIsWatched
  /\ ~closed /\ reader.pc = "schedule" => CallsOf(pend) \subseteq {reader.call}
  /\ hand \subseteq late
  /\ reader.pc \in {"clear", "terminal", "gone"} => pend = {}
  /\ Retiring({"clear", "terminal", "gone"}) => closed
  /\ Retiring({"terminal", "gone"}) => grants = {}
  /\ main.pc \in {"terminal", "gone"} => appr = {}
  /\ Retiring({"gone"}) => auth.st \in {"Idle", "Terminal"}

\* f is under way in the pipe s.
In(f, s) == \E i \in 1 .. Len(s) : s[i] = f

\* s carries no start of a turn, or at most one.
Startless(s) == \A i \in 1 .. Len(s) : s[i].k # "start"
OnceStart(s) == \A i, j \in 1 .. Len(s) : s[i].k = "start" /\ s[j].k = "start" => i = j

\* The start of turn t is on its way to the command loop.
Starting(t) == In(About("start", t), toV) \/ In(About("start", t), cmds)

\* The end of turn t, or anything about it, is on its way to the Host.
Ending(t) == In(About("ended", t), toH) \/ In(About("cancelled", t), toH)
Reporting(t) == In(About("live", t), toH) \/ Ending(t)

\* The sidecar has not been told of turn t.
Untold(t) == t > turns \/ (main.pc = "begun" /\ t = turns)

\* The task of turn t has not reported.
Unreported(t) == task[t].pc \in {"new", "turn", "back", "current"}

\* Turn t is on one leg of its way: announced, started, running, or reported.
TurnSound(t) ==
  /\ Untold(t) => task[t].pc = "none" /\ ~Starting(t) /\ ~Reporting(t)
  /\ Starting(t) => task[t].pc = "none"
  /\ Starting(t) \/ Unreported(t) => /\ auth.turn = t /\ auth.st # "Idle"
                                     /\ ~Ending(t)
  /\ task[t].pc = "none" => ~task[t].cancelled

\* The active turn is shown, or will be: the reader is about to, or has still to hear of it.
ShownSoon ==
  auth.st = "Active" /\ ~closed /\ ~dead /\ main.pc # "begun" =>
    \/ Starting(auth.turn) \/ Reporting(auth.turn)
    \/ reader.pc = "show" /\ reader.turn = auth.turn
    \/ reader.pc # "show" /\ shownTurn = auth.turn

\* A turn passes from the Host to the sidecar and back: at most one is under way.
TurnsOrdered ==
  /\ auth.st # "Idle" => auth.turn = turns /\ turns # 0
  /\ main.pc = "begun" => main.turn = turns /\ auth.st # "Idle"
  /\ OnceStart(toV) /\ OnceStart(cmds) /\ (Startless(toV) \/ Startless(cmds))
  /\ \A t \in Turns : TurnSound(t)
  /\ gateway = ident
  /\ ident # 0 => Unreported(ident)
  /\ ~writer => closed

\* The inductive invariant of the session.
SessionInv == SessionTyped /\ EvidenceSound /\ TurnsOrdered /\ ShownSoon

-----------------------------------------------------------------------------
(* Pipes *)

\* The first frame of a pipe, and the others.
LEMMA PipeHead ==
  ASSUME NEW S, NEW s \in Seq(S), s # <<>>
  PROVE  /\ Len(s) \in Nat \ {0} /\ Head(s) = s[1] /\ Head(s) \in S
         /\ Tail(s) \in Seq(S) /\ Len(Tail(s)) = Len(s) - 1
         /\ \A i \in 1 .. Len(s) - 1 : Tail(s)[i] = s[i + 1]
OBVIOUS

\* Taking the first frame takes nothing else.
LEMMA TakeFrame ==
  ASSUME NEW S, NEW s \in Seq(S), s # <<>>
  PROVE  /\ In(Head(s), s)
         /\ \A f : In(f, Tail(s)) => In(f, s)
         /\ \A f : In(f, s) /\ f # Head(s) => In(f, Tail(s))
<1>1. /\ Len(s) \in Nat \ {0} /\ Head(s) = s[1] /\ Len(Tail(s)) = Len(s) - 1
      /\ \A i \in 1 .. Len(s) - 1 : Tail(s)[i] = s[i + 1]
  BY PipeHead
<1>2. In(Head(s), s)
  BY <1>1 DEF In
<1>3. ASSUME NEW f, In(f, Tail(s)) PROVE In(f, s)
  <2>1. PICK i \in 1 .. Len(s) - 1 : s[i + 1] = f
    BY <1>1, <1>3 DEF In
  <2>2. i + 1 \in 1 .. Len(s)
    BY <1>1
  <2> QED
    BY <2>1, <2>2 DEF In
<1>4. ASSUME NEW f, In(f, s), f # Head(s) PROVE In(f, Tail(s))
  <2>1. PICK i \in 1 .. Len(s) : s[i] = f
    BY <1>4 DEF In
  <2>2. i # 1
    BY <1>1, <1>4, <2>1
  <2>3. i - 1 \in 1 .. Len(s) - 1 /\ (i - 1) + 1 = i
    BY <1>1, <2>2
  <2>4. Tail(s)[i - 1] = f
    BY <1>1, <2>1, <2>3
  <2> QED
    BY <1>1, <2>3, <2>4 DEF In
<1> QED
  BY <1>2, <1>3, <1>4

\* Nor does it add a start.
LEMMA TakeStart ==
  ASSUME NEW S, NEW s \in Seq(S), s # <<>>
  PROVE  /\ OnceStart(s) => OnceStart(Tail(s))
         /\ Startless(s) => Startless(Tail(s))
         /\ OnceStart(s) /\ Head(s).k = "start" => Startless(Tail(s))
         /\ Startless(s) => Head(s).k # "start"
<1>1. /\ Len(s) \in Nat \ {0} /\ Head(s) = s[1] /\ Len(Tail(s)) = Len(s) - 1
      /\ \A i \in 1 .. Len(s) - 1 : Tail(s)[i] = s[i + 1]
  BY PipeHead
<1>2. \A i \in 1 .. Len(s) - 1 : i + 1 \in 1 .. Len(s) /\ i + 1 # 1
  BY <1>1
<1>3. OnceStart(s) => OnceStart(Tail(s))
  BY <1>1, <1>2 DEF OnceStart
<1>4. 1 \in 1 .. Len(s)
  BY <1>1
<1>5. OnceStart(s) /\ Head(s).k = "start" => Startless(Tail(s))
  BY <1>1, <1>2, <1>4 DEF OnceStart, Startless
<1> QED
  BY <1>1, <1>2, <1>3, <1>4, <1>5 DEF Startless

\* A frame that is put into a pipe.
LEMMA PutFrame ==
  ASSUME NEW S, NEW s \in Seq(S), NEW g \in S
  PROVE  /\ Append(s, g) \in Seq(S) /\ Len(Append(s, g)) = Len(s) + 1
         /\ \A f : In(f, Append(s, g)) <=> In(f, s) \/ f = g
         /\ OnceStart(s) /\ g.k # "start" => OnceStart(Append(s, g))
         /\ Startless(s) => OnceStart(Append(s, g))
         /\ Startless(s) /\ g.k # "start" => Startless(Append(s, g))
<1> DEFINE u == Append(s, g)
<1>1. /\ u \in Seq(S) /\ Len(u) = Len(s) + 1 /\ Len(s) \in Nat
      /\ \A i \in 1 .. Len(s) : u[i] = s[i]
      /\ u[Len(s) + 1] = g
  OBVIOUS
<1>2. \A i : i \in 1 .. Len(u) <=> i \in 1 .. Len(s) \/ i = Len(s) + 1
  BY <1>1
<1>3. \A f : In(f, u) <=> In(f, s) \/ f = g
  BY <1>1, <1>2 DEF In
<1>4. OnceStart(s) /\ g.k # "start" => OnceStart(u)
  BY <1>1, <1>2 DEF OnceStart
<1>5. Startless(s) => OnceStart(u)
  BY <1>1, <1>2 DEF OnceStart, Startless
<1>6. Startless(s) /\ g.k # "start" => Startless(u)
  BY <1>1, <1>2 DEF Startless
<1> HIDE DEF u
<1> QED
  BY <1>1, <1>3, <1>4, <1>5, <1>6 DEF u

\* Frames that are put into a pipe.
LEMMA PutFrames ==
  ASSUME NEW S, NEW s \in Seq(S), NEW w \in Seq(S)
  PROVE  /\ s \o w \in Seq(S)
         /\ \A f : In(f, s \o w) <=> In(f, s) \/ In(f, w)
         /\ OnceStart(s) /\ Startless(w) => OnceStart(s \o w)
         /\ Startless(s) /\ OnceStart(w) => OnceStart(s \o w)
         /\ Startless(s) /\ Startless(w) => Startless(s \o w)
<1> DEFINE u == s \o w
<1>1. /\ u \in Seq(S) /\ Len(u) = Len(s) + Len(w) /\ Len(s) \in Nat /\ Len(w) \in Nat
      /\ \A i \in 1 .. Len(s) : u[i] = s[i]
      /\ \A i \in 1 .. Len(u) : i > Len(s) => u[i] = w[i - Len(s)]
  OBVIOUS
<1>2. /\ \A i \in 1 .. Len(u) : i \in 1 .. Len(s) \/ (i > Len(s) /\ i - Len(s) \in 1 .. Len(w))
      /\ \A i \in 1 .. Len(s) : i \in 1 .. Len(u) /\ ~(i > Len(s))
      /\ \A i \in 1 .. Len(w) : /\ i + Len(s) \in 1 .. Len(u) /\ i + Len(s) > Len(s)
                                /\ (i + Len(s)) - Len(s) = i
  BY <1>1
<1>3. ASSUME NEW f PROVE In(f, u) <=> In(f, s) \/ In(f, w)
  <2>1. In(f, u) => In(f, s) \/ In(f, w)
    BY <1>1, <1>2 DEF In
  <2>2. In(f, s) => In(f, u)
    BY <1>1, <1>2 DEF In
  <2>3. In(f, w) => In(f, u)
    <3> SUFFICES ASSUME In(f, w) PROVE In(f, u)
      OBVIOUS
    <3>1. PICK i \in 1 .. Len(w) : w[i] = f
      BY DEF In
    <3>2. u[i + Len(s)] = f
      BY <1>1, <1>2, <3>1
    <3> QED
      BY <1>2, <3>2 DEF In
  <2> QED
    BY <2>1, <2>2, <2>3
<1>4. OnceStart(s) /\ Startless(w) => OnceStart(u)
  BY <1>1, <1>2 DEF OnceStart, Startless
<1>5. Startless(s) /\ OnceStart(w) => OnceStart(u)
  <2> SUFFICES ASSUME Startless(s), OnceStart(w),
                      NEW i \in 1 .. Len(u), NEW j \in 1 .. Len(u), u[i].k = "start",
                      u[j].k = "start"
               PROVE  i = j
    BY DEF OnceStart
  <2>1. i > Len(s) /\ j > Len(s)
    BY <1>1, <1>2 DEF Startless
  <2>2. i - Len(s) = j - Len(s)
    BY <1>1, <1>2, <2>1 DEF OnceStart
  <2> QED
    BY <1>1, <2>2
<1>6. Startless(s) /\ Startless(w) => Startless(u)
  BY <1>1, <1>2 DEF Startless
<1> HIDE DEF u
<1> QED
  BY <1>1, <1>3, <1>4, <1>5, <1>6 DEF u

\* A pipe with one frame, or two.
LEMMA ShortPipes ==
  ASSUME NEW S, NEW f \in S, NEW g \in S
  PROVE  /\ <<f>> \in Seq(S) /\ <<f, g>> \in Seq(S) /\ <<>> \in Seq(S)
         /\ \A h : In(h, <<f>>) <=> h = f
         /\ \A h : In(h, <<f, g>>) <=> h = f \/ h = g
         /\ \A h : ~In(h, <<>>)
         /\ f.k # "start" => Startless(<<f>>)
         /\ f.k # "start" /\ g.k # "start" => Startless(<<f, g>>)
         /\ OnceStart(<<f>>)
         /\ Startless(<<>>)
<1>1. <<f>> \in Seq(S) /\ Len(<<f>>) = 1 /\ <<f>>[1] = f
  OBVIOUS
<1>2. <<f, g>> \in Seq(S) /\ Len(<<f, g>>) = 2 /\ <<f, g>>[1] = f /\ <<f, g>>[2] = g
  OBVIOUS
<1>3. \A i : i \in 1 .. 1 <=> i = 1
  OBVIOUS
<1>4. \A i : i \in 1 .. 2 <=> i = 1 \/ i = 2
  OBVIOUS
<1>5. <<>> \in Seq(S) /\ Len(<<>>) = 0 /\ 1 .. 0 = {}
  OBVIOUS
<1>6. \A h : In(h, <<f>>) <=> h = f
  BY <1>1, <1>3 DEF In
<1>7. \A h : In(h, <<f, g>>) <=> h = f \/ h = g
  BY <1>2, <1>4 DEF In
<1>8. \A h : ~In(h, <<>>)
  BY <1>5 DEF In
<1>9. /\ f.k # "start" => Startless(<<f>>)
      /\ OnceStart(<<f>>)
  BY <1>1, <1>3 DEF Startless, OnceStart
<1>10. f.k # "start" /\ g.k # "start" => Startless(<<f, g>>)
  BY <1>2, <1>4 DEF Startless
<1>11. Startless(<<>>)
  BY <1>5 DEF Startless
<1> QED
  BY <1>1, <1>2, <1>5, <1>6, <1>7, <1>8, <1>9, <1>10, <1>11

-----------------------------------------------------------------------------
(* Frames *)

\* The bounds are numbers.
LEMMA SessionNumbers ==
  /\ MaxTurns \in Nat \ {0} /\ NCalls \in Nat \ {0} /\ MaxRev \in Nat \ {0}
  /\ MaxCancels \in Nat /\ CmdCap \in Nat \ {0}
  /\ Turns = 1 .. MaxTurns /\ Calls = Turns \X (1 .. NCalls)
  /\ Turns \subseteq 0 .. MaxTurns /\ 0 \in 0 .. MaxTurns /\ 0 \notin Turns
  /\ 0 \in -1 .. MaxRev /\ 1 .. MaxRev \subseteq -1 .. MaxRev
BY SessionBounds DEF Turns, Calls

\* One command that is not a start.
LEMMA OneFrame ==
  ASSUME NEW f \in CommandFrames, f.k # "start"
  PROVE  <<f>> \in Seq(CommandFrames) /\ Startless(<<f>>)
BY ShortPipes

\* Frames without a start, one after the other, are without a start.
LEMMA MoreFrames ==
  ASSUME NEW w \in Seq(CommandFrames), NEW v \in Seq(CommandFrames), Startless(w), Startless(v)
  PROVE  w \o v \in Seq(CommandFrames) /\ Startless(w \o v)
BY PutFrames

\* Nor is a start in no frame.
LEMMA NoFrame == <<>> \in Seq(CommandFrames) /\ Startless(<<>>)
BY DEF Startless

\* What a command carries, and what a reply.
LEMMA CommandIs ==
  ASSUME NEW f \in CommandFrames
  PROVE  /\ f.k = "start" => f.turn \in Turns /\ f = About("start", f.turn)
         /\ f.k = "cancelTurn" => f.turn \in Turns
         /\ f.k \in Replies => f.call \in Calls /\ f.ok \in BOOLEAN /\ f.rev \in -1 .. MaxRev
<1>1. CASE f \in [k : {"start", "cancelTurn"}, turn : Turns]
  BY <1>1 DEF About, Replies
<1>2. CASE f \in [k : {"cancelAction", "shutdown"}, turn : 0 .. MaxTurns]
  BY <1>2 DEF About, Replies
<1>3. CASE f \in [k : Replies, call : Calls, ok : BOOLEAN, rev : -1 .. MaxRev]
  BY <1>3 DEF About, Replies
<1> QED
  BY <1>1, <1>2, <1>3 DEF CommandFrames

\* What a report carries, and what a question.
LEMMA ReportIs ==
  ASSUME NEW f \in ReportFrames
  PROVE  /\ f.k \in {"live", "ended", "cancelled"} => f.turn \in Turns /\ f = About(f.k, f.turn)
         /\ f.k \in {"evaluate", "confirm", "issue", "revalidate"} =>
              f.turn \in Turns /\ f.call \in Calls /\ f.rev \in -1 .. MaxRev
<1>1. CASE f \in [k : {"live", "ended", "cancelled"}, turn : Turns]
  BY <1>1 DEF About
<1>2. CASE f \in [k : {"fatal"}, turn : {0}]
  BY <1>2 DEF About
<1>3. CASE f \in [k : {"evaluate", "confirm", "issue", "revalidate"}, turn : Turns, call : Calls,
                  rev : -1 .. MaxRev]
  BY <1>3 DEF About
<1> QED
  BY <1>1, <1>2, <1>3 DEF ReportFrames

\* The frames the threads make.
LEMMA FramesMade ==
  /\ \A t \in Turns : About("start", t) \in CommandFrames
         /\ About("cancelTurn", t) \in CommandFrames
  /\ \A t \in 0 .. MaxTurns : About("cancelAction", t) \in CommandFrames
                              /\ About("shutdown", t) \in CommandFrames
  /\ \A k \in Replies, c \in Calls, ok \in BOOLEAN, r \in -1 .. MaxRev :
       ReplyFrame(k, c, ok, r) \in CommandFrames
  /\ \A k \in {"live", "ended", "cancelled"}, t \in Turns : About(k, t) \in ReportFrames
  /\ About("fatal", 0) \in ReportFrames
  /\ \A k \in {"evaluate", "confirm", "issue", "revalidate"}, t \in Turns, c \in Calls,
       r \in -1 .. MaxRev :
       AskFrame(k, t, c, r) \in ReportFrames
BY DEF About, ReplyFrame, AskFrame, CommandFrames, ReportFrames

\* What kind of frames they are.
LEMMA KindsMade ==
  /\ \A k, t : About(k, t).k = k /\ About(k, t).turn = t
  /\ \A k, c, r : \A ok \in BOOLEAN : ReplyFrame(k, c, ok, r).k = k
  /\ \A k, t, c, r : AskFrame(k, t, c, r).k = k
  /\ "start" \notin Replies
BY DEF About, ReplyFrame, AskFrame, Replies

\* The refusals of confirmations are replies.
LEMMA RefusalFrames ==
  ASSUME NEW P, P \subseteq PendingRow
  PROVE  Refusals(P) \in Seq(CommandFrames) /\ Startless(Refusals(P))
<1>1. "decision" \in Replies /\ FALSE \in BOOLEAN /\ 0 \in -1 .. MaxRev
  BY SessionNumbers DEF Replies
<1>2. ASSUME NEW p \in P PROVE Decision(p, FALSE, 0) \in CommandFrames
               /\ Decision(p, FALSE, 0).k = "decision"
  <2>1. p.call \in Calls
    BY DEF PendingRow
  <2>2. ReplyFrame("decision", p.call, FALSE, 0) \in CommandFrames
    BY <1>1, <2>1, FramesMade
  <2>3. ReplyFrame("decision", p.call, FALSE, 0).k = "decision"
    BY DEF ReplyFrame
  <2> QED
    BY <2>2, <2>3 DEF Decision
<1>3. CASE P = {}
  <2>1. SeqOf(P) = <<>>
    BY <1>3 DEF SeqOf
  <2>2. Len(SeqOf(P)) = 0
    BY <2>1
  <2>3. Refusals(P) = [i \in 1 .. 0 |-> Decision(SeqOf(P)[i], FALSE, 0)]
    BY <2>2 DEF Refusals
  <2>4. Refusals(P) = <<>>
    BY <2>3
  <2> QED
    BY <2>4 DEF Startless
<1>4. CASE P # {}
  <2> DEFINE x == CHOOSE x \in P : TRUE
  <2>1. x \in P
    BY <1>4
  <2> HIDE DEF x
  <2>2. SeqOf(P) = <<x>>
    BY <1>4 DEF SeqOf, x
  <2>3. Len(SeqOf(P)) = 1 /\ SeqOf(P)[1] = x
    BY <2>2
  <2>4. Refusals(P) = [i \in 1 .. 1 |-> Decision(SeqOf(P)[i], FALSE, 0)]
    BY <2>3 DEF Refusals
  <2> DEFINE d == Decision(x, FALSE, 0)
  <2>5. \A i \in 1 .. 1 : Decision(SeqOf(P)[i], FALSE, 0) = d
    <3>1. \A i \in 1 .. 1 : i = 1
      OBVIOUS
    <3> QED
      BY <2>3, <3>1
  <2>6. d \in CommandFrames /\ d.k # "start"
    BY <1>2, <2>1
  <2> HIDE DEF d
  <2>7. Refusals(P) = <<d>>
    <3>1. Refusals(P) = [i \in 1 .. 1 |-> d]
      BY <2>4, <2>5
    <3>2. <<d>> = [i \in 1 .. 1 |-> d]
      OBVIOUS
    <3> QED
      BY <3>1, <3>2
  <2> QED
    <3>1. <<d>> \in Seq(CommandFrames) /\ Startless(<<d>>)
      BY <2>6, ShortPipes
    <3> QED
      BY <2>7, <3>1
<1> QED
  BY <1>3, <1>4

\* The starts under way in pipe s are those in pipe u.
SameStarts(s, u) ==
  /\ \A t : In(About("start", t), u) <=> In(About("start", t), s)
  /\ OnceStart(s) => OnceStart(u)
  /\ Startless(s) => Startless(u)

\* Frames without a start, when they are sent.
LEMMA SentFrames ==
  ASSUME PipesTyped, NEW w \in Seq(CommandFrames), Startless(w)
  PROVE  Sent(w) \in Seq(CommandFrames) /\ SameStarts(toV, Sent(w))
<1>1. toV \in Seq(CommandFrames)
  BY DEF PipesTyped
<1>2. \A t : ~In(About("start", t), w)
  BY KindsMade DEF In, Startless
<1>3. toV \o w \in Seq(CommandFrames) /\ SameStarts(toV, toV \o w)
  BY <1>1, <1>2, PutFrames DEF SameStarts
<1>4. SameStarts(toV, toV)
  BY DEF SameStarts
<1> QED
  BY <1>1, <1>3, <1>4 DEF Sent

\* One reply, alone or after refusals.
LEMMA ReplyFrames ==
  ASSUME NEW P, P \subseteq PendingRow, NEW f \in CommandFrames, f.k # "start"
  PROVE  /\ <<f>> \in Seq(CommandFrames) /\ Startless(<<f>>)
         /\ Refusals(P) \o <<f>> \in Seq(CommandFrames) /\ Startless(Refusals(P) \o <<f>>)
<1>1. <<f>> \in Seq(CommandFrames) /\ Startless(<<f>>)
  BY ShortPipes
<1>2. Refusals(P) \in Seq(CommandFrames) /\ Startless(Refusals(P))
  BY RefusalFrames
<1> QED
  BY <1>1, <1>2, PutFrames

-----------------------------------------------------------------------------
(* Types: the Host *)

AuthRow == [st : {"Idle", "Active", "Cancelling", "Terminal"},
            turn : 0 .. MaxTurns, codex : 0 .. MaxTurns]

\* A step of the Host leaves the inside of the sidecar alone.
LEMMA HostStepTyped ==
  ASSUME SessionTyped, HostTyped', ThreadsTyped',
         UNCHANGED <<cmds, ident, gateway, owner, loop, task, thread, call, lease, queue, asking>>,
         toV' \in Seq(CommandFrames), toH' \in Seq(ReportFrames)
  PROVE  SessionTyped'
BY DEF SessionTyped, PipesTyped, SidecarTyped

\* A step of the Host that adds nothing but approvals and grants.
LEMMA HostFewer ==
  ASSUME HostTyped, root' \in [on : BOOLEAN, rev : 1 .. MaxRev], auth' \in AuthRow,
         shownTurn' \in 0 .. MaxTurns, turns' \in 0 .. MaxTurns,
         pend' \subseteq pend, ticket' \subseteq ticket,
         appr' \subseteq EvidenceRow, grants' \subseteq EvidenceRow,
         hand' \subseteq Calls, late' \subseteq Calls, lateGrant' \subseteq Calls
  PROVE  HostTyped'
BY DEF HostTyped, AuthRow

\* What evidence is left is some of it.
LEMMA ClearedFewer ==
  ASSUME NEW t, ClearEvidence(t)
  PROVE  pend' \subseteq pend /\ ticket' \subseteq ticket /\ appr' \subseteq appr
           /\ grants' \subseteq grants
BY DEF ClearEvidence

\* Where a thread goes without anything to carry.
LEMMA ThreadsMove ==
  ASSUME ThreadsTyped,
         main' = main \/ (\E pc \in {"idle", "retire", "clear", "terminal", "gone"} :
         main' = [pc |-> pc]),
         reader' = reader \/ (\E pc \in {"read", "retire", "clear", "terminal", "gone"} :
         reader' = [pc |-> pc])
  PROVE  ThreadsTyped'
<1>1. ASSUME NEW pc \in {"idle", "retire", "clear", "terminal", "gone"}, main' = [pc |-> pc]
      PROVE  main'.pc = pc
  BY <1>1
<1>2. ASSUME NEW pc \in {"read", "retire", "clear", "terminal", "gone"}, reader' = [pc |-> pc]
      PROVE  reader'.pc = pc
  BY <1>2
<1> QED
  BY <1>1, <1>2 DEF ThreadsTyped

\* The thread that retires the session.
LEMMA MoveTyped ==
  ASSUME ThreadsTyped, NEW w, NEW pc \in {"clear", "terminal", "gone"}, Move(w, pc)
  PROVE  ThreadsTyped'
BY ThreadsMove DEF Move

\* Where a handler goes.
LEMMA ReplyTyped ==
  ASSUME SessionTyped, NEW w \in Seq(CommandFrames), Startless(w), Reply(w), UNCHANGED main
  PROVE  ThreadsTyped' /\ toV' \in Seq(CommandFrames) /\ SameStarts(toV, toV')
<1>1. toV' = Sent(w) /\ (reader' = [pc |-> "read"] \/ reader' = [pc |-> "retire"])
  BY DEF Reply
<1>2. ThreadsTyped'
  BY <1>1, ThreadsMove DEF SessionTyped
<1> QED
  BY <1>1, <1>2, SentFrames DEF SessionTyped

\* Nothing is sent.
LEMMA StartsStay ==
  ASSUME toV' = toV
  PROVE  SameStarts(toV, toV')
BY DEF SameStarts

\* The commands on the main thread.
LEMMA CommandsTyped ==
  ASSUME SessionTyped, User \/ HostMain
  PROVE  SessionTyped' /\ (StartTurn \/ SameStarts(toV, toV'))
<1> USE SessionNumbers
<1>1. PipesTyped /\ HostTyped /\ ThreadsTyped /\ toV \in Seq(CommandFrames)
        /\ toH \in Seq(ReportFrames)
  BY DEF SessionTyped, PipesTyped
<1>2. CASE Toggle
  <2>1. root' \in [on : BOOLEAN, rev : 1 .. MaxRev]
    BY <1>1, <1>2 DEF Toggle, HostTyped
  <2>2. HostTyped'
    BY <1>1, <1>2, <2>1, HostFewer DEF Toggle, HostTyped, AuthRow, rest
  <2>3. ThreadsTyped'
    BY <1>1, <1>2, ThreadsMove DEF Toggle
  <2> QED
    BY <1>1, <1>2, <2>2, <2>3, HostStepTyped, StartsStay DEF Toggle, sidecar
<1>3. CASE BeginTurn
  <2>1. turns + 1 \in Turns /\ turns' = turns + 1
    BY <1>1, <1>3 DEF BeginTurn, HostTyped
  <2>2. auth' \in AuthRow
    BY <1>3, <2>1 DEF BeginTurn, AuthRow
  <2>3. HostTyped'
    BY <1>1, <1>3, <2>1, <2>2, HostFewer DEF BeginTurn, HostTyped, AuthRow
  <2>4. ThreadsTyped'
    BY <1>1, <1>3, <2>1 DEF BeginTurn, ThreadsTyped
  <2> QED
    BY <1>1, <1>3, <2>3, <2>4, HostStepTyped, StartsStay DEF BeginTurn, sidecar
<1>4. CASE Decide(TRUE) \/ Decide(FALSE)
  <2>1. PICK yes \in BOOLEAN : Decide(yes)
    BY <1>4
  <2>2. PICK p \in pend :
         /\ pend' = pend \ {p} /\ ticket' = ticket \ {p.call}
         /\ \/ toV' = Sent(<<Decision(p, FALSE, 0)>>) /\ UNCHANGED main
            \/ main' = [pc |-> "deciding", taken |-> p, yes |-> yes] /\ UNCHANGED toV
    BY <2>1 DEF Decide
  <2>3. p \in PendingRow /\ p.call \in Calls
    BY <1>1 DEF HostTyped, PendingRow
  <2>4. UNCHANGED <<root, auth, shownTurn, appr, grants, hand, closed, writer, reader, sidecar,
                    toH, rest>>
    BY <2>1 DEF Decide
  <2>5. HostTyped'
    BY <1>1, <2>2, <2>4, HostFewer DEF HostTyped, AuthRow, rest
  <2>6. ThreadsTyped'
    <3>1. CASE UNCHANGED main
      BY <1>1, <2>4, <3>1, ThreadsMove
    <3>2. CASE main' = [pc |-> "deciding", taken |-> p, yes |-> yes]
      <4>1. main'.pc = "deciding" /\ main'.taken \in PendingRow /\ main'.yes \in BOOLEAN
        BY <2>3, <3>2
      <4> QED
        BY <1>1, <2>4, <4>1 DEF ThreadsTyped
    <3> QED
      BY <2>2, <3>1, <3>2
  <2>7. toV' \in Seq(CommandFrames) /\ SameStarts(toV, toV')
    <3> DEFINE f == Decision(p, FALSE, 0)
    <3>1. f \in CommandFrames /\ f.k # "start"
      BY <2>3, FramesMade DEF Replies, Decision, ReplyFrame
    <3> HIDE DEF f
    <3>2. <<f>> \in Seq(CommandFrames) /\ Startless(<<f>>)
      BY <3>1, OneFrame
    <3>3. toV' = Sent(<<f>>) \/ toV' = toV
      BY <2>2 DEF f
    <3> QED
      BY <1>1, <3>2, <3>3, SentFrames, StartsStay
  <2> QED
    BY <1>1, <2>4, <2>5, <2>6, <2>7, HostStepTyped DEF sidecar
<1>9. CASE AnswerTaken
  <2> DEFINE p == main.taken
             ok == main.yes /\ p.call \notin late /\ Active(p.turn) /\ root.on
             r == IF ok THEN root.rev ELSE 0
             row == [turn |-> p.turn, call |-> p.call, rev |-> root.rev]
  <2>1. /\ main' = [pc |-> "idle"]
        /\ toV' = Sent(<<Decision(p, ok, r)>>)
        /\ appr' = IF ok /\ CanSend THEN appr \cup {row} ELSE appr
        /\ UNCHANGED <<root, auth, shownTurn, pend, grants, ticket, hand, closed, writer,
                       reader, sidecar, toH, late, lateGrant, turns>>
    BY <1>9 DEF AnswerTaken
  <2>2. p \in PendingRow /\ main.yes \in BOOLEAN
    BY <1>1, <1>9 DEF AnswerTaken, ThreadsTyped
  <2>3. p.turn \in Turns /\ p.call \in Calls /\ root.rev \in 1 .. MaxRev
    BY <1>1, <2>2 DEF HostTyped, PendingRow
  <2>4. row \in EvidenceRow
    BY <2>3 DEF EvidenceRow
  <2>5. appr' \subseteq EvidenceRow
    <3> HIDE DEF row, ok
    <3> QED
      BY <1>1, <2>1, <2>4 DEF HostTyped
  <2>6. HostTyped'
    BY <1>1, <2>1, <2>5, HostFewer DEF HostTyped, AuthRow
  <2>7. ok \in BOOLEAN /\ r \in -1 .. MaxRev
    BY <2>2, <2>3
  <2>8. toV' = Sent(<<ReplyFrame("decision", p.call, ok, r)>>)
    BY <2>1 DEF Decision
  <2> HIDE DEF ok, r
  <2>9. ReplyFrame("decision", p.call, ok, r) \in CommandFrames
    BY <2>3, <2>7, FramesMade DEF Replies
  <2>10. ReplyFrame("decision", p.call, ok, r).k # "start"
    BY DEF ReplyFrame
  <2>11. toV' \in Seq(CommandFrames) /\ SameStarts(toV, toV')
    <3> DEFINE f == ReplyFrame("decision", p.call, ok, r)
    <3>1. <<f>> \in Seq(CommandFrames) /\ Startless(<<f>>)
      BY <2>9, <2>10, OneFrame
    <3>2. toV' = Sent(<<f>>)
      BY <2>8
    <3> HIDE DEF f
    <3> QED
      BY <1>1, <3>1, <3>2, SentFrames
  <2>12. ThreadsTyped'
    BY <1>1, <2>1, ThreadsMove
  <2> QED
    BY <1>1, <2>1, <2>6, <2>11, <2>12, HostStepTyped DEF sidecar
<1>5. CASE BeginCancellation
  <2>1. /\ pend' \subseteq pend /\ ticket' \subseteq ticket /\ appr' \subseteq appr
               /\ grants' \subseteq grants
    BY <1>5, ClearedFewer DEF BeginCancellation
  <2>2. auth' \in AuthRow
    BY <1>1, <1>5 DEF BeginCancellation, HostTyped, AuthRow
  <2>3. HostTyped'
    BY <1>1, <1>5, <2>1, <2>2, HostFewer DEF BeginCancellation, HostTyped
  <2>4. /\ main'.pc = "cancelling"
        /\ main'.turn \in {0, auth.turn}
        /\ main'.left \subseteq pend
    BY <1>5 DEF BeginCancellation, OfTurn
  <2>5. auth.turn \in 0 .. MaxTurns /\ pend \subseteq PendingRow
    BY <1>1 DEF HostTyped
  <2>6. main'.turn \in 0 .. MaxTurns /\ main'.left \subseteq PendingRow
    BY <2>4, <2>5
  <2>7. ThreadsTyped'
    BY <1>1, <1>5, <2>4, <2>6 DEF BeginCancellation, ThreadsTyped
  <2> QED
    BY <1>1, <1>5, <2>3, <2>7, HostStepTyped, StartsStay DEF BeginCancellation, sidecar
<1>6. CASE Stop
  <2>1. HostTyped'
    BY <1>1, <1>6, HostFewer DEF Stop, HostTyped, AuthRow
  <2>2. ThreadsTyped'
    BY <1>1, <1>6, ThreadsMove DEF Stop
  <2>3. About("shutdown", 0) \in CommandFrames /\ About("shutdown", 0).k # "start"
    BY FramesMade, KindsMade
  <2>4. toV' \in Seq(CommandFrames) /\ SameStarts(toV, toV')
    <3> DEFINE f == About("shutdown", 0)
    <3>1. <<f>> \in Seq(CommandFrames) /\ Startless(<<f>>)
      BY <2>3, OneFrame
    <3>2. toV' = Sent(<<f>>)
      BY <1>6 DEF Stop
    <3> HIDE DEF f
    <3> QED
      BY <1>1, <3>1, <3>2, SentFrames
  <2> QED
    BY <1>1, <1>6, <2>1, <2>2, <2>4, HostStepTyped DEF Stop, sidecar
<1>7. CASE StartTurn
  <2>1. main.turn \in Turns
    BY <1>1, <1>7 DEF StartTurn, ThreadsTyped
  <2>2. /\ pend' \subseteq pend /\ ticket' \subseteq ticket /\ appr' \subseteq appr
               /\ grants' \subseteq grants
    BY <1>7, ClearedFewer DEF StartTurn
  <2>3. auth' \in AuthRow /\ shownTurn' \in 0 .. MaxTurns
    BY <1>1, <1>7, <2>1 DEF StartTurn, HostTyped, AuthRow
  <2>4. HostTyped'
    BY <1>1, <1>7, <2>2, <2>3, HostFewer DEF StartTurn, HostTyped, rest
  <2>5. ThreadsTyped'
    BY <1>1, <1>7, ThreadsMove DEF StartTurn
  <2>6. <<About("start", main.turn)>> \in Seq(CommandFrames)
    BY <2>1, FramesMade
  <2>7. toV' \in Seq(CommandFrames)
    BY <1>1, <1>7, <2>6, PutFrames DEF StartTurn, Sent
  <2> QED
    BY <1>1, <1>7, <2>4, <2>5, <2>7, HostStepTyped DEF StartTurn, sidecar
<1>8. CASE CancelTurn
  <2>1. main.turn \in 0 .. MaxTurns /\ main.left \cup pend \subseteq PendingRow
    BY <1>1, <1>8 DEF CancelTurn, ThreadsTyped, HostTyped
  <2>2. HostTyped'
    BY <1>1, <1>8, HostFewer DEF CancelTurn, HostTyped, AuthRow, rest
  <2>3. ThreadsTyped'
    BY <1>1, <1>8, ThreadsMove DEF CancelTurn
  <2>4. CancelFrames(main.turn) \in Seq(CommandFrames) /\ Startless(CancelFrames(main.turn))
    <3>1. /\ About("cancelAction", main.turn) \in CommandFrames
          /\ About("cancelAction", main.turn).k # "start"
          /\ About("cancelTurn", main.turn).k # "start"
      BY <2>1, FramesMade, KindsMade
    <3> DEFINE f == About("cancelAction", main.turn)
               g == About("cancelTurn", main.turn)
               tail == IF main.turn = 0 THEN <<>> ELSE <<g>>
    <3>2. CancelFrames(main.turn) = <<f>> \o tail
      BY DEF CancelFrames
    <3>3. <<f>> \in Seq(CommandFrames) /\ Startless(<<f>>)
      BY <3>1, OneFrame
    <3>4. main.turn # 0 => g \in CommandFrames
      BY <2>1, FramesMade
    <3>5. main.turn # 0 => <<g>> \in Seq(CommandFrames) /\ Startless(<<g>>)
      BY <3>1, <3>4, OneFrame
    <3> HIDE DEF f, g
    <3>6. tail \in Seq(CommandFrames) /\ Startless(tail)
      BY <3>5, NoFrame
    <3> HIDE DEF tail
    <3> QED
      BY <3>2, <3>3, <3>6, MoreFrames
  <2>5. /\ Refusals(main.left \cup pend) \in Seq(CommandFrames)
        /\ Startless(Refusals(main.left \cup pend))
    BY <2>1, RefusalFrames
  <2>6. /\ Refusals(main.left \cup pend) \o CancelFrames(main.turn) \in Seq(CommandFrames)
        /\ Startless(Refusals(main.left \cup pend) \o CancelFrames(main.turn))
    BY <2>4, <2>5, PutFrames
  <2>7. toV' \in Seq(CommandFrames) /\ SameStarts(toV, toV')
    BY <1>1, <1>8, <2>6, SentFrames DEF CancelTurn
  <2> QED
    BY <1>1, <1>8, <2>2, <2>3, <2>7, HostStepTyped DEF CancelTurn, sidecar
<1> QED
  BY <1>2, <1>3, <1>4, <1>5, <1>6, <1>7, <1>8, <1>9 DEF User, HostMain, Confirm, Deny

\* Retiring the session, and the expiry thread.
LEMMA RetireTyped ==
  ASSUME SessionTyped, Retire \/ Expiry
  PROVE  SessionTyped' /\ SameStarts(toV, toV')
<1> USE SessionNumbers
<1>1. PipesTyped /\ HostTyped /\ ThreadsTyped /\ toV \in Seq(CommandFrames)
        /\ toH \in Seq(ReportFrames)
  BY DEF SessionTyped, PipesTyped
<1>2. CASE RetireClose
  <2>1. HostTyped'
    BY <1>1, <1>2, HostFewer DEF RetireClose, HostTyped, AuthRow, rest
  <2>2. ThreadsTyped'
    BY <1>1, <1>2, MoveTyped DEF RetireClose
  <2>3. Refusals(pend) \in Seq(CommandFrames) /\ Startless(Refusals(pend))
    BY <1>1, RefusalFrames DEF HostTyped
  <2>4. toV' \in Seq(CommandFrames) /\ SameStarts(toV, toV')
    BY <1>1, <1>2, <2>3, SentFrames DEF RetireClose
  <2> QED
    BY <1>1, <1>2, <2>1, <2>2, <2>4, HostStepTyped DEF RetireClose, sidecar
<1>3. CASE RetireClear
  <2>1. HostTyped'
    BY <1>1, <1>3, HostFewer DEF RetireClear, RetiredGrants, HostTyped, AuthRow, rest
  <2>2. ThreadsTyped'
    BY <1>1, <1>3, MoveTyped DEF RetireClear
  <2> QED
    BY <1>1, <1>3, <2>1, <2>2, HostStepTyped, StartsStay DEF RetireClear, sidecar
<1>4. CASE RetireEnd
  <2>1. auth' \in AuthRow
    BY <1>1, <1>4 DEF RetireEnd, ForcedTerminal, HostTyped, AuthRow
  <2>2. HostTyped'
    BY <1>1, <1>4, <2>1, HostFewer DEF RetireEnd, HostTyped, rest
  <2>3. ThreadsTyped'
    BY <1>1, <1>4, MoveTyped DEF RetireEnd
  <2> QED
    BY <1>1, <1>4, <2>2, <2>3, HostStepTyped, StartsStay DEF RetireEnd
<1>5. CASE TakeTicket
  <2>1. HostTyped'
    BY <1>1, <1>5, HostFewer DEF TakeTicket, HostTyped, AuthRow, rest
  <2>2. ThreadsTyped'
    BY <1>1, <1>5, ThreadsMove DEF TakeTicket
  <2> QED
    BY <1>1, <1>5, <2>1, <2>2, HostStepTyped, StartsStay DEF TakeTicket, sidecar
<1>6. CASE ExpireTicket
  <2>1. HostTyped'
    BY <1>1, <1>6, HostFewer DEF ExpireTicket, HostTyped, AuthRow, rest
  <2>2. ThreadsTyped'
    BY <1>1, <1>6, ThreadsMove DEF ExpireTicket
  <2>3. ExpiredByTicket \subseteq PendingRow
    BY <1>1 DEF HostTyped, ExpiredByTicket
  <2>4. Refusals(ExpiredByTicket) \in Seq(CommandFrames) /\ Startless(Refusals(ExpiredByTicket))
    BY <2>3, RefusalFrames
  <2>5. toV' \in Seq(CommandFrames) /\ SameStarts(toV, toV')
    BY <1>1, <1>6, <2>4, SentFrames DEF ExpireTicket
  <2> QED
    BY <1>1, <1>6, <2>1, <2>2, <2>5, HostStepTyped DEF ExpireTicket, sidecar
<1> QED
  BY <1>2, <1>3, <1>4, <1>5, <1>6 DEF Retire, Expiry

\* The frame a handler takes.
LEMMA FrameTaken ==
  ASSUME SessionTyped, NEW k, Frame(k)
  PROVE  /\ toH # <<>> /\ Head(toH) \in ReportFrames /\ Head(toH).k = k
         /\ Tail(toH) \in Seq(ReportFrames) /\ reader.pc = "read"
<1>1. toH \in Seq(ReportFrames) /\ toH # <<>>
  BY DEF Frame, SessionTyped, PipesTyped
<1> QED
  BY <1>1, PipeHead DEF Frame

\* The handlers of questions.
LEMMA QuestionsTyped ==
  ASSUME SessionTyped,
         HandleAuthorityEvaluate \/ HandleConfirmationRequired \/ HandleIssueGrant
           \/ HandleRevalidateGrant
  PROVE  SessionTyped' /\ SameStarts(toV, toV')
<1> USE SessionNumbers
<1>1. PipesTyped /\ HostTyped /\ ThreadsTyped /\ toV \in Seq(CommandFrames)
        /\ toH \in Seq(ReportFrames)
  BY DEF SessionTyped, PipesTyped
<1> DEFINE f == Head(toH)
<1>2. /\ Tail(toH) \in Seq(ReportFrames)
      /\ f.turn \in Turns /\ f.call \in Calls /\ f.rev \in -1 .. MaxRev
  <2>1. \E k \in {"evaluate", "confirm", "issue", "revalidate"} : Frame(k)
    BY DEF HandleAuthorityEvaluate, HandleConfirmationRequired, HandleIssueGrant,
           HandleRevalidateGrant
  <2>2. PICK k \in {"evaluate", "confirm", "issue", "revalidate"} : Frame(k)
    BY <2>1
  <2>3. f \in ReportFrames /\ f.k = k /\ Tail(toH) \in Seq(ReportFrames)
    BY <2>2, FrameTaken
  <2> QED
    BY <2>3, ReportIs
<1>3. f.call[1] \in Turns
  BY <1>2
<1>4. DueOf(pend) \subseteq PendingRow
  BY <1>1 DEF DueOf, HostTyped
<1>5. ASSUME NEW k \in Replies, NEW ok \in BOOLEAN, NEW r \in -1 .. MaxRev
      PROVE  /\ ReplyFrame(k, f.call, ok, r) \in CommandFrames
             /\ ReplyFrame(k, f.call, ok, r).k # "start"
  <2>1. ReplyFrame(k, f.call, ok, r) \in CommandFrames
    BY <1>2, FramesMade
  <2>2. ReplyFrame(k, f.call, ok, r).k = k
    BY DEF ReplyFrame
  <2> QED
    BY <2>1, <2>2, KindsMade
<1>6. "scope" \in Replies /\ "decision" \in Replies /\ "issued" \in Replies
        /\ "revalidated" \in Replies
  BY DEF Replies
<1>7. CASE HandleAuthorityEvaluate
  <2> DEFINE ok == Active(f.turn) /\ auth.codex \in {0, f.call[1]} /\ root.on
             g == ReplyFrame("scope", f.call, ok, IF ok THEN root.rev ELSE 0)
  <2>1. auth' \in AuthRow
    BY <1>1, <1>3, <1>7 DEF HandleAuthorityEvaluate, HostTyped, AuthRow
  <2>2. HostTyped'
    BY <1>1, <1>7, <2>1, HostFewer DEF HandleAuthorityEvaluate, HostTyped, rest
  <2>3. ok \in BOOLEAN /\ (IF ok THEN root.rev ELSE 0) \in -1 .. MaxRev
    BY <1>1 DEF HostTyped
  <2>4. g \in CommandFrames /\ g.k # "start"
    <3> HIDE DEF ok
    <3> QED
      BY <1>5, <1>6, <2>3
  <2>5. Reply(<<g>>)
    BY <1>7 DEF HandleAuthorityEvaluate
  <2> HIDE DEF g
  <2>6. ThreadsTyped' /\ toV' \in Seq(CommandFrames) /\ SameStarts(toV, toV')
    BY <1>7, <2>4, <2>5, OneFrame, ReplyTyped DEF HandleAuthorityEvaluate
  <2> QED
    BY <1>1, <1>2, <1>7, <2>2, <2>6, HostStepTyped DEF HandleAuthorityEvaluate, sidecar
<1>8. CASE HandleConfirmationRequired
  <2> DEFINE g == Refusal(f)
  <2>1. g \in CommandFrames /\ g.k # "start"
    BY <1>5, <1>6 DEF Refusal
  <2>2. <<g>> \in Seq(CommandFrames) /\ Startless(<<g>>)
    BY <2>1, OneFrame
  <2>3. Refusals(DueOf(pend)) \in Seq(CommandFrames) /\ Startless(Refusals(DueOf(pend)))
    BY <1>4, RefusalFrames
  <2>4. UNCHANGED main
    BY <1>8 DEF HandleConfirmationRequired
  <2>5. \/ reader' = [pc |-> "retire"] /\ UNCHANGED <<pend, ticket, toV>>
        \/ Reply(<<g>>) /\ UNCHANGED <<pend, ticket>>
        \/ /\ pend' \subseteq pend /\ ticket' \subseteq ticket
           /\ toV' = Sent(Refusals(DueOf(pend)))
           /\ reader' = [pc |-> "admit", turn |-> f.turn, call |-> f.call]
    BY <1>8 DEF HandleConfirmationRequired
  <2>6. pend' \subseteq pend /\ ticket' \subseteq ticket
    BY <2>5
  <2>7. HostTyped'
    BY <1>1, <1>8, <2>6, HostFewer DEF HandleConfirmationRequired, HostTyped, AuthRow, rest
  <2> HIDE DEF g
  <2>8. ThreadsTyped' /\ toV' \in Seq(CommandFrames) /\ SameStarts(toV, toV')
    <3>1. CASE reader' = [pc |-> "retire"] /\ UNCHANGED <<pend, ticket, toV>>
      BY <1>1, <2>4, <3>1, ThreadsMove, StartsStay
    <3>2. CASE Reply(<<g>>)
      BY <2>2, <2>4, <3>2, ReplyTyped
    <3>3. CASE /\ toV' = Sent(Refusals(DueOf(pend)))
               /\ reader' = [pc |-> "admit", turn |-> f.turn, call |-> f.call]
      <4>1. toV' \in Seq(CommandFrames) /\ SameStarts(toV, toV')
        BY <1>1, <2>3, <3>3, SentFrames
      <4>2. reader'.pc = "admit" /\ reader'.turn \in Turns /\ reader'.call \in Calls
        BY <1>2, <3>3
      <4>3. ThreadsTyped'
        BY <1>1, <2>4, <4>2 DEF ThreadsTyped
      <4> QED
        BY <4>1, <4>3
    <3> QED
      BY <2>5, <3>1, <3>2, <3>3
  <2> QED
    BY <1>1, <1>2, <1>8, <2>7, <2>8, HostStepTyped DEF HandleConfirmationRequired, sidecar
<1>9. CASE HandleIssueGrant
  <2> DEFINE current == FrameMatches(f) /\ root.on /\ root.rev = f.rev
             used == ApprovalsFor(f)
             ok == current /\ used # {} /\ f.call \notin late
             g == ReplyFrame("issued", f.call, ok, IF ok THEN f.rev ELSE 0)
             refused == IF FrameMatches(f) THEN Refusals(DueOf(pend)) ELSE <<>>
  <2>1. ok \in BOOLEAN /\ (IF ok THEN f.rev ELSE 0) \in -1 .. MaxRev
    BY <1>2
  <2>2. g \in CommandFrames /\ g.k # "start"
    <3> HIDE DEF ok
    <3> QED
      BY <1>5, <1>6, <2>1
  <2>3. Refusals(DueOf(pend)) \in Seq(CommandFrames) /\ Startless(Refusals(DueOf(pend)))
    BY <1>4, RefusalFrames
  <2>4. refused \in Seq(CommandFrames) /\ Startless(refused)
    BY <2>3, NoFrame
  <2>5. ok => [turn |-> f.turn, call |-> f.call, rev |-> f.rev] \in EvidenceRow
    <3>1. ok => \E a \in appr : a.rev = f.rev
      BY DEF ApprovalsFor
    <3>2. \A a \in appr : a.rev \in 1 .. MaxRev
      BY <1>1 DEF HostTyped, EvidenceRow
    <3>3. ok => f.rev \in 1 .. MaxRev
      BY <3>1, <3>2
    <3> QED
      BY <1>2, <3>3 DEF EvidenceRow
  <2>6. /\ pend' \subseteq pend /\ ticket' \subseteq ticket /\ appr' \subseteq appr
        /\ grants' \subseteq grants \cup (IF ok THEN {[turn |-> f.turn, call |-> f.call,
             rev |-> f.rev]} ELSE {})
    BY <1>9 DEF HandleIssueGrant
  <2>7. grants' \subseteq EvidenceRow /\ appr' \subseteq EvidenceRow
    BY <1>1, <2>5, <2>6 DEF HostTyped
  <2>8. HostTyped'
    BY <1>1, <1>9, <2>6, <2>7, HostFewer DEF HandleIssueGrant, HostTyped, AuthRow, rest
  <2>9. (reader' = [pc |-> "retire"] /\ UNCHANGED toV) \/ Reply(refused \o <<g>>)
    BY <1>9 DEF HandleIssueGrant
  <2> HIDE DEF g, refused
  <2>10. refused \o <<g>> \in Seq(CommandFrames) /\ Startless(refused \o <<g>>)
    BY <2>2, <2>4, OneFrame, MoreFrames
  <2>11. ThreadsTyped' /\ toV' \in Seq(CommandFrames) /\ SameStarts(toV, toV')
    <3>1. CASE reader' = [pc |-> "retire"] /\ UNCHANGED toV
      BY <1>1, <1>9, <3>1, ThreadsMove, StartsStay DEF HandleIssueGrant
    <3>2. CASE Reply(refused \o <<g>>)
      BY <1>9, <2>10, <3>2, ReplyTyped DEF HandleIssueGrant
    <3> QED
      BY <2>9, <3>1, <3>2
  <2> QED
    BY <1>1, <1>2, <1>9, <2>8, <2>11, HostStepTyped DEF HandleIssueGrant, sidecar
<1>10. CASE HandleRevalidateGrant
  <2> DEFINE used == IF FrameMatches(f) /\ root.on THEN Usable(f) ELSE {}
             ok == used # {}
             g == ReplyFrame("revalidated", f.call, ok, f.rev)
  <2>1. g \in CommandFrames /\ g.k # "start"
    <3>1. ok \in BOOLEAN
      OBVIOUS
    <3> HIDE DEF ok
    <3> QED
      BY <1>2, <1>5, <1>6, <3>1
  <2>2. Reply(<<g>>)
    BY <1>10 DEF HandleRevalidateGrant
  <2>3. grants' \subseteq grants
    BY <1>10 DEF HandleRevalidateGrant
  <2>4. HostTyped'
    BY <1>1, <1>10, <2>3, HostFewer DEF HandleRevalidateGrant, HostTyped, AuthRow
  <2> HIDE DEF g
  <2>5. ThreadsTyped' /\ toV' \in Seq(CommandFrames) /\ SameStarts(toV, toV')
    BY <1>10, <2>1, <2>2, OneFrame, ReplyTyped DEF HandleRevalidateGrant
  <2> QED
    BY <1>1, <1>2, <1>10, <2>4, <2>5, HostStepTyped DEF HandleRevalidateGrant, sidecar
<1> QED
  BY <1>7, <1>8, <1>9, <1>10

\* The other steps of the reader.
LEMMA ReaderTyped ==
  ASSUME SessionTyped, HostReader
  PROVE  SessionTyped' /\ SameStarts(toV, toV')
<1> USE SessionNumbers
<1>1. PipesTyped /\ HostTyped /\ ThreadsTyped /\ toV \in Seq(CommandFrames)
        /\ toH \in Seq(ReportFrames)
  BY DEF SessionTyped, PipesTyped
<1>2. CASE Schedule
  <2>1. reader.call \in Calls
    BY <1>1, <1>2 DEF Schedule, ThreadsTyped
  <2>2. ticket' = ticket \/ ticket' = {reader.call}
    BY <1>2 DEF Schedule, ToSchedule
  <2>3. ticket' \subseteq Calls /\ \A c, d \in ticket' : c = d
    BY <1>1, <2>1, <2>2 DEF HostTyped
  <2>4. HostTyped'
    BY <1>1, <1>2, <2>3 DEF Schedule, HostTyped, rest
  <2>5. ThreadsTyped'
    BY <1>1, <1>2, ThreadsMove DEF Schedule
  <2> QED
    BY <1>1, <1>2, <2>4, <2>5, HostStepTyped, StartsStay DEF Schedule, sidecar
<1>3. CASE HandleTurnState
  <2> DEFINE f == Head(toH)
  <2>1. PICK k \in {"live", "ended", "cancelled"} : Frame(k)
    BY <1>3 DEF HandleTurnState
  <2>2. f \in ReportFrames /\ f.k = k /\ Tail(toH) \in Seq(ReportFrames)
    BY <2>1, FrameTaken
  <2>3. f.turn \in Turns
    BY <2>2, ReportIs
  <2>4. /\ pend' \subseteq pend /\ ticket' \subseteq ticket /\ appr' \subseteq appr
               /\ grants' \subseteq grants
    BY <1>3, ClearedFewer DEF HandleTurnState
  <2>5. auth' \in AuthRow
    BY <1>1, <1>3 DEF HandleTurnState, HostTyped, AuthRow
  <2>6. HostTyped'
    BY <1>1, <1>3, <2>4, <2>5, HostFewer DEF HandleTurnState, HostTyped, rest
  <2>7. \/ reader' = reader
        \/ reader' = [pc |-> "show", turn |-> f.turn, left |-> {}]
        \/ reader' = [pc |-> "show", turn |-> 0, left |-> OfTurn(pend, f.turn)]
    BY <1>3 DEF HandleTurnState
  <2>8. OfTurn(pend, f.turn) \subseteq PendingRow
    BY <1>1 DEF OfTurn, HostTyped
  <2>9. reader' = reader \/ (/\ reader'.pc = "show" /\ reader'.turn \in 0 .. MaxTurns
                             /\ reader'.left \subseteq PendingRow)
    BY <2>3, <2>7, <2>8
  <2>10. ThreadsTyped'
    BY <1>1, <1>3, <2>9 DEF HandleTurnState, ThreadsTyped
  <2> QED
    BY <1>1, <1>3, <2>2, <2>6, <2>10, HostStepTyped, StartsStay DEF HandleTurnState, sidecar
<1>4. CASE ShowTurn
  <2>1. reader.turn \in 0 .. MaxTurns /\ reader.left \subseteq PendingRow
    BY <1>1, <1>4 DEF ShowTurn, ThreadsTyped
  <2>2. HostTyped'
    BY <1>1, <1>4, <2>1, HostFewer DEF ShowTurn, ShowsTurn, HostTyped, AuthRow, rest
  <2>3. ThreadsTyped'
    BY <1>1, <1>4, ThreadsMove DEF ShowTurn
  <2>4. toV' \in Seq(CommandFrames) /\ SameStarts(toV, toV')
    BY <1>1, <1>4, <2>1, RefusalFrames, SentFrames DEF ShowTurn
  <2> QED
    BY <1>1, <1>4, <2>2, <2>3, <2>4, HostStepTyped DEF ShowTurn, sidecar
<1>5. CASE HandleFatal \/ EndOfPipe
  <2>1. toH' \in Seq(ReportFrames)
    BY <1>1, <1>5, FrameTaken DEF HandleFatal, EndOfPipe
  <2>2. HostTyped'
    BY <1>1, <1>5, HostFewer DEF HandleFatal, EndOfPipe, HostTyped, AuthRow, rest
  <2>3. ThreadsTyped'
    BY <1>1, <1>5, ThreadsMove DEF HandleFatal, EndOfPipe
  <2> QED
    BY <1>1, <1>5, <2>1, <2>2, <2>3, HostStepTyped, StartsStay DEF HandleFatal, EndOfPipe, sidecar
<1>6. CASE AdmitConfirmation
  <2> DEFINE g == Refusal(reader)
             new == [turn |-> reader.turn, call |-> reader.call]
  <2>1. reader.turn \in Turns /\ reader.call \in Calls
    BY <1>1, <1>6 DEF AdmitConfirmation, ThreadsTyped
  <2>2. <<g>> \in Seq(CommandFrames) /\ Startless(<<g>>)
    <3>1. g \in CommandFrames /\ g.k # "start"
      BY <2>1, FramesMade DEF Replies, Refusal, ReplyFrame
    <3> QED
      BY <3>1, OneFrame
  <2>3. new \in PendingRow
    BY <2>1 DEF PendingRow
  <2>4. /\ UNCHANGED <<root, auth, shownTurn, appr, grants, ticket, hand, closed, writer,
                       main, sidecar, toH, rest>>
        /\ \/ Reply(<<g>>) /\ UNCHANGED pend
           \/ reader' = [pc |-> "retire"] /\ UNCHANGED <<pend, toV>>
           \/ /\ pend' = {new} /\ UNCHANGED toV
              /\ reader' = [pc |-> "schedule", call |-> reader.call]
    BY <1>6 DEF AdmitConfirmation
  <2> HIDE DEF g, new
  <2>5. pend' \subseteq PendingRow /\ \A p, q \in pend' : p = q
    BY <1>1, <2>3, <2>4 DEF HostTyped
  <2>6. HostTyped'
    BY <1>1, <2>4, <2>5 DEF HostTyped, rest
  <2>7. ThreadsTyped' /\ toV' \in Seq(CommandFrames) /\ SameStarts(toV, toV')
    <3>1. CASE Reply(<<g>>)
      BY <2>2, <2>4, <3>1, ReplyTyped
    <3>2. CASE reader' = [pc |-> "retire"] /\ UNCHANGED toV
      BY <1>1, <2>4, <3>2, ThreadsMove, StartsStay
    <3>3. CASE UNCHANGED toV /\ reader' = [pc |-> "schedule", call |-> reader.call]
      <4>1. reader'.pc = "schedule" /\ reader'.call \in Calls
        BY <2>1, <3>3
      <4>2. ThreadsTyped'
        BY <1>1, <2>4, <4>1 DEF ThreadsTyped
      <4> QED
        BY <1>1, <3>3, <4>2, StartsStay
    <3> QED
      BY <2>4, <3>1, <3>2, <3>3
  <2> QED
    BY <1>1, <2>4, <2>6, <2>7, HostStepTyped DEF sidecar
<1> QED
  BY <1>2, <1>3, <1>4, <1>5, <1>6, QuestionsTyped DEF HostReader

-----------------------------------------------------------------------------
(* Types: the sidecar *)

\* A step of the sidecar leaves what the Host knows alone.
LEMMA SidecarStepTyped ==
  ASSUME SessionTyped, UNCHANGED <<host, turns, late, lateGrant>>, SidecarTyped',
         toV' \in Seq(CommandFrames), toH' \in Seq(ReportFrames),
         cmds' \in Seq(CommandFrames), Len(cmds') <= CmdCap
  PROVE  SessionTyped'
BY DEF SessionTyped, PipesTyped, HostTyped, ThreadsTyped, host

\* A step that touches neither pipes nor the command channel.
LEMMA InnerStepTyped ==
  ASSUME SessionTyped, UNCHANGED <<host, turns, late, lateGrant, toV, cmds>>, SidecarTyped',
         toH' \in Seq(ReportFrames)
  PROVE  SessionTyped'
<1>1. toV' \in Seq(CommandFrames) /\ cmds' \in Seq(CommandFrames) /\ Len(cmds') <= CmdCap
  BY DEF SessionTyped, PipesTyped
<1> QED
  BY <1>1, SidecarStepTyped

\* Reports that are sent.
LEMMA ToldFrames ==
  ASSUME SessionTyped, NEW w \in Seq(ReportFrames)
  PROVE  Told(w) \in Seq(ReportFrames)
BY PutFrames DEF Told, SessionTyped, PipesTyped

\* One report that is sent.
LEMMA ToldOne ==
  ASSUME SessionTyped, NEW f \in ReportFrames
  PROVE  Told(<<f>>) \in Seq(ReportFrames)
<1>1. <<f>> \in Seq(ReportFrames)
  OBVIOUS
<1> QED
  BY <1>1, ToldFrames

\* The labels a call gets.
LEMMA CallMoved ==
  ASSUME call \in [Calls -> CallRow], NEW c \in Calls, NEW p \in CallLabels,
         call' = [call EXCEPT ![c].pc = p]
  PROVE  call' \in [Calls -> CallRow]
<1>1. [call[c] EXCEPT !.pc = p] \in CallRow
  BY DEF CallRow
<1> QED
  BY <1>1

\* A call that waits for its confirmation, and one that got an answer.
LEMMA CallAwaits ==
  ASSUME call \in [Calls -> CallRow], NEW c \in Calls,
         call' = [call EXCEPT ![c].pc = "awaiting", ![c].cur = TRUE]
  PROVE  call' \in [Calls -> CallRow]
<1>1. [call[c] EXCEPT !.pc = "awaiting", !.cur = TRUE] \in CallRow
  BY DEF CallRow, CallLabels
<1>2. call' = [call EXCEPT ![c] = [call[c] EXCEPT !.pc = "awaiting", !.cur = TRUE]]
  OBVIOUS
<1> QED
  BY <1>1, <1>2

\* An answer moves one call on, which keeps its type.
LEMMA CallAnswered ==
  ASSUME call \in [Calls -> CallRow], NEW c \in Calls, NEW r \in -1 .. MaxRev, Answered(c, r)
  PROVE  call' \in [Calls -> CallRow]
<1>1. [call[c] EXCEPT !.ans = r] \in CallRow
  BY DEF CallRow
<1>2. call' = [call EXCEPT ![c] = [call[c] EXCEPT !.ans = r]]
  BY DEF Answered
<1> QED
  BY <1>1, <1>2

\* The calls after the action was cancelled.
LEMMA CallsCancelled ==
  ASSUME call \in [Calls -> CallRow]
  PROVE  CancelledCalls \in [Calls -> CallRow]
<1>1. \A c \in Calls : [call[c] EXCEPT !.cur = FALSE,
      !.token = call[c].token \/ c \in lease] \in CallRow
  <2> TAKE c \in Calls
  <2>1. call[c] \in CallRow /\ (call[c].token \/ c \in lease) \in BOOLEAN
    OBVIOUS
  <2> QED
    BY <2>1 DEF CallRow
<1> QED
  BY <1>1 DEF CancelledCalls

\* What the tasks of turns do.
LEMMA TaskMoved ==
  ASSUME task \in [Turns -> TaskRow], NEW t \in Turns, NEW p \in TaskLabels,
         task' = [task EXCEPT ![t].pc = p]
  PROVE  /\ task' \in [Turns -> TaskRow]
         /\ task'[t].pc = p /\ task'[t].res = task[t].res /\ task'[t].cancelled = task[t].cancelled
         /\ \A u \in Turns : u # t => task'[u] = task[u]
<1>1. [task[t] EXCEPT !.pc = p] \in TaskRow
  BY DEF TaskRow
<1>2. task' \in [Turns -> TaskRow] /\ task'[t] = [task[t] EXCEPT !.pc = p]
      /\ \A u \in Turns : u # t => task'[u] = task[u]
  BY <1>1
<1>3. task[t] \in TaskRow
  OBVIOUS
<1> QED
  BY <1>2, <1>3 DEF TaskRow

\* A turn that returns moves only its own task.
LEMMA TaskReturned ==
  ASSUME task \in [Turns -> TaskRow], NEW t \in Turns, NEW r \in {"ended", "cancelled"},
         Returned(t, r)
  PROVE  /\ task' \in [Turns -> TaskRow]
         /\ task'[t].pc = "back" /\ task'[t].res = r /\ task'[t].cancelled = task[t].cancelled
         /\ \A u \in Turns : u # t => task'[u] = task[u]
<1>1. [task[t] EXCEPT !.pc = "back", !.res = r] \in TaskRow
  BY DEF TaskRow, TaskLabels
<1>2. task' = [task EXCEPT ![t] = [task[t] EXCEPT !.pc = "back", !.res = r]]
  BY DEF Returned
<1>3. task' \in [Turns -> TaskRow] /\ task'[t] = [task[t] EXCEPT !.pc = "back", !.res = r]
      /\ \A u \in Turns : u # t => task'[u] = task[u]
  BY <1>1, <1>2
<1>4. task[t] \in TaskRow
  OBVIOUS
<1> QED
  BY <1>3, <1>4 DEF TaskRow

\* The steps of a task: what they do to the tasks.
LEMMA TaskSteps ==
  ASSUME SessionTyped, NEW t \in Turns, Task(t)
  PROVE  /\ task' \in [Turns -> TaskRow]
         /\ \A u \in Turns : u # t => task'[u] = task[u]
         /\ task'[t].cancelled = task[t].cancelled
         /\ task[t].pc # "none" /\ task'[t].pc # "none"
         /\ task'[t].pc \in {"back", "current"} => task'[t].res # "none"
         /\ task[t].pc \in {"reported", "done"} => task'[t].pc \in {"reported", "done"}
<1>1. task \in [Turns -> TaskRow] /\ (task[t].pc \in {"back", "current"} => task[t].res # "none")
  BY DEF SessionTyped, SidecarTyped
<1>2. CASE \E r \in {"ended", "cancelled"} : Returned(t, r) /\ task[t].pc \in {"new", "turn"}
  BY <1>1, <1>2, TaskReturned
<1>3. CASE \E p \in {"turn", "current", "done", "reported"} :
             /\ task' = [task EXCEPT ![t].pc = p]
             /\ task[t].pc = IF p = "turn" THEN "new" ELSE IF p \in {"current"} THEN "back"
                             ELSE IF p = "reported" THEN "current" ELSE task[t].pc
             /\ p = "done" => task[t].pc \in {"back", "reported"}
  <2>1. PICK p \in {"turn", "current", "done", "reported"} :
             /\ task' = [task EXCEPT ![t].pc = p]
             /\ task[t].pc = IF p = "turn" THEN "new" ELSE IF p \in {"current"} THEN "back"
                             ELSE IF p = "reported" THEN "current" ELSE task[t].pc
             /\ p = "done" => task[t].pc \in {"back", "reported"}
    BY <1>3
  <2>2. p \in TaskLabels
    BY DEF TaskLabels
  <2> QED
    BY <1>1, <2>1, <2>2, TaskMoved
<1>4. TaskOpen(t) => \/ \E r \in {"ended", "cancelled"} :
                         Returned(t, r) /\ task[t].pc \in {"new", "turn"}
                     \/ task' = [task EXCEPT ![t].pc = "turn"] /\ task[t].pc = "new"
  BY DEF TaskOpen
<1>5. TaskReturn(t) => \E r \in {"ended", "cancelled"} :
      Returned(t, r) /\ task[t].pc \in {"new", "turn"}
  BY DEF TaskReturn
<1>6. TaskCheck(t) => /\ task[t].pc = "back"
                      /\ \/ task' = [task EXCEPT ![t].pc = "current"]
                         \/ task' = [task EXCEPT ![t].pc = "done"]
  BY DEF TaskCheck
<1>7. TaskReport(t) => task' = [task EXCEPT ![t].pc = "reported"] /\ task[t].pc = "current"
  BY DEF TaskReport
<1>8. TaskEnd(t) => task' = [task EXCEPT ![t].pc = "done"] /\ task[t].pc = "reported"
  BY DEF TaskEnd
<1> QED
  BY <1>2, <1>3, <1>4, <1>5, <1>6, <1>7, <1>8 DEF Task

\* The steps of a task keep the types.
LEMMA TasksTyped ==
  ASSUME SessionTyped, NEW t \in Turns, Task(t)
  PROVE  SessionTyped'
<1> USE SessionNumbers
<1>1. SidecarTyped /\ toH \in Seq(ReportFrames)
  BY DEF SessionTyped, PipesTyped
<1>2. /\ task' \in [Turns -> TaskRow]
      /\ \A u \in Turns : task'[u].pc \in {"back", "current"} => task'[u].res # "none"
  BY <1>1, TaskSteps DEF SidecarTyped
<1>3. /\ UNCHANGED <<host, turns, late, lateGrant, toV, cmds, owner, loop, call, lease, queue,
           asking>>
      /\ ident' \in {0, ident} /\ gateway' \in {0, gateway} /\ thread' \in {0, t, thread}
  BY DEF Task, TaskOpen, TaskReturn, TaskCheck, TaskReport, TaskEnd, GatewayAfter, rest
<1>4. SidecarTyped'
  BY <1>1, <1>2, <1>3 DEF SidecarTyped
<1>5. toH' \in Seq(ReportFrames)
  <2>1. CASE TaskReport(t)
    <3>1. task[t].pc = "current" /\ toH' = Told(<<About(task[t].res, t)>>)
      BY <2>1 DEF TaskReport
    <3>2. task[t].res \in {"ended", "cancelled"}
      BY <1>1, <3>1 DEF SidecarTyped, TaskRow
    <3>3. About(task[t].res, t) \in ReportFrames
      BY <3>2, FramesMade
    <3> QED
      BY <3>1, <3>3, ToldOne
  <2>2. CASE UNCHANGED toH
    BY <1>1, <2>2
  <2> QED
    BY <2>1, <2>2 DEF Task, TaskOpen, TaskReturn, TaskCheck, TaskEnd
<1> QED
  BY <1>3, <1>4, <1>5, InnerStepTyped

\* A request of a call, or its end.
LEMMA RequestTyped ==
  ASSUME SessionTyped, NEW c \in Calls, NEW k \in {"evaluate", "issue", "revalidate"},
         NEW pc \in CallLabels, NEW r \in -1 .. MaxRev, ToolRequest(c, k, pc, r)
  PROVE  call' \in [Calls -> CallRow] /\ lease' \subseteq lease /\ toH' \in Seq(ReportFrames)
<1> USE SessionNumbers
<1>1. call \in [Calls -> CallRow] /\ ident \in 0 .. MaxTurns /\ toH \in Seq(ReportFrames)
  BY DEF SessionTyped, SidecarTyped, PipesTyped
<1>2. CASE ident = 0
  <2>1. call' = [call EXCEPT ![c].pc = "done"] /\ lease' = lease \ {c} /\ toH' = toH
    BY <1>2 DEF ToolRequest, CallEnds
  <2> QED
    BY <1>1, <2>1, CallMoved DEF CallLabels
<1>3. CASE ident # 0
  <2>1. call' = [call EXCEPT ![c].pc = pc] /\ lease' = lease
          /\ toH' = Told(<<AskFrame(k, ident, c, r)>>)
    BY <1>3 DEF ToolRequest, CallMoves
  <2>2. AskFrame(k, ident, c, r) \in ReportFrames
    BY <1>1, <1>3, FramesMade
  <2> QED
    BY <1>1, <2>1, <2>2, CallMoved, ToldOne
<1> QED
  BY <1>2, <1>3

\* So do the steps of a call.
LEMMA ToolsTyped ==
  ASSUME SessionTyped, NEW c \in Calls, CallStart(c) \/ Tool(c) \/ CallTimeout(c)
  PROVE  SessionTyped'
<1> USE SessionNumbers
<1>1. SidecarTyped /\ toH \in Seq(ReportFrames) /\ call \in [Calls -> CallRow]
  BY DEF SessionTyped, PipesTyped, SidecarTyped
<1>2. /\ UNCHANGED <<host, turns, late, lateGrant, toV, cmds, ident, gateway, owner, loop, task,
           thread, asking>>
      /\ queue' \in {queue, {c}}
  BY DEF CallStart, Tool, CallEvaluate, CallAwait, CallGiveUp, CallIssue, CallLaunch, CallExit,
         CallTimeout, rest
<1>3. /\ call' \in [Calls -> CallRow] /\ toH' \in Seq(ReportFrames)
      /\ lease' \subseteq lease \/ lease' = {c}
  <2>1. CASE CallStart(c)
    BY <1>1, <2>1, CallMoved DEF CallStart, CallMoves, CallLabels
  <2>2. CASE CallEvaluate(c)
    BY <2>2, RequestTyped DEF CallEvaluate, CallLabels
  <2>3. ASSUME CallEnds(c), UNCHANGED toH
        PROVE  call' \in [Calls -> CallRow] /\ toH' \in Seq(ReportFrames) /\ lease' \subseteq lease
    BY <1>1, <2>3, CallMoved DEF CallEnds, CallLabels
  <2>4. CASE CallAwait(c)
    <3>1. CASE CallEnds(c)
      BY <2>3, <2>4, <3>1 DEF CallAwait
    <3>2. CASE call' = [call EXCEPT ![c].pc = "awaiting", ![c].cur = TRUE] /\ lease' = lease
      BY <1>1, <2>4, <3>2, CallAwaits DEF CallAwait
    <3> QED
      BY <2>4, <3>1, <3>2 DEF CallAwait
  <2>5. CASE CallGiveUp(c) \/ CallExit(c) \/ CallTimeout(c)
    BY <2>3, <2>5 DEF CallGiveUp, CallExit, CallTimeout
  <2>6. call[c].ans \in -1 .. MaxRev
    BY <1>1 DEF CallRow
  <2>7. CASE CallIssue(c)
    <3>1. CASE CallEnds(c) /\ UNCHANGED toH
      BY <2>3, <3>1
    <3>2. CASE ToolRequest(c, "issue", "issuing", call[c].ans)
      BY <2>6, <3>2, RequestTyped DEF CallLabels
    <3> QED
      BY <2>7, <3>1, <3>2 DEF CallIssue
  <2>8. CASE CallLaunch(c)
    <3>1. CASE CallEnds(c) /\ UNCHANGED toH
      BY <2>3, <3>1
    <3>2. CASE ToolRequest(c, "revalidate", "revalidating", call[c].ans)
      BY <2>6, <3>2, RequestTyped DEF CallLabels
    <3> QED
      BY <2>8, <3>1, <3>2 DEF CallLaunch
  <2> QED
    BY <2>1, <2>2, <2>4, <2>5, <2>7, <2>8 DEF Tool
<1>4. SidecarTyped'
  BY <1>1, <1>2, <1>3 DEF SidecarTyped
<1> QED
  BY <1>2, <1>3, <1>4, InnerStepTyped

\* The confirmation loop.
LEMMA LoopTyped ==
  ASSUME SessionTyped, ConfirmationLoop \/ LoopTimeout
  PROVE  SessionTyped'
<1> USE SessionNumbers
<1>1. SidecarTyped /\ toH \in Seq(ReportFrames) /\ call \in [Calls -> CallRow]
        /\ ident \in 0 .. MaxTurns
  BY DEF SessionTyped, PipesTyped, SidecarTyped
<1>2. ASSUME NEW c \in Calls, NEW r \in -1 .. MaxRev,
             Answered(c, r) PROVE call' \in [Calls -> CallRow]
  BY <1>1, <1>2, CallAnswered
<1>3. CASE LoopAnswer
  <2>1. asking \in AskedRow
    BY <1>1, <1>3 DEF LoopAnswer, SidecarTyped
  <2>2. DecidedRevision \in -1 .. MaxRev /\ asking.call \in Calls
    BY <2>1 DEF DecidedRevision, AskedRow
  <2>3. call' \in [Calls -> CallRow]
    BY <1>2, <1>3, <2>2 DEF LoopAnswer
  <2>4. toH' \in Seq(ReportFrames)
    <3>1. ident # 0 => About("live", ident) \in ReportFrames
      BY <1>1, FramesMade
    <3>2. ident = asking.turn => ident # 0
      BY <2>1 DEF AskedRow
    <3>3. (toH' = Told(<<About("live", ident)>>) /\ ident = asking.turn) \/ toH' = toH
      BY <1>3 DEF LoopAnswer
    <3> QED
      BY <1>1, <3>1, <3>2, <3>3, ToldOne
  <2>5. /\ UNCHANGED <<host, turns, late, lateGrant, toV, cmds, ident, gateway, owner, loop, task,
             thread, lease, queue>>
        /\ asking' = [pc |-> "idle"]
    BY <1>3 DEF LoopAnswer, rest
  <2>6. SidecarTyped'
    BY <1>1, <2>3, <2>5 DEF SidecarTyped
  <2> QED
    BY <2>4, <2>5, <2>6, InnerStepTyped
<1>4. ASSUME NEW c \in Calls, LoopTake(c) PROVE SessionTyped'
  <2>1. /\ UNCHANGED <<host, turns, late, lateGrant, toV, cmds, ident, gateway, owner, loop, task,
             thread, lease>>
        /\ queue' = {}
    BY <1>4 DEF LoopTake, rest
  <2>2. CASE ~call[c].cur \/ ident = 0
    <3>1. call' \in [Calls -> CallRow] /\ UNCHANGED <<asking, toH>>
      BY <1>2, <1>4, <2>2 DEF LoopTake
    <3>2. SidecarTyped'
      BY <1>1, <2>1, <3>1 DEF SidecarTyped
    <3> QED
      BY <1>1, <2>1, <3>1, <3>2, InnerStepTyped
  <2>3. CASE ~(~call[c].cur \/ ident = 0)
    <3>1. /\ asking' = [pc |-> "asked", call |-> c, turn |-> ident, rev |-> 0]
          /\ toH' = Told(<<About("live", ident), AskFrame("confirm", ident, c, 0)>>)
          /\ UNCHANGED call
      BY <1>4, <2>3 DEF LoopTake
    <3>2. asking' \in AskedRow
      BY <1>1, <2>3, <3>1 DEF AskedRow
    <3>3. SidecarTyped'
      BY <1>1, <2>1, <3>1, <3>2 DEF SidecarTyped
    <3> DEFINE f == About("live", ident)
               g == AskFrame("confirm", ident, c, 0)
    <3>4. f \in ReportFrames /\ g \in ReportFrames
      BY <1>1, <2>3, FramesMade
    <3>5. toH' = Told(<<f, g>>)
      BY <3>1
    <3> HIDE DEF f, g
    <3>6. <<f, g>> \in Seq(ReportFrames)
      BY <3>4
    <3> QED
      BY <2>1, <3>3, <3>5, <3>6, ToldFrames, InnerStepTyped
  <2> QED
    BY <2>2, <2>3
<1>5. CASE LoopTimeout
  <2>1. asking \in AskedRow
    BY <1>1, <1>5 DEF LoopTimeout, SidecarTyped
  <2>2. asking' \in AskedRow
    BY <1>5, <2>1 DEF LoopTimeout, AskedRow
  <2>3. UNCHANGED <<host, turns, late, lateGrant, toV, cmds, ident, gateway, owner, loop, task,
        thread, lease, queue, call, toH>>
    BY <1>5 DEF LoopTimeout, rest
  <2>4. SidecarTyped'
    BY <1>1, <2>2, <2>3 DEF SidecarTyped
  <2> QED
    BY <1>1, <2>3, <2>4, InnerStepTyped
<1> QED
  BY <1>3, <1>4, <1>5 DEF ConfirmationLoop

\* The router.
LEMMA RouterTyped ==
  ASSUME SessionTyped, Router
  PROVE  SessionTyped'
<1>1. /\ SidecarTyped /\ toH \in Seq(ReportFrames) /\ toV \in Seq(CommandFrames)
      /\ cmds \in Seq(CommandFrames) /\ Len(cmds) <= CmdCap /\ call \in [Calls -> CallRow]
  BY DEF SessionTyped, PipesTyped, SidecarTyped
<1>2. toV # <<>> => Head(toV) \in CommandFrames /\ Tail(toV) \in Seq(CommandFrames)
  BY <1>1, PipeHead
<1>3. CASE RouteReply
  <2> DEFINE f == Head(toV)
  <2>1. toV # <<>> /\ f.k \in Replies /\ Expected(f)
    BY <1>3 DEF RouteReply
  <2>2. f.call \in Calls /\ f.rev \in -1 .. MaxRev
    BY <1>2, <2>1, CommandIs
  <2>3. /\ UNCHANGED <<host, turns, late, lateGrant, toH, cmds, ident, gateway, owner, loop, task,
             thread, queue>>
        /\ toV' = Tail(toV)
    BY <1>3 DEF RouteReply, rest
  <2>4. /\ call' \in [Calls -> CallRow] /\ lease' \subseteq lease
        /\ asking' = asking \/ asking' \in AskedRow
    <3>1. CASE f.k = "decision"
      <4>1. /\ asking.pc = "asked" /\ UNCHANGED <<call, lease>>
            /\ asking' = [asking EXCEPT !.pc = "answered", !.rev = f.rev]
        BY <1>3, <2>1, <3>1 DEF RouteReply, Expected
      <4>2. asking \in AskedRow
        BY <1>1, <4>1 DEF SidecarTyped
      <4>3. asking' \in AskedRow
        BY <2>2, <4>1, <4>2 DEF AskedRow
      <4> QED
        BY <1>1, <4>1, <4>3
    <3>2. CASE f.k # "decision"
      <4>1. /\ call' = [call EXCEPT ![f.call].pc = IF f.ok THEN After[f.k] ELSE "done"]
            /\ lease' = LeaseAfter(f) /\ UNCHANGED asking
        BY <1>3, <3>2 DEF RouteReply
      <4>2. After[f.k] \in CallLabels
        <5>1. f.k = "scope" \/ f.k = "issued" \/ f.k = "revalidated"
          BY <2>1, <3>2 DEF Replies
        <5>2. After["scope"] = "ready" /\ After["issued"] = "launch"
                /\ After["revalidated"] = "running"
          BY DEF After
        <5> QED
          BY <5>1, <5>2 DEF CallLabels
      <4>3. (IF f.ok THEN After[f.k] ELSE "done") \in CallLabels
        BY <4>2 DEF CallLabels
      <4>4. call' \in [Calls -> CallRow]
        <5> DEFINE p == IF f.ok THEN After[f.k] ELSE "done"
        <5>1. p \in CallLabels /\ call' = [call EXCEPT ![f.call].pc = p]
          BY <4>1, <4>3
        <5> HIDE DEF p
        <5> QED
          BY <1>1, <2>2, <5>1, CallMoved
      <4> QED
        BY <4>1, <4>4 DEF LeaseAfter
    <3> QED
      BY <3>1, <3>2
  <2>5. SidecarTyped'
    BY <1>1, <2>3, <2>4 DEF SidecarTyped
  <2> QED
    BY <1>1, <1>2, <2>1, <2>3, <2>5, SidecarStepTyped
<1>4. CASE RouteCommand
  <2>1. /\ UNCHANGED <<host, turns, late, lateGrant, toH, ident, gateway, owner, loop, task,
             thread, queue, call, lease, asking>>
        /\ toV # <<>> /\ toV' = Tail(toV)
        /\ cmds' = cmds \/ (Room /\ cmds' = Append(cmds, Head(toV)))
    BY <1>4 DEF RouteCommand, Dies, rest
  <2>2. SidecarTyped'
    BY <1>1, <2>1 DEF SidecarTyped
  <2>3. Append(cmds, Head(toV)) \in Seq(CommandFrames)
          /\ Len(Append(cmds, Head(toV))) = Len(cmds) + 1
    BY <1>1, <1>2, <2>1, PutFrame
  <2>4. cmds' \in Seq(CommandFrames) /\ Len(cmds') <= CmdCap
    <3>1. CASE cmds' = cmds
      BY <1>1, <3>1
    <3>2. CASE Room /\ cmds' = Append(cmds, Head(toV))
      <4>1. CmdCap \in Nat /\ Len(cmds) \in Nat /\ Len(cmds) < CmdCap
        BY <1>1, <3>2, SessionNumbers DEF Room
      <4>2. cmds' \in Seq(CommandFrames) /\ Len(cmds') = Len(cmds) + 1
        BY <2>3, <3>2
      <4> QED
        BY <4>1, <4>2
    <3> QED
      BY <2>1, <3>1, <3>2
  <2> QED
    BY <1>1, <1>2, <2>1, <2>2, <2>4, SidecarStepTyped
<1>5. CASE RouterEndOfPipe
  <2>1. UNCHANGED <<host, turns, late, lateGrant, toH, toV, cmds, ident, gateway, owner, loop,
        task, thread, queue, call, lease, asking>>
    BY <1>5 DEF RouterEndOfPipe, Dies, rest
  <2>2. SidecarTyped'
    BY <1>1, <2>1 DEF SidecarTyped
  <2> QED
    BY <1>1, <2>1, <2>2, InnerStepTyped
<1> QED
  BY <1>3, <1>4, <1>5 DEF Router

\* The command a handler of the loop takes.
LEMMA CommandTaken ==
  ASSUME SessionTyped, NEW k, Command(k)
  PROVE  /\ cmds # <<>> /\ Head(cmds) \in CommandFrames /\ Head(cmds).k = k
         /\ Tail(cmds) \in Seq(CommandFrames) /\ Len(Tail(cmds)) <= CmdCap
<1>1. cmds \in Seq(CommandFrames) /\ cmds # <<>> /\ Len(cmds) <= CmdCap /\ Len(cmds) \in Nat
  BY DEF Command, SessionTyped, PipesTyped
<1>2. CmdCap \in Nat
  BY SessionNumbers
<1> QED
  BY <1>1, <1>2, PipeHead DEF Command

\* The command loop.
LEMMA CommandLoopTyped ==
  ASSUME SessionTyped, CommandLoop \/ JoinTimeout \/ SidecarCrash
  PROVE  SessionTyped'
<1>1. /\ SidecarTyped /\ toH \in Seq(ReportFrames) /\ toV \in Seq(CommandFrames)
      /\ cmds \in Seq(CommandFrames) /\ Len(cmds) <= CmdCap /\ call \in [Calls -> CallRow]
  BY DEF SessionTyped, PipesTyped, SidecarTyped
<1>2. CASE CommandCancelAction
  <2>1. Tail(cmds) \in Seq(CommandFrames) /\ Len(Tail(cmds)) <= CmdCap
    BY <1>2, CommandTaken DEF CommandCancelAction
  <2>2. /\ UNCHANGED <<host, turns, late, lateGrant, toH, toV, ident, gateway, owner, loop, task,
             thread, queue, lease, asking>>
        /\ cmds' = Tail(cmds) /\ call' = CancelledCalls
    BY <1>2 DEF CommandCancelAction, rest
  <2>3. SidecarTyped'
    BY <1>1, <2>2, CallsCancelled DEF SidecarTyped
  <2> QED
    BY <1>1, <2>1, <2>2, <2>3, SidecarStepTyped
<1>3. CASE CommandStartTurn
  <2> DEFINE f == Head(cmds)
             t == f.turn
  <2>1. f \in CommandFrames /\ f.k = "start" /\ Tail(cmds) \in Seq(CommandFrames)
          /\ Len(Tail(cmds)) <= CmdCap
    BY <1>3, CommandTaken DEF CommandStartTurn
  <2>2. t \in Turns
    BY <2>1, CommandIs
  <2>3. /\ UNCHANGED <<host, turns, late, lateGrant, toV, loop, thread, queue, lease, asking>>
        /\ cmds' = Tail(cmds) /\ owner' \in {0, t, owner}
        /\ ident' \in {t, ident} /\ gateway' \in {t, gateway}
        /\ call' = call \/ call' = [c \in Calls |-> [call[c] EXCEPT !.cur = FALSE]]
        /\ task' = task \/ task' = [task EXCEPT ![t].pc = "new"]
        /\ \/ toH' = Told(<<About("ended", t)>>)
           \/ toH' = Told(<<About("live", t)>>)
           \/ toH' = Told(<<About("live", t), About("ended", t)>>)
    BY <1>3 DEF CommandStartTurn, Reaped, rest
  <2> HIDE DEF f
  <2>4. call' \in [Calls -> CallRow]
    <3>1. \A c \in Calls : [call[c] EXCEPT !.cur = FALSE] \in CallRow
      BY <1>1 DEF CallRow
    <3> QED
      BY <1>1, <2>3, <3>1
  <2>5. /\ task' \in [Turns -> TaskRow]
        /\ \A u \in Turns : task'[u].pc \in {"back", "current"} => task'[u].res # "none"
    <3>1. CASE task' = task
      BY <1>1, <3>1 DEF SidecarTyped
    <3>2. CASE task' = [task EXCEPT ![t].pc = "new"]
      <4>1. "new" \in TaskLabels /\ task \in [Turns -> TaskRow]
        BY <1>1 DEF TaskLabels, SidecarTyped
      <4>2. /\ task' \in [Turns -> TaskRow] /\ task'[t].pc = "new"
            /\ \A u \in Turns : u # t => task'[u] = task[u]
        BY <2>2, <3>2, <4>1, TaskMoved
      <4> QED
        BY <1>1, <4>2 DEF SidecarTyped
    <3> QED
      BY <2>3, <3>1, <3>2
  <2>6. t \in 0 .. MaxTurns
    BY <2>2, SessionNumbers
  <2> HIDE DEF t
  <2>7. SidecarTyped'
    <3>1. ident' \in 0 .. MaxTurns /\ gateway' \in 0 .. MaxTurns /\ owner' \in 0 .. MaxTurns
      BY <1>1, <2>3, <2>6, SessionNumbers DEF SidecarTyped
    <3>2. UNCHANGED <<loop, thread, queue, lease, asking>>
      BY <2>3
    <3> QED
      BY <1>1, <2>4, <2>5, <3>1, <3>2 DEF SidecarTyped
  <2>8. About("ended", t) \in ReportFrames /\ About("live", t) \in ReportFrames
    BY <2>2, FramesMade
  <2>9. /\ <<About("ended", t)>> \in Seq(ReportFrames) /\ <<About("live", t)>> \in Seq(ReportFrames)
        /\ <<About("live", t), About("ended", t)>> \in Seq(ReportFrames)
    <3> DEFINE a == About("ended", t)
               b == About("live", t)
    <3> HIDE DEF a, b
    <3>1. <<a>> \in Seq(ReportFrames) /\ <<b>> \in Seq(ReportFrames)
          /\ <<b, a>> \in Seq(ReportFrames)
      BY <2>8 DEF a, b
    <3> QED
      BY <3>1 DEF a, b
  <2>10. toH' \in Seq(ReportFrames)
    BY <2>3, <2>9, ToldFrames
  <2> QED
    BY <1>1, <2>1, <2>3, <2>7, <2>10, SidecarStepTyped
<1>4. CASE CommandCancelTurn
  <2> DEFINE f == Head(cmds)
             t == f.turn
  <2>1. f \in CommandFrames /\ f.k = "cancelTurn" /\ Tail(cmds) \in Seq(CommandFrames)
          /\ Len(Tail(cmds)) <= CmdCap
    BY <1>4, CommandTaken DEF CommandCancelTurn
  <2>2. t \in Turns
    BY <2>1, CommandIs
  <2>3. /\ UNCHANGED <<host, turns, late, lateGrant, toH, toV, thread, queue, lease, asking>>
        /\ cmds' = Tail(cmds) /\ ident' \in {0, ident} /\ gateway' \in {0, gateway}
               /\ owner' \in {0, owner}
        /\ call' = call \/ call' = CancelledCalls
        /\ task' = task \/ task' = [task EXCEPT ![t].cancelled = TRUE]
        /\ loop' = loop \/ loop' = [pc |-> "interrupt", turn |-> t]
    BY <1>4 DEF CommandCancelTurn, rest
  <2> HIDE DEF f
  <2>4. call' \in [Calls -> CallRow]
    BY <1>1, <2>3, CallsCancelled
  <2>5. /\ task' \in [Turns -> TaskRow]
        /\ \A u \in Turns : task'[u].pc \in {"back", "current"} => task'[u].res # "none"
    <3>1. CASE task' = task
      BY <1>1, <3>1 DEF SidecarTyped
    <3>2. CASE task' = [task EXCEPT ![t].cancelled = TRUE]
      <4>1. task \in [Turns -> TaskRow]
        BY <1>1 DEF SidecarTyped
      <4>2. [task[t] EXCEPT !.cancelled = TRUE] \in TaskRow
        BY <2>2, <4>1 DEF TaskRow
      <4>3. task' = [task EXCEPT ![t] = [task[t] EXCEPT !.cancelled = TRUE]]
        BY <3>2
      <4>4. /\ task' \in [Turns -> TaskRow] /\ task'[t] = [task[t] EXCEPT !.cancelled = TRUE]
            /\ \A u \in Turns : u # t => task'[u] = task[u]
        BY <2>2, <4>1, <4>2, <4>3
      <4>5. task'[t].pc = task[t].pc /\ task'[t].res = task[t].res
        BY <2>2, <4>1, <4>4 DEF TaskRow
      <4> QED
        BY <1>1, <2>2, <4>4, <4>5 DEF SidecarTyped
    <3> QED
      BY <2>3, <3>1, <3>2
  <2>6. 0 \in 0 .. MaxTurns /\ t \in 0 .. MaxTurns
    BY <2>2, SessionNumbers
  <2>7. loop' \in [pc : {"idle", "interrupt", "join"}, turn : 0 .. MaxTurns]
          /\ (loop'.pc # "idle" => loop'.turn \in Turns)
    BY <1>1, <2>2, <2>3, <2>6 DEF SidecarTyped
  <2>8. SidecarTyped'
    BY <1>1, <2>3, <2>4, <2>5, <2>6, <2>7 DEF SidecarTyped
  <2> QED
    BY <1>1, <2>1, <2>3, <2>8, SidecarStepTyped
<1>5. CASE InterruptActiveTurn
  <2>1. /\ UNCHANGED <<host, turns, late, lateGrant, toH, toV, cmds, ident, gateway, owner, task,
             thread, queue, lease, asking>>
        /\ loop.pc = "interrupt" /\ loop' = [loop EXCEPT !.pc = "join"]
        /\ call' = [c \in Calls |-> [call[c] EXCEPT !.token = call[c].token
               \/ (c \in lease /\ c[1] = thread)]]
    BY <1>5 DEF InterruptActiveTurn, rest
  <2>2. \A c \in Calls : [call[c] EXCEPT !.token = call[c].token
          \/ (c \in lease /\ c[1] = thread)] \in CallRow
    BY <1>1 DEF CallRow
  <2>3. call' \in [Calls -> CallRow]
    BY <2>1, <2>2
  <2>4. loop' \in [pc : {"idle", "interrupt", "join"}, turn : 0 .. MaxTurns] /\ loop'.turn \in Turns
    BY <1>1, <2>1 DEF SidecarTyped
  <2>5. SidecarTyped'
    BY <1>1, <2>1, <2>3, <2>4 DEF SidecarTyped
  <2> QED
    BY <1>1, <2>1, <2>5, InnerStepTyped
<1>6. CASE AcknowledgeCancel
  <2>1. /\ UNCHANGED <<host, turns, late, lateGrant, toV, cmds, ident, gateway, owner, task,
             thread, queue, lease, asking, call>>
        /\ loop.pc = "join" /\ loop' = [pc |-> "idle", turn |-> 0]
        /\ toH' = Told(<<About("cancelled", loop.turn)>>)
    BY <1>6 DEF AcknowledgeCancel, rest
  <2>2. About("cancelled", loop.turn) \in ReportFrames
    BY <1>1, <2>1, FramesMade DEF SidecarTyped
  <2>3. SidecarTyped'
    BY <1>1, <2>1, SessionNumbers DEF SidecarTyped
  <2> QED
    BY <2>1, <2>2, <2>3, ToldOne, InnerStepTyped
<1>7. CASE CommandShutdown \/ CommandUnexpected \/ JoinTimeout \/ SidecarCrash
  <2>1. /\ UNCHANGED <<host, turns, late, lateGrant, toV, cmds, ident, gateway, owner, task,
             thread, queue, lease, asking, call, loop>>
        /\ toH' = toH \/ toH' = Told(<<About("fatal", 0)>>)
    BY <1>7 DEF CommandShutdown, CommandUnexpected, JoinTimeout, SidecarCrash, Dies, rest
  <2>2. toH' \in Seq(ReportFrames)
    BY <1>1, <2>1, FramesMade, ToldOne
  <2>3. SidecarTyped'
    BY <1>1, <2>1 DEF SidecarTyped
  <2> QED
    BY <2>1, <2>2, <2>3, InnerStepTyped
<1> QED
  BY <1>2, <1>3, <1>4, <1>5, <1>6, <1>7 DEF CommandLoop

\* Time.
LEMMA LapseTyped ==
  ASSUME SessionTyped, Lapse \/ \E c \in Calls : LapseLater(c)
  PROVE  SessionTyped'
<1>1. UNCHANGED <<host, sidecar, toV, toH, turns>>
  BY DEF Lapse, LapseLater
<1>2. late' \subseteq Calls /\ lateGrant' \subseteq Calls
  <2>1. late \subseteq Calls /\ lateGrant \subseteq Calls
    BY DEF SessionTyped, HostTyped
  <2>2. CASE Lapse
    <3>1. asking.call \in Calls
      BY <2>2 DEF Lapse, SessionTyped, SidecarTyped, AskedRow
    <3> QED
      BY <2>1, <2>2, <3>1 DEF Lapse
  <2> QED
    BY <2>1, <2>2 DEF LapseLater
<1> QED
  BY <1>1, <1>2 DEF SessionTyped, HostTyped, ThreadsTyped, PipesTyped, SidecarTyped, host, sidecar

\* Every step keeps the types.
LEMMA SessionTypedStep ==
  ASSUME SessionTyped, [SessionNext]_sessionVars
  PROVE  SessionTyped'
<1>1. CASE UNCHANGED sessionVars
  BY <1>1 DEF sessionVars, host, sidecar, rest, SessionTyped, HostTyped, ThreadsTyped, PipesTyped,
     SidecarTyped
<1>2. CASE HostReader \/ HostMain \/ Retire \/ Expiry \/ User
  BY <1>2, ReaderTyped, CommandsTyped, RetireTyped
<1>3. CASE Router \/ CommandLoop \/ JoinTimeout \/ SidecarCrash
  BY <1>3, RouterTyped, CommandLoopTyped
<1>4. CASE ConfirmationLoop \/ LoopTimeout
  BY <1>4, LoopTyped
<1>5. CASE Lapse \/ \E c \in Calls : LapseLater(c)
  BY <1>5, LapseTyped
<1>6. CASE \E t \in Turns : Task(t)
  BY <1>6, TasksTyped
<1>7. CASE \E c \in Calls : CallStart(c) \/ Tool(c) \/ CallTimeout(c)
  BY <1>7, ToolsTyped
<1> QED
  BY <1>1, <1>2, <1>3, <1>4, <1>5, <1>6, <1>7 DEF SessionNext, Slow

\* The types hold initially.
LEMMA InitSessionTyped ==
  ASSUME SessionInit
  PROVE  SessionTyped
<1> USE SessionNumbers
<1>1. HostTyped
  <2>1. 1 \in 1 .. MaxRev
    OBVIOUS
  <2> QED
    BY <2>1 DEF SessionInit, HostTyped
<1>2. ThreadsTyped
  BY DEF SessionInit, ThreadsTyped
<1>3. PipesTyped
  BY DEF SessionInit, PipesTyped
<1>4. SidecarTyped
  <2>1. [pc |-> "none", res |-> "none", cancelled |-> FALSE] \in TaskRow
    BY DEF TaskRow, TaskLabels
  <2>2. task \in [Turns -> TaskRow] /\ \A t \in Turns : task[t].pc = "none"
    BY <2>1 DEF SessionInit
  <2>3. [pc |-> "none", token |-> FALSE, cur |-> FALSE, ans |-> -1] \in CallRow
    BY DEF CallRow, CallLabels
  <2>4. call \in [Calls -> CallRow]
    BY <2>3 DEF SessionInit
  <2> QED
    BY <2>2, <2>4 DEF SessionInit, SidecarTyped
<1> QED
  BY <1>1, <1>2, <1>3, <1>4 DEF SessionTyped

-----------------------------------------------------------------------------
(* What the Host holds *)

\* Nothing of the session but the frames and the sidecar moves.
LEMMA EvidenceStays ==
  ASSUME EvidenceSound, UNCHANGED <<host, confirmed, ran>>, late \subseteq late'
  PROVE  EvidenceSound'
BY DEF EvidenceSound, RunsAreConfirmed, EvidenceIsCurrent, PendingIsWatched, CallsOf, Active,
       Retiring, host

\* The Host holds no more than before, still of the active turn, and still watches it.
LEMMA EvidenceFewer ==
  ASSUME EvidenceSound, UNCHANGED <<closed, confirmed, ran>>, late \subseteq late',
         hand' \subseteq late,
         pend' \subseteq pend, appr' \cup grants' \subseteq appr \cup grants,
         \A e \in pend' \cup appr' \cup grants' : Active(e.turn) => Active(e.turn)',
         closed \/ CallsOf(pend') \cap (ticket \cup hand) \subseteq ticket' \cup hand',
         grants' \subseteq grants \/ reader'.pc \in {"read", "retire"},
         reader' = reader \/ (/\ reader.pc # "schedule"
                             /\ reader'.pc \in {"read", "admit", "show", "retire"}),
         main' = main \/ main'.pc \in {"idle", "begun", "deciding", "cancelling", "retire"},
         closed /\ auth.st \in {"Idle", "Terminal"} => auth'.st \in {"Idle", "Terminal"}
  PROVE  EvidenceSound'
<1>1. \A e \in appr' \cup grants' : <<e.turn, e.call, e.rev>> \in confirmed'
  BY DEF EvidenceSound
<1>2. RunsAreConfirmed'
  BY DEF EvidenceSound, RunsAreConfirmed
<1>3. EvidenceIsCurrent'
  BY DEF EvidenceSound, EvidenceIsCurrent
<1>4. PendingIsWatched'
  <2>1. CallsOf(pend') \subseteq CallsOf(pend)
    BY DEF CallsOf
  <2>2. reader'.pc # "schedule" => reader.pc # "schedule"
    OBVIOUS
  <2> QED
    BY <2>1, <2>2 DEF EvidenceSound, PendingIsWatched
<1>5. ~closed' /\ reader'.pc = "schedule" => CallsOf(pend') \subseteq {reader'.call}
  <2>1. CallsOf(pend') \subseteq CallsOf(pend)
    BY DEF CallsOf
  <2> QED
    BY <2>1 DEF EvidenceSound
<1>6. \A pcs \in {{"clear", "terminal", "gone"}, {"terminal", "gone"}, {"gone"}} :
        Retiring(pcs)' => Retiring(pcs)
  BY DEF Retiring
<1>7. Retiring({"gone"}) => Retiring({"clear", "terminal", "gone"})
  BY DEF Retiring
<1>8. hand' \subseteq late' /\ (reader'.pc \in {"clear", "terminal", "gone"} => pend' = {})
  BY DEF EvidenceSound
<1>9. Retiring({"clear", "terminal", "gone"})' => closed'
  BY <1>6 DEF EvidenceSound
<1>10. main'.pc \in {"terminal", "gone"} => appr' = {} /\ grants' = {}
  <2> SUFFICES ASSUME main'.pc \in {"terminal", "gone"} PROVE appr' = {} /\ grants' = {}
    OBVIOUS
  <2>1. main.pc \in {"terminal", "gone"}
    OBVIOUS
  <2>2. appr = {} /\ grants = {}
    BY <2>1 DEF EvidenceSound, Retiring
  <2> QED
    BY <2>2
<1>11. Retiring({"terminal", "gone"})' => grants' = {}
  <2>1. CASE grants' \subseteq grants
    BY <1>6, <2>1 DEF EvidenceSound
  <2>2. CASE reader'.pc \in {"read", "retire"}
    BY <1>10, <2>2 DEF Retiring
  <2> QED
    BY <2>1, <2>2
<1>12. Retiring({"gone"})' => auth'.st \in {"Idle", "Terminal"}
  BY <1>6, <1>7 DEF EvidenceSound
<1> QED
  BY <1>1, <1>2, <1>3, <1>4, <1>5, <1>8, <1>9, <1>10, <1>11, <1>12 DEF EvidenceSound

\* What the end of a turn takes away leaves the rest watched, and of another turn.
LEMMA ClearedWatched ==
  ASSUME HostTyped, NEW t, ClearEvidence(t), UNCHANGED hand
  PROVE  /\ CallsOf(pend') \cap (ticket \cup hand) \subseteq ticket' \cup hand'
         /\ \A e \in pend' \cup appr' \cup grants' : e.turn # t
         /\ pend' \subseteq pend /\ appr' \cup grants' \subseteq appr \cup grants
         /\ grants' \subseteq grants
<1>1. \A p, q \in pend : p = q
  BY DEF HostTyped
<1>2. pend' = pend \ OfTurn(pend, t) /\ ticket' = ticket \ CallsOf(OfTurn(pend, t))
  BY DEF ClearEvidence
<1>3. \A p \in pend' : p.call \notin CallsOf(OfTurn(pend, t))
  BY <1>1, <1>2 DEF CallsOf, OfTurn
<1>4. \A c \in CallsOf(pend') : c \notin CallsOf(OfTurn(pend, t))
  BY <1>3 DEF CallsOf
<1> QED
  BY <1>2, <1>4 DEF ClearEvidence, OfTurn

\* The commands of the user, and the rest of them on the main thread.
LEMMA CommandsSound ==
  ASSUME SessionTyped, EvidenceSound, Toggle \/ BeginTurn \/ BeginCancellation \/ Stop \/ StartTurn
           \/ CancelTurn
  PROVE  EvidenceSound'
<1>1. HostTyped /\ hand \subseteq late
  BY DEF SessionTyped, EvidenceSound
<1>2. CASE Toggle \/ Stop
  <2>1. /\ UNCHANGED <<closed, confirmed, ran, late, hand, pend, appr, grants, ticket, reader,
             auth>>
        /\ main' = main \/ main' = [pc |-> "retire"]
    BY <1>2 DEF Toggle, Stop, rest
  <2> QED
    BY <1>1, <2>1, EvidenceFewer DEF Active
<1>3. CASE BeginTurn
  <2>1. /\ UNCHANGED <<closed, confirmed, ran, late, hand, pend, appr, grants, ticket, reader>>
        /\ main' = [pc |-> "begun", turn |-> turns + 1] /\ auth.st = "Idle" /\ ~closed
    BY <1>3 DEF BeginTurn
  <2>2. \A e \in pend' \cup appr' \cup grants' : ~Active(e.turn)
    BY <2>1 DEF Active
  <2> QED
    BY <1>1, <2>1, <2>2, EvidenceFewer
<1>4. CASE BeginCancellation
  <2>1. /\ UNCHANGED <<closed, confirmed, ran, late, hand, reader>>
        /\ main'.pc = "cancelling"
    BY <1>4 DEF BeginCancellation
  <2>2. CASE auth.st \in {"Active", "Cancelling"}
    <3>1. ClearEvidence(auth.turn)
      BY <1>4, <2>2 DEF BeginCancellation
    <3>2. \A e \in pend' \cup appr' \cup grants' : ~Active(e.turn)
      BY <1>1, <2>1, <3>1, ClearedWatched DEF Active
    <3>3. ~(auth.st \in {"Idle", "Terminal"})
      BY <2>2
    <3> QED
      BY <1>1, <2>1, <3>1, <3>2, <3>3, ClearedWatched, EvidenceFewer
  <2>3. CASE ~(auth.st \in {"Active", "Cancelling"})
    <3>1. UNCHANGED <<auth, pend, ticket, appr, grants>>
      BY <1>4, <2>3 DEF BeginCancellation
    <3> QED
      BY <1>1, <2>1, <3>1, EvidenceFewer DEF Active
  <2> QED
    BY <2>2, <2>3
<1>5. CASE StartTurn
  <2>1. /\ UNCHANGED <<closed, confirmed, ran, late, hand, reader>>
        /\ main'.pc = "idle"
    BY <1>5 DEF StartTurn, rest
  <2>2. CASE ~CanSend /\ auth.st \in {"Active", "Cancelling"} /\ auth.turn = main.turn
    <3>1. ClearEvidence(auth.turn) /\ auth'.st = "Idle"
      BY <1>1, <1>5, <2>2 DEF StartTurn, HostTyped
    <3>2. \A e \in pend' \cup appr' \cup grants' : ~Active(e.turn)
      BY <1>1, <2>1, <3>1, ClearedWatched DEF Active
    <3> QED
      BY <1>1, <2>1, <3>1, <3>2, ClearedWatched, EvidenceFewer
  <2>3. CASE ~(~CanSend /\ auth.st \in {"Active", "Cancelling"} /\ auth.turn = main.turn)
    <3>1. UNCHANGED <<auth, pend, ticket, appr, grants>>
      BY <1>5, <2>3 DEF StartTurn
    <3> QED
      BY <1>1, <2>1, <3>1, EvidenceFewer DEF Active
  <2> QED
    BY <2>2, <2>3
<1>6. CASE CancelTurn
  <2>1. /\ UNCHANGED <<closed, confirmed, ran, late, hand, reader, auth, appr, grants>>
        /\ main'.pc = "idle" /\ pend' = {}
    BY <1>6 DEF CancelTurn, rest
  <2>2. CallsOf(pend') = {}
    BY <2>1 DEF CallsOf
  <2> QED
    BY <1>1, <2>1, <2>2, EvidenceFewer DEF Active
<1> QED
  BY <1>2, <1>3, <1>4, <1>5, <1>6

\* The decision of the user: the confirmation is no longer pending.
LEMMA DecideSound ==
  ASSUME SessionTyped, EvidenceSound, NEW yes \in BOOLEAN, Decide(yes)
  PROVE  EvidenceSound'
<1>1. HostTyped /\ hand \subseteq late
  BY DEF SessionTyped, EvidenceSound
<1>2. PICK p \in pend :
        /\ pend' = pend \ {p}
        /\ main' = main \/ main' = [pc |-> "deciding", taken |-> p, yes |-> yes]
  BY DEF Decide
<1>3. UNCHANGED <<root, auth, appr, grants, hand, closed, reader, confirmed, ran, late>>
  BY DEF Decide, rest
<1>4. pend' = {} /\ CallsOf(pend') = {}
  BY <1>1, <1>2 DEF HostTyped, CallsOf
<1>5. main' = main \/ main'.pc = "deciding"
  BY <1>2
<1> QED
  BY <1>1, <1>3, <1>4, <1>5, EvidenceFewer DEF Active

\* An approval is a confirmation of the active turn.
LEMMA AnswerSound ==
  ASSUME SessionTyped, EvidenceSound, AnswerTaken
  PROVE  EvidenceSound'
<1> DEFINE p == main.taken
           ok == main.yes /\ p.call \notin late /\ Active(p.turn) /\ root.on
           a == [turn |-> p.turn, call |-> p.call, rev |-> root.rev]
<1>1. /\ UNCHANGED <<root, auth, pend, grants, ticket, hand, closed, reader, late, ran>>
      /\ main' = [pc |-> "idle"] /\ main.pc = "deciding"
      /\ appr' = (IF ok /\ CanSend THEN appr \cup {a} ELSE appr)
      /\ confirmed' = IF ok /\ CanSend THEN confirmed \cup {<<p.turn, p.call, root.rev>>}
                                       ELSE confirmed
  BY DEF AnswerTaken
<1>2. confirmed \subseteq confirmed'
  BY <1>1
<1>3. \A e \in appr' : \/ e \in appr
                       \/ Active(e.turn) /\ <<e.turn, e.call, e.rev>> \in confirmed'
  BY <1>1
<1> HIDE DEF ok, a, p
<1>4. RunsAreConfirmed' /\ \A e \in appr' \cup grants' : <<e.turn, e.call, e.rev>> \in confirmed'
  BY <1>1, <1>2, <1>3 DEF EvidenceSound, RunsAreConfirmed
<1>5. EvidenceIsCurrent' /\ PendingIsWatched'
  BY <1>1, <1>3 DEF EvidenceSound, EvidenceIsCurrent, PendingIsWatched, Active
<1>6. \A pcs \in {{"clear", "terminal", "gone"}, {"terminal", "gone"}, {"gone"}} :
        Retiring(pcs)' => Retiring(pcs)
  BY <1>1 DEF Retiring
<1>7. ~(main'.pc \in {"terminal", "gone"})
  BY <1>1
<1> QED
  BY <1>1, <1>4, <1>5, <1>6, <1>7 DEF EvidenceSound

\* Retiring takes everything, in three steps.
LEMMA RetireSound ==
  ASSUME SessionTyped, EvidenceSound, Retire
  PROVE  EvidenceSound'
<1>1. CASE RetireClose
  <2>1. /\ UNCHANGED <<auth, appr, grants, ticket, hand, late, confirmed, ran>>
        /\ closed' = TRUE /\ pend' = {}
    BY <1>1 DEF RetireClose, rest
  <2>2. PICK w \in At("retire") : Move(w, "clear")
    BY <1>1 DEF RetireClose
  <2>3. /\ \A pcs \in {{"terminal", "gone"}, {"gone"}} : Retiring(pcs)' => Retiring(pcs)
        /\ main'.pc \in {"terminal", "gone"} => main.pc \in {"terminal", "gone"}
    BY <2>2 DEF Retiring, Move, At
  <2> QED
    BY <2>1, <2>3 DEF EvidenceSound, RunsAreConfirmed, EvidenceIsCurrent, PendingIsWatched
<1>2. CASE RetireClear
  <2>1. /\ UNCHANGED <<auth, pend, hand, closed, late, confirmed, ran>>
        /\ appr' = {} /\ grants' = {}
    BY <1>2 DEF RetireClear, RetiredGrants, rest
  <2>2. PICK w \in At("clear") : Move(w, "terminal")
    BY <1>2 DEF RetireClear
  <2>3. closed
    BY <2>2 DEF EvidenceSound, Retiring, At
  <2>4. /\ Retiring({"gone"})' => Retiring({"gone"})
        /\ reader'.pc \in {"clear", "terminal", "gone"} => reader.pc \in {"clear", "terminal",
             "gone"}
    BY <2>2 DEF Retiring, Move, At
  <2> QED
    BY <2>1, <2>3, <2>4 DEF EvidenceSound, RunsAreConfirmed, EvidenceIsCurrent, PendingIsWatched
<1>3. CASE RetireEnd
  <2>1. /\ UNCHANGED <<pend, appr, grants, ticket, hand, closed, late, confirmed, ran>>
        /\ auth' = ForcedTerminal
    BY <1>3 DEF RetireEnd, rest
  <2>2. PICK w \in At("terminal") : Move(w, "gone")
    BY <1>3 DEF RetireEnd
  <2>3. Retiring({"terminal", "gone"}) /\ Retiring({"clear", "terminal", "gone"})
    BY <2>2 DEF Retiring, At
  <2>4. closed /\ grants = {}
    BY <2>3 DEF EvidenceSound
  <2>5. auth'.st \in {"Idle", "Terminal"}
    BY <2>1 DEF ForcedTerminal, SessionTyped, HostTyped
  <2>6. /\ main'.pc \in {"terminal", "gone"} => main.pc \in {"terminal", "gone"}
        /\ reader'.pc \in {"clear", "terminal", "gone"} => reader.pc \in {"clear", "terminal",
             "gone"}
    BY <2>2 DEF Move, At
  <2> QED
    BY <2>1, <2>4, <2>5, <2>6 DEF EvidenceSound, RunsAreConfirmed, EvidenceIsCurrent,
       PendingIsWatched
<1> QED
  BY <1>1, <1>2, <1>3 DEF Retire

\* The expiry thread.
LEMMA ExpirySound ==
  ASSUME SessionTyped, EvidenceSound, Expiry
  PROVE  EvidenceSound'
<1>1. HostTyped /\ hand \subseteq late
  BY DEF SessionTyped, EvidenceSound
<1>2. CASE TakeTicket
  <2>1. /\ UNCHANGED <<closed, confirmed, ran, late, pend, appr, grants, reader, main, auth>>
        /\ hand = {} /\ hand' = ticket /\ ticket' = {} /\ ticket \subseteq late
    BY <1>2 DEF TakeTicket, rest
  <2> QED
    BY <2>1, EvidenceFewer DEF Active
<1>3. CASE ExpireTicket
  <2>1. /\ UNCHANGED <<closed, confirmed, ran, late, appr, grants, ticket, reader, main, auth>>
        /\ hand' = {} /\ pend' = pend \ ExpiredByTicket
    BY <1>3 DEF ExpireTicket, rest
  <2>2. CASE closed
    BY <2>1, <2>2, EvidenceFewer DEF Active
  <2>3. CASE ~closed
    <3>1. \A p \in pend' : p \in pend /\ p.call \notin hand
      BY <2>1, <2>3 DEF ExpiredByTicket
    <3>2. CallsOf(pend') \cap hand = {}
      BY <3>1 DEF CallsOf
    <3> QED
      BY <2>1, <3>1, <3>2, EvidenceFewer DEF Active
  <2> QED
    BY <2>2, <2>3
<1> QED
  BY <1>2, <1>3 DEF Expiry

\* What is due is denied: the rest is still watched.
LEMMA DueWatched ==
  ASSUME HostTyped, NEW P, P = pend \ DueOf(pend)
  PROVE  /\ P \subseteq pend
         /\ CallsOf(P) \cap (ticket \cup hand) \subseteq (ticket \ CallsOf(DueOf(pend))) \cup hand
<1>1. \A p, q \in pend : p = q
  BY DEF HostTyped
<1>2. \A p \in P : p \in pend /\ p.call \notin CallsOf(DueOf(pend))
  BY <1>1 DEF CallsOf, DueOf
<1>3. \A c \in CallsOf(P) : c \notin CallsOf(DueOf(pend))
  BY <1>2 DEF CallsOf
<1> QED
  BY <1>2, <1>3

\* Where a handler's reply leaves the reader.
LEMMA ReplyMoves ==
  ASSUME NEW w, Reply(w)
  PROVE  reader'.pc \in {"read", "retire"}
BY DEF Reply

\* The questions of a call.
LEMMA QuestionsSound ==
  ASSUME SessionTyped, EvidenceSound, HandleAuthorityEvaluate \/ HandleConfirmationRequired
           \/ AdmitConfirmation \/ HandleIssueGrant
  PROVE  EvidenceSound'
<1>1. HostTyped /\ hand \subseteq late
  BY DEF SessionTyped, EvidenceSound
<1> DEFINE f == Head(toH)
<1>2. CASE HandleAuthorityEvaluate
  <2>1. /\ UNCHANGED <<closed, confirmed, ran, late, hand, pend, appr, grants, ticket, main>>
        /\ reader.pc = "read"
    BY <1>2 DEF HandleAuthorityEvaluate, Frame, rest
  <2>2. reader'.pc \in {"read", "retire"}
    BY <1>2, ReplyMoves DEF HandleAuthorityEvaluate
  <2>3. auth'.st = auth.st /\ auth'.turn = auth.turn
    BY <1>1, <1>2 DEF HandleAuthorityEvaluate, HostTyped
  <2> QED
    BY <1>1, <2>1, <2>2, <2>3, EvidenceFewer DEF Active
<1>3. CASE HandleConfirmationRequired
  <2>1. /\ UNCHANGED <<closed, confirmed, ran, late, hand, appr, grants, main, auth>>
        /\ reader.pc = "read"
    BY <1>3 DEF HandleConfirmationRequired, Frame, rest
  <2>2. /\ UNCHANGED <<pend, ticket>> \/ (pend' = pend \ DueOf(pend)
             /\ ticket' = ticket \ CallsOf(DueOf(pend)))
        /\ reader'.pc \in {"read", "admit", "retire"}
    <3>1. CASE closed
      BY <1>3, <3>1 DEF HandleConfirmationRequired
    <3>2. CASE ~closed /\ f.call \in late
      BY <1>3, <3>2, ReplyMoves DEF HandleConfirmationRequired
    <3>3. CASE ~closed /\ f.call \notin late
      <4>1. /\ pend' = pend \ DueOf(pend) /\ ticket' = ticket \ CallsOf(DueOf(pend))
            /\ reader' = [pc |-> "admit", turn |-> f.turn, call |-> f.call]
        BY <1>3, <3>3 DEF HandleConfirmationRequired
      <4> QED
        BY <4>1
    <3> QED
      BY <3>1, <3>2, <3>3
  <2> HIDE DEF f
  <2>3. /\ pend' \subseteq pend
        /\ CallsOf(pend') \cap (ticket \cup hand) \subseteq ticket' \cup hand'
    <3>1. CASE UNCHANGED <<pend, ticket>>
      BY <2>1, <3>1
    <3>2. CASE pend' = pend \ DueOf(pend) /\ ticket' = ticket \ CallsOf(DueOf(pend))
      BY <1>1, <2>1, <3>2, DueWatched
    <3> QED
      BY <2>2, <3>1, <3>2
  <2> QED
    BY <1>1, <2>1, <2>2, <2>3, EvidenceFewer DEF Active
<1>5. CASE AdmitConfirmation
  <2> DEFINE new == [turn |-> reader.turn, call |-> reader.call]
  <2>1. /\ UNCHANGED <<closed, confirmed, ran, late, hand, appr, grants, ticket, main, auth>>
        /\ reader.pc = "admit"
    BY <1>5 DEF AdmitConfirmation, rest
  <2>2. \/ UNCHANGED pend /\ reader'.pc \in {"read", "retire"}
        \/ /\ pend' = {new} /\ Active(reader.turn)
           /\ reader' = [pc |-> "schedule", call |-> reader.call]
    BY <1>5, ReplyMoves DEF AdmitConfirmation, FrameMatches
  <2>3. CASE UNCHANGED pend /\ reader'.pc \in {"read", "retire"}
    BY <1>1, <2>1, <2>3, EvidenceFewer DEF Active
  <2>4. CASE /\ pend' = {new} /\ Active(reader.turn)
             /\ reader' = [pc |-> "schedule", call |-> reader.call]
    <3>1. /\ CallsOf(pend') \subseteq {reader'.call} /\ reader'.pc = "schedule"
          /\ \A e \in pend' : Active(e.turn)
      BY <2>4 DEF CallsOf
    <3> HIDE DEF new
    <3>2. EvidenceIsCurrent' /\ PendingIsWatched' /\ RunsAreConfirmed'
      BY <2>1, <3>1 DEF EvidenceSound, EvidenceIsCurrent, PendingIsWatched, RunsAreConfirmed,
         Active
    <3>3. \A pcs \in {{"clear", "terminal", "gone"}, {"terminal", "gone"}, {"gone"}} :
            Retiring(pcs)' => Retiring(pcs)
      BY <2>1, <3>1 DEF Retiring
    <3>4. ~(reader'.pc \in {"clear", "terminal", "gone"})
      BY <3>1
    <3> QED
      BY <1>1, <2>1, <3>1, <3>2, <3>3, <3>4 DEF EvidenceSound
  <2> QED
    BY <2>2, <2>3, <2>4
<1>4. CASE HandleIssueGrant
  <2>1. /\ UNCHANGED <<closed, confirmed, ran, late, hand, main, auth>>
        /\ reader.pc = "read"
    BY <1>4 DEF HandleIssueGrant, Frame, rest
  <2>2. reader'.pc \in {"read", "retire"}
    BY <1>4, ReplyMoves DEF HandleIssueGrant
  <2>3. UNCHANGED <<pend, ticket>> \/ (pend' = pend \ DueOf(pend)
          /\ ticket' = ticket \ CallsOf(DueOf(pend)))
    BY <1>4 DEF HandleIssueGrant
  <2>4. /\ pend' \subseteq pend
        /\ CallsOf(pend') \cap (ticket \cup hand) \subseteq ticket' \cup hand'
    <3>1. CASE UNCHANGED <<pend, ticket>>
      BY <2>1, <3>1
    <3>2. CASE pend' = pend \ DueOf(pend) /\ ticket' = ticket \ CallsOf(DueOf(pend))
      BY <1>1, <2>1, <3>2, DueWatched
    <3> QED
      BY <2>3, <3>1, <3>2
  <2>5. appr' \cup grants' \subseteq appr \cup grants
    <3>1. \A a \in ApprovalsFor(f) : a \in appr /\ a = [turn |-> f.turn, call |-> f.call,
          rev |-> f.rev]
      BY <1>1 DEF ApprovalsFor, HostTyped, EvidenceRow
    <3>2. ApprovalsFor(f) # {} => [turn |-> f.turn, call |-> f.call, rev |-> f.rev] \in appr
      BY <3>1
    <3>3. appr' \subseteq appr
      BY <1>4 DEF HandleIssueGrant
    <3>4. \A g \in grants' : g \in grants \/ (ApprovalsFor(f) # {}
            /\ g = [turn |-> f.turn, call |-> f.call, rev |-> f.rev])
      BY <1>4 DEF HandleIssueGrant
    <3> HIDE DEF f
    <3> QED
      BY <3>2, <3>3, <3>4
  <2> QED
    BY <1>1, <2>1, <2>2, <2>4, <2>5, EvidenceFewer DEF Active
<1> QED
  BY <1>2, <1>3, <1>4, <1>5

\* A process is allowed to start on a grant.
LEMMA RevalidateSound ==
  ASSUME SessionTyped, EvidenceSound, HandleRevalidateGrant
  PROVE  EvidenceSound'
<1> DEFINE f == Head(toH)
           used == IF FrameMatches(f) /\ root.on THEN Usable(f) ELSE {}
<1>1. /\ UNCHANGED <<closed, confirmed, late, hand, pend, appr, ticket, main, auth>>
      /\ reader.pc = "read" /\ grants' = grants \ used
      /\ ran' = IF used = {} THEN ran
                ELSE ran \cup {[turn |-> f.turn, call |-> f.call, rev |-> root.rev]}
  BY DEF HandleRevalidateGrant, Frame
<1>2. reader'.pc \in {"read", "retire"}
  BY ReplyMoves DEF HandleRevalidateGrant
<1>3. used # {} => <<f.turn, f.call, root.rev>> \in confirmed
  <2>1. \A g \in used : g \in grants /\ g.turn = f.turn /\ g.call = f.call /\ g.rev = root.rev
    BY DEF Usable
  <2> QED
    BY <2>1 DEF EvidenceSound
<1> HIDE DEF used, f
<1>4. RunsAreConfirmed'
  <2>1. \A r \in ran : <<r.turn, r.call, r.rev>> \in confirmed
    BY DEF EvidenceSound, RunsAreConfirmed
  <2>2. CASE used = {}
    BY <1>1, <2>1, <2>2 DEF RunsAreConfirmed
  <2>3. CASE used # {}
    <3> DEFINE n == [turn |-> f.turn, call |-> f.call, rev |-> root.rev]
    <3>1. <<n.turn, n.call, n.rev>> \in confirmed
      BY <1>3, <2>3
    <3>2. ran' = ran \cup {n}
      BY <1>1, <2>3
    <3> HIDE DEF n
    <3> QED
      BY <1>1, <2>1, <3>1, <3>2 DEF RunsAreConfirmed
  <2> QED
    BY <2>2, <2>3
<1>5. /\ \A e \in appr' \cup grants' : <<e.turn, e.call, e.rev>> \in confirmed'
      /\ EvidenceIsCurrent' /\ PendingIsWatched'
  BY <1>1, <1>2 DEF EvidenceSound, EvidenceIsCurrent, PendingIsWatched, Active
<1>6. \A pcs \in {{"clear", "terminal", "gone"}, {"terminal", "gone"}, {"gone"}} :
      Retiring(pcs)' => Retiring(pcs)
  BY <1>1, <1>2 DEF Retiring
<1> QED
  BY <1>1, <1>2, <1>4, <1>5, <1>6 DEF EvidenceSound

\* The other frames, and what the reader does outside the lock.
LEMMA ReaderSound ==
  ASSUME SessionTyped, EvidenceSound, Schedule \/ HandleTurnState \/ ShowTurn \/ HandleFatal
           \/ EndOfPipe
  PROVE  EvidenceSound'
<1>1. HostTyped /\ hand \subseteq late
  BY DEF SessionTyped, EvidenceSound
<1>2. CASE Schedule
  <2>1. /\ UNCHANGED <<closed, confirmed, ran, late, hand, pend, appr, grants, main, auth>>
        /\ reader.pc = "schedule" /\ reader' = [pc |-> "read"]
        /\ ticket' = {reader.call} \/ Retiring({"terminal", "gone"})
    BY <1>2 DEF Schedule, ToSchedule, Retiring, At, rest
  <2>2. Retiring({"terminal", "gone"}) => Retiring({"clear", "terminal", "gone"})
    BY DEF Retiring
  <2>3. PendingIsWatched'
    BY <2>1, <2>2 DEF EvidenceSound, PendingIsWatched
  <2>4. RunsAreConfirmed' /\ EvidenceIsCurrent'
    BY <2>1 DEF EvidenceSound, RunsAreConfirmed, EvidenceIsCurrent, Active
  <2>5. \A pcs \in {{"clear", "terminal", "gone"}, {"terminal", "gone"}, {"gone"}} :
        Retiring(pcs)' => Retiring(pcs)
    BY <2>1 DEF Retiring
  <2> QED
    BY <2>1, <2>3, <2>4, <2>5 DEF EvidenceSound
<1>3. CASE HandleTurnState
  <2> DEFINE f == Head(toH)
  <2>1. /\ UNCHANGED <<closed, confirmed, ran, late, hand, main>>
        /\ reader.pc = "read"
    BY <1>3 DEF HandleTurnState, Frame, rest
  <2>2. CASE UNCHANGED <<auth, pend, ticket, appr, grants>>
             /\ (reader' = reader \/ reader'.pc = "show")
    BY <1>1, <2>1, <2>2, EvidenceFewer DEF Active
  <2>3. CASE ClearEvidence(f.turn) /\ auth.turn = f.turn
               /\ auth' = [st |-> "Idle", turn |-> 0, codex |-> 0]
             /\ reader'.pc = "show"
    <3>1. \A e \in pend' \cup appr' \cup grants' : ~Active(e.turn)
      BY <1>1, <2>1, <2>3, ClearedWatched DEF Active
    <3> QED
      BY <1>1, <2>1, <2>3, <3>1, ClearedWatched, EvidenceFewer
  <2>4. \/ UNCHANGED <<auth, pend, ticket, appr, grants>>
               /\ (reader' = reader \/ reader'.pc = "show")
        \/ /\ ClearEvidence(f.turn) /\ auth.turn = f.turn
                  /\ auth' = [st |-> "Idle", turn |-> 0, codex |-> 0]
           /\ reader'.pc = "show"
    BY <1>3 DEF HandleTurnState, Accepts, Active
  <2> QED
    BY <2>2, <2>3, <2>4
<1>4. CASE ShowTurn \/ HandleFatal \/ EndOfPipe
  <2>1. /\ UNCHANGED <<closed, confirmed, ran, late, hand, pend, appr, grants, ticket, main, auth>>
        /\ reader.pc # "schedule" /\ reader'.pc \in {"read", "retire"}
    BY <1>4 DEF ShowTurn, HandleFatal, EndOfPipe, Frame, rest
  <2> QED
    BY <1>1, <2>1, EvidenceFewer DEF Active
<1> QED
  BY <1>2, <1>3, <1>4

\* The sidecar and the deadlines.
LEMMA SidecarKeeps ==
  ASSUME Router \/ CommandLoop \/ ConfirmationLoop \/ Slow \/ SidecarCrash
           \/ (\E t \in Turns : Task(t)) \/ (\E c \in Calls : CallStart(c) \/ Tool(c))
  PROVE  UNCHANGED <<host, rest>>
BY DEF Router, RouteReply, RouteCommand, RouterEndOfPipe, CommandLoop, CommandCancelAction,
       CommandStartTurn, CommandCancelTurn, InterruptActiveTurn, AcknowledgeCancel,
       CommandShutdown, CommandUnexpected, ConfirmationLoop, LoopAnswer, LoopTake, Slow,
       JoinTimeout, LoopTimeout, CallTimeout, SidecarCrash, Task, TaskOpen, TaskReturn, TaskCheck,
       TaskReport, TaskEnd, CallStart, Tool, CallEvaluate, CallAwait, CallGiveUp, CallIssue,
       CallLaunch, CallExit

\* Every step keeps what the Host holds sound.
LEMMA EvidenceSoundStep ==
  ASSUME SessionTyped, EvidenceSound, [SessionNext]_sessionVars
  PROVE  EvidenceSound'
<1>1. CASE UNCHANGED sessionVars
  BY <1>1, EvidenceStays DEF sessionVars, rest
<1>2. CASE HostReader
  BY <1>2, QuestionsSound, RevalidateSound, ReaderSound DEF HostReader
<1>3. CASE HostMain \/ User
  BY <1>3, CommandsSound, DecideSound, AnswerSound DEF HostMain, User, Confirm, Deny
<1>4. CASE Retire \/ Expiry
  BY <1>4, RetireSound, ExpirySound
<1>5. CASE Lapse \/ \E c \in Calls : LapseLater(c)
  BY <1>5, EvidenceStays DEF Lapse, LapseLater
<1>6. CASE Router \/ CommandLoop \/ ConfirmationLoop \/ Slow \/ SidecarCrash
             \/ (\E t \in Turns : Task(t)) \/ (\E c \in Calls : CallStart(c) \/ Tool(c))
  BY <1>6, SidecarKeeps, EvidenceStays DEF rest
<1> QED
  BY <1>1, <1>2, <1>3, <1>4, <1>5, <1>6 DEF SessionNext

\* What the Host holds is sound initially.
LEMMA InitEvidenceSound ==
  ASSUME SessionInit
  PROVE  EvidenceSound
BY DEF SessionInit, EvidenceSound, RunsAreConfirmed, EvidenceIsCurrent, PendingIsWatched, CallsOf,
       Retiring

\* The expiry thread ends only what is late.
LEMMA ExpiryExactStep ==
  ASSUME EvidenceSound, [SessionNext]_sessionVars, hand # {}, hand' = {}
  PROVE  CallsOf(pend \ pend') \subseteq late
<1>1. ASSUME UNCHANGED hand PROVE FALSE
  BY <1>1
<1>2. CASE UNCHANGED sessionVars
  BY <1>1, <1>2 DEF sessionVars, host
<1>3. CASE HostReader
  BY <1>1, <1>3 DEF HostReader, HandleAuthorityEvaluate, HandleConfirmationRequired,
     AdmitConfirmation, Schedule, HandleIssueGrant, HandleRevalidateGrant, HandleTurnState,
     ShowTurn, HandleFatal, EndOfPipe
<1>4. CASE HostMain \/ User
  BY <1>1, <1>4 DEF HostMain, User, StartTurn, AnswerTaken, CancelTurn, Toggle, BeginTurn,
     Confirm, Deny, Decide, BeginCancellation, Stop
<1>5. CASE Retire
  BY <1>1, <1>5 DEF Retire, RetireClose, RetireClear, RetireEnd
<1>6. CASE TakeTicket
  BY <1>6 DEF TakeTicket
<1>7. CASE ExpireTicket
  <2>1. \A p \in pend \ pend' : p.call \in hand
    BY <1>7 DEF ExpireTicket, ExpiredByTicket
  <2> QED
    BY <2>1 DEF CallsOf, EvidenceSound
<1>8. CASE Lapse \/ \E c \in Calls : LapseLater(c)
  BY <1>1, <1>8 DEF Lapse, LapseLater, host
<1>9. CASE Router \/ CommandLoop \/ ConfirmationLoop \/ Slow \/ SidecarCrash
             \/ (\E t \in Turns : Task(t)) \/ (\E c \in Calls : CallStart(c) \/ Tool(c))
  BY <1>1, <1>9, SidecarKeeps DEF host
<1> QED
  BY <1>2, <1>3, <1>4, <1>5, <1>6, <1>7, <1>8, <1>9 DEF SessionNext, Expiry

-----------------------------------------------------------------------------
(* The way of a turn *)

\* A pipe of commands without the start of any turn.
LEMMA NoStarts ==
  ASSUME NEW s \in Seq(CommandFrames), \A t \in Turns : ~In(About("start", t), s)
  PROVE  Startless(s)
<1> SUFFICES ASSUME NEW i \in 1 .. Len(s), s[i].k = "start" PROVE FALSE
  BY DEF Startless
<1>1. s[i] \in CommandFrames
  OBVIOUS
<1>2. s[i].turn \in Turns /\ s[i] = About("start", s[i].turn)
  BY <1>1, CommandIs
<1> QED
  BY <1>2 DEF In

\* A startless pipe has the start of no turn.
LEMMA NoneStarts ==
  ASSUME NEW s, Startless(s), NEW t
  PROVE  ~In(About("start", t), s)
BY KindsMade DEF Startless, In

\* The reports about turns under way in pipe s are those in pipe u.
SameReports(s, u) ==
  \A k \in {"live", "ended", "cancelled"} : \A t : In(About(k, t), u) <=> In(About(k, t), s)

\* Reports that are told.
LEMMA ToldReports ==
  ASSUME SessionTyped, NEW w \in Seq(ReportFrames)
  PROVE  \A f : In(f, Told(w)) <=> In(f, toH) \/ (~dead /\ In(f, w))
<1>1. toH \in Seq(ReportFrames)
  BY DEF SessionTyped, PipesTyped
<1>2. \A f : In(f, toH \o w) <=> In(f, toH) \/ In(f, w)
  BY <1>1, PutFrames
<1> QED
  BY <1>2 DEF Told

\* One report, and two.
LEMMA ToldOneReport ==
  ASSUME SessionTyped, NEW g \in ReportFrames
  PROVE  \A f : In(f, Told(<<g>>)) <=> In(f, toH) \/ (~dead /\ f = g)
<1>1. <<g>> \in Seq(ReportFrames) /\ \A f : In(f, <<g>>) <=> f = g
  BY ShortPipes
<1> DEFINE w == <<g>>
<1> HIDE DEF w
<1>2. \A f : In(f, Told(w)) <=> In(f, toH) \/ (~dead /\ In(f, w))
  BY <1>1, ToldReports DEF w
<1> QED
  BY <1>1, <1>2 DEF w

\* What two reports add to the pipe.
LEMMA ToldTwoReports ==
  ASSUME SessionTyped, NEW g \in ReportFrames, NEW h \in ReportFrames
  PROVE  \A f : In(f, Told(<<g, h>>)) <=> In(f, toH) \/ (~dead /\ (f = g \/ f = h))
<1>1. <<g, h>> \in Seq(ReportFrames) /\ \A f : In(f, <<g, h>>) <=> f = g \/ f = h
  BY ShortPipes
<1> DEFINE w == <<g, h>>
<1> HIDE DEF w
<1>2. \A f : In(f, Told(w)) <=> In(f, toH) \/ (~dead /\ In(f, w))
  BY <1>1, ToldReports DEF w
<1> QED
  BY <1>1, <1>2 DEF w

\* A question reports nothing about a turn.
LEMMA QuestionTold ==
  ASSUME SessionTyped, NEW g \in ReportFrames, g.k \notin {"live", "ended", "cancelled"}
  PROVE  SameReports(toH, Told(<<g>>))
<1>1. \A f : In(f, Told(<<g>>)) <=> In(f, toH) \/ (~dead /\ f = g)
  BY ToldOneReport
<1>2. \A k \in {"live", "ended", "cancelled"} : \A t : About(k, t) # g
  BY KindsMade
<1> QED
  BY <1>1, <1>2 DEF SameReports

\* Turn t is where it was, or has gone on.
TurnStays(t) ==
  /\ Starting(t)' => Starting(t)
  /\ Unreported(t)' => Unreported(t)
  /\ task'[t].pc = "none" <=> task[t].pc = "none"
  /\ task'[t].cancelled = task[t].cancelled \/ task[t].pc # "none"
  /\ Ending(t)' => Ending(t) \/ (~Starting(t)' /\ ~Unreported(t)')
  /\ Reporting(t)' => Reporting(t) \/ ~Untold(t)

\* The Host begins and ends no turn, and no turn starts.
LEMMA TurnsStay ==
  ASSUME TurnsOrdered, turns' = turns, auth'.turn = auth.turn,
         auth'.st = "Idle" <=> auth.st = "Idle",
         main' = main \/ (main.pc # "begun" /\ main'.pc # "begun"), ~writer' => closed',
         OnceStart(toV'), OnceStart(cmds'), Startless(toV') \/ Startless(cmds'),
         \A t \in Turns : TurnStays(t),
         gateway' = ident', ident' # 0 => Unreported(ident)'
  PROVE  TurnsOrdered'
<1>1. \A t : Untold(t)' <=> Untold(t)
  BY DEF Untold
<1>2. ASSUME NEW t \in Turns PROVE TurnSound(t)'
  <2>1. TurnSound(t) /\ TurnStays(t)
    BY DEF TurnsOrdered
  <2>2. Untold(t)' => task'[t].pc = "none" /\ ~Starting(t)' /\ ~Reporting(t)'
    BY <1>1, <2>1 DEF TurnSound, TurnStays
  <2>3. Starting(t)' => task'[t].pc = "none"
    BY <2>1 DEF TurnSound, TurnStays
  <2>4. Starting(t)' \/ Unreported(t)' => auth'.turn = t /\ auth'.st # "Idle" /\ ~Ending(t)'
    BY <2>1 DEF TurnSound, TurnStays
  <2>5. task'[t].pc = "none" => ~task'[t].cancelled
    BY <2>1 DEF TurnSound, TurnStays
  <2> QED
    BY <2>2, <2>3, <2>4, <2>5 DEF TurnSound
<1> QED
  BY <1>2 DEF TurnsOrdered

\* A step that keeps the pipes to the sidecar and the tasks.
LEMMA QuietTurns ==
  ASSUME SessionTyped, TurnsOrdered, turns' = turns, auth'.turn = auth.turn,
         auth'.st = "Idle" <=> auth.st = "Idle",
         main' = main \/ (main.pc # "begun" /\ main'.pc # "begun"), ~writer' => closed',
         SameStarts(toV, toV'), UNCHANGED <<cmds, task, ident, gateway>>,
         \A t \in Turns : (Ending(t)' => Ending(t)) /\ (Reporting(t)' => Reporting(t) \/ t = ident)
  PROVE  TurnsOrdered'
<1>1. \A t : Starting(t)' <=> Starting(t)
  BY DEF Starting, SameStarts
<1>2. OnceStart(toV') /\ OnceStart(cmds') /\ (Startless(toV') \/ Startless(cmds'))
  BY DEF TurnsOrdered, SameStarts
<1>3. \A t : Unreported(t)' <=> Unreported(t)
  BY DEF Unreported
<1>4. ASSUME NEW t \in Turns, t = ident PROVE ~Untold(t)
  <2>1. Unreported(t) /\ TurnSound(t)
    BY <1>4, SessionNumbers DEF TurnsOrdered
  <2> QED
    BY <2>1 DEF TurnSound, Unreported
<1>5. \A t \in Turns : TurnStays(t)
  BY <1>1, <1>3, <1>4 DEF TurnStays
<1>6. gateway' = ident' /\ (ident' # 0 => Unreported(ident)')
  <2>1. gateway = ident /\ (ident # 0 => Unreported(ident))
    BY DEF TurnsOrdered
  <2> QED
    BY <2>1 DEF Unreported
<1> QED
  BY <1>2, <1>5, <1>6, TurnsStay

\* The same reports are under way, or all but the first.
LEMMA FewerReports ==
  ASSUME SessionTyped, SameReports(toH, toH') \/ (toH # <<>> /\ toH' = Tail(toH)), NEW t
  PROVE  (Ending(t)' => Ending(t)) /\ (Reporting(t)' => Reporting(t))
<1>1. CASE SameReports(toH, toH')
  BY <1>1 DEF SameReports, Ending, Reporting
<1>2. CASE toH # <<>> /\ toH' = Tail(toH)
  <2>1. \A f : In(f, Tail(toH)) => In(f, toH)
    BY <1>2, TakeFrame DEF SessionTyped, PipesTyped
  <2> QED
    BY <1>2, <2>1 DEF Ending, Reporting
<1> QED
  BY <1>1, <1>2

\* Nothing about a turn is told.
LEMMA ReportsStay ==
  ASSUME toH' = toH
  PROVE  SameReports(toH, toH')
BY DEF SameReports

\* A step of the Host within a turn.
LEMMA HostKeepsTurns ==
  ASSUME SessionTyped, TurnsOrdered, turns' = turns, auth'.turn = auth.turn,
         auth'.st = "Idle" <=> auth.st = "Idle",
         main' = main \/ (main.pc # "begun" /\ main'.pc # "begun"), ~writer' => closed',
         SameStarts(toV, toV'), UNCHANGED <<cmds, task, ident, gateway>>,
         toH' = toH \/ (toH # <<>> /\ toH' = Tail(toH))
  PROVE  TurnsOrdered'
<1>1. \A t : (Ending(t)' => Ending(t)) /\ (Reporting(t)' => Reporting(t))
  BY FewerReports, ReportsStay
<1> QED
  BY <1>1, QuietTurns

\* A decision comes from the idle main thread and goes back to it, past nothing else.
LEMMA DecisionLeaves ==
  ASSUME Confirm \/ Deny \/ AnswerTaken
  PROVE  main.pc # "begun" /\ main'.pc # "begun" /\ UNCHANGED <<auth, writer, closed, reader>>
<1>1. CASE AnswerTaken
  BY <1>1 DEF AnswerTaken
<1>2. CASE Confirm \/ Deny
  <2>1. PICK yes \in BOOLEAN : Decide(yes)
    BY <1>2 DEF Confirm, Deny
  <2>2. /\ main.pc = "idle" /\ UNCHANGED <<auth, writer, closed, reader>>
        /\ \E p \in pend : main' = main \/ main' = [pc |-> "deciding", taken |-> p, yes |-> yes]
    BY <2>1 DEF Decide
  <2>3. main' = main \/ main'.pc = "deciding"
    BY <2>2
  <2> QED
    BY <2>2, <2>3
<1> QED
  BY <1>1, <1>2

\* The user's commands, the retiring and the expiry within a turn.
LEMMA CommandsKeepTurns ==
  ASSUME SessionTyped, EvidenceSound, TurnsOrdered,
         Toggle \/ Confirm \/ Deny \/ AnswerTaken \/ BeginCancellation \/ Stop \/ CancelTurn
           \/ Retire \/ Expiry
  PROVE  TurnsOrdered'
<1>1. SameStarts(toV, toV')
  <2>1. CASE Retire \/ Expiry
    BY <2>1, RetireTyped
  <2>2. CASE Toggle \/ Confirm \/ Deny \/ AnswerTaken \/ BeginCancellation \/ Stop
               \/ CancelTurn
    <3>1. User \/ HostMain
      BY <2>2 DEF User, HostMain
    <3>2. ~StartTurn
      BY <2>2 DEF StartTurn, Toggle, Confirm, Deny, Decide, AnswerTaken, BeginCancellation, Stop,
         CancelTurn
    <3> QED
      BY <3>1, <3>2, CommandsTyped
  <2> QED
    BY <2>1, <2>2
<1>2. UNCHANGED <<turns, toH, cmds, task, ident, gateway>>
  BY DEF Toggle, Confirm, Deny, Decide, AnswerTaken, BeginCancellation, Stop, CancelTurn, Retire,
         RetireClose, RetireClear, RetireEnd, Expiry, TakeTicket, ExpireTicket, sidecar, rest
<1>3. main' = main \/ (main.pc # "begun" /\ main'.pc # "begun")
  BY DecisionLeaves DEF Toggle, BeginCancellation, Stop, CancelTurn, Retire, RetireClose,
     RetireClear, RetireEnd, Expiry, TakeTicket, ExpireTicket, Move, At
<1>4. auth'.turn = auth.turn /\ (auth'.st = "Idle" <=> auth.st = "Idle")
  <2>1. auth \in AuthRow
    BY DEF SessionTyped, HostTyped, AuthRow
  <2>2. \/ auth' = auth
        \/ auth.st # "Idle" /\ \E s \in {"Cancelling", "Terminal"} : auth' = [auth EXCEPT !.st = s]
    BY DEF Toggle, Confirm, Deny, Decide, AnswerTaken, BeginCancellation, Stop, CancelTurn, Retire,
           RetireClose, RetireClear, RetireEnd, ForcedTerminal, Expiry, TakeTicket, ExpireTicket
  <2> QED
    BY <2>1, <2>2 DEF AuthRow
<1>5. ~writer' => closed'
  <2>1. CASE RetireEnd
    <3>1. Retiring({"clear", "terminal", "gone"})
      BY <2>1 DEF RetireEnd, At, Retiring
    <3> QED
      BY <2>1, <3>1 DEF RetireEnd, EvidenceSound
  <2>2. CASE ~RetireEnd
    <3>1. writer' = writer /\ (closed => closed')
      BY <2>2, DecisionLeaves DEF Toggle, BeginCancellation, Stop, CancelTurn, Retire,
         RetireClose, RetireClear, Expiry, TakeTicket, ExpireTicket
    <3> QED
      BY <3>1 DEF TurnsOrdered
  <2> QED
    BY <2>1, <2>2
<1> QED
  BY <1>1, <1>2, <1>3, <1>4, <1>5, HostKeepsTurns

\* One frame that is sent.
LEMMA PutOne ==
  ASSUME NEW S, NEW s \in Seq(S), NEW f \in S
  PROVE  /\ s \o <<f>> \in Seq(S)
         /\ \A g : In(g, s \o <<f>>) <=> In(g, s) \/ g = f
         /\ Startless(s) => OnceStart(s \o <<f>>)
<1> DEFINE w == <<f>>
<1>1. w \in Seq(S) /\ (\A g : In(g, w) <=> g = f) /\ OnceStart(w)
  BY ShortPipes
<1> HIDE DEF w
<1>2. /\ s \o w \in Seq(S)
      /\ \A g : In(g, s \o w) <=> In(g, s) \/ In(g, w)
      /\ Startless(s) => OnceStart(s \o w)
  BY <1>1, PutFrames
<1> QED
  BY <1>1, <1>2 DEF w

\* A turn begins: none is under way.
LEMMA BeginTurnOrdered ==
  ASSUME SessionTyped, TurnsOrdered, BeginTurn
  PROVE  TurnsOrdered'
<1>1. /\ main.pc = "idle" /\ auth.st = "Idle" /\ turns' = turns + 1
      /\ auth' = [st |-> "Active", turn |-> turns + 1, codex |-> 0]
      /\ main' = [pc |-> "begun", turn |-> turns + 1]
      /\ UNCHANGED <<writer, closed, toV, toH, sidecar>> /\ turns \in Nat
  BY DEF BeginTurn, SessionTyped, HostTyped
<1>2. UNCHANGED <<cmds, ident, gateway, task>>
  BY <1>1 DEF sidecar
<1>3. \A t \in Turns : Untold(t)' <=> Untold(t)
  BY <1>1 DEF Untold, Turns
<1>4. \A t : (Starting(t)' <=> Starting(t)) /\ (Reporting(t)' <=> Reporting(t))
        /\ (Unreported(t)' <=> Unreported(t))
  BY <1>1, <1>2 DEF Starting, Reporting, Ending, Unreported
<1>5. ASSUME NEW t \in Turns PROVE TurnSound(t)'
  <2>1. TurnSound(t)
    BY DEF TurnsOrdered
  <2> QED
    BY <1>1, <1>2, <1>3, <1>4, <2>1 DEF TurnSound
<1>6. auth'.st # "Idle" => auth'.turn = turns' /\ turns' # 0
  BY <1>1
<1>7. main'.pc = "begun" => main'.turn = turns' /\ auth'.st # "Idle"
  BY <1>1
<1>8. ident' # 0 => Unreported(ident)'
  BY <1>2 DEF TurnsOrdered, Unreported
<1> QED
  BY <1>1, <1>2, <1>5, <1>6, <1>7, <1>8 DEF TurnsOrdered

\* The start of the turn is sent: it is the only one under way.
LEMMA StartTurnOrdered ==
  ASSUME SessionTyped, TurnsOrdered, StartTurn
  PROVE  TurnsOrdered'
<1> DEFINE u == main.turn
           f == About("start", u)
<1>1. /\ main.pc = "begun" /\ main' = [pc |-> "idle"] /\ u = turns /\ auth.st # "Idle"
             /\ auth.turn = turns
      /\ toV' = Sent(<<f>>) /\ UNCHANGED <<writer, closed, toH, sidecar, turns>>
  BY DEF StartTurn, rest, TurnsOrdered
<1>2. UNCHANGED <<cmds, ident, gateway, task>>
  BY <1>1 DEF sidecar
<1>3. u \in Turns /\ turns \in Nat /\ toV \in Seq(CommandFrames) /\ cmds \in Seq(CommandFrames)
  BY <1>1 DEF SessionTyped, ThreadsTyped, PipesTyped, HostTyped
<1>4. f \in CommandFrames
  BY <1>3, FramesMade
<1>5. \A t \in Turns : TurnSound(t)
  BY DEF TurnsOrdered
<1>6. Untold(u)
  BY <1>1 DEF Untold
<1>7. \A t \in Turns : ~Starting(t) /\ ~Unreported(t)
  BY <1>1, <1>5, <1>6 DEF TurnSound, Unreported
<1>8. Startless(toV) /\ Startless(cmds)
  BY <1>3, <1>7, NoStarts DEF Starting
<1>9. /\ OnceStart(toV') /\ (~CanSend => toV' = toV)
      /\ \A t \in Turns : In(About("start", t), toV') => t = u
  <2>1. toV \o <<f>> \in Seq(CommandFrames) /\ OnceStart(toV \o <<f>>)
    BY <1>3, <1>4, <1>8, PutOne
  <2>2. \A g : In(g, toV \o <<f>>) <=> In(g, toV) \/ g = f
    BY <1>3, <1>4, PutOne
  <2>3. \A t : About("start", t) = f => t = u
    BY KindsMade
  <2>4. \A t \in Turns : ~In(About("start", t), toV)
    BY <1>7 DEF Starting
  <2>5. OnceStart(toV)
    BY DEF TurnsOrdered
  <2> HIDE DEF f
  <2>6. toV' = toV \/ toV' = toV \o <<f>>
    BY <1>1 DEF Sent
  <2>7. ~CanSend => toV' = toV
    BY <1>1 DEF Sent
  <2> QED
    BY <2>1, <2>2, <2>3, <2>4, <2>5, <2>6, <2>7
<1> HIDE DEF f
<1>10. \A t \in Turns : Starting(t)' => t = u /\ CanSend
  BY <1>2, <1>7, <1>9 DEF Starting
<1>11. CanSend => auth' = auth
  BY DEF StartTurn
<1>12. \A t \in Turns : Untold(t)' => Untold(t) /\ t # u
  BY <1>1, <1>3 DEF Untold, Turns
<1>13. \A t : (Reporting(t)' <=> Reporting(t)) /\ (Ending(t)' <=> Ending(t))
         /\ (Unreported(t)' <=> Unreported(t))
  BY <1>1, <1>2 DEF Reporting, Ending, Unreported
<1>14. ASSUME NEW t \in Turns PROVE TurnSound(t)'
  <2>1. TurnSound(t) /\ (t = u => Untold(t))
    BY <1>5, <1>6
  <2>2. Untold(t)' => task'[t].pc = "none" /\ ~Starting(t)' /\ ~Reporting(t)'
    BY <1>2, <1>10, <1>12, <1>13, <2>1 DEF TurnSound
  <2>3. Starting(t)' => task'[t].pc = "none"
    BY <1>2, <1>10, <2>1 DEF TurnSound
  <2>4. Starting(t)' \/ Unreported(t)' => auth'.turn = t /\ auth'.st # "Idle" /\ ~Ending(t)'
    BY <1>1, <1>7, <1>10, <1>11, <1>13, <2>1 DEF TurnSound, Reporting
  <2>5. task'[t].pc = "none" => ~task'[t].cancelled
    BY <1>2, <2>1 DEF TurnSound
  <2> QED
    BY <2>2, <2>3, <2>4, <2>5 DEF TurnSound
<1>15. auth'.st # "Idle" => auth'.turn = turns' /\ turns' # 0
  <2>1. auth' = auth \/ auth'.st = "Idle"
    BY DEF StartTurn, SessionTyped, HostTyped
  <2> QED
    BY <1>1, <2>1 DEF TurnsOrdered
<1>16. OnceStart(cmds') /\ Startless(cmds') /\ gateway' = ident' /\ (~writer' => closed')
  BY <1>1, <1>2, <1>8 DEF TurnsOrdered
<1>17. ident' # 0 => Unreported(ident)'
  BY <1>2 DEF TurnsOrdered, Unreported
<1> QED
  BY <1>1, <1>9, <1>14, <1>15, <1>16, <1>17 DEF TurnsOrdered

\* The reader: only the end of a turn ends it, and then the sidecar is through with it.
LEMMA ReaderKeepsTurns ==
  ASSUME SessionTyped, TurnsOrdered, HostReader
  PROVE  TurnsOrdered'
<1>1. SameStarts(toV, toV')
  BY ReaderTyped
<1>2. UNCHANGED <<turns, cmds, task, ident, gateway, writer, closed, main>>
  BY DEF HostReader, HandleAuthorityEvaluate, HandleConfirmationRequired, AdmitConfirmation,
         Schedule, HandleIssueGrant, HandleRevalidateGrant, HandleTurnState, ShowTurn,
         HandleFatal, EndOfPipe, sidecar, rest
<1>3. toH' = toH \/ (toH # <<>> /\ toH' = Tail(toH))
  BY DEF HostReader, HandleAuthorityEvaluate, HandleConfirmationRequired, AdmitConfirmation,
         Schedule, HandleIssueGrant, HandleRevalidateGrant, HandleTurnState, ShowTurn,
         HandleFatal, EndOfPipe, Frame
<1>4. ~writer' => closed'
  BY <1>2 DEF TurnsOrdered
<1>5. CASE auth'.turn = auth.turn /\ auth'.st = auth.st
  BY <1>1, <1>2, <1>3, <1>4, <1>5, HostKeepsTurns
<1>6. CASE ~(auth'.turn = auth.turn /\ auth'.st = auth.st)
  <2> DEFINE f == Head(toH)
  <2>1. HandleTurnState
    <3>1. HandleAuthorityEvaluate => auth'.turn = auth.turn /\ auth'.st = auth.st
      BY DEF HandleAuthorityEvaluate, SessionTyped, HostTyped
    <3>2. HandleConfirmationRequired \/ AdmitConfirmation \/ Schedule \/ HandleIssueGrant
            \/ HandleRevalidateGrant \/ ShowTurn \/ HandleFatal \/ EndOfPipe => auth' = auth
      BY DEF HandleConfirmationRequired, AdmitConfirmation, Schedule, HandleIssueGrant,
             HandleRevalidateGrant, ShowTurn, HandleFatal, EndOfPipe
    <3> QED
      BY <1>6, <3>1, <3>2 DEF HostReader
  <2>2. /\ Frame("ended") \/ Frame("cancelled")
        /\ auth.st # "Idle" /\ auth.turn = f.turn
        /\ auth' = [st |-> "Idle", turn |-> 0, codex |-> 0]
    BY <1>6, <2>1 DEF HandleTurnState, Accepts, Active, Frame
  <2>3. In(f, toH) /\ f.turn \in Turns /\ f = About(f.k, f.turn) /\ f.k \in {"ended", "cancelled"}
    <3>1. toH # <<>> /\ f \in ReportFrames /\ f.k \in {"ended", "cancelled"}
      BY <2>2, FrameTaken
    <3>2. In(f, toH)
      BY <3>1, TakeFrame DEF SessionTyped, PipesTyped
    <3> QED
      BY <3>1, <3>2, ReportIs
  <2>4. Ending(f.turn)
    BY <2>3 DEF Ending
  <2>5. \A t \in Turns : TurnSound(t)
    BY DEF TurnsOrdered
  <2> HIDE DEF f
  <2>6. \A t \in Turns : ~Starting(t) /\ ~Unreported(t)
    BY <2>2, <2>4, <2>5 DEF TurnSound
  <2>7. main.pc # "begun"
    <3>1. main.pc = "begun" => Untold(f.turn)
      BY <2>2 DEF TurnsOrdered, Untold
    <3> QED
      BY <2>3, <2>4, <2>5, <3>1 DEF TurnSound, Reporting
  <2>8. \A t : (Ending(t)' => Ending(t)) /\ (Reporting(t)' => Reporting(t))
    BY <1>3, FewerReports, ReportsStay
  <2>9. \A t : (Starting(t)' <=> Starting(t)) /\ (Unreported(t)' <=> Unreported(t))
          /\ (Untold(t)' <=> Untold(t))
    BY <1>1, <1>2 DEF Starting, SameStarts, Unreported, Untold
  <2>10. ASSUME NEW t \in Turns PROVE TurnSound(t)'
    <3>1. TurnSound(t)
      BY <2>5
    <3> QED
      BY <1>2, <2>6, <2>8, <2>9, <3>1 DEF TurnSound
  <2>11. OnceStart(toV') /\ OnceStart(cmds') /\ (Startless(toV') \/ Startless(cmds'))
    BY <1>1, <1>2 DEF TurnsOrdered, SameStarts
  <2>12. gateway' = ident' /\ (ident' # 0 => Unreported(ident)')
    BY <1>2 DEF TurnsOrdered, Unreported
  <2> QED
    BY <1>2, <1>4, <2>2, <2>7, <2>10, <2>11, <2>12 DEF TurnsOrdered
<1> QED
  BY <1>5, <1>6

\* A step of the sidecar that starts no turn.
LEMMA SidecarTurnsStay ==
  ASSUME SessionTyped, TurnsOrdered, UNCHANGED <<host, turns>>,
         OnceStart(toV'), OnceStart(cmds'), Startless(toV') \/ Startless(cmds'),
         \A t \in Turns : TurnStays(t),
         gateway' = ident', ident' # 0 => Unreported(ident)'
  PROVE  TurnsOrdered'
<1>1. UNCHANGED <<auth, main, writer, closed>>
  BY DEF host
<1>2. ~writer' => closed'
  BY <1>1 DEF TurnsOrdered
<1> QED
  BY <1>1, <1>2, TurnsStay

\* A step of the sidecar that leaves pipes and tasks alone.
LEMMA SidecarQuiet ==
  ASSUME SessionTyped, TurnsOrdered, UNCHANGED <<host, turns>>,
         SameStarts(toV, toV'), UNCHANGED <<cmds, task, ident, gateway>>,
         \A t \in Turns : (Ending(t)' => Ending(t)) /\ (Reporting(t)' => Reporting(t) \/ t = ident)
  PROVE  TurnsOrdered'
<1>1. UNCHANGED <<auth, main, writer, closed>>
  BY DEF host
<1>2. ~writer' => closed'
  BY <1>1 DEF TurnsOrdered
<1> QED
  BY <1>1, <1>2, QuietTurns

\* A frame that is no start is taken from a pipe.
LEMMA TakeSame ==
  ASSUME NEW S, NEW s \in Seq(S), s # <<>>, Head(s).k # "start"
  PROVE  SameStarts(s, Tail(s))
<1>1. \A t : About("start", t) # Head(s)
  BY KindsMade
<1> QED
  BY <1>1, TakeFrame, TakeStart DEF SameStarts

\* A frame goes from the pipe to the command channel.
LEMMA RouteStarts ==
  ASSUME SessionTyped, TurnsOrdered, toV # <<>>, toV' = Tail(toV), cmds' = Append(cmds, Head(toV))
  PROVE  /\ \A t : Starting(t)' <=> Starting(t)
         /\ OnceStart(toV') /\ OnceStart(cmds') /\ (Startless(toV') \/ Startless(cmds'))
<1> DEFINE h == Head(toV)
<1>1. toV \in Seq(CommandFrames) /\ cmds \in Seq(CommandFrames)
  BY DEF SessionTyped, PipesTyped
<1>2. /\ h \in CommandFrames /\ In(h, toV)
      /\ \A f : In(f, Tail(toV)) => In(f, toV)
      /\ \A f : In(f, toV) /\ f # h => In(f, Tail(toV))
  BY <1>1, PipeHead, TakeFrame
<1>3. /\ \A f : In(f, Append(cmds, h)) <=> In(f, cmds) \/ f = h
      /\ OnceStart(cmds) /\ h.k # "start" => OnceStart(Append(cmds, h))
      /\ Startless(cmds) => OnceStart(Append(cmds, h))
      /\ Startless(cmds) /\ h.k # "start" => Startless(Append(cmds, h))
  BY <1>1, <1>2, PutFrame
<1>4. /\ OnceStart(toV) => OnceStart(Tail(toV))
      /\ Startless(toV) => Startless(Tail(toV))
      /\ OnceStart(toV) /\ h.k = "start" => Startless(Tail(toV))
      /\ Startless(toV) => h.k # "start"
  BY <1>1, TakeStart
<1>5. OnceStart(toV) /\ OnceStart(cmds) /\ (Startless(toV) \/ Startless(cmds))
  BY DEF TurnsOrdered
<1> HIDE DEF h
<1>6. toV' = Tail(toV) /\ cmds' = Append(cmds, h)
  BY DEF h
<1>7. \A t : Starting(t)' <=> Starting(t)
  BY <1>2, <1>3, <1>6 DEF Starting
<1>8. OnceStart(toV') /\ OnceStart(cmds') /\ (Startless(toV') \/ Startless(cmds'))
  BY <1>3, <1>4, <1>5, <1>6
<1> QED
  BY <1>7, <1>8

\* The router.
LEMMA RouterKeepsTurns ==
  ASSUME SessionTyped, TurnsOrdered, Router
  PROVE  TurnsOrdered'
<1>1. toV \in Seq(CommandFrames)
  BY DEF SessionTyped, PipesTyped
<1>2. CASE RouteReply
  <2>1. /\ UNCHANGED <<host, turns, cmds, task, ident, gateway, toH>>
        /\ toV # <<>> /\ Head(toV).k \in Replies /\ toV' = Tail(toV)
    BY <1>2 DEF RouteReply, rest
  <2>2. SameStarts(toV, toV')
    BY <1>1, <2>1, TakeSame, KindsMade
  <2>3. \A t : (Ending(t)' => Ending(t)) /\ (Reporting(t)' => Reporting(t))
    BY <2>1 DEF Ending, Reporting
  <2> QED
    BY <2>1, <2>2, <2>3, SidecarQuiet
<1>3. CASE RouteCommand
  <2>1. /\ UNCHANGED <<host, turns, task, ident, gateway, toH>>
        /\ toV # <<>> /\ toV' = Tail(toV)
        /\ cmds' = cmds \/ cmds' = Append(cmds, Head(toV))
    BY <1>3 DEF RouteCommand, Dies, rest
  <2>2. /\ \A t : Starting(t)' => Starting(t)
        /\ OnceStart(toV') /\ OnceStart(cmds') /\ (Startless(toV') \/ Startless(cmds'))
    <3>1. CASE cmds' = cmds
      <4>1. \A f : In(f, Tail(toV)) => In(f, toV)
        BY <1>1, <2>1, TakeFrame
      <4>2. (OnceStart(toV) => OnceStart(Tail(toV))) /\ (Startless(toV) => Startless(Tail(toV)))
        BY <1>1, <2>1, TakeStart
      <4> QED
        BY <2>1, <3>1, <4>1, <4>2 DEF Starting, TurnsOrdered
    <3>2. CASE cmds' = Append(cmds, Head(toV))
      BY <2>1, <3>2, RouteStarts
    <3> QED
      BY <2>1, <3>1, <3>2
  <2>3. \A t \in Turns : TurnStays(t)
    BY <2>1, <2>2 DEF TurnStays, Ending, Reporting, Unreported
  <2>4. gateway' = ident' /\ (ident' # 0 => Unreported(ident)')
    BY <2>1 DEF TurnsOrdered, Unreported
  <2> QED
    BY <2>1, <2>2, <2>3, <2>4, SidecarTurnsStay
<1>4. CASE RouterEndOfPipe
  <2>1. UNCHANGED <<host, turns, cmds, task, ident, gateway, toH, toV>>
    BY <1>4 DEF RouterEndOfPipe, Dies, rest
  <2>2. \A t : (Ending(t)' => Ending(t)) /\ (Reporting(t)' => Reporting(t))
    BY <2>1 DEF Ending, Reporting
  <2> QED
    BY <2>1, <2>2, StartsStay, SidecarQuiet
<1> QED
  BY <1>2, <1>3, <1>4 DEF Router

\* A question of a call.
LEMMA QuestionAsked ==
  ASSUME SessionTyped, NEW k \in {"evaluate", "confirm", "issue", "revalidate"}, NEW c \in Calls,
         NEW r \in -1 .. MaxRev, ident # 0, toH' = Told(<<AskFrame(k, ident, c, r)>>)
  PROVE  SameReports(toH, toH')
<1>1. ident \in Turns
  BY SessionNumbers DEF SessionTyped, SidecarTyped
<1> DEFINE g == AskFrame(k, ident, c, r)
<1>2. g \in ReportFrames /\ g.k = k
  BY <1>1, FramesMade, KindsMade
<1>3. toH' = Told(<<g>>)
  OBVIOUS
<1> HIDE DEF g
<1> QED
  BY <1>2, <1>3, QuestionTold

\* The calls of the tool.
LEMMA ToolsKeepTurns ==
  ASSUME SessionTyped, TurnsOrdered, NEW c \in Calls, CallStart(c) \/ Tool(c) \/ CallTimeout(c)
  PROVE  TurnsOrdered' /\ SameReports(toH, toH') /\ UNCHANGED <<host, turns, toV, cmds, task,
         ident, gateway, dead>>
<1>1. UNCHANGED <<host, turns, toV, cmds, task, ident, gateway, dead>>
  BY DEF CallStart, Tool, CallEvaluate, CallAwait, CallGiveUp, CallIssue, CallLaunch, CallExit,
         CallTimeout,         rest
<1>2. call[c].ans \in -1 .. MaxRev /\ 0 \in -1 .. MaxRev
  BY SessionNumbers DEF SessionTyped, SidecarTyped, CallRow
<1>3. \/ toH' = toH
      \/ ident # 0 /\ \E k \in {"evaluate", "confirm", "issue", "revalidate"}, r \in -1 .. MaxRev :
                        toH' = Told(<<AskFrame(k, ident, c, r)>>)
  BY <1>2 DEF CallStart, Tool, CallEvaluate, CallAwait, CallGiveUp, CallIssue, CallLaunch,
     CallExit, CallTimeout, ToolRequest
<1>4. SameReports(toH, toH')
  BY <1>3, QuestionAsked, ReportsStay
<1>5. \A t : (Ending(t)' => Ending(t)) /\ (Reporting(t)' => Reporting(t))
  BY <1>4, FewerReports
<1> QED
  BY <1>1, <1>4, <1>5, StartsStay, SidecarQuiet

\* The confirmation loop says that the turn it works for is live.
LEMMA LoopKeepsTurns ==
  ASSUME SessionTyped, TurnsOrdered, ConfirmationLoop \/ LoopTimeout
  PROVE  /\ TurnsOrdered' /\ UNCHANGED <<host, turns, toV, cmds, task, ident, gateway, dead>>
         /\ \A t : Reporting(t) => Reporting(t)'
<1>1. UNCHANGED <<host, turns, toV, cmds, task, ident, gateway, dead>>
  BY DEF ConfirmationLoop, LoopAnswer, LoopTake, LoopTimeout, rest
<1>2. ident \in 0 .. MaxTurns /\ (ident # 0 => ident \in Turns)
  BY SessionNumbers DEF SessionTyped, SidecarTyped
<1>3. \/ toH' = toH
      \/ ident # 0 /\ toH' = Told(<<About("live", ident)>>)
      \/ ident # 0 /\ \E c \in Calls : toH' = Told(<<About("live", ident),
           AskFrame("confirm", ident, c, 0)>>)
  <2>1. asking.pc = "answered" => asking.turn \in Turns
    BY DEF SessionTyped, SidecarTyped, AskedRow
  <2>2. 0 \notin Turns
    BY SessionNumbers
  <2>3. LoopAnswer => toH' = toH \/ (ident # 0 /\ toH' = Told(<<About("live", ident)>>))
    BY <2>1, <2>2 DEF LoopAnswer
  <2>4. ASSUME NEW c \in Calls, LoopTake(c)
        PROVE  toH' = toH \/ (ident # 0 /\ toH' = Told(<<About("live", ident),
               AskFrame("confirm", ident, c, 0)>>))
    BY <2>4 DEF LoopTake
  <2>5. LoopTimeout => toH' = toH
    BY DEF LoopTimeout
  <2> QED
    BY <2>3, <2>4, <2>5 DEF ConfirmationLoop
<1>4. \A k \in {"live", "ended", "cancelled"} : \A t :
        /\ In(About(k, t), toH) => In(About(k, t), toH')
        /\ In(About(k, t), toH') => In(About(k, t), toH) \/ (k = "live" /\ t = ident)
  <2>1. CASE toH' = toH
    BY <2>1
  <2>2. ASSUME NEW g, ident # 0, g = About("live", ident)
        PROVE  g \in ReportFrames /\ \A k, t : About(k, t) = g => k = "live" /\ t = ident
    BY <1>2, <2>2, FramesMade, KindsMade
  <2>3. CASE ident # 0 /\ toH' = Told(<<About("live", ident)>>)
    <3> DEFINE g == About("live", ident)
    <3>1. g \in ReportFrames /\ (\A k, t : About(k, t) = g => k = "live" /\ t = ident)
            /\ toH' = Told(<<g>>)
      BY <2>2, <2>3
    <3> HIDE DEF g
    <3>2. \A f : In(f, Told(<<g>>)) <=> In(f, toH) \/ (~dead /\ f = g)
      BY <3>1, ToldOneReport
    <3> QED
      BY <3>1, <3>2
  <2>4. CASE ident # 0 /\ \E c \in Calls : toH' = Told(<<About("live", ident),
             AskFrame("confirm", ident, c, 0)>>)
    <3>1. PICK c \in Calls : toH' = Told(<<About("live", ident), AskFrame("confirm", ident, c, 0)>>)
      BY <2>4
    <3> DEFINE g == About("live", ident)
               h == AskFrame("confirm", ident, c, 0)
    <3>2. g \in ReportFrames /\ (\A k, t : About(k, t) = g => k = "live" /\ t = ident)
            /\ toH' = Told(<<g, h>>)
      BY <2>2, <2>4, <3>1
    <3>3. h \in ReportFrames
      BY <1>2, <2>4, FramesMade, SessionNumbers
    <3>4. \A k \in {"live", "ended", "cancelled"} : \A t : About(k, t) # h
      BY KindsMade
    <3> HIDE DEF g, h
    <3>5. \A f : In(f, Told(<<g, h>>)) <=> In(f, toH) \/ (~dead /\ (f = g \/ f = h))
      BY <3>2, <3>3, ToldTwoReports
    <3> QED
      BY <3>2, <3>4, <3>5
  <2> QED
    BY <1>3, <2>1, <2>3, <2>4
<1>5. \A t : (Ending(t)' => Ending(t)) /\ (Reporting(t)' => Reporting(t) \/ t = ident)
             /\ (Reporting(t) => Reporting(t)')
  BY <1>4 DEF Ending, Reporting
<1> QED
  BY <1>1, <1>5, StartsStay, SidecarQuiet

\* The start of a turn finds the sidecar idle: no other turn is under way.
LEMMA StartFindsIdle ==
  ASSUME SessionTyped, TurnsOrdered, Command("start")
  PROVE  /\ ident = 0 /\ gateway = 0
         /\ Head(cmds).turn \in Turns /\ Starting(Head(cmds).turn)
         /\ Startless(toV) /\ Startless(Tail(cmds))
<1> DEFINE u == Head(cmds).turn
<1>1. cmds # <<>> /\ Head(cmds) \in CommandFrames /\ Head(cmds).k = "start"
  BY CommandTaken
<1>2. u \in Turns /\ Head(cmds) = About("start", u)
  BY <1>1, CommandIs
<1>3. cmds \in Seq(CommandFrames)
  BY DEF SessionTyped, PipesTyped
<1>4. In(Head(cmds), cmds)
  BY <1>1, <1>3, TakeFrame
<1>5. Starting(u)
  BY <1>2, <1>4 DEF Starting
<1>6. Startless(toV) /\ Startless(Tail(cmds))
  BY <1>1, <1>3, TakeStart DEF TurnsOrdered
<1>7. ident = 0
  <2> SUFFICES ASSUME ident # 0 PROVE FALSE
    OBVIOUS
  <2>1. ident \in Turns
    BY SessionNumbers DEF SessionTyped, SidecarTyped
  <2>2. Unreported(ident) /\ TurnSound(ident) /\ TurnSound(u)
    BY <1>2, <2>1 DEF TurnsOrdered
  <2>3. ident = u
    BY <1>5, <2>2 DEF TurnSound
  <2> QED
    BY <1>5, <2>2, <2>3 DEF TurnSound, Unreported
<1> QED
  BY <1>2, <1>5, <1>6, <1>7 DEF TurnsOrdered

\* The command loop starts a turn.
LEMMA StartKeepsTurns ==
  ASSUME SessionTyped, TurnsOrdered, CommandStartTurn
  PROVE  /\ TurnsOrdered' /\ UNCHANGED <<host, turns, dead>>
         /\ \A t : Starting(t) \/ Reporting(t) => Starting(t)' \/ Reporting(t)'
<1> DEFINE u == Head(cmds).turn
<1>1. /\ ident = 0 /\ gateway = 0 /\ u \in Turns /\ Starting(u) /\ Startless(toV)
             /\ Startless(Tail(cmds))
      /\ cmds # <<>> /\ Head(cmds) \in CommandFrames /\ Head(cmds).k = "start"
  BY StartFindsIdle, CommandTaken DEF CommandStartTurn
<1>2. /\ UNCHANGED <<host, turns, dead, toV>> /\ ~dead /\ cmds' = Tail(cmds)
      /\ \/ /\ ident' = u /\ gateway' = u /\ task' = [task EXCEPT ![u].pc = "new"]
            /\ toH' = Told(<<About("live", u)>>)
         \/ /\ UNCHANGED <<ident, gateway, task>>
            /\ toH' = Told(<<About("live", u), About("ended", u)>>)
  BY <1>1 DEF CommandStartTurn, Command, rest
<1>3. toV \in Seq(CommandFrames) /\ cmds \in Seq(CommandFrames) /\ Tail(cmds) \in Seq(CommandFrames)
      /\ task \in [Turns -> TaskRow]
  BY <1>1, PipeHead DEF SessionTyped, PipesTyped, SidecarTyped
<1>4. \A t : ~Starting(t)'
  BY <1>1, <1>2, NoneStarts DEF Starting
<1>5. \A t : Starting(t) => t = u
  <2>1. \A t : ~In(About("start", t), toV)
    BY <1>1, NoneStarts
  <2>2. \A t : ~In(About("start", t), Tail(cmds))
    BY <1>1, NoneStarts
  <2>3. \A t : In(About("start", t), cmds) => About("start", t) = Head(cmds)
    BY <1>1, <1>3, <2>2, TakeFrame
  <2> QED
    BY <2>1, <2>3, KindsMade DEF Starting
<1>6. OnceStart(toV') /\ OnceStart(cmds') /\ Startless(toV')
  BY <1>1, <1>2 DEF OnceStart, Startless
<1>7. /\ TurnSound(u) /\ ~Untold(u) /\ task[u].pc = "none" /\ ~task[u].cancelled
      /\ auth.turn = u /\ auth.st # "Idle" /\ ~Ending(u)
  <2>1. TurnSound(u)
    BY <1>1 DEF TurnsOrdered
  <2> QED
    BY <1>1, <2>1 DEF TurnSound
<1> HIDE DEF u
<1>8. About("live", u) \in ReportFrames /\ About("ended", u) \in ReportFrames
  BY <1>1, FramesMade
<1>9. CASE /\ ident' = u /\ gateway' = u /\ task' = [task EXCEPT ![u].pc = "new"]
           /\ toH' = Told(<<About("live", u)>>)
  <2>1. \A f : In(f, toH') <=> In(f, toH) \/ f = About("live", u)
    BY <1>2, <1>8, <1>9, ToldOneReport
  <2>2. \A t : (Ending(t)' <=> Ending(t)) /\ (Reporting(t)' <=> Reporting(t) \/ t = u)
    BY <2>1, KindsMade DEF Ending, Reporting
  <2>3. task'[u].pc = "new" /\ \A t \in Turns : t # u => task'[t] = task[t]
    <3>1. "new" \in TaskLabels
      BY DEF TaskLabels
    <3> QED
      BY <1>1, <1>3, <1>9, <3>1, TaskMoved
  <2>4. UNCHANGED <<auth, main, writer, closed, turns>>
    BY <1>2 DEF host
  <2>5. \A t : Untold(t)' <=> Untold(t)
    BY <2>4 DEF Untold
  <2>6. ASSUME NEW t \in Turns PROVE TurnSound(t)'
    <3>1. CASE t = u
      BY <1>4, <1>7, <2>2, <2>3, <2>4, <2>5, <3>1 DEF TurnSound
    <3>2. CASE t # u
      <4>1. TurnSound(t)
        BY DEF TurnsOrdered
      <4> QED
        BY <1>4, <2>2, <2>3, <2>4, <2>5, <3>2, <4>1 DEF TurnSound, Unreported
    <3> QED
      BY <3>1, <3>2
  <2>7. Unreported(ident)'
    BY <1>9, <2>3 DEF Unreported
  <2>8. TurnsOrdered'
    BY <1>6, <1>9, <2>4, <2>6, <2>7 DEF TurnsOrdered
  <2> QED
    BY <1>2, <1>5, <2>2, <2>8
<1>10. CASE /\ UNCHANGED <<ident, gateway, task>>
            /\ toH' = Told(<<About("live", u), About("ended", u)>>)
  <2>1. \A f : In(f, toH') <=> In(f, toH) \/ f = About("live", u) \/ f = About("ended", u)
    BY <1>2, <1>8, <1>10, ToldTwoReports
  <2>2. \A t : (Ending(t)' <=> Ending(t) \/ t = u) /\ (Reporting(t)' <=> Reporting(t) \/ t = u)
    BY <2>1, KindsMade DEF Ending, Reporting
  <2>3. \A t \in Turns : TurnStays(t)
    BY <1>4, <1>7, <1>10, <2>2 DEF TurnStays, Unreported
  <2>4. gateway' = ident' /\ ident' = 0
    BY <1>1, <1>10
  <2>5. TurnsOrdered'
    BY <1>2, <1>6, <2>3, <2>4, SidecarTurnsStay
  <2> QED
    BY <1>2, <1>5, <2>2, <2>5
<1> QED
  BY <1>2, <1>9, <1>10

\* The other commands, and what the command loop does after a cancellation.
LEMMA CommandLoopKeepsTurns ==
  ASSUME SessionTyped, TurnsOrdered,
         CommandCancelAction \/ CommandCancelTurn \/ InterruptActiveTurn \/ AcknowledgeCancel
           \/ CommandShutdown \/ CommandUnexpected \/ JoinTimeout \/ SidecarCrash
  PROVE  /\ TurnsOrdered' /\ UNCHANGED <<host, turns>> /\ (dead => dead')
         /\ ~dead' => \A t : (Starting(t) => Starting(t)') /\ (Reporting(t) => Reporting(t)')
<1>1. /\ toV \in Seq(CommandFrames) /\ cmds \in Seq(CommandFrames) /\ task \in [Turns -> TaskRow]
      /\ OnceStart(toV) /\ OnceStart(cmds) /\ (Startless(toV) \/ Startless(cmds))
      /\ gateway = ident /\ (ident # 0 => Unreported(ident))
  BY DEF SessionTyped, PipesTyped, SidecarTyped, TurnsOrdered
<1>2. ASSUME NEW k, Command(k), k # "start", cmds' = Tail(cmds), UNCHANGED toV
      PROVE  /\ \A t : Starting(t)' <=> Starting(t)
             /\ OnceStart(toV') /\ OnceStart(cmds') /\ (Startless(toV') \/ Startless(cmds'))
  <2>1. cmds # <<>> /\ Head(cmds).k # "start"
    BY <1>2 DEF Command
  <2>2. SameStarts(cmds, cmds')
    BY <1>1, <1>2, <2>1, TakeSame
  <2> QED
    BY <1>1, <1>2, <2>2 DEF SameStarts, Starting
<1>3. CASE CommandCancelAction
  <2>1. /\ UNCHANGED <<host, turns, dead, toV, toH, task, ident, gateway>>
        /\ Command("cancelAction") /\ cmds' = Tail(cmds)
    BY <1>3 DEF CommandCancelAction, rest
  <2>2. /\ \A t : Starting(t)' <=> Starting(t)
        /\ OnceStart(toV') /\ OnceStart(cmds') /\ (Startless(toV') \/ Startless(cmds'))
    BY <1>2, <2>1
  <2>3. \A t : (Ending(t)' <=> Ending(t)) /\ (Reporting(t)' <=> Reporting(t))
          /\ (Unreported(t)' <=> Unreported(t))
    BY <2>1 DEF Ending, Reporting, Unreported
  <2>4. \A t \in Turns : TurnStays(t)
    BY <2>1, <2>2, <2>3 DEF TurnStays
  <2>5. gateway' = ident' /\ (ident' # 0 => Unreported(ident)')
    BY <1>1, <2>1 DEF Unreported
  <2> QED
    BY <2>1, <2>2, <2>3, <2>4, <2>5, SidecarTurnsStay
<1>4. CASE CommandCancelTurn
  <2> DEFINE u == Head(cmds).turn
  <2>1. /\ UNCHANGED <<host, turns, dead, toV, toH>>
        /\ Command("cancelTurn") /\ cmds' = Tail(cmds)
        /\ \/ UNCHANGED <<ident, gateway, task>>
           \/ /\ ident = u /\ ident' = 0 /\ gateway' = 0
              /\ task' = [task EXCEPT ![u].cancelled = TRUE]
    BY <1>4 DEF CommandCancelTurn, rest
  <2>2. /\ \A t : Starting(t)' <=> Starting(t)
        /\ OnceStart(toV') /\ OnceStart(cmds') /\ (Startless(toV') \/ Startless(cmds'))
    BY <1>2, <2>1
  <2>3. \A t : (Ending(t)' <=> Ending(t)) /\ (Reporting(t)' <=> Reporting(t))
    BY <2>1 DEF Ending, Reporting
  <2>4. u \in Turns
    BY <2>1, CommandTaken, CommandIs
  <2>5. u # 0
    BY <2>4, SessionNumbers
  <2> HIDE DEF u
  <2>6. \A t \in Turns : /\ task'[t].pc = task[t].pc
                         /\ task'[t].cancelled = task[t].cancelled \/ task[t].pc # "none"
    <3>1. CASE UNCHANGED task
      BY <3>1
    <3>2. CASE ident = u /\ task' = [task EXCEPT ![u].cancelled = TRUE]
      <4>1. task[u].pc # "none"
        BY <1>1, <2>5, <3>2 DEF Unreported
      <4>2. task[u] \in TaskRow
        BY <1>1, <2>4
      <4>3. /\ \A t \in Turns : t # u => task'[t] = task[t]
            /\ task'[u] = [task[u] EXCEPT !.cancelled = TRUE]
        BY <1>1, <2>4, <3>2
      <4>4. task'[u].pc = task[u].pc
        BY <4>2, <4>3 DEF TaskRow
      <4> QED
        BY <4>1, <4>3, <4>4
    <3> QED
      BY <2>1, <3>1, <3>2
  <2>7. \A t \in Turns : Unreported(t)' <=> Unreported(t)
    BY <2>6 DEF Unreported
  <2>8. \A t \in Turns : TurnStays(t)
    BY <2>2, <2>3, <2>6, <2>7 DEF TurnStays
  <2>9. gateway' = ident' /\ (ident' # 0 => Unreported(ident)')
    BY <1>1, <2>1 DEF Unreported
  <2> QED
    BY <2>1, <2>2, <2>3, <2>8, <2>9, SidecarTurnsStay
<1>5. CASE AcknowledgeCancel
  <2> DEFINE u == loop.turn
             g == About("cancelled", u)
  <2>1. /\ UNCHANGED <<host, turns, dead, toV, cmds, task, ident, gateway>>
        /\ loop.pc = "join" /\ task[u].pc = "done" /\ toH' = Told(<<g>>)
    BY <1>5 DEF AcknowledgeCancel, Joined, rest
  <2>2. u \in Turns
    BY <2>1 DEF SessionTyped, SidecarTyped
  <2>3. g \in ReportFrames /\ \A k, t : About(k, t) = g => k = "cancelled" /\ t = u
    BY <2>2, FramesMade, KindsMade
  <2> HIDE DEF g
  <2>4. \A f : In(f, toH') <=> In(f, toH) \/ (~dead /\ f = g)
    BY <2>1, <2>3, ToldOneReport
  <2> HIDE DEF u
  <2>5. \A t : /\ Ending(t)' => Ending(t) \/ t = u
               /\ Reporting(t)' => Reporting(t) \/ t = u
               /\ Reporting(t) => Reporting(t)'
    BY <2>3, <2>4 DEF Ending, Reporting
  <2>6. TurnSound(u)
    BY <2>2 DEF TurnsOrdered
  <2>7. \A t : (Starting(t)' <=> Starting(t)) /\ (Unreported(t)' <=> Unreported(t))
    BY <2>1 DEF Starting, Unreported
  <2>8. ~Starting(u) /\ ~Unreported(u) /\ ~Untold(u)
    BY <2>1, <2>6 DEF TurnSound, Unreported
  <2>9. \A t \in Turns : TurnStays(t)
    BY <2>1, <2>5, <2>7, <2>8 DEF TurnStays
  <2>10. gateway' = ident' /\ (ident' # 0 => Unreported(ident)')
    BY <1>1, <2>1 DEF Unreported
  <2>11. OnceStart(toV') /\ OnceStart(cmds') /\ (Startless(toV') \/ Startless(cmds'))
    BY <1>1, <2>1
  <2>12. TurnsOrdered'
    BY <2>1, <2>9, <2>10, <2>11, SidecarTurnsStay
  <2> QED
    BY <2>1, <2>5, <2>7, <2>12
<1>6. CASE InterruptActiveTurn \/ CommandShutdown \/ CommandUnexpected \/ JoinTimeout
             \/ SidecarCrash
  <2>1. /\ UNCHANGED <<host, turns, toV, cmds, task, ident, gateway>> /\ (dead => dead')
        /\ toH' = toH \/ toH' = Told(<<About("fatal", 0)>>)
    BY <1>6 DEF InterruptActiveTurn, CommandShutdown, CommandUnexpected, JoinTimeout,
       SidecarCrash, Dies, rest
  <2>2. SameReports(toH, toH')
    <3> DEFINE g == About("fatal", 0)
    <3>1. g \in ReportFrames /\ g.k \notin {"live", "ended", "cancelled"}
      BY FramesMade, KindsMade
    <3>2. toH' = toH \/ toH' = Told(<<g>>)
      BY <2>1
    <3> HIDE DEF g
    <3> QED
      BY <3>1, <3>2, QuestionTold, ReportsStay
  <2>3. \A t : (Ending(t)' <=> Ending(t)) /\ (Reporting(t)' <=> Reporting(t))
    BY <2>2 DEF SameReports, Ending, Reporting
  <2>4. \A t : Starting(t)' <=> Starting(t)
    BY <2>1 DEF Starting
  <2>5. TurnsOrdered'
    BY <2>1, <2>3, StartsStay, SidecarQuiet
  <2> QED
    BY <2>1, <2>3, <2>4, <2>5
<1> QED
  BY <1>3, <1>4, <1>5, <1>6

\* The task of a turn: its report is the last there is of the turn.
LEMMA TasksKeepTurns ==
  ASSUME SessionTyped, TurnsOrdered, NEW u \in Turns, Task(u)
  PROVE  /\ TurnsOrdered' /\ UNCHANGED <<host, turns, toV, cmds, dead>>
         /\ \A t : Reporting(t) => Reporting(t)'
<1>1. UNCHANGED <<host, turns, dead, toV, cmds>>
  BY DEF Task, TaskOpen, TaskReturn, TaskCheck, TaskReport, TaskEnd, rest
<1>2. /\ \A t \in Turns : t # u => task'[t] = task[t]
      /\ task'[u].cancelled = task[u].cancelled
      /\ task[u].pc # "none" /\ task'[u].pc # "none" /\ task'[u].pc \in TaskLabels
      /\ task[u].pc \in {"reported", "done"} => task'[u].pc \in {"reported", "done"}
      /\ task[u].pc \in TaskLabels
  <2>1. task' \in [Turns -> TaskRow] /\ task \in [Turns -> TaskRow]
    BY TaskSteps DEF SessionTyped, SidecarTyped
  <2> QED
    BY <2>1, TaskSteps DEF TaskRow
<1>3. \A t \in Turns : Unreported(t)' => Unreported(t)
  BY <1>2 DEF Unreported, TaskLabels
<1>4. \A t : Starting(t)' <=> Starting(t)
  BY <1>1 DEF Starting
<1>5. /\ gateway = ident /\ (ident # 0 => Unreported(ident)) /\ (ident # 0 => ident \in Turns)
      /\ OnceStart(toV) /\ OnceStart(cmds) /\ (Startless(toV) \/ Startless(cmds))
      /\ \A t \in Turns : TurnSound(t)
  BY SessionNumbers DEF TurnsOrdered, SessionTyped, SidecarTyped
<1>6. OnceStart(toV') /\ OnceStart(cmds') /\ (Startless(toV') \/ Startless(cmds'))
  BY <1>1, <1>5
<1>7. CASE TaskReport(u)
  <2> DEFINE r == task[u].res
             g == About(r, u)
  <2>1. /\ task[u].pc = "current" /\ task' = [task EXCEPT ![u].pc = "reported"]
        /\ ident' = 0 /\ gateway' = GatewayAfter(u) /\ toH' = Told(<<g>>) /\ ~dead
    BY <1>7 DEF TaskReport
  <2>2. r \in {"ended", "cancelled"}
    BY <2>1 DEF SessionTyped, SidecarTyped, TaskRow
  <2>3. Unreported(u)
    BY <2>1 DEF Unreported
  <2>4. ident \in {0, u}
    BY <1>5, <2>3 DEF TurnSound
  <2>5. gateway' = 0
    BY <1>5, <2>1, <2>4 DEF GatewayAfter
  <2>6. task'[u].pc = "reported"
    BY <2>1 DEF SessionTyped, SidecarTyped, TaskRow
  <2>7. ~Unreported(u)'
    BY <2>6 DEF Unreported
  <2>8. ~Starting(u)
    BY <1>2, <1>5 DEF TurnSound
  <2>9. ~Untold(u)
    BY <1>2, <1>5 DEF TurnSound
  <2>10. g \in ReportFrames /\ \A k, t : About(k, t) = g => k = r /\ t = u
    BY <2>2, FramesMade, KindsMade
  <2> HIDE DEF g, r
  <2>11. \A f : In(f, toH') <=> In(f, toH) \/ f = g
    BY <2>1, <2>10, ToldOneReport
  <2>12. \A t : /\ Ending(t)' => Ending(t) \/ t = u
                /\ Reporting(t)' => Reporting(t) \/ t = u
                /\ Reporting(t) => Reporting(t)'
    BY <2>10, <2>11 DEF Ending, Reporting
  <2>13. \A t \in Turns : TurnStays(t)
    BY <1>2, <1>3, <1>4, <2>7, <2>8, <2>9, <2>12 DEF TurnStays
  <2>14. TurnsOrdered'
    BY <1>1, <1>6, <2>1, <2>5, <2>13, SidecarTurnsStay
  <2> QED
    BY <1>1, <2>12, <2>14
<1>8. CASE ~TaskReport(u)
  <2>1. UNCHANGED <<toH, ident, gateway>>
    BY <1>8 DEF Task, TaskOpen, TaskReturn, TaskCheck, TaskEnd
  <2>2. \A t : (Ending(t)' <=> Ending(t)) /\ (Reporting(t)' <=> Reporting(t))
    BY <2>1 DEF Ending, Reporting
  <2>3. \A t \in Turns : TurnStays(t)
    BY <1>2, <1>3, <1>4, <2>2 DEF TurnStays
  <2>4. ident = u => task'[u].pc \in {"turn", "back", "current"}
    <3> SUFFICES ASSUME ident = u PROVE task'[u].pc \in {"turn", "back", "current"}
      OBVIOUS
    <3>1. Unreported(u) /\ gateway = u
      BY <1>5, SessionNumbers
    <3>2. task \in [Turns -> TaskRow]
      BY DEF SessionTyped, SidecarTyped
    <3>3. CASE TaskOpen(u) \/ TaskReturn(u)
      <4>1. task' = [task EXCEPT ![u].pc = "turn"] \/ \E x \in {"ended", "cancelled"} :
            Returned(u, x)
        BY <3>3 DEF TaskOpen, TaskReturn
      <4>2. CASE task' = [task EXCEPT ![u].pc = "turn"]
        BY <3>2, <4>2 DEF TaskRow
      <4>3. CASE \E x \in {"ended", "cancelled"} : Returned(u, x)
        BY <3>2, <4>3, TaskReturned
      <4> QED
        BY <4>1, <4>2, <4>3
    <3>4. CASE TaskCheck(u)
      <4>1. task' = [task EXCEPT ![u].pc = "current"]
        BY <3>1, <3>4 DEF TaskCheck
      <4> QED
        BY <3>2, <4>1 DEF TaskRow
    <3>5. CASE TaskEnd(u)
      BY <3>1, <3>5 DEF TaskEnd, Unreported
    <3> QED
      BY <1>8, <3>3, <3>4, <3>5 DEF Task
  <2>5. ident' # 0 => Unreported(ident)'
    BY <1>2, <1>5, <2>1, <2>4 DEF Unreported
  <2>6. TurnsOrdered'
    BY <1>1, <1>5, <1>6, <2>1, <2>3, <2>5, SidecarTurnsStay
  <2> QED
    BY <1>1, <2>2, <2>6
<1> QED
  BY <1>7, <1>8

\* Every step keeps the turns in order.
LEMMA TurnsOrderedStep ==
  ASSUME SessionTyped, EvidenceSound, TurnsOrdered, [SessionNext]_sessionVars
  PROVE  TurnsOrdered'
<1>1. CASE UNCHANGED sessionVars \/ Lapse \/ \E c \in Calls : LapseLater(c)
  <2>1. UNCHANGED <<host, sidecar, toV, toH, turns>>
    BY <1>1 DEF sessionVars, rest, Lapse, LapseLater
  <2>2. UNCHANGED <<cmds, task, ident, gateway>>
    BY <2>1 DEF sidecar
  <2>3. \A t : (Ending(t)' => Ending(t)) /\ (Reporting(t)' => Reporting(t))
    BY <2>1 DEF Ending, Reporting
  <2> QED
    BY <2>1, <2>2, <2>3, StartsStay, SidecarQuiet
<1>2. CASE HostReader
  BY <1>2, ReaderKeepsTurns
<1>3. CASE HostMain \/ User
  BY <1>3, BeginTurnOrdered, StartTurnOrdered, CommandsKeepTurns DEF HostMain, User
<1>4. CASE Retire \/ Expiry
  BY <1>4, CommandsKeepTurns
<1>5. CASE Router \/ CommandLoop \/ ConfirmationLoop \/ Slow \/ SidecarCrash
  BY <1>5, RouterKeepsTurns, StartKeepsTurns, CommandLoopKeepsTurns, LoopKeepsTurns, ToolsKeepTurns
     DEF CommandLoop, Slow
<1>6. CASE \E t \in Turns : Task(t)
  BY <1>6, TasksKeepTurns
<1>7. CASE \E c \in Calls : CallStart(c) \/ Tool(c)
  BY <1>7, ToolsKeepTurns
<1> QED
  BY <1>1, <1>2, <1>3, <1>4, <1>5, <1>6, <1>7 DEF SessionNext

-----------------------------------------------------------------------------
(* The turn the window shows *)

\* What is under way is still under way, and the reader shows nothing.
LEMMA ShownStays ==
  ASSUME ShownSoon, auth'.st = "Active" => auth.st = "Active" /\ auth'.turn = auth.turn,
         closed => closed', dead => dead', main'.pc # "begun" => main.pc # "begun",
         ~dead' => \A t : Starting(t) \/ Reporting(t) => Starting(t)' \/ Reporting(t)',
         shownTurn' = shownTurn, reader' = reader \/ (reader.pc # "show" /\ reader'.pc # "show")
  PROVE  ShownSoon'
<1> SUFFICES ASSUME auth'.st = "Active", ~closed', ~dead', main'.pc # "begun"
             PROVE  \/ Starting(auth.turn)' \/ Reporting(auth.turn)'
                    \/ reader'.pc = "show" /\ reader'.turn = auth'.turn
                    \/ reader'.pc # "show" /\ shownTurn' = auth'.turn
  BY DEF ShownSoon
<1> DEFINE u == auth.turn
<1>1. auth.st = "Active" /\ auth'.turn = u
  OBVIOUS
<1>2. \/ Starting(u) \/ Reporting(u)
      \/ reader.pc = "show" /\ reader.turn = u
      \/ reader.pc # "show" /\ shownTurn = u
  BY <1>1 DEF ShownSoon
<1>3. CASE Starting(u) \/ Reporting(u)
  <2> HIDE DEF u
  <2>1. \A t : Starting(t) \/ Reporting(t) => Starting(t)' \/ Reporting(t)'
    OBVIOUS
  <2>2. \A t : auth'.turn = t /\ (Starting(t)' \/ Reporting(t)') =>
        Starting(auth.turn)' \/ Reporting(auth.turn)'
    BY DEF Starting, Reporting, Ending
  <2> QED
    BY <1>1, <1>3, <2>1, <2>2
<1>4. CASE ~(Starting(u) \/ Reporting(u))
  BY <1>1, <1>2, <1>4
<1> QED
  BY <1>3, <1>4

\* A step of the sidecar.
LEMMA SidecarShown ==
  ASSUME ShownSoon, UNCHANGED host, dead => dead',
         ~dead' => \A t : Starting(t) \/ Reporting(t) => Starting(t)' \/ Reporting(t)'
  PROVE  ShownSoon'
<1>1. UNCHANGED <<auth, closed, main, shownTurn, reader>>
  BY DEF host
<1> QED
  BY <1>1, ShownStays

\* A step of the Host that takes no report.
LEMMA HostShown ==
  ASSUME ShownSoon, auth'.st = "Active" => auth.st = "Active" /\ auth'.turn = auth.turn,
         closed => closed', dead => dead', main'.pc # "begun" => main.pc # "begun",
         SameStarts(toV, toV'), cmds' = cmds, SameReports(toH, toH'),
         shownTurn' = shownTurn, reader' = reader \/ (reader.pc # "show" /\ reader'.pc # "show")
  PROVE  ShownSoon'
<1>1. \A t : (Starting(t) <=> Starting(t)') /\ (Reporting(t) <=> Reporting(t)')
  BY DEF Starting, SameStarts, Reporting, Ending, SameReports
<1> QED
  BY <1>1, ShownStays

\* The sidecar.
LEMMA SidecarKeepsShown ==
  ASSUME SessionTyped, TurnsOrdered, ShownSoon,
         Router \/ CommandLoop \/ ConfirmationLoop \/ Slow \/ SidecarCrash
           \/ (\E t \in Turns : Task(t)) \/ (\E c \in Calls : CallStart(c) \/ Tool(c))
  PROVE  ShownSoon'
<1>1. CASE Router
  <2>1. toV \in Seq(CommandFrames)
    BY DEF SessionTyped, PipesTyped
  <2>2. UNCHANGED <<host, toH>> /\ (dead => dead')
    BY <1>1 DEF Router, RouteReply, RouteCommand, RouterEndOfPipe, Dies
  <2>3. ~dead' => \A t : Starting(t) => Starting(t)'
    <3>1. CASE RouteReply
      <4>1. cmds' = cmds /\ toV # <<>> /\ Head(toV).k # "start" /\ toV' = Tail(toV)
        BY <3>1, KindsMade DEF RouteReply
      <4> QED
        BY <2>1, <4>1, TakeSame DEF Starting, SameStarts
    <3>2. CASE RouteCommand
      <4>1. dead' \/ (toV # <<>> /\ toV' = Tail(toV) /\ cmds' = Append(cmds, Head(toV)))
        BY <3>2 DEF RouteCommand, Dies
      <4> QED
        BY <4>1, RouteStarts
    <3>3. CASE RouterEndOfPipe
      BY <3>3 DEF RouterEndOfPipe, Dies
    <3> QED
      BY <1>1, <3>1, <3>2, <3>3 DEF Router
  <2>4. \A t : Reporting(t)' <=> Reporting(t)
    BY <2>2 DEF Reporting, Ending
  <2> QED
    BY <2>2, <2>3, <2>4, SidecarShown
<1>2. CASE CommandStartTurn
  BY <1>2, StartKeepsTurns, SidecarShown
<1>3. CASE CommandCancelAction \/ CommandCancelTurn \/ InterruptActiveTurn \/ AcknowledgeCancel
           \/ CommandShutdown \/ CommandUnexpected \/ JoinTimeout \/ SidecarCrash
  BY <1>3, CommandLoopKeepsTurns, SidecarShown
<1>4. CASE ConfirmationLoop \/ LoopTimeout
  <2>1. UNCHANGED <<host, toV, cmds, dead>> /\ \A t : Reporting(t) => Reporting(t)'
    BY <1>4, LoopKeepsTurns
  <2>2. \A t : Starting(t)' <=> Starting(t)
    BY <2>1 DEF Starting
  <2> QED
    BY <2>1, <2>2, SidecarShown
<1>5. CASE \E t \in Turns : Task(t)
  <2>1. UNCHANGED <<host, toV, cmds, dead>> /\ \A t : Reporting(t) => Reporting(t)'
    BY <1>5, TasksKeepTurns
  <2>2. \A t : Starting(t)' <=> Starting(t)
    BY <2>1 DEF Starting
  <2> QED
    BY <2>1, <2>2, SidecarShown
<1>6. CASE \E c \in Calls : CallStart(c) \/ Tool(c) \/ CallTimeout(c)
  <2>1. UNCHANGED <<host, toV, cmds, dead>> /\ SameReports(toH, toH')
    BY <1>6, ToolsKeepTurns
  <2>2. \A t : (Starting(t)' <=> Starting(t)) /\ (Reporting(t)' <=> Reporting(t))
    BY <2>1 DEF Starting, Reporting, Ending, SameReports
  <2> QED
    BY <2>1, <2>2, SidecarShown
<1> QED
  BY <1>1, <1>2, <1>3, <1>4, <1>5, <1>6 DEF CommandLoop, Slow

\* The commands, the retiring and the expiry.
LEMMA CommandsKeepShown ==
  ASSUME SessionTyped, EvidenceSound, TurnsOrdered, ShownSoon, User \/ HostMain \/ Retire \/ Expiry
  PROVE  ShownSoon'
<1>1. CASE BeginTurn
  BY <1>1 DEF BeginTurn, ShownSoon
<1>2. CASE StartTurn
  <2> DEFINE f == About("start", main.turn)
  <2>1. /\ main.pc = "begun" /\ main.turn = turns /\ auth.st # "Idle" /\ auth.turn = turns
        /\ toV' = Sent(<<f>>) /\ main.turn \in Turns /\ toV \in Seq(CommandFrames)
    BY <1>2 DEF StartTurn, TurnsOrdered, SessionTyped, ThreadsTyped, PipesTyped
  <2>2. CASE CanSend
    <3>1. f \in CommandFrames
      BY <2>1, FramesMade
    <3>2. In(f, toV \o <<f>>)
      BY <2>1, <3>1, PutOne
    <3>3. In(f, toV')
      BY <2>1, <2>2, <3>2 DEF Sent
    <3>4. auth' = auth
      BY <1>2, <2>2 DEF StartTurn
    <3>5. Starting(auth.turn)'
      BY <2>1, <3>3, <3>4 DEF Starting
    <3> QED
      BY <3>5 DEF ShownSoon
  <2>3. CASE ~CanSend
    <3>1. auth'.st # "Active"
      BY <1>2, <2>1, <2>3 DEF StartTurn, SessionTyped, HostTyped
    <3> QED
      BY <3>1 DEF ShownSoon
  <2> QED
    BY <2>2, <2>3
<1>3. CASE RetireEnd
  <2>1. Retiring({"clear", "terminal", "gone"}) /\ closed' = closed
    BY <1>3 DEF RetireEnd, At, Retiring
  <2> QED
    BY <2>1 DEF EvidenceSound, ShownSoon
<1>4. CASE Toggle \/ Confirm \/ Deny \/ AnswerTaken \/ BeginCancellation \/ Stop \/ CancelTurn
             \/ RetireClose \/ RetireClear \/ Expiry
  <2>1. UNCHANGED <<cmds, toH, dead, shownTurn>>
    BY <1>4 DEF Toggle, Confirm, Deny, Decide, AnswerTaken, BeginCancellation, Stop, CancelTurn,
       RetireClose, RetireClear, Expiry, TakeTicket, ExpireTicket, sidecar
  <2>2. closed => closed'
    BY <1>4, DecisionLeaves DEF Toggle, BeginCancellation, Stop, CancelTurn, RetireClose,
       RetireClear, Expiry, TakeTicket, ExpireTicket
  <2>3. /\ main'.pc # "begun" => main.pc # "begun"
        /\ reader' = reader \/ (reader.pc # "show" /\ reader'.pc # "show")
    BY <1>4, DecisionLeaves DEF Toggle, BeginCancellation, Stop, CancelTurn, RetireClose,
       RetireClear, Expiry, TakeTicket, ExpireTicket, Move, At
  <2>4. auth'.st = "Active" => auth.st = "Active" /\ auth'.turn = auth.turn
    <3>1. auth' = auth \/ auth' = [auth EXCEPT !.st = "Cancelling"]
      BY <1>4 DEF Toggle, Confirm, Deny, Decide, AnswerTaken, BeginCancellation, Stop, CancelTurn,
         RetireClose, RetireClear, Expiry, TakeTicket, ExpireTicket
    <3> QED
      BY <3>1 DEF SessionTyped, HostTyped
  <2>5. SameStarts(toV, toV')
    <3>1. CASE RetireClose \/ RetireClear \/ Expiry
      BY <3>1, RetireTyped DEF Retire
    <3>2. CASE Toggle \/ Confirm \/ Deny \/ AnswerTaken \/ BeginCancellation \/ Stop
               \/ CancelTurn
      <4>1. User \/ HostMain
        BY <3>2 DEF User, HostMain
      <4>2. ~StartTurn
        BY <3>2 DEF StartTurn, Toggle, Confirm, Deny, Decide, AnswerTaken, BeginCancellation,
           Stop, CancelTurn
      <4> QED
        BY <4>1, <4>2, CommandsTyped
    <3> QED
      BY <1>4, <3>1, <3>2
  <2> QED
    BY <2>1, <2>2, <2>3, <2>4, <2>5, ReportsStay, HostShown
<1> QED
  BY <1>1, <1>2, <1>3, <1>4 DEF User, HostMain, Retire

\* The reader: it takes a report of the active turn to show it.
LEMMA ReaderKeepsShown ==
  ASSUME SessionTyped, TurnsOrdered, ShownSoon, HostReader
  PROVE  ShownSoon'
<1>1. SameStarts(toV, toV')
  BY ReaderTyped
<1>2. UNCHANGED <<cmds, dead, closed, main>>
  BY DEF HostReader, HandleAuthorityEvaluate, HandleConfirmationRequired, AdmitConfirmation,
         Schedule, HandleIssueGrant, HandleRevalidateGrant, HandleTurnState, ShowTurn,
         HandleFatal, EndOfPipe, sidecar
<1>3. \A t : Starting(t)' <=> Starting(t)
  BY <1>1, <1>2 DEF Starting, SameStarts
<1> DEFINE f == Head(toH)
<1>4. toH # <<>> => /\ f \in ReportFrames
                    /\ \A g : In(g, toH) /\ g # f => In(g, Tail(toH))
  BY PipeHead, TakeFrame DEF SessionTyped, PipesTyped
<1>5. CASE HandleAuthorityEvaluate \/ HandleConfirmationRequired \/ HandleIssueGrant
             \/ HandleRevalidateGrant
           \/ HandleFatal
  <2>1. /\ \E k \in {"evaluate", "confirm", "issue", "revalidate", "fatal"} : Frame(k)
        /\ toH' = Tail(toH) /\ shownTurn' = shownTurn
    BY <1>5 DEF HandleAuthorityEvaluate, HandleConfirmationRequired, HandleIssueGrant,
       HandleRevalidateGrant, HandleFatal
  <2>2. toH # <<>> /\ f.k \notin {"live", "ended", "cancelled"} /\ reader.pc = "read"
    BY <2>1 DEF Frame
  <2>3. reader'.pc # "show"
    <3>1. HandleAuthorityEvaluate \/ HandleRevalidateGrant \/ HandleFatal =>
          reader'.pc \in {"read", "retire"}
      BY ReplyMoves DEF HandleAuthorityEvaluate, HandleRevalidateGrant, HandleFatal
    <3>2. HandleIssueGrant => reader'.pc \in {"read", "retire"}
      BY ReplyMoves DEF HandleIssueGrant
    <3>3. HandleConfirmationRequired => reader'.pc \in {"read", "retire", "admit"}
      <4> SUFFICES ASSUME HandleConfirmationRequired
                   PROVE reader'.pc \in {"read", "retire", "admit"}
        OBVIOUS
      <4>1. CASE closed
        BY <4>1 DEF HandleConfirmationRequired
      <4>2. CASE ~closed /\ f.call \in late
        BY <4>2, ReplyMoves DEF HandleConfirmationRequired
      <4>3. CASE ~closed /\ f.call \notin late
        <5>1. reader' = [pc |-> "admit", turn |-> f.turn, call |-> f.call]
          BY <4>3 DEF HandleConfirmationRequired
        <5> QED
          BY <5>1
      <4> QED
        BY <4>1, <4>2, <4>3
    <3> QED
      BY <1>5, <3>1, <3>2, <3>3
  <2>4. auth'.st = auth.st /\ auth'.turn = auth.turn
    BY <1>5 DEF HandleAuthorityEvaluate, HandleConfirmationRequired, HandleIssueGrant,
       HandleRevalidateGrant, HandleFatal, SessionTyped, HostTyped
  <2>5. \A t : Reporting(t) => Reporting(t)'
    <3>1. \A k \in {"live", "ended", "cancelled"} : \A t : About(k, t) # f
      BY <2>2, KindsMade
    <3> HIDE DEF f
    <3> QED
      BY <1>4, <2>1, <2>2, <3>1 DEF Reporting, Ending
  <2> QED
    BY <1>2, <1>3, <2>1, <2>2, <2>3, <2>4, <2>5, ShownStays
<1>6. CASE AdmitConfirmation \/ Schedule \/ EndOfPipe
  <2>1. UNCHANGED <<toH, shownTurn, auth>> /\ reader.pc # "show" /\ reader'.pc # "show"
    <3>1. CASE AdmitConfirmation
      <4>1. /\ UNCHANGED <<toH, shownTurn, auth>> /\ reader.pc = "admit"
            /\ \/ reader'.pc \in {"read", "retire"}
               \/ reader' = [pc |-> "schedule", call |-> reader.call]
        BY <3>1, ReplyMoves DEF AdmitConfirmation
      <4> QED
        BY <4>1
    <3>2. CASE Schedule \/ EndOfPipe
      BY <3>2 DEF Schedule, EndOfPipe
    <3> QED
      BY <1>6, <3>1, <3>2
  <2> QED
    BY <1>1, <1>2, <2>1, ReportsStay, HostShown
<1>7. CASE ShowTurn
  <2>1. UNCHANGED <<toH, auth>> /\ reader.pc = "show" /\ reader'.pc = "read"
          /\ shownTurn' = reader.turn
    BY <1>7 DEF ShowTurn, ShowsTurn
  <2>2. Starting(auth.turn) \/ Reporting(auth.turn) => Starting(auth.turn)' \/ Reporting(auth.turn)'
    BY <1>3, <2>1 DEF Starting, Reporting, Ending
  <2> QED
    BY <1>2, <2>1, <2>2 DEF ShownSoon
<1>8. CASE HandleTurnState
  <2>1. /\ toH # <<>> /\ toH' = Tail(toH) /\ shownTurn' = shownTurn /\ reader.pc = "read"
        /\ f.k \in {"live", "ended", "cancelled"}
    BY <1>8 DEF HandleTurnState, Frame
  <2>2. f \in ReportFrames /\ f = About(f.k, f.turn)
    BY <1>4, <2>1, ReportIs
  <2>3. CASE Accepts(f) /\ f.k = "live"
    <3>1. auth' = auth /\ reader'.pc = "show" /\ reader'.turn = f.turn
      BY <1>8, <2>3 DEF HandleTurnState
    <3>2. auth.turn = f.turn
      BY <2>3 DEF Accepts, Active
    <3> QED
      BY <3>1, <3>2 DEF ShownSoon
  <2>4. CASE Accepts(f) /\ f.k # "live"
    <3>1. auth'.st = "Idle"
      BY <1>8, <2>4 DEF HandleTurnState
    <3> QED
      BY <3>1 DEF ShownSoon
  <2>5. CASE ~Accepts(f)
    <3>1. UNCHANGED <<auth, reader>>
      BY <1>8, <2>5 DEF HandleTurnState
    <3>2. auth.st = "Active" => auth.turn # f.turn
      BY <2>5 DEF Accepts, Active
    <3>3. \A k, t : t # f.turn => About(k, t) # f
      BY KindsMade
    <3> HIDE DEF f
    <3>4. \A t : Reporting(t) /\ t # f.turn => Reporting(t)'
      BY <1>4, <2>1, <3>3 DEF Reporting, Ending
    <3>5. auth.st = "Active" /\ Reporting(auth.turn) => Reporting(auth.turn)'
      <4>1. \A t : auth'.turn = t /\ Reporting(t)' => Reporting(auth.turn)'
        BY DEF Reporting, Ending
      <4> QED
        BY <3>1, <3>2, <3>4, <4>1
    <3>6. Starting(auth.turn) => Starting(auth.turn)'
      BY <1>3, <3>1 DEF Starting
    <3> QED
      BY <1>2, <2>1, <3>1, <3>5, <3>6 DEF ShownSoon
  <2> QED
    BY <2>3, <2>4, <2>5
<1> QED
  BY <1>5, <1>6, <1>7, <1>8 DEF HostReader

\* Every step keeps the window to be shown right.
LEMMA ShownSoonStep ==
  ASSUME SessionTyped, EvidenceSound, TurnsOrdered, ShownSoon, [SessionNext]_sessionVars
  PROVE  ShownSoon'
<1>1. CASE UNCHANGED sessionVars \/ Lapse \/ \E c \in Calls : LapseLater(c)
  <2>1. UNCHANGED <<host, sidecar, toV, toH>>
    BY <1>1 DEF sessionVars, Lapse, LapseLater
  <2>2. UNCHANGED <<cmds, dead>>
    BY <2>1 DEF sidecar
  <2>3. \A t : (Starting(t)' <=> Starting(t)) /\ (Reporting(t)' <=> Reporting(t))
    BY <2>1, <2>2 DEF Starting, Reporting, Ending
  <2> QED
    BY <2>1, <2>2, <2>3, SidecarShown
<1>2. CASE HostReader
  BY <1>2, ReaderKeepsShown
<1>3. CASE HostMain \/ User \/ Retire \/ Expiry
  BY <1>3, CommandsKeepShown
<1>4. CASE Router \/ CommandLoop \/ ConfirmationLoop \/ Slow \/ SidecarCrash
             \/ (\E t \in Turns : Task(t)) \/ (\E c \in Calls : CallStart(c) \/ Tool(c))
  BY <1>4, SidecarKeepsShown
<1> QED
  BY <1>1, <1>2, <1>3, <1>4 DEF SessionNext

\* Initially nothing is under way.
LEMMA InitTurnsOrdered ==
  ASSUME SessionInit
  PROVE  TurnsOrdered /\ ShownSoon
<1>1. /\ toV = <<>> /\ toH = <<>> /\ cmds = <<>> /\ auth.st = "Idle" /\ main.pc = "idle"
      /\ ident = 0 /\ gateway = 0 /\ writer = TRUE
      /\ \A t \in Turns : task[t].pc = "none" /\ ~task[t].cancelled
  BY DEF SessionInit
<1>2. Len(<<>>) = 0 /\ 1 .. 0 = {}
  OBVIOUS
<1>3. Startless(toV) /\ OnceStart(toV) /\ OnceStart(cmds)
  BY <1>1, <1>2 DEF Startless, OnceStart
<1>4. \A t : ~Starting(t) /\ ~Reporting(t)
  BY <1>1, <1>2 DEF Starting, Reporting, Ending, In
<1>5. \A t \in Turns : TurnSound(t)
  BY <1>1, <1>4 DEF TurnSound, Unreported
<1>6. TurnsOrdered
  BY <1>1, <1>3, <1>5 DEF TurnsOrdered
<1> QED
  BY <1>1, <1>6 DEF ShownSoon

\* A set whose elements are all equal has at most one.
LEMMA AtMostOne ==
  ASSUME NEW S, \A x, y \in S : x = y
  PROVE  Cardinality(S) <= 1
<1>1. CASE S = {}
  BY <1>1, FS_EmptySet
<1>2. CASE S # {}
  <2>1. PICK x \in S : TRUE
    BY <1>2
  <2>2. S = {x}
    BY <2>1
  <2> QED
    BY <2>2, FS_Singleton
<1> QED
  BY <1>1, <1>2

\* What the invariant says of the session.
LEMMA SessionInvSound ==
  ASSUME SessionInv
  PROVE  /\ SessionTypeOK /\ RunsAreConfirmed /\ EvidenceIsCurrent
         /\ PendingIsWatched /\ ClosedHoldsNothing /\ WindowShowsActiveTurn
         /\ NeverBusy /\ AcknowledgedMeansEnded
<1>1. SessionTyped /\ EvidenceSound /\ TurnsOrdered /\ ShownSoon
  BY DEF SessionInv
<1>2. HostTyped /\ PipesTyped /\ SidecarTyped
  BY <1>1 DEF SessionTyped
<1>3. SessionTypeOK
  <2>1. Cardinality(pend) <= 1 /\ Cardinality(ticket) <= 1
    BY <1>2, AtMostOne DEF HostTyped
  <2>2. Cardinality(lease) <= 1 /\ Cardinality(queue) <= 1
    BY <1>2, AtMostOne DEF SidecarTyped
  <2>3. \A c \in Calls : call[c].ans \in -1 .. MaxRev
    BY <1>2 DEF SidecarTyped, CallRow
  <2> QED
    BY <1>2, <2>1, <2>2, <2>3 DEF SessionTypeOK, HostTyped, PipesTyped, SidecarTyped, PendingRow,
       EvidenceRow
<1>4. RunsAreConfirmed /\ EvidenceIsCurrent /\ PendingIsWatched
  BY <1>1 DEF EvidenceSound
<1>5. ClosedHoldsNothing
  <2>1. Retiring({"gone"}) =>
          Retiring({"clear", "terminal", "gone"}) /\ Retiring({"terminal", "gone"})
    BY DEF Retiring
  <2>2. reader.pc = "gone" => pend = {} /\ grants = {} /\ auth.st \in {"Idle", "Terminal"}
    <3>1. reader.pc = "gone" => Retiring({"gone"})
      BY DEF Retiring
    <3> QED
      BY <1>1, <2>1, <3>1 DEF EvidenceSound
  <2>3. main.pc = "gone" => appr = {} /\ grants = {}
    <3>1. main.pc = "gone" => Retiring({"gone"})
      BY DEF Retiring
    <3> QED
      BY <1>1, <2>1, <3>1 DEF EvidenceSound
  <2> QED
    BY <2>2, <2>3 DEF ClosedHoldsNothing
<1>6. WindowShowsActiveTurn
  <2> SUFFICES ASSUME auth.st = "Active", ~closed, ~dead, main.pc = "idle", reader.pc = "read",
                      toV = <<>>, toH = <<>>, cmds = <<>>
               PROVE  shownTurn = auth.turn
    BY DEF WindowShowsActiveTurn
  <2>1. Len(<<>>) = 0 /\ 1 .. 0 = {}
    OBVIOUS
  <2>2. ~Starting(auth.turn) /\ ~Reporting(auth.turn)
    BY <2>1 DEF Starting, Reporting, Ending, In
  <2> QED
    BY <1>1, <2>2 DEF ShownSoon
<1>7. NeverBusy
  BY <1>1, StartFindsIdle DEF NeverBusy
<1>8. AcknowledgedMeansEnded
  <2> SUFFICES ASSUME NEW t \in Turns, NEW i \in 1 .. Len(toH), toH[i] = About("cancelled", t),
                      task[t].cancelled
               PROVE  task[t].pc \in {"reported", "done"}
    BY DEF AcknowledgedMeansEnded
  <2>1. Ending(t)
    BY DEF Ending, In
  <2>2. TurnSound(t)
    BY <1>1 DEF TurnsOrdered
  <2>3. task[t].pc \in TaskLabels
    BY <1>2 DEF SidecarTyped, TaskRow
  <2> QED
    BY <2>1, <2>2, <2>3 DEF TurnSound, Unreported, TaskLabels
<1> QED
  BY <1>3, <1>4, <1>5, <1>6, <1>7, <1>8

\* For any numbers of turns, calls of a turn, revisions of the policy and cancellations, any
\* size of the command queue and any troubles, in every interleaving of the Host's main thread,
\* reader and expiry with the sidecar's threads, whatever is cancelled, expires, is switched off
\* or crashes: a process runs only with what the user confirmed for that call at that revision;
\* approvals and grants are those of the active turn; what is pending is watched by a timer; a
\* session the reader has ended holds no confirmation and no grant, one that was stopped no
\* approval either; the window comes to show the active turn; no turn is refused as busy; a
\* cancelled turn is over when that is acknowledged; and expiry ends only what is late.
THEOREM SessionIsSound == SessionSpec => SessionSound
<1>1. SessionInit => SessionInv
  BY InitSessionTyped, InitEvidenceSound, InitTurnsOrdered DEF SessionInv
<1>2. SessionInv /\ [SessionNext]_sessionVars => SessionInv'
  BY SessionTypedStep, EvidenceSoundStep, TurnsOrderedStep, ShownSoonStep DEF SessionInv
<1>3. SessionInv => /\ SessionTypeOK /\ RunsAreConfirmed /\ EvidenceIsCurrent
                    /\ PendingIsWatched /\ ClosedHoldsNothing /\ WindowShowsActiveTurn
                    /\ NeverBusy /\ AcknowledgedMeansEnded
  BY SessionInvSound
<1>4. SessionInv /\ [SessionNext]_sessionVars =>
        [(hand # {} /\ hand' = {}) => CallsOf(pend \ pend') \subseteq late]_sessionVars
  BY ExpiryExactStep DEF SessionInv
<1> QED
  BY <1>1, <1>2, <1>3, <1>4, PTL DEF SessionSpec, SessionSound, ExpiryIsExact
=============================================================================
