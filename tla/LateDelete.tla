----------------------------- MODULE LateDelete -----------------------------
(***************************************************************************)
(* The late-delete resolver beside the vector synchronisation.  A Delete   *)
(* whose outcome is unknown leaves a resolution; a resolver pass takes its *)
(* own runtime lease, recovers what crashed passes left, claims the oldest *)
(* resolution, pays one ordinal for one exact query of LanceDB and, when a *)
(* vector is still there, for one Delete conditional on the revision seen. *)
(*                                                                         *)
(* Passes are not under the composition gate: they run beside the drains   *)
(* and beside each other.  Owner strings are left out: every acquisition   *)
(* of the lease has a fence of its own, and every predicate that compares  *)
(* the owner also compares the fence.  A free lease has expires = 0.       *)
(***************************************************************************)
EXTENDS VectorSync

CONSTANTS
    Resolvers,         \* concurrent invocations of the resolver
    MaxResolutions,    \* MAX_LATE_DELETE_RESOLUTIONS (3 in the code)
    ResolutionWindow,  \* the 24 hour fallback, in clock ticks
    FailingPasses      \* bound: only the first passes may crash or fail

ASSUME ResolverAssumption ==
    /\ MaxResolutions \in Nat \ {0}
    /\ ResolutionWindow \in Nat \ {0}
    /\ FailingPasses \in Nat

VARIABLES
    rlease,    \* memory_vector_late_delete_runtime_lease
    resolver,  \* the pass each resolver runs
    probes     \* history: LanceDB calls the passes made for each mutation

lateVars == <<vars, rlease, resolver, probes>>

\* A pass; `ordinal` is the claim's resolution_count until the reservation.
Asleep == [pc |-> "idle", fence |-> 0, sequence |-> 0, epoch |-> 0, ordinal |-> 0,
           revision |-> 0, outcome |-> "none"]

LateInit ==
    /\ Init
    /\ rlease = [fence |-> 0, expires |-> 0]
    /\ resolver = [x \in Resolvers |-> Asleep]
    /\ probes = [s \in Mutations |-> [query |-> 0, delete |-> 0]]

-----------------------------------------------------------------------------
(* Guards *)

At(x) == resolver[x].pc

\* The resolution a pass works on.
Mine(x) == CHOOSE r \in resolution : r.sequence = resolver[x].sequence

Update(r, q) == resolution' = (resolution \ {r}) \cup {q}

\* Mutant: a resolution left unknown is never taken up again.
CandidatePendingOnly(r) == r.state = "pending" /\ r.lease_expires_at <= now

\* select_next_candidate_in
Candidate(r) == r.state \in {"pending", "unknown"} /\ r.lease_expires_at <= now

Expired(r) == r.state \in {"claimed", "processing"} /\ r.lease_expires_at <= now

\* The durable boundary after which the conditional Delete may have been sent.
DeleteStarted(r) ==
    /\ r.state = "processing"
    /\ r.last_resolution_disposition = "delete_started"
    /\ r.last_disposition_epoch = r.resolution_epoch
    /\ r.last_reserved_resolution_epoch = r.resolution_epoch

\* resolution_authority_is_current_in: within the window, and the captured
\* generation is still the active one.
AuthorityCurrent(r) == now < r.anchor + ResolutionWindow /\ r.generation = active

\* runtime_lease_is_current_in
LeaseCurrent(x) == rlease.fence = resolver[x].fence /\ rlease.expires > now

\* claim_matches_row, with the runtime lease.
ClaimMatches(x) ==
    /\ LeaseCurrent(x)
    /\ Mine(x).state = "claimed"
    /\ Mine(x).lease_fence_epoch = resolver[x].fence
    /\ Mine(x).resolution_epoch = resolver[x].epoch
    /\ Mine(x).resolution_count = resolver[x].ordinal

\* Mutant: a token is current as long as its runtime lease is.
PermitByLease(x) == LeaseCurrent(x)

\* token_is_current_in
PermitCurrent(x) ==
    /\ LeaseCurrent(x)
    /\ Mine(x).state = "processing"
    /\ Mine(x).lease_fence_epoch = resolver[x].fence
    /\ Mine(x).lease_expires_at > now
    /\ Mine(x).resolution_epoch = resolver[x].epoch
    /\ Mine(x).resolution_count = resolver[x].ordinal
    /\ Mine(x).last_reserved_resolution_epoch = resolver[x].epoch

Proceed(x, pc) == resolver' = [resolver EXCEPT ![x].pc = pc]

\* The body of the pass is over; the lease is still to be released.
Finish(x) == Proceed(x, "release")

-----------------------------------------------------------------------------
(* One pass *)

\* acquire_late_delete_runtime_lease.  A pass that would find nothing to do changes
\* nothing but the fence and is left out.
Acquire(x) ==
    /\ At(x) = "idle"
    /\ rlease.expires <= now
    /\ \E r \in resolution : Candidate(r) \/ Expired(r)
    /\ rlease' = [fence |-> rlease.fence + 1, expires |-> now + LeaseTicks]
    /\ resolver' = [resolver EXCEPT ![x] =
                       [Asleep EXCEPT !.pc = "leased", !.fence = rlease.fence + 1]]
    /\ UNCHANGED <<vars, probes>>

\* Mutant: an expired pass gives its ordinal back.
RecoveredAfresh(r) ==
    IF Expired(r) THEN [Concluded(r, "pending") EXCEPT !.resolution_count = 0] ELSE r

\* recover_expired_late_delete_resolutions, for one row.
Recovered(r) ==
    CASE ~Expired(r) -> r
      [] Expired(r) /\ r.resolution_count >= MaxResolutions -> Concluded(r, "waiting_rebuild")
      [] Expired(r) /\ r.resolution_count < MaxResolutions /\ DeleteStarted(r) ->
           Concluded(r, IF AuthorityCurrent(r) THEN "unknown" ELSE "waiting_rebuild")
      [] OTHER -> Concluded(r, IF r.state = "claimed" THEN "pending" ELSE "unknown")

RecoverExpired(x) ==
    /\ At(x) = "leased"
    /\ resolution' = {Recovered(r) : r \in resolution}
    /\ Proceed(x, "recovered")
    /\ UNCHANGED <<memory, clock, outbox, lease, active, item, store, now, worker, calls,
                   rlease, probes>>

\* claim_one_late_delete_resolution: the oldest candidate is claimed, or sent to the
\* rebuild when its authority or its budget is gone.
ClaimResolution(x) ==
    /\ At(x) = "recovered"
    /\ IF LeaseCurrent(x) /\ \E r \in resolution : Candidate(r)
       THEN \E r \in resolution :
              /\ Candidate(r)
              /\ \A q \in resolution : Candidate(q) => r.sequence <= q.sequence
              /\ IF AuthorityCurrent(r) /\ r.resolution_count < MaxResolutions
                 THEN /\ Update(r, [r EXCEPT !.state = "claimed", !.resolution_epoch = @ + 1,
                                             !.lease_fence_epoch = resolver[x].fence,
                                             !.lease_expires_at = now + LeaseTicks])
                      /\ resolver' = [resolver EXCEPT ![x] =
                             [@ EXCEPT !.pc = "claimed", !.sequence = r.sequence,
                                       !.epoch = r.resolution_epoch + 1,
                                       !.ordinal = r.resolution_count]]
                 ELSE Update(r, Concluded(r, "waiting_rebuild")) /\ Finish(x)
       ELSE UNCHANGED resolution /\ Finish(x)
    /\ UNCHANGED <<memory, clock, outbox, lease, active, item, store, now, worker, calls,
                   rlease, probes>>

\* reserve_late_delete_resolution: one ordinal for this claim.
ReserveResolution(x) ==
    LET r == Mine(x)
    IN  /\ At(x) = "claimed"
        /\ IF ~ClaimMatches(x)
           THEN UNCHANGED resolution /\ Finish(x)
           ELSE IF ~AuthorityCurrent(r) \/ r.resolution_count = MaxResolutions
           THEN Update(r, Concluded(r, "waiting_rebuild")) /\ Finish(x)
           ELSE IF \/ r.last_reserved_resolution_epoch = r.resolution_epoch
                   \/ r.lease_expires_at <= now
           THEN UNCHANGED resolution /\ Finish(x)
           ELSE /\ Update(r, [r EXCEPT !.state = "processing", !.resolution_count = @ + 1,
                                       !.last_reserved_resolution_epoch = r.resolution_epoch])
                /\ resolver' = [resolver EXCEPT ![x].pc = "reserved", ![x].ordinal = @ + 1]
        /\ UNCHANGED <<memory, clock, outbox, lease, active, item, store, now, worker, calls,
                       rlease, probes>>

\* The token guard, then the exact query.
CallQuery(x) ==
    /\ At(x) = "reserved"
    /\ IF PermitCurrent(x)
       THEN /\ Proceed(x, "querying")
            /\ probes' = [probes EXCEPT ![resolver[x].sequence].query = @ + 1]
       ELSE Finish(x) /\ UNCHANGED probes
    /\ UNCHANGED <<vars, rlease>>

\* The table of a retired generation is not tracked: it may hold anything.
Tracked(x) == Mine(x).generation = active

Answer(x, outcome, revision) ==
    resolver' = [resolver EXCEPT ![x].pc = "answered", ![x].outcome = outcome,
                                 ![x].revision = revision]

\* LanceDB answers what it holds at some moment of the call, or an error, or rows
\* that do not belong to the generation.
QueryReturns(x) ==
    /\ At(x) = "querying"
    /\ \/ (Tracked(x) => store[Mine(x).memory] = 0) /\ Answer(x, "absent", 0)
       \/ /\ Tracked(x) /\ store[Mine(x).memory] > 0
          /\ Answer(x, "present", store[Mine(x).memory])
       \/ ~Tracked(x) /\ Answer(x, "present", 1)
       \/ \E outcome \in {"failed", "corrupt"} : Answer(x, outcome, 0)
    /\ UNCHANGED <<vars, rlease, probes>>

\* Mutant: a query that failed counts as one that found nothing.
SettleQueryOptimistic(x) ==
    /\ At(x) = "answered" /\ resolver[x].outcome # "present"
    /\ IF PermitCurrent(x) THEN Update(Mine(x), Concluded(Mine(x), "resolved_absent"))
                           ELSE UNCHANGED resolution
    /\ Finish(x)
    /\ UNCHANGED <<memory, clock, outbox, lease, active, item, store, now, worker, calls,
                   rlease, probes>>

\* finalize_late_delete_query_absent, _failure and _corrupt.
SettleQuery(x) ==
    LET state == CASE resolver[x].outcome = "absent" -> "resolved_absent"
                   [] resolver[x].outcome = "failed" -> "unknown"
                   [] OTHER -> "waiting_rebuild"
    IN  /\ At(x) = "answered" /\ resolver[x].outcome # "present"
        /\ IF PermitCurrent(x) THEN Update(Mine(x), Concluded(Mine(x), state))
                               ELSE UNCHANGED resolution
        /\ Finish(x)
        /\ UNCHANGED <<memory, clock, outbox, lease, active, item, store, now, worker, calls,
                       rlease, probes>>

\* issue_late_delete_permit_core
IssuePermit(x) ==
    LET r == Mine(x)
    IN  /\ At(x) = "answered" /\ resolver[x].outcome = "present"
        /\ IF ~PermitCurrent(x) \/ (AuthorityCurrent(r) /\ r.last_disposition_epoch >= r.resolution_epoch)
           THEN UNCHANGED resolution /\ Finish(x)
           ELSE IF AuthorityCurrent(r)
                THEN /\ Update(r, [r EXCEPT !.last_resolution_disposition = "delete_started",
                                            !.last_disposition_epoch = r.resolution_epoch])
                     /\ Proceed(x, "permitted")
                ELSE Update(r, Concluded(r, "waiting_rebuild")) /\ Finish(x)
        /\ UNCHANGED <<memory, clock, outbox, lease, active, item, store, now, worker, calls,
                       rlease, probes>>

\* The permit guard, then the conditional Delete; the provider may fail to open
\* the generation before anything is sent.
CallDelete(x) ==
    /\ At(x) = "permitted"
    /\ IF PermitCurrent(x) /\ DeleteStarted(Mine(x))
       THEN \/ /\ Proceed(x, "deleting")
               /\ probes' = [probes EXCEPT ![resolver[x].sequence].delete = @ + 1]
            \/ /\ resolver' = [resolver EXCEPT ![x].pc = "deleted", ![x].outcome = "corrupt"]
               /\ UNCHANGED probes
       ELSE Finish(x) /\ UNCHANGED probes
    /\ UNCHANGED <<vars, rlease>>

\* Mutant: the Delete is not conditional on the revision that was seen.
RemovedAnyway(x) == [store EXCEPT ![Mine(x).memory] = 0]

\* delete_generation_memory_if_matches: only the revision that was seen is removed.
Removed(x) ==
    IF Tracked(x) /\ store[Mine(x).memory] = resolver[x].revision
    THEN [store EXCEPT ![Mine(x).memory] = 0]
    ELSE store

DeleteReturns(x) ==
    LET held == store[Mine(x).memory]
        answer(outcome) ==
            resolver' = [resolver EXCEPT ![x].pc = "deleted", ![x].outcome = outcome]
    IN  /\ At(x) = "deleting"
        /\ \/ /\ store' = Removed(x)
              /\ \/ (Tracked(x) => held = resolver[x].revision) /\ answer("deleted")
                 \/ (Tracked(x) => held = 0) /\ answer("absent")
                 \/ (Tracked(x) => held \notin {0, resolver[x].revision}) /\ answer("mismatch")
           \/ store' \in {store, Removed(x)} /\ answer("failed")
        /\ UNCHANGED <<memory, clock, outbox, resolution, lease, active, item, now, worker,
                       calls, rlease, probes>>

\* transition_post_delete: only the terminal state gives the row's lease up.
SettleDelete(x) ==
    LET r == Mine(x)
        left(state) == [r EXCEPT !.state = state, !.last_resolution_disposition = "finished"]
    IN  /\ At(x) = "deleted"
        /\ IF PermitCurrent(x) /\ DeleteStarted(r)
           THEN Update(r, CASE resolver[x].outcome \in {"deleted", "absent"} ->
                                 Concluded(r, "resolved_deleted")
                            [] resolver[x].outcome = "failed" -> left("unknown")
                            [] OTHER -> left("waiting_rebuild"))
           ELSE UNCHANGED resolution
        /\ Finish(x)
        /\ UNCHANGED <<memory, clock, outbox, lease, active, item, store, now, worker, calls,
                       rlease, probes>>

\* release_late_delete_runtime_lease
Release(x) ==
    /\ At(x) = "release"
    /\ rlease' = IF rlease.fence = resolver[x].fence
                 THEN [rlease EXCEPT !.expires = 0] ELSE rlease
    /\ resolver' = [resolver EXCEPT ![x] = Asleep]
    /\ UNCHANGED <<vars, probes>>

\* The pass crashes and keeps its lease, or a storage call fails and the lease is
\* released.  The bounds are those of VectorSync!Abort, and FailingPasses.
AbortPass(x) ==
    /\ At(x) # "idle"
    /\ now + LeaseTicks <= MaxNow
    /\ resolver[x].fence <= FailingPasses
    /\ store' \in {store} \cup (IF At(x) = "deleting" THEN {Removed(x)} ELSE {})
    /\ \/ resolver' = [resolver EXCEPT ![x] = Asleep]
       \/ At(x) # "release" /\ Finish(x)
    /\ UNCHANGED <<memory, clock, outbox, resolution, lease, active, item, now, worker, calls,
                   rlease, probes>>

-----------------------------------------------------------------------------
(* Composition *)

\* A cut-over happens under the late-delete lease, which the rebuild acquires like a
\* resolver and releases afterwards, unless it crashes.
PromoteUnderLease(w) ==
    /\ rlease.expires <= now
    /\ Promote(w)
    /\ rlease' \in [fence : {rlease.fence + 1},
                    expires : {0} \cup ({now + LeaseTicks} \cap (0 .. MaxNow))]
    /\ UNCHANGED <<resolver, probes>>

Pass(x) ==
    \/ RecoverExpired(x) \/ ClaimResolution(x) \/ ReserveResolution(x) \/ CallQuery(x)
    \/ QueryReturns(x) \/ SettleQuery(x) \/ IssuePermit(x) \/ CallDelete(x)
    \/ DeleteReturns(x) \/ SettleDelete(x) \/ Release(x)

LateNext ==
    \/ Sync /\ UNCHANGED <<rlease, resolver, probes>>
    \/ \E w \in Workers : PromoteUnderLease(w)
    \/ \E x \in Resolvers : Acquire(x) \/ Pass(x) \/ AbortPass(x)

LateSpec == LateInit /\ [][LateNext]_lateVars

\* Time passes, and a pass that has begun gets its transactions and its answers.
\* Nothing in the application obliges anyone to request a pass.
LateLiveSpec ==
    /\ LateSpec
    /\ WF_lateVars(Tick /\ UNCHANGED <<rlease, resolver, probes>>)
    /\ \A x \in Resolvers : WF_lateVars(Pass(x))

-----------------------------------------------------------------------------
(* Properties *)

PassPcs == {"idle", "leased", "recovered", "claimed", "reserved", "querying", "answered",
            "permitted", "deleting", "deleted", "release"}

Outcomes == {"none", "absent", "present", "failed", "corrupt", "deleted", "mismatch"}

PassRecord == [pc : PassPcs, fence : Nat, sequence : 0 .. MaxSequence, epoch : Nat,
               ordinal : Nat, revision : Nat, outcome : Outcomes]

\* Where a pass holds no claim, or has given it up.
Resting == {"idle", "leased", "recovered", "release"}

\* The synchronisation is well typed in the composition too, a pass past its claim has
\* a resolution to work on, and a token's ordinal is within the budget.
LateTypeOK ==
    /\ TypeOK
    /\ rlease \in [fence : Nat, expires : Nat]
    /\ resolver \in [Resolvers -> PassRecord]
    /\ probes \in [Mutations -> [query : Nat, delete : Nat]]
    /\ \A x \in Resolvers :
           /\ At(x) \notin Resting => resolver[x].sequence # 0
           /\ resolver[x].sequence # 0 =>
                 /\ \E r \in resolution : r.sequence = resolver[x].sequence
                 /\ resolver[x].ordinal <= MaxResolutions

\* A resolution settled as absent or deleted is right: as long as its Delete is the
\* memory's latest mutation, the active generation holds no vector of that memory.
ResolvedMeansGone ==
    \A r \in resolution :
        /\ r.state \in {"resolved_absent", "resolved_deleted"}
        /\ r.generation = active
        /\ outbox[r.memory].mutation_sequence = r.sequence
        => store[r.memory] = 0

\* No resolver, however late its answer or its Delete, removes the vector that its
\* memory should have: only drains and cut-overs touch a desired vector.
DesiredVectorSurvives ==
    [][worker' = worker /\ active' = active =>
          \A m \in Memories : store'[m] # store[m] => store[m] # Desired(m)]_lateVars

\* Each ordinal pays for at most one query and one conditional Delete, and a
\* resolution never spends more than its budget, whatever expires or crashes.
ProbesArePaid ==
    \A r \in resolution :
        /\ probes[r.sequence].query <= r.resolution_count
        /\ probes[r.sequence].delete <= probes[r.sequence].query
        /\ r.resolution_count <= MaxResolutions

\* Nothing brings a resolution back: terminal rows are frozen, a row left to the
\* rebuild is only ever superseded or rebuilt, and ordinals and epochs only grow.
ResolutionsOnlyAdvance ==
    [][\A r \in resolution : \E q \in resolution' :
          /\ q.sequence = r.sequence
          /\ ~Open(r) => q = r
          /\ r.state = "waiting_rebuild" =>
                q.state \in {"waiting_rebuild", "superseded", "resolved_rebuilt"}
          /\ q.resolution_count >= r.resolution_count
          /\ q.resolution_epoch >= r.resolution_epoch]_lateVars

\* A resolution that waits for the resolver, with no lease beyond the modelled time.
Waiting(s) ==
    \E r \in resolution :
        /\ r.sequence = s
        /\ r.state \in {"pending", "claimed", "processing", "unknown"}
        /\ r.lease_expires_at <= MaxNow

\* If passes keep being requested, every resolution is settled, superseded or left to
\* the rebuild: failed answers, crashes and expired leases cannot keep it going round,
\* since each turn spends an ordinal or part of the window.
ResolutionIsServed ==
    (\A x \in Resolvers : WF_lateVars(Acquire(x)))
        => \A s \in Mutations : Waiting(s) ~> ~Waiting(s)

=============================================================================
