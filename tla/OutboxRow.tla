------------------------------ MODULE OutboxRow ------------------------------
(***************************************************************************)
(* One row of memory_vector_sync_outbox and the row-local transitions that *)
(* the storage layer (storage/vector_sync_outbox.rs) applies to it.  The   *)
(* table holds at most one row per memory; an absent row is the record     *)
(* EmptyRow.  SQL NULL is 0 for counters, times and generations, NoOwner   *)
(* for owners and "none" for dispositions and error codes.  A generation   *)
(* id together with its authority epoch is one positive number, and the    *)
(* target revision stands for the (revision, content hash) pair it fixes.  *)
(* The autoincrement id is left out: mutation_sequence already names the   *)
(* mutation uniquely, and every predicate compares both.                   *)
(***************************************************************************)
EXTENDS RetryPolicy

CONSTANTS
    Owners,         \* lease_owner strings
    NoOwner,        \* SQL NULL in an owner column
    MaxSequence,    \* i64::MAX of the mutation clock
    MaxEpoch        \* i64::MAX of the claim epoch and of the lease fence

ASSUME NoOwnerAssumption == NoOwner \notin Owners
ASSUME BoundsAssumption == MaxSequence \in Nat /\ MaxEpoch \in Nat \ {0}

States == {"absent", "pending", "processing", "retry_wait", "blocked"}
Dispositions == {"none", "definitely_not_sent", "possibly_sent"}
ErrorCodes == {"none", "PROVIDER_RESULT_UNKNOWN", "INTERNAL_INVARIANT", "MAX_ATTEMPTS",
               "VECTOR_TARGET_STALE", "TRANSIENT", "PERMANENT"}

\* PERMANENT_ERROR_CODES, as far as the abstraction tells the codes apart.
PermanentErrorCodes ==
    {"PROVIDER_RESULT_UNKNOWN", "PERMANENT", "INTERNAL_INVARIANT", "MAX_ATTEMPTS"}

Row == [desired_action          : Actions,
        mutation_sequence       : Nat,
        target_revision         : Nat,
        state                   : States,
        attempt_count           : Nat,
        claimed_generation      : Nat,
        lease_owner             : Owners \cup {NoOwner},
        lease_fence_epoch       : Nat,
        lease_expires_at        : Nat,
        fenced_claim_epoch      : Nat,
        last_marked_claim_epoch : Nat,
        next_attempt_at         : Nat,
        last_send_disposition   : Dispositions,
        last_error_code         : ErrorCodes,
        delete_witness_at       : Nat]

EmptyRow == [desired_action          |-> "delete",
             mutation_sequence       |-> 0,
             target_revision         |-> 0,
             state                   |-> "absent",
             attempt_count           |-> 0,
             claimed_generation      |-> 0,
             lease_owner             |-> NoOwner,
             lease_fence_epoch       |-> 0,
             lease_expires_at        |-> 0,
             fenced_claim_epoch      |-> 0,
             last_marked_claim_epoch |-> 0,
             next_attempt_at         |-> 0,
             last_send_disposition   |-> "none",
             last_error_code         |-> "none",
             delete_witness_at       |-> 0]

-----------------------------------------------------------------------------
(* Classifiers *)

generation_binding_phase(r) ==
    LET bound == r.claimed_generation > 0
        no_lease == /\ r.lease_owner = NoOwner
                    /\ r.lease_fence_epoch = 0
                    /\ r.lease_expires_at = 0
        full_lease == /\ r.lease_owner # NoOwner
                      /\ r.lease_fence_epoch > 0
                      /\ r.lease_expires_at > 0
    IN  CASE r.attempt_count > 0 /\ bound -> "Durable"
          [] r.attempt_count > 0 /\ ~bound -> "MissingAfterAttempt"
          [] r.attempt_count = 0 /\ ~bound /\ no_lease
               /\ r.state \in {"pending", "retry_wait", "blocked"} -> "Unbound"
          [] r.attempt_count = 0 /\ bound /\ full_lease
               /\ r.state = "processing" -> "Ephemeral"
          [] OTHER -> "Invalid"

attempt_identity_phase(r) ==
    LET invalid == \/ r.last_marked_claim_epoch > r.fenced_claim_epoch
                   \/ r.last_marked_claim_epoch > 0 /\ r.attempt_count = 0
                   \/ r.attempt_count > MaxAttempts
    IN  CASE invalid -> "Invalid"
          [] ~invalid /\ r.fenced_claim_epoch = 0 -> "NeverClaimed"
          [] ~invalid /\ r.fenced_claim_epoch > 0
               /\ r.last_marked_claim_epoch = r.fenced_claim_epoch -> "ClaimMarked"
          [] OTHER -> "ClaimUnmarked"

\* The row must be quarantined: no authority path can have written it.
Malformed(r) ==
    \/ attempt_identity_phase(r) = "Invalid"
    \/ generation_binding_phase(r) \in {"MissingAfterAttempt", "Invalid"}

has_unknown_external_send_evidence(r) ==
    \/ r.last_send_disposition = "possibly_sent"
    \/ r.last_error_code = "PROVIDER_RESULT_UNKNOWN"

is_unknown_upsert_send(r) ==
    r.desired_action = "upsert" /\ has_unknown_external_send_evidence(r)

is_delete_unknown(r) ==
    r.desired_action = "delete" /\ has_unknown_external_send_evidence(r)

exhausted_attempt_budget_error_code(r) ==
    CASE has_unknown_external_send_evidence(r) -> "PROVIDER_RESULT_UNKNOWN"
      [] ~has_unknown_external_send_evidence(r)
           /\ r.last_error_code \in PermanentErrorCodes -> r.last_error_code
      [] OTHER -> "MAX_ATTEMPTS"

-----------------------------------------------------------------------------
(* Row-local transitions *)

\* Every transition out of a live state clears the lease and the schedule.
Released(r, next_state, error_code) ==
    [r EXCEPT !.state = next_state, !.next_attempt_at = 0,
              !.lease_owner = NoOwner, !.lease_fence_epoch = 0, !.lease_expires_at = 0,
              !.last_error_code = error_code]

BlockInvariant(r) == Released(r, "blocked", "INTERNAL_INVARIANT")

\* quarantine_generation_binding_invariants_in
Quarantine(r) ==
    IF r.state \in {"pending", "retry_wait", "processing"} /\ Malformed(r)
    THEN BlockInvariant(r)
    ELSE r

\* Mutant: an expired claim is rescheduled as if its request never left.
RecoveredAsUnsent(r) ==
    [Released(r, "pending", r.last_error_code) EXCEPT !.last_send_disposition = "none"]

\* The state and error code recovery gives an expired Durable row.
RecoveredDurable(r) ==
    LET phase == attempt_identity_phase(r)
        delete == r.desired_action = "delete"
    IN  CASE is_unknown_upsert_send(r) -> Released(r, "blocked", "PROVIDER_RESULT_UNKNOWN")
          [] is_delete_unknown(r) -> Released(r, "blocked", r.last_error_code)
          [] ~has_unknown_external_send_evidence(r) /\ phase = "ClaimUnmarked" ->
               Released(r, "pending", r.last_error_code)
          [] ~has_unknown_external_send_evidence(r) /\ phase = "ClaimMarked"
               /\ delete /\ r.attempt_count >= MaxAttempts ->
               Released(r, "blocked", "MAX_ATTEMPTS")
          [] ~has_unknown_external_send_evidence(r) /\ phase = "ClaimMarked"
               /\ delete /\ r.attempt_count < MaxAttempts ->
               Released(r, "pending", r.last_error_code)
          [] ~has_unknown_external_send_evidence(r) /\ phase = "NeverClaimed"
               /\ delete /\ r.last_send_disposition = "none" ->
               Released(r, "pending", r.last_error_code)
          [] OTHER -> BlockInvariant(r)

\* Mutant: an expired claim without an attempt keeps its generation binding.
RecoverKeepingBinding(r, cutoff) ==
    IF r.state = "processing" /\ r.lease_expires_at <= cutoff
    THEN IF r.attempt_count = 0 THEN Released(r, "pending", r.last_error_code)
                                ELSE RecoveredDurable(r)
    ELSE r

\* recover_expired_fenced_processing_in, for one row already quarantined if
\* malformed.  Expiry is judged at the drain's cutoff, not at the wall clock.
Recover(r, cutoff) ==
    LET phase == generation_binding_phase(r)
        expired == r.state = "processing" /\ r.lease_expires_at <= cutoff
    IN  CASE expired /\ phase = "Ephemeral" ->
               [Released(r, "pending", r.last_error_code) EXCEPT !.claimed_generation = 0]
          [] expired /\ phase = "Durable" -> RecoveredDurable(r)
          [] OTHER -> r

\* converge_exhausted_attempt_budget_in
ConvergeExhausted(r) ==
    IF r.state \in {"pending", "retry_wait"} /\ r.attempt_count >= MaxAttempts
    THEN IF Malformed(r)
         THEN BlockInvariant(r)
         ELSE Released(r, "blocked", exhausted_attempt_budget_error_code(r))
    ELSE r

\* The maintenance every claim transaction runs before it selects a candidate.
Repaired(r, cutoff) == ConvergeExhausted(Recover(Quarantine(r), cutoff))

\* Mutant: an upsert that may have been sent is claimed again.
ClaimableReplaying(r, generation, cutoff) ==
    /\ r.state = "pending" \/ (r.state = "retry_wait" /\ r.next_attempt_at <= cutoff)
    /\ r.attempt_count < MaxAttempts
    /\ r.attempt_count = 0 \/ r.claimed_generation = generation
    /\ ~is_delete_unknown(r)

\* Mutant: scheduled retries are not candidates.
ClaimablePendingOnly(r, generation, cutoff) ==
    r.state = "pending" /\ ClaimableReplaying(r, generation, cutoff)

\* The candidate predicate of the claim query.
Claimable(r, generation, cutoff) ==
    /\ \/ r.state = "pending"
       \/ r.state = "retry_wait" /\ r.next_attempt_at <= cutoff
    /\ r.attempt_count < MaxAttempts
    /\ \/ r.attempt_count = 0 /\ r.claimed_generation = 0
       \/ r.attempt_count > 0 /\ r.claimed_generation = generation
    /\ ~is_unknown_upsert_send(r)
    /\ ~is_delete_unknown(r)

\* The claim update.  An Unbound row takes the generation and forgets its send
\* disposition; a Durable row keeps both.  The marked epoch is never written.
Claimed(r, owner, fence, expires, generation) ==
    LET leased == [r EXCEPT !.state = "processing", !.next_attempt_at = 0,
                            !.lease_owner = owner, !.lease_fence_epoch = fence,
                            !.lease_expires_at = expires, !.fenced_claim_epoch = @ + 1]
    IN  IF generation_binding_phase(r) = "Unbound"
        THEN [leased EXCEPT !.claimed_generation = generation,
                            !.last_send_disposition = "none"]
        ELSE leased

\* Mutant: the slot is reserved without the write-ahead evidence.
ReservedSilently(r) ==
    [r EXCEPT !.attempt_count = @ + 1, !.last_marked_claim_epoch = r.fenced_claim_epoch]

\* The slot reservation: one more attempt, marked with the claim's epoch.  For an
\* upsert it is also the write-ahead evidence that a request may leave.
Reserved(r) ==
    [r EXCEPT !.attempt_count = @ + 1,
              !.last_marked_claim_epoch = r.fenced_claim_epoch,
              !.last_send_disposition =
                  IF r.desired_action = "upsert" THEN "possibly_sent" ELSE @]

\* The Delete's write-ahead evidence; an earlier witness time is kept.
Witnessed(r, now) ==
    [r EXCEPT !.last_send_disposition = "possibly_sent",
              !.delete_witness_at = IF r.delete_witness_at = 0 THEN now ELSE @]

\* block_fenced_vector_target_stale
StaleTarget(r) ==
    [Released(r, "blocked", "VECTOR_TARGET_STALE") EXCEPT
        !.claimed_generation = 0, !.last_send_disposition = "none"]

\* The enqueue's ON CONFLICT update of an existing row, or the inserted row.
\* delete_witness_at is not among the columns the update resets.
Enqueued(r, action, sequence, revision) ==
    [EmptyRow EXCEPT !.desired_action = action, !.mutation_sequence = sequence,
                     !.target_revision = IF action = "upsert" THEN revision ELSE 0,
                     !.state = "pending",
                     !.delete_witness_at = r.delete_witness_at]

\* Mutant: a manual retry starts a fresh attempt budget.
ManuallyRetriedAfresh(r) ==
    IF r.state \in {"blocked", "retry_wait"} /\ ~has_unknown_external_send_evidence(r)
    THEN [Released(r, "pending", "none") EXCEPT !.attempt_count = 0]
    ELSE r

\* retry_failures, for one row: the user's manual retry.
ManuallyRetried(r) ==
    CASE r.state \notin {"blocked", "retry_wait"} -> r
      [] r.state \in {"blocked", "retry_wait"} /\ attempt_identity_phase(r) = "Invalid" ->
           BlockInvariant(r)
      [] r.state \in {"blocked", "retry_wait"} /\ attempt_identity_phase(r) # "Invalid"
           /\ r.attempt_count >= MaxAttempts ->
           IF r.state = "blocked" THEN r ELSE ConvergeExhausted(r)
      [] OTHER ->
           IF Malformed(r) THEN BlockInvariant(r)
           ELSE IF \/ has_unknown_external_send_evidence(r)
                   \/ r.last_error_code = "INTERNAL_INVARIANT"
                THEN r
                ELSE Released(r, "pending", "none")

=============================================================================
