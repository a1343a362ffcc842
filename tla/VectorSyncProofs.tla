-------------------------- MODULE VectorSyncProofs --------------------------
(***************************************************************************)
(* Theorems about VectorSync for every set of memories and workers, every  *)
(* attempt budget and every bound.                                         *)
(*                                                                         *)
(* First the row-local transitions of OutboxRow: each of them keeps the    *)
(* row well typed and keeps its intent; which rows they can produce, and   *)
(* what they never take from a row: its spent attempts, its claim epochs,  *)
(* its binding and the evidence that a request may have left.              *)
(*                                                                         *)
(* Then the synchronisation: the type invariant; that a row always aims at *)
(* the memory as it is; that nothing without a row is forgotten; and that  *)
(* the whole machinery implements the abstract index.                      *)
(*                                                                         *)
(* Last the safety properties, from the inductive invariant SyncInv: all   *)
(* but eight kinds of step leave the counters, epochs and evidence of      *)
(* every row that remains, the claims of every busy drain and the history  *)
(* of calls as they are.                                                   *)
(***************************************************************************)
EXTENDS VectorSync, TLAPS

-----------------------------------------------------------------------------
(* Rows of the outbox *)

\* q stands for the same mutation as r.
SameIntent(r, q) ==
    /\ q.desired_action = r.desired_action
    /\ q.mutation_sequence = r.mutation_sequence
    /\ q.target_revision = r.target_revision
    /\ (q.state = "absent") <=> (r.state = "absent")

\* The absent row is a row.
LEMMA EmptyRowType == EmptyRow \in Row
BY DEF EmptyRow, Row, Actions, States, Dispositions, ErrorCodes

\* Releasing a row into a live state changes neither its type nor its intent.
LEMMA ReleasedType ==
    ASSUME NEW r \in Row, NEW s \in States, NEW e \in ErrorCodes
    PROVE  /\ Released(r, s, e) \in Row
           /\ Released(r, s, e).desired_action = r.desired_action
           /\ Released(r, s, e).mutation_sequence = r.mutation_sequence
           /\ Released(r, s, e).target_revision = r.target_revision
           /\ Released(r, s, e).state = s
BY DEF Released, Row

\* A quarantined row keeps its type and, if present, its intent.
LEMMA BlockInvariantType ==
    ASSUME NEW r \in Row, r.state # "absent"
    PROVE  BlockInvariant(r) \in Row /\ SameIntent(r, BlockInvariant(r))
<1>1. "blocked" \in States /\ "INTERNAL_INVARIANT" \in ErrorCodes
  BY DEF States, ErrorCodes
<1> QED
  BY <1>1, ReleasedType DEF BlockInvariant, SameIntent

\* The invariant scan keeps the intent of every row, absent ones included.
LEMMA QuarantineType ==
    ASSUME NEW r \in Row
    PROVE  Quarantine(r) \in Row /\ SameIntent(r, Quarantine(r))
<1>1. CASE r.state \in {"pending", "retry_wait", "processing"} /\ Malformed(r)
  BY <1>1, BlockInvariantType DEF Quarantine
<1>2. CASE ~(r.state \in {"pending", "retry_wait", "processing"} /\ Malformed(r))
  BY <1>2 DEF Quarantine, SameIntent
<1> QED
  BY <1>1, <1>2

\* The error code kept for an exhausted budget is one of the codes.
LEMMA ExhaustedCodeType ==
    ASSUME NEW r \in Row
    PROVE  exhausted_attempt_budget_error_code(r) \in ErrorCodes
<1>1. r.last_error_code \in ErrorCodes
  BY DEF Row
<1> QED
  BY <1>1 DEF exhausted_attempt_budget_error_code, ErrorCodes

\* Recovering an expired durable claim keeps the intent.
LEMMA RecoveredDurableType ==
    ASSUME NEW r \in Row, r.state # "absent"
    PROVE  RecoveredDurable(r) \in Row /\ SameIntent(r, RecoveredDurable(r))
<1>1. r.last_error_code \in ErrorCodes
  BY DEF Row
<1>2. /\ {"blocked", "pending"} \subseteq States
      /\ {"PROVIDER_RESULT_UNKNOWN", "MAX_ATTEMPTS"} \subseteq ErrorCodes
  BY DEF States, ErrorCodes
<1>3. \A s \in {"blocked", "pending"}, e \in ErrorCodes :
         Released(r, s, e) \in Row /\ SameIntent(r, Released(r, s, e))
  BY <1>2, ReleasedType DEF SameIntent
<1>4. BlockInvariant(r) \in Row /\ SameIntent(r, BlockInvariant(r))
  BY BlockInvariantType
<1>5. \/ \E s \in {"blocked", "pending"}, e \in ErrorCodes :
             RecoveredDurable(r) = Released(r, s, e)
      \/ RecoveredDurable(r) = BlockInvariant(r)
  <2> DEFINE unknown == has_unknown_external_send_evidence(r)
             phase == attempt_identity_phase(r)
             delete == r.desired_action = "delete"
             spent == r.attempt_count >= MaxAttempts
             unspent == r.attempt_count < MaxAttempts
             kept == r.last_error_code
             never == r.last_send_disposition = "none"
  <2>1. RecoveredDurable(r) =
          CASE is_unknown_upsert_send(r) -> Released(r, "blocked", "PROVIDER_RESULT_UNKNOWN")
            [] is_delete_unknown(r) -> Released(r, "blocked", kept)
            [] ~unknown /\ phase = "ClaimUnmarked" -> Released(r, "pending", kept)
            [] ~unknown /\ phase = "ClaimMarked" /\ delete /\ spent ->
                 Released(r, "blocked", "MAX_ATTEMPTS")
            [] ~unknown /\ phase = "ClaimMarked" /\ delete /\ unspent ->
                 Released(r, "pending", kept)
            [] ~unknown /\ phase = "NeverClaimed" /\ delete /\ never ->
                 Released(r, "pending", kept)
            [] OTHER -> BlockInvariant(r)
    BY Zenon DEF RecoveredDurable
  <2>2. kept \in ErrorCodes
    BY <1>1
  <2>3. ~(spent /\ unspent)
    BY MaxAttemptsAssumption DEF Row
  <2>4. is_unknown_upsert_send(r) => unknown /\ ~is_delete_unknown(r)
    BY DEF is_unknown_upsert_send, is_delete_unknown
  <2>5. is_delete_unknown(r) => unknown
    BY DEF is_delete_unknown
  <2> HIDE DEF unknown, phase, delete, spent, unspent, kept, never
  <2> QED
    BY <1>2, <2>1, <2>2, <2>3, <2>4, <2>5
<1> QED
  BY <1>3, <1>4, <1>5, Zenon

\* Lease recovery keeps the intent of every row.
LEMMA RecoverType ==
    ASSUME NEW r \in Row, NEW cutoff \in Nat
    PROVE  Recover(r, cutoff) \in Row /\ SameIntent(r, Recover(r, cutoff))
<1> DEFINE expired == r.state = "processing" /\ r.lease_expires_at <= cutoff
           phase == generation_binding_phase(r)
           freed == Released(r, "pending", r.last_error_code)
<1>1. CASE expired /\ phase = "Ephemeral"
  <2>1. "pending" \in States /\ r.last_error_code \in ErrorCodes
    BY DEF States, Row
  <2>2. /\ freed \in Row
        /\ freed.desired_action = r.desired_action
        /\ freed.mutation_sequence = r.mutation_sequence
        /\ freed.target_revision = r.target_revision
        /\ freed.state = "pending"
    BY <2>1, ReleasedType
  <2>3. Recover(r, cutoff) = [freed EXCEPT !.claimed_generation = 0]
    BY <1>1 DEF Recover
  <2> HIDE DEF freed
  <2> QED
    BY <1>1, <2>2, <2>3 DEF SameIntent, Row
<1>2. CASE expired /\ phase = "Durable"
  <2>1. Recover(r, cutoff) = RecoveredDurable(r)
    BY <1>2 DEF Recover
  <2> QED
    BY <1>2, <2>1, RecoveredDurableType
<1>3. CASE ~(expired /\ phase \in {"Ephemeral", "Durable"})
  BY <1>3 DEF Recover, SameIntent
<1> QED
  BY <1>1, <1>2, <1>3

\* Converging a spent budget keeps the intent of every row.
LEMMA ConvergeType ==
    ASSUME NEW r \in Row
    PROVE  ConvergeExhausted(r) \in Row /\ SameIntent(r, ConvergeExhausted(r))
<1>1. CASE ~(r.state \in {"pending", "retry_wait"} /\ r.attempt_count >= MaxAttempts)
  BY <1>1 DEF ConvergeExhausted, SameIntent
<1>2. CASE /\ r.state \in {"pending", "retry_wait"} /\ r.attempt_count >= MaxAttempts
           /\ Malformed(r)
  BY <1>2, BlockInvariantType DEF ConvergeExhausted
<1>3. CASE /\ r.state \in {"pending", "retry_wait"} /\ r.attempt_count >= MaxAttempts
           /\ ~Malformed(r)
  <2>1. "blocked" \in States
    BY DEF States
  <2> QED
    BY <1>3, <2>1, ReleasedType, ExhaustedCodeType DEF ConvergeExhausted, SameIntent
<1> QED
  BY <1>1, <1>2, <1>3

\* The maintenance of a claim transaction keeps the intent of every row.
LEMMA RepairedType ==
    ASSUME NEW r \in Row, NEW cutoff \in Nat
    PROVE  Repaired(r, cutoff) \in Row /\ SameIntent(r, Repaired(r, cutoff))
<1> DEFINE q == Quarantine(r)
           p == Recover(q, cutoff)
<1>1. q \in Row /\ SameIntent(r, q)
  BY QuarantineType
<1>2. p \in Row /\ SameIntent(q, p)
  BY <1>1, RecoverType
<1>3. ConvergeExhausted(p) \in Row /\ SameIntent(p, ConvergeExhausted(p))
  BY <1>2, ConvergeType
<1> HIDE DEF q, p
<1>4. SameIntent(r, ConvergeExhausted(p))
  BY <1>1, <1>2, <1>3 DEF SameIntent
<1> QED
  BY <1>3, <1>4 DEF Repaired, q, p

\* Manual retry keeps the intent of every row.
LEMMA ManuallyRetriedType ==
    ASSUME NEW r \in Row
    PROVE  ManuallyRetried(r) \in Row /\ SameIntent(r, ManuallyRetried(r))
<1>1. SameIntent(r, r)
  BY DEF SameIntent
<1>2. ConvergeExhausted(r) \in Row /\ SameIntent(r, ConvergeExhausted(r))
  BY ConvergeType
<1>3. "pending" \in States /\ "none" \in ErrorCodes
  BY DEF States, ErrorCodes
<1>4. r.state # "absent" => Released(r, "pending", "none") \in Row
                              /\ SameIntent(r, Released(r, "pending", "none"))
  BY <1>3, ReleasedType DEF SameIntent
<1>5. r.state # "absent" => BlockInvariant(r) \in Row /\ SameIntent(r, BlockInvariant(r))
  BY BlockInvariantType
<1>6. CASE r.state \notin {"blocked", "retry_wait"}
  BY <1>1, <1>6 DEF ManuallyRetried
<1>7. CASE r.state \in {"blocked", "retry_wait"}
  <2>1. ManuallyRetried(r) \in {r, BlockInvariant(r), ConvergeExhausted(r),
                                Released(r, "pending", "none")}
    BY <1>7, Zenon DEF ManuallyRetried
  <2>2. r.state # "absent"
    BY <1>7
  <2> QED
    BY <1>1, <1>2, <1>4, <1>5, <2>1, <2>2
<1> QED
  BY <1>6, <1>7

\* A claimed row keeps its intent and is processing.
LEMMA ClaimedType ==
    ASSUME NEW r \in Row, r.state # "absent", NEW o \in Owners, NEW f \in Nat,
           NEW x \in Nat, NEW g \in Nat
    PROVE  Claimed(r, o, f, x, g) \in Row /\ SameIntent(r, Claimed(r, o, f, x, g))
<1> DEFINE leased == [r EXCEPT !.state = "processing", !.next_attempt_at = 0,
                               !.lease_owner = o, !.lease_fence_epoch = f,
                               !.lease_expires_at = x, !.fenced_claim_epoch = @ + 1]
<1>1. leased \in Row /\ SameIntent(r, leased)
  <2>1. r.fenced_claim_epoch + 1 \in Nat
    BY DEF Row
  <2>2. o \in Owners \cup {NoOwner}
    OBVIOUS
  <2> QED
    BY <2>1, <2>2 DEF Row, States, SameIntent
<1>2. Claimed(r, o, f, x, g) \in
         {leased, [leased EXCEPT !.claimed_generation = g, !.last_send_disposition = "none"]}
  BY Zenon DEF Claimed
<1> HIDE DEF leased
<1>3. LET q == [leased EXCEPT !.claimed_generation = g, !.last_send_disposition = "none"]
      IN  q \in Row /\ SameIntent(r, q)
  BY <1>1 DEF Row, Dispositions, SameIntent
<1> QED
  BY <1>1, <1>2, <1>3

\* Reserving a slot keeps the intent.
LEMMA ReservedType ==
    ASSUME NEW r \in Row
    PROVE  Reserved(r) \in Row /\ SameIntent(r, Reserved(r))
<1>1. r.attempt_count + 1 \in Nat /\ r.fenced_claim_epoch \in Nat
  BY DEF Row
<1>2. (IF r.desired_action = "upsert" THEN "possibly_sent" ELSE r.last_send_disposition)
         \in Dispositions
  BY DEF Row, Dispositions
<1> QED
  BY <1>1, <1>2 DEF Reserved, Row, SameIntent

\* Witnessing a Delete keeps the intent.
LEMMA WitnessedType ==
    ASSUME NEW r \in Row, NEW t \in Nat
    PROVE  Witnessed(r, t) \in Row /\ SameIntent(r, Witnessed(r, t))
BY DEF Witnessed, Row, Dispositions, SameIntent

\* Blocking a stale target keeps the intent.
LEMMA StaleTargetType ==
    ASSUME NEW r \in Row, r.state # "absent"
    PROVE  StaleTarget(r) \in Row /\ SameIntent(r, StaleTarget(r))
<1> DEFINE q == Released(r, "blocked", "VECTOR_TARGET_STALE")
<1>1. "blocked" \in States /\ "VECTOR_TARGET_STALE" \in ErrorCodes
  BY DEF States, ErrorCodes
<1>2. q \in Row /\ SameIntent(r, q)
  BY <1>1, ReleasedType DEF SameIntent
<1> HIDE DEF q
<1>3. LET p == [q EXCEPT !.claimed_generation = 0, !.last_send_disposition = "none"]
      IN  p \in Row /\ SameIntent(r, p)
  BY <1>2 DEF Row, Dispositions, SameIntent
<1> QED
  BY <1>3 DEF StaleTarget, q

\* An enqueued row is pending and asks for exactly the given mutation.
LEMMA EnqueuedType ==
    ASSUME NEW r \in Row, NEW a \in Actions, NEW s \in Nat, NEW v \in Nat
    PROVE  /\ Enqueued(r, a, s, v) \in Row
           /\ Enqueued(r, a, s, v).desired_action = a
           /\ Enqueued(r, a, s, v).mutation_sequence = s
           /\ Enqueued(r, a, s, v).target_revision = IF a = "upsert" THEN v ELSE 0
           /\ Enqueued(r, a, s, v).state = "pending"
BY DEF Enqueued, EmptyRow, Row, States, Dispositions, ErrorCodes

\* A finalised failure keeps the intent.
LEMMA FailedType ==
    ASSUME NEW r \in Row, r.state # "absent", NEW s \in {"blocked", "retry_wait"},
           NEW e \in ErrorCodes, NEW t \in Nat, NEW d \in Dispositions
    PROVE  LET q == [Released(r, s, e) EXCEPT !.next_attempt_at = t,
                                              !.last_send_disposition = d]
           IN  q \in Row /\ SameIntent(r, q)
<1> DEFINE p == Released(r, s, e)
<1>1. s \in States
  BY DEF States
<1>2. p \in Row /\ SameIntent(r, p)
  BY <1>1, ReleasedType DEF SameIntent
<1> HIDE DEF p
<1>3. LET q == [p EXCEPT !.next_attempt_at = t, !.last_send_disposition = d]
      IN  q \in Row /\ SameIntent(r, q)
  BY <1>2 DEF Row, SameIntent
<1> QED
  BY <1>3 DEF p

-----------------------------------------------------------------------------
(* The rows that exist *)

Leased(r) == r.lease_owner # NoOwner /\ r.lease_fence_epoch > 0 /\ r.lease_expires_at > 0

Unleased(r) == r.lease_owner = NoOwner /\ r.lease_fence_epoch = 0 /\ r.lease_expires_at = 0

\* What holds of every row, absent ones included.  Beside the budget and the order of
\* the epochs: a binding follows from an attempt, a lease from the state, and a row
\* in processing shows by its marked epoch whether a request of this claim may have
\* left.
RowSound(r) ==
    /\ r.attempt_count <= MaxAttempts
    /\ r.last_marked_claim_epoch <= r.fenced_claim_epoch
    /\ r.fenced_claim_epoch <= MaxEpoch
    /\ r.last_marked_claim_epoch > 0 => r.attempt_count > 0
    /\ r.attempt_count > 0 => r.claimed_generation > 0
    /\ r.last_error_code = "INTERNAL_INVARIANT" => r.fenced_claim_epoch = MaxEpoch
    /\ r.last_error_code # "VECTOR_TARGET_STALE"
    /\ r.state # "processing" =>
          Unleased(r) /\ (r.attempt_count = 0 => r.claimed_generation = 0)
    /\ r.state = "processing" =>
          /\ Leased(r) /\ r.claimed_generation > 0 /\ r.fenced_claim_epoch > 0
          /\ IF r.last_marked_claim_epoch = r.fenced_claim_epoch
             THEN r.desired_action = "upsert" => r.last_send_disposition = "possibly_sent"
             ELSE ~has_unknown_external_send_evidence(r)

\* What a transition keeps that neither claims, nor reserves, nor finalises.
Kept(r, q) ==
    /\ SameIntent(r, q)
    /\ q.attempt_count = r.attempt_count
    /\ q.fenced_claim_epoch = r.fenced_claim_epoch
    /\ q.last_marked_claim_epoch = r.last_marked_claim_epoch
    /\ r.attempt_count > 0 => q.claimed_generation = r.claimed_generation
    /\ has_unknown_external_send_evidence(q) <=> has_unknown_external_send_evidence(r)

\* Leaving a row alone keeps it.
LEMMA KeptSelf == ASSUME NEW r PROVE Kept(r, r)
BY DEF Kept, SameIntent

\* Two such transitions in a row are one.
LEMMA KeptTransitive ==
    ASSUME NEW r \in Row, NEW q \in Row, NEW p \in Row, Kept(r, q), Kept(q, p)
    PROVE  Kept(r, p)
BY DEF Kept, SameIntent, Row

\* The absent row is sound.
LEMMA EmptyRowSound == RowSound(EmptyRow)
BY MaxAttemptsAssumption, BoundsAssumption
   DEF EmptyRow, RowSound, Unleased, has_unknown_external_send_evidence

\* A sound row that is present is not malformed.
LEMMA SoundIsWellFormed ==
    ASSUME NEW r \in Row, RowSound(r), r.state # "absent"
    PROVE  ~Malformed(r) /\ attempt_identity_phase(r) # "Invalid"
<1>1. /\ r.attempt_count \in Nat /\ r.claimed_generation \in Nat
      /\ r.fenced_claim_epoch \in Nat /\ r.last_marked_claim_epoch \in Nat
      /\ r.state \in States
  BY DEF Row
<1>2. attempt_identity_phase(r) \in {"NeverClaimed", "ClaimMarked", "ClaimUnmarked"}
  BY <1>1, MaxAttemptsAssumption DEF RowSound, attempt_identity_phase
<1>3. generation_binding_phase(r) \in {"Durable", "Unbound", "Ephemeral"}
  BY <1>1 DEF RowSound, Leased, Unleased, States, generation_binding_phase
<1> QED
  BY <1>2, <1>3 DEF Malformed

\* The invariant scans find nothing.
LEMMA QuarantineSound ==
    ASSUME NEW r \in Row, RowSound(r)
    PROVE  Quarantine(r) = r
BY SoundIsWellFormed DEF Quarantine

\* The fields of a released row.
LEMMA ReleasedFields ==
    ASSUME NEW r \in Row, NEW s \in States, NEW e \in ErrorCodes
    PROVE  LET q == Released(r, s, e) IN
           /\ q.state = s /\ q.last_error_code = e /\ Unleased(q)
           /\ q.desired_action = r.desired_action
           /\ q.mutation_sequence = r.mutation_sequence
           /\ q.target_revision = r.target_revision
           /\ q.attempt_count = r.attempt_count
           /\ q.claimed_generation = r.claimed_generation
           /\ q.fenced_claim_epoch = r.fenced_claim_epoch
           /\ q.last_marked_claim_epoch = r.last_marked_claim_epoch
           /\ q.last_send_disposition = r.last_send_disposition
           /\ q.delete_witness_at = r.delete_witness_at
BY DEF Released, Row, Unleased

\* Releasing a row is harmless when its binding does not outlive its attempts and the
\* new error code neither adds nor hides an unknown send.
LEMMA ReleasedSound ==
    ASSUME NEW r \in Row, RowSound(r), r.state # "absent",
           NEW s \in {"pending", "retry_wait", "blocked"}, NEW e \in ErrorCodes,
           e # "VECTOR_TARGET_STALE",
           r.attempt_count = 0 => r.claimed_generation = 0,
           e = "INTERNAL_INVARIANT" => r.fenced_claim_epoch = MaxEpoch,
           \/ r.last_send_disposition = "possibly_sent"
           \/ e = "PROVIDER_RESULT_UNKNOWN" <=> r.last_error_code = "PROVIDER_RESULT_UNKNOWN"
    PROVE  LET q == Released(r, s, e) IN
           q \in Row /\ RowSound(q) /\ Kept(r, q)
<1> DEFINE q == Released(r, s, e)
<1>1. s \in States /\ s # "processing" /\ s # "absent"
  BY DEF States
<1>2. q \in Row
  BY <1>1, ReleasedType
<1>3. /\ q.state = s /\ q.last_error_code = e /\ Unleased(q)
      /\ q.desired_action = r.desired_action
      /\ q.mutation_sequence = r.mutation_sequence
      /\ q.target_revision = r.target_revision
      /\ q.attempt_count = r.attempt_count
      /\ q.claimed_generation = r.claimed_generation
      /\ q.fenced_claim_epoch = r.fenced_claim_epoch
      /\ q.last_marked_claim_epoch = r.last_marked_claim_epoch
      /\ q.last_send_disposition = r.last_send_disposition
  BY <1>1, ReleasedFields
<1> HIDE DEF q
<1>4. RowSound(q)
  BY <1>1, <1>3 DEF RowSound
<1>5. Kept(r, q)
  BY <1>1, <1>3 DEF Kept, SameIntent, has_unknown_external_send_evidence
<1> QED
  BY <1>2, <1>4, <1>5 DEF q

\* Blocking a row whose epochs are used up, as the claim does.
LEMMA BlockInvariantSound ==
    ASSUME NEW r \in Row, RowSound(r), r.state \in {"pending", "retry_wait"},
           r.fenced_claim_epoch = MaxEpoch, ~has_unknown_external_send_evidence(r)
    PROVE  LET q == BlockInvariant(r) IN q \in Row /\ RowSound(q) /\ Kept(r, q)
<1>1. "INTERNAL_INVARIANT" \in ErrorCodes
  BY DEF ErrorCodes
<1>2. r.attempt_count = 0 => r.claimed_generation = 0
  BY DEF RowSound
<1>3. r.last_error_code # "PROVIDER_RESULT_UNKNOWN"
  BY DEF has_unknown_external_send_evidence
<1> QED
  BY <1>1, <1>2, <1>3, ReleasedSound DEF BlockInvariant

\* A spent budget is reported by a code that tells an unknown send from the others.
LEMMA ExhaustedCode ==
    ASSUME NEW r \in Row, RowSound(r)
    PROVE  LET e == exhausted_attempt_budget_error_code(r) IN
           /\ e \in ErrorCodes /\ e # "VECTOR_TARGET_STALE"
           /\ e = "INTERNAL_INVARIANT" => r.fenced_claim_epoch = MaxEpoch
           /\ \/ r.last_send_disposition = "possibly_sent"
              \/ e = "PROVIDER_RESULT_UNKNOWN" <=> r.last_error_code = "PROVIDER_RESULT_UNKNOWN"
<1> DEFINE e == exhausted_attempt_budget_error_code(r)
<1>1. e \in ErrorCodes
  BY ExhaustedCodeType
<1>2. has_unknown_external_send_evidence(r) => e = "PROVIDER_RESULT_UNKNOWN"
  BY DEF exhausted_attempt_budget_error_code
<1>3. ~has_unknown_external_send_evidence(r) => e \in {r.last_error_code, "MAX_ATTEMPTS"}
  <2>1. \/ ~has_unknown_external_send_evidence(r) /\ r.last_error_code \in PermanentErrorCodes
        \/ ~has_unknown_external_send_evidence(r) /\ r.last_error_code \notin PermanentErrorCodes
        \/ has_unknown_external_send_evidence(r)
    OBVIOUS
  <2> QED
    BY <2>1 DEF exhausted_attempt_budget_error_code
<1>4. /\ r.last_error_code = "INTERNAL_INVARIANT" => r.fenced_claim_epoch = MaxEpoch
      /\ r.last_error_code # "VECTOR_TARGET_STALE"
      /\ has_unknown_external_send_evidence(r) <=>
            \/ r.last_send_disposition = "possibly_sent"
            \/ r.last_error_code = "PROVIDER_RESULT_UNKNOWN"
  BY DEF RowSound, has_unknown_external_send_evidence
<1> HIDE DEF e
<1>5. /\ e = "INTERNAL_INVARIANT" => r.fenced_claim_epoch = MaxEpoch
      /\ e # "VECTOR_TARGET_STALE"
      /\ \/ r.last_send_disposition = "possibly_sent"
         \/ e = "PROVIDER_RESULT_UNKNOWN" <=> r.last_error_code = "PROVIDER_RESULT_UNKNOWN"
  BY <1>2, <1>3, <1>4
<1> QED
  BY <1>1, <1>5 DEF e

\* Blocking a row whose budget is spent, wherever it is found.
LEMMA ExhaustedSound ==
    ASSUME NEW r \in Row, RowSound(r), r.state # "absent",
           r.attempt_count >= MaxAttempts
    PROVE  LET q == Released(r, "blocked", exhausted_attempt_budget_error_code(r)) IN
           q \in Row /\ RowSound(q) /\ Kept(r, q)
<1> DEFINE e == exhausted_attempt_budget_error_code(r)
<1>1. /\ e \in ErrorCodes /\ e # "VECTOR_TARGET_STALE"
      /\ e = "INTERNAL_INVARIANT" => r.fenced_claim_epoch = MaxEpoch
      /\ \/ r.last_send_disposition = "possibly_sent"
         \/ e = "PROVIDER_RESULT_UNKNOWN" <=> r.last_error_code = "PROVIDER_RESULT_UNKNOWN"
  BY ExhaustedCode
<1>2. r.attempt_count # 0
  BY MaxAttemptsAssumption DEF Row
<1> HIDE DEF e
<1>3. LET q == Released(r, "blocked", e) IN q \in Row /\ RowSound(q) /\ Kept(r, q)
  BY <1>1, <1>2, ReleasedSound
<1> QED
  BY <1>3 DEF e

\* Converging spent budgets.
LEMMA ConvergeSound ==
    ASSUME NEW r \in Row, RowSound(r)
    PROVE  LET q == ConvergeExhausted(r) IN q \in Row /\ RowSound(q) /\ Kept(r, q)
<1>1. CASE r.state \in {"pending", "retry_wait"} /\ r.attempt_count >= MaxAttempts
  <2>1. ~Malformed(r) /\ r.state # "absent"
    BY <1>1, SoundIsWellFormed
  <2> QED
    BY <1>1, <2>1, ExhaustedSound DEF ConvergeExhausted
<1>2. CASE ~(r.state \in {"pending", "retry_wait"} /\ r.attempt_count >= MaxAttempts)
  BY <1>2, KeptSelf DEF ConvergeExhausted
<1> QED
  BY <1>1, <1>2

\* The last branch of the recovery of a durable row, which reports an invariant
\* violation, is never taken.
LEMMA RecoveredDurableSound ==
    ASSUME NEW r \in Row, RowSound(r), r.state = "processing", r.attempt_count > 0
    PROVE  LET q == RecoveredDurable(r) IN q \in Row /\ RowSound(q) /\ Kept(r, q)
<1> DEFINE unknown == has_unknown_external_send_evidence(r)
           phase == attempt_identity_phase(r)
           delete == r.desired_action = "delete"
           spent == r.attempt_count >= MaxAttempts
           unspent == r.attempt_count < MaxAttempts
           kept == r.last_error_code
           never == r.last_send_disposition = "none"
<1>1. RecoveredDurable(r) =
        CASE is_unknown_upsert_send(r) -> Released(r, "blocked", "PROVIDER_RESULT_UNKNOWN")
          [] is_delete_unknown(r) -> Released(r, "blocked", kept)
          [] ~unknown /\ phase = "ClaimUnmarked" -> Released(r, "pending", kept)
          [] ~unknown /\ phase = "ClaimMarked" /\ delete /\ spent ->
               Released(r, "blocked", "MAX_ATTEMPTS")
          [] ~unknown /\ phase = "ClaimMarked" /\ delete /\ unspent ->
               Released(r, "pending", kept)
          [] ~unknown /\ phase = "NeverClaimed" /\ delete /\ never ->
               Released(r, "pending", kept)
          [] OTHER -> BlockInvariant(r)
  BY Zenon DEF RecoveredDurable
<1>2. /\ kept \in ErrorCodes /\ "PROVIDER_RESULT_UNKNOWN" \in ErrorCodes
      /\ "MAX_ATTEMPTS" \in ErrorCodes
      /\ r.attempt_count \in Nat /\ r.fenced_claim_epoch \in Nat
      /\ r.last_marked_claim_epoch \in Nat /\ r.desired_action \in Actions
      /\ MaxAttempts \in Nat
  BY MaxAttemptsAssumption DEF Row, ErrorCodes
<1>3. r.fenced_claim_epoch > 0 /\ r.attempt_count # 0
  BY DEF RowSound
<1>4. phase \in {"ClaimMarked", "ClaimUnmarked"}
  BY <1>2, <1>3 DEF RowSound, attempt_identity_phase
<1>5. phase = "ClaimMarked" => r.last_marked_claim_epoch = r.fenced_claim_epoch
  BY <1>2, <1>3 DEF RowSound, attempt_identity_phase
<1>6. ~unknown /\ phase = "ClaimMarked" => delete
  BY <1>2, <1>5 DEF RowSound, has_unknown_external_send_evidence, Actions
<1>7. /\ is_unknown_upsert_send(r) => unknown /\ ~is_delete_unknown(r) /\ ~delete
      /\ is_delete_unknown(r) => unknown
      /\ unknown => is_unknown_upsert_send(r) \/ is_delete_unknown(r)
  BY <1>2 DEF is_unknown_upsert_send, is_delete_unknown, Actions
<1>8. spent <=> ~unspent
  BY <1>2
<1>9. /\ kept = "INTERNAL_INVARIANT" => r.fenced_claim_epoch = MaxEpoch
      /\ kept # "VECTOR_TARGET_STALE"
  BY DEF RowSound
<1>10. CASE is_unknown_upsert_send(r)
  <2>1. RecoveredDurable(r) = Released(r, "blocked", "PROVIDER_RESULT_UNKNOWN")
    <3> HIDE DEF unknown, phase, delete, spent, unspent, kept, never
    <3> QED
      BY <1>1, <1>7, <1>10
  <2>2. \/ r.last_send_disposition = "possibly_sent"
        \/ r.last_error_code = "PROVIDER_RESULT_UNKNOWN"
    BY <1>10 DEF is_unknown_upsert_send, has_unknown_external_send_evidence
  <2> QED
    BY <1>2, <1>3, <2>1, <2>2, ReleasedSound
<1>11. CASE ~is_unknown_upsert_send(r)
  <2>1. \/ \E s \in {"pending", "blocked"} : RecoveredDurable(r) = Released(r, s, kept)
        \/ ~unknown /\ RecoveredDurable(r) = Released(r, "blocked", "MAX_ATTEMPTS")
    <3> HIDE DEF unknown, phase, delete, spent, unspent, kept, never
    <3>1. CASE unknown
      <4>1. is_delete_unknown(r) /\ ~is_unknown_upsert_send(r)
        BY <1>7, <1>11, <3>1
      <4>2. RecoveredDurable(r) = Released(r, "blocked", kept)
        BY <1>1, <3>1, <4>1
      <4> QED
        BY <4>2
    <3>2. CASE ~unknown /\ phase = "ClaimUnmarked"
      BY <1>1, <1>7, <1>11, <3>2
    <3>3. CASE ~unknown /\ phase = "ClaimMarked" /\ spent
      BY <1>1, <1>6, <1>7, <1>8, <1>11, <3>3
    <3>4. CASE ~unknown /\ phase = "ClaimMarked" /\ unspent
      BY <1>1, <1>6, <1>7, <1>8, <1>11, <3>4
    <3> QED
      BY <1>4, <1>8, <3>1, <3>2, <3>3, <3>4
  <2>2. ~unknown => r.last_error_code # "PROVIDER_RESULT_UNKNOWN"
    BY DEF has_unknown_external_send_evidence
  <2> HIDE DEF unknown
  <2> QED
    BY <1>2, <1>3, <1>9, <2>1, <2>2, ReleasedSound
<1> QED
  BY <1>10, <1>11

\* A claim without an attempt loses its binding with its lease.
LEMMA RecoverSound ==
    ASSUME NEW r \in Row, RowSound(r), NEW cutoff \in Nat
    PROVE  LET q == Recover(r, cutoff) IN q \in Row /\ RowSound(q) /\ Kept(r, q)
<1> DEFINE expired == r.state = "processing" /\ r.lease_expires_at <= cutoff
           phase == generation_binding_phase(r)
           freed == Released(r, "pending", r.last_error_code)
<1>1. CASE expired /\ phase = "Ephemeral"
  <2>1. r.attempt_count = 0
    BY <1>1 DEF generation_binding_phase
  <2>2. /\ r.state = "processing" /\ "pending" \in States
        /\ r.last_error_code \in ErrorCodes /\ r.last_marked_claim_epoch \in Nat
    BY <1>1 DEF States, Row
  <2>3. r.last_marked_claim_epoch = 0 /\ ~has_unknown_external_send_evidence(r)
    BY <2>1, <2>2 DEF RowSound
  <2>4. /\ freed.state = "pending" /\ freed.last_error_code = r.last_error_code
        /\ Unleased(freed)
        /\ freed.desired_action = r.desired_action
        /\ freed.mutation_sequence = r.mutation_sequence
        /\ freed.target_revision = r.target_revision
        /\ freed.attempt_count = r.attempt_count
        /\ freed.fenced_claim_epoch = r.fenced_claim_epoch
        /\ freed.last_marked_claim_epoch = r.last_marked_claim_epoch
        /\ freed.last_send_disposition = r.last_send_disposition
        /\ freed \in Row
    BY <2>2, ReleasedFields, ReleasedType
  <2>5. Recover(r, cutoff) = [freed EXCEPT !.claimed_generation = 0]
    BY <1>1 DEF Recover
  <2> DEFINE q == [freed EXCEPT !.claimed_generation = 0]
  <2> HIDE DEF freed
  <2>6. /\ q \in Row /\ q.state = "pending" /\ q.claimed_generation = 0
        /\ q.last_error_code = r.last_error_code /\ Unleased(q)
        /\ q.desired_action = r.desired_action
        /\ q.mutation_sequence = r.mutation_sequence
        /\ q.target_revision = r.target_revision
        /\ q.attempt_count = r.attempt_count
        /\ q.fenced_claim_epoch = r.fenced_claim_epoch
        /\ q.last_marked_claim_epoch = r.last_marked_claim_epoch
        /\ q.last_send_disposition = r.last_send_disposition
    BY <2>4 DEF Row, Unleased
  <2> HIDE DEF q
  <2>7. RowSound(q)
    BY <2>1, <2>6 DEF RowSound
  <2>8. Kept(r, q)
    BY <2>1, <2>2, <2>6 DEF Kept, SameIntent, has_unknown_external_send_evidence
  <2> QED
    BY <2>5, <2>6, <2>7, <2>8 DEF q
<1>2. CASE expired /\ phase = "Durable"
  <2>1. Recover(r, cutoff) = RecoveredDurable(r)
    BY <1>2 DEF Recover
  <2>2. r.attempt_count > 0
    BY <1>2 DEF generation_binding_phase
  <2> QED
    BY <1>2, <2>1, <2>2, RecoveredDurableSound
<1>3. CASE ~(expired /\ phase \in {"Ephemeral", "Durable"})
  <2>1. Recover(r, cutoff) = r
    BY <1>3 DEF Recover
  <2> QED
    BY <2>1, KeptSelf
<1> QED
  BY <1>1, <1>2, <1>3

\* The maintenance of a claim transaction.
LEMMA RepairedSound ==
    ASSUME NEW r \in Row, RowSound(r), NEW cutoff \in Nat
    PROVE  LET q == Repaired(r, cutoff) IN q \in Row /\ RowSound(q) /\ Kept(r, q)
<1> DEFINE p == Recover(r, cutoff)
<1>1. p \in Row /\ RowSound(p) /\ Kept(r, p)
  BY RecoverSound
<1> HIDE DEF p
<1>2. LET q == ConvergeExhausted(p) IN q \in Row /\ RowSound(q) /\ Kept(p, q)
  BY <1>1, ConvergeSound
<1>3. Repaired(r, cutoff) = ConvergeExhausted(p)
  BY QuarantineSound DEF Repaired, p
<1> QED
  BY <1>1, <1>2, <1>3, KeptTransitive

\* The user's manual retry never touches a row whose request may have left.
LEMMA ManuallyRetriedSound ==
    ASSUME NEW r \in Row, RowSound(r)
    PROVE  LET q == ManuallyRetried(r) IN q \in Row /\ RowSound(q) /\ Kept(r, q)
<1>1. CASE r.state \notin {"blocked", "retry_wait"}
  BY <1>1, KeptSelf DEF ManuallyRetried
<1>2. CASE r.state \in {"blocked", "retry_wait"}
  <2>1. ~Malformed(r) /\ attempt_identity_phase(r) # "Invalid" /\ r.state # "absent"
    BY <1>2, SoundIsWellFormed
  <2>2. \/ ManuallyRetried(r) \in {r, ConvergeExhausted(r)}
        \/ /\ ManuallyRetried(r) = Released(r, "pending", "none")
           /\ ~has_unknown_external_send_evidence(r)
    BY <1>2, <2>1, Zenon DEF ManuallyRetried
  <2>3. CASE ManuallyRetried(r) \in {r, ConvergeExhausted(r)}
    BY <2>3, KeptSelf, ConvergeSound
  <2>4. CASE /\ ManuallyRetried(r) = Released(r, "pending", "none")
             /\ ~has_unknown_external_send_evidence(r)
    <3>1. r.attempt_count = 0 => r.claimed_generation = 0
      BY <1>2 DEF RowSound
    <3>2. "none" \in ErrorCodes /\ r.last_error_code # "PROVIDER_RESULT_UNKNOWN"
      BY <2>4 DEF ErrorCodes, has_unknown_external_send_evidence
    <3> QED
      BY <2>1, <2>4, <3>1, <3>2, ReleasedSound
  <2> QED
    BY <2>2, <2>3, <2>4
<1> QED
  BY <1>1, <1>2

\* A claim raises the claim epoch and nothing else that counts; a claimable row has no
\* trace of a request that may have left.
LEMMA ClaimedSound ==
    ASSUME NEW r \in Row, RowSound(r), NEW g \in Nat \ {0}, NEW cutoff \in Nat,
           Claimable(r, g, cutoff), r.fenced_claim_epoch # MaxEpoch,
           NEW o \in Owners, NEW f \in Nat \ {0}, NEW x \in Nat \ {0}
    PROVE  LET q == Claimed(r, o, f, x, g) IN
           /\ q \in Row /\ RowSound(q) /\ SameIntent(r, q)
           /\ ~has_unknown_external_send_evidence(r)
           /\ ~has_unknown_external_send_evidence(q)
           /\ q.state = "processing"
           /\ q.attempt_count = r.attempt_count
           /\ q.fenced_claim_epoch = r.fenced_claim_epoch + 1
           /\ q.last_marked_claim_epoch = r.last_marked_claim_epoch
           /\ r.attempt_count > 0 => q.claimed_generation = r.claimed_generation
<1> DEFINE q == Claimed(r, o, f, x, g)
           unbound == generation_binding_phase(r) = "Unbound"
<1>1. r.state \in {"pending", "retry_wait"} /\ r.state # "absent"
  BY DEF Claimable
<1>2. q \in Row /\ SameIntent(r, q)
  BY <1>1, ClaimedType
<1>3. /\ r.attempt_count \in Nat /\ r.fenced_claim_epoch \in Nat
      /\ r.last_marked_claim_epoch \in Nat /\ r.claimed_generation \in Nat
      /\ r.desired_action \in Actions /\ MaxEpoch \in Nat
  BY BoundsAssumption DEF Row
<1>4. ~has_unknown_external_send_evidence(r)
  BY <1>3 DEF Claimable, is_unknown_upsert_send, is_delete_unknown, Actions
<1>5. unbound <=> r.attempt_count = 0
  BY <1>1, <1>3 DEF RowSound, Unleased, generation_binding_phase
<1>6. /\ q.state = "processing" /\ q.desired_action = r.desired_action
      /\ q.lease_owner = o /\ q.lease_fence_epoch = f /\ q.lease_expires_at = x
      /\ q.attempt_count = r.attempt_count
      /\ q.fenced_claim_epoch = r.fenced_claim_epoch + 1
      /\ q.last_marked_claim_epoch = r.last_marked_claim_epoch
      /\ q.last_error_code = r.last_error_code
      /\ q.claimed_generation = IF unbound THEN g ELSE r.claimed_generation
      /\ q.last_send_disposition = IF unbound THEN "none" ELSE r.last_send_disposition
  BY DEF Claimed, Row
<1> HIDE DEF q, unbound
<1>7. ~has_unknown_external_send_evidence(q)
  BY <1>4, <1>6 DEF has_unknown_external_send_evidence
<1>8. q.claimed_generation > 0 /\ (r.attempt_count > 0 => q.claimed_generation = r.claimed_generation)
  BY <1>3, <1>5, <1>6 DEF RowSound
<1>9. RowSound(q)
  <2>1. r.fenced_claim_epoch < MaxEpoch
    BY <1>3 DEF RowSound
  <2>2. r.last_error_code # "INTERNAL_INVARIANT"
    BY <2>1, <1>3 DEF RowSound
  <2>3. Leased(q)
    BY <1>6, NoOwnerAssumption DEF Leased
  <2> QED
    BY <1>3, <1>6, <1>7, <1>8, <2>1, <2>2, <2>3 DEF RowSound
<1> QED
  BY <1>2, <1>4, <1>6, <1>7, <1>8, <1>9 DEF q

\* A reservation spends one attempt and marks it with the epoch of the claim; an upsert
\* shows from then on that a request may have left.
LEMMA ReservedSound ==
    ASSUME NEW r \in Row, RowSound(r), r.state = "processing",
           r.last_marked_claim_epoch # r.fenced_claim_epoch, r.attempt_count < MaxAttempts
    PROVE  LET q == Reserved(r) IN
           /\ q \in Row /\ RowSound(q) /\ SameIntent(r, q)
           /\ ~has_unknown_external_send_evidence(r)
           /\ has_unknown_external_send_evidence(q) <=> r.desired_action = "upsert"
           /\ q.state = "processing"
           /\ q.attempt_count = r.attempt_count + 1
           /\ q.fenced_claim_epoch = r.fenced_claim_epoch
           /\ q.last_marked_claim_epoch = r.fenced_claim_epoch
           /\ q.claimed_generation = r.claimed_generation
<1> DEFINE q == Reserved(r)
<1>1. q \in Row /\ SameIntent(r, q)
  BY ReservedType
<1>2. /\ r.attempt_count \in Nat /\ r.fenced_claim_epoch \in Nat
      /\ r.last_marked_claim_epoch \in Nat /\ MaxAttempts \in Nat
  BY MaxAttemptsAssumption DEF Row
<1>3. ~has_unknown_external_send_evidence(r)
  BY DEF RowSound
<1>4. /\ q.state = "processing" /\ q.desired_action = r.desired_action
      /\ q.lease_owner = r.lease_owner /\ q.lease_fence_epoch = r.lease_fence_epoch
      /\ q.lease_expires_at = r.lease_expires_at
      /\ q.attempt_count = r.attempt_count + 1
      /\ q.fenced_claim_epoch = r.fenced_claim_epoch
      /\ q.last_marked_claim_epoch = r.fenced_claim_epoch
      /\ q.claimed_generation = r.claimed_generation
      /\ q.last_error_code = r.last_error_code
      /\ q.last_send_disposition =
            IF r.desired_action = "upsert" THEN "possibly_sent" ELSE r.last_send_disposition
  BY DEF Reserved, Row
<1> HIDE DEF q
<1>5. has_unknown_external_send_evidence(q) <=> r.desired_action = "upsert"
  BY <1>3, <1>4 DEF has_unknown_external_send_evidence
<1>6. RowSound(q)
  BY <1>2, <1>4 DEF RowSound, Leased
<1> QED
  BY <1>1, <1>3, <1>4, <1>5, <1>6 DEF q

\* A witnessed Delete shows that its request may have left.
LEMMA WitnessedSound ==
    ASSUME NEW r \in Row, RowSound(r), r.state = "processing",
           r.last_marked_claim_epoch = r.fenced_claim_epoch, NEW t \in Nat
    PROVE  LET q == Witnessed(r, t) IN
           /\ q \in Row /\ RowSound(q) /\ SameIntent(r, q)
           /\ has_unknown_external_send_evidence(q)
           /\ q.state = "processing"
           /\ q.attempt_count = r.attempt_count
           /\ q.fenced_claim_epoch = r.fenced_claim_epoch
           /\ q.last_marked_claim_epoch = r.last_marked_claim_epoch
           /\ q.claimed_generation = r.claimed_generation
<1> DEFINE q == Witnessed(r, t)
<1>1. q \in Row /\ SameIntent(r, q)
  BY WitnessedType
<1>2. /\ q.state = "processing" /\ q.desired_action = r.desired_action
      /\ q.lease_owner = r.lease_owner /\ q.lease_fence_epoch = r.lease_fence_epoch
      /\ q.lease_expires_at = r.lease_expires_at
      /\ q.attempt_count = r.attempt_count
      /\ q.fenced_claim_epoch = r.fenced_claim_epoch
      /\ q.last_marked_claim_epoch = r.last_marked_claim_epoch
      /\ q.claimed_generation = r.claimed_generation
      /\ q.last_error_code = r.last_error_code
      /\ q.last_send_disposition = "possibly_sent"
  BY DEF Witnessed, Row
<1> HIDE DEF q
<1>3. RowSound(q)
  BY <1>2 DEF RowSound, Leased
<1> QED
  BY <1>1, <1>2, <1>3 DEF q, has_unknown_external_send_evidence

\* The row of a finalised failure: its state, code, schedule and disposition.
Failed(r, s, e, t, d) ==
    [Released(r, s, e) EXCEPT !.next_attempt_at = t, !.last_send_disposition = d]

\* A finalised failure shows the evidence of its own call and nothing else.
LEMMA FailedSound ==
    ASSUME NEW r \in Row, RowSound(r), r.state = "processing",
           r.last_marked_claim_epoch = r.fenced_claim_epoch,
           NEW s \in {"blocked", "retry_wait"}, NEW e \in ErrorCodes, NEW t \in Nat,
           NEW d \in Dispositions, e \notin {"INTERNAL_INVARIANT", "VECTOR_TARGET_STALE"},
           e = "PROVIDER_RESULT_UNKNOWN" => d = "possibly_sent"
    PROVE  LET q == Failed(r, s, e, t, d) IN
           /\ q \in Row /\ RowSound(q) /\ SameIntent(r, q)
           /\ has_unknown_external_send_evidence(q) <=> d = "possibly_sent"
           /\ q.attempt_count = r.attempt_count
           /\ q.fenced_claim_epoch = r.fenced_claim_epoch
           /\ q.last_marked_claim_epoch = r.last_marked_claim_epoch
           /\ q.claimed_generation = r.claimed_generation
<1> DEFINE p == Released(r, s, e)
           q == [p EXCEPT !.next_attempt_at = t, !.last_send_disposition = d]
<1>1. q \in Row /\ SameIntent(r, q)
  BY FailedType
<1>2. /\ p \in Row /\ p.state = s /\ p.last_error_code = e /\ Unleased(p)
      /\ p.desired_action = r.desired_action
      /\ p.attempt_count = r.attempt_count
      /\ p.claimed_generation = r.claimed_generation
      /\ p.fenced_claim_epoch = r.fenced_claim_epoch
      /\ p.last_marked_claim_epoch = r.last_marked_claim_epoch
  <2>1. s \in States
    BY DEF States
  <2> QED
    BY <2>1, ReleasedFields, ReleasedType
<1> HIDE DEF p
<1>3. /\ q.state = s /\ q.last_error_code = e /\ Unleased(q)
      /\ q.desired_action = r.desired_action
      /\ q.attempt_count = r.attempt_count
      /\ q.claimed_generation = r.claimed_generation
      /\ q.fenced_claim_epoch = r.fenced_claim_epoch
      /\ q.last_marked_claim_epoch = r.last_marked_claim_epoch
      /\ q.last_send_disposition = d
  BY <1>2 DEF Row, Unleased
<1> HIDE DEF q
<1>4. r.attempt_count # 0
  <2>1. r.fenced_claim_epoch > 0 /\ r.attempt_count \in Nat
    BY DEF RowSound, Row
  <2> QED
    BY <2>1 DEF RowSound
<1>5. RowSound(q)
  BY <1>3, <1>4 DEF RowSound
<1>6. has_unknown_external_send_evidence(q) <=> d = "possibly_sent"
  BY <1>3 DEF has_unknown_external_send_evidence
<1> QED
  BY <1>1, <1>3, <1>5, <1>6 DEF p, q, Failed

\* An enqueued row starts afresh.
LEMMA EnqueuedSound ==
    ASSUME NEW r \in Row, NEW a \in Actions, NEW s \in Nat, NEW v \in Nat
    PROVE  LET q == Enqueued(r, a, s, v) IN
           /\ q \in Row /\ RowSound(q)
           /\ ~has_unknown_external_send_evidence(q)
           /\ q.state = "pending" /\ q.desired_action = a /\ q.mutation_sequence = s
           /\ q.target_revision = IF a = "upsert" THEN v ELSE 0
<1> DEFINE q == Enqueued(r, a, s, v)
<1>1. /\ q \in Row /\ q.desired_action = a /\ q.mutation_sequence = s
      /\ q.target_revision = IF a = "upsert" THEN v ELSE 0
      /\ q.state = "pending"
  BY EnqueuedType
<1>2. /\ q.attempt_count = 0 /\ q.claimed_generation = 0 /\ Unleased(q)
      /\ q.fenced_claim_epoch = 0 /\ q.last_marked_claim_epoch = 0
      /\ q.last_send_disposition = "none" /\ q.last_error_code = "none"
  BY DEF Enqueued, EmptyRow, Unleased
<1> HIDE DEF q
<1>3. RowSound(q)
  BY <1>1, <1>2, MaxAttemptsAssumption, BoundsAssumption DEF RowSound
<1> QED
  BY <1>1, <1>2, <1>3 DEF q, has_unknown_external_send_evidence

-----------------------------------------------------------------------------
(* The synchronisation *)

\* No row appears, disappears or changes what it asks for.
IntentKept == \A m \in Memories : SameIntent(outbox[m], outbox'[m])

-----------------------------------------------------------------------------
(* Updating one row, or one drain *)

\* Leaving the outbox alone keeps it well formed.
LEMMA SameRows ==
    ASSUME OutboxOK, outbox' = outbox
    PROVE  OutboxOK' /\ IntentKept
BY DEF OutboxOK, Present, IntentKept, SameIntent

\* Replacing one row by another of the same intent keeps the outbox well formed.
LEMMA SetRow ==
    ASSUME OutboxOK, NEW m \in Memories, NEW q \in Row, SameIntent(outbox[m], q),
           outbox' = [outbox EXCEPT ![m] = q]
    PROVE  OutboxOK' /\ IntentKept
<1>1. outbox' \in [Memories -> Row]
  BY DEF OutboxOK
<1>2. IntentKept
  BY DEF OutboxOK, IntentKept, SameIntent
<1> QED
  BY <1>1, <1>2 DEF OutboxOK, Present, IntentKept, SameIntent

\* Replacing every row by one of the same intent keeps the outbox well formed.
LEMMA SetRows ==
    ASSUME OutboxOK, outbox' \in [Memories -> Row], IntentKept
    PROVE  OutboxOK'
BY DEF OutboxOK, Present, IntentKept, SameIntent

\* Leaving the drains alone keeps them well formed.
LEMMA SameWorkers ==
    ASSUME WorkersOK, worker' = worker
    PROVE  WorkersOK'
BY DEF WorkersOK, DrainOK

\* Replacing one drain by a well-formed one keeps them all well formed.
LEMMA SetWorker ==
    ASSUME WorkersOK, NEW w \in Workers, NEW d \in Drain, DrainOK(d),
           worker' = [worker EXCEPT ![w] = d]
    PROVE  WorkersOK'
<1>1. worker' \in [Workers -> Drain]
  BY DEF WorkersOK
<1>2. ASSUME NEW v \in Workers PROVE DrainOK(worker'[v])
  <2>1. CASE v = w
    <3>1. worker'[v] = d
      BY <2>1 DEF WorkersOK
    <3> QED
      BY <3>1
  <2>2. CASE v # w
    <3>1. worker'[v] = worker[v]
      BY <2>2 DEF WorkersOK
    <3> QED
      BY <3>1 DEF WorkersOK
  <2> QED
    BY <2>1, <2>2
<1> QED
  BY <1>1, <1>2 DEF WorkersOK, DrainOK

\* The idle drain is well formed.
LEMMA IdleOK == Idle \in Drain /\ DrainOK(Idle)
BY DEF Idle, NoClaim, Drain, DrainOK, Pcs, Claim, Actions

\* A drain that returns leaves the drains well formed.
LEMMA StopOK ==
    ASSUME WorkersOK, NEW w \in Workers, Stop(w)
    PROVE  WorkersOK'
BY IdleOK, SetWorker DEF Stop

\* Going on to the next event, or stopping at the limit, keeps the drains well
\* formed.
LEMMA NextEventOK ==
    ASSUME WorkersOK, NEW w \in Workers, Pc(w) # "idle", NextEvent(w)
    PROVE  WorkersOK'
<1> DEFINE d == worker[w]
           e == [d EXCEPT !.pc = "drain", !.left = d.left - 1,
                          !.claim = NoClaim, !.failure = NoFailure]
<1>1. d \in Drain /\ DrainOK(d) /\ d.pc # "idle"
  BY DEF WorkersOK, Pc
<1>2. worker' = [worker EXCEPT ![w] = IF d.left = 1 THEN Idle ELSE e]
  BY DEF NextEvent
<1>3. CASE d.left = 1
  BY <1>2, <1>3, IdleOK, SetWorker
<1>4. CASE d.left # 1
  <2>1. d.left \in Nat /\ d.left > 1
    BY <1>1, <1>4 DEF Drain, DrainOK
  <2>2. NoClaim \in Claim
    BY DEF NoClaim, Claim, Actions
  <2>3. "drain" \in Pcs
    BY DEF Pcs
  <2>4. e \in Drain /\ e.pc = "drain" /\ e.left > 0
    <3>1. d.left - 1 \in Nat /\ d.left - 1 > 0
      BY <2>1
    <3> HIDE DEF d
    <3> QED
      BY <1>1, <2>2, <2>3, <3>1 DEF Drain
  <2>5. DrainOK(e)
    BY <2>4 DEF DrainOK
  <2> HIDE DEF e
  <2> QED
    BY <1>2, <1>4, <2>4, <2>5, SetWorker
<1> QED
  BY <1>3, <1>4

\* Moving a drain that holds a claim to another point of its work.
LEMMA GotoOK ==
    ASSUME WorkersOK, NEW w \in Workers, NEW pc \in Pcs, Pc(w) \notin {"idle", "drain"},
           pc # "failed", Goto(w, pc)
    PROVE  WorkersOK'
<1> DEFINE d == worker[w]
           e == [d EXCEPT !.pc = pc]
<1>1. d \in Drain /\ DrainOK(d) /\ d.pc \notin {"idle", "drain"}
  BY DEF WorkersOK, Pc
<1>2. worker' = [worker EXCEPT ![w] = e]
  BY DEF Goto
<1> HIDE DEF d
<1>3. e \in Drain /\ DrainOK(e)
  BY <1>1 DEF Drain, DrainOK
<1> HIDE DEF e
<1> QED
  BY <1>2, <1>3, SetWorker

\* Recording the failure of a call.
LEMMA FailOK ==
    ASSUME WorkersOK, NEW w \in Workers, NEW f \in Failures,
           Pc(w) \notin {"idle", "drain"}, Fail(w, f)
    PROVE  WorkersOK'
<1> DEFINE d == worker[w]
           e == [d EXCEPT !.pc = "failed", !.failure = f]
<1>1. d \in Drain /\ DrainOK(d) /\ d.pc \notin {"idle", "drain"}
  BY DEF WorkersOK, Pc
<1>2. worker' = [worker EXCEPT ![w] = e]
  BY DEF Fail
<1>3. f # NoFailure
  BY DEF Failures, EmbeddingFailures, InvalidVector, LanceFailures, NoFailure
<1>4. "failed" \in Pcs
  BY DEF Pcs
<1> HIDE DEF d
<1>5. e \in Drain /\ DrainOK(e)
  BY <1>1, <1>3, <1>4 DEF Drain, DrainOK
<1> HIDE DEF e
<1> QED
  BY <1>2, <1>5, SetWorker

-----------------------------------------------------------------------------
(* One lemma per action: the type invariant, and what becomes of intents *)

\* The step leaves memories, recorded items, the mutation clock and every row's
\* intent alone.
Internal == IntentKept /\ UNCHANGED <<memory, item, clock>>

\* Starting a drain.
LEMMA StartDrainStep ==
    ASSUME TypeOK, NEW w \in Workers, StartDrain(w)
    PROVE  TypeOK' /\ Internal
<1>1. PICK limit \in 1 .. DrainLimit :
         worker' = [worker EXCEPT ![w] = [Idle EXCEPT !.pc = "drain", !.generation = active,
                                                      !.cutoff = now, !.left = limit]]
  BY DEF StartDrain
<1> DEFINE d == [Idle EXCEPT !.pc = "drain", !.generation = active,
                             !.cutoff = now, !.left = limit]
<1>2. limit \in Nat /\ limit > 0 /\ active \in Nat /\ now \in Nat
  BY LimitAssumption DEF TypeOK
<1>3. d \in Drain /\ DrainOK(d)
  BY <1>2 DEF Idle, NoClaim, Drain, DrainOK, Pcs, Claim, Actions
<1> HIDE DEF d
<1>4. WorkersOK'
  BY <1>1, <1>3, SetWorker DEF TypeOK, d
<1> QED
  BY <1>4, SameRows DEF TypeOK, StartDrain, Internal

\* A refused claim.
LEMMA ClaimRefusedStep ==
    ASSUME TypeOK, NEW w \in Workers, ClaimRefused(w)
    PROVE  TypeOK' /\ Internal
<1>1. WorkersOK'
  BY StopOK DEF TypeOK, ClaimRefused
<1> QED
  BY <1>1, SameRows DEF TypeOK, ClaimRefused, Internal

\* The runtime lease after a claim transaction is well typed.
LEMMA LeaseAfterType ==
    ASSUME TypeOK, NEW w \in Workers
    PROVE  /\ LeaseAfter(OwnerOf[w]) \in [owner : Owners \cup {NoOwner}, fence : Nat, expires : Nat]
           /\ LeaseAfter(OwnerOf[w]).fence \in Nat
           /\ LeaseAfter(OwnerOf[w]).expires \in Nat
<1>1. OwnerOf[w] \in Owners
  BY OwnerOfAssumption
<1>2. now + LeaseTicks \in Nat
  BY TimeAssumption DEF TypeOK
<1>3. lease.fence \in Nat /\ lease.fence + 1 \in Nat
  BY DEF TypeOK
<1>4. (IF Renews(OwnerOf[w]) THEN lease.fence ELSE lease.fence + 1) \in Nat
  BY <1>3
<1> QED
  BY <1>1, <1>2, <1>4 DEF LeaseAfter

\* The claim transaction: repair, selection and claim of a row.
LEMMA ClaimOneStep ==
    ASSUME TypeOK, NEW w \in Workers, ClaimOne(w)
    PROVE  TypeOK' /\ Internal
<1> DEFINE o == OwnerOf[w]
           d == worker[w]
           rows == [m \in Memories |-> Repaired(outbox[m], d.cutoff)]
           ready == {m \in Memories : d.generation = active
                                        /\ Claimable(rows[m], active, d.cutoff)}
<1>1. d \in Drain /\ d.cutoff \in Nat /\ d.left > 0
  BY DEF TypeOK, WorkersOK, Drain, DrainOK, ClaimOne, Pc
<1>2. ASSUME NEW m \in Memories
      PROVE  rows[m] \in Row /\ SameIntent(outbox[m], rows[m])
  BY <1>1, RepairedType DEF TypeOK, OutboxOK
<1>3. rows \in [Memories -> Row]
  BY <1>2
<1>4. ASSUME NEW m \in ready
      PROVE  rows[m].state # "absent" /\ rows[m].mutation_sequence \in Mutations
  <2>1. rows[m].state # "absent"
    BY DEF Claimable
  <2>2. SameIntent(outbox[m], rows[m])
    BY <1>2
  <2> HIDE DEF rows
  <2> QED
    BY <2>1, <2>2 DEF SameIntent, TypeOK, OutboxOK, Present
<1>5. lease' \in [owner : Owners \cup {NoOwner}, fence : Nat, expires : Nat]
  BY LeaseAfterType DEF ClaimOne
<1>6. /\ UNCHANGED <<memory, clock, resolution, active, item, store, now, calls>>
      /\ Pc(w) = "drain"
  BY DEF ClaimOne
<1>7. \/ outbox' = rows /\ Stop(w)
      \/ \E m \in ready : outbox' = [rows EXCEPT ![m] = BlockInvariant(rows[m])] /\ Stop(w)
      \/ \E m \in ready :
           /\ outbox' = [rows EXCEPT ![m] =
                 Claimed(rows[m], o, LeaseAfter(o).fence, LeaseAfter(o).expires, active)]
           /\ worker' = [worker EXCEPT ![w].pc = "claimed", ![w].claim =
                 [memory |-> m, action |-> rows[m].desired_action,
                  sequence |-> rows[m].mutation_sequence,
                  target |-> rows[m].target_revision, generation |-> active,
                  fence |-> LeaseAfter(o).fence,
                  epoch |-> rows[m].fenced_claim_epoch + 1, ordinal |-> 0]]
  BY DEF ClaimOne
<1> HIDE DEF rows, ready
<1>8. OutboxOK' /\ IntentKept
  <2>1. CASE outbox' = rows
    <3>1. IntentKept
      BY <1>2, <2>1 DEF IntentKept
    <3> QED
      BY <1>3, <2>1, <3>1, SetRows DEF TypeOK
  <2>2. ASSUME NEW m \in ready, NEW q \in Row, SameIntent(rows[m], q),
               outbox' = [rows EXCEPT ![m] = q]
        PROVE  OutboxOK' /\ IntentKept
    <3>0. m \in Memories
      BY DEF ready
    <3>1. outbox' \in [Memories -> Row]
      BY <1>3, <2>2, <3>0
    <3>2. IntentKept
      BY <1>2, <1>3, <2>2, <3>0 DEF IntentKept, SameIntent
    <3> QED
      BY <3>1, <3>2, SetRows DEF TypeOK
  <2>3. ASSUME NEW m \in ready, outbox' = [rows EXCEPT ![m] = BlockInvariant(rows[m])]
        PROVE  OutboxOK' /\ IntentKept
    <3>1. m \in Memories /\ rows[m] \in Row
      BY <1>2 DEF ready
    <3>2. BlockInvariant(rows[m]) \in Row /\ SameIntent(rows[m], BlockInvariant(rows[m]))
      BY <1>4, <3>1, BlockInvariantType
    <3> QED
      BY <2>2, <2>3, <3>2
  <2>4. ASSUME NEW m \in ready,
               outbox' = [rows EXCEPT ![m] =
                 Claimed(rows[m], o, LeaseAfter(o).fence, LeaseAfter(o).expires, active)]
        PROVE  OutboxOK' /\ IntentKept
    <3> DEFINE q == Claimed(rows[m], o, LeaseAfter(o).fence, LeaseAfter(o).expires, active)
    <3>1. m \in Memories /\ rows[m] \in Row
      BY <1>2 DEF ready
    <3>2. o \in Owners /\ LeaseAfter(o).fence \in Nat /\ LeaseAfter(o).expires \in Nat
            /\ active \in Nat
      BY LeaseAfterType, OwnerOfAssumption DEF TypeOK
    <3>3. q \in Row /\ SameIntent(rows[m], q)
      BY <1>4, <3>1, <3>2, ClaimedType
    <3> HIDE DEF q
    <3>4. outbox' = [rows EXCEPT ![m] = q]
      BY <2>4 DEF q
    <3> QED
      BY <2>2, <3>3, <3>4
  <2> QED
    BY <1>7, <2>1, <2>3, <2>4
<1>9. WorkersOK'
  <2>1. CASE Stop(w)
    BY <2>1, StopOK DEF TypeOK
  <2>2. ASSUME NEW m \in ready,
               worker' = [worker EXCEPT ![w].pc = "claimed", ![w].claim =
                 [memory |-> m, action |-> rows[m].desired_action,
                  sequence |-> rows[m].mutation_sequence,
                  target |-> rows[m].target_revision, generation |-> active,
                  fence |-> LeaseAfter(o).fence,
                  epoch |-> rows[m].fenced_claim_epoch + 1, ordinal |-> 0]]
        PROVE  WorkersOK'
    <3> DEFINE c == [memory |-> m, action |-> rows[m].desired_action,
                     sequence |-> rows[m].mutation_sequence,
                     target |-> rows[m].target_revision, generation |-> active,
                     fence |-> LeaseAfter(o).fence,
                     epoch |-> rows[m].fenced_claim_epoch + 1, ordinal |-> 0]
               e == [d EXCEPT !.pc = "claimed", !.claim = c]
    <3>1. m \in Memories /\ rows[m] \in Row /\ rows[m].mutation_sequence \in Mutations
      BY <1>2, <1>4 DEF ready
    <3>2. /\ rows[m].desired_action \in Actions
          /\ rows[m].mutation_sequence \in Nat
          /\ rows[m].target_revision \in Nat
          /\ rows[m].fenced_claim_epoch + 1 \in Nat
          /\ LeaseAfter(o).fence \in Nat
          /\ active \in Nat
      BY <3>1, LeaseAfterType DEF Row, TypeOK
    <3>3. c \in Claim /\ c.memory \in Memories /\ c.sequence \in Mutations
      BY <3>1, <3>2 DEF Claim
    <3>4. worker' = [worker EXCEPT ![w] = e]
      BY <2>2
    <3>5. "claimed" \in Pcs
      BY DEF Pcs
    <3> HIDE DEF c, d
    <3>6. e \in Drain /\ DrainOK(e)
      BY <1>1, <3>3, <3>5 DEF Drain, DrainOK
    <3> HIDE DEF e
    <3> QED
      BY <3>4, <3>6, SetWorker DEF TypeOK
  <2> QED
    BY <1>7, <2>1, <2>2
<1> QED
  BY <1>5, <1>6, <1>8, <1>9 DEF TypeOK, Internal

\* Reading the document of a claim.
LEMMA ReadDocumentStep ==
    ASSUME TypeOK, NEW w \in Workers, ReadDocument(w)
    PROVE  TypeOK' /\ Internal
<1>1. \E pc \in {"read", "stale"} : Goto(w, pc)
  BY DEF ReadDocument
<1>2. Pc(w) = "claimed"
  BY DEF ReadDocument
<1>3. {"read", "stale"} \subseteq Pcs
  BY DEF Pcs
<1>4. WorkersOK'
  BY <1>1, <1>2, <1>3, GotoOK DEF TypeOK
<1> QED
  BY <1>4, SameRows DEF TypeOK, ReadDocument, Internal

\* A drain past its claim refers to an existing memory and mutation; when the
\* claim is current its row is present.
LEMMA ClaimHeld ==
    ASSUME TypeOK, NEW w \in Workers, Pc(w) \notin {"idle", "drain"}
    PROVE  /\ worker[w] \in Drain
           /\ DrainOK(worker[w])
           /\ worker[w].claim \in Claim
           /\ worker[w].claim.memory \in Memories
           /\ worker[w].claim.sequence \in Mutations
           /\ outbox[worker[w].claim.memory] \in Row
           /\ ClaimCurrent(w) => outbox[worker[w].claim.memory].state # "absent"
<1>1. worker[w] \in Drain /\ DrainOK(worker[w])
  BY DEF TypeOK, WorkersOK
<1>2. /\ worker[w].claim \in Claim
      /\ worker[w].claim.memory \in Memories
      /\ worker[w].claim.sequence \in Mutations
  BY <1>1 DEF Drain, DrainOK, Pc
<1>3. ClaimCurrent(w) => outbox[worker[w].claim.memory].state = "processing"
  BY DEF ClaimCurrent
<1>4. outbox[worker[w].claim.memory] \in Row
  BY <1>2 DEF TypeOK, OutboxOK
<1> QED
  BY <1>1, <1>2, <1>3, <1>4

\* Blocking a stale target.
LEMMA BlockTargetStaleStep ==
    ASSUME TypeOK, NEW w \in Workers, BlockTargetStale(w)
    PROVE  TypeOK' /\ Internal
<1> DEFINE m == worker[w].claim.memory
<1>1. Pc(w) = "stale" /\ UNCHANGED <<memory, clock, resolution, lease, active, item, store, now, calls>>
  BY DEF BlockTargetStale
<1>2. m \in Memories /\ outbox[m] \in Row /\ (ClaimCurrent(w) => outbox[m].state # "absent")
  BY <1>1, ClaimHeld
<1>3. \/ ClaimCurrent(w) /\ outbox' = [outbox EXCEPT ![m] = StaleTarget(outbox[m])] /\ NextEvent(w)
      \/ outbox' = outbox /\ Stop(w)
  BY DEF BlockTargetStale
<1> HIDE DEF m
<1>4. OutboxOK' /\ IntentKept
  BY <1>2, <1>3, StaleTargetType, SetRow, SameRows DEF TypeOK
<1>5. WorkersOK'
  BY <1>1, <1>3, NextEventOK, StopOK DEF TypeOK
<1> QED
  BY <1>1, <1>4, <1>5 DEF TypeOK, Internal

\* Reserving an attempt, in each of its outcomes.
LEMMA ReserveStep ==
    ASSUME TypeOK, NEW w \in Workers, Reserve(w)
    PROVE  TypeOK' /\ Internal
<1> DEFINE m == worker[w].claim.memory
           hold(n) == worker' = [worker EXCEPT ![w].pc = "reserved", ![w].claim.ordinal = n]
           exhausted == Released(outbox[m], "blocked",
                                 exhausted_attempt_budget_error_code(outbox[m]))
<1>1. /\ Pc(w) \in {"read", "claimed"}
      /\ UNCHANGED <<memory, clock, resolution, lease, active, item, store, now, calls>>
  BY DEF Reserve
<1>2. /\ m \in Memories /\ outbox[m] \in Row /\ worker[w] \in Drain /\ DrainOK(worker[w])
      /\ worker[w].claim \in Claim
      /\ ClaimCurrent(w) => outbox[m].state # "absent"
  BY <1>1, ClaimHeld
<1>3. \/ outbox' = outbox /\ Stop(w)
      \/ ClaimCurrent(w) /\ outbox' = [outbox EXCEPT ![m] = BlockInvariant(outbox[m])] /\ Stop(w)
      \/ outbox' = outbox /\ hold(outbox[m].attempt_count)
      \/ ClaimCurrent(w) /\ outbox' = [outbox EXCEPT ![m] = exhausted] /\ Stop(w)
      \/ /\ outbox' = [outbox EXCEPT ![m] = Reserved(outbox[m])]
         /\ hold(outbox[m].attempt_count + 1)
  BY DEF Reserve
<1>4. ClaimCurrent(w) => exhausted \in Row /\ SameIntent(outbox[m], exhausted)
  <2>1. "blocked" \in States
    BY DEF States
  <2> QED
    <3> DEFINE code == exhausted_attempt_budget_error_code(outbox[m])
    <3>1. code \in ErrorCodes
      BY <1>2, ExhaustedCodeType
    <3>2. exhausted = Released(outbox[m], "blocked", code)
      OBVIOUS
    <3> HIDE DEF exhausted, code, m
    <3> QED
      BY <1>2, <2>1, <3>1, <3>2, ReleasedType DEF SameIntent
<1>5. OutboxOK' /\ IntentKept
  <2> HIDE DEF m, exhausted, hold
  <2>1. OutboxOK
    BY DEF TypeOK
  <2>2. CASE outbox' = outbox
    BY <2>1, <2>2, SameRows
  <2>3. CASE ClaimCurrent(w) /\ outbox' = [outbox EXCEPT ![m] = BlockInvariant(outbox[m])]
    BY <1>2, <2>1, <2>3, BlockInvariantType, SetRow
  <2>4. CASE ClaimCurrent(w) /\ outbox' = [outbox EXCEPT ![m] = exhausted]
    BY <1>2, <1>4, <2>1, <2>4, SetRow
  <2>5. CASE outbox' = [outbox EXCEPT ![m] = Reserved(outbox[m])]
    BY <1>2, <2>1, <2>5, ReservedType, SetRow
  <2> QED
    BY <1>3, <2>2, <2>3, <2>4, <2>5
<1>6. WorkersOK'
  <2>1. CASE Stop(w)
    BY <2>1, StopOK DEF TypeOK
  <2>2. ASSUME NEW n \in Nat, hold(n) PROVE WorkersOK'
    <3> DEFINE d == worker[w]
               c == [d.claim EXCEPT !.ordinal = n]
               e == [d EXCEPT !.pc = "reserved", !.claim = c]
    <3>1. worker' = [worker EXCEPT ![w] = e]
      BY <2>2
    <3>2. c \in Claim /\ c.memory \in Memories /\ c.sequence \in Mutations
      <4>1. d.claim \in Claim /\ d.claim.memory \in Memories /\ d.claim.sequence \in Mutations
        BY <1>1, ClaimHeld
      <4> HIDE DEF d
      <4> QED
        BY <4>1 DEF Claim
    <3>3. "reserved" \in Pcs
      BY DEF Pcs
    <3>4. d \in Drain /\ d.left > 0
      BY <1>1, <1>2 DEF DrainOK, Pc
    <3> HIDE DEF c, d
    <3>5. e \in Drain /\ DrainOK(e)
      BY <3>2, <3>3, <3>4 DEF Drain, DrainOK
    <3> HIDE DEF e
    <3> QED
      BY <3>1, <3>5, SetWorker DEF TypeOK
  <2>3. outbox[m].attempt_count \in Nat /\ outbox[m].attempt_count + 1 \in Nat
    BY <1>2 DEF Row
  <2> HIDE DEF hold, m
  <2> QED
    BY <1>3, <2>1, <2>2, <2>3
<1> QED
  BY <1>1, <1>5, <1>6 DEF TypeOK, Internal

CallCounts == [Mutations -> [embed : Nat, unsent : Nat, write : Nat]]

\* Counting one more call keeps the history well typed.
LEMMA CountCall ==
    ASSUME TypeOK, NEW s \in Mutations
    PROVE  /\ [calls EXCEPT ![s].embed = @ + 1] \in CallCounts
           /\ [calls EXCEPT ![s].unsent = @ + 1] \in CallCounts
           /\ [calls EXCEPT ![s].write = @ + 1] \in CallCounts
<1>1. calls[s] \in [embed : Nat, unsent : Nat, write : Nat]
  BY DEF TypeOK
<1>2. calls[s].embed + 1 \in Nat /\ calls[s].unsent + 1 \in Nat /\ calls[s].write + 1 \in Nat
  BY <1>1
<1> QED
  BY <1>1, <1>2 DEF TypeOK, CallCounts

\* Requesting an embedding.
LEMMA CallEmbeddingStep ==
    ASSUME TypeOK, NEW w \in Workers, CallEmbedding(w)
    PROVE  TypeOK' /\ Internal
<1>1. /\ Pc(w) = "reserved"
      /\ UNCHANGED <<memory, clock, outbox, resolution, lease, active, item, store, now>>
      /\ \/ Goto(w, "embedding") /\ calls' = [calls EXCEPT ![worker[w].claim.sequence].embed = @ + 1]
         \/ Stop(w) /\ UNCHANGED calls
  BY DEF CallEmbedding
<1>2. worker[w].claim.sequence \in Mutations
  BY <1>1, ClaimHeld
<1>3. calls' \in CallCounts
  <2>1. calls \in CallCounts
    BY DEF TypeOK, CallCounts
  <2> DEFINE s == worker[w].claim.sequence
  <2>2. calls' = calls \/ calls' = [calls EXCEPT ![s].embed = @ + 1]
    BY <1>1
  <2>3. s \in Mutations
    BY <1>2
  <2> HIDE DEF s
  <2> QED
    BY <2>1, <2>2, <2>3, CountCall
<1>4. "embedding" \in Pcs
  BY DEF Pcs
<1>5. WorkersOK'
  BY <1>1, <1>4, GotoOK, StopOK DEF TypeOK
<1> QED
  BY <1>1, <1>3, <1>5, SameRows DEF TypeOK, Internal, CallCounts

\* The answer of the embedding provider.
LEMMA EmbeddingReturnsStep ==
    ASSUME TypeOK, NEW w \in Workers, EmbeddingReturns(w)
    PROVE  TypeOK' /\ Internal
<1>1. /\ Pc(w) = "embedding"
      /\ UNCHANGED <<memory, clock, outbox, resolution, lease, active, item, store, now>>
      /\ \/ Goto(w, "embedded")
         \/ \E f \in EmbeddingFailures \cup {InvalidVector} : Fail(w, f)
      /\ \/ calls' = calls
         \/ calls' = [calls EXCEPT ![worker[w].claim.sequence].unsent = @ + 1]
  BY DEF EmbeddingReturns
<1>2. worker[w].claim.sequence \in Mutations
  BY <1>1, ClaimHeld
<1>3. calls' \in CallCounts
  <2>1. calls \in CallCounts
    BY DEF TypeOK, CallCounts
  <2> DEFINE s == worker[w].claim.sequence
  <2>2. calls' = calls \/ calls' = [calls EXCEPT ![s].unsent = @ + 1]
    BY <1>1
  <2>3. s \in Mutations
    BY <1>2
  <2> HIDE DEF s
  <2> QED
    BY <2>1, <2>2, <2>3, CountCall
<1>4. "embedded" \in Pcs
  BY DEF Pcs
<1>5. EmbeddingFailures \cup {InvalidVector} \subseteq Failures
  BY Zenon DEF Failures
<1>6. WorkersOK'
  BY <1>1, <1>4, <1>5, GotoOK, FailOK DEF TypeOK
<1> QED
  BY <1>1, <1>3, <1>6, SameRows DEF TypeOK, Internal, CallCounts

\* Closing a resolution keeps it well typed.
LEMMA ConcludedType ==
    ASSUME NEW r \in Resolutions, NEW state \in ResolutionStates
    PROVE  Concluded(r, state) \in Resolutions
BY DEF Concluded, Resolutions

\* Ensuring a resolution keeps the table well typed.
LEMMA EnsureResolutionType ==
    ASSUME TypeOK, NEW c \in Claim, c.memory \in Memories,
           c.sequence \in Mutations, NEW t \in Nat,
           EnsureResolution(c, t)
    PROVE  resolution' \subseteq Resolutions
<1> DEFINE r == NewResolution(c, t)
<1>1. r \in Resolutions
  BY DEF NewResolution, Resolutions, ResolutionStates, Claim
<1>2. resolution' \subseteq resolution \cup {r}
  BY Zenon DEF EnsureResolution
<1>3. resolution \subseteq Resolutions
  BY DEF TypeOK
<1> HIDE DEF r
<1> QED
  BY <1>1, <1>2, <1>3

\* Witnessing a Delete.
LEMMA MarkWitnessStep ==
    ASSUME TypeOK, NEW w \in Workers, MarkWitness(w)
    PROVE  TypeOK' /\ Internal
<1> DEFINE c == worker[w].claim
           q == Witnessed(outbox[c.memory], now)
<1>1. /\ Pc(w) = "reserved"
      /\ UNCHANGED <<memory, clock, lease, active, item, store, now, calls>>
      /\ \/ /\ outbox' = [outbox EXCEPT ![c.memory] = q]
            /\ EnsureResolution(c, q.delete_witness_at)
            /\ Goto(w, "witnessed")
         \/ outbox' = outbox /\ resolution' = resolution /\ Stop(w)
  BY DEF MarkWitness
<1>2. /\ c \in Claim /\ c.memory \in Memories /\ c.sequence \in Mutations
      /\ outbox[c.memory] \in Row
  BY <1>1, ClaimHeld
<1>3. q \in Row /\ SameIntent(outbox[c.memory], q)
  BY <1>2, WitnessedType DEF TypeOK
<1>4. q.delete_witness_at \in Nat
  BY <1>3 DEF Row
<1> HIDE DEF q, c
<1>5. OutboxOK' /\ IntentKept
  BY <1>1, <1>2, <1>3, SetRow, SameRows DEF TypeOK
<1>6. resolution' \subseteq Resolutions
  BY <1>1, <1>2, <1>4, EnsureResolutionType DEF TypeOK
<1>7. "witnessed" \in Pcs
  BY DEF Pcs
<1>8. WorkersOK'
  BY <1>1, <1>7, GotoOK, StopOK DEF TypeOK
<1> QED
  BY <1>1, <1>5, <1>6, <1>8 DEF TypeOK, Internal

\* Requesting the LanceDB write.
LEMMA CallLanceStep ==
    ASSUME TypeOK, NEW w \in Workers, CallLance(w)
    PROVE  TypeOK' /\ Internal
<1> DEFINE s == worker[w].claim.sequence
<1>1. /\ Pc(w) \in {"embedded", "witnessed"}
      /\ UNCHANGED <<memory, clock, outbox, resolution, lease, active, item, store, now>>
      /\ \/ Goto(w, "writing") /\ calls' = [calls EXCEPT ![s].write = @ + 1]
         \/ Stop(w) /\ calls' = calls
  BY DEF CallLance
<1>2. s \in Mutations
  BY <1>1, ClaimHeld
<1> HIDE DEF s
<1>3. calls' \in CallCounts
  <2>1. calls \in CallCounts
    BY DEF TypeOK, CallCounts
  <2> QED
    BY <1>1, <1>2, <2>1, CountCall
<1>4. "writing" \in Pcs
  BY DEF Pcs
<1>5. WorkersOK'
  BY <1>1, <1>4, GotoOK, StopOK DEF TypeOK
<1> QED
  BY <1>1, <1>3, <1>5, SameRows DEF TypeOK, Internal, CallCounts

\* A write that lands keeps the store well typed.
LEMMA LandedType ==
    ASSUME TypeOK, NEW w \in Workers, Pc(w) \notin {"idle", "drain"}
    PROVE  Landed(w) \in [Memories -> Nat]
<1>1. worker[w].claim.memory \in Memories /\ worker[w].claim.target \in Nat
  BY ClaimHeld DEF Claim
<1> QED
  BY <1>1 DEF Landed, TypeOK

\* The answer of LanceDB.
LEMMA LanceReturnsStep ==
    ASSUME TypeOK, NEW w \in Workers, LanceReturns(w)
    PROVE  TypeOK' /\ Internal
<1>1. /\ Pc(w) = "writing"
      /\ UNCHANGED <<memory, clock, outbox, resolution, lease, active, item, now, calls>>
      /\ store' = store \/ store' = Landed(w)
      /\ Goto(w, "wrote") \/ \E f \in LanceFailures : Fail(w, f)
  BY DEF LanceReturns
<1>2. store' \in [Memories -> Nat]
  BY <1>1, LandedType DEF TypeOK
<1>3. "wrote" \in Pcs
  BY DEF Pcs
<1>4. LanceFailures \subseteq Failures
  BY Zenon DEF Failures
<1>5. WorkersOK'
  BY <1>1, <1>3, <1>4, GotoOK, FailOK DEF TypeOK
<1> QED
  BY <1>1, <1>2, <1>5, SameRows DEF TypeOK, Internal

\* The row of m is removed and its own target put on record.
SettlesRow(m) ==
    /\ outbox[m].state # "absent"
    /\ outbox' = [outbox EXCEPT ![m] = EmptyRow]
    /\ item' = [item EXCEPT ![m] = outbox[m].target_revision]
    /\ memory' = memory /\ clock' = clock

\* Finalising a success either settles the row as it stands or changes nothing.
LEMMA FinalizeSuccessStep ==
    ASSUME TypeOK, NEW w \in Workers, FinalizeSuccess(w)
    PROVE  TypeOK' /\ (Internal \/ \E m \in Memories : SettlesRow(m))
<1> DEFINE c == worker[w].claim
           m == c.memory
<1>1. /\ Pc(w) = "wrote"
      /\ UNCHANGED <<memory, clock, resolution, lease, active, store, now, calls>>
      /\ \/ /\ TokenCurrent(w)
            /\ item' = [item EXCEPT ![m] = c.target]
            /\ outbox' = [outbox EXCEPT ![m] = EmptyRow]
            /\ NextEvent(w)
         \/ item' = item /\ outbox' = outbox /\ Stop(w)
  BY DEF FinalizeSuccess
<1>2. /\ m \in Memories /\ c.target \in Nat /\ outbox[m] \in Row
      /\ ClaimCurrent(w) => outbox[m].state # "absent"
  BY <1>1, ClaimHeld DEF Claim
<1>3. TokenCurrent(w) => ClaimCurrent(w) /\ c.target = outbox[m].target_revision
  BY DEF TokenCurrent, ClaimCurrent
<1> HIDE DEF m, c
<1>4. WorkersOK'
  BY <1>1, NextEventOK, StopOK DEF TypeOK
<1>5. CASE item' = item /\ outbox' = outbox
  BY <1>1, <1>4, <1>5, SameRows DEF TypeOK, Internal
<1>6. CASE /\ TokenCurrent(w)
           /\ item' = [item EXCEPT ![m] = c.target]
           /\ outbox' = [outbox EXCEPT ![m] = EmptyRow]
  <2>1. item' \in [Memories -> Nat]
    BY <1>2, <1>6 DEF TypeOK
  <2>2. outbox' \in [Memories -> Row]
    BY <1>2, <1>6, EmptyRowType DEF TypeOK, OutboxOK
  <2>3. EmptyRow.state = "absent"
    BY DEF EmptyRow
  <2>4. OutboxOK'
    BY <1>2, <1>6, <2>2, <2>3 DEF TypeOK, OutboxOK, Present
  <2>5. SettlesRow(m)
    BY <1>1, <1>2, <1>3, <1>6 DEF SettlesRow
  <2> QED
    BY <1>1, <1>2, <1>4, <2>1, <2>4, <2>5 DEF TypeOK
<1> QED
  BY <1>1, <1>5, <1>6

\* A scheduled retry has a natural delay.
LEMMA RetryDelayType ==
    ASSUME NEW f, NEW n \in Nat, NEW a, schedules_retry(f, n, a)
    PROVE  retry_delay(n) \in Nat
<1>1. n \in 1 .. MaxAttempts
  BY MaxAttemptsAssumption DEF schedules_retry
<1>2. InitialRetry * 2^(n - 1) \in Nat
  BY <1>1, RetryDelayAssumption
<1>3. MaxRetry \in Nat
  BY RetryDelayAssumption
<1> DEFINE delay == InitialRetry * 2^(n - 1)
<1>4. retry_delay(n) = IF delay <= MaxRetry THEN delay ELSE MaxRetry
  BY Zenon DEF retry_delay
<1> HIDE DEF delay
<1>5. delay \in Nat
  BY <1>2 DEF delay
<1> QED
  BY <1>3, <1>4, <1>5

\* Finalising a failure keeps the row, blocked or scheduled.
LEMMA FinalizeFailureStep ==
    ASSUME TypeOK, NEW w \in Workers, FinalizeFailure(w)
    PROVE  TypeOK' /\ Internal
<1> DEFINE d == worker[w]
           c == d.claim
           r == outbox[c.memory]
           base == IF now >= d.cutoff THEN now ELSE d.cutoff
           done(s, at) == [Released(r, s, stable_error_code(d.failure)) EXCEPT
                              !.next_attempt_at = at,
                              !.last_send_disposition = send_disposition(d.failure)]
           unknown == is_delete_unknown(done("blocked", 0))
           asked == schedules_retry(d.failure, c.ordinal, c.action)
           at == base + retry_delay(c.ordinal)
<1>1. /\ Pc(w) = "failed"
      /\ UNCHANGED <<memory, clock, lease, active, item, store, now, calls>>
  BY DEF FinalizeFailure
<1>2. \/ /\ TokenCurrent(w)
         /\ \E clock_available \in BOOLEAN :
               outbox' = [outbox EXCEPT ![c.memory] =
                   IF clock_available /\ asked THEN done("retry_wait", at) ELSE done("blocked", 0)]
         /\ EnsureResolution(c, r.delete_witness_at) \/ resolution' = resolution
         /\ NextEvent(w)
      \/ outbox' = outbox /\ resolution' = resolution /\ Stop(w)
  BY DEF FinalizeFailure
<1>3. /\ d \in Drain /\ d.cutoff \in Nat /\ c \in Claim /\ c.memory \in Memories /\ c.ordinal \in Nat
      /\ c.sequence \in Mutations /\ r \in Row /\ r.delete_witness_at \in Nat
      /\ TokenCurrent(w) => r.state # "absent"
  <2>1. d \in Drain /\ c \in Claim /\ c.memory \in Memories /\ c.sequence \in Mutations /\ r \in Row
    BY <1>1, ClaimHeld
  <2>2. TokenCurrent(w) => r.state # "absent"
    BY DEF TokenCurrent, ClaimCurrent
  <2> HIDE DEF d, c, r
  <2> QED
    BY <2>1, <2>2 DEF Drain, Claim, Row
<1>4. /\ stable_error_code(d.failure) \in ErrorCodes
      /\ send_disposition(d.failure) \in Dispositions
  BY DEF stable_error_code, send_disposition, ErrorCodes, Dispositions
<1>5. asked => at \in Nat
  <2>1. base \in Nat
    BY <1>3 DEF TypeOK
  <2>2. asked => retry_delay(c.ordinal) \in Nat
    BY <1>3, RetryDelayType
  <2> HIDE DEF base, asked, c
  <2> QED
    BY <2>1, <2>2
<1>6. TokenCurrent(w) =>
         /\ done("blocked", 0) \in Row /\ SameIntent(r, done("blocked", 0))
         /\ asked => done("retry_wait", at) \in Row /\ SameIntent(r, done("retry_wait", at))
  <2> HIDE DEF d, c, r, asked, at
  <2> QED
    BY <1>3, <1>4, <1>5, FailedType
<1>7. OutboxOK' /\ IntentKept
  <2>1. CASE outbox' = outbox
    BY <2>1, SameRows DEF TypeOK
  <2>2. ASSUME NEW q \in Row, SameIntent(r, q), outbox' = [outbox EXCEPT ![c.memory] = q]
        PROVE  OutboxOK' /\ IntentKept
    BY <1>3, <2>2, SetRow DEF TypeOK
  <2>3. \/ outbox' = outbox
        \/ TokenCurrent(w) /\ outbox' = [outbox EXCEPT ![c.memory] = done("blocked", 0)]
        \/ TokenCurrent(w) /\ asked /\ outbox' = [outbox EXCEPT ![c.memory] = done("retry_wait", at)]
    <3> HIDE DEF d, c, r, asked, at, done
    <3> QED
      BY <1>2
  <2> HIDE DEF d, c, r, asked, at, done
  <2> QED
    BY <1>6, <2>1, <2>2, <2>3
<1>8. resolution' \subseteq Resolutions
  <2>1. EnsureResolution(c, r.delete_witness_at) \/ resolution' = resolution
    BY <1>2
  <2> HIDE DEF d, c, r
  <2> QED
    BY <1>3, <2>1, EnsureResolutionType DEF TypeOK
<1>9. WorkersOK'
  <2>1. NextEvent(w) \/ Stop(w)
    BY <1>2
  <2> QED
    BY <1>1, <2>1, NextEventOK, StopOK DEF TypeOK
<1> QED
  BY <1>1, <1>7, <1>8, <1>9 DEF TypeOK, Internal

\* A crash or an error return.
LEMMA AbortStep ==
    ASSUME TypeOK, NEW w \in Workers, Abort(w)
    PROVE  TypeOK' /\ Internal
<1>1. store' = store \/ (Pc(w) = "writing" /\ store' = Landed(w))
  BY DEF Abort
<1>2. store' \in [Memories -> Nat]
  BY <1>1, LandedType DEF TypeOK
<1>3. WorkersOK'
  BY StopOK DEF Abort, TypeOK
<1> QED
  BY <1>2, <1>3, SameRows DEF Abort, TypeOK, Internal

\* The manual retry of every row.
LEMMA RetryFailuresStep ==
    ASSUME TypeOK, RetryFailures
    PROVE  TypeOK' /\ Internal
<1>1. ASSUME NEW m \in Memories
      PROVE  ManuallyRetried(outbox[m]) \in Row
               /\ SameIntent(outbox[m], ManuallyRetried(outbox[m]))
  BY ManuallyRetriedType DEF TypeOK, OutboxOK
<1>2. outbox' = [m \in Memories |-> ManuallyRetried(outbox[m])]
  BY DEF RetryFailures
<1>3. IntentKept
  BY <1>1, <1>2 DEF IntentKept
<1>4. outbox' \in [Memories -> Row]
  BY <1>1, <1>2
<1>5. OutboxOK'
  BY <1>3, <1>4, SetRows DEF TypeOK
<1>6. WorkersOK'
  BY SameWorkers DEF RetryFailures, TypeOK
<1> QED
  BY <1>3, <1>5, <1>6 DEF RetryFailures, TypeOK, Internal

\* The clock.
LEMMA TickStep ==
    ASSUME TypeOK, Tick
    PROVE  TypeOK' /\ Internal
<1>1. now' \in Nat \ {0}
  BY DEF Tick, TypeOK
<1>2. WorkersOK'
  BY SameWorkers DEF Tick, TypeOK
<1> QED
  BY <1>1, <1>2, SameRows DEF Tick, TypeOK, Internal

\* The revision wanted of a memory is a number.
LEMMA DesiredType ==
    ASSUME TypeOK, NEW m \in Memories
    PROVE  Desired(m) \in Nat
<1>1. memory[m].revision \in Nat
  BY DEF TypeOK
<1> QED
  BY <1>1 DEF Desired

\* Every row is removed and every memory recorded at its desired revision.
Rebuilds ==
    /\ outbox' = [m \in Memories |-> EmptyRow]
    /\ item' = [m \in Memories |-> Desired(m)]
    /\ memory' = memory /\ clock' = clock

\* The cut-over to a rebuilt generation.
LEMMA PromoteStep ==
    ASSUME TypeOK, NEW w \in Workers, Promote(w)
    PROVE  TypeOK' /\ Rebuilds
<1>1. active' \in Nat \ {0}
  BY DEF Promote, TypeOK
<1>2. [m \in Memories |-> Desired(m)] \in [Memories -> Nat]
  BY DesiredType
<1>3. resolution' \subseteq Resolutions
  <2>1. ASSUME NEW r \in Resolutions PROVE Concluded(r, "resolved_rebuilt") \in Resolutions
    BY ConcludedType DEF ResolutionStates, TerminalStates
  <2>2. resolution \subseteq Resolutions
    BY DEF TypeOK
  <2>3. \A x \in resolution' : \E r \in resolution : x = r \/ x = Concluded(r, "resolved_rebuilt")
    BY Zenon DEF Promote
  <2> QED
    BY <2>1, <2>2, <2>3
<1>4. OutboxOK'
  BY EmptyRowType DEF Promote, OutboxOK, Present, EmptyRow
<1>5. WorkersOK'
  BY SameWorkers DEF Promote, TypeOK
<1>6. UNCHANGED <<memory, clock, lease, now, calls>> /\ Rebuilds /\ store' = item'
  BY DEF Promote, Rebuilds
<1> QED
  BY <1>1, <1>2, <1>3, <1>4, <1>5, <1>6 DEF TypeOK, Rebuilds

\* m is recorded with a new status and revision, and a row that asks for it.
Records(m) ==
    \E status \in {"plain", "sensitive", "gone"}, revision \in Nat, s \in Mutations :
        /\ s = clock + 1 /\ clock' = s
        /\ memory' = [memory EXCEPT ![m] = [status |-> status, revision |-> revision]]
        /\ outbox' = [outbox EXCEPT ![m] =
              Enqueued(@, IF status = "plain" THEN "upsert" ELSE "delete", s, revision)]
        /\ item' = item

\* Recording and enqueueing in one transaction.
LEMMA RecordAndEnqueueStep ==
    ASSUME TypeOK, NEW m \in Memories, NEW status \in {"plain", "sensitive", "gone"},
           NEW revision \in Nat, RecordAndEnqueue(m, status, revision)
    PROVE  TypeOK' /\ Records(m)
<1> DEFINE a == IF status = "plain" THEN "upsert" ELSE "delete"
           q == Enqueued(outbox[m], a, clock + 1, revision)
<1>1. a \in Actions
  BY DEF Actions
<1>2. /\ memory' = [memory EXCEPT ![m] = [status |-> status, revision |-> revision]]
      /\ clock < MaxSequence /\ clock' = clock + 1
      /\ outbox' = [outbox EXCEPT ![m] = q]
      /\ resolution' = Superseded(m)
      /\ UNCHANGED <<lease, active, item, store, now, worker, calls>>
  BY DEF RecordAndEnqueue, Enqueue
<1>3. clock + 1 \in Mutations /\ clock + 1 \in Nat /\ clock' \in 0 .. MaxSequence
  BY <1>2, BoundsAssumption DEF TypeOK, Mutations
<1>4. Records(m)
  BY <1>2, <1>3 DEF Records
<1>5. q \in Row /\ q.mutation_sequence \in Mutations
  <2>1. outbox[m] \in Row
    BY DEF TypeOK, OutboxOK
  <2> HIDE DEF a
  <2>2. ASSUME NEW s \in Nat, s \in Mutations
        PROVE  /\ Enqueued(outbox[m], a, s, revision) \in Row
               /\ Enqueued(outbox[m], a, s, revision).mutation_sequence \in Mutations
    <3>1. Enqueued(outbox[m], a, s, revision).mutation_sequence = s
      BY <1>1, <2>1, EnqueuedType
    <3>2. Enqueued(outbox[m], a, s, revision) \in Row
      BY <1>1, <2>1, EnqueuedType
    <3> QED
      BY <2>2, <3>1, <3>2
  <2> QED
    BY <1>3, <2>2
<1> HIDE DEF q, a
<1>6. OutboxOK'
  BY <1>2, <1>5 DEF TypeOK, OutboxOK, Present
<1>7. resolution' \subseteq Resolutions
  <2>1. ASSUME NEW r \in Resolutions PROVE Concluded(r, "superseded") \in Resolutions
    BY ConcludedType DEF ResolutionStates, TerminalStates
  <2>2. resolution \subseteq Resolutions
    BY DEF TypeOK
  <2>3. \A x \in resolution' : \E r \in resolution : x = r \/ x = Concluded(r, "superseded")
    BY <1>2, Zenon DEF Superseded
  <2> QED
    BY <2>1, <2>2, <2>3
<1>8. memory' \in [Memories -> [status : {"candidate", "plain", "sensitive", "gone"}, revision : Nat]]
  BY <1>2 DEF TypeOK
<1>9. WorkersOK'
  BY <1>2, SameWorkers DEF TypeOK
<1> QED
  BY <1>2, <1>3, <1>4, <1>6, <1>7, <1>8, <1>9 DEF TypeOK

\* Every mutation of a memory records and enqueues.
LEMMA MutateStep ==
    ASSUME TypeOK, NEW m \in Memories, Mutate(m)
    PROVE  TypeOK' /\ Records(m)
<1>1. memory[m].revision \in Nat /\ memory[m].revision + 1 \in Nat
  BY DEF TypeOK
<1>2. CASE ConfirmCandidate(m)
  BY <1>2, RecordAndEnqueueStep DEF ConfirmCandidate
<1>3. CASE UpdateConfirmed(m)
  BY <1>1, <1>3, RecordAndEnqueueStep DEF UpdateConfirmed, Confirmed
<1>4. CASE SetSensitivity(m)
  BY <1>1, <1>4, RecordAndEnqueueStep DEF SetSensitivity
<1>5. CASE DeletePermanently(m)
  BY <1>1, <1>5, RecordAndEnqueueStep DEF DeletePermanently
<1> QED
  BY <1>2, <1>3, <1>4, <1>5 DEF Mutate

-----------------------------------------------------------------------------
(* The theorems *)

\* The initial state is well typed.
LEMMA InitType == Init => TypeOK
<1> SUFFICES ASSUME Init PROVE TypeOK
  OBVIOUS
<1>1. OutboxOK
  BY EmptyRowType DEF Init, OutboxOK, Present, EmptyRow
<1>2. WorkersOK
  BY IdleOK DEF Init, WorkersOK
<1>3. clock \in 0 .. MaxSequence
  BY BoundsAssumption DEF Init
<1>4. calls \in [Mutations -> [embed : Nat, unsent : Nat, write : Nat]]
  BY DEF Init, NoCalls
<1>5. lease \in [owner : Owners \cup {NoOwner}, fence : Nat, expires : Nat]
  BY DEF Init
<1>6. memory \in [Memories -> [status : {"candidate", "plain", "sensitive", "gone"}, revision : Nat]]
  BY DEF Init
<1> QED
  BY <1>1, <1>2, <1>3, <1>4, <1>5, <1>6 DEF Init, TypeOK

\* Every step keeps the types, and as far as rows, memories and items go it is
\* invisible, settles a row, records a mutation, or rebuilds.
LEMMA NextStep ==
    ASSUME TypeOK, [Next]_vars
    PROVE  /\ TypeOK'
           /\ \/ Internal
              \/ \E m \in Memories : SettlesRow(m)
              \/ \E m \in Memories : Records(m)
              \/ Rebuilds
<1>1. CASE UNCHANGED vars
  BY <1>1, SameRows, SameWorkers DEF vars, TypeOK, Internal
<1>2. ASSUME NEW m \in Memories, Mutate(m) PROVE TypeOK' /\ Records(m)
  BY <1>2, MutateStep
<1>3. ASSUME NEW w \in Workers, Execute(w)
      PROVE  TypeOK' /\ (Internal \/ \E m \in Memories : SettlesRow(m))
  <2>1. CASE ReadDocument(w)
    BY <2>1, ReadDocumentStep
  <2>2. CASE BlockTargetStale(w)
    BY <2>2, BlockTargetStaleStep
  <2>3. CASE Reserve(w)
    BY <2>3, ReserveStep
  <2>4. CASE CallEmbedding(w)
    BY <2>4, CallEmbeddingStep
  <2>5. CASE EmbeddingReturns(w)
    BY <2>5, EmbeddingReturnsStep
  <2>6. CASE MarkWitness(w)
    BY <2>6, MarkWitnessStep
  <2>7. CASE CallLance(w)
    BY <2>7, CallLanceStep
  <2>8. CASE LanceReturns(w)
    BY <2>8, LanceReturnsStep
  <2>9. CASE FinalizeSuccess(w)
    BY <2>9, FinalizeSuccessStep
  <2>10. CASE FinalizeFailure(w)
    BY <2>10, FinalizeFailureStep
  <2> QED
    BY <1>3, <2>1, <2>2, <2>3, <2>4, <2>5, <2>6, <2>7, <2>8, <2>9, <2>10 DEF Execute
<1>4. ASSUME NEW w \in Workers, StartDrain(w) \/ ClaimRefused(w) \/ ClaimOne(w) \/ Abort(w)
      PROVE  TypeOK' /\ Internal
  BY <1>4, StartDrainStep, ClaimRefusedStep, ClaimOneStep, AbortStep
<1>5. ASSUME NEW w \in Workers, Promote(w) PROVE TypeOK' /\ Rebuilds
  BY <1>5, PromoteStep
<1>6. CASE RetryFailures
  BY <1>6, RetryFailuresStep
<1>7. CASE Tick
  BY <1>7, TickStep
<1> QED
  BY <1>1, <1>2, <1>3, <1>4, <1>5, <1>6, <1>7 DEF Next, Sync

\* The type invariant: every reachable state is well typed.
THEOREM TypeCorrect == Spec => []TypeOK
<1>1. TypeOK /\ [Next]_vars => TypeOK'
  BY NextStep
<1> QED
  BY InitType, <1>1, PTL DEF Spec

\* The inductive invariant behind the index theorems: a row aims at the memory as
\* it is now, and a memory without a row is recorded at its desired revision.
Intents == TypeOK /\ TargetMatchesMemory /\ SettledItemIsDesired

\* A settled row was aimed at the desired revision, so nothing is forgotten.
LEMMA SettlesRowIntents ==
    ASSUME Intents, TypeOK', NEW m \in Memories, SettlesRow(m)
    PROVE  Intents' /\ item' = [item EXCEPT ![m] = Desired(m)]
<1>1. outbox[m].target_revision = Desired(m)
  BY DEF Intents, TargetMatchesMemory, Present, SettlesRow
<1>2. EmptyRow.state = "absent"
  BY DEF EmptyRow
<1>3. \A n \in Memories : Desired(n)' = Desired(n)
  BY DEF SettlesRow, Desired
<1>4. \A n \in Memories : /\ n # m => outbox'[n] = outbox[n] /\ item'[n] = item[n]
                          /\ n = m => outbox'[n] = EmptyRow /\ item'[n] = Desired(m)
  BY <1>1 DEF SettlesRow, Intents, TypeOK, OutboxOK
<1>5. TargetMatchesMemory'
  BY <1>2, <1>3, <1>4 DEF Intents, TargetMatchesMemory, Present, SettlesRow
<1>6. SettledItemIsDesired'
  BY <1>2, <1>3, <1>4 DEF Intents, SettledItemIsDesired, Present
<1> QED
  BY <1>1, <1>5, <1>6 DEF Intents, SettlesRow

\* A mutation leaves a row that asks for exactly the new state of the memory.
LEMMA RecordsIntents ==
    ASSUME Intents, TypeOK', NEW m \in Memories, Records(m)
    PROVE  /\ Intents'
           /\ outbox'[m].state = "pending" /\ outbox'[m].mutation_sequence = clock'
           /\ \A n \in Memories \ {m} : outbox'[n] = outbox[n] /\ memory'[n] = memory[n]
<1>1. PICK status \in {"plain", "sensitive", "gone"}, revision \in Nat, s \in Mutations :
        /\ s = clock + 1 /\ clock' = s
        /\ memory' = [memory EXCEPT ![m] = [status |-> status, revision |-> revision]]
        /\ outbox' = [outbox EXCEPT ![m] =
              Enqueued(@, IF status = "plain" THEN "upsert" ELSE "delete", s, revision)]
        /\ item' = item
  BY DEF Records
<1> DEFINE a == IF status = "plain" THEN "upsert" ELSE "delete"
           q == Enqueued(outbox[m], a, s, revision)
<1>2. a \in Actions /\ (a = "upsert" <=> status = "plain")
  BY DEF Actions
<1>3. /\ q.desired_action = a
      /\ q.target_revision = IF a = "upsert" THEN revision ELSE 0
      /\ q.state = "pending"
      /\ q.mutation_sequence = s
  <2>1. outbox[m] \in Row /\ s \in Nat
    BY DEF Intents, TypeOK, OutboxOK, Mutations
  <2> HIDE DEF a
  <2> QED
    BY <1>2, <2>1, EnqueuedType
<1>4. \A n \in Memories : /\ n # m => outbox'[n] = outbox[n] /\ memory'[n] = memory[n]
                          /\ n = m => /\ outbox'[n] = q
                                      /\ memory'[n] = [status |-> status, revision |-> revision]
  BY <1>1 DEF Intents, TypeOK, OutboxOK
<1> HIDE DEF q, a
<1>5. TargetMatchesMemory'
  BY <1>2, <1>3, <1>4 DEF Intents, TargetMatchesMemory, Present, Desired
<1>6. SettledItemIsDesired'
  BY <1>1, <1>3, <1>4 DEF Intents, SettledItemIsDesired, Present, Desired
<1> QED
  BY <1>1, <1>3, <1>4, <1>5, <1>6 DEF Intents

\* Steps that keep intents, memories and items keep the invariant.
LEMMA InternalIntents ==
    ASSUME Intents, TypeOK', Internal
    PROVE  Intents'
<1>1. TargetMatchesMemory'
  BY DEF Intents, TargetMatchesMemory, Present, Desired, Internal, IntentKept, SameIntent
<1>2. SettledItemIsDesired'
  BY DEF Intents, SettledItemIsDesired, Present, Desired, Internal, IntentKept, SameIntent
<1> QED
  BY <1>1, <1>2 DEF Intents

\* The cut-over leaves no row and every desired revision on record.
LEMMA RebuildsIntents ==
    ASSUME Intents, TypeOK', Rebuilds
    PROVE  Intents'
<1>1. \A n \in Memories : outbox'[n].state = "absent" /\ item'[n] = Desired(n) /\ Desired(n)' = Desired(n)
  BY DEF Rebuilds, EmptyRow, Desired
<1> QED
  BY <1>1 DEF Intents, TargetMatchesMemory, SettledItemIsDesired, Present

\* The invariant holds initially and every step keeps it.
LEMMA IntentsInductive ==
    /\ Init => Intents
    /\ Intents /\ [Next]_vars => Intents'
<1>1. ASSUME Init PROVE Intents
  <2>1. \A m \in Memories : ~Present(m) /\ item[m] = 0 /\ Desired(m) = 0
    BY <1>1 DEF Init, Present, EmptyRow, Desired
  <2> QED
    BY <1>1, <2>1, InitType DEF Intents, TargetMatchesMemory, SettledItemIsDesired
<1>2. ASSUME Intents, [Next]_vars PROVE Intents'
  <2>1. /\ TypeOK'
        /\ \/ Internal
           \/ \E m \in Memories : SettlesRow(m)
           \/ \E m \in Memories : Records(m)
           \/ Rebuilds
    BY <1>2, NextStep DEF Intents
  <2> QED
    BY <1>2, <2>1, InternalIntents, SettlesRowIntents, RecordsIntents, RebuildsIntents
<1> QED
  BY <1>1, <1>2

\* The invariant holds in every reachable state.
THEOREM IntentsCorrect == Spec => []Intents
BY IntentsInductive, PTL DEF Spec

\* A row always aims at the memory as it is now, whatever drains, recoveries,
\* retries and cut-overs are under way.
THEOREM TargetsAreCurrent == Spec => []TargetMatchesMemory
<1>1. Intents => TargetMatchesMemory
  BY DEF Intents
<1> QED
  BY IntentsCorrect, <1>1, PTL

\* No mutation is forgotten: a memory whose row is gone is on record at its desired
\* revision.
THEOREM NothingIsForgotten == Spec => []SettledItemIsDesired
<1>1. Intents => SettledItemIsDesired
  BY DEF Intents
<1> QED
  BY IntentsCorrect, <1>1, PTL

\* A step of the synchronisation, or one that rows, memories and items do not see, is a
\* step of the abstract index or a stutter.
LEMMA IndexStep ==
    ASSUME Intents, Intents', [Next]_vars \/ Internal
    PROVE  [Index!Next]_(Index!vars)
<1> DEFINE want == [m \in Memories |-> Desired(m)]
           late == {m \in Memories : Present(m)}
<1>1. TypeOK /\ TypeOK'
  BY DEF Intents
<1>2. \/ Internal
      \/ \E m \in Memories : SettlesRow(m)
      \/ \E m \in Memories : Records(m)
      \/ Rebuilds
  BY <1>1, NextStep
<1>3. CASE Internal
  <2>1. want' = want /\ late' = late /\ item' = item
    BY <1>3 DEF Internal, IntentKept, SameIntent, Present, Desired
  <2> QED
    BY <2>1 DEF Index!vars
<1>4. ASSUME NEW m \in Memories, SettlesRow(m) PROVE Index!Next
  <2>1. m \in late /\ item' = [item EXCEPT ![m] = want[m]]
    BY <1>1, <1>4, SettlesRowIntents DEF SettlesRow, Present
  <2>2. want' = want
    BY <1>4 DEF SettlesRow, Desired
  <2>3. late' = late \ {m}
    BY <1>1, <1>4 DEF SettlesRow, Present, EmptyRow, TypeOK, OutboxOK
  <2> QED
    BY <2>1, <2>2, <2>3 DEF Index!Next, Index!Settle
<1>5. ASSUME NEW m \in Memories, Records(m) PROVE Index!Next
  <2>1. /\ outbox'[m].state = "pending" /\ item' = item
        /\ \A n \in Memories \ {m} : outbox'[n] = outbox[n] /\ memory'[n] = memory[n]
    BY <1>1, <1>5, RecordsIntents DEF Records
  <2>2. want' \in [Memories -> Nat]
    <3>1. \A n \in Memories : memory'[n].revision \in Nat
      BY <1>1 DEF TypeOK
    <3> QED
      BY <3>1 DEF Desired
  <2>3. \A n \in Memories \ {m} : want'[n] = want[n]
    BY <2>1 DEF Desired
  <2>4. late' = late \cup {m}
    BY <2>1 DEF Present
  <2> QED
    BY <2>1, <2>2, <2>3, <2>4 DEF Index!Next, Index!Mutate
<1>6. CASE Rebuilds
  <2>1. item' = want /\ want' = want /\ late' = {}
    BY <1>6 DEF Rebuilds, Desired, Present, EmptyRow
  <2> QED
    BY <2>1 DEF Index!Next, Index!Rebuild
<1> QED
  BY <1>2, <1>3, <1>4, <1>5, <1>6

\* The abstract index starts with nothing desired and nothing recorded.
LEMMA IndexInit == Init => Index!Init
<1>1. ASSUME Init PROVE \A m \in Memories : ~Present(m) /\ Desired(m) = 0
  BY <1>1 DEF Init, Present, EmptyRow, Desired
<1> QED
  BY <1>1 DEF Init, Index!Init

\* The synchronisation implements the abstract index of IndexSync.
THEOREM IndexRefinement == Spec => ImplementsIndex
<1>1. Intents /\ Intents' /\ [Next]_vars => [Index!Next]_(Index!vars)
  BY IndexStep
<1> QED
  BY <1>1, IndexInit, IntentsCorrect, PTL DEF Spec, ImplementsIndex, Index!Spec

-----------------------------------------------------------------------------
(* The invariant, and what the actions do *)

\* Every row is one the legal transitions produce, and whoever holds the runtime
\* lease holds it under a positive fence.
RowsSound ==
    /\ \A m \in Memories : RowSound(outbox[m])
    /\ lease.owner # NoOwner => lease.fence > 0

\* w has claimed a row.
Holds(w) == Pc(w) \notin {"idle", "drain"}

\* The row of the memory that w claimed.
About(w) == outbox[worker[w].claim.memory]

\* That row still stands for the mutation that w claimed.
Same(w) ==
    About(w).state # "absent" /\ About(w).mutation_sequence = worker[w].claim.sequence

\* Some row, claim or resolution speaks of mutation s of memory m.
Named(m, s) ==
    \/ Present(m) /\ outbox[m].mutation_sequence = s
    \/ \E w \in Workers : /\ Holds(w)
                          /\ worker[w].claim.memory = m /\ worker[w].claim.sequence = s
    \/ \E r \in resolution : r.memory = m /\ r.sequence = s

\* A mutation that anything speaks of has been enqueued, and for one memory.
NamesSound ==
    \A m \in Memories, s \in Mutations : Named(m, s) =>
        /\ s <= clock
        /\ \A n \in Memories : Named(n, s) => n = m

\* What w knows of its row: the intent it claimed, an epoch the row has reached and
\* not yet marked unless w itself reserved, and a document that matched.
ClaimSound(w) ==
    LET c == worker[w].claim
        r == About(w)
    IN  /\ c.epoch > 0
        /\ Pc(w) \in {"read", "stale", "embedding", "embedded"} => c.action = "upsert"
        /\ Pc(w) = "witnessed" => c.action = "delete"
        /\ Pc(w) = "failed" /\ worker[w].failure \notin LanceFailures => c.action = "upsert"
        /\ Same(w) =>
              /\ c.epoch <= r.fenced_claim_epoch
              /\ r.desired_action = c.action
              /\ r.target_revision = c.target
              /\ Pc(w) # "stale"
              /\ Pc(w) \in {"claimed", "read"} => r.last_marked_claim_epoch # c.epoch

\* v and w claimed the same row under the same epoch.
Twins(v, w) ==
    /\ worker[v].claim.memory = worker[w].claim.memory
    /\ worker[v].claim.sequence = worker[w].claim.sequence
    /\ worker[v].claim.epoch = worker[w].claim.epoch

\* An epoch of a mutation is claimed once.
ClaimsSound ==
    /\ \A w \in Workers : Holds(w) => ClaimSound(w)
    /\ \A v, w \in Workers : Holds(v) /\ Holds(w) /\ Twins(v, w) => v = w

\* The row shows the attempt that w reserved as its latest.
Matched(w) ==
    /\ Same(w)
    /\ About(w).fenced_claim_epoch = worker[w].claim.epoch
    /\ About(w).last_marked_claim_epoch = worker[w].claim.epoch
    /\ About(w).attempt_count = worker[w].claim.ordinal

\* No request of the mutation is known to have left.
Unsent(s) == calls[s].embed <= calls[s].unsent /\ calls[s].write = 0

\* What the history of calls says of the mutation that w is still about.
AttemptSound(w) ==
    LET s == worker[w].claim.sequence
    IN  Matched(w) =>
            /\ Pc(w) = "reserved" => Unsent(s) /\ calls[s].embed < About(w).attempt_count
            /\ Pc(w) \in {"embedding", "embedded", "witnessed"} => calls[s].write = 0
            /\ Pc(w) = "witnessed" => has_unknown_external_send_evidence(About(w))
            /\ Pc(w) = "failed" /\ send_disposition(worker[w].failure) = "definitely_not_sent"
                  => Unsent(s)

\* Calls are made for enqueued mutations only, and agree with the rows and the drains.
CallsSound ==
    /\ \A s \in Mutations : s > clock => calls[s] = NoCalls
    /\ NoReplay /\ AttemptsArePaid /\ SentIsRecorded
    /\ \A w \in Workers : Holds(w) => AttemptSound(w)

\* A mutation has one resolution, and only the latest one has an open resolution.
ResolutionsSound ==
    /\ \A x, y \in resolution : x.memory = y.memory /\ x.sequence = y.sequence => x = y
    /\ UnknownDeleteHasResolution
    /\ OpenResolutionIsLatest

\* The inductive invariant.
SyncInv ==
    Intents /\ RowsSound /\ NamesSound /\ ClaimsSound /\ CallsSound /\ ResolutionsSound

-----------------------------------------------------------------------------
(* The kinds of step *)

\* The row is settled, or keeps what counts.
RowKept(m) == outbox'[m] = EmptyRow \/ Kept(outbox[m], outbox'[m])

OthersKept(m) == \A n \in Memories \ {m} : outbox'[n] = outbox[n]

OthersSame(w) == \A v \in Workers \ {w} : worker'[v] = worker[v]

\* The drain does not move, lets go of its claim, or moves on without a call.
WorkerQuiet(w) ==
    LET d == worker[w]
        e == worker'[w]
    IN  \/ e = d
        \/ e.pc \in {"idle", "drain"}
        \/ /\ e.claim = d.claim
           /\ \/ d.pc = "claimed" /\ e.pc = "read" /\ d.claim.action = "upsert"
              \/ d.pc = "claimed" /\ e.pc = "stale" /\ d.claim.action = "upsert" /\ ~Same(w)
              \/ d.pc = "writing" /\ e.pc = "wrote"
              \/ d.pc = "writing" /\ e.pc = "failed" /\ e.failure \in LanceFailures

\* Resolutions come from resolutions of the same mutation, and are not reopened.
ResolutionKept ==
    /\ \A p, q \in resolution' : \E x, y \in resolution :
           /\ x.memory = p.memory /\ x.sequence = p.sequence /\ (Open(p) => p = x)
           /\ y.memory = q.memory /\ y.sequence = q.sequence /\ (Open(q) => q = y)
           /\ x = y => p = q
    /\ \A x \in resolution : \E p \in resolution' :
           p.memory = x.memory /\ p.sequence = x.sequence

Quiet ==
    /\ \A m \in Memories : RowKept(m)
    /\ \A w \in Workers : WorkerQuiet(w)
    /\ ResolutionKept
    /\ UNCHANGED <<clock, calls>>

\* w claims the row of m, which shows no trace of a request: a new epoch, unmarked.
Claims(w, m) ==
    LET r == outbox[m]
        q == outbox'[m]
        c == worker'[w].claim
    IN  /\ \A n \in Memories \ {m} : RowKept(n)
        /\ OthersSame(w)
        /\ Present(m) /\ SameIntent(r, q)
        /\ ~has_unknown_external_send_evidence(r) /\ ~has_unknown_external_send_evidence(q)
        /\ q.attempt_count = r.attempt_count
        /\ q.fenced_claim_epoch = r.fenced_claim_epoch + 1
        /\ q.last_marked_claim_epoch = r.last_marked_claim_epoch
        /\ r.attempt_count > 0 => q.claimed_generation = r.claimed_generation
        /\ worker'[w].pc = "claimed" /\ c.memory = m
        /\ c.sequence = r.mutation_sequence /\ c.action = r.desired_action
        /\ c.target = r.target_revision /\ c.epoch = q.fenced_claim_epoch
        /\ UNCHANGED <<clock, calls, resolution>>

\* w spends an attempt of its row and marks it with its epoch.
Reserves(w) ==
    LET m == worker[w].claim.memory
        r == outbox[m]
        q == outbox'[m]
        c == worker'[w].claim
    IN  /\ OthersKept(m) /\ OthersSame(w)
        /\ Pc(w) \in {"claimed", "read"} /\ Same(w)
        /\ SameIntent(r, q)
        /\ ~has_unknown_external_send_evidence(r)
        /\ has_unknown_external_send_evidence(q) <=> r.desired_action = "upsert"
        /\ q.attempt_count = r.attempt_count + 1
        /\ q.fenced_claim_epoch = r.fenced_claim_epoch
        /\ r.fenced_claim_epoch = worker[w].claim.epoch
        /\ q.last_marked_claim_epoch = r.fenced_claim_epoch
        /\ q.claimed_generation = r.claimed_generation
        /\ worker'[w].pc = "reserved"
        /\ c.memory = m /\ c.sequence = worker[w].claim.sequence
        /\ c.action = worker[w].claim.action /\ c.target = worker[w].claim.target
        /\ c.epoch = worker[w].claim.epoch /\ c.ordinal = q.attempt_count
        /\ UNCHANGED <<clock, calls, resolution>>

\* w, still about its row, goes from one point of its work to the next.
Moves(w, from, to) ==
    /\ OthersSame(w)
    /\ Pc(w) \in from /\ worker'[w].pc = to /\ worker'[w].claim = worker[w].claim
    /\ UNCHANGED clock

\* w requests an embedding.
Embeds(w) ==
    LET s == worker[w].claim.sequence
    IN  /\ Moves(w, {"reserved"}, "embedding")
        /\ worker[w].claim.action = "upsert" /\ Matched(w) /\ About(w).state = "processing"
        /\ calls' = [calls EXCEPT ![s].embed = @ + 1]
        /\ UNCHANGED <<outbox, resolution>>

\* The provider answers w.
EmbeddingEnds(w) ==
    LET s == worker[w].claim.sequence
        f == worker'[w].failure
    IN  /\ \/ Moves(w, {"embedding"}, "embedded") /\ UNCHANGED calls
           \/ Moves(w, {"embedding"}, "failed") /\ f \notin LanceFailures
                /\ calls' = IF send_disposition(f) = "definitely_not_sent"
                            THEN [calls EXCEPT ![s].unsent = @ + 1] ELSE calls
        /\ UNCHANGED <<outbox, resolution>>

\* w records that its Delete may leave, with the resolution this owes.
Witnesses(w) ==
    LET m == worker[w].claim.memory
        r == outbox[m]
        q == outbox'[m]
    IN  /\ Moves(w, {"reserved"}, "witnessed")
        /\ worker[w].claim.action = "delete" /\ Matched(w)
        /\ OthersKept(m) /\ SameIntent(r, q)
        /\ has_unknown_external_send_evidence(q)
        /\ q.attempt_count = r.attempt_count
        /\ q.fenced_claim_epoch = r.fenced_claim_epoch
        /\ q.last_marked_claim_epoch = r.last_marked_claim_epoch
        /\ q.claimed_generation = r.claimed_generation
        /\ EnsureResolution(worker[w].claim, q.delete_witness_at)
        /\ UNCHANGED calls

\* w requests its LanceDB write.
Writes(w) ==
    LET s == worker[w].claim.sequence
    IN  /\ Moves(w, {"embedded", "witnessed"}, "writing")
        /\ Matched(w) /\ About(w).state = "processing"
        /\ calls' = [calls EXCEPT ![s].write = @ + 1]
        /\ UNCHANGED <<outbox, resolution>>

\* w records the failure of its call, and lets go.
Fails(w) ==
    LET m == worker[w].claim.memory
        r == outbox[m]
        q == outbox'[m]
        sent == send_disposition(worker[w].failure) = "possibly_sent"
    IN  /\ Pc(w) = "failed" /\ Matched(w)
        /\ OthersKept(m) /\ OthersSame(w)
        /\ worker'[w].pc \in {"idle", "drain"}
        /\ SameIntent(r, q)
        /\ has_unknown_external_send_evidence(q) <=> sent
        /\ q.attempt_count = r.attempt_count
        /\ q.fenced_claim_epoch = r.fenced_claim_epoch
        /\ q.last_marked_claim_epoch = r.last_marked_claim_epoch
        /\ q.claimed_generation = r.claimed_generation
        /\ IF is_delete_unknown(q)
           THEN EnsureResolution(worker[w].claim, r.delete_witness_at)
           ELSE UNCHANGED resolution
        /\ UNCHANGED <<clock, calls>>

\* A mutation of m takes the next sequence and starts a fresh row.
Enqueues(m) ==
    LET q == outbox'[m]
    IN  /\ clock' = clock + 1 /\ clock' \in Mutations
        /\ OthersKept(m)
        /\ q.state = "pending" /\ q.mutation_sequence = clock'
        /\ ~has_unknown_external_send_evidence(q)
        /\ resolution' = Superseded(m)
        /\ UNCHANGED <<worker, calls>>

Kinds ==
    \/ Quiet
    \/ \E w \in Workers : \/ \E m \in Memories : Claims(w, m)
                          \/ Reserves(w) \/ Embeds(w) \/ EmbeddingEnds(w)
                          \/ Witnesses(w) \/ Writes(w) \/ Fails(w)
    \/ \E m \in Memories : Enqueues(m)

-----------------------------------------------------------------------------
(* The inductive invariant, taken apart *)

\* What holds of the rows.
LEMMA RowFacts ==
    ASSUME Intents, RowsSound, NEW m \in Memories
    PROVE  outbox[m] \in Row /\ RowSound(outbox[m])
BY DEF Intents, TypeOK, OutboxOK, RowsSound

\* A claim that passes its guard is about its row.
LEMMA CurrentClaim ==
    ASSUME NEW w \in Workers, ClaimCurrent(w)
    PROVE  /\ Same(w) /\ About(w).state = "processing"
           /\ About(w).fenced_claim_epoch = worker[w].claim.epoch
           /\ About(w).desired_action = worker[w].claim.action
BY DEF ClaimCurrent, Same, About

\* A token that passes its guard is the latest attempt of its row.
LEMMA CurrentToken ==
    ASSUME NEW w \in Workers, TokenCurrent(w)
    PROVE  /\ Matched(w) /\ About(w).state = "processing"
           /\ About(w).last_marked_claim_epoch = About(w).fenced_claim_epoch
           /\ About(w).desired_action = worker[w].claim.action
BY CurrentClaim DEF TokenCurrent, Matched, About

\* The outbox after one row was replaced.
LEMMA OneRow ==
    ASSUME Intents, RowsSound, NEW m \in Memories, NEW q \in Row, RowSound(q),
           outbox' = [outbox EXCEPT ![m] = q], lease' = lease
    PROVE  RowsSound' /\ OthersKept(m) /\ outbox'[m] = q
<1>1. outbox'[m] = q /\ \A n \in Memories \ {m} : outbox'[n] = outbox[n]
  BY DEF Intents, TypeOK, OutboxOK
<1> QED
  BY <1>1 DEF RowsSound, OthersKept

\* The outbox left alone.
LEMMA NoRow ==
    ASSUME RowsSound, outbox' = outbox
    PROVE  /\ lease' = lease => RowsSound'
           /\ \A m \in Memories : RowKept(m)
BY KeptSelf DEF RowsSound, RowKept

\* The drains left alone but for one, which lets go of its claim.
LEMMA OneLetsGo ==
    ASSUME Intents, NEW w \in Workers, Stop(w) \/ NextEvent(w)
    PROVE  /\ \A v \in Workers : WorkerQuiet(v)
           /\ OthersSame(w) /\ worker'[w].pc \in {"idle", "drain"}
<1>1. worker \in [Workers -> Drain]
  BY DEF Intents, TypeOK, WorkersOK
<1>2. Idle.pc = "idle"
  BY DEF Idle
<1>3. worker'[w].pc \in {"idle", "drain"} /\ \A v \in Workers \ {w} : worker'[v] = worker[v]
  <2>1. CASE Stop(w)
    BY <1>1, <1>2, <2>1 DEF Stop
  <2>2. CASE NextEvent(w)
    <3> DEFINE d == worker[w]
               e == [d EXCEPT !.pc = "drain", !.left = d.left - 1,
                              !.claim = NoClaim, !.failure = NoFailure]
    <3>1. worker' = [worker EXCEPT ![w] = IF d.left = 1 THEN Idle ELSE e]
      BY <2>2 DEF NextEvent
    <3>2. e.pc = "drain"
      BY <1>1 DEF Drain
    <3> HIDE DEF d, e
    <3> QED
      BY <1>1, <1>2, <3>1, <3>2
  <2> QED
    BY <2>1, <2>2
<1> QED
  BY <1>3 DEF WorkerQuiet, OthersSame

\* The drains left alone but for one, which moves on with its claim.
LEMMA OneGoes ==
    ASSUME Intents, NEW w \in Workers, NEW pc, Goto(w, pc)
    PROVE  /\ OthersSame(w) /\ worker'[w].pc = pc /\ worker'[w].claim = worker[w].claim
           /\ worker'[w].failure = worker[w].failure
<1>1. worker \in [Workers -> Drain]
  BY DEF Intents, TypeOK, WorkersOK
<1> QED
  BY <1>1 DEF Goto, OthersSame, Drain

\* The drains left alone but for one, which records a failure.
LEMMA OneFails ==
    ASSUME Intents, NEW w \in Workers, NEW f, Fail(w, f)
    PROVE  /\ OthersSame(w) /\ worker'[w].pc = "failed" /\ worker'[w].claim = worker[w].claim
           /\ worker'[w].failure = f
<1>1. worker \in [Workers -> Drain]
  BY DEF Intents, TypeOK, WorkersOK
<1> QED
  BY <1>1 DEF Fail, OthersSame, Drain

\* The resolutions left alone.
LEMMA NoResolution ==
    ASSUME resolution' = resolution
    PROVE  ResolutionKept
BY DEF ResolutionKept

\* Some resolutions concluded.
LEMMA SomeConcluded ==
    ASSUME resolution \subseteq Resolutions, NEW f,
           \A x \in resolution :
               f[x] = x \/ \E state \in TerminalStates : f[x] = Concluded(x, state),
           resolution' = {f[x] : x \in resolution}
    PROVE  ResolutionKept
<1>1. ASSUME NEW x \in resolution
      PROVE  f[x].memory = x.memory /\ f[x].sequence = x.sequence /\ (Open(f[x]) => f[x] = x)
  <2>1. ASSUME NEW state \in TerminalStates, f[x] = Concluded(x, state)
        PROVE  f[x].memory = x.memory /\ f[x].sequence = x.sequence /\ ~Open(f[x])
    BY <2>1 DEF Concluded, Resolutions, Open
  <2> QED
    BY <2>1
<1>2. \A x \in resolution : f[x] \in resolution'
  OBVIOUS
<1>3. \A p \in resolution' : \E x \in resolution : p = f[x]
  OBVIOUS
<1> QED
  BY <1>1, <1>2, <1>3 DEF ResolutionKept

-----------------------------------------------------------------------------
(* One lemma per action: the rows stay sound, and the kind of the step *)

\* Starting a drain.
LEMMA StartDrainKind ==
    ASSUME SyncInv, NEW w \in Workers, StartDrain(w)
    PROVE  RowsSound' /\ Quiet
<1>1. worker \in [Workers -> Drain] /\ Intents /\ RowsSound
  BY DEF SyncInv, Intents, TypeOK, WorkersOK
<1>2. PICK limit \in 1 .. DrainLimit :
         worker' = [worker EXCEPT ![w] = [Idle EXCEPT !.pc = "drain", !.generation = active,
                                                      !.cutoff = now, !.left = limit]]
  BY DEF StartDrain
<1>3. worker'[w].pc = "drain" /\ \A v \in Workers \ {w} : worker'[v] = worker[v]
  BY <1>1, <1>2 DEF Idle
<1>4. \A v \in Workers : WorkerQuiet(v)
  BY <1>3 DEF WorkerQuiet
<1>5. UNCHANGED <<outbox, lease, clock, calls, resolution>>
  BY DEF StartDrain
<1> QED
  BY <1>1, <1>4, <1>5, NoRow, NoResolution DEF Quiet

\* A refused claim.
LEMMA ClaimRefusedKind ==
    ASSUME SyncInv, NEW w \in Workers, ClaimRefused(w)
    PROVE  RowsSound' /\ Quiet
<1>1. Intents /\ RowsSound
  BY DEF SyncInv
<1>2. UNCHANGED <<outbox, lease, clock, calls, resolution>> /\ Stop(w)
  BY DEF ClaimRefused
<1> QED
  BY <1>1, <1>2, NoRow, NoResolution, OneLetsGo DEF Quiet

\* The claim transaction.
LEMMA ClaimOneKind ==
    ASSUME SyncInv, NEW w \in Workers, ClaimOne(w)
    PROVE  RowsSound' /\ (Quiet \/ \E m \in Memories : Claims(w, m))
<1> DEFINE o == OwnerOf[w]
           d == worker[w]
           rows == [m \in Memories |-> Repaired(outbox[m], d.cutoff)]
           ready == {m \in Memories : d.generation = active
                                        /\ Claimable(rows[m], active, d.cutoff)}
           fence == LeaseAfter(o).fence
           expires == LeaseAfter(o).expires
           claim(m) == [memory |-> m, action |-> rows[m].desired_action,
                        sequence |-> rows[m].mutation_sequence,
                        target |-> rows[m].target_revision, generation |-> active,
                        fence |-> fence, epoch |-> rows[m].fenced_claim_epoch + 1,
                        ordinal |-> 0]
<1>1. /\ Intents /\ RowsSound /\ worker \in [Workers -> Drain]
      /\ d.cutoff \in Nat /\ active \in Nat \ {0} /\ lease.fence \in Nat /\ now \in Nat \ {0}
      /\ o \in Owners /\ o # NoOwner /\ LeaseTicks \in Nat
  BY OwnerOfAssumption, NoOwnerAssumption, TimeAssumption
     DEF SyncInv, Intents, TypeOK, WorkersOK, Drain
<1>2. ASSUME NEW m \in Memories
      PROVE  rows[m] \in Row /\ RowSound(rows[m]) /\ Kept(outbox[m], rows[m])
  BY <1>1, RowFacts, RepairedSound
<1>3. fence \in Nat \ {0} /\ expires \in Nat \ {0}
  <2>1. fence = IF Renews(o) THEN lease.fence ELSE lease.fence + 1
    BY DEF LeaseAfter
  <2>2. expires = now + LeaseTicks
    BY DEF LeaseAfter
  <2>3. Renews(o) => lease.fence > 0
    BY <1>1 DEF Renews, RowsSound
  <2> QED
    BY <1>1, <2>1, <2>2, <2>3
<1>4. lease'.owner # NoOwner => lease'.fence > 0
  BY <1>3 DEF ClaimOne
<1>5. UNCHANGED <<clock, calls, resolution>>
  BY DEF ClaimOne
<1>6. \/ outbox' = rows /\ Stop(w)
      \/ \E m \in ready : /\ \/ attempt_identity_phase(rows[m]) = "Invalid"
                             \/ rows[m].fenced_claim_epoch = MaxEpoch
                          /\ outbox' = [rows EXCEPT ![m] = BlockInvariant(rows[m])] /\ Stop(w)
      \/ \E m \in ready :
           /\ rows[m].fenced_claim_epoch # MaxEpoch
           /\ outbox' = [rows EXCEPT ![m] = Claimed(rows[m], o, fence, expires, active)]
           /\ worker' = [worker EXCEPT ![w].pc = "claimed", ![w].claim = claim(m)]
  BY DEF ClaimOne
<1>7. ASSUME NEW m \in ready
      PROVE  /\ m \in Memories /\ Claimable(rows[m], active, d.cutoff)
             /\ rows[m].state \in {"pending", "retry_wait"}
             /\ ~has_unknown_external_send_evidence(rows[m])
  <2>1. m \in Memories /\ Claimable(rows[m], active, d.cutoff)
    OBVIOUS
  <2>2. rows[m].desired_action \in Actions
    BY <1>2, <2>1 DEF Row
  <2> HIDE DEF rows
  <2> QED
    BY <2>1, <2>2 DEF Claimable, is_unknown_upsert_send, is_delete_unknown, Actions
<1> HIDE DEF rows, ready, fence, expires
<1>8. rows \in [Memories -> Row]
  BY <1>2 DEF rows
<1>9. ASSUME Stop(w), \A m \in Memories : RowSound(outbox'[m]) /\ Kept(outbox[m], outbox'[m])
      PROVE  RowsSound' /\ Quiet
  <2>1. RowsSound'
    BY <1>4, <1>9 DEF RowsSound
  <2> QED
    BY <1>1, <1>5, <1>9, <2>1, OneLetsGo, NoResolution DEF Quiet, RowKept
<1>10. CASE outbox' = rows /\ Stop(w)
  BY <1>2, <1>9, <1>10
<1>11. ASSUME NEW m \in ready,
              \/ attempt_identity_phase(rows[m]) = "Invalid"
              \/ rows[m].fenced_claim_epoch = MaxEpoch,
              outbox' = [rows EXCEPT ![m] = BlockInvariant(rows[m])], Stop(w)
       PROVE  RowsSound' /\ Quiet
  <2> DEFINE q == BlockInvariant(rows[m])
  <2>1. m \in Memories /\ rows[m] \in Row /\ RowSound(rows[m]) /\ Kept(outbox[m], rows[m])
          /\ outbox[m] \in Row
    BY <1>1, <1>2, <1>7, RowFacts
  <2>2. rows[m].fenced_claim_epoch = MaxEpoch
    BY <1>7, <1>11, <2>1, SoundIsWellFormed
  <2>3. q \in Row /\ RowSound(q) /\ Kept(rows[m], q)
    BY <1>7, <2>1, <2>2, BlockInvariantSound
  <2> HIDE DEF q
  <2>4. Kept(outbox[m], q)
    BY <2>1, <2>3, KeptTransitive
  <2>5. outbox'[m] = q /\ \A n \in Memories \ {m} : outbox'[n] = rows[n]
    BY <1>8, <1>11, <2>1 DEF q
  <2>6. \A n \in Memories : RowSound(outbox'[n]) /\ Kept(outbox[n], outbox'[n])
    BY <1>2, <2>3, <2>4, <2>5
  <2> QED
    BY <1>9, <1>11, <2>6
<1>12. ASSUME NEW m \in ready, rows[m].fenced_claim_epoch # MaxEpoch,
              outbox' = [rows EXCEPT ![m] = Claimed(rows[m], o, fence, expires, active)],
              worker' = [worker EXCEPT ![w].pc = "claimed", ![w].claim = claim(m)]
       PROVE  RowsSound' /\ \E n \in Memories : Claims(w, n)
  <2> DEFINE p == rows[m]
             q == Claimed(p, o, fence, expires, active)
  <2>1. m \in Memories /\ p \in Row /\ RowSound(p) /\ Kept(outbox[m], p)
          /\ outbox[m] \in Row
    BY <1>1, <1>2, <1>7, RowFacts
  <2>2. /\ q \in Row /\ RowSound(q) /\ SameIntent(p, q)
        /\ ~has_unknown_external_send_evidence(p)
        /\ ~has_unknown_external_send_evidence(q)
        /\ q.attempt_count = p.attempt_count
        /\ q.fenced_claim_epoch = p.fenced_claim_epoch + 1
        /\ q.last_marked_claim_epoch = p.last_marked_claim_epoch
        /\ p.attempt_count > 0 => q.claimed_generation = p.claimed_generation
    BY <1>1, <1>3, <1>7, <1>12, <2>1, ClaimedSound
  <2>3. outbox'[m] = q /\ \A n \in Memories \ {m} : outbox'[n] = rows[n]
    BY <1>8, <1>12, <2>1
  <2> DEFINE c == claim(m)
  <2>4. /\ c.memory = m /\ c.action = p.desired_action /\ c.sequence = p.mutation_sequence
        /\ c.target = p.target_revision /\ c.epoch = p.fenced_claim_epoch + 1
    OBVIOUS
  <2>5. worker' = [worker EXCEPT ![w].pc = "claimed", ![w].claim = c]
    BY <1>12
  <2> HIDE DEF c
  <2>6. OthersSame(w) /\ worker'[w].pc = "claimed" /\ worker'[w].claim = c
    BY <1>1, <2>5 DEF OthersSame, Drain
  <2>7. p.state # "absent"
    BY <1>7
  <2> HIDE DEF p, q
  <2>8. \A n \in Memories : RowSound(outbox'[n])
    BY <1>2, <2>2, <2>3
  <2>9. \A n \in Memories \ {m} : RowKept(n)
    BY <1>2, <2>3 DEF RowKept
  <2>10. /\ SameIntent(outbox[m], q) /\ Present(m)
         /\ ~has_unknown_external_send_evidence(outbox[m])
         /\ q.attempt_count = outbox[m].attempt_count
         /\ q.fenced_claim_epoch = outbox[m].fenced_claim_epoch + 1
         /\ q.last_marked_claim_epoch = outbox[m].last_marked_claim_epoch
         /\ outbox[m].attempt_count > 0 => q.claimed_generation = outbox[m].claimed_generation
         /\ p.desired_action = outbox[m].desired_action
         /\ p.mutation_sequence = outbox[m].mutation_sequence
         /\ p.target_revision = outbox[m].target_revision
    BY <2>1, <2>2, <2>7 DEF Kept, SameIntent, Present
  <2>11. Claims(w, m)
    BY <1>5, <2>2, <2>3, <2>4, <2>6, <2>9, <2>10 DEF Claims
  <2>12. RowsSound'
    BY <1>4, <2>8 DEF RowsSound
  <2> QED
    BY <2>1, <2>11, <2>12
<1> QED
  BY <1>6, <1>10, <1>11, <1>12

\* What is known of a drain that holds a claim.
LEMMA HeldClaim ==
    ASSUME SyncInv, NEW w \in Workers, Holds(w)
    PROVE  /\ worker[w] \in Drain /\ worker[w].claim.memory \in Memories
           /\ worker[w].claim.sequence \in Mutations /\ worker[w].claim \in Claim
           /\ About(w) \in Row /\ RowSound(About(w)) /\ ClaimSound(w)
<1>1. TypeOK /\ Intents /\ RowsSound /\ ClaimSound(w)
  BY DEF SyncInv, Intents, ClaimsSound
<1>2. /\ worker[w] \in Drain /\ worker[w].claim.memory \in Memories
      /\ worker[w].claim.sequence \in Mutations /\ worker[w].claim \in Claim
  BY <1>1, ClaimHeld DEF Holds
<1> QED
  BY <1>1, <1>2, RowFacts DEF About

\* Reading the document: a document that does not match tells of a newer mutation.
LEMMA ReadDocumentKind ==
    ASSUME SyncInv, NEW w \in Workers, ReadDocument(w)
    PROVE  RowsSound' /\ Quiet
<1> DEFINE c == worker[w].claim
           fits == memory[c.memory].status = "plain" /\ memory[c.memory].revision = c.target
<1>1. /\ Pc(w) = "claimed" /\ c.action = "upsert"
      /\ Goto(w, IF fits THEN "read" ELSE "stale")
      /\ UNCHANGED <<outbox, lease, clock, calls, resolution>>
  BY DEF ReadDocument
<1>2. Intents /\ TargetMatchesMemory /\ RowsSound /\ Holds(w)
  BY <1>1 DEF SyncInv, Intents, Holds
<1>3. ClaimSound(w) /\ c.memory \in Memories
  BY <1>2, HeldClaim
<1>4. Same(w) => fits
  <2>1. Same(w) => /\ outbox[c.memory].desired_action = "upsert"
                   /\ outbox[c.memory].target_revision = c.target
                   /\ Present(c.memory)
    BY <1>1, <1>3 DEF ClaimSound, Same, About, Present
  <2> QED
    BY <1>2, <1>3, <2>1 DEF TargetMatchesMemory, Desired
<1> HIDE DEF fits
<1>5. OthersSame(w) /\ worker'[w].claim = c /\ worker'[w].pc = IF fits THEN "read" ELSE "stale"
  BY <1>1, <1>2, OneGoes
<1>6. WorkerQuiet(w)
  BY <1>1, <1>4, <1>5 DEF WorkerQuiet, Pc
<1>7. \A v \in Workers : WorkerQuiet(v)
  BY <1>5, <1>6 DEF WorkerQuiet, OthersSame
<1> QED
  BY <1>1, <1>2, <1>7, NoRow, NoResolution DEF Quiet

\* A stale document never blocks the row: the guard tells that the row has moved on.
LEMMA BlockTargetStaleKind ==
    ASSUME SyncInv, NEW w \in Workers, BlockTargetStale(w)
    PROVE  RowsSound' /\ Quiet
<1>1. Pc(w) = "stale" /\ UNCHANGED <<lease, clock, calls, resolution>>
  BY DEF BlockTargetStale
<1>2. Intents /\ RowsSound /\ ClaimSound(w)
  BY <1>1, HeldClaim DEF SyncInv, Holds
<1>3. ~ClaimCurrent(w)
  BY <1>1, <1>2, CurrentClaim DEF ClaimSound
<1>4. outbox' = outbox /\ Stop(w)
  BY <1>3 DEF BlockTargetStale
<1> QED
  BY <1>1, <1>2, <1>4, NoRow, NoResolution, OneLetsGo DEF Quiet

\* The reservation: a claim never finds its own mark, so that a slot is spent once.
LEMMA ReserveKind ==
    ASSUME SyncInv, NEW w \in Workers, Reserve(w)
    PROVE  RowsSound' /\ (Quiet \/ Reserves(w))
<1> DEFINE c == worker[w].claim
           m == c.memory
           r == outbox[m]
           phase == attempt_identity_phase(r)
           hold(n) == worker' = [worker EXCEPT ![w].pc = "reserved", ![w].claim.ordinal = n]
           exhausted == Released(r, "blocked", exhausted_attempt_budget_error_code(r))
<1>1. Pc(w) \in {"read", "claimed"} /\ UNCHANGED <<lease, clock, calls, resolution>>
  BY DEF Reserve
<1>2. Intents /\ RowsSound /\ worker \in [Workers -> Drain] /\ Holds(w)
  BY <1>1 DEF SyncInv, Intents, TypeOK, WorkersOK, Holds
<1>3. /\ worker[w] \in Drain /\ c \in Claim /\ m \in Memories
      /\ r \in Row /\ RowSound(r) /\ ClaimSound(w)
  BY <1>2, HeldClaim DEF About
<1>4. ClaimCurrent(w) => /\ Same(w) /\ r.state = "processing" /\ r.state # "absent"
                         /\ r.fenced_claim_epoch = c.epoch /\ r.fenced_claim_epoch > 0
                         /\ r.last_marked_claim_epoch # r.fenced_claim_epoch
                         /\ ~has_unknown_external_send_evidence(r)
                         /\ r.desired_action = c.action
  BY <1>1, <1>3, CurrentClaim DEF ClaimSound, About, RowSound
<1>5. ClaimCurrent(w) => phase # "Invalid" /\ phase # "ClaimMarked"
  BY <1>3, <1>4, SoundIsWellFormed DEF attempt_identity_phase
<1>6. r.attempt_count \in Nat /\ MaxAttempts \in Nat
  BY <1>3, MaxAttemptsAssumption DEF Row
<1>7. \/ outbox' = outbox /\ Stop(w)
      \/ /\ ClaimCurrent(w) /\ r.attempt_count >= MaxAttempts
         /\ outbox' = [outbox EXCEPT ![m] = exhausted] /\ Stop(w)
      \/ /\ ClaimCurrent(w) /\ ~(r.attempt_count >= MaxAttempts)
         /\ outbox' = [outbox EXCEPT ![m] = Reserved(r)] /\ hold(r.attempt_count + 1)
  <2>1. CASE ~ClaimCurrent(w) \/ is_delete_unknown(r) \/ phase = "NeverClaimed"
    BY <2>1 DEF Reserve
  <2>2. CASE ~(~ClaimCurrent(w) \/ is_delete_unknown(r) \/ phase = "NeverClaimed")
    <3>1. ClaimCurrent(w)
      BY <2>2
    <3>2. phase = "ClaimUnmarked"
      BY <1>5, <2>2 DEF attempt_identity_phase
    <3>3. (CASE phase = "Invalid" ->
                       outbox' = [outbox EXCEPT ![m] = BlockInvariant(@)] /\ Stop(w)
            [] phase = "ClaimMarked" -> UNCHANGED outbox /\ hold(r.attempt_count)
            [] phase = "ClaimUnmarked" /\ r.attempt_count >= MaxAttempts ->
                 /\ outbox' = [outbox EXCEPT ![m] =
                       Released(@, "blocked", exhausted_attempt_budget_error_code(@))]
                 /\ Stop(w)
            [] OTHER ->
                 /\ outbox' = [outbox EXCEPT ![m] = Reserved(@)]
                 /\ hold(r.attempt_count + 1))
      BY <2>2 DEF Reserve
    <3>4. CASE r.attempt_count >= MaxAttempts
      <4>1. outbox' = [outbox EXCEPT ![m] =
                       Released(@, "blocked", exhausted_attempt_budget_error_code(@))]
              /\ Stop(w)
        <5> HIDE DEF phase, m, r, hold
        <5> QED
          BY <3>2, <3>3, <3>4
      <4> QED
        BY <3>1, <3>4, <4>1
    <3>5. CASE ~(r.attempt_count >= MaxAttempts)
      <4>1. outbox' = [outbox EXCEPT ![m] = Reserved(@)] /\ hold(r.attempt_count + 1)
        <5> HIDE DEF phase, m, r, hold
        <5> QED
          BY <3>2, <3>3, <3>5
      <4> QED
        BY <3>1, <3>5, <4>1
    <3> QED
      BY <3>4, <3>5
  <2> QED
    BY <2>1, <2>2
<1>8. CASE outbox' = outbox /\ Stop(w)
  BY <1>1, <1>2, <1>8, NoRow, NoResolution, OneLetsGo DEF Quiet
<1>9. CASE /\ ClaimCurrent(w) /\ r.attempt_count >= MaxAttempts
           /\ outbox' = [outbox EXCEPT ![m] = exhausted] /\ Stop(w)
  <2>1. exhausted \in Row /\ RowSound(exhausted) /\ Kept(r, exhausted)
    BY <1>3, <1>4, <1>9, ExhaustedSound
  <2> HIDE DEF exhausted
  <2>2. RowsSound' /\ OthersKept(m) /\ outbox'[m] = exhausted
    BY <1>1, <1>2, <1>3, <1>9, <2>1, OneRow
  <2>3. \A n \in Memories : RowKept(n)
    BY <2>1, <2>2, KeptSelf DEF RowKept, OthersKept
  <2> QED
    BY <1>1, <1>2, <1>9, <2>2, <2>3, NoResolution, OneLetsGo DEF Quiet
<1>10. CASE /\ ClaimCurrent(w) /\ ~(r.attempt_count >= MaxAttempts)
            /\ outbox' = [outbox EXCEPT ![m] = Reserved(r)] /\ hold(r.attempt_count + 1)
  <2> DEFINE q == Reserved(r)
  <2>1. /\ q \in Row /\ RowSound(q) /\ SameIntent(r, q)
        /\ ~has_unknown_external_send_evidence(r)
        /\ has_unknown_external_send_evidence(q) <=> r.desired_action = "upsert"
        /\ q.attempt_count = r.attempt_count + 1
        /\ q.fenced_claim_epoch = r.fenced_claim_epoch
        /\ q.last_marked_claim_epoch = r.fenced_claim_epoch
        /\ q.claimed_generation = r.claimed_generation
    BY <1>3, <1>4, <1>6, <1>10, ReservedSound
  <2>2. OthersSame(w) /\ worker'[w].pc = "reserved"
          /\ worker'[w].claim = [c EXCEPT !.ordinal = r.attempt_count + 1]
    BY <1>2, <1>10 DEF OthersSame, Drain
  <2>3. LET e == worker'[w].claim IN
          /\ e.memory = m /\ e.sequence = c.sequence /\ e.action = c.action
          /\ e.target = c.target /\ e.epoch = c.epoch /\ e.ordinal = r.attempt_count + 1
    <3> HIDE DEF c, r, m
    <3> QED
      BY <1>3, <2>2 DEF Claim, m
  <2> HIDE DEF q
  <2>4. RowsSound' /\ OthersKept(m) /\ outbox'[m] = q
    BY <1>1, <1>2, <1>3, <1>10, <2>1, OneRow DEF q
  <2>5. Reserves(w)
    BY <1>1, <1>4, <1>10, <2>1, <2>2, <2>3, <2>4 DEF Reserves
  <2> QED
    BY <2>4, <2>5
<1> QED
  BY <1>7, <1>8, <1>9, <1>10

\* The request to the embedding provider.
LEMMA CallEmbeddingKind ==
    ASSUME SyncInv, NEW w \in Workers, CallEmbedding(w)
    PROVE  RowsSound' /\ (Quiet \/ Embeds(w))
<1> DEFINE s == worker[w].claim.sequence
<1>1. /\ Pc(w) = "reserved" /\ worker[w].claim.action = "upsert"
      /\ UNCHANGED <<outbox, lease, clock, resolution>>
      /\ \/ /\ TokenCurrent(w) /\ Goto(w, "embedding")
            /\ calls' = [calls EXCEPT ![s].embed = @ + 1]
         \/ Stop(w) /\ calls' = calls
  BY DEF CallEmbedding
<1>2. Intents /\ RowsSound
  BY DEF SyncInv
<1>3. RowsSound' /\ \A m \in Memories : RowKept(m)
  BY <1>1, <1>2, NoRow
<1>4. CASE Stop(w) /\ calls' = calls
  BY <1>1, <1>2, <1>3, <1>4, NoResolution, OneLetsGo DEF Quiet
<1>5. CASE /\ TokenCurrent(w) /\ Goto(w, "embedding")
           /\ calls' = [calls EXCEPT ![s].embed = @ + 1]
  <2>1. Moves(w, {"reserved"}, "embedding")
    BY <1>1, <1>2, <1>5, OneGoes DEF Moves
  <2>2. Matched(w) /\ About(w).state = "processing"
    BY <1>5, CurrentToken
  <2> QED
    BY <1>1, <1>3, <1>5, <2>1, <2>2 DEF Embeds
<1> QED
  BY <1>1, <1>4, <1>5

\* The provider's answer.
LEMMA EmbeddingReturnsKind ==
    ASSUME SyncInv, NEW w \in Workers, EmbeddingReturns(w)
    PROVE  RowsSound' /\ EmbeddingEnds(w)
<1> DEFINE s == worker[w].claim.sequence
<1>1. /\ Pc(w) = "embedding" /\ UNCHANGED <<outbox, lease, clock, resolution>>
      /\ \/ Goto(w, "embedded") /\ calls' = calls
         \/ \E f \in EmbeddingFailures \cup {InvalidVector} :
               /\ Fail(w, f)
               /\ calls' = IF send_disposition(f) = "definitely_not_sent"
                           THEN [calls EXCEPT ![s].unsent = @ + 1] ELSE calls
  BY DEF EmbeddingReturns
<1>2. Intents /\ RowsSound
  BY DEF SyncInv
<1>3. RowsSound'
  BY <1>1, <1>2, NoRow
<1>4. CASE Goto(w, "embedded") /\ calls' = calls
  <2>1. Moves(w, {"embedding"}, "embedded")
    BY <1>1, <1>2, <1>4, OneGoes DEF Moves
  <2> QED
    BY <1>1, <1>3, <1>4, <2>1 DEF EmbeddingEnds
<1>5. ASSUME NEW f \in EmbeddingFailures \cup {InvalidVector}, Fail(w, f),
             calls' = IF send_disposition(f) = "definitely_not_sent"
                      THEN [calls EXCEPT ![s].unsent = @ + 1] ELSE calls
      PROVE  RowsSound' /\ EmbeddingEnds(w)
  <2>1. Moves(w, {"embedding"}, "failed") /\ worker'[w].failure = f
    BY <1>1, <1>2, <1>5, OneFails DEF Moves
  <2>2. f \notin LanceFailures
    BY DEF EmbeddingFailures, InvalidVector, LanceFailures
  <2> QED
    BY <1>1, <1>3, <1>5, <2>1, <2>2 DEF EmbeddingEnds
<1> QED
  BY <1>1, <1>4, <1>5

\* The Delete's witness, with the resolution it owes.
LEMMA MarkWitnessKind ==
    ASSUME SyncInv, NEW w \in Workers, MarkWitness(w)
    PROVE  RowsSound' /\ (Quiet \/ Witnesses(w))
<1> DEFINE c == worker[w].claim
           m == c.memory
           r == outbox[m]
           q == Witnessed(r, now)
<1>1. /\ Pc(w) = "reserved" /\ c.action = "delete"
      /\ UNCHANGED <<lease, clock, calls>>
      /\ \/ /\ TokenCurrent(w) /\ outbox' = [outbox EXCEPT ![m] = q]
            /\ EnsureResolution(c, q.delete_witness_at) /\ Goto(w, "witnessed")
         \/ outbox' = outbox /\ resolution' = resolution /\ Stop(w)
  BY DEF MarkWitness
<1>2. Intents /\ RowsSound /\ Holds(w) /\ now \in Nat
  BY <1>1 DEF SyncInv, Intents, TypeOK, Holds
<1>3. m \in Memories /\ r \in Row /\ RowSound(r)
  BY <1>2, HeldClaim DEF About
<1>4. CASE outbox' = outbox /\ resolution' = resolution /\ Stop(w)
  BY <1>1, <1>2, <1>4, NoRow, NoResolution, OneLetsGo DEF Quiet
<1>5. CASE /\ TokenCurrent(w) /\ outbox' = [outbox EXCEPT ![m] = q]
           /\ EnsureResolution(c, q.delete_witness_at) /\ Goto(w, "witnessed")
  <2>1. /\ Matched(w) /\ r.state = "processing"
        /\ r.last_marked_claim_epoch = r.fenced_claim_epoch
    BY <1>5, CurrentToken DEF About
  <2>2. /\ q \in Row /\ RowSound(q) /\ SameIntent(r, q)
        /\ has_unknown_external_send_evidence(q)
        /\ q.attempt_count = r.attempt_count
        /\ q.fenced_claim_epoch = r.fenced_claim_epoch
        /\ q.last_marked_claim_epoch = r.last_marked_claim_epoch
        /\ q.claimed_generation = r.claimed_generation
    BY <1>2, <1>3, <2>1, WitnessedSound
  <2>3. Moves(w, {"reserved"}, "witnessed")
    BY <1>1, <1>2, <1>5, OneGoes DEF Moves
  <2> HIDE DEF q
  <2>4. RowsSound' /\ OthersKept(m) /\ outbox'[m] = q
    BY <1>1, <1>2, <1>3, <1>5, <2>2, OneRow
  <2>5. Witnesses(w)
    BY <1>1, <1>5, <2>1, <2>2, <2>3, <2>4 DEF Witnesses
  <2> QED
    BY <2>4, <2>5
<1> QED
  BY <1>1, <1>4, <1>5

\* The request to LanceDB.
LEMMA CallLanceKind ==
    ASSUME SyncInv, NEW w \in Workers, CallLance(w)
    PROVE  RowsSound' /\ (Quiet \/ Writes(w))
<1> DEFINE s == worker[w].claim.sequence
<1>1. /\ Pc(w) \in {"embedded", "witnessed"}
      /\ UNCHANGED <<outbox, lease, clock, resolution>>
      /\ \/ /\ TokenCurrent(w) /\ Goto(w, "writing")
            /\ calls' = [calls EXCEPT ![s].write = @ + 1]
         \/ Stop(w) /\ calls' = calls
  BY DEF CallLance
<1>2. Intents /\ RowsSound
  BY DEF SyncInv
<1>3. RowsSound' /\ \A m \in Memories : RowKept(m)
  BY <1>1, <1>2, NoRow
<1>4. CASE Stop(w) /\ calls' = calls
  BY <1>1, <1>2, <1>3, <1>4, NoResolution, OneLetsGo DEF Quiet
<1>5. CASE /\ TokenCurrent(w) /\ Goto(w, "writing")
           /\ calls' = [calls EXCEPT ![s].write = @ + 1]
  <2>1. Moves(w, {"embedded", "witnessed"}, "writing")
    BY <1>1, <1>2, <1>5, OneGoes DEF Moves
  <2>2. Matched(w) /\ About(w).state = "processing"
    BY <1>5, CurrentToken
  <2> QED
    BY <1>1, <1>3, <1>5, <2>1, <2>2 DEF Writes
<1> QED
  BY <1>1, <1>4, <1>5

\* LanceDB's answer.
LEMMA LanceReturnsKind ==
    ASSUME SyncInv, NEW w \in Workers, LanceReturns(w)
    PROVE  RowsSound' /\ Quiet
<1>1. /\ Pc(w) = "writing" /\ UNCHANGED <<outbox, lease, clock, resolution, calls>>
      /\ Goto(w, "wrote") \/ \E f \in LanceFailures : Fail(w, f)
  BY DEF LanceReturns
<1>2. Intents /\ RowsSound
  BY DEF SyncInv
<1>3. /\ OthersSame(w) /\ worker'[w].claim = worker[w].claim
      /\ \/ worker'[w].pc = "wrote"
         \/ worker'[w].pc = "failed" /\ worker'[w].failure \in LanceFailures
  BY <1>1, <1>2, OneGoes, OneFails
<1>4. \A v \in Workers : WorkerQuiet(v)
  BY <1>1, <1>3 DEF WorkerQuiet, OthersSame, Pc
<1> QED
  BY <1>1, <1>2, <1>4, NoRow, NoResolution DEF Quiet

\* The success is recorded.
LEMMA FinalizeSuccessKind ==
    ASSUME SyncInv, NEW w \in Workers, FinalizeSuccess(w)
    PROVE  RowsSound' /\ Quiet
<1> DEFINE m == worker[w].claim.memory
<1>1. /\ Pc(w) = "wrote" /\ UNCHANGED <<lease, clock, resolution, calls>>
      /\ \/ outbox' = [outbox EXCEPT ![m] = EmptyRow] /\ NextEvent(w)
         \/ outbox' = outbox /\ Stop(w)
  BY DEF FinalizeSuccess
<1>2. Intents /\ RowsSound /\ Holds(w)
  BY <1>1 DEF SyncInv, Holds
<1>3. m \in Memories
  BY <1>2, HeldClaim
<1>4. RowsSound' /\ \A n \in Memories : RowKept(n)
  <2>1. CASE outbox' = outbox
    BY <1>1, <1>2, <2>1, NoRow
  <2>2. CASE outbox' = [outbox EXCEPT ![m] = EmptyRow]
    <3>1. RowsSound' /\ OthersKept(m) /\ outbox'[m] = EmptyRow
      BY <1>1, <1>2, <1>3, <2>2, OneRow, EmptyRowType, EmptyRowSound
    <3> QED
      BY <3>1, KeptSelf DEF RowKept, OthersKept
  <2> QED
    BY <1>1, <2>1, <2>2
<1>5. \A v \in Workers : WorkerQuiet(v)
  BY <1>1, <1>2, OneLetsGo
<1> QED
  BY <1>1, <1>4, <1>5, NoResolution DEF Quiet

\* The failure of a call is recorded.
LEMMA FinalizeFailureKind ==
    ASSUME SyncInv, NEW w \in Workers, FinalizeFailure(w)
    PROVE  RowsSound' /\ (Quiet \/ Fails(w))
<1> DEFINE d == worker[w]
           c == d.claim
           m == c.memory
           r == outbox[m]
           e == stable_error_code(d.failure)
           sent == send_disposition(d.failure)
           base == IF now >= d.cutoff THEN now ELSE d.cutoff
           done(s, t) == [Released(r, s, e) EXCEPT !.next_attempt_at = t,
                                                   !.last_send_disposition = sent]
           unknown == is_delete_unknown(done("blocked", 0))
           asked == schedules_retry(d.failure, c.ordinal, c.action)
           at == base + retry_delay(c.ordinal)
<1>1. /\ Pc(w) = "failed" /\ UNCHANGED <<lease, clock, calls>>
      /\ \/ /\ TokenCurrent(w)
            /\ \E clock_available \in BOOLEAN :
                  outbox' = [outbox EXCEPT ![m] =
                     IF clock_available /\ asked THEN done("retry_wait", at)
                                                 ELSE done("blocked", 0)]
            /\ IF unknown THEN EnsureResolution(c, r.delete_witness_at)
                          ELSE resolution' = resolution
            /\ NextEvent(w)
         \/ outbox' = outbox /\ resolution' = resolution /\ Stop(w)
  BY DEF FinalizeFailure
<1>2. Intents /\ RowsSound /\ Holds(w) /\ now \in Nat
  BY <1>1 DEF SyncInv, Intents, TypeOK, Holds
<1>3. /\ d \in Drain /\ c \in Claim /\ m \in Memories /\ r \in Row /\ RowSound(r)
      /\ d.cutoff \in Nat /\ c.ordinal \in Nat
  <2>1. d \in Drain /\ c \in Claim /\ m \in Memories /\ r \in Row /\ RowSound(r)
    BY <1>2, HeldClaim DEF About
  <2> HIDE DEF d, c, r, m
  <2> QED
    BY <2>1 DEF Drain, Claim
<1>4. CASE outbox' = outbox /\ resolution' = resolution /\ Stop(w)
  BY <1>1, <1>2, <1>4, NoRow, NoResolution, OneLetsGo DEF Quiet
<1>5. ASSUME TokenCurrent(w), NextEvent(w),
             IF unknown THEN EnsureResolution(c, r.delete_witness_at)
                        ELSE resolution' = resolution,
             NEW s \in {"blocked", "retry_wait"}, NEW t \in Nat,
             outbox' = [outbox EXCEPT ![m] = done(s, t)]
      PROVE  RowsSound' /\ Fails(w)
  <2> DEFINE q == Failed(r, s, e, t, sent)
             p == Failed(r, "blocked", e, 0, sent)
  <2>1. /\ Matched(w) /\ r.state = "processing"
        /\ r.last_marked_claim_epoch = r.fenced_claim_epoch
    BY <1>5, CurrentToken DEF About
  <2>2. /\ e \in ErrorCodes /\ e \notin {"INTERNAL_INVARIANT", "VECTOR_TARGET_STALE"}
        /\ sent \in Dispositions
        /\ e = "PROVIDER_RESULT_UNKNOWN" => sent = "possibly_sent"
    BY DEF stable_error_code, send_disposition, provider_result_unknown, ErrorCodes,
           Dispositions
  <2>10. done(s, t) = q /\ done("blocked", 0) = p
    BY DEF Failed
  <2> HIDE DEF e, sent, done
  <2>3. /\ q \in Row /\ RowSound(q) /\ SameIntent(r, q)
        /\ has_unknown_external_send_evidence(q) <=> sent = "possibly_sent"
        /\ q.attempt_count = r.attempt_count
        /\ q.fenced_claim_epoch = r.fenced_claim_epoch
        /\ q.last_marked_claim_epoch = r.last_marked_claim_epoch
        /\ q.claimed_generation = r.claimed_generation
    <3> HIDE DEF d, r
    <3> QED
      BY <1>3, <1>5, <2>1, <2>2, FailedSound
  <2>4. /\ SameIntent(r, p)
        /\ has_unknown_external_send_evidence(p) <=> sent = "possibly_sent"
    <3> HIDE DEF d, r
    <3> QED
      BY <1>3, <2>1, <2>2, FailedSound
  <2> HIDE DEF p, q
  <2>5. unknown <=> is_delete_unknown(q)
    BY <2>10, <2>3, <2>4 DEF SameIntent, is_delete_unknown
  <2>6. OthersSame(w) /\ worker'[w].pc \in {"idle", "drain"}
    BY <1>2, <1>5, OneLetsGo
  <2> HIDE DEF unknown
  <2>7. RowsSound' /\ OthersKept(m) /\ outbox'[m] = q
    BY <1>1, <1>2, <1>3, <1>5, <2>10, <2>3, OneRow
  <2>8. IF is_delete_unknown(q) THEN EnsureResolution(c, r.delete_witness_at)
                                ELSE resolution' = resolution
    BY <1>5, <2>5
  <2>9. Fails(w)
    BY <1>1, <2>1, <2>3, <2>6, <2>7, <2>8 DEF Fails, sent
  <2> QED
    BY <2>7, <2>9
<1>6. CASE /\ TokenCurrent(w)
           /\ \E clock_available \in BOOLEAN :
                 outbox' = [outbox EXCEPT ![m] =
                    IF clock_available /\ asked THEN done("retry_wait", at)
                                                ELSE done("blocked", 0)]
           /\ IF unknown THEN EnsureResolution(c, r.delete_witness_at)
                         ELSE resolution' = resolution
           /\ NextEvent(w)
  <2>1. asked => at \in Nat
    <3>1. asked => retry_delay(c.ordinal) \in Nat
      BY <1>3, RetryDelayType
    <3>2. base \in Nat
      BY <1>2, <1>3
    <3> HIDE DEF asked, base, c
    <3> QED
      BY <3>1, <3>2
  <2> HIDE DEF asked, at, done, unknown
  <2>2. \/ outbox' = [outbox EXCEPT ![m] = done("blocked", 0)]
        \/ asked /\ outbox' = [outbox EXCEPT ![m] = done("retry_wait", at)]
    BY <1>6
  <2> QED
    BY <1>5, <1>6, <2>1, <2>2
<1> QED
  BY <1>1, <1>4, <1>6

\* A crash.
LEMMA AbortKind ==
    ASSUME SyncInv, NEW w \in Workers, Abort(w)
    PROVE  RowsSound' /\ Quiet
<1>1. UNCHANGED <<outbox, lease, clock, calls, resolution>> /\ Stop(w)
  BY DEF Abort
<1>2. Intents /\ RowsSound
  BY DEF SyncInv
<1> QED
  BY <1>1, <1>2, NoRow, NoResolution, OneLetsGo DEF Quiet

\* A step that no drain takes leaves every drain as it is.
LEMMA NoWorker ==
    ASSUME worker' = worker
    PROVE  \A w \in Workers : WorkerQuiet(w)
BY DEF WorkerQuiet

\* The manual retry.
LEMMA RetryFailuresKind ==
    ASSUME SyncInv, RetryFailures
    PROVE  RowsSound' /\ Quiet
<1>1. /\ outbox' = [m \in Memories |-> ManuallyRetried(outbox[m])]
      /\ UNCHANGED <<lease, clock, calls, resolution, worker>>
  BY DEF RetryFailures
<1>2. Intents /\ RowsSound
  BY DEF SyncInv
<1>3. ASSUME NEW m \in Memories
      PROVE  RowSound(outbox'[m]) /\ Kept(outbox[m], outbox'[m])
  BY <1>1, <1>2, RowFacts, ManuallyRetriedSound
<1> QED
  BY <1>1, <1>2, <1>3, NoWorker, NoResolution DEF Quiet, RowKept, RowsSound

\* The cut-over.
LEMMA PromoteKind ==
    ASSUME SyncInv, NEW w \in Workers, Promote(w)
    PROVE  RowsSound' /\ Quiet
<1> DEFINE f == [r \in resolution |->
                    IF /\ Open(r)
                       /\ outbox[r.memory].desired_action = "delete"
                       /\ outbox[r.memory].mutation_sequence = r.sequence
                    THEN Concluded(r, "resolved_rebuilt") ELSE r]
<1>1. /\ resolution' = {f[r] : r \in resolution}
      /\ outbox' = [m \in Memories |-> EmptyRow]
      /\ UNCHANGED <<lease, clock, calls, worker>>
  BY DEF Promote
<1>2. RowsSound /\ resolution \subseteq Resolutions
  BY DEF SyncInv, Intents, TypeOK
<1>3. \A x \in resolution :
         f[x] = x \/ \E state \in TerminalStates : f[x] = Concluded(x, state)
  BY DEF TerminalStates
<1> HIDE DEF f
<1>4. ResolutionKept
  BY <1>1, <1>2, <1>3, SomeConcluded
<1>5. RowsSound' /\ \A m \in Memories : RowKept(m)
  BY <1>1, <1>2, EmptyRowSound DEF RowsSound, RowKept
<1> QED
  BY <1>1, <1>4, <1>5, NoWorker DEF Quiet

\* Time passes, or nothing does.
LEMMA IdleKind ==
    ASSUME SyncInv, Tick \/ UNCHANGED vars
    PROVE  RowsSound' /\ Quiet
<1>1. UNCHANGED <<outbox, lease, clock, calls, resolution, worker>>
  BY DEF Tick, vars
<1>2. RowsSound
  BY DEF SyncInv
<1> QED
  BY <1>1, <1>2, NoRow, NoWorker, NoResolution DEF Quiet

\* A mutation of a memory, of any of the four sorts.
LEMMA RecordAndEnqueueKind ==
    ASSUME SyncInv, NEW m \in Memories, NEW status, NEW revision \in Nat,
           RecordAndEnqueue(m, status, revision)
    PROVE  RowsSound' /\ Enqueues(m)
<1> DEFINE a == IF status = "plain" THEN "upsert" ELSE "delete"
           q == Enqueued(outbox[m], a, clock + 1, revision)
<1>1. /\ clock < MaxSequence /\ clock' = clock + 1 /\ resolution' = Superseded(m)
      /\ outbox' = [outbox EXCEPT ![m] = q] /\ UNCHANGED <<lease, worker, calls>>
  BY DEF RecordAndEnqueue, Enqueue
<1>2. Intents /\ RowsSound /\ clock \in 0 .. MaxSequence /\ MaxSequence \in Nat
        /\ outbox[m] \in Row
  BY BoundsAssumption DEF SyncInv, Intents, TypeOK, OutboxOK
<1>3. clock + 1 \in Mutations /\ clock + 1 \in Nat
  BY <1>1, <1>2 DEF Mutations
<1>4. a \in Actions
  BY DEF Actions
<1> HIDE DEF a
<1>5. /\ q \in Row /\ RowSound(q) /\ ~has_unknown_external_send_evidence(q)
      /\ q.state = "pending" /\ q.mutation_sequence = clock + 1
  <2> DEFINE r == outbox[m]
             s == clock + 1
  <2>1. r \in Row /\ s \in Nat /\ revision \in Nat /\ a \in Actions
    BY <1>2, <1>3, <1>4
  <2> HIDE DEF r, s
  <2>2. /\ Enqueued(r, a, s, revision) \in Row
        /\ RowSound(Enqueued(r, a, s, revision))
        /\ ~has_unknown_external_send_evidence(Enqueued(r, a, s, revision))
        /\ Enqueued(r, a, s, revision).state = "pending"
        /\ Enqueued(r, a, s, revision).mutation_sequence = s
    BY <2>1, EnqueuedSound
  <2> QED
    BY <2>2 DEF r, s
<1> HIDE DEF q
<1>6. RowsSound' /\ OthersKept(m) /\ outbox'[m] = q
  BY <1>1, <1>2, <1>5, OneRow
<1> QED
  BY <1>1, <1>3, <1>5, <1>6 DEF Enqueues

LEMMA MutateKind ==
    ASSUME SyncInv, NEW m \in Memories, Mutate(m)
    PROVE  RowsSound' /\ Enqueues(m)
<1>1. memory[m].revision \in Nat /\ memory[m].revision + 1 \in Nat
  BY DEF SyncInv, Intents, TypeOK
<1>2. \E status, revision : revision \in Nat /\ RecordAndEnqueue(m, status, revision)
  <2>1. CASE ConfirmCandidate(m)
    BY <2>1 DEF ConfirmCandidate
  <2>2. CASE UpdateConfirmed(m)
    BY <1>1, <2>2 DEF UpdateConfirmed
  <2>3. CASE SetSensitivity(m)
    BY <1>1, <2>3 DEF SetSensitivity
  <2>4. CASE DeletePermanently(m)
    BY <1>1, <2>4 DEF DeletePermanently
  <2> QED
    BY <2>1, <2>2, <2>3, <2>4 DEF Mutate
<1> QED
  BY <1>2, RecordAndEnqueueKind

\* Every step keeps the rows sound and is of one of the kinds.
LEMMA StepKinds ==
    ASSUME SyncInv, [Next]_vars
    PROVE  RowsSound' /\ Kinds
<1>1. ASSUME NEW m \in Memories, Mutate(m) PROVE RowsSound' /\ Kinds
  BY <1>1, MutateKind DEF Kinds
<1>2. ASSUME NEW w \in Workers, StartDrain(w) \/ ClaimRefused(w) \/ Abort(w) \/ Promote(w)
      PROVE  RowsSound' /\ Kinds
  BY <1>2, StartDrainKind, ClaimRefusedKind, AbortKind, PromoteKind DEF Kinds
<1>3. ASSUME NEW w \in Workers, ClaimOne(w) PROVE RowsSound' /\ Kinds
  BY <1>3, ClaimOneKind DEF Kinds
<1>4. ASSUME NEW w \in Workers, Execute(w) PROVE RowsSound' /\ Kinds
  <2>1. CASE ReadDocument(w) \/ BlockTargetStale(w) \/ LanceReturns(w) \/ FinalizeSuccess(w)
    BY <2>1, ReadDocumentKind, BlockTargetStaleKind, LanceReturnsKind, FinalizeSuccessKind
       DEF Kinds
  <2>2. CASE Reserve(w)
    BY <2>2, ReserveKind DEF Kinds
  <2>3. CASE CallEmbedding(w) \/ EmbeddingReturns(w)
    BY <2>3, CallEmbeddingKind, EmbeddingReturnsKind DEF Kinds
  <2>4. CASE MarkWitness(w) \/ CallLance(w)
    BY <2>4, MarkWitnessKind, CallLanceKind DEF Kinds
  <2>5. CASE FinalizeFailure(w)
    BY <2>5, FinalizeFailureKind DEF Kinds
  <2> QED
    BY <1>4, <2>1, <2>2, <2>3, <2>4, <2>5 DEF Execute
<1>5. ASSUME RetryFailures \/ Tick \/ UNCHANGED vars PROVE RowsSound' /\ Kinds
  BY <1>5, RetryFailuresKind, IdleKind DEF Kinds
<1> QED
  BY <1>1, <1>2, <1>3, <1>4, <1>5 DEF Next, Sync

-----------------------------------------------------------------------------
(* Where rows and claims come from *)

\* The row of m stands for the mutation it stood for, and has lost nothing.
RowStays(m) ==
    LET r == outbox[m]
        q == outbox'[m]
    IN  /\ Present(m) /\ SameIntent(r, q)
        /\ q.attempt_count >= r.attempt_count
        /\ q.fenced_claim_epoch >= r.fenced_claim_epoch
        /\ q.last_marked_claim_epoch >= r.last_marked_claim_epoch
        /\ r.attempt_count > 0 => q.claimed_generation = r.claimed_generation
        /\ is_delete_unknown(r) => is_delete_unknown(q)

\* The numbers of a row.
LEMMA RowNumbers ==
    ASSUME NEW r \in Row
    PROVE  /\ r.attempt_count \in Nat /\ r.fenced_claim_epoch \in Nat
           /\ r.last_marked_claim_epoch \in Nat /\ r.mutation_sequence \in Nat
BY DEF Row

\* A row left as it is has lost nothing.
LEMMA SameRowStays ==
    ASSUME NEW m \in Memories, outbox[m] \in Row, Present(m), outbox'[m] = outbox[m]
    PROVE  RowStays(m)
BY RowNumbers DEF RowStays, SameIntent

\* A kept row has lost nothing.
LEMMA KeptRowStays ==
    ASSUME NEW m \in Memories, outbox[m] \in Row, RowKept(m), Present(m)'
    PROVE  RowStays(m)
<1>1. Kept(outbox[m], outbox'[m])
  BY DEF RowKept, Present, EmptyRow
<1>2. Present(m)
  BY <1>1 DEF Present, Kept, SameIntent
<1> QED
  BY <1>1, <1>2, RowNumbers DEF RowStays, Kept, SameIntent, is_delete_unknown

\* A row that is there after a step was there before and has lost nothing, unless
\* the step enqueued it.
LEMMA RowBefore ==
    ASSUME SyncInv, TypeOK', Kinds, NEW m \in Memories, Present(m)'
    PROVE  RowStays(m) \/ Enqueues(m)
<1> DEFINE r == outbox[m]
           q == outbox'[m]
<1>1. r \in Row /\ q \in Row /\ RowSound(r)
  BY DEF SyncInv, Intents, TypeOK, OutboxOK, RowsSound
<1>2. ASSUME q = r PROVE RowStays(m)
  <2>1. Present(m)
    BY <1>2 DEF Present
  <2> QED
    BY <1>1, <1>2, <2>1, SameRowStays
<1>3. CASE Quiet
  BY <1>1, <1>3, KeptRowStays DEF Quiet
<1>4. ASSUME NEW w \in Workers, NEW n \in Memories, Claims(w, n)
      PROVE  RowStays(m)
  <2>1. CASE n = m
    BY <1>1, <1>4, <2>1, RowNumbers DEF Claims, RowStays, is_delete_unknown
  <2>2. CASE n # m
    BY <1>1, <1>4, <2>2, KeptRowStays DEF Claims
  <2> QED
    BY <2>1, <2>2
<1>5. ASSUME NEW w \in Workers, Reserves(w)
      PROVE  RowStays(m)
  <2>1. CASE worker[w].claim.memory = m
    <3>1. r.last_marked_claim_epoch <= r.fenced_claim_epoch
      BY <1>1 DEF RowSound
    <3> QED
      BY <1>1, <1>5, <2>1, <3>1, RowNumbers
         DEF Reserves, RowStays, is_delete_unknown, Same, About, Present
  <2>2. CASE worker[w].claim.memory # m
    BY <1>2, <1>5, <2>2 DEF Reserves, OthersKept
  <2> QED
    BY <2>1, <2>2
<1>6. ASSUME NEW w \in Workers, Witnesses(w)
      PROVE  RowStays(m)
  <2>1. CASE worker[w].claim.memory = m
    BY <1>1, <1>6, <2>1, RowNumbers
       DEF Witnesses, RowStays, SameIntent, is_delete_unknown, Matched, Same, About, Present
  <2>2. CASE worker[w].claim.memory # m
    BY <1>2, <1>6, <2>2 DEF Witnesses, OthersKept
  <2> QED
    BY <2>1, <2>2
<1>7. ASSUME NEW w \in Workers, Fails(w)
      PROVE  RowStays(m)
  <2>1. CASE worker[w].claim.memory = m
    <3>1. Pc(w) = "failed" /\ Holds(w) /\ Same(w)
      BY <1>7 DEF Fails, Holds, Matched
    <3>2. is_delete_unknown(r) => send_disposition(worker[w].failure) = "possibly_sent"
      <4>1. ClaimSound(w)
        BY <3>1 DEF SyncInv, ClaimsSound
      <4>2. r.desired_action = worker[w].claim.action
        BY <2>1, <3>1, <4>1 DEF ClaimSound, About
      <4>3. is_delete_unknown(r) => worker[w].failure \in LanceFailures
        BY <3>1, <4>1, <4>2 DEF ClaimSound, is_delete_unknown
      <4> QED
        BY <4>3 DEF LanceFailures, send_disposition
    <3> QED
      BY <1>1, <1>7, <2>1, <3>1, <3>2, RowNumbers
         DEF Fails, RowStays, SameIntent, is_delete_unknown, Same, About, Present
  <2>2. CASE worker[w].claim.memory # m
    BY <1>2, <1>7, <2>2 DEF Fails, OthersKept
  <2> QED
    BY <2>1, <2>2
<1>8. ASSUME NEW w \in Workers, Embeds(w) \/ EmbeddingEnds(w) \/ Writes(w)
      PROVE  RowStays(m)
  BY <1>2, <1>8 DEF Embeds, EmbeddingEnds, Writes
<1>9. ASSUME NEW n \in Memories, Enqueues(n), n # m
      PROVE  RowStays(m)
  BY <1>2, <1>9 DEF Enqueues, OthersKept
<1> QED
  BY <1>3, <1>4, <1>5, <1>6, <1>7, <1>8, <1>9 DEF Kinds

\* v goes on with the claim it had.
ClaimStays(v) ==
    LET c == worker[v].claim
        d == worker'[v].claim
    IN  /\ Holds(v)
        /\ d.memory = c.memory /\ d.sequence = c.sequence /\ d.action = c.action
        /\ d.target = c.target /\ d.epoch = c.epoch

\* A drain that has a claim after a step had it before, unless the step was that claim.
LEMMA ClaimBefore ==
    ASSUME Kinds, NEW v \in Workers, Holds(v)'
    PROVE  ClaimStays(v) \/ \E m \in Memories : Claims(v, m)
<1>1. ASSUME worker'[v] = worker[v] PROVE ClaimStays(v)
  BY <1>1 DEF ClaimStays, Holds, Pc
<1>2. CASE Quiet
  <2>1. WorkerQuiet(v)
    BY <1>2 DEF Quiet
  <2>2. worker'[v].pc \notin {"idle", "drain"}
    BY DEF Holds, Pc
  <2> QED
    BY <2>1, <2>2 DEF WorkerQuiet, ClaimStays, Holds, Pc
<1>3. ASSUME NEW w \in Workers, w # v,
             \/ \E m \in Memories : Claims(w, m)
             \/ Reserves(w) \/ Embeds(w) \/ EmbeddingEnds(w)
             \/ Witnesses(w) \/ Writes(w) \/ Fails(w)
      PROVE  ClaimStays(v)
  BY <1>1, <1>3
     DEF Claims, Reserves, Embeds, EmbeddingEnds, Witnesses, Writes, Fails, Moves, OthersSame
<1>4. CASE Reserves(v)
  BY <1>4 DEF Reserves, ClaimStays, Holds, Pc
<1>5. CASE Embeds(v) \/ EmbeddingEnds(v) \/ Witnesses(v) \/ Writes(v)
  BY <1>5 DEF Embeds, EmbeddingEnds, Witnesses, Writes, Moves, ClaimStays, Holds, Pc
<1>6. CASE Fails(v)
  BY <1>6 DEF Fails, Holds, Pc
<1>7. ASSUME NEW m \in Memories, Enqueues(m) PROVE ClaimStays(v)
  BY <1>1, <1>7 DEF Enqueues
<1> QED
  BY <1>2, <1>3, <1>4, <1>5, <1>6, <1>7 DEF Kinds

-----------------------------------------------------------------------------
(* Names: a mutation is spoken of by one memory only *)

\* A resolution after a step was there before, or is the one that the drain at its
\* unknown Delete owes.
LEMMA ResolutionBefore ==
    ASSUME Kinds, NEW p \in resolution'
    PROVE  \/ \E x \in resolution : x.memory = p.memory /\ x.sequence = p.sequence
           \/ \E w \in Workers : /\ Holds(w)
                                 /\ worker[w].claim.memory = p.memory
                                 /\ worker[w].claim.sequence = p.sequence
<1>1. CASE Quiet
  BY <1>1 DEF Quiet, ResolutionKept
<1>2. ASSUME resolution' = resolution
      PROVE  \E x \in resolution : x.memory = p.memory /\ x.sequence = p.sequence
  BY <1>2
<1>3. ASSUME NEW w \in Workers, NEW t, Holds(w), EnsureResolution(worker[w].claim, t)
      PROVE  \/ p \in resolution
             \/ p.memory = worker[w].claim.memory /\ p.sequence = worker[w].claim.sequence
  BY <1>3 DEF EnsureResolution, NewResolution
<1>4. ASSUME NEW w \in Workers, Witnesses(w) \/ Fails(w)
      PROVE  \/ resolution' = resolution
             \/ Holds(w) /\ \E t : EnsureResolution(worker[w].claim, t)
  BY <1>4 DEF Witnesses, Fails, Moves, Holds
<1>5. ASSUME NEW m \in Memories, Enqueues(m)
      PROVE  \E x \in resolution : x.memory = p.memory /\ x.sequence = p.sequence
  <2>1. PICK x \in resolution :
           p = IF x.memory = m /\ Open(x) THEN Concluded(x, "superseded") ELSE x
    BY <1>5 DEF Enqueues, Superseded
  <2>2. p.memory = x.memory /\ p.sequence = x.sequence
    BY <2>1 DEF Concluded
  <2> QED
    BY <2>2
<1>6. ASSUME NEW w \in Workers,
             \/ \E m \in Memories : Claims(w, m)
             \/ Reserves(w) \/ Embeds(w) \/ EmbeddingEnds(w) \/ Writes(w)
      PROVE  resolution' = resolution
  BY <1>6 DEF Claims, Reserves, Embeds, EmbeddingEnds, Writes
<1> QED
  BY <1>1, <1>2, <1>3, <1>4, <1>5, <1>6 DEF Kinds

\* Only an enqueue names a mutation that was not named, and it takes the next one.
LEMMA NamedBefore ==
    ASSUME SyncInv, TypeOK', Kinds, NEW m \in Memories, NEW s, Named(m, s)'
    PROVE  Named(m, s) \/ (Enqueues(m) /\ s = clock')
<1>1. CASE Present(m)' /\ outbox'[m].mutation_sequence = s
  <2>1. CASE RowStays(m)
    BY <1>1, <2>1 DEF RowStays, SameIntent, Named
  <2>2. CASE Enqueues(m)
    BY <1>1, <2>2 DEF Enqueues
  <2> QED
    BY <1>1, <2>1, <2>2, RowBefore
<1>2. ASSUME NEW v \in Workers, Holds(v)',
             worker'[v].claim.memory = m, worker'[v].claim.sequence = s
      PROVE  Named(m, s)
  <2>1. CASE ClaimStays(v)
    BY <1>2, <2>1 DEF ClaimStays, Named
  <2>2. ASSUME NEW n \in Memories, Claims(v, n) PROVE Named(m, s)
    BY <1>2, <2>2 DEF Claims, Named
  <2> QED
    BY <1>2, <2>1, <2>2, ClaimBefore
<1>3. ASSUME NEW p \in resolution', p.memory = m, p.sequence = s
      PROVE  Named(m, s)
  BY <1>3, ResolutionBefore DEF Named
<1> QED
  BY <1>1, <1>2, <1>3 DEF Named

\* The clock does not go back.
LEMMA ClockGrows ==
    ASSUME Kinds, clock \in Nat
    PROVE  clock' = clock \/ clock' = clock + 1
BY DEF Kinds, Quiet, Claims, Reserves, Embeds, EmbeddingEnds, Witnesses, Writes, Fails,
       Moves, Enqueues

LEMMA NamesStep ==
    ASSUME SyncInv, TypeOK', Kinds
    PROVE  NamesSound'
<1>1. clock \in Nat /\ NamesSound /\ Mutations \subseteq Nat
  BY BoundsAssumption DEF SyncInv, Intents, TypeOK, Mutations
<1>2. ASSUME NEW m \in Memories, NEW s \in Mutations, Named(m, s)',
             NEW n \in Memories, Named(n, s)'
      PROVE  s <= clock' /\ n = m
  <2>1. Named(m, s) \/ (Enqueues(m) /\ s = clock')
    BY <1>2, NamedBefore
  <2>2. Named(n, s) \/ (Enqueues(n) /\ s = clock')
    BY <1>2, NamedBefore
  <2>3. CASE Named(m, s) /\ Named(n, s)
    BY <1>1, <2>3, ClockGrows DEF NamesSound
  <2>4. ASSUME NEW x \in Memories, Enqueues(x), s = clock', NEW y \in Memories, Named(y, s)
        PROVE  FALSE
    BY <1>1, <2>4 DEF NamesSound, Enqueues
  <2>5. CASE Enqueues(m) /\ Enqueues(n) /\ s = clock'
    <3>1. clock' = clock + 1 /\ outbox'[m].mutation_sequence = clock'
            /\ (m # n => outbox'[m] = outbox[m]) /\ (m # n => Present(m))
      BY <2>5 DEF Enqueues, OthersKept, Present
    <3>2. m # n => Named(m, s)
      BY <2>5, <3>1 DEF Named
    <3> QED
      BY <1>1, <2>4, <2>5, <3>2
  <2> QED
    BY <2>1, <2>2, <2>3, <2>4, <2>5
<1> QED
  BY <1>2 DEF NamesSound

-----------------------------------------------------------------------------
(* Claims: what a drain knows of its row, and that nobody else has its epoch *)

\* A claim that is about its row after a step was about it before.
LEMMA SameBefore ==
    ASSUME SyncInv, TypeOK', Kinds, NEW v \in Workers, Holds(v)', ClaimStays(v), Same(v)'
    PROVE  /\ Same(v) /\ RowStays(worker[v].claim.memory)
           /\ ~Enqueues(worker[v].claim.memory)
<1> DEFINE m == worker[v].claim.memory
<1>1. /\ m \in Memories /\ worker'[v].claim.memory = m
      /\ worker[v].claim.sequence \in Mutations
      /\ worker'[v].claim.sequence = worker[v].claim.sequence
  BY HeldClaim DEF ClaimStays
<1>2. Present(m)' /\ outbox'[m].mutation_sequence = worker[v].claim.sequence
  BY <1>1 DEF Same, About, Present
<1>3. ~Enqueues(m)
  <2>1. Named(m, worker[v].claim.sequence)
    BY <1>1 DEF Named, ClaimStays
  <2>2. worker[v].claim.sequence <= clock
    BY <1>1, <2>1 DEF SyncInv, NamesSound
  <2>3. clock \in Nat
    BY DEF SyncInv, Intents, TypeOK
  <2> QED
    BY <1>2, <2>2, <2>3 DEF Enqueues
<1>4. RowStays(m)
  BY <1>1, <1>2, <1>3, RowBefore
<1> QED
  BY <1>1, <1>2, <1>3, <1>4 DEF RowStays, SameIntent, Same, About, Present

\* Where a drain that keeps its claim comes from.
PcStep(v) ==
    LET c == worker[v].claim
        q == outbox'[c.memory]
    IN  \/ Pc(v)' = Pc(v) /\ worker'[v].failure = worker[v].failure
        \/ Pc(v)' \in {"wrote", "reserved", "writing"}
        \/ Pc(v) = "claimed" /\ Pc(v)' = "read" /\ c.action = "upsert"
        \/ Pc(v) = "claimed" /\ Pc(v)' = "stale" /\ c.action = "upsert" /\ ~Same(v)
        \/ Pc(v)' = "embedding" /\ c.action = "upsert"
        \/ Pc(v) = "embedding" /\ Pc(v)' = "embedded"
        \/ Pc(v) = "embedding" /\ Pc(v)' = "failed"
        \/ Pc(v)' = "failed" /\ worker'[v].failure \in LanceFailures
        \/ Pc(v)' = "witnessed" /\ c.action = "delete"

LEMMA PcBefore ==
    ASSUME Kinds, NEW v \in Workers, \A m \in Memories : ~Claims(v, m), Holds(v)'
    PROVE  PcStep(v)
<1>1. ASSUME worker'[v] = worker[v] PROVE PcStep(v)
  BY <1>1 DEF PcStep, Pc
<1>2. CASE Quiet
  <2>1. WorkerQuiet(v)
    BY <1>2 DEF Quiet
  <2>2. worker'[v].pc \notin {"idle", "drain"}
    BY DEF Holds, Pc
  <2> QED
    BY <2>1, <2>2 DEF WorkerQuiet, PcStep, Pc
<1>3. ASSUME NEW w \in Workers, w # v,
             \/ \E m \in Memories : Claims(w, m)
             \/ Reserves(w) \/ Embeds(w) \/ EmbeddingEnds(w)
             \/ Witnesses(w) \/ Writes(w) \/ Fails(w)
      PROVE  PcStep(v)
  BY <1>1, <1>3
     DEF Claims, Reserves, Embeds, EmbeddingEnds, Witnesses, Writes, Fails, Moves, OthersSame
<1>4. CASE Reserves(v) \/ Embeds(v) \/ EmbeddingEnds(v) \/ Witnesses(v) \/ Writes(v)
  BY <1>4 DEF Reserves, Embeds, EmbeddingEnds, Witnesses, Writes, Moves, PcStep, Pc
<1>5. CASE Fails(v)
  BY <1>5 DEF Fails, Holds, Pc
<1>6. ASSUME NEW m \in Memories, Enqueues(m) PROVE PcStep(v)
  BY <1>1, <1>6 DEF Enqueues
<1> QED
  BY <1>2, <1>3, <1>4, <1>5, <1>6 DEF Kinds

\* The marked epoch and the attempts of a row change by the drain that reserves.
LEMMA MarkedBy ==
    ASSUME Kinds, NEW m \in Memories, outbox'[m].state # "absent", ~Enqueues(m)
    PROVE  \/ /\ outbox'[m].last_marked_claim_epoch = outbox[m].last_marked_claim_epoch
              /\ outbox'[m].attempt_count = outbox[m].attempt_count
           \/ \E w \in Workers :
                 /\ Reserves(w) /\ worker[w].claim.memory = m
                 /\ outbox'[m].last_marked_claim_epoch = worker[w].claim.epoch
<1> DEFINE Unmarked ==
             /\ outbox'[m].last_marked_claim_epoch = outbox[m].last_marked_claim_epoch
             /\ outbox'[m].attempt_count = outbox[m].attempt_count
<1>1. ASSUME outbox'[m] = outbox[m] PROVE Unmarked
  BY <1>1
<1>2. ASSUME RowKept(m) PROVE Unmarked
  BY <1>2 DEF RowKept, Kept, EmptyRow, Present
<1>3. CASE Quiet
  BY <1>2, <1>3 DEF Quiet
<1>4. ASSUME NEW w \in Workers, NEW n \in Memories, Claims(w, n) PROVE Unmarked
  <2>1. CASE n = m
    BY <1>4, <2>1 DEF Claims
  <2>2. CASE n # m
    BY <1>2, <1>4, <2>2 DEF Claims
  <2> QED
    BY <2>1, <2>2
<1>5. ASSUME NEW w \in Workers, Reserves(w)
      PROVE  \/ Unmarked
             \/ /\ worker[w].claim.memory = m
                /\ outbox'[m].last_marked_claim_epoch = worker[w].claim.epoch
  <2>1. CASE worker[w].claim.memory = m
    BY <1>5, <2>1 DEF Reserves
  <2>2. CASE worker[w].claim.memory # m
    BY <1>1, <1>5, <2>2 DEF Reserves, OthersKept
  <2> QED
    BY <2>1, <2>2
<1>6. ASSUME NEW w \in Workers,
             Witnesses(w) \/ Fails(w) \/ Embeds(w) \/ EmbeddingEnds(w) \/ Writes(w)
      PROVE  Unmarked
  <2>1. CASE worker[w].claim.memory = m
    BY <1>6, <2>1 DEF Witnesses, Fails, Embeds, EmbeddingEnds, Writes
  <2>2. CASE worker[w].claim.memory # m
    BY <1>1, <1>6, <2>2 DEF Witnesses, Fails, Embeds, EmbeddingEnds, Writes, OthersKept
  <2> QED
    BY <2>1, <2>2
<1>7. ASSUME NEW n \in Memories, Enqueues(n), n # m PROVE Unmarked
  BY <1>1, <1>7 DEF Enqueues, OthersKept
<1> QED
  BY <1>3, <1>4, <1>5, <1>6, <1>7 DEF Kinds

\* What a drain knows survives every step.
LEMMA ClaimSoundStep ==
    ASSUME SyncInv, TypeOK', Kinds, NEW v \in Workers, Holds(v)'
    PROVE  ClaimSound(v)'
<1>1. ASSUME NEW m \in Memories, Claims(v, m) PROVE ClaimSound(v)'
  <2> DEFINE r == outbox[m]
             q == outbox'[m]
             c == worker'[v].claim
  <2>1. /\ c.memory = m /\ c.epoch = r.fenced_claim_epoch + 1 /\ Pc(v)' = "claimed"
        /\ q.fenced_claim_epoch = r.fenced_claim_epoch + 1
        /\ q.last_marked_claim_epoch = r.last_marked_claim_epoch
        /\ SameIntent(r, q) /\ c.action = r.desired_action /\ c.target = r.target_revision
    BY <1>1 DEF Claims, Pc
  <2>2. r \in Row /\ r.last_marked_claim_epoch <= r.fenced_claim_epoch
    BY DEF SyncInv, Intents, TypeOK, OutboxOK, RowsSound, RowSound
  <2> HIDE DEF r, q, c
  <2>3. /\ c.epoch > 0 /\ c.epoch <= q.fenced_claim_epoch /\ q.last_marked_claim_epoch # c.epoch
        /\ q.desired_action = c.action /\ q.target_revision = c.target
    BY <2>1, <2>2, RowNumbers DEF SameIntent
  <2> QED
    BY <2>1, <2>3 DEF ClaimSound, About, q, c
<1>2. CASE \A m \in Memories : ~Claims(v, m)
  <2> DEFINE c == worker[v].claim
             d == worker'[v].claim
             m == c.memory
             r == outbox[m]
             q == outbox'[m]
  <2>1. ClaimStays(v) /\ PcStep(v) /\ ClaimSound(v) /\ m \in Memories /\ r \in Row
    BY <1>2, ClaimBefore, PcBefore, HeldClaim DEF ClaimStays, About
  <2>2. /\ d.memory = m /\ d.action = c.action /\ d.epoch = c.epoch /\ d.target = c.target
        /\ d.sequence = c.sequence /\ Holds(v)
    BY <2>1 DEF ClaimStays
  <2>3. /\ d.epoch > 0
        /\ Pc(v)' \in {"read", "stale", "embedding", "embedded"} => d.action = "upsert"
        /\ Pc(v)' = "witnessed" => d.action = "delete"
        /\ Pc(v)' = "failed" /\ worker'[v].failure \notin LanceFailures => d.action = "upsert"
    BY <2>1, <2>2 DEF PcStep, ClaimSound
  <2>4. ASSUME Same(v)'
        PROVE  /\ d.epoch <= q.fenced_claim_epoch
               /\ q.desired_action = d.action
               /\ q.target_revision = d.target
               /\ Pc(v)' # "stale"
               /\ Pc(v)' \in {"claimed", "read"} => q.last_marked_claim_epoch # d.epoch
    <3>1. Same(v) /\ RowStays(m) /\ ~Enqueues(m) /\ q \in Row /\ q.state # "absent"
      BY <2>1, <2>2, <2>4, SameBefore DEF TypeOK, OutboxOK, Same, About
    <3>2. /\ c.epoch <= r.fenced_claim_epoch /\ r.desired_action = c.action
          /\ r.target_revision = c.target /\ Pc(v) # "stale"
          /\ Pc(v) \in {"claimed", "read"} => r.last_marked_claim_epoch # c.epoch
      BY <2>1, <3>1 DEF ClaimSound, About
    <3>3. c.epoch <= q.fenced_claim_epoch
      <4>1. c \in Claim
        BY <2>2, HeldClaim
      <4>2. q.fenced_claim_epoch >= r.fenced_claim_epoch
        BY <3>1 DEF RowStays
      <4> HIDE DEF c, r, q
      <4> QED
        BY <2>1, <3>1, <3>2, <4>1, <4>2, RowNumbers DEF Claim
    <3>4. q.desired_action = d.action /\ q.target_revision = d.target
      BY <2>2, <3>1, <3>2 DEF RowStays, SameIntent
    <3>5. /\ Pc(v)' # "stale"
          /\ Pc(v)' \in {"claimed", "read"} => Pc(v) \in {"claimed", "read"}
      BY <2>1, <3>1, <3>2 DEF PcStep
    <3>6. ASSUME Pc(v)' \in {"claimed", "read"}, q.last_marked_claim_epoch = c.epoch
          PROVE  FALSE
      <4>1. PICK w \in Workers : /\ Reserves(w) /\ worker[w].claim.memory = m
                                 /\ q.last_marked_claim_epoch = worker[w].claim.epoch
        <5>1. q.last_marked_claim_epoch # r.last_marked_claim_epoch
          BY <3>2, <3>5, <3>6
        <5> HIDE DEF m
        <5> QED
          BY <2>1, <3>1, <5>1, MarkedBy
      <4>2. Holds(w) /\ Twins(v, w)
        BY <2>2, <3>1, <3>6, <4>1 DEF Reserves, Holds, Twins, Same, About
      <4>3. v = w
        BY <2>2, <4>2 DEF SyncInv, ClaimsSound
      <4> QED
        BY <3>6, <4>1, <4>3 DEF Reserves, Pc
    <3> QED
      BY <2>2, <3>3, <3>4, <3>5, <3>6
  <2> QED
    BY <2>2, <2>3, <2>4 DEF ClaimSound, About
<1> QED
  BY <1>1, <1>2

\* No other drain has the epoch of a new claim.
LEMMA NewEpoch ==
    ASSUME SyncInv, TypeOK', Kinds, NEW w \in Workers, NEW m \in Memories, Claims(w, m),
           NEW v \in Workers, v # w, Holds(v)', Twins(v, w)'
    PROVE  FALSE
<1> DEFINE c == worker[v].claim
           r == outbox[m]
<1>1. worker'[v] = worker[v] /\ Holds(v)
  BY DEF Claims, OthersSame, Holds, Pc
<1>2. /\ c.memory = m /\ c.sequence = r.mutation_sequence
      /\ c.epoch = r.fenced_claim_epoch + 1 /\ Present(m)
  BY <1>1 DEF Twins, Claims
<1>3. Same(v)
  BY <1>2 DEF Same, About, Present
<1>4. c.epoch <= r.fenced_claim_epoch /\ r \in Row
  BY <1>1, <1>2, <1>3, HeldClaim DEF ClaimSound, About
<1> HIDE DEF c, r
<1> QED
  BY <1>2, <1>4, RowNumbers

LEMMA ClaimsStep ==
    ASSUME SyncInv, TypeOK', Kinds
    PROVE  ClaimsSound'
<1>1. ASSUME NEW v \in Workers, NEW w \in Workers, Holds(v)', Holds(w)', Twins(v, w)'
      PROVE  v = w
  <2>1. CASE \E m \in Memories : Claims(v, m) \/ Claims(w, m)
    BY <1>1, <2>1, NewEpoch DEF Twins
  <2>2. CASE ClaimStays(v) /\ ClaimStays(w)
    BY <1>1, <2>2 DEF ClaimStays, Twins, SyncInv, ClaimsSound
  <2> QED
    BY <1>1, <2>1, <2>2, ClaimBefore
<1> QED
  BY <1>1, ClaimSoundStep DEF ClaimsSound

-----------------------------------------------------------------------------
(* Resolutions: one for each unknown Delete, open only for the latest mutation *)

\* How the resolutions change.
ResolutionsGrow(m, s) ==
    \/ UNCHANGED resolution
    \/ /\ \A x \in resolution : x.memory # m \/ x.sequence # s
       /\ \E p : /\ p.memory = m /\ p.sequence = s
                 /\ resolution' = resolution \cup {p}

\* A resolution is added for an unknown Delete that has none, or there is one.
LEMMA EnsureGrows ==
    ASSUME NEW c, NEW t, EnsureResolution(c, t)
    PROVE  /\ ResolutionsGrow(c.memory, c.sequence)
           /\ \E p \in resolution' : p.memory = c.memory /\ p.sequence = c.sequence
<1> DEFINE n == NewResolution(c, t)
           has == \E x \in resolution : x.memory = c.memory /\ x.sequence = c.sequence
<1>1. n.memory = c.memory /\ n.sequence = c.sequence
  BY DEF NewResolution
<1>2. resolution' = IF has THEN resolution ELSE resolution \cup {n}
  BY DEF EnsureResolution
<1> HIDE DEF n
<1>3. CASE has
  BY <1>2, <1>3 DEF ResolutionsGrow
<1>4. CASE ~has
  BY <1>1, <1>2, <1>4 DEF ResolutionsGrow
<1> QED
  BY <1>3, <1>4

\* The resolutions of a memory that is mutated are closed.
LEMMA SupersededKept ==
    ASSUME resolution \subseteq Resolutions, NEW m \in Memories, resolution' = Superseded(m)
    PROVE  /\ ResolutionKept
           /\ \A p \in resolution' : Open(p) => p.memory # m
<1> DEFINE f == [x \in resolution |->
                    IF x.memory = m /\ Open(x) THEN Concluded(x, "superseded") ELSE x]
<1>1. resolution' = {f[x] : x \in resolution}
  BY DEF Superseded
<1>2. \A x \in resolution :
         f[x] = x \/ \E state \in TerminalStates : f[x] = Concluded(x, state)
  BY DEF TerminalStates
<1>3. ASSUME NEW x \in resolution, Open(f[x]) PROVE f[x].memory # m
  <2>1. ASSUME x.memory = m, Open(x) PROVE FALSE
    <3>1. f[x] = Concluded(x, "superseded")
      BY <2>1
    <3>2. ~Open(Concluded(x, "superseded"))
      BY DEF Concluded, Open, TerminalStates, Resolutions
    <3> HIDE DEF f
    <3> QED
      BY <1>3, <3>1, <3>2
  <2>2. f[x] = x
    BY <2>1
  <2> HIDE DEF f
  <2> QED
    BY <1>3, <2>1, <2>2
<1> HIDE DEF f
<1>4. ResolutionKept
  BY <1>1, <1>2, SomeConcluded
<1> QED
  BY <1>1, <1>3, <1>4

\* What a step does to the resolutions.
LEMMA ResolutionStep ==
    ASSUME SyncInv, Kinds
    PROVE  \/ Quiet
           \/ UNCHANGED resolution
           \/ \E w \in Workers :
                 /\ Holds(w) /\ Same(w) /\ OthersKept(worker[w].claim.memory)
                 /\ SameIntent(About(w), outbox'[worker[w].claim.memory])
                 /\ \E t : EnsureResolution(worker[w].claim, t)
           \/ \E m \in Memories : Enqueues(m)
<1>1. ASSUME NEW w \in Workers,
             \/ \E m \in Memories : Claims(w, m)
             \/ Reserves(w) \/ Embeds(w) \/ EmbeddingEnds(w) \/ Writes(w)
      PROVE  resolution' = resolution
  BY <1>1 DEF Claims, Reserves, Embeds, EmbeddingEnds, Writes
<1>2. ASSUME NEW w \in Workers, Witnesses(w) \/ Fails(w)
      PROVE  /\ Holds(w) /\ Same(w) /\ OthersKept(worker[w].claim.memory)
             /\ SameIntent(About(w), outbox'[worker[w].claim.memory])
             /\ UNCHANGED resolution \/ \E t : EnsureResolution(worker[w].claim, t)
  BY <1>2 DEF Witnesses, Fails, Moves, Holds, Matched, About
<1> QED
  BY <1>1, <1>2 DEF Kinds

\* A resolution that the step did not add is kept from one of the same mutation.
LEMMA UniqueResolutionStep ==
    ASSUME SyncInv, Kinds, NEW p \in resolution', NEW q \in resolution',
           p.memory = q.memory, p.sequence = q.sequence
    PROVE  p = q
<1>1. /\ \A x, y \in resolution : x.memory = y.memory /\ x.sequence = y.sequence => x = y
      /\ resolution \subseteq Resolutions
  BY DEF SyncInv, ResolutionsSound, Intents, TypeOK
<1>2. CASE ResolutionKept
  <2>1. PICK x \in resolution, y \in resolution :
           /\ x.memory = p.memory /\ x.sequence = p.sequence
           /\ y.memory = q.memory /\ y.sequence = q.sequence
           /\ x = y => p = q
    BY <1>2 DEF ResolutionKept
  <2> QED
    BY <1>1, <2>1
<1>3. CASE Quiet
  BY <1>2, <1>3 DEF Quiet
<1>4. CASE UNCHANGED resolution
  BY <1>1, <1>4
<1>5. ASSUME NEW w \in Workers, NEW t, EnsureResolution(worker[w].claim, t) PROVE p = q
  <2>1. ResolutionsGrow(worker[w].claim.memory, worker[w].claim.sequence)
    BY <1>5, EnsureGrows
  <2> QED
    BY <1>1, <2>1 DEF ResolutionsGrow
<1>6. ASSUME NEW m \in Memories, Enqueues(m) PROVE p = q
  BY <1>1, <1>2, <1>6, SupersededKept DEF Enqueues
<1> QED
  BY <1>3, <1>4, <1>5, <1>6, ResolutionStep

\* A resolution remains, perhaps concluded.
LEMMA ResolutionRemains ==
    ASSUME SyncInv, Kinds, NEW x \in resolution
    PROVE  \E p \in resolution' : p.memory = x.memory /\ p.sequence = x.sequence
<1>1. CASE ResolutionKept
  BY <1>1 DEF ResolutionKept
<1>2. CASE Quiet
  BY <1>1, <1>2 DEF Quiet
<1>3. ASSUME NEW w \in Workers, NEW t, EnsureResolution(worker[w].claim, t)
      PROVE  x \in resolution'
  BY <1>3 DEF EnsureResolution
<1>4. ASSUME NEW m \in Memories, Enqueues(m) PROVE ResolutionKept
  <2>1. resolution \subseteq Resolutions
    BY DEF SyncInv, Intents, TypeOK
  <2> QED
    BY <1>4, <2>1, SupersededKept DEF Enqueues
<1> QED
  BY <1>1, <1>2, <1>3, <1>4, ResolutionStep

\* A row that becomes an unknown Delete has its resolution.
LEMMA UnknownDeleteStep ==
    ASSUME SyncInv, TypeOK', Kinds, NEW m \in Memories, outbox'[m].state # "absent",
           is_delete_unknown(outbox'[m])
    PROVE  \E p \in resolution' :
              p.memory = m /\ p.sequence = outbox'[m].mutation_sequence
<1> DEFINE r == outbox[m]
           q == outbox'[m]
           Resolved == \E p \in resolution' : p.memory = m /\ p.sequence = q.mutation_sequence
<1>1. ASSUME r.state # "absent", is_delete_unknown(r),
             q.mutation_sequence = r.mutation_sequence
      PROVE  Resolved
  BY <1>1, ResolutionRemains DEF SyncInv, ResolutionsSound, UnknownDeleteHasResolution, Present
<1>2. ASSUME q = r PROVE Resolved
  BY <1>1, <1>2
<1>3. ASSUME RowKept(m) PROVE Resolved
  <2>1. Kept(r, q)
    BY <1>3 DEF RowKept, EmptyRow
  <2> QED
    BY <1>1, <2>1 DEF Kept, SameIntent, is_delete_unknown
<1>4. CASE Quiet
  BY <1>3, <1>4 DEF Quiet
<1>5. ASSUME NEW w \in Workers, NEW n \in Memories, Claims(w, n) PROVE Resolved
  <2>1. CASE n = m
    BY <1>5, <2>1 DEF Claims, is_delete_unknown
  <2>2. CASE n # m
    BY <1>3, <1>5, <2>2 DEF Claims
  <2> QED
    BY <2>1, <2>2
<1>6. ASSUME NEW w \in Workers, Reserves(w) PROVE Resolved
  <2>1. CASE worker[w].claim.memory = m
    BY <1>6, <2>1 DEF Reserves, SameIntent, is_delete_unknown
  <2>2. CASE worker[w].claim.memory # m
    BY <1>2, <1>6, <2>2 DEF Reserves, OthersKept
  <2> QED
    BY <2>1, <2>2
<1>7. ASSUME NEW w \in Workers, Embeds(w) \/ EmbeddingEnds(w) \/ Writes(w) PROVE Resolved
  BY <1>2, <1>7 DEF Embeds, EmbeddingEnds, Writes
<1>8. ASSUME NEW w \in Workers, Witnesses(w) \/ Fails(w) PROVE Resolved
  <2>1. CASE worker[w].claim.memory = m
    <3>1. \E t : EnsureResolution(worker[w].claim, t)
      BY <1>8, <2>1 DEF Witnesses, Fails
    <3>2. q.mutation_sequence = worker[w].claim.sequence
      BY <1>8, <2>1 DEF Witnesses, Fails, Matched, Same, About, SameIntent
    <3> QED
      BY <2>1, <3>1, <3>2, EnsureGrows
  <2>2. CASE worker[w].claim.memory # m
    BY <1>2, <1>8, <2>2 DEF Witnesses, Fails, OthersKept
  <2> QED
    BY <2>1, <2>2
<1>9. ASSUME NEW n \in Memories, Enqueues(n) PROVE Resolved
  <2>1. CASE n = m
    BY <1>9, <2>1 DEF Enqueues, is_delete_unknown
  <2>2. CASE n # m
    BY <1>2, <1>9, <2>2 DEF Enqueues, OthersKept
  <2> QED
    BY <2>1, <2>2
<1> QED
  BY <1>4, <1>5, <1>6, <1>7, <1>8, <1>9 DEF Kinds

\* Only the latest mutation of a memory has an open resolution, and only one.
LEMMA LatestOpenStep ==
    ASSUME SyncInv, TypeOK', Kinds, NEW p \in resolution', Open(p), p.memory \in Memories
    PROVE  /\ outbox'[p.memory].state # "absent"
                 => outbox'[p.memory].mutation_sequence = p.sequence
           /\ \A q \in resolution' : q.memory = p.memory /\ Open(q) => q = p
<1> DEFINE m == p.memory
<1>1. \A x \in resolution : Open(x) =>
         /\ outbox[x.memory].state # "absent" => outbox[x.memory].mutation_sequence = x.sequence
         /\ \A y \in resolution : y.memory = x.memory /\ Open(y) => y = x
  BY DEF SyncInv, ResolutionsSound, OpenResolutionIsLatest, Present
<1>2. \A x, y \in resolution : x.memory = y.memory /\ x.sequence = y.sequence => x = y
  BY DEF SyncInv, ResolutionsSound
<1>3. ASSUME ~Enqueues(m), outbox'[m].state # "absent"
      PROVE  /\ outbox[m].state # "absent"
             /\ outbox'[m].mutation_sequence = outbox[m].mutation_sequence
  <2>1. RowStays(m)
    BY <1>3, RowBefore DEF Present
  <2> QED
    BY <2>1 DEF RowStays, SameIntent, Present
<1>4. ASSUME p \in resolution, ~Enqueues(m)
      PROVE  outbox'[m].state # "absent" => outbox'[m].mutation_sequence = p.sequence
  BY <1>1, <1>3, <1>4
<1>5. ASSUME ResolutionKept, ~Enqueues(m)
      PROVE  /\ outbox'[m].state # "absent" => outbox'[m].mutation_sequence = p.sequence
             /\ \A q \in resolution' : q.memory = m /\ Open(q) => q = p
  <2>1. ASSUME NEW q \in resolution', Open(q) PROVE q \in resolution
    BY <1>5, <2>1 DEF ResolutionKept
  <2> QED
    BY <1>1, <1>4, <1>5, <2>1
<1>6. CASE Quiet /\ ~Enqueues(m)
  BY <1>5, <1>6 DEF Quiet
<1>7. CASE UNCHANGED resolution /\ ~Enqueues(m)
  BY <1>1, <1>4, <1>7
<1>8. ASSUME NEW w \in Workers, Holds(w), Same(w), NEW t, ~Enqueues(m),
             SameIntent(About(w), outbox'[worker[w].claim.memory]),
             EnsureResolution(worker[w].claim, t)
      PROVE  /\ outbox'[m].state # "absent" => outbox'[m].mutation_sequence = p.sequence
             /\ \A q \in resolution' : q.memory = m /\ Open(q) => q = p
  <2> DEFINE c == worker[w].claim
  <2>1. CASE UNCHANGED resolution
    BY <1>1, <1>4, <1>8, <2>1
  <2>2. ASSUME \A x \in resolution : x.memory # c.memory \/ x.sequence # c.sequence,
               NEW n, n.memory = c.memory, n.sequence = c.sequence,
               resolution' = resolution \cup {n}
        PROVE  /\ outbox'[m].state # "absent" => outbox'[m].mutation_sequence = p.sequence
               /\ \A q \in resolution' : q.memory = m /\ Open(q) => q = p
    <3>1. ASSUME NEW x \in resolution, Open(x) PROVE x.memory # c.memory
      BY <1>1, <1>8, <2>2, <3>1 DEF Same, About
    <3>2. CASE p = n
      BY <1>8, <2>2, <3>1, <3>2 DEF Same, About, SameIntent
    <3>3. CASE p # n
      <4>1. p \in resolution /\ m # c.memory
        BY <2>2, <3>1, <3>3
      <4> QED
        BY <1>1, <1>4, <1>8, <2>2, <4>1
    <3> QED
      BY <3>2, <3>3
  <2> QED
    BY <1>8, <2>1, <2>2, EnsureGrows DEF ResolutionsGrow
<1>9. ASSUME NEW n \in Memories, Enqueues(n)
      PROVE  /\ outbox'[m].state # "absent" => outbox'[m].mutation_sequence = p.sequence
             /\ \A q \in resolution' : q.memory = m /\ Open(q) => q = p
  <2>1. resolution \subseteq Resolutions /\ resolution' = Superseded(n)
    BY <1>9 DEF SyncInv, Intents, TypeOK, Enqueues
  <2>2. ResolutionKept /\ \A q \in resolution' : Open(q) => q.memory # n
    BY <2>1, SupersededKept
  <2>3. m # n /\ outbox'[m] = outbox[m] /\ \A q \in resolution' : Open(q) => q \in resolution
    <3>1. m # n
      BY <2>2
    <3>2. outbox'[m] = outbox[m]
      BY <1>9, <3>1 DEF Enqueues, OthersKept
    <3>3. ASSUME NEW q \in resolution', Open(q) PROVE q \in resolution
      BY <2>2, <3>3 DEF ResolutionKept
    <3> QED
      BY <3>1, <3>2, <3>3
  <2> QED
    BY <1>1, <2>3
<1> QED
  BY <1>6, <1>7, <1>8, <1>9, ResolutionStep

LEMMA ResolutionsStep ==
    ASSUME SyncInv, TypeOK', Kinds
    PROVE  ResolutionsSound'
<1>1. \A p \in resolution' : p.memory \in Memories
  BY DEF TypeOK, Resolutions
<1>2. OpenResolutionIsLatest'
  BY <1>1, LatestOpenStep DEF OpenResolutionIsLatest, Present
<1>3. UnknownDeleteHasResolution'
  BY UnknownDeleteStep DEF UnknownDeleteHasResolution, Present
<1>4. \A p, q \in resolution' : p.memory = q.memory /\ p.sequence = q.sequence => p = q
  BY UniqueResolutionStep
<1> QED
  BY <1>2, <1>3, <1>4 DEF ResolutionsSound

-----------------------------------------------------------------------------
(* Calls: what the history of requests has to do with rows and drains *)

\* A claim that neither starts nor is given an attempt is as it was.
LEMMA ClaimSame ==
    ASSUME Kinds, NEW v \in Workers, Holds(v)', \A m \in Memories : ~Claims(v, m), ~Reserves(v)
    PROVE  worker'[v].claim = worker[v].claim
<1>1. CASE Quiet
  <2>1. WorkerQuiet(v) /\ worker'[v].pc \notin {"idle", "drain"}
    BY <1>1 DEF Quiet, Holds, Pc
  <2> QED
    BY <2>1 DEF WorkerQuiet
<1>2. ASSUME NEW w \in Workers, w # v,
             \/ \E m \in Memories : Claims(w, m)
             \/ Reserves(w) \/ Embeds(w) \/ EmbeddingEnds(w)
             \/ Witnesses(w) \/ Writes(w) \/ Fails(w)
      PROVE  worker'[v] = worker[v]
  BY <1>2
     DEF Claims, Reserves, Embeds, EmbeddingEnds, Witnesses, Writes, Fails, Moves, OthersSame
<1>3. CASE Embeds(v) \/ EmbeddingEnds(v) \/ Witnesses(v) \/ Writes(v)
  BY <1>3 DEF Embeds, EmbeddingEnds, Witnesses, Writes, Moves
<1>4. CASE Fails(v)
  BY <1>4 DEF Fails, Holds, Pc
<1>5. ASSUME NEW m \in Memories, Enqueues(m) PROVE worker'[v] = worker[v]
  BY <1>5 DEF Enqueues
<1> QED
  BY <1>1, <1>2, <1>3, <1>4, <1>5 DEF Kinds

\* An attempt that its row shows after a step was shown before.
LEMMA MatchedBefore ==
    ASSUME SyncInv, TypeOK', Kinds, NEW v \in Workers, Holds(v)',
           \A m \in Memories : ~Claims(v, m), ~Reserves(v), Matched(v)'
    PROVE  /\ Matched(v) /\ Holds(v) /\ worker'[v].claim = worker[v].claim
           /\ outbox'[worker[v].claim.memory].attempt_count = About(v).attempt_count
           /\ RowStays(worker[v].claim.memory)
<1> DEFINE c == worker[v].claim
           m == c.memory
           r == outbox[m]
           q == outbox'[m]
<1>1. worker'[v].claim = c /\ ClaimStays(v)
  BY ClaimSame, ClaimBefore
<1>2. /\ Same(v)' /\ q.fenced_claim_epoch = c.epoch /\ q.last_marked_claim_epoch = c.epoch
      /\ q.attempt_count = c.ordinal
  BY <1>1 DEF Matched, About
<1>3. Same(v) /\ RowStays(m) /\ ~Enqueues(m) /\ Holds(v)
  BY <1>1, <1>2, SameBefore DEF ClaimStays
<1>4. /\ m \in Memories /\ c \in Claim /\ r \in Row /\ ClaimSound(v) /\ q.state # "absent"
      /\ q \in Row
  BY <1>1, <1>2, <1>3, HeldClaim DEF About, Same, TypeOK, OutboxOK
<1>5. r.fenced_claim_epoch = c.epoch
  <2>1. c.epoch <= r.fenced_claim_epoch
    BY <1>3, <1>4 DEF ClaimSound, About
  <2>2. r.fenced_claim_epoch <= q.fenced_claim_epoch
    BY <1>3 DEF RowStays
  <2> HIDE DEF c, r, q
  <2> QED
    BY <1>2, <1>4, <2>1, <2>2, RowNumbers DEF Claim
<1>6. ASSUME NEW w \in Workers, Reserves(w), worker[w].claim.memory = m,
             q.last_marked_claim_epoch = worker[w].claim.epoch
      PROVE  FALSE
  <2>1. Holds(w) /\ Twins(v, w)
    BY <1>2, <1>3, <1>6 DEF Reserves, Holds, Twins, Same, About
  <2> QED
    BY <1>3, <1>6, <2>1 DEF SyncInv, ClaimsSound
<1>7. /\ q.last_marked_claim_epoch = r.last_marked_claim_epoch
      /\ q.attempt_count = r.attempt_count
  <2> HIDE DEF c, m
  <2> QED
    BY <1>3, <1>4, <1>6, MarkedBy
<1> QED
  BY <1>1, <1>2, <1>3, <1>5, <1>7 DEF Matched, About

\* A mutation that a row shows and a drain claims is one and the same row.
LEMMA OneMemory ==
    ASSUME SyncInv, NEW w \in Workers, Holds(w), NEW m \in Memories,
           outbox[m].state # "absent", outbox[m].mutation_sequence = worker[w].claim.sequence
    PROVE  m = worker[w].claim.memory
<1> DEFINE n == worker[w].claim.memory
           s == worker[w].claim.sequence
<1>1. n \in Memories /\ s \in Mutations /\ Named(m, s) /\ Named(n, s)
  BY HeldClaim DEF Named, Present
<1> HIDE DEF n, s
<1>2. n = m
  BY <1>1 DEF SyncInv, NamesSound
<1> QED
  BY <1>2 DEF n

\* The latest attempt of a mutation is one drain's.
LEMMA OneMatched ==
    ASSUME SyncInv, NEW v \in Workers, NEW w \in Workers, Holds(v), Holds(w),
           Matched(v), Matched(w), worker[v].claim.sequence = worker[w].claim.sequence
    PROVE  v = w
<1>1. worker[v].claim.memory \in Memories
  BY HeldClaim
<1>2. worker[v].claim.memory = worker[w].claim.memory
  BY <1>1, OneMemory DEF Matched, Same, About
<1>3. Twins(v, w)
  BY <1>2 DEF Twins, Matched, About
<1> QED
  BY <1>3 DEF SyncInv, ClaimsSound

\* What is left of an attempt when its drain stands still.
LEMMA AttemptKept ==
    ASSUME SyncInv, TypeOK', Kinds, NEW v \in Workers, Holds(v)',
           \A m \in Memories : ~Claims(v, m), ~Reserves(v),
           Pc(v)' = Pc(v), worker'[v].failure = worker[v].failure,
           LET s == worker[v].claim.sequence IN
               Matched(v) => /\ calls'[s].embed = calls[s].embed
                             /\ calls'[s].write = calls[s].write
                             /\ calls'[s].unsent >= calls[s].unsent
    PROVE  AttemptSound(v)'
<1> SUFFICES ASSUME Matched(v)'
             PROVE  AttemptSound(v)'
  BY DEF AttemptSound
<1> DEFINE c == worker[v].claim
           s == c.sequence
           r == outbox[c.memory]
           q == outbox'[c.memory]
<1>1. /\ Matched(v) /\ Holds(v) /\ worker'[v].claim = c /\ q.attempt_count = r.attempt_count
      /\ RowStays(c.memory)
  BY MatchedBefore DEF About
<1>2. AttemptSound(v) /\ ClaimSound(v) /\ s \in Mutations
  BY <1>1, HeldClaim DEF SyncInv, CallsSound
<1>3. calls[s] \in [embed : Nat, unsent : Nat, write : Nat]
  BY <1>2 DEF SyncInv, Intents, TypeOK
<1>4. /\ calls'[s].embed = calls[s].embed /\ calls'[s].write = calls[s].write
      /\ calls'[s].unsent >= calls[s].unsent
  BY <1>1
<1>5. calls'[s] \in [embed : Nat, unsent : Nat, write : Nat]
  BY <1>2 DEF TypeOK
<1>6. Unsent(s) => calls'[s].embed <= calls'[s].unsent /\ calls'[s].write = 0
  <2> HIDE DEF s
  <2> QED
    BY <1>3, <1>4, <1>5 DEF Unsent
<1>7. Pc(v) = "witnessed" => has_unknown_external_send_evidence(q)
  <2>1. Pc(v) = "witnessed" => r.desired_action = "delete"
    BY <1>1, <1>2 DEF ClaimSound, Matched, About
  <2>2. Pc(v) = "witnessed" => is_delete_unknown(r)
    BY <1>1, <1>2, <2>1 DEF AttemptSound, About, is_delete_unknown
  <2> QED
    BY <1>1, <2>2 DEF RowStays, is_delete_unknown
<1>8. worker'[v].claim.sequence = s /\ About(v)' = q
  BY <1>1 DEF About
<1>9. /\ Pc(v) = "reserved" => Unsent(s) /\ calls[s].embed < r.attempt_count
      /\ Pc(v) \in {"embedding", "embedded", "witnessed"} => calls[s].write = 0
      /\ Pc(v) = "failed" /\ send_disposition(worker[v].failure) = "definitely_not_sent"
            => Unsent(s)
  BY <1>1, <1>2 DEF AttemptSound, About
<1> HIDE DEF s, q, r, c
<1>10. /\ Pc(v)' = "reserved" => /\ calls'[s].embed <= calls'[s].unsent /\ calls'[s].write = 0
                                 /\ calls'[s].embed < q.attempt_count
       /\ Pc(v)' \in {"embedding", "embedded", "witnessed"} => calls'[s].write = 0
       /\ Pc(v)' = "failed" /\ send_disposition(worker'[v].failure) = "definitely_not_sent"
             => calls'[s].embed <= calls'[s].unsent /\ calls'[s].write = 0
  BY <1>1, <1>4, <1>6, <1>9
<1> QED
  BY <1>7, <1>8, <1>10 DEF AttemptSound, Unsent

\* A drain that goes on knows what its attempt has sent.
LEMMA AttemptStep ==
    ASSUME SyncInv, TypeOK', RowsSound', Kinds, NEW v \in Workers, Holds(v)'
    PROVE  AttemptSound(v)'
<1> DEFINE c == worker[v].claim
           s == c.sequence
<1> USE DEF Pc
<1>1. ASSUME NEW m \in Memories, Claims(v, m) PROVE AttemptSound(v)'
  BY <1>1 DEF Claims, AttemptSound
<1>2. CASE Reserves(v)
  <2> DEFINE r == outbox[c.memory]
             q == outbox'[c.memory]
  <2>1. /\ Holds(v) /\ Same(v) /\ ~has_unknown_external_send_evidence(r)
        /\ q.attempt_count = r.attempt_count + 1 /\ calls' = calls
        /\ Pc(v)' = "reserved" /\ worker'[v].claim.sequence = s
        /\ worker'[v].claim.memory = c.memory
    BY <1>2 DEF Reserves, Holds
  <2>2. /\ c.memory \in Memories /\ s \in Mutations /\ r \in Row
        /\ r.state # "absent" /\ r.mutation_sequence = s
    BY <2>1, HeldClaim DEF Same, About
  <2>3. calls[s] \in [embed : Nat, unsent : Nat, write : Nat]
    BY <2>2 DEF SyncInv, Intents, TypeOK
  <2>4. calls[s].embed <= calls[s].unsent /\ calls[s].write = 0
    <3>1. ~(calls[s].embed > calls[s].unsent \/ calls[s].write > 0)
      BY <2>1, <2>2 DEF SyncInv, CallsSound, SentIsRecorded, Present
    <3> HIDE DEF s
    <3> QED
      BY <2>3, <3>1
  <2>5. calls[s].embed < q.attempt_count
    <3>1. calls[s].embed <= r.attempt_count
      BY <2>2 DEF SyncInv, CallsSound, AttemptsArePaid, Present
    <3> HIDE DEF s, r, q
    <3> QED
      BY <2>1, <2>2, <2>3, <3>1, RowNumbers
  <2>6. About(v)' = q
    BY <2>1 DEF About
  <2> HIDE DEF s, q
  <2> QED
    BY <2>1, <2>4, <2>5, <2>6 DEF AttemptSound, Unsent
<1>3. CASE Fails(v)
  BY <1>3 DEF Fails, Holds
<1>4. CASE Embeds(v) \/ EmbeddingEnds(v) \/ Witnesses(v) \/ Writes(v)
  <2>1. /\ Holds(v) /\ worker'[v].claim = c /\ ~Reserves(v)
        /\ \A m \in Memories : ~Claims(v, m)
    BY <1>4 DEF Embeds, EmbeddingEnds, Witnesses, Writes, Moves, Holds, Reserves, Claims
  <2>2. s \in Mutations /\ AttemptSound(v) /\ ClaimSound(v)
    BY <2>1, HeldClaim DEF SyncInv, CallsSound
  <2>3. /\ calls \in [Mutations -> [embed : Nat, unsent : Nat, write : Nat]]
        /\ calls[s] \in [embed : Nat, unsent : Nat, write : Nat]
    BY <2>2 DEF SyncInv, Intents, TypeOK
  <2>4. CASE Embeds(v)
    <3>1. calls[s].write = 0 /\ Pc(v)' = "embedding"
      BY <2>2, <2>4 DEF Embeds, Moves, AttemptSound, Unsent
    <3>2. calls'[s].write = calls[s].write
      BY <2>2, <2>3, <2>4 DEF Embeds
    <3> HIDE DEF c
    <3> QED
      BY <2>1, <3>1, <3>2 DEF AttemptSound
  <2>5. CASE EmbeddingEnds(v) /\ Pc(v)' = "embedded"
    <3>1. Pc(v) = "embedding" /\ calls' = calls
      BY <2>5 DEF EmbeddingEnds, Moves
    <3> SUFFICES ASSUME Matched(v)' PROVE calls'[s].write = 0
      BY <2>1, <2>5 DEF AttemptSound
    <3>2. Matched(v)
      BY <2>1, MatchedBefore
    <3> QED
      BY <2>2, <3>1, <3>2 DEF AttemptSound
  <2>6. CASE EmbeddingEnds(v) /\ Pc(v)' = "failed"
    <3> SUFFICES ASSUME Matched(v)',
                        send_disposition(worker'[v].failure) = "definitely_not_sent"
                 PROVE  calls'[s].embed <= calls'[s].unsent /\ calls'[s].write = 0
      BY <2>1, <2>6 DEF AttemptSound, Unsent
    <3>1. Matched(v)
      BY <2>1, MatchedBefore
    <3>2. Pc(v) = "embedding" /\ calls' = [calls EXCEPT ![s].unsent = @ + 1]
      BY <2>6 DEF EmbeddingEnds, Moves
    <3>3. /\ calls[s].write = 0 /\ calls[s].embed <= calls[s].unsent + 1
      BY <2>2, <3>1, <3>2 DEF AttemptSound, SyncInv, CallsSound, NoReplay
    <3>4. /\ calls'[s].write = calls[s].write /\ calls'[s].embed = calls[s].embed
          /\ calls'[s].unsent = calls[s].unsent + 1
      BY <2>2, <2>3, <3>2
    <3> HIDE DEF s
    <3> QED
      BY <3>3, <3>4
  <2>7. CASE Witnesses(v)
    <3>1. /\ calls' = calls /\ Pc(v)' = "witnessed" /\ Matched(v) /\ Pc(v) = "reserved"
          /\ has_unknown_external_send_evidence(outbox'[c.memory])
      BY <2>7 DEF Witnesses, Moves
    <3>2. calls[s].write = 0
      BY <2>2, <3>1 DEF AttemptSound, Unsent
    <3> QED
      BY <2>1, <3>1, <3>2 DEF AttemptSound, About
  <2>8. CASE Writes(v)
    BY <2>8 DEF Writes, Moves, AttemptSound
  <2> QED
    BY <1>4, <2>4, <2>5, <2>6, <2>7, <2>8 DEF EmbeddingEnds, Moves
<1>5. ASSUME ~Reserves(v), \A m \in Memories : ~Claims(v, m),
             ~(Embeds(v) \/ EmbeddingEnds(v) \/ Witnesses(v) \/ Writes(v) \/ Fails(v)),
             ~(Quiet /\ worker'[v] # worker[v])
      PROVE  AttemptSound(v)'
  <2>1. worker'[v] = worker[v] /\ Holds(v)
    <3>1. ASSUME NEW w \in Workers, w # v,
                 \/ \E m \in Memories : Claims(w, m)
                 \/ Reserves(w) \/ Embeds(w) \/ EmbeddingEnds(w)
                 \/ Witnesses(w) \/ Writes(w) \/ Fails(w)
          PROVE  worker'[v] = worker[v]
      BY <3>1
         DEF Claims, Reserves, Embeds, EmbeddingEnds, Witnesses, Writes, Fails, Moves, OthersSame
    <3>2. ASSUME NEW m \in Memories, Enqueues(m) PROVE worker'[v] = worker[v]
      BY <3>2 DEF Enqueues
    <3>3. worker'[v] = worker[v]
      BY <1>5, <3>1, <3>2 DEF Kinds
    <3> QED
      BY <3>3 DEF Holds
  <2>2. s \in Mutations
    BY <2>1, HeldClaim
  <2>3. ASSUME Matched(v)
        PROVE  /\ calls'[s].embed = calls[s].embed
               /\ calls'[s].write = calls[s].write
               /\ calls'[s].unsent >= calls[s].unsent
    <3>1. calls \in [Mutations -> [embed : Nat, unsent : Nat, write : Nat]]
      BY DEF SyncInv, Intents, TypeOK
    <3>2. calls[s] \in [embed : Nat, unsent : Nat, write : Nat]
      BY <2>2, <3>1
    <3>3. ASSUME calls' = calls \/ calls'[s] = calls[s]
          PROVE  /\ calls'[s].embed = calls[s].embed
                 /\ calls'[s].write = calls[s].write
                 /\ calls'[s].unsent >= calls[s].unsent
      <4> HIDE DEF s
      <4> QED
        BY <3>2, <3>3
    <3>4. ASSUME NEW w \in Workers, w # v, Embeds(w) \/ Writes(w)
          PROVE  calls'[s] = calls[s]
      <4>1. Holds(w) /\ Matched(w)
        BY <3>4 DEF Embeds, Writes, Moves, Holds
      <4>2. worker[w].claim.sequence # s
        BY <2>1, <2>3, <3>4, <4>1, OneMatched
      <4> QED
        BY <2>2, <3>1, <3>4, <4>2 DEF Embeds, Writes
    <3>5. ASSUME NEW w \in Workers, EmbeddingEnds(w)
          PROVE  /\ calls'[s].embed = calls[s].embed
                 /\ calls'[s].write = calls[s].write
                 /\ calls'[s].unsent >= calls[s].unsent
      <4>1. \/ calls' = calls
            \/ calls' = [calls EXCEPT ![worker[w].claim.sequence].unsent = @ + 1]
        BY <3>5 DEF EmbeddingEnds
      <4> HIDE DEF s
      <4>2. ASSUME NEW x \in Mutations, calls' = [calls EXCEPT ![x].unsent = @ + 1]
            PROVE  /\ calls'[s].embed = calls[s].embed
                   /\ calls'[s].write = calls[s].write
                   /\ calls'[s].unsent >= calls[s].unsent
        <5>1. calls'[s] = calls[s] \/ calls'[s] = [calls[s] EXCEPT !.unsent = @ + 1]
          BY <2>2, <3>1, <4>2
        <5> QED
          BY <3>2, <5>1
      <4>3. worker[w].claim.sequence \in Mutations
        <5>1. Holds(w)
          BY <3>5 DEF EmbeddingEnds, Moves, Holds
        <5> QED
          BY <5>1, HeldClaim
      <4> QED
        BY <3>3, <4>1, <4>2, <4>3
    <3>6. ASSUME \/ Quiet
                 \/ \E w \in Workers : \/ \E m \in Memories : Claims(w, m)
                                       \/ Reserves(w) \/ Witnesses(w) \/ Fails(w)
                 \/ \E m \in Memories : Enqueues(m)
          PROVE  calls' = calls
      BY <3>6 DEF Quiet, Claims, Reserves, Witnesses, Fails, Enqueues
    <3> QED
      BY <1>5, <3>3, <3>4, <3>5, <3>6 DEF Kinds
  <2> QED
    BY <1>5, <2>1, <2>3, AttemptKept
<1>6. CASE Quiet /\ worker'[v] # worker[v] /\ ~Reserves(v) /\ \A m \in Memories : ~Claims(v, m)
  <2>1. /\ worker'[v].claim = c /\ Holds(v)
        /\ \/ Pc(v)' \in {"read", "stale", "wrote"}
           \/ Pc(v)' = "failed" /\ worker'[v].failure \in LanceFailures
    <3>1. WorkerQuiet(v) /\ worker'[v].pc \notin {"idle", "drain"}
      BY <1>6 DEF Quiet, Holds
    <3> QED
      BY <1>6, <3>1 DEF WorkerQuiet, Holds
  <2>2. \A f \in LanceFailures : send_disposition(f) = "possibly_sent"
    BY DEF LanceFailures, send_disposition
  <2> QED
    BY <2>1, <2>2 DEF AttemptSound
<1> QED
  BY <1>1, <1>2, <1>3, <1>4, <1>5, <1>6

\* Which requests a step adds.
LEMMA CallsBy ==
    ASSUME SyncInv, Kinds, NEW s \in Mutations
    PROVE  \/ calls'[s] = calls[s]
           \/ \E w \in Workers : /\ EmbeddingEnds(w) /\ worker[w].claim.sequence = s
                                 /\ calls'[s] = [calls[s] EXCEPT !.unsent = @ + 1]
           \/ \E w \in Workers : /\ Embeds(w) /\ worker[w].claim.sequence = s
                                 /\ calls'[s] = [calls[s] EXCEPT !.embed = @ + 1]
           \/ \E w \in Workers : /\ Writes(w) /\ worker[w].claim.sequence = s
                                 /\ calls'[s] = [calls[s] EXCEPT !.write = @ + 1]
<1>1. calls \in [Mutations -> [embed : Nat, unsent : Nat, write : Nat]]
  BY DEF SyncInv, Intents, TypeOK
<1>2. ASSUME \/ Quiet
             \/ \E w \in Workers : \/ \E m \in Memories : Claims(w, m)
                                   \/ Reserves(w) \/ Witnesses(w) \/ Fails(w)
             \/ \E m \in Memories : Enqueues(m)
      PROVE  calls'[s] = calls[s]
  BY <1>2 DEF Quiet, Claims, Reserves, Witnesses, Fails, Enqueues
<1>3. ASSUME NEW w \in Workers, Embeds(w)
      PROVE  \/ calls'[s] = calls[s]
             \/ /\ worker[w].claim.sequence = s
                /\ calls'[s] = [calls[s] EXCEPT !.embed = @ + 1]
  BY <1>1, <1>3 DEF Embeds
<1>4. ASSUME NEW w \in Workers, Writes(w)
      PROVE  \/ calls'[s] = calls[s]
             \/ /\ worker[w].claim.sequence = s
                /\ calls'[s] = [calls[s] EXCEPT !.write = @ + 1]
  BY <1>1, <1>4 DEF Writes
<1>5. ASSUME NEW w \in Workers, EmbeddingEnds(w)
      PROVE  \/ calls'[s] = calls[s]
             \/ /\ worker[w].claim.sequence = s
                /\ calls'[s] = [calls[s] EXCEPT !.unsent = @ + 1]
  <2>1. \/ calls' = calls
        \/ calls' = [calls EXCEPT ![worker[w].claim.sequence].unsent = @ + 1]
    BY <1>5 DEF EmbeddingEnds
  <2> QED
    BY <1>1, <2>1
<1> QED
  BY <1>2, <1>3, <1>4, <1>5 DEF Kinds

\* What a drain knows that is about to request.
LEMMA Requests ==
    ASSUME SyncInv, NEW w \in Workers, Embeds(w) \/ Writes(w)
    PROVE  LET s == worker[w].claim.sequence
               r == About(w)
           IN  /\ Holds(w) /\ Same(w) /\ s \in Mutations /\ outbox' = outbox /\ clock' = clock
               /\ r.attempt_count > 0
               /\ has_unknown_external_send_evidence(r)
               /\ Embeds(w) => /\ calls[s].embed <= calls[s].unsent /\ calls[s].write = 0
                               /\ calls[s].embed < r.attempt_count
               /\ Writes(w) => calls[s].write = 0
<1> DEFINE s == worker[w].claim.sequence
           r == About(w)
<1>1. /\ Holds(w) /\ Matched(w) /\ r.state = "processing" /\ outbox' = outbox
      /\ clock' = clock
      /\ Embeds(w) => Pc(w) = "reserved" /\ worker[w].claim.action = "upsert"
      /\ Writes(w) => Pc(w) \in {"embedded", "witnessed"}
  BY DEF Embeds, Writes, Moves, Holds
<1>2. s \in Mutations /\ r \in Row /\ RowSound(r) /\ ClaimSound(w) /\ AttemptSound(w)
  BY <1>1, HeldClaim DEF SyncInv, CallsSound
<1>3. /\ Same(w) /\ r.fenced_claim_epoch = r.last_marked_claim_epoch
      /\ r.desired_action = worker[w].claim.action
  BY <1>1, <1>2 DEF Matched, ClaimSound
<1>4. r.attempt_count > 0
  <2> HIDE DEF r
  <2>1. r.last_marked_claim_epoch > 0
    BY <1>1, <1>2, <1>3 DEF RowSound
  <2> QED
    BY <1>2, <2>1 DEF RowSound
<1>5. has_unknown_external_send_evidence(r)
  <2>1. CASE worker[w].claim.action = "upsert"
    <3> HIDE DEF r
    <3> QED
      BY <1>1, <1>2, <1>3, <2>1 DEF RowSound, has_unknown_external_send_evidence
  <2>2. CASE Pc(w) = "witnessed"
    BY <1>1, <1>2, <2>2 DEF AttemptSound
  <2> QED
    BY <1>1, <1>2, <2>1, <2>2 DEF ClaimSound
<1>6. /\ Embeds(w) => /\ calls[s].embed <= calls[s].unsent /\ calls[s].write = 0
                      /\ calls[s].embed < r.attempt_count
      /\ Writes(w) => calls[s].write = 0
  BY <1>1, <1>2 DEF AttemptSound, Unsent
<1> QED
  BY <1>1, <1>2, <1>3, <1>4, <1>5, <1>6

\* No mutation is replayed, and none is requested before it is enqueued.
LEMMA ReplayStep ==
    ASSUME SyncInv, TypeOK', Kinds, NEW s \in Mutations
    PROVE  /\ calls'[s].embed <= calls'[s].unsent + 1 /\ calls'[s].write <= 1
           /\ s > clock' => calls'[s] = NoCalls
<1>1. /\ calls[s].embed <= calls[s].unsent + 1 /\ calls[s].write <= 1
      /\ s > clock => calls[s] = NoCalls
      /\ calls[s] \in [embed : Nat, unsent : Nat, write : Nat]
      /\ clock \in Nat /\ s \in Nat
  BY BoundsAssumption DEF SyncInv, CallsSound, NoReplay, Intents, TypeOK, Mutations
<1>2. ASSUME NEW w \in Workers, EmbeddingEnds(w) \/ Embeds(w) \/ Writes(w),
             worker[w].claim.sequence = s
      PROVE  ~(s > clock')
  <2>1. Holds(w) /\ clock' = clock
    BY <1>2 DEF EmbeddingEnds, Embeds, Writes, Moves, Holds
  <2>2. worker[w].claim.memory \in Memories /\ Named(worker[w].claim.memory, s)
    BY <1>2, <2>1, HeldClaim DEF Named
  <2>3. s <= clock
    BY <2>2 DEF SyncInv, NamesSound
  <2> QED
    BY <1>1, <2>1, <2>3
<1>3. CASE calls'[s] = calls[s]
  BY <1>1, <1>3, ClockGrows
<1>4. ASSUME NEW w \in Workers, EmbeddingEnds(w), worker[w].claim.sequence = s,
             calls'[s] = [calls[s] EXCEPT !.unsent = @ + 1]
      PROVE  calls'[s].embed <= calls'[s].unsent + 1 /\ calls'[s].write <= 1
  BY <1>1, <1>4
<1>5. ASSUME NEW w \in Workers, Embeds(w), worker[w].claim.sequence = s,
             calls'[s] = [calls[s] EXCEPT !.embed = @ + 1]
      PROVE  calls'[s].embed <= calls'[s].unsent + 1 /\ calls'[s].write <= 1
  <2>1. calls[s].embed <= calls[s].unsent
    BY <1>5, Requests
  <2> QED
    BY <1>1, <1>5, <2>1
<1>6. ASSUME NEW w \in Workers, Writes(w), worker[w].claim.sequence = s,
             calls'[s] = [calls[s] EXCEPT !.write = @ + 1]
      PROVE  calls'[s].embed <= calls'[s].unsent + 1 /\ calls'[s].write <= 1
  <2>1. calls[s].write = 0
    BY <1>6, Requests
  <2> QED
    BY <1>1, <1>6, <2>1
<1> QED
  BY <1>2, <1>3, <1>4, <1>5, <1>6, CallsBy

\* A mutation just enqueued has no requests.
LEMMA FreshCalls ==
    ASSUME SyncInv, NEW m \in Memories, Enqueues(m)
    PROVE  calls'[outbox'[m].mutation_sequence] = NoCalls
<1>1. /\ clock' = clock + 1 /\ clock' \in Mutations /\ calls' = calls
      /\ outbox'[m].mutation_sequence = clock' /\ clock \in Nat
  BY DEF Enqueues, SyncInv, Intents, TypeOK
<1> QED
  BY <1>1 DEF SyncInv, CallsSound

\* Requests are paid for by attempts of the row.
LEMMA PaidStep ==
    ASSUME SyncInv, TypeOK', Kinds, NEW m \in Memories, outbox'[m].state # "absent"
    PROVE  LET q == outbox'[m]
               s == q.mutation_sequence
           IN  calls'[s].embed <= q.attempt_count /\ calls'[s].write <= q.attempt_count
<1> DEFINE r == outbox[m]
           q == outbox'[m]
           s == q.mutation_sequence
<1>1. q \in Row /\ r \in Row
  BY DEF TypeOK, OutboxOK, SyncInv, Intents
<1>2. CASE Enqueues(m)
  BY <1>1, <1>2, FreshCalls, RowNumbers DEF NoCalls
<1>3. CASE RowStays(m)
  <2>1. /\ r.state # "absent" /\ r.mutation_sequence = s
        /\ q.attempt_count >= r.attempt_count
    BY <1>3 DEF RowStays, SameIntent, Present
  <2>2. /\ s \in Mutations /\ calls[s].embed <= r.attempt_count
        /\ calls[s].write <= r.attempt_count
        /\ calls[s] \in [embed : Nat, unsent : Nat, write : Nat]
    BY <2>1 DEF SyncInv, CallsSound, AttemptsArePaid, Intents, TypeOK, OutboxOK, Present
  <2>3. ASSUME NEW w \in Workers, Embeds(w) \/ Writes(w), worker[w].claim.sequence = s
        PROVE  /\ r.attempt_count > 0
               /\ Embeds(w) => calls[s].embed < r.attempt_count
               /\ Writes(w) => calls[s].write = 0
    <3>1. Holds(w)
      BY <2>3, Requests
    <3>2. worker[w].claim.memory = m
      BY <2>1, <2>3, <3>1, OneMemory
    <3> QED
      BY <2>3, <3>2, Requests DEF About
  <2> HIDE DEF r, q, s
  <2>4. ASSUME calls'[s] = calls[s] \/ calls'[s] = [calls[s] EXCEPT !.unsent = @ + 1]
        PROVE  calls'[s].embed <= q.attempt_count /\ calls'[s].write <= q.attempt_count
    BY <1>1, <2>1, <2>2, <2>4, RowNumbers
  <2>5. ASSUME NEW w \in Workers, Embeds(w), worker[w].claim.sequence = s,
               calls'[s] = [calls[s] EXCEPT !.embed = @ + 1]
        PROVE  calls'[s].embed <= q.attempt_count /\ calls'[s].write <= q.attempt_count
    <3>1. calls[s].embed < r.attempt_count
      BY <2>3, <2>5
    <3> QED
      BY <1>1, <2>1, <2>2, <2>5, <3>1, RowNumbers
  <2>6. ASSUME NEW w \in Workers, Writes(w), worker[w].claim.sequence = s,
               calls'[s] = [calls[s] EXCEPT !.write = @ + 1]
        PROVE  calls'[s].embed <= q.attempt_count /\ calls'[s].write <= q.attempt_count
    <3>1. r.attempt_count > 0 /\ calls[s].write = 0
      BY <2>3, <2>6
    <3> QED
      BY <1>1, <2>1, <2>2, <2>6, <3>1, RowNumbers
  <2> QED
    BY <2>2, <2>4, <2>5, <2>6, CallsBy DEF q, s
<1> QED
  BY <1>2, <1>3, RowBefore DEF Present

\* Evidence of a request is taken back only where the call is known not to have left.
LEMMA EvidenceBy ==
    ASSUME Kinds, NEW m \in Memories, outbox'[m].state # "absent", ~Enqueues(m),
           has_unknown_external_send_evidence(outbox[m])
    PROVE  \/ has_unknown_external_send_evidence(outbox'[m])
           \/ \E w \in Workers :
                 /\ Fails(w) /\ worker[w].claim.memory = m
                 /\ send_disposition(worker[w].failure) # "possibly_sent"
<1> DEFINE Shown == has_unknown_external_send_evidence(outbox'[m])
<1>1. ASSUME outbox'[m] = outbox[m] PROVE Shown
  BY <1>1
<1>2. ASSUME RowKept(m) PROVE Shown
  BY <1>2 DEF RowKept, Kept, EmptyRow
<1>3. CASE Quiet
  BY <1>2, <1>3 DEF Quiet
<1>4. ASSUME NEW w \in Workers, NEW n \in Memories, Claims(w, n) PROVE Shown
  <2>1. n # m
    BY <1>4 DEF Claims
  <2> QED
    BY <1>2, <1>4, <2>1 DEF Claims
<1>5. ASSUME NEW w \in Workers, Reserves(w) PROVE Shown
  <2>1. worker[w].claim.memory # m
    BY <1>5 DEF Reserves
  <2> QED
    BY <1>1, <1>5, <2>1 DEF Reserves, OthersKept
<1>6. ASSUME NEW w \in Workers, Witnesses(w) PROVE Shown
  <2>1. CASE worker[w].claim.memory = m
    BY <1>6, <2>1 DEF Witnesses
  <2>2. CASE worker[w].claim.memory # m
    BY <1>1, <1>6, <2>2 DEF Witnesses, OthersKept
  <2> QED
    BY <2>1, <2>2
<1>7. ASSUME NEW w \in Workers, Fails(w)
      PROVE  \/ Shown
             \/ /\ worker[w].claim.memory = m
                /\ send_disposition(worker[w].failure) # "possibly_sent"
  <2>1. CASE worker[w].claim.memory = m
    BY <1>7, <2>1 DEF Fails
  <2>2. CASE worker[w].claim.memory # m
    BY <1>1, <1>7, <2>2 DEF Fails, OthersKept
  <2> QED
    BY <2>1, <2>2
<1>8. ASSUME NEW w \in Workers, Embeds(w) \/ EmbeddingEnds(w) \/ Writes(w) PROVE Shown
  BY <1>1, <1>8 DEF Embeds, EmbeddingEnds, Writes
<1>9. ASSUME NEW n \in Memories, Enqueues(n) PROVE Shown
  BY <1>1, <1>9 DEF Enqueues, OthersKept
<1> QED
  BY <1>3, <1>4, <1>5, <1>6, <1>7, <1>8, <1>9 DEF Kinds

\* A request that may have left shows in the row.
LEMMA SentStep ==
    ASSUME SyncInv, TypeOK', Kinds, NEW m \in Memories, outbox'[m].state # "absent",
           LET s == outbox'[m].mutation_sequence IN
               calls'[s].embed > calls'[s].unsent \/ calls'[s].write > 0
    PROVE  has_unknown_external_send_evidence(outbox'[m])
<1> DEFINE r == outbox[m]
           q == outbox'[m]
           s == q.mutation_sequence
<1>1. ~Enqueues(m)
  BY FreshCalls DEF NoCalls
<1>2. r.state # "absent" /\ r.mutation_sequence = s
  <2>1. RowStays(m)
    BY <1>1, RowBefore DEF Present
  <2> QED
    BY <2>1 DEF RowStays, SameIntent, Present
<1>3. /\ s \in Mutations /\ calls[s] \in [embed : Nat, unsent : Nat, write : Nat]
      /\ calls[s].embed > calls[s].unsent \/ calls[s].write > 0
            => has_unknown_external_send_evidence(r)
  BY <1>2 DEF SyncInv, CallsSound, SentIsRecorded, Intents, TypeOK, OutboxOK, Present
<1>4. ASSUME NEW w \in Workers, Embeds(w) \/ Writes(w), worker[w].claim.sequence = s
      PROVE  has_unknown_external_send_evidence(q)
  <2>1. Holds(w) /\ has_unknown_external_send_evidence(About(w)) /\ outbox' = outbox
    BY <1>4, Requests
  <2>2. worker[w].claim.memory = m
    BY <1>2, <1>4, <2>1, OneMemory
  <2> QED
    BY <2>1, <2>2 DEF About
<1>5. ASSUME calls'[s] = calls[s] \/ calls'[s] = [calls[s] EXCEPT !.unsent = @ + 1]
      PROVE  has_unknown_external_send_evidence(q)
  <2>1. calls[s].embed > calls[s].unsent \/ calls[s].write > 0
    <3> HIDE DEF s
    <3> QED
      BY <1>3, <1>5 DEF s
  <2>2. ASSUME NEW w \in Workers, Fails(w), worker[w].claim.memory = m,
               send_disposition(worker[w].failure) # "possibly_sent"
        PROVE  FALSE
    <3>1. Holds(w) /\ Matched(w) /\ Pc(w) = "failed" /\ worker[w].claim.sequence = s
      BY <1>2, <2>2 DEF Fails, Holds, Matched, Same, About
    <3>2. send_disposition(worker[w].failure) = "definitely_not_sent"
      BY <2>2 DEF send_disposition
    <3>3. calls[s].embed <= calls[s].unsent /\ calls[s].write = 0
      BY <3>1, <3>2 DEF SyncInv, CallsSound, AttemptSound, Unsent
    <3> HIDE DEF s
    <3> QED
      BY <1>3, <2>1, <3>3
  <2>3. has_unknown_external_send_evidence(r)
    BY <1>3, <2>1
  <2> QED
    BY <1>1, <2>2, <2>3, EvidenceBy
<1> QED
  BY <1>3, <1>4, <1>5, CallsBy

LEMMA CallsStep ==
    ASSUME SyncInv, TypeOK', RowsSound', Kinds
    PROVE  CallsSound'
<1>1. /\ \A s \in Mutations : s > clock' => calls'[s] = NoCalls
      /\ NoReplay'
  BY ReplayStep DEF NoReplay
<1>2. AttemptsArePaid'
  <2>1. ASSUME NEW m \in Memories, outbox'[m].state # "absent"
        PROVE  LET q == outbox'[m] IN
               /\ q.attempt_count <= MaxAttempts
               /\ calls'[q.mutation_sequence].embed <= q.attempt_count
               /\ calls'[q.mutation_sequence].write <= q.attempt_count
    BY <2>1, PaidStep DEF RowsSound, RowSound
  <2> QED
    BY <2>1 DEF AttemptsArePaid, Present
<1>3. SentIsRecorded'
  BY SentStep DEF SentIsRecorded, Present
<1>4. \A w \in Workers : Holds(w)' => AttemptSound(w)'
  BY AttemptStep
<1> QED
  BY <1>1, <1>2, <1>3, <1>4 DEF CallsSound

-----------------------------------------------------------------------------
(* The theorems *)

\* Nothing is enqueued, claimed or requested at first.
LEMMA InitSound == Init => SyncInv
<1> SUFFICES ASSUME Init PROVE SyncInv
  OBVIOUS
<1>1. /\ \A m \in Memories : outbox[m] = EmptyRow /\ ~Present(m)
      /\ \A w \in Workers : ~Holds(w)
      /\ \A s \in Mutations : calls[s] = NoCalls
      /\ resolution = {} /\ lease.owner = NoOwner
  BY DEF Init, Present, EmptyRow, Holds, Pc, Idle
<1>2. Intents
  BY IntentsInductive
<1>3. RowsSound
  BY <1>1, EmptyRowSound DEF RowsSound
<1>4. NamesSound
  BY <1>1 DEF NamesSound, Named
<1>5. ClaimsSound
  BY <1>1 DEF ClaimsSound
<1>6. CallsSound
  <2>1. NoReplay /\ AttemptsArePaid /\ SentIsRecorded
    BY <1>1 DEF NoReplay, NoCalls, AttemptsArePaid, SentIsRecorded
  <2> QED
    BY <1>1, <2>1 DEF CallsSound
<1>7. ResolutionsSound
  BY <1>1 DEF ResolutionsSound, UnknownDeleteHasResolution, OpenResolutionIsLatest
<1> QED
  BY <1>2, <1>3, <1>4, <1>5, <1>6, <1>7 DEF SyncInv

\* Every step keeps the inductive invariant.
LEMMA SyncInductive ==
    ASSUME SyncInv, [Next]_vars
    PROVE  SyncInv'
<1>1. Intents' /\ TypeOK'
  BY IntentsInductive DEF SyncInv, Intents
<1>2. RowsSound' /\ Kinds
  BY StepKinds
<1> QED
  BY <1>1, <1>2, NamesStep, ClaimsStep, CallsStep, ResolutionsStep DEF SyncInv

\* The inductive invariant holds in every reachable state.
THEOREM SyncCorrect == Spec => []SyncInv
BY InitSound, SyncInductive, PTL DEF Spec

\* Sound rows are well formed.
LEMMA SoundRows == SyncInv => NeverMalformed
<1> SUFFICES ASSUME SyncInv, NEW m \in Memories, Present(m)
             PROVE  /\ ~Malformed(outbox[m])
                    /\ outbox[m].last_error_code = "INTERNAL_INVARIANT"
                          => outbox[m].fenced_claim_epoch = MaxEpoch
  BY DEF NeverMalformed
<1>1. outbox[m] \in Row /\ RowSound(outbox[m]) /\ outbox[m].state # "absent"
  BY RowFacts DEF SyncInv, Present
<1> QED
  BY <1>1, SoundIsWellFormed DEF RowSound

\* Two drains with a current claim of one row claimed it under the same epoch.
LEMMA SoundClaims == SyncInv => ClaimIsExclusive
<1> SUFFICES ASSUME SyncInv, NEW v \in Workers, NEW w \in Workers,
                    {Pc(v), Pc(w)} \cap {"idle", "drain"} = {},
                    worker[v].claim.memory = worker[w].claim.memory,
                    ClaimCurrent(v), ClaimCurrent(w)
             PROVE  v = w
  BY DEF ClaimIsExclusive
<1>1. Holds(v) /\ Holds(w)
  BY DEF Holds
<1>2. Twins(v, w)
  BY CurrentClaim DEF Twins, Same, About
<1> QED
  BY <1>1, <1>2 DEF SyncInv, ClaimsSound

\* A mutation's text is sent again only after every earlier request of it came back
\* as definitely not sent, and its LanceDB write is requested at most once, however
\* many processes drain, crash, recover and retry.
THEOREM NothingIsReplayed == Spec => []NoReplay
<1>1. SyncInv => NoReplay
  BY DEF SyncInv, CallsSound
<1> QED
  BY SyncCorrect, <1>1, PTL

\* While the row of a mutation exists, a request of it that may have left the process
\* shows in the row.
THEOREM SendsAreRecorded == Spec => []SentIsRecorded
<1>1. SyncInv => SentIsRecorded
  BY DEF SyncInv, CallsSound
<1> QED
  BY SyncCorrect, <1>1, PTL

\* Every request is paid for by a reserved attempt, within the budget.
THEOREM RequestsArePaid == Spec => []AttemptsArePaid
<1>1. SyncInv => AttemptsArePaid
  BY DEF SyncInv, CallsSound
<1> QED
  BY SyncCorrect, <1>1, PTL

\* A Delete that may have been sent has the resolution of its mutation.
THEOREM UnknownDeletesAreResolvable == Spec => []UnknownDeleteHasResolution
<1>1. SyncInv => UnknownDeleteHasResolution
  BY DEF SyncInv, ResolutionsSound
<1> QED
  BY SyncCorrect, <1>1, PTL

\* An open resolution belongs to the latest mutation of its memory, and is the only one.
THEOREM OpenResolutionsAreLatest == Spec => []OpenResolutionIsLatest
<1>1. SyncInv => OpenResolutionIsLatest
  BY DEF SyncInv, ResolutionsSound
<1> QED
  BY SyncCorrect, <1>1, PTL

\* No sequence of steps produces a row that the invariant scans would quarantine.
THEOREM RowsAreWellFormed == Spec => []NeverMalformed
BY SyncCorrect, SoundRows, PTL

\* A stale document never blocks a row: the mutation that changed the memory has
\* already replaced the row that was claimed.
THEOREM StaleReadsBlockNothing == Spec => []StaleReadNeverBlocks
<1>1. SyncInv => StaleReadNeverBlocks
  BY DEF SyncInv, RowsSound, RowSound, StaleReadNeverBlocks
<1> QED
  BY SyncCorrect, <1>1, PTL

\* Two processes never both pass the claim guard for the same row, even under one
\* owner string and one runtime fence.
THEOREM ClaimsAreExclusive == Spec => []ClaimIsExclusive
BY SyncCorrect, SoundClaims, PTL

\* While a mutation lasts, no step gives back a spent attempt, an epoch, a binding or
\* the evidence of an unknown Delete.
THEOREM EvidenceIsKept == Spec => EvidenceIsMonotone
<1> DEFINE Monotone ==
             \A m \in Memories :
                LET r == outbox[m]  q == outbox'[m] IN
                Present(m) /\ q.state # "absent" /\ q.mutation_sequence = r.mutation_sequence =>
                   /\ q.attempt_count >= r.attempt_count
                   /\ q.fenced_claim_epoch >= r.fenced_claim_epoch
                   /\ q.last_marked_claim_epoch >= r.last_marked_claim_epoch
                   /\ r.attempt_count > 0 => q.claimed_generation = r.claimed_generation
                   /\ is_delete_unknown(r) => is_delete_unknown(q)
<1>1. ASSUME SyncInv, [Next]_vars PROVE Monotone
  <2> SUFFICES ASSUME NEW m \in Memories, Present(m), outbox'[m].state # "absent",
                      outbox'[m].mutation_sequence = outbox[m].mutation_sequence
               PROVE  RowStays(m)
    BY DEF RowStays
  <2>1. TypeOK' /\ Kinds
    BY <1>1, IntentsInductive, StepKinds DEF SyncInv, Intents
  <2>2. ~Enqueues(m)
    <3>1. outbox[m].mutation_sequence \in Mutations /\ Named(m, outbox[m].mutation_sequence)
      BY <1>1 DEF SyncInv, Intents, TypeOK, OutboxOK, Named
    <3>2. outbox[m].mutation_sequence <= clock /\ clock \in Nat
      BY <1>1, <3>1 DEF SyncInv, NamesSound, Intents, TypeOK
    <3> QED
      BY <3>2 DEF Enqueues
  <2> QED
    BY <1>1, <2>1, <2>2, RowBefore DEF Present
<1> QED
  BY SyncCorrect, <1>1, PTL DEF Spec, EvidenceIsMonotone

=============================================================================
