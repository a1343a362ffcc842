----------------------------- MODULE VectorSync -----------------------------
(***************************************************************************)
(* The memory-to-vector synchronisation of the desktop backend: confirmed  *)
(* memories are mutated in SQLite together with an outbox row, and bounded *)
(* drains claim rows under a fenced runtime lease, reserve an attempt,     *)
(* call the embedding provider and LanceDB, and finalise the row.  Every   *)
(* SQLite transaction is one action; calls to the provider and to LanceDB  *)
(* take two, so that anything may happen between request and answer.       *)
(*                                                                         *)
(* A worker is a process of the application.  The composition gate of      *)
(* vector_sync_stage_runtime.rs lets a process run one drain or one        *)
(* rebuild at a time, hence one program counter per worker; processes that *)
(* share the database, or that restart after a crash, only meet in SQLite. *)
(* Several workers may use the same lease owner string, since it comes     *)
(* from the request.                                                       *)
(***************************************************************************)
EXTENDS OutboxRow, FiniteSets

CONSTANTS
    Memories,       \* memory ids of the life
    NoMemory,       \* "no claim in hand"
    Workers,        \* processes that may run a drain
    OwnerOf,        \* the lease owner string each worker passes
    LeaseTicks,     \* the 120 second lease, in clock ticks
    DrainLimit,     \* largest requested drain limit (32 in the code)
    MaxGeneration,  \* bound: how many generations are ever active
    MaxNow          \* bound: the last clock tick

ASSUME NoMemoryAssumption == NoMemory \notin Memories
ASSUME OwnerOfAssumption == OwnerOf \in [Workers -> Owners]
ASSUME TimeAssumption == LeaseTicks \in Nat \ {0} /\ MaxNow \in Nat
ASSUME LimitAssumption == DrainLimit \in Nat \ {0} /\ MaxGeneration \in Nat \ {0}

VARIABLES
    memory,      \* memory_record: status and revision of each memory
    clock,       \* memory_vector_sync_mutation_clock.last_sequence
    outbox,      \* memory_vector_sync_outbox
    resolution,  \* memory_vector_late_delete_resolution
    lease,       \* memory_vector_sync_runtime_lease
    active,      \* the active generation (id and authority epoch)
    item,        \* memory_vector_generation_item of the active generation
    store,       \* LanceDB rows of the active generation
    now,         \* the UTC clock
    worker,      \* the drain each worker runs
    calls        \* history: external calls made for each mutation

vars == <<memory, clock, outbox, resolution, lease, active, item, store, now, worker, calls>>

Mutations == 1 .. MaxSequence

\* A claim, and once `ordinal` is set the attempt token minted from it.
NoClaim == [memory |-> NoMemory, action |-> "delete", sequence |-> 0, target |-> 0,
            generation |-> 0, fence |-> 0, epoch |-> 0, ordinal |-> 0]

Idle == [pc |-> "idle", generation |-> 0, cutoff |-> 0, left |-> 0,
         claim |-> NoClaim, failure |-> NoFailure]

NoCalls == [embed |-> 0, unsent |-> 0, write |-> 0]

Init ==
    /\ memory = [m \in Memories |-> [status |-> "candidate", revision |-> 0]]
    /\ clock = 0
    /\ outbox = [m \in Memories |-> EmptyRow]
    /\ resolution = {}
    /\ lease = [owner |-> NoOwner, fence |-> 0, expires |-> 0]
    /\ active = 1
    /\ item = [m \in Memories |-> 0]
    /\ store = [m \in Memories |-> 0]
    /\ now = 1
    /\ worker = [w \in Workers |-> Idle]
    /\ calls = [s \in Mutations |-> NoCalls]

-----------------------------------------------------------------------------
(* Memory mutations: each enqueues in its own transaction *)

Confirmed(m) == memory[m].status \in {"plain", "sensitive"}

\* The revision the vector index must hold for m: 0 means no vector.
Desired(m) == IF memory[m].status = "plain" THEN memory[m].revision ELSE 0

TerminalStates == {"resolved_absent", "resolved_deleted", "resolved_rebuilt", "superseded"}

Open(r) == r.state \notin TerminalStates

\* A resolution leaves its state with a final word on its epoch and without its lease.
Concluded(r, state) ==
    [r EXCEPT !.state = state, !.last_resolution_disposition = "finished",
              !.last_disposition_epoch = r.resolution_epoch,
              !.lease_fence_epoch = 0, !.lease_expires_at = 0]

\* Mutant: a new mutation leaves the open resolutions of its memory alone.
SupersededNothing(m) == resolution

\* Mutant: a new mutation removes the resolutions of its memory.
SupersededByRemoval(m) == {r \in resolution : r.memory # m}

\* supersede_for_new_mutation_in: every open resolution of m is closed.
Superseded(m) ==
    { IF r.memory = m /\ Open(r) THEN Concluded(r, "superseded") ELSE r : r \in resolution }

\* enqueue_in_transaction; the mutation clock refuses to pass its maximum.
Enqueue(m, action, revision) ==
    /\ clock < MaxSequence
    /\ clock' = clock + 1
    /\ resolution' = Superseded(m)
    /\ outbox' = [outbox EXCEPT ![m] = Enqueued(@, action, clock + 1, revision)]
    /\ UNCHANGED <<lease, active, item, store, now, worker, calls>>

\* Mutant: every recorded memory is upserted.
RecordAndUpsert(m, status, revision) ==
    /\ memory' = [memory EXCEPT ![m] = [status |-> status, revision |-> revision]]
    /\ Enqueue(m, "upsert", revision)

\* A sensitive memory must not be embedded: its vector is deleted instead.
RecordAndEnqueue(m, status, revision) ==
    /\ memory' = [memory EXCEPT ![m] = [status |-> status, revision |-> revision]]
    /\ Enqueue(m, IF status = "plain" THEN "upsert" ELSE "delete", revision)

ConfirmCandidate(m) ==
    /\ memory[m].status = "candidate"
    /\ \E status \in {"plain", "sensitive"} : RecordAndEnqueue(m, status, 1)

UpdateConfirmed(m) ==
    /\ Confirmed(m)
    /\ RecordAndEnqueue(m, memory[m].status, memory[m].revision + 1)

\* Mutant: the sensitivity changes without an outbox row.
SetSensitivitySilently(m) ==
    /\ Confirmed(m)
    /\ \E status \in {"plain", "sensitive"} \ {memory[m].status} :
           memory' = [memory EXCEPT ![m].status = status, ![m].revision = @ + 1]
    /\ UNCHANGED <<clock, outbox, resolution, lease, active, item, store, now, worker, calls>>

SetSensitivity(m) ==
    /\ Confirmed(m)
    /\ \E status \in {"plain", "sensitive"} \ {memory[m].status} :
           RecordAndEnqueue(m, status, memory[m].revision + 1)

DeletePermanently(m) ==
    /\ Confirmed(m)
    /\ RecordAndEnqueue(m, "gone", memory[m].revision)

-----------------------------------------------------------------------------
(* Guards *)

\* acquire_runtime_lease: the same owner renews an unexpired lease under the same
\* fence; anyone may take a free or expired one under the next fence.
Renews(o) == lease.owner = o /\ lease.expires > now

Acquires(o) ==
    /\ lease.fence < MaxEpoch
    /\ lease.owner = NoOwner \/ lease.expires <= now

LeaseAfter(o) ==
    [owner |-> o, expires |-> now + LeaseTicks,
     fence |-> IF Renews(o) THEN lease.fence ELSE lease.fence + 1]

\* Mutant: the claim is identified by mutation, owner and fence alone.
ClaimCurrentWithoutEpoch(w) ==
    LET c == worker[w].claim
        r == outbox[c.memory]
    IN  /\ r.state = "processing"
        /\ r.mutation_sequence = c.sequence
        /\ r.lease_owner = OwnerOf[w] /\ lease.owner = OwnerOf[w]
        /\ r.lease_fence_epoch = c.fence /\ lease.fence = c.fence
        /\ c.generation = active
        /\ r.lease_expires_at > now /\ lease.expires > now

\* fenced_claim_current_in with the binding inspection around it.
ClaimCurrent(w) ==
    LET c == worker[w].claim
        r == outbox[c.memory]
    IN  /\ r.state = "processing"
        /\ r.desired_action = c.action
        /\ r.mutation_sequence = c.sequence
        /\ r.target_revision = c.target
        /\ r.lease_owner = OwnerOf[w]
        /\ r.lease_fence_epoch = c.fence
        /\ r.claimed_generation = c.generation
        /\ r.fenced_claim_epoch = c.epoch
        /\ c.generation = active
        /\ lease.owner = OwnerOf[w]
        /\ lease.fence = c.fence
        /\ r.lease_expires_at > now
        /\ lease.expires > now
        /\ generation_binding_phase(r) \in {"Ephemeral", "Durable"}

\* fenced_attempt_token_current_in, and FENCED_ATTEMPT_TOKEN_FINALIZE_IDENTITY.
TokenCurrent(w) ==
    LET c == worker[w].claim
        r == outbox[c.memory]
    IN  /\ ClaimCurrent(w)
        /\ r.attempt_count = c.ordinal
        /\ r.last_marked_claim_epoch = c.epoch
        /\ attempt_identity_phase(r) = "ClaimMarked"

Pc(w) == worker[w].pc
Goto(w, pc) == worker' = [worker EXCEPT ![w].pc = pc]

\* The drain returns: lost lease, no eligible event, or an error.
Stop(w) == worker' = [worker EXCEPT ![w] = Idle]

\* Mutant: the drain does not stop at its limit.
NextEventUnlimited(w) ==
    worker' = [worker EXCEPT ![w].pc = "drain", ![w].left = @ - 1,
                             ![w].claim = NoClaim, ![w].failure = NoFailure]

\* One event was processed; the drain goes on until its limit.
NextEvent(w) ==
    LET d == worker[w]
    IN  worker' = [worker EXCEPT ![w] =
                      IF d.left = 1 THEN Idle
                      ELSE [d EXCEPT !.pc = "drain", !.left = d.left - 1,
                                     !.claim = NoClaim, !.failure = NoFailure]]

-----------------------------------------------------------------------------
(* The drain *)

\* start_fenced_vector_sync_drain: binds the active generation, freezes the
\* retry cutoff and takes a limit.
StartDrain(w) ==
    /\ Pc(w) = "idle"
    /\ \E limit \in 1 .. DrainLimit :
           worker' = [worker EXCEPT ![w] =
                         [Idle EXCEPT !.pc = "drain", !.generation = active,
                                      !.cutoff = now, !.left = limit]]
    /\ UNCHANGED <<memory, clock, outbox, resolution, lease, active, item, store, now, calls>>

\* The runtime lease is held by another owner: the drain fails.
ClaimRefused(w) ==
    /\ Pc(w) = "drain"
    /\ ~Renews(OwnerOf[w]) /\ ~Acquires(OwnerOf[w])
    /\ Stop(w)
    /\ UNCHANGED <<memory, clock, outbox, resolution, lease, active, item, store, now, calls>>

\* The claim transaction, committed with or without a candidate: lease, repair
\* of every row, then the oldest claimable mutation.
ClaimOne(w) ==
    LET o == OwnerOf[w]
        d == worker[w]
        rows == [m \in Memories |-> Repaired(outbox[m], d.cutoff)]
        ready == {m \in Memories : d.generation = active
                                     /\ Claimable(rows[m], active, d.cutoff)}
    IN  /\ Pc(w) = "drain"
        /\ Renews(o) \/ Acquires(o)
        /\ lease' = LeaseAfter(o)
        /\ \/ /\ ready = {}
              /\ outbox' = rows
              /\ Stop(w)
           \/ \E m \in ready :
                /\ \A n \in ready : rows[m].mutation_sequence <= rows[n].mutation_sequence
                /\ IF \/ attempt_identity_phase(rows[m]) = "Invalid"
                      \/ rows[m].fenced_claim_epoch = MaxEpoch
                   THEN /\ outbox' = [rows EXCEPT ![m] = BlockInvariant(@)]
                        /\ Stop(w)
                   ELSE /\ outbox' = [rows EXCEPT ![m] =
                               Claimed(@, o, LeaseAfter(o).fence, LeaseAfter(o).expires, active)]
                        /\ worker' = [worker EXCEPT ![w].pc = "claimed", ![w].claim =
                               [memory |-> m, action |-> rows[m].desired_action,
                                sequence |-> rows[m].mutation_sequence,
                                target |-> rows[m].target_revision, generation |-> active,
                                fence |-> LeaseAfter(o).fence,
                                epoch |-> rows[m].fenced_claim_epoch + 1, ordinal |-> 0]]
        /\ UNCHANGED <<memory, clock, resolution, active, item, store, now, calls>>

\* read_fenced_vector_document.  The guards around the read are repeated by the
\* transaction that follows, so only the document itself is decided here.
ReadDocument(w) ==
    LET c == worker[w].claim
    IN  /\ Pc(w) = "claimed" /\ c.action = "upsert"
        /\ Goto(w, IF memory[c.memory].status = "plain" /\ memory[c.memory].revision = c.target
                   THEN "read" ELSE "stale")
        /\ UNCHANGED <<memory, clock, outbox, resolution, lease, active, item, store, now, calls>>

\* Mutant: a stale read blocks whatever row the memory has by then.
BlockTargetStaleUnguarded(w) ==
    /\ Pc(w) = "stale"
    /\ outbox' = [outbox EXCEPT ![worker[w].claim.memory] = StaleTarget(@)]
    /\ NextEvent(w)
    /\ UNCHANGED <<memory, clock, resolution, lease, active, item, store, now, calls>>

BlockTargetStale(w) ==
    LET m == worker[w].claim.memory
    IN  /\ Pc(w) = "stale"
        /\ IF /\ ClaimCurrent(w)
              /\ outbox[m].attempt_count = 0
              /\ attempt_identity_phase(outbox[m]) = "ClaimUnmarked"
           THEN outbox' = [outbox EXCEPT ![m] = StaleTarget(@)] /\ NextEvent(w)
           ELSE UNCHANGED outbox /\ Stop(w)
        /\ UNCHANGED <<memory, clock, resolution, lease, active, item, store, now, calls>>

\* reserve_fenced_attempt: idempotent for a claim that already marked its slot.
Reserve(w) ==
    LET c == worker[w].claim
        r == outbox[c.memory]
        phase == attempt_identity_phase(r)
        hold(ordinal) == worker' = [worker EXCEPT ![w].pc = "reserved",
                                                  ![w].claim.ordinal = ordinal]
    IN  /\ \/ Pc(w) = "read"
           \/ Pc(w) = "claimed" /\ c.action = "delete"
        /\ IF ~ClaimCurrent(w) \/ is_delete_unknown(r) \/ phase = "NeverClaimed"
           THEN UNCHANGED outbox /\ Stop(w)
           ELSE CASE phase = "Invalid" ->
                       outbox' = [outbox EXCEPT ![c.memory] = BlockInvariant(@)] /\ Stop(w)
                  [] phase = "ClaimMarked" ->
                       UNCHANGED outbox /\ hold(r.attempt_count)
                  [] phase = "ClaimUnmarked" /\ r.attempt_count >= MaxAttempts ->
                       /\ outbox' = [outbox EXCEPT ![c.memory] =
                             Released(@, "blocked", exhausted_attempt_budget_error_code(@))]
                       /\ Stop(w)
                  [] OTHER ->
                       /\ outbox' = [outbox EXCEPT ![c.memory] = Reserved(@)]
                       /\ hold(r.attempt_count + 1)
        /\ UNCHANGED <<memory, clock, resolution, lease, active, item, store, now, calls>>

\* The token guard, then the request to the embedding provider.
CallEmbedding(w) ==
    LET s == worker[w].claim.sequence
    IN  /\ Pc(w) = "reserved" /\ worker[w].claim.action = "upsert"
        /\ IF TokenCurrent(w)
           THEN Goto(w, "embedding") /\ calls' = [calls EXCEPT ![s].embed = @ + 1]
           ELSE Stop(w) /\ UNCHANGED calls
        /\ UNCHANGED <<memory, clock, outbox, resolution, lease, active, item, store, now>>

Fail(w, f) == worker' = [worker EXCEPT ![w].pc = "failed", ![w].failure = f]

EmbeddingReturns(w) ==
    LET s == worker[w].claim.sequence
    IN  /\ Pc(w) = "embedding"
        /\ \/ Goto(w, "embedded") /\ UNCHANGED calls
           \/ \E f \in EmbeddingFailures \cup {InvalidVector} :
                /\ Fail(w, f)
                /\ calls' = IF send_disposition(f) = "definitely_not_sent"
                            THEN [calls EXCEPT ![s].unsent = @ + 1]
                            ELSE calls
        /\ UNCHANGED <<memory, clock, outbox, resolution, lease, active, item, store, now>>

\* Mutant: an unknown Delete leaves no resolution.
EnsureNoResolution(c, anchor) == UNCHANGED resolution

\* The inserted row; owners, descriptors and the frozen witness columns, which no
\* operation changes, are left out.
NewResolution(c, anchor) ==
    [memory |-> c.memory, sequence |-> c.sequence, generation |-> c.generation,
     anchor |-> anchor, state |-> "pending", resolution_count |-> 0, resolution_epoch |-> 0,
     last_reserved_resolution_epoch |-> 0, last_resolution_disposition |-> "none",
     last_disposition_epoch |-> 0, lease_fence_epoch |-> 0, lease_expires_at |-> 0]

\* ensure_runtime_resolution_for_delete_unknown_in: the resolution of the claim's
\* mutation, anchored at the row's witness; inserted once.
EnsureResolution(c, anchor) ==
    resolution' =
        IF \E r \in resolution : r.memory = c.memory /\ r.sequence = c.sequence
        THEN resolution
        ELSE resolution \cup {NewResolution(c, anchor)}

\* mark_fenced_delete_send_witness, with the resolution it must leave behind.
MarkWitness(w) ==
    LET c == worker[w].claim
        r == Witnessed(outbox[c.memory], now)
    IN  /\ Pc(w) = "reserved" /\ c.action = "delete"
        /\ IF TokenCurrent(w)
           THEN /\ outbox' = [outbox EXCEPT ![c.memory] = r]
                /\ EnsureResolution(c, r.delete_witness_at)
                /\ Goto(w, "witnessed")
           ELSE UNCHANGED <<outbox, resolution>> /\ Stop(w)
        /\ UNCHANGED <<memory, clock, lease, active, item, store, now, calls>>

\* The last token guard, then the request to LanceDB.
CallLance(w) ==
    LET s == worker[w].claim.sequence
    IN  /\ Pc(w) \in {"embedded", "witnessed"}
        /\ IF TokenCurrent(w)
           THEN Goto(w, "writing") /\ calls' = [calls EXCEPT ![s].write = @ + 1]
           ELSE Stop(w) /\ UNCHANGED calls
        /\ UNCHANGED <<memory, clock, outbox, resolution, lease, active, item, store, now>>

\* The write takes effect on the generation the drain is bound to; only the
\* active generation's table is tracked.
Landed(w) ==
    LET c == worker[w].claim
    IN  IF c.generation = active THEN [store EXCEPT ![c.memory] = c.target] ELSE store

\* Mutant: an error of LanceDB is taken for a success.
LanceErrorSwallowed(w) ==
    /\ Pc(w) = "writing"
    /\ store' \in {store, Landed(w)}
    /\ Goto(w, "wrote")
    /\ UNCHANGED <<memory, clock, outbox, resolution, lease, active, item, now, calls>>

\* LanceDB answers.  An error does not tell whether the write took effect.
LanceReturns(w) ==
    /\ Pc(w) = "writing"
    /\ \/ store' = Landed(w) /\ Goto(w, "wrote")
       \/ store' \in {store, Landed(w)} /\ \E f \in LanceFailures : Fail(w, f)
    /\ UNCHANGED <<memory, clock, outbox, resolution, lease, active, item, now, calls>>

\* Mutant: the success is recorded without revalidating the token.
FinalizeSuccessUnguarded(w) ==
    LET c == worker[w].claim
    IN  /\ Pc(w) = "wrote"
        /\ item' = [item EXCEPT ![c.memory] = c.target]
        /\ outbox' = [outbox EXCEPT ![c.memory] = EmptyRow]
        /\ NextEvent(w)
        /\ UNCHANGED <<memory, clock, resolution, lease, active, store, now, calls>>

\* finalize_fenced_vector_sync
FinalizeSuccess(w) ==
    LET c == worker[w].claim
    IN  /\ Pc(w) = "wrote"
        /\ IF TokenCurrent(w)
           THEN /\ item' = [item EXCEPT ![c.memory] = c.target]
                /\ outbox' = [outbox EXCEPT ![c.memory] = EmptyRow]
                /\ NextEvent(w)
           ELSE UNCHANGED <<item, outbox>> /\ Stop(w)
        /\ UNCHANGED <<memory, clock, resolution, lease, active, store, now, calls>>

\* finalize_failure and finalize_fenced_vector_failure.  Without a usable clock
\* the retry is not scheduled and the row is blocked.  A Delete left unknown must
\* have its witness and its resolution, or the transaction is rolled back.
FinalizeFailure(w) ==
    LET d == worker[w]
        c == d.claim
        r == outbox[c.memory]
        base == IF now >= d.cutoff THEN now ELSE d.cutoff
        done(state, at) ==
            [Released(r, state, stable_error_code(d.failure)) EXCEPT
                !.next_attempt_at = at,
                !.last_send_disposition = send_disposition(d.failure)]
        unknown == is_delete_unknown(done("blocked", 0))
    IN  /\ Pc(w) = "failed"
        /\ IF TokenCurrent(w) /\ (unknown => r.delete_witness_at > 0)
           THEN /\ \E clock_available \in BOOLEAN :
                      outbox' = [outbox EXCEPT ![c.memory] =
                          IF clock_available /\ schedules_retry(d.failure, c.ordinal, c.action)
                          THEN done("retry_wait", base + retry_delay(c.ordinal))
                          ELSE done("blocked", 0)]
                /\ IF unknown THEN EnsureResolution(c, r.delete_witness_at)
                              ELSE UNCHANGED resolution
                /\ NextEvent(w)
           ELSE UNCHANGED <<outbox, resolution>> /\ Stop(w)
        /\ UNCHANGED <<memory, clock, lease, active, item, store, now, calls>>

\* The process crashes, or a storage call fails and the drain returns its error.
\* A write in flight either took effect or never will.  The bound lets the leases
\* left behind expire before the clock stops.
Abort(w) ==
    /\ Pc(w) # "idle"
    /\ now + LeaseTicks <= MaxNow
    /\ store' \in {store} \cup (IF Pc(w) = "writing" THEN {Landed(w)} ELSE {})
    /\ Stop(w)
    /\ UNCHANGED <<memory, clock, outbox, resolution, lease, active, item, now, calls>>

-----------------------------------------------------------------------------
(* The rest of the application *)

RetryFailures ==
    /\ \E m \in Memories : ManuallyRetried(outbox[m]) # outbox[m]
    /\ outbox' = [m \in Memories |-> ManuallyRetried(outbox[m])]
    /\ UNCHANGED <<memory, clock, resolution, lease, active, item, store, now, worker, calls>>

\* promote_generation_rebuild, run by a worker that holds its gate.  Its guards
\* (clock at the target sequence, every outbox row caught up, the candidate's
\* items equal to the eligible memories) are replaced by what they establish: the
\* new generation holds exactly the desired revisions.
Promote(w) ==
    /\ Pc(w) = "idle"
    /\ active < MaxGeneration
    /\ active' = active + 1
    /\ item' = [m \in Memories |-> Desired(m)]
    /\ store' = [m \in Memories |-> Desired(m)]
    /\ resolution' =
           { IF /\ Open(r)
                /\ outbox[r.memory].desired_action = "delete"
                /\ outbox[r.memory].mutation_sequence = r.sequence
             THEN Concluded(r, "resolved_rebuilt") ELSE r : r \in resolution }
    /\ outbox' = [m \in Memories |-> EmptyRow]
    /\ UNCHANGED <<memory, clock, lease, now, worker, calls>>

Tick ==
    /\ now < MaxNow
    /\ now' = now + 1
    /\ UNCHANGED <<memory, clock, outbox, resolution, lease, active, item, store, worker, calls>>

Mutate(m) ==
    ConfirmCandidate(m) \/ UpdateConfirmed(m) \/ SetSensitivity(m) \/ DeletePermanently(m)

\* Everything a running drain does once it has claimed.
Execute(w) ==
    \/ ReadDocument(w) \/ BlockTargetStale(w) \/ Reserve(w) \/ CallEmbedding(w)
    \/ EmbeddingReturns(w) \/ MarkWitness(w) \/ CallLance(w) \/ LanceReturns(w)
    \/ FinalizeSuccess(w) \/ FinalizeFailure(w)

\* Every step but the cut-over.
Sync ==
    \/ \E m \in Memories : Mutate(m)
    \/ \E w \in Workers : \/ StartDrain(w) \/ ClaimRefused(w) \/ ClaimOne(w)
                          \/ Execute(w) \/ Abort(w)
    \/ RetryFailures
    \/ Tick

Next == Sync \/ \E w \in Workers : Promote(w)

Spec == Init /\ [][Next]_vars

\* Fairness of the code's scheduling: time passes, and a drain that runs gets its
\* transactions and answers (embedding and LanceDB calls are bounded by their
\* timeouts).  A drain itself is one confirmed click of the user, and nothing obliges
\* the user to click; nor are crashes, mutations, manual retries and cut-overs ever
\* obliged to happen.
Fairness ==
    /\ WF_vars(Tick)
    /\ \A w \in Workers : WF_vars(ClaimOne(w)) /\ WF_vars(Execute(w))

LiveSpec == Spec /\ Fairness

-----------------------------------------------------------------------------
(* Properties *)

Present(m) == outbox[m].state # "absent"

Pcs == {"idle", "drain", "claimed", "read", "stale", "reserved", "embedding", "embedded",
        "witnessed", "writing", "wrote", "failed"}

Claim == [memory : Memories \cup {NoMemory}, action : Actions, sequence : Nat, target : Nat,
          generation : Nat, fence : Nat, epoch : Nat, ordinal : Nat]

Drain == [pc : Pcs, generation : Nat, cutoff : Nat, left : Nat, claim : Claim,
          failure : Failures \cup {NoFailure}]

\* A drain past its claim holds a real one; a running drain has events left.
DrainOK(d) ==
    /\ d.pc \notin {"idle", "drain"} => d.claim.memory \in Memories
                                          /\ d.claim.sequence \in Mutations
    /\ d.pc # "idle" => d.left > 0
    /\ d.pc = "failed" => d.failure # NoFailure

WorkersOK == worker \in [Workers -> Drain] /\ \A w \in Workers : DrainOK(worker[w])

OutboxOK == /\ outbox \in [Memories -> Row]
            /\ \A m \in Memories : Present(m) => outbox[m].mutation_sequence \in Mutations

ResolutionStates ==
    TerminalStates \cup {"pending", "claimed", "processing", "unknown", "waiting_rebuild"}

Resolutions ==
    [memory : Memories, sequence : Mutations, generation : Nat, anchor : Nat,
     state : ResolutionStates, resolution_count : Nat, resolution_epoch : Nat,
     last_reserved_resolution_epoch : Nat,
     last_resolution_disposition : {"none", "delete_started", "finished"},
     last_disposition_epoch : Nat, lease_fence_epoch : Nat, lease_expires_at : Nat]

\* Every variable has its type, a present row belongs to a mutation of the clock,
\* and a worker past its claim holds a real one.
TypeOK ==
    /\ memory \in [Memories -> [status : {"candidate", "plain", "sensitive", "gone"},
                                revision : Nat]]
    /\ clock \in 0 .. MaxSequence
    /\ OutboxOK
    /\ resolution \subseteq Resolutions
    /\ lease \in [owner : Owners \cup {NoOwner}, fence : Nat, expires : Nat]
    /\ active \in Nat \ {0}
    /\ item \in [Memories -> Nat]
    /\ store \in [Memories -> Nat]
    /\ now \in Nat \ {0}
    /\ WorkersOK
    /\ calls \in [Mutations -> [embed : Nat, unsent : Nat, write : Nat]]

\* A mutation's text is sent to the provider again only after every earlier
\* request of that mutation came back as definitely not sent, and its LanceDB
\* write is requested at most once, whatever expires, crashes or is retried.
NoReplay ==
    \A s \in Mutations : /\ calls[s].embed <= calls[s].unsent + 1
                         /\ calls[s].write <= 1

\* Write-ahead evidence: while the row of a mutation exists, a request of it that
\* may have left the process is visible in the row as an unknown send.
SentIsRecorded ==
    \A m \in Memories : LET s == outbox[m].mutation_sequence IN
        Present(m) /\ (calls[s].embed > calls[s].unsent \/ calls[s].write > 0)
            => has_unknown_external_send_evidence(outbox[m])

\* Every external attempt is paid for by a reserved slot, and slots never pass
\* the budget.
AttemptsArePaid ==
    \A m \in Memories : Present(m) =>
        LET r == outbox[m] IN
        /\ r.attempt_count <= MaxAttempts
        /\ calls[r.mutation_sequence].embed <= r.attempt_count
        /\ calls[r.mutation_sequence].write <= r.attempt_count

\* A Delete that may have been sent always has the durable resolution of that
\* very mutation, so that some component is responsible for settling it.
UnknownDeleteHasResolution ==
    \A m \in Memories : Present(m) /\ is_delete_unknown(outbox[m]) =>
        \E r \in resolution : r.memory = m /\ r.sequence = outbox[m].mutation_sequence

\* An open resolution never coexists with a newer mutation of its memory, nor
\* with a second open resolution.
OpenResolutionIsLatest ==
    \A r \in resolution : Open(r) =>
        /\ Present(r.memory) => outbox[r.memory].mutation_sequence = r.sequence
        /\ \A x \in resolution : x.memory = r.memory /\ Open(x) => x = r

\* A row always aims at the memory as it is now: an upsert at the current plain
\* revision, a delete otherwise.
TargetMatchesMemory ==
    \A m \in Memories : Present(m) =>
        /\ (outbox[m].desired_action = "upsert") <=> (memory[m].status = "plain")
        /\ outbox[m].target_revision = Desired(m)

\* A claim whose document vanished or changed under it never blocks the row: the
\* mutation that changed the memory has already replaced the row it claimed.
StaleReadNeverBlocks ==
    \A m \in Memories : outbox[m].last_error_code # "VECTOR_TARGET_STALE"

\* Nothing is forgotten: a memory without an outbox row has exactly its desired
\* revision on record in the active generation.
SettledItemIsDesired ==
    \A m \in Memories : ~Present(m) => item[m] = Desired(m)

\* The drains, recoveries, retries and cut-overs together implement the abstract
\* index: a row stands for a dirty memory, and only a settling of the revision
\* desired at that moment, or a cut-over, removes it.
Index == INSTANCE IndexSync WITH
             desired <- [m \in Memories |-> Desired(m)],
             recorded <- item,
             dirty <- {m \in Memories : Present(m)}

ImplementsIndex == Index!Spec

\* With a single process, LanceDB too agrees with a memory that has no row.
SettledStoreIsDesired ==
    \A m \in Memories : ~Present(m) => store[m] = Desired(m)

\* No sequence of legal steps produces a row the invariant scans would
\* quarantine; INTERNAL_INVARIANT only ever means an exhausted claim epoch.
NeverMalformed ==
    \A m \in Memories : Present(m) =>
        /\ ~Malformed(outbox[m])
        /\ outbox[m].last_error_code = "INTERNAL_INVARIANT"
              => outbox[m].fenced_claim_epoch = MaxEpoch

\* Two workers never both pass the claim guard for the same row, even when they
\* share their owner string and the runtime fence.
ClaimIsExclusive ==
    \A v, w \in Workers :
        /\ {Pc(v), Pc(w)} \cap {"idle", "drain"} = {}
        /\ worker[v].claim.memory = worker[w].claim.memory
        /\ ClaimCurrent(v) /\ ClaimCurrent(w)
        => v = w

\* While a mutation lasts, spent attempts, claim epochs and unknown-send evidence
\* are never given back, by recovery, manual retry or finalisation.
EvidenceIsMonotone ==
    [][\A m \in Memories :
          LET r == outbox[m]  q == outbox'[m] IN
          Present(m) /\ q.state # "absent" /\ q.mutation_sequence = r.mutation_sequence =>
             /\ q.attempt_count >= r.attempt_count
             /\ q.fenced_claim_epoch >= r.fenced_claim_epoch
             /\ q.last_marked_claim_epoch >= r.last_marked_claim_epoch
             /\ r.attempt_count > 0 => q.claimed_generation = r.claimed_generation
             /\ is_delete_unknown(r) => is_delete_unknown(q)]_vars

\* What the liveness properties below assume of the user: whenever no drain runs, one
\* is asked for again, by either process.
DrainsAreRequested == \A w \in Workers : WF_vars(StartDrain(w))

\* Once crashes and mutations stop, no row stays pending or in processing for ever:
\* an orphaned claim expires, is recovered and claimed again until the mutation is
\* settled, blocked or scheduled for retry.
PendingIsServed ==
    \A m \in Memories :
        outbox[m].state \in {"pending", "processing"}
            ~> outbox[m].state \in {"absent", "blocked", "retry_wait"}

Scheduled(m) == outbox[m].state = "retry_wait" /\ outbox[m].next_attempt_at <= MaxNow

\* A retry that falls due within the modelled time is taken up, provided the
\* failed request is recorded as definitely not sent.
UnsentRetryIsServed ==
    \A m \in Memories :
        (Scheduled(m) /\ outbox[m].last_send_disposition = "definitely_not_sent")
            ~> ~Scheduled(m)

\* What drains owe the user who keeps asking for them: the rows that wait, and the
\* retries that were not sent.
DueWorkIsServed == DrainsAreRequested => PendingIsServed /\ UnsentRetryIsServed

\* What the drain reports as retry_scheduled: a row in retry_wait is taken up once
\* it is due, if drains keep being asked for.
ScheduledRetryIsServed ==
    DrainsAreRequested => \A m \in Memories : Scheduled(m) ~> ~Scheduled(m)

\* A resolution's age anchor is the time of its own Delete's witness: the step that
\* creates the resolution is the one that witnesses the send.
AnchorIsOwnWitness ==
    [][\A r \in resolution' :
          (\A x \in resolution : x.memory # r.memory \/ x.sequence # r.sequence)
              => r.anchor = now]_vars

=============================================================================
