# digital-life: TLA+ models, checks and proofs

This directory holds the verification development of *digital-life*: models of
the parts of the program whose correctness rests on ordering, crashes and
concurrent actors, the TLC configurations that check them, and TLAPS proofs of
the central results. Paths below are relative to the repository; `B/` stands for
`src/src-tauri/src/` and `A/` for `src/vita-agent/src/`.

Run a configuration with `tlc -config <run>.cfg <module>`, for example
`tlc -config VectorSyncShared.cfg MCVectorSync`; section 4 names the module of
each run. Check the proofs with `tlapm <module>.tla` for the modules of section 6.

## 1. The system

digital-life is a desktop application: a Rust backend (Tauri) with a SQLite
database and a LanceDB vector store, a Vue front end, and a sidecar agent process
(*vita-agent*). The backend keeps a person's "lives": conversations, confirmed
memories, emotions, relationships, goals, screen perceptions and capability
authorisations. Nearly every feature is written in the same style: an *authority*
table in SQLite, versioned or fenced rows, compare-and-set updates in immediate
transactions, append-only event logs, and external calls (a model provider,
LanceDB, Windows, the sidecar) between transactions.

### Inventory

| Component | State it keeps | Operations | Interacts with | What is hard, and what must hold | Modelled in |
|---|---|---|---|---|---|
| Memory revisions (`B/storage/memory_revision.rs`) | status, revision, sensitivity | confirm, edit, set sensitivity, delete | enqueues in the same transaction | every change leaves exactly one outbox row that aims at the current memory | `VectorSync`, `CandidateMemory` |
| Vector-sync outbox (`B/storage/vector_sync_outbox.rs`) | one row per memory: action, target, state, attempts, lease, claim epochs, send evidence; mutation clock; runtime lease | enqueue, claim with repair, reserve, witness, finalize, manual retry | worker, late-delete resolution, rebuild | crash between steps, lease expiry, takeover, one owner string twice; no replay, exclusive claims, nothing forgotten | `RetryPolicy`, `OutboxRow`, `VectorSync` |
| Fenced worker (`B/memory/vector_sync_worker.rs`) | a drain: cutoff, limit, claim, attempt token | drain, process one, classify failures, schedule retries | provider, LanceDB, outbox | guards before each boundary; late answers; budget and limits | `VectorSync` |
| Composition gate (`B/memory/vector_sync_stage_runtime.rs`) | a process-wide mutex | drain, rebuild, resolver entry points | worker, rebuild | one drain or rebuild per process; the resolver is outside the gate | `VectorSync`, `GenerationRebuild` |
| Late-delete resolution (`B/storage/late_delete_resolution.rs`, `B/memory/late_delete_resolution_runner.rs`) | resolution rows, their lease, ordinal and epoch | ensure, supersede, recover, claim, reserve, query, permit, delete, close | outbox, LanceDB | a delete of uncertain outcome is settled without ever deleting a newer vector | `LateDelete` |
| Generation rebuild (`B/storage/generation_rebuild.rs`, `B/memory/vector_generation_rebuild.rs`) | generations, job, items, catch-up attempts | register, snapshot, embed, catch up, promote, fail, cancel | outbox, resolution, LanceDB | cut-over while memories change; the new generation equals the eligible memories | `GenerationRebuild` |
| Candidate extraction (`B/storage/candidate_extraction.rs`, `…/llm_candidate_extraction.rs`) | a run per conversation revision with lease, token, snapshot | start, reload, extract, finalize, fail, renew, take over | model provider, conversation | one request per run, one batch per run, nothing from deleted messages | `CandidateExtraction` |
| Candidate memory and confirmation (`B/storage/candidate_memory.rs`, `B/memory/candidate_service/…`) | candidates, evidence, approval tokens | propose, edit, reject, expire, prepare, confirm, recover, cancel | memory, outbox | a token confirms what was shown, once, although calls overlap and lose answers | `CandidateMemory`, `Confirmation` |
| Screen perception, vision outbound (`B/perception/*`) | policies, session fence; slots for candidate, grant, review | arm, prepare, execute, settle, abandon | provider, settings | one consent for one picture, revocation at any moment | `VisionDelivery` |
| Capability authorisation (`B/capability/*`) | a revisioned row | activate, revoke | sidecar host | no use under an earlier revision | `VitaSession`, `DataRoot` |
| Vita sidecar host and agent (`B/vita_sidecar.rs`, `A/sidecar.rs`, `A/d29h7.rs`, `A/runtime_composition.rs`) | turn authority, confirmations, approvals, grants; turn task, tool call, router | start, confirm, cancel, stop, expire, retire | each other, by two pipes | several threads and processes, crashes, lost answers, cancellation races | `VitaSession` |
| Recovery journal, workspace capability (`A/recovery_journal.rs`, `A/d29h5.rs`) | journal and marker files | replace, reconcile, recover | file system, host authority | a crash at every write leaves a file whose state is told truly | `WorkspaceRecovery` |
| Autonomy (`B/autonomy`, `B/storage/autonomy.rs`) | policy, check-in intents, evaluations | tick, evaluate, replay, recover | goals, conversation | several callers, crash between creation and decision, a budget | `Autonomy` |
| Life intent (`B/storage/life_intent.rs`) | goals, plans, steps, actions, event ledger | create, transition, delete, replay | autonomy | revision conflicts, idempotent retries after a lost answer | `LifeIntent` |
| Upgrade coordinator, gate, writer fence, migrations (`B/storage/upgrade_*`, `migration.rs`) | schema version, fence triggers, mutex | open, upgrade, verify | processes of other binaries | a connection in the wrong moment, a crash at every step | `StorageUpgrade` |
| Data root and its move (`B/storage/location.rs`, `mod.rs`) | configuration, databases in roots | start, move, roll back | authority view | no acknowledged write lost | `DataRoot` |
| Conversation and prompt | turns | append, delete, compile, ask | extraction | deletions race with extraction | partly, `CandidateExtraction` |
| Retrieval, compensation and health, emotion, relationship, experience, enclave, capture and OCR, profiles and transport, body packages, front end | | | | sequential code, I/O or read paths | not modelled (section 7) |

PROJECT.json lists each component with its sources and status, and the hazards at
the lines where they bite.

## 2. Plan

The synchronisation of memories with the vector index carries the strongest
promises in the code (no replay of a paid request, no lost or resurrected
vector), is distributed over three stores and several processes, and is the
largest body of non-test code of its kind. It came first, and it is where the
proofs are.

1. Outbox, worker and drain with the abstract index. *Modelled; its invariants proved.*
2. Late-delete resolution composed with it. *Modelled; all its safety properties proved.*
3. Generation rebuild. *Modelled by itself and proved; the composition uses its summary `Promote`.*
4. Candidate extraction, candidate memory, confirmation. *Modelled and proved.*
5. Vision outbound pipeline. *Modelled and proved.*
6. Sidecar, turn protocol, capability row; recovery journal. *Modelled and proved; the enclave is left.*
7. Autonomy and life intent. *Modelled and proved; emotion and relationship are left.*
8. Upgrade coordinator, gate, writer fence; data root. *Modelled and proved.*

Every safety bundle of the runs is proved; section 6 says on which hypotheses.

## 3. The modules

**`RetryPolicy`** is the pure failure classifier: what is retryable, what is an
unknown provider result, the send evidence and the doubling retry delay. Error
classes are abstracted to "retryable" and "permanent"; the three values of
send safety are kept.

**`OutboxRow`** is one row of `memory_vector_sync_outbox`: its fields under the
source's names, the classifiers `generation_binding_phase` and
`attempt_identity_phase`, and each row-local transition the storage layer makes
(quarantine, recovery, convergence of exhausted budgets, claim, reservation,
witness, stale block, enqueue, manual retry). The scans of a claim transaction
are the composition `Repaired`.

**`VectorSync`** is the system: memories, mutation clock, outbox, resolutions,
runtime lease, active generation with its item table and LanceDB rows, the UTC
clock, and one drain per worker process.

| Action | Code |
|---|---|
| `ConfirmCandidate`, `UpdateConfirmed`, `SetSensitivity`, `DeletePermanently` | the memory mutations with `enqueue_in_transaction` and the supersession of resolutions |
| `StartDrain` | `start_fenced_vector_sync_drain` to the freeze of the retry cutoff |
| `ClaimRefused`, `ClaimOne` | the claim transaction: lease, repair of all rows, oldest candidate, claim |
| `ReadDocument`, `BlockTargetStale` | the document read and the stale-target block |
| `Reserve` | `reserve_fenced_attempt` |
| `CallEmbedding`, `EmbeddingReturns` | token guard and request; answer or error |
| `MarkWitness` | the Delete witness with its resolution |
| `CallLance`, `LanceReturns` | last guard and request; effect and answer |
| `FinalizeSuccess`, `FinalizeFailure` | the two finalisations |
| `Abort` | a crash, or a storage error that ends the drain |
| `RetryFailures` | the user's manual retry |
| `Promote` | the cut-over of a rebuild, by what its guards establish |
| `Tick` | the UTC clock |

Every SQLite transaction is one action. A call to the provider or to LanceDB is
two, so that mutations, expiries, takeovers and crashes fall between request and
answer. Where two guards follow each other with nothing in between but a
transaction that repeats the guard, the model keeps the second.

**`IndexSync`** is the promise: memories have a desired revision, an index has a
recorded one, mutations make a memory dirty, and a dirty memory is settled at
the revision desired *at that moment*, or everything is by a rebuild.

**`LateDelete`** composes `VectorSync` with the late-delete resolver. Its state is
the resolver's runtime lease, one pass per resolver and a history of the queries
and Deletes made for each mutation (`probes`); it shares the resolution table,
LanceDB, the clock and the active generation with `VectorSync`.

| Action | Code |
|---|---|
| `Acquire`, `Release` | the runtime lease of a pass |
| `RecoverExpired` | `recover_expired_late_delete_resolutions`, over all rows |
| `ClaimResolution` | `claim_one_late_delete_resolution`: the oldest candidate, or its end |
| `ReserveResolution` | one ordinal for the claim |
| `CallQuery`, `QueryReturns`, `SettleQuery` | token guard and exact query; answer; finalisation |
| `IssuePermit` | the durable `delete_started` boundary |
| `CallDelete`, `DeleteReturns`, `SettleDelete` | permit guard and conditional Delete; effect and answer; finalisation |
| `AbortPass` | a crash that leaves the lease, or a storage error that releases it |
| `PromoteUnderLease` | the cut-over, which holds the late-delete lease |

`LateNext` interleaves the passes with every step of `VectorSync`: the resolver's
entry point does not take the composition gate.

**`GenerationRebuild`** is the pipeline of a rebuild: registration of a job with
its candidate generation, the snapshot, stage C (one item after the other:
reserve, embed, write, metadata, finalise), stage D (materialise what changed
since, reserve, apply, advance, until nothing is behind), the check of the two
copies, and the promotion with the classification of a commit whose answer is
lost. `Mutate` and `Drain` are the memories and the bounded drain beside it,
`StorageFails`, `RebuildCrash` and `DeadlinePasses` what goes wrong, `Compensate`
and `Recover` how `run_vector_generation_rebuild_guarded` answers.

**`CandidateExtraction`** (with **`CandidateMemory`**, which it EXTENDS) is a run
of an extraction per revision of the conversation. A worker's `Trigger` reads the
run, `Start`, `TakeOver`, `ClaimDueRetry` or `RecoverExpired` claims it with a
fresh token, `Reload` reads the snapshot, `Extract` and `ExtractorReturns` are
the two halves of the provider call, `FinalizeRun` and `FailRun` end it. Turns are
appended (`AppendTurn`), and a user message (`DeleteMessage`), an answer
(`DeleteAnswer`) or everything (`DeleteConversation`) is deleted at any moment. Both
deletions of a message are `delete_conversation_message_governed`, which the code
has ready and no command calls yet (`B/storage/conversation.rs:351-353`).
`CandidateMemory` has the lifecycle transactions of candidates, guarded by the
revision the caller saw.

**`Confirmation`** (also over `CandidateMemory`) is the coordinator of approval
tokens: `BeginPrepare`/`ReconcileDue`/`InsertEntry` issue one, `BeginAttempt`
claims it with a lease, `ProbeRecovery`, `RereadCandidate` and `WriteD4` run
without a lock, `Finalize` settles the entry if the call is still the current
one. A `Fault` makes D-4 fail or panic before or after its commit.

**`Autonomy`** is a tick: each storage call of `run_trusted_autonomy_tick` and
`run_autonomy_tick_impl` is an action of a caller (`StartTick`,
`ReadFocusPolicy`, …, `SelectCandidate`, `CreateIntent`, `Evaluate`), since each
takes the storage lock for itself; policy, goals, conversations and the clock
change between them, and a process may die. The code "does not schedule work"
(`B/autonomy/runtime.rs:4`): neither autonomy nor the life intent has a production
caller yet (`B/lib.rs:44-52`). The models say what they owe to whoever calls them.

**`LifeIntent`** is the ledger: `Create…`, `Transition…` and `Delete…` for the
four kinds; a caller asks for a transition with an event identity and the
revision it saw, may lose the answer and asks again in the same words.

**`DataRoot`** is the location resolver and `migrate_location`: backup, rename,
configuration, reopening and the two steps of the rollback are actions, the
process may end between any two, a drive may be unplugged.

**`StorageUpgrade`** is `open_coordinated_storage_connection` for processes of
several binaries: mutex, inspections, `BEGIN IMMEDIATE`, the chain of schema
steps (each an operator on the database), commit, verification; `LegacyOpen` is a
binary that knows neither mutex nor fence, `Fault` a failure or death at any step.

**`VisionDelivery`** is the delivery of a picture: three threads over the slots
for candidate, grant and review. `Prepare…` is the capture, `Execute…`, `Issue…`,
`ClaimGrant`, `Commit`, `GuardReview`, `GuardBound` and `Send` the confirmed
delivery up to its last guard, then the settlement; the settings and `Abandon`
come from the main thread. An action is one critical section or one read.

**`VitaSession`** is Host and sidecar with the two pipes. On the Host: the
commands of the main thread, the reader's handlers (`HandleAuthorityEvaluate`,
`HandleConfirmationRequired`, `HandleIssueGrant`, `HandleRevalidateGrant`,
`HandleTurnState`, …), the retirement in its lock sections, the expiry thread. A
user's answer (`Decide`, `AnswerTaken`) and the request for one
(`HandleConfirmationRequired`, `AdmitConfirmation`) are two actions each, since both
functions take `turn_authority` in the middle and the session may be retired before.
In the sidecar: router, command loop, one task per turn, the tool calls, the
confirmation loop. The process of a tool call runs from `CallLaunch` to `CallExit`,
with the admission. Codex is external: it may call the tool while its turn is open.

**`WorkspaceRecovery`** is the journalled replacement of a file and its recovery:
each journal or marker file is created and completed in two steps, the file is
written in two, and the process may die after each; other programs edit and
rename; the host authority may be disabled.

**`MC…`** modules define the instances; **`…Proofs`** modules the theorems.

`MCStorage`, `MCConsent` and `MCBoundary` check several of these modules in one
run. The parts of such a run share no variable; a behaviour chooses its part at
the start and takes the steps of that part only, while the others keep one
initial state. The state graph is the disjoint union of the parts' graphs, so an
invariant holds in the run exactly if it holds of each part alone (and in the
initial states of the others), and a fairness condition that names its part says
what it says of the part alone.

### Abstractions

* A generation id and its authority epoch are one number; the target revision
  stands for the pair of revision and content hash.
* The autoincrement row id is left out; every predicate that compares it also
  compares the mutation sequence.
* Rows of the pre-012 schema (`failed`, `migration_disposition`) are left out:
  no current operation writes them.
* `MaxSequence` and `MaxEpoch` are the `i64` maxima of the code. They are small
  in the runs, and the refusals at the maximum are reached.
* The clock is a tick counter; the lease lasts `LeaseTicks`. `MaxNow` bounds it.
  `Abort` requires that a lease can still expire before `MaxNow`, so that the
  bound does not turn a crash into a lease that never expires.
* `calls` is a history variable: external calls per mutation.
* A LanceDB write takes effect when it returns or when its process dies. A write
  that reaches LanceDB later, from a process that was already fenced out, is
  only possible with several processes; SQLite cannot fence it, and the claim
  that the store agrees (`SettledStoreIsDesired`) is made for one process.
* Lease owners of the resolver are left out: each acquisition has its own fence,
  and every predicate that compares the owner also compares the fence.
* A resolver pass that would find nothing to recover or claim changes nothing but
  the fence and is left out (`Acquire`).
* A query of LanceDB sees one moment of the call, and the conditional Delete is
  atomic, as the store's mutation lock makes it within one process. The table of
  a retired generation is not tracked: a pass still bound to it may be told
  anything (`Tracked`).
* The rebuild's acquisition of the late-delete lease, its promotion and the
  release are one step; a crash in between leaves the lease until it expires. An
  acquisition that does not lead to a promotion only delays passes.
* `GenerationRebuild`: one process and an always granted lease (a lease that ran
  out is a fault); a document is its revision; the store is a map per generation.
  `VectorSync` sees only `Promote`, by what its guards establish.
* `CandidateMemory`: a content stands for kind, text and fingerprint; an id is
  used once. `Confirmation`: a token is its own request id; screening and the
  sensitivity grant refuse a call and add no state.
* `CandidateExtraction`: evidence comes from extraction only, which selects user
  messages; the service that adds evidence by hand has no production caller.
* `Autonomy`: minutes instead of seconds; SQLite's clock does not go back; ready
  intents are not consumed, since no code does; `delete_goal`, which would erase
  ready events with the goal, has no caller and is left out. `MaxCalls` does not
  limit the retry of a pending tick.
* `LifeIntent`: titles and summaries are a detail; `Reused` is FALSE in the runs:
  were an identity used again after a deletion, a late retry could apply to the
  new entity.
* `DataRoot`: a database is the set of writes in it and the capability row. The
  temporary file is the process's own. The state lock is held during a move, so
  the process writes nothing meanwhile. Vectors and body packages are not copied
  by the code and not modelled.
* `StorageUpgrade`: the upgrade is one transaction and one action; an inspection
  is one moment (`Clear` says who is connected then, and nothing of later). At
  most one active generation, so that schema 17 is not refused for that reason.
* `VisionDelivery`: one life; the synchronous commands are serial on the main
  thread; picture, encoding and destination parsing are left out.
* `VitaSession`: a call carries its whole process binding; the phases of a turn
  that no handler tells apart are one; credential handler, handshake, the
  gateway's HTTP and the shutdown's wait are left out; the lock sections of
  `handle_cancel_turn` that nothing can observe between are one; the bridge's
  generation is "current or not"; a process is started with the last revalidation,
  and what supervision does with it is left out but for its end, which its deadline
  bounds (`A/d29h7.rs:3250-3285`). `Troubles` lists which combinations of faults a
  behaviour may meet.
* `WorkspaceRecovery`: a file object is its identity; `scan_transactions` reads
  the directory in one step; `d29h5.rs` is installed by the tests and the
  integration boundary only.

## 4. The runs

| Run (module) | Instance | Checks |
|---|---|---|
| `VectorSyncShared` (`MCVectorSync`) | 2 processes with the same owner string, 1 memory, 2 mutations, 2 epochs, 2 attempts, a cut-over, 2-tick leases | `TypeOK`, `NoReplay`, `SentIsRecorded`, `AttemptsArePaid`, `NeverMalformed`, `ClaimIsExclusive`, `UnknownDeleteHasResolution`, `OpenResolutionIsLatest`, `SettledItemIsDesired`, `EvidenceIsMonotone`, `ImplementsIndex` |
| `VectorSyncLive` (`MCVectorSync`) | 2 processes with owners of their own, 1 mutation, 2 attempts, 4 epochs, 2 ticks, `LiveSpec` | `DueWorkIsServed` |
| `VectorSyncRetry`, `VectorSyncAnchor` (`MCVectorSync`) | 1 process | violated: section 5 |
| `LateDeleteNewer` (`MCLateDelete`) | 1 process, 1 resolver, 3 mutations, 1 ordinal | `TargetMatchesMemory`, `ResolvedMeansGone`, `SettledStoreIsDesired`, `StaleReadNeverBlocks`, `DesiredVectorSurvives` |
| `LateDeletePasses` (`MCLateDelete`) | 1 process, 2 resolvers, 2 ordinals, a failing first pass, a cut-over | `LateTypeOK`, `ProbesArePaid`, `ResolutionsOnlyAdvance` |
| `LateDeleteLive` (`MCLateDelete`) | 1 process, 1 resolver, `LateLiveSpec` | `ResolutionIsServed` |
| `StorageSafety` (`MCStorage`) | six parts: 3 roots, 4 binaries, 2 memories under a rebuild, 2 extraction workers, 2 tick callers, 2 ledger callers | `DataRootSafe`, `UpgradeSafe`, `RebuildSafe`, `ExtractionSafe`, `AutonomySafe`, `LifeIntentSafe`, `StorageSteps` |
| `StorageLive` (`MCStorage`) | five parts under `FairSpec`; a rebuild with 2 mutations | `UpgradeCompletes`, `RebuildEnds`, `CurrentRunEnds`, `TicksSettle` |
| `ConsentSafety` (`MCConsent`) | 2 replacements in 2 processes, 2 deliveries, 2 confirm callers | `RecoverySafe`, `VisionSafe`, `ConfirmSafe`, `ConsentSteps` |
| `VitaSession` (`MCVitaSession`) | 2 turns, 1 call each, 3 revisions, 1 cancel or stop, command channel of 2 | `SessionSound` |
| `BoundaryLive` (`MCBoundary`) | 1 turn; a replacement, a delivery, a token; `FairSpec` | `SessionProgress`, `RecoveryProgress`, `ConsentEnds` |

### What the runs show

*Synchronisation.* Nothing is embedded twice unless every earlier request is
known not to have left, and nothing written twice (`NoReplay`); the row never
forgets a send (`SentIsRecorded`, `EvidenceIsMonotone`); requests are covered by
attempts and these by the budget; the classifiers that quarantine rows never
fire on rows the code makes (`NeverMalformed`); two processes never both pass the
claim guard, even under one owner string and one runtime fence
(`ClaimIsExclusive`); a Delete that may have been sent has its resolution; a
memory without a row is on record as it should be, whatever crashed
(`SettledItemIsDesired`); all of it implements `IndexSync`. `VectorSyncLive`: if the
user keeps asking for drains, pending and orphaned rows, and due retries proven
unsent, are served.

*Late deletes.* A resolution settled as absent or deleted is right, and no late
answer or conditional Delete takes away a vector a newer mutation put there
(`ResolvedMeansGone`, `DesiredVectorSurvives`, `SettledStoreIsDesired`). Each
ordinal pays for one query and one Delete. A resolution that keeps being offered
to passes is settled or handed to a rebuild.

*Storage.* `AckedSurvive` and `NothingErased`: no acknowledged write is lost to a
move, its rollback or a fallback; `FailedIsUndone`. An open process works on its
own schema, no upgrade commits over an earlier connection, each life has its
state rows. After any end of a rebuild the active generation answers for every
memory (`IndexKeepsUp`). One provider request and one batch per extraction run,
no candidate without its message. Callers of a tick are told one decision and
stay within the user's budget. The ledger explains every row, and a caller who
asks again is told the truth about the first attempt. `StorageLive` shows that
nothing of this stands still for want of a step of its own: an upgrade completes, a
rebuild ends, a run of the current revision leaves processing and a pending check-in
is decided, each if somebody outside asks again (see Fairness).

*Consent.* A torn file always has an unresolved transaction whose preimage can be
restored, and the caller is told the truth (`RecoverySafe`); writes destroy only
content the journal or the user named. A picture leaves under one consent that
held when the last guard began, and never after a recorded answer. A token
confirms the content it showed, once.

*Session.* A process starts only under a confirmation of that call, turn and
current revision of the capability; confirmations and grants do not outlive their
turn; expiry ends only what is late; once the reader has retired the session it
holds no confirmation and no grant, and after a stop no approval either; the
admission is given back and a dead sidecar ends the session.

### Bounds

Two mutations let a newer one overtake a claim in every phase; two epochs allow
claim, crash, recovery, the other worker's claim and the refusal at the maximum;
two attempts a retry and an exhausted budget; a lease of two ticks lets the clock
advance under a live lease and past it. In `VectorSyncLive` `MaxEpoch` must exceed
the number of takeovers the clock allows, or the refusal at the `i64` maximum of
the fence, real but out of reach in practice, would starve the claim.

The `LateDelete` runs keep one process and one memory, since the interleavings
asked about are those between resolver and synchronisation: three mutations let
an upsert follow the uncertain Delete while the resolver's query or Delete is
under way, two ordinals let a pass fail and a second one take over. The clock of
these runs starts at 1 and stops at 2, so a resolution's window of two ticks never
ends in them. Checks too long to keep as runs have `MaxNow = 3`, where it ends during
a pass too: `LateDeleteNewer` (10.1 million states) and `LateDeleteLive` (2.0 million)
hold there, and the theorems of section 6 hold for any window and clock. The two safety
runs drop the call history, which nothing there reads, with a `VIEW`.

`StorageSafety`: three roots, since the order of the rollback only matters when
the snapshot's root is neither the default nor the target; one binary without
mutex, one in the middle of the chain and two current ones; two memories, so that
one can change while the other is processed; two callers wherever callers
interleave, and one lost answer, fault or crash, so that a retry meets a changed
state. In `StorageLive` a rebuild meets two mutations of one memory: one before its
snapshot, so that there is something to embed, and one during it, so that the
catch-up has work and can fall behind again.
`ConsentSafety`: the scan limit of two entries makes the recovery directory full; it
also refuses a second replacement after a first has left its files, so the two of
this run overlap or meet after a failure (the larger checks of section 6 have room).
In `BoundaryLive` asked recoveries fail at most once per edit, fault and crash, so
`MaxAsks = 5` never stops the user. `VitaSession`: two turns let everything of the
first arrive in the second; three revisions are off-and-on-again; the sets of
`Troubles` keep the combinations that interact (a crash with a stop and a denial,
a slow call with both, a lapsed deadline with a denial, the 300 s timeout).

Memories, callers, contents and the like are symmetric where a run says so; no
run with a liveness property uses symmetry.

### Fairness

Fairness is assumed only of what goes on by itself: a call, a transaction or a
thread that has begun, and time. What somebody outside has to ask for again is the
antecedent of the property that needs it.

`LiveSpec` assumes that time passes and that a running drain makes its next step
(each external call is bounded by a timeout); `LateLiveSpec` the same of a pass.
The `FairSpec` of `MCStorage` assumes that the opening and closing of a database, a
rebuild, an extraction command and a call of a tick run on, and that clock and
deadline move. None of them assumes anything of mutations, manual retries or
cut-overs, nor of crashes.

| Property | Antecedent | Why the code does not give it |
|---|---|---|
| `DueWorkIsServed`, `ScheduledRetryIsServed` | `DrainsAreRequested` | a drain is one confirmed click, without polling (`src/src/settings/model/MemoryVectorSyncPanel.vue:46-66,84-85`, `memoryVectorSyncController.ts:32-39,138-149`) |
| `ResolutionIsServed` | passes are requested | nothing in the application calls `run_late_delete_resolution_once` by itself |
| `UpgradeCompletes` | `NewestIsRestarted` | the user starts applications |
| `RebuildEnds` | `ProviderAnswers` | stage C asks again without a limit while a request is definitely not sent |
| `CurrentRunEnds` | `ExtractionIsTriggered` | a button of the chat window (`src/src/chat/ChatView.vue:471,842`; "manual trigger", `B/memory/deterministic_candidate_extraction.rs:74`) |
| `PendingIsDecided` of `TicksSettle` | `TicksAreRepeated` | no production caller |

The antecedents are strong fairness where crashes and failures disable the step in
between (`NewestIsRestarted`, `ProviderAnswers`, `TicksAreRepeated`), else weak.

`MCBoundary`: threads, tasks and loops that can move do, a supervised process ends
(its deadline terminates it), and deadlines come; the main thread finishes the
command it serves; a user who is offered an abandonment or a recovery takes it in
the end (strong for the abandonment, which a running delivery disables). Of Codex
and of a user's confirmation nothing is assumed.

Each passing property has a mutant in PROJECT.json: a plausible mistake in a
mapped definition under which the run fails.

## 5. What the checks found

1. **A retry that is scheduled and never taken** (`VectorSyncRetry`). An upsert
   that fails with an answered, retryable error (408, 429, 5xx, a recoverable
   LanceDB error) goes to `retry_wait` with `possibly_sent` evidence and is
   reported as `retry_scheduled`. The claim query excludes every possibly-sent
   upsert, recovery looks only at `processing` rows, and the manual retry skips
   unknown sends; the row waits until the memory changes or a generation is
   rebuilt. `DueWorkIsServed` has the part that does hold.
2. **A witness time inherited from an earlier Delete** (`VectorSyncAnchor`). The
   enqueue's `ON CONFLICT` update keeps `delete_witness_at`, and the witness
   update keeps an existing value. After delete, upsert, delete, the resolution
   of the third mutation is anchored at the first one's send.

### Observations

These contradict nothing the repository says, so they are not findings; they
bound what the properties above claim.

* *Synchronisation*: a row blocked as Delete-unknown stays blocked after its
  resolution was settled. A `waiting_rebuild` resolution whose row is gone is
  closed by no promotion.
* *Rebuild*: stage C does not look at the deadline while embeddings are
  definitely not sent. A catch-up attempt left in a started phase is not reserved
  again, so the recovery branches of `process_catchup_item` are not reached and
  stage D loops to the deadline. A mutation between write and metadata fails the
  job. A nonterminal job whose request id is lost blocks later rebuilds.
* *Confirmation*: with two faults an expired token can turn out committed
  (`ExpiredIsUncommitted` is claimed for one). A cancelled token whose earlier
  call still runs may still confirm.
* *Extraction*: `retry_wait` and takeover of deterministic runs have no
  production caller; they are modelled as triggers.
* *Vision*: a status command that expires the review between claim and commit
  leaves a BOUND grant without an owner until restart. A body rejected after its
  head was received is a transport error without status, so a retry sends again.
* *Recovery*: a recovery holds no admission; beside a live replacement both can
  create a terminal marker, and `TornIsUnresolved` fails. In the runs the
  user asks once the replacement has ended or its process has (`LiveRecovery`). At the
  scan limit every later scan is refused.
* *Autonomy*: ready intents are never consumed, so a ready goal blocks for ever
  and, with more than eight goals, can starve the rest. Two different ticks of
  two callers can give one goal two check-ins (`OneOpenPerGoal` is claimed for
  one caller).
* *Life intent*: plans may be created and moved under closed goals.
* *Session*: a denial, an expiry or a confirmation while the capability is off is
  answered with revision 0, and the grant request that follows is malformed: the
  session is retired. A cancel that crosses the completion is never acknowledged
  and leaves the Host cancelling. A late tool call of a cancelled Codex turn runs
  under the next Host turn. `active_turn_id` may outlive a closed session. An answer that
  was taken just before the reader retired the session may still leave an approval,
  which nothing can use; a confirmation request that passed the `closed` check just
  before a stop may become pending until the reader retires the session too.
* *Data root*: the authority view keeps reading the old root after a move. If the
  configuration cannot be restored after a failed reopening, the process writes
  a root the next start does not open. A crash between rename and configuration
  leaves a database that later moves refuse, and so does the retained original on
  the way back.
* *Upgrade*: an inspection says nothing of who connects afterwards;
  `NobodySinceBegin` is what the final one gives. Deletes of unknown outcome
  without a claim identity refuse schema 16.

## 6. What is proved

The theorems hold for every value of the constants that satisfies the named
assumptions: any sets of memories, workers, owners and resolvers, any limits.

| Module | Theorems | State |
|---|---|---|
| `VectorSyncProofs` | `TypeCorrect`, `TargetsAreCurrent`, `NothingIsForgotten`, `IndexRefinement`; `SyncCorrect`; `NothingIsReplayed`, `SendsAreRecorded`, `RequestsArePaid`, `RowsAreWellFormed`, `ClaimsAreExclusive`, `UnknownDeletesAreResolvable`, `OpenResolutionsAreLatest`, `StaleReadsBlockNothing`, `EvidenceIsKept` | `TypeOK`, `TargetMatchesMemory`, `SettledItemIsDesired`, `ImplementsIndex`; `SyncInv`; `NoReplay`, `SentIsRecorded`, `AttemptsArePaid`, `NeverMalformed`, `ClaimIsExclusive`, `UnknownDeleteHasResolution`, `OpenResolutionIsLatest`, `StaleReadNeverBlocks`, `[][…]` of `EvidenceIsMonotone` |
| `LateDeleteProofs` | `LateTypeCorrect`, `EveryProbeIsPaid`, `ResolutionsAdvance`, `DesiredVectorsSurvive`; `NothingIsForgottenBesideResolver`, `IndexRefinementBesideResolver`, `SyncSafeBesideResolver`; for one process, `ResolvedVectorsAreGone`, `SettledStoreTellsTheTruth` | `LateTypeOK`, `ProbesArePaid`, `ResolutionsOnlyAdvance`, `DesiredVectorSurvives`; `SettledItemIsDesired`, `ImplementsIndex`, the nine invariants of the synchronisation; `ResolvedMeansGone`, `SettledStoreIsDesired` |
| `RebuildProofs` | `RebuildKeepsIndex`, `SourceStays`; `NeverAsksAgainHolds`, `GateOutlivesCandidateHolds`, `OverIsFinalHolds` | `RebuildSafe`, `SourceStaysActive`; the action properties of the rebuild |
| `CandidateProofs` | lemmas about the tables of candidates, shared by the next two | |
| `ExtractionProofs` | `ExtractedOnce`, `RunsOnlyAdvanceHolds` | `ExtractionSafe`, `RunsOnlyAdvance` |
| `ConfirmationProofs` | `ApprovalIsHonoured`; `RegistryTellsTheTruth` | the parts of `ConfirmSafe` but `ExpiredIsUncommitted`, for any faults; `ConfirmSafe`, if `MaxFaults <= 1` |
| `EffectProofs` | `SentAsConfirmed`, `NoResendHolds`; `AnswersMatchDisk`; with one recovery executor, `TornFilesAreRecoverable`, `OverwritesOnlyNamedHolds`; `SessionIsSound` | `VisionSafe`, `NoResendAfterObserved`; `RecoveryTypeOK`, `OneActivePerTarget`, `OutcomeIsTruthful`; `RecoverySafe`, `OverwritesOnlyNamed`; `SessionSound` |
| `StorageProofs` | `NoWriteIsLost`, `FailedMoveIsUndone`; `DatabaseKeepsItsPromise`, `NobodySinceBeginHolds`; `LedgerIsTruthful`, `ClosedEntitiesStayClosed`; `BudgetKept` | `DataRootSafe`, `FailedIsUndone`; `UpgradeSafe`, `NobodySinceBegin`; `LifeIntentSafe`, `ClosedStaysClosed`; `AutonomySafe` |

### The refinement

`SettledItemIsDesired` is not inductive: the step that removes a row records the
*claim's* target. The inductive invariant `Intents` joins it with `TypeOK` and
`TargetMatchesMemory`; the token guard of `FinalizeSuccess` then equates the
claim's target with the row's, and the row's with the memory's. One lemma per
action shows that it preserves `Intents` and that it is a step of the abstract
index or a stutter; `NextStep` joins them.

### The safety of the synchronisation

None of the properties about calls and claims is inductive: that a mutation was
sent at most so often depends on what its row shows, on which drains still hold a
claim of it and on what they are about to send. `SyncInv` is the conjunction of

* `Intents`, from above;
* `RowsSound`: every row is one the transitions can make (`RowSound`). Beside the
  budget and the order of the epochs: while a row is in processing, its marked
  epoch tells whether a request of the present claim may have left;
* `NamesSound`: a mutation that a row, a claim or a resolution speaks of has been
  enqueued, and for one memory, so that the next enqueue starts with an empty
  history;
* `ClaimsSound`: what a drain knows of its row while the row is still of its
  mutation (`ClaimSound`), and that an epoch of a mutation is claimed once
  (`Twins`). The second part is what excludes two processes with one owner string
  under one runtime fence, where owner and fence of the row say nothing;
* `CallsSound`: the history of calls fits the rows and the drains. For a drain
  whose reservation is the latest the row shows (`Matched`), nothing of the
  mutation is known to have left before its request, and nothing was written
  before its write (`AttemptSound`);
* `ResolutionsSound`: a mutation has one resolution, an unknown Delete has its own,
  and only the latest mutation of a memory has an open one.

An action of `VectorSync` changes several of these at once, so the proof goes
through a middle layer: nine *kinds* of step that say of a step only what the
invariant reads (`Quiet`, `Claims`, `Reserves`, `Embeds`, `EmbeddingEnds`,
`Witnesses`, `Writes`, `Fails`, `Enqueues`). `StepKinds` shows that every action
is of some kind, from the lemmas about the transitions of a row; then each kind
is shown part by part to preserve the invariant, and the properties follow. TLC checked `SyncInv` as an invariant and `[][Kinds]_vars` as
an action property on the instance of `VectorSyncShared` (1.9 million states)
before they were proved.

### The composition with the resolver

`ProbesArePaid` is not inductive: that a query is still covered depends on who
else may hold the same ordinal. The invariant `Paid` adds that rows and
resolutions carry sequences the clock has issued, at most one resolution per
sequence (`RowsIssued`, `TableIssued`); that a mutation without a resolution was
never probed (`Unprobed`); that a pass whose epoch and ordinal are still those of
the row has not spent that ordinal, once before its query and once before its
Delete (`PassPaid`); and that two passes of one resolution have different epochs
(`PassesApart`), since each claim increments the epoch. The steps of the
synchronisation do not touch epochs, ordinals or passes: the lemma `Carried`
shows once that any step of that shape keeps `Paid`, and `SyncTable` that each
step of `VectorSync` has it. The steps of a pass get one lemma each, which also
shows that the pass is invisible to memories, rows and items (`Internal`); with
`Intents` this gives `NothingIsForgottenBesideResolver` and
`IndexRefinementBesideResolver`. The same lemmas show that a pass keeps `SyncInv`
(`PassSafe`), so all the invariants of the synchronisation hold beside it.

`Advances` says what a resolution may become in one step, `TableAdvances` that
every resolution does; `ResolutionsAdvance` follows.

`DesiredVectorSurvives` needs to know what a pass saw and when. The invariant
`Seen` says that no vector, and no revision a drain is about to write, is newer
than its memory (`VectorsOrdered`, `ClaimsOrdered`); that an open resolution
belongs to a memory that must have no vector (`ResolutionsAimed`); and that the
revision a pass saw is one of the memory's, and from the permit on not the desired
one (`SightSound`). The permit is what carries the proof: it is issued while the
resolution is open, hence before any newer mutation, and a revision that is not
desired is never desired again (`NeverDesiredAgain`), so a Delete conditional on
it cannot hurt, however late. This holds for any number of processes and passes.

What the *store* holds is only claimed for one process (`OneProcess`, which the
application's gate provides while a single process runs; the assumption is in the
statements). `Lone` adds that a resolution that found its vector gone, or is about
to say so, is right as long as its Delete stands (`GoneSound`), and that a drain
about to write a vector writes to the active generation for a row without a
resolution, while what it wrote stays unless it is no longer desired
(`WriterSound`). With two processes `WriterSound` fails for the reason given under
the abstractions: SQLite cannot fence a write that LanceDB gets late. TLC checked
`Seen` and `Lone` on the instance of `LateDeleteNewer` (1.8 million states) and on
one of `LateDeletePasses` with two generations before they were proved.

### The ledger of life intents

`LedgerExplainsRow` counts the events of an entity, and the answer to a repeated
request is read from the ledger, so `LedgerInv` joins both with what ties them to
the requests that were applied (`LedgerIsApplied`: an event is there exactly if
its request was applied and its entity exists, with the same evidence) and with
the finiteness of an entity's events (`LedgerIsFinite`). `LedgerIsTruthful`
assumes `~Reused`: no identity is taken for a second entity after a deletion. TLC
checked `LedgerInv` on the instance of `StorageSafety` (5.8 million states).

### The data root

`DataRootSafe` promises something of a healthy installation and something weaker
of every other. `RootInv` says where a move is (`MoveSound`: whether the target
is empty, holds the copy or is what the configuration names, at each step) and
that, while every configuration could be restored and no drive was unplugged, the
root the next start opens has every acknowledged write (`HomeHasAll`). It uses
`NoDatabaseAssumption`: the value for "no file" is not a database.

### Opening and upgrading

`UpgradeInv` says that the database is sound for its version (`SoundDatabase`:
fences, isolated rows, state rows, resolutions), who holds mutex and write lock
(`OpeningSound`), and that a process about to migrate is alone but for legacy
binaries that have come since (`UpgradeAlone`). The chain of schema steps is a
recursive function over versions: `ChainExists` shows that the function is
defined, `VersionInduction` is the induction over the finite set of versions, and
`LinkSound` shows that each link keeps a database sound; `UpgradedSound` is their
result. The proof needed the guard `~Legacy(p)` in `Retry`, which the instance of
the runs never misses: there the newest binary is never a legacy one.

### Tokens and the memories confirmed with them

`ConfirmInv` ties three things together: the tables (`CandidatesSound`), the
registry with its callers (`TokensSound`, `CallersSound`) and what was shown.
`ShownSound` is the heart of it: a candidate that is still at the revision a token
was prepared with has the content that was shown, because every edit raises the
revision; so the revision guard of D-4 is a guard on the content. `FreshSound` says
that a candidate has at most one call about to report it as fresh, and none once
that was done; `TruthSound` that a call with a success, or a consumed token, has a
commit; `BudgetSound` that the D-4 transactions entered, and the calls that still
may enter one, are covered by the attempts of the entry.

`ExpiredIsUncommitted` needs the bound on faults (see the observations).
`OneFaultInv` follows the one answer that may be lost. Before the fault no token is
in recovery and no caller works for an issued or expired token (`NoFaultYet`).
A commit that no call is about to tell (`Silent`) is the one with the lost answer
(`Lost`): its token is in flight, in recovery or invalidated, and none of its
calls is about to conclude that nothing was committed (`CommitIsKnown`). TLC
checked `ConfirmInv` and `OneFaultInv` on an instance with two tokens, two callers
and one fault (406 512 states) before they were proved.

### The rebuild

That a promotion may make the candidate the active generation rests on what was
checked several transactions earlier. `RebuildInv` keeps: every row stands for the
latest mutation of its memory (`RowsCurrent`); at most one job is alive, its source
is the active generation and its candidate is not (`AuthoritySound`); an item has
the row it was made for and a phase that fits its state (`ItemSound`); and at each
step of the pipeline the item in hand has the phase of that step, with no call for
it whose answer is open (`RunFits`, `OpenSound`). The last two make
`NeverAsksAgain` a property of every step. `IndexKeepsUp` survives the cut-over because
the promotion compares the recorded items with what is desired in its transaction,
and `RunFits` keeps LanceDB's copy equal to the items since the check of the two.

### Extraction

`NeverSentTwice` compares counters of a run, so `ExtractionInv` says who may still
send: a run was sent once, or one worker holds its current token and has not sent
(`SendingSound`), and the batch of a run was ingested exactly if the run completed
(`IngestingSound`). Tokens are never issued again, so a worker whose run was taken
over, invalidated or deleted fails at the token guard. `EvidenceSound` is what the
deletion of messages has to keep. `CandidateProofs` has what the candidate tables
need for this and for the tokens.

### Vision

The executing thread reads the two policies, the fence and the slot one after the
other, several times, while anything else may change them. `Seen(f, r)` says of
what it has seen that, if fence and revision are still the ones noted, consent still
stands; both only grow, so a later reading that agrees vouches for the earlier ones.
`VisionInv` gives each of the threads and slots its part: `PrepareSound` and
`ExecuteSound` (what each step has established), `UncommittedSound` and
`CommittedSound` (before the commit the review still waits and nothing was sent for
it; after it the review is the thread's own), `GuardSound` (a last guard that began
without consent meets a reading that stops it), `SentSound` and `ObservedSound` (the
history of requests). TLC checked `VisionInv` on an instance of
3.1 million states.

### The recovery journal

Two invariants, because the promises differ in what they need. `RecoveryInv` holds
for any number of executors and also while replacements are alive (`TxSound`,
`RecSound`: which records and markers each step has written; `OpenAlone`,
`MarkedAlone`: one unresolved replacement per target, one executor about to mark
it). It gives `AnswersMatchDisk`: the caller's answer stays true of the journal and
no target has two unresolved replacements.

What is *in* the file is another matter. `RestoreInv` adds what worker and executor
know of the bytes (`BytesRow`, `RestoreSound`) and that a torn file has a started,
unrecovered replacement with a whole preimage (`TornSound`). It needs `OneRecovery`:
recovery is asked for replacements that have ended, by one executor. The hypothesis
is not idle. With two executors TLC finds `OverwritesOnlyNamed` and
`TornIsUnresolved` violated: both open the same transaction, the file is edited, one
marks the transaction recovered, and the other, which read the file after the edit,
restores on top of it. In the repository `H5RecoveryExecutor::recover` has no
production caller, only the tests of `A/d29h5.rs` and `A/d29h6.rs`, each of which
runs one executor; whoever wires it to a command has to keep it that way. The
instance of `ConsentSafety` has `LiveRecovery = FALSE` and one executor. TLC checked
`RecoveryInv` with two live executors and a scan limit of eight (3.5 million states)
and `RestoreInv` with one (0.96 million).

### The session

`SessionSound` speaks of the Host's two threads, its expiry, two pipes, a bounded
command queue and the threads of the sidecar; `SessionIsSound` shows it for any
number of turns, calls, policy revisions and cancellations, any queue and any
troubles. `SessionInv` has four parts.

* `SessionTyped`: what is in which variable and pipe, and that one confirmation is
  pending, one ticket waits for the expiry thread, one call has the admission and
  one waits for the confirmation loop.
* `EvidenceSound`, for what the Host holds: approvals and grants are confirmations
  of the user; a thread on its way through the retirement, which leaves the lock
  between its steps, still finds true what it established at the one before
  (`Retiring`); what the expiry thread has in hand is late.
* `TurnsOrdered`, for the way of a turn. A turn is `Untold`, then its start is on
  the way (`Starting`: in the pipe or in the command queue), then its task has not
  reported (`Unreported`), then its end is on the way back (`Ending`).
  `TurnSound(t)` says that these exclude each other and that from the second to
  the third the turn is still the Host's active one. So the Host, which takes the
  next turn only when it is idle, has heard of the end of the last one, and the
  sidecar is never busy (`NeverBusy`); and a task whose cancellation is
  acknowledged has nothing left to report (`AcknowledgedMeansEnded`).
* `ShownSoon`: while a turn is active, its start or a report about it is under way,
  or the reader is about to show it, or it is shown. `WindowShowsActiveTurn` is the
  case where nothing is under way; the property alone is not inductive, because it
  says nothing of the moments at which both threads write `active_turn_id`.

Pipes are sequences. The proof first states which frames can be in a pipe, and
what taking, sending and dropping frames changes (`In`, `Startless`, `OnceStart`);
each step then moves one turn or one call at most one leg, and a frame lemma covers
the turns it does not move. TLC checked `SessionInv` on the instance of
`VitaSession` (4.0 million states) before it was proved.

### Autonomy

`ReadyWithinBudget` counts the ready decisions in the order in which they were made;
the evaluation counts rows of intents, whose time it may itself move. `AutonomyInv`
ties each ready decision to an intent of its own that still says when it was made
(`ReadiesSound`), each decided intent to its evaluation event (`IntentsSound`), and
what a caller carries or was told to the intent it is about (`CallsSound`,
`AnswersSound`). The proof needs `Quiet <= MaxNow` (`AutonomyAssumption`): the
clock starts at `Quiet`, which the bound has to admit.

### Changes the proofs made to the models

`StorageFails` of `GenerationRebuild` and two operators of `WorkspaceRecovery` had
`CASE` arms that overlap, whose value TLA+ leaves open; they are now nested
conditionals in the order of the code. Earlier, `Retry` of `StorageUpgrade` got the
guard `~Legacy(p)`, and `NoDatabaseAssumption` and `Quiet <= MaxNow` were named.

### Only model-checked

Liveness and anything with `ENABLED` are outside the prover's fragment
(`DueWorkIsServed`, `ScheduledRetryIsServed`, `ResolutionIsServed`,
`SessionProgress`, `RecoveryProgress`, `ConsentEnds`, `UpgradeCompletes`,
`RebuildEnds`, `CurrentRunEnds`, `TicksSettle`), and so is what recursive
definitions compute for every input. `ConfirmSafe` for more than one fault
and `OneOpenPerGoal` have no proof either.

## 7. Not modelled

*Retrieval, compensation and health* read the stores, or enqueue through the
modelled enqueue. *Emotion, relationship and experience* are versioned rows with
event logs of the shape of `LifeIntent`. *Screen capture, OCR, transport, body
packages, the front end* are I/O or sequential code with little state;
*migrations* are data definition except for the chain `StorageUpgrade` follows.
The *execution enclave* starts and supervises an application server by Windows
calls. Modules of the agent that no production registry installs (staged proofs
and fixtures, among them the largest files of `A/`) are left out.

The map covers 7.8 % of the lines of the Rust sources, their tests included. Most of
the rest is test code inside the source files, the staged proofs of the agent, text and SQL
assembly, Windows bindings and the front end: code without a protocol, of which a
model would only repeat the text. Within the mapped files the parts that carry
state across transactions, threads or processes are covered.
