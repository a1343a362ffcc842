-------------------------- MODULE GenerationRebuild --------------------------
(***************************************************************************)
(* Rebuild of the vector index into a new generation, and the cut-over.    *)
(* C copies a snapshot of the eligible memories into the candidate; D      *)
(* repeats the outbox rows written since until nothing is behind, checks   *)
(* the two copies and promotes the candidate in one transaction.  Memories *)
(* change meanwhile; the bounded drain is kept out by the composition gate *)
(* while the process lives, and no longer after a crash.                   *)
(*                                                                         *)
(* One process, so the lease, whose owner is the request, is always        *)
(* granted; a lease that ran out is one of the faults.  A job and its      *)
(* candidate generation bear the name of their request.  The document of a *)
(* memory is the sequence of the mutation that wrote it, 0 when the memory *)
(* is not eligible.  Documents, hashes, epochs and store witnesses are     *)
(* left out, late-delete resolutions are in LateDelete.                    *)
(***************************************************************************)
EXTENDS Naturals, FiniteSets

CONSTANTS
    Memories,
    RebuildRequests,     \* request ids, in production one per click on rebuild
    Original,     \* the generation that may be active at first
    Nothing,      \* no active generation
    MaxRebuildAttempts,  \* GENERATION_REBUILD_MAX_ATTEMPTS (5 in the code)
    MaxClock,     \* bound on mutations
    MaxRebuildCrashes,   \* bound on crashes
    MaxStorageFaults     \* bound on storage errors

ASSUME RebuildAssumption ==
    /\ Original \notin RebuildRequests /\ Nothing \notin RebuildRequests \cup {Original}
    /\ MaxRebuildAttempts \in Nat \ {0}
    /\ {MaxClock, MaxRebuildCrashes, MaxStorageFaults} \subseteq Nat

Generations == RebuildRequests \cup {Original}
Mutations == 0..MaxClock

VARIABLES
    desired,     \* the eligible document of each memory
    clock,       \* memory_vector_sync_mutation_clock
    outbox,      \* the coalesced outbox row of each memory; no row when id = 0
    active,      \* memory_vector_generation_authority
    generation,  \* memory_vector_generation.state
    items,       \* memory_vector_generation_item
    store,       \* LanceDB, by generation
    job,         \* memory_vector_generation_rebuild_job
    work,        \* its snapshot items and catch-up items
    resolved,    \* its outbox resolutions
    rebuildRun,         \* what the process is doing; it holds the gate unless idle
    rebuildCrashes,
    faults,
    open         \* history: embedding calls whose answer is not known

source == <<desired, clock>>
index == <<active, generation, items, store>>
jobs == <<job, work, resolved>>
rebuildVars == <<source, outbox, index, jobs, rebuildRun, rebuildCrashes, faults, open>>

NoRow == [id |-> 0, seq |-> 0, target |-> 0]
NoJob == [status |-> "none", source |-> Nothing, caughtUp |-> 0, promoted |-> 0, cancel |-> FALSE]

Live == {"registered", "bulk_building", "catching_up", "verifying", "ready"}
OverStates == {"failed", "cancelled"}

\* A snapshot item has no outbox row: id and seq are 0.
Item(kind, m, row) == [kind |-> kind, memory |-> m, id |-> row.id, seq |-> row.seq,
                       target |-> row.target, state |-> "pending", phase |-> "not_started",
                       tries |-> 0]

NoItem(m) == Item("bulk", m, NoRow)
NotRunning == [pc |-> "idle", request |-> Nothing, item |-> Nothing, target |-> 0,
         leased |-> FALSE, late |-> FALSE]

RebuildInit ==
    /\ desired = [m \in Memories |-> 0] /\ clock = 0
    /\ outbox = [m \in Memories |-> NoRow]
    /\ active \in {Original, Nothing}
    /\ generation = [g \in Generations |-> IF g = active THEN "active" ELSE "none"]
    /\ items = [g \in Generations |-> [m \in Memories |-> 0]]
    /\ store = [g \in Generations |-> [m \in Memories |-> 0]]
    /\ job = [q \in RebuildRequests |-> NoJob]
    /\ work = [q \in RebuildRequests |-> {}]
    /\ resolved = [q \in RebuildRequests |-> {}]
    /\ rebuildRun = NotRunning /\ rebuildCrashes = 0 /\ faults = 0 /\ open = {}

-----------------------------------------------------------------------------
(* Around the rebuild *)

\* A memory is confirmed, revised, or withdrawn: its row is written in the same transaction,
\* and keeps its id when one is pending.
Mutate(m) ==
    /\ clock < MaxClock
    /\ clock' = clock + 1
    /\ \E document \in IF desired[m] = 0 THEN {clock + 1} ELSE {0, clock + 1} :
         /\ desired' = [desired EXCEPT ![m] = document]
         /\ outbox' = [outbox EXCEPT ![m] =
                         [id |-> IF @.id = 0 THEN clock + 1 ELSE @.id,
                          seq |-> clock + 1, target |-> document]]
    /\ UNCHANGED <<index, jobs, rebuildRun, rebuildCrashes, faults, open>>

\* The bounded drain, which waits for the gate: one row reaches the active generation.
Drain(m) ==
    /\ rebuildRun.pc = "idle" /\ active # Nothing /\ outbox[m] # NoRow
    /\ items' = [items EXCEPT ![active][m] = outbox[m].target]
    /\ store' = [store EXCEPT ![active][m] = outbox[m].target]
    /\ outbox' = [outbox EXCEPT ![m] = NoRow]
    /\ UNCHANGED <<source, active, generation, jobs, rebuildRun, rebuildCrashes, faults, open>>

RequestCancel(q) ==
    /\ job[q].status \in Live /\ ~job[q].cancel
    /\ job' = [job EXCEPT ![q].cancel = TRUE]
    /\ UNCHANGED <<source, outbox, index, work, resolved, rebuildRun, rebuildCrashes, faults, open>>

DeadlinePasses ==
    /\ rebuildRun.pc # "idle" /\ ~rebuildRun.late
    /\ rebuildRun' = [rebuildRun EXCEPT !.late = TRUE]
    /\ UNCHANGED <<source, outbox, index, jobs, rebuildCrashes, faults, open>>

RebuildCrash ==
    /\ rebuildRun.pc # "idle" /\ rebuildCrashes < MaxRebuildCrashes
    /\ rebuildCrashes' = rebuildCrashes + 1
    /\ rebuildRun' = NotRunning
    /\ UNCHANGED <<source, outbox, index, jobs, faults, open>>

-----------------------------------------------------------------------------
(* What the transactions prove *)

Q == rebuildRun.request
G == rebuildRun.request

Current(i) == outbox[i.memory].id = i.id /\ outbox[i.memory].seq = i.seq
Applied(i) == i.kind = "catchup" /\ i.state = "applied"
Covers(i, m) == Applied(i) /\ i.memory = m /\ Current(i)

\* catchup_target_is_complete_in
CatchupIsComplete(q, target) ==
    /\ \A m \in Memories : outbox[m] # NoRow /\ outbox[m].seq <= target =>
                             \E i \in work[q] : Covers(i, m)
    /\ \A i \in work[q] : i.kind = "catchup" /\ i.seq <= target /\ ~Current(i) =>
                             i.state \in {"applied", "superseded"}

\* Mutant: the candidate is only checked for what it should have.
SetContainsEligible(g) == \A m \in Memories : desired[m] # 0 => items[g][m] # 0

\* verify_sqlite_final_set_in
SetIsExact(g) == items[g] = desired

\* classify_generation_rebuild_promotion_commit: the image after the commit, and before it.
PostImage(q) ==
    /\ job[q].status = "completed"
    /\ generation[q] = "active" /\ active = q
    /\ job[q].source # Nothing => generation[job[q].source] = "retired"
    /\ \A m \in Memories : outbox[m] # NoRow => outbox[m].seq > job[q].promoted
    /\ \A i \in work[q] : Applied(i) /\ i.seq <= job[q].promoted => <<i.id, i.seq>> \in resolved[q]
    /\ \A r \in resolved[q] : \E i \in work[q] : Applied(i) /\ r = <<i.id, i.seq>>

PreImage(q) ==
    /\ job[q].status = "ready" /\ generation[q] = "building"
    /\ active = job[q].source
    /\ resolved[q] = {}

Committed(q) == PostImage(q) /\ ~PreImage(q)

-----------------------------------------------------------------------------
(* Ends of a job *)

RunTo(pc) == rebuildRun' = [rebuildRun EXCEPT !.pc = pc]
RunAt(pc) == rebuildRun.pc = pc

\* What terminalize_generation_rebuild does to an attempt under way.
Unsettled(i) ==
    IF i.kind = "catchup" /\ i.state = "processing" /\ i.phase # "reserved"
    THEN [i EXCEPT !.state = "uncertain"] ELSE i

Terminalize(status, rows) ==
    /\ job' = [job EXCEPT ![Q].status = status]
    /\ work' = [work EXCEPT ![Q] = {Unsettled(i) : i \in rows}]
    /\ generation' = [generation EXCEPT ![G] = "failed"]
    /\ rebuildRun' = NotRunning
    /\ UNCHANGED <<source, outbox, active, items, store, resolved, rebuildCrashes, faults>>

Fail == Terminalize("failed", work[Q])
Cancel == Terminalize("cancelled", work[Q])

\* fail_generation_rebuild_after_unknown and its catch-up twin
FailUnknown ==
    Terminalize("failed", (work[Q] \ {rebuildRun.item}) \cup {[rebuildRun.item EXCEPT !.state = "uncertain"]})

\* ensure_durably_terminal_after_failure
Compensate ==
    /\ RunAt("failing")
    /\ \/ job[Q].status \in Live /\ Fail
       \/ /\ job[Q].status = "completed"
          /\ rebuildRun' = IF Committed(Q) THEN NotRunning ELSE [rebuildRun EXCEPT !.pc = "recovery"]
          /\ UNCHANGED <<source, outbox, index, jobs, rebuildCrashes, faults>>
    /\ UNCHANGED open

\* ensure_promotion_recovery_classified: parks with the gate until the image is exact.
Recover ==
    /\ RunAt("recovery")
    /\ rebuildRun' = IF Committed(Q) THEN NotRunning ELSE rebuildRun
    /\ UNCHANGED <<source, outbox, index, jobs, rebuildCrashes, faults, open>>

OuterSteps == {"loop", "materialize", "reserve", "advance", "mark", "promote", "classify", "done"}

\* A storage error: C is entered again, an attempt of D is left for the next round, and any
\* other error of D ends the pipeline.
StorageFails ==
    /\ rebuildRun.pc \notin {"idle", "failing", "recovery", "verify"} /\ faults < MaxStorageFaults
    /\ faults' = faults + 1
    /\ rebuildRun' = [rebuildRun EXCEPT !.item = Nothing,
                          !.pc = IF rebuildRun.pc \in OuterSteps THEN "failing"
                                 ELSE IF rebuildRun.item # Nothing /\ rebuildRun.item.kind = "catchup"
                                      THEN "loop" ELSE "open"]
    /\ UNCHANGED <<source, outbox, index, jobs, rebuildCrashes, open>>

-----------------------------------------------------------------------------
(* C *)

Enter(q, pc) == rebuildRun' = [NotRunning EXCEPT !.request = q, !.pc = pc]

Register(q) ==
    /\ rebuildRun.pc = "idle" /\ job[q].status = "none"
    /\ \A p \in RebuildRequests : job[p].status \notin Live
    /\ job' = [job EXCEPT ![q] = [NoJob EXCEPT !.status = "registered", !.source = active]]
    /\ generation' = [generation EXCEPT ![q] = "building"]
    /\ Enter(q, "open")
    /\ UNCHANGED <<source, outbox, active, items, store, work, resolved, rebuildCrashes, faults, open>>

\* The request of a job that is there: C or D goes on where it was, a completed job is
\* classified, a job that failed is answered.
Resume(q) ==
    /\ rebuildRun.pc = "idle" /\ job[q].status # "none"
    /\ \/ job[q].status \in {"registered", "bulk_building"} /\ Enter(q, "open")
       \/ job[q].status \in {"catching_up", "verifying", "ready"} /\ Enter(q, "loop")
       \/ job[q].status = "completed" /\ ~Committed(q) /\ Enter(q, "recovery")
       \/ (Committed(q) \/ job[q].status \in OverStates) /\ UNCHANGED rebuildRun
    /\ UNCHANGED <<source, outbox, index, jobs, rebuildCrashes, faults, open>>

\* The head of the outer loop and ensure_generation_store.
OpenStore ==
    /\ RunAt("open")
    /\ \/ rebuildRun.late /\ RunTo("failing") /\ UNCHANGED <<source, outbox, index, jobs, rebuildCrashes, faults>>
       \/ ~rebuildRun.late /\ job[Q].cancel /\ Cancel
       \/ /\ ~rebuildRun.late /\ ~job[Q].cancel
          /\ \/ RunTo(IF job[Q].status = "registered" THEN "snapshot" ELSE "bulk")
             \/ RunTo("failing")  \* the store is corrupt
          /\ UNCHANGED <<source, outbox, index, jobs, rebuildCrashes, faults>>
    /\ UNCHANGED open

\* snapshot_generation_rebuild
Snapshot ==
    /\ RunAt("snapshot") /\ ~job[Q].cancel
    /\ job' = [job EXCEPT ![Q].status = "bulk_building"]
    /\ work' = [work EXCEPT ![Q] =
                  {[NoItem(m) EXCEPT !.target = desired[m]] :
                     m \in {x \in Memories : desired[x] # 0}}]
    /\ RunTo("bulk")
    /\ UNCHANGED <<source, outbox, index, resolved, rebuildCrashes, faults, open>>

SnapshotRefused ==
    /\ RunAt("snapshot") /\ job[Q].cancel
    /\ RunTo("open")
    /\ UNCHANGED <<source, outbox, index, jobs, rebuildCrashes, faults, open>>

Replace(i, j) == work' = [work EXCEPT ![Q] = (@ \ {i}) \cup {j}]
Reserved(i) == IF i.state = "pending"
               THEN [i EXCEPT !.state = "processing", !.phase = "reserved", !.tries = @ + 1]
               ELSE i
Phase(i, phase) == [i EXCEPT !.phase = phase]

\* The loop of C: the next snapshot item in any state, or the handoff to D.
NextBulk ==
    /\ RunAt("bulk")
    /\ LET left == {i \in work[Q] : i.kind = "bulk" /\ i.state \in {"pending", "processing"}}
       IN  \/ job[Q].cancel /\ Cancel
           \/ /\ ~job[Q].cancel
              /\ \E i \in left :
                   IF i.state = "pending" /\ i.tries >= MaxRebuildAttempts
                   THEN RunTo("failing") /\ UNCHANGED work
                   ELSE /\ Replace(i, Reserved(i))
                        /\ rebuildRun' = [rebuildRun EXCEPT !.pc = "item", !.item = Reserved(i)]
              /\ UNCHANGED <<source, outbox, index, job, resolved, rebuildCrashes, faults>>
           \/ /\ ~job[Q].cancel /\ left = {}
              /\ job' = [job EXCEPT ![Q].status = "catching_up"]
              /\ rebuildRun' = [rebuildRun EXCEPT !.pc = "loop", !.item = Nothing]
              /\ UNCHANGED <<source, outbox, index, work, resolved, rebuildCrashes, faults>>
    /\ UNCHANGED open

-----------------------------------------------------------------------------
(* One item, of the snapshot or of the catch-up *)

I == rebuildRun.item
Bulk == rebuildRun.item.kind = "bulk"
Back == IF Bulk THEN "bulk" ELSE "loop"
Key(i) == <<rebuildRun.request, i.kind, i.memory, i.seq>>

\* The item in its next phase, and the process with it.
AdvanceItem(j, pc) ==
    /\ Replace(I, j) /\ rebuildRun' = [rebuildRun EXCEPT !.pc = pc, !.item = j]
    /\ UNCHANGED <<source, outbox, index, job, resolved, rebuildCrashes, faults>>

RunStep(pc) == RunTo(pc) /\ UNCHANGED <<source, outbox, index, jobs, rebuildCrashes, faults>>

\* process_item, by the phase the attempt was left in.
BeginBulk ==
    /\ RunAt("item") /\ Bulk /\ UNCHANGED open
    /\ \/ I.phase = "reserved" /\ AdvanceItem(Phase(I, "embedding_started"), "embed")
       \/ I.phase = "embedding_started" /\ FailUnknown
       \/ I.phase = "vector_write_started" /\ RunStep("recover")

\* The head of process_catchup_item; only a reserved attempt gets here.
BeginCatchup ==
    /\ RunAt("item") /\ ~Bulk /\ UNCHANGED open
    /\ \/ ~Current(I) /\ RunStep("loop")
       \/ Current(I) /\ I.target # 0 /\ AdvanceItem(Phase(I, "embedding_started"), "embed")
       \/ Current(I) /\ I.target = 0 /\ AdvanceItem(Phase(I, "vector_write_started"), "write")

NotSent(pc) == AdvanceItem(Phase(I, "reserved"), pc)
Ask == RunStep("embedding") /\ open' = open \cup {Key(I)}

\* The provider is resolved, or not for now, or another one is configured; then the call.
CallEmbedBulk ==
    /\ RunAt("embed") /\ Bulk
    /\ \/ job[Q].cancel /\ Cancel /\ UNCHANGED open
       \/ ~job[Q].cancel /\ NotSent("open") /\ UNCHANGED open
       \/ ~job[Q].cancel /\ Fail /\ UNCHANGED open
       \/ ~job[Q].cancel /\ Ask

CallEmbedCatchup ==
    /\ RunAt("embed") /\ ~Bulk
    /\ \/ NotSent("loop") /\ UNCHANGED open  \* no provider, or the target has changed
       \/ Fail /\ UNCHANGED open
       \/ Current(I) /\ Ask

\* The answer, or what is known instead of it.
EmbedReturns ==
    /\ RunAt("embedding")
    /\ \/ RunStep("embedded") /\ open' = open \ {Key(I)}
       \/ NotSent(Back) /\ open' = open \ {Key(I)}
       \/ /\ AdvanceItem([I EXCEPT !.state = "pending", !.phase = "not_started"], Back)  \* retryable
          /\ open' = open \ {Key(I)}
       \/ Fail /\ open' = open \ {Key(I)}
       \/ FailUnknown /\ UNCHANGED open  \* possibly sent

BeginWrite ==
    /\ RunAt("embedded") /\ UNCHANGED open
    /\ IF job[Q].cancel \/ (~Bulk /\ rebuildRun.late) THEN Cancel
       ELSE AdvanceItem(Phase(I, "vector_write_started"), "write")

\* The upsert or delete in LanceDB; an error leaves it done or not.
WriteTo(pc) ==
    /\ store' = [store EXCEPT ![G][I.memory] = I.target] /\ RunTo(pc)
    /\ UNCHANGED <<source, outbox, active, generation, items, jobs, rebuildCrashes, faults>>

WriteBulk ==
    /\ RunAt("write") /\ Bulk /\ UNCHANGED open
    /\ \/ job[Q].cancel /\ FailUnknown
       \/ ~job[Q].cancel /\ WriteTo("finalize")
       \/ ~job[Q].cancel /\ WriteTo("recover")
       \/ ~job[Q].cancel /\ RunStep("recover")

\* A delete, which was not preceded by a call, is checked once more.
WriteCatchup ==
    /\ RunAt("write") /\ ~Bulk /\ UNCHANGED open
    /\ \/ I.target = 0 /\ ~Current(I) /\ NotSent("loop")
       \/ I.target = 0 /\ Current(I) /\ rebuildRun.late /\ FailUnknown
       \/ /\ I.target = 0 => Current(I) /\ ~rebuildRun.late
          /\ WriteTo("recover") \/ RunStep("recover")

\* recover_vector_write, recover_catchup_upsert, recover_catchup_delete: the store is asked.
RecoverWrite ==
    /\ RunAt("recover") /\ UNCHANGED open
    /\ \/ /\ ~(Bulk /\ job[Q].cancel) /\ store[G][I.memory] = I.target
          /\ RunStep(IF Bulk THEN "finalize" ELSE "metadata")
       \/ FailUnknown

\* write_generation_rebuild_catchup_metadata
WriteMetadata ==
    /\ RunAt("metadata") /\ UNCHANGED open
    /\ \/ ~Current(I) /\ Fail
       \/ /\ Current(I)
          /\ items' = [items EXCEPT ![G][I.memory] = I.target] /\ RunTo("finalize")
          /\ UNCHANGED <<source, outbox, active, generation, store, jobs, rebuildCrashes, faults>>

Applying == Replace(I, [I EXCEPT !.state = "applied", !.phase = "finalized"])

\* finalize_generation_rebuild_item, which writes the metadata too
FinalizeBulk ==
    /\ RunAt("finalize") /\ Bulk
    /\ Applying /\ items' = [items EXCEPT ![G][I.memory] = I.target]
    /\ rebuildRun' = [rebuildRun EXCEPT !.pc = "bulk", !.item = Nothing]
    /\ UNCHANGED <<source, outbox, active, generation, store, job, resolved, rebuildCrashes, faults, open>>

\* finalize_generation_rebuild_catchup_item
FinalizeCatchup ==
    /\ RunAt("finalize") /\ ~Bulk /\ UNCHANGED open
    /\ \/ ~Current(I) /\ Fail
       \/ /\ Current(I) /\ Applying
          /\ rebuildRun' = [rebuildRun EXCEPT !.pc = "reserve", !.item = Nothing]
          /\ UNCHANGED <<source, outbox, index, job, resolved, rebuildCrashes, faults>>

-----------------------------------------------------------------------------
(* D *)

\* Mutant: the loop does not look at its deadline.
LoopForever ==
    /\ RunAt("loop") /\ UNCHANGED open
    /\ IF job[Q].cancel THEN Cancel
       ELSE /\ rebuildRun' = [rebuildRun EXCEPT !.target = clock, !.item = Nothing,
                         !.pc = IF job[Q].status = "catching_up" THEN "materialize" ELSE "verify"]
            /\ UNCHANGED <<source, outbox, index, jobs, rebuildCrashes, faults>>

\* The head of D's loop; the clock is read as the target of the round.
Loop ==
    /\ RunAt("loop") /\ UNCHANGED open
    /\ \/ rebuildRun.late /\ Fail
       \/ ~rebuildRun.late /\ job[Q].cancel /\ Cancel
       \/ /\ ~rebuildRun.late /\ ~job[Q].cancel
          /\ rebuildRun' = [rebuildRun EXCEPT !.target = clock, !.item = Nothing,
                       !.pc = IF job[Q].status = "catching_up" THEN "materialize" ELSE "verify"]
          /\ UNCHANGED <<source, outbox, index, jobs, rebuildCrashes, faults>>

Predecessor(i, m) == i.kind = "catchup" /\ i.id = outbox[m].id /\ i.seq # outbox[m].seq
Unsafe(i) == /\ i.state \notin {"applied", "superseded"}
             /\ \/ i.state = "uncertain"
                \/ i.phase \in {"embedding_started", "vector_write_started"}

\* materialize_generation_rebuild_catchup: every row up to the target, those older than the
\* snapshot too.
Materialize ==
    LET due == {m \in Memories : outbox[m] # NoRow /\ outbox[m].seq <= rebuildRun.target}
        supersede(i) == IF \E m \in due : Predecessor(i, m)
                        THEN [i EXCEPT !.state = "superseded", !.phase = "finalized"] ELSE i
        new == {Item("catchup", m, outbox[m]) :
                  m \in {x \in due : ~\E i \in work[Q] : i.kind = "catchup" /\ Current(i) /\ i.memory = x}}
    IN  /\ RunAt("materialize") /\ UNCHANGED open
        /\ \/ (\E i \in work[Q] : Unsafe(i) /\ \E m \in due : Predecessor(i, m)) /\ Fail
           \/ /\ ~\E i \in work[Q] : Unsafe(i) /\ \E m \in due : Predecessor(i, m)
              /\ work' = [work EXCEPT ![Q] = {supersede(i) : i \in @} \cup new]
              /\ RunTo("reserve")
              /\ UNCHANGED <<source, outbox, index, job, resolved, rebuildCrashes, faults>>

\* An attempt left in a later phase is not taken again.
Reservable(i) ==
    /\ i.kind = "catchup" /\ i.tries < MaxRebuildAttempts
    /\ \/ i.state = "pending"
       \/ i.state = "processing" /\ i.phase = "reserved"
    /\ Current(i)

\* reserve_next_generation_rebuild_catchup_item
Reserve ==
    /\ RunAt("reserve") /\ UNCHANGED open
    /\ LET ready == {i \in work[Q] : Reservable(i)}
       IN  \/ ready = {} /\ RunStep("advance")
           \/ \E i \in ready :
                /\ \A j \in ready : i.seq <= j.seq
                /\ Replace(i, [Reserved(i) EXCEPT !.phase = "reserved"])
                /\ rebuildRun' = [rebuildRun EXCEPT !.pc = "item", !.item = [Reserved(i) EXCEPT !.phase = "reserved"]]
                /\ UNCHANGED <<source, outbox, index, job, resolved, rebuildCrashes, faults>>

\* advance_generation_rebuild_catchup
AdvanceCatchup ==
    /\ RunAt("advance") /\ UNCHANGED open
    /\ LET behind == clock # rebuildRun.target \/ ~CatchupIsComplete(Q, rebuildRun.target)
       IN  \/ behind /\ RunStep("loop")
           \/ ~behind /\ ~SetIsExact(G) /\ RunStep("failing")
           \/ /\ ~behind /\ SetIsExact(G)
              /\ job' = [job EXCEPT ![Q].status = "verifying", ![Q].caughtUp = rebuildRun.target]
              /\ RunTo("verify")
              /\ UNCHANGED <<source, outbox, index, work, resolved, rebuildCrashes, faults>>

\* verify_generation_rebuild_lance_set: the store has exactly the rows of the metadata, cannot
\* be read, or holds something else.
Verify ==
    /\ RunAt("verify") /\ UNCHANGED open
    /\ \/ /\ store[G] = items[G]
          /\ RunStep(IF job[Q].status = "verifying" THEN "mark" ELSE "promote")
       \/ RunStep("loop")
       \/ Fail

BehindAgain ==
    /\ job' = [job EXCEPT ![Q].status = "catching_up", ![Q].caughtUp = 0]
    /\ UNCHANGED <<source, outbox, index, work, resolved, rebuildCrashes, faults>>

\* mark_generation_rebuild_ready
MarkReady ==
    /\ RunAt("mark") /\ RunTo("loop") /\ UNCHANGED open
    /\ \/ clock # job[Q].caughtUp /\ BehindAgain
       \/ /\ clock = job[Q].caughtUp
          /\ CatchupIsComplete(Q, clock) /\ SetIsExact(G)
          /\ job' = [job EXCEPT ![Q].status = "ready"]
          /\ UNCHANGED <<source, outbox, index, work, resolved, rebuildCrashes, faults>>

\* The lease that keeps the late-delete runner out is taken in a round of its own.
LeaseLateDelete ==
    /\ RunAt("promote") /\ ~rebuildRun.leased
    /\ \E got \in BOOLEAN : rebuildRun' = [rebuildRun EXCEPT !.leased = got, !.pc = "loop"]
    /\ UNCHANGED <<source, outbox, index, jobs, rebuildCrashes, faults, open>>

\* The clock is looked at again in the transaction that promotes.
PromotionIsBehind == clock # job[Q].caughtUp

Covered(m) == outbox[m] # NoRow /\ \E i \in work[Q] : Covers(i, m)

\* promote_generation_rebuild, in one transaction.
CutOver ==
    /\ CatchupIsComplete(Q, job[Q].caughtUp) /\ SetIsExact(G) /\ active = job[Q].source
    /\ resolved' = [resolved EXCEPT ![Q] =
                      {<<outbox[m].id, outbox[m].seq>> : m \in {x \in Memories : Covered(x)}}]
    /\ outbox' = [m \in Memories |-> IF Covered(m) THEN NoRow ELSE outbox[m]]
    /\ generation' = [g \in Generations |-> IF g = G THEN "active"
                                            ELSE IF g = active THEN "retired" ELSE generation[g]]
    /\ active' = G
    /\ job' = [job EXCEPT ![Q].status = "completed", ![Q].promoted = job[Q].caughtUp]
    /\ UNCHANGED <<source, items, store, work, rebuildCrashes, faults>>

Promote ==
    /\ RunAt("promote") /\ rebuildRun.leased /\ UNCHANGED open
    /\ \/ PromotionIsBehind /\ BehindAgain /\ rebuildRun' = [rebuildRun EXCEPT !.leased = FALSE, !.pc = "loop"]
       \/ /\ ~PromotionIsBehind
          /\ \/ CutOver /\ RunTo("done")
             \/ CutOver /\ RunTo("classify")  \* the result of the commit is not known
             \/ RunStep("classify")

\* After a commit whose result is not known.
Classify ==
    /\ RunAt("classify") /\ UNCHANGED open
    /\ \/ Committed(Q) /\ RunStep("done")
       \/ PreImage(Q) /\ ~PostImage(Q) /\ RunStep("loop")
       \/ Committed(Q) = (PreImage(Q) /\ ~PostImage(Q)) /\ RunStep("recovery")

Done ==
    /\ RunAt("done") /\ rebuildRun' = NotRunning
    /\ UNCHANGED <<source, outbox, index, jobs, rebuildCrashes, faults, open>>

-----------------------------------------------------------------------------

Rebuild ==
    \/ OpenStore \/ Snapshot \/ SnapshotRefused \/ NextBulk
    \/ BeginBulk \/ BeginCatchup \/ CallEmbedBulk \/ CallEmbedCatchup \/ EmbedReturns
    \/ BeginWrite \/ WriteBulk \/ WriteCatchup \/ RecoverWrite
    \/ WriteMetadata \/ FinalizeBulk \/ FinalizeCatchup
    \/ Loop \/ Materialize \/ Reserve \/ AdvanceCatchup \/ Verify \/ MarkReady
    \/ LeaseLateDelete \/ Promote \/ Classify \/ Done \/ Compensate \/ Recover

RebuildNext ==
    \/ \E m \in Memories : Mutate(m) \/ Drain(m)
    \/ \E q \in RebuildRequests : Register(q) \/ Resume(q) \/ RequestCancel(q)
    \/ Rebuild \/ DeadlinePasses \/ StorageFails \/ RebuildCrash

RebuildSpec == RebuildInit /\ [][RebuildNext]_rebuildVars

-----------------------------------------------------------------------------
(* Properties *)

\* Types; and an attempt that is under way is the one of the persisted row.
RebuildTypeOK ==
    /\ desired \in [Memories -> Mutations] /\ clock \in Mutations
    /\ outbox \in [Memories -> [id : Mutations, seq : Mutations, target : Mutations]]
    /\ active \in Generations \cup {Nothing}
    /\ generation \in [Generations -> {"none", "building", "active", "retired", "failed"}]
    /\ items \in [Generations -> [Memories -> Mutations]]
    /\ store \in [Generations -> [Memories -> Mutations]]
    /\ \A q \in RebuildRequests : job[q].status \in Live \cup OverStates \cup {"none", "completed"}
    /\ \A q \in RebuildRequests : \A i \in work[q] : i.tries \in 0..MaxRebuildAttempts
    /\ rebuildRun.item # Nothing => rebuildRun.item \in work[rebuildRun.request]

\* A memory without an outbox row is in the active generation, store and metadata, exactly as it
\* is desired: whichever way a rebuild ended, and whatever was drained and mutated meanwhile.
IndexKeepsUp ==
    active # Nothing =>
        \A m \in Memories : outbox[m] = NoRow =>
            store[active][m] = desired[m] /\ items[active][m] = desired[m]

\* The generation a live job took as its source is still the active one, and its candidate is
\* being built: no other rebuild came between registration and promotion.
SourceStaysActive ==
    \A q \in RebuildRequests : job[q].status \in Live =>
        job[q].source = active /\ generation[q] = "building"

\* An embedding call is never made for an attempt whose earlier call may have reached the
\* provider and was not answered, not after a crash or a storage error either.
NeverAsksAgain ==
    [][RunAt("embed") /\ rebuildRun'.pc = "embedding" => Key(I) \notin open]_rebuildVars

\* The composition gate is given back by the code, and not by a crash, only once the job is over.
GateOutlivesCandidate ==
    [][rebuildRun.pc # "idle" /\ rebuildRun'.pc = "idle" /\ rebuildCrashes' = rebuildCrashes =>
         job'[rebuildRun.request].status \notin Live]_rebuildVars

\* A job only ends, and a job that is over is left alone: a late cancellation, a repeated
\* request or a compensation never touches it, and it keeps the items it ended with.
OverIsFinal ==
    [][\A q \in RebuildRequests : job[q].status \in OverStates \cup {"completed"} =>
         job'[q] = job[q] /\ work'[q] = work[q]]_rebuildVars

\* What RebuildEnds assumes of the embedding provider: it does not stay unreachable.
\* C asks again without a limit while a request is definitely not sent.
ProviderAnswers ==
    SF_rebuildVars(RunAt("embedding") /\ RunStep("embedded") /\ open' = open \ {Key(I)})

\* If the provider is reached again and again, a rebuild comes to an end, or parks in
\* promotion recovery, although memories change in every round of the catch-up.
RebuildEnds ==
    ProviderAnswers => (rebuildRun.pc # "idle" ~> rebuildRun.pc \in {"idle", "recovery"})

\* A rebuild that crashes, fails or runs into its deadline leaves an index that
\* still answers for every memory.
RebuildSafe == RebuildTypeOK /\ IndexKeepsUp
=============================================================================
