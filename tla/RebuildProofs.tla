--------------------------- MODULE RebuildProofs ---------------------------
(***************************************************************************)
(* The rebuild of the vector index for any memories, requests and bounds:  *)
(* wherever it fails, is cancelled, runs into its deadline or is killed,   *)
(* the active generation has every memory that is not waiting in the       *)
(* outbox exactly as it is desired; the source of a living job stays the   *)
(* active generation; no embedding call is repeated while it is not known  *)
(* what became of the last one; the composition gate is given back only    *)
(* with the end of the job; and a job that is over is left alone.          *)
(***************************************************************************)
EXTENDS GenerationRebuild, TLAPS

-----------------------------------------------------------------------------
(* Rebuild and cut-over: the invariant *)

ItemPcs == {"item", "embed", "embedding", "embedded", "write", "recover", "metadata", "finalize"}
JobPcs == ItemPcs \cup {"open", "snapshot", "bulk", "loop", "materialize", "reserve", "advance",
                        "verify", "mark", "promote"}
RebuildPcs == JobPcs \cup {"idle", "failing", "recovery", "classify", "done"}

WorkItem ==
    [kind : {"bulk", "catchup"}, memory : Memories, id : Mutations, seq : Mutations,
     target : Mutations,
     state : {"pending", "processing", "applied", "superseded", "uncertain"},
     phase : {"not_started", "reserved", "embedding_started", "vector_write_started", "finalized"},
     tries : 0..MaxRebuildAttempts]

JobRow ==
    [status : Live \cup OverStates \cup {"none", "completed"}, source : Generations \cup {Nothing},
     caughtUp : Mutations, promoted : Mutations, cancel : BOOLEAN]

RebuildState ==
    [pc : RebuildPcs, request : RebuildRequests \cup {Nothing}, item : WorkItem \cup {Nothing},
     target : Mutations, leased : BOOLEAN, late : BOOLEAN]

RebuildTyped ==
    /\ desired \in [Memories -> Mutations] /\ clock \in Mutations
    /\ outbox \in [Memories -> [id : Mutations, seq : Mutations, target : Mutations]]
    /\ active \in Generations \cup {Nothing}
    /\ generation \in [Generations -> {"none", "building", "active", "retired", "failed"}]
    /\ items \in [Generations -> [Memories -> Mutations]]
    /\ store \in [Generations -> [Memories -> Mutations]]
    /\ job \in [RebuildRequests -> JobRow]
    /\ work \in [RebuildRequests -> SUBSET WorkItem]
    /\ rebuildRun \in RebuildState /\ rebuildCrashes \in Nat

\* A row stands for the latest mutation of its memory.
RowsCurrent ==
    \A m \in Memories :
        /\ outbox[m].id = 0 => outbox[m] = NoRow
        /\ outbox[m].seq = 0 => outbox[m] = NoRow
        /\ outbox[m].seq <= clock
        /\ outbox[m] # NoRow => outbox[m].target = desired[m]

\* At most one job is alive, its source is the active generation and its candidate is not.
AuthoritySound ==
    /\ active # Nothing => generation[active] = "active"
    /\ \A q \in RebuildRequests :
         /\ active = q => job[q].status = "completed"
         /\ job[q].status \in Live =>
              /\ job[q].source = active /\ generation[q] = "building"
              /\ \A p \in RebuildRequests : job[p].status \in Live => p = q

KeyOf(q, i) == <<q, i.kind, i.memory, i.seq>>
SameKey(i, j) == i.kind = j.kind /\ i.memory = j.memory /\ i.seq = j.seq

\* An item has the row it was made for, and its phase agrees with its state.
ItemSound(i) ==
    /\ i.state \in {"applied", "superseded"} => i.phase = "finalized"
    /\ i.state = "pending" => i.phase = "not_started"
    /\ IF i.kind = "bulk" THEN i.seq = 0
       ELSE /\ i.seq # 0 /\ i.seq <= clock
            /\ outbox[i.memory].seq = i.seq => outbox[i.memory].id = i.id

WorkSound ==
    \A q \in RebuildRequests :
        /\ \A i \in work[q] : ItemSound(i)
        /\ \A i, j \in work[q] : SameKey(i, j) => i = j
        /\ job[q].status \in {"none", "registered"} => work[q] = {}

\* A call without an answer belongs to an item, which waits for it as long as the job lives.
OpenSound ==
    /\ \A k \in open : \E q \in RebuildRequests : \E i \in work[q] : k = KeyOf(q, i)
    /\ \A q \in RebuildRequests : job[q].status \in Live =>
         \A i \in work[q] : KeyOf(q, i) \in open => i.phase = "embedding_started"

\* What the process is doing fits the job of its request, and an item it is at is in the
\* phase of the step, with no call that was made for it and not answered.
RunFits(x) ==
    /\ x.pc # "idle" => x.request \in RebuildRequests
    /\ x.pc \in JobPcs => job[x.request].status \in Live
    /\ x.item # Nothing =>
         x.request \in RebuildRequests /\ x.item \in work[x.request] /\ job[x.request].status # "registered"
    /\ x.pc = "snapshot" => job[x.request].status = "registered"
    /\ x.pc = "materialize" => x.item = Nothing /\ job[x.request].status # "registered"
    /\ x.pc \in {"mark", "promote"} => store[x.request] = items[x.request]
    /\ x.pc = "done" => job[x.request].status = "completed"
    /\ x.pc \in ItemPcs =>
         /\ x.item \in work[x.request]
         /\ x.pc = "item" /\ x.item.kind # "bulk" => x.item.phase = "reserved"
         /\ x.pc \in {"embed", "embedding", "embedded"} => x.item.phase = "embedding_started"
         /\ x.pc \in {"write", "recover", "metadata", "finalize"} => x.item.phase = "vector_write_started"
         /\ x.pc \in {"embed", "embedded"} => KeyOf(x.request, x.item) \notin open

RebuildInv ==
    /\ RebuildTyped /\ RowsCurrent /\ AuthoritySound /\ IndexKeepsUp
    /\ WorkSound /\ OpenSound /\ RunFits(rebuildRun)

-----------------------------------------------------------------------------
(* Rebuild and cut-over: what a step changes *)

\* Fields of the rows that a rebuild is about.
LEMMA RebuildTypes ==
  ASSUME RebuildInv
  PROVE  /\ rebuildRun.pc \in RebuildPcs /\ rebuildRun.target \in Mutations
         /\ rebuildRun.late \in BOOLEAN /\ rebuildRun.leased \in BOOLEAN
         /\ I \in WorkItem \cup {Nothing} /\ Q \in RebuildRequests \cup {Nothing}
         /\ \A q \in RebuildRequests : q \in Generations /\ work[q] \subseteq WorkItem /\ job[q] \in JobRow
         /\ Nothing \notin RebuildRequests /\ Nothing \notin Generations
BY RebuildAssumption DEF RebuildInv, RebuildTyped, RebuildState, Generations, Q, I

\* The items and the promises of the index do not depend on what the process does.
LEMMA IndexStays ==
  ASSUME RebuildInv, UNCHANGED <<source, outbox, index, job>>
  PROVE  RowsCurrent' /\ AuthoritySound' /\ IndexKeepsUp'
<1>1. /\ desired' = desired /\ clock' = clock /\ outbox' = outbox /\ job' = job
      /\ active' = active /\ generation' = generation /\ items' = items /\ store' = store
  BY DEF source, index
<1> QED
  BY <1>1 DEF RebuildInv, RowsCurrent, AuthoritySound, IndexKeepsUp

\* The process goes on, and nothing else changes.
LEMMA RunMoves ==
  ASSUME RebuildInv, UNCHANGED <<source, outbox, index, jobs, open>>, rebuildCrashes' \in Nat,
         NEW x \in RebuildState, rebuildRun' = x, RunFits(x)
  PROVE  RebuildInv'
<1>1. /\ desired' = desired /\ clock' = clock /\ outbox' = outbox /\ job' = job /\ work' = work
      /\ active' = active /\ generation' = generation /\ items' = items /\ store' = store
      /\ open' = open
  BY DEF source, index, jobs
<1>2. RebuildTyped'
  BY <1>1 DEF RebuildInv, RebuildTyped
<1>3. WorkSound' /\ OpenSound'
  BY <1>1 DEF RebuildInv, WorkSound, OpenSound, ItemSound
<1>4. RunFits(x)'
  BY <1>1 DEF RunFits
<1> QED
  BY <1>2, <1>3, <1>4, IndexStays DEF RebuildInv, jobs

\* It goes on to pc with what it has.
LEMMA RunGoes ==
  ASSUME RebuildInv, UNCHANGED <<source, outbox, index, jobs, rebuildCrashes, open>>,
         NEW pc \in RebuildPcs \ {"idle"}, RunTo(pc), rebuildRun.pc # "idle",
         pc \in JobPcs => job[Q].status \in Live,
         pc = "snapshot" => job[Q].status = "registered",
         pc = "materialize" => I = Nothing /\ job[Q].status # "registered",
         pc \in {"mark", "promote"} => store[Q] = items[Q],
         pc = "done" => job[Q].status = "completed",
         pc \in ItemPcs =>
           /\ I \in work[Q]
           /\ pc = "item" /\ I.kind # "bulk" => I.phase = "reserved"
           /\ pc \in {"embed", "embedding", "embedded"} => I.phase = "embedding_started"
           /\ pc \in {"write", "recover", "metadata", "finalize"} => I.phase = "vector_write_started"
           /\ pc \in {"embed", "embedded"} => KeyOf(Q, I) \notin open
  PROVE  RebuildInv'
<1>1. PICK x : x = [rebuildRun EXCEPT !.pc = pc]
  OBVIOUS
<1>2. rebuildRun \in RebuildState /\ RunFits(rebuildRun)
  BY DEF RebuildInv, RebuildTyped
<1>3. x \in RebuildState /\ x.pc = pc /\ x.request = Q /\ x.item = I
  BY <1>1, <1>2 DEF RebuildState, Q, I
<1>4. RunFits(x)
  BY <1>2, <1>3 DEF RunFits, Q, I
<1>5. rebuildCrashes' \in Nat
  BY DEF RebuildInv, RebuildTyped
<1> QED
  BY <1>1, <1>3, <1>4, <1>5, RunMoves DEF RunTo

\* It ends.
LEMMA RunEnds ==
  ASSUME RebuildInv, UNCHANGED <<source, outbox, index, jobs, open>>, rebuildCrashes' \in Nat,
         rebuildRun' = NotRunning
  PROVE  RebuildInv'
<1>1. NotRunning \in RebuildState
  BY RebuildAssumption DEF NotRunning, RebuildState, RebuildPcs, Mutations
<1>2. RunFits(NotRunning)
  BY DEF NotRunning, RunFits, JobPcs, ItemPcs
<1> QED
  BY <1>1, <1>2, RunMoves

\* The items of q change; every call without an answer keeps its item.
LEMMA WorkMoves ==
  ASSUME RebuildInv, NEW q \in RebuildRequests, NEW new \in SUBSET WorkItem,
         work' = [work EXCEPT ![q] = new], UNCHANGED <<source, outbox>>, open' \subseteq open,
         \A j \in new : ItemSound(j),
         \A i, j \in new : SameKey(i, j) => i = j,
         \A i \in work[q] : \E j \in new : SameKey(i, j),
         \A j \in new : job'[q].status \in Live /\ KeyOf(q, j) \in open' => j.phase = "embedding_started",
         \A p \in RebuildRequests : p # q => job'[p].status = job[p].status,
         job'[q].status \notin {"none", "registered"}
  PROVE  WorkSound' /\ OpenSound' /\ work' \in [RebuildRequests -> SUBSET WorkItem]
<1>1. work \in [RebuildRequests -> SUBSET WorkItem] /\ WorkSound /\ OpenSound
  BY DEF RebuildInv, RebuildTyped
<1>2. work'[q] = new /\ \A p \in RebuildRequests : p # q => work'[p] = work[p]
  BY <1>1
<1>3. \A i : ItemSound(i)' <=> ItemSound(i)
  BY DEF ItemSound, source
<1>4. WorkSound'
  BY <1>1, <1>2, <1>3 DEF WorkSound
<1>5. ASSUME NEW k \in open'
      PROVE  \E p \in RebuildRequests : \E i \in work'[p] : k = KeyOf(p, i)
  <2>1. PICK p \in RebuildRequests : \E i \in work[p] : k = KeyOf(p, i)
    BY <1>1, <1>5 DEF OpenSound
  <2>2. PICK i \in work[p] : k = KeyOf(p, i)
    BY <2>1
  <2>3. CASE p = q
    <3>1. PICK j \in new : SameKey(i, j)
      BY <2>2, <2>3
    <3> QED
      BY <1>2, <2>2, <2>3, <3>1 DEF KeyOf, SameKey
  <2> QED
    BY <1>2, <2>2, <2>3
<1>6. OpenSound'
  <2>1. \A p \in RebuildRequests : job'[p].status \in Live =>
          \A i \in work'[p] : KeyOf(p, i) \in open' => i.phase = "embedding_started"
    BY <1>1, <1>2 DEF OpenSound
  <2> QED
    BY <1>5, <2>1 DEF OpenSound
<1> QED
  BY <1>1, <1>4, <1>6

\* The phase and the state of an item change.
LEMMA ItemMoves ==
  ASSUME RebuildInv, Q \in RebuildRequests, NEW i \in work[Q], NEW j \in WorkItem, Replace(i, j),
         SameKey(i, j), j.id = i.id,
         j.state \in {"applied", "superseded"} => j.phase = "finalized",
         j.state = "pending" => j.phase = "not_started",
         UNCHANGED <<source, outbox, job>>, open' \subseteq open,
         j.phase = "embedding_started" \/ KeyOf(Q, i) \notin open'
  PROVE  /\ WorkSound' /\ OpenSound' /\ work' \in [RebuildRequests -> SUBSET WorkItem]
         /\ j \in work'[Q] /\ work'[Q] = (work[Q] \ {i}) \cup {j} /\ KeyOf(Q, j) = KeyOf(Q, i)
<1>1. work \in [RebuildRequests -> SUBSET WorkItem] /\ WorkSound /\ OpenSound
  BY DEF RebuildInv, RebuildTyped
<1>2. PICK new : new = (work[Q] \ {i}) \cup {j}
  OBVIOUS
<1>3. new \in SUBSET WorkItem /\ work' = [work EXCEPT ![Q] = new] /\ job' = job
  BY <1>1, <1>2 DEF Replace
<1>4. ItemSound(i) /\ \A h \in new : h # j => h \in work[Q] /\ h # i
  BY <1>1, <1>2 DEF WorkSound
<1>5. ItemSound(j)
  BY <1>4 DEF ItemSound, SameKey
<1>6. \A h, k \in new : SameKey(h, k) => h = k
  BY <1>1, <1>4 DEF WorkSound, SameKey
<1>7. \A h \in work[Q] : \E k \in new : SameKey(h, k)
  BY <1>2 DEF SameKey
<1>8. KeyOf(Q, j) = KeyOf(Q, i)
  BY DEF KeyOf, SameKey
<1>9. \A h \in new : job'[Q].status \in Live /\ KeyOf(Q, h) \in open' => h.phase = "embedding_started"
  BY <1>1, <1>3, <1>4, <1>8 DEF OpenSound
<1>10. job'[Q].status \notin {"none", "registered"}
  BY <1>1, <1>3 DEF WorkSound
<1>11. \A h \in new : ItemSound(h)
  BY <1>1, <1>4, <1>5 DEF WorkSound
<1>12. \A p \in RebuildRequests : p # Q => job'[p].status = job[p].status
  BY <1>3
<1>13. WorkSound' /\ OpenSound' /\ work' \in [RebuildRequests -> SUBSET WorkItem]
  BY <1>3, <1>6, <1>7, <1>9, <1>10, <1>11, <1>12, WorkMoves
<1> QED
  BY <1>1, <1>2, <1>3, <1>8, <1>13

-----------------------------------------------------------------------------
(* Rebuild and cut-over: how a job ends, and how the process goes on *)

\* A job that is alive ends; an attempt that may have reached the provider becomes uncertain.
LEMMA TerminalizeKeeps ==
  ASSUME RebuildInv, Q \in RebuildRequests, job[Q].status \in Live, open' \subseteq open,
         NEW status \in OverStates, NEW rows, Terminalize(status, rows),
         \/ rows = work[Q]
         \/ I \in work[Q] /\ rows = (work[Q] \ {I}) \cup {[I EXCEPT !.state = "uncertain"]}
  PROVE  RebuildInv'
<1>1. /\ desired' = desired /\ clock' = clock /\ outbox' = outbox
      /\ active' = active /\ items' = items /\ store' = store /\ rebuildCrashes' = rebuildCrashes
      /\ job' = [job EXCEPT ![Q].status = status] /\ rebuildRun' = NotRunning
      /\ generation' = [generation EXCEPT ![G] = "failed"]
      /\ work' = [work EXCEPT ![Q] = {Unsettled(i) : i \in rows}] /\ G = Q
  BY DEF Terminalize, source, Q, G
<1>2. RebuildTyped /\ RowsCurrent /\ AuthoritySound /\ IndexKeepsUp /\ WorkSound /\ OpenSound
  BY DEF RebuildInv
<1>3. /\ work[Q] \subseteq WorkItem /\ job[Q] \in JobRow /\ Q \in Generations /\ active # Q
      /\ job \in [RebuildRequests -> JobRow] /\ generation[Q] = "building"
  BY <1>2 DEF RebuildTyped, AuthoritySound, Generations, Live
<1>4. \A i \in WorkItem : /\ Unsettled(i) \in WorkItem /\ SameKey(i, Unsettled(i))
                          /\ ItemSound(i) => ItemSound(Unsettled(i))
  BY DEF Unsettled, WorkItem, SameKey, ItemSound
<1>5. rows \subseteq WorkItem /\ (\A i \in rows : ItemSound(i))
      /\ (\A i, j \in rows : SameKey(i, j) => i = j) /\ (\A i \in work[Q] : \E j \in rows : SameKey(i, j))
  <2>1. CASE rows = work[Q]
    BY <1>2, <1>3, <2>1 DEF WorkSound, SameKey
  <2>2. CASE I \in work[Q] /\ rows = (work[Q] \ {I}) \cup {[I EXCEPT !.state = "uncertain"]}
    <3>1. PICK j : j = [I EXCEPT !.state = "uncertain"]
      OBVIOUS
    <3>2. I \in WorkItem /\ ItemSound(I)
      BY <1>2, <1>3, <2>2 DEF WorkSound
    <3>3. j \in WorkItem /\ SameKey(I, j) /\ ItemSound(j)
      BY <3>1, <3>2 DEF WorkItem, SameKey, ItemSound
    <3>4. \A h \in rows : h = j \/ (h \in work[Q] /\ h # I)
      BY <2>2, <3>1
    <3>5. \A h, k \in work[Q] : SameKey(h, k) => h = k
      BY <1>2 DEF WorkSound
    <3>6. \A h, k \in rows : SameKey(h, k) => h = k
      BY <2>2, <3>3, <3>4, <3>5 DEF SameKey
    <3>7. \A h \in work[Q] : h = I \/ h \in rows
      BY <2>2
    <3>8. \A h \in work[Q] : \E k \in rows : SameKey(h, k)
      BY <2>2, <3>1, <3>3, <3>7 DEF SameKey
    <3> QED
      BY <1>2, <1>3, <3>3, <3>4, <3>6, <3>8 DEF WorkSound
  <2> QED
    BY <2>1, <2>2
<1>6. PICK new : new = {Unsettled(i) : i \in rows}
  OBVIOUS
<1>7. /\ new \in SUBSET WorkItem /\ work' = [work EXCEPT ![Q] = new]
      /\ \A j \in new : ItemSound(j)
      /\ \A i \in work[Q] : \E j \in new : SameKey(i, j)
  BY <1>1, <1>4, <1>5, <1>6 DEF SameKey
<1>8. \A h, k \in new : SameKey(h, k) => h = k
  <2> SUFFICES ASSUME NEW h \in rows, NEW k \in rows, SameKey(Unsettled(h), Unsettled(k))
               PROVE  Unsettled(h) = Unsettled(k)
    BY <1>6
  <2>1. SameKey(h, k)
    BY <1>4, <1>5 DEF SameKey
  <2> QED
    BY <1>5, <2>1
<1>9. PICK row : row = [job[Q] EXCEPT !.status = status]
  OBVIOUS
<1>10. row \in JobRow /\ row.status = status /\ job' = [job EXCEPT ![Q] = row]
  BY <1>1, <1>3, <1>9 DEF JobRow
<1>11. status \notin Live /\ status \notin {"none", "registered", "completed"}
  BY DEF OverStates, Live
<1>12. job'[Q] = row /\ \A p \in RebuildRequests : p # Q => job'[p] = job[p]
  BY <1>3, <1>10
<1>13. WorkSound' /\ OpenSound' /\ work' \in [RebuildRequests -> SUBSET WorkItem]
  <2>1. \A j \in new : job'[Q].status \in Live /\ KeyOf(Q, j) \in open' => j.phase = "embedding_started"
    BY <1>10, <1>11, <1>12
  <2>2. UNCHANGED <<source, outbox>>
    BY <1>1 DEF source
  <2>3. \A p \in RebuildRequests : p # Q => job'[p].status = job[p].status
    BY <1>12
  <2>4. job'[Q].status \notin {"none", "registered"}
    BY <1>10, <1>11, <1>12
  <2> QED
    BY <1>7, <1>8, <2>1, <2>2, <2>3, <2>4, WorkMoves
<1>14. NotRunning \in RebuildState /\ RunFits(NotRunning)'
  BY RebuildAssumption DEF NotRunning, RebuildState, RebuildPcs, Mutations, RunFits, JobPcs, ItemPcs
<1>15. RebuildTyped'
  BY <1>1, <1>2, <1>3, <1>10, <1>13, <1>14 DEF RebuildTyped
<1>16. AuthoritySound'
  <2>1. active' # Nothing => generation'[active'] = "active"
    BY <1>1, <1>2, <1>3 DEF AuthoritySound, RebuildTyped
  <2>2. ASSUME NEW q \in RebuildRequests
        PROVE  /\ active' = q => job'[q].status = "completed"
               /\ job'[q].status \in Live =>
                    /\ job'[q].source = active' /\ generation'[q] = "building"
                    /\ \A p \in RebuildRequests : job'[p].status \in Live => p = q
    BY <1>1, <1>2, <1>3, <1>10, <1>11, <1>12 DEF AuthoritySound, RebuildTyped
  <2> QED
    BY <2>1, <2>2 DEF AuthoritySound
<1>17. RowsCurrent' /\ IndexKeepsUp'
  BY <1>1, <1>2 DEF RowsCurrent, IndexKeepsUp
<1> QED
  BY <1>1, <1>13, <1>14, <1>15, <1>16, <1>17 DEF RebuildInv

\* A job that fails or is cancelled.
LEMMA FailKeepsIndex ==
  ASSUME RebuildInv, Q \in RebuildRequests, job[Q].status \in Live, open' \subseteq open, Fail \/ Cancel
  PROVE  RebuildInv'
<1>1. "failed" \in OverStates /\ "cancelled" \in OverStates
  BY DEF OverStates
<1> QED
  BY <1>1, TerminalizeKeeps DEF Fail, Cancel

\* A job that fails with an attempt of which nothing is known.
LEMMA FailUnknownKeeps ==
  ASSUME RebuildInv, Q \in RebuildRequests, job[Q].status \in Live, open' \subseteq open, I \in work[Q],
         FailUnknown
  PROVE  RebuildInv'
<1>1. "failed" \in OverStates
  BY DEF OverStates
<1>2. PICK rows : rows = (work[Q] \ {I}) \cup {[I EXCEPT !.state = "uncertain"]}
  OBVIOUS
<1>3. Terminalize("failed", rows)
  BY <1>2 DEF FailUnknown, I
<1> QED
  BY <1>1, <1>2, <1>3, TerminalizeKeeps

\* The process is at a step of a job: the job is alive.
LEMMA AtJob ==
  ASSUME RebuildInv, rebuildRun.pc # "idle"
  PROVE  /\ Q \in RebuildRequests
         /\ rebuildRun.pc \in JobPcs => job[Q].status \in Live
         /\ rebuildRun.pc \in ItemPcs => I \in work[Q] /\ I \in WorkItem
BY RebuildTypes DEF RebuildInv, RunFits, Q, I

\* The item under way is persisted in its next phase.
LEMMA AdvanceKeeps ==
  ASSUME RebuildInv, rebuildRun.pc \in ItemPcs, NEW j \in WorkItem, NEW pc \in RebuildPcs \ {"idle"},
         AdvanceItem(j, pc), SameKey(I, j), j.id = I.id, j.state \notin {"applied", "superseded"},
         j.state = "pending" => j.phase = "not_started",
         open' \subseteq open, j.phase = "embedding_started" \/ KeyOf(Q, I) \notin open',
         pc \notin {"snapshot", "materialize", "mark", "promote", "done"},
         pc = "item" /\ j.kind # "bulk" => j.phase = "reserved",
         pc \in {"embed", "embedding", "embedded"} => j.phase = "embedding_started",
         pc \in {"write", "recover", "metadata", "finalize"} => j.phase = "vector_write_started",
         pc \in {"embed", "embedded"} => KeyOf(Q, I) \notin open'
  PROVE  RebuildInv'
<1>1. rebuildRun.pc # "idle" /\ rebuildRun.pc \in JobPcs
  BY DEF ItemPcs, JobPcs
<1>2. Q \in RebuildRequests /\ job[Q].status \in Live /\ I \in work[Q]
  BY <1>1, AtJob
<1>3. /\ desired' = desired /\ clock' = clock /\ outbox' = outbox /\ job' = job
      /\ active' = active /\ generation' = generation /\ items' = items /\ store' = store
      /\ rebuildCrashes' = rebuildCrashes /\ Replace(I, j)
      /\ rebuildRun' = [rebuildRun EXCEPT !.pc = pc, !.item = j]
  BY DEF AdvanceItem, source, index
<1>4. /\ WorkSound' /\ OpenSound' /\ work' \in [RebuildRequests -> SUBSET WorkItem]
      /\ j \in work'[Q] /\ KeyOf(Q, j) = KeyOf(Q, I)
  <2>1. UNCHANGED <<source, outbox, job>>
    BY <1>3 DEF source
  <2> QED
    BY <1>2, <1>3, <2>1, ItemMoves
<1>5. PICK x : x = [rebuildRun EXCEPT !.pc = pc, !.item = j]
  OBVIOUS
<1>6. x \in RebuildState /\ x.pc = pc /\ x.item = j /\ x.request = Q
  BY <1>5 DEF RebuildInv, RebuildTyped, RebuildState, Q
<1>7. RunFits(x)'
  <2>1. Q \in RebuildRequests /\ job'[Q].status \in Live /\ job'[Q].status # "registered" 
    BY <1>2, <1>3 DEF RebuildInv, WorkSound
  <2> QED
    BY <1>4, <1>6, <2>1 DEF RunFits
<1>8. RebuildTyped'
  BY <1>3, <1>4, <1>5, <1>6 DEF RebuildInv, RebuildTyped
<1> QED
  BY <1>3, <1>4, <1>5, <1>7, <1>8, IndexStays DEF RebuildInv, source, index

-----------------------------------------------------------------------------
(* Rebuild and cut-over: the process, step by step *)

\* Only the clock of the deadline, a crash, and what is waited for.
LEMMA AsideKeeps ==
  ASSUME RebuildInv, DeadlinePasses \/ RebuildCrash \/ Recover \/ Done
  PROVE  RebuildInv'
<1>1. rebuildRun \in RebuildState /\ RunFits(rebuildRun) /\ rebuildCrashes \in Nat
  BY DEF RebuildInv, RebuildTyped
<1>2. CASE DeadlinePasses
  <2>1. PICK x : x = [rebuildRun EXCEPT !.late = TRUE]
    OBVIOUS
  <2>2. x \in RebuildState /\ x.pc = rebuildRun.pc /\ x.item = rebuildRun.item /\ x.request = rebuildRun.request
    BY <1>1, <2>1 DEF RebuildState
  <2>3. RunFits(x)
    BY <1>1, <2>2 DEF RunFits
  <2>4. rebuildRun' = x /\ UNCHANGED <<source, outbox, index, jobs, open>> /\ rebuildCrashes' \in Nat
    BY <1>1, <1>2, <2>1 DEF DeadlinePasses
  <2> QED
    BY <2>2, <2>3, <2>4, RunMoves
<1>3. CASE rebuildRun' = NotRunning /\ (RebuildCrash \/ Recover \/ Done)
  BY <1>1, <1>3, RunEnds DEF RebuildCrash, Recover, Done
<1>4. CASE Recover /\ rebuildRun' = rebuildRun
  <2>1. rebuildCrashes' \in Nat /\ UNCHANGED <<source, outbox, index, jobs, open>>
    BY <1>1, <1>4 DEF Recover
  <2> QED
    BY <1>1, <1>4, <2>1, RunMoves
<1> QED
  BY <1>2, <1>3, <1>4 DEF RebuildCrash, Recover, Done

\* A pipeline that failed makes its job end.
LEMMA CompensateKeeps ==
  ASSUME RebuildInv, Compensate
  PROVE  RebuildInv'
<1>1. rebuildRun.pc = "failing" /\ Q \in RebuildRequests /\ rebuildCrashes \in Nat /\ open' = open
  BY AtJob DEF Compensate, RunAt, RebuildInv, RebuildTyped
<1>2. CASE job[Q].status \in Live /\ Fail
  BY <1>1, <1>2, FailKeepsIndex
<1>3. CASE rebuildRun' = NotRunning /\ UNCHANGED <<source, outbox, index, jobs, rebuildCrashes>>
  BY <1>1, <1>3, RunEnds
<1>4. CASE rebuildRun' = [rebuildRun EXCEPT !.pc = "recovery"] /\ UNCHANGED <<source, outbox, index, jobs, rebuildCrashes>>
  BY <1>1, <1>4, RunGoes DEF RunTo, RebuildPcs, JobPcs, ItemPcs
<1> QED
  BY <1>2, <1>3, <1>4 DEF Compensate

\* A storage error, wherever the process is.
LEMMA StorageFailsKeeps ==
  ASSUME RebuildInv, StorageFails
  PROVE  RebuildInv'
<1>1. rebuildRun \in RebuildState /\ RunFits(rebuildRun) /\ rebuildCrashes' \in Nat
  BY DEF RebuildInv, RebuildTyped, StorageFails
<1>2. rebuildRun.pc \notin {"idle", "failing", "recovery", "verify"} /\ rebuildRun.pc \in RebuildPcs
      /\ Q \in RebuildRequests
  BY <1>1, AtJob DEF StorageFails, RebuildState
<1>3. PICK pc : pc = IF rebuildRun.pc \in OuterSteps THEN "failing"
                     ELSE IF rebuildRun.item # Nothing /\ rebuildRun.item.kind = "catchup"
                          THEN "loop" ELSE "open"
  OBVIOUS
<1>4. PICK x : x = [rebuildRun EXCEPT !.item = Nothing, !.pc = pc]
  OBVIOUS
<1>5. pc = "failing" \/ (rebuildRun.pc \notin OuterSteps /\ pc \in {"loop", "open"})
  BY <1>3
<1>6. pc # "failing" => rebuildRun.pc \in JobPcs
  BY <1>2, <1>5 DEF RebuildPcs, JobPcs, OuterSteps
<1>7. pc # "failing" => job[Q].status \in Live
  BY <1>1, <1>6 DEF RunFits, Q
<1>8. x \in RebuildState /\ x.pc = pc /\ x.item = Nothing /\ x.request = Q
  BY <1>1, <1>4, <1>5 DEF RebuildState, RebuildPcs, JobPcs, Q
<1>9. RunFits(x)
  BY <1>2, <1>5, <1>7, <1>8 DEF RunFits, ItemPcs, JobPcs
<1>10. rebuildRun' = x /\ UNCHANGED <<source, outbox, index, jobs, open>>
  BY <1>3, <1>4 DEF StorageFails
<1> QED
  BY <1>1, <1>8, <1>9, <1>10, RunMoves

\* The process as a request finds it.
LEMMA EnterFits ==
  ASSUME RebuildInv, NEW q \in RebuildRequests, NEW pc \in {"open", "loop", "recovery"}, Enter(q, pc)
  PROVE  /\ rebuildRun' \in RebuildState /\ rebuildRun'.pc = pc
         /\ rebuildRun'.request = q /\ rebuildRun'.item = Nothing
<1>1. 0 \in Mutations
  BY RebuildAssumption DEF Mutations
<1> QED
  BY <1>1 DEF Enter, NotRunning, RebuildState, RebuildPcs, JobPcs

\* A repeated request goes on where its job is.
LEMMA ResumeKeeps ==
  ASSUME RebuildInv, NEW q \in RebuildRequests, Resume(q)
  PROVE  RebuildInv'
<1>1. rebuildCrashes' \in Nat /\ UNCHANGED <<source, outbox, index, jobs, open>>
  BY DEF RebuildInv, RebuildTyped, Resume
<1>2. CASE rebuildRun' = rebuildRun
  BY <1>1, <1>2, RunMoves DEF RebuildInv, RebuildTyped
<1>3. ASSUME NEW pc \in {"open", "loop", "recovery"}, Enter(q, pc), pc # "recovery" => job[q].status \in Live
      PROVE  RebuildInv'
  <2>1. PICK x : x = rebuildRun'
    OBVIOUS
  <2>2. x \in RebuildState /\ x.pc = pc /\ x.request = q /\ x.item = Nothing
    BY <1>3, <2>1, EnterFits
  <2>3. RunFits(x)
    BY <1>3, <2>2 DEF RunFits, ItemPcs, JobPcs
  <2> QED
    BY <1>1, <2>1, <2>2, <2>3, RunMoves
<1> QED
  BY <1>2, <1>3 DEF Resume, Live

\* Steps that only decide where to go on.
LEMMA DecisionKeeps ==
  ASSUME RebuildInv, OpenStore \/ SnapshotRefused \/ LeaseLateDelete \/ Classify \/ Verify
  PROVE  RebuildInv'
<1>1. rebuildCrashes \in Nat /\ open' = open /\ rebuildRun.pc # "idle" /\ Q \in RebuildRequests
  <2>1. rebuildCrashes \in Nat /\ open' = open /\ rebuildRun.pc # "idle"
    BY DEF RebuildInv, RebuildTyped, OpenStore, SnapshotRefused, LeaseLateDelete, Classify, Verify, RunAt
  <2> QED
    BY <2>1, AtJob
<1>2. CASE OpenStore
  <2>1. rebuildRun.pc = "open" /\ job[Q].status \in Live
    BY <1>1, <1>2, AtJob DEF OpenStore, RunAt, JobPcs
  <2>2. CASE Cancel
    BY <1>1, <2>1, <2>2, FailKeepsIndex
  <2>3. CASE RunTo("failing") /\ UNCHANGED <<source, outbox, index, jobs, rebuildCrashes>>
    BY <1>1, <2>1, <2>3, RunGoes DEF RebuildPcs, JobPcs, ItemPcs
  <2>4. CASE RunTo("snapshot") /\ job[Q].status = "registered" /\ UNCHANGED <<source, outbox, index, jobs, rebuildCrashes>>
    BY <1>1, <2>1, <2>4, RunGoes DEF RebuildPcs, JobPcs, ItemPcs
  <2>5. CASE RunTo("bulk") /\ UNCHANGED <<source, outbox, index, jobs, rebuildCrashes>>
    BY <1>1, <2>1, <2>5, RunGoes DEF RebuildPcs, JobPcs, ItemPcs
  <2> QED
    BY <1>2, <2>2, <2>3, <2>4, <2>5 DEF OpenStore
<1>3. CASE SnapshotRefused
  <2>1. rebuildRun.pc = "snapshot" /\ job[Q].status \in Live
    BY <1>1, <1>3, AtJob DEF SnapshotRefused, RunAt, JobPcs
  <2> QED
    BY <1>1, <1>3, <2>1, RunGoes DEF SnapshotRefused, RebuildPcs, JobPcs, ItemPcs
<1>4. CASE LeaseLateDelete
  <2>1. rebuildRun.pc = "promote" /\ job[Q].status \in Live /\ RunFits(rebuildRun) /\ rebuildRun \in RebuildState
    BY <1>1, <1>4, AtJob DEF LeaseLateDelete, RunAt, JobPcs, RebuildInv, RebuildTyped
  <2>2. PICK got \in BOOLEAN : rebuildRun' = [rebuildRun EXCEPT !.leased = got, !.pc = "loop"]
    BY <1>4 DEF LeaseLateDelete
  <2>3. PICK x : x = [rebuildRun EXCEPT !.leased = got, !.pc = "loop"]
    OBVIOUS
  <2>4. x \in RebuildState /\ x.pc = "loop" /\ x.request = Q /\ x.item = rebuildRun.item
    BY <2>1, <2>3 DEF RebuildState, RebuildPcs, JobPcs, Q
  <2>5. RunFits(x)
    BY <1>1, <2>1, <2>4 DEF RunFits, ItemPcs, JobPcs, Q
  <2>6. UNCHANGED <<source, outbox, index, jobs, open>> /\ rebuildCrashes' \in Nat
    BY <1>1, <1>4 DEF LeaseLateDelete
  <2> QED
    BY <2>2, <2>3, <2>4, <2>5, <2>6, RunMoves
<1>5. CASE Classify
  <2>1. rebuildRun.pc = "classify"
    BY <1>5 DEF Classify, RunAt
  <2>2. CASE Committed(Q) /\ RunStep("done")
    BY <1>1, <2>1, <2>2, RunGoes DEF Committed, PostImage, RunStep, RebuildPcs, JobPcs, ItemPcs
  <2>3. CASE PreImage(Q) /\ RunStep("loop")
    BY <1>1, <2>1, <2>3, RunGoes DEF PreImage, Live, RunStep, RebuildPcs, JobPcs, ItemPcs
  <2>4. CASE RunStep("recovery")
    BY <1>1, <2>1, <2>4, RunGoes DEF RunStep, RebuildPcs, JobPcs, ItemPcs
  <2> QED
    BY <1>5, <2>2, <2>3, <2>4 DEF Classify
<1>6. CASE Verify
  <2>1. rebuildRun.pc = "verify" /\ job[Q].status \in Live
    BY <1>1, <1>6, AtJob DEF Verify, RunAt, JobPcs
  <2>2. CASE Fail
    BY <1>1, <2>1, <2>2, FailKeepsIndex
  <2>3. CASE RunStep("loop")
    BY <1>1, <2>1, <2>3, RunGoes DEF RunStep, RebuildPcs, JobPcs, ItemPcs
  <2>4. CASE store[Q] = items[Q] /\ RunStep("mark")
    BY <1>1, <2>1, <2>4, RunGoes DEF RunStep, RebuildPcs, JobPcs, ItemPcs
  <2>5. CASE store[Q] = items[Q] /\ RunStep("promote")
    BY <1>1, <2>1, <2>5, RunGoes DEF RunStep, RebuildPcs, JobPcs, ItemPcs
  <2> QED
    BY <1>6, <2>2, <2>3, <2>4, <2>5 DEF Verify, Q, G
<1> QED
  BY <1>2, <1>3, <1>4, <1>5, <1>6

\* The head of the loop of catch-up.
LEMMA LoopKeeps ==
  ASSUME RebuildInv, Loop
  PROVE  RebuildInv'
<1>1. /\ rebuildRun.pc = "loop" /\ open' = open /\ Q \in RebuildRequests /\ job[Q].status \in Live
      /\ rebuildRun \in RebuildState /\ rebuildCrashes \in Nat /\ clock \in Mutations
  BY AtJob DEF Loop, RunAt, JobPcs, RebuildInv, RebuildTyped
<1>2. CASE Fail \/ Cancel
  BY <1>1, <1>2, FailKeepsIndex
<1>3. ASSUME NEW pc \in {"materialize", "verify"},
             pc = "materialize" => job[Q].status # "registered",
             rebuildRun' = [rebuildRun EXCEPT !.target = clock, !.item = Nothing, !.pc = pc],
             UNCHANGED <<source, outbox, index, jobs, rebuildCrashes, faults>>
      PROVE  RebuildInv'
  <2>1. PICK x : x = [rebuildRun EXCEPT !.target = clock, !.item = Nothing, !.pc = pc]
    OBVIOUS
  <2>2. x \in RebuildState /\ x.pc = pc /\ x.item = Nothing /\ x.request = Q
    BY <1>1, <2>1 DEF RebuildState, RebuildPcs, JobPcs, Q
  <2>3. RunFits(x)
    BY <1>1, <1>3, <2>2 DEF RunFits, ItemPcs
  <2> QED
    BY <1>1, <1>3, <2>1, <2>2, <2>3, RunMoves
<1> QED
  <2>1. CASE job[Q].status = "catching_up"
    BY <1>2, <1>3, <2>1 DEF Loop
  <2>2. CASE job[Q].status # "catching_up"
    BY <1>2, <1>3, <2>2 DEF Loop
  <2> QED
    BY <2>1, <2>2

-----------------------------------------------------------------------------
(* Rebuild and cut-over: one item *)

\* An attempt goes on to another phase.
LEMMA PhaseType ==
  ASSUME NEW i \in WorkItem,
         NEW p \in {"not_started", "reserved", "embedding_started", "vector_write_started", "finalized"}
  PROVE  /\ Phase(i, p) \in WorkItem /\ SameKey(i, Phase(i, p)) /\ Phase(i, p).phase = p
         /\ Phase(i, p).id = i.id /\ Phase(i, p).state = i.state /\ Phase(i, p).kind = i.kind
BY DEF Phase, WorkItem, SameKey

\* Where an item is under way its job is alive, and it has the phase of the step.
LEMMA AtItem ==
  ASSUME RebuildInv, rebuildRun.pc \in ItemPcs
  PROVE  /\ rebuildRun.pc # "idle" /\ Q \in RebuildRequests /\ job[Q].status \in Live
         /\ I \in work[Q] /\ I \in WorkItem /\ ItemSound(I) /\ Key(I) = KeyOf(Q, I)
         /\ rebuildRun.pc = "item" /\ ~Bulk => I.phase = "reserved"
         /\ rebuildRun.pc \in {"embed", "embedding", "embedded"} => I.phase = "embedding_started"
         /\ rebuildRun.pc \in {"write", "recover", "metadata", "finalize"} => I.phase = "vector_write_started"
         /\ rebuildRun.pc \in {"embed", "embedded"} => KeyOf(Q, I) \notin open
         /\ I.phase # "embedding_started" => KeyOf(Q, I) \notin open
<1>1. rebuildRun.pc # "idle" /\ rebuildRun.pc \in JobPcs
  BY DEF ItemPcs, JobPcs
<1>2. Q \in RebuildRequests /\ job[Q].status \in Live /\ I \in work[Q] /\ I \in WorkItem
  BY <1>1, AtJob
<1>3. ItemSound(I) /\ (I.phase # "embedding_started" => KeyOf(Q, I) \notin open)
  BY <1>2 DEF RebuildInv, WorkSound, OpenSound
<1>4. RunFits(rebuildRun)
  BY DEF RebuildInv
<1>5. /\ rebuildRun.pc = "item" /\ ~Bulk => I.phase = "reserved"
      /\ rebuildRun.pc \in {"embed", "embedding", "embedded"} => I.phase = "embedding_started"
      /\ rebuildRun.pc \in {"write", "recover", "metadata", "finalize"} => I.phase = "vector_write_started"
      /\ rebuildRun.pc \in {"embed", "embedded"} => KeyOf(Q, I) \notin open
  BY <1>4 DEF RunFits, ItemPcs, I, Q, Bulk
<1> QED
  BY <1>1, <1>2, <1>3, <1>5 DEF Key, KeyOf, Q

\* A processing or pending item is not over.
LEMMA ItemPhases ==
  ASSUME NEW i, ItemSound(i), i.phase # "finalized", i.phase # "not_started"
  PROVE  i.state \notin {"applied", "superseded", "pending"}
BY DEF ItemSound

\* The first step of an attempt, in whatever phase the last one left it.
LEMMA BeginKeeps ==
  ASSUME RebuildInv, BeginBulk \/ BeginCatchup
  PROVE  RebuildInv'
<1>1. rebuildRun.pc = "item" /\ rebuildRun.pc \in ItemPcs /\ open' = open
  BY DEF BeginBulk, BeginCatchup, RunAt, ItemPcs
<1>2. /\ Q \in RebuildRequests /\ job[Q].status \in Live /\ I \in work[Q] /\ I \in WorkItem /\ ItemSound(I)
      /\ (~Bulk => I.phase = "reserved") /\ (I.phase # "embedding_started" => KeyOf(Q, I) \notin open)
      /\ rebuildRun.pc # "idle"
  BY <1>1, AtItem
<1>3. ASSUME I.phase = "reserved", AdvanceItem(Phase(I, "embedding_started"), "embed")
      PROVE  RebuildInv'
  <2>1. PICK j : j = Phase(I, "embedding_started")
    OBVIOUS
  <2>2. j \in WorkItem /\ SameKey(I, j) /\ j.phase = "embedding_started" /\ j.id = I.id /\ j.state = I.state
    BY <1>2, <2>1, PhaseType
  <2>3. j.state \notin {"applied", "superseded", "pending"}
    BY <1>2, <1>3, <2>2, ItemPhases
  <2> QED
    BY <1>1, <1>2, <1>3, <2>1, <2>2, <2>3, AdvanceKeeps DEF RebuildPcs, JobPcs, ItemPcs
<1>4. ASSUME I.phase = "reserved", AdvanceItem(Phase(I, "vector_write_started"), "write")
      PROVE  RebuildInv'
  <2>1. PICK j : j = Phase(I, "vector_write_started")
    OBVIOUS
  <2>2. j \in WorkItem /\ SameKey(I, j) /\ j.phase = "vector_write_started" /\ j.id = I.id /\ j.state = I.state
    BY <1>2, <2>1, PhaseType
  <2>3. j.state \notin {"applied", "superseded", "pending"}
    BY <1>2, <1>4, <2>2, ItemPhases
  <2> QED
    BY <1>1, <1>2, <1>4, <2>1, <2>2, <2>3, AdvanceKeeps DEF RebuildPcs, JobPcs, ItemPcs
<1>5. CASE FailUnknown
  BY <1>1, <1>2, <1>5, FailUnknownKeeps
<1>6. CASE I.phase = "vector_write_started" /\ RunStep("recover")
  BY <1>1, <1>2, <1>6, RunGoes DEF RunStep, RebuildPcs, JobPcs, ItemPcs
<1>7. CASE RunStep("loop")
  BY <1>1, <1>2, <1>7, RunGoes DEF RunStep, RebuildPcs, JobPcs, ItemPcs
<1> QED
  BY <1>2, <1>3, <1>4, <1>5, <1>6, <1>7 DEF BeginBulk, BeginCatchup

\* An attempt whose call was not made, or was answered, is reserved again.
LEMMA NotSentKeeps ==
  ASSUME RebuildInv, rebuildRun.pc \in ItemPcs, open' \subseteq open, KeyOf(Q, I) \notin open',
         I.phase \in {"embedding_started", "vector_write_started"}, NEW pc \in {"open", "loop", "bulk"}, NotSent(pc)
  PROVE  RebuildInv'
<1>1. I \in WorkItem /\ ItemSound(I)
  BY AtItem
<1>2. PICK j : j = Phase(I, "reserved")
  OBVIOUS
<1>3. j \in WorkItem /\ SameKey(I, j) /\ j.phase = "reserved" /\ j.id = I.id /\ j.state = I.state
  BY <1>1, <1>2, PhaseType
<1>4. j.state \notin {"applied", "superseded", "pending"}
  BY <1>1, <1>3, ItemPhases
<1> QED
  BY <1>2, <1>3, <1>4, AdvanceKeeps DEF NotSent, RebuildPcs, JobPcs, ItemPcs

\* The call of the embedding provider.
LEMMA CallKeeps ==
  ASSUME RebuildInv, CallEmbedBulk \/ CallEmbedCatchup
  PROVE  RebuildInv'
<1>1. rebuildRun.pc = "embed" /\ rebuildRun.pc \in ItemPcs
  BY DEF CallEmbedBulk, CallEmbedCatchup, RunAt, ItemPcs
<1>2. /\ Q \in RebuildRequests /\ job[Q].status \in Live /\ I \in work[Q] /\ I.phase = "embedding_started"
      /\ KeyOf(Q, I) \notin open /\ rebuildRun.pc # "idle" /\ Key(I) = KeyOf(Q, I)
  BY <1>1, AtItem
<1>3. CASE (Fail \/ Cancel) /\ open' = open
  BY <1>2, <1>3, FailKeepsIndex
<1>4. CASE (NotSent("open") \/ NotSent("loop")) /\ open' = open
  BY <1>1, <1>2, <1>4, NotSentKeeps
<1>5. CASE Ask
  <2>1. PICK x : x = [rebuildRun EXCEPT !.pc = "embedding"]
    OBVIOUS
  <2>2. rebuildRun \in RebuildState /\ RunFits(rebuildRun) /\ RebuildTyped /\ WorkSound /\ OpenSound
    BY DEF RebuildInv, RebuildTyped
  <2>3. x \in RebuildState /\ x.pc = "embedding" /\ x.request = Q /\ x.item = I
    BY <2>1, <2>2 DEF RebuildState, RebuildPcs, JobPcs, ItemPcs, Q, I
  <2>4. /\ rebuildRun' = x /\ open' = open \cup {KeyOf(Q, I)} /\ rebuildCrashes' = rebuildCrashes
        /\ UNCHANGED <<source, outbox, index, job>> /\ work' = work /\ job' = job
        /\ desired' = desired /\ clock' = clock /\ outbox' = outbox
        /\ active' = active /\ generation' = generation /\ items' = items /\ store' = store
    BY <1>2, <1>5, <2>1 DEF Ask, RunStep, RunTo, jobs, source, index
  <2>5. WorkSound'
    BY <2>2, <2>4 DEF WorkSound, ItemSound
  <2>6. OpenSound'
    <3>1. \A i \in work[Q] : KeyOf(Q, i) = KeyOf(Q, I) => i = I
      BY <1>2, <2>2 DEF WorkSound, SameKey, KeyOf
    <3>2. \A q \in RebuildRequests : \A i : KeyOf(q, i) = KeyOf(Q, I) => q = Q
      BY DEF KeyOf
    <3>3. \A q \in RebuildRequests : job'[q].status \in Live =>
            \A i \in work'[q] : KeyOf(q, i) \in open' => i.phase = "embedding_started"
      BY <1>2, <2>2, <2>4, <3>1, <3>2 DEF OpenSound
    <3>4. \A k \in open' : \E q \in RebuildRequests : \E i \in work'[q] : k = KeyOf(q, i)
      BY <1>2, <2>2, <2>4 DEF OpenSound
    <3> QED
      BY <3>3, <3>4 DEF OpenSound
  <2>7. RunFits(x)'
    <3>1. job'[Q].status # "registered"
      BY <1>2, <2>2, <2>4 DEF WorkSound
    <3> QED
      BY <1>2, <2>3, <2>4, <3>1 DEF RunFits
  <2>8. RebuildTyped'
    BY <2>2, <2>3, <2>4 DEF RebuildTyped
  <2> QED
    BY <2>4, <2>5, <2>6, <2>7, <2>8, IndexStays DEF RebuildInv
<1> QED
  BY <1>3, <1>4, <1>5 DEF CallEmbedBulk, CallEmbedCatchup

\* Its answer, or what is known instead of it.
LEMMA EmbedReturnsKeeps ==
  ASSUME RebuildInv, EmbedReturns
  PROVE  RebuildInv'
<1>1. rebuildRun.pc = "embedding" /\ rebuildRun.pc \in ItemPcs
  BY DEF EmbedReturns, RunAt, ItemPcs
<1>2. /\ Q \in RebuildRequests /\ job[Q].status \in Live /\ I \in work[Q] /\ I.phase = "embedding_started"
      /\ I \in WorkItem /\ ItemSound(I) /\ rebuildRun.pc # "idle" /\ Key(I) = KeyOf(Q, I)
  BY <1>1, AtItem
<1>3. open' \subseteq open
  BY DEF EmbedReturns
<1>4. CASE Fail
  BY <1>2, <1>3, <1>4, FailKeepsIndex
<1>5. CASE FailUnknown
  BY <1>2, <1>3, <1>5, FailUnknownKeeps
<1>6. CASE NotSent(Back) /\ open' = open \ {Key(I)}
  <2>1. Back \in {"open", "loop", "bulk"}
    BY DEF Back
  <2> QED
    BY <1>1, <1>2, <1>3, <1>6, <2>1, NotSentKeeps
<1>7. CASE /\ AdvanceItem([I EXCEPT !.state = "pending", !.phase = "not_started"], Back)
           /\ open' = open \ {Key(I)}
  <2>1. PICK j : j = [I EXCEPT !.state = "pending", !.phase = "not_started"]
    OBVIOUS
  <2>2. j \in WorkItem /\ SameKey(I, j) /\ j.phase = "not_started" /\ j.id = I.id /\ j.state = "pending"
    BY <1>2, <2>1 DEF WorkItem, SameKey
  <2>3. PICK pc \in {"bulk", "loop"} : AdvanceItem(j, pc)
    BY <1>7, <2>1 DEF Back
  <2> QED
    BY <1>1, <1>2, <1>3, <1>7, <2>2, <2>3, AdvanceKeeps DEF RebuildPcs, JobPcs, ItemPcs
<1>8. CASE RunStep("embedded") /\ open' = open \ {Key(I)}
  <2>1. PICK x : x = [rebuildRun EXCEPT !.pc = "embedded"]
    OBVIOUS
  <2>2. rebuildRun \in RebuildState /\ RunFits(rebuildRun) /\ RebuildTyped /\ WorkSound /\ OpenSound
    BY DEF RebuildInv, RebuildTyped
  <2>3. x \in RebuildState /\ x.pc = "embedded" /\ x.request = Q /\ x.item = I
    BY <2>1, <2>2 DEF RebuildState, RebuildPcs, JobPcs, ItemPcs, Q, I
  <2>4. /\ rebuildRun' = x /\ open' = open \ {KeyOf(Q, I)} /\ rebuildCrashes' = rebuildCrashes
        /\ UNCHANGED <<source, outbox, index, job>> /\ work' = work /\ job' = job
        /\ desired' = desired /\ clock' = clock /\ outbox' = outbox
        /\ active' = active /\ generation' = generation /\ items' = items /\ store' = store
    BY <1>2, <1>8, <2>1 DEF RunStep, RunTo, jobs, source, index
  <2>5. WorkSound' /\ OpenSound'
    BY <2>2, <2>4 DEF WorkSound, ItemSound, OpenSound
  <2>6. RunFits(x)'
    <3>1. job'[Q].status # "registered"
      BY <1>2, <2>2, <2>4 DEF WorkSound
    <3> QED
      BY <1>2, <2>3, <2>4, <3>1 DEF RunFits
  <2>7. RebuildTyped'
    BY <2>2, <2>3, <2>4 DEF RebuildTyped
  <2> QED
    BY <2>4, <2>5, <2>6, <2>7, IndexStays DEF RebuildInv
<1> QED
  BY <1>4, <1>5, <1>6, <1>7, <1>8 DEF EmbedReturns

\* The write is announced before it is made.
LEMMA BeginWriteKeeps ==
  ASSUME RebuildInv, BeginWrite
  PROVE  RebuildInv'
<1>1. rebuildRun.pc = "embedded" /\ rebuildRun.pc \in ItemPcs /\ open' = open
  BY DEF BeginWrite, RunAt, ItemPcs
<1>2. /\ Q \in RebuildRequests /\ job[Q].status \in Live /\ I \in work[Q] /\ I.phase = "embedding_started"
      /\ I \in WorkItem /\ ItemSound(I) /\ rebuildRun.pc # "idle" /\ KeyOf(Q, I) \notin open
  BY <1>1, AtItem
<1>3. CASE Cancel
  BY <1>1, <1>2, <1>3, FailKeepsIndex
<1>4. CASE AdvanceItem(Phase(I, "vector_write_started"), "write")
  <2>1. PICK j : j = Phase(I, "vector_write_started")
    OBVIOUS
  <2>2. j \in WorkItem /\ SameKey(I, j) /\ j.phase = "vector_write_started" /\ j.id = I.id /\ j.state = I.state
    BY <1>2, <2>1, PhaseType
  <2>3. j.state \notin {"applied", "superseded", "pending"}
    BY <1>2, <2>2, ItemPhases
  <2> QED
    BY <1>1, <1>2, <1>4, <2>1, <2>2, <2>3, AdvanceKeeps DEF RebuildPcs, JobPcs, ItemPcs
<1> QED
  BY <1>3, <1>4 DEF BeginWrite

\* One document of one copy.
LEMMA CopyChanges ==
  ASSUME NEW f \in [Generations -> [Memories -> Mutations]], NEW g \in Generations, NEW m \in Memories,
         NEW t \in Mutations
  PROVE  /\ [f EXCEPT ![g][m] = t] \in [Generations -> [Memories -> Mutations]]
         /\ \A h \in Generations : h # g => [f EXCEPT ![g][m] = t][h] = f[h]
         /\ \A n \in Memories : [f EXCEPT ![g][m] = t][g][n] = IF n = m THEN t ELSE f[g][n]
<1>1. PICK row : row = [f[g] EXCEPT ![m] = t]
  OBVIOUS
<1>2. row \in [Memories -> Mutations] /\ \A n \in Memories : row[n] = IF n = m THEN t ELSE f[g][n]
  BY <1>1
<1>3. [f EXCEPT ![g][m] = t] = [f EXCEPT ![g] = row]
  BY <1>1
<1> QED
  BY <1>2, <1>3

\* The candidate changes, in its store or its metadata, and it is not the active generation.
LEMMA CandidateChanges ==
  ASSUME RebuildInv, rebuildRun.pc \in ItemPcs, NEW pc \in ItemPcs, RunTo(pc),
         \/ store' = [store EXCEPT ![G][I.memory] = I.target] /\ items' = items
         \/ items' = [items EXCEPT ![G][I.memory] = I.target] /\ store' = store,
         UNCHANGED <<source, outbox, active, generation, jobs, rebuildCrashes, open>>,
         pc \in {"recover", "finalize"}, I.phase = "vector_write_started"
  PROVE  RebuildInv'
<1>1. /\ Q \in RebuildRequests /\ job[Q].status \in Live /\ I \in work[Q] /\ I \in WorkItem
  BY AtItem
<1>2. /\ RebuildTyped /\ AuthoritySound /\ IndexKeepsUp /\ RowsCurrent /\ WorkSound /\ OpenSound
      /\ rebuildRun \in RebuildState
  BY DEF RebuildInv, RebuildTyped
<1>3. Q # active /\ Q \in Generations /\ I.memory \in Memories /\ I.target \in Mutations
  BY <1>1, <1>2 DEF AuthoritySound, Live, WorkItem, Generations
<1>4. /\ desired' = desired /\ clock' = clock /\ outbox' = outbox /\ job' = job /\ work' = work
      /\ active' = active /\ generation' = generation /\ open' = open /\ rebuildCrashes' = rebuildCrashes
  BY DEF source, jobs
<1>5. /\ store' \in [Generations -> [Memories -> Mutations]]
      /\ items' \in [Generations -> [Memories -> Mutations]]
      /\ \A g \in Generations : g # Q => store'[g] = store[g] /\ items'[g] = items[g]
  <2>1. G = Q
    BY DEF G, Q
  <2>2. CASE store' = [store EXCEPT ![G][I.memory] = I.target] /\ items' = items
    BY <1>2, <1>3, <2>1, <2>2, CopyChanges DEF RebuildTyped
  <2>3. CASE items' = [items EXCEPT ![G][I.memory] = I.target] /\ store' = store
    BY <1>2, <1>3, <2>1, <2>3, CopyChanges DEF RebuildTyped
  <2> QED
    BY <2>2, <2>3
<1>6. IndexKeepsUp'
  <2>1. CASE active = Nothing
    BY <1>4, <2>1 DEF IndexKeepsUp
  <2>2. CASE active \in Generations
    BY <1>2, <1>3, <1>4, <1>5, <2>2 DEF IndexKeepsUp
  <2> QED
    BY <1>2, <2>1, <2>2 DEF RebuildTyped
<1>7. WorkSound' /\ OpenSound' /\ AuthoritySound' /\ RowsCurrent'
  BY <1>2, <1>4 DEF WorkSound, ItemSound, OpenSound, AuthoritySound, RowsCurrent
<1>8. PICK x : x = [rebuildRun EXCEPT !.pc = pc]
  OBVIOUS
<1>9. x \in RebuildState /\ x.pc = pc /\ x.request = Q /\ x.item = I /\ rebuildRun' = x
  BY <1>2, <1>8 DEF RebuildState, RebuildPcs, JobPcs, Q, I, RunTo
<1>10. RunFits(x)'
  <2>1. job'[Q].status # "registered"
    BY <1>1, <1>2, <1>4 DEF WorkSound
  <2> QED
    BY <1>1, <1>4, <1>9, <2>1 DEF RunFits
<1>11. RebuildTyped'
  BY <1>2, <1>4, <1>5, <1>9 DEF RebuildTyped
<1> QED
  BY <1>6, <1>7, <1>9, <1>10, <1>11 DEF RebuildInv

\* The write, its recovery and its metadata.
LEMMA WriteKeeps ==
  ASSUME RebuildInv, WriteBulk \/ WriteCatchup \/ RecoverWrite \/ WriteMetadata
  PROVE  RebuildInv'
<1>1. rebuildRun.pc \in {"write", "recover", "metadata"} /\ rebuildRun.pc \in ItemPcs /\ open' = open
  BY DEF WriteBulk, WriteCatchup, RecoverWrite, WriteMetadata, RunAt, ItemPcs
<1>2. /\ Q \in RebuildRequests /\ job[Q].status \in Live /\ I \in work[Q] /\ I.phase = "vector_write_started"
      /\ I \in WorkItem /\ ItemSound(I) /\ rebuildRun.pc # "idle" /\ KeyOf(Q, I) \notin open
  BY <1>1, AtItem
<1>3. CASE FailUnknown
  BY <1>1, <1>2, <1>3, FailUnknownKeeps
<1>4. CASE Fail
  BY <1>1, <1>2, <1>4, FailKeepsIndex
<1>5. ASSUME NEW pc \in {"recover", "finalize", "metadata"}, RunStep(pc)
      PROVE  RebuildInv'
  BY <1>1, <1>2, <1>5, RunGoes DEF RunStep, RebuildPcs, JobPcs, ItemPcs
<1>6. CASE WriteTo("finalize") \/ WriteTo("recover")
  BY <1>1, <1>2, <1>6, CandidateChanges DEF WriteTo, ItemPcs
<1>7. CASE NotSent("loop")
  BY <1>1, <1>2, <1>7, NotSentKeeps
<1>8. CASE /\ items' = [items EXCEPT ![G][I.memory] = I.target] /\ RunTo("finalize")
           /\ UNCHANGED <<source, outbox, active, generation, store, jobs, rebuildCrashes, faults>>
  BY <1>1, <1>2, <1>8, CandidateChanges DEF ItemPcs
<1>9. CASE WriteBulk
  BY <1>3, <1>5, <1>6, <1>9 DEF WriteBulk
<1>10. CASE WriteCatchup
  BY <1>3, <1>5, <1>6, <1>7, <1>10 DEF WriteCatchup
<1>11. CASE RecoverWrite
  BY <1>3, <1>5, <1>11 DEF RecoverWrite
<1>12. CASE WriteMetadata
  BY <1>4, <1>8, <1>12 DEF WriteMetadata
<1> QED
  BY <1>9, <1>10, <1>11, <1>12

-----------------------------------------------------------------------------
(* Rebuild and cut-over: the job goes on *)

\* A living job changes and lives on, and the process with it.
LEMMA JobMoves ==
  ASSUME RebuildInv, NEW q \in RebuildRequests, NEW row \in JobRow, job[q].status \in Live,
         row.status \in Live, row.source = job[q].source,
         row.status # job[q].status => row.status # "registered",
         job' = [job EXCEPT ![q] = row],
         UNCHANGED <<source, outbox, index, work, rebuildCrashes, open>>,
         NEW x \in RebuildState, rebuildRun' = x, RunFits(x),
         x.pc = "snapshot" => row.status = job[q].status
  PROVE  RebuildInv'
<1>1. RebuildTyped /\ RowsCurrent /\ AuthoritySound /\ IndexKeepsUp /\ WorkSound /\ OpenSound
  BY DEF RebuildInv
<1>2. /\ desired' = desired /\ clock' = clock /\ outbox' = outbox /\ work' = work
      /\ active' = active /\ generation' = generation /\ items' = items /\ store' = store
      /\ open' = open /\ rebuildCrashes' = rebuildCrashes
  BY DEF source, index
<1>3. /\ job' \in [RebuildRequests -> JobRow] /\ job'[q] = row
      /\ \A p \in RebuildRequests : p # q => job'[p] = job[p]
  BY <1>1 DEF RebuildTyped
<1>4. \A p \in RebuildRequests :
        /\ job'[p].status \in Live <=> job[p].status \in Live
        /\ job'[p].status = "completed" <=> job[p].status = "completed"
        /\ job'[p].source = job[p].source
        /\ job'[p].status # job[p].status => p = q /\ job'[p].status # "registered"
        /\ job'[p].status \in {"none", "registered"} => job[p].status = job'[p].status
  BY <1>3 DEF Live
<1>5. AuthoritySound'
  BY <1>1, <1>2, <1>4 DEF AuthoritySound
<1>6. WorkSound' /\ OpenSound'
  BY <1>1, <1>2, <1>4 DEF WorkSound, OpenSound, ItemSound
<1>7. RowsCurrent' /\ IndexKeepsUp' /\ RebuildTyped'
  BY <1>1, <1>2, <1>3 DEF RowsCurrent, IndexKeepsUp, RebuildTyped
<1>8. RunFits(x)'
  <2>1. x.request \in RebuildRequests => (job'[x.request].status = "registered" => job[x.request].status = "registered")
    BY <1>4
  <2>2. x.pc = "snapshot" => x.request \in RebuildRequests /\ job'[x.request].status = "registered"
    BY <1>3, <1>4 DEF RunFits, JobPcs
  <2>3. x.pc \in JobPcs => x.request \in RebuildRequests
    BY DEF RunFits, JobPcs, ItemPcs
  <2>4. x.pc = "done" => x.request \in RebuildRequests
    BY DEF RunFits
  <2> QED
    BY <1>2, <1>4, <2>1, <2>2, <2>3, <2>4 DEF RunFits
<1> QED
  BY <1>5, <1>6, <1>7, <1>8 DEF RebuildInv

\* A cancellation is only noted.
LEMMA RequestCancelKeeps ==
  ASSUME RebuildInv, NEW q \in RebuildRequests, RequestCancel(q)
  PROVE  RebuildInv'
<1>1. PICK row : row = [job[q] EXCEPT !.cancel = TRUE]
  OBVIOUS
<1>2. job[q] \in JobRow /\ rebuildRun \in RebuildState /\ RunFits(rebuildRun)
  BY DEF RebuildInv, RebuildTyped
<1>3. /\ row \in JobRow /\ row.status = job[q].status /\ row.source = job[q].source
      /\ job' = [job EXCEPT ![q] = row]
  BY <1>1, <1>2 DEF JobRow, RequestCancel
<1>4. /\ UNCHANGED <<source, outbox, index, work, rebuildCrashes, open>>
      /\ rebuildRun' = rebuildRun /\ job[q].status \in Live
  BY DEF RequestCancel
<1> QED
  BY <1>2, <1>3, <1>4, JobMoves

\* What D does to the status of its job.
LEMMA StatusMoves ==
  ASSUME RebuildInv, rebuildRun.pc # "idle", rebuildRun.pc \in JobPcs, NEW row,
         \/ \E t \in Mutations : \E s \in {"verifying", "catching_up"} :
              row = [job[Q] EXCEPT !.status = s, !.caughtUp = t]
         \/ row = [job[Q] EXCEPT !.status = "ready"]
         \/ row = [job[Q] EXCEPT !.status = "catching_up"],
         job' = [job EXCEPT ![Q] = row],
         UNCHANGED <<source, outbox, index, work, rebuildCrashes, open>>,
         NEW x \in RebuildState, rebuildRun' = x, x.request = Q, x.item \in {I, Nothing},
         x.pc \in {"loop", "verify"}
  PROVE  RebuildInv'
<1>1. Q \in RebuildRequests /\ job[Q].status \in Live
  BY AtJob
<1>2. job[Q] \in JobRow
  BY <1>1, RebuildTypes
<1>3. row \in JobRow /\ row.status \in Live /\ row.source = job[Q].source /\ row.status # "registered"
  BY <1>2 DEF JobRow, Live
<1>4. RunFits(rebuildRun)
  BY DEF RebuildInv
<1>5. RunFits(x)
  BY <1>1, <1>4 DEF RunFits, ItemPcs, JobPcs, Q, I
<1> QED
  BY <1>1, <1>3, <1>5, JobMoves

\* The round is over: something is behind, or the job verifies.
LEMMA AdvanceCatchupKeeps ==
  ASSUME RebuildInv, AdvanceCatchup
  PROVE  RebuildInv'
<1>1. /\ rebuildRun.pc = "advance" /\ open' = open /\ rebuildRun.pc \in JobPcs
      /\ rebuildRun \in RebuildState /\ rebuildRun.target \in Mutations
  BY RebuildTypes DEF AdvanceCatchup, RunAt, JobPcs, RebuildInv, RebuildTyped
<1>2. Q \in RebuildRequests /\ job[Q].status \in Live
  BY <1>1, AtJob
<1>3. ASSUME NEW pc \in {"loop", "failing"}, RunStep(pc)
      PROVE  RebuildInv'
  BY <1>1, <1>2, <1>3, RunGoes DEF RunStep, RebuildPcs, JobPcs, ItemPcs
<1>4. CASE /\ job' = [job EXCEPT ![Q].status = "verifying", ![Q].caughtUp = rebuildRun.target]
           /\ RunTo("verify") /\ UNCHANGED <<source, outbox, index, work, resolved, rebuildCrashes, faults>>
  <2>1. PICK row : row = [job[Q] EXCEPT !.status = "verifying", !.caughtUp = rebuildRun.target]
    OBVIOUS
  <2>2. job' = [job EXCEPT ![Q] = row]
    BY <1>2, <1>4, <2>1 DEF RebuildInv, RebuildTyped
  <2>3. PICK x : x = [rebuildRun EXCEPT !.pc = "verify"]
    OBVIOUS
  <2>4. x \in RebuildState /\ x.pc = "verify" /\ x.request = Q /\ x.item = I /\ rebuildRun' = x
    BY <1>1, <1>4, <2>3 DEF RebuildState, RebuildPcs, JobPcs, Q, I, RunTo
  <2>5. \E t \in Mutations : \E s \in {"verifying", "catching_up"} :
              row = [job[Q] EXCEPT !.status = s, !.caughtUp = t]
    BY <1>1, <2>1
  <2> QED
    BY <1>1, <1>4, <2>2, <2>4, <2>5, StatusMoves
<1> QED
  BY <1>3, <1>4 DEF AdvanceCatchup

\* Something is behind again.
LEMMA BehindKeeps ==
  ASSUME RebuildInv, rebuildRun.pc # "idle", rebuildRun.pc \in JobPcs, BehindAgain, open' = open,
         NEW x \in RebuildState, rebuildRun' = x, x.request = Q, x.item \in {I, Nothing}, x.pc = "loop"
  PROVE  RebuildInv'
<1>1. PICK row : row = [job[Q] EXCEPT !.status = "catching_up", !.caughtUp = 0]
  OBVIOUS
<1>2. Q \in RebuildRequests /\ 0 \in Mutations
  BY AtJob, RebuildAssumption DEF Mutations
<1>3. job' = [job EXCEPT ![Q] = row]
  BY <1>1, <1>2 DEF RebuildInv, RebuildTyped, BehindAgain
<1>4. \E t \in Mutations : \E s \in {"verifying", "catching_up"} :
            row = [job[Q] EXCEPT !.status = s, !.caughtUp = t]
  BY <1>1, <1>2
<1>5. UNCHANGED <<source, outbox, index, work, rebuildCrashes, open>>
  BY DEF BehindAgain
<1> QED
  BY <1>3, <1>4, <1>5, StatusMoves

\* The candidate is ready, unless something is behind again.
LEMMA MarkReadyKeeps ==
  ASSUME RebuildInv, MarkReady
  PROVE  RebuildInv'
<1>1. /\ rebuildRun.pc = "mark" /\ rebuildRun.pc \in JobPcs /\ open' = open /\ rebuildRun \in RebuildState
      /\ RunTo("loop")
  BY DEF MarkReady, RunAt, JobPcs, RebuildInv, RebuildTyped
<1>2. Q \in RebuildRequests
  BY <1>1, AtJob
<1>3. PICK x : x = [rebuildRun EXCEPT !.pc = "loop"]
  OBVIOUS
<1>4. x \in RebuildState /\ x.pc = "loop" /\ x.request = Q /\ x.item = I /\ rebuildRun' = x
  BY <1>1, <1>3 DEF RebuildState, RebuildPcs, JobPcs, Q, I, RunTo
<1>5. CASE BehindAgain
  BY <1>1, <1>4, <1>5, BehindKeeps
<1>6. CASE /\ job' = [job EXCEPT ![Q].status = "ready"]
           /\ UNCHANGED <<source, outbox, index, work, resolved, rebuildCrashes, faults>>
  <2>1. PICK row : row = [job[Q] EXCEPT !.status = "ready"]
    OBVIOUS
  <2>2. job' = [job EXCEPT ![Q] = row]
    BY <1>2, <1>6, <2>1 DEF RebuildInv, RebuildTyped
  <2> QED
    BY <1>1, <1>4, <1>6, <2>1, <2>2, StatusMoves
<1> QED
  BY <1>5, <1>6 DEF MarkReady

\* A job is registered for a generation that was never active.
LEMMA RegisterKeeps ==
  ASSUME RebuildInv, NEW q \in RebuildRequests, Register(q)
  PROVE  RebuildInv'
<1>1. RebuildTyped /\ RowsCurrent /\ AuthoritySound /\ IndexKeepsUp /\ WorkSound /\ OpenSound
  BY DEF RebuildInv
<1>2. /\ desired' = desired /\ clock' = clock /\ outbox' = outbox /\ work' = work
      /\ active' = active /\ items' = items /\ store' = store
      /\ open' = open /\ rebuildCrashes' = rebuildCrashes
      /\ generation' = [generation EXCEPT ![q] = "building"] /\ Enter(q, "open")
      /\ job[q].status = "none" /\ \A p \in RebuildRequests : job[p].status \notin Live
  BY DEF source, Register
<1>3. PICK row : row = [NoJob EXCEPT !.status = "registered", !.source = active]
  OBVIOUS
<1>4. row \in JobRow /\ row.status = "registered" /\ row.source = active /\ job' = [job EXCEPT ![q] = row]
  <2>1. 0 \in Mutations /\ active \in Generations \cup {Nothing} /\ job' = [job EXCEPT ![q] = row]
    BY <1>1, <1>3, RebuildAssumption DEF Register, RebuildTyped, Mutations
  <2>2. row = [status |-> "registered", source |-> active, caughtUp |-> 0, promoted |-> 0, cancel |-> FALSE]
    BY <1>3 DEF NoJob
  <2> QED
    BY <2>1, <2>2 DEF JobRow, Live
<1>5. job'[q] = row /\ (\A p \in RebuildRequests : p # q => job'[p] = job[p])
      /\ job' \in [RebuildRequests -> JobRow]
  BY <1>1, <1>4 DEF RebuildTyped
<1>6. q \in Generations /\ active # q /\ "registered" \in Live
  BY <1>1, <1>2 DEF AuthoritySound, Generations, Live
<1>7. AuthoritySound'
  <2>1. active' # Nothing => generation'[active'] = "active"
    BY <1>1, <1>2, <1>6 DEF AuthoritySound, RebuildTyped
  <2>2. generation'[q] = "building"
    BY <1>1, <1>2, <1>6 DEF RebuildTyped
  <2> QED
    BY <1>1, <1>2, <1>4, <1>5, <1>6, <2>1, <2>2 DEF AuthoritySound
<1>8. WorkSound'
  BY <1>1, <1>2, <1>5 DEF WorkSound, ItemSound
<1>9. OpenSound'
  BY <1>1, <1>2, <1>5 DEF WorkSound, OpenSound
<1>10. PICK x : x = rebuildRun'
  OBVIOUS
<1>11. x \in RebuildState /\ x.pc = "open" /\ x.request = q /\ x.item = Nothing
  BY <1>2, <1>10, EnterFits
<1>12. RunFits(x)'
  BY <1>4, <1>5, <1>6, <1>11 DEF RunFits, ItemPcs, JobPcs
<1>13. RebuildTyped' /\ RowsCurrent' /\ IndexKeepsUp'
  BY <1>1, <1>2, <1>5, <1>10, <1>11 DEF RebuildTyped, RowsCurrent, IndexKeepsUp
<1> QED
  BY <1>7, <1>8, <1>9, <1>10, <1>12, <1>13 DEF RebuildInv

\* The next item is reserved, of the snapshot or of the catch-up.
LEMMA TakeKeeps ==
  ASSUME RebuildInv, rebuildRun.pc # "idle", rebuildRun.pc \in JobPcs, NEW i \in work[Q], NEW j \in WorkItem,
         Replace(i, j), SameKey(i, j), j.id = i.id, j.state = "processing",
         j.phase = "embedding_started" \/ KeyOf(Q, i) \notin open,
         j.kind # "bulk" => j.phase = "reserved",
         rebuildRun' = [rebuildRun EXCEPT !.pc = "item", !.item = j],
         UNCHANGED <<source, outbox, index, job, rebuildCrashes, open>>
  PROVE  RebuildInv'
<1>1. Q \in RebuildRequests /\ job[Q].status \in Live
  BY AtJob
<1>2. /\ desired' = desired /\ clock' = clock /\ outbox' = outbox /\ job' = job /\ open' = open
      /\ active' = active /\ generation' = generation /\ items' = items /\ store' = store
      /\ rebuildCrashes' = rebuildCrashes
  BY DEF source, index
<1>3. /\ WorkSound' /\ OpenSound' /\ work' \in [RebuildRequests -> SUBSET WorkItem] /\ j \in work'[Q]
  BY <1>1, <1>2, ItemMoves
<1>4. PICK x : x = [rebuildRun EXCEPT !.pc = "item", !.item = j]
  OBVIOUS
<1>5. x \in RebuildState /\ x.pc = "item" /\ x.item = j /\ x.request = Q
  BY <1>4 DEF RebuildInv, RebuildTyped, RebuildState, RebuildPcs, JobPcs, ItemPcs, Q
<1>6. RunFits(x)'
  <2>1. job'[Q].status # "registered"
    BY <1>1, <1>2 DEF RebuildInv, WorkSound
  <2> QED
    BY <1>1, <1>2, <1>3, <1>5, <2>1 DEF RunFits
<1>7. RebuildTyped'
  BY <1>2, <1>3, <1>4, <1>5 DEF RebuildInv, RebuildTyped
<1> QED
  BY <1>3, <1>4, <1>6, <1>7, IndexStays DEF RebuildInv

\* What reserving makes of an item.
LEMMA ReservedItem ==
  ASSUME RebuildInv, Q \in RebuildRequests, job[Q].status \in Live, NEW i \in work[Q],
         i.state \in {"pending", "processing"}, i.state = "pending" => i.tries < MaxRebuildAttempts
  PROVE  /\ Reserved(i) \in WorkItem /\ SameKey(i, Reserved(i)) /\ Reserved(i).id = i.id
         /\ Reserved(i).state = "processing"
         /\ Reserved(i).phase = "embedding_started" \/ KeyOf(Q, i) \notin open
         /\ i.state = "pending" => Reserved(i).phase = "reserved"
         /\ i.state = "processing" => Reserved(i).phase = i.phase
<1>1. i \in WorkItem /\ ItemSound(i) /\ (KeyOf(Q, i) \in open => i.phase = "embedding_started")
  BY RebuildTypes DEF RebuildInv, WorkSound, OpenSound
<1>2. CASE i.state = "pending"
  <2>1. i.tries + 1 \in 0..MaxRebuildAttempts /\ i.phase = "not_started"
    BY <1>1, <1>2, RebuildAssumption DEF WorkItem, ItemSound
  <2>2. PICK j : j = [i EXCEPT !.state = "processing", !.phase = "reserved", !.tries = @ + 1]
    OBVIOUS
  <2>3. j \in WorkItem /\ SameKey(i, j) /\ j.id = i.id /\ j.state = "processing" /\ j.phase = "reserved"
    BY <1>1, <2>1, <2>2 DEF WorkItem, SameKey
  <2>4. Reserved(i) = j
    BY <1>2, <2>2 DEF Reserved
  <2> QED
    BY <1>1, <1>2, <2>1, <2>3, <2>4
<1>3. CASE i.state = "processing"
  BY <1>1, <1>3 DEF Reserved, SameKey
<1> QED
  BY <1>2, <1>3

\* The loop of C.
LEMMA NextBulkKeeps ==
  ASSUME RebuildInv, NextBulk
  PROVE  RebuildInv'
<1>1. rebuildRun.pc = "bulk" /\ rebuildRun.pc \in JobPcs /\ open' = open /\ rebuildRun \in RebuildState
  BY DEF NextBulk, RunAt, JobPcs, RebuildInv, RebuildTyped
<1>2. Q \in RebuildRequests /\ job[Q].status \in Live /\ job[Q] \in JobRow
  BY <1>1, AtJob, RebuildTypes
<1>3. CASE Cancel
  BY <1>1, <1>2, <1>3, FailKeepsIndex
<1>4. CASE RunTo("failing") /\ UNCHANGED <<source, outbox, index, job, work, resolved, rebuildCrashes, faults>>
  <2>1. UNCHANGED jobs
    BY <1>4 DEF jobs
  <2> QED
    BY <1>1, <1>2, <1>4, <2>1, RunGoes DEF RebuildPcs, JobPcs, ItemPcs
<1>5. ASSUME NEW i \in work[Q], i.kind = "bulk", i.state \in {"pending", "processing"},
             ~(i.state = "pending" /\ i.tries >= MaxRebuildAttempts), Replace(i, Reserved(i)),
             rebuildRun' = [rebuildRun EXCEPT !.pc = "item", !.item = Reserved(i)],
             UNCHANGED <<source, outbox, index, job, rebuildCrashes>>
      PROVE  RebuildInv'
  <2>1. PICK j : j = Reserved(i)
    OBVIOUS
  <2>2. i.state = "pending" => i.tries < MaxRebuildAttempts
    BY <1>2, <1>5, RebuildTypes, RebuildAssumption DEF WorkItem
  <2>3. /\ j \in WorkItem /\ SameKey(i, j) /\ j.id = i.id /\ j.state = "processing"
        /\ j.phase = "embedding_started" \/ KeyOf(Q, i) \notin open
    BY <1>2, <1>5, <2>1, <2>2, ReservedItem
  <2>4. j.kind = "bulk"
    BY <1>5, <2>3 DEF SameKey
  <2> QED
    BY <1>1, <1>5, <2>1, <2>3, <2>4, TakeKeeps
<1>6. CASE /\ job' = [job EXCEPT ![Q].status = "catching_up"]
           /\ rebuildRun' = [rebuildRun EXCEPT !.pc = "loop", !.item = Nothing]
           /\ UNCHANGED <<source, outbox, index, work, resolved, rebuildCrashes, faults>>
  <2>1. PICK row : row = [job[Q] EXCEPT !.status = "catching_up"]
    OBVIOUS
  <2>2. job' = [job EXCEPT ![Q] = row]
    BY <1>2, <1>6, <2>1 DEF RebuildInv, RebuildTyped
  <2>3. PICK x : x = [rebuildRun EXCEPT !.pc = "loop", !.item = Nothing]
    OBVIOUS
  <2>4. x \in RebuildState /\ x.pc = "loop" /\ x.request = Q /\ x.item = Nothing
    BY <1>1, <2>3 DEF RebuildState, RebuildPcs, JobPcs, Q
  <2> QED
    BY <1>1, <1>6, <2>1, <2>2, <2>3, <2>4, StatusMoves
<1> QED
  BY <1>1, <1>3, <1>4, <1>5, <1>6 DEF NextBulk

\* The next item of the catch-up.
LEMMA ReserveKeeps ==
  ASSUME RebuildInv, Reserve
  PROVE  RebuildInv'
<1>1. rebuildRun.pc = "reserve" /\ rebuildRun.pc \in JobPcs /\ open' = open
  BY DEF Reserve, RunAt, JobPcs
<1>2. Q \in RebuildRequests /\ job[Q].status \in Live
  BY <1>1, AtJob
<1>3. CASE RunStep("advance")
  BY <1>1, <1>2, <1>3, RunGoes DEF RunStep, RebuildPcs, JobPcs, ItemPcs
<1>4. ASSUME NEW i \in work[Q], Reservable(i), Replace(i, [Reserved(i) EXCEPT !.phase = "reserved"]),
             rebuildRun' = [rebuildRun EXCEPT !.pc = "item", !.item = [Reserved(i) EXCEPT !.phase = "reserved"]],
             UNCHANGED <<source, outbox, index, job, rebuildCrashes>>
      PROVE  RebuildInv'
  <2>1. PICK j : j = [Reserved(i) EXCEPT !.phase = "reserved"]
    OBVIOUS
  <2>2. i.state \in {"pending", "processing"} /\ i.tries < MaxRebuildAttempts
    BY <1>4 DEF Reservable
  <2>3. PICK h : h = Reserved(i)
    OBVIOUS
  <2>4. /\ h \in WorkItem /\ SameKey(i, h) /\ h.id = i.id /\ h.state = "processing"
        /\ h.phase = "embedding_started" \/ KeyOf(Q, i) \notin open
        /\ i.state = "pending" => h.phase = "reserved"
        /\ i.state = "processing" => h.phase = i.phase
    BY <1>2, <2>2, <2>3, ReservedItem
  <2>5. h.phase = "reserved"
    BY <1>4, <2>2, <2>4 DEF Reservable
  <2>6. j \in WorkItem /\ SameKey(i, j) /\ j.id = i.id /\ j.state = "processing" /\ j.phase = "reserved"
    BY <2>1, <2>3, <2>4 DEF WorkItem, SameKey
  <2> QED
    BY <1>1, <1>4, <2>1, <2>4, <2>5, <2>6, TakeKeeps
<1> QED
  BY <1>1, <1>3, <1>4 DEF Reserve

\* An item is applied, with its metadata or after it.
LEMMA FinalizeKeeps ==
  ASSUME RebuildInv, FinalizeBulk \/ FinalizeCatchup
  PROVE  RebuildInv'
<1>1. rebuildRun.pc = "finalize" /\ rebuildRun.pc \in ItemPcs /\ open' = open
  BY DEF FinalizeBulk, FinalizeCatchup, RunAt, ItemPcs
<1>2. /\ Q \in RebuildRequests /\ job[Q].status \in Live /\ I \in work[Q] /\ I.phase = "vector_write_started"
      /\ I \in WorkItem /\ rebuildRun.pc # "idle" /\ KeyOf(Q, I) \notin open
  BY <1>1, AtItem
<1>3. CASE Fail
  BY <1>1, <1>2, <1>3, FailKeepsIndex
<1>4. ASSUME Applying, NEW pc \in {"bulk", "reserve"},
             rebuildRun' = [rebuildRun EXCEPT !.pc = pc, !.item = Nothing],
             items' = items \/ items' = [items EXCEPT ![G][I.memory] = I.target],
             UNCHANGED <<source, outbox, active, generation, store, job, rebuildCrashes>>
      PROVE  RebuildInv'
  <2>1. /\ desired' = desired /\ clock' = clock /\ outbox' = outbox /\ job' = job /\ open' = open
        /\ active' = active /\ generation' = generation /\ store' = store
        /\ rebuildCrashes' = rebuildCrashes
    BY <1>1, <1>4 DEF source
  <2>2. PICK j : j = [I EXCEPT !.state = "applied", !.phase = "finalized"]
    OBVIOUS
  <2>3. /\ j \in WorkItem /\ SameKey(I, j) /\ j.id = I.id /\ j.state = "applied" /\ j.phase = "finalized"
        /\ Replace(I, j)
    BY <1>2, <1>4, <2>2 DEF WorkItem, SameKey, Applying
  <2>4. /\ WorkSound' /\ OpenSound' /\ work' \in [RebuildRequests -> SUBSET WorkItem]
    <3>1. UNCHANGED <<source, outbox, job>> /\ open' \subseteq open
      BY <2>1 DEF source
    <3> QED
      BY <1>2, <2>1, <2>3, <3>1, ItemMoves
  <2>5. /\ RebuildTyped /\ AuthoritySound /\ IndexKeepsUp /\ RowsCurrent /\ rebuildRun \in RebuildState
        /\ RunFits(rebuildRun)
    BY DEF RebuildInv, RebuildTyped
  <2>6. Q # active /\ Q \in Generations /\ I.memory \in Memories /\ I.target \in Mutations /\ G = Q
    BY <1>2, <2>5 DEF AuthoritySound, Live, WorkItem, Generations, G, Q
  <2>7. /\ items' \in [Generations -> [Memories -> Mutations]]
        /\ \A g \in Generations : g # Q => items'[g] = items[g]
    <3>1. CASE items' = items
      BY <2>5, <3>1 DEF RebuildTyped
    <3>2. CASE items' = [items EXCEPT ![G][I.memory] = I.target]
      BY <2>5, <2>6, <3>2, CopyChanges DEF RebuildTyped
    <3> QED
      BY <1>4, <3>1, <3>2
  <2>8. IndexKeepsUp'
    <3>1. CASE active = Nothing
      BY <2>1, <3>1 DEF IndexKeepsUp
    <3>2. CASE active \in Generations
      BY <2>1, <2>5, <2>6, <2>7, <3>2 DEF IndexKeepsUp
    <3> QED
      BY <2>5, <3>1, <3>2 DEF RebuildTyped
  <2>9. AuthoritySound' /\ RowsCurrent'
    BY <2>1, <2>5 DEF AuthoritySound, RowsCurrent
  <2>10. PICK x : x = [rebuildRun EXCEPT !.pc = pc, !.item = Nothing]
    OBVIOUS
  <2>11. x \in RebuildState /\ x.pc = pc /\ x.request = Q /\ x.item = Nothing /\ rebuildRun' = x
    BY <1>4, <2>5, <2>10 DEF RebuildState, RebuildPcs, JobPcs, Q
  <2>12. RunFits(x)'
    BY <1>2, <2>1, <2>11 DEF RunFits, ItemPcs
  <2>13. RebuildTyped'
    BY <2>1, <2>4, <2>5, <2>7, <2>11 DEF RebuildTyped
  <2> QED
    BY <2>4, <2>8, <2>9, <2>11, <2>12, <2>13 DEF RebuildInv
<1>5. CASE FinalizeBulk
  BY <1>4, <1>5 DEF FinalizeBulk
<1>6. CASE FinalizeCatchup
  BY <1>3, <1>4, <1>6 DEF FinalizeCatchup, index
<1> QED
  BY <1>5, <1>6

\* The snapshot of the eligible memories.
LEMMA SnapshotKeeps ==
  ASSUME RebuildInv, Snapshot
  PROVE  RebuildInv'
<1>1. /\ rebuildRun.pc = "snapshot" /\ rebuildRun.pc \in JobPcs /\ open' = open /\ rebuildRun \in RebuildState
      /\ RunFits(rebuildRun) /\ RebuildTyped /\ WorkSound /\ OpenSound /\ AuthoritySound /\ RebuildTyped
      /\ RowsCurrent
  BY DEF Snapshot, RunAt, JobPcs, RebuildInv, RebuildTyped
<1>2. Q \in RebuildRequests /\ job[Q].status = "registered" /\ job[Q] \in JobRow /\ I = Nothing /\ work[Q] = {}
  BY <1>1, AtJob, RebuildTypes DEF RunFits, Q, I, WorkSound
<1>3. /\ desired' = desired /\ clock' = clock /\ outbox' = outbox
      /\ active' = active /\ generation' = generation /\ items' = items /\ store' = store
      /\ rebuildCrashes' = rebuildCrashes /\ job' = [job EXCEPT ![Q].status = "bulk_building"]
  BY DEF Snapshot, source, index
<1>4. PICK row : row = [job[Q] EXCEPT !.status = "bulk_building"]
  OBVIOUS
<1>5. row \in JobRow /\ row.status = "bulk_building" /\ row.source = job[Q].source /\ job' = [job EXCEPT ![Q] = row]
  BY <1>1, <1>2, <1>3, <1>4 DEF JobRow, Live, RebuildTyped
<1>6. /\ job'[Q] = row /\ job' \in [RebuildRequests -> JobRow]
      /\ \A p \in RebuildRequests : p # Q => job'[p] = job[p]
  BY <1>1, <1>2, <1>5 DEF RebuildTyped
<1>7. PICK new : new = {[NoItem(m) EXCEPT !.target = desired[m]] : m \in {x \in Memories : desired[x] # 0}}
  OBVIOUS
<1>8. ASSUME NEW m \in Memories, NEW j, j = [NoItem(m) EXCEPT !.target = desired[m]]
      PROVE  /\ j \in WorkItem /\ j.kind = "bulk" /\ j.memory = m /\ j.seq = 0
             /\ j.state = "pending" /\ j.phase = "not_started"
  <2>1. desired[m] \in Mutations /\ 0 \in Mutations /\ 0 \in 0..MaxRebuildAttempts
    BY <1>1, RebuildAssumption DEF RebuildTyped, Mutations
  <2>2. j = [kind |-> "bulk", memory |-> m, id |-> 0, seq |-> 0, target |-> desired[m],
             state |-> "pending", phase |-> "not_started", tries |-> 0]
    BY <1>8 DEF NoItem, Item, NoRow
  <2>3. /\ j.kind = "bulk" /\ j.memory = m /\ j.seq = 0
        /\ j.state = "pending" /\ j.phase = "not_started"
    BY <2>2
  <2>4. j \in WorkItem
    BY <2>1, <2>2 DEF WorkItem
  <2> QED
    BY <2>3, <2>4
<1>9. ASSUME NEW j \in new
      PROVE  /\ j \in WorkItem /\ ItemSound(j) /\ j.kind = "bulk" /\ j.seq = 0
             /\ j = [NoItem(j.memory) EXCEPT !.target = desired[j.memory]]
  <2>1. PICK m \in Memories : j = [NoItem(m) EXCEPT !.target = desired[m]]
    BY <1>7, <1>9
  <2> QED
    BY <1>8, <2>1 DEF ItemSound
<1>10. \A i, j \in new : SameKey(i, j) => i = j
  <2> SUFFICES ASSUME NEW i \in new, NEW j \in new, i.memory = j.memory
               PROVE  i = j
    BY DEF SameKey
  <2>1. PICK m : m = i.memory
    OBVIOUS
  <2>2. i = [NoItem(m) EXCEPT !.target = desired[m]] /\ j = [NoItem(m) EXCEPT !.target = desired[m]]
    BY <1>9, <2>1
  <2> QED
    BY <2>2
<1>11. \A j \in new : KeyOf(Q, j) \notin open
  <2> SUFFICES ASSUME NEW j \in new, KeyOf(Q, j) \in open
               PROVE  FALSE
    OBVIOUS
  <2>1. PICK q \in RebuildRequests : \E i \in work[q] : KeyOf(Q, j) = KeyOf(q, i)
    BY <1>1 DEF OpenSound
  <2> QED
    BY <1>2, <2>1 DEF KeyOf
<1>12. WorkSound' /\ OpenSound' /\ work' \in [RebuildRequests -> SUBSET WorkItem]
  <2>1. work' = [work EXCEPT ![Q] = new]
    BY <1>7 DEF Snapshot
  <2>2. \A j \in new : job'[Q].status \in Live /\ KeyOf(Q, j) \in open' => j.phase = "embedding_started"
    BY <1>1, <1>11
  <2>3. UNCHANGED <<source, outbox>> /\ open' \subseteq open
    BY <1>1, <1>3 DEF source
  <2>4. job'[Q].status \notin {"none", "registered"} /\ \A p \in RebuildRequests : p # Q => job'[p].status = job[p].status
    BY <1>5, <1>6
  <2>5. \A i \in work[Q] : \E j \in new : SameKey(i, j)
    BY <1>2
  <2>6. new \in SUBSET WorkItem /\ \A j \in new : ItemSound(j)
    BY <1>9
  <2> QED
    BY <1>2, <1>10, <2>1, <2>2, <2>3, <2>4, <2>5, <2>6, WorkMoves
<1>13. AuthoritySound'
  BY <1>1, <1>2, <1>3, <1>5, <1>6 DEF AuthoritySound, Live
<1>14. PICK x : x = [rebuildRun EXCEPT !.pc = "bulk"]
  OBVIOUS
<1>15. x \in RebuildState /\ x.pc = "bulk" /\ x.request = Q /\ x.item = Nothing /\ rebuildRun' = x
  BY <1>1, <1>2, <1>14 DEF RebuildState, RebuildPcs, JobPcs, Q, I, RunTo, Snapshot
<1>16. RunFits(x)'
  BY <1>2, <1>5, <1>6, <1>15 DEF RunFits, ItemPcs, Live
<1>17. RebuildTyped' /\ RowsCurrent' /\ IndexKeepsUp'
  BY <1>1, <1>3, <1>6, <1>12, <1>15 DEF RebuildInv, RebuildTyped, RowsCurrent, IndexKeepsUp
<1> QED
  BY <1>12, <1>13, <1>15, <1>16, <1>17 DEF RebuildInv

\* The rows that are due become items, and what they replace is superseded.
LEMMA MaterializeKeeps ==
  ASSUME RebuildInv, Materialize
  PROVE  RebuildInv'
<1>1. /\ rebuildRun.pc = "materialize" /\ rebuildRun.pc \in JobPcs /\ open' = open /\ rebuildRun \in RebuildState
      /\ RunFits(rebuildRun) /\ RebuildTyped /\ WorkSound /\ OpenSound /\ RowsCurrent
  BY DEF Materialize, RunAt, JobPcs, RebuildInv, RebuildTyped
<1>2. Q \in RebuildRequests /\ job[Q].status \in Live /\ work[Q] \subseteq WorkItem /\ I = Nothing
  BY <1>1, AtJob, RebuildTypes DEF RunFits, I
<1>3. CASE Fail
  BY <1>1, <1>2, <1>3, FailKeepsIndex
<1> DEFINE due == {m \in Memories : outbox[m] # NoRow /\ outbox[m].seq <= rebuildRun.target}
<1>4. \A m \in due : m \in Memories /\ outbox[m] # NoRow
  OBVIOUS
<1> HIDE DEF due
<1>5. ASSUME ~\E i \in work[Q] : Unsafe(i) /\ \E m \in due : Predecessor(i, m), NEW new,
             new = {IF \E m \in due : Predecessor(i, m)
                    THEN [i EXCEPT !.state = "superseded", !.phase = "finalized"] ELSE i : i \in work[Q]}
                   \cup {Item("catchup", m, outbox[m]) :
                           m \in {x \in due : ~\E i \in work[Q] : i.kind = "catchup" /\ Current(i) /\ i.memory = x}},
             work' = [work EXCEPT ![Q] = new], RunTo("reserve"),
             UNCHANGED <<source, outbox, index, job, resolved, rebuildCrashes, faults>>
      PROVE  RebuildInv'
  <2>1. /\ desired' = desired /\ clock' = clock /\ outbox' = outbox /\ job' = job
        /\ active' = active /\ generation' = generation /\ items' = items /\ store' = store
        /\ rebuildCrashes' = rebuildCrashes
    BY <1>5 DEF source, index
  <2>2. PICK old : old = {IF \E m \in due : Predecessor(i, m)
                          THEN [i EXCEPT !.state = "superseded", !.phase = "finalized"] ELSE i : i \in work[Q]}
    OBVIOUS
  <2>3. PICK fresh : fresh = {Item("catchup", m, outbox[m]) :
                           m \in {x \in due : ~\E i \in work[Q] : i.kind = "catchup" /\ Current(i) /\ i.memory = x}}
    OBVIOUS
  <2>4. new = old \cup fresh
    BY <1>5, <2>2, <2>3
  \* What becomes of the items that are there.
  <2>5. ASSUME NEW i \in work[Q], NEW j,
               j = IF \E m \in due : Predecessor(i, m)
                   THEN [i EXCEPT !.state = "superseded", !.phase = "finalized"] ELSE i
        PROVE  j \in WorkItem /\ SameKey(i, j) /\ ItemSound(j) /\ (KeyOf(Q, j) \in open => j.phase = "embedding_started")
    <3>1. i \in WorkItem /\ ItemSound(i) /\ (KeyOf(Q, i) \in open => i.phase = "embedding_started")
      BY <1>1, <1>2 DEF WorkSound, OpenSound
    <3>2. CASE \E m \in due : Predecessor(i, m)
      <4>1. j = [i EXCEPT !.state = "superseded", !.phase = "finalized"]
        BY <2>5, <3>2
      <4>2. j \in WorkItem /\ SameKey(i, j) /\ j.phase = "finalized" /\ j.state = "superseded" /\ j.id = i.id
        BY <3>1, <4>1 DEF WorkItem, SameKey
      <4>3. i.phase # "embedding_started"
        BY <1>5, <3>1, <3>2 DEF Unsafe, ItemSound
      <4>4. KeyOf(Q, j) = KeyOf(Q, i) /\ ItemSound(j)
        BY <3>1, <4>2 DEF KeyOf, SameKey, ItemSound
      <4> QED
        BY <3>1, <4>2, <4>3, <4>4
    <3>3. CASE ~\E m \in due : Predecessor(i, m)
      BY <2>5, <3>1, <3>3 DEF SameKey
    <3> QED
      BY <3>2, <3>3
  <2>6. ASSUME NEW j \in old
        PROVE  /\ j \in WorkItem /\ ItemSound(j) /\ (KeyOf(Q, j) \in open => j.phase = "embedding_started")
               /\ \E i \in work[Q] : SameKey(i, j)
    <3>1. PICK i \in work[Q] : j = IF \E m \in due : Predecessor(i, m)
                          THEN [i EXCEPT !.state = "superseded", !.phase = "finalized"] ELSE i
      BY <2>2, <2>6
    <3> QED
      BY <2>5, <3>1
  <2>7. \A i, j \in old : SameKey(i, j) => i = j
    <3> SUFFICES ASSUME NEW i \in old, NEW j \in old, SameKey(i, j)
                 PROVE  i = j
      OBVIOUS
    <3>1. PICK h \in work[Q] : i = IF \E m \in due : Predecessor(h, m)
                          THEN [h EXCEPT !.state = "superseded", !.phase = "finalized"] ELSE h
      BY <2>2
    <3>2. PICK k \in work[Q] : j = IF \E m \in due : Predecessor(k, m)
                          THEN [k EXCEPT !.state = "superseded", !.phase = "finalized"] ELSE k
      BY <2>2
    <3>3. SameKey(h, k)
      BY <2>5, <3>1, <3>2 DEF SameKey
    <3>4. h = k
      BY <1>1, <1>2, <3>3 DEF WorkSound
    <3> QED
      BY <3>1, <3>2, <3>4
  <2>8. \A i \in work[Q] : \E j \in old : SameKey(i, j)
    <3> SUFFICES ASSUME NEW i \in work[Q]
                 PROVE  \E j \in old : SameKey(i, j)
      OBVIOUS
    <3>1. PICK j : j = IF \E m \in due : Predecessor(i, m)
                       THEN [i EXCEPT !.state = "superseded", !.phase = "finalized"] ELSE i
      OBVIOUS
    <3>2. j \in old
      BY <2>2, <3>1
    <3> QED
      BY <2>5, <3>1, <3>2
  \* The new items.
  <2>9. ASSUME NEW j \in fresh
        PROVE  /\ j \in WorkItem /\ ItemSound(j) /\ j.kind = "catchup"
               /\ j.memory \in due /\ j = Item("catchup", j.memory, outbox[j.memory])
               /\ \A i \in work[Q] : ~SameKey(i, j)
    <3>1. PICK m \in due : /\ j = Item("catchup", m, outbox[m])
                           /\ ~\E i \in work[Q] : i.kind = "catchup" /\ Current(i) /\ i.memory = m
      BY <2>3, <2>9
    <3>2. m \in Memories /\ outbox[m] # NoRow /\ outbox[m] \in [id : Mutations, seq : Mutations, target : Mutations]
      BY <1>1, <1>4, <3>1 DEF RebuildTyped
    <3>3. outbox[m].seq # 0 /\ outbox[m].seq <= clock
      BY <1>1, <3>2 DEF RowsCurrent
    <3>4. j = [kind |-> "catchup", memory |-> m, id |-> outbox[m].id, seq |-> outbox[m].seq,
               target |-> outbox[m].target, state |-> "pending", phase |-> "not_started", tries |-> 0]
      BY <3>1 DEF Item
    <3>5. j \in WorkItem /\ j.kind = "catchup" /\ j.memory = m /\ j.seq = outbox[m].seq /\ j.id = outbox[m].id
          /\ j.state = "pending" /\ j.phase = "not_started"
      BY <3>2, <3>4, RebuildAssumption DEF WorkItem
    <3>6. ItemSound(j)
      BY <3>3, <3>5 DEF ItemSound
    <3>7. \A i \in work[Q] : ~SameKey(i, j)
      <4> SUFFICES ASSUME NEW i \in work[Q], SameKey(i, j)
                   PROVE  FALSE
        OBVIOUS
      <4>1. i.kind = "catchup" /\ i.memory = m /\ i.seq = outbox[m].seq /\ ItemSound(i)
        BY <1>1, <1>2, <3>5 DEF SameKey, WorkSound
      <4>2. Current(i)
        BY <4>1 DEF ItemSound, Current
      <4> QED
        BY <3>1, <4>1, <4>2
    <3> QED
      BY <3>1, <3>5, <3>6, <3>7
  <2>10. ASSUME NEW j \in fresh
         PROVE  KeyOf(Q, j) \notin open
    <3> SUFFICES ASSUME KeyOf(Q, j) \in open
                 PROVE  FALSE
      OBVIOUS
    <3>1. PICK q \in RebuildRequests : \E i \in work[q] : KeyOf(Q, j) = KeyOf(q, i)
      BY <1>1 DEF OpenSound
    <3>2. PICK i \in work[q] : KeyOf(Q, j) = KeyOf(q, i)
      BY <3>1
    <3>3. q = Q /\ SameKey(i, j)
      BY <3>2 DEF KeyOf, SameKey
    <3> QED
      BY <2>9, <3>2, <3>3
  <2>11. \A i, j \in new : SameKey(i, j) => i = j
    <3> SUFFICES ASSUME NEW i \in new, NEW j \in new, SameKey(i, j)
                 PROVE  i = j
      OBVIOUS
    <3>1. CASE i \in old /\ j \in old
      BY <2>7, <3>1
    <3>2. CASE i \in old /\ j \in fresh
      <4>1. PICK h \in work[Q] : SameKey(h, i)
        BY <2>6, <3>2
      <4> QED
        BY <2>9, <3>2, <4>1 DEF SameKey
    <3>3. CASE i \in fresh /\ j \in old
      <4>1. PICK h \in work[Q] : SameKey(h, j)
        BY <2>6, <3>3
      <4> QED
        BY <2>9, <3>3, <4>1 DEF SameKey
    <3>4. CASE i \in fresh /\ j \in fresh
      BY <2>9, <3>4 DEF SameKey
    <3> QED
      BY <2>4, <3>1, <3>2, <3>3, <3>4
  <2>12. WorkSound' /\ OpenSound' /\ work' \in [RebuildRequests -> SUBSET WorkItem]
    <3>1. new \in SUBSET WorkItem /\ \A j \in new : ItemSound(j)
      BY <2>4, <2>6, <2>9
    <3>2. \A i \in work[Q] : \E j \in new : SameKey(i, j)
      BY <2>4, <2>8
    <3>3. \A j \in new : job'[Q].status \in Live /\ KeyOf(Q, j) \in open' => j.phase = "embedding_started"
      BY <1>1, <2>4, <2>6, <2>10
    <3>4. UNCHANGED <<source, outbox>> /\ open' \subseteq open
      BY <1>1, <2>1 DEF source
    <3>5. job'[Q].status \notin {"none", "registered"} /\ \A p \in RebuildRequests : p # Q => job'[p].status = job[p].status
      <4>1. job'[Q].status # "registered"
        BY <1>1, <2>1 DEF RunFits, Q
      <4> QED
        BY <1>2, <2>1, <4>1 DEF Live
    <3>6. work' = [work EXCEPT ![Q] = new]
      BY <1>5
    <3> QED
      BY <1>2, <2>11, <3>1, <3>2, <3>3, <3>4, <3>5, <3>6, WorkMoves
  <2>13. PICK x : x = [rebuildRun EXCEPT !.pc = "reserve"]
    OBVIOUS
  <2>14. x \in RebuildState /\ x.pc = "reserve" /\ x.request = Q /\ x.item = Nothing /\ rebuildRun' = x
    BY <1>1, <1>2, <1>5, <2>13 DEF RebuildState, RebuildPcs, JobPcs, Q, I, RunTo
  <2>15. RunFits(x)'
    BY <1>2, <2>1, <2>14 DEF RunFits, ItemPcs
  <2>16. RebuildTyped'
    BY <1>1, <2>1, <2>12, <2>14 DEF RebuildTyped
  <2> QED
    BY <1>5, <2>12, <2>14, <2>15, <2>16, IndexStays DEF RebuildInv
<1>6. PICK new :
        new = {IF \E m \in due : Predecessor(i, m)
               THEN [i EXCEPT !.state = "superseded", !.phase = "finalized"] ELSE i : i \in work[Q]}
              \cup {Item("catchup", m, outbox[m]) :
                      m \in {x \in due : ~\E i \in work[Q] : i.kind = "catchup" /\ Current(i) /\ i.memory = x}}
  OBVIOUS
<1>7. Fail \/ (/\ ~\E i \in work[Q] : Unsafe(i) /\ \E m \in due : Predecessor(i, m)
               /\ work' = [work EXCEPT ![Q] = new] /\ RunTo("reserve")
               /\ UNCHANGED <<source, outbox, index, job, resolved, rebuildCrashes, faults>>)
  <2>1. CASE Fail
    BY <2>1
  <2>2. CASE ~Fail
    <3>1. /\ ~\E i \in work[Q] : Unsafe(i) /\ \E m \in due : Predecessor(i, m)
          /\ RunTo("reserve")
          /\ UNCHANGED <<source, outbox, index, job, resolved, rebuildCrashes, faults>>
      BY <2>2 DEF Materialize, due
    <3>2. work' = [work EXCEPT ![Q] = new]
      BY <1>1, <1>2, <1>6, <2>2 DEF Materialize, due, RebuildTyped
    <3> QED
      BY <3>1, <3>2
  <2> QED
    BY <2>1, <2>2
<1> QED
  BY <1>3, <1>5, <1>6, <1>7

\* The candidate becomes the active generation.
LEMMA CutOverKeeps ==
  ASSUME RebuildInv, rebuildRun.pc = "promote", CutOver, open' = open,
         NEW pc \in {"done", "classify"}, RunTo(pc)
  PROVE  RebuildInv'
<1>1. /\ rebuildRun.pc # "idle" /\ rebuildRun.pc \in JobPcs /\ rebuildRun \in RebuildState
      /\ RunFits(rebuildRun) /\ RebuildTyped /\ WorkSound /\ OpenSound /\ RowsCurrent /\ AuthoritySound
  BY DEF JobPcs, RebuildInv, RebuildTyped
<1>2. /\ Q \in RebuildRequests /\ job[Q].status \in Live /\ job[Q] \in JobRow /\ Q \in Generations
      /\ store[Q] = items[Q] /\ G = Q
  BY <1>1, AtJob, RebuildTypes DEF RunFits, Q, G
<1>3. /\ desired' = desired /\ clock' = clock /\ items' = items /\ store' = store /\ work' = work
      /\ rebuildCrashes' = rebuildCrashes /\ active' = Q /\ items[Q] = desired
      /\ outbox' = [m \in Memories |-> IF Covered(m) THEN NoRow ELSE outbox[m]]
      /\ generation' = [g \in Generations |-> IF g = G THEN "active"
                                              ELSE IF g = active THEN "retired" ELSE generation[g]]
      /\ job' = [job EXCEPT ![Q].status = "completed", ![Q].promoted = job[Q].caughtUp]
  BY <1>2 DEF CutOver, SetIsExact, source
<1>4. PICK row : row = [job[Q] EXCEPT !.status = "completed", !.promoted = job[Q].caughtUp]
  OBVIOUS
<1>5. row \in JobRow /\ row.status = "completed" /\ row.source = job[Q].source
  BY <1>2, <1>4 DEF JobRow
<1>6. /\ job'[Q] = row /\ job' \in [RebuildRequests -> JobRow]
      /\ \A p \in RebuildRequests : p # Q => job'[p] = job[p]
  BY <1>1, <1>2, <1>3, <1>4, <1>5 DEF RebuildTyped
<1>7. NoRow \in [id : Mutations, seq : Mutations, target : Mutations]
      /\ NoRow.seq = 0 /\ NoRow.id = 0 /\ clock \in Nat
  BY <1>1, RebuildAssumption DEF NoRow, Mutations, RebuildTyped
<1>8. \A m \in Memories : outbox'[m] = NoRow \/ outbox'[m] = outbox[m]
  BY <1>3
<1>9. outbox' \in [Memories -> [id : Mutations, seq : Mutations, target : Mutations]]
  BY <1>1, <1>3, <1>7 DEF RebuildTyped
<1>10. RowsCurrent'
  BY <1>1, <1>3, <1>7, <1>8 DEF RowsCurrent
<1>11. AuthoritySound'
  <2>1. generation'[Q] = "active"
    BY <1>2, <1>3
  <2>2. \A p \in RebuildRequests : job'[p].status \notin Live
    BY <1>1, <1>2, <1>5, <1>6 DEF AuthoritySound, Live
  <2> QED
    BY <1>3, <1>5, <1>6, <2>1, <2>2 DEF AuthoritySound
<1>12. IndexKeepsUp'
  BY <1>2, <1>3 DEF IndexKeepsUp
<1>13. WorkSound'
  <2>1. ASSUME NEW q \in RebuildRequests, NEW i \in work[q]
        PROVE  ItemSound(i)'
    <3>1. ItemSound(i) /\ i \in WorkItem
      BY <1>1 DEF WorkSound, RebuildTyped
    <3>2. i.memory \in Memories /\ i.kind \in {"bulk", "catchup"}
      BY <3>1 DEF WorkItem
    <3>3. outbox'[i.memory] = NoRow \/ outbox'[i.memory] = outbox[i.memory]
      BY <1>8, <3>2
    <3> QED
      BY <1>3, <1>7, <3>1, <3>2, <3>3 DEF ItemSound
  <2>2. \A q \in RebuildRequests : job'[q].status \in {"none", "registered"} => job[q].status \in {"none", "registered"}
    BY <1>5, <1>6
  <2> QED
    BY <1>1, <1>3, <2>1, <2>2 DEF WorkSound
<1>14. OpenSound'
  BY <1>1, <1>3, <1>5, <1>6 DEF OpenSound, Live
<1>15. PICK x : x = [rebuildRun EXCEPT !.pc = pc]
  OBVIOUS
<1>16. x \in RebuildState /\ x.pc = pc /\ x.request = Q /\ x.item = I /\ rebuildRun' = x
  BY <1>1, <1>15 DEF RebuildState, RebuildPcs, Q, I, RunTo
<1>17. RunFits(x)'
  BY <1>1, <1>2, <1>3, <1>5, <1>6, <1>16 DEF RunFits, JobPcs, ItemPcs, I, Q
<1>18. RebuildTyped'
  <2>1. generation' \in [Generations -> {"none", "building", "active", "retired", "failed"}]
    BY <1>1, <1>3 DEF RebuildTyped
  <2> QED
    BY <1>1, <1>2, <1>3, <1>6, <1>9, <1>16, <2>1 DEF RebuildTyped
<1> QED
  BY <1>10, <1>11, <1>12, <1>13, <1>14, <1>16, <1>17, <1>18 DEF RebuildInv

\* The promotion, or what comes instead of it.
LEMMA PromoteKeeps ==
  ASSUME RebuildInv, Promote
  PROVE  RebuildInv'
<1>1. /\ rebuildRun.pc = "promote" /\ rebuildRun.pc \in JobPcs /\ open' = open /\ rebuildRun \in RebuildState
  BY DEF Promote, RunAt, JobPcs, RebuildInv, RebuildTyped
<1>2. Q \in RebuildRequests
  BY <1>1, AtJob
<1>3. CASE BehindAgain /\ rebuildRun' = [rebuildRun EXCEPT !.leased = FALSE, !.pc = "loop"]
  <2>1. PICK x : x = [rebuildRun EXCEPT !.leased = FALSE, !.pc = "loop"]
    OBVIOUS
  <2>2. x \in RebuildState /\ x.pc = "loop" /\ x.request = Q /\ x.item = I
    BY <1>1, <2>1 DEF RebuildState, RebuildPcs, JobPcs, Q, I
  <2> QED
    BY <1>1, <1>3, <2>1, <2>2, BehindKeeps
<1>4. CASE CutOver /\ (RunTo("done") \/ RunTo("classify"))
  BY <1>1, <1>4, CutOverKeeps
<1>5. CASE RunStep("classify")
  BY <1>1, <1>2, <1>5, RunGoes DEF RunStep, RebuildPcs, JobPcs, ItemPcs
<1> QED
  BY <1>3, <1>4, <1>5 DEF Promote

\* A mutation writes its row, and no item was made for it yet.
LEMMA MutateKeeps ==
  ASSUME RebuildInv, NEW m \in Memories, Mutate(m)
  PROVE  RebuildInv'
<1>1. /\ RebuildTyped /\ WorkSound /\ OpenSound /\ RowsCurrent /\ AuthoritySound /\ RunFits(rebuildRun)
      /\ IndexKeepsUp
  BY DEF RebuildInv
<1>2. /\ active' = active /\ generation' = generation /\ items' = items /\ store' = store
      /\ job' = job /\ work' = work /\ rebuildRun' = rebuildRun /\ rebuildCrashes' = rebuildCrashes
      /\ open' = open /\ clock' = clock + 1 /\ clock < MaxClock
  BY DEF Mutate, index, jobs
<1>3. PICK document \in {0, clock + 1} :
        /\ desired' = [desired EXCEPT ![m] = document]
        /\ outbox' = [outbox EXCEPT ![m] = [id |-> IF outbox[m].id = 0 THEN clock + 1 ELSE outbox[m].id,
                                            seq |-> clock + 1, target |-> document]]
  BY DEF Mutate
<1>4. clock \in Nat /\ clock' \in Mutations /\ document \in Mutations /\ clock + 1 \in Mutations
  BY <1>1, <1>2, RebuildAssumption DEF RebuildTyped, Mutations
<1>5. PICK new : new = [id |-> IF outbox[m].id = 0 THEN clock + 1 ELSE outbox[m].id,
                        seq |-> clock + 1, target |-> document]
  OBVIOUS
<1>6. /\ new \in [id : Mutations, seq : Mutations, target : Mutations]
      /\ new.id # 0 /\ new.seq = clock + 1 /\ new.target = document
  <2>1. outbox[m].id \in Mutations
    BY <1>1 DEF RebuildTyped
  <2>2. new.id \in Mutations /\ new.id # 0 /\ new.seq = clock + 1 /\ new.target = document
    BY <1>4, <1>5, <2>1
  <2> QED
    BY <1>4, <1>5, <2>2
<1>7. /\ outbox'[m] = new /\ desired'[m] = document
      /\ \A n \in Memories : n # m => outbox'[n] = outbox[n] /\ desired'[n] = desired[n]
      /\ outbox' \in [Memories -> [id : Mutations, seq : Mutations, target : Mutations]]
      /\ desired' \in [Memories -> Mutations]
  BY <1>1, <1>3, <1>4, <1>5, <1>6 DEF RebuildTyped
<1>8. new # NoRow
  BY <1>6 DEF NoRow
<1>9. RowsCurrent'
  <2> SUFFICES ASSUME NEW n \in Memories
               PROVE  /\ outbox'[n].id = 0 => outbox'[n] = NoRow
                      /\ outbox'[n].seq = 0 => outbox'[n] = NoRow
                      /\ outbox'[n].seq <= clock'
                      /\ outbox'[n] # NoRow => outbox'[n].target = desired'[n]
    BY DEF RowsCurrent
  <2>1. CASE n = m
    BY <1>2, <1>4, <1>6, <1>7, <2>1
  <2>2. CASE n # m
    <3>1. outbox[n].seq \in Nat
      BY <1>1 DEF RebuildTyped, Mutations
    <3> QED
      BY <1>1, <1>2, <1>4, <1>7, <2>2, <3>1 DEF RowsCurrent
  <2> QED
    BY <2>1, <2>2
<1>10. IndexKeepsUp'
  BY <1>1, <1>2, <1>7, <1>8 DEF IndexKeepsUp
<1>11. WorkSound'
  <2>1. ASSUME NEW q \in RebuildRequests, NEW i \in work[q]
        PROVE  ItemSound(i)'
    <3>1. ItemSound(i) /\ i \in WorkItem
      BY <1>1 DEF WorkSound, RebuildTyped
    <3>2. i.memory \in Memories /\ i.seq \in Nat /\ i.kind \in {"bulk", "catchup"}
      BY <3>1 DEF WorkItem, Mutations
    <3>3. CASE i.memory = m
      BY <1>2, <1>4, <1>6, <1>7, <3>1, <3>2, <3>3 DEF ItemSound
    <3>4. CASE i.memory # m
      BY <1>2, <1>4, <1>7, <3>1, <3>2, <3>4 DEF ItemSound
    <3> QED
      BY <3>3, <3>4
  <2> QED
    BY <1>1, <1>2, <2>1 DEF WorkSound
<1>12. OpenSound' /\ AuthoritySound'
  BY <1>1, <1>2 DEF OpenSound, AuthoritySound
<1>13. RunFits(rebuildRun)'
  BY <1>1, <1>2 DEF RunFits
<1>14. RebuildTyped'
  BY <1>1, <1>2, <1>4, <1>7 DEF RebuildTyped
<1> QED
  BY <1>9, <1>10, <1>11, <1>12, <1>13, <1>14 DEF RebuildInv

\* The drain takes a row away and brings the active generation where the memory is.
LEMMA DrainKeeps ==
  ASSUME RebuildInv, NEW m \in Memories, Drain(m)
  PROVE  RebuildInv'
<1>1. /\ RebuildTyped /\ WorkSound /\ OpenSound /\ RowsCurrent /\ AuthoritySound /\ RunFits(rebuildRun)
      /\ IndexKeepsUp
  BY DEF RebuildInv
<1>2. /\ active' = active /\ generation' = generation /\ desired' = desired /\ clock' = clock
      /\ job' = job /\ work' = work /\ rebuildRun' = rebuildRun /\ rebuildCrashes' = rebuildCrashes
      /\ open' = open /\ rebuildRun.pc = "idle" /\ active # Nothing /\ outbox[m] # NoRow
      /\ outbox' = [outbox EXCEPT ![m] = NoRow]
      /\ items' = [items EXCEPT ![active][m] = outbox[m].target]
      /\ store' = [store EXCEPT ![active][m] = outbox[m].target]
  BY DEF Drain, source, jobs
<1>3. active \in Generations /\ outbox[m].target = desired[m] /\ desired[m] \in Mutations /\ clock \in Nat
  BY <1>1, <1>2 DEF RebuildTyped, RowsCurrent, Mutations
<1>4. NoRow \in [id : Mutations, seq : Mutations, target : Mutations] /\ NoRow.seq = 0 /\ NoRow.id = 0
  BY RebuildAssumption DEF NoRow, Mutations
<1>5. /\ outbox'[m] = NoRow /\ \A n \in Memories : n # m => outbox'[n] = outbox[n]
      /\ outbox' \in [Memories -> [id : Mutations, seq : Mutations, target : Mutations]]
  BY <1>1, <1>2, <1>4 DEF RebuildTyped
<1>6. /\ items' \in [Generations -> [Memories -> Mutations]]
      /\ \A n \in Memories : items'[active][n] = IF n = m THEN desired[m] ELSE items[active][n]
  BY <1>1, <1>2, <1>3, CopyChanges DEF RebuildTyped
<1>7. /\ store' \in [Generations -> [Memories -> Mutations]]
      /\ \A n \in Memories : store'[active][n] = IF n = m THEN desired[m] ELSE store[active][n]
  BY <1>1, <1>2, <1>3, CopyChanges DEF RebuildTyped
<1>8. IndexKeepsUp'
  BY <1>1, <1>2, <1>5, <1>6, <1>7 DEF IndexKeepsUp
<1>9. RowsCurrent'
  BY <1>1, <1>2, <1>3, <1>4, <1>5 DEF RowsCurrent
<1>10. WorkSound'
  <2>1. ASSUME NEW q \in RebuildRequests, NEW i \in work[q]
        PROVE  ItemSound(i)'
    <3>1. ItemSound(i) /\ i \in WorkItem
      BY <1>1 DEF WorkSound, RebuildTyped
    <3>2. i.memory \in Memories /\ i.kind \in {"bulk", "catchup"}
      BY <3>1 DEF WorkItem
    <3>3. outbox'[i.memory] = NoRow \/ outbox'[i.memory] = outbox[i.memory]
      BY <1>5, <3>2
    <3> QED
      BY <1>2, <1>4, <3>1, <3>2, <3>3 DEF ItemSound
  <2> QED
    BY <1>1, <1>2, <2>1 DEF WorkSound
<1>11. OpenSound' /\ AuthoritySound'
  BY <1>1, <1>2 DEF OpenSound, AuthoritySound
<1>12. RunFits(rebuildRun)'
  BY <1>1, <1>2 DEF RunFits, JobPcs, ItemPcs
<1>13. RebuildTyped'
  BY <1>1, <1>2, <1>5, <1>6, <1>7 DEF RebuildTyped
<1> QED
  BY <1>8, <1>9, <1>10, <1>11, <1>12, <1>13 DEF RebuildInv

-----------------------------------------------------------------------------
(* Rebuild and cut-over: the theorems *)

\* The invariant holds at first.
LEMMA RebuildStart ==
  ASSUME RebuildInit
  PROVE  RebuildInv
<1>1. 0 \in Mutations /\ 0 \in Nat
  BY RebuildAssumption DEF Mutations
<1>2. NoRow \in [id : Mutations, seq : Mutations, target : Mutations]
  BY <1>1 DEF NoRow
<1>3. NoJob \in JobRow /\ NoJob.status = "none"
  <2>1. NoJob = [status |-> "none", source |-> Nothing, caughtUp |-> 0, promoted |-> 0, cancel |-> FALSE]
    BY DEF NoJob
  <2> QED
    BY <1>1, <2>1 DEF JobRow
<1>4. NotRunning \in RebuildState /\ RunFits(NotRunning)
  BY <1>1 DEF NotRunning, RebuildState, RebuildPcs, RunFits, JobPcs, ItemPcs
<1>5. active \in Generations \cup {Nothing} /\ active \in {Original, Nothing}
  BY DEF RebuildInit, Generations
<1>6. RebuildTyped
  BY <1>1, <1>2, <1>3, <1>4, <1>5 DEF RebuildInit, RebuildTyped
<1>7. RowsCurrent /\ IndexKeepsUp
  BY <1>1, <1>5 DEF RebuildInit, RowsCurrent, NoRow, IndexKeepsUp
<1>8. AuthoritySound
  BY <1>3, <1>5, RebuildAssumption DEF RebuildInit, AuthoritySound, Live
<1>9. WorkSound /\ OpenSound
  BY DEF RebuildInit, WorkSound, OpenSound
<1> QED
  BY <1>4, <1>6, <1>7, <1>8, <1>9 DEF RebuildInv, RebuildInit

\* Every step keeps it.
LEMMA RebuildStep ==
  ASSUME RebuildInv, [RebuildNext]_rebuildVars
  PROVE  RebuildInv'
<1>1. CASE Rebuild
  BY <1>1, CompensateKeeps, AsideKeeps, DecisionKeeps, LoopKeeps, BeginKeeps, CallKeeps, EmbedReturnsKeeps,
     BeginWriteKeeps, WriteKeeps, FinalizeKeeps, NextBulkKeeps, ReserveKeeps, SnapshotKeeps, MaterializeKeeps,
     AdvanceCatchupKeeps, MarkReadyKeeps, PromoteKeeps
     DEF Rebuild
<1>2. CASE \E m \in Memories : Mutate(m) \/ Drain(m)
  BY <1>2, MutateKeeps, DrainKeeps
<1>3. CASE \E q \in RebuildRequests : Register(q) \/ Resume(q) \/ RequestCancel(q)
  BY <1>3, RegisterKeeps, ResumeKeeps, RequestCancelKeeps
<1>4. CASE DeadlinePasses \/ StorageFails \/ RebuildCrash
  BY <1>4, AsideKeeps, StorageFailsKeeps
<1>5. CASE UNCHANGED rebuildVars
  <2>1. rebuildRun' = rebuildRun /\ rebuildCrashes' = rebuildCrashes /\ UNCHANGED <<source, outbox, index, jobs, open>>
    BY <1>5 DEF rebuildVars
  <2>2. rebuildRun \in RebuildState /\ RunFits(rebuildRun) /\ rebuildCrashes \in Nat
    BY DEF RebuildInv, RebuildTyped
  <2> QED
    BY <2>1, <2>2, RunMoves
<1> QED
  BY <1>1, <1>2, <1>3, <1>4, <1>5 DEF RebuildNext

\* It always holds.
LEMMA RebuildInvHolds == RebuildSpec => []RebuildInv
<1>1. RebuildInit => RebuildInv
  BY RebuildStart
<1>2. RebuildInv /\ [RebuildNext]_rebuildVars => RebuildInv'
  BY RebuildStep
<1> QED
  BY <1>1, <1>2, PTL DEF RebuildSpec

\* A rebuild that crashes, fails or runs into its deadline, at whatever step, leaves an active
\* generation that has every memory without an outbox row exactly as it is desired.
THEOREM RebuildKeepsIndex == RebuildSpec => []RebuildSafe
<1>1. RebuildInv => RebuildSafe
  <2> SUFFICES ASSUME RebuildInv
               PROVE  RebuildSafe
    OBVIOUS
  <2>1. \A q \in RebuildRequests : job[q] \in JobRow /\ work[q] \subseteq WorkItem
    BY RebuildTypes
  <2>2. \A q \in RebuildRequests : job[q].status \in Live \cup OverStates \cup {"none", "completed"}
    BY <2>1 DEF JobRow
  <2>3. \A q \in RebuildRequests : \A i \in work[q] : i.tries \in 0..MaxRebuildAttempts
    BY <2>1 DEF WorkItem
  <2>4. rebuildRun.item # Nothing => rebuildRun.item \in work[rebuildRun.request]
    BY DEF RebuildInv, RunFits
  <2> QED
    BY <2>2, <2>3, <2>4 DEF RebuildInv, RebuildTyped, RebuildSafe, RebuildTypeOK
<1> QED
  BY <1>1, RebuildInvHolds, PTL

\* The generation that a living job took as its source is still the active one.
THEOREM SourceStays == RebuildSpec => []SourceStaysActive
<1>1. RebuildInv => SourceStaysActive
  BY DEF RebuildInv, AuthoritySound, SourceStaysActive
<1> QED
  BY <1>1, RebuildInvHolds, PTL

\* An embedding call is not made again while it is not known what became of the last one.
THEOREM NeverAsksAgainHolds == RebuildSpec => NeverAsksAgain
<1>1. RebuildInv => [RunAt("embed") /\ rebuildRun'.pc = "embedding" => Key(I) \notin open]_rebuildVars
  <2> SUFFICES ASSUME RebuildInv, RunAt("embed")
               PROVE  Key(I) \notin open
    OBVIOUS
  <2>1. rebuildRun.pc = "embed" /\ rebuildRun.pc \in ItemPcs
    BY DEF RunAt, ItemPcs
  <2> QED
    BY <2>1, AtItem
<1> QED
  BY <1>1, RebuildInvHolds, PTL DEF NeverAsksAgain

-----------------------------------------------------------------------------
(* Rebuild and cut-over: what a step may do to jobs *)

\* Only the job of the request that is worked on changes, only while it is alive, and the
\* process ends only with it.
JobHeld ==
    /\ rebuildRun'.pc = "idle" => job'[Q].status \notin Live
    /\ \A q \in RebuildRequests : q # Q \/ job[q].status \notin Live => job'[q] = job[q] /\ work'[q] = work[q]

\* A job ends with its process.
LEMMA TerminalizeHeld ==
  ASSUME RebuildInv, Q \in RebuildRequests, job[Q].status \in Live, Fail \/ Cancel \/ FailUnknown
  PROVE  JobHeld
<1>1. PICK status \in OverStates : \E rows : Terminalize(status, rows)
  BY DEF Fail, Cancel, FailUnknown, OverStates
<1>2. PICK rows : Terminalize(status, rows)
  BY <1>1
<1>3. /\ job' = [job EXCEPT ![Q].status = status]
      /\ work' = [work EXCEPT ![Q] = {Unsettled(i) : i \in rows}]
  BY <1>2 DEF Terminalize
<1>4. job'[Q].status = status /\ status \notin Live
  BY <1>3, RebuildTypes DEF RebuildInv, RebuildTyped, JobRow, OverStates, Live
<1>5. \A q \in RebuildRequests : q # Q => job'[q] = job[q] /\ work'[q] = work[q]
  BY <1>3 DEF RebuildInv, RebuildTyped
<1> QED
  BY <1>4, <1>5 DEF JobHeld

\* The process goes on, and what changes are items of its living job.
LEMMA GoesOnHeld ==
  ASSUME RebuildInv, NEW pc \in RebuildPcs \ {"idle"}, rebuildRun'.pc = pc,
         \/ UNCHANGED jobs
         \/ /\ Q \in RebuildRequests /\ job[Q].status \in Live
            /\ \A q \in RebuildRequests : q # Q => job'[q] = job[q] /\ work'[q] = work[q]
  PROVE  JobHeld
BY DEF JobHeld, jobs

\* Where the process goes on.
LEMMA RunPc ==
  ASSUME RebuildInv, NEW pc, RunTo(pc)
  PROVE  rebuildRun'.pc = pc
BY DEF RebuildInv, RebuildTyped, RebuildState, RunTo

\* An item goes on.
LEMMA AdvanceHeld ==
  ASSUME RebuildInv, rebuildRun.pc \in ItemPcs, NEW j, NEW pc \in RebuildPcs \ {"idle"}, AdvanceItem(j, pc)
  PROVE  JobHeld
<1>1. rebuildRun'.pc = pc
  BY DEF RebuildInv, RebuildTyped, RebuildState, AdvanceItem
<1>2. \A q \in RebuildRequests : q # Q => job'[q] = job[q] /\ work'[q] = work[q]
  BY DEF RebuildInv, RebuildTyped, AdvanceItem, Replace
<1> QED
  BY <1>1, <1>2, AtItem, GoesOnHeld

\* Deciding where to go on, and waiting.
LEMMA DecisionHeld ==
  ASSUME RebuildInv, \/ OpenStore \/ SnapshotRefused \/ LeaseLateDelete \/ Classify \/ Verify \/ Loop
                     \/ Compensate \/ Recover \/ Done
  PROVE  JobHeld
<1>1. rebuildRun.pc # "idle"
  BY DEF OpenStore, SnapshotRefused, LeaseLateDelete, Classify, Verify, Loop, Compensate, Recover, Done, RunAt
<1>2. Q \in RebuildRequests /\ (rebuildRun.pc \in JobPcs => job[Q].status \in Live)
      /\ rebuildRun \in RebuildState /\ RunFits(rebuildRun)
  BY <1>1, AtJob DEF RebuildInv, RebuildTyped
<1>3. ASSUME NEW pc \in RebuildPcs \ {"idle"}, rebuildRun'.pc = pc, UNCHANGED jobs
      PROVE  JobHeld
  BY <1>3, GoesOnHeld
<1>4. ASSUME UNCHANGED jobs, job[Q].status \notin Live
      PROVE  JobHeld
  BY <1>4 DEF JobHeld, jobs
<1>5. CASE (Fail \/ Cancel) /\ job[Q].status \in Live
  BY <1>2, <1>5, TerminalizeHeld
<1>6. CASE OpenStore
  <2>1. rebuildRun.pc \in JobPcs
    BY <1>6 DEF OpenStore, RunAt, JobPcs
  <2>2. ASSUME NEW pc \in {"failing", "snapshot", "bulk"}, RunTo(pc), UNCHANGED jobs
        PROVE  JobHeld
    BY <1>3, <2>2, RunPc DEF RebuildPcs, JobPcs
  <2> QED
    BY <1>2, <1>5, <1>6, <2>1, <2>2 DEF OpenStore
<1>7. CASE SnapshotRefused \/ LeaseLateDelete
  <2>1. rebuildRun'.pc \in {"open", "loop"} /\ UNCHANGED jobs
    BY <1>2, <1>7 DEF SnapshotRefused, LeaseLateDelete, RunTo, RebuildState
  <2> QED
    BY <1>3, <2>1 DEF RebuildPcs, JobPcs
<1>8. CASE Classify
  <2>1. ASSUME NEW pc \in {"done", "loop", "recovery"}, RunStep(pc)
        PROVE  JobHeld
    BY <1>3, <2>1, RunPc DEF RunStep, RebuildPcs, JobPcs
  <2> QED
    BY <1>8, <2>1 DEF Classify
<1>9. CASE Verify
  <2>1. ASSUME NEW pc \in {"mark", "loop", "promote"}, RunStep(pc)
        PROVE  JobHeld
    BY <1>3, <2>1, RunPc DEF RunStep, RebuildPcs, JobPcs
  <2>2. rebuildRun.pc \in JobPcs
    BY <1>9 DEF Verify, RunAt, JobPcs
  <2> QED
    BY <1>2, <1>5, <1>9, <2>1, <2>2 DEF Verify
<1>10. CASE Loop
  <2>1. rebuildRun.pc \in JobPcs
    BY <1>10 DEF Loop, RunAt, JobPcs
  <2>2. CASE ~(Fail \/ Cancel)
    <3>1. rebuildRun'.pc \in {"materialize", "verify"} /\ UNCHANGED jobs
      BY <1>2, <1>10, <2>2 DEF Loop, RebuildState
    <3> QED
      BY <1>3, <3>1 DEF RebuildPcs, JobPcs
  <2> QED
    BY <1>2, <1>5, <2>1, <2>2
<1>11. CASE Compensate
  <2>1. CASE job[Q].status \in Live /\ Fail
    BY <1>5, <2>1
  <2>2. CASE job[Q].status = "completed" /\ UNCHANGED jobs
    BY <1>4, <2>2 DEF Live
  <2> QED
    BY <1>11, <2>1, <2>2 DEF Compensate
<1>12. CASE Recover
  <2>1. CASE rebuildRun' = rebuildRun
    BY <1>2, <1>3, <1>12, <2>1 DEF Recover, RunAt, RebuildPcs
  <2>2. CASE Committed(Q)
    BY <1>4, <1>12, <2>2 DEF Recover, Committed, PostImage, Live
  <2> QED
    BY <1>12, <2>1, <2>2 DEF Recover
<1>13. CASE Done
  BY <1>2, <1>4, <1>13 DEF Done, RunAt, RunFits, Live, Q
<1> QED
  BY <1>6, <1>7, <1>8, <1>9, <1>10, <1>11, <1>12, <1>13

\* One item.
LEMMA ItemHeld ==
  ASSUME RebuildInv,
         \/ BeginBulk \/ BeginCatchup \/ CallEmbedBulk \/ CallEmbedCatchup \/ EmbedReturns
         \/ BeginWrite \/ WriteBulk \/ WriteCatchup \/ RecoverWrite
         \/ WriteMetadata \/ FinalizeBulk \/ FinalizeCatchup
  PROVE  JobHeld
<1>1. rebuildRun.pc \in ItemPcs
  BY DEF BeginBulk, BeginCatchup, CallEmbedBulk, CallEmbedCatchup, EmbedReturns, BeginWrite, WriteBulk,
         WriteCatchup, RecoverWrite, WriteMetadata, FinalizeBulk, FinalizeCatchup, RunAt, ItemPcs
<1>2. Q \in RebuildRequests /\ job[Q].status \in Live /\ rebuildRun \in RebuildState
  BY <1>1, AtItem DEF RebuildInv, RebuildTyped
<1>3. ASSUME Fail \/ Cancel \/ FailUnknown
      PROVE  JobHeld
  BY <1>2, <1>3, TerminalizeHeld
<1>4. ASSUME NEW pc \in {"recover", "loop", "embedding", "embedded", "finalize", "metadata"}, RunTo(pc), UNCHANGED jobs
      PROVE  JobHeld
  BY <1>4, RunPc, GoesOnHeld DEF RebuildPcs, JobPcs, ItemPcs
<1>5. ASSUME NEW j, NEW pc \in {"embed", "write", "open", "loop", "bulk"}, AdvanceItem(j, pc)
      PROVE  JobHeld
  BY <1>1, <1>5, AdvanceHeld DEF RebuildPcs, JobPcs, ItemPcs
<1>6. ASSUME NEW pc \in {"recover", "loop", "embedding", "embedded", "finalize", "metadata"}, RunStep(pc)
      PROVE  JobHeld
  BY <1>4, <1>6 DEF RunStep
<1>7. ASSUME NEW pc \in {"recover", "finalize"}, WriteTo(pc)
      PROVE  JobHeld
  BY <1>4, <1>7 DEF WriteTo
<1>8. ASSUME NEW pc \in {"open", "loop", "bulk"}, NotSent(pc)
      PROVE  JobHeld
  BY <1>5, <1>8 DEF NotSent
<1>9. CASE BeginBulk \/ BeginCatchup
  BY <1>3, <1>5, <1>6, <1>9 DEF BeginBulk, BeginCatchup
<1>10. CASE CallEmbedBulk \/ CallEmbedCatchup
  BY <1>3, <1>6, <1>8, <1>10 DEF CallEmbedBulk, CallEmbedCatchup, Ask
<1>11. CASE EmbedReturns
  <2>1. Back \in {"open", "loop", "bulk"}
    BY DEF Back
  <2> QED
    BY <1>3, <1>5, <1>6, <1>8, <1>11, <2>1 DEF EmbedReturns
<1>12. CASE BeginWrite
  BY <1>3, <1>5, <1>12 DEF BeginWrite
<1>13. CASE WriteBulk \/ WriteCatchup
  BY <1>3, <1>6, <1>7, <1>8, <1>13 DEF WriteBulk, WriteCatchup
<1>14. CASE RecoverWrite
  BY <1>3, <1>6, <1>14 DEF RecoverWrite
<1>15. CASE WriteMetadata
  BY <1>3, <1>4, <1>15 DEF WriteMetadata
<1>16. ASSUME Applying, UNCHANGED job, NEW pc \in {"bulk", "reserve"},
              rebuildRun' = [rebuildRun EXCEPT !.pc = pc, !.item = Nothing]
       PROVE  JobHeld
  <2>1. rebuildRun'.pc = pc
    BY <1>2, <1>16 DEF RebuildState
  <2>2. \A q \in RebuildRequests : q # Q => job'[q] = job[q] /\ work'[q] = work[q]
    BY <1>16 DEF RebuildInv, RebuildTyped, Applying, Replace
  <2> QED
    BY <1>2, <2>1, <2>2, GoesOnHeld DEF RebuildPcs, JobPcs
<1>17. CASE FinalizeBulk \/ FinalizeCatchup
  BY <1>3, <1>16, <1>17 DEF FinalizeBulk, FinalizeCatchup
<1> QED
  BY <1>9, <1>10, <1>11, <1>12, <1>13, <1>14, <1>15, <1>17

\* The steps of the job between its items.
LEMMA BetweenHeld ==
  ASSUME RebuildInv,
         \/ Snapshot \/ NextBulk \/ Materialize \/ Reserve \/ AdvanceCatchup \/ MarkReady \/ Promote
  PROVE  JobHeld
<1>1. rebuildRun.pc \in JobPcs /\ rebuildRun.pc # "idle"
  BY DEF Snapshot, NextBulk, Materialize, Reserve, AdvanceCatchup, MarkReady, Promote, RunAt, JobPcs
<1>2. Q \in RebuildRequests /\ job[Q].status \in Live /\ rebuildRun \in RebuildState
      /\ job \in [RebuildRequests -> JobRow] /\ work \in [RebuildRequests -> SUBSET WorkItem]
  BY <1>1, AtJob DEF RebuildInv, RebuildTyped
<1>3. CASE Fail \/ Cancel
  BY <1>2, <1>3, TerminalizeHeld
<1>4. CASE ~(Fail \/ Cancel)
  <2>1. rebuildRun'.pc \in {"bulk", "failing", "item", "loop", "reserve", "advance", "verify", "classify", "done"}
    <3>1. CASE Snapshot \/ AdvanceCatchup \/ MarkReady
      BY <1>2, <3>1 DEF Snapshot, AdvanceCatchup, MarkReady, RunStep, RunTo, RebuildState
    <3>2. CASE NextBulk \/ Reserve
      BY <1>2, <1>4, <3>2 DEF NextBulk, Reserve, RunStep, RunTo, RebuildState
    <3>3. CASE Materialize \/ Promote
      BY <1>2, <1>4, <3>3 DEF Materialize, Promote, RunStep, RunTo, RebuildState
    <3> QED
      BY <3>1, <3>2, <3>3
  <2>2. \A q \in RebuildRequests : q # Q => job'[q] = job[q]
    <3>1. CASE Snapshot \/ AdvanceCatchup \/ MarkReady
      BY <1>2, <3>1 DEF Snapshot, AdvanceCatchup, MarkReady, BehindAgain, RunStep, jobs
    <3>2. CASE NextBulk \/ Reserve
      BY <1>2, <1>4, <3>2 DEF NextBulk, Reserve, RunStep, jobs
    <3>3. CASE Materialize \/ Promote
      BY <1>2, <1>4, <3>3 DEF Materialize, Promote, CutOver, BehindAgain, RunStep, jobs
    <3> QED
      BY <3>1, <3>2, <3>3
  <2>3. \A q \in RebuildRequests : q # Q => work'[q] = work[q]
    <3>1. CASE Snapshot \/ AdvanceCatchup \/ MarkReady
      BY <1>2, <3>1 DEF Snapshot, AdvanceCatchup, MarkReady, BehindAgain, RunStep, jobs
    <3>2. CASE NextBulk \/ Reserve
      BY <1>2, <1>4, <3>2 DEF NextBulk, Reserve, RunStep, Replace, jobs
    <3>3. CASE Materialize \/ Promote
      BY <1>2, <1>4, <3>3 DEF Materialize, Promote, CutOver, BehindAgain, RunStep, jobs
    <3> QED
      BY <3>1, <3>2, <3>3
  <2> QED
    BY <1>2, <2>1, <2>2, <2>3, GoesOnHeld DEF RebuildPcs, JobPcs, ItemPcs
<1> QED
  BY <1>3, <1>4

\* Every step of the pipeline.
LEMMA RebuildHeld ==
  ASSUME RebuildInv, Rebuild
  PROVE  JobHeld
BY DecisionHeld, ItemHeld, BetweenHeld DEF Rebuild

\* The composition gate is given back by the code only once the job is over.
THEOREM GateOutlivesCandidateHolds == RebuildSpec => GateOutlivesCandidate
<1> DEFINE Kept == rebuildRun.pc # "idle" /\ rebuildRun'.pc = "idle" /\ rebuildCrashes' = rebuildCrashes =>
                     job'[rebuildRun.request].status \notin Live
<1>1. RebuildInv /\ [RebuildNext]_rebuildVars => [Kept]_rebuildVars
  <2> SUFFICES ASSUME RebuildInv, RebuildNext, rebuildRun.pc # "idle", rebuildRun'.pc = "idle",
                      rebuildCrashes' = rebuildCrashes
               PROVE  job'[rebuildRun.request].status \notin Live
    OBVIOUS
  <2>1. rebuildRun \in RebuildState /\ rebuildCrashes \in Nat
    BY DEF RebuildInv, RebuildTyped
  <2>2. CASE Rebuild
    BY <2>2, RebuildHeld DEF JobHeld, Q
  <2>3. CASE RebuildCrash
    BY <2>1, <2>3 DEF RebuildCrash
  <2>4. CASE DeadlinePasses \/ \E m \in Memories : Mutate(m) \/ Drain(m)
    BY <2>1, <2>4 DEF DeadlinePasses, Mutate, Drain, RebuildState
  <2>5. CASE StorageFails
    <3>1. PICK pc : pc = IF rebuildRun.pc \in OuterSteps THEN "failing"
                         ELSE IF rebuildRun.item # Nothing /\ rebuildRun.item.kind = "catchup"
                              THEN "loop" ELSE "open"
      OBVIOUS
    <3>2. rebuildRun'.pc = pc
      BY <2>1, <2>5, <3>1 DEF StorageFails, RebuildState
    <3> QED
      BY <3>1, <3>2
  <2>6. CASE \E q \in RebuildRequests : Register(q) \/ Resume(q) \/ RequestCancel(q)
    BY <2>6 DEF Register, Resume, RequestCancel
  <2> QED
    BY <2>2, <2>3, <2>4, <2>5, <2>6 DEF RebuildNext
<1> QED
  BY <1>1, RebuildInvHolds, PTL DEF RebuildSpec, GateOutlivesCandidate

\* A job that is over, and its items, are left alone.
THEOREM OverIsFinalHolds == RebuildSpec => OverIsFinal
<1> DEFINE Kept == \A q \in RebuildRequests : job[q].status \in OverStates \cup {"completed"} =>
                     job'[q] = job[q] /\ work'[q] = work[q]
<1>1. RebuildInv /\ [RebuildNext]_rebuildVars => [Kept]_rebuildVars
  <2> SUFFICES ASSUME RebuildInv, RebuildNext, NEW q \in RebuildRequests,
                      job[q].status \in OverStates \cup {"completed"}
               PROVE  job'[q] = job[q] /\ work'[q] = work[q]
    OBVIOUS
  <2>1. job \in [RebuildRequests -> JobRow] /\ job[q].status \notin Live /\ job[q].status # "none"
    BY DEF RebuildInv, RebuildTyped, OverStates, Live
  <2>2. CASE Rebuild
    BY <2>1, <2>2, RebuildHeld DEF JobHeld
  <2>3. CASE \/ DeadlinePasses \/ StorageFails \/ RebuildCrash
             \/ \E m \in Memories : Mutate(m) \/ Drain(m)
    BY <2>3 DEF DeadlinePasses, StorageFails, RebuildCrash, Mutate, Drain, jobs
  <2>4. CASE \E p \in RebuildRequests : Register(p) \/ Resume(p) \/ RequestCancel(p)
    BY <2>1, <2>4 DEF Register, Resume, RequestCancel, jobs
  <2> QED
    BY <2>2, <2>3, <2>4 DEF RebuildNext
<1> QED
  BY <1>1, RebuildInvHolds, PTL DEF RebuildSpec, OverIsFinal

=============================================================================
