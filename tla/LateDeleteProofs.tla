-------------------------- MODULE LateDeleteProofs --------------------------
(***************************************************************************)
(* Theorems about the late-delete resolver beside the synchronisation, for *)
(* any number of resolvers and any budget: the type invariant of the       *)
(* composition; every query and conditional Delete is paid for by an       *)
(* ordinal; the abstract index and every safety property of the            *)
(* synchronisation hold beside the resolver; resolutions only advance; no  *)
(* pass removes a desired vector; and, with a single process, what the     *)
(* resolver and the store tell of the vectors is true.                     *)
(***************************************************************************)
EXTENDS LateDelete, VectorSyncProofs

\* Mutation sequences are issued once: no two rows share one.
RowsIssued ==
    \A m \in Memories : Present(m) =>
        /\ outbox[m].mutation_sequence <= clock
        /\ \A n \in Memories :
              Present(n) /\ outbox[n].mutation_sequence = outbox[m].mutation_sequence => n = m

\* A mutation has at most one resolution, and it belongs to the mutation's memory.
TableIssued ==
    \A r \in resolution :
        /\ r.sequence <= clock
        /\ \A m \in Memories : Present(m) /\ outbox[m].mutation_sequence = r.sequence => m = r.memory
        /\ \A q \in resolution : q.sequence = r.sequence => q = r

\* Nothing was called for a mutation that has no resolution.
Unprobed ==
    \A s \in Mutations :
        (\A r \in resolution : r.sequence # s) => probes[s] = [query |-> 0, delete |-> 0]

\* The pass may still make its conditional Delete.
Probing == {"querying", "answered", "permitted"}

\* A pass whose token is current has an ordinal that is not yet spent.
PassPaid(x) ==
    LET p == resolver[x]
    IN  \A r \in resolution : r.sequence = p.sequence =>
          /\ p.epoch <= r.resolution_epoch
          /\ p.epoch = r.resolution_epoch /\ p.ordinal = r.resolution_count =>
               /\ p.pc = "reserved" => probes[r.sequence].query < r.resolution_count
               /\ p.pc \in Probing => probes[r.sequence].delete < probes[r.sequence].query

\* No two passes claimed the same resolution under the same epoch.
PassesApart ==
    \A x, y \in Resolvers :
        /\ resolver[x].sequence # 0
        /\ resolver[x].sequence = resolver[y].sequence
        /\ resolver[x].epoch = resolver[y].epoch
        => x = y

\* The inductive invariant behind the budget of the resolver.
Paid ==
    /\ LateTypeOK
    /\ RowsIssued
    /\ TableIssued
    /\ Unprobed
    /\ ProbesArePaid
    /\ \A x \in Resolvers : PassPaid(x)
    /\ PassesApart

-----------------------------------------------------------------------------
(* What a step may do to rows, resolutions and passes *)

\* A row present afterwards was there before, or belongs to the mutation just issued.
RowsCarried ==
    /\ clock <= clock'
    /\ \A m \in Memories : Present(m)' =>
          \/ Present(m) /\ outbox'[m].mutation_sequence = outbox[m].mutation_sequence
          \/ /\ outbox'[m].mutation_sequence = clock' /\ clock < clock'
             /\ \A n \in Memories \ {m} : Present(n)' =>
                   Present(n) /\ outbox'[n].mutation_sequence = outbox[n].mutation_sequence

\* q is r with the same ordinals and epoch.
SameWork(r, q) ==
    /\ q.sequence = r.sequence
    /\ q.memory = r.memory
    /\ q.resolution_count = r.resolution_count
    /\ q.resolution_epoch = r.resolution_epoch

\* q is the new resolution of a row's mutation.
Fresh(q) ==
    /\ q.resolution_count = 0
    /\ q.memory \in Memories /\ Present(q.memory)
    /\ q.sequence = outbox[q.memory].mutation_sequence
    /\ \A r \in resolution : r.sequence # q.sequence

\* Resolutions are only added, and those there were keep their ordinals and epoch.
TableCarried ==
    /\ \A q \in resolution' : Fresh(q) \/ \E r \in resolution : SameWork(r, q)
    /\ \A r \in resolution : \E q \in resolution' : SameWork(r, q)
    /\ \A p, q \in resolution' : p.sequence = q.sequence => p = q

\* Every pass keeps its token, and does not come before the call it pays for, or rests
\* without one.
PassesCarried ==
    \A x \in Resolvers :
        \/ resolver'[x].sequence = 0 /\ resolver'[x].pc \in Resting
        \/ /\ resolver'[x].sequence = resolver[x].sequence
           /\ resolver'[x].epoch = resolver[x].epoch
           /\ resolver'[x].ordinal = resolver[x].ordinal
           /\ resolver'[x].pc \notin Resting => resolver[x].pc \notin Resting
           /\ resolver'[x].pc = "reserved" => resolver[x].pc = "reserved"
           /\ resolver'[x].pc \in Probing => resolver[x].pc \in Probing

\* Sequences stay issued once.
LEMMA IssuedCarried ==
    ASSUME TypeOK, TypeOK', RowsIssued, TableIssued, RowsCarried, TableCarried
    PROVE  RowsIssued' /\ TableIssued'
<1>1. /\ clock \in Nat /\ clock' \in Nat
      /\ \A m \in Memories : Present(m) => outbox[m].mutation_sequence \in Nat
      /\ \A m \in Memories : Present(m)' => outbox'[m].mutation_sequence \in Nat
      /\ \A r \in resolution : r.sequence \in Nat
      /\ \A r \in resolution' : r.sequence \in Nat
  <2>1. Mutations \subseteq Nat /\ 0 .. MaxSequence \subseteq Nat
    BY BoundsAssumption DEF Mutations
  <2>2. OutboxOK /\ OutboxOK' /\ resolution \subseteq Resolutions /\ resolution' \subseteq Resolutions
    BY DEF TypeOK
  <2>3. clock \in Nat /\ clock' \in Nat
    BY <2>1 DEF TypeOK
  <2>4. /\ \A m \in Memories : Present(m) => outbox[m].mutation_sequence \in Nat
        /\ \A m \in Memories : Present(m)' => outbox'[m].mutation_sequence \in Nat
    BY <2>1, <2>2 DEF OutboxOK
  <2>5. /\ \A r \in resolution : r.sequence \in Nat
        /\ \A r \in resolution' : r.sequence \in Nat
    BY <2>1, <2>2 DEF Resolutions
  <2> QED
    BY <2>3, <2>4, <2>5
<1>2. RowsIssued'
  BY <1>1 DEF RowsIssued, RowsCarried
<1>3. ASSUME NEW q \in resolution'
      PROVE  /\ q.sequence <= clock
             /\ \A m \in Memories :
                   Present(m) /\ outbox[m].mutation_sequence = q.sequence => m = q.memory
  <2>1. CASE Fresh(q)
    BY <1>1, <2>1 DEF Fresh, RowsIssued
  <2>2. ASSUME NEW r \in resolution, SameWork(r, q) PROVE <1>3!2
    BY <2>2 DEF SameWork, TableIssued
  <2> QED
    BY <2>1, <2>2 DEF TableCarried
<1>4. TableIssued'
  BY <1>1, <1>3 DEF TableIssued, RowsCarried, TableCarried
<1> QED
  BY <1>2, <1>4

\* The types that rows, resolutions and passes have in the composition.
LEMMA LateTypes ==
    ASSUME LateTypeOK
    PROVE  /\ TypeOK
           /\ resolution \subseteq Resolutions
           /\ Mutations \subseteq Nat
           /\ \A r \in resolution : /\ r.sequence \in Mutations
                                    /\ r.resolution_count \in Nat
                                    /\ r.resolution_epoch \in Nat
           /\ \A x \in Resolvers : /\ resolver[x] \in PassRecord
                                   /\ resolver[x].epoch \in Nat
                                   /\ resolver[x].ordinal \in Nat
           /\ \A s \in Mutations : probes[s].query \in Nat /\ probes[s].delete \in Nat
<1>1. TypeOK /\ resolution \subseteq Resolutions
  BY DEF LateTypeOK, TypeOK
<1>2. Mutations \subseteq Nat
  BY BoundsAssumption DEF Mutations
<1>3. \A r \in Resolutions :
         r.sequence \in Mutations /\ r.resolution_count \in Nat /\ r.resolution_epoch \in Nat
  BY DEF Resolutions
<1>4. \A x \in Resolvers : resolver[x] \in PassRecord
  BY DEF LateTypeOK
<1>5. \A x \in Resolvers : resolver[x].epoch \in Nat /\ resolver[x].ordinal \in Nat
  BY <1>4 DEF PassRecord
<1>6. \A s \in Mutations : probes[s].query \in Nat /\ probes[s].delete \in Nat
  BY DEF LateTypeOK
<1> QED
  BY <1>1, <1>2, <1>3, <1>4, <1>5, <1>6

\* A step that carries rows, resolutions and passes and calls nothing keeps the
\* invariant.
LEMMA Carried ==
    ASSUME Paid, TypeOK', RowsCarried, TableCarried, PassesCarried, probes' = probes,
           rlease' \in [fence : Nat, expires : Nat], resolver' \in [Resolvers -> PassRecord]
    PROVE  Paid'
<1>1. LateTypeOK /\ TypeOK
  BY DEF Paid, LateTypeOK
<1>2. RowsIssued' /\ TableIssued'
  BY <1>1, IssuedCarried DEF Paid
<1>3. LateTypeOK'
  <2>1. ASSUME NEW x \in Resolvers, resolver'[x].sequence # 0
        PROVE  /\ \E r \in resolution' : r.sequence = resolver'[x].sequence
               /\ resolver'[x].ordinal <= MaxResolutions
    <3>1. /\ resolver'[x].sequence = resolver[x].sequence
          /\ resolver'[x].ordinal = resolver[x].ordinal
      BY <2>1 DEF PassesCarried
    <3>2. PICK r \in resolution : r.sequence = resolver[x].sequence
      BY <1>1, <2>1, <3>1 DEF LateTypeOK
    <3>3. \E q \in resolution' : q.sequence = r.sequence
      BY DEF TableCarried, SameWork
    <3> QED
      BY <1>1, <2>1, <3>1, <3>2, <3>3 DEF LateTypeOK
  <2>2. ASSUME NEW x \in Resolvers, resolver'[x].pc \notin Resting
        PROVE  resolver'[x].sequence # 0
    BY <1>1, <2>2 DEF PassesCarried, LateTypeOK, At
  <2>3. probes' \in [Mutations -> [query : Nat, delete : Nat]]
    BY <1>1 DEF LateTypeOK
  <2> QED
    BY <2>1, <2>2, <2>3 DEF LateTypeOK, At
<1>4. ASSUME NEW q \in resolution', Fresh(q)
      PROVE  /\ q.sequence \in Mutations
             /\ probes[q.sequence] = [query |-> 0, delete |-> 0]
             /\ q.resolution_count = 0
             /\ \A x \in Resolvers : resolver[x].sequence # q.sequence
  <2>1. q.sequence \in Mutations
    BY <1>3 DEF LateTypeOK, TypeOK, Resolutions
  <2>2. \A x \in Resolvers : resolver[x].sequence # q.sequence
    <3>1. q.sequence # 0
      BY <2>1 DEF Mutations
    <3> QED
      BY <1>1, <1>4, <3>1 DEF LateTypeOK, Fresh
  <2> QED
    BY <1>4, <2>1, <2>2 DEF Paid, Unprobed, Fresh
<1>5. Unprobed'
  BY DEF Paid, Unprobed, TableCarried, SameWork
<1>6. ProbesArePaid'
  <2>1. ASSUME NEW q \in resolution', Fresh(q)
        PROVE  /\ probes[q.sequence].query <= q.resolution_count
               /\ probes[q.sequence].delete <= probes[q.sequence].query
               /\ q.resolution_count <= MaxResolutions
    BY <1>4, <2>1, ResolverAssumption
  <2>2. ASSUME NEW q \in resolution', NEW r \in resolution, SameWork(r, q)
        PROVE  /\ probes[q.sequence].query <= q.resolution_count
               /\ probes[q.sequence].delete <= probes[q.sequence].query
               /\ q.resolution_count <= MaxResolutions
    BY <2>2 DEF Paid, ProbesArePaid, SameWork
  <2> QED
    BY <2>1, <2>2 DEF ProbesArePaid, TableCarried
<1>7. ASSUME NEW x \in Resolvers PROVE PassPaid(x)'
  <2>1. CASE resolver'[x].sequence = 0
    <3>1. \A q \in resolution' : q.sequence # 0
      BY <1>3 DEF LateTypeOK, TypeOK, Resolutions, Mutations
    <3> QED
      BY <2>1, <3>1 DEF PassPaid
  <2>2. CASE resolver'[x].sequence # 0
    <3>1. /\ resolver'[x].sequence = resolver[x].sequence
          /\ resolver'[x].epoch = resolver[x].epoch
          /\ resolver'[x].ordinal = resolver[x].ordinal
          /\ resolver'[x].pc = "reserved" => resolver[x].pc = "reserved"
          /\ resolver'[x].pc \in Probing => resolver[x].pc \in Probing
      BY <2>2 DEF PassesCarried
    <3>2. ASSUME NEW q \in resolution', q.sequence = resolver'[x].sequence
          PROVE  \E r \in resolution : SameWork(r, q)
      BY <1>4, <3>1, <3>2 DEF TableCarried
    <3>3. PassPaid(x)
      BY DEF Paid
    <3> QED
      BY <3>1, <3>2, <3>3 DEF PassPaid, SameWork
  <2> QED
    BY <2>1, <2>2
<1>8. PassesApart'
  BY DEF Paid, PassesApart, PassesCarried
<1> QED
  BY <1>2, <1>3, <1>5, <1>6, <1>7, <1>8 DEF Paid

-----------------------------------------------------------------------------
(* The steps of the synchronisation *)

\* As far as rows and the clock go, every step of the synchronisation carries them.
LEMMA SyncRows ==
    ASSUME Intents, [Next]_vars
    PROVE  TypeOK' /\ RowsCarried
<1>1. /\ TypeOK'
      /\ \/ Internal
         \/ \E m \in Memories : SettlesRow(m)
         \/ \E m \in Memories : Records(m)
         \/ Rebuilds
  BY NextStep DEF Intents
<1>2. clock \in Nat /\ clock' \in Nat
  BY <1>1, BoundsAssumption DEF Intents, TypeOK
<1>3. CASE Internal
  BY <1>1, <1>2, <1>3 DEF Internal, IntentKept, SameIntent, RowsCarried, Present
<1>4. ASSUME NEW m \in Memories, SettlesRow(m) PROVE RowsCarried
  <2>1. \A n \in Memories : outbox'[n] = IF n = m THEN EmptyRow ELSE outbox[n]
    BY <1>4 DEF SettlesRow, Intents, TypeOK, OutboxOK
  <2> QED
    BY <1>2, <1>4, <2>1 DEF SettlesRow, RowsCarried, Present, EmptyRow
<1>5. ASSUME NEW m \in Memories, Records(m) PROVE RowsCarried
  <2>1. /\ outbox'[m].mutation_sequence = clock'
        /\ \A n \in Memories \ {m} : outbox'[n] = outbox[n]
    BY <1>1, <1>5, RecordsIntents
  <2>2. clock' = clock + 1
    BY <1>5 DEF Records
  <2> QED
    BY <1>2, <2>1, <2>2 DEF RowsCarried, Present
<1>6. CASE Rebuilds
  BY <1>1, <1>2, <1>6 DEF Rebuilds, RowsCarried, Present, EmptyRow
<1> QED
  BY <1>1, <1>3, <1>4, <1>5, <1>6

\* An unchanged table is carried.
LEMMA SameTable ==
    ASSUME TableIssued, resolution' = resolution
    PROVE  TableCarried
BY DEF TableIssued, TableCarried, SameWork

\* Concluding a resolution keeps its ordinals and its epoch.
LEMMA ConcludedWork ==
    ASSUME NEW r \in Resolutions, NEW state
    PROVE  SameWork(r, Concluded(r, state))
BY DEF Concluded, Resolutions, SameWork

\* Concluding some of the resolutions carries the table.
LEMMA ConcludedTable ==
    ASSUME TypeOK, TableIssued, NEW f, \A r \in resolution : SameWork(r, f[r]),
           resolution' = {f[r] : r \in resolution}
    PROVE  TableCarried
<1>1. \A q \in resolution' : \E r \in resolution : q = f[r]
  BY Zenon
<1>2. \A r \in resolution : f[r] \in resolution'
  BY Zenon
<1>3. ASSUME NEW p \in resolution', NEW q \in resolution', p.sequence = q.sequence
      PROVE  p = q
  <2>1. PICK r \in resolution : p = f[r]
    BY <1>1
  <2>2. PICK s \in resolution : q = f[s]
    BY <1>1
  <2>3. r.sequence = s.sequence
    BY <1>3, <2>1, <2>2 DEF SameWork
  <2>4. r = s
    BY <2>3 DEF TableIssued
  <2> QED
    BY <2>1, <2>2, <2>4
<1> QED
  BY <1>1, <1>2, <1>3 DEF TableCarried

\* Ensuring the resolution of a current claim adds at most a fresh one.
LEMMA EnsureTable ==
    ASSUME TypeOK, RowsIssued, TableIssued, NEW w \in Workers, Pc(w) \notin {"idle", "drain"},
           TokenCurrent(w), NEW t, EnsureResolution(worker[w].claim, t)
    PROVE  TableCarried
<1> DEFINE c == worker[w].claim
           q == NewResolution(c, t)
<1>1. /\ c.memory \in Memories /\ Present(c.memory)
      /\ outbox[c.memory].mutation_sequence = c.sequence
  BY ClaimHeld DEF TokenCurrent, ClaimCurrent, Present
<1>2. /\ q.memory = c.memory /\ q.sequence = c.sequence /\ q.resolution_count = 0
  BY DEF NewResolution
<1>3. CASE \E r \in resolution : r.memory = c.memory /\ r.sequence = c.sequence
  BY <1>3, SameTable DEF EnsureResolution
<1>4. CASE ~ \E r \in resolution : r.memory = c.memory /\ r.sequence = c.sequence
  <2>1. \A r \in resolution : r.sequence # c.sequence
    BY <1>1, <1>4 DEF TableIssued
  <2>2. resolution' = resolution \cup {q}
    BY <1>4 DEF EnsureResolution
  <2> HIDE DEF c, q
  <2>3. Fresh(q)
    BY <1>1, <1>2, <2>1 DEF Fresh
  <2> QED
    BY <1>2, <2>1, <2>2, <2>3 DEF TableCarried, TableIssued, SameWork
<1> QED
  BY <1>3, <1>4

\* Every step of the synchronisation carries the table of resolutions.
LEMMA SyncTable ==
    ASSUME TypeOK, RowsIssued, TableIssued, [Next]_vars
    PROVE  TableCarried
<1>0. resolution \subseteq Resolutions
  BY DEF TypeOK
<1>1. CASE resolution' = resolution
  BY <1>1, SameTable
<1>2. ASSUME NEW m \in Memories, resolution' = Superseded(m) PROVE TableCarried
  <2> DEFINE f == [r \in resolution |->
                     IF r.memory = m /\ Open(r) THEN Concluded(r, "superseded") ELSE r]
  <2>1. \A r \in resolution : SameWork(r, f[r])
    BY <1>0, ConcludedWork DEF SameWork
  <2>2. resolution' = {f[r] : r \in resolution}
    BY <1>2 DEF Superseded
  <2> HIDE DEF f
  <2> QED
    BY <2>1, <2>2, ConcludedTable
<1>3. ASSUME NEW w \in Workers, Promote(w) PROVE TableCarried
  <2> DEFINE f == [r \in resolution |->
                     IF /\ Open(r)
                        /\ outbox[r.memory].desired_action = "delete"
                        /\ outbox[r.memory].mutation_sequence = r.sequence
                     THEN Concluded(r, "resolved_rebuilt") ELSE r]
  <2>1. \A r \in resolution : SameWork(r, f[r])
    BY <1>0, ConcludedWork DEF SameWork
  <2>2. resolution' = {f[r] : r \in resolution}
    BY <1>3 DEF Promote
  <2> HIDE DEF f
  <2> QED
    BY <2>1, <2>2, ConcludedTable
<1>4. ASSUME NEW w \in Workers, MarkWitness(w) \/ FinalizeFailure(w) PROVE TableCarried
  <2>1. \/ resolution' = resolution
        \/ /\ TokenCurrent(w) /\ Pc(w) \in {"reserved", "failed"}
           /\ \E t : EnsureResolution(worker[w].claim, t)
    BY <1>4 DEF MarkWitness, FinalizeFailure
  <2> QED
    BY <1>1, <2>1, EnsureTable
<1>5. \/ resolution' = resolution
      \/ \E m \in Memories : resolution' = Superseded(m)
      \/ \E w \in Workers : MarkWitness(w) \/ FinalizeFailure(w) \/ Promote(w)
  <2>1. CASE UNCHANGED vars
    BY <2>1 DEF vars
  <2>2. ASSUME NEW m \in Memories, Mutate(m) PROVE resolution' = Superseded(m)
    BY <2>2 DEF Mutate, ConfirmCandidate, UpdateConfirmed, SetSensitivity, DeletePermanently,
                RecordAndEnqueue, Enqueue
  <2>3. ASSUME NEW w \in Workers,
               StartDrain(w) \/ ClaimRefused(w) \/ ClaimOne(w) \/ Abort(w)
        PROVE  resolution' = resolution
    BY <2>3 DEF StartDrain, ClaimRefused, ClaimOne, Abort
  <2>4. ASSUME NEW w \in Workers, Execute(w)
        PROVE  resolution' = resolution \/ MarkWitness(w) \/ FinalizeFailure(w)
    BY <2>4 DEF Execute, ReadDocument, BlockTargetStale, Reserve, CallEmbedding,
                EmbeddingReturns, CallLance, LanceReturns, FinalizeSuccess
  <2>5. CASE RetryFailures \/ Tick
    BY <2>5 DEF RetryFailures, Tick
  <2> QED
    BY <2>1, <2>2, <2>3, <2>4, <2>5 DEF Next, Sync
<1> QED
  BY <1>1, <1>2, <1>3, <1>4, <1>5

-----------------------------------------------------------------------------
(* The steps of a pass *)

\* What no step of a pass touches.
Beside == UNCHANGED <<memory, clock, outbox, lease, active, item, now, worker, calls>>

\* A step beside the synchronisation is invisible to rows, memories and items.
LEMMA BesideFrame ==
    ASSUME TypeOK, Beside, resolution' \subseteq Resolutions, store' \in [Memories -> Nat]
    PROVE  TypeOK' /\ Internal /\ RowsCarried
<1>1. OutboxOK' /\ IntentKept
  BY SameRows DEF TypeOK, Beside
<1>2. WorkersOK'
  BY SameWorkers DEF TypeOK, Beside
<1>3. RowsCarried
  BY BoundsAssumption DEF TypeOK, Beside, RowsCarried, Present
<1> QED
  BY <1>1, <1>2, <1>3 DEF TypeOK, Beside, Internal

\* A step beside the synchronisation that calls nothing and carries everything.
LEMMA QuietStep ==
    ASSUME Paid, Beside, resolution' \subseteq Resolutions, store' \in [Memories -> Nat],
           TableCarried, PassesCarried, probes' = probes,
           rlease' \in [fence : Nat, expires : Nat], resolver' \in [Resolvers -> PassRecord]
    PROVE  Paid' /\ Internal
<1>1. TypeOK' /\ Internal /\ RowsCarried
  BY BesideFrame DEF Paid, LateTypeOK
<1> QED
  BY <1>1, Carried

\* The resolution of a pass that holds a claim.
LEMMA MineHeld ==
    ASSUME Paid, NEW x \in Resolvers, resolver[x].pc \notin Resting
    PROVE  /\ Mine(x) \in resolution
           /\ Mine(x) \in Resolutions
           /\ Mine(x).sequence = resolver[x].sequence
           /\ resolver[x].sequence \in Mutations
           /\ \A r \in resolution : r.sequence = resolver[x].sequence => r = Mine(x)
<1>1. \E r \in resolution : r.sequence = resolver[x].sequence
  BY DEF Paid, LateTypeOK, At
<1>2. Mine(x) \in resolution /\ Mine(x).sequence = resolver[x].sequence
  BY <1>1 DEF Mine
<1> QED
  BY <1>2, LateTypes DEF Paid, TableIssued

\* Rewriting a resolution with its ordinals and epoch as they are.
LEMMA UpdateTable ==
    ASSUME TypeOK, TableIssued, NEW r \in resolution, NEW q \in Resolutions,
           SameWork(r, q), Update(r, q)
    PROVE  TableCarried /\ resolution' \subseteq Resolutions
<1>1. resolution' \subseteq Resolutions
  BY DEF TypeOK, Update
<1>2. TableCarried
  BY DEF TableIssued, TableCarried, SameWork, Update
<1> QED
  BY <1>1, <1>2

\* Leaving the resolutions alone, or rewriting the one in hand.
LEMMA MineTable ==
    ASSUME Paid, NEW x \in Resolvers, resolver[x].pc \notin Resting,
           \/ resolution' = resolution
           \/ \E q \in Resolutions : SameWork(Mine(x), q) /\ Update(Mine(x), q)
    PROVE  TableCarried /\ resolution' \subseteq Resolutions
<1>1. TypeOK /\ TableIssued /\ Mine(x) \in resolution
  BY MineHeld DEF Paid, LateTypeOK
<1>2. CASE resolution' = resolution
  BY <1>1, <1>2, SameTable DEF TypeOK
<1>3. ASSUME NEW q \in Resolutions, SameWork(Mine(x), q), Update(Mine(x), q)
      PROVE  TableCarried /\ resolution' \subseteq Resolutions
  BY <1>1, <1>3, UpdateTable
<1> QED
  BY <1>2, <1>3

\* Moving one pass on with its token.
LEMMA MovePass ==
    ASSUME Paid, NEW x \in Resolvers, NEW p \in PassRecord,
           resolver' = [resolver EXCEPT ![x] = p],
           \/ p.sequence = 0 /\ p.pc \in Resting
           \/ /\ p.sequence = resolver[x].sequence /\ p.epoch = resolver[x].epoch
              /\ p.ordinal = resolver[x].ordinal
              /\ p.pc \notin Resting => resolver[x].pc \notin Resting
              /\ p.pc = "reserved" => resolver[x].pc = "reserved"
              /\ p.pc \in Probing => resolver[x].pc \in Probing
    PROVE  PassesCarried /\ resolver' \in [Resolvers -> PassRecord]
<1>1. resolver \in [Resolvers -> PassRecord]
  BY DEF Paid, LateTypeOK
<1>2. \A y \in Resolvers : resolver'[y] = IF y = x THEN p ELSE resolver[y]
  BY <1>1
<1> QED
  BY <1>1, <1>2 DEF PassesCarried

\* Moving one pass on by its program counter alone.
LEMMA ProceedPass ==
    ASSUME Paid, NEW x \in Resolvers, NEW pc \in PassPcs, Proceed(x, pc),
           pc \notin Resting => resolver[x].pc \notin Resting,
           pc # "reserved", pc \in Probing => resolver[x].pc \in Probing
    PROVE  PassesCarried /\ resolver' \in [Resolvers -> PassRecord]
<1> DEFINE p == [resolver[x] EXCEPT !.pc = pc]
<1>1. resolver[x] \in PassRecord
  BY DEF Paid, LateTypeOK
<1>2. /\ p \in PassRecord /\ p.pc = pc /\ p.sequence = resolver[x].sequence
      /\ p.epoch = resolver[x].epoch /\ p.ordinal = resolver[x].ordinal
  BY <1>1 DEF PassRecord
<1>3. resolver' = [resolver EXCEPT ![x] = p]
  BY DEF Proceed
<1> HIDE DEF p
<1> QED
  BY <1>2, <1>3, MovePass

\* Ending the body of a pass.
LEMMA FinishPass ==
    ASSUME Paid, NEW x \in Resolvers, Finish(x)
    PROVE  PassesCarried /\ resolver' \in [Resolvers -> PassRecord]
<1>1. "release" \in PassPcs /\ "release" \in Resting /\ "release" \notin Probing
  BY DEF PassPcs, Resting, Probing
<1> QED
  BY <1>1, ProceedPass DEF Finish

\* A pass that is not running.
LEMMA AsleepType ==
    /\ Asleep \in PassRecord
    /\ Asleep.sequence = 0
    /\ Asleep.pc \in Resting
BY BoundsAssumption DEF Asleep, PassRecord, PassPcs, Outcomes, Resting

\* The rest of a step that leaves the synchronisation and the lease alone.
LEMMA StillTypes ==
    ASSUME Paid
    PROVE  /\ TypeOK /\ TableIssued
           /\ resolution \subseteq Resolutions /\ store \in [Memories -> Nat]
           /\ rlease \in [fence : Nat, expires : Nat]
           /\ now + LeaseTicks \in Nat
BY TimeAssumption DEF Paid, LateTypeOK, TypeOK

\* Acquiring the lease.
LEMMA AcquireStep ==
    ASSUME Paid, NEW x \in Resolvers, Acquire(x)
    PROVE  Paid' /\ Internal
<1> DEFINE p == [Asleep EXCEPT !.pc = "leased", !.fence = rlease.fence + 1]
<1>1. rlease.fence + 1 \in Nat /\ rlease' \in [fence : Nat, expires : Nat]
  BY StillTypes DEF Acquire
<1>2. p \in PassRecord /\ p.sequence = 0 /\ p.pc \in Resting
  BY <1>1, AsleepType DEF PassRecord, PassPcs, Resting
<1>3. resolver' = [resolver EXCEPT ![x] = p]
  BY DEF Acquire
<1> HIDE DEF p
<1>4. PassesCarried /\ resolver' \in [Resolvers -> PassRecord]
  BY <1>2, <1>3, MovePass
<1>5. Beside /\ resolution' = resolution /\ store' = store /\ probes' = probes
  BY DEF Acquire, vars, Beside
<1> QED
  BY <1>1, <1>4, <1>5, SameTable, StillTypes, QuietStep

\* Recovering what expired passes left.
LEMMA RecoverExpiredStep ==
    ASSUME Paid, NEW x \in Resolvers, RecoverExpired(x)
    PROVE  Paid' /\ Internal
<1> DEFINE f == [r \in resolution |-> Recovered(r)]
<1>1. ASSUME NEW r \in resolution PROVE SameWork(r, f[r]) /\ f[r] \in Resolutions
  <2>1. r \in Resolutions
    BY StillTypes
  <2>2. f[r] = r \/ \E s \in ResolutionStates : f[r] = Concluded(r, s)
    BY DEF Recovered, ResolutionStates
  <2> HIDE DEF f
  <2> QED
    BY <2>1, <2>2, ConcludedType, ConcludedWork DEF SameWork
<1>2. resolution' = {f[r] : r \in resolution}
  BY DEF RecoverExpired
<1> HIDE DEF f
<1>3. TableCarried /\ resolution' \subseteq Resolutions
  BY <1>1, <1>2, ConcludedTable, StillTypes
<1>4. PassesCarried /\ resolver' \in [Resolvers -> PassRecord]
  <2>1. "recovered" \in PassPcs /\ "recovered" \in Resting /\ "recovered" \notin Probing
    BY DEF PassPcs, Resting, Probing
  <2> QED
    BY <2>1, ProceedPass DEF RecoverExpired
<1>5. Beside /\ store' = store /\ rlease' = rlease /\ probes' = probes
  BY DEF RecoverExpired, Beside
<1> QED
  BY <1>3, <1>4, <1>5, StillTypes, QuietStep

\* Asking LanceDB is over: an answer of any kind.
LEMMA QueryReturnsStep ==
    ASSUME Paid, NEW x \in Resolvers, QueryReturns(x)
    PROVE  Paid' /\ Internal
<1>1. resolver[x].pc = "querying" /\ "querying" \notin Resting
  BY DEF QueryReturns, At, Resting
<1>2. Mine(x) \in Resolutions
  BY <1>1, MineHeld
<1>3. store[Mine(x).memory] \in Nat
  BY <1>2, StillTypes DEF Resolutions
<1>4. PICK outcome \in Outcomes, revision \in Nat : Answer(x, outcome, revision)
  BY <1>3 DEF QueryReturns, Outcomes
<1> DEFINE p == [resolver[x] EXCEPT !.pc = "answered", !.outcome = outcome, !.revision = revision]
<1>5. resolver' = [resolver EXCEPT ![x] = p]
  BY <1>4 DEF Answer
<1>6. /\ p \in PassRecord /\ p.pc = "answered" /\ p.sequence = resolver[x].sequence
      /\ p.epoch = resolver[x].epoch /\ p.ordinal = resolver[x].ordinal
  <2>1. resolver[x] \in PassRecord
    BY DEF Paid, LateTypeOK
  <2> QED
    BY <2>1 DEF PassRecord, PassPcs
<1> HIDE DEF p
<1>7. PassesCarried /\ resolver' \in [Resolvers -> PassRecord]
  BY <1>1, <1>5, <1>6, MovePass DEF Resting, Probing
<1>8. Beside /\ resolution' = resolution /\ store' = store /\ rlease' = rlease /\ probes' = probes
  BY DEF QueryReturns, vars, Beside
<1> QED
  BY <1>7, <1>8, SameTable, StillTypes, QuietStep

\* Recording the answer of a query that found nothing to delete.
LEMMA SettleQueryStep ==
    ASSUME Paid, NEW x \in Resolvers, SettleQuery(x)
    PROVE  Paid' /\ Internal
<1>1. resolver[x].pc \notin Resting
  BY DEF SettleQuery, At, Resting
<1>2. Mine(x) \in Resolutions
  BY <1>1, MineHeld
<1>3. \/ resolution' = resolution
      \/ \E s \in ResolutionStates : Update(Mine(x), Concluded(Mine(x), s))
  BY DEF SettleQuery, ResolutionStates, TerminalStates
<1>4. TableCarried /\ resolution' \subseteq Resolutions
  BY <1>1, <1>2, <1>3, ConcludedType, ConcludedWork, MineTable
<1>5. PassesCarried /\ resolver' \in [Resolvers -> PassRecord]
  BY FinishPass DEF SettleQuery
<1>6. Beside /\ store' = store /\ rlease' = rlease /\ probes' = probes
  BY DEF SettleQuery, Beside
<1> QED
  BY <1>4, <1>5, <1>6, StillTypes, QuietStep

\* Issuing the permit of the conditional Delete.
LEMMA IssuePermitStep ==
    ASSUME Paid, NEW x \in Resolvers, IssuePermit(x)
    PROVE  Paid' /\ Internal
<1> DEFINE r == Mine(x)
           q == [r EXCEPT !.last_resolution_disposition = "delete_started",
                          !.last_disposition_epoch = r.resolution_epoch]
<1>1. resolver[x].pc = "answered" /\ resolver[x].pc \notin Resting
  BY DEF IssuePermit, At, Resting
<1>2. r \in Resolutions
  BY <1>1, MineHeld
<1>3. q \in Resolutions /\ SameWork(r, q)
  BY <1>2 DEF Resolutions, SameWork
<1>4. /\ \/ resolution' = resolution
         \/ Update(r, q)
         \/ Update(r, Concluded(r, "waiting_rebuild"))
      /\ Finish(x) \/ Proceed(x, "permitted")
  BY DEF IssuePermit
<1> HIDE DEF r, q
<1>5. Concluded(r, "waiting_rebuild") \in Resolutions /\ SameWork(r, Concluded(r, "waiting_rebuild"))
  BY <1>2, ConcludedType, ConcludedWork DEF ResolutionStates
<1>6. TableCarried /\ resolution' \subseteq Resolutions
  BY <1>1, <1>3, <1>4, <1>5, MineTable DEF r
<1>7. PassesCarried /\ resolver' \in [Resolvers -> PassRecord]
  BY <1>1, <1>4, FinishPass, ProceedPass DEF PassPcs, Probing
<1>8. Beside /\ store' = store /\ rlease' = rlease /\ probes' = probes
  BY DEF IssuePermit, Beside
<1> QED
  BY <1>6, <1>7, <1>8, StillTypes, QuietStep

\* What a conditional Delete leaves in the store is well typed.
LEMMA RemovedType ==
    ASSUME Paid, NEW x \in Resolvers
    PROVE  Removed(x) \in [Memories -> Nat]
BY StillTypes DEF Removed

\* The conditional Delete is over.
LEMMA DeleteReturnsStep ==
    ASSUME Paid, NEW x \in Resolvers, DeleteReturns(x)
    PROVE  Paid' /\ Internal
<1>1. resolver[x].pc = "deleting" /\ resolver[x].pc \notin Resting
  BY DEF DeleteReturns, At, Resting
<1>2. \E outcome \in Outcomes :
         resolver' = [resolver EXCEPT ![x].pc = "deleted", ![x].outcome = outcome]
  BY DEF DeleteReturns, Outcomes
<1>3. PICK outcome \in Outcomes :
         resolver' = [resolver EXCEPT ![x].pc = "deleted", ![x].outcome = outcome]
  BY <1>2
<1> DEFINE p == [resolver[x] EXCEPT !.pc = "deleted", !.outcome = outcome]
<1>4. resolver' = [resolver EXCEPT ![x] = p]
  BY <1>3
<1>5. /\ p \in PassRecord /\ p.pc = "deleted" /\ p.sequence = resolver[x].sequence
      /\ p.epoch = resolver[x].epoch /\ p.ordinal = resolver[x].ordinal
  <2>1. resolver[x] \in PassRecord
    BY DEF Paid, LateTypeOK
  <2> QED
    BY <2>1 DEF PassRecord, PassPcs
<1> HIDE DEF p
<1>6. PassesCarried /\ resolver' \in [Resolvers -> PassRecord]
  BY <1>1, <1>4, <1>5, MovePass DEF Probing
<1>7. store' \in [Memories -> Nat]
  BY RemovedType, StillTypes DEF DeleteReturns
<1>8. Beside /\ resolution' = resolution /\ rlease' = rlease /\ probes' = probes
  BY DEF DeleteReturns, Beside
<1> QED
  BY <1>6, <1>7, <1>8, SameTable, StillTypes, QuietStep

\* Recording the outcome of the conditional Delete.
LEMMA SettleDeleteStep ==
    ASSUME Paid, NEW x \in Resolvers, SettleDelete(x)
    PROVE  Paid' /\ Internal
<1> DEFINE r == Mine(x)
           left(s) == [r EXCEPT !.state = s, !.last_resolution_disposition = "finished"]
<1>1. resolver[x].pc \notin Resting
  BY DEF SettleDelete, At, Resting
<1>2. r \in Resolutions
  BY <1>1, MineHeld
<1>3. \/ resolution' = resolution
      \/ Update(r, Concluded(r, "resolved_deleted"))
      \/ Update(r, left("unknown"))
      \/ Update(r, left("waiting_rebuild"))
  BY DEF SettleDelete
<1>4. ASSUME NEW s \in ResolutionStates PROVE left(s) \in Resolutions /\ SameWork(r, left(s))
  BY <1>2 DEF Resolutions, SameWork
<1>5. Concluded(r, "resolved_deleted") \in Resolutions /\ SameWork(r, Concluded(r, "resolved_deleted"))
  BY <1>2, ConcludedType, ConcludedWork DEF ResolutionStates, TerminalStates
<1>6. "unknown" \in ResolutionStates /\ "waiting_rebuild" \in ResolutionStates
  BY DEF ResolutionStates
<1> HIDE DEF r, left
<1>7. TableCarried /\ resolution' \subseteq Resolutions
  BY <1>1, <1>3, <1>4, <1>5, <1>6, MineTable DEF r
<1>8. PassesCarried /\ resolver' \in [Resolvers -> PassRecord]
  BY FinishPass DEF SettleDelete
<1>9. Beside /\ store' = store /\ rlease' = rlease /\ probes' = probes
  BY DEF SettleDelete, Beside
<1> QED
  BY <1>7, <1>8, <1>9, StillTypes, QuietStep

\* Releasing the lease.
LEMMA ReleaseStep ==
    ASSUME Paid, NEW x \in Resolvers, Release(x)
    PROVE  Paid' /\ Internal
<1>1. PassesCarried /\ resolver' \in [Resolvers -> PassRecord]
  BY AsleepType, MovePass DEF Release
<1>2. rlease' \in [fence : Nat, expires : Nat]
  BY StillTypes DEF Release
<1>3. Beside /\ resolution' = resolution /\ store' = store /\ probes' = probes
  BY DEF Release, vars, Beside
<1> QED
  BY <1>1, <1>2, <1>3, SameTable, StillTypes, QuietStep

\* A pass that crashes or fails.
LEMMA AbortPassStep ==
    ASSUME Paid, NEW x \in Resolvers, AbortPass(x)
    PROVE  Paid' /\ Internal
<1>1. PassesCarried /\ resolver' \in [Resolvers -> PassRecord]
  BY AsleepType, MovePass, FinishPass DEF AbortPass
<1>2. store' \in [Memories -> Nat]
  BY RemovedType, StillTypes DEF AbortPass
<1>3. Beside /\ resolution' = resolution /\ rlease' = rlease /\ probes' = probes
  BY DEF AbortPass, Beside
<1> QED
  BY <1>1, <1>2, <1>3, SameTable, StillTypes, QuietStep

-----------------------------------------------------------------------------
(* The steps that claim, pay and call *)

\* Rewriting a resolution so that its ordinals and epoch grow keeps the table issued
\* and every call paid for.
LEMMA GrownTable ==
    ASSUME Paid, NEW r \in resolution, NEW q \in Resolutions, Update(r, q), Beside,
           store' = store, rlease' = rlease, probes' = probes,
           q.sequence = r.sequence, q.memory = r.memory,
           r.resolution_count <= q.resolution_count, q.resolution_count <= MaxResolutions
    PROVE  /\ TypeOK' /\ Internal
           /\ RowsIssued' /\ TableIssued' /\ Unprobed' /\ ProbesArePaid'
           /\ probes' \in [Mutations -> [query : Nat, delete : Nat]]
           /\ rlease' \in [fence : Nat, expires : Nat]
<1>1. resolution' \subseteq Resolutions
  BY StillTypes DEF Update
<1>2. TypeOK' /\ Internal /\ RowsCarried
  BY <1>1, StillTypes, BesideFrame
<1>3. RowsIssued'
  BY DEF Paid, RowsIssued, Present, Beside
<1>4. TableIssued'
  BY DEF Paid, TableIssued, Present, Beside, Update
<1>5. Unprobed'
  BY DEF Paid, Unprobed, Update
<1>6. ProbesArePaid'
  <2>1. /\ r.resolution_count \in Nat /\ q.resolution_count \in Nat /\ r.sequence \in Mutations
        /\ probes[r.sequence].query \in Nat
    BY LateTypes DEF Paid, Resolutions
  <2>2. \A p \in resolution' : p = q \/ p \in resolution
    BY DEF Update
  <2>3. /\ probes[q.sequence].query <= q.resolution_count
        /\ probes[q.sequence].delete <= probes[q.sequence].query
        /\ q.resolution_count <= MaxResolutions
    BY <2>1 DEF Paid, ProbesArePaid
  <2> QED
    BY <2>2, <2>3 DEF Paid, ProbesArePaid
<1>7. probes' \in [Mutations -> [query : Nat, delete : Nat]]
  BY DEF Paid, LateTypeOK
<1> QED
  BY <1>2, <1>3, <1>4, <1>5, <1>6, <1>7, StillTypes

\* A pass that takes over a resolution under an epoch no other pass has.
LEMMA TakeOver ==
    ASSUME Paid, NEW x \in Resolvers, NEW r \in resolution, NEW q \in Resolutions, Update(r, q),
           Beside, store' = store, rlease' = rlease, probes' = probes,
           q.sequence = r.sequence, q.memory = r.memory,
           r.resolution_count <= q.resolution_count, q.resolution_count <= MaxResolutions,
           r.resolution_epoch <= q.resolution_epoch,
           NEW p \in PassRecord, resolver' = [resolver EXCEPT ![x] = p],
           p.sequence = r.sequence, p.epoch = q.resolution_epoch,
           p.ordinal <= MaxResolutions, p.pc \in {"claimed", "reserved"},
           p.pc = "reserved" => probes[r.sequence].query < q.resolution_count,
           \A y \in Resolvers \ {x} :
               resolver[y].sequence = r.sequence => resolver[y].epoch # q.resolution_epoch
    PROVE  Paid' /\ Internal
<1>1. /\ TypeOK' /\ Internal
      /\ RowsIssued' /\ TableIssued' /\ Unprobed' /\ ProbesArePaid'
      /\ probes' \in [Mutations -> [query : Nat, delete : Nat]]
      /\ rlease' \in [fence : Nat, expires : Nat]
  BY GrownTable
<1>2. /\ resolver' \in [Resolvers -> PassRecord]
      /\ resolver'[x] = p
      /\ \A y \in Resolvers \ {x} : resolver'[y] = resolver[y]
  BY DEF Paid, LateTypeOK
<1>3. /\ q \in resolution'
      /\ \A s \in resolution' : s = q \/ s \in resolution
      /\ \A s \in resolution : s # r => s \in resolution'
  BY DEF Update
<1>4. ASSUME NEW y \in Resolvers
      PROVE  /\ resolver'[y].pc \notin Resting => resolver'[y].sequence # 0
             /\ resolver'[y].sequence # 0 =>
                   /\ \E s \in resolution' : s.sequence = resolver'[y].sequence
                   /\ resolver'[y].ordinal <= MaxResolutions
  <2>1. CASE y = x
    <3>1. r.sequence # 0
      BY StillTypes DEF Resolutions, Mutations
    <3> QED
      BY <1>2, <1>3, <2>1, <3>1
  <2>2. CASE y # x
    <3>1. /\ resolver[y].pc \notin Resting => resolver[y].sequence # 0
          /\ resolver[y].sequence # 0 =>
                /\ \E s \in resolution : s.sequence = resolver[y].sequence
                /\ resolver[y].ordinal <= MaxResolutions
      BY DEF Paid, LateTypeOK, At
    <3> QED
      BY <1>2, <1>3, <2>2, <3>1
  <2> QED
    BY <2>1, <2>2
<1>5. LateTypeOK'
  BY <1>1, <1>2, <1>4 DEF LateTypeOK, At
<1>6. ASSUME NEW y \in Resolvers PROVE PassPaid(y)'
  <2>1. CASE y = x
    <3>1. \A s \in resolution' : s.sequence = p.sequence => s = q
      BY <1>1, <1>3 DEF TableIssued
    <3>2. q.resolution_epoch \in Nat
      BY DEF Resolutions
    <3>3. p.pc \notin Probing
      BY DEF Probing
    <3> QED
      BY <1>2, <2>1, <3>1, <3>2, <3>3 DEF PassPaid
  <2>2. CASE y # x
    <3>1. PassPaid(y)
      BY DEF Paid
    <3>2. /\ r.resolution_epoch \in Nat /\ q.resolution_epoch \in Nat
          /\ resolver[y].epoch \in Nat
      BY LateTypes DEF Paid, Resolutions
    <3>3. resolver[y].sequence = r.sequence => resolver[y].epoch <= q.resolution_epoch
      BY <3>1, <3>2 DEF PassPaid
    <3> QED
      BY <1>2, <1>3, <2>2, <3>1, <3>3 DEF PassPaid
  <2> QED
    BY <2>1, <2>2
<1>7. PassesApart'
  BY <1>2 DEF Paid, PassesApart
<1> QED
  BY <1>1, <1>5, <1>6, <1>7 DEF Paid

\* Claiming the oldest candidate, or sending it to the rebuild.
LEMMA ClaimResolutionStep ==
    ASSUME Paid, NEW x \in Resolvers, ClaimResolution(x)
    PROVE  Paid' /\ Internal
<1>1. Beside /\ store' = store /\ rlease' = rlease /\ probes' = probes
  BY DEF ClaimResolution, Beside
<1>2. \/ resolution' = resolution /\ Finish(x)
      \/ \E r \in resolution :
           \/ Update(r, Concluded(r, "waiting_rebuild")) /\ Finish(x)
           \/ /\ r.resolution_count < MaxResolutions
              /\ Update(r, [r EXCEPT !.state = "claimed", !.resolution_epoch = @ + 1,
                                     !.lease_fence_epoch = resolver[x].fence,
                                     !.lease_expires_at = now + LeaseTicks])
              /\ resolver' = [resolver EXCEPT ![x] =
                     [@ EXCEPT !.pc = "claimed", !.sequence = r.sequence,
                               !.epoch = r.resolution_epoch + 1,
                               !.ordinal = r.resolution_count]]
  BY DEF ClaimResolution
<1>3. CASE resolution' = resolution /\ Finish(x)
  BY <1>1, <1>3, SameTable, FinishPass, StillTypes, QuietStep
<1>4. ASSUME NEW r \in resolution, Update(r, Concluded(r, "waiting_rebuild")), Finish(x)
      PROVE  Paid' /\ Internal
  <2>1. r \in Resolutions /\ "waiting_rebuild" \in ResolutionStates
    BY StillTypes DEF ResolutionStates
  <2>2. TableCarried /\ resolution' \subseteq Resolutions
    BY <1>4, <2>1, ConcludedType, ConcludedWork, UpdateTable, StillTypes
  <2> QED
    BY <1>1, <1>4, <2>2, FinishPass, StillTypes, QuietStep
<1>5. ASSUME NEW r \in resolution, r.resolution_count < MaxResolutions,
             Update(r, [r EXCEPT !.state = "claimed", !.resolution_epoch = @ + 1,
                                 !.lease_fence_epoch = resolver[x].fence,
                                 !.lease_expires_at = now + LeaseTicks]),
             resolver' = [resolver EXCEPT ![x] =
                     [@ EXCEPT !.pc = "claimed", !.sequence = r.sequence,
                               !.epoch = r.resolution_epoch + 1,
                               !.ordinal = r.resolution_count]]
      PROVE  Paid' /\ Internal
  <2> DEFINE q == [r EXCEPT !.state = "claimed", !.resolution_epoch = @ + 1,
                            !.lease_fence_epoch = resolver[x].fence,
                            !.lease_expires_at = now + LeaseTicks]
             p == [resolver[x] EXCEPT !.pc = "claimed", !.sequence = r.sequence,
                                      !.epoch = r.resolution_epoch + 1,
                                      !.ordinal = r.resolution_count]
  <2>1. /\ r \in Resolutions /\ resolver[x] \in PassRecord
        /\ r.sequence \in Mutations /\ r.resolution_count \in Nat /\ r.resolution_epoch \in Nat
        /\ now + LeaseTicks \in Nat
    BY LateTypes, StillTypes DEF Paid
  <2>2. PICK e \in Nat, f \in Nat, t \in Nat, s \in 0 .. MaxSequence, o \in Nat :
          /\ e = r.resolution_epoch + 1 /\ f = resolver[x].fence /\ t = now + LeaseTicks
          /\ s = r.sequence /\ o = r.resolution_count
    <3>1. resolver[x].fence \in Nat
      BY <2>1 DEF PassRecord
    <3>2. r.sequence \in 0 .. MaxSequence
      BY <2>1, BoundsAssumption DEF Mutations
    <3> QED
      BY <2>1, <3>1, <3>2
  <2>3. /\ q \in Resolutions /\ q.sequence = r.sequence /\ q.memory = r.memory
        /\ q.resolution_count = r.resolution_count
        /\ q.resolution_epoch = e
    <3>1. q = [r EXCEPT !.state = "claimed", !.resolution_epoch = e,
                        !.lease_fence_epoch = f, !.lease_expires_at = t]
      BY <2>1, <2>2 DEF Resolutions
    <3>2. "claimed" \in ResolutionStates
      BY DEF ResolutionStates
    <3> HIDE DEF q
    <3> QED
      BY <2>1, <3>1, <3>2 DEF Resolutions
  <2>4. /\ p \in PassRecord /\ p.sequence = s /\ p.epoch = e
        /\ p.ordinal = o /\ p.pc = "claimed"
    <3>1. p = [resolver[x] EXCEPT !.pc = "claimed", !.sequence = s, !.epoch = e, !.ordinal = o]
      BY <2>2
    <3>2. "claimed" \in PassPcs
      BY DEF PassPcs
    <3> HIDE DEF p
    <3> QED
      BY <2>1, <3>1, <3>2 DEF PassRecord
  <2>5. \A y \in Resolvers \ {x} :
           resolver[y].sequence = r.sequence => resolver[y].epoch # q.resolution_epoch
    <3>1. \A y \in Resolvers : resolver[y].epoch \in Nat /\ PassPaid(y)
      BY LateTypes DEF Paid
    <3> QED
      BY <2>1, <2>2, <2>3, <3>1 DEF PassPaid
  <2>6. Update(r, q) /\ resolver' = [resolver EXCEPT ![x] = p]
    BY <1>5
  <2>7. r.resolution_count <= MaxResolutions /\ r.resolution_epoch <= r.resolution_epoch + 1
    BY <1>5, <2>1, ResolverAssumption
  <2> HIDE DEF p, q
  <2>8. /\ r.resolution_count <= q.resolution_count /\ q.resolution_count <= MaxResolutions
        /\ r.resolution_epoch <= q.resolution_epoch /\ p.epoch = q.resolution_epoch
        /\ p.ordinal <= MaxResolutions /\ p.pc \in {"claimed", "reserved"}
        /\ p.pc = "reserved" => probes[r.sequence].query < q.resolution_count
    BY <2>1, <2>2, <2>3, <2>4, <2>7
  <2>9. q \in Resolutions /\ q.sequence = r.sequence /\ q.memory = r.memory
          /\ p \in PassRecord /\ p.sequence = r.sequence
    BY <2>2, <2>3, <2>4
  <2> QED
    BY <1>1, <2>5, <2>6, <2>8, <2>9, TakeOver
<1> QED
  BY <1>2, <1>3, <1>4, <1>5

\* Reserving one ordinal for a claim, or giving the claim up.
LEMMA ReserveResolutionStep ==
    ASSUME Paid, NEW x \in Resolvers, ReserveResolution(x)
    PROVE  Paid' /\ Internal
<1> DEFINE r == Mine(x)
           q == [r EXCEPT !.state = "processing", !.resolution_count = @ + 1,
                          !.last_reserved_resolution_epoch = r.resolution_epoch]
           p == [resolver[x] EXCEPT !.pc = "reserved", !.ordinal = @ + 1]
<1>1. Beside /\ store' = store /\ rlease' = rlease /\ probes' = probes
  BY DEF ReserveResolution, Beside
<1>2. resolver[x].pc = "claimed" /\ resolver[x].pc \notin Resting
  BY DEF ReserveResolution, At, Resting
<1>3. r \in resolution /\ r \in Resolutions /\ r.sequence = resolver[x].sequence
  BY <1>2, MineHeld
<1>4. \/ resolution' = resolution /\ Finish(x)
      \/ Update(r, Concluded(r, "waiting_rebuild")) /\ Finish(x)
      \/ /\ ClaimMatches(x) /\ r.resolution_count # MaxResolutions
         /\ Update(r, q)
         /\ resolver' = [resolver EXCEPT ![x] = p]
  BY DEF ReserveResolution
<1>5. CASE resolution' = resolution /\ Finish(x)
  BY <1>1, <1>5, SameTable, FinishPass, StillTypes, QuietStep
<1>6. CASE Update(r, Concluded(r, "waiting_rebuild")) /\ Finish(x)
  <2>1. "waiting_rebuild" \in ResolutionStates
    BY DEF ResolutionStates
  <2> HIDE DEF r
  <2>2. TableCarried /\ resolution' \subseteq Resolutions
    BY <1>3, <1>6, <2>1, ConcludedType, ConcludedWork, UpdateTable, StillTypes
  <2> QED
    BY <1>1, <1>6, <2>2, FinishPass, StillTypes, QuietStep
<1>7. CASE /\ ClaimMatches(x) /\ r.resolution_count # MaxResolutions
           /\ Update(r, q)
           /\ resolver' = [resolver EXCEPT ![x] = p]
  <2>1. /\ r.resolution_epoch = resolver[x].epoch
        /\ r.resolution_count = resolver[x].ordinal
    BY <1>7 DEF ClaimMatches
  <2> HIDE DEF r
  <2>2. /\ resolver[x] \in PassRecord /\ r.sequence \in Mutations
        /\ r.resolution_count \in Nat /\ r.resolution_epoch \in Nat
        /\ probes[r.sequence].query \in Nat
    BY <1>3, LateTypes DEF Paid
  <2>3. r.resolution_count <= MaxResolutions /\ probes[r.sequence].query <= r.resolution_count
    BY <1>3 DEF Paid, ProbesArePaid
  <2>4. PICK o \in Nat : o = r.resolution_count + 1
    BY <2>2
  <2>5. o <= MaxResolutions /\ probes[r.sequence].query < o /\ r.resolution_count <= o
    BY <1>7, <2>2, <2>3, <2>4, ResolverAssumption
  <2>6. /\ q \in Resolutions /\ q.sequence = r.sequence /\ q.memory = r.memory
        /\ q.resolution_count = o
        /\ q.resolution_epoch = r.resolution_epoch
    <3>1. q = [r EXCEPT !.state = "processing", !.resolution_count = o,
                        !.last_reserved_resolution_epoch = r.resolution_epoch]
      BY <1>3, <2>4 DEF Resolutions
    <3>2. "processing" \in ResolutionStates
      BY DEF ResolutionStates
    <3> HIDE DEF q
    <3> QED
      BY <1>3, <2>2, <3>1, <3>2 DEF Resolutions
  <2>7. /\ p \in PassRecord /\ p.sequence = r.sequence /\ p.epoch = r.resolution_epoch
        /\ p.ordinal = o /\ p.pc = "reserved"
    <3>1. p = [resolver[x] EXCEPT !.pc = "reserved", !.ordinal = o]
      BY <2>1, <2>2, <2>4 DEF PassRecord
    <3>2. "reserved" \in PassPcs
      BY DEF PassPcs
    <3> HIDE DEF p
    <3> QED
      BY <1>3, <2>1, <2>2, <3>1, <3>2 DEF PassRecord
  <2>8. \A y \in Resolvers \ {x} :
           resolver[y].sequence = r.sequence => resolver[y].epoch # r.resolution_epoch
    <3>1. r.sequence # 0
      BY <2>2 DEF Mutations
    <3> QED
      BY <1>3, <2>1, <3>1 DEF Paid, PassesApart
  <2> HIDE DEF p, q
  <2>9. /\ r.resolution_count <= q.resolution_count /\ q.resolution_count <= MaxResolutions
        /\ r.resolution_epoch <= q.resolution_epoch /\ p.epoch = q.resolution_epoch
        /\ p.ordinal <= MaxResolutions /\ p.pc \in {"claimed", "reserved"}
        /\ p.pc = "reserved" => probes[r.sequence].query < q.resolution_count
        /\ \A y \in Resolvers \ {x} :
               resolver[y].sequence = r.sequence => resolver[y].epoch # q.resolution_epoch
    BY <2>2, <2>5, <2>6, <2>7, <2>8
  <2>10. q \in Resolutions /\ q.sequence = r.sequence /\ q.memory = r.memory
           /\ p \in PassRecord /\ p.sequence = r.sequence
    BY <2>6, <2>7
  <2> QED
    BY <1>1, <1>3, <1>7, <2>9, <2>10, TakeOver
<1> QED
  BY <1>4, <1>5, <1>6, <1>7

\* A pass with a current token moves on with a call: the budget of its own resolution
\* must still cover it, and no other pass has a current token of that resolution.
LEMMA CallStep ==
    ASSUME Paid, NEW x \in Resolvers, resolver[x].pc \notin Resting, PermitCurrent(x),
           UNCHANGED <<vars, rlease>>,
           NEW pc \in PassPcs, pc \notin Resting, pc # "reserved", Proceed(x, pc),
           NEW n \in [query : Nat, delete : Nat],
           probes' = [probes EXCEPT ![resolver[x].sequence] = n],
           n.query <= Mine(x).resolution_count, n.delete <= n.query,
           pc \in Probing => n.delete < n.query
    PROVE  Paid' /\ Internal
<1> DEFINE s == resolver[x].sequence
<1>1. /\ Mine(x) \in resolution /\ Mine(x).sequence = s /\ s \in Mutations
      /\ \A r \in resolution : r.sequence = s => r = Mine(x)
  BY MineHeld
<1>2. /\ Mine(x).resolution_epoch = resolver[x].epoch
      /\ Mine(x).resolution_count = resolver[x].ordinal
  BY DEF PermitCurrent
<1>3. /\ resolution' = resolution /\ Beside /\ store' = store /\ rlease' = rlease
  BY DEF vars, Beside
<1>4. TypeOK' /\ Internal
  BY <1>3, StillTypes, BesideFrame
<1>5. /\ probes' \in [Mutations -> [query : Nat, delete : Nat]]
      /\ probes'[s] = n
      /\ \A t \in Mutations : t # s => probes'[t] = probes[t]
  BY <1>1 DEF Paid, LateTypeOK
<1>6. /\ resolver' \in [Resolvers -> PassRecord]
      /\ resolver'[x].pc = pc /\ resolver'[x].sequence = s
      /\ resolver'[x].epoch = resolver[x].epoch /\ resolver'[x].ordinal = resolver[x].ordinal
      /\ \A y \in Resolvers : y # x => resolver'[y] = resolver[y]
  <2> DEFINE p == [resolver[x] EXCEPT !.pc = pc]
  <2>1. resolver \in [Resolvers -> PassRecord] /\ resolver[x] \in PassRecord
    BY DEF Paid, LateTypeOK
  <2>2. /\ p \in PassRecord /\ p.pc = pc /\ p.sequence = s
        /\ p.epoch = resolver[x].epoch /\ p.ordinal = resolver[x].ordinal
    BY <2>1 DEF PassRecord
  <2>3. resolver' = [resolver EXCEPT ![x] = p]
    BY DEF Proceed
  <2> HIDE DEF p
  <2> QED
    BY <2>1, <2>2, <2>3
<1>7. \A r \in resolution : r.sequence \in Mutations
  BY LateTypes DEF Paid
<1> HIDE DEF s
<1>8. LateTypeOK'
  <2>1. s # 0
    BY <1>1 DEF Mutations
  <2>2. ASSUME NEW y \in Resolvers
        PROVE  /\ resolver'[y].pc \notin Resting => resolver'[y].sequence # 0
               /\ resolver'[y].sequence # 0 =>
                     /\ \E r \in resolution' : r.sequence = resolver'[y].sequence
                     /\ resolver'[y].ordinal <= MaxResolutions
    <3>1. /\ resolver[y].pc \notin Resting => resolver[y].sequence # 0
          /\ resolver[y].sequence # 0 =>
                /\ \E r \in resolution : r.sequence = resolver[y].sequence
                /\ resolver[y].ordinal <= MaxResolutions
      BY DEF Paid, LateTypeOK, At
    <3> QED
      BY <1>3, <1>6, <2>1, <3>1 DEF s
  <2> QED
    BY <1>3, <1>4, <1>5, <1>6, <2>2, StillTypes DEF LateTypeOK, At
<1>9. RowsIssued' /\ TableIssued'
  BY <1>3 DEF Paid, RowsIssued, TableIssued, Present, Beside
<1>10. Unprobed'
  BY <1>1, <1>3, <1>5 DEF Paid, Unprobed
<1>11. ProbesArePaid'
  BY <1>1, <1>3, <1>5, <1>7 DEF Paid, ProbesArePaid
<1>12. ASSUME NEW y \in Resolvers PROVE PassPaid(y)'
  <2>1. PassPaid(y) /\ PassPaid(x)
    BY DEF Paid
  <2>2. CASE y = x
    BY <1>1, <1>3, <1>5, <1>6, <2>1, <2>2 DEF PassPaid, s
  <2>3. CASE y # x
    <3>1. resolver[y].sequence = s => resolver[y].epoch # resolver[x].epoch
      <4>1. s # 0
        BY <1>1 DEF Mutations
      <4> QED
        BY <2>3, <4>1 DEF Paid, PassesApart, s
    <3> QED
      BY <1>1, <1>2, <1>3, <1>5, <1>6, <1>7, <2>1, <2>3, <3>1 DEF PassPaid
  <2> QED
    BY <2>2, <2>3
<1>13. PassesApart'
  <2>1. \A y \in Resolvers : resolver'[y].sequence = resolver[y].sequence
                               /\ resolver'[y].epoch = resolver[y].epoch
    BY <1>6 DEF s
  <2> QED
    BY <2>1 DEF Paid, PassesApart
<1> QED
  BY <1>4, <1>8, <1>9, <1>10, <1>11, <1>12, <1>13 DEF Paid

\* The query is made when the token is current, and never otherwise.
LEMMA CallQueryStep ==
    ASSUME Paid, NEW x \in Resolvers, CallQuery(x)
    PROVE  Paid' /\ Internal
<1>1. resolver[x].pc = "reserved" /\ resolver[x].pc \notin Resting
  BY DEF CallQuery, At, Resting
<1>2. UNCHANGED <<vars, rlease>>
  BY DEF CallQuery
<1>3. CASE PermitCurrent(x)
  <2> DEFINE s == resolver[x].sequence
             n == [query |-> probes[s].query + 1, delete |-> probes[s].delete]
  <2>1. /\ Mine(x) \in resolution /\ Mine(x).sequence = s /\ s \in Mutations
    BY <1>1, MineHeld
  <2>2. /\ Mine(x).resolution_epoch = resolver[x].epoch
        /\ Mine(x).resolution_count = resolver[x].ordinal
    BY <1>3 DEF PermitCurrent
  <2>3. /\ probes[s].query < Mine(x).resolution_count
        /\ probes[s].delete <= probes[s].query
    <3>1. PassPaid(x)
      BY DEF Paid
    <3> QED
      BY <1>1, <2>1, <2>2, <3>1 DEF PassPaid, Paid, ProbesArePaid
  <2>4. /\ probes[s].query \in Nat /\ probes[s].delete \in Nat
        /\ Mine(x).resolution_count \in Nat
    BY <2>1, LateTypes DEF Paid
  <2>5. /\ n \in [query : Nat, delete : Nat]
        /\ n.query <= Mine(x).resolution_count /\ n.delete < n.query /\ n.delete <= n.query
    BY <2>3, <2>4
  <2>6. Proceed(x, "querying") /\ probes' = [probes EXCEPT ![s].query = @ + 1]
    BY <1>3 DEF CallQuery
  <2>7. probes' = [probes EXCEPT ![s] = n]
    <3>1. probes[s] \in [query : Nat, delete : Nat]
      BY <2>1 DEF Paid, LateTypeOK
    <3>2. [probes[s] EXCEPT !.query = @ + 1] = n
      BY <3>1
    <3>3. probes' = [probes EXCEPT ![s] = [probes[s] EXCEPT !.query = @ + 1]]
      BY <2>6
    <3> QED
      BY <3>2, <3>3
  <2>8. "querying" \in PassPcs /\ "querying" \notin Resting
    BY DEF PassPcs, Resting
  <2> HIDE DEF n
  <2> QED
    BY <1>1, <1>2, <1>3, <2>5, <2>6, <2>7, <2>8, CallStep
<1>4. CASE ~PermitCurrent(x)
  <2>1. Finish(x) /\ probes' = probes
    BY <1>4 DEF CallQuery
  <2>2. Beside /\ resolution' = resolution /\ store' = store /\ rlease' = rlease
    BY <1>2 DEF vars, Beside
  <2> QED
    BY <2>1, <2>2, SameTable, FinishPass, StillTypes, QuietStep
<1> QED
  BY <1>3, <1>4

\* The conditional Delete is made when the permit is current, and never otherwise.
LEMMA CallDeleteStep ==
    ASSUME Paid, NEW x \in Resolvers, CallDelete(x)
    PROVE  Paid' /\ Internal
<1>1. resolver[x].pc = "permitted" /\ resolver[x].pc \notin Resting
  BY DEF CallDelete, At, Resting
<1>2. UNCHANGED <<vars, rlease>>
  BY DEF CallDelete
<1>3. CASE /\ PermitCurrent(x) /\ Proceed(x, "deleting")
           /\ probes' = [probes EXCEPT ![resolver[x].sequence].delete = @ + 1]
  <2> DEFINE s == resolver[x].sequence
             n == [query |-> probes[s].query, delete |-> probes[s].delete + 1]
  <2>1. /\ Mine(x) \in resolution /\ Mine(x).sequence = s /\ s \in Mutations
    BY <1>1, MineHeld
  <2>2. /\ Mine(x).resolution_epoch = resolver[x].epoch
        /\ Mine(x).resolution_count = resolver[x].ordinal
    BY <1>3 DEF PermitCurrent
  <2>3. /\ probes[s].query <= Mine(x).resolution_count
        /\ probes[s].delete < probes[s].query
    <3>1. PassPaid(x)
      BY DEF Paid
    <3> QED
      BY <1>1, <2>1, <2>2, <3>1 DEF PassPaid, Probing, Paid, ProbesArePaid
  <2>4. /\ probes[s].query \in Nat /\ probes[s].delete \in Nat
        /\ Mine(x).resolution_count \in Nat
    BY <2>1, LateTypes DEF Paid
  <2>5. /\ n \in [query : Nat, delete : Nat]
        /\ n.query <= Mine(x).resolution_count /\ n.delete <= n.query
    BY <2>3, <2>4
  <2>6. probes' = [probes EXCEPT ![s] = n]
    <3>1. probes[s] \in [query : Nat, delete : Nat]
      BY <2>1 DEF Paid, LateTypeOK
    <3>2. [probes[s] EXCEPT !.delete = @ + 1] = n
      BY <3>1
    <3>3. probes' = [probes EXCEPT ![s] = [probes[s] EXCEPT !.delete = @ + 1]]
      BY <1>3
    <3> QED
      BY <3>2, <3>3
  <2>7. "deleting" \in PassPcs /\ "deleting" \notin Resting /\ "deleting" \notin Probing
    BY DEF PassPcs, Resting, Probing
  <2> HIDE DEF n
  <2> QED
    BY <1>1, <1>2, <1>3, <2>5, <2>6, <2>7, CallStep
<1>4. ASSUME probes' = probes,
             \/ Finish(x)
             \/ resolver' = [resolver EXCEPT ![x].pc = "deleted", ![x].outcome = "corrupt"]
      PROVE  Paid' /\ Internal
  <2>1. Beside /\ resolution' = resolution /\ store' = store /\ rlease' = rlease
    BY <1>2 DEF vars, Beside
  <2>2. PassesCarried /\ resolver' \in [Resolvers -> PassRecord]
    <3> DEFINE p == [resolver[x] EXCEPT !.pc = "deleted", !.outcome = "corrupt"]
    <3>1. resolver[x] \in PassRecord
      BY DEF Paid, LateTypeOK
    <3>2. /\ p \in PassRecord /\ p.pc = "deleted" /\ p.sequence = resolver[x].sequence
          /\ p.epoch = resolver[x].epoch /\ p.ordinal = resolver[x].ordinal
      BY <3>1 DEF PassRecord, PassPcs, Outcomes
    <3>3. Finish(x) \/ resolver' = [resolver EXCEPT ![x] = p]
      BY <1>4
    <3> HIDE DEF p
    <3> QED
      BY <1>1, <3>2, <3>3, FinishPass, MovePass DEF Probing
  <2> QED
    BY <1>4, <2>1, <2>2, SameTable, StillTypes, QuietStep
<1> QED
  BY <1>3, <1>4 DEF CallDelete

-----------------------------------------------------------------------------
(* The theorems *)

\* Every step of a pass is invisible to rows, memories and items, and paid for.
LEMMA PassStep ==
    ASSUME Paid, NEW x \in Resolvers, Acquire(x) \/ Pass(x) \/ AbortPass(x)
    PROVE  Paid' /\ Internal
BY AcquireStep, RecoverExpiredStep, ClaimResolutionStep, ReserveResolutionStep, CallQueryStep,
   QueryReturnsStep, SettleQueryStep, IssuePermitStep, CallDeleteStep, DeleteReturnsStep,
   SettleDeleteStep, ReleaseStep, AbortPassStep DEF Pass

\* Every step of the synchronisation, cut-overs under the lease included, carries the
\* resolver's table and passes.
LEMMA SyncStep ==
    ASSUME Paid, Intents, [Next]_vars, UNCHANGED <<resolver, probes>>,
           rlease' \in [fence : Nat, expires : Nat]
    PROVE  Paid'
<1>1. TypeOK' /\ RowsCarried
  BY SyncRows
<1>2. TableCarried
  BY SyncTable, StillTypes DEF Paid
<1>3. PassesCarried /\ resolver' \in [Resolvers -> PassRecord]
  BY DEF Paid, LateTypeOK, PassesCarried
<1> QED
  BY <1>1, <1>2, <1>3, Carried

\* A step of the composition is a step of the synchronisation or of one pass.
LEMMA LateStep ==
    ASSUME Paid, Intents, [LateNext]_lateVars
    PROVE  Paid' /\ ([Next]_vars \/ Internal)
<1>1. CASE UNCHANGED lateVars
  <2>1. UNCHANGED vars /\ UNCHANGED <<resolver, probes>> /\ rlease' = rlease
    BY <1>1 DEF lateVars
  <2> QED
    BY <2>1, StillTypes, SyncStep
<1>2. CASE Sync /\ UNCHANGED <<rlease, resolver, probes>>
  <2>1. Next
    BY <1>2 DEF Next
  <2> QED
    BY <1>2, <2>1, StillTypes, SyncStep
<1>3. ASSUME NEW w \in Workers, PromoteUnderLease(w) PROVE Paid' /\ [Next]_vars
  <2>1. Next /\ UNCHANGED <<resolver, probes>>
    BY <1>3 DEF Next, PromoteUnderLease
  <2>2. rlease' \in [fence : Nat, expires : Nat]
    <3>1. rlease.fence + 1 \in Nat /\ {0} \cup ({now + LeaseTicks} \cap (0 .. MaxNow)) \subseteq Nat
      BY StillTypes
    <3> QED
      BY <1>3, <3>1 DEF PromoteUnderLease
  <2> QED
    BY <2>1, <2>2, SyncStep
<1>4. ASSUME NEW x \in Resolvers, Acquire(x) \/ Pass(x) \/ AbortPass(x) PROVE Paid' /\ Internal
  BY <1>4, PassStep
<1> QED
  BY <1>1, <1>2, <1>3, <1>4 DEF LateNext

\* Both invariants hold initially and every step of the composition keeps them.
LEMMA LateInductive ==
    /\ LateInit => Paid /\ Intents
    /\ Paid /\ Intents /\ [LateNext]_lateVars => Paid' /\ Intents'
<1>1. ASSUME LateInit PROVE Paid /\ Intents
  <2>1. Intents /\ TypeOK /\ Init
    BY <1>1, IntentsInductive, InitType DEF LateInit
  <2>2. resolution = {} /\ \A m \in Memories : ~Present(m)
    BY <2>1 DEF Init, Present, EmptyRow
  <2>3. /\ \A x \in Resolvers : resolver[x] = Asleep
        /\ resolver \in [Resolvers -> PassRecord]
    BY <1>1, AsleepType DEF LateInit
  <2>4. LateTypeOK
    BY <1>1, <2>1, <2>3, AsleepType DEF LateInit, LateTypeOK, At
  <2>5. PassesApart
    BY <2>3, AsleepType DEF PassesApart
  <2> QED
    BY <1>1, <2>1, <2>2, <2>4, <2>5
       DEF Paid, RowsIssued, TableIssued, Unprobed, ProbesArePaid, PassPaid, LateInit
<1>2. ASSUME Paid, Intents, [LateNext]_lateVars PROVE Paid' /\ Intents'
  <2>1. Paid' /\ ([Next]_vars \/ Internal)
    BY <1>2, LateStep
  <2>2. TypeOK'
    BY <2>1 DEF Paid, LateTypeOK
  <2> QED
    BY <1>2, <2>1, <2>2, IntentsInductive, InternalIntents
<1> QED
  BY <1>1, <1>2

\* The type invariant of the composition: every reachable state is well typed, and a
\* pass that holds a claim has its resolution and an ordinal within the budget.
THEOREM LateTypeCorrect == LateSpec => []LateTypeOK
<1>1. Paid => LateTypeOK
  BY DEF Paid
<1> QED
  BY LateInductive, <1>1, PTL DEF LateSpec

\* The resolver's budget: whatever passes overlap, expire or crash, a resolution's
\* queries and conditional Deletes are covered by its ordinals, and those by the limit.
THEOREM EveryProbeIsPaid == LateSpec => []ProbesArePaid
<1>1. Paid => ProbesArePaid
  BY DEF Paid
<1> QED
  BY LateInductive, <1>1, PTL DEF LateSpec

\* Beside any number of resolver passes too, a memory whose row is gone is on record at
\* its desired revision.
THEOREM NothingIsForgottenBesideResolver == LateSpec => []SettledItemIsDesired
<1>1. Intents => SettledItemIsDesired
  BY DEF Intents
<1> QED
  BY LateInductive, <1>1, PTL DEF LateSpec

\* With the resolver and the cut-overs under its lease, the composition still implements
\* the abstract index: no pass settles, forgets or changes what a memory should have.
THEOREM IndexRefinementBesideResolver == LateSpec => ImplementsIndex
<1>1. Paid /\ Intents /\ Paid' /\ Intents' /\ [LateNext]_lateVars => [Index!Next]_(Index!vars)
  BY LateStep, IndexStep
<1>2. LateInit => Index!Init
  BY IndexInit DEF LateInit
<1> QED
  BY <1>1, <1>2, LateInductive, PTL DEF LateSpec, ImplementsIndex, Index!Spec

-----------------------------------------------------------------------------
(* What becomes of a resolution *)

\* A pass has learnt that the vector of r's memory is gone.
FoundGone(r) ==
    \E x \in Resolvers :
        /\ resolver[x].sequence = r.sequence
        /\ \/ resolver[x].pc = "answered" /\ resolver[x].outcome = "absent"
           \/ resolver[x].pc = "deleted" /\ resolver[x].outcome \in {"deleted", "absent"}

\* q is what r may become: a terminal row is frozen, one left to the rebuild is only
\* superseded or rebuilt, and only a pass that found the vector gone settles a row.
Advances(r, q) ==
    /\ q.sequence = r.sequence /\ q.memory = r.memory /\ q.generation = r.generation
    /\ ~Open(r) => q = r
    /\ r.state = "waiting_rebuild" =>
          q.state \in {"waiting_rebuild", "superseded", "resolved_rebuilt"}
    /\ q.resolution_count >= r.resolution_count
    /\ q.resolution_epoch >= r.resolution_epoch
    /\ q.state \in {"resolved_absent", "resolved_deleted"} => q = r \/ FoundGone(r)

\* A drain begins q for the Delete it holds.
Begins(q) ==
    /\ q.state = "pending" /\ q.generation = active
    /\ q.memory \in Memories /\ Present(q.memory)
    /\ q.sequence = outbox[q.memory].mutation_sequence
    /\ outbox[q.memory].desired_action = "delete"
    /\ \A r \in resolution : r.sequence # q.sequence
    /\ \E w \in Workers : Pc(w) \in {"reserved", "failed"}

\* Every resolution advances, and new ones begin with a drain's Delete.
TableAdvances ==
    /\ \A r \in resolution : \E q \in resolution' : Advances(r, q)
    /\ \A q \in resolution' : Begins(q) \/ \E r \in resolution : Advances(r, q)

\* No resolution begins.
NoneBegins == \A q \in resolution' : \E r \in resolution : Advances(r, q)

\* A resolution left alone advances.
LEMMA SameAdvances ==
    ASSUME NEW r \in Resolutions
    PROVE  Advances(r, r)
BY DEF Advances, Resolutions

\* A table left alone advances.
LEMMA SameTableAdvances ==
    ASSUME TypeOK, resolution' = resolution
    PROVE  TableAdvances /\ NoneBegins
BY SameAdvances DEF TypeOK, TableAdvances, NoneBegins

\* An open resolution advances when it is concluded in a state it may reach.
LEMMA ConcludedAdvances ==
    ASSUME NEW r \in Resolutions, NEW state, Open(r),
           r.state = "waiting_rebuild" =>
               state \in {"waiting_rebuild", "superseded", "resolved_rebuilt"},
           state \in {"resolved_absent", "resolved_deleted"} => FoundGone(r)
    PROVE  Advances(r, Concluded(r, state))
<1> DEFINE q == Concluded(r, state)
<1>1. /\ q.sequence = r.sequence /\ q.memory = r.memory /\ q.generation = r.generation
      /\ q.state = state
      /\ q.resolution_count = r.resolution_count /\ q.resolution_epoch = r.resolution_epoch
  BY DEF Concluded, Resolutions
<1>2. r.resolution_count \in Nat /\ r.resolution_epoch \in Nat
  BY DEF Resolutions
<1> HIDE DEF q
<1>3. Advances(r, q)
  BY <1>1, <1>2 DEF Advances
<1> QED
  BY <1>3 DEF q

\* A table of which every resolution advances.
LEMMA MappedAdvances ==
    ASSUME NEW f, \A r \in resolution : Advances(r, f[r]),
           resolution' = {f[r] : r \in resolution}
    PROVE  TableAdvances /\ NoneBegins
<1>1. \A q \in resolution' : \E r \in resolution : q = f[r]
  BY Zenon
<1>2. \A r \in resolution : f[r] \in resolution'
  BY Zenon
<1> QED
  BY <1>1, <1>2 DEF TableAdvances, NoneBegins

\* A table of which one resolution advances.
LEMMA UpdateAdvances ==
    ASSUME TypeOK, NEW r \in resolution, NEW q, Advances(r, q), Update(r, q)
    PROVE  TableAdvances /\ NoneBegins
BY SameAdvances DEF TypeOK, TableAdvances, NoneBegins, Update

\* Ensuring the resolution of a current Delete adds at most one that begins.
LEMMA EnsureAdvances ==
    ASSUME TypeOK, TableIssued, NEW w \in Workers, Pc(w) \in {"reserved", "failed"},
           TokenCurrent(w), outbox[worker[w].claim.memory].desired_action = "delete",
           NEW t, EnsureResolution(worker[w].claim, t)
    PROVE  TableAdvances
<1> DEFINE c == worker[w].claim
           q == NewResolution(c, t)
<1>1. /\ c.memory \in Memories /\ Present(c.memory)
      /\ outbox[c.memory].mutation_sequence = c.sequence
      /\ c.generation = active
  BY ClaimHeld DEF TokenCurrent, ClaimCurrent, Present
<1>2. /\ q.memory = c.memory /\ q.sequence = c.sequence /\ q.generation = c.generation
      /\ q.state = "pending"
  BY DEF NewResolution
<1>3. CASE \E r \in resolution : r.memory = c.memory /\ r.sequence = c.sequence
  BY <1>3, SameTableAdvances DEF EnsureResolution
<1>4. CASE ~ \E r \in resolution : r.memory = c.memory /\ r.sequence = c.sequence
  <2>1. \A r \in resolution : r.sequence # c.sequence
    BY <1>1, <1>4 DEF TableIssued
  <2>2. resolution' = resolution \cup {q}
    BY <1>4 DEF EnsureResolution
  <2>3. Begins(q)
    <3> HIDE DEF q
    <3> QED
      BY <1>1, <1>2, <2>1 DEF Begins
  <2> HIDE DEF c, q
  <2> QED
    BY <2>2, <2>3, SameAdvances DEF TypeOK, TableAdvances
<1> QED
  BY <1>3, <1>4

\* Every step of the synchronisation lets the table advance.
LEMMA SyncAdvances ==
    ASSUME TypeOK, TableIssued, [Next]_vars
    PROVE  TableAdvances
<1>0. resolution \subseteq Resolutions
  BY DEF TypeOK
<1>1. CASE resolution' = resolution
  BY <1>1, SameTableAdvances
<1>2. ASSUME NEW m \in Memories, resolution' = Superseded(m) PROVE TableAdvances
  <2> DEFINE f == [r \in resolution |->
                     IF r.memory = m /\ Open(r) THEN Concluded(r, "superseded") ELSE r]
  <2>1. \A r \in resolution : Advances(r, f[r])
    BY <1>0, ConcludedAdvances, SameAdvances
  <2>2. resolution' = {f[r] : r \in resolution}
    BY <1>2 DEF Superseded
  <2> HIDE DEF f
  <2> QED
    BY <2>1, <2>2, MappedAdvances
<1>3. ASSUME NEW w \in Workers, Promote(w) PROVE TableAdvances
  <2> DEFINE f == [r \in resolution |->
                     IF /\ Open(r)
                        /\ outbox[r.memory].desired_action = "delete"
                        /\ outbox[r.memory].mutation_sequence = r.sequence
                     THEN Concluded(r, "resolved_rebuilt") ELSE r]
  <2>1. \A r \in resolution : Advances(r, f[r])
    BY <1>0, ConcludedAdvances, SameAdvances
  <2>2. resolution' = {f[r] : r \in resolution}
    BY <1>3 DEF Promote
  <2> HIDE DEF f
  <2> QED
    BY <2>1, <2>2, MappedAdvances
<1>4. ASSUME NEW w \in Workers, MarkWitness(w) PROVE TableAdvances
  <2>1. \/ resolution' = resolution
        \/ /\ TokenCurrent(w) /\ Pc(w) = "reserved" /\ worker[w].claim.action = "delete"
           /\ \E t : EnsureResolution(worker[w].claim, t)
    BY <1>4 DEF MarkWitness
  <2> QED
    BY <1>1, <2>1, EnsureAdvances DEF TokenCurrent, ClaimCurrent
<1>5. ASSUME NEW w \in Workers, FinalizeFailure(w) PROVE TableAdvances
  <2> DEFINE r == outbox[worker[w].claim.memory]
             q == [Released(r, "blocked", stable_error_code(worker[w].failure)) EXCEPT
                      !.next_attempt_at = 0,
                      !.last_send_disposition = send_disposition(worker[w].failure)]
  <2>1. \/ resolution' = resolution
        \/ /\ TokenCurrent(w) /\ Pc(w) = "failed" /\ is_delete_unknown(q)
           /\ \E t : EnsureResolution(worker[w].claim, t)
    BY <1>5 DEF FinalizeFailure
  <2>2. Pc(w) = "failed" /\ r \in Row
    BY <1>5, ClaimHeld DEF FinalizeFailure
  <2>3. q.desired_action = r.desired_action
    BY <2>2 DEF Released, Row
  <2> HIDE DEF q
  <2>4. is_delete_unknown(q) => r.desired_action = "delete"
    BY <2>3 DEF is_delete_unknown
  <2> QED
    BY <1>1, <2>1, <2>4, EnsureAdvances
<1>6. \/ resolution' = resolution
      \/ \E m \in Memories : resolution' = Superseded(m)
      \/ \E w \in Workers : MarkWitness(w) \/ FinalizeFailure(w) \/ Promote(w)
  <2>1. CASE UNCHANGED vars
    BY <2>1 DEF vars
  <2>2. ASSUME NEW m \in Memories, Mutate(m) PROVE resolution' = Superseded(m)
    BY <2>2 DEF Mutate, ConfirmCandidate, UpdateConfirmed, SetSensitivity, DeletePermanently,
                RecordAndEnqueue, Enqueue
  <2>3. ASSUME NEW w \in Workers,
               StartDrain(w) \/ ClaimRefused(w) \/ ClaimOne(w) \/ Abort(w)
        PROVE  resolution' = resolution
    BY <2>3 DEF StartDrain, ClaimRefused, ClaimOne, Abort
  <2>4. ASSUME NEW w \in Workers, Execute(w)
        PROVE  resolution' = resolution \/ MarkWitness(w) \/ FinalizeFailure(w)
    BY <2>4 DEF Execute, ReadDocument, BlockTargetStale, Reserve, CallEmbedding,
                EmbeddingReturns, CallLance, LanceReturns, FinalizeSuccess
  <2>5. CASE RetryFailures \/ Tick
    BY <2>5 DEF RetryFailures, Tick
  <2> QED
    BY <2>1, <2>2, <2>3, <2>4, <2>5 DEF Next, Sync
<1> QED
  BY <1>1, <1>2, <1>3, <1>4, <1>5, <1>6

\* Every step of a pass lets the table advance, and none of them begins a resolution.
LEMMA PassAdvances ==
    ASSUME Paid, NEW x \in Resolvers, Acquire(x) \/ Pass(x) \/ AbortPass(x)
    PROVE  TableAdvances /\ NoneBegins
<1>0. TypeOK /\ TableIssued /\ resolution \subseteq Resolutions
  BY StillTypes
<1>1. CASE resolution' = resolution
  BY <1>0, <1>1, SameTableAdvances
<1>2. CASE RecoverExpired(x)
  <2> DEFINE f == [r \in resolution |-> Recovered(r)]
  <2>1. ASSUME NEW r \in resolution PROVE Advances(r, f[r])
    <3>1. \/ f[r] = r
          \/ Expired(r) /\ \E s \in {"pending", "unknown", "waiting_rebuild"} :
                               f[r] = Concluded(r, s)
      BY DEF Recovered
    <3>2. Expired(r) => Open(r) /\ r.state # "waiting_rebuild"
      BY DEF Expired, Open, TerminalStates
    <3> HIDE DEF f
    <3> QED
      BY <1>0, <3>1, <3>2, SameAdvances, ConcludedAdvances
  <2>2. resolution' = {f[r] : r \in resolution}
    BY <1>2 DEF RecoverExpired
  <2> HIDE DEF f
  <2> QED
    BY <2>1, <2>2, MappedAdvances
<1>3. CASE ClaimResolution(x)
  <2>1. \/ resolution' = resolution
        \/ \E r \in resolution :
             /\ Candidate(r)
             /\ \/ Update(r, Concluded(r, "waiting_rebuild"))
                \/ Update(r, [r EXCEPT !.state = "claimed", !.resolution_epoch = @ + 1,
                                       !.lease_fence_epoch = resolver[x].fence,
                                       !.lease_expires_at = now + LeaseTicks])
    BY <1>3 DEF ClaimResolution
  <2>2. ASSUME NEW r \in resolution, Candidate(r)
        PROVE  /\ Advances(r, Concluded(r, "waiting_rebuild"))
               /\ Advances(r, [r EXCEPT !.state = "claimed", !.resolution_epoch = @ + 1,
                                        !.lease_fence_epoch = resolver[x].fence,
                                        !.lease_expires_at = now + LeaseTicks])
    <3> DEFINE q == [r EXCEPT !.state = "claimed", !.resolution_epoch = @ + 1,
                              !.lease_fence_epoch = resolver[x].fence,
                              !.lease_expires_at = now + LeaseTicks]
    <3>1. Open(r) /\ r.state # "waiting_rebuild" /\ r \in Resolutions
      BY <1>0, <2>2 DEF Candidate, Open, TerminalStates
    <3>2. /\ q.sequence = r.sequence /\ q.memory = r.memory /\ q.generation = r.generation
          /\ q.state = "claimed" /\ q.resolution_count = r.resolution_count
          /\ q.resolution_epoch = r.resolution_epoch + 1
      BY <3>1 DEF Resolutions
    <3>3. r.resolution_count \in Nat /\ r.resolution_epoch \in Nat
      BY <3>1 DEF Resolutions
    <3> HIDE DEF q
    <3>4. Advances(r, q)
      BY <3>1, <3>2, <3>3 DEF Advances
    <3> QED
      BY <3>1, <3>4, ConcludedAdvances DEF q
  <2> QED
    BY <1>0, <1>1, <2>1, <2>2, UpdateAdvances
<1>4. CASE ReserveResolution(x)
  <2> DEFINE r == Mine(x)
             q == [r EXCEPT !.state = "processing", !.resolution_count = @ + 1,
                            !.last_reserved_resolution_epoch = r.resolution_epoch]
  <2>1. \/ resolution' = resolution
        \/ ClaimMatches(x) /\ (Update(r, Concluded(r, "waiting_rebuild")) \/ Update(r, q))
    BY <1>4 DEF ReserveResolution
  <2>2. r \in resolution /\ r \in Resolutions
    BY <1>4, MineHeld DEF ReserveResolution, At, Resting
  <2>3. ClaimMatches(x) => r.state = "claimed"
    BY DEF ClaimMatches
  <2>4. /\ q.sequence = r.sequence /\ q.memory = r.memory /\ q.generation = r.generation
        /\ q.state = "processing" /\ q.resolution_count = r.resolution_count + 1
        /\ q.resolution_epoch = r.resolution_epoch
    BY <2>2 DEF Resolutions
  <2>5. r.resolution_count \in Nat /\ r.resolution_epoch \in Nat
    BY <2>2 DEF Resolutions
  <2> HIDE DEF q, r
  <2>6. ASSUME ClaimMatches(x) PROVE Advances(r, q) /\ Advances(r, Concluded(r, "waiting_rebuild"))
    <3>1. Open(r) /\ r.state # "waiting_rebuild"
      BY <2>3, <2>6 DEF Open, TerminalStates
    <3> QED
      BY <2>2, <2>4, <2>5, <3>1, ConcludedAdvances DEF Advances
  <2> QED
    BY <1>0, <1>1, <2>1, <2>2, <2>6, UpdateAdvances
<1>5. CASE SettleQuery(x)
  <2> DEFINE r == Mine(x)
  <2>1. \/ resolution' = resolution
        \/ /\ PermitCurrent(x)
           /\ \/ Update(r, Concluded(r, "unknown")) \/ Update(r, Concluded(r, "waiting_rebuild"))
              \/ resolver[x].outcome = "absent" /\ Update(r, Concluded(r, "resolved_absent"))
    BY <1>5 DEF SettleQuery
  <2>2. r \in resolution /\ r \in Resolutions /\ r.sequence = resolver[x].sequence
    BY <1>5, MineHeld DEF SettleQuery, At, Resting
  <2>3. PermitCurrent(x) => Open(r) /\ r.state # "waiting_rebuild"
    BY DEF PermitCurrent, Open, TerminalStates
  <2>4. resolver[x].outcome = "absent" => FoundGone(r)
    BY <1>5, <2>2 DEF FoundGone, SettleQuery, At
  <2> HIDE DEF r
  <2> QED
    BY <1>0, <1>1, <2>1, <2>2, <2>3, <2>4, ConcludedAdvances, UpdateAdvances
<1>6. CASE IssuePermit(x)
  <2> DEFINE r == Mine(x)
             q == [r EXCEPT !.last_resolution_disposition = "delete_started",
                            !.last_disposition_epoch = r.resolution_epoch]
  <2>1. \/ resolution' = resolution
        \/ PermitCurrent(x) /\ (Update(r, Concluded(r, "waiting_rebuild")) \/ Update(r, q))
    BY <1>6 DEF IssuePermit
  <2>2. r \in resolution /\ r \in Resolutions
    BY <1>6, MineHeld DEF IssuePermit, At, Resting
  <2>3. PermitCurrent(x) => r.state = "processing"
    BY DEF PermitCurrent
  <2>4. /\ q.sequence = r.sequence /\ q.memory = r.memory /\ q.generation = r.generation
        /\ q.state = r.state /\ q.resolution_count = r.resolution_count
        /\ q.resolution_epoch = r.resolution_epoch
    BY <2>2 DEF Resolutions
  <2>5. r.resolution_count \in Nat /\ r.resolution_epoch \in Nat
    BY <2>2 DEF Resolutions
  <2> HIDE DEF q, r
  <2>6. ASSUME PermitCurrent(x) PROVE Advances(r, q) /\ Advances(r, Concluded(r, "waiting_rebuild"))
    <3>1. Open(r) /\ r.state # "waiting_rebuild"
      BY <2>3, <2>6 DEF Open, TerminalStates
    <3> QED
      BY <2>2, <2>3, <2>4, <2>5, <2>6, <3>1, ConcludedAdvances DEF Advances
  <2> QED
    BY <1>0, <1>1, <2>1, <2>2, <2>6, UpdateAdvances
<1>7. CASE SettleDelete(x)
  <2> DEFINE r == Mine(x)
             left(s) == [r EXCEPT !.state = s, !.last_resolution_disposition = "finished"]
  <2>1. \/ resolution' = resolution
        \/ /\ PermitCurrent(x)
           /\ \/ Update(r, left("unknown")) \/ Update(r, left("waiting_rebuild"))
              \/ /\ resolver[x].outcome \in {"deleted", "absent"}
                 /\ Update(r, Concluded(r, "resolved_deleted"))
    BY <1>7 DEF SettleDelete
  <2>2. r \in resolution /\ r \in Resolutions /\ r.sequence = resolver[x].sequence
    BY <1>7, MineHeld DEF SettleDelete, At, Resting
  <2>3. PermitCurrent(x) => Open(r) /\ r.state # "waiting_rebuild"
    BY DEF PermitCurrent, Open, TerminalStates
  <2>4. resolver[x].outcome \in {"deleted", "absent"} => FoundGone(r)
    BY <1>7, <2>2 DEF FoundGone, SettleDelete, At
  <2>5. r.resolution_count \in Nat /\ r.resolution_epoch \in Nat
    BY <2>2 DEF Resolutions
  <2>6. \A s : /\ left(s).sequence = r.sequence /\ left(s).memory = r.memory
               /\ left(s).generation = r.generation /\ left(s).state = s
               /\ left(s).resolution_count = r.resolution_count
               /\ left(s).resolution_epoch = r.resolution_epoch
    BY <2>2 DEF Resolutions
  <2> HIDE DEF r, left
  <2>7. PermitCurrent(x) => Advances(r, left("unknown")) /\ Advances(r, left("waiting_rebuild"))
    BY <2>3, <2>5, <2>6 DEF Advances
  <2> QED
    BY <1>0, <1>1, <2>1, <2>2, <2>3, <2>4, <2>7, ConcludedAdvances, UpdateAdvances
<1>8. CASE Acquire(x) \/ CallQuery(x) \/ QueryReturns(x) \/ CallDelete(x) \/ DeleteReturns(x)
             \/ Release(x) \/ AbortPass(x)
  BY <1>1, <1>8 DEF vars, Acquire, CallQuery, QueryReturns, CallDelete, DeleteReturns, Release,
                    AbortPass
<1> QED
  BY <1>2, <1>3, <1>4, <1>5, <1>6, <1>7, <1>8 DEF Pass

\* Every step of the composition lets the table advance.
LEMMA LateAdvances ==
    ASSUME Paid, [LateNext]_lateVars
    PROVE  TableAdvances
<1>1. CASE [Next]_vars
  BY <1>1, StillTypes, SyncAdvances
<1>2. ASSUME NEW x \in Resolvers, Acquire(x) \/ Pass(x) \/ AbortPass(x) PROVE TableAdvances
  BY <1>2, PassAdvances
<1> QED
  BY <1>1, <1>2 DEF LateNext, Next, PromoteUnderLease, lateVars, vars

\* Nothing brings a resolution back, for any passes, crashes and expiries: a step leaves
\* terminal rows as they are, only supersedes or rebuilds a row left to the rebuild, and
\* never takes back an ordinal or an epoch.
THEOREM ResolutionsAdvance == LateSpec => ResolutionsOnlyAdvance
<1> DEFINE Step == \A r \in resolution : \E q \in resolution' :
                      /\ q.sequence = r.sequence
                      /\ ~Open(r) => q = r
                      /\ r.state = "waiting_rebuild" =>
                            q.state \in {"waiting_rebuild", "superseded", "resolved_rebuilt"}
                      /\ q.resolution_count >= r.resolution_count
                      /\ q.resolution_epoch >= r.resolution_epoch
<1>1. Paid /\ [LateNext]_lateVars => [Step]_lateVars
  BY LateAdvances DEF TableAdvances, Advances
<1> HIDE DEF Step
<1>2. LateSpec => [][Step]_lateVars
  BY LateInductive, <1>1, PTL DEF LateSpec
<1> QED
  BY <1>2 DEF ResolutionsOnlyAdvance, Step

-----------------------------------------------------------------------------
(* What a step of the synchronisation does to memories, drains and the store *)

\* A memory stays as it is, or takes a new revision, higher if it is plain, under which
\* none of its resolutions remains open.
MemoryMoves ==
    \A m \in Memories :
        \/ memory'[m] = memory[m]
        \/ /\ memory'[m].status # "candidate"
           /\ memory'[m].revision >= memory[m].revision
           /\ memory'[m].status = "plain" => memory'[m].revision > memory[m].revision
           /\ \A q \in resolution' : q.memory = m => ~Open(q)

\* A drain holds no claim, has just claimed a row, or keeps what it claimed; it comes to
\* write with a current token, and has written what it claimed.
DrainMoves(w) ==
    LET d == worker[w]
        e == worker'[w]
    IN  \/ e.pc \in {"idle", "drain"}
        \/ /\ e.pc = "claimed" /\ e.claim.memory \in Memories /\ Present(e.claim.memory)
           /\ e.claim.target = outbox[e.claim.memory].target_revision
        \/ /\ d.pc \notin {"idle", "drain"}
           /\ e.claim.memory = d.claim.memory /\ e.claim.target = d.claim.target
           /\ e.claim.generation = d.claim.generation
           /\ \/ e.pc \notin {"writing", "wrote"} \/ e.pc = d.pc
              \/ /\ e.pc = "writing" /\ d.pc \notin {"writing", "wrote"}
                 /\ TokenCurrent(w) /\ store' = store
              \/ e.pc = "wrote" /\ d.pc = "writing" /\ store' = Landed(w)

\* The store changes when a drain's write lands, or with the generation.
StoreMoves ==
    \/ store' = store /\ active' = active
    \/ /\ \E w \in Workers : /\ Pc(w) = "writing" /\ worker'[w].pc # "writing"
                             /\ store' = Landed(w)
       /\ UNCHANGED <<memory, active, outbox>>
    \/ \E w \in Workers : Promote(w)

\* A row leaves when the drain that wrote it settles it, or with the generation.
RowMoves ==
    \A m \in Memories : Present(m) /\ ~Present(m)' =>
        \/ \E w \in Workers : /\ Pc(w) = "wrote" /\ TokenCurrent(w)
                              /\ worker[w].claim.memory = m
                              /\ UNCHANGED <<memory, store>>
        \/ \E w \in Workers : Promote(w)

\* Memories start without a revision.
Unconfirmed == \A m \in Memories : memory[m].status = "candidate" => memory[m].revision = 0

\* A mutation gives the memory a higher revision and closes its resolutions.
LEMMA MutateMoves ==
    ASSUME TypeOK, Unconfirmed, NEW m \in Memories, Mutate(m)
    PROVE  MemoryMoves /\ store' = store /\ active' = active /\ worker' = worker
<1>1. resolution' = Superseded(m) /\ store' = store /\ active' = active /\ worker' = worker
  BY DEF Mutate, ConfirmCandidate, UpdateConfirmed, SetSensitivity, DeletePermanently,
         RecordAndEnqueue, Enqueue
<1>2. \A q \in resolution' : q.memory = m => ~Open(q)
  <2>1. ASSUME NEW r \in resolution PROVE /\ Concluded(r, "superseded").memory = r.memory
                                          /\ ~Open(Concluded(r, "superseded"))
    BY DEF TypeOK, Resolutions, Concluded, Open, TerminalStates
  <2> QED
    BY <1>1, <2>1 DEF Superseded
<1>3. /\ memory[m].revision \in Nat
      /\ memory \in [Memories -> [status : {"candidate", "plain", "sensitive", "gone"},
                                  revision : Nat]]
  BY DEF TypeOK
<1>4. PICK status, revision :
        /\ memory' = [memory EXCEPT ![m] = [status |-> status, revision |-> revision]]
        /\ status # "candidate" /\ revision >= memory[m].revision
        /\ status = "plain" => revision > memory[m].revision
  <2> DEFINE Grown(s, n) ==
               /\ memory' = [memory EXCEPT ![m] = [status |-> s, revision |-> n]]
               /\ s # "candidate" /\ n >= memory[m].revision
               /\ s = "plain" => n > memory[m].revision
  <2>1. ASSUME NEW s, NEW n, RecordAndEnqueue(m, s, n), s # "candidate",
               n >= memory[m].revision, s = "plain" => n > memory[m].revision
        PROVE  \E t, k : Grown(t, k)
    <3>1. Grown(s, n)
      BY <2>1 DEF RecordAndEnqueue
    <3> HIDE DEF Grown
    <3> QED
      BY <3>1
  <2>2. memory[m].revision + 1 > memory[m].revision /\ memory[m].revision + 1 >= memory[m].revision
          /\ memory[m].revision >= memory[m].revision
    BY <1>3
  <2> HIDE DEF Grown
  <2>3. \E t, k : Grown(t, k)
    <3>1. CASE ConfirmCandidate(m)
      <4>1. memory[m].revision = 0
        BY <3>1 DEF ConfirmCandidate, Unconfirmed
      <4>2. PICK s \in {"plain", "sensitive"} : RecordAndEnqueue(m, s, 1)
        BY <3>1 DEF ConfirmCandidate
      <4>3. s # "candidate" /\ 1 > memory[m].revision /\ 1 >= memory[m].revision
        BY <4>1
      <4> QED
        BY <2>1, <4>2, <4>3
    <3>2. CASE UpdateConfirmed(m)
      BY <2>1, <2>2, <3>2 DEF UpdateConfirmed, Confirmed
    <3>3. CASE SetSensitivity(m)
      <4>1. PICK s \in {"plain", "sensitive"} : RecordAndEnqueue(m, s, memory[m].revision + 1)
        BY <3>3 DEF SetSensitivity
      <4>2. s # "candidate"
        OBVIOUS
      <4> QED
        BY <2>1, <2>2, <4>1, <4>2
    <3>4. CASE DeletePermanently(m)
      BY <2>1, <2>2, <3>4 DEF DeletePermanently
    <3> QED
      BY <3>1, <3>2, <3>3, <3>4 DEF Mutate
  <2> QED
    BY <2>3 DEF Grown
<1>5. \A n \in Memories : IF n = m THEN memory'[n] = [status |-> status, revision |-> revision]
                                   ELSE memory'[n] = memory[n]
  BY <1>3, <1>4
<1> QED
  BY <1>1, <1>2, <1>4, <1>5 DEF MemoryMoves

\* Everything but a mutation leaves the memories alone.
LEMMA SyncMemory ==
    ASSUME TypeOK, Unconfirmed, [Next]_vars
    PROVE  MemoryMoves
<1>1. ASSUME NEW m \in Memories, Mutate(m) PROVE MemoryMoves
  BY <1>1, MutateMoves
<1>2. memory' = memory \/ \E m \in Memories : Mutate(m)
  BY DEF Next, Sync, vars, StartDrain, ClaimRefused, ClaimOne, Abort, Promote, RetryFailures,
         Tick, Execute, ReadDocument, BlockTargetStale, Reserve, CallEmbedding,
         EmbeddingReturns, MarkWitness, CallLance, LanceReturns, FinalizeSuccess,
         FinalizeFailure
<1> QED
  BY <1>1, <1>2 DEF MemoryMoves

\* The store moves with the writes and the generation.
LEMMA SyncStore ==
    ASSUME Intents, [Next]_vars
    PROVE  StoreMoves
<1>1. ASSUME NEW w \in Workers, LanceReturns(w) PROVE StoreMoves
  <2>1. worker'[w].pc # "writing"
    <3>1. Goto(w, "wrote") \/ \E f : Fail(w, f)
      BY <1>1 DEF LanceReturns
    <3> QED
      BY <3>1, OneGoes, OneFails
  <2>2. store' = store \/ store' = Landed(w)
    BY <1>1 DEF LanceReturns
  <2> QED
    BY <1>1, <2>1, <2>2 DEF StoreMoves, LanceReturns
<1>2. ASSUME NEW w \in Workers, Abort(w) PROVE StoreMoves
  <2>1. worker'[w].pc # "writing"
    BY <1>2, OneLetsGo DEF Abort
  <2> QED
    BY <1>2, <2>1 DEF StoreMoves, Abort
<1>3. ASSUME NEW w \in Workers, Execute(w), ~LanceReturns(w)
      PROVE  store' = store /\ active' = active
  BY <1>3 DEF Execute, ReadDocument, BlockTargetStale, Reserve, CallEmbedding,
              EmbeddingReturns, MarkWitness, CallLance, FinalizeSuccess, FinalizeFailure
<1>4. ASSUME NEW m \in Memories, Mutate(m) PROVE store' = store /\ active' = active
  BY <1>4 DEF Mutate, ConfirmCandidate, UpdateConfirmed, SetSensitivity, DeletePermanently,
              RecordAndEnqueue, Enqueue
<1>5. ASSUME NEW w \in Workers, StartDrain(w) \/ ClaimRefused(w) \/ ClaimOne(w)
      PROVE  store' = store /\ active' = active
  BY <1>5 DEF StartDrain, ClaimRefused, ClaimOne
<1>6. ASSUME RetryFailures \/ Tick \/ UNCHANGED vars PROVE store' = store /\ active' = active
  BY <1>6 DEF RetryFailures, Tick, vars
<1> QED
  BY <1>1, <1>2, <1>3, <1>4, <1>5, <1>6 DEF StoreMoves, Next, Sync

\* Every drain moves as described.
LEMMA SyncDrains ==
    ASSUME Intents, [Next]_vars
    PROVE  \A w \in Workers : DrainMoves(w)
<1>1. worker \in [Workers -> Drain] /\ TypeOK
  BY DEF Intents, TypeOK, WorkersOK
<1>2. \A v \in Workers : worker'[v] = worker[v] => DrainMoves(v)
  BY DEF DrainMoves
<1>3. ASSUME NEW w \in Workers, Stop(w) \/ NextEvent(w) PROVE \A v \in Workers : DrainMoves(v)
  <2>1. OthersSame(w) /\ worker'[w].pc \in {"idle", "drain"}
    BY <1>3, OneLetsGo
  <2> QED
    BY <1>2, <2>1 DEF OthersSame, DrainMoves
<1>4. ASSUME NEW w \in Workers, Pc(w) \notin {"idle", "drain"},
             \/ \E pc : Goto(w, pc) /\ pc \notin {"writing", "wrote"}
             \/ \E f : Fail(w, f)
             \/ /\ Goto(w, "writing") /\ Pc(w) \notin {"writing", "wrote"}
                /\ TokenCurrent(w) /\ store' = store
             \/ Goto(w, "wrote") /\ Pc(w) = "writing" /\ store' = Landed(w)
      PROVE  \A v \in Workers : DrainMoves(v)
  <2>1. OthersSame(w) /\ DrainMoves(w)
    BY <1>4, OneGoes, OneFails DEF DrainMoves, Pc
  <2> QED
    BY <1>2, <2>1 DEF OthersSame
<1>5. ASSUME NEW w \in Workers, StartDrain(w) PROVE \A v \in Workers : DrainMoves(v)
  <2>1. PICK limit \in 1 .. DrainLimit :
           worker' = [worker EXCEPT ![w] = [Idle EXCEPT !.pc = "drain", !.generation = active,
                                                        !.cutoff = now, !.left = limit]]
    BY <1>5 DEF StartDrain
  <2>2. worker'[w].pc = "drain" /\ \A v \in Workers \ {w} : worker'[v] = worker[v]
    BY <1>1, <2>1 DEF Idle
  <2> QED
    BY <1>2, <2>2 DEF DrainMoves
<1>6. ASSUME NEW w \in Workers, ClaimOne(w) PROVE \A v \in Workers : DrainMoves(v)
  <2> DEFINE d == worker[w]
             rows == [m \in Memories |-> Repaired(outbox[m], d.cutoff)]
  <2>1. \/ Stop(w)
        \/ \E m \in Memories : \E c :
             /\ c.memory = m /\ c.target = rows[m].target_revision
             /\ rows[m].state # "absent"
             /\ worker' = [worker EXCEPT ![w].pc = "claimed", ![w].claim = c]
    <3> DEFINE ready == {m \in Memories : d.generation = active
                                            /\ Claimable(rows[m], active, d.cutoff)}
               claim(m) == [memory |-> m, action |-> rows[m].desired_action,
                            sequence |-> rows[m].mutation_sequence,
                            target |-> rows[m].target_revision, generation |-> active,
                            fence |-> LeaseAfter(OwnerOf[w]).fence,
                            epoch |-> rows[m].fenced_claim_epoch + 1, ordinal |-> 0]
    <3>1. \/ Stop(w)
          \/ \E m \in ready : worker' = [worker EXCEPT ![w].pc = "claimed", ![w].claim = claim(m)]
      BY <1>6 DEF ClaimOne
    <3>2. \A m \in Memories : claim(m).memory = m /\ claim(m).target = rows[m].target_revision
      OBVIOUS
    <3>3. \A m \in ready : m \in Memories /\ rows[m].state # "absent"
      BY DEF Claimable
    <3> HIDE DEF rows, claim, ready
    <3> QED
      BY <3>1, <3>2, <3>3
  <2>2. ASSUME NEW m \in Memories, NEW c, c.memory = m, c.target = rows[m].target_revision,
               rows[m].state # "absent",
               worker' = [worker EXCEPT ![w].pc = "claimed", ![w].claim = c]
        PROVE  \A v \in Workers : DrainMoves(v)
    <3>1. d.cutoff \in Nat /\ outbox[m] \in Row
      BY <1>1 DEF Drain, TypeOK, OutboxOK
    <3>2. rows[m].target_revision = outbox[m].target_revision /\ Present(m)
      BY <2>2, <3>1, RepairedType DEF SameIntent, Present
    <3>3. /\ worker'[w].pc = "claimed" /\ worker'[w].claim = c
          /\ \A v \in Workers \ {w} : worker'[v] = worker[v]
      BY <1>1, <2>2 DEF Drain
    <3> HIDE DEF rows
    <3>4. DrainMoves(w)
      BY <2>2, <3>2, <3>3 DEF DrainMoves
    <3> QED
      BY <1>2, <3>3, <3>4
  <2> HIDE DEF rows
  <2> QED
    BY <1>3, <2>1, <2>2
<1>7. ASSUME NEW w \in Workers, Reserve(w) PROVE \A v \in Workers : DrainMoves(v)
  <2>1. \/ Stop(w)
        \/ \E n : worker' = [worker EXCEPT ![w].pc = "reserved", ![w].claim.ordinal = n]
    <3> DEFINE phase == attempt_identity_phase(outbox[worker[w].claim.memory])
               r == outbox[worker[w].claim.memory]
               hold(n) == worker' = [worker EXCEPT ![w].pc = "reserved", ![w].claim.ordinal = n]
    <3>1. \/ Stop(w) \/ hold(r.attempt_count) \/ hold(r.attempt_count + 1)
      <4>1. phase \in {"NeverClaimed", "Invalid", "ClaimMarked", "ClaimUnmarked"}
        BY DEF attempt_identity_phase
      <4>2. CASE ~ClaimCurrent(w) \/ is_delete_unknown(r) \/ phase = "NeverClaimed"
        BY <1>7, <4>2 DEF Reserve
      <4>3. CASE ~(~ClaimCurrent(w) \/ is_delete_unknown(r) \/ phase = "NeverClaimed")
        <5>1. (CASE phase = "Invalid" ->
                       outbox' = [outbox EXCEPT ![worker[w].claim.memory] = BlockInvariant(@)]
                         /\ Stop(w)
                [] phase = "ClaimMarked" -> UNCHANGED outbox /\ hold(r.attempt_count)
                [] phase = "ClaimUnmarked" /\ r.attempt_count >= MaxAttempts ->
                     /\ outbox' = [outbox EXCEPT ![worker[w].claim.memory] =
                           Released(@, "blocked", exhausted_attempt_budget_error_code(@))]
                     /\ Stop(w)
                [] OTHER ->
                     /\ outbox' = [outbox EXCEPT ![worker[w].claim.memory] = Reserved(@)]
                     /\ hold(r.attempt_count + 1))
          BY <1>7, <4>3 DEF Reserve
        <5> HIDE DEF phase, r, hold
        <5>2. CASE phase = "Invalid"
          BY <5>1, <5>2
        <5>3. CASE phase = "ClaimMarked"
          BY <5>1, <5>3
        <5>4. CASE phase = "ClaimUnmarked" /\ r.attempt_count >= MaxAttempts
          BY <5>1, <5>4
        <5>5. CASE ~(phase \in {"Invalid", "ClaimMarked"}
                       \/ (phase = "ClaimUnmarked" /\ r.attempt_count >= MaxAttempts))
          BY <5>1, <5>5
        <5> QED
          BY <5>2, <5>3, <5>4, <5>5
      <4> QED
        BY <4>2, <4>3
    <3> QED
      BY <3>1
  <2>2. ASSUME NEW n, worker' = [worker EXCEPT ![w].pc = "reserved", ![w].claim.ordinal = n]
        PROVE  \A v \in Workers : DrainMoves(v)
    <3>1. Pc(w) \notin {"idle", "drain"} /\ worker[w].claim \in Claim
      BY <1>1, <1>7, ClaimHeld DEF Reserve
    <3>2. /\ worker'[w].pc = "reserved"
          /\ worker'[w].claim = [worker[w].claim EXCEPT !.ordinal = n]
          /\ \A v \in Workers \ {w} : worker'[v] = worker[v]
      BY <1>1, <2>2 DEF Drain
    <3>3. /\ worker'[w].claim.memory = worker[w].claim.memory
          /\ worker'[w].claim.target = worker[w].claim.target
          /\ worker'[w].claim.generation = worker[w].claim.generation
      BY <3>1, <3>2 DEF Claim
    <3>4. DrainMoves(w)
      BY <3>1, <3>2, <3>3 DEF DrainMoves, Pc
    <3> QED
      BY <1>2, <3>2, <3>4
  <2> QED
    BY <1>3, <2>1, <2>2
<1>8. ASSUME NEW w \in Workers, Execute(w), ~Reserve(w) PROVE \A v \in Workers : DrainMoves(v)
  <2>1. Pc(w) \notin {"idle", "drain"}
    BY <1>8 DEF Execute, ReadDocument, BlockTargetStale, CallEmbedding, EmbeddingReturns,
                MarkWitness, CallLance, LanceReturns, FinalizeSuccess, FinalizeFailure
  <2>2. CASE ReadDocument(w) \/ BlockTargetStale(w) \/ CallEmbedding(w) \/ EmbeddingReturns(w)
               \/ MarkWitness(w) \/ FinalizeSuccess(w) \/ FinalizeFailure(w)
    <3>1. \/ Stop(w) \/ NextEvent(w) \/ \E f : Fail(w, f)
          \/ \E pc \in {"read", "stale", "embedding", "embedded", "witnessed"} : Goto(w, pc)
      <4>1. CASE ReadDocument(w)
        BY <4>1 DEF ReadDocument
      <4>2. CASE CallEmbedding(w) \/ MarkWitness(w)
        BY <4>2 DEF CallEmbedding, MarkWitness
      <4>3. CASE EmbeddingReturns(w)
        BY <4>3 DEF EmbeddingReturns
      <4>4. CASE BlockTargetStale(w) \/ FinalizeSuccess(w) \/ FinalizeFailure(w)
        BY <4>4 DEF BlockTargetStale, FinalizeSuccess, FinalizeFailure
      <4> QED
        BY <2>2, <4>1, <4>2, <4>3, <4>4
    <3> QED
      BY <1>3, <1>4, <2>1, <3>1
  <2>3. CASE CallLance(w)
    BY <1>3, <1>4, <2>1, <2>3 DEF CallLance
  <2>4. CASE LanceReturns(w)
    BY <1>4, <2>1, <2>4 DEF LanceReturns
  <2> QED
    BY <1>8, <2>2, <2>3, <2>4 DEF Execute
<1>9. ASSUME NEW w \in Workers, ClaimRefused(w) \/ Abort(w) PROVE \A v \in Workers : DrainMoves(v)
  BY <1>3, <1>9 DEF ClaimRefused, Abort
<1>10. CASE worker' = worker
  BY <1>2, <1>10
<1>11. \/ worker' = worker
       \/ \E w \in Workers : StartDrain(w) \/ ClaimRefused(w) \/ ClaimOne(w) \/ Execute(w) \/ Abort(w)
  BY DEF Next, Sync, vars, Mutate, ConfirmCandidate, UpdateConfirmed, SetSensitivity,
         DeletePermanently, RecordAndEnqueue, Enqueue, RetryFailures, Tick, Promote
<1> QED
  BY <1>5, <1>6, <1>7, <1>8, <1>9, <1>10, <1>11

\* Rows leave as described.
LEMMA SyncRemovals ==
    ASSUME Intents, [Next]_vars
    PROVE  RowMoves
<1>0. TypeOK
  BY DEF Intents
<1>1. CASE \A m \in Memories : Present(m) => Present(m)'
  BY <1>1 DEF RowMoves
<1>2. CASE Internal
  BY <1>1, <1>2 DEF Internal, IntentKept, SameIntent, Present
<1>3. ASSUME NEW m \in Memories, Mutate(m) PROVE RowMoves
  <2>1. Records(m) /\ TypeOK'
    BY <1>0, <1>3, MutateStep
  <2>2. /\ outbox'[m].state = "pending"
        /\ \A n \in Memories \ {m} : outbox'[n] = outbox[n]
    BY <2>1, RecordsIntents
  <2> QED
    BY <1>1, <2>2 DEF Present
<1>4. ASSUME NEW w \in Workers, FinalizeSuccess(w) PROVE RowMoves
  <2>1. CASE outbox' = outbox
    BY <1>1, <2>1 DEF Present
  <2>2. CASE outbox' # outbox
    <3>1. /\ Pc(w) = "wrote" /\ TokenCurrent(w)
          /\ outbox' = [outbox EXCEPT ![worker[w].claim.memory] = EmptyRow]
          /\ UNCHANGED <<memory, store>>
      BY <1>4, <2>2 DEF FinalizeSuccess
    <3>2. \A m \in Memories : m # worker[w].claim.memory => outbox'[m] = outbox[m]
      BY <1>0, <3>1 DEF TypeOK, OutboxOK
    <3> QED
      BY <3>1, <3>2 DEF RowMoves, Present
  <2> QED
    BY <2>1, <2>2
<1>5. ASSUME NEW w \in Workers, Promote(w) PROVE RowMoves
  BY <1>5 DEF RowMoves
<1>6. ASSUME NEW w \in Workers, Execute(w), ~FinalizeSuccess(w) PROVE Internal
  BY <1>0, <1>6, ReadDocumentStep, BlockTargetStaleStep, ReserveStep, CallEmbeddingStep,
     EmbeddingReturnsStep, MarkWitnessStep, CallLanceStep, LanceReturnsStep, FinalizeFailureStep
     DEF Execute
<1>7. ASSUME NEW w \in Workers, StartDrain(w) \/ ClaimRefused(w) \/ ClaimOne(w) \/ Abort(w)
      PROVE  Internal
  BY <1>0, <1>7, StartDrainStep, ClaimRefusedStep, ClaimOneStep, AbortStep
<1>8. CASE RetryFailures \/ Tick \/ UNCHANGED vars
  <2>1. CASE UNCHANGED vars
    BY <1>1, <2>1 DEF vars, Present
  <2> QED
    BY <1>0, <1>2, <1>8, <2>1, RetryFailuresStep, TickStep
<1> QED
  BY <1>2, <1>3, <1>4, <1>5, <1>6, <1>7, <1>8 DEF Next, Sync

-----------------------------------------------------------------------------
(* What a step of a pass does to the store and to the other passes *)

\* The pass x moves alone; it takes its answer from the store as it is, is permitted to
\* delete while its resolution is open, and deletes what it saw.
PassGoes(x) ==
    LET p == resolver[x]
        q == resolver'[x]
        held == store[Mine(x).memory]
    IN  /\ \A y \in Resolvers \ {x} : resolver'[y] = resolver[y]
        /\ \/ store' = store
           \/ p.pc = "deleting" /\ store' = Removed(x)
        /\ \/ q.pc \notin {"answered", "permitted", "deleting", "deleted"}
           \/ /\ p.pc = "querying" /\ q.pc = "answered" /\ q.sequence = p.sequence
              /\ store' = store
              /\ q.outcome = "present" /\ Tracked(x) => held > 0 /\ q.revision = held
              /\ q.outcome = "absent" /\ Tracked(x) => held = 0
           \/ /\ p.pc = "answered" /\ p.outcome = "present" /\ q.pc = "permitted"
              /\ q.sequence = p.sequence /\ q.revision = p.revision
              /\ Open(Mine(x))
           \/ /\ p.pc = "permitted" /\ q.pc = "deleting"
              /\ q.sequence = p.sequence /\ q.revision = p.revision
           \/ q.pc = "deleted" /\ q.outcome \notin {"deleted", "absent"}
           \/ /\ p.pc = "deleting" /\ q.pc = "deleted" /\ q.sequence = p.sequence
              /\ store' = Removed(x)
              /\ q.outcome = "deleted" /\ Tracked(x) => held = p.revision
              /\ q.outcome = "absent" /\ Tracked(x) => held = 0

\* A pass that ends its body, falls asleep or moves by its program counter alone.
LEMMA PassRests ==
    ASSUME Paid, NEW x \in Resolvers,
           \/ Finish(x)
           \/ \E pc \in {"recovered", "querying"} : Proceed(x, pc)
           \/ resolver' = [resolver EXCEPT ![x] = Asleep],
           \/ store' = store
           \/ At(x) = "deleting" /\ store' = Removed(x)
    PROVE  PassGoes(x)
<1>1. resolver \in [Resolvers -> PassRecord]
  BY DEF Paid, LateTypeOK
<1>2. resolver'[x].pc \in {"release", "recovered", "querying", "idle"}
  BY <1>1 DEF Finish, Proceed, Asleep, PassRecord
<1>3. \A y \in Resolvers \ {x} : resolver'[y] = resolver[y]
  BY <1>1 DEF Finish, Proceed
<1> QED
  BY <1>2, <1>3 DEF PassGoes, At

\* Every step of a pass moves that pass as described.
LEMMA PassMoves ==
    ASSUME Paid, NEW x \in Resolvers, Acquire(x) \/ Pass(x) \/ AbortPass(x)
    PROVE  PassGoes(x) /\ Beside
<1>0. resolver \in [Resolvers -> PassRecord] /\ resolver[x] \in PassRecord
  BY DEF Paid, LateTypeOK
<1>1. Beside
  BY DEF Acquire, Pass, AbortPass, RecoverExpired, ClaimResolution, ReserveResolution, CallQuery,
         QueryReturns, SettleQuery, IssuePermit, CallDelete, DeleteReturns, SettleDelete,
         Release, vars, Beside
<1> SUFFICES PassGoes(x)
  BY <1>1
<1>2. CASE Acquire(x)
  <2>1. /\ resolver' = [resolver EXCEPT ![x] =
                           [Asleep EXCEPT !.pc = "leased", !.fence = rlease.fence + 1]]
        /\ store' = store
    BY <1>2 DEF Acquire, vars
  <2>2. resolver'[x].pc = "leased" /\ \A y \in Resolvers \ {x} : resolver'[y] = resolver[y]
    BY <1>0, <2>1 DEF Asleep
  <2> QED
    BY <2>1, <2>2 DEF PassGoes
<1>3. CASE ClaimResolution(x)
  <2>1. CASE Finish(x)
    BY <1>3, <2>1, PassRests DEF ClaimResolution
  <2>2. CASE ~Finish(x)
    <3>1. PICK r \in resolution :
            resolver' = [resolver EXCEPT ![x] =
                             [@ EXCEPT !.pc = "claimed", !.sequence = r.sequence,
                                       !.epoch = r.resolution_epoch + 1,
                                       !.ordinal = r.resolution_count]]
      BY <1>3, <2>2 DEF ClaimResolution
    <3>2. resolver'[x].pc = "claimed" /\ \A y \in Resolvers \ {x} : resolver'[y] = resolver[y]
      BY <1>0, <3>1 DEF PassRecord
    <3> QED
      BY <1>3, <3>2 DEF PassGoes, ClaimResolution
  <2> QED
    BY <2>1, <2>2
<1>4. CASE ReserveResolution(x)
  <2>1. CASE Finish(x)
    BY <1>4, <2>1, PassRests DEF ReserveResolution
  <2>2. CASE ~Finish(x)
    <3>1. resolver' = [resolver EXCEPT ![x].pc = "reserved", ![x].ordinal = @ + 1]
      BY <1>4, <2>2 DEF ReserveResolution
    <3>2. resolver'[x].pc = "reserved" /\ \A y \in Resolvers \ {x} : resolver'[y] = resolver[y]
      BY <1>0, <3>1 DEF PassRecord
    <3> QED
      BY <1>4, <3>2 DEF PassGoes, ReserveResolution
  <2> QED
    BY <2>1, <2>2
<1>5. CASE RecoverExpired(x) \/ CallQuery(x) \/ SettleQuery(x) \/ SettleDelete(x)
  BY <1>5, PassRests DEF RecoverExpired, CallQuery, SettleQuery, SettleDelete, vars
<1>6. CASE Release(x) \/ AbortPass(x)
  BY <1>6, PassRests DEF Release, AbortPass, vars
<1>7. CASE QueryReturns(x)
  <2>1. PICK outcome, revision :
          /\ Answer(x, outcome, revision)
          /\ outcome = "present" /\ Tracked(x) => store[Mine(x).memory] > 0
                                                    /\ revision = store[Mine(x).memory]
          /\ outcome = "absent" /\ Tracked(x) => store[Mine(x).memory] = 0
    <3> DEFINE Found(o, v) ==
                 /\ Answer(x, o, v)
                 /\ o = "present" /\ Tracked(x) => store[Mine(x).memory] > 0
                                                     /\ v = store[Mine(x).memory]
                 /\ o = "absent" /\ Tracked(x) => store[Mine(x).memory] = 0
    <3>1. \E o, v : Found(o, v)
      <4>1. CASE (Tracked(x) => store[Mine(x).memory] = 0) /\ Answer(x, "absent", 0)
        <5>1. Found("absent", 0)
          BY <4>1
        <5> QED
          BY <5>1
      <4>2. CASE /\ Tracked(x) /\ store[Mine(x).memory] > 0
                 /\ Answer(x, "present", store[Mine(x).memory])
        <5>1. Found("present", store[Mine(x).memory])
          BY <4>2
        <5> QED
          BY <5>1
      <4>3. CASE ~Tracked(x) /\ Answer(x, "present", 1)
        <5>1. Found("present", 1)
          BY <4>3
        <5> QED
          BY <5>1
      <4>4. CASE \E o \in {"failed", "corrupt"} : Answer(x, o, 0)
        <5>1. PICK o \in {"failed", "corrupt"} : Answer(x, o, 0)
          BY <4>4
        <5>2. Found(o, 0)
          BY <5>1
        <5> QED
          BY <5>2
      <4> QED
        BY <1>7, <4>1, <4>2, <4>3, <4>4 DEF QueryReturns
    <3> QED
      BY <3>1
  <2>2. /\ resolver'[x].pc = "answered" /\ resolver'[x].sequence = resolver[x].sequence
        /\ resolver'[x].outcome = outcome /\ resolver'[x].revision = revision
        /\ \A y \in Resolvers \ {x} : resolver'[y] = resolver[y]
    BY <1>0, <2>1 DEF Answer, PassRecord
  <2>3. resolver[x].pc = "querying" /\ store' = store
    BY <1>7 DEF QueryReturns, At, vars
  <2> QED
    BY <2>1, <2>2, <2>3 DEF PassGoes
<1>8. CASE IssuePermit(x)
  <2>1. CASE Finish(x)
    BY <1>8, <2>1, PassRests DEF IssuePermit
  <2>2. CASE ~Finish(x)
    <3>1. /\ Proceed(x, "permitted") /\ PermitCurrent(x) /\ store' = store
          /\ resolver[x].pc = "answered" /\ resolver[x].outcome = "present"
      BY <1>8, <2>2 DEF IssuePermit, At
    <3>2. Open(Mine(x))
      BY <3>1 DEF PermitCurrent, Open, TerminalStates
    <3>3. /\ resolver'[x].pc = "permitted" /\ resolver'[x].sequence = resolver[x].sequence
          /\ resolver'[x].revision = resolver[x].revision
          /\ \A y \in Resolvers \ {x} : resolver'[y] = resolver[y]
      BY <1>0, <3>1 DEF Proceed, PassRecord
    <3> QED
      BY <3>1, <3>2, <3>3 DEF PassGoes
  <2> QED
    BY <2>1, <2>2
<1>9. CASE CallDelete(x)
  <2>1. CASE Finish(x)
    BY <1>9, <2>1, PassRests DEF CallDelete, vars
  <2>2. CASE Proceed(x, "deleting")
    <3>1. /\ resolver'[x].pc = "deleting" /\ resolver'[x].sequence = resolver[x].sequence
          /\ resolver'[x].revision = resolver[x].revision
          /\ \A y \in Resolvers \ {x} : resolver'[y] = resolver[y]
      BY <1>0, <2>2 DEF Proceed, PassRecord
    <3> QED
      BY <1>9, <3>1 DEF PassGoes, CallDelete, At, vars
  <2>3. CASE resolver' = [resolver EXCEPT ![x].pc = "deleted", ![x].outcome = "corrupt"]
    <3>1. /\ resolver'[x].pc = "deleted" /\ resolver'[x].outcome = "corrupt"
          /\ \A y \in Resolvers \ {x} : resolver'[y] = resolver[y]
      BY <1>0, <2>3 DEF PassRecord
    <3> QED
      BY <1>9, <3>1 DEF PassGoes, CallDelete, vars
  <2> QED
    BY <1>9, <2>1, <2>2, <2>3 DEF CallDelete
<1>10. CASE DeleteReturns(x)
  <2>1. PICK outcome :
          resolver' = [resolver EXCEPT ![x].pc = "deleted", ![x].outcome = outcome]
            /\ \/ /\ store' = Removed(x)
                  /\ outcome = "deleted" /\ Tracked(x) =>
                        store[Mine(x).memory] = resolver[x].revision
                  /\ outcome = "absent" /\ Tracked(x) => store[Mine(x).memory] = 0
               \/ store' \in {store, Removed(x)} /\ outcome \notin {"deleted", "absent"}
    BY <1>10 DEF DeleteReturns
  <2>2. /\ resolver'[x].pc = "deleted" /\ resolver'[x].outcome = outcome
        /\ resolver'[x].sequence = resolver[x].sequence
        /\ \A y \in Resolvers \ {x} : resolver'[y] = resolver[y]
    BY <1>0, <2>1 DEF PassRecord
  <2>3. resolver[x].pc = "deleting"
    BY <1>10 DEF DeleteReturns, At
  <2> QED
    BY <2>1, <2>2, <2>3 DEF PassGoes
<1> QED
  BY <1>1, <1>2, <1>3, <1>4, <1>5, <1>6, <1>7, <1>8, <1>9, <1>10 DEF Pass

-----------------------------------------------------------------------------
(* No resolver removes a desired vector *)

\* No vector is newer than its memory.
VectorsOrdered == \A m \in Memories : store[m] <= memory[m].revision

\* Nor is the revision that a drain is about to write.
ClaimsOrdered ==
    \A w \in Workers : Pc(w) \notin {"idle", "drain"} =>
        worker[w].claim.target <= memory[worker[w].claim.memory].revision

\* An open resolution belongs to a memory that must have no vector.
ResolutionsAimed ==
    \A r \in resolution :
        /\ r.generation <= active
        /\ Open(r) => memory[r.memory].status # "plain"

\* x has seen a vector that it may delete.
Sighted(x) ==
    \/ resolver[x].pc = "answered" /\ resolver[x].outcome = "present"
    \/ resolver[x].pc \in {"permitted", "deleting"}

\* What x saw is a revision of the memory, and once it is permitted to delete it, it is
\* not and will never again be the desired one.
SightSound(x) ==
    LET p == resolver[x]
    IN  \A r \in resolution :
          Sighted(x) /\ r.sequence = p.sequence /\ r.generation = active =>
              /\ p.revision > 0
              /\ p.revision <= memory[r.memory].revision
              /\ p.pc # "answered" => p.revision # Desired(r.memory)

\* The inductive invariant.
Seen ==
    /\ Unconfirmed /\ VectorsOrdered /\ ClaimsOrdered /\ ResolutionsAimed
    /\ \A x \in Resolvers : SightSound(x)

\* A revision that is not desired, and not newer than the memory, is never desired again.
LEMMA NeverDesiredAgain ==
    ASSUME TypeOK, TypeOK', MemoryMoves, NEW m \in Memories, NEW v \in Nat, v > 0,
           v <= memory[m].revision
    PROVE  /\ v <= memory'[m].revision
           /\ v # Desired(m) => v # Desired(m)'
<1>1. memory[m].revision \in Nat /\ memory'[m].revision \in Nat
  BY DEF TypeOK
<1> QED
  BY <1>1 DEF MemoryMoves, Desired

\* The synchronisation keeps the invariant.
LEMMA SyncSeen ==
    ASSUME Paid, Intents, Seen, [Next]_vars, resolver' = resolver
    PROVE  Seen'
<1>1. /\ TypeOK /\ TypeOK' /\ TableIssued
      /\ MemoryMoves /\ StoreMoves /\ TableAdvances
      /\ \A w \in Workers : DrainMoves(w)
  BY StillTypes, NextStep, SyncMemory, SyncStore, SyncDrains, SyncAdvances DEF Intents, Seen
<1>2. /\ \A m \in Memories : memory[m].revision \in Nat /\ memory'[m].revision \in Nat
      /\ \A m \in Memories : memory[m].revision <= memory'[m].revision
      /\ store \in [Memories -> Nat] /\ store' \in [Memories -> Nat]
      /\ active \in Nat /\ active' \in Nat
  <2>1. /\ \A m \in Memories : memory[m].revision \in Nat /\ memory'[m].revision \in Nat
        /\ store \in [Memories -> Nat] /\ store' \in [Memories -> Nat]
        /\ active \in Nat /\ active' \in Nat
    BY <1>1 DEF TypeOK
  <2> QED
    BY <1>1, <2>1 DEF MemoryMoves
<1>3. active' = active \/ active' = active + 1
  BY <1>1 DEF StoreMoves, Promote
<1>4. Unconfirmed'
  BY <1>1 DEF Seen, Unconfirmed, MemoryMoves
<1>5. \A m \in Memories : Desired(m) <= memory[m].revision
  BY <1>2 DEF Desired
<1>6. VectorsOrdered'
  <2>1. CASE store' = store
    BY <1>2, <2>1 DEF Seen, VectorsOrdered
  <2>2. ASSUME NEW w \in Workers, Pc(w) = "writing", store' = Landed(w), memory' = memory
        PROVE  VectorsOrdered'
    <3>1. worker[w].claim.target <= memory[worker[w].claim.memory].revision
      BY <2>2 DEF Seen, ClaimsOrdered
    <3> QED
      BY <1>2, <2>2, <3>1 DEF Seen, VectorsOrdered, Landed
  <2>3. ASSUME NEW w \in Workers, Promote(w) PROVE VectorsOrdered'
    BY <1>5, <2>3 DEF VectorsOrdered, Promote
  <2> QED
    BY <1>1, <2>1, <2>2, <2>3 DEF StoreMoves
<1>7. ClaimsOrdered'
  <2>1. ASSUME NEW w \in Workers, worker'[w].pc \notin {"idle", "drain"}
        PROVE  worker'[w].claim.target <= memory'[worker'[w].claim.memory].revision
    <3> DEFINE m == worker'[w].claim.memory
    <3>1. m \in Memories /\ worker'[w].claim.target \in Nat
      BY <1>1, <2>1 DEF TypeOK, WorkersOK, DrainOK, Drain, Claim
    <3>2. worker'[w].claim.target <= memory[m].revision
      <4>1. CASE /\ Present(m) /\ worker'[w].claim.target = outbox[m].target_revision
        BY <1>5, <3>1, <4>1 DEF Intents, TargetMatchesMemory
      <4>2. CASE /\ worker[w].pc \notin {"idle", "drain"}
                 /\ m = worker[w].claim.memory /\ worker'[w].claim.target = worker[w].claim.target
        BY <4>2 DEF Seen, ClaimsOrdered, Pc
      <4> QED
        BY <1>1, <2>1, <4>1, <4>2 DEF DrainMoves
    <3> HIDE DEF m
    <3>3. worker'[w].claim.target <= memory'[m].revision
      BY <1>2, <3>1, <3>2
    <3> QED
      BY <3>3 DEF m
  <2> QED
    BY <2>1 DEF ClaimsOrdered, Pc
<1>8. ResolutionsAimed'
  <2>1. ASSUME NEW q \in resolution', Begins(q)
        PROVE  /\ q.generation <= active'
               /\ Open(q) => memory'[q.memory].status # "plain"
    <3>1. memory[q.memory].status # "plain"
      BY <2>1 DEF Begins, Intents, TargetMatchesMemory
    <3> QED
      BY <1>1, <1>2, <1>3, <2>1, <3>1 DEF Begins, MemoryMoves
  <2>2. ASSUME NEW q \in resolution', NEW r \in resolution, Advances(r, q)
        PROVE  /\ q.generation <= active'
               /\ Open(q) => memory'[q.memory].status # "plain"
    <3>1. r \in Resolutions
      BY <1>1 DEF TypeOK
    <3>2. r.memory \in Memories /\ r.generation \in Nat
      BY <3>1 DEF Resolutions
    <3>3. /\ r.generation <= active
          /\ Open(r) => memory[r.memory].status # "plain"
      BY DEF Seen, ResolutionsAimed
    <3>4. q.generation = r.generation /\ q.memory = r.memory /\ (~Open(r) => q = r)
      BY <2>2 DEF Advances
    <3> QED
      BY <1>1, <1>2, <1>3, <3>2, <3>3, <3>4 DEF MemoryMoves
  <2> QED
    BY <1>1, <2>1, <2>2 DEF TableAdvances, ResolutionsAimed
<1>9. ASSUME NEW x \in Resolvers PROVE SightSound(x)'
  <2>1. ASSUME NEW q \in resolution', Sighted(x), q.sequence = resolver[x].sequence,
               q.generation = active'
        PROVE  /\ resolver[x].revision > 0
               /\ resolver[x].revision <= memory'[q.memory].revision
               /\ resolver[x].pc # "answered" => resolver[x].revision # Desired(q.memory)'
    <3>1. PICK r \in resolution : r.sequence = resolver[x].sequence
      BY <2>1, MineHeld DEF Sighted, Resting
    <3>2. PICK s \in resolution : Advances(s, q)
      BY <1>1, <2>1, <3>1 DEF TableAdvances, Begins
    <3>3. s.memory = q.memory /\ s.sequence = q.sequence /\ s.generation = q.generation
      BY <3>2 DEF Advances
    <3>4. s.memory \in Memories /\ s.generation \in Nat /\ s.generation <= active
      BY <1>1 DEF TypeOK, Resolutions, Seen, ResolutionsAimed
    <3>5. s.generation = active
      BY <1>2, <1>3, <2>1, <3>3, <3>4
    <3>6. /\ resolver[x].revision > 0
          /\ resolver[x].revision <= memory[q.memory].revision
          /\ resolver[x].pc # "answered" => resolver[x].revision # Desired(q.memory)
      BY <2>1, <3>3, <3>5 DEF Seen, SightSound
    <3>7. resolver[x].revision \in Nat
      BY LateTypes DEF Paid, PassRecord
    <3> QED
      BY <1>1, <3>3, <3>4, <3>6, <3>7, NeverDesiredAgain
  <2>2. Sighted(x)' = Sighted(x)
    BY DEF Sighted
  <2> QED
    BY <2>1, <2>2 DEF SightSound
<1> QED
  BY <1>4, <1>6, <1>7, <1>8, <1>9 DEF Seen

\* The vector that a Delete of x removes is the one x saw, and is not desired.
LEMMA RemovedUndesired ==
    ASSUME Paid, Seen, NEW x \in Resolvers, resolver[x].pc = "deleting",
           NEW m \in Memories, Removed(x)[m] # store[m]
    PROVE  /\ m = Mine(x).memory /\ store[m] = resolver[x].revision
           /\ store[m] # Desired(m) /\ Removed(x)[m] = 0
<1>1. Mine(x) \in resolution /\ Mine(x).sequence = resolver[x].sequence
  BY MineHeld DEF Resting
<1>2. store \in [Memories -> Nat]
  BY StillTypes
<1>3. /\ Tracked(x) /\ store[Mine(x).memory] = resolver[x].revision
      /\ m = Mine(x).memory /\ Removed(x)[m] = 0
  BY <1>2 DEF Removed
<1>4. resolver[x].revision # Desired(Mine(x).memory)
  BY <1>1, <1>3 DEF Seen, SightSound, Sighted, Tracked
<1> QED
  BY <1>3, <1>4

\* The passes keep the invariant.
LEMMA PassSeen ==
    ASSUME Paid, Intents, Seen, NEW x \in Resolvers, Acquire(x) \/ Pass(x) \/ AbortPass(x)
    PROVE  Seen'
<1>1. PassGoes(x) /\ Beside /\ TableAdvances /\ TypeOK
  BY PassMoves, PassAdvances, StillTypes
<1>2. UNCHANGED <<memory, active, worker, outbox>>
  BY <1>1 DEF Beside
<1>3. /\ store \in [Memories -> Nat] /\ \A m \in Memories : memory[m].revision \in Nat
      /\ resolution \subseteq Resolutions /\ active \in Nat
  BY <1>1 DEF TypeOK
<1>4. Unconfirmed' /\ ClaimsOrdered'
  BY <1>2 DEF Seen, Unconfirmed, ClaimsOrdered, Pc
<1>5. VectorsOrdered'
  <2>1. CASE store' = store
    BY <1>2, <2>1 DEF Seen, VectorsOrdered
  <2>2. CASE resolver[x].pc = "deleting" /\ store' = Removed(x)
    BY <1>2, <1>3, <2>2, RemovedUndesired DEF Seen, VectorsOrdered
  <2> QED
    BY <1>1, <2>1, <2>2 DEF PassGoes
<1>6. ResolutionsAimed'
  <2>1. ASSUME NEW q \in resolution', Begins(q)
        PROVE  q.generation <= active /\ memory[q.memory].status # "plain"
    BY <1>3, <2>1 DEF Begins, Intents, TargetMatchesMemory
  <2>2. ASSUME NEW q \in resolution', NEW r \in resolution, Advances(r, q)
        PROVE  /\ q.generation <= active
               /\ Open(q) => memory[q.memory].status # "plain"
    BY <2>2 DEF Advances, Seen, ResolutionsAimed
  <2> QED
    BY <1>1, <1>2, <2>1, <2>2 DEF TableAdvances, ResolutionsAimed
<1>7. ASSUME NEW q \in resolution', NEW y \in Resolvers, resolver[y].pc \notin Resting,
             q.sequence = resolver[y].sequence, q.generation = active
      PROVE  Mine(y).memory = q.memory /\ Mine(y).generation = active
  <2>1. /\ Mine(y) \in resolution /\ Mine(y).sequence = q.sequence
        /\ \A r \in resolution : r.sequence = q.sequence => r = Mine(y)
    BY <1>7, MineHeld
  <2>2. PICK r \in resolution : Advances(r, q)
    BY <1>1, <2>1 DEF TableAdvances, Begins
  <2> QED
    BY <1>7, <2>1, <2>2 DEF Advances
<1>8. ASSUME NEW y \in Resolvers PROVE SightSound(y)'
  <2>1. ASSUME NEW q \in resolution', Sighted(y)', q.sequence = resolver'[y].sequence,
               q.generation = active
        PROVE  /\ resolver'[y].revision > 0
               /\ resolver'[y].revision <= memory[q.memory].revision
               /\ resolver'[y].pc # "answered" => resolver'[y].revision # Desired(q.memory)
    <3>1. ASSUME resolver[y].pc \notin Resting, Sighted(y),
                 resolver'[y].sequence = resolver[y].sequence
          PROVE  /\ Mine(y).memory = q.memory
                 /\ resolver[y].revision > 0
                 /\ resolver[y].revision <= memory[q.memory].revision
                 /\ resolver[y].pc # "answered" => resolver[y].revision # Desired(q.memory)
      <4>1. Mine(y).memory = q.memory /\ Mine(y).generation = active
        BY <1>7, <2>1, <3>1
      <4>2. Mine(y) \in resolution /\ Mine(y).sequence = resolver[y].sequence
        BY <3>1, MineHeld
      <4> QED
        BY <3>1, <4>1, <4>2 DEF Seen, SightSound
    <3>2. CASE y # x
      BY <1>1, <2>1, <3>1, <3>2 DEF PassGoes, Sighted, Resting
    <3>3. CASE y = x
      <4>1. CASE /\ resolver[x].pc = "querying" /\ resolver'[x].pc = "answered"
                 /\ resolver'[x].sequence = resolver[x].sequence
                 /\ resolver'[x].outcome = "present" /\ Tracked(x) =>
                       /\ store[Mine(x).memory] > 0
                       /\ resolver'[x].revision = store[Mine(x).memory]
        <5>1. Mine(x).memory = q.memory /\ Mine(x).generation = active /\ q.memory \in Memories
          BY <1>3, <1>7, <2>1, <3>3, <4>1, MineHeld DEF Resting, Resolutions
        <5>2. store[q.memory] <= memory[q.memory].revision
          BY <5>1 DEF Seen, VectorsOrdered
        <5>3. resolver'[x].outcome = "present"
          BY <2>1, <3>3, <4>1 DEF Sighted
        <5> QED
          BY <3>3, <4>1, <5>1, <5>2, <5>3 DEF Tracked
      <4>2. CASE /\ resolver[x].pc = "answered" /\ resolver[x].outcome = "present"
                 /\ resolver'[x].pc = "permitted"
                 /\ resolver'[x].sequence = resolver[x].sequence
                 /\ resolver'[x].revision = resolver[x].revision
                 /\ Open(Mine(x))
        <5>1. Sighted(x) /\ resolver[x].pc \notin Resting
          BY <4>2 DEF Sighted, Resting
        <5>2. Desired(q.memory) = 0
          BY <3>1, <3>3, <4>2, <5>1, MineHeld DEF Seen, ResolutionsAimed, Desired
        <5> QED
          BY <3>1, <3>3, <4>2, <5>1, <5>2
      <4>3. CASE /\ resolver[x].pc = "permitted" /\ resolver'[x].pc = "deleting"
                 /\ resolver'[x].sequence = resolver[x].sequence
                 /\ resolver'[x].revision = resolver[x].revision
        BY <3>1, <3>3, <4>3 DEF Sighted, Resting
      <4> QED
        BY <1>1, <2>1, <3>3, <4>1, <4>2, <4>3 DEF PassGoes, Sighted
    <3> QED
      BY <3>2, <3>3
  <2>2. \A m : Desired(m)' = Desired(m)
    BY <1>2 DEF Desired
  <2> QED
    BY <1>2, <2>1, <2>2 DEF SightSound
<1> QED
  BY <1>4, <1>5, <1>6, <1>8 DEF Seen

\* The late-delete inductive invariant holds throughout.
LEMMA LateSeen == LateSpec => [](Paid /\ Intents /\ Seen)
<1>1. LateInit => Seen
  <2> SUFFICES ASSUME LateInit PROVE Seen
    OBVIOUS
  <2>1. Unconfirmed /\ VectorsOrdered /\ ResolutionsAimed
    BY DEF LateInit, Init, Unconfirmed, VectorsOrdered, ResolutionsAimed
  <2>2. ClaimsOrdered
    BY DEF LateInit, Init, ClaimsOrdered, Pc, Idle
  <2>3. \A x \in Resolvers : SightSound(x)
    BY DEF LateInit, Init, SightSound
  <2> QED
    BY <2>1, <2>2, <2>3 DEF Seen
<1>2. Paid /\ Intents /\ Seen /\ [LateNext]_lateVars => Seen'
  <2> SUFFICES ASSUME Paid, Intents, Seen, [LateNext]_lateVars PROVE Seen'
    OBVIOUS
  <2>1. CASE [Next]_vars /\ resolver' = resolver
    BY <2>1, SyncSeen
  <2>2. ASSUME NEW x \in Resolvers, Acquire(x) \/ Pass(x) \/ AbortPass(x) PROVE Seen'
    BY <2>2, PassSeen
  <2> QED
    BY <2>1, <2>2 DEF LateNext, Next, PromoteUnderLease, lateVars, vars
<1> QED
  BY <1>1, <1>2, LateInductive, PTL DEF LateSpec

\* No resolver removes the vector that its memory should have, for any number of
\* processes and passes, however late an answer or a Delete: what a pass is permitted to
\* remove has been superseded or is unwanted, and revisions never come back.
THEOREM DesiredVectorsSurvive == LateSpec => DesiredVectorSurvives
<1> DEFINE Step == worker' = worker /\ active' = active =>
                      \A m \in Memories : store'[m] # store[m] => store[m] # Desired(m)
<1>1. ASSUME Paid, Intents, Seen, [LateNext]_lateVars PROVE Step
  <2>1. CASE [Next]_vars
    <3>1. StoreMoves /\ active \in Nat
      BY <1>1, <2>1, SyncStore, StillTypes DEF TypeOK
    <3>2. \A w \in Workers : Promote(w) => active' # active
      BY <3>1 DEF Promote
    <3> QED
      BY <3>1, <3>2 DEF StoreMoves, Pc
  <2>2. ASSUME NEW x \in Resolvers, Acquire(x) \/ Pass(x) \/ AbortPass(x) PROVE Step
    <3>1. PassGoes(x)
      BY <1>1, <2>2, PassMoves
    <3>2. store' = store \/ (resolver[x].pc = "deleting" /\ store' = Removed(x))
      BY <3>1 DEF PassGoes
    <3> QED
      BY <1>1, <3>2, RemovedUndesired
  <2> QED
    BY <1>1, <2>1, <2>2 DEF LateNext, Next, PromoteUnderLease, lateVars, vars
<1> HIDE DEF Step
<1>2. LateSpec => [][Step]_lateVars
  BY <1>1, LateSeen, PTL DEF LateSpec
<1> QED
  BY <1>2 DEF DesiredVectorSurvives, Step

-----------------------------------------------------------------------------
(* The synchronisation is as safe beside the resolver *)

\* A pass touches the resolutions and the store alone, and leaves every resolution with
\* its memory and mutation.
LEMMA PassSafe ==
    ASSUME Paid, SyncInv, NEW x \in Resolvers, Acquire(x) \/ Pass(x) \/ AbortPass(x)
    PROVE  SyncInv'
<1>1. /\ Paid' /\ Internal /\ Beside /\ TableAdvances /\ NoneBegins
      /\ TableIssued /\ TableIssued'
  BY PassStep, PassMoves, PassAdvances DEF Paid
<1>2. UNCHANGED <<memory, clock, outbox, lease, active, item, now, worker, calls>>
  BY <1>1 DEF Beside
<1>3. Intents'
  BY <1>1, InternalIntents DEF SyncInv, Paid, LateTypeOK
<1>4. RowsSound' /\ ClaimsSound' /\ CallsSound'
  <2>1. RowsSound'
    BY <1>2 DEF SyncInv, RowsSound
  <2>2. \A w \in Workers : /\ Holds(w)' = Holds(w) /\ Pc(w)' = Pc(w)
                           /\ About(w)' = About(w) /\ Same(w)' = Same(w)
    BY <1>2 DEF Holds, Pc, About, Same
  <2>3. ClaimsSound'
    BY <1>2, <2>2 DEF SyncInv, ClaimsSound, ClaimSound, Twins
  <2>4. \A w \in Workers : AttemptSound(w)' = AttemptSound(w)
    BY <1>2, <2>2 DEF AttemptSound, Matched, Unsent
  <2>5. CallsSound'
    BY <1>2, <2>2, <2>4 DEF SyncInv, CallsSound, NoReplay, AttemptsArePaid, SentIsRecorded, Present
  <2> QED
    BY <2>1, <2>3, <2>5
<1>5. NamesSound'
  <2>1. \A m \in Memories, s \in Mutations : Named(m, s)' => Named(m, s)
    BY <1>1, <1>2 DEF Named, Present, Holds, Pc, NoneBegins, Advances
  <2> QED
    BY <1>2, <2>1 DEF SyncInv, NamesSound
<1>6. ResolutionsSound'
  <2>1. \A p, q \in resolution' : p.memory = q.memory /\ p.sequence = q.sequence => p = q
    BY <1>1 DEF TableIssued
  <2>2. UnknownDeleteHasResolution'
    BY <1>1, <1>2
       DEF SyncInv, ResolutionsSound, UnknownDeleteHasResolution, Present, TableAdvances, Advances
  <2>3. ASSUME NEW q \in resolution', Open(q)
        PROVE  \E r \in resolution : Open(r) /\ r.memory = q.memory /\ r.sequence = q.sequence
    BY <1>1, <2>3 DEF NoneBegins, Advances
  <2>4. OpenResolutionIsLatest'
    <3>1. ASSUME NEW q \in resolution', Open(q)
          PROVE  Present(q.memory) => outbox[q.memory].mutation_sequence = q.sequence
      BY <2>3, <3>1 DEF SyncInv, ResolutionsSound, OpenResolutionIsLatest
    <3>2. ASSUME NEW p \in resolution', NEW q \in resolution', Open(p), Open(q),
                 p.memory = q.memory
          PROVE  p = q
      <4>1. PICK r \in resolution : Open(r) /\ r.memory = p.memory /\ r.sequence = p.sequence
        BY <2>3, <3>2
      <4>2. PICK s \in resolution : Open(s) /\ s.memory = q.memory /\ s.sequence = q.sequence
        BY <2>3, <3>2
      <4>3. r = s
        BY <3>2, <4>1, <4>2 DEF SyncInv, ResolutionsSound, OpenResolutionIsLatest
      <4> QED
        BY <2>1, <3>2, <4>1, <4>2, <4>3
    <3> QED
      BY <1>2, <3>1, <3>2 DEF OpenResolutionIsLatest, Present, Open
  <2> QED
    BY <2>1, <2>2, <2>4 DEF ResolutionsSound
<1> QED
  BY <1>3, <1>4, <1>5, <1>6 DEF SyncInv

\* All that SyncInv says of the synchronisation alone holds beside the resolver.
LEMMA LateSafe == LateSpec => []SyncInv
<1>1. LateInit => SyncInv
  BY InitSound DEF LateInit
<1>2. Paid /\ SyncInv /\ [LateNext]_lateVars => SyncInv'
  <2> SUFFICES ASSUME Paid, SyncInv, [LateNext]_lateVars PROVE SyncInv'
    OBVIOUS
  <2>1. CASE [Next]_vars
    BY <2>1, SyncInductive
  <2>2. ASSUME NEW x \in Resolvers, Acquire(x) \/ Pass(x) \/ AbortPass(x) PROVE SyncInv'
    BY <2>2, PassSafe
  <2> QED
    BY <2>1, <2>2 DEF LateNext, Next, PromoteUnderLease, lateVars, vars
<1> QED
  BY <1>1, <1>2, LateInductive, PTL DEF LateSpec

\* Beside any number of resolver passes, and with the resolutions they settle, nothing is
\* replayed, every request is recorded and paid for, rows stay well formed and aimed at
\* their memories, claims stay exclusive and no stale document blocks a row.
THEOREM SyncSafeBesideResolver ==
    LateSpec => [](/\ NoReplay /\ SentIsRecorded /\ AttemptsArePaid
                   /\ TargetMatchesMemory /\ StaleReadNeverBlocks
                   /\ NeverMalformed /\ ClaimIsExclusive
                   /\ UnknownDeleteHasResolution /\ OpenResolutionIsLatest)
<1>1. SyncInv => /\ NoReplay /\ SentIsRecorded /\ AttemptsArePaid
                 /\ TargetMatchesMemory /\ StaleReadNeverBlocks
                 /\ NeverMalformed /\ ClaimIsExclusive
                 /\ UnknownDeleteHasResolution /\ OpenResolutionIsLatest
  BY SoundRows, SoundClaims
     DEF SyncInv, Intents, CallsSound, RowsSound, RowSound, ResolutionsSound, StaleReadNeverBlocks
<1> QED
  BY LateSafe, <1>1, PTL

-----------------------------------------------------------------------------
(* With a single process, the store too tells the truth *)

\* One process of the application, with any number of passes.
OneProcess == \A v, w \in Workers : v = w

\* A memory without a row has the empty one.
RowsEmptied == \A m \in Memories : ~Present(m) => outbox[m].mutation_sequence = 0

\* The mutation of r is still the latest of its memory, and not settled.
Stands(r) == Present(r.memory) /\ outbox[r.memory].mutation_sequence = r.sequence

\* Resolutions are those of Deletes.
DeletesStand == \A r \in resolution : Stands(r) => outbox[r.memory].desired_action = "delete"

\* The vector of a resolution that found it gone, or is about to say so, has not returned.
GoneSound ==
    \A r \in resolution :
        /\ r.state \in {"resolved_absent", "resolved_deleted"} \/ FoundGone(r)
        /\ r.generation = active /\ Stands(r)
        => store[r.memory] = 0

\* A drain that writes a vector writes to the active generation, for a row that no
\* resolution has been made for; what it wrote stays, unless it is no longer desired.
WriterSound(w) ==
    LET c == worker[w].claim
    IN  /\ Pc(w) = "writing" =>
              /\ Present(c.memory) /\ c.generation = active
              /\ c.target # 0 => \A r \in resolution : Stands(r) => r.memory # c.memory
        /\ Pc(w) = "wrote" =>
              \/ store[c.memory] = c.target
              \/ store[c.memory] = 0 /\ Desired(c.memory) # c.target

\* The inductive invariant.
Lone ==
    /\ RowsEmptied /\ DeletesStand /\ GoneSound /\ SettledStoreIsDesired
    /\ \A w \in Workers : WriterSound(w)

\* The row of every memory keeps its intent, is emptied, or takes a new mutation.
RowsHeld ==
    \A m \in Memories :
        \/ SameIntent(outbox[m], outbox'[m]) /\ memory'[m] = memory[m]
        \/ outbox'[m] = EmptyRow /\ memory'[m] = memory[m]
        \/ Present(m)' /\ clock < clock' /\ outbox'[m].mutation_sequence = clock'

\* The store changes with a write, a cut-over or a Delete of a pass.
StoreGoes ==
    \/ store' = store /\ active' = active
    \/ \E w \in Workers : /\ Pc(w) = "writing" /\ store' = Landed(w)
                          /\ UNCHANGED <<memory, active, outbox>>
    \/ \E w \in Workers : Promote(w)
    \/ \E x \in Resolvers : /\ resolver[x].pc = "deleting" /\ store' = Removed(x)
                            /\ UNCHANGED <<memory, active, outbox, worker>>

\* Rows and memories move together.
LEMMA RowsHold ==
    ASSUME Intents, TypeOK',
           Internal \/ (\E m \in Memories : SettlesRow(m) \/ Records(m)) \/ Rebuilds
    PROVE  RowsHeld
<1>1. TypeOK
  BY DEF Intents
<1>2. CASE Internal
  BY <1>2 DEF Internal, IntentKept, RowsHeld
<1>3. ASSUME NEW m \in Memories, SettlesRow(m) PROVE RowsHeld
  <2>1. \A n \in Memories : outbox'[n] = IF n = m THEN EmptyRow ELSE outbox[n]
    BY <1>1, <1>3 DEF SettlesRow, TypeOK, OutboxOK
  <2> QED
    BY <1>3, <2>1 DEF SettlesRow, RowsHeld, SameIntent
<1>4. ASSUME NEW m \in Memories, Records(m) PROVE RowsHeld
  <2>1. /\ outbox'[m].state = "pending" /\ outbox'[m].mutation_sequence = clock'
        /\ \A n \in Memories \ {m} : outbox'[n] = outbox[n] /\ memory'[n] = memory[n]
    BY <1>4, RecordsIntents
  <2>2. clock' = clock + 1 /\ clock \in Nat
    BY <1>1, <1>4, BoundsAssumption DEF Records, TypeOK
  <2> QED
    BY <2>1, <2>2 DEF RowsHeld, SameIntent, Present
<1>5. CASE Rebuilds
  BY <1>5 DEF Rebuilds, RowsHeld
<1> QED
  BY <1>2, <1>3, <1>4, <1>5

\* What every step of the composition does to rows, memories, drains and the store.
LEMMA LateMoves ==
    ASSUME Paid, Intents, Unconfirmed, [LateNext]_lateVars
    PROVE  /\ RowsHeld /\ StoreGoes /\ RowMoves /\ MemoryMoves
           /\ \A w \in Workers : DrainMoves(w)
<1>1. TypeOK /\ TypeOK'
  BY LateInductive DEF Intents
<1>2. RowsHeld
  BY <1>1, LateStep, NextStep, RowsHold
<1>3. CASE [Next]_vars
  <2>1. StoreMoves /\ RowMoves /\ MemoryMoves /\ \A w \in Workers : DrainMoves(w)
    BY <1>1, <1>3, SyncStore, SyncRemovals, SyncMemory, SyncDrains
  <2> QED
    BY <1>2, <2>1 DEF StoreMoves, StoreGoes
<1>4. ASSUME NEW x \in Resolvers, Acquire(x) \/ Pass(x) \/ AbortPass(x)
      PROVE  StoreGoes /\ RowMoves /\ MemoryMoves /\ \A w \in Workers : DrainMoves(w)
  <2>1. PassGoes(x) /\ Beside
    BY <1>4, PassMoves
  <2>2. UNCHANGED <<memory, active, outbox, worker>>
    BY <2>1 DEF Beside
  <2>3. StoreGoes
    BY <2>1, <2>2 DEF PassGoes, StoreGoes
  <2> QED
    BY <2>2, <2>3 DEF RowMoves, Present, MemoryMoves, DrainMoves
<1> QED
  BY <1>2, <1>3, <1>4 DEF LateNext, Next, PromoteUnderLease, lateVars, vars

\* A resolution that stands after a step has just begun, or stood before, for a row of
\* the same intent.
LEMMA StandsBefore ==
    ASSUME Paid, Intents, RowsHeld, [LateNext]_lateVars, NEW q \in resolution', Stands(q)'
    PROVE  /\ q.memory \in Memories /\ Present(q.memory)
           /\ SameIntent(outbox[q.memory], outbox'[q.memory])
           /\ \/ Begins(q)
              \/ \E r \in resolution : Advances(r, q) /\ Stands(r)
<1>1. TypeOK /\ TypeOK' /\ TableAdvances /\ RowsIssued /\ TableIssued
  BY LateInductive, LateAdvances DEF Intents, Paid
<1>2. q.memory \in Memories /\ q.sequence \in Nat /\ clock \in Nat /\ clock' \in Nat
  <2>1. /\ resolution' \subseteq Resolutions
        /\ clock \in 0 .. MaxSequence /\ clock' \in 0 .. MaxSequence
    BY <1>1 DEF TypeOK
  <2> QED
    BY <2>1, BoundsAssumption DEF Resolutions, Mutations
<1>3. Begins(q) \/ \E r \in resolution : Advances(r, q)
  BY <1>1 DEF TableAdvances
<1>4. q.sequence <= clock
  BY <1>1, <1>3 DEF Begins, RowsIssued, Advances, TableIssued
<1>5. outbox'[q.memory].mutation_sequence = q.sequence /\ outbox'[q.memory].state # "absent"
  BY DEF Stands, Present
<1>6. SameIntent(outbox[q.memory], outbox'[q.memory])
  BY <1>2, <1>4, <1>5 DEF RowsHeld, EmptyRow
<1>7. Present(q.memory) /\ outbox[q.memory].mutation_sequence = q.sequence
  BY <1>5, <1>6 DEF SameIntent, Present
<1> QED
  BY <1>2, <1>3, <1>6, <1>7 DEF Advances, Stands

\* A pass that knows the vector gone knew it before, or has just seen the store without it.
LEMMA GoneBefore ==
    ASSUME Paid, Intents, [LateNext]_lateVars, NEW q \in resolution', FoundGone(q)'
    PROVE  /\ \E r \in resolution : r.sequence = q.sequence
           /\ FoundGone(q) \/ (q.generation = active => store'[q.memory] = 0)
<1>1. PICK x \in Resolvers :
        /\ resolver'[x].sequence = q.sequence
        /\ \/ resolver'[x].pc = "answered" /\ resolver'[x].outcome = "absent"
           \/ resolver'[x].pc = "deleted" /\ resolver'[x].outcome \in {"deleted", "absent"}
  BY DEF FoundGone
<1>2. CASE resolver'[x] = resolver[x]
  <2>1. resolver[x].pc \notin Resting
    BY <1>1, <1>2 DEF Resting
  <2>2. Mine(x) \in resolution /\ Mine(x).sequence = q.sequence
    BY <1>1, <1>2, <2>1, MineHeld
  <2> QED
    BY <1>1, <1>2, <2>2 DEF FoundGone
<1>3. ASSUME NEW y \in Resolvers, Acquire(y) \/ Pass(y) \/ AbortPass(y), resolver'[x] # resolver[x]
      PROVE  /\ \E r \in resolution : r.sequence = q.sequence
             /\ q.generation = active => store'[q.memory] = 0
  <2>1. PassGoes(y) /\ TableAdvances /\ NoneBegins
    BY <1>3, PassMoves, PassAdvances
  <2>2. x = y
    BY <1>3, <2>1 DEF PassGoes
  <2>3. /\ resolver[x].pc \in {"querying", "deleting"}
        /\ resolver'[x].sequence = resolver[x].sequence
    BY <1>1, <2>1, <2>2 DEF PassGoes
  <2>4. /\ Mine(x) \in resolution /\ Mine(x) \in Resolutions /\ Mine(x).sequence = q.sequence
        /\ \A r \in resolution : r.sequence = q.sequence => r = Mine(x)
    BY <1>1, <2>3, MineHeld DEF Resting
  <2>5. Mine(x).memory = q.memory /\ Mine(x).generation = q.generation /\ q.memory \in Memories
    BY <2>1, <2>4 DEF NoneBegins, Advances, Resolutions
  <2>6. store \in [Memories -> Nat]
    BY StillTypes
  <2>7. ASSUME q.generation = active PROVE store'[q.memory] = 0
    <3>1. Tracked(x)
      BY <2>5, <2>7 DEF Tracked
    <3>2. CASE resolver[x].pc = "querying"
      BY <1>1, <2>1, <2>2, <2>5, <3>1, <3>2 DEF PassGoes
    <3>3. CASE resolver[x].pc = "deleting"
      <4>1. /\ store' = Removed(x)
            /\ store[q.memory] = resolver[x].revision \/ store[q.memory] = 0
        BY <1>1, <2>1, <2>2, <2>5, <3>1, <3>3 DEF PassGoes
      <4> QED
        BY <2>5, <2>6, <3>1, <4>1 DEF Removed
    <3> QED
      BY <2>3, <3>2, <3>3
  <2> QED
    BY <2>4, <2>7
<1> QED
  BY <1>2, <1>3 DEF LateNext, Next, PromoteUnderLease, lateVars, vars

\* Every step keeps the resolutions sound.
LEMMA GoneStep ==
    ASSUME Paid, Intents, Seen, Lone, [LateNext]_lateVars
    PROVE  DeletesStand' /\ GoneSound'
<1>1. RowsHeld /\ StoreGoes
  BY LateMoves DEF Seen
<1>2. store \in [Memories -> Nat] /\ active \in Nat /\ \A r \in resolution : r.generation \in Nat
  BY StillTypes DEF TypeOK, Resolutions
<1>3. DeletesStand'
  <2>1. ASSUME NEW q \in resolution', Stands(q)'
        PROVE  outbox'[q.memory].desired_action = "delete"
    <3>1. outbox[q.memory].desired_action = "delete"
      BY <1>1, <2>1, StandsBefore DEF Begins, Advances, Lone, DeletesStand
    <3> QED
      BY <1>1, <2>1, <3>1, StandsBefore DEF SameIntent
  <2> QED
    BY <2>1 DEF DeletesStand
<1>4. ASSUME NEW q \in resolution', Stands(q)', q.generation = active',
             q.state \in {"resolved_absent", "resolved_deleted"} \/ FoundGone(q)'
      PROVE  store'[q.memory] = 0
  <2>1. q.memory \in Memories
    BY <1>1, <1>4, StandsBefore
  <2>2. PICK r \in resolution : Advances(r, q) /\ Stands(r)
    <3>1. ~Begins(q)
      BY <1>4, GoneBefore DEF Begins
    <3> QED
      BY <1>1, <1>4, <3>1, StandsBefore
  <2>3. r.memory = q.memory /\ r.generation = q.generation /\ r.sequence = q.sequence
    BY <2>2 DEF Advances
  <2>4. active' = active /\ r.generation = active /\ ~ \E w \in Workers : Promote(w)
    <3>1. r.generation <= active
      BY DEF Seen, ResolutionsAimed
    <3> QED
      BY <1>1, <1>2, <1>4, <2>3, <3>1 DEF StoreGoes, Promote
  <2>5. CASE r.state \in {"resolved_absent", "resolved_deleted"} \/ FoundGone(r)
    <3>1. store[q.memory] = 0
      BY <2>2, <2>3, <2>4, <2>5 DEF Lone, GoneSound
    <3>2. ASSUME NEW w \in Workers, Pc(w) = "writing", store' = Landed(w)
          PROVE  store'[q.memory] = 0
      <4>1. worker[w].claim.target # 0 => q.memory # worker[w].claim.memory
        BY <2>2, <2>3, <3>2 DEF Lone, WriterSound
      <4> QED
        BY <1>2, <2>1, <3>1, <3>2, <4>1 DEF Landed
    <3>3. ASSUME NEW x \in Resolvers, store' = Removed(x) PROVE store'[q.memory] = 0
      BY <1>2, <2>1, <3>1, <3>3 DEF Removed
    <3> QED
      BY <1>1, <2>4, <3>1, <3>2, <3>3 DEF StoreGoes
  <2>6. CASE ~(r.state \in {"resolved_absent", "resolved_deleted"} \/ FoundGone(r))
    <3>1. ~FoundGone(q)
      BY <2>3, <2>6 DEF FoundGone
    <3>2. q # r => q.state \notin {"resolved_absent", "resolved_deleted"}
      BY <2>2, <2>6 DEF Advances
    <3>3. FoundGone(q)'
      BY <1>4, <2>6, <3>2
    <3> QED
      BY <1>4, <2>4, <3>1, <3>3, GoneBefore
  <2> QED
    BY <2>5, <2>6
<1> QED
  BY <1>3, <1>4 DEF GoneSound

\* Every step leaves the store of a memory without a row at the desired revision.
LEMMA SettledStep ==
    ASSUME Paid, Intents, Seen, Lone, [LateNext]_lateVars
    PROVE  RowsEmptied' /\ SettledStoreIsDesired'
<1>1. RowsHeld /\ StoreGoes /\ RowMoves
  BY LateMoves DEF Seen
<1>2. store \in [Memories -> Nat] /\ TypeOK
  BY StillTypes
<1>3. RowsEmptied'
  BY <1>1 DEF RowsHeld, SameIntent, EmptyRow, Present, Lone, RowsEmptied
<1>4. ASSUME NEW m \in Memories, ~Present(m)' PROVE store'[m] = Desired(m)'
  <2>1. memory'[m] = memory[m] /\ Desired(m)' = Desired(m)
    BY <1>1, <1>4 DEF RowsHeld, Desired
  <2>2. ASSUME NEW w \in Workers, Promote(w) PROVE store'[m] = Desired(m)
    BY <2>2 DEF Promote
  <2>3. CASE Present(m) /\ ~ \E w \in Workers : Promote(w)
    <3>1. PICK w \in Workers : /\ Pc(w) = "wrote" /\ TokenCurrent(w)
                               /\ worker[w].claim.memory = m /\ store' = store
      BY <1>1, <1>4, <2>3 DEF RowMoves
    <3>2. worker[w].claim.target = Desired(m)
      BY <2>3, <3>1 DEF TokenCurrent, ClaimCurrent, Intents, TargetMatchesMemory
    <3> QED
      BY <2>1, <3>1, <3>2 DEF Lone, WriterSound
  <2>4. CASE ~Present(m) /\ ~ \E w \in Workers : Promote(w)
    <3>1. store[m] = Desired(m)
      BY <2>4 DEF Lone, SettledStoreIsDesired
    <3>2. ASSUME NEW w \in Workers, Pc(w) = "writing", store' = Landed(w)
          PROVE  store'[m] = store[m]
      <4>1. m # worker[w].claim.memory
        BY <2>4, <3>2 DEF Lone, WriterSound
      <4> QED
        BY <1>2, <3>2, <4>1 DEF Landed
    <3>3. ASSUME NEW x \in Resolvers, resolver[x].pc = "deleting", store' = Removed(x)
          PROVE  store'[m] = store[m]
      BY <3>1, <3>3, RemovedUndesired
    <3> QED
      BY <1>1, <2>1, <2>4, <3>1, <3>2, <3>3 DEF StoreGoes
  <2> QED
    BY <2>1, <2>2, <2>3, <2>4
<1> QED
  BY <1>3, <1>4 DEF SettledStoreIsDesired

\* The only process keeps what it knows of its write.
LEMMA WriterStep ==
    ASSUME OneProcess, Paid, Intents, Seen, Lone, [LateNext]_lateVars, NEW w \in Workers
    PROVE  WriterSound(w)'
<1> DEFINE c == worker[w].claim
           e == worker'[w].claim
<1>1. RowsHeld /\ StoreGoes /\ RowMoves /\ MemoryMoves /\ DrainMoves(w)
  BY LateMoves DEF Seen
<1>2. TypeOK /\ TypeOK' /\ store \in [Memories -> Nat]
  BY LateInductive, StillTypes DEF Intents
<1>3. \A v \in Workers : v = w
  BY DEF OneProcess
<1>4. ASSUME Pc(w) \notin {"idle", "drain"}
      PROVE  c.memory \in Memories /\ c.target \in Nat /\ ~ \E v \in Workers : Promote(v)
  <2>1. c.memory \in Memories /\ c \in Claim
    BY <1>2, <1>4, ClaimHeld
  <2> QED
    BY <1>3, <1>4, <2>1 DEF Claim, Promote
<1>5. ASSUME Pc(w) \notin {"idle", "drain"}, Pc(w)' = "writing",
             e.memory = c.memory, e.target = c.target, e.generation = c.generation,
             \/ Pc(w) = "writing"
             \/ Pc(w) \notin {"writing", "wrote"} /\ TokenCurrent(w)
      PROVE  WriterSound(w)'
  <2>1. /\ Present(c.memory) /\ c.generation = active
        /\ c.target # 0 => \A r \in resolution : Stands(r) => r.memory # c.memory
    <3>1. CASE Pc(w) = "writing"
      BY <3>1 DEF Lone, WriterSound
    <3>2. CASE TokenCurrent(w)
      <4>1. Present(c.memory) /\ c.generation = active /\ outbox[c.memory].target_revision = c.target
        BY <1>2, <1>5, <3>2, ClaimHeld DEF TokenCurrent, ClaimCurrent, Present
      <4>2. c.target # 0 => outbox[c.memory].desired_action = "upsert"
        BY <1>4, <1>5, <4>1 DEF Intents, TargetMatchesMemory, Desired
      <4> QED
        BY <4>1, <4>2 DEF Lone, DeletesStand
    <3> QED
      BY <1>5, <3>1, <3>2
  <2>2. active' = active
    BY <1>1, <1>4, <1>5 DEF StoreGoes
  <2>3. Present(c.memory)'
    BY <1>1, <1>3, <1>4, <1>5, <2>1 DEF RowMoves
  <2>4. ASSUME c.target # 0, NEW q \in resolution', Stands(q)' PROVE q.memory # c.memory
    <3>1. ~Begins(q) \/ q.memory # c.memory
      <4>1. CASE Pc(w) = "writing"
        BY <1>3, <4>1 DEF Begins
      <4>2. CASE TokenCurrent(w)
        <5>1. outbox[c.memory].target_revision = c.target
          BY <4>2 DEF TokenCurrent, ClaimCurrent
        <5>2. outbox[c.memory].desired_action = "upsert"
          BY <1>4, <1>5, <2>1, <2>4, <5>1 DEF Intents, TargetMatchesMemory, Desired
        <5> QED
          BY <5>2 DEF Begins
      <4> QED
        BY <1>5, <4>1, <4>2
    <3>2. \A r \in resolution : Advances(r, q) /\ Stands(r) => q.memory # c.memory
      BY <2>1, <2>4 DEF Advances
    <3> QED
      BY <1>1, <2>4, <3>1, <3>2, StandsBefore
  <2> QED
    BY <1>5, <2>1, <2>2, <2>3, <2>4 DEF WriterSound, Pc
<1>6. ASSUME Pc(w) = "writing", Pc(w)' = "wrote", e.memory = c.memory, e.target = c.target,
             store' = Landed(w)
      PROVE  WriterSound(w)'
  <2>1. c.generation = active
    BY <1>6 DEF Lone, WriterSound
  <2>2. store'[c.memory] = c.target
    BY <1>2, <1>4, <1>6, <2>1 DEF Landed
  <2> QED
    BY <1>6, <2>2 DEF WriterSound, Pc
<1>7. ASSUME Pc(w) = "wrote", Pc(w)' = "wrote", e.memory = c.memory, e.target = c.target
      PROVE  WriterSound(w)'
  <2>1. PICK m \in Memories, t \in Nat : m = c.memory /\ t = c.target
    BY <1>4, <1>7
  <2>2. /\ t <= memory[m].revision
        /\ store[m] = t \/ (store[m] = 0 /\ Desired(m) # t)
    BY <1>7, <2>1 DEF Seen, ClaimsOrdered, Lone, WriterSound
  <2>3. CASE store' = store
    <3>1. t > 0 => (t # Desired(m) => t # Desired(m)')
      BY <1>1, <1>2, <2>2, NeverDesiredAgain
    <3>2. store'[m] = t \/ (store'[m] = 0 /\ Desired(m)' # t)
      BY <2>1, <2>2, <2>3, <3>1
    <3> QED
      BY <1>7, <2>1, <3>2 DEF WriterSound, Pc
  <2>4. ASSUME NEW x \in Resolvers, resolver[x].pc = "deleting", store' = Removed(x),
               memory' = memory
        PROVE  WriterSound(w)'
    <3>1. Desired(m)' = Desired(m)
      BY <2>4 DEF Desired
    <3>2. store'[m] # store[m] => store'[m] = 0 /\ store[m] # Desired(m)
      BY <2>1, <2>4, RemovedUndesired
    <3>3. store'[m] = t \/ (store'[m] = 0 /\ Desired(m)' # t)
      BY <2>2, <3>1, <3>2
    <3> QED
      BY <1>7, <2>1, <3>3 DEF WriterSound, Pc
  <2>5. ~ \E v \in Workers : Promote(v) \/ Pc(v) = "writing"
    BY <1>3, <1>4, <1>7
  <2> QED
    BY <1>1, <2>3, <2>4, <2>5 DEF StoreGoes
<1>8. CASE Pc(w)' \notin {"writing", "wrote"}
  BY <1>8 DEF WriterSound
<1> QED
  BY <1>1, <1>5, <1>6, <1>7, <1>8 DEF DrainMoves, Pc

\* With one process, the inductive invariant holds throughout.
LEMMA LateLone ==
    ASSUME OneProcess
    PROVE  LateSpec => [](Paid /\ Intents /\ Seen /\ Lone)
<1>1. LateInit => Lone
  <2> SUFFICES ASSUME LateInit PROVE Lone
    OBVIOUS
  <2>1. /\ \A m \in Memories : outbox[m] = EmptyRow /\ store[m] = 0 /\ Desired(m) = 0
        /\ resolution = {} /\ \A w \in Workers : Pc(w) = "idle"
    BY DEF LateInit, Init, Idle, Pc, Desired
  <2> QED
    BY <2>1 DEF Lone, RowsEmptied, EmptyRow, DeletesStand, GoneSound, SettledStoreIsDesired,
                WriterSound
<1>2. Paid /\ Intents /\ Seen /\ Lone /\ [LateNext]_lateVars => Lone'
  BY GoneStep, SettledStep, WriterStep DEF Lone
<1> QED
  BY <1>1, <1>2, LateSeen, PTL DEF LateSpec

\* With a single process, and any number of passes, crashes and cut-overs, a resolution
\* settled as absent or deleted is right as long as its Delete is the latest mutation.
THEOREM ResolvedVectorsAreGone ==
    ASSUME OneProcess
    PROVE  LateSpec => []ResolvedMeansGone
<1>1. Paid /\ Intents /\ Seen /\ Lone => ResolvedMeansGone
  <2> SUFFICES ASSUME Paid, Lone, NEW r \in resolution,
                      r.state \in {"resolved_absent", "resolved_deleted"},
                      r.generation = active, outbox[r.memory].mutation_sequence = r.sequence
               PROVE  store[r.memory] = 0
    BY DEF ResolvedMeansGone
  <2>1. r.memory \in Memories /\ r.sequence # 0
    BY LateTypes, BoundsAssumption DEF Paid, Resolutions, Mutations
  <2>2. Stands(r)
    BY <2>1 DEF Lone, RowsEmptied, Stands
  <2> QED
    BY <2>2 DEF Lone, GoneSound
<1> QED
  BY <1>1, LateLone, PTL

\* With a single process, LanceDB itself agrees with every memory that has no row: no
\* write that failed, and no pass, leaves a vector that should not be there, or removes
\* one that should.
THEOREM SettledStoreTellsTheTruth ==
    ASSUME OneProcess
    PROVE  LateSpec => []SettledStoreIsDesired
<1>1. Paid /\ Intents /\ Seen /\ Lone => SettledStoreIsDesired
  BY DEF Lone
<1> QED
  BY <1>1, LateLone, PTL

=============================================================================
