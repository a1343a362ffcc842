--------------------------- MODULE StorageUpgrade ---------------------------
(***************************************************************************)
(* The opening and upgrading of the SQLite database by several processes:  *)
(* open_coordinated_storage_connection (storage/upgrade_coordinator.rs)    *)
(* with the Windows mutex and the Restart Manager inspection               *)
(* (storage/upgrade_gate), the chain of schema upgrades                    *)
(* (storage/migration.rs) and the writer fence, the triggers that refuse   *)
(* a write of a connection without the writer epoch function               *)
(* (storage/writer_fence_manifest.rs, storage/connection.rs).              *)
(*                                                                         *)
(* A process runs a binary that knows the schema up to MaxOf.  Binaries    *)
(* of schema 12 and before know neither the mutex nor the writer epoch and *)
(* migrate by themselves; all later ones follow the protocol of this code, *)
(* each up to its own version.  The mutex is held only while a connection  *)
(* is being opened, so processes that are already open are kept apart from *)
(* an upgrade by the inspections alone.                                    *)
(*                                                                         *)
(* The upgrade is one SQLite transaction: it is one action, Commit, taken  *)
(* after BEGIN IMMEDIATE and the final inspection.  A failure of any step  *)
(* before it rolls back, ends the opening and looks like a death of the    *)
(* process; a failure after it is one whose outcome the caller cannot see. *)
(***************************************************************************)
EXTENDS Naturals

CONSTANTS
    Procs,         \* processes
    NoProc,        \* nobody
    MaxOf,         \* process -> the schema version its binary knows
    OutboxMemories,      \* memories with a vector-sync outbox row
    Lives,         \* life identities
    FirstVersions, \* schema versions the database may start at
    MaxOpenFaults,     \* how often an opening fails or its process dies
    MaxOpens       \* how often the processes start in all

Versions == 0..30

\* LAST_STATIC_MIGRATION_VERSION: what legacy binaries know.
LastStatic == 12

ASSUME ProcAssumption == NoProc \notin Procs
ASSUME MaxOfAssumption == MaxOf \in [Procs -> LastStatic..30]
ASSUME FirstAssumption == FirstVersions \subseteq Versions
ASSUME UpgradeBounds == MaxOpenFaults \in Nat /\ MaxOpens \in Nat

VARIABLES
    db,      \* the database file
    at,      \* process -> where it is
    known,   \* process -> the version it read when it opened
    mutex,   \* the owner of the named mutex
    lock,    \* the holder of SQLite's write lock across steps
    beside,  \* the processes connected since that lock was taken
    openBudget   \* faults and starts that are left

upgradeVars == <<db, at, known, mutex, lock, beside, openBudget>>

Legacy(p) == MaxOf[p] <= LastStatic

-----------------------------------------------------------------------------
(* The database: schema version, installed fences, lives with their emotion *)
(* and relationship rows, outbox rows and late-delete resolutions.  A row   *)
(* is "old" when a legacy binary left it to be delivered, "bare" when its   *)
(* delete may have been sent without the claim identity of schema 14.       *)

RowStates == {"none", "old", "isolated", "live", "unknown", "bare"}

\* The versions that bring writer-fence triggers.
FenceVersions == {13, 15, 30} \union 17..28

\* The manifest of a schema version: a prefix of WRITER_FENCE_TRIGGER_SPECS.
Manifest(v) == {f \in FenceVersions : f <= v}

\* The neutral rows that schemas 19 and 20 keep for every life.
StateVersions == {19, 20}

Empty(v) ==
    [ver |-> v, fences |-> Manifest(v), lives |-> {},
     states |-> [s \in StateVersions |-> {}],
     outbox |-> [m \in OutboxMemories |-> "none"], res |-> {}]

UpgradeInit ==
    /\ \E v \in FirstVersions : db = Empty(v)
    /\ at = [p \in Procs |-> "off"]
    /\ known = [p \in Procs |-> 0]
    /\ mutex = NoProc /\ lock = NoProc /\ beside = {}
    /\ openBudget = [faults |-> MaxOpenFaults, opens |-> MaxOpens]

-----------------------------------------------------------------------------
(* The chain of upgrades.  Each step expects the version before it; it      *)
(* installs its tables and fences, fills in what existing data needs,       *)
(* validates and records its version.                                       *)

RecordVersion(d, v) == [d EXCEPT !.ver = v, !.fences = @ \union ({v} \intersect FenceVersions)]

\* isolate_historical_outbox_in_transaction and the first 18 triggers.
WriterFence(d) ==
    [RecordVersion(d, 13) EXCEPT !.outbox =
        [m \in OutboxMemories |-> IF @[m] = "old" THEN "isolated" ELSE @[m]]]

AttemptClaimIdentity(d) == RecordVersion(d, 14)

\* A resolution for every unknown delete whose witness is complete.
LateDeleteResolution(d) ==
    [RecordVersion(d, 15) EXCEPT !.res = @ \union {m \in OutboxMemories : d.outbox[m] = "unknown"}]

\* DELETE_UNKNOWN_EVIDENCE_SQL
UnknownEvidence(d) == {m \in OutboxMemories : d.outbox[m] \in {"unknown", "bare"}}

\* Rows that no resolution can be made for; they refuse the whole upgrade.
Unconstructable(d) == {m \in UnknownEvidence(d) \ d.res : d.outbox[m] = "bare"}

LateDeleteGenerationAuthority(d) ==
    [RecordVersion(d, 16) EXCEPT !.res = @ \union UnknownEvidence(d)]

GenerationLifecycle(d) == RecordVersion(d, 17)

GenerationCatchupAttempt(d) == RecordVersion(d, 18)

EmotionAuthority(d) == [RecordVersion(d, 19) EXCEPT !.states[19] = d.lives]

RelationshipAuthority(d) == [RecordVersion(d, 20) EXCEPT !.states[20] = d.lives]

\* Schemas 21 to 30 bring empty tables, or a column, and their fences.
ExperienceEpisode(d) == RecordVersion(d, 21)

LifeIntentAuthority(d) == RecordVersion(d, 22)

AutonomyAuthority(d) == RecordVersion(d, 23)

PerceptionAuthority(d) == RecordVersion(d, 24)

BodyPackageAuthority(d) == RecordVersion(d, 25)

Live2DCoreAuthority(d) == RecordVersion(d, 26)

ScreenPerceptionAuthority(d) == RecordVersion(d, 27)

ScreenVisionOutboundPolicy(d) == RecordVersion(d, 28)

VisionModelProfile(d) == RecordVersion(d, 29)

CapabilityAuthorization(d) == RecordVersion(d, 30)

\* One link of open_after_mutex's chain: the database after it, or none.
StepTo(v, d) ==
    CASE v = 13 -> {WriterFence(d)}
      [] v = 14 -> {AttemptClaimIdentity(d)}
      [] v = 15 -> {LateDeleteResolution(d)}
      [] v = 16 /\ Unconstructable(d) # {} -> {}
      [] v = 16 /\ Unconstructable(d) = {} -> {LateDeleteGenerationAuthority(d)}
      [] v = 17 -> {GenerationLifecycle(d)}
      [] v = 18 -> {GenerationCatchupAttempt(d)}
      [] v = 19 -> {EmotionAuthority(d)}
      [] v = 20 -> {RelationshipAuthority(d)}
      [] v = 21 -> {ExperienceEpisode(d)}
      [] v = 22 -> {LifeIntentAuthority(d)}
      [] v = 23 -> {AutonomyAuthority(d)}
      [] v = 24 -> {PerceptionAuthority(d)}
      [] v = 25 -> {BodyPackageAuthority(d)}
      [] v = 26 -> {Live2DCoreAuthority(d)}
      [] v = 27 -> {ScreenPerceptionAuthority(d)}
      [] v = 28 -> {ScreenVisionOutboundPolicy(d)}
      [] v = 29 -> {VisionModelProfile(d)}
      [] v = 30 -> {CapabilityAuthorization(d)}

\* validate_applied_migration_history and the static migrations: the version
\* must still be the one read before the inspections.
Static(d, read) ==
    IF d.ver # read THEN {}
    ELSE {[d EXCEPT !.ver = IF read <= LastStatic THEN LastStatic ELSE @]}

\* The database after the chain, or none when a step refuses.
Upgraded(d, read, max) ==
    LET base == IF read <= LastStatic THEN LastStatic ELSE read
        up[v \in base..max] ==
            IF v = base THEN Static(d, read) ELSE UNION {StepTo(v, e) : e \in up[v - 1]}
    IN  up[max]

\* validate_writer_fence_manifest and the row checks of the validators.
Valid(d) ==
    /\ d.fences = Manifest(d.ver)
    /\ \A s \in StateVersions : d.ver >= s => d.lives \subseteq d.states[s]

-----------------------------------------------------------------------------
(* Opening. *)

Connected == {p \in Procs : at[p] \notin {"off", "locked"}}

\* The opening fails or the process ends: connection, transaction and mutex
\* go; an abandoned mutex is acquired by the next waiter.
Release(p) ==
    /\ at' = [at EXCEPT ![p] = "off"]
    /\ mutex' = IF mutex = p THEN NoProc ELSE mutex
    /\ lock' = IF lock = p THEN NoProc ELSE lock
    /\ beside' = IF lock = p THEN {} ELSE beside \ {p}
    /\ UNCHANGED <<db, known>>

\* Mutant: an opening that fails keeps the mutex.
FailKeepsMutex(p) ==
    /\ at' = [at EXCEPT ![p] = "off"]
    /\ lock' = IF lock = p THEN NoProc ELSE lock
    /\ beside' = IF lock = p THEN {} ELSE beside \ {p}
    /\ UNCHANGED <<db, known, mutex, openBudget>>
\* An early return of open_after_mutex; the guard releases the mutex.
FailOpening(p) == Release(p) /\ UNCHANGED openBudget

Starts == openBudget.opens > 0 /\ openBudget' = [openBudget EXCEPT !.opens = @ - 1]

\* A waiter that times out changes nothing.
AcquireMutex(p) ==
    /\ at[p] = "off" /\ ~Legacy(p)
    /\ mutex = NoProc
    /\ Starts
    /\ mutex' = p
    /\ at' = [at EXCEPT ![p] = "locked"]
    /\ UNCHANGED <<db, known, lock, beside>>

\* The connection exists from here on, and the inspections of others see it.
OpenBeforeWal(p) ==
    /\ at[p] = "locked"
    /\ db.ver <= MaxOf[p]
    /\ at' = [at EXCEPT ![p] = IF db.ver = MaxOf[p] THEN "verify" ELSE "preflight"]
    /\ known' = [known EXCEPT ![p] = db.ver]
    /\ UNCHANGED <<db, mutex, lock, beside, openBudget>>

TooNew(p) == at[p] = "locked" /\ db.ver > MaxOf[p] /\ FailOpening(p)

\* Mutant: the inspection looks for legacy binaries only.
OccupantsLegacy(p) == {q \in Connected \ {p} : Legacy(q)}
\* Every other process that has the database open.
Occupants(p) == Connected \ {p}

InspectOccupants(p, here, next) ==
    /\ at[p] = here
    /\ \/ /\ Occupants(p) = {}
          /\ at' = [at EXCEPT ![p] = next]
          /\ UNCHANGED <<db, known, mutex, lock, beside, openBudget>>
       \/ Occupants(p) # {} /\ FailOpening(p)

Preflight(p) == InspectOccupants(p, "preflight", "begin")

\* BEGIN IMMEDIATE
BeginUpgrade(p) ==
    /\ at[p] = "begin"
    /\ lock = NoProc
    /\ lock' = p
    /\ beside' = Connected \ {p}
    /\ at' = [at EXCEPT ![p] = "final"]
    /\ UNCHANGED <<db, known, mutex, openBudget>>

\* Mutant: nobody looks again once the write lock is held.
FinalInspectionDropped(p) ==
    /\ at[p] = "final"
    /\ at' = [at EXCEPT ![p] = "migrate"]
    /\ UNCHANGED <<db, known, mutex, lock, beside, openBudget>>
\* The second inspection, inside the transaction.
FinalInspection(p) == InspectOccupants(p, "final", "migrate")

\* The whole chain and COMMIT.
Commit(p) ==
    /\ at[p] = "migrate"
    /\ \/ /\ db' \in Upgraded(db, known[p], MaxOf[p])
          /\ lock' = NoProc /\ beside' = {}
          /\ at' = [at EXCEPT ![p] = "verify"]
          /\ UNCHANGED <<known, mutex, openBudget>>
       \/ Upgraded(db, known[p], MaxOf[p]) = {} /\ FailOpening(p)

\* verify_schema_after_upgrade, the switch to WAL, and the guard's end.
VerifyAndPublish(p) ==
    /\ at[p] = "verify"
    /\ \/ /\ Valid(db) /\ db.ver = MaxOf[p]
          /\ at' = [at EXCEPT ![p] = "open"]
          /\ mutex' = NoProc
          /\ UNCHANGED <<db, known, lock, beside, openBudget>>
       \/ ~(Valid(db) /\ db.ver = MaxOf[p]) /\ FailOpening(p)

\* A legacy binary opens without the mutex and migrates by itself.
LegacyOpen(p) ==
    /\ at[p] = "off" /\ Legacy(p)
    /\ Starts
    /\ db.ver <= MaxOf[p]
    /\ db.ver < MaxOf[p] => lock = NoProc
    /\ db' = [db EXCEPT !.ver = MaxOf[p]]
    /\ at' = [at EXCEPT ![p] = "open"]
    /\ UNCHANGED <<known, mutex, lock, beside>>

Close(p) == at[p] = "open" /\ Release(p) /\ UNCHANGED openBudget

\* An inspection, a lock or a verification fails, or the process dies.
Fault(p) ==
    /\ at[p] \notin {"off", "open"} /\ openBudget.faults > 0
    /\ Release(p)
    /\ openBudget' = [openBudget EXCEPT !.faults = @ - 1]

OpenStep(p) ==
    \/ OpenBeforeWal(p)
    \/ TooNew(p)
    \/ Preflight(p)
    \/ BeginUpgrade(p)
    \/ FinalInspection(p)
    \/ Commit(p)
    \/ VerifyAndPublish(p)

-----------------------------------------------------------------------------
(* Writes of processes that are open.  They wait for the write lock.        *)

Writing(p) == at[p] = "open" /\ lock = NoProc /\ UNCHANGED <<at, known, mutex, lock, beside, openBudget>>

\* The trigger calls digital_life_writer_epoch, which legacy connections lack.
FenceAdmits(p, f) == f \in db.fences => ~Legacy(p)

Enqueue(p, m) ==
    /\ Writing(p)
    /\ FenceAdmits(p, 13)
    /\ db.outbox[m] \in {"none", "isolated"}
    /\ db' = [db EXCEPT !.outbox[m] = IF Legacy(p) THEN "old" ELSE "live"]

\* A delete of the fenced worker ends without a known result; from schema 15
\* on it leaves a resolution.
DeleteUnknown(p, m) ==
    /\ Writing(p)
    /\ FenceAdmits(p, 13)
    /\ db.outbox[m] \in {"old", "live"}
    /\ db' = [db EXCEPT !.outbox[m] = IF MaxOf[p] < 14 THEN "bare" ELSE "unknown",
                        !.res = IF MaxOf[p] < 15 THEN @ ELSE @ \union {m}]

\* The initializer triggers of life_identity.
Initialized(l) ==
    [s \in StateVersions |-> IF db.ver >= s THEN db.states[s] \union {l} ELSE db.states[s]]

\* life_identity has no fence, but the rows its triggers write have.
BornLife(p, l) ==
    /\ Writing(p)
    /\ l \notin db.lives
    /\ \A s \in StateVersions : db.ver >= s => FenceAdmits(p, s)
    /\ db' = [db EXCEPT !.lives = @ \union {l}, !.states = Initialized(l)]

Use(p) ==
    \/ \E m \in OutboxMemories : Enqueue(p, m) \/ DeleteUnknown(p, m)
    \/ \E l \in Lives : BornLife(p, l)

-----------------------------------------------------------------------------

\* A process of the newest binary whose user starts it whenever it is closed;
\* it needs no budget, so its retries are not limited.
Retry(p) ==
    /\ at[p] = "off" /\ ~Legacy(p) /\ \A q \in Procs : MaxOf[q] <= MaxOf[p]
    /\ db.ver < MaxOf[p]
    /\ mutex = NoProc
    /\ mutex' = p
    /\ at' = [at EXCEPT ![p] = "locked"]
    /\ UNCHANGED <<db, known, lock, beside, openBudget>>

UpgradeNext ==
    \E p \in Procs :
        \/ AcquireMutex(p) \/ Retry(p) \/ OpenStep(p) \/ LegacyOpen(p)
        \/ Close(p) \/ Fault(p) \/ Use(p)

UpgradeSpec == UpgradeInit /\ [][UpgradeNext]_upgradeVars

-----------------------------------------------------------------------------
(* Properties. *)

\* Types; one process at a time is between mutex and publication, and only
\* one that is there holds the write lock.
UpgradeTypeOK ==
    /\ db \in [ver : Versions, fences : SUBSET FenceVersions, lives : SUBSET Lives,
               states : [StateVersions -> SUBSET Lives],
               outbox : [OutboxMemories -> RowStates], res : SUBSET OutboxMemories]
    /\ at \in [Procs -> {"off", "locked", "preflight", "begin", "final", "migrate",
                         "verify", "open"}]
    /\ known \in [Procs -> Versions]
    /\ \A p \in Procs : (mutex = p) = (at[p] \notin {"off", "open"})
    /\ lock # NoProc => at[lock] \in {"final", "migrate"}
    /\ beside \subseteq Connected

\* A process of a coordinated binary that is open works on the schema it
\* knows with its whole fence manifest: no other process upgrades the
\* database under it, although the mutex was released when it was published.
OpenIsCurrent ==
    \A p \in Procs : at[p] = "open" /\ ~Legacy(p) =>
        db.ver = MaxOf[p] /\ db.fences = Manifest(db.ver)

\* When an upgrade commits, no process has been connected since before the
\* write lock was taken: who is still there has come after the final
\* inspection (inspect_occupants inside the transaction).
NobodySinceBegin ==
    [][\A p \in Procs : at[p] = "migrate" /\ db'.ver # db.ver => beside = {}]_upgradeVars

\* From schema 13 on no outbox row of a legacy binary waits for delivery:
\* those it left are isolated and a legacy process that was opened during
\* the upgrade is refused by the fence.
LegacyRowsIsolated ==
    db.ver >= 13 => \A m \in OutboxMemories : db.outbox[m] # "old"

\* From schemas 19 and 20 on every life has its emotion and its relationship
\* row, whoever brought it to life and when.
EveryLifeHasState ==
    \A s \in StateVersions : db.ver >= s => db.states[s] = db.lives

\* From schema 16 on every delete with an unknown result has a resolution,
\* also those of binaries that had no resolutions.
UnknownIsCovered ==
    db.ver >= 16 => \A m \in OutboxMemories : db.outbox[m] \in {"unknown", "bare"} => m \in db.res

\* What UpgradeCompletes assumes of the user: the newest application is started again.
NewestIsRestarted == SF_upgradeVars(\E p \in Procs : Retry(p))

\* If the newest application is started again and again, the database reaches its
\* schema in the end, or holds a delete that no resolution can be made for: neither
\* a crash, nor a failed opening, nor processes that are closed in time keep the
\* upgrade from happening.
UpgradeCompletes ==
    NewestIsRestarted =>
      <>(\/ \E p \in Procs : db.ver = MaxOf[p] /\ \A q \in Procs : MaxOf[q] <= MaxOf[p]
         \/ Unconstructable(db) # {})

\* Processes of several binaries leave the database at what its schema
\* version promises, and the open ones at the schema they know.
UpgradeSafe ==
    /\ UpgradeTypeOK /\ OpenIsCurrent /\ LegacyRowsIsolated
    /\ EveryLifeHasState /\ UnknownIsCovered
=============================================================================
