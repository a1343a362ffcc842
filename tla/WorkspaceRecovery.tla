-------------------------- MODULE WorkspaceRecovery --------------------------
(***************************************************************************)
(* The governed replacement of a workspace file and its crash recovery     *)
(* (vita-agent/src/recovery_journal.rs, d29h5.rs and the native primitives *)
(* of workspace_capability.rs).                                            *)
(*                                                                         *)
(* A replacement writes an immutable journal with the exact preimage, opens*)
(* the file with an exclusive handle, asks the host a last time, persists  *)
(* the Started marker, writes, and persists the Committed marker.  A       *)
(* transaction that has Started and no terminal marker requires recovery:  *)
(* a freshly confirmed action writes the preimage back under an exclusive  *)
(* handle and persists the Recovered marker.  Journals and markers are     *)
(* create-new files, never removed; a process may die between any two      *)
(* steps, leaving a file created and not fully written.                    *)
(*                                                                         *)
(* A file object stands for its identity (volume and file id); bound is the*)
(* object the relative path names, and saving by rename rebinds it.        *)
(* Contents stand for their SHA-256 and length.  The journal directory is  *)
(* read by scan_transactions in one step.                                  *)
(***************************************************************************)
EXTENDS Naturals, FiniteSets

CONSTANTS
    Objects,        \* file objects of the workspace, by identity
    FileContents,       \* complete contents a user or the tool may write
    Torn,           \* content left by a write that did not finish
    NoFile,         \* the path names nothing
    Txs,            \* governed replacements, one transaction id each
    Recoverers,     \* executors of recovery actions
    Procs,          \* agent processes sharing the recovery directory
    ProcOf,         \* the process an executor runs in
    NoOne,          \* no exclusive handle is open
    MaxScanEntries, \* MAX_SCAN_ENTRIES of the recovery directory
    LiveRecovery,   \* recovery may be asked while the replacement still runs
    MaxEdits,       \* bound: edits and renames by other programs
    MaxNativeFaults,      \* bound: failing native calls, refusals and panics
    MaxAgentCrashes,     \* bound: process deaths
    MaxAsks         \* bound: recovery actions confirmed by the user

ASSUME ConstantsAssumption ==
    /\ Torn \notin FileContents
    /\ NoFile \notin Objects
    /\ Txs \cap Recoverers = {}
    /\ NoOne \notin Txs \cup Recoverers
    /\ ProcOf \in [Txs \cup Recoverers -> Procs]
    /\ LiveRecovery \in BOOLEAN
    /\ {MaxScanEntries, MaxEdits, MaxNativeFaults, MaxAgentCrashes, MaxAsks} \subseteq Nat

VARIABLES
    bound,          \* the object the relative path names
    content,        \* content of every object
    held,           \* owner of the exclusive handle on every object
    journal,        \* the .dlrj file of every transaction
    marker,         \* its .started, .committed and .recovered files
    tx,             \* the worker of every replacement
    rec,            \* the executor of every recovery action
    authority,      \* host authority: enabled and its revision
    edits, nativeFaults, agentCrashes, asks

recoveryVars == <<bound, content, held, journal, marker, tx, rec, authority,
          edits, nativeFaults, agentCrashes, asks>>

AnyContent == FileContents \cup {Torn}
Markers == {"started", "committed", "recovered"}
FileStates == {"absent", "torn", "valid"}

\* Where the worker of a replacement is; "done" has returned, "dead" crashed.
IdlePc == "idle"
Preparing == {"granted", "admitted", "creating"}
Holding == {"opened", "starting", "started", "writing"}
Working == {"admitted", "creating", "prepared", "failed", "written",
            "committing"} \cup Holding
EndStates == {"done", "dead"}
RecHolding == {"open", "restoring"}
RecStates == {IdlePc, "asked", "scanned", "granted", "restored", "marking",
              "marked"}
             \cup RecHolding

\* What the caller of a replacement is told.
Denied(r) == [kind |-> "denied", recovery |-> r]
Conflict(r) == [kind |-> "conflict", recovery |-> r]
CommitUnknown == [kind |-> "unknown", recovery |-> "required"]
LifecycleUnknown == [kind |-> "lifecycle", recovery |-> "metadata"]
CommittedOutcome == [kind |-> "committed", recovery |-> "none"]
Error == [kind |-> "error", recovery |-> "none"]
NoOutcome == [kind |-> "running", recovery |-> "none"]
Outcomes == {CommitUnknown, LifecycleUnknown, CommittedOutcome, Error, NoOutcome}
            \cup {Denied(r) : r \in {"none", "required"}}
            \cup {Conflict(r) : r \in {"none", "required"}}

RecoveryInit ==
    /\ bound \in Objects
    /\ content \in [Objects -> FileContents]
    /\ held = [o \in Objects |-> NoOne]
    /\ journal = [x \in Txs |-> [state |-> "absent", before |-> Torn]]
    /\ marker = [x \in Txs |-> [m \in Markers |-> "absent"]]
    /\ tx = [x \in Txs |-> [pc |-> IdlePc, obj |-> NoFile, expect |-> Torn,
                            repl |-> Torn, cancelled |-> FALSE,
                            wrote |-> FALSE, outcome |-> NoOutcome]]
    /\ rec = [q \in Recoverers |-> [pc |-> IdlePc, of |-> NoOne, cur |-> Torn,
                                    rev |-> 0]]
    /\ authority = [enabled |-> TRUE, revision |-> 0]
    /\ edits = 0 /\ nativeFaults = 0 /\ agentCrashes = 0 /\ asks = 0

-----------------------------------------------------------------------------
(* scan_transactions: the state of every transaction, derived from files.  *)

Entries ==
    Cardinality({x \in Txs : journal[x].state # "absent"})
    + Cardinality({f \in Txs \X Markers : marker[f[1]][f[2]] # "absent"})

ScanOk == Entries <= MaxScanEntries

Present(x) == {m \in Markers : marker[x][m] = "valid"}

TornMarker(x) == \E m \in Markers : marker[x][m] = "torn"

\* build_transaction_snapshot; a transaction without a valid journal is no
\* transaction at all (its markers, if any, are orphans).
TxState(x) ==
    IF journal[x].state # "valid" THEN "none"
    ELSE IF TornMarker(x) THEN "poisoned"
    ELSE CASE Present(x) = {}                       -> "prepared"
           [] Present(x) = {"started"}              -> "required"
           [] Present(x) = {"started", "committed"} -> "committed"
           [] Present(x) = {"started", "recovered"} -> "recovered"
           [] OTHER                                 -> "poisoned"

\* mutation_target_key: the transactions journaled for object o.
On(o) == {x \in Txs : journal[x].state = "valid" /\ tx[x].obj = o}

Required(o) == {x \in On(o) : TxState(x) = "required"}

\* Only Valid items are exposed to operational code: of several unresolved
\* transactions of a target none is.
ValidTx(x) ==
    /\ TxState(x) \notin {"none", "poisoned"}
    /\ TxState(x) = "required" => Required(tx[x].obj) = {x}

\* target_lifecycle_excluding
Lifecycle(o, excluded) ==
    IF \E x \in On(o) \ excluded : TxState(x) = "poisoned" THEN "poisoned"
    ELSE IF Cardinality(Required(o)) > 1 THEN "ambiguous"
    ELSE IF Required(o) \ excluded # {} THEN "required"
    ELSE "clear"

LegalNext == {<<"prepared", "started">>, <<"required", "committed">>,
              <<"required", "recovered">>}

\* persist_marker: the checks before the marker file is created.
MayPersist(x, m) ==
    /\ ScanOk
    /\ ValidTx(x)
    /\ Lifecycle(tx[x].obj, {x}) = "clear"
    /\ <<TxState(x), m>> \in LegalNext

\* create_new_marker: the file is created, then written, flushed and verified.
Creates(x, m) ==
    /\ marker[x][m] = "absent"
    /\ marker' = [marker EXCEPT ![x][m] = "torn"]
Completes(x, m) ==
    /\ marker[x][m] = "torn"
    /\ marker' = [marker EXCEPT ![x][m] = "valid"]

\* It fails: the file was not created, or stays incomplete, or is complete and
\* could not be flushed or reopened.
LeavesSome(x, m) ==
    \E s \in FileStates : /\ marker[x][m] = "torn" => s # "absent"
                          /\ marker' = [marker EXCEPT ![x][m] = s]

NativeFault == nativeFaults < MaxNativeFaults /\ nativeFaults' = nativeFaults + 1

-----------------------------------------------------------------------------
(* execute_governed_h5_replace and its blocking worker.                    *)

To(x, pc) == tx' = [tx EXCEPT ![x].pc = pc]

\* The native call returns and drops its operation handle.
ClosesHandle(a) == held' = [o \in Objects |-> IF held[o] = a THEN NoOne
                                              ELSE held[o]]

Returns(x, outcome) ==
    /\ tx' = [tx EXCEPT ![x].pc = "done", ![x].outcome = outcome]
    /\ ClosesHandle(x)

\* The H4 broker issued a single-use grant that binds the file's identity, the
\* content it had when the model read it and the replacement.
IssueWorkspaceGrant(x) ==
    /\ tx[x].pc = IdlePc
    /\ bound # NoFile
    /\ held[bound] = NoOne
    /\ \E r \in FileContents :
         tx' = [tx EXCEPT ![x].pc = "granted", ![x].obj = bound,
                          ![x].expect = content[bound], ![x].repl = r]
    /\ UNCHANGED <<bound, content, held, journal, marker, rec, authority,
                   edits, nativeFaults, agentCrashes, asks>>

\* The turn is cancelled, or the future that awaits the worker is dropped.
CancelReplacement(x) ==
    /\ tx[x].pc \in Working \cup {"granted"}
    /\ ~tx[x].cancelled
    /\ tx' = [tx EXCEPT ![x].cancelled = TRUE]
    /\ UNCHANGED <<bound, content, held, journal, marker, rec, authority,
                   edits, nativeFaults, agentCrashes, asks>>

\* H5TargetAdmissionGuard: process-local, held until the worker returns.
Admitted(x) ==
    \E y \in Txs \ {x} : /\ tx[y].pc \in Working
                         /\ tx[y].obj = tx[x].obj
                         /\ ProcOf[y] = ProcOf[x]

\* prepare_bound_target, the admission guard and the first scan.
Admit(x) ==
    /\ tx[x].pc = "granted"
    /\ IF /\ bound = tx[x].obj
          /\ ~Admitted(x)
          /\ ScanOk
          /\ Lifecycle(tx[x].obj, {}) = "clear"
         THEN To(x, "admitted") /\ UNCHANGED held
         ELSE Returns(x, Error)
    /\ UNCHANGED <<bound, content, journal, marker, rec, authority, edits,
                   nativeFaults, agentCrashes, asks>>

\* Mutant: the content is not compared with the one that was authorized.
MatchesAnything(a, o, c) == bound = o /\ held[o] = NoOne

\* The path still names the object, nobody holds it exclusively and its bytes
\* have the expected hash and length.
Matches(a, o, c) == bound = o /\ held[o] = NoOne /\ content[o] = c

\* create_prepared_for_expected_preimage up to the creation of the journal.
CreateJournal(x) ==
    /\ tx[x].pc = "admitted"
    /\ IF Matches(x, tx[x].obj, tx[x].expect)
         THEN /\ journal' = [journal EXCEPT ![x] =
                               [state |-> "torn", before |-> content[tx[x].obj]]]
              /\ To(x, "creating")
              /\ UNCHANGED held
         ELSE Returns(x, Error) /\ UNCHANGED journal
    /\ UNCHANGED <<bound, content, marker, rec, authority, edits, nativeFaults,
                   agentCrashes, asks>>

\* persist_prepared: written, flushed, reopened and verified.
JournalWritten(x) ==
    /\ tx[x].pc = "creating"
    /\ journal' = [journal EXCEPT ![x].state = "valid"]
    /\ To(x, "prepared")
    /\ UNCHANGED <<bound, content, held, marker, rec, authority, edits, nativeFaults,
                   agentCrashes, asks>>

JournalFails(x) ==
    /\ tx[x].pc = "creating"
    /\ NativeFault
    /\ \E s \in FileStates : journal' = [journal EXCEPT ![x].state = s]
    /\ Returns(x, Error)
    /\ UNCHANGED <<bound, content, marker, rec, authority, edits, agentCrashes, asks>>

\* replace_existing_file_utf8_bounded_impl up to its first hash check.
OpenTarget(x) ==
    /\ tx[x].pc = "prepared"
    /\ LET o == tx[x].obj IN
       CASE tx[x].cancelled \/ bound # o \/ held[o] # NoOne ->
                Returns(x, Denied("none"))
         [] ~tx[x].cancelled /\ Matches(x, o, tx[x].expect) ->
                To(x, "opened") /\ held' = [held EXCEPT ![o] = x]
         [] OTHER -> Returns(x, Conflict("none"))
    /\ UNCHANGED <<bound, content, journal, marker, rec, authority, edits,
                   nativeFaults, agentCrashes, asks>>

\* The last host check notices the cancelled turn, before and after it waited
\* for the host's decision.
FenceCancelled(x) ==
    /\ tx[x].pc = "opened"
    /\ tx[x].cancelled
    /\ Returns(x, Denied("none"))
    /\ UNCHANGED <<bound, content, journal, marker, rec, authority, edits,
                   nativeFaults, agentCrashes, asks>>

\* A native check fails, or the host refuses the last revalidation or does not
\* answer in time, before the Started marker is attempted.
RefusedBeforeStart(x) ==
    /\ tx[x].pc \in {"prepared", "opened"}
    /\ NativeFault
    /\ Returns(x, Denied("none"))
    /\ UNCHANGED <<bound, content, journal, marker, rec, authority, edits,
                   agentCrashes, asks>>

\* H5StartedFence::check, the host having passed: the checks of the marker.  A
\* refused marker denies the native call.
PersistStarted(x) ==
    /\ tx[x].pc = "opened"
    /\ ~tx[x].cancelled
    /\ IF MayPersist(x, "started")
         THEN To(x, "starting") /\ UNCHANGED held
         ELSE To(x, "failed") /\ ClosesHandle(x)
    /\ UNCHANGED <<bound, content, journal, marker, rec, authority, edits,
                   nativeFaults, agentCrashes, asks>>

CreateMarker(x) ==
    /\ \/ tx[x].pc = "starting" /\ Creates(x, "started")
       \/ tx[x].pc = "committing" /\ Creates(x, "committed")
    /\ UNCHANGED <<bound, content, held, journal, tx, rec, authority, edits,
                   nativeFaults, agentCrashes, asks>>

StartedWritten(x) ==
    /\ tx[x].pc = "starting"
    /\ Completes(x, "started")
    /\ To(x, "started")
    /\ UNCHANGED <<bound, content, held, journal, rec, authority, edits, nativeFaults,
                   agentCrashes, asks>>

\* Mutant: the fence passes although the marker could not be persisted.
StartedFailsOpen(x) ==
    /\ tx[x].pc = "starting"
    /\ NativeFault
    /\ LeavesSome(x, "started")
    /\ To(x, "started")
    /\ UNCHANGED <<bound, content, held, journal, rec, authority, edits,
                   agentCrashes, asks>>

StartedFails(x) ==
    /\ tx[x].pc = "starting"
    /\ NativeFault
    /\ LeavesSome(x, "started")
    /\ To(x, "failed")
    /\ ClosesHandle(x)
    /\ UNCHANGED <<bound, content, journal, rec, authority, edits, agentCrashes, asks>>

\* reconcile_started_persistence_failure
Reconciled(x) ==
    LET life == Lifecycle(tx[x].obj, {})
    IN  CASE ScanOk /\ ValidTx(x) /\ TxState(x) = "prepared" /\ life = "clear" ->
                 Denied("none")
          [] /\ ScanOk /\ ValidTx(x) /\ life = "required"
             /\ TxState(x) \in {"prepared", "required"} -> Denied("required")
          [] OTHER -> LifecycleUnknown

ReconcileStarted(x) ==
    /\ tx[x].pc = "failed"
    /\ Returns(x, Reconciled(x))
    /\ UNCHANGED <<bound, content, journal, marker, rec, authority, edits,
                   nativeFaults, agentCrashes, asks>>

\* The turn was cancelled while the marker was persisted.
CancelledAfterStart(x) ==
    /\ tx[x].pc = "started"
    /\ tx[x].cancelled
    /\ Returns(x, Denied("required"))
    /\ UNCHANGED <<bound, content, journal, marker, rec, authority, edits,
                   nativeFaults, agentCrashes, asks>>

\* A check of the root, parent, file or handle after the fence fails.
RefusedAfterStart(x) ==
    /\ tx[x].pc = "started"
    /\ NativeFault
    /\ Returns(x, Denied("required"))
    /\ UNCHANGED <<bound, content, journal, marker, rec, authority, edits,
                   agentCrashes, asks>>

\* The first modifying call.
FirstWrite(x) ==
    /\ tx[x].pc = "started"
    /\ ~tx[x].cancelled
    /\ tx' = [tx EXCEPT ![x].pc = "writing", ![x].wrote = TRUE]
    /\ content' = [content EXCEPT ![tx[x].obj] = Torn]
    /\ UNCHANGED <<bound, held, journal, marker, rec, authority, edits, nativeFaults,
                   agentCrashes, asks>>

\* Written, truncated, flushed and verified; the handle is closed.
WriteDone(x) ==
    /\ tx[x].pc = "writing"
    /\ content' = [content EXCEPT ![tx[x].obj] = tx[x].repl]
    /\ To(x, "written")
    /\ ClosesHandle(x)
    /\ UNCHANGED <<bound, journal, marker, rec, authority, edits, nativeFaults,
                   agentCrashes, asks>>

WriteFails(x) ==
    /\ tx[x].pc = "writing"
    /\ NativeFault
    /\ \E c \in {Torn, tx[x].repl} :
         content' = [content EXCEPT ![tx[x].obj] = c]
    /\ Returns(x, CommitUnknown)
    /\ UNCHANGED <<bound, journal, marker, rec, authority, edits, agentCrashes, asks>>

PersistCommitted(x) ==
    /\ tx[x].pc = "written"
    /\ IF MayPersist(x, "committed")
         THEN To(x, "committing") /\ UNCHANGED held
         ELSE Returns(x, CommitUnknown)
    /\ UNCHANGED <<bound, content, journal, marker, rec, authority, edits,
                   nativeFaults, agentCrashes, asks>>

CommittedWritten(x) ==
    /\ tx[x].pc = "committing"
    /\ Completes(x, "committed")
    /\ Returns(x, CommittedOutcome)
    /\ UNCHANGED <<bound, content, journal, rec, authority, edits, nativeFaults,
                   agentCrashes, asks>>

CommittedFails(x) ==
    /\ tx[x].pc = "committing"
    /\ NativeFault
    /\ LeavesSome(x, "committed")
    /\ Returns(x, CommitUnknown)
    /\ UNCHANGED <<bound, content, journal, rec, authority, edits, agentCrashes, asks>>

\* h5_result_after_native_panic: the mutation tracker and a fresh scan.
AfterPanic(x) ==
    IF ~ScanOk \/ Lifecycle(tx[x].obj, {}) \in {"ambiguous", "poisoned"}
      THEN LifecycleUnknown
      ELSE CASE TxState(x) = "committed" -> CommittedOutcome
             [] ~tx[x].wrote /\ TxState(x) = "prepared" -> Denied("none")
             [] ~tx[x].wrote /\ TxState(x) = "required" -> Denied("required")
             [] tx[x].wrote /\ TxState(x) = "required" -> CommitUnknown
             [] OTHER -> LifecycleUnknown

\* The worker panics outside the fence and the panic is caught.
Panic(x) ==
    /\ tx[x].pc \in {"prepared", "opened", "started", "writing", "written"}
    /\ NativeFault
    /\ Returns(x, AfterPanic(x))
    /\ UNCHANGED <<bound, content, journal, marker, rec, authority, edits,
                   agentCrashes, asks>>

-----------------------------------------------------------------------------
(* H5RecoveryExecutor::recover                                             *)

Go(q, pc) == rec' = [rec EXCEPT ![q].pc = pc]

\* The trusted side reads the unresolved transaction and the file, and the
\* user confirms exactly that action.
AskRecovery(q, x) ==
    /\ rec[q].pc = IdlePc
    /\ asks < MaxAsks
    /\ LiveRecovery \/ tx[x].pc \in EndStates
    /\ ScanOk /\ ValidTx(x) /\ TxState(x) = "required"
    /\ bound # NoFile
    /\ held[bound] = NoOne
    /\ rec' = [rec EXCEPT ![q] = [pc |-> "asked", of |-> x,
                                  cur |-> content[bound],
                                  rev |-> authority.revision]]
    /\ asks' = asks + 1
    /\ UNCHANGED <<bound, content, held, journal, marker, tx, authority, edits,
                   nativeFaults, agentCrashes>>

\* Mutant: the target must be clear, as for a replacement.
ActionableIfClear(x) ==
    /\ ScanOk
    /\ ValidTx(x)
    /\ TxState(x) = "required"
    /\ Lifecycle(tx[x].obj, {}) = "clear"

\* The transaction is unresolved and the only one its target has.
Actionable(x) ==
    /\ ScanOk
    /\ ValidTx(x)
    /\ TxState(x) = "required"
    /\ Lifecycle(tx[x].obj, {}) = "required"

RecoverScan(q) ==
    /\ rec[q].pc = "asked"
    /\ Go(q, IF Actionable(rec[q].of) THEN "scanned" ELSE IdlePc)
    /\ UNCHANGED <<bound, content, held, journal, marker, tx, authority, edits,
                   nativeFaults, agentCrashes, asks>>

\* The host's confirmation and grant are bound to the revision of the action.
Authorized(q) == authority.enabled /\ rec[q].rev = authority.revision

\* The file is observed and issue_recovery_grant consumes the confirmation.
RecoverGrant(q) ==
    /\ rec[q].pc = "scanned"
    /\ Go(q, IF Matches(q, tx[rec[q].of].obj, rec[q].cur) /\ Authorized(q)
               THEN "granted" ELSE IdlePc)
    /\ UNCHANGED <<bound, content, held, journal, marker, tx, authority, edits,
                   nativeFaults, agentCrashes, asks>>

\* recover_existing_file_raw_bounded up to its first hash check.
RecoverOpen(q) ==
    /\ rec[q].pc = "granted"
    /\ LET o == tx[rec[q].of].obj IN
       IF Matches(q, o, rec[q].cur)
         THEN Go(q, "open") /\ held' = [held EXCEPT ![o] = q]
         ELSE Go(q, IdlePc) /\ UNCHANGED held
    /\ UNCHANGED <<bound, content, journal, marker, tx, authority, edits,
                   nativeFaults, agentCrashes, asks>>

\* RecoveryFence::check, the checks after it and the first modifying call; a
\* file that already has the preimage is not written.
RecoverFence(q) ==
    /\ rec[q].pc = "open"
    /\ LET o == tx[rec[q].of].obj IN
       CASE ~Authorized(q) ->
                Go(q, IdlePc) /\ ClosesHandle(q) /\ UNCHANGED content
         [] Authorized(q) /\ content[o] = journal[rec[q].of].before ->
                Go(q, "restored") /\ ClosesHandle(q) /\ UNCHANGED content
         [] OTHER ->
                /\ content' = [content EXCEPT ![o] = Torn]
                /\ Go(q, "restoring")
                /\ UNCHANGED held
    /\ UNCHANGED <<bound, journal, marker, tx, authority, edits, nativeFaults,
                   agentCrashes, asks>>

RecoverWritten(q) ==
    /\ rec[q].pc = "restoring"
    /\ content' = [content EXCEPT ![tx[rec[q].of].obj] =
                                      journal[rec[q].of].before]
    /\ Go(q, "restored")
    /\ ClosesHandle(q)
    /\ UNCHANGED <<bound, journal, marker, tx, authority, edits, nativeFaults,
                   agentCrashes, asks>>

\* A refusal, an expiry, a cancellation or a failing native call.
RecoverFails(q) ==
    /\ rec[q].pc \notin {IdlePc, "marked"}
    /\ NativeFault
    /\ Go(q, IdlePc)
    /\ ClosesHandle(q)
    /\ UNCHANGED <<bound, content, journal, marker, tx, authority, edits,
                   agentCrashes, asks>>

PersistRecovered(q) ==
    /\ rec[q].pc = "restored"
    /\ Go(q, IF MayPersist(rec[q].of, "recovered") THEN "marking" ELSE IdlePc)
    /\ UNCHANGED <<bound, content, held, journal, marker, tx, authority, edits,
                   nativeFaults, agentCrashes, asks>>

\* Create-new: a marker that exists by now ends the action as unknown.
CreateRecovered(q) ==
    /\ rec[q].pc = "marking"
    /\ IF marker[rec[q].of]["recovered"] = "absent"
         THEN Creates(rec[q].of, "recovered") /\ Go(q, "marked")
         ELSE UNCHANGED marker /\ Go(q, IdlePc)
    /\ UNCHANGED <<bound, content, held, journal, tx, authority, edits, nativeFaults,
                   agentCrashes, asks>>

RecoveredWritten(q) ==
    /\ rec[q].pc = "marked"
    /\ Completes(rec[q].of, "recovered")
    /\ Go(q, IdlePc)
    /\ UNCHANGED <<bound, content, held, journal, tx, authority, edits, nativeFaults,
                   agentCrashes, asks>>

RecoveredFails(q) ==
    /\ rec[q].pc = "marked"
    /\ NativeFault
    /\ LeavesSome(rec[q].of, "recovered")
    /\ Go(q, IdlePc)
    /\ UNCHANGED <<bound, content, held, journal, tx, authority, edits,
                   agentCrashes, asks>>

-----------------------------------------------------------------------------
(* The world around the agent.                                             *)

\* The host disables the capability and raises its revision.
Disable ==
    /\ authority.enabled
    /\ authority' = [enabled |-> FALSE, revision |-> authority.revision + 1]
    /\ UNCHANGED <<bound, content, held, journal, marker, tx, rec, edits,
                   nativeFaults, agentCrashes, asks>>

\* Another program writes a file nobody holds exclusively.
Edit(o) ==
    /\ edits < MaxEdits
    /\ held[o] = NoOne
    /\ \E c \in FileContents \ {content[o]} : content' = [content EXCEPT ![o] = c]
    /\ edits' = edits + 1
    /\ UNCHANGED <<bound, held, journal, marker, tx, rec, authority, nativeFaults,
                   agentCrashes, asks>>

\* Another program moves, deletes or replaces the file the path names.
Rebind ==
    /\ edits < MaxEdits
    /\ bound \in Objects => held[bound] = NoOne
    /\ bound' \in (Objects \cup {NoFile}) \ {bound}
    /\ edits' = edits + 1
    /\ UNCHANGED <<content, held, journal, marker, tx, rec, authority, nativeFaults,
                   agentCrashes, asks>>

\* A process dies: its handles close, its admissions and actions are gone.
AgentCrash(p) ==
    /\ agentCrashes < MaxAgentCrashes
    /\ agentCrashes' = agentCrashes + 1
    /\ tx' = [x \in Txs |->
                IF ProcOf[x] = p /\ tx[x].pc \notin EndStates \cup {IdlePc}
                  THEN [tx[x] EXCEPT !.pc = "dead"] ELSE tx[x]]
    /\ rec' = [q \in Recoverers |->
                IF ProcOf[q] = p THEN [rec[q] EXCEPT !.pc = IdlePc] ELSE rec[q]]
    /\ held' = [o \in Objects |->
                IF held[o] # NoOne /\ ProcOf[held[o]] = p THEN NoOne
                ELSE held[o]]
    /\ UNCHANGED <<bound, content, journal, marker, authority, edits, nativeFaults,
                   asks>>

TxStep(x) ==
    \/ Admit(x) \/ CreateJournal(x) \/ JournalWritten(x) \/ OpenTarget(x)
    \/ FenceCancelled(x) \/ PersistStarted(x) \/ CreateMarker(x)
    \/ StartedWritten(x) \/ ReconcileStarted(x) \/ CancelledAfterStart(x)
    \/ FirstWrite(x) \/ WriteDone(x) \/ PersistCommitted(x)
    \/ CommittedWritten(x)

TxFault(x) ==
    \/ JournalFails(x) \/ RefusedBeforeStart(x) \/ StartedFails(x)
    \/ RefusedAfterStart(x) \/ WriteFails(x) \/ CommittedFails(x) \/ Panic(x)

RecStep(q) ==
    \/ RecoverScan(q) \/ RecoverGrant(q) \/ RecoverOpen(q) \/ RecoverFence(q)
    \/ RecoverWritten(q) \/ PersistRecovered(q) \/ CreateRecovered(q)
    \/ RecoveredWritten(q)

RecFault(q) == RecoverFails(q) \/ RecoveredFails(q)

RecoveryNext ==
    \/ \E x \in Txs : IssueWorkspaceGrant(x) \/ CancelReplacement(x) \/ TxStep(x) \/ TxFault(x)
    \/ \E q \in Recoverers :
         RecStep(q) \/ RecFault(q) \/ \E x \in Txs : AskRecovery(q, x)
    \/ Disable
    \/ \E o \in Objects : Edit(o)
    \/ Rebind
    \/ \E p \in Procs : AgentCrash(p)

RecoverySpec == RecoveryInit /\ [][RecoveryNext]_recoveryVars

-----------------------------------------------------------------------------
(* Type invariant: every field is in range, and an exclusive handle is open*)
(* exactly while a worker or an executor is inside its native call.        *)
RecoveryTypeOK ==
    /\ bound \in Objects \cup {NoFile}
    /\ content \in [Objects -> AnyContent]
    /\ journal \in [Txs -> [state : FileStates, before : AnyContent]]
    /\ marker \in [Txs -> [Markers -> FileStates]]
    /\ tx \in [Txs -> [pc : {IdlePc} \cup Preparing \cup Working \cup EndStates,
                       obj : Objects \cup {NoFile}, expect : AnyContent,
                       repl : AnyContent, cancelled : BOOLEAN,
                       wrote : BOOLEAN, outcome : Outcomes]]
    /\ rec \in [Recoverers -> [pc : RecStates, of : Txs \cup {NoOne},
                               cur : AnyContent, rev : Nat]]
    /\ authority \in [enabled : BOOLEAN, revision : Nat]
    /\ \A x \in Txs : \A o \in Objects :
         held[o] = x <=> tx[x].pc \in Holding /\ tx[x].obj = o
    /\ \A q \in Recoverers : \A o \in Objects :
         held[o] = q <=> rec[q].pc \in RecHolding /\ tx[rec[q].of].obj = o

(* A half-written file always has an unresolved transaction: as long as a  *)
(* file holds the torn content of a replacement or of a recovery, a scan   *)
(* after any crash does not find its target clear, so no later replacement *)
(* is admitted on top of it and its preimage can still be restored.        *)
TornIsUnresolved ==
    \A o \in Objects : content[o] = Torn => Lifecycle(o, {}) # "clear"

(* At most one unresolved transaction per target, also when two processes  *)
(* that do not share the admission map replace the same file: the target   *)
(* never becomes ambiguous.                                                *)
OneActivePerTarget == \A o \in Objects : Cardinality(Required(o)) <= 1

(* What the caller of a replacement is told is true of the disk: a denial  *)
(* or conflict means the transaction wrote nothing, "no recovery needed"   *)
(* means no Started evidence blocks the target, committed means written and*)
(* durably marked.                                                         *)
OutcomeIsTruthful ==
    \A x \in Txs : tx[x].pc = "done" =>
        LET out == tx[x].outcome IN
        /\ out.kind \in {"denied", "conflict", "error"} => ~tx[x].wrote
        /\ out.kind \in {"denied", "conflict", "error"} /\ out.recovery = "none"
             => marker[x]["started"] = "absent"
        /\ out.kind = "committed" => tx[x].wrote /\ "committed" \in Present(x)

(* Nothing is overwritten blindly: when a replacement or a recovery first  *)
(* touches a file, the content it destroys is the journaled preimage of a  *)
(* started transaction, or the one the user confirmed for the recovery of  *)
(* an unresolved transaction.                                              *)
OverwritesOnlyNamed ==
    [][\A o \in Objects : content'[o] = Torn /\ content[o] # Torn =>
         \/ \E x \in Required(o) : journal[x].before = content[o]
         \/ \E q \in Recoverers : /\ rec[q].pc = "open"
                                  /\ rec[q].of \in Required(o)
                                  /\ rec[q].cur = content[o]]_recoveryVars

(* A replacement that was admitted ends, unless its process dies.          *)
ReplacementEnds ==
    \A x \in Txs : tx[x].pc = "granted" ~> tx[x].pc \in EndStates

(* An unresolved transaction is eventually resolved by a confirmed         *)
(* recovery, unless the host is disabled, the file is gone, its evidence is*)
(* damaged or the recovery directory is full.                              *)
RequiredIsResolved ==
    \A x \in Txs : TxState(x) = "required" ~>
        \/ TxState(x) # "required"
        \/ ~authority.enabled
        \/ bound # tx[x].obj
        \/ ~ScanOk
        \/ Lifecycle(tx[x].obj, {}) # "required"

(* A crash at any moment of a replacement or of its recovery leaves a file *)
(* whose state the journal and the caller's answer tell truly.             *)
RecoverySafe ==
    RecoveryTypeOK /\ TornIsUnresolved /\ OneActivePerTarget /\ OutcomeIsTruthful

(* Replacements and the recoveries they require come to their end.         *)
RecoveryProgress == ReplacementEnds /\ RequiredIsResolved
=============================================================================
