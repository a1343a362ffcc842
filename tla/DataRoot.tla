------------------------------ MODULE DataRoot ------------------------------
(***************************************************************************)
(* The data root of the application and its move to another directory:     *)
(* StorageLocationResolver (storage/location.rs), which reads and writes   *)
(* storage-location.json in the default root, and                          *)
(* StorageService::migrate_location (storage/mod.rs), which copies the     *)
(* SQLite database to a temporary file of the target root, renames it to   *)
(* its final name, points the configuration at the target and reopens      *)
(* there, undoing what it did when a step fails.  The Vita Host reads the  *)
(* capability authorisation through an authority view that is opened once, *)
(* when the application starts.                                            *)
(*                                                                         *)
(* The move holds the state lock, so no write of this process comes in     *)
(* between; its file-system steps are separate actions because the process *)
(* may die after each of them.  A database is the set of writes in it and  *)
(* the capability row; the first write is the birth of the current life.   *)
(* The temporary file has a name of its own that no later run looks for:   *)
(* it is part of the process, not of the root.                             *)
(***************************************************************************)
EXTENDS Naturals

CONSTANTS
    Roots,        \* data directories
    Default,      \* the application data directory, which holds the config
    NoRoot,       \* a missing configuration; no root
    NoDatabase,   \* a root without a database file
    Writes,       \* identities of acknowledged writes
    Detachable,   \* roots on drives that may be unplugged
    MaxMoveFaults, \* how many steps fail
    MaxUnrestored, \* how often the configuration cannot be restored
    MaxEnds,      \* how often the process ends
    MaxToggles,   \* how often the user switches the capability
    MaxDetaches   \* how often a drive is unplugged

ASSUME RootAssumption == Default \in Roots /\ NoRoot \notin Roots
ASSUME DetachableAssumption == Detachable \subseteq Roots \ {Default}
ASSUME DataRootBounds ==
    {MaxMoveFaults, MaxUnrestored, MaxEnds, MaxToggles, MaxDetaches} \subseteq Nat

VARIABLES
    files,    \* root -> its digital-life.sqlite3, or NoDatabase
    conf,     \* active_data_root of storage-location.json, or NoRoot
    there,    \* the roots that are plugged in
    app,      \* the process: its step, StorageState, the view, the move
    acked,    \* the writes the user was told of
    moveBudget  \* what is left of the bounds

dataRootVars == <<files, conf, there, app, acked, moveBudget>>

Database == [writes : SUBSET Writes, on : BOOLEAN]

ASSUME NoDatabaseAssumption == NoDatabase \notin Database

Moving == {"backup", "activate", "config", "reopen", "restore", "clean"}

Down == [at |-> "down", root |-> NoRoot, view |-> NoRoot, target |-> NoRoot,
         snapshot |-> NoRoot, copy |-> NoDatabase]

DataRootInit ==
    /\ files = [r \in Roots |-> NoDatabase]
    /\ conf = NoRoot
    /\ there = Roots
    /\ app = Down
    /\ acked = {}
    /\ moveBudget = [faults |-> MaxMoveFaults, restores |-> MaxUnrestored,
                     crashes |-> MaxEnds, toggles |-> MaxToggles, detaches |-> MaxDetaches]

-----------------------------------------------------------------------------
(* Start: resolve the root, open the database, open the authority view. *)

IsFile(r) == r \in there /\ files[r] # NoDatabase

FallbackToDefault == IF IsFile(Default) THEN Default ELSE NoRoot

ResolveActiveRoot ==
    IF conf \in {NoRoot, Default} THEN Default
    ELSE IF IsFile(conf) THEN conf
    ELSE FallbackToDefault

Opened(r) == IF files[r] = NoDatabase THEN [writes |-> {}, on |-> FALSE] ELSE files[r]

OpenAuthorityView(r) == r

StartUp ==
    /\ app.at = "down"
    /\ ResolveActiveRoot # NoRoot
    /\ LET r == ResolveActiveRoot IN
         /\ files' = [files EXCEPT ![r] = Opened(r)]
         /\ app' = [Down EXCEPT !.at = "up", !.root = r, !.view = OpenAuthorityView(r)]
    /\ UNCHANGED <<conf, there, acked, moveBudget>>

-----------------------------------------------------------------------------
(* Ordinary use: every command takes the state lock. *)

Write(w) ==
    /\ app.at = "up" /\ app.root \in there
    /\ w \notin acked
    /\ files' = [files EXCEPT ![app.root].writes = @ \union {w}]
    /\ acked' = acked \union {w}
    /\ UNCHANGED <<conf, there, app, moveBudget>>

\* The capability row belongs to a life, so there is one to switch for.
Toggle ==
    /\ app.at = "up" /\ app.root \in there
    /\ files[app.root].writes # {}
    /\ moveBudget.toggles > 0
    /\ files' = [files EXCEPT ![app.root].on = ~@]
    /\ moveBudget' = [moveBudget EXCEPT !.toggles = @ - 1]
    /\ UNCHANGED <<conf, there, app, acked>>

-----------------------------------------------------------------------------
(* migrate_location. *)

MoveTo(step) == app' = [app EXCEPT !.at = step]

\* The lock is released; temporary file and snapshot go with the call.
Finished == [app EXCEPT !.at = "up", !.target = NoRoot, !.snapshot = NoRoot,
                        !.copy = NoDatabase]

Fails ==
    /\ moveBudget.faults > 0
    /\ moveBudget' = [moveBudget EXCEPT !.faults = @ - 1]

\* The step fails, either by itself or because its directory is gone.
FailsOrGone(needed) ==
    \/ Fails
    \/ ~(needed \subseteq there) /\ UNCHANGED moveBudget

\* final_database.exists()
TargetFree(t) == t \in there /\ files[t] = NoDatabase

\* validate_candidate, the target check, the reads of the source and
\* capture_config; what they refuse leaves everything as it was.
BeginMove(t) ==
    /\ app.at = "up" /\ app.root \in there
    /\ t # app.root
    /\ TargetFree(t)
    /\ files[app.root].writes # {}
    /\ app' = [app EXCEPT !.at = "backup", !.target = t, !.snapshot = conf]
    /\ UNCHANGED <<files, conf, there, acked, moveBudget>>

BackupAndVerify ==
    /\ app.at = "backup"
    /\ \/ /\ {app.root, app.target} \subseteq there
          /\ app' = [app EXCEPT !.at = "activate", !.copy = files[app.root]]
          /\ UNCHANGED moveBudget
       \/ FailsOrGone({app.root, app.target}) /\ app' = Finished
    /\ UNCHANGED <<files, conf, there, acked>>

ActivateTemporaryDatabase ==
    /\ app.at = "activate"
    /\ \/ /\ TargetFree(app.target)
          /\ files' = [files EXCEPT ![app.target] = app.copy]
          /\ MoveTo("config")
          /\ UNCHANGED moveBudget
       \/ /\ FailsOrGone({app.target})
          /\ app' = Finished
          /\ UNCHANGED files
    /\ UNCHANGED <<conf, there, acked>>

\* The file is replaced as a whole or stays as it was.
WriteActiveRoot ==
    /\ app.at = "config"
    /\ \/ conf' = app.target /\ MoveTo("reopen") /\ UNCHANGED moveBudget
       \/ Fails /\ MoveTo("clean") /\ UNCHANGED conf
    /\ UNCHANGED <<files, there, acked>>

\* Mutant: a failed reopen removes the target and leaves the configuration.
OpenAndVerifyNoRestore ==
    /\ app.at = "reopen"
    /\ \/ /\ IsFile(app.target)
          /\ app' = [Finished EXCEPT !.root = app.target]
          /\ UNCHANGED moveBudget
       \/ FailsOrGone({app.target}) /\ MoveTo("clean")
    /\ UNCHANGED <<files, conf, there, acked>>
\* The connection moves; the authority view does not.
OpenAndVerifyExisting ==
    /\ app.at = "reopen"
    /\ \/ /\ IsFile(app.target)
          /\ app' = [Finished EXCEPT !.root = app.target]
          /\ UNCHANGED moveBudget
       \/ FailsOrGone({app.target}) /\ MoveTo("restore")
    /\ UNCHANGED <<files, conf, there, acked>>

\* First half of rollback_after_activation; it ends the rollback on failure.
RestoreConfig ==
    /\ app.at = "restore"
    /\ \/ conf' = app.snapshot /\ MoveTo("clean") /\ UNCHANGED moveBudget
       \/ /\ moveBudget.restores > 0
          /\ moveBudget' = [moveBudget EXCEPT !.restores = @ - 1]
          /\ app' = Finished
          /\ UNCHANGED conf
    /\ UNCHANGED <<files, there, acked>>

\* A target that is gone does not exist, so nothing is removed.
RemoveDatabaseArtifacts ==
    /\ app.at = "clean"
    /\ app' = Finished
    /\ \/ /\ files' = [files EXCEPT ![app.target] = IF app.target \in there THEN NoDatabase ELSE @]
          /\ UNCHANGED moveBudget
       \/ Fails /\ UNCHANGED files
    /\ UNCHANGED <<conf, there, acked>>

Migrate ==
    \/ BackupAndVerify
    \/ ActivateTemporaryDatabase
    \/ WriteActiveRoot
    \/ OpenAndVerifyExisting
    \/ RestoreConfig
    \/ RemoveDatabaseArtifacts

-----------------------------------------------------------------------------
(* The environment: the process ends anywhere, drives come and go. *)

ProcessEnds ==
    /\ app.at # "down" /\ moveBudget.crashes > 0
    /\ app' = Down
    /\ moveBudget' = [moveBudget EXCEPT !.crashes = @ - 1]
    /\ UNCHANGED <<files, conf, there, acked>>

Detach(r) ==
    /\ r \in Detachable \intersect there /\ moveBudget.detaches > 0
    /\ there' = there \ {r}
    /\ moveBudget' = [moveBudget EXCEPT !.detaches = @ - 1]
    /\ UNCHANGED <<files, conf, app, acked>>

Attach(r) ==
    /\ r \in Roots \ there
    /\ there' = there \union {r}
    /\ UNCHANGED <<files, conf, app, acked, moveBudget>>

DataRootNext ==
    \/ StartUp
    \/ \E w \in Writes : Write(w)
    \/ Toggle
    \/ \E t \in Roots : BeginMove(t)
    \/ Migrate
    \/ ProcessEnds
    \/ \E r \in Roots : Detach(r) \/ Attach(r)

DataRootSpec == DataRootInit /\ [][DataRootNext]_dataRootVars

-----------------------------------------------------------------------------
(* Properties. *)

\* Types; a process that is up has a root and a view, and only a move under
\* way has a target and a temporary file.
DataRootTypeOK ==
    /\ files \in [Roots -> Database \union {NoDatabase}]
    /\ conf \in Roots \union {NoRoot}
    /\ there \in SUBSET Roots
    /\ acked \in SUBSET Writes
    /\ app.at \in Moving \union {"down", "up"}
    /\ app.at = "down" => app = Down
    /\ app.at # "down" => app.root \in Roots /\ app.view \in Roots
    /\ (app.at \in Moving) = (app.target \in Roots)
    /\ app.copy # NoDatabase => app.at \in Moving \ {"backup"}

\* Wherever the process dies in a move (migrate_location and its rollback),
\* the next start opens a database with every acknowledged write in it.  It
\* rests on the order of rename, configuration and reopen, and of
\* rollback_after_activation; the configuration being restored when the
\* reopening fails is the one step that must not fail, and no drive may have
\* been unplugged.
AckedSurvive ==
    moveBudget.restores = MaxUnrestored /\ moveBudget.detaches = MaxDetaches =>
        /\ ResolveActiveRoot # NoRoot
        /\ acked # {} => acked \subseteq Opened(ResolveActiveRoot).writes

\* Even when drives are unplugged and the application falls back to the
\* stale database that an earlier move retained in the default root, and is
\* used there, no later move or rollback erases the only copy of a write.
NothingErased ==
    \A w \in acked : \E r \in Roots : files[r] # NoDatabase /\ w \in files[r].writes

\* The rollback's own steps work: no fault is spent in them, and the drive of
\* the target is there.
RollbackWorks ==
    /\ app.target \in there
    /\ app.at \in {"restore", "clean"} => moveBudget' = moveBudget

\* A move that ends without having moved (migration_failure) leaves the
\* configuration as it found it and the target free for another try, as long
\* as the rollback itself works.
FailedIsUndone ==
    [][app.at \in Moving /\ app'.at = "up" /\ app'.root = app.root /\ RollbackWorks =>
         conf' = app.snapshot /\ files'[app.target] = NoDatabase]_dataRootVars

\* No write is lost to a move, a rollback or a fallback of the data root.
DataRootSafe == DataRootTypeOK /\ AckedSurvive /\ NothingErased
=============================================================================
