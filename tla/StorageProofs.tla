--------------------------- MODULE StorageProofs ---------------------------
(***************************************************************************)
(* The move of the data root for any roots, writes and bounds: no          *)
(* acknowledged write is lost, wherever a move fails or the process dies.  *)
(* Then the opening and upgrading of the database by any processes with    *)
(* any binaries: the database always is what its schema version promises.  *)
(* Then the ledger of life intents for any number of entities, events and  *)
(* callers: rows, events and answers agree, however requests are repeated  *)
(* after a lost answer and whatever is deleted in between.  Then the       *)
(* autonomy ticks for any number of callers, ticks and goals: callers that *)
(* evaluate at once agree, and keep the budget of the policy.              *)
(***************************************************************************)
EXTENDS DataRoot, StorageUpgrade, LifeIntent, Autonomy, FiniteSetTheorems,
        WellFoundedInduction, TLAPS

-----------------------------------------------------------------------------
(* The data root and the database *)

MoveBudget == [faults : Nat, restores : 0 .. MaxUnrestored, crashes : Nat, toggles : Nat,
               detaches : 0 .. MaxDetaches]

AppState == [at : Moving \union {"down", "up"}, root : Roots \union {NoRoot},
             view : Roots \union {NoRoot}, target : Roots \union {NoRoot},
             snapshot : Roots \union {NoRoot}, copy : Database \union {NoDatabase}]

\* Types; a process has a root with a database, and only a move has a target.
RootTyped ==
    /\ files \in [Roots -> Database \union {NoDatabase}]
    /\ conf \in Roots \union {NoRoot} /\ there \in SUBSET Roots /\ acked \in SUBSET Writes
    /\ app \in AppState /\ moveBudget \in MoveBudget
    /\ app.at = "down" => app = Down
    /\ app.at # "down" => app.root \in Roots /\ app.view \in Roots /\ files[app.root] # NoDatabase
    /\ app.at \in Moving <=> app.target \in Roots
    /\ app.copy # NoDatabase => app.at \in Moving \ {"backup"}

\* The target is free until the copy of the root is activated there, and the
\* configuration names it exactly while the reopening and its undoing are at work.
MoveSound ==
    /\ app.at \in Moving => app.target # app.root
    /\ app.at \in {"backup", "activate"} => files[app.target] = NoDatabase
    /\ app.at = "activate" => app.copy = files[app.root]
    /\ app.at \in {"config", "reopen", "restore", "clean"} => files[app.target] = files[app.root]
    /\ app.at \in {"backup", "activate", "config", "clean"} => conf = app.snapshot
    /\ app.at \in {"reopen", "restore"} => conf = app.target

\* The root that a configuration names.
Home(c) == IF c \in {NoRoot, Default} THEN Default ELSE c

\* Every configuration was restored and no drive was unplugged.
Healthy == moveBudget.restores = MaxUnrestored /\ moveBudget.detaches = MaxDetaches

\* Then the process is where the configuration was before the move, the data is with it,
\* and the next start finds it.
HomeHasAll ==
    /\ there = Roots
    /\ conf \notin {NoRoot, Default} => files[conf] # NoDatabase
    /\ app.at = "down" => acked \subseteq Opened(Home(conf)).writes
    /\ app.at # "down" =>
         /\ acked \subseteq files[app.root].writes
         /\ Home(IF app.at \in Moving THEN app.snapshot ELSE conf) = app.root

\* The inductive invariant.
RootInv ==
    /\ RootTyped /\ MoveSound /\ NothingErased
    /\ moveBudget.detaches = MaxDetaches => there = Roots
    /\ Healthy => HomeHasAll

-----------------------------------------------------------------------------
(* The steps *)

USE DEF Database

\* No file, no root, nothing acknowledged.
LEMMA InitRoot == ASSUME DataRootInit PROVE RootInv
<1>1. /\ files = [r \in Roots |-> NoDatabase] /\ conf = NoRoot /\ there = Roots /\ app = Down
      /\ acked = {}
      /\ moveBudget = [faults |-> MaxMoveFaults, restores |-> MaxUnrestored,
                       crashes |-> MaxEnds, toggles |-> MaxToggles, detaches |-> MaxDetaches]
  BY DEF DataRootInit
<1>2. moveBudget \in MoveBudget
  BY <1>1, DataRootBounds DEF MoveBudget
<1>3. app \in AppState /\ app.at = "down" /\ app.copy = NoDatabase /\ app.target = NoRoot
  BY <1>1 DEF AppState, Down
<1>4. RootTyped
  BY <1>1, <1>2, <1>3, RootAssumption DEF RootTyped, Moving
<1>5. MoveSound
  BY <1>3 DEF MoveSound, Moving
<1> QED
  BY <1>1, <1>3, <1>4, <1>5 DEF RootInv, NothingErased, HomeHasAll

\* A start opens what the configuration names, which holds everything.
LEMMA StartRoot == ASSUME RootInv, StartUp PROVE RootInv'
<1> DEFINE r == ResolveActiveRoot
<1>1. /\ app.at = "down" /\ r # NoRoot /\ files' = [files EXCEPT ![r] = Opened(r)]
      /\ app' = [Down EXCEPT !.at = "up", !.root = r, !.view = r]
      /\ UNCHANGED <<conf, there, acked, moveBudget>>
  BY DEF StartUp, OpenAuthorityView
<1>2. r \in Roots
  BY <1>1, RootAssumption DEF RootInv, RootTyped, ResolveActiveRoot, FallbackToDefault
<1>3. app' = [at |-> "up", root |-> r, view |-> r, target |-> NoRoot, snapshot |-> NoRoot,
              copy |-> NoDatabase]
  BY <1>1 DEF Down
<1>4. Opened(r) \in Database /\ Opened(r) # NoDatabase
  <2>1. [writes |-> {}, on |-> FALSE] \in Database
    OBVIOUS
  <2>2. files[r] \in Database \union {NoDatabase}
    BY <1>2 DEF RootInv, RootTyped
  <2> HIDE DEF r, Database
  <2> QED
    BY <2>1, <2>2, NoDatabaseAssumption DEF Opened
<1>5. files \in [Roots -> Database \union {NoDatabase}]
  BY DEF RootInv, RootTyped
<1>6. /\ files' \in [Roots -> Database \union {NoDatabase}]
      /\ files'[r] = Opened(r) /\ \A s \in Roots \ {r} : files'[s] = files[s]
  BY <1>1, <1>2, <1>4, <1>5
<1> HIDE DEF r
<1>7. RootTyped'
  BY <1>1, <1>2, <1>3, <1>4, <1>6, RootAssumption DEF RootInv, RootTyped, AppState, Moving
<1>8. MoveSound'
  BY <1>3 DEF MoveSound, Moving
<1>9. NothingErased'
  <2>1. \A s \in Roots : files[s] # NoDatabase => files'[s] = files[s]
    BY <1>6 DEF Opened
  <2> QED
    BY <1>1, <2>1 DEF RootInv, NothingErased
<1>10. Healthy' => HomeHasAll'
  <2>1. SUFFICES ASSUME Healthy PROVE HomeHasAll'
    BY <1>1 DEF Healthy
  <2>2. HomeHasAll
    BY <2>1 DEF RootInv
  <2>3. r = Home(conf)
    BY <2>2, RootAssumption DEF HomeHasAll, ResolveActiveRoot, Home, IsFile, r, RootInv, RootTyped
  <2>4. acked \subseteq files'[r].writes
    BY <1>1, <1>6, <2>2, <2>3 DEF HomeHasAll
  <2>5. conf \notin {NoRoot, Default} => files'[conf] # NoDatabase
    BY <1>4, <1>6, <2>2 DEF HomeHasAll, RootInv, RootTyped
  <2> QED
    BY <1>1, <1>3, <2>2, <2>3, <2>4, <2>5 DEF HomeHasAll, Moving, Home
<1> QED
  BY <1>1, <1>7, <1>8, <1>9, <1>10 DEF RootInv

\* A write is in the root of the process, and the switch keeps the writes.
LEMMA UseRoot ==
  ASSUME RootInv, (\E w \in Writes : Write(w)) \/ Toggle
  PROVE  RootInv'
<1> DEFINE r == app.root
<1>1. PICK d \in Database : /\ app.at = "up" /\ files' = [files EXCEPT ![r] = d]
                            /\ files[r].writes \subseteq d.writes
                            /\ acked' \subseteq acked \union d.writes
                            /\ acked \subseteq acked' /\ acked' \subseteq Writes
  <2>1. files[r] \in Database
    BY DEF RootInv, RootTyped, Write, Toggle
  <2>2. CASE Toggle
    BY <2>1, <2>2 DEF Toggle, RootInv, RootTyped
  <2>3. ASSUME NEW w \in Writes, Write(w)
        PROVE  \E d \in Database : /\ app.at = "up" /\ files' = [files EXCEPT ![r] = d]
                            /\ files[r].writes \subseteq d.writes
                            /\ acked' \subseteq acked \union d.writes
                            /\ acked \subseteq acked' /\ acked' \subseteq Writes
    <3> DEFINE d == [files[r] EXCEPT !.writes = @ \union {w}]
    <3>1. d \in Database /\ d.writes = files[r].writes \union {w}
      BY <2>1
    <3>2. files' = [files EXCEPT ![r] = d]
      BY <2>3 DEF Write
    <3> QED
      BY <2>3, <3>1, <3>2 DEF Write, RootInv, RootTyped
  <2> QED
    BY <2>2, <2>3
<1>2. /\ UNCHANGED <<conf, there, app>>
  BY DEF Write, Toggle
<1>3. /\ files \in [Roots -> Database \union {NoDatabase}] /\ r \in Roots
      /\ moveBudget \in MoveBudget
  BY <1>1 DEF RootInv, RootTyped
<1>4. d # NoDatabase
  BY NoDatabaseAssumption
<1>5. /\ files' \in [Roots -> Database \union {NoDatabase}]
      /\ files'[r] = d /\ \A s \in Roots \ {r} : files'[s] = files[s]
  BY <1>1, <1>3
<1>6. /\ moveBudget' \in MoveBudget /\ moveBudget'.restores = moveBudget.restores
      /\ moveBudget'.detaches = moveBudget.detaches
  <2>1. CASE UNCHANGED moveBudget
    BY <1>3, <2>1
  <2>2. CASE Toggle
    BY <1>3, <2>2 DEF MoveBudget, Toggle
  <2> QED
    BY <2>1, <2>2 DEF Write
<1>7. RootTyped'
  BY <1>1, <1>2, <1>4, <1>5, <1>6 DEF RootInv, RootTyped, AppState, Moving
<1>8. MoveSound'
  BY <1>1, <1>2 DEF MoveSound, Moving
<1>9. NothingErased'
  <2>1. ASSUME NEW w \in acked' PROVE \E s \in Roots : files'[s] # NoDatabase /\ w \in files'[s].writes
    <3>1. CASE w \in d.writes
      BY <1>3, <1>4, <1>5, <3>1
    <3>2. CASE w \in acked
      <4>1. PICK s \in Roots : files[s] # NoDatabase /\ w \in files[s].writes
        BY <3>2 DEF RootInv, NothingErased
      <4> QED
        BY <1>1, <1>4, <1>5, <4>1
    <3> QED
      BY <1>1, <3>1, <3>2
  <2> QED
    BY <2>1 DEF NothingErased
<1>10. Healthy' => HomeHasAll'
  BY <1>1, <1>2, <1>4, <1>5, <1>6 DEF RootInv, RootTyped, Healthy, HomeHasAll, Moving, Home
<1> QED
  BY <1>2, <1>6, <1>7, <1>8, <1>9, <1>10 DEF RootInv

\* The target is free, and the configuration is that of the root.
LEMMA BeginRoot ==
  ASSUME RootInv, NEW t \in Roots, BeginMove(t)
  PROVE  RootInv'
<1>1. /\ app.at = "up" /\ t # app.root /\ files[t] = NoDatabase
      /\ app' = [app EXCEPT !.at = "backup", !.target = t, !.snapshot = conf]
      /\ UNCHANGED <<files, conf, there, acked, moveBudget>>
  BY DEF BeginMove, TargetFree
<1>2. app \in AppState /\ app.copy = NoDatabase
  BY <1>1 DEF RootInv, RootTyped, Moving
<1>3. /\ app' \in AppState /\ app'.at = "backup" /\ app'.target = t /\ app'.snapshot = conf
      /\ app'.root = app.root /\ app'.view = app.view /\ app'.copy = app.copy
  BY <1>1, <1>2 DEF AppState, Moving, RootInv, RootTyped
<1>4. RootTyped'
  BY <1>1, <1>2, <1>3 DEF RootInv, RootTyped, Moving
<1>5. MoveSound'
  BY <1>1, <1>3 DEF MoveSound
<1>6. NothingErased'
  BY <1>1 DEF RootInv, NothingErased
<1>7. Healthy' => HomeHasAll'
  BY <1>1, <1>3 DEF RootInv, Healthy, HomeHasAll, Moving, Home
<1> QED
  BY <1>1, <1>4, <1>5, <1>6, <1>7 DEF RootInv

\* What a step that only spends faults leaves of the budget.
LEMMA FaultSpent ==
  ASSUME moveBudget \in MoveBudget, Fails \/ UNCHANGED moveBudget
  PROVE  /\ moveBudget' \in MoveBudget /\ moveBudget'.restores = moveBudget.restores
         /\ moveBudget'.detaches = moveBudget.detaches
<1>1. CASE UNCHANGED moveBudget
  BY <1>1
<1>2. CASE Fails
  BY <1>2 DEF Fails, MoveBudget
<1> QED
  BY <1>1, <1>2

\* A move that returns with everything as it found it.
LEMMA ReturnRoot ==
  ASSUME RootInv, app.at \in Moving, conf = app.snapshot, app' = Finished,
         Fails \/ UNCHANGED moveBudget, UNCHANGED <<files, conf, there, acked>>
  PROVE  RootInv'
<1>1. app \in AppState
  BY DEF RootInv, RootTyped
<1>2. /\ app' \in AppState /\ app'.at = "up" /\ app'.target = NoRoot /\ app'.root = app.root
      /\ app'.view = app.view /\ app'.copy = NoDatabase
  BY <1>1 DEF Finished, AppState
<1>3. /\ moveBudget' \in MoveBudget /\ moveBudget'.restores = moveBudget.restores
      /\ moveBudget'.detaches = moveBudget.detaches
  BY FaultSpent DEF RootInv, RootTyped
<1>4. RootTyped'
  BY <1>2, <1>3, RootAssumption DEF RootInv, RootTyped, Moving
<1>5. MoveSound'
  BY <1>2 DEF MoveSound, Moving
<1>6. NothingErased'
  BY DEF RootInv, NothingErased
<1>7. Healthy' => HomeHasAll'
  BY <1>2, <1>3 DEF RootInv, Healthy, HomeHasAll, Moving, Home
<1> QED
  BY <1>3, <1>4, <1>5, <1>6, <1>7 DEF RootInv

\* The copy has what the root has.
LEMMA BackupRoot == ASSUME RootInv, BackupAndVerify PROVE RootInv'
<1>1. app.at = "backup" /\ app \in AppState
  BY DEF BackupAndVerify, RootInv, RootTyped
<1>2. CASE app' = Finished
  BY <1>1, <1>2, ReturnRoot DEF BackupAndVerify, FailsOrGone, RootInv, MoveSound, Moving
<1>3. CASE app' = [app EXCEPT !.at = "activate", !.copy = files[app.root]] /\ UNCHANGED moveBudget
  <2>1. UNCHANGED <<files, conf, there, acked, moveBudget>>
    BY <1>3 DEF BackupAndVerify
  <2>2. /\ app' \in AppState /\ app'.at = "activate" /\ app'.copy = files[app.root]
        /\ app'.root = app.root /\ app'.view = app.view /\ app'.target = app.target
        /\ app'.snapshot = app.snapshot
    BY <1>1, <1>3 DEF AppState, Moving, RootInv, RootTyped
  <2>3. RootTyped'
    BY <1>1, <2>1, <2>2 DEF RootInv, RootTyped, Moving
  <2>4. MoveSound'
    BY <1>1, <2>1, <2>2 DEF RootInv, MoveSound, Moving
  <2>5. NothingErased'
    BY <2>1 DEF RootInv, NothingErased
  <2>6. Healthy' => HomeHasAll'
    BY <1>1, <2>1, <2>2 DEF RootInv, Healthy, HomeHasAll, Moving, Home
  <2> QED
    BY <2>1, <2>3, <2>4, <2>5, <2>6 DEF RootInv
<1> QED
  BY <1>2, <1>3 DEF BackupAndVerify

\* The copy becomes the database of a root that had none.
LEMMA ActivateRoot == ASSUME RootInv, ActivateTemporaryDatabase PROVE RootInv'
<1>1. app.at = "activate" /\ app \in AppState
  BY DEF ActivateTemporaryDatabase, RootInv, RootTyped
<1>2. CASE app' = Finished
  BY <1>1, <1>2, ReturnRoot
     DEF ActivateTemporaryDatabase, FailsOrGone, RootInv, MoveSound, Moving, MoveTo, Finished, AppState
<1>3. CASE /\ TargetFree(app.target) /\ files' = [files EXCEPT ![app.target] = app.copy]
           /\ MoveTo("config") /\ UNCHANGED moveBudget
  <2>1. UNCHANGED <<conf, there, acked, moveBudget>>
    BY <1>3 DEF ActivateTemporaryDatabase
  <2>2. /\ app' \in AppState /\ app'.at = "config" /\ app'.copy = app.copy
        /\ app'.root = app.root /\ app'.view = app.view /\ app'.target = app.target
        /\ app'.snapshot = app.snapshot
    BY <1>1, <1>3 DEF AppState, Moving, MoveTo
  <2>3. PICK t, r : t = app.target /\ r = app.root
    OBVIOUS
  <2>4. /\ t \in Roots /\ r \in Roots /\ t # r /\ files[t] = NoDatabase
        /\ app.copy = files[r] /\ files[r] # NoDatabase
    BY <1>1, <2>3 DEF RootInv, RootTyped, MoveSound, Moving
  <2>5. /\ files' \in [Roots -> Database \union {NoDatabase}] /\ files'[t] = files[r]
        /\ \A s \in Roots \ {t} : files'[s] = files[s]
    BY <1>3, <2>3, <2>4 DEF RootInv, RootTyped
  <2>6. RootTyped'
    BY <1>1, <2>1, <2>2, <2>3, <2>4, <2>5 DEF RootInv, RootTyped, Moving
  <2>7. MoveSound'
    BY <1>1, <2>1, <2>2, <2>3, <2>4, <2>5 DEF RootInv, MoveSound, Moving
  <2>8. NothingErased'
    BY <2>1, <2>4, <2>5 DEF RootInv, NothingErased
  <2>9. Healthy' => HomeHasAll'
    BY <1>1, <2>1, <2>2, <2>3, <2>4, <2>5 DEF RootInv, RootTyped, Healthy, HomeHasAll, Moving, Home
  <2> QED
    BY <2>1, <2>6, <2>7, <2>8, <2>9 DEF RootInv
<1> QED
  BY <1>2, <1>3 DEF ActivateTemporaryDatabase

\* The configuration is written, reopened or restored; the files stay.
LEMMA ConfigRoot ==
  ASSUME RootInv, WriteActiveRoot \/ OpenAndVerifyExisting \/ RestoreConfig
  PROVE  RootInv'
<1>1. /\ app \in AppState /\ app.at \in {"config", "reopen", "restore"} /\ app.at \in Moving
      /\ UNCHANGED <<files, there, acked>> /\ moveBudget \in MoveBudget
  BY DEF WriteActiveRoot, OpenAndVerifyExisting, RestoreConfig, RootInv, RootTyped, Moving
<1>2. /\ app.target \in Roots /\ app.root \in Roots /\ app.target # app.root
      /\ files[app.target] = files[app.root] /\ files[app.root] # NoDatabase
      /\ app.at = "config" => conf = app.snapshot
      /\ app.at \in {"reopen", "restore"} => conf = app.target
  BY <1>1 DEF RootInv, RootTyped, MoveSound, Moving
<1>3. NothingErased'
  BY <1>1 DEF RootInv, NothingErased
<1>4. CASE /\ app' = [app EXCEPT !.at = "reopen"] /\ app.at = "config"
           /\ conf' = app.target /\ UNCHANGED moveBudget
  <2>1. /\ app' \in AppState /\ app'.at = "reopen" /\ app'.copy = app.copy
        /\ app'.root = app.root /\ app'.view = app.view /\ app'.target = app.target
        /\ app'.snapshot = app.snapshot
    BY <1>1, <1>4 DEF AppState, Moving
  <2>2. RootTyped' /\ MoveSound'
    BY <1>1, <1>2, <1>4, <2>1 DEF RootInv, RootTyped, MoveSound, Moving
  <2>3. Healthy' => HomeHasAll'
    BY <1>1, <1>2, <1>4, <2>1 DEF RootInv, RootTyped, Healthy, HomeHasAll, Moving, Home
  <2> QED
    BY <1>1, <1>3, <1>4, <2>2, <2>3 DEF RootInv
<1>5. CASE /\ app' = [app EXCEPT !.at = "clean"] /\ conf' = app.snapshot
           /\ Fails \/ UNCHANGED moveBudget
  <2>1. /\ app' \in AppState /\ app'.at = "clean" /\ app'.copy = app.copy
        /\ app'.root = app.root /\ app'.view = app.view /\ app'.target = app.target
        /\ app'.snapshot = app.snapshot
    BY <1>1, <1>5 DEF AppState, Moving
  <2>2. /\ moveBudget' \in MoveBudget /\ moveBudget'.restores = moveBudget.restores
        /\ moveBudget'.detaches = moveBudget.detaches
    BY <1>1, <1>5, FaultSpent
  <2>3. RootTyped' /\ MoveSound'
    BY <1>1, <1>2, <1>5, <2>1, <2>2 DEF RootInv, RootTyped, MoveSound, Moving, AppState
  <2>4. Healthy' => HomeHasAll'
    BY <1>1, <1>2, <1>5, <2>1, <2>2 DEF RootInv, RootTyped, Healthy, HomeHasAll, Moving, Home
  <2> QED
    BY <1>1, <1>3, <1>5, <2>2, <2>3, <2>4 DEF RootInv
<1>6. CASE /\ app' = [Finished EXCEPT !.root = app.target] /\ app.at = "reopen"
           /\ UNCHANGED <<conf, moveBudget>>
  <2>1. /\ app' \in AppState /\ app'.at = "up" /\ app'.copy = NoDatabase
        /\ app'.root = app.target /\ app'.view = app.view /\ app'.target = NoRoot
    BY <1>1, <1>2, <1>6 DEF AppState, Finished
  <2>2. RootTyped' /\ MoveSound'
    BY <1>1, <1>2, <1>6, <2>1, RootAssumption DEF RootInv, RootTyped, MoveSound, Moving
  <2>3. Healthy' => HomeHasAll'
    BY <1>1, <1>2, <1>6, <2>1, RootAssumption
       DEF RootInv, RootTyped, Healthy, HomeHasAll, Moving, Home
  <2> QED
    BY <1>1, <1>3, <1>6, <2>2, <2>3 DEF RootInv
<1>7. CASE /\ app' = [app EXCEPT !.at = "restore"] /\ app.at = "reopen"
           /\ UNCHANGED conf
           /\ Fails \/ UNCHANGED moveBudget
  <2>1. /\ app' \in AppState /\ app'.at = "restore" /\ app'.copy = app.copy
        /\ app'.root = app.root /\ app'.view = app.view /\ app'.target = app.target
        /\ app'.snapshot = app.snapshot
    BY <1>1, <1>7 DEF AppState, Moving
  <2>2. /\ moveBudget' \in MoveBudget /\ moveBudget'.restores = moveBudget.restores
        /\ moveBudget'.detaches = moveBudget.detaches
    BY <1>1, <1>7, FaultSpent
  <2>3. RootTyped' /\ MoveSound'
    BY <1>1, <1>2, <1>7, <2>1, <2>2 DEF RootInv, RootTyped, MoveSound, Moving
  <2>4. Healthy' => HomeHasAll'
    BY <1>1, <1>2, <1>7, <2>1, <2>2 DEF RootInv, RootTyped, Healthy, HomeHasAll, Moving, Home
  <2> QED
    BY <1>1, <1>3, <1>7, <2>2, <2>3, <2>4 DEF RootInv
<1>8. CASE /\ app' = Finished /\ moveBudget.restores > 0 /\ UNCHANGED conf
           /\ moveBudget' = [moveBudget EXCEPT !.restores = @ - 1]
  <2>1. /\ app' \in AppState /\ app'.at = "up" /\ app'.copy = NoDatabase
        /\ app'.root = app.root /\ app'.view = app.view /\ app'.target = NoRoot
    BY <1>1, <1>8 DEF AppState, Finished
  <2>2. /\ moveBudget' \in MoveBudget /\ moveBudget'.restores # MaxUnrestored
        /\ moveBudget'.detaches = moveBudget.detaches
    BY <1>1, <1>8, DataRootBounds DEF MoveBudget
  <2>3. RootTyped' /\ MoveSound'
    BY <1>1, <1>2, <1>8, <2>1, <2>2, RootAssumption DEF RootInv, RootTyped, MoveSound, Moving
  <2> QED
    BY <1>1, <1>3, <1>8, <2>2, <2>3 DEF RootInv, Healthy
<1>9. CASE WriteActiveRoot
  BY <1>2, <1>4, <1>5, <1>9 DEF WriteActiveRoot, MoveTo
<1>10. CASE OpenAndVerifyExisting
  BY <1>6, <1>7, <1>10 DEF OpenAndVerifyExisting, MoveTo, FailsOrGone
<1>11. CASE RestoreConfig
  BY <1>5, <1>8, <1>11 DEF RestoreConfig, MoveTo
<1> QED
  BY <1>9, <1>10, <1>11

\* What is removed is a copy of what the root has.
LEMMA CleanRoot == ASSUME RootInv, RemoveDatabaseArtifacts PROVE RootInv'
<1>1. app.at = "clean" /\ app \in AppState /\ app.at \in Moving
  BY DEF RemoveDatabaseArtifacts, RootInv, RootTyped, Moving
<1>2. PICK t, r : t = app.target /\ r = app.root
  OBVIOUS
<1>3. /\ t \in Roots /\ r \in Roots /\ t # r /\ files[t] = files[r] /\ files[r] # NoDatabase
      /\ conf = app.snapshot
  BY <1>1, <1>2 DEF RootInv, RootTyped, MoveSound, Moving
<1>4. CASE UNCHANGED files
  BY <1>1, <1>3, <1>4, ReturnRoot DEF RemoveDatabaseArtifacts
<1>5. CASE files' = [files EXCEPT ![t] = NoDatabase] /\ UNCHANGED moveBudget
  <2>1. app' = Finished /\ UNCHANGED <<conf, there, acked, moveBudget>>
    BY <1>5 DEF RemoveDatabaseArtifacts
  <2>2. /\ app' \in AppState /\ app'.at = "up" /\ app'.target = NoRoot /\ app'.root = r
        /\ app'.view = app.view /\ app'.copy = NoDatabase
    BY <1>1, <1>2, <2>1 DEF Finished, AppState
  <2>3. /\ files' \in [Roots -> Database \union {NoDatabase}] /\ files'[t] = NoDatabase
        /\ \A s \in Roots \ {t} : files'[s] = files[s]
    BY <1>3, <1>5 DEF RootInv, RootTyped
  <2>4. RootTyped'
    BY <1>1, <1>2, <1>3, <2>1, <2>2, <2>3, RootAssumption DEF RootInv, RootTyped, Moving
  <2>5. MoveSound'
    BY <2>2 DEF MoveSound, Moving
  <2>6. NothingErased'
    <3>1. ASSUME NEW w \in acked PROVE \E s \in Roots : files'[s] # NoDatabase /\ w \in files'[s].writes
      <4>1. PICK s \in Roots : files[s] # NoDatabase /\ w \in files[s].writes
        BY DEF RootInv, NothingErased
      <4>2. CASE s = t
        BY <1>3, <2>3, <4>1, <4>2
      <4>3. CASE s # t
        BY <2>3, <4>1, <4>3
      <4> QED
        BY <4>2, <4>3
    <3> QED
      BY <2>1, <3>1 DEF NothingErased
  <2>7. Healthy' => HomeHasAll'
    BY <1>1, <1>2, <1>3, <2>1, <2>2, <2>3 DEF RootInv, RootTyped, Healthy, HomeHasAll, Moving, Home
  <2> QED
    BY <2>1, <2>4, <2>5, <2>6, <2>7 DEF RootInv
<1>6. \/ files' = [files EXCEPT ![t] = NoDatabase] /\ UNCHANGED moveBudget
      \/ UNCHANGED files
  BY <1>2, <1>3 DEF RemoveDatabaseArtifacts, RootInv, RootTyped
<1> QED
  BY <1>4, <1>5, <1>6

\* Wherever the process ends, what the configuration names has everything.
LEMMA WorldRoot ==
  ASSUME RootInv, ProcessEnds \/ \E r \in Roots : Detach(r) \/ Attach(r)
  PROVE  RootInv'
<1>1. UNCHANGED <<files, conf, acked>> /\ moveBudget \in MoveBudget
  BY DEF ProcessEnds, Detach, Attach, RootInv, RootTyped
<1>2. NothingErased'
  BY <1>1 DEF RootInv, NothingErased
<1>3. CASE ProcessEnds
  <2>1. /\ app' = Down /\ app.at # "down" /\ UNCHANGED there
        /\ moveBudget' = [moveBudget EXCEPT !.crashes = @ - 1] /\ moveBudget.crashes > 0
    BY <1>3 DEF ProcessEnds
  <2>2. /\ app' \in AppState /\ app'.at = "down" /\ app'.copy = NoDatabase /\ app'.target = NoRoot
    BY <2>1 DEF AppState, Down
  <2>3. /\ moveBudget' \in MoveBudget /\ moveBudget'.restores = moveBudget.restores
        /\ moveBudget'.detaches = moveBudget.detaches
    BY <1>1, <2>1 DEF MoveBudget
  <2>4. RootTyped'
    BY <1>1, <2>1, <2>2, <2>3, RootAssumption DEF RootInv, RootTyped, Moving
  <2>5. MoveSound'
    BY <2>2 DEF MoveSound, Moving
  <2>6. Healthy' => HomeHasAll'
    <3>1. SUFFICES ASSUME HomeHasAll PROVE HomeHasAll'
      BY <2>3 DEF RootInv, Healthy
    <3>2. acked \subseteq files[app.root].writes /\ files[app.root] # NoDatabase
      BY <2>1, <3>1 DEF HomeHasAll, RootInv, RootTyped
    <3>3. /\ Home(conf) = app.root \/ (Home(conf) = app.target /\ files[app.target] = files[app.root])
      BY <2>1, <3>1, RootAssumption DEF HomeHasAll, RootInv, RootTyped, MoveSound, Moving, Home, AppState
    <3>4. acked \subseteq Opened(Home(conf)).writes
      BY <3>2, <3>3 DEF Opened
    <3> QED
      BY <1>1, <2>1, <2>2, <3>1, <3>4 DEF HomeHasAll, Opened, Home
  <2> QED
    BY <1>2, <2>1, <2>3, <2>4, <2>5, <2>6 DEF RootInv
<1>4. ASSUME NEW r \in Roots, Detach(r)
      PROVE  RootInv'
  <2>1. /\ moveBudget' \in MoveBudget /\ moveBudget'.detaches # MaxDetaches
    BY <1>1, <1>4, DataRootBounds DEF MoveBudget, Detach
  <2>2. RootTyped' /\ MoveSound'
    BY <1>1, <1>4, <2>1 DEF Detach, RootInv, RootTyped, MoveSound
  <2> QED
    BY <1>2, <2>1, <2>2 DEF RootInv, Healthy
<1>5. ASSUME NEW r \in Roots, Attach(r)
      PROVE  RootInv'
  <2>1. UNCHANGED <<app, moveBudget>> /\ there' = there \union {r}
    BY <1>5 DEF Attach
  <2>2. RootTyped' /\ MoveSound'
    BY <1>1, <2>1 DEF RootInv, RootTyped, MoveSound
  <2>3. Healthy' => HomeHasAll'
    BY <1>1, <2>1 DEF RootInv, Healthy, HomeHasAll, Opened, Home
  <2> QED
    BY <1>2, <2>1, <2>2, <2>3 DEF RootInv
<1> QED
  BY <1>3, <1>4, <1>5

-----------------------------------------------------------------------------
(* The theorems *)

LEMMA RootStep == ASSUME RootInv, [DataRootNext]_dataRootVars PROVE RootInv'
<1>1. CASE UNCHANGED dataRootVars
  <2>1. UNCHANGED <<files, conf, there, app, acked, moveBudget>>
    BY <1>1 DEF dataRootVars
  <2> QED
    BY <2>1 DEF RootInv, RootTyped, MoveSound, NothingErased, Healthy, HomeHasAll, Opened, Home
<1> QED
  BY <1>1, StartRoot, UseRoot, BeginRoot, BackupRoot, ActivateRoot, ConfigRoot, CleanRoot, WorldRoot
     DEF DataRootNext, Migrate

\* StorageService::migrate_location and its rollback lose no acknowledged write: some root
\* always has it, and as long as no drive was unplugged and every configuration was
\* restored, the next start opens a root that has them all, wherever the process dies.
THEOREM NoWriteIsLost == DataRootSpec => []DataRootSafe
<1>1. RootInv => DataRootSafe
  <2> SUFFICES ASSUME RootInv PROVE DataRootSafe
    OBVIOUS
  <2>1. DataRootTypeOK
    BY DEF RootInv, RootTyped, DataRootTypeOK, AppState
  <2>2. AckedSurvive
    <3>1. SUFFICES ASSUME Healthy PROVE /\ ResolveActiveRoot # NoRoot
                                        /\ acked \subseteq Opened(ResolveActiveRoot).writes
      BY DEF AckedSurvive, Healthy
    <3>2. HomeHasAll
      BY <3>1 DEF RootInv
    <3>3. ResolveActiveRoot = Home(conf) /\ Home(conf) # NoRoot
      BY <3>2, RootAssumption
         DEF HomeHasAll, ResolveActiveRoot, Home, IsFile, RootInv, RootTyped
    <3>4. acked \subseteq Opened(Home(conf)).writes
      <4>1. CASE app.at = "down"
        BY <3>2, <4>1 DEF HomeHasAll
      <4>2. CASE app.at # "down"
        <5>1. acked \subseteq files[app.root].writes /\ files[app.root] # NoDatabase
          BY <3>2, <4>2 DEF HomeHasAll, RootInv, RootTyped
        <5>2. Home(conf) = app.root \/ (Home(conf) = app.target /\ files[app.target] = files[app.root])
          BY <3>2, <4>2, RootAssumption
             DEF HomeHasAll, RootInv, RootTyped, MoveSound, Moving, Home, AppState
        <5> QED
          BY <5>1, <5>2 DEF Opened
      <4> QED
        BY <4>1, <4>2
    <3> QED
      BY <3>3, <3>4
  <2> QED
    BY <2>1, <2>2 DEF RootInv, DataRootSafe
<1> QED
  BY <1>1, InitRoot, RootStep, PTL DEF DataRootSpec

\* A move that fails leaves the configuration as it was and the target free for another
\* try (migration_failure), if no step of its rollback fails.
THEOREM FailedMoveIsUndone == DataRootSpec => FailedIsUndone
<1> DEFINE Undone == app.at \in Moving /\ app'.at = "up" /\ app'.root = app.root /\ RollbackWorks =>
                       conf' = app.snapshot /\ files'[app.target] = NoDatabase
<1>1. ASSUME RootInv, DataRootNext, app.at \in Moving, app'.at = "up", app'.root = app.root,
             RollbackWorks
      PROVE  conf' = app.snapshot /\ files'[app.target] = NoDatabase
  <2>1. /\ app \in AppState /\ app.target \in Roots /\ app.target # app.root /\ moveBudget \in MoveBudget
        /\ files \in [Roots -> Database \union {NoDatabase}]
    BY <1>1 DEF RootInv, RootTyped, MoveSound
  <2>2. Migrate
    <3>1. app.at \notin {"down", "up"} /\ app' # app /\ app' # Down
      BY <1>1 DEF Moving, Down
    <3>2. ~StartUp /\ ~Toggle /\ ~ProcessEnds
      BY <3>1 DEF StartUp, Toggle, ProcessEnds
    <3>3. (\A w \in Writes : ~Write(w)) /\ \A r \in Roots : ~BeginMove(r) /\ ~Detach(r) /\ ~Attach(r)
      BY <3>1 DEF Write, BeginMove, Detach, Attach
    <3> QED
      BY <1>1, <3>2, <3>3 DEF DataRootNext
  <2>3. CASE BackupAndVerify \/ ActivateTemporaryDatabase
    BY <1>1, <2>1, <2>3 DEF BackupAndVerify, ActivateTemporaryDatabase, MoveTo, RootInv, MoveSound, AppState
  <2>4. CASE WriteActiveRoot \/ OpenAndVerifyExisting
    BY <1>1, <2>1, <2>4 DEF WriteActiveRoot, OpenAndVerifyExisting, MoveTo, Finished, AppState
  <2>5. CASE RestoreConfig
    BY <1>1, <2>1, <2>5 DEF RestoreConfig, RollbackWorks, MoveTo, MoveBudget, AppState
  <2>6. CASE RemoveDatabaseArtifacts
    BY <1>1, <2>1, <2>6 DEF RemoveDatabaseArtifacts, RollbackWorks, Fails, MoveBudget, RootInv, MoveSound
  <2> QED
    BY <2>2, <2>3, <2>4, <2>5, <2>6 DEF Migrate
<1>2. RootInv /\ [DataRootNext]_dataRootVars => [Undone]_dataRootVars
  BY <1>1
<1> QED
  BY <1>2, InitRoot, RootStep, PTL DEF DataRootSpec, FailedIsUndone

-----------------------------------------------------------------------------
(* Opening and upgrading *)

DatabaseRecord ==
    [ver : Versions, fences : SUBSET FenceVersions, lives : SUBSET Lives,
     states : [StateVersions -> SUBSET Lives], outbox : [OutboxMemories -> RowStates],
     res : SUBSET OutboxMemories]

\* A database that is what its schema version promises.
SoundDatabase(d) ==
    /\ d \in DatabaseRecord
    /\ d.fences = Manifest(d.ver)
    /\ d.ver >= 13 => \A m \in OutboxMemories : d.outbox[m] # "old"
    /\ \A s \in StateVersions : d.ver >= s => d.states[s] = d.lives
    /\ d.ver >= 16 => \A m \in OutboxMemories : d.outbox[m] \in {"unknown", "bare"} => m \in d.res

OpeningStates == {"off", "locked", "preflight", "begin", "final", "migrate", "verify", "open"}

\* Who holds the mutex and the write lock, and what a process knows that does.
OpeningSound ==
    /\ at \in [Procs -> OpeningStates] /\ known \in [Procs -> Versions]
    /\ mutex \in Procs \union {NoProc} /\ lock \in Procs \union {NoProc}
    /\ \A p \in Procs :
         /\ mutex = p <=> at[p] \notin {"off", "open"}
         /\ lock = p <=> at[p] \in {"final", "migrate"}
         /\ Legacy(p) => at[p] \in {"off", "open"}
         /\ at[p] \notin {"off", "locked", "open"} => known[p] <= MaxOf[p]
         /\ lock = p => p \notin beside
    /\ beside \subseteq Connected

\* After the final inspection only legacy binaries, which take no mutex, can open the
\* database; an open one of the others works on the schema it knows.
UpgradeAlone ==
    \A p \in Procs : at[p] = "migrate" =>
        beside = {} /\ \A q \in Procs : at[q] = "open" => Legacy(q)

\* The inductive invariant.
UpgradeInv == SoundDatabase(db) /\ OpeningSound /\ UpgradeAlone /\ OpenIsCurrent

-----------------------------------------------------------------------------
(* The chain of upgrades *)

\* Induction over the versions from base on.
LEMMA VersionInduction ==
  ASSUME NEW base \in Versions, NEW G, base \in G,
         \A n \in Versions : n > base /\ n - 1 \in G => n \in G
  PROVE  \A n \in Versions : n >= base => n \in G
BY SMTT(60) DEF Versions

\* The databases along the chain from the set first at version base up to version n.
IsChain(up, base, n, first) ==
    up = [v \in base..n |-> IF v = base THEN first ELSE UNION {StepTo(v, e) : e \in up[v - 1]}]

LEMMA ChainExists ==
  ASSUME NEW base \in Versions, NEW max \in Versions, max >= base, NEW first
  PROVE  \E up : IsChain(up, base, max, first)
<1> DEFINE Chain(up, n) == IsChain(up, base, n, first)
           G == {n \in Versions : \E up : Chain(up, n)}
<1>1. base \in G
  <2> DEFINE up == [v \in base..base |-> first]
  <2>1. up = [v \in base..base |->
                 IF v = base THEN first ELSE UNION {StepTo(v, e) : e \in up[v - 1]}]
    BY DEF Versions
  <2> HIDE DEF up
  <2> QED
    BY <2>1 DEF IsChain
<1>2. ASSUME NEW n \in Versions, n > base, n - 1 \in G PROVE n \in G
  <2>1. PICK old : Chain(old, n - 1)
    BY <1>2
  <2> DEFINE up == [v \in base..n |-> IF v = n THEN UNION {StepTo(n, e) : e \in old[n - 1]} ELSE old[v]]
  <2>2. ASSUME NEW v \in base..n
        PROVE  up[v] = IF v = base THEN first ELSE UNION {StepTo(v, e) : e \in up[v - 1]}
    <3>1. CASE v = n
      <4>1. up[v - 1] = old[n - 1] /\ v # base
        BY <1>2, <3>1 DEF Versions
      <4> QED
        BY <3>1, <4>1
    <3>2. CASE v # n
      <4>1. v \in base..(n - 1) /\ up[v] = old[v]
        <5>1. v \in base..(n - 1)
          BY <1>2, <3>2 DEF Versions
        <5> QED
          BY <3>2, <5>1
      <4>2. old[v] = IF v = base THEN first ELSE UNION {StepTo(v, e) : e \in old[v - 1]}
        BY <2>1, <4>1 DEF IsChain
      <4>3. v # base => up[v - 1] = old[v - 1]
        BY <1>2, <4>1 DEF Versions
      <4> HIDE DEF up
      <4> QED
        BY <4>1, <4>2, <4>3
    <3> QED
      BY <3>1, <3>2
  <2>3. up = [v \in base..n |-> up[v]]
    OBVIOUS
  <2> HIDE DEF up
  <2>4. Chain(up, n)
    BY <2>2, <2>3 DEF IsChain
  <2> QED
    BY <1>2, <2>4
<1> HIDE DEF G
<1>3. max \in G
  BY <1>1, <1>2, VersionInduction
<1> QED
  BY <1>3 DEF G

\* A version is recorded with the fences it brings.
LEMMA RecordedVersion ==
  ASSUME NEW v \in 13..30, NEW d, SoundDatabase(d), d.ver = v - 1
  PROVE  /\ RecordVersion(d, v) \in DatabaseRecord
         /\ RecordVersion(d, v).ver = v /\ RecordVersion(d, v).fences = Manifest(v)
         /\ RecordVersion(d, v).lives = d.lives /\ RecordVersion(d, v).states = d.states
         /\ RecordVersion(d, v).outbox = d.outbox /\ RecordVersion(d, v).res = d.res
<1>1. d \in DatabaseRecord /\ d.fences = Manifest(v - 1)
  BY DEF SoundDatabase
<1>2. Manifest(v - 1) \union ({v} \intersect FenceVersions) = Manifest(v)
  <2>1. FenceVersions \subseteq Nat
    BY DEF FenceVersions
  <2>2. \A f \in FenceVersions : f <= v <=> f <= v - 1 \/ f = v
    BY <2>1
  <2> QED
    BY <2>2 DEF Manifest
<1>3. Manifest(v) \in SUBSET FenceVersions
  BY DEF Manifest
<1>4. RecordVersion(d, v) = [d EXCEPT !.ver = v, !.fences = Manifest(v)]
  BY <1>1, <1>2 DEF RecordVersion
<1>5. v \in Versions
  BY DEF Versions
<1> HIDE DEF Manifest
<1> QED
  BY <1>1, <1>3, <1>4, <1>5 DEF DatabaseRecord

\* Most schemas bring nothing that existing data would have to be filled into.
LEMMA PlainLink ==
  ASSUME NEW v \in 13..30, v \notin {13, 16, 19, 20},
         NEW d, SoundDatabase(d), d.ver = v - 1, NEW r, r \subseteq OutboxMemories, d.res \subseteq r
  PROVE  /\ SoundDatabase([RecordVersion(d, v) EXCEPT !.res = r])
         /\ [RecordVersion(d, v) EXCEPT !.res = r].ver = v
<1> DEFINE e == [RecordVersion(d, v) EXCEPT !.res = r]
<1>1. /\ e \in DatabaseRecord /\ e.ver = v /\ e.fences = Manifest(v) /\ e.lives = d.lives
      /\ e.states = d.states /\ e.outbox = d.outbox /\ e.res = r
  BY RecordedVersion DEF DatabaseRecord
<1> HIDE DEF e
<1>2. \A s \in StateVersions : v >= s => d.ver >= s
  BY DEF StateVersions
<1>3. (v >= 13 => d.ver >= 13) /\ (v >= 16 => d.ver >= 16)
  OBVIOUS
<1>4. SoundDatabase(e) /\ e.ver = v
  BY <1>1, <1>2, <1>3 DEF SoundDatabase
<1> QED
  BY <1>4 DEF e

\* Every link of the chain leads from a sound database to a sound one.
LEMMA LinkSound ==
  ASSUME NEW v \in 13..30, NEW d, SoundDatabase(d), d.ver = v - 1, NEW e \in StepTo(v, d)
  PROVE  SoundDatabase(e) /\ e.ver = v
<1> DEFINE r == RecordVersion(d, v)
<1>1. /\ r \in DatabaseRecord /\ r.ver = v /\ r.fences = Manifest(v) /\ r.lives = d.lives
      /\ r.states = d.states /\ r.outbox = d.outbox /\ r.res = d.res
  BY RecordedVersion
<1>2. /\ d \in DatabaseRecord /\ d.lives \in SUBSET Lives /\ d.res \in SUBSET OutboxMemories
      /\ d.states \in [StateVersions -> SUBSET Lives] /\ d.outbox \in [OutboxMemories -> RowStates]
  BY DEF SoundDatabase, DatabaseRecord
<1>3. r = [r EXCEPT !.res = d.res]
  BY <1>1 DEF DatabaseRecord
<1> HIDE DEF r
<1>4. CASE v = 13
  <2> DEFINE box == [m \in OutboxMemories |-> IF r.outbox[m] = "old" THEN "isolated" ELSE r.outbox[m]]
  <2>1. e = [r EXCEPT !.outbox = box]
    BY <1>4 DEF StepTo, WriterFence, r
  <2>2. box \in [OutboxMemories -> RowStates] /\ \A m \in OutboxMemories : box[m] # "old"
    BY <1>1, <1>2 DEF RowStates
  <2> HIDE DEF box
  <2>3. e \in DatabaseRecord /\ e.ver = 13 /\ e.fences = Manifest(13) /\ e.outbox = box
    BY <1>1, <1>4, <2>1, <2>2 DEF DatabaseRecord
  <2> QED
    BY <1>4, <2>2, <2>3 DEF SoundDatabase, StateVersions
<1>5. CASE v = 15
  <2>1. e = [r EXCEPT !.res = @ \union {m \in OutboxMemories : d.outbox[m] = "unknown"}]
    BY <1>5 DEF StepTo, LateDeleteResolution, r
  <2>2. PICK res : res = d.res \union {m \in OutboxMemories : d.outbox[m] = "unknown"}
    OBVIOUS
  <2>3. e = [RecordVersion(d, v) EXCEPT !.res = res]
    BY <1>1, <2>1, <2>2 DEF r
  <2>4. res \subseteq OutboxMemories /\ d.res \subseteq res
    BY <1>2, <2>2
  <2> QED
    BY <1>5, <2>3, <2>4, PlainLink
<1>6. CASE v = 16
  <2>1. e = [r EXCEPT !.res = @ \union UnknownEvidence(d)]
    BY <1>6 DEF StepTo, LateDeleteGenerationAuthority, r
  <2>2. UnknownEvidence(d) \subseteq OutboxMemories
    BY DEF UnknownEvidence
  <2>3. /\ e \in DatabaseRecord /\ e.ver = 16 /\ e.fences = Manifest(16) /\ e.outbox = d.outbox
        /\ e.res = d.res \union UnknownEvidence(d)
    BY <1>1, <1>2, <1>6, <2>1, <2>2 DEF DatabaseRecord
  <2>4. \A m \in OutboxMemories : e.outbox[m] \in {"unknown", "bare"} => m \in e.res
    BY <2>3 DEF UnknownEvidence
  <2>5. \A m \in OutboxMemories : e.outbox[m] # "old"
    BY <1>6, <2>3 DEF SoundDatabase
  <2> QED
    BY <1>6, <2>3, <2>4, <2>5 DEF SoundDatabase, StateVersions
<1>7. CASE v \in {19, 20}
  <2>1. e = [r EXCEPT !.states[v] = d.lives]
    BY <1>7 DEF StepTo, EmotionAuthority, RelationshipAuthority, r
  <2>2. PICK states : states = [d.states EXCEPT ![v] = d.lives]
    OBVIOUS
  <2>3. /\ e \in DatabaseRecord /\ e.ver = v /\ e.fences = Manifest(v) /\ e.outbox = d.outbox
        /\ e.res = d.res /\ e.lives = d.lives /\ e.states = states
    BY <1>1, <1>2, <1>7, <2>1, <2>2 DEF DatabaseRecord, StateVersions
  <2>4. \A s \in StateVersions : v >= s => states[s] = d.lives
    <3>1. states[v] = d.lives
      BY <1>2, <1>7, <2>2 DEF StateVersions
    <3>2. \A s \in StateVersions : s # v /\ v >= s => states[s] = d.states[s] /\ d.ver >= s
      BY <1>2, <1>7, <2>2 DEF StateVersions
    <3> QED
      BY <3>1, <3>2 DEF SoundDatabase
  <2>5. d.ver >= 13 /\ d.ver >= 16
    BY <1>7
  <2> QED
    BY <2>3, <2>4, <2>5 DEF SoundDatabase
<1>8. CASE v \notin {13, 15, 16, 19, 20}
  <2>1. e = r
    BY <1>8 DEF StepTo, AttemptClaimIdentity, GenerationLifecycle, GenerationCatchupAttempt,
       ExperienceEpisode, LifeIntentAuthority, AutonomyAuthority, PerceptionAuthority,
       BodyPackageAuthority, Live2DCoreAuthority, ScreenPerceptionAuthority,
       ScreenVisionOutboundPolicy, VisionModelProfile, CapabilityAuthorization, r
  <2>2. e = [RecordVersion(d, v) EXCEPT !.res = d.res]
    BY <1>3, <2>1 DEF r
  <2> QED
    BY <1>2, <1>8, <2>2, PlainLink
<1> QED
  BY <1>4, <1>5, <1>6, <1>7, <1>8

\* The static migrations bring a database to the last version of the legacy binaries.
LEMMA StaticSound ==
  ASSUME NEW d, SoundDatabase(d), NEW read \in Versions, NEW e \in Static(d, read)
  PROVE  SoundDatabase(e) /\ e.ver = IF read <= LastStatic THEN LastStatic ELSE read
<1>1. d \in DatabaseRecord /\ d.ver = read /\ d.fences = Manifest(read)
  BY DEF SoundDatabase, Static
<1>2. CASE read <= LastStatic
  <2>1. e = [d EXCEPT !.ver = LastStatic]
    BY <1>1, <1>2 DEF Static
  <2>2. Manifest(read) = {} /\ Manifest(LastStatic) = {}
    BY <1>2 DEF Manifest, FenceVersions, LastStatic, Versions
  <2>3. e \in DatabaseRecord /\ e.ver = LastStatic /\ e.fences = Manifest(LastStatic)
    <3>1. LastStatic \in Versions
      BY DEF LastStatic, Versions
    <3>2. e \in DatabaseRecord /\ e.ver = LastStatic /\ e.fences = d.fences
      BY <1>1, <2>1, <3>1 DEF DatabaseRecord
    <3> QED
      BY <1>1, <2>2, <3>2
  <2> QED
    BY <1>2, <2>3 DEF SoundDatabase, LastStatic, StateVersions
<1>3. CASE ~(read <= LastStatic)
  <2>1. e = [d EXCEPT !.ver = d.ver]
    BY <1>1, <1>3 DEF Static
  <2>2. e = d
    BY <1>1, <2>1 DEF DatabaseRecord
  <2> QED
    BY <1>1, <1>3, <2>2
<1> QED
  BY <1>2, <1>3

\* What every link of the chain keeps holds at its end.
LEMMA UpgradedSound ==
  ASSUME NEW d, SoundDatabase(d), NEW read \in Versions, NEW max \in Versions,
         max >= LastStatic, max >= read, NEW e \in Upgraded(d, read, max)
  PROVE  SoundDatabase(e) /\ e.ver = max
<1> DEFINE base == IF read <= LastStatic THEN LastStatic ELSE read
           first == Static(d, read)
           chain == CHOOSE up : IsChain(up, base, max, first)
           G == {v \in Versions : v <= max => \A f \in chain[v] : SoundDatabase(f) /\ f.ver = v}
<1>1. e \in chain[max]
  BY DEF Upgraded, IsChain
<1>2. base \in Versions /\ max >= base /\ base >= 12
  BY DEF LastStatic, Versions
<1>3. \A f \in first : SoundDatabase(f) /\ f.ver = base
  BY StaticSound
<1> HIDE DEF base, first
<1>4. IsChain(chain, base, max, first)
  <2>1. \E up : IsChain(up, base, max, first)
    BY <1>2, ChainExists
  <2> QED
    BY <2>1
<1> HIDE DEF chain
<1>5. base \in G
  <2>1. chain[base] = first
    BY <1>2, <1>4 DEF IsChain, Versions
  <2> QED
    BY <1>2, <1>3, <2>1
<1>6. ASSUME NEW n \in Versions, n > base, n - 1 \in G PROVE n \in G
  <2>1. SUFFICES ASSUME n <= max, NEW f \in chain[n] PROVE SoundDatabase(f) /\ f.ver = n
    BY <1>6
  <2>2. n \in base..max /\ n # base /\ n - 1 <= max /\ n \in 13..30
    BY <1>2, <1>6, <2>1 DEF Versions
  <2>3. chain[n] = UNION {StepTo(n, g) : g \in chain[n - 1]}
    BY <1>4, <2>2 DEF IsChain
  <2>4. PICK g \in chain[n - 1] : f \in StepTo(n, g)
    BY <2>1, <2>3
  <2>5. SoundDatabase(g) /\ g.ver = n - 1
    BY <1>6, <2>2, <2>4
  <2> QED
    BY <2>2, <2>4, <2>5, LinkSound
<1> HIDE DEF G
<1>7. max \in G
  BY <1>2, <1>5, <1>6, VersionInduction
<1> QED
  BY <1>1, <1>7 DEF G, Versions

-----------------------------------------------------------------------------
(* The steps *)

\* The database is empty and nobody has opened it.
LEMMA InitUpgrade ==
  ASSUME UpgradeInit
  PROVE  UpgradeInv
<1>1. PICK v \in FirstVersions : db = Empty(v)
  BY DEF UpgradeInit
<1>2. v \in Versions /\ Manifest(v) \in SUBSET FenceVersions
  BY FirstAssumption DEF Manifest
<1>3. SoundDatabase(Empty(v))
  BY <1>2 DEF SoundDatabase, Empty, DatabaseRecord, RowStates
<1>4. OpeningSound
  BY ProcAssumption DEF UpgradeInit, OpeningSound, OpeningStates, Versions, Connected
<1>5. UpgradeAlone /\ OpenIsCurrent
  BY DEF UpgradeInit, UpgradeAlone, OpenIsCurrent
<1> QED
  BY <1>1, <1>3, <1>4, <1>5 DEF UpgradeInv

\* A process that ends gives back what it held and harms nobody.
LEMMA ReleaseKeeps ==
  ASSUME UpgradeInv, NEW p \in Procs, Release(p)
  PROVE  UpgradeInv'
<1>1. OpeningSound'
  BY ProcAssumption DEF UpgradeInv, OpeningSound, Release, OpeningStates, Connected
<1>2. UpgradeAlone' /\ OpenIsCurrent' /\ SoundDatabase(db)'
  BY DEF UpgradeInv, OpeningSound, UpgradeAlone, OpenIsCurrent, Release
<1> QED
  BY <1>1, <1>2 DEF UpgradeInv

\* Only a free mutex is taken, and only by a coordinated binary.
LEMMA AcquireKeeps ==
  ASSUME UpgradeInv, NEW p \in Procs, AcquireMutex(p) \/ Retry(p)
  PROVE  UpgradeInv'
<1>1. /\ at[p] = "off" /\ ~Legacy(p) /\ mutex = NoProc /\ mutex' = p
      /\ at' = [at EXCEPT ![p] = "locked"]
      /\ UNCHANGED <<db, known, lock, beside>>
  BY DEF AcquireMutex, Retry
<1>2. OpeningSound'
  BY <1>1, ProcAssumption DEF UpgradeInv, OpeningSound, OpeningStates, Connected
<1>3. UpgradeAlone' /\ OpenIsCurrent' /\ SoundDatabase(db)'
  BY <1>1 DEF UpgradeInv, OpeningSound, UpgradeAlone, OpenIsCurrent
<1> QED
  BY <1>2, <1>3 DEF UpgradeInv

\* The version is read, and only one the binary knows is opened.
LEMMA OpenKeeps ==
  ASSUME UpgradeInv, NEW p \in Procs, OpenBeforeWal(p)
  PROVE  UpgradeInv'
<1>1. db.ver \in Versions
  BY DEF UpgradeInv, SoundDatabase, DatabaseRecord
<1>2. OpeningSound'
  BY <1>1, ProcAssumption DEF UpgradeInv, OpeningSound, OpenBeforeWal, OpeningStates, Connected
<1>3. UpgradeAlone' /\ OpenIsCurrent' /\ SoundDatabase(db)'
  BY DEF UpgradeInv, OpeningSound, UpgradeAlone, OpenIsCurrent, OpenBeforeWal
<1> QED
  BY <1>2, <1>3 DEF UpgradeInv

\* The second inspection sees whoever has come since the write lock was taken.
LEMMA InspectKeeps ==
  ASSUME UpgradeInv, NEW p \in Procs, Preflight(p) \/ FinalInspection(p)
  PROVE  UpgradeInv'
<1>1. CASE Release(p)
  BY <1>1, ReleaseKeeps
<1>2. CASE ~Release(p)
  <2>1. PICK here, next : /\ <<here, next>> \in {<<"preflight", "begin">>, <<"final", "migrate">>}
                          /\ InspectOccupants(p, here, next)
    BY DEF Preflight, FinalInspection
  <2>2. /\ at[p] = here /\ Occupants(p) = {} /\ at' = [at EXCEPT ![p] = next]
        /\ UNCHANGED <<db, known, mutex, lock, beside, openBudget>>
    BY <1>2, <2>1 DEF InspectOccupants, FailOpening
  <2>3. (here = "preflight" /\ next = "begin") \/ (here = "final" /\ next = "migrate")
    BY <2>1
  <2>4. OpeningSound'
    BY <2>2, <2>3 DEF UpgradeInv, OpeningSound, OpeningStates, Connected
  <2>5. OpenIsCurrent' /\ SoundDatabase(db)'
    BY <2>2, <2>3 DEF UpgradeInv, OpeningSound, OpenIsCurrent
  <2>6. next = "migrate" => beside = {} /\ \A q \in Procs : at[q] # "open"
    <3>1. lock = p \/ next # "migrate"
      BY <2>2, <2>3 DEF UpgradeInv, OpeningSound
    <3>2. \A q \in Procs : at[q] = "open" => q \in Occupants(p)
      BY <2>2, <2>3 DEF Occupants, Connected
    <3>3. next = "migrate" => beside \subseteq Occupants(p)
      BY <3>1 DEF UpgradeInv, OpeningSound, Occupants, Connected
    <3> QED
      BY <2>2, <3>2, <3>3
  <2>7. UpgradeAlone'
    BY <2>2, <2>3, <2>6 DEF UpgradeInv, OpeningSound, UpgradeAlone
  <2> QED
    BY <2>4, <2>5, <2>7 DEF UpgradeInv
<1> QED
  BY <1>1, <1>2

\* The write lock is taken and the others are noted.
LEMMA BeginKeeps ==
  ASSUME UpgradeInv, NEW p \in Procs, BeginUpgrade(p)
  PROVE  UpgradeInv'
<1>1. OpeningSound'
  BY ProcAssumption DEF UpgradeInv, OpeningSound, BeginUpgrade, OpeningStates, Connected
<1>2. UpgradeAlone' /\ OpenIsCurrent' /\ SoundDatabase(db)'
  BY DEF UpgradeInv, OpeningSound, UpgradeAlone, OpenIsCurrent, BeginUpgrade
<1> QED
  BY <1>1, <1>2 DEF UpgradeInv

\* The chain ends at the version of the binary, and nobody is open who would need another.
LEMMA CommitKeeps ==
  ASSUME UpgradeInv, NEW p \in Procs, Commit(p)
  PROVE  UpgradeInv'
<1>1. CASE Release(p)
  BY <1>1, ReleaseKeeps
<1>2. CASE ~Release(p)
  <2>1. /\ at[p] = "migrate" /\ db' \in Upgraded(db, known[p], MaxOf[p])
        /\ lock' = NoProc /\ beside' = {} /\ at' = [at EXCEPT ![p] = "verify"]
        /\ UNCHANGED <<known, mutex, openBudget>>
    BY <1>2 DEF Commit, FailOpening
  <2>2. SoundDatabase(db')
    <3>1. /\ known[p] \in Versions /\ MaxOf[p] \in Versions
          /\ MaxOf[p] >= LastStatic /\ MaxOf[p] >= known[p]
      <4>1. known[p] \in Versions /\ known[p] <= MaxOf[p]
        BY <2>1 DEF UpgradeInv, OpeningSound
      <4>2. MaxOf[p] \in LastStatic..30
        BY MaxOfAssumption
      <4> QED
        BY <4>1, <4>2 DEF Versions, LastStatic
    <3>2. SoundDatabase(db)
      BY DEF UpgradeInv
    <3> QED
      BY <2>1, <3>1, <3>2, UpgradedSound
  <2>3. OpeningSound'
    BY <2>1, ProcAssumption DEF UpgradeInv, OpeningSound, OpeningStates, Connected
  <2>4. \A q \in Procs : at[q] = "open" => Legacy(q)
    BY <2>1 DEF UpgradeInv, UpgradeAlone
  <2>5. UpgradeAlone'
    BY <2>1 DEF UpgradeInv, OpeningSound, UpgradeAlone
  <2>6. OpenIsCurrent'
    <3>1. \A q \in Procs : at'[q] = "open" => at[q] = "open"
      BY <2>1 DEF UpgradeInv, OpeningSound
    <3> QED
      BY <2>4, <3>1 DEF OpenIsCurrent, Legacy
  <2> QED
    BY <2>2, <2>3, <2>5, <2>6 DEF UpgradeInv
<1> QED
  BY <1>1, <1>2

\* Published is only what the binary knows; the mutex ends with it.
LEMMA PublishKeeps ==
  ASSUME UpgradeInv, NEW p \in Procs, VerifyAndPublish(p)
  PROVE  UpgradeInv'
<1>1. CASE Release(p)
  BY <1>1, ReleaseKeeps
<1>2. CASE ~Release(p)
  <2>1. /\ at[p] = "verify" /\ db.ver = MaxOf[p] /\ mutex' = NoProc
        /\ at' = [at EXCEPT ![p] = "open"] /\ UNCHANGED <<db, known, lock, beside>>
    BY <1>2 DEF VerifyAndPublish, FailOpening
  <2>2. OpeningSound'
    BY <2>1, ProcAssumption DEF UpgradeInv, OpeningSound, OpeningStates, Connected
  <2>3. \A q \in Procs : at[q] # "migrate"
    BY <2>1 DEF UpgradeInv, OpeningSound
  <2>4. UpgradeAlone' /\ OpenIsCurrent' /\ SoundDatabase(db)'
    BY <2>1, <2>3 DEF UpgradeInv, OpeningSound, UpgradeAlone, OpenIsCurrent, SoundDatabase
  <2> QED
    BY <2>2, <2>4 DEF UpgradeInv
<1> QED
  BY <1>1, <1>2

\* A legacy binary changes only a database that no coordinated one works on.
LEMMA LegacyKeeps ==
  ASSUME UpgradeInv, NEW p \in Procs, LegacyOpen(p)
  PROVE  UpgradeInv'
<1>1. MaxOf[p] = 12 /\ Legacy(p) /\ db.ver <= 12
  BY MaxOfAssumption DEF LegacyOpen, Legacy, LastStatic
<1>2. db \in DatabaseRecord /\ db.ver \in Versions /\ db.fences = Manifest(db.ver)
  BY DEF UpgradeInv, SoundDatabase, DatabaseRecord
<1>3. Manifest(db.ver) = {} /\ Manifest(12) = {}
  BY <1>1, <1>2 DEF Manifest, FenceVersions, Versions
<1>4. db' \in DatabaseRecord /\ db'.ver = 12 /\ db'.fences = Manifest(12)
  <2>1. db' = [db EXCEPT !.ver = 12] /\ 12 \in Versions
    BY <1>1 DEF LegacyOpen, Versions
  <2> QED
    BY <1>2, <1>3, <2>1 DEF DatabaseRecord
<1>5. SoundDatabase(db')
  BY <1>4 DEF SoundDatabase, StateVersions
<1>6. OpeningSound'
  BY <1>1, ProcAssumption DEF UpgradeInv, OpeningSound, OpeningStates, Connected, LegacyOpen
<1>7. UpgradeAlone'
  BY <1>1 DEF UpgradeInv, OpeningSound, UpgradeAlone, LegacyOpen
<1>8. OpenIsCurrent'
  <2>1. \A q \in Procs : at[q] = "open" => Legacy(q)
    BY <1>1, <1>2, MaxOfAssumption DEF UpgradeInv, OpenIsCurrent, Legacy, LastStatic
  <2>2. \A q \in Procs : at'[q] = "open" => at[q] = "open" \/ q = p
    BY DEF UpgradeInv, OpeningSound, LegacyOpen
  <2> QED
    BY <1>1, <2>1, <2>2 DEF OpenIsCurrent, Legacy
<1> QED
  BY <1>5, <1>6, <1>7, <1>8 DEF UpgradeInv

\* A fence lets in nobody who would leave a row its schema version does not allow.
LEMMA UseKeeps ==
  ASSUME UpgradeInv, NEW p \in Procs, Use(p)
  PROVE  UpgradeInv'
<1>1. at[p] = "open" /\ UNCHANGED <<at, known, mutex, lock, beside>>
  BY DEF Use, Enqueue, DeleteUnknown, BornLife, Writing
<1>2. SoundDatabase(db) /\ db \in DatabaseRecord /\ db.fences = Manifest(db.ver) /\ db.ver \in Versions
  BY DEF UpgradeInv, SoundDatabase, DatabaseRecord
<1>3. ~Legacy(p) => db.ver = MaxOf[p] /\ db.ver > 12
  BY <1>1, MaxOfAssumption DEF UpgradeInv, OpenIsCurrent, Legacy, LastStatic
<1>4. \A f \in FenceVersions : FenceAdmits(p, f) /\ db.ver >= f => ~Legacy(p)
  BY <1>2 DEF FenceAdmits, Manifest
<1>5. ASSUME NEW m \in OutboxMemories, Enqueue(p, m)
      PROVE  SoundDatabase(db') /\ db'.ver = db.ver /\ db'.fences = db.fences
  <2>1. PICK form \in RowStates : form = IF Legacy(p) THEN "old" ELSE "live"
    BY DEF RowStates
  <2>2. db' = [db EXCEPT !.outbox[m] = form] /\ FenceAdmits(p, 13)
    BY <1>5, <2>1 DEF Enqueue
  <2>3. PICK box : box = [db.outbox EXCEPT ![m] = form]
    OBVIOUS
  <2>4. /\ db' \in DatabaseRecord /\ db'.outbox = box /\ db'.ver = db.ver /\ db'.fences = db.fences
        /\ db'.lives = db.lives /\ db'.states = db.states /\ db'.res = db.res
    BY <1>2, <2>2, <2>3 DEF DatabaseRecord
  <2>5. \A n \in OutboxMemories : box[n] = form \/ box[n] = db.outbox[n]
    BY <1>2, <2>3 DEF DatabaseRecord
  <2>6. db.ver >= 13 => form = "live"
    <3>1. 13 \in FenceVersions
      BY DEF FenceVersions
    <3> QED
      BY <1>4, <2>1, <2>2, <3>1
  <2>7. db.ver >= 16 => db.ver >= 13
    BY <1>2 DEF Versions
  <2> QED
    BY <1>2, <2>1, <2>4, <2>5, <2>6, <2>7 DEF SoundDatabase
<1>6. ASSUME NEW m \in OutboxMemories, DeleteUnknown(p, m)
      PROVE  SoundDatabase(db') /\ db'.ver = db.ver /\ db'.fences = db.fences
  <2>1. PICK form \in RowStates : form = IF MaxOf[p] < 14 THEN "bare" ELSE "unknown"
    BY DEF RowStates
  <2>2. PICK res : res = IF MaxOf[p] < 15 THEN db.res ELSE db.res \union {m}
    OBVIOUS
  <2>3. db' = [db EXCEPT !.outbox[m] = form, !.res = res] /\ FenceAdmits(p, 13)
    BY <1>2, <1>6, <2>1, <2>2 DEF DeleteUnknown, DatabaseRecord
  <2>4. PICK box : box = [db.outbox EXCEPT ![m] = form]
    OBVIOUS
  <2>5. /\ db' \in DatabaseRecord /\ db'.outbox = box /\ db'.ver = db.ver /\ db'.fences = db.fences
        /\ db'.lives = db.lives /\ db'.states = db.states /\ db'.res = res
    BY <1>2, <2>2, <2>3, <2>4 DEF DatabaseRecord
  <2>6. \A n \in OutboxMemories : (box[n] = form /\ n = m) \/ box[n] = db.outbox[n]
    BY <1>2, <2>4 DEF DatabaseRecord
  <2>7. form # "old"
    BY <2>1
  <2>8. db.ver >= 16 => m \in res
    <3>1. 13 \in FenceVersions
      BY DEF FenceVersions
    <3>2. db.ver >= 16 => ~Legacy(p)
      BY <1>2, <1>4, <2>3, <3>1 DEF Versions
    <3> QED
      BY <1>2, <1>3, <2>2, <3>2 DEF Versions
  <2>9. db.res \subseteq res
    BY <2>2
  <2> QED
    BY <1>2, <2>5, <2>6, <2>7, <2>8, <2>9 DEF SoundDatabase
<1>7. ASSUME NEW l \in Lives, BornLife(p, l)
      PROVE  SoundDatabase(db') /\ db'.ver = db.ver /\ db'.fences = db.fences
  <2>1. PICK lives, states : lives = db.lives \union {l} /\ states = Initialized(l)
    OBVIOUS
  <2>2. db' = [db EXCEPT !.lives = lives, !.states = states]
    BY <1>2, <1>7, <2>1 DEF BornLife, DatabaseRecord
  <2>3. states \in [StateVersions -> SUBSET Lives]
    BY <1>2, <2>1 DEF DatabaseRecord, Initialized
  <2>4. /\ db' \in DatabaseRecord /\ db'.outbox = db.outbox /\ db'.ver = db.ver
        /\ db'.fences = db.fences /\ db'.lives = lives /\ db'.states = states /\ db'.res = db.res
    BY <1>2, <2>1, <2>2, <2>3 DEF DatabaseRecord
  <2>5. \A s \in StateVersions : db.ver >= s => states[s] = lives
    BY <1>2, <2>1 DEF SoundDatabase, Initialized
  <2> QED
    BY <1>2, <2>4, <2>5 DEF SoundDatabase
<1>8. SoundDatabase(db') /\ db'.ver = db.ver /\ db'.fences = db.fences
  BY <1>5, <1>6, <1>7 DEF Use
<1>9. OpeningSound' /\ UpgradeAlone' /\ OpenIsCurrent'
  BY <1>1, <1>8 DEF UpgradeInv, OpeningSound, UpgradeAlone, OpenIsCurrent, Connected
<1> QED
  BY <1>8, <1>9 DEF UpgradeInv

-----------------------------------------------------------------------------
(* Theorems *)

\* Every step.
LEMMA UpgradeStep ==
  ASSUME UpgradeInv, [UpgradeNext]_upgradeVars
  PROVE  UpgradeInv'
<1>1. CASE UNCHANGED upgradeVars
  BY <1>1 DEF upgradeVars, UpgradeInv, OpeningSound, UpgradeAlone, OpenIsCurrent, Connected
<1>2. ASSUME NEW p \in Procs,
             \/ AcquireMutex(p) \/ Retry(p) \/ OpenStep(p) \/ LegacyOpen(p)
             \/ Close(p) \/ Fault(p) \/ Use(p)
      PROVE  UpgradeInv'
  <2>1. CASE AcquireMutex(p) \/ Retry(p)
    BY <2>1, AcquireKeeps
  <2>2. CASE OpenBeforeWal(p)
    BY <2>2, OpenKeeps
  <2>3. CASE TooNew(p) \/ Close(p) \/ Fault(p)
    BY <2>3, ReleaseKeeps DEF TooNew, FailOpening, Close, Fault
  <2>4. CASE Preflight(p) \/ FinalInspection(p)
    BY <2>4, InspectKeeps
  <2>5. CASE BeginUpgrade(p)
    BY <2>5, BeginKeeps
  <2>6. CASE Commit(p)
    BY <2>6, CommitKeeps
  <2>7. CASE VerifyAndPublish(p)
    BY <2>7, PublishKeeps
  <2>8. CASE LegacyOpen(p)
    BY <2>8, LegacyKeeps
  <2>9. CASE Use(p)
    BY <2>9, UseKeeps
  <2> QED
    BY <1>2, <2>1, <2>2, <2>3, <2>4, <2>5, <2>6, <2>7, <2>8, <2>9 DEF OpenStep
<1> QED
  BY <1>1, <1>2 DEF UpgradeNext

\* The inductive invariant.
THEOREM UpgradeInvHolds == UpgradeSpec => []UpgradeInv
<1>1. UpgradeInit => UpgradeInv
  BY InitUpgrade
<1>2. UpgradeInv /\ [UpgradeNext]_upgradeVars => UpgradeInv'
  BY UpgradeStep
<1> QED
  BY <1>1, <1>2, PTL DEF UpgradeSpec

\* Any number of processes with any mixture of binaries, which start, fail, end and write in any
\* order, leave the database at what its schema version promises: no row of a legacy binary waits
\* for delivery from schema 13 on, every life has its state rows from 19 and 20 on, every unknown
\* delete its resolution from 16 on; and an open coordinated process works on its own schema.
THEOREM DatabaseKeepsItsPromise == UpgradeSpec => []UpgradeSafe
<1>1. UpgradeInv => UpgradeSafe
  <2>1. UpgradeInv => UpgradeTypeOK
    BY ProcAssumption DEF UpgradeInv, SoundDatabase, DatabaseRecord, OpeningSound, OpeningStates, UpgradeTypeOK
  <2> QED
    BY <2>1 DEF UpgradeInv, SoundDatabase, UpgradeSafe, LegacyRowsIsolated, EveryLifeHasState, UnknownIsCovered
<1> QED
  BY <1>1, UpgradeInvHolds, PTL

\* When an upgrade commits, nobody has been connected since before the write lock was taken.
THEOREM NobodySinceBeginHolds == UpgradeSpec => NobodySinceBegin
<1>1. UpgradeInv => \A p \in Procs : at[p] = "migrate" => beside = {}
  BY DEF UpgradeInv, UpgradeAlone
<1>2. UpgradeInv /\ [UpgradeNext]_upgradeVars =>
        [\A p \in Procs : at[p] = "migrate" /\ db'.ver # db.ver => beside = {}]_upgradeVars
  BY <1>1
<1> QED
  BY <1>2, UpgradeInvHolds, PTL DEF UpgradeSpec, NobodySinceBegin

-----------------------------------------------------------------------------
(* The ledger of life intents *)

EntityRow == [parent : Entities \cup {NoEntity}, content : Details \cup {NoEntity},
              status : AnyStatus, revision : Nat]
EventRow == [entity : Entities \cup {NoEntity}, from : AnyStatus, to : AnyStatus, expected : Nat]
Request == [event : Events, entity : Entities, to : AnyStatus, expected : Nat]

\* A row has a status of its kind, the first one as long as nothing was applied to it.
RowsTyped ==
  /\ row \in [Entities -> EntityRow]
  /\ \A x \in Entities : Exists(x) =>
       /\ row[x].status \in Statuses[KindOf[x]]
       /\ row[x].revision >= 1
       /\ row[x].revision = 1 => row[x].status = FirstStatus[KindOf[x]]
       /\ x \in used
  /\ used \subseteq Entities

\* Callers ask for a transition that the kind of the entity has.
RequestsTyped ==
  /\ \A c \in Callers : asked[c] # NoRequest =>
       asked[c] \in Request /\ asked[c].to \in Targets(KindOf[asked[c].entity])
  /\ DOMAIN asked = Callers
  /\ losses \in 0 .. MaxLosses
  /\ applied \subseteq Request

\* The events of an entity can be counted.
LedgerIsFinite ==
  /\ event \in [Events -> EventRow]
  /\ \A x \in Entities : IsFiniteSet(EventsOf(x))

\* The event of q is in the ledger with the evidence of q.
Evident(q) ==
  /\ event[q.event].entity = q.entity /\ event[q.event].to = q.to
  /\ event[q.event].expected = q.expected

\* The ledger holds what was applied, as long as the entity exists, and only that.
LedgerIsApplied ==
  /\ \A e \in Events : event[e] # NoEvent => \E q \in applied : q.event = e /\ Evident(q)
  /\ \A q \in applied : q.entity \in used /\ (Exists(q.entity) => Evident(q))

\* The inductive invariant.
LedgerInv ==
  /\ RowsTyped /\ RequestsTyped /\ LedgerIsFinite /\ LedgerIsApplied
  /\ LedgerExplainsRow /\ AnswersAreTrue /\ NoOrphans

-----------------------------------------------------------------------------
(* The tables of kinds *)

\* Transitions lead between statuses of the kind, which the first one is.
LEMMA KindTables ==
  ASSUME NEW k \in Kinds
  PROVE  /\ FirstStatus[k] \in Statuses[k] /\ Statuses[k] \subseteq AnyStatus
         /\ \A s, t : <<s, t>> \in Allowed[k] => t \in Statuses[k]
         /\ Targets(k) \subseteq Statuses[k]
<1>1. k = "goal" \/ k = "plan" \/ k = "step" \/ k = "action"
  BY DEF Kinds
<1>2. FirstStatus[k] \in Statuses[k] /\ Statuses[k] \subseteq AnyStatus
  <2>1. FirstStatus[k] \in Statuses[k]
    BY <1>1 DEF FirstStatus, Statuses
  <2> QED
    BY <2>1 DEF AnyStatus
<1>3. ASSUME NEW s, NEW t, <<s, t>> \in Allowed[k]
      PROVE  t \in Statuses[k]
  <2>1. CASE k = "goal"
    BY <1>3, <2>1 DEF Statuses, Allowed
  <2>2. CASE k = "plan"
    BY <1>3, <2>2 DEF Statuses, Allowed
  <2>3. CASE k = "step"
    BY <1>3, <2>3 DEF Statuses, Allowed
  <2>4. CASE k = "action"
    BY <1>3, <2>4 DEF Statuses, Allowed
  <2> QED
    BY <1>1, <2>1, <2>2, <2>3, <2>4
<1>4. \A t \in Allowed[k] : t[2] \in Statuses[k]
  <2>1. CASE k = "goal"
    BY <2>1 DEF Allowed, Statuses
  <2>2. CASE k = "plan"
    BY <2>2 DEF Allowed, Statuses
  <2>3. CASE k = "step"
    BY <2>3 DEF Allowed, Statuses
  <2>4. CASE k = "action"
    BY <2>4 DEF Allowed, Statuses
  <2> QED
    BY <1>1, <2>1, <2>2, <2>3, <2>4
<1> QED
  BY <1>2, <1>3, <1>4 DEF Targets

\* Four generations are all there are.
LEMMA FourGenerations ==
  ASSUME NEW a \in Kinds \ {"goal"}, NEW b \in Kinds \ {"goal"},
         NEW c \in Kinds \ {"goal"}, NEW d \in Kinds \ {"goal"}
  PROVE  ~(ParentKind[b] = a /\ ParentKind[c] = b /\ ParentKind[d] = c)
BY DEF Kinds, ParentKind

-----------------------------------------------------------------------------
(* The operations *)

\* Nothing is there, and nothing is recorded.
LEMMA InitLedger == ASSUME LifeIntentInit PROVE LedgerInv
<1>1. /\ row = [x \in Entities |-> NoEntityRow] /\ event = [e \in Events |-> NoEvent]
      /\ asked = [c \in Callers |-> NoRequest] /\ used = {} /\ losses = 0
      /\ applied = {} /\ said = {}
  BY DEF LifeIntentInit
<1>2. \A x \in Entities : ~Exists(x) /\ EventsOf(x) = {}
  BY <1>1, LifeIntentAssumption DEF Exists, EventsOf, NoEvent
<1>3. RowsTyped
  BY <1>1, <1>2 DEF RowsTyped, EntityRow, NoEntityRow, AnyStatus
<1>4. RequestsTyped
  BY <1>1, LifeIntentAssumption DEF RequestsTyped
<1>5. LedgerIsFinite
  <2>1. NoEvent \in EventRow
    BY DEF NoEvent, EventRow, AnyStatus
  <2>2. event \in [Events -> EventRow]
    BY <1>1, <2>1
  <2> QED
    BY <1>2, <2>2, FS_EmptySet DEF LedgerIsFinite
<1>6. LedgerIsApplied /\ LedgerExplainsRow /\ AnswersAreTrue /\ NoOrphans
  BY <1>1, <1>2 DEF LedgerIsApplied, LedgerExplainsRow, AnswersAreTrue, NoOrphans
<1> QED
  BY <1>3, <1>4, <1>5, <1>6 DEF LedgerInv

\* A caller only makes up its mind.
LEMMA AskLedger ==
  ASSUME LedgerInv, NEW c \in Callers, NEW e \in Events, NEW x \in Entities,
         NEW to \in Targets(KindOf[x]), AskTransition(c, e, x, to)
  PROVE  LedgerInv'
<1> DEFINE q == [event |-> e, entity |-> x, to |-> to, expected |-> row[x].revision]
<1>1. /\ asked' = [asked EXCEPT ![c] = q]
      /\ UNCHANGED <<row, event, used, losses, applied, said>>
  BY DEF AskTransition
<1>2. RequestsTyped'
  <2>1. to \in AnyStatus
    BY KindTables, LifeIntentAssumption
  <2>2. row[x].revision \in Nat
    BY DEF LedgerInv, RowsTyped, EntityRow
  <2>3. q \in Request /\ q.to \in Targets(KindOf[q.entity])
    BY <2>1, <2>2 DEF Request
  <2> HIDE DEF q
  <2> QED
    BY <1>1, <2>3 DEF LedgerInv, RequestsTyped
<1>3. RowsTyped' /\ LedgerIsFinite' /\ AnswersAreTrue'
  BY <1>1 DEF LedgerInv, RowsTyped, LedgerIsFinite, AnswersAreTrue, Exists, EventsOf
<1>4. LedgerIsApplied'
  BY <1>1 DEF LedgerInv, LedgerIsApplied, Exists, Evident
<1>5. LedgerExplainsRow'
  BY <1>1 DEF LedgerInv, LedgerExplainsRow, Exists, EventsOf
<1>6. NoOrphans'
  BY <1>1 DEF LedgerInv, NoOrphans, Exists, ParentOk
<1> QED
  BY <1>2, <1>3, <1>4, <1>5, <1>6 DEF LedgerInv

\* A new entity has no history: no event speaks of an identity that is not there,
\* and no request was ever applied to one that was not used before.
LEMMA CreateLedger ==
  ASSUME LedgerInv, ~Reused, NEW x \in Entities, NEW d \in Details,
         NEW p \in Entities \cup {NoEntity}, Create(x, p, d)
  PROVE  LedgerInv'
<1> DEFINE r == [parent |-> p, content |-> d, status |-> FirstStatus[KindOf[x]], revision |-> 1]
<1>1. /\ ~Exists(x) /\ x \notin used /\ ParentOk(x, p)
      /\ row' = [row EXCEPT ![x] = r] /\ used' = used \cup {x}
      /\ UNCHANGED <<event, asked, losses, applied, said>>
  BY DEF Create
<1>2. KindOf[x] \in Kinds
  BY LifeIntentAssumption
<1>3. r \in EntityRow /\ r.status \in Statuses[KindOf[x]] /\ r # NoEntityRow /\ r.revision = 1
  BY <1>2, KindTables DEF EntityRow, NoEntityRow
<1>4. row \in [Entities -> EntityRow] /\ row' \in [Entities -> EntityRow]
  BY <1>1, <1>3 DEF LedgerInv, RowsTyped
<1>5. row'[x] = r /\ \A y \in Entities \ {x} : row'[y] = row[y]
  BY <1>1, <1>4
<1>6. Exists(x)' /\ \A y \in Entities \ {x} : Exists(y)' <=> Exists(y)
  BY <1>3, <1>5 DEF Exists
<1>7. RowsTyped'
  BY <1>1, <1>3, <1>4, <1>5, <1>6 DEF LedgerInv, RowsTyped
<1>8. \A y \in Entities : EventsOf(y)' = EventsOf(y)
  BY <1>1 DEF EventsOf
<1>9. EventsOf(x) = {}
  BY <1>1, LifeIntentAssumption DEF LedgerInv, NoOrphans, EventsOf, NoEvent
<1>10. RequestsTyped' /\ LedgerIsFinite' /\ AnswersAreTrue'
  BY <1>1, <1>8 DEF LedgerInv, RequestsTyped, LedgerIsFinite, AnswersAreTrue
<1>11. LedgerIsApplied'
  BY <1>1, <1>6 DEF LedgerInv, LedgerIsApplied, RequestsTyped, Request, Evident
<1>12. LedgerExplainsRow'
  <2>1. \A y \in Entities \ {x} : row'[y] = row[y] /\ (Exists(y)' => Exists(y))
    BY <1>5, <1>6
  <2>2. Cardinality(EventsOf(x)') = row'[x].revision - 1 /\ 1 .. row'[x].revision - 1 = {}
    BY <1>3, <1>5, <1>8, <1>9, FS_EmptySet
  <2> QED
    BY <1>1, <1>8, <2>1, <2>2 DEF LedgerInv, LedgerExplainsRow
<1>13. NoOrphans'
  <2>1. ASSUME NEW y \in Entities, Exists(y)' PROVE ParentOk(y, row[y].parent)'
    <3>1. CASE y = x
      BY <1>1, <1>3, <1>5, <1>6, <3>1 DEF ParentOk, Exists
    <3>2. CASE y # x
      BY <1>5, <1>6, <2>1, <3>2 DEF LedgerInv, NoOrphans, ParentOk, Exists
    <3> QED
      BY <3>1, <3>2
  <2>2. (\A e \in Events : event[e] # NoEvent => Exists(event[e].entity))'
    BY <1>1, <1>6 DEF LedgerInv, NoOrphans, Exists
  <2>3. (\A y \in Entities : Exists(y) => ParentOk(y, row[y].parent))'
    BY <2>1
  <2> QED
    BY <2>2, <2>3 DEF NoOrphans
<1> QED
  BY <1>7, <1>10, <1>11, <1>12, <1>13 DEF LedgerInv

\* An event in the ledger is that of the one request it agrees with.
LEMMA EvidenceIsApplied ==
  ASSUME LedgerInv, NEW q \in Request
  PROVE  /\ Recorded(q) /\ Evident(q) => q \in applied
         /\ q \in applied /\ Exists(q.entity) => Recorded(q) /\ Evident(q)
<1>1. ASSUME Recorded(q), Evident(q) PROVE q \in applied
  <2>1. q.event \in Events
    BY DEF Request
  <2>2. PICK r \in applied : r.event = q.event /\ Evident(r)
    BY <1>1, <2>1 DEF LedgerInv, LedgerIsApplied, Recorded
  <2>3. r.entity = q.entity /\ r.to = q.to /\ r.expected = q.expected
    BY <1>1, <2>2 DEF Evident
  <2>4. r \in Request
    BY DEF LedgerInv, RequestsTyped
  <2>5. r = q
    BY <2>2, <2>3, <2>4 DEF Request
  <2> QED
    BY <2>5
<1>2. ASSUME q \in applied, Exists(q.entity) PROVE Recorded(q) /\ Evident(q)
  <2>1. Evident(q)
    BY <1>2 DEF LedgerInv, LedgerIsApplied
  <2>2. q.entity # NoEntity
    BY LifeIntentAssumption DEF Request
  <2> QED
    BY <2>1, <2>2 DEF Evident, Recorded, NoEvent
<1> QED
  BY <1>1, <1>2

\* A request that is refused changes nothing, and the answer is true.
LEMMA RefusedLedger ==
  ASSUME LedgerInv, NEW c \in Callers, asked[c] # NoRequest, Refused(asked[c]),
         UNCHANGED <<row, event, applied, used>>, Answered(c)
  PROVE  LedgerInv'
<1> DEFINE q == asked[c]
<1>1. q \in Request
  BY DEF LedgerInv, RequestsTyped
<1>2. AnswersAreTrue'
  <2>1. Yes(q) => q \in applied
    BY <1>1, EvidenceIsApplied DEF Yes, Evident
  <2>2. ~Yes(q) /\ q \in applied => ~Exists(q.entity)
    BY <1>1, EvidenceIsApplied DEF Yes, Evident
  <2>3. UNCHANGED said
        \/ said' = said \cup {[yes |-> Yes(q), done |-> q \in applied, gone |-> ~Exists(q.entity)]}
    BY DEF Answered
  <2>4. ASSUME NEW a \in said' PROVE IF a.yes THEN a.done ELSE a.done => a.gone
    <3>1. CASE a \in said
      BY <3>1 DEF LedgerInv, AnswersAreTrue
    <3>2. CASE a = [yes |-> Yes(q), done |-> q \in applied, gone |-> ~Exists(q.entity)]
      <4>1. (a.yes <=> Yes(q)) /\ (a.done <=> q \in applied) /\ (a.gone <=> ~Exists(q.entity))
        BY <3>2, Zenon
      <4> QED
        BY <2>1, <2>2, <4>1, Zenon
    <3> QED
      BY <2>3, <3>1, <3>2
  <2> QED
    BY <2>4 DEF AnswersAreTrue
<1>3. RequestsTyped'
  <2>1. UNCHANGED losses \/ (losses < MaxLosses /\ losses' = losses + 1)
    BY DEF Answered
  <2>2. asked' = asked \/ asked' = [asked EXCEPT ![c] = NoRequest]
    BY DEF Answered
  <2>3. losses' \in 0 .. MaxLosses
    BY <2>1, LifeIntentAssumption DEF LedgerInv, RequestsTyped
  <2> QED
    BY <2>2, <2>3 DEF LedgerInv, RequestsTyped
<1>4. RowsTyped' /\ LedgerIsFinite'
  BY DEF LedgerInv, RowsTyped, LedgerIsFinite, Exists, EventsOf
<1>5. LedgerIsApplied'
  BY DEF LedgerInv, LedgerIsApplied, Exists, Evident
<1>6. LedgerExplainsRow'
  BY DEF LedgerInv, LedgerExplainsRow, Exists, EventsOf
<1>7. NoOrphans'
  BY DEF LedgerInv, NoOrphans, Exists, ParentOk
<1> QED
  BY <1>2, <1>3, <1>4, <1>5, <1>6, <1>7 DEF LedgerInv

\* A request that is applied adds the one event that explains the new status.
LEMMA AppliedLedger ==
  ASSUME LedgerInv, NEW c \in Callers, NEW q, q = asked[c], q # NoRequest, ~Refused(q),
         Transition(c)
  PROVE  LedgerInv'
<1> DEFINE x == q.entity
           n == q.expected
           added == [entity |-> x, from |-> row[x].status, to |-> q.to, expected |-> n]
<1>1. q \in Request /\ q.to \in Targets(KindOf[x])
  BY DEF LedgerInv, RequestsTyped
<1>2. x \in Entities /\ q.event \in Events /\ n \in Nat /\ q.to \in AnyStatus /\ KindOf[x] \in Kinds
  BY <1>1, LifeIntentAssumption DEF Request
<1>3. event[q.event] = NoEvent /\ Exists(x) /\ row[x].revision = n
  BY DEF Refused, Recorded
<1>4. /\ row' = [row EXCEPT ![x].status = q.to, ![x].revision = n + 1]
      /\ event' = [event EXCEPT ![q.event] = added]
      /\ applied' = applied \cup {q} /\ used' = used
  BY DEF Transition, Record
<1>5. Answered(c)
  BY DEF Transition
<1>6. row \in [Entities -> EntityRow] /\ event \in [Events -> EventRow]
  BY DEF LedgerInv, RowsTyped, LedgerIsFinite
<1>7. /\ row' \in [Entities -> EntityRow]
      /\ row'[x].status = q.to /\ row'[x].revision = n + 1
      /\ \A y \in Entities : row'[y].parent = row[y].parent
      /\ \A y \in Entities \ {x} : row'[y] = row[y]
  BY <1>2, <1>4, <1>6 DEF EntityRow
<1>8. \A y \in Entities : Exists(y)' <=> Exists(y)
  BY <1>2, <1>3, <1>7 DEF Exists, NoEntityRow
<1>9. added \in EventRow
  BY <1>2, <1>6 DEF EventRow, EntityRow
<1>10. /\ event' \in [Events -> EventRow] /\ event'[q.event] = added
       /\ \A e \in Events \ {q.event} : event'[e] = event[e]
  BY <1>2, <1>4, <1>6, <1>9
<1>11. /\ event'[q.event].entity = x /\ event'[q.event].from = row[x].status
       /\ event'[q.event].to = q.to /\ event'[q.event].expected = n
  BY <1>10
<1> HIDE DEF x, n, added
<1>12. RowsTyped'
  <2>1. q.to \in Statuses[KindOf[x]]
    BY <1>1, <1>2, KindTables
  <2> QED
    BY <1>2, <1>3, <1>4, <1>7, <1>8, <2>1 DEF LedgerInv, RowsTyped
<1>13. RequestsTyped'
  <2>1. UNCHANGED losses \/ (losses < MaxLosses /\ losses' = losses + 1)
    BY <1>5 DEF Answered
  <2>2. asked' = asked \/ asked' = [asked EXCEPT ![c] = NoRequest]
    BY <1>5 DEF Answered
  <2>3. losses' \in 0 .. MaxLosses
    BY <2>1, LifeIntentAssumption DEF LedgerInv, RequestsTyped
  <2> QED
    BY <1>1, <1>4, <2>2, <2>3 DEF LedgerInv, RequestsTyped
<1>14. AnswersAreTrue'
  <2>1. UNCHANGED said
        \/ said' = said \cup {[yes |-> Yes(q), done |-> q \in applied', gone |-> ~Exists(x)]}
    BY <1>5 DEF Answered, x
  <2>2. Yes(q) /\ q \in applied'
    BY <1>4 DEF Yes
  <2>3. ASSUME NEW a \in said' PROVE IF a.yes THEN a.done ELSE a.done => a.gone
    <3>1. CASE a \in said
      BY <3>1 DEF LedgerInv, AnswersAreTrue
    <3>2. CASE a = [yes |-> Yes(q), done |-> q \in applied', gone |-> ~Exists(x)]
      <4>1. (a.yes <=> Yes(q)) /\ (a.done <=> q \in applied')
        BY <3>2, Zenon
      <4> QED
        BY <2>2, <4>1, Zenon
    <3> QED
      BY <2>1, <3>1, <3>2
  <2> QED
    BY <2>3 DEF AnswersAreTrue
<1>15. /\ EventsOf(x)' = EventsOf(x) \cup {q.event} /\ q.event \notin EventsOf(x)
       /\ \A y \in Entities \ {x} : EventsOf(y)' = EventsOf(y)
  <2>1. \A y \in Entities : y # NoEntity
    BY LifeIntentAssumption
  <2>2. event[q.event].entity = NoEntity
    BY <1>3 DEF NoEvent
  <2> QED
    BY <1>2, <1>10, <1>11, <2>1, <2>2 DEF EventsOf
<1>16. LedgerIsFinite'
  <2>1. ASSUME NEW y \in Entities PROVE IsFiniteSet(EventsOf(y))'
    <3>1. IsFiniteSet(EventsOf(y)) /\ IsFiniteSet(EventsOf(y) \cup {q.event})
      BY FS_AddElement DEF LedgerInv, LedgerIsFinite
    <3> QED
      BY <1>15, <3>1
  <2>2. (\A y \in Entities : IsFiniteSet(EventsOf(y)))'
    BY <2>1
  <2> QED
    BY <1>10, <2>2 DEF LedgerIsFinite
<1>17. LedgerIsApplied'
  <2>1. Evident(q)'
    BY <1>11 DEF Evident, x, n
  <2>2. ASSUME NEW r \in applied, r.event # q.event PROVE Evident(r)' <=> Evident(r)
    <3>1. r.event \in Events
      BY DEF LedgerInv, RequestsTyped, Request
    <3> QED
      BY <1>10, <2>2, <3>1 DEF Evident
  <2>3. ASSUME NEW r \in applied, Exists(r.entity) PROVE r.event # q.event
    <3>1. r \in Request
      BY DEF LedgerInv, RequestsTyped
    <3> QED
      BY <1>3, <2>3, <3>1, EvidenceIsApplied DEF Recorded
  <2>4. ASSUME NEW e \in Events, event'[e] # NoEvent
        PROVE  \E r \in applied' : r.event = e /\ Evident(r)'
    <3>1. CASE e = q.event
      BY <1>4, <2>1, <3>1
    <3>2. CASE e # q.event
      <4>1. PICK r \in applied : r.event = e /\ Evident(r)
        BY <1>10, <2>4, <3>2 DEF LedgerInv, LedgerIsApplied
      <4> QED
        BY <1>4, <2>2, <3>2, <4>1
    <3> QED
      BY <3>1, <3>2
  <2>5. ASSUME NEW r \in applied' PROVE r.entity \in used' /\ (Exists(r.entity)' => Evident(r)')
    <3>1. CASE r = q
      BY <1>2, <1>3, <1>4, <2>1, <3>1 DEF LedgerInv, RowsTyped, x
    <3>2. CASE r \in applied
      <4>1. r.entity \in Entities /\ r.entity \in used /\ (Exists(r.entity) => Evident(r))
        BY <3>2 DEF LedgerInv, LedgerIsApplied, RequestsTyped, Request
      <4> QED
        BY <1>4, <1>8, <2>2, <2>3, <3>2, <4>1
    <3> QED
      BY <1>4, <3>1, <3>2
  <2>6. (\A e \in Events : event[e] # NoEvent => \E r \in applied : r.event = e /\ Evident(r))'
    BY <2>4
  <2>7. (\A r \in applied : r.entity \in used /\ (Exists(r.entity) => Evident(r)))'
    BY <2>5
  <2> QED
    BY <2>6, <2>7 DEF LedgerIsApplied
<1> DEFINE Explained(y, m) ==
             \E e \in EventsOf(y) :
               /\ event[e].expected = m
               /\ m = 1 => event[e].from = FirstStatus[KindOf[y]]
               /\ m > 1 => \E f \in EventsOf(y) : event[f].expected = m - 1 /\ event[f].to = event[e].from
               /\ m = row[y].revision - 1 => event[e].to = row[y].status
<1>18. LedgerExplainsRow'
  <2>1. ASSUME NEW y \in Entities \ {x}, Exists(y)'
        PROVE  /\ Cardinality(EventsOf(y)') = row'[y].revision - 1
               /\ \A m \in 1 .. row'[y].revision - 1 : Explained(y, m)'
    <3>1. row'[y] = row[y] /\ EventsOf(y)' = EventsOf(y) /\ Exists(y)
      BY <1>7, <1>8, <1>15, <2>1
    <3>2. \A e \in EventsOf(y) : event'[e] = event[e]
      BY <1>2, <1>10, <1>11, <1>15 DEF EventsOf
    <3>3. /\ Cardinality(EventsOf(y)) = row[y].revision - 1
          /\ \A m \in 1 .. row[y].revision - 1 : Explained(y, m)
      BY <3>1 DEF LedgerInv, LedgerExplainsRow
    <3> QED
      BY <3>1, <3>2, <3>3
  <2>2. /\ n >= 1 /\ Cardinality(EventsOf(x)) = n - 1
        /\ \A m \in 1 .. n - 1 : Explained(x, m)
        /\ n = 1 => row[x].status = FirstStatus[KindOf[x]]
    BY <1>2, <1>3 DEF LedgerInv, LedgerExplainsRow, RowsTyped
  <2>3. Cardinality(EventsOf(x)') = row'[x].revision - 1
    <3>1. Cardinality(EventsOf(x)') = Cardinality(EventsOf(x)) + 1
      BY <1>2, <1>15, FS_AddElement DEF LedgerInv, LedgerIsFinite
    <3> QED
      BY <1>2, <1>7, <2>2, <3>1
  <2>4. \A e \in EventsOf(x) : event'[e] = event[e] /\ e \in EventsOf(x)'
    BY <1>10, <1>15 DEF EventsOf
  <2>5. ASSUME NEW m \in 1 .. n PROVE Explained(x, m)'
    <3>1. CASE m < n
      <4>1. Explained(x, m)
        BY <1>2, <2>2, <3>1
      <4> QED
        BY <1>2, <1>7, <2>4, <3>1, <4>1
    <3>2. CASE m = n
      <4>1. q.event \in EventsOf(x)'
        BY <1>15
      <4>2. n > 1 => \E f \in EventsOf(x) : event[f].expected = n - 1 /\ event[f].to = row[x].status
        <5>1. SUFFICES ASSUME n > 1 PROVE Explained(x, n - 1)
          BY <1>2, <1>3
        <5> QED
          BY <1>2, <2>2, <5>1
      <4>3. n > 1 => \E f \in EventsOf(x)' : event'[f].expected = n - 1 /\ event'[f].to = row[x].status
        BY <2>4, <4>2
      <4> QED
        BY <1>7, <1>11, <2>2, <3>2, <4>1, <4>3
    <3> QED
      BY <1>2, <3>1, <3>2
  <2>6. row'[x].revision - 1 = n
    BY <1>2, <1>7
  <2>7. (\A y \in Entities : Exists(y) =>
           /\ Cardinality(EventsOf(y)) = row[y].revision - 1
           /\ \A m \in 1 .. row[y].revision - 1 : Explained(y, m))'
    BY <2>1, <2>3, <2>5, <2>6
  <2> QED
    BY <2>7 DEF LedgerExplainsRow
<1>19. NoOrphans'
  <2>1. ASSUME NEW y \in Entities, Exists(y)' PROVE ParentOk(y, row[y].parent)'
    <3>1. ParentOk(y, row[y].parent) /\ row'[y].parent = row[y].parent
      BY <1>7, <1>8, <2>1 DEF LedgerInv, NoOrphans
    <3>2. \A z \in Entities : row[z] # NoEntityRow => row'[z] # NoEntityRow
      BY <1>8 DEF Exists
    <3> QED
      BY <3>1, <3>2 DEF ParentOk, Exists
  <2>2. (\A e \in Events : event[e] # NoEvent => Exists(event[e].entity))'
    <3>1. ASSUME NEW e \in Events, event'[e] # NoEvent
          PROVE  event'[e].entity \in Entities /\ Exists(event'[e].entity)
      <4>1. CASE e = q.event
        BY <1>2, <1>3, <1>10, <1>11, <4>1
      <4>2. CASE e # q.event
        BY <1>10, <3>1, <4>2 DEF LedgerInv, NoOrphans, Exists
      <4> QED
        BY <4>1, <4>2
    <3>2. \A y \in Entities : row[y] # NoEntityRow => row'[y] # NoEntityRow
      BY <1>8 DEF Exists
    <3> QED
      BY <3>1, <3>2 DEF Exists
  <2>3. (\A y \in Entities : Exists(y) => ParentOk(y, row[y].parent))'
    BY <2>1
  <2> QED
    BY <2>2, <2>3 DEF NoOrphans
<1> QED
  BY <1>12, <1>13, <1>14, <1>16, <1>17, <1>18, <1>19 DEF LedgerInv

\* What hangs on a deleted entity is deleted with it.
LEMMA BelowClosed ==
  ASSUME LedgerInv, NEW x \in Entities, Exists(x)
  PROVE  /\ x \in Below(x) /\ Below(x) \subseteq Entities
         /\ \A y \in Entities : Exists(y) /\ row[y].parent \in Below(x) => y \in Below(x)
<1> DEFINE children(S) == S \cup {y \in Entities : Exists(y) /\ row[y].parent \in S}
           hangs(y, z) == Exists(y) /\ row[y].parent = z
<1>1. Below(x) = children(children(children({x})))
  BY DEF Below
<1>2. x \in Below(x) /\ Below(x) \subseteq Entities
  BY <1>1
<1>3. \A y, z \in Entities : hangs(y, z) =>
        /\ Exists(z) /\ KindOf[y] \in Kinds \ {"goal"} /\ KindOf[z] = ParentKind[KindOf[y]]
  <2>1. SUFFICES ASSUME NEW y \in Entities, NEW z \in Entities, hangs(y, z)
                 PROVE  /\ Exists(z) /\ KindOf[y] \in Kinds \ {"goal"}
                        /\ KindOf[z] = ParentKind[KindOf[y]]
    OBVIOUS
  <2>2. ParentOk(y, z) /\ z # NoEntity /\ KindOf[y] \in Kinds
    BY <2>1, LifeIntentAssumption DEF LedgerInv, NoOrphans
  <2> QED
    BY <2>2 DEF ParentOk
<1>4. ASSUME NEW y \in Entities, Exists(y), row[y].parent \in Below(x)
      PROVE  y \in Below(x)
  <2>1. SUFFICES ASSUME y \notin Below(x) PROVE FALSE
    OBVIOUS
  <2> DEFINE p == row[y].parent
  <2>2. p \in Entities /\ hangs(y, p)
    BY <1>2, <1>4
  <2>3. p \notin children(children({x}))
    BY <1>1, <1>4, <2>1
  <2>4. hangs(p, row[p].parent) /\ row[p].parent \in children(children({x}))
    BY <1>1, <1>4, <2>3
  <2> DEFINE g == row[p].parent
  <2>5. g \in Entities /\ g \notin children({x})
    BY <2>2, <2>3, <2>4
  <2>6. hangs(g, row[g].parent) /\ row[g].parent \in children({x})
    BY <2>4, <2>5
  <2> DEFINE h == row[g].parent
  <2>7. h \in Entities /\ h # x
    BY <2>5, <2>6
  <2>8. hangs(h, x)
    BY <2>6, <2>7
  <2> HIDE DEF hangs, p, g, h
  <2>9. /\ hangs(y, p) /\ hangs(p, g) /\ hangs(g, h) /\ hangs(h, x)
    BY <2>2, <2>4, <2>6, <2>8 DEF p, g, h
  <2>10. /\ KindOf[y] \in Kinds \ {"goal"} /\ KindOf[p] \in Kinds \ {"goal"}
         /\ KindOf[g] \in Kinds \ {"goal"} /\ KindOf[h] \in Kinds \ {"goal"}
         /\ ParentKind[KindOf[y]] = KindOf[p] /\ ParentKind[KindOf[p]] = KindOf[g]
         /\ ParentKind[KindOf[g]] = KindOf[h]
    BY <1>3, <2>2, <2>5, <2>7, <2>9
  <2> QED
    BY <2>10, FourGenerations
<1> QED
  BY <1>2, <1>4

\* Deletion takes the entities below with their events, and leaves the others theirs.
LEMMA DeleteLedger ==
  ASSUME LedgerInv, NEW x \in Entities, Delete(x)
  PROVE  LedgerInv'
<1>1. PICK gone : gone = Below(x)
  OBVIOUS
<1>2. /\ row' = [y \in Entities |-> IF y \in gone THEN NoEntityRow ELSE row[y]]
      /\ event' = [e \in Events |-> IF event[e].entity \in gone THEN NoEvent ELSE event[e]]
      /\ UNCHANGED <<asked, used, losses, applied, said>>
  BY <1>1 DEF Delete, Cascade
<1>3. gone \subseteq Entities /\ \A y \in Entities : Exists(y) /\ row[y].parent \in gone => y \in gone
  BY <1>1, BelowClosed DEF Delete
<1>4. row \in [Entities -> EntityRow] /\ event \in [Events -> EventRow]
  BY DEF LedgerInv, RowsTyped, LedgerIsFinite
<1>5. NoEntityRow \in EntityRow /\ NoEvent \in EventRow
  BY DEF NoEntityRow, EntityRow, NoEvent, EventRow, AnyStatus
<1>6. row' \in [Entities -> EntityRow] /\ event' \in [Events -> EventRow]
  BY <1>2, <1>4, <1>5
<1>7. \A y \in Entities : Exists(y)' <=> Exists(y) /\ y \notin gone
  BY <1>2 DEF Exists
<1>8. \A y \in Entities \ gone : row'[y] = row[y]
  BY <1>2
<1>9. NoEvent.entity = NoEntity /\ NoEntity \notin Entities
  BY LifeIntentAssumption DEF NoEvent
<1>10. \A y \in Entities \ gone : EventsOf(y)' = EventsOf(y)
  BY <1>2, <1>9 DEF EventsOf
<1>11. \A e \in Events : event'[e] # NoEvent => event'[e] = event[e] /\ event[e].entity \notin gone
  BY <1>2
<1>12. \A e \in Events : event[e].entity \notin gone => event'[e] = event[e]
  BY <1>2
<1>13. RowsTyped'
  BY <1>2, <1>6, <1>7, <1>8 DEF LedgerInv, RowsTyped
<1>14. RequestsTyped' /\ AnswersAreTrue'
  BY <1>2 DEF LedgerInv, RequestsTyped, AnswersAreTrue
<1>15. LedgerIsFinite'
  <2>1. ASSUME NEW y \in Entities PROVE IsFiniteSet(EventsOf(y))'
    <3>1. CASE y \in gone
      <4>1. EventsOf(y)' = {}
        BY <1>2, <1>9, <3>1 DEF EventsOf
      <4> QED
        BY <4>1, FS_EmptySet
    <3>2. CASE y \notin gone
      BY <1>10, <3>2 DEF LedgerInv, LedgerIsFinite
    <3> QED
      BY <3>1, <3>2
  <2> QED
    BY <1>6, <2>1 DEF LedgerIsFinite
<1>16. LedgerIsApplied'
  <2>1. ASSUME NEW e \in Events, event'[e] # NoEvent
        PROVE  \E q \in applied' : q.event = e /\ Evident(q)'
    <3>1. event'[e] = event[e] /\ event[e] # NoEvent
      BY <1>11, <2>1
    <3>2. PICK q \in applied : q.event = e /\ Evident(q)
      BY <3>1 DEF LedgerInv, LedgerIsApplied
    <3>3. Evident(q)'
      BY <3>1, <3>2 DEF Evident
    <3> QED
      BY <1>2, <3>2, <3>3
  <2>2. ASSUME NEW q \in applied, Exists(q.entity)' PROVE Evident(q)'
    <3>1. q.event \in Events /\ q.entity \in Entities
      BY DEF LedgerInv, RequestsTyped, Request
    <3>2. Evident(q) /\ q.entity \notin gone
      BY <1>7, <2>2, <3>1 DEF LedgerInv, LedgerIsApplied
    <3> QED
      BY <1>12, <3>1, <3>2 DEF Evident
  <2>3. (\A q \in applied : q.entity \in used /\ (Exists(q.entity) => Evident(q)))'
    BY <1>2, <2>2 DEF LedgerInv, LedgerIsApplied
  <2>4. (\A e \in Events : event[e] # NoEvent => \E q \in applied : q.event = e /\ Evident(q))'
    BY <2>1
  <2> QED
    BY <2>3, <2>4 DEF LedgerIsApplied
<1>17. LedgerExplainsRow'
  <2>1. \A y \in Entities : Exists(y)' =>
          /\ Exists(y) /\ row'[y] = row[y] /\ EventsOf(y)' = EventsOf(y)
          /\ \A e \in EventsOf(y) : event'[e] = event[e]
    BY <1>7, <1>8, <1>10, <1>12 DEF EventsOf
  <2> QED
    BY <2>1 DEF LedgerInv, LedgerExplainsRow
<1>18. NoOrphans'
  <2>1. ASSUME NEW y \in Entities, Exists(y)' PROVE ParentOk(y, row[y].parent)'
    <3>1. PICK p : p = row[y].parent
      OBVIOUS
    <3>2. ParentOk(y, p) /\ p \notin gone /\ row'[y].parent = p
      BY <1>3, <1>7, <1>8, <2>1, <3>1 DEF LedgerInv, NoOrphans
    <3>3. Exists(p) => Exists(p)'
      BY <1>7, <3>2 DEF Exists
    <3> QED
      BY <3>2, <3>3 DEF ParentOk
  <2>2. (\A e \in Events : event[e] # NoEvent => Exists(event[e].entity))'
    <3>1. ASSUME NEW e \in Events, event'[e] # NoEvent
          PROVE  /\ event'[e].entity \in Entities /\ Exists(event'[e].entity)
                 /\ event'[e].entity \notin gone
      BY <1>11, <3>1 DEF LedgerInv, NoOrphans, Exists
    <3>2. \A y \in Entities : row[y] # NoEntityRow /\ y \notin gone => row'[y] # NoEntityRow
      BY <1>8
    <3> QED
      BY <3>1, <3>2 DEF Exists
  <2>3. (\A y \in Entities : Exists(y) => ParentOk(y, row[y].parent))'
    BY <2>1
  <2> QED
    BY <2>2, <2>3 DEF NoOrphans
<1> QED
  BY <1>13, <1>14, <1>15, <1>16, <1>17, <1>18 DEF LedgerInv

-----------------------------------------------------------------------------
(* The theorems *)

\* Every step keeps rows, ledger, requests and answers in agreement.
LEMMA LedgerStep == ASSUME ~Reused, LedgerInv, [LifeIntentNext]_lifeIntentVars PROVE LedgerInv'
<1>1. ASSUME NEW c \in Callers, asked[c] # NoRequest, Transition(c)
      PROVE  LedgerInv'
  <2>1. CASE Refused(asked[c])
    BY <1>1, <2>1, RefusedLedger DEF Transition
  <2>2. CASE ~Refused(asked[c])
    BY <1>1, <2>2, AppliedLedger
  <2> QED
    BY <2>1, <2>2
<1>2. ASSUME NEW x \in Entities, NEW d \in Details, CreateGoal(x, d)
      PROVE  LedgerInv'
  BY <1>2, CreateLedger DEF CreateGoal
<1>3. ASSUME NEW x \in Entities, NEW d \in Details, NEW p \in Entities,
             CreatePlan(x, p, d) \/ CreateStep(x, p, d) \/ CreateAction(x, p, d)
      PROVE  LedgerInv'
  BY <1>3, CreateLedger DEF CreatePlan, CreateStep, CreateAction
<1>4. ASSUME NEW x \in Entities, DeleteGoal(x) \/ DeletePlan(x) \/ DeleteStep(x) \/ DeleteAction(x)
      PROVE  LedgerInv'
  BY <1>4, DeleteLedger DEF DeleteGoal, DeletePlan, DeleteStep, DeleteAction
<1>5. ASSUME NEW c \in Callers,
             TransitionGoal(c) \/ TransitionPlan(c) \/ TransitionStep(c) \/ TransitionAction(c)
      PROVE  LedgerInv'
  BY <1>1, <1>5 DEF TransitionGoal, TransitionPlan, TransitionStep, TransitionAction, Asking
<1>6. ASSUME NEW c \in Callers, NEW e \in Events, NEW x \in Entities,
             NEW to \in Targets(KindOf[x]), AskTransition(c, e, x, to)
      PROVE  LedgerInv'
  BY <1>6, AskLedger
<1>7. CASE UNCHANGED lifeIntentVars
  <2>1. UNCHANGED <<row, event, asked, used, losses, applied, said>>
    BY <1>7 DEF lifeIntentVars
  <2>2. RowsTyped' /\ RequestsTyped' /\ LedgerIsFinite' /\ AnswersAreTrue'
    BY <2>1 DEF LedgerInv, RowsTyped, RequestsTyped, LedgerIsFinite, AnswersAreTrue, Exists, EventsOf
  <2>3. LedgerIsApplied'
    BY <2>1 DEF LedgerInv, LedgerIsApplied, Exists, Evident
  <2>4. LedgerExplainsRow'
    BY <2>1 DEF LedgerInv, LedgerExplainsRow, Exists, EventsOf
  <2>5. NoOrphans'
    BY <2>1 DEF LedgerInv, NoOrphans, Exists, ParentOk
  <2> QED
    BY <2>2, <2>3, <2>4, <2>5 DEF LedgerInv
<1> QED
  BY <1>2, <1>3, <1>4, <1>5, <1>6, <1>7 DEF LifeIntentNext

\* The invariant of storage/life_intent.rs: as long as identities are not used again, at
\* every moment the ledger explains the status and the revision of every entity, callers
\* were told what is true however often they repeated a request whose answer was lost, and
\* nothing outlives what it hangs on.
THEOREM LedgerIsTruthful ==
  ASSUME ~Reused
  PROVE  LifeIntentSpec => []LifeIntentSafe
<1>1. LedgerInv => LifeIntentSafe
  <2> SUFFICES ASSUME LedgerInv PROVE LifeIntentSafe
    OBVIOUS
  <2>1. \A x \in Entities :
          /\ row[x].parent \in Entities \cup {NoEntity}
          /\ row[x].content \in Details \cup {NoEntity}
          /\ row[x].revision \in Nat
          /\ Exists(x) => row[x].status \in Statuses[KindOf[x]]
    BY DEF LedgerInv, RowsTyped, EntityRow
  <2>2. used \subseteq Entities /\ losses \in 0 .. MaxLosses
    BY DEF LedgerInv, RowsTyped, RequestsTyped
  <2>3. \A q \in applied : q.event \in Events /\ q.entity \in Entities
    BY DEF LedgerInv, RequestsTyped, Request
  <2>4. LifeIntentTypeOK
    BY <2>1, <2>2, <2>3 DEF LedgerInv, LedgerIsFinite, LifeIntentTypeOK, EventRow
  <2> QED
    BY <2>4 DEF LedgerInv, LifeIntentSafe
<1>2. LifeIntentInit => LedgerInv
  BY InitLedger
<1>3. LedgerInv /\ [LifeIntentNext]_lifeIntentVars => LedgerInv'
  BY LedgerStep
<1> QED
  BY <1>1, <1>2, <1>3, PTL DEF LifeIntentSpec

\* A completed, cancelled, skipped or dismissed entity keeps status, revision and place
\* until it is deleted: target_status of no kind leads out of a closed status.
THEOREM ClosedEntitiesStayClosed ==
  ASSUME ~Reused
  PROVE  LifeIntentSpec => ClosedStaysClosed
<1> DEFINE Kept == \A x \in Entities :
                     Exists(x) /\ {t \in Allowed[KindOf[x]] : t[1] = row[x].status} = {} =>
                       row'[x] \in {row[x], NoEntityRow}
<1>1. ASSUME LedgerInv, LifeIntentNext, NEW x \in Entities, Exists(x),
             {t \in Allowed[KindOf[x]] : t[1] = row[x].status} = {}
      PROVE  row'[x] \in {row[x], NoEntityRow}
  <2>1. ASSUME NEW y \in Entities, NEW p, NEW d, Create(y, p, d)
        PROVE  row'[x] = row[x]
    BY <1>1, <2>1 DEF LedgerInv, RowsTyped, Create
  <2>2. ASSUME NEW y \in Entities, Delete(y)
        PROVE  row'[x] \in {row[x], NoEntityRow}
    BY <2>2 DEF Delete
  <2>3. ASSUME NEW c \in Callers, asked[c] # NoRequest, Transition(c)
        PROVE  row'[x] = row[x]
    <3>1. PICK q : q = asked[c]
      OBVIOUS
    <3>2. CASE Refused(q)
      BY <2>3, <3>1, <3>2 DEF Transition
    <3>3. CASE ~Refused(q)
      <4>1. MayMove(q.entity, q.to)
        BY <3>3 DEF Refused
      <4>2. q.entity # x
        <5>1. ~MayMove(x, q.to)
          BY <1>1 DEF MayMove
        <5> QED
          BY <4>1, <5>1
      <4>3. row' = [row EXCEPT ![q.entity].status = q.to, ![q.entity].revision = q.expected + 1]
        BY <2>3, <3>1, <3>3 DEF Transition
      <4>4. row \in [Entities -> EntityRow]
        BY <1>1 DEF LedgerInv, RowsTyped
      <4> QED
        BY <4>2, <4>3, <4>4
    <3> QED
      BY <3>2, <3>3
  <2>4. ASSUME NEW c \in Callers, NEW e \in Events, NEW y \in Entities,
               NEW to \in Targets(KindOf[y]), AskTransition(c, e, y, to)
        PROVE  row'[x] = row[x]
    BY <2>4 DEF AskTransition
  <2> QED
    BY <1>1, <2>1, <2>2, <2>3, <2>4 DEF LifeIntentNext, CreateGoal, CreatePlan, CreateStep,
       CreateAction, DeleteGoal, DeletePlan, DeleteStep, DeleteAction, TransitionGoal,
       TransitionPlan, TransitionStep, TransitionAction, Asking
<1>2. LedgerInv /\ [LifeIntentNext]_lifeIntentVars => [Kept]_lifeIntentVars
  BY <1>1
<1>3. LifeIntentInit => LedgerInv
  BY InitLedger
<1>4. LedgerInv /\ [LifeIntentNext]_lifeIntentVars => LedgerInv'
  BY LedgerStep
<1> QED
  BY <1>2, <1>3, <1>4, PTL DEF LifeIntentSpec, ClosedStaysClosed

-----------------------------------------------------------------------------
(* The autonomy tick *)

\* The steps of a call.
CallLabels == {"idle", "policy", "observe", "find", "tickPolicy", "goals", "latest", "select",
               "episode", "create", "conflict", "event", "evaluate"}

IntentRow == [status : {"none", "pending"} \cup Decided, goal : Goals \cup {0}, focus : Focuses,
              recent : Nat \cup {NoTime}, created : Nat \cup {NoTime},
              updated : Nat \cup {NoTime}, notBefore : Nat \cup {NoTime}]
FoundIntent == [id : Ticks \cup {NoTick}, row : IntentRow]
CallRow == [pc : CallLabels, tick : Ticks \cup {NoTick}, focus : Focuses,
            policy : Policies \cup {NoPolicy}, todo : SUBSET Goals,
            latest : UNION {[D -> FoundIntent] : D \in SUBSET Goals},
            seen : IntentRow, at : Nat \cup {NoTime}, goal : Goals \cup {0},
            recent : Nat \cup {NoTime}, of : Ticks \cup {NoTick}]
ReadyRow == [tick : Ticks, at : Nat, policy : Policies \cup {NoPolicy}]

\* Types of what the ticks read; nothing ends in the future.
LifeTyped ==
  /\ sqlClock \in 0 .. MaxNow
  /\ policy \in Policies \cup {NoPolicy}
  /\ goal \in [Goals -> {"none", "active", "closed"}]
  /\ talked \in {NoTime} \cup 0 .. sqlClock

\* An intent was created and updated in the past, waits for a time exactly while it is
\* deferred, and then not for a time before its decision.
IntentSound(t) ==
  /\ intent[t].status = "none" => intent[t] = NoIntent
  /\ intent[t] # NoIntent =>
       /\ intent[t].goal \in Goals
       /\ intent[t].created \in 0 .. sqlClock /\ intent[t].updated \in 0 .. sqlClock
  /\ (intent[t].notBefore # NoTime) <=> (intent[t].status = "deferred")
  /\ intent[t].status = "deferred" => intent[t].notBefore >= intent[t].updated

\* An intent has an evaluation event exactly when it is decided, and the event tells the
\* decision.
EventSound(t) ==
  /\ intent[t].status \in Decided =>
       intentEvent[t] = [to |-> intent[t].status, notBefore |-> intent[t].notBefore]
  /\ intent[t].status \notin Decided => intentEvent[t] = NoIntentEvent

IntentsSound ==
  /\ intent \in [Ticks -> IntentRow]
  /\ intentEvent \in [Ticks -> [to : {"none"} \cup Decided, notBefore : Nat \cup {NoTime}]]
  /\ \A t \in Ticks : IntentSound(t) /\ EventSound(t)

\* What a call carries: the tick it names, an intent that exists where it recovers or
\* replays one, and in "event" the row as it was decided, which does not change any more.
CallSound(c) ==
  /\ c.pc \notin {"idle", "event", "evaluate"} => c.tick \in Ticks
  /\ c.pc = "conflict" => intent[c.tick] # NoIntent
  /\ c.pc \in {"event", "evaluate"} => c.of \in Ticks /\ intent[c.of] # NoIntent
  /\ c.pc = "event" => c.seen = intent[c.of] /\ c.seen.status \in Decided
  /\ c.pc = "latest" => c.todo # {}
  /\ c.pc \in {"episode", "create"} => c.goal \in Goals
  /\ c.pc = "episode" => c.at \in 0 .. sqlClock
  /\ \A g \in DOMAIN c.latest : c.latest[g].row.status = "pending" =>
       c.latest[g].id \in Ticks /\ intent[c.latest[g].id] # NoIntent

CallsSound ==
  /\ call \in [TickCallers -> CallRow]
  /\ \A w \in TickCallers : CallSound(call[w])

\* What callers were told is the decision of the intent.
AnswersSound ==
  \A a \in answers : /\ a.tick \in Ticks /\ a.status \in Decided
                     /\ a.status = intent[a.tick].status /\ a.goal = intent[a.tick].goal

\* The ready decisions are those of different ticks, and their intents say when.
ReadiesSound ==
  /\ readies \in Seq(ReadyRow)
  /\ \A k \in 1 .. Len(readies) : /\ intent[readies[k].tick].status = "ready"
                                  /\ intent[readies[k].tick].updated = readies[k].at
  /\ \A j, k \in 1 .. Len(readies) : j # k => readies[j].tick # readies[k].tick

\* The inductive invariant.
AutonomyInv ==
  /\ LifeTyped /\ IntentsSound /\ CallsSound /\ AnswersSound /\ ReadiesSound /\ ReadyWithinBudget

\* A set of naturals has a least element.
LEMMA NatHasMin ==
  ASSUME NEW S, S \subseteq Nat, S # {}
  PROVE  \E x \in S : \A y \in S : x <= y
<1>1. \E x \in S : \A y \in S : ~(<<y, x>> \in OpToRel(<, Nat))
  BY NatLessThanWellFounded, WFMin
<1>2. \A x, y \in Nat : y < x => <<y, x>> \in OpToRel(<, Nat)
  BY DEF OpToRel
<1>3. PICK x \in S : \A y \in S : ~(<<y, x>> \in OpToRel(<, Nat))
  BY <1>1
<1>4. \A y \in S : ~(y < x) /\ x \in Nat /\ y \in Nat
  BY <1>2, <1>3
<1>5. \A y \in S : x <= y
  BY <1>4
<1> QED
  BY <1>3, <1>5

\* Min gives it.
LEMMA MinOfNat ==
  ASSUME NEW S, S \subseteq Nat, S # {}
  PROVE  Min(S) \in S /\ \A y \in S : Min(S) <= y
BY NatHasMin DEF Min

\* A bounded set of naturals has a greatest element.
LEMMA MaxOfNat ==
  ASSUME NEW S, S \subseteq Nat, S # {}, NEW b \in Nat, \A x \in S : x <= b
  PROVE  Max(S) \in S /\ \A y \in S : Max(S) >= y
<1> DEFINE U == {u \in Nat : \A x \in S : x <= u}
<1>1. U \subseteq Nat /\ U # {}
  OBVIOUS
<1> HIDE DEF U
<1>2. PICK u \in U : \A v \in U : u <= v
  BY <1>1, NatHasMin
<1>3. u \in Nat /\ \A x \in S : x <= u
  BY <1>2 DEF U
<1>4. u \in S
  <2>1. SUFFICES ASSUME u \notin S PROVE FALSE
    OBVIOUS
  <2>2. \A x \in S : x < u
    BY <1>3, <2>1
  <2>3. u > 0
    <3>1. PICK x \in S : TRUE
      OBVIOUS
    <3>2. x \in Nat /\ x < u /\ u \in Nat
      BY <1>3, <2>2, <3>1
    <3> QED
      BY <3>2
  <2>4. u - 1 \in U
    BY <1>3, <2>2, <2>3 DEF U
  <2> QED
    BY <1>2, <1>3, <2>4
<1>5. \E x \in S : \A y \in S : x >= y
  BY <1>3, <1>4
<1> QED
  BY <1>5 DEF Max

\* The numbers of a policy.
LEMMA PolicyFields ==
  ASSUME LifeTyped
  PROVE  policy.max \in Nat /\ policy.window \in Nat /\ policy.gap \in Nat
BY AutonomyAssumption DEF LifeTyped, NoPolicy

\* Ready decisions were made in the past.
LEMMA ReadyTimesPast ==
  ASSUME LifeTyped, IntentsSound
  PROVE  /\ Times(ReadyTimes) \subseteq Nat
         /\ \A x \in Times(ReadyTimes) : x <= sqlClock
         /\ \A r \in ReadyTimes : r[2] \in Times(ReadyTimes)
<1>1. \A t \in Ticks : intentEvent[t].to = "ready" => intent[t].updated \in 0 .. sqlClock
  <2> TAKE t \in Ticks
  <2>1. EventSound(t) /\ IntentSound(t)
    BY DEF IntentsSound
  <2>2. CASE intent[t].status \in Decided
    <3>1. intent[t] # NoIntent
      BY <2>2 DEF NoIntent, Decided, Closed
    <3> QED
      BY <2>1, <3>1 DEF IntentSound
  <2>3. CASE intent[t].status \notin Decided
    BY <2>1, <2>3 DEF EventSound, NoIntentEvent
  <2> QED
    BY <2>2, <2>3
<1>2. sqlClock \in Nat
  BY AutonomyAssumption DEF LifeTyped
<1>3. \A r \in ReadyTimes : r[2] \in 0 .. sqlClock
  BY <1>1 DEF ReadyTimes
<1> QED
  BY <1>2, <1>3 DEF Times

\* What a closed gate gives is a time from now on that is not far off: do-not-disturb or a
\* focus that is not available,
LEMMA TemporaryGateIsNear ==
  ASSUME LifeTyped, NEW i, NEW x \in TemporaryGate(i, policy)
  PROVE  x \in Nat /\ x >= sqlClock /\ x <= sqlClock + Recheck + policy.gap
<1>1. policy.gap \in Nat /\ Recheck \in Nat /\ sqlClock \in Nat
  BY PolicyFields, AutonomyAssumption DEF LifeTyped
<1>2. PICK S : S = {Recheck, policy.gap}
  OBVIOUS
<1>3. PICK b \in Nat : b = Recheck + policy.gap
  BY <1>1
<1>4. S \subseteq Nat /\ S # {} /\ (\A y \in S : y <= b)
  BY <1>1, <1>2, <1>3
<1>6. Max(S) \in S
  BY <1>4, MaxOfNat
<1>7. Max(S) \in Nat /\ Max(S) <= b
  BY <1>4, <1>6
<1>5. x = sqlClock + Max(S)
  BY <1>2 DEF TemporaryGate
<1> QED
  BY <1>1, <1>3, <1>5, <1>7

\* a recent conversation,
LEMMA RecentGateIsNear ==
  ASSUME LifeTyped, NEW i, i.recent \in Nat \cup {NoTime}, NEW x \in RecentGate(i)
  PROVE  x \in Nat /\ x >= sqlClock /\ x <= sqlClock + Recheck + Quiet
BY AutonomyAssumption DEF LifeTyped, RecentGate, NoTime

\* a full window of a budget that is not empty,
LEMMA FrequencyGateIsNear ==
  ASSUME LifeTyped, IntentsSound, policy.max # 0, NEW x \in FrequencyGate(policy)
  PROVE  x \in Nat /\ x >= sqlClock /\ x <= sqlClock + policy.window
<1>1. policy.max \in Nat /\ policy.window \in Nat /\ sqlClock \in Nat
  BY PolicyFields, AutonomyAssumption DEF LifeTyped
<1>2. /\ Cardinality(InWindow(policy)) >= policy.max
      /\ x = Min(Times(InWindow(policy))) + policy.window
  BY DEF FrequencyGate
<1>3. InWindow(policy) # {}
  BY <1>1, <1>2, FS_EmptySet
<1>4. Times(InWindow(policy)) # {}
  BY <1>3 DEF Times
<1>5. \A y \in Times(InWindow(policy)) :
        y \in Times(ReadyTimes) /\ y >= sqlClock - policy.window /\ y <= sqlClock
  BY DEF Times, InWindow
<1>6. Times(InWindow(policy)) \subseteq Nat
  BY <1>5, ReadyTimesPast
<1>7. Min(Times(InWindow(policy))) \in Times(InWindow(policy))
  BY <1>4, <1>6, MinOfNat
<1> QED
  BY <1>1, <1>2, <1>5, <1>6, <1>7

\* a ready decision that is too recent.
LEMMA GapGateIsNear ==
  ASSUME LifeTyped, IntentsSound, NEW x \in GapGate(policy)
  PROVE  x \in Nat /\ x >= sqlClock /\ x <= sqlClock + policy.gap
<1>1. policy.gap \in Nat /\ sqlClock \in Nat
  BY PolicyFields, AutonomyAssumption DEF LifeTyped
<1>2. PICK r \in ReadyTimes : x = Max(Times(ReadyTimes)) + policy.gap /\ x > sqlClock
  BY DEF GapGate
<1>3. Times(ReadyTimes) # {}
  BY <1>2 DEF Times
<1>4. Max(Times(ReadyTimes)) \in Times(ReadyTimes)
  BY <1>1, <1>3, ReadyTimesPast, MaxOfNat
<1> QED
  BY <1>1, <1>2, <1>4, ReadyTimesPast

\* So a deferral waits for a time of the future.
LEMMA GatesAreAhead ==
  ASSUME LifeTyped, IntentsSound, policy.max # 0, NEW i, i.recent \in Nat \cup {NoTime},
         Gates(i, policy) # {}
  PROVE  Max(Gates(i, policy)) \in Nat /\ Max(Gates(i, policy)) >= sqlClock
<1>1. PICK b : b = sqlClock + Quiet + Recheck + policy.gap + policy.window
  OBVIOUS
<1>2. b \in Nat /\ sqlClock \in Nat /\ policy.gap \in Nat /\ policy.window \in Nat
      /\ Recheck \in Nat /\ Quiet \in Nat
  BY <1>1, PolicyFields, AutonomyAssumption DEF LifeTyped
<1>3. \A x \in Gates(i, policy) : x \in Nat /\ x >= sqlClock /\ x <= b
  <2> TAKE x \in Gates(i, policy)
  <2>1. CASE x \in RecentGate(i)
    BY <1>1, <1>2, <2>1, RecentGateIsNear
  <2>2. CASE x \in TemporaryGate(i, policy)
    BY <1>1, <1>2, <2>2, TemporaryGateIsNear
  <2>3. CASE x \in FrequencyGate(policy)
    BY <1>1, <1>2, <2>3, FrequencyGateIsNear
  <2>4. CASE x \in GapGate(policy)
    BY <1>1, <1>2, <2>4, GapGateIsNear
  <2> QED
    BY <2>1, <2>2, <2>3, <2>4 DEF Gates
<1>4. Max(Gates(i, policy)) \in Gates(i, policy)
  BY <1>2, <1>3, MaxOfNat
<1> QED
  BY <1>3, <1>4

\* What a decision says of the gates.
LEMMA DecisionIsOne ==
  ASSUME NEW i
  PROVE  /\ Decision(i) \in Decided
         /\ Decision(i) = "deferred" => policy.max # 0 /\ Gates(i, policy) # {}
         /\ Decision(i) = "ready" => Gates(i, policy) = {}
BY DEF Decision, Decided, Closed

\* The memory of a call that has read no intents.
LEMMA NothingFound == [g \in {} |-> NoTick] \in UNION {[D -> FoundIntent] : D \in SUBSET Goals}
<1>1. [g \in {} |-> NoTick] \in [{} -> FoundIntent]
  OBVIOUS
<1> QED
  BY <1>1

\* The row of a tick without intent.
LEMMA NoIntentTyped ==
  NoIntent \in IntentRow /\ NoIntent.status = "none" /\ NoIntent.notBefore = NoTime
<1>1. PICK r : r = NoIntent
  OBVIOUS
<1>2. r = [status |-> "none", goal |-> 0, focus |-> "unknown", recent |-> NoTime,
           created |-> NoTime, updated |-> NoTime, notBefore |-> NoTime]
  BY <1>1 DEF NoIntent
<1>3. r \in IntentRow
  BY <1>2 DEF IntentRow, Focuses
<1> QED
  BY <1>1, <1>2, <1>3

\* A caller that does nothing.
LEMMA IdleCall ==
  /\ NoCall \in CallRow
  /\ NoCall.pc = "idle" /\ NoCall.focus = "unknown" /\ NoCall.tick = NoTick
  /\ DOMAIN NoCall.latest = {}
<1>1. PICK c : c = NoCall
  OBVIOUS
<1>2. PICK f : f = [g \in {} |-> NoTick]
  OBVIOUS
<1>3. c = [pc |-> "idle", tick |-> NoTick, focus |-> "unknown", policy |-> NoPolicy,
           todo |-> {}, latest |-> f, seen |-> NoIntent,
           at |-> NoTime, goal |-> 0, recent |-> NoTime, of |-> NoTick]
  BY <1>1, <1>2 DEF NoCall
<1>4. f \in UNION {[D -> FoundIntent] : D \in SUBSET Goals} /\ DOMAIN f = {}
  BY <1>2, NothingFound
<1>5. c \in CallRow
  BY <1>3, <1>4, NoIntentTyped DEF CallRow, Focuses, CallLabels
<1> QED
  BY <1>1, <1>3, <1>4, <1>5

\* It is sound.
LEMMA IdleCallSound == CallSound(NoCall)
BY IdleCall DEF CallSound

\* The invariant holds initially.
LEMMA InitAutonomy == AutonomyInit => AutonomyInv
<1> SUFFICES ASSUME AutonomyInit PROVE AutonomyInv
  OBVIOUS
<1>1. LifeTyped
  <2>1. \A g \in Goals : goal[g] \in {"none", "active", "closed"}
    BY DEF AutonomyInit
  <2> QED
    BY <2>1, AutonomyAssumption DEF AutonomyInit, LifeTyped
<1>2. NoIntent \in IntentRow /\ NoIntent.status = "none" /\ NoIntent.notBefore = NoTime
  BY NoIntentTyped
<1>3. IntentsSound
  <2>1. intent \in [Ticks -> IntentRow] /\ \A t \in Ticks : intent[t] = NoIntent
    BY <1>2 DEF AutonomyInit
  <2>2. /\ intentEvent \in [Ticks -> [to : {"none"} \cup Decided, notBefore : Nat \cup {NoTime}]]
        /\ \A t \in Ticks : intentEvent[t] = NoIntentEvent
    BY DEF AutonomyInit, NoIntentEvent
  <2>3. ASSUME NEW t \in Ticks
        PROVE  IntentSound(t) /\ EventSound(t)
    <3>1. "none" \notin Decided
      BY DEF Decided, Closed
    <3> QED
      BY <1>2, <2>1, <2>2, <3>1 DEF IntentSound, EventSound
  <2> QED
    BY <2>1, <2>2, <2>3 DEF IntentsSound
<1>4. CallsSound
  <2>1. call \in [TickCallers -> {NoCall}]
    BY DEF AutonomyInit
  <2>2. NoCall \in CallRow /\ CallSound(NoCall)
    BY IdleCall, IdleCallSound
  <2> QED
    BY <2>1, <2>2 DEF CallsSound
<1>5. AnswersSound /\ ReadiesSound /\ ReadyWithinBudget
  BY DEF AutonomyInit, AnswersSound, ReadiesSound, ReadyWithinBudget
<1> QED
  BY <1>1, <1>3, <1>4, <1>5 DEF AutonomyInv

\* Other steps leave a call sound: they lose no intent, change no decided one, and time goes on.
LEMMA CallStaysSound ==
  ASSUME NEW c, CallSound(c), sqlClock \in Nat, sqlClock' \in Nat, sqlClock' >= sqlClock,
         \A t \in Ticks : intent[t] # NoIntent => intent'[t] # NoIntent,
         \A t \in Ticks : intent[t].status \in Decided => intent'[t] = intent[t],
         c \in CallRow
  PROVE  CallSound(c)'
BY DEF CallSound, CallRow

\* A step that moves one call leaves every call sound when it leaves that one sound.
LEMMA CallsStaySound ==
  ASSUME CallsSound, NEW w \in TickCallers, NEW d \in CallRow, CallSound(d)',
         call' = [call EXCEPT ![w] = d], sqlClock \in Nat, sqlClock' \in Nat, sqlClock' >= sqlClock,
         \A t \in Ticks : intent[t] # NoIntent => intent'[t] # NoIntent,
         \A t \in Ticks : intent[t].status \in Decided => intent'[t] = intent[t]
  PROVE  CallsSound'
<1>1. call' \in [TickCallers -> CallRow]
  BY DEF CallsSound
<1>2. ASSUME NEW x \in TickCallers PROVE CallSound(call[x])'
  <2>1. CASE x = w
    <3>1. call'[x] = d
      BY <2>1 DEF CallsSound
    <3> QED
      BY <3>1 DEF CallSound
  <2>2. CASE x # w
    <3>1. PICK c : c = call[x]
      OBVIOUS
    <3>2. c \in CallRow /\ CallSound(c) /\ call'[x] = c
      BY <2>2, <3>1 DEF CallsSound
    <3>3. CallSound(c)'
      BY <3>2, CallStaysSound
    <3> QED
      BY <3>2, <3>3 DEF CallSound
  <2> QED
    BY <2>1, <2>2
<1> QED
  BY <1>1, <1>2 DEF CallsSound

\* The clock shows a number.
LEMMA ClockIsNat == LifeTyped => sqlClock \in Nat
BY AutonomyAssumption DEF LifeTyped

\* A step that only moves a call preserves the invariant.
LEMMA CallerMoves ==
  ASSUME AutonomyInv, NEW w \in TickCallers, NEW d \in CallRow, CallSound(d),
         call' = [call EXCEPT ![w] = d],
         UNCHANGED <<sqlClock, autonomyDb, answers, readies>>
  PROVE  AutonomyInv'
<1>1. UNCHANGED <<sqlClock, policy, goal, talked, intent, intentEvent, answers, readies>>
  BY DEF autonomyDb
<1>2. LifeTyped' /\ AnswersSound' /\ ReadiesSound' /\ ReadyWithinBudget'
  BY <1>1 DEF AutonomyInv, LifeTyped, AnswersSound, ReadiesSound, ReadyWithinBudget
<1>6. IntentsSound'
  BY <1>1 DEF AutonomyInv, IntentsSound, IntentSound, EventSound
<1>3. sqlClock \in Nat
  BY ClockIsNat DEF AutonomyInv
<1>4. CallSound(d)'
  BY <1>1 DEF CallSound
<1>7. /\ CallsSound /\ sqlClock' \in Nat /\ sqlClock' >= sqlClock
      /\ \A t \in Ticks : intent[t] # NoIntent => intent'[t] # NoIntent
      /\ \A t \in Ticks : intent[t].status \in Decided => intent'[t] = intent[t]
  BY <1>1, <1>3 DEF AutonomyInv
<1>5. CallsSound'
  BY <1>3, <1>4, <1>7, CallsStaySound
<1> QED
  BY <1>2, <1>5, <1>6 DEF AutonomyInv

\* The call of a caller is a sound row.
LEMMA CallOf ==
  ASSUME AutonomyInv, NEW w \in TickCallers
  PROVE  call[w] \in CallRow /\ CallSound(call[w])
BY DEF AutonomyInv, CallsSound

\* The reading steps of a call preserve the invariant.
LEMMA StartTickKeeps ==
  ASSUME AutonomyInv, NEW w \in TickCallers, NEW t \in Ticks, StartTick(w, t)
  PROVE  AutonomyInv'
<1>1. PICK l \in {"policy", "find"} : l = IF intent[t] = NoIntent THEN "policy" ELSE "find"
  OBVIOUS
<1>2. intent[t].focus \in Focuses
  BY DEF AutonomyInv, IntentsSound, IntentRow
<1>3. PICK f \in Focuses : f = intent[t].focus
  BY <1>2
<1>9. PICK n \in CallRow : n = NoCall /\ DOMAIN n.latest = {}
  BY IdleCall
<1>4. PICK d : d = [n EXCEPT !.tick = t, !.pc = l, !.focus = f]
  OBVIOUS
<1>5. d \in CallRow /\ d.tick = t /\ d.pc = l /\ DOMAIN d.latest = {}
  BY <1>4, <1>9 DEF CallRow, CallLabels
<1>6. CallSound(d)
  BY <1>5 DEF CallSound
<1>7. call' = [call EXCEPT ![w] = d]
  BY <1>1, <1>3, <1>4, <1>9 DEF StartTick
<1> QED
  BY <1>5, <1>6, <1>7, CallerMoves DEF StartTick

\* Return preserves the invariant.
LEMMA ReturnKeeps ==
  ASSUME AutonomyInv, NEW w \in TickCallers, Return(w),
         UNCHANGED <<sqlClock, autonomyDb, answers, readies>>
  PROVE  AutonomyInv'
BY IdleCall, IdleCallSound, CallerMoves DEF Return

\* ReadFocusPolicy preserves the invariant.
LEMMA ReadFocusPolicyKeeps ==
  ASSUME AutonomyInv, NEW w \in TickCallers, ReadFocusPolicy(w)
  PROVE  AutonomyInv'
<1>1. PICK l \in {"find", "observe"} :
        l = IF ~policy.enabled \/ policy.dnd \/ policy.max = 0 THEN "find" ELSE "observe"
  OBVIOUS
<1>2. PICK f \in Focuses : f = IF policy.enabled /\ policy.dnd THEN "dnd" ELSE "unknown"
  BY DEF Focuses
<1>3. PICK c : c = call[w]
  OBVIOUS
<1>4. PICK d : d = [c EXCEPT !.pc = l, !.focus = f]
  OBVIOUS
<1>5. c \in CallRow /\ CallSound(c) /\ c.pc = "policy"
  BY <1>3, CallOf DEF ReadFocusPolicy, CallAt
<1>6. d \in CallRow /\ d.tick = c.tick /\ d.pc = l /\ d.latest = c.latest
  BY <1>4, <1>5 DEF CallRow, CallLabels
<1>7. CallSound(d)
  BY <1>5, <1>6 DEF CallSound
<1>8. call' = [call EXCEPT ![w] = d]
  BY <1>1, <1>2, <1>3, <1>4, CallOf DEF ReadFocusPolicy, AutonomyInv, CallsSound
<1> QED
  BY <1>6, <1>7, <1>8, CallerMoves DEF ReadFocusPolicy

\* Observe preserves the invariant.
LEMMA ObserveKeeps ==
  ASSUME AutonomyInv, NEW w \in TickCallers, Observe(w)
  PROVE  AutonomyInv'
<1>1. CASE Return(w)
  BY <1>1, ReturnKeeps DEF Observe
<1>2. CASE ~Return(w)
  <2>1. PICK f \in Focuses : call' = [call EXCEPT ![w].pc = "find", ![w].focus = f]
    BY <1>2 DEF Observe, Focuses
  <2>3. PICK c : c = call[w]
    OBVIOUS
  <2>4. PICK d : d = [c EXCEPT !.pc = "find", !.focus = f]
    OBVIOUS
  <2>5. c \in CallRow /\ CallSound(c) /\ c.pc = "observe"
    BY <2>3, CallOf DEF Observe, CallAt
  <2>6. d \in CallRow /\ d.tick = c.tick /\ d.pc = "find" /\ d.latest = c.latest
    BY <2>4, <2>5 DEF CallRow, CallLabels
  <2>7. CallSound(d)
    BY <2>5, <2>6 DEF CallSound
  <2>8. call' = [call EXCEPT ![w] = d]
    BY <2>1, <2>3, <2>4 DEF AutonomyInv, CallsSound
  <2> QED
    BY <2>6, <2>7, <2>8, CallerMoves DEF Observe
<1> QED
  BY <1>1, <1>2

\* ReadTickPolicy preserves the invariant.
LEMMA ReadTickPolicyKeeps ==
  ASSUME AutonomyInv, NEW w \in TickCallers, ReadTickPolicy(w)
  PROVE  AutonomyInv'
<1>1. CASE ~policy.enabled
  BY <1>1, ReturnKeeps DEF ReadTickPolicy
<1>2. CASE policy.enabled
  <2>1. PICK p : p = policy
    OBVIOUS
  <2>2. p \in Policies \cup {NoPolicy}
    BY <2>1 DEF AutonomyInv, LifeTyped
  <2>3. PICK c : c = call[w]
    OBVIOUS
  <2>4. PICK d : d = [c EXCEPT !.pc = "goals", !.policy = p]
    OBVIOUS
  <2>5. c \in CallRow /\ CallSound(c) /\ c.pc = "tickPolicy"
    BY <2>3, CallOf DEF ReadTickPolicy, CallAt
  <2>6. d \in CallRow /\ d.tick = c.tick /\ d.pc = "goals" /\ d.latest = c.latest
    BY <2>2, <2>4, <2>5 DEF CallRow, CallLabels
  <2>7. CallSound(d)
    BY <2>5, <2>6 DEF CallSound
  <2>8. call' = [call EXCEPT ![w].pc = "goals", ![w].policy = p]
    BY <1>2, <2>1 DEF ReadTickPolicy
  <2>9. call' = [call EXCEPT ![w] = d]
    BY <2>3, <2>4, <2>8 DEF AutonomyInv, CallsSound
  <2> QED
    BY <2>6, <2>7, <2>9, CallerMoves DEF ReadTickPolicy
<1> QED
  BY <1>1, <1>2

\* ReadGoals preserves the invariant.
LEMMA ReadGoalsKeeps ==
  ASSUME AutonomyInv, NEW w \in TickCallers, ReadGoals(w)
  PROVE  AutonomyInv'
<1>1. CASE Inspected = {}
  BY <1>1, ReturnKeeps DEF ReadGoals
<1>2. CASE Inspected # {}
  <2>1. PICK p : p = Inspected
    OBVIOUS
  <2>2. p \subseteq Goals /\ p # {}
    BY <1>2, <2>1 DEF Inspected
  <2>3. PICK c : c = call[w]
    OBVIOUS
  <2>4. PICK d : d = [c EXCEPT !.pc = "latest", !.todo = p]
    OBVIOUS
  <2>5. c \in CallRow /\ CallSound(c) /\ c.pc = "goals"
    BY <2>3, CallOf DEF ReadGoals, CallAt
  <2>6. d \in CallRow /\ d.tick = c.tick /\ d.pc = "latest" /\ d.latest = c.latest /\ d.todo = p
    BY <2>2, <2>4, <2>5 DEF CallRow, CallLabels
  <2>7. CallSound(d)
    BY <2>2, <2>5, <2>6 DEF CallSound
  <2>8. call' = [call EXCEPT ![w].pc = "latest", ![w].todo = p]
    BY <1>2, <2>1 DEF ReadGoals
  <2>9. call' = [call EXCEPT ![w] = d]
    BY <2>3, <2>4, <2>8 DEF AutonomyInv, CallsSound
  <2> QED
    BY <2>6, <2>7, <2>9, CallerMoves DEF ReadGoals
<1> QED
  BY <1>1, <1>2

\* The latest intent of a goal that has intents is one of them.
LEMMA LatestIsIntent ==
  ASSUME LifeTyped, IntentsSound, NEW g, IntentsOf(g) # {}
  PROVE  Latest(g) \in IntentsOf(g)
<1>1. PICK b : b = sqlClock
  OBVIOUS
<1>2. b \in Nat /\ NTicks \in Nat
  BY <1>1, ClockIsNat, AutonomyAssumption
<1>3. PICK C : C = {intent[t].created : t \in IntentsOf(g)}
  OBVIOUS
<1>4. \A t \in IntentsOf(g) : t \in Ticks /\ t \in Nat /\ t <= NTicks /\ intent[t].created \in Nat
                              /\ intent[t].created <= b
  BY <1>1, <1>2 DEF IntentsOf, IntentsSound, IntentSound, Ticks
<1>5. C \subseteq Nat /\ C # {} /\ \A x \in C : x <= b
  BY <1>3, <1>4
<1>6. Max(C) \in C /\ \A x \in C : Max(C) >= x
  BY <1>2, <1>5, MaxOfNat
<1>7. PICK T : T = {t \in IntentsOf(g) : intent[t].created = Max(C)}
  OBVIOUS
<1>8. T \subseteq Nat /\ T # {} /\ \A x \in T : x <= NTicks
  BY <1>3, <1>4, <1>6, <1>7
<1>9. PICK m : m = Max(T) /\ m \in T /\ \A x \in T : m >= x
  BY <1>2, <1>8, MaxOfNat
<1>10. m \in IntentsOf(g) /\ m \in Nat /\ intent[m].created = Max(C)
  BY <1>7, <1>8, <1>9
<1>11. \A u \in IntentsOf(g) : \/ intent[u].created < intent[m].created
                               \/ intent[u].created = intent[m].created /\ u <= m
  <2> TAKE u \in IntentsOf(g)
  <2>1. intent[u].created \in C /\ intent[u].created \in Nat /\ u \in Nat
    BY <1>3, <1>4
  <2>2. intent[u].created <= Max(C) /\ Max(C) \in Nat
    BY <1>5, <1>6, <2>1
  <2>3. CASE intent[u].created = Max(C)
    BY <1>7, <1>8, <1>9, <1>10, <2>1, <2>3
  <2>4. CASE intent[u].created # Max(C)
    BY <1>10, <2>1, <2>2, <2>4
  <2> QED
    BY <2>3, <2>4
<1> QED
  BY <1>10, <1>11 DEF Latest

\* ReadLatest preserves the invariant.
LEMMA ReadLatestKeeps ==
  ASSUME AutonomyInv, NEW w \in TickCallers, ReadLatest(w)
  PROVE  AutonomyInv'
<1>1. PICK c : c = call[w]
  OBVIOUS
<1>2. c \in CallRow /\ CallSound(c) /\ c.pc = "latest"
  BY <1>1, CallOf DEF ReadLatest, CallAt
<1>3. c.todo \subseteq Goals /\ c.todo # {}
      /\ c.latest \in UNION {[D -> FoundIntent] : D \in SUBSET Goals}
  BY <1>2 DEF CallRow, CallSound
<1>4. PICK g : g = Min(c.todo) /\ g \in c.todo
  BY <1>3, MinOfNat, AutonomyAssumption DEF Goals
<1>5. PICK r : r = IF IntentsOf(g) = {} THEN [id |-> NoTick, row |-> NoIntent]
                   ELSE [id |-> Latest(g), row |-> intent[Latest(g)]]
  OBVIOUS
<1>6. r \in FoundIntent /\ (r.row.status = "pending" => r.id \in Ticks /\ intent[r.id] # NoIntent)
  <2>1. CASE IntentsOf(g) = {}
    BY <1>5, <2>1, NoIntentTyped DEF FoundIntent
  <2>2. CASE IntentsOf(g) # {}
    <3>1. Latest(g) \in Ticks /\ intent[Latest(g)] # NoIntent
      BY <2>2, LatestIsIntent DEF AutonomyInv, IntentsOf
    <3>2. intent[Latest(g)] \in IntentRow
      BY <3>1 DEF AutonomyInv, IntentsSound
    <3> QED
      BY <1>5, <2>2, <3>1, <3>2 DEF FoundIntent
  <2> QED
    BY <2>1, <2>2
<1>7. PICK rest : rest = c.todo \ {g}
  OBVIOUS
<1>8. PICK l \in {"select", "latest"} : l = IF rest = {} THEN "select" ELSE c.pc
  BY <1>2
<1>9. PICK f : f = [h \in DOMAIN c.latest \cup {g} |-> IF h = g THEN r ELSE c.latest[h]]
  OBVIOUS
<1>10. PICK E \in SUBSET Goals : c.latest \in [E -> FoundIntent]
  BY <1>3
<1>19. PICK D : D = E \cup {g}
  OBVIOUS
<1>11. D = E \cup {g} /\ D \in SUBSET Goals
  BY <1>3, <1>4, <1>10, <1>19
<1>12. f \in [D -> FoundIntent]
  <2>1. DOMAIN c.latest = E
    BY <1>10
  <2>2. f = [h \in D |-> IF h = g THEN r ELSE c.latest[h]]
    BY <1>9, <1>11, <2>1
  <2>3. \A h \in D : (IF h = g THEN r ELSE c.latest[h]) \in FoundIntent
    BY <1>6, <1>10, <1>11
  <2> QED
    BY <2>2, <2>3
<1>13. f \in UNION {[S -> FoundIntent] : S \in SUBSET Goals}
  BY <1>11, <1>12
<1>14. PICK d : d = [c EXCEPT !.todo = rest, !.latest = f, !.pc = l]
  OBVIOUS
<1>15. d \in CallRow /\ d.pc = l /\ d.todo = rest /\ d.tick = c.tick /\ d.latest = f
  BY <1>2, <1>3, <1>7, <1>13, <1>14 DEF CallRow, CallLabels
<1>16. CallSound(d)
  <2>1. \A h \in DOMAIN f : f[h] = r \/ (h \in DOMAIN c.latest /\ f[h] = c.latest[h])
    BY <1>9
  <2> QED
    BY <1>2, <1>6, <1>8, <1>15, <2>1 DEF CallSound
<1>17. call' = [call EXCEPT ![w].todo = rest, ![w].latest = f, ![w].pc = l]
  BY <1>1, <1>4, <1>5, <1>7, <1>8, <1>9 DEF ReadLatest, AutonomyInv, CallsSound
<1>18. call' = [call EXCEPT ![w] = d]
  BY <1>1, <1>14, <1>17 DEF AutonomyInv, CallsSound
<1> QED
  BY <1>15, <1>16, <1>18, CallerMoves DEF ReadLatest

\* SelectCandidate preserves the invariant.
LEMMA SelectCandidateKeeps ==
  ASSUME AutonomyInv, NEW w \in TickCallers, SelectCandidate(w)
  PROVE  AutonomyInv'
<1>1. PICK c : c = call[w]
  OBVIOUS
<1>2. c \in CallRow /\ CallSound(c) /\ c.pc = "select"
  BY <1>1, CallOf DEF SelectCandidate, CallAt
<1>3. PICK l : l = c.latest
  OBVIOUS
<1>4. DOMAIN l \subseteq Goals /\ Goals \subseteq Nat
  BY <1>2, <1>3, AutonomyAssumption DEF CallRow, Goals
<1>5. PICK n \in CallRow : n = NoCall /\ DOMAIN n.latest = {}
  BY IdleCall
<1>6. CASE PendingOf(l) # {}
  <2>1. Min(PendingOf(l)) \in PendingOf(l)
    BY <1>4, <1>6, MinOfNat DEF PendingOf
  <2>2. PICK o : o = l[Min(PendingOf(l))].id
    OBVIOUS
  <2>3. o \in Ticks /\ intent[o] # NoIntent
    BY <1>2, <1>3, <2>1, <2>2 DEF PendingOf, CallSound
  <2>4. PICK d : d = [n EXCEPT !.pc = "evaluate", !.of = o]
    OBVIOUS
  <2>5. d \in CallRow /\ d.pc = "evaluate" /\ d.of = o /\ DOMAIN d.latest = {}
    BY <1>5, <2>3, <2>4 DEF CallRow, CallLabels
  <2>6. CallSound(d)
    BY <2>3, <2>5 DEF CallSound
  <2>7. call' = [call EXCEPT ![w] = d]
    BY <1>1, <1>3, <1>5, <1>6, <2>2, <2>4 DEF SelectCandidate
  <2> QED
    BY <2>5, <2>6, <2>7, CallerMoves DEF SelectCandidate
<1>7. CASE PendingOf(l) = {} /\ (c.policy.max = 0 \/ Selected(l, c.policy) = {})
  <2>1. Return(w)
    BY <1>1, <1>3, <1>7 DEF SelectCandidate, Return
  <2> QED
    BY <2>1, ReturnKeeps DEF SelectCandidate
<1>8. CASE PendingOf(l) = {} /\ ~(c.policy.max = 0 \/ Selected(l, c.policy) = {})
  <2>1. Selected(l, c.policy) \subseteq Goals
    BY <1>4 DEF Selected
  <2>2. PICK g \in Goals : g = Min(Selected(l, c.policy))
    BY <1>4, <1>8, <2>1, MinOfNat
  <2>3. PICK now \in 0 .. sqlClock : now = sqlClock
    BY ClockIsNat DEF AutonomyInv
  <2>4. PICK e : e = n.latest
    OBVIOUS
  <2>5. PICK d : d = [c EXCEPT !.pc = "episode", !.goal = g, !.at = now, !.policy = NoPolicy,
                           !.latest = e]
    OBVIOUS
  <2>6. now \in Nat /\ e \in UNION {[D -> FoundIntent] : D \in SUBSET Goals} /\ DOMAIN e = {}
    BY <1>5, <2>3, <2>4, ClockIsNat DEF CallRow, AutonomyInv
  <2>7. d \in CallRow /\ d.pc = "episode" /\ d.goal = g /\ d.at = now /\ d.latest = e
        /\ d.tick = c.tick
    BY <1>2, <2>5, <2>6 DEF CallRow, CallLabels
  <2>8. CallSound(d)
    BY <1>2, <2>3, <2>6, <2>7 DEF CallSound
  <2>9. call' = [call EXCEPT ![w] = [call[w] EXCEPT !.pc = "episode", !.goal = g, !.at = now,
                                                   !.policy = NoPolicy, !.latest = e]]
    BY <1>1, <1>3, <1>5, <1>8, <2>2, <2>3, <2>4 DEF SelectCandidate
  <2>10. call' = [call EXCEPT ![w] = d]
    BY <1>1, <2>5, <2>9
  <2> QED
    BY <2>7, <2>8, <2>10, CallerMoves DEF SelectCandidate
<1> QED
  BY <1>6, <1>7, <1>8

\* ReadEpisode preserves the invariant.
LEMMA ReadEpisodeKeeps ==
  ASSUME AutonomyInv, NEW w \in TickCallers, ReadEpisode(w)
  PROVE  AutonomyInv'
<1>1. PICK c : c = call[w]
  OBVIOUS
<1>2. c \in CallRow /\ CallSound(c) /\ c.pc = "episode"
  BY <1>1, CallOf DEF ReadEpisode, CallAt
<1>3. c.at \in 0 .. sqlClock /\ c.goal \in Goals /\ c.tick \in Ticks
  BY <1>2 DEF CallSound
<1>4. PICK r : r = IF talked = NoTime THEN NoTime ELSE Max({0, c.at - talked})
  OBVIOUS
<1>5. r \in Nat \cup {NoTime}
  <2>1. CASE talked = NoTime
    BY <1>4, <2>1
  <2>2. CASE talked # NoTime
    <3>1. talked \in Nat /\ sqlClock \in Nat /\ c.at \in Nat
      BY <1>3, <2>2, ClockIsNat DEF AutonomyInv, LifeTyped
    <3>2. PICK S : S = {0, c.at - talked}
      OBVIOUS
    <3>3. Max(S) \in S /\ \A y \in S : Max(S) >= y
      <4>1. \E x \in S : \A y \in S : x >= y
        <5>1. CASE c.at >= talked
          BY <3>1, <3>2, <5>1
        <5>2. CASE ~(c.at >= talked)
          BY <3>1, <3>2, <5>2
        <5> QED
          BY <5>1, <5>2
      <4> QED
        BY <4>1 DEF Max
    <3>4. Max(S) \in Nat
      BY <3>1, <3>2, <3>3
    <3> QED
      BY <1>4, <2>2, <3>2, <3>4
  <2> QED
    BY <2>1, <2>2
<1>6. PICK d : d = [c EXCEPT !.pc = "create", !.at = NoTime, !.recent = r]
  OBVIOUS
<1>7. d \in CallRow /\ d.pc = "create" /\ d.goal = c.goal /\ d.tick = c.tick /\ d.latest = c.latest
  BY <1>2, <1>5, <1>6 DEF CallRow, CallLabels
<1>8. CallSound(d)
  BY <1>2, <1>7 DEF CallSound
<1>9. call' = [call EXCEPT ![w].pc = "create", ![w].at = NoTime, ![w].recent = r]
  BY <1>1, <1>4 DEF ReadEpisode
<1>10. call' = [call EXCEPT ![w] = d]
  BY <1>1, <1>6, <1>9 DEF AutonomyInv, CallsSound
<1> QED
  BY <1>7, <1>8, <1>10, CallerMoves DEF ReadEpisode

\* Replaying a tick whose intent exists leaves a sound call.
LEMMA ReplaySound ==
  ASSUME AutonomyInv, NEW w \in TickCallers, NEW t \in Ticks, intent[t] # NoIntent,
         Replay(w, t, intent[t])
  PROVE  \E d \in CallRow : CallSound(d) /\ call' = [call EXCEPT ![w] = d]
<1>1. PICK r : r = intent[t]
  OBVIOUS
<1>2. r \in IntentRow /\ r.status \in {"pending"} \cup Decided
  BY <1>1 DEF AutonomyInv, IntentsSound, IntentSound, IntentRow
<1>3. PICK n \in CallRow : n = NoCall /\ DOMAIN n.latest = {}
  BY IdleCall
<1>4. CASE r.focus # call[w].focus
  BY <1>1, <1>4, IdleCall, IdleCallSound DEF Replay
<1>5. CASE r.focus = call[w].focus /\ r.status = "pending"
  <2>1. PICK d : d = [n EXCEPT !.pc = "evaluate", !.of = t]
    OBVIOUS
  <2>2. d \in CallRow /\ d.pc = "evaluate" /\ d.of = t /\ DOMAIN d.latest = {}
    BY <1>3, <2>1 DEF CallRow, CallLabels
  <2>3. CallSound(d)
    BY <2>2 DEF CallSound
  <2>4. call' = [call EXCEPT ![w] = d]
    BY <1>1, <1>3, <1>5, <2>1 DEF Replay
  <2> QED
    BY <2>2, <2>3, <2>4
<1>6. CASE r.focus = call[w].focus /\ r.status # "pending"
  <2>1. PICK d : d = [n EXCEPT !.pc = "event", !.of = t, !.seen = r]
    OBVIOUS
  <2>2. d \in CallRow /\ d.pc = "event" /\ d.of = t /\ d.seen = r /\ DOMAIN d.latest = {}
    BY <1>2, <1>3, <2>1 DEF CallRow, CallLabels
  <2>3. CallSound(d)
    BY <1>1, <1>2, <1>6, <2>2 DEF CallSound
  <2>4. call' = [call EXCEPT ![w] = d]
    BY <1>1, <1>3, <1>6, <2>1 DEF Replay
  <2> QED
    BY <2>2, <2>3, <2>4
<1> QED
  BY <1>4, <1>5, <1>6

\* FindIntent preserves the invariant.
LEMMA FindIntentKeeps ==
  ASSUME AutonomyInv, NEW w \in TickCallers, FindIntent(w)
  PROVE  AutonomyInv'
<1>1. PICK c : c = call[w]
  OBVIOUS
<1>2. c \in CallRow /\ CallSound(c) /\ c.pc = "find" /\ c.tick \in Ticks
  BY <1>1, CallOf DEF FindIntent, CallAt, CallSound
<1>3. CASE intent[c.tick] = NoIntent
  <2>1. PICK d : d = [c EXCEPT !.pc = "tickPolicy"]
    OBVIOUS
  <2>2. d \in CallRow /\ d.pc = "tickPolicy" /\ d.tick = c.tick /\ d.latest = c.latest
    BY <1>2, <2>1 DEF CallRow, CallLabels
  <2>3. CallSound(d)
    BY <1>2, <2>2 DEF CallSound
  <2>4. call' = [call EXCEPT ![w] = d]
    BY <1>1, <1>3, <2>1 DEF FindIntent, CallTo, AutonomyInv, CallsSound
  <2> QED
    BY <1>1, <1>3, <2>2, <2>3, <2>4, CallerMoves DEF FindIntent
<1>4. CASE intent[c.tick] # NoIntent
  <2>1. Replay(w, c.tick, intent[c.tick])
    BY <1>1, <1>4 DEF FindIntent
  <2>2. PICK d \in CallRow : CallSound(d) /\ call' = [call EXCEPT ![w] = d]
    BY <1>2, <1>4, <2>1, ReplaySound
  <2>3. UNCHANGED answers
    BY <2>1 DEF Replay
  <2> QED
    BY <2>2, <2>3, CallerMoves DEF FindIntent
<1> QED
  BY <1>3, <1>4

\* FindConflicting preserves the invariant.
LEMMA FindConflictingKeeps ==
  ASSUME AutonomyInv, NEW w \in TickCallers, FindConflicting(w)
  PROVE  AutonomyInv'
<1>1. PICK t : t = call[w].tick
  OBVIOUS
<1>2. t \in Ticks /\ intent[t] # NoIntent
  BY <1>1, CallOf DEF FindConflicting, CallAt, CallSound
<1>3. Replay(w, t, intent[t])
  BY <1>1 DEF FindConflicting
<1>4. PICK d \in CallRow : CallSound(d) /\ call' = [call EXCEPT ![w] = d]
  BY <1>2, <1>3, ReplaySound
<1>5. UNCHANGED answers
  BY <1>3 DEF Replay
<1> QED
  BY <1>4, <1>5, CallerMoves DEF FindConflicting

\* Telling a caller what was decided keeps the answers sound.
LEMMA AnswerSound ==
  ASSUME AnswersSound, NEW t \in Ticks, NEW s \in Decided, NEW w, Answer(w, t, s),
         intent'[t].status = s, intent'[t].goal = intent[t].goal,
         \A u \in Ticks : intent[u].status \in Decided => intent'[u] = intent[u]
  PROVE  AnswersSound'
<1>1. PICK a : a = [tick |-> t, goal |-> intent[t].goal, status |-> s]
  OBVIOUS
<1>2. answers' = answers \cup {a}
  BY <1>1 DEF Answer
<1>3. a.tick = t /\ a.status = s /\ a.goal = intent[t].goal
  BY <1>1
<1> QED
  BY <1>2, <1>3 DEF AnswersSound

\* The elements of the history of ready decisions.
LEMMA ReadyRows ==
  ASSUME AutonomyInv
  PROVE  /\ Len(readies) \in Nat
         /\ \A k \in 1 .. Len(readies) : /\ readies[k] \in ReadyRow
                                         /\ readies[k].tick \in Ticks /\ readies[k].at \in Nat
                                         /\ intent[readies[k].tick].status = "ready"
                                         /\ intent[readies[k].tick].updated = readies[k].at
<1>1. readies \in Seq(ReadyRow)
  BY DEF AutonomyInv, ReadiesSound
<1>2. Len(readies) \in Nat /\ \A k \in 1 .. Len(readies) : readies[k] \in ReadyRow
  BY <1>1
<1> QED
  BY <1>2 DEF AutonomyInv, ReadiesSound, ReadyRow

\* FindEvent preserves the invariant.
LEMMA FindEventKeeps ==
  ASSUME AutonomyInv, NEW w \in TickCallers, FindEvent(w)
  PROVE  AutonomyInv'
<1>1. PICK c : c = call[w]
  OBVIOUS
<1>2. c \in CallRow /\ CallSound(c) /\ c.pc = "event"
  BY <1>1, CallOf DEF FindEvent, CallAt
<1>3. PICK t \in Ticks : t = c.of
  BY <1>2 DEF CallSound
<1>4. PICK s \in Decided : s = c.seen.status
  BY <1>2 DEF CallSound
<1>5. c.seen = intent[t] /\ intent[t].status = s
  BY <1>2, <1>3, <1>4 DEF CallSound
<1>6. intentEvent[t] = [to |-> c.seen.status, notBefore |-> c.seen.notBefore]
  BY <1>5 DEF AutonomyInv, IntentsSound, EventSound
<1>7. Answer(w, t, s)
  BY <1>1, <1>3, <1>4, <1>6 DEF FindEvent
<1>8. UNCHANGED <<sqlClock, policy, goal, talked, intent, intentEvent, readies>>
  BY DEF FindEvent, autonomyDb
<1>9. AnswersSound'
  BY <1>5, <1>7, <1>8, AnswerSound DEF AutonomyInv
<1>10. LifeTyped' /\ ReadiesSound' /\ ReadyWithinBudget'
  BY <1>8 DEF AutonomyInv, LifeTyped, ReadiesSound, ReadyWithinBudget
<1>11. IntentsSound'
  BY <1>8 DEF AutonomyInv, IntentsSound, IntentSound, EventSound
<1>12. call' = [call EXCEPT ![w] = NoCall] /\ NoCall \in CallRow
  BY <1>7, IdleCall DEF Answer, Return
<1>13. sqlClock \in Nat /\ CallsSound
  BY ClockIsNat DEF AutonomyInv
<1>14. CallSound(NoCall)'
  BY <1>8, IdleCallSound DEF CallSound
<1>15. /\ sqlClock' \in Nat /\ sqlClock' >= sqlClock
       /\ \A u \in Ticks : intent[u] # NoIntent => intent'[u] # NoIntent
       /\ \A u \in Ticks : intent[u].status \in Decided => intent'[u] = intent[u]
  BY <1>8, <1>13
<1>16. CallsSound'
  BY <1>12, <1>13, <1>14, <1>15, CallsStaySound
<1> QED
  BY <1>9, <1>10, <1>11, <1>16 DEF AutonomyInv

\* A new intent is created where there was none.
LEMMA NewIntentKeeps ==
  ASSUME AutonomyInv, NEW w \in TickCallers, NEW t \in Ticks, NEW g \in Goals, NEW f \in Focuses,
         NEW r \in Nat \cup {NoTime}, intent[t] = NoIntent,
         intent' = [intent EXCEPT ![t] =
                      [status |-> "pending", goal |-> g, focus |-> f, recent |-> r,
                       created |-> sqlClock, updated |-> sqlClock, notBefore |-> NoTime]],
         call' = [call EXCEPT ![w] = [NoCall EXCEPT !.pc = "evaluate", !.of = t]],
         UNCHANGED <<sqlClock, policy, goal, talked, intentEvent, answers, readies>>
  PROVE  AutonomyInv'
<1>1. PICK i : i = [status |-> "pending", goal |-> g, focus |-> f, recent |-> r,
                    created |-> sqlClock, updated |-> sqlClock, notBefore |-> NoTime]
  OBVIOUS
<1>2. sqlClock \in Nat /\ intent \in [Ticks -> IntentRow] /\ CallsSound
  BY ClockIsNat DEF AutonomyInv, IntentsSound
<1>3. i \in IntentRow /\ i.status = "pending" /\ i.notBefore = NoTime /\ i.goal = g
      /\ i.updated = sqlClock /\ i.created = sqlClock
  BY <1>1, <1>2 DEF IntentRow
<1>4. intent' = [intent EXCEPT ![t] = i] /\ intent' \in [Ticks -> IntentRow]
  BY <1>1, <1>2, <1>3
<1>5. intent'[t] = i /\ \A u \in Ticks : u # t => intent'[u] = intent[u]
  BY <1>2, <1>4
<1>6. i # NoIntent /\ NoIntent.status \notin Decided /\ "pending" \notin Decided
      /\ "pending" # "deferred"
  BY <1>3, NoIntentTyped DEF Decided, Closed
<1>7. /\ \A u \in Ticks : intent[u] # NoIntent => intent'[u] # NoIntent
      /\ \A u \in Ticks : intent[u].status \in Decided => intent'[u] = intent[u] /\ u # t
  BY <1>5, <1>6
<1>8. LifeTyped' /\ ReadyWithinBudget'
  BY DEF AutonomyInv, LifeTyped, ReadyWithinBudget
<1>9. AnswersSound'
  BY <1>7 DEF AutonomyInv, AnswersSound
<1>10. ReadiesSound'
  <2>1. "ready" \in Decided
    BY DEF Decided
  <2>2. \A k \in 1 .. Len(readies) : readies[k].tick \in Ticks
    BY ReadyRows
  <2> QED
    BY <1>7, <2>1, <2>2 DEF AutonomyInv, ReadiesSound
<1>11. IntentsSound'
  <2>1. ASSUME NEW u \in Ticks PROVE IntentSound(u)' /\ EventSound(u)'
    <3>1. IntentSound(u) /\ EventSound(u)
      BY DEF AutonomyInv, IntentsSound
    <3>2. CASE u = t
      <4>1. intentEvent[t] = NoIntentEvent
        BY <1>6, <3>1, <3>2 DEF EventSound
      <4>2. IntentSound(u)'
        BY <1>2, <1>3, <1>5, <1>6, <3>2 DEF IntentSound
      <4>3. EventSound(u)'
        BY <1>3, <1>5, <1>6, <3>2, <4>1 DEF EventSound
      <4> QED
        BY <4>2, <4>3
    <3>3. CASE u # t
      BY <1>5, <3>1, <3>3 DEF IntentSound, EventSound
    <3> QED
      BY <3>2, <3>3
  <2> QED
    BY <1>4, <2>1 DEF AutonomyInv, IntentsSound
<1>12. PICK n \in CallRow : n = NoCall /\ DOMAIN n.latest = {}
  BY IdleCall
<1>13. PICK d : d = [n EXCEPT !.pc = "evaluate", !.of = t]
  OBVIOUS
<1>14. d \in CallRow /\ d.pc = "evaluate" /\ d.of = t /\ DOMAIN d.latest = {}
  BY <1>12, <1>13 DEF CallRow, CallLabels
<1>15. CallSound(d)'
  BY <1>5, <1>6, <1>14 DEF CallSound
<1>16. call' = [call EXCEPT ![w] = d] /\ sqlClock' \in Nat /\ sqlClock' >= sqlClock
  BY <1>2, <1>12, <1>13
<1>17. CallsSound'
  BY <1>2, <1>7, <1>14, <1>15, <1>16, CallsStaySound
<1> QED
  BY <1>8, <1>9, <1>10, <1>11, <1>17 DEF AutonomyInv

\* CreateIntent preserves the invariant.
LEMMA CreateIntentKeeps ==
  ASSUME AutonomyInv, NEW w \in TickCallers, CreateIntent(w)
  PROVE  AutonomyInv'
<1>1. PICK c : c = call[w]
  OBVIOUS
<1>2. c \in CallRow /\ CallSound(c) /\ c.pc = "create" /\ c.tick \in Ticks /\ c.goal \in Goals
  BY <1>1, CallOf DEF CreateIntent, CallAt, CallSound
<1>3. PICK t \in Ticks : t = c.tick
  BY <1>2
<1>4. UNCHANGED <<sqlClock, policy, goal, talked, intentEvent, readies>>
  BY DEF CreateIntent
<1>5. CASE intent[t] # NoIntent /\ Replay(w, t, intent[t]) /\ UNCHANGED intent
  <2>1. PICK d \in CallRow : CallSound(d) /\ call' = [call EXCEPT ![w] = d]
    BY <1>5, ReplaySound
  <2>2. UNCHANGED answers
    BY <1>5 DEF Replay
  <2> QED
    BY <1>4, <1>5, <2>1, <2>2, CallerMoves DEF autonomyDb
<1>6. CASE /\ intent[t] # NoIntent /\ UNCHANGED <<intent, answers>>
           /\ call' = [call EXCEPT ![w] =
                [NoCall EXCEPT !.pc = "conflict", !.tick = t, !.focus = c.focus]]
  <2>1. PICK n \in CallRow : n = NoCall /\ DOMAIN n.latest = {}
    BY IdleCall
  <2>2. PICK f \in Focuses : f = c.focus
    BY <1>2 DEF CallRow
  <2>3. PICK d : d = [n EXCEPT !.pc = "conflict", !.tick = t, !.focus = f]
    OBVIOUS
  <2>4. d \in CallRow /\ d.pc = "conflict" /\ d.tick = t /\ DOMAIN d.latest = {}
    BY <2>1, <2>3 DEF CallRow, CallLabels
  <2>5. CallSound(d)
    BY <1>6, <2>4 DEF CallSound
  <2>6. call' = [call EXCEPT ![w] = d]
    BY <1>6, <2>1, <2>2, <2>3
  <2> QED
    BY <1>4, <1>6, <2>4, <2>5, <2>6, CallerMoves DEF autonomyDb
<1>7. CASE Return(w) /\ UNCHANGED <<intent, answers>>
  BY <1>4, <1>7, ReturnKeeps DEF autonomyDb
<1>8. CASE /\ intent[t] = NoIntent /\ UNCHANGED answers
           /\ intent' = [intent EXCEPT ![t] =
                [status |-> "pending", goal |-> c.goal, focus |-> c.focus, recent |-> c.recent,
                 created |-> sqlClock, updated |-> sqlClock, notBefore |-> NoTime]]
           /\ call' = [call EXCEPT ![w] = [NoCall EXCEPT !.pc = "evaluate", !.of = t]]
  <2>1. c.focus \in Focuses /\ c.recent \in Nat \cup {NoTime}
    BY <1>2 DEF CallRow
  <2> QED
    BY <1>2, <1>4, <1>8, <2>1, NewIntentKeeps
<1> QED
  BY <1>1, <1>3, <1>5, <1>6, <1>7, <1>8 DEF CreateIntent

\* The ready decisions of a window can be counted.
LEMMA InWindowIsFinite ==
  ASSUME NEW p
  PROVE  IsFiniteSet(InWindow(p)) /\ Cardinality(InWindow(p)) \in Nat
<1>1. IsFiniteSet(Ticks)
  BY FS_Interval, AutonomyAssumption DEF Ticks
<1>2. PICK f : f = [r \in InWindow(p) |-> r[1]]
  OBVIOUS
<1>3. \A r \in InWindow(p) : r[1] \in Ticks /\ r = <<r[1], intent[r[1]].updated>>
  BY DEF InWindow, ReadyTimes
<1>4. f \in [InWindow(p) -> Ticks] /\ \A r, q \in InWindow(p) : f[r] = f[q] => r = q
  BY <1>2, <1>3
<1>5. f \in Injection(InWindow(p), Ticks)
  BY <1>4 DEF Injection, IsInjective
<1>6. IsFiniteSet(InWindow(p))
  BY <1>1, <1>5, FS_Injection
<1> QED
  BY <1>6, FS_CardinalityType

\* Where no gate is closed the policy has room for one more ready decision, now: every
\* ready decision of the history is one that the gates count.
LEMMA RoomForReady ==
  ASSUME AutonomyInv, NEW i, Gates(i, policy) = {}
  PROVE  /\ Cardinality({j \in 1 .. Len(readies) : readies[j].at >= sqlClock - policy.window}) < policy.max
         /\ \A j \in 1 .. Len(readies) : sqlClock >= readies[j].at + policy.gap
<1>1. LifeTyped /\ IntentsSound /\ sqlClock \in Nat
  BY ClockIsNat DEF AutonomyInv
<1>2. policy.max \in Nat /\ policy.window \in Nat /\ policy.gap \in Nat
  BY <1>1, PolicyFields
<1>3. ASSUME NEW j \in 1 .. Len(readies)
      PROVE  <<readies[j].tick, readies[j].at>> \in ReadyTimes /\ readies[j].at \in 0 .. sqlClock
  <2>1. PICK t \in Ticks : t = readies[j].tick
    BY <1>3, ReadyRows
  <2>2. intent[t].status = "ready" /\ intent[t].updated = readies[j].at
    BY <1>3, <2>1, ReadyRows
  <2>3. "ready" \in Decided
    BY DEF Decided
  <2>4. intentEvent[t].to = "ready"
    BY <1>1, <2>2, <2>3 DEF IntentsSound, EventSound
  <2>5. intent[t] # NoIntent
    BY <2>2, NoIntentTyped
  <2>6. intent[t].updated \in 0 .. sqlClock
    BY <1>1, <2>5 DEF IntentsSound, IntentSound
  <2>7. <<t, intent[t].updated>> \in ReadyTimes
    BY <2>4 DEF ReadyTimes
  <2> QED
    BY <2>1, <2>2, <2>6, <2>7
<1>4. ASSUME NEW j \in 1 .. Len(readies)
      PROVE  sqlClock >= readies[j].at + policy.gap
  <2>1. PICK x : x = readies[j].at
    OBVIOUS
  <2>2. x \in 0 .. sqlClock /\ x \in Times(ReadyTimes) /\ ReadyTimes # {}
    <3>1. PICK r : r = <<readies[j].tick, readies[j].at>>
      OBVIOUS
    <3>2. r \in ReadyTimes /\ r[2] = x
      BY <1>3, <2>1, <3>1
    <3> QED
      BY <1>1, <1>3, <2>1, <3>2, ReadyTimesPast
  <2>3. PICK m : m = Max(Times(ReadyTimes))
    OBVIOUS
  <2>4. m \in Nat /\ m >= x
    BY <1>1, <2>2, <2>3, ReadyTimesPast, MaxOfNat
  <2>5. GapGate(policy) = {}
    BY DEF Gates
  <2>6. ~(m + policy.gap > sqlClock)
    BY <2>2, <2>3, <2>5 DEF GapGate
  <2> QED
    BY <1>1, <1>2, <2>1, <2>2, <2>4, <2>6
<1>5. PICK E : E = {j \in 1 .. Len(readies) : readies[j].at >= sqlClock - policy.window}
  OBVIOUS
<1>6. PICK f : f = [j \in E |-> <<readies[j].tick, readies[j].at>>]
  OBVIOUS
<1>7. f \in [E -> InWindow(policy)]
  <2>1. ASSUME NEW j \in E
        PROVE  <<readies[j].tick, readies[j].at>> \in InWindow(policy)
    <3>1. j \in 1 .. Len(readies) /\ readies[j].at >= sqlClock - policy.window
      BY <1>5, <2>1
    <3>2. <<readies[j].tick, readies[j].at>> \in ReadyTimes /\ readies[j].at <= sqlClock
      BY <1>1, <1>3, <3>1
    <3>3. PICK r : r = <<readies[j].tick, readies[j].at>>
      OBVIOUS
    <3>4. r \in ReadyTimes /\ r[2] >= sqlClock - policy.window /\ r[2] <= sqlClock
      BY <3>1, <3>2, <3>3
    <3>5. r \in InWindow(policy)
      BY <3>4 DEF InWindow
    <3> QED
      BY <3>3, <3>5
  <2> QED
    BY <1>6, <2>1
<1>8. \A j, k \in E : f[j] = f[k] => j = k
  <2>1. \A j, k \in 1 .. Len(readies) : j # k => readies[j].tick # readies[k].tick
    BY DEF AutonomyInv, ReadiesSound
  <2> QED
    BY <1>5, <1>6, <2>1
<1>9. f \in Injection(E, InWindow(policy))
  BY <1>7, <1>8 DEF Injection, IsInjective
<1>10. IsFiniteSet(E) /\ Cardinality(E) <= Cardinality(InWindow(policy))
  BY <1>9, InWindowIsFinite, FS_Injection
<1>11. Cardinality(E) \in Nat /\ Cardinality(InWindow(policy)) \in Nat
  BY <1>10, FS_CardinalityType, InWindowIsFinite
<1>12. ~(Cardinality(InWindow(policy)) >= policy.max)
  BY DEF Gates, FrequencyGate
<1>13. Cardinality(E) < policy.max
  BY <1>2, <1>10, <1>11, <1>12
<1> QED
  BY <1>4, <1>5, <1>13

\* So one more ready decision keeps the budget.
LEMMA BudgetStep ==
  ASSUME AutonomyInv, NEW e \in ReadyRow, e.policy = policy, e.at = sqlClock,
         NEW i, Gates(i, policy) = {}, readies' = Append(readies, e)
  PROVE  ReadyWithinBudget'
<1>1. Len(readies) \in Nat /\ readies \in Seq(ReadyRow)
  BY ReadyRows DEF AutonomyInv, ReadiesSound
<1>2. PICK n \in Nat : n = Len(readies)
  BY <1>1
<1>3. /\ Len(readies') = n + 1 /\ readies'[n + 1] = e
      /\ \A j \in 1 .. n : readies'[j] = readies[j]
  BY <1>1, <1>2
<1>4. ASSUME NEW k \in 1 .. n + 1
      PROVE  /\ Cardinality({j \in 1 .. k - 1 : readies'[j].at >= readies'[k].at - readies'[k].policy.window})
                   < readies'[k].policy.max
             /\ \A j \in 1 .. k - 1 : readies'[k].at >= readies'[j].at + readies'[k].policy.gap
  <2>1. CASE k = n + 1
    <3>1. \A j \in 1 .. k - 1 : j \in 1 .. n /\ readies'[j] = readies[j]
      BY <1>2, <1>3, <2>1
    <3>2. 1 .. k - 1 = 1 .. n
      BY <1>2, <2>1
    <3>3. {j \in 1 .. k - 1 : readies'[j].at >= readies'[k].at - readies'[k].policy.window}
          = {j \in 1 .. Len(readies) : readies[j].at >= sqlClock - policy.window}
      BY <1>2, <1>3, <2>1, <3>1, <3>2
    <3>4. readies'[k].policy.max = policy.max /\ readies'[k].policy.gap = policy.gap /\ readies'[k].at = sqlClock
      BY <1>3, <2>1
    <3>5. \A j \in 1 .. k - 1 : readies'[k].at >= readies'[j].at + readies'[k].policy.gap
      BY <1>2, <3>1, <3>4, RoomForReady
    <3> QED
      BY <3>3, <3>4, <3>5, RoomForReady
  <2>2. CASE k # n + 1
    <3>1. k \in 1 .. n /\ \A j \in 1 .. k - 1 : j \in 1 .. n
      BY <1>2, <2>2
    <3>2. \A j \in 1 .. k - 1 : readies'[j] = readies[j]
      BY <1>3, <3>1
    <3>3. readies'[k] = readies[k]
      BY <1>3, <3>1
    <3>4. {j \in 1 .. k - 1 : readies'[j].at >= readies'[k].at - readies'[k].policy.window}
          = {j \in 1 .. k - 1 : readies[j].at >= readies[k].at - readies[k].policy.window}
      BY <3>2, <3>3
    <3>5. /\ Cardinality({j \in 1 .. k - 1 : readies[j].at >= readies[k].at - readies[k].policy.window})
               < readies[k].policy.max
          /\ \A j \in 1 .. k - 1 : readies[k].at >= readies[j].at + readies[k].policy.gap
      BY <1>2, <3>1 DEF AutonomyInv, ReadyWithinBudget
    <3> QED
      BY <3>2, <3>3, <3>4, <3>5
  <2> QED
    BY <2>1, <2>2
<1> QED
  BY <1>3, <1>4 DEF ReadyWithinBudget

\* An evaluation keeps the history of ready decisions sound.
LEMMA EvaluatedReadies ==
  ASSUME AutonomyInv, NEW t \in Ticks, NEW d \in Decided, d = Decision(intent[t]), Evaluated(t, d),
         intent[t].status \notin Decided, UNCHANGED <<sqlClock, policy>>,
         intent'[t].status = d, intent'[t].updated = sqlClock,
         \A u \in Ticks : intent[u].status \in Decided => intent'[u] = intent[u]
  PROVE  ReadiesSound' /\ ReadyWithinBudget'
<1>1. Len(readies) \in Nat /\ readies \in Seq(ReadyRow)
  BY ReadyRows DEF AutonomyInv, ReadiesSound
<1>2. "ready" \in Decided
  BY DEF Decided
<1>3. \A k \in 1 .. Len(readies) :
        /\ readies[k].tick \in Ticks /\ readies[k].tick # t
        /\ intent'[readies[k].tick].status = "ready"
        /\ intent'[readies[k].tick].updated = readies[k].at
  BY <1>2, ReadyRows
<1>4. CASE d # "ready"
  <2>1. readies' = readies
    BY <1>4 DEF Evaluated
  <2> QED
    BY <1>3, <2>1 DEF AutonomyInv, ReadiesSound, ReadyWithinBudget
<1>5. CASE d = "ready"
  <2>1. PICK e : e = [tick |-> t, at |-> sqlClock, policy |-> policy]
    OBVIOUS
  <2>2. e \in ReadyRow /\ e.tick = t /\ e.at = sqlClock /\ e.policy = policy
    BY <2>1, ClockIsNat DEF ReadyRow, AutonomyInv, LifeTyped
  <2>3. readies' = Append(readies, e)
    BY <1>5, <2>1 DEF Evaluated
  <2>4. Gates(intent[t], policy) = {}
    BY <1>5, DecisionIsOne
  <2>5. ReadyWithinBudget'
    BY <2>2, <2>3, <2>4, BudgetStep
  <2>6. PICK n \in Nat : n = Len(readies)
    BY <1>1
  <2>7. /\ Len(readies') = n + 1 /\ readies'[n + 1] = e /\ readies' \in Seq(ReadyRow)
        /\ \A j \in 1 .. n : readies'[j] = readies[j]
    BY <1>1, <2>2, <2>3, <2>6
  <2>8. \A k \in 1 .. n + 1 : k = n + 1 \/ k \in 1 .. n
    BY <2>6
  <2>9. \A k \in 1 .. n + 1 : /\ intent'[readies'[k].tick].status = "ready"
                              /\ intent'[readies'[k].tick].updated = readies'[k].at
    BY <1>3, <1>5, <2>2, <2>6, <2>7, <2>8
  <2>10. \A j, k \in 1 .. n + 1 : j # k => readies'[j].tick # readies'[k].tick
    <3>1. \A j, k \in 1 .. n : j # k => readies[j].tick # readies[k].tick
      BY <2>6 DEF AutonomyInv, ReadiesSound
    <3> QED
      BY <1>3, <2>2, <2>6, <2>7, <2>8, <3>1
  <2>11. ReadiesSound'
    BY <2>7, <2>9, <2>10 DEF ReadiesSound
  <2> QED
    BY <2>5, <2>11
<1> QED
  BY <1>4, <1>5

\* An evaluation that finds no event preserves the invariant.
LEMMA EvaluatedKeeps ==
  ASSUME AutonomyInv, NEW w \in TickCallers, NEW t \in Ticks, NEW d \in Decided,
         intent[t] # NoIntent, ~AlreadyEvaluated(t), d = Decision(intent[t]),
         Evaluated(t, d), Answer(w, t, d), UNCHANGED <<sqlClock, policy, goal, talked>>
  PROVE  AutonomyInv'
<1>1. LifeTyped /\ IntentsSound /\ CallsSound /\ AnswersSound /\ sqlClock \in Nat
  BY ClockIsNat DEF AutonomyInv
<1>2. intent \in [Ticks -> IntentRow] /\ intent[t] \in IntentRow /\ intent[t].recent \in Nat \cup {NoTime}
  BY <1>1 DEF IntentsSound, IntentRow
<1>3. intent[t].status \notin Decided
  <2>1. EventSound(t)
    BY <1>1 DEF IntentsSound
  <2>2. CASE intent[t].status \in Decided
    <3>1. intentEvent[t].to # "none"
      BY <2>1, <2>2 DEF EventSound, Decided, Closed
    <3> QED
      BY <3>1 DEF AlreadyEvaluated, NoIntentEvent
  <2> QED
    BY <2>2
<1>4. PICK n : n = IF d = "deferred" THEN Max(Gates(intent[t], policy)) ELSE NoTime
  OBVIOUS
<1>5. n \in Nat \cup {NoTime} /\ (n # NoTime <=> d = "deferred") /\ (d = "deferred" => n >= sqlClock)
  <2>1. CASE d = "deferred"
    <3>1. policy.max # 0 /\ Gates(intent[t], policy) # {}
      BY <2>1, DecisionIsOne
    <3>2. n \in Nat /\ n >= sqlClock
      BY <1>1, <1>2, <1>4, <2>1, <3>1, GatesAreAhead
    <3> QED
      BY <2>1, <3>2 DEF NoTime
  <2>2. CASE d # "deferred"
    BY <1>4, <2>2
  <2> QED
    BY <2>1, <2>2
<1>6. PICK i : i = [intent[t] EXCEPT !.status = d, !.updated = sqlClock, !.notBefore = n]
  OBVIOUS
<1>7. /\ i \in IntentRow /\ i.status = d /\ i.updated = sqlClock /\ i.notBefore = n
      /\ i.goal = intent[t].goal /\ i.created = intent[t].created
  BY <1>1, <1>2, <1>5, <1>6 DEF IntentRow
<1>8. intent' = [intent EXCEPT ![t] = i]
  BY <1>2, <1>4, <1>6 DEF Evaluated
<1>9. /\ intent' \in [Ticks -> IntentRow] /\ intent'[t] = i
      /\ \A u \in Ticks : u # t => intent'[u] = intent[u]
  BY <1>2, <1>7, <1>8
<1>10. PICK e : e = [to |-> d, notBefore |-> n]
  OBVIOUS
<1>11. /\ intentEvent' \in [Ticks -> [to : {"none"} \cup Decided, notBefore : Nat \cup {NoTime}]]
       /\ intentEvent'[t] = e /\ \A u \in Ticks : u # t => intentEvent'[u] = intentEvent[u]
  <2>1. intentEvent' = [intentEvent EXCEPT ![t] = e]
    BY <1>7, <1>9, <1>10 DEF Evaluated
  <2>2. e \in [to : {"none"} \cup Decided, notBefore : Nat \cup {NoTime}]
    BY <1>5, <1>10
  <2> QED
    BY <1>1, <2>1, <2>2 DEF IntentsSound
<1>12. i # NoIntent
  <2>1. "none" \notin Decided
    BY DEF Decided, Closed
  <2> QED
    BY <1>7, <2>1, NoIntentTyped
<1>13. /\ \A u \in Ticks : intent[u] # NoIntent => intent'[u] # NoIntent
       /\ \A u \in Ticks : intent[u].status \in Decided => intent'[u] = intent[u]
  BY <1>3, <1>9, <1>12
<1>14. LifeTyped'
  BY <1>1 DEF LifeTyped
<1>15. IntentsSound'
  <2>1. ASSUME NEW u \in Ticks PROVE IntentSound(u)' /\ EventSound(u)'
    <3>1. IntentSound(u) /\ EventSound(u)
      BY <1>1 DEF IntentsSound
    <3>2. CASE u = t
      <4>1. IntentSound(u)'
        <5>1. intent[t].goal \in Goals /\ intent[t].created \in 0 .. sqlClock
          BY <3>1, <3>2 DEF IntentSound
        <5>2. d # "none"
          BY DEF Decided, Closed
        <5> QED
          BY <1>1, <1>5, <1>7, <1>9, <3>2, <5>1, <5>2 DEF IntentSound
      <4>2. EventSound(u)'
        BY <1>7, <1>9, <1>10, <1>11, <3>2 DEF EventSound
      <4> QED
        BY <4>1, <4>2
    <3>3. CASE u # t
      BY <1>9, <1>11, <3>1, <3>3 DEF IntentSound, EventSound
    <3> QED
      BY <3>2, <3>3
  <2> QED
    BY <1>9, <1>11, <2>1 DEF IntentsSound
<1>16. AnswersSound'
  BY <1>1, <1>7, <1>9, <1>13, AnswerSound
<1>17. CallsSound'
  <2>1. call' = [call EXCEPT ![w] = NoCall] /\ NoCall \in CallRow
    BY IdleCall DEF Answer, Return
  <2>2. CallSound(NoCall)'
    BY IdleCall DEF CallSound
  <2>3. sqlClock' \in Nat /\ sqlClock' >= sqlClock
    BY <1>1
  <2> QED
    BY <1>1, <1>13, <2>1, <2>2, <2>3, CallsStaySound
<1>18. ReadiesSound' /\ ReadyWithinBudget'
  BY <1>3, <1>7, <1>9, <1>13, EvaluatedReadies
<1> QED
  BY <1>14, <1>15, <1>16, <1>17, <1>18 DEF AutonomyInv

\* Evaluate preserves the invariant, replayed or not.
LEMMA EvaluateKeeps ==
  ASSUME AutonomyInv, NEW w \in TickCallers, Evaluate(w)
  PROVE  AutonomyInv'
<1>1. PICK c : c = call[w]
  OBVIOUS
<1>2. c \in CallRow /\ CallSound(c) /\ c.pc = "evaluate"
  BY <1>1, CallOf DEF Evaluate, CallAt
<1>3. PICK t \in Ticks : t = c.of
  BY <1>2 DEF CallSound
<1>4. intent[t] # NoIntent
  BY <1>2, <1>3 DEF CallSound
<1>5. UNCHANGED <<sqlClock, policy, goal, talked>>
  BY DEF Evaluate
<1>6. CASE AlreadyEvaluated(t) /\ Answer(w, t, intent[t].status) /\ UNCHANGED <<intent, intentEvent, readies>>
  <2>1. intent[t].status \in Decided
    BY <1>6 DEF AutonomyInv, IntentsSound, EventSound, AlreadyEvaluated
  <2>2. PICK s \in Decided : s = intent[t].status
    BY <2>1
  <2>3. AnswersSound'
    BY <1>6, <2>2, AnswerSound DEF AutonomyInv
  <2>4. LifeTyped' /\ ReadiesSound' /\ ReadyWithinBudget'
    BY <1>5, <1>6 DEF AutonomyInv, LifeTyped, ReadiesSound, ReadyWithinBudget
  <2>5. IntentsSound'
    BY <1>5, <1>6 DEF AutonomyInv, IntentsSound, IntentSound, EventSound
  <2>6. call' = [call EXCEPT ![w] = NoCall] /\ NoCall \in CallRow
    BY <1>6, IdleCall DEF Answer, Return
  <2>7. sqlClock \in Nat /\ CallsSound
    BY ClockIsNat DEF AutonomyInv
  <2>8. CallSound(NoCall)'
    BY IdleCall DEF CallSound
  <2>9. /\ sqlClock' \in Nat /\ sqlClock' >= sqlClock
        /\ \A u \in Ticks : intent[u] # NoIntent => intent'[u] # NoIntent
        /\ \A u \in Ticks : intent[u].status \in Decided => intent'[u] = intent[u]
    BY <1>5, <1>6, <2>7
  <2>10. CallsSound'
    BY <2>6, <2>7, <2>8, <2>9, CallsStaySound
  <2> QED
    BY <2>3, <2>4, <2>5, <2>10 DEF AutonomyInv
<1>7. CASE ~AlreadyEvaluated(t) /\ Evaluated(t, Decision(intent[t])) /\ Answer(w, t, Decision(intent[t]))
  <2>1. PICK d \in Decided : d = Decision(intent[t])
    BY DecisionIsOne
  <2> QED
    BY <1>4, <1>5, <1>7, <2>1, EvaluatedKeeps
<1> QED
  BY <1>1, <1>3, <1>6, <1>7 DEF Evaluate

\* What happens around the ticks preserves the invariant.
LEMMA LifeMoves ==
  ASSUME AutonomyInv, LifeTyped', sqlClock' >= sqlClock,
         UNCHANGED <<intent, intentEvent, call, answers, readies>>
  PROVE  AutonomyInv'
<1>1. sqlClock \in Nat /\ sqlClock' \in Nat
  BY AutonomyAssumption DEF AutonomyInv, LifeTyped
<1>2. AnswersSound' /\ ReadiesSound' /\ ReadyWithinBudget'
  BY DEF AutonomyInv, AnswersSound, ReadiesSound, ReadyWithinBudget
<1>3. IntentsSound'
  <2>1. 0 .. sqlClock \subseteq 0 .. sqlClock'
    BY <1>1
  <2> QED
    BY <2>1 DEF AutonomyInv, IntentsSound, IntentSound, EventSound
<1>4. CallsSound'
  <2>1. call' \in [TickCallers -> CallRow]
    BY DEF AutonomyInv, CallsSound
  <2>2. ASSUME NEW x \in TickCallers PROVE CallSound(call[x])'
    <3>1. PICK c : c = call[x]
      OBVIOUS
    <3>2. c \in CallRow /\ CallSound(c)
      BY <3>1, CallOf
    <3>3. CallSound(c)'
      BY <1>1, <3>2, CallStaysSound
    <3> QED
      BY <3>1, <3>3 DEF CallSound
  <2> QED
    BY <2>1, <2>2 DEF CallsSound
<1> QED
  BY <1>2, <1>3, <1>4 DEF AutonomyInv

\* Every step preserves the invariant.
LEMMA AutonomyInvStep == AutonomyInv /\ [AutonomyNext]_autonomyVars => AutonomyInv'
<1> SUFFICES ASSUME AutonomyInv, [AutonomyNext]_autonomyVars PROVE AutonomyInv'
  OBVIOUS
<1>0. LifeTyped /\ sqlClock \in Nat /\ MaxNow \in Nat
  BY ClockIsNat, AutonomyAssumption DEF AutonomyInv
<1>1. ASSUME NEW w \in TickCallers, TickStep(w) PROVE AutonomyInv'
  BY <1>1, ReadFocusPolicyKeeps, ObserveKeeps, FindIntentKeeps, ReadTickPolicyKeeps, ReadGoalsKeeps,
     ReadLatestKeeps, SelectCandidateKeeps, ReadEpisodeKeeps, CreateIntentKeeps, FindConflictingKeeps,
     FindEventKeeps, EvaluateKeeps DEF TickStep
<1>2. ASSUME NEW w \in TickCallers, TickCrash(w) PROVE AutonomyInv'
  BY <1>2, ReturnKeeps DEF TickCrash
<1>3. ASSUME NEW w \in TickCallers, NEW t \in Ticks, StartTick(w, t) PROVE AutonomyInv'
  BY <1>3, StartTickKeeps
<1>4. ASSUME NEW p \in Policies, SetPolicy(p) PROVE AutonomyInv'
  <2>1. LifeTyped'
    BY <1>0, <1>4 DEF SetPolicy, LifeTyped
  <2> QED
    BY <1>0, <1>4, <2>1, LifeMoves DEF SetPolicy
<1>5. ASSUME NEW g \in Goals, GoalAppears(g) \/ CloseGoal(g) PROVE AutonomyInv'
  <2>1. LifeTyped'
    BY <1>0, <1>5 DEF GoalAppears, CloseGoal, LifeTyped
  <2> QED
    BY <1>0, <1>5, <2>1, LifeMoves DEF GoalAppears, CloseGoal
<1>6. ASSUME Talk PROVE AutonomyInv'
  <2>1. LifeTyped'
    BY <1>0, <1>6 DEF Talk, LifeTyped
  <2> QED
    BY <1>0, <1>6, <2>1, LifeMoves DEF Talk
<1>7. ASSUME ClockAdvances PROVE AutonomyInv'
  <2>1. LifeTyped'
    BY <1>0, <1>7 DEF ClockAdvances, LifeTyped, autonomyDb
  <2> QED
    BY <1>0, <1>7, <2>1, LifeMoves DEF ClockAdvances, autonomyDb
<1>8. CASE UNCHANGED autonomyVars
  <2>1. LifeTyped'
    BY <1>0, <1>8 DEF autonomyVars, LifeTyped
  <2> QED
    BY <1>0, <1>8, <2>1, LifeMoves DEF autonomyVars
<1> QED
  BY <1>1, <1>2, <1>3, <1>4, <1>5, <1>6, <1>7, <1>8 DEF AutonomyNext

\* The invariant implies the safety of the ticks.
LEMMA AutonomyInvIsSafe == AutonomyInv => AutonomySafe
<1> SUFFICES ASSUME AutonomyInv PROVE AutonomySafe
  OBVIOUS
<1>1. AutonomyTypeOK
  <2>1. \A t \in Ticks : intent[t] \in IntentRow /\ IntentSound(t)
    BY DEF AutonomyInv, IntentsSound
  <2> QED
    BY <2>1 DEF AutonomyInv, AutonomyTypeOK, LifeTyped, IntentRow, IntentSound
<1>2. SameTickSameAnswer
  BY DEF AutonomyInv, AnswersSound, SameTickSameAnswer
<1> QED
  BY <1>1, <1>2 DEF AutonomyInv, AutonomySafe

\* However many callers evaluate at once, recover each other's intents and repeat their
\* ticks, all are told the same decision of an intent, and no window of the policy in force
\* holds more ready decisions than it allows, nor two that are closer than its gap.
THEOREM BudgetKept == AutonomySpec => []AutonomySafe
<1>1. AutonomyInit => AutonomyInv
  BY InitAutonomy
<1>2. AutonomyInv /\ [AutonomyNext]_autonomyVars => AutonomyInv'
  BY AutonomyInvStep
<1>3. AutonomyInv => AutonomySafe
  BY AutonomyInvIsSafe
<1> QED
  BY <1>1, <1>2, <1>3, PTL DEF AutonomySpec

=============================================================================
