------------------------------ MODULE MCStorage ------------------------------
(***************************************************************************)
(* Model checking of the six parts that keep the life's data: the data     *)
(* root and its move, the opening and upgrade of the database, the rebuild *)
(* of the vector generation, the extraction of candidates, the autonomy    *)
(* tick and the life-intent ledger.  The parts share no variable, so one   *)
(* run checks them side by side: a behaviour chooses a part at the start   *)
(* and takes the steps of that part only, and the state graph is the       *)
(* disjoint union of the graphs of the parts.                              *)
(***************************************************************************)
EXTENDS DataRoot, StorageUpgrade, GenerationRebuild, CandidateExtraction, Autonomy,
        LifeIntent, TLC

CONSTANTS
    Parts,               \* the parts of this run
    home, usb, disk,     \* the default data root and two others
    legacy, middle, latest1, latest2, \* binaries of schemas 12, 14 and 30
    g1, p1, s1, a1       \* a goal, a plan, a step and an action

VARIABLE part   \* the part that runs

\* A legacy binary, a coordinated one that knows claim identities but no
\* resolutions, and the current one.
MCMaxOf == [p \in Procs |-> CASE p = legacy -> 12 [] p = middle -> 14 [] OTHER -> 30]

OneContent == {"tea"}
SomeContents == {"tea", "coffee"}
BothModes == {"deterministic", "llm"}
OnlyLlm == {"llm"}

MCKindOf == [x \in Entities |->
    CASE x = g1 -> "goal" [] x = p1 -> "plan" [] x = s1 -> "step" [] x = a1 -> "action"]

Policy(e, dnd, m, w, g) ==
    [enabled |-> e, dnd |-> dnd, max |-> m, window |-> w, gap |-> g]

\* One ready check-in a minute, and two that keep two minutes apart.
Budgets == {Policy(TRUE, FALSE, 1, 1, 0), Policy(TRUE, FALSE, 2, 1, 2)}

\* An open policy, do-not-disturb, a zero budget and a disabled policy.
PolicyStates == {Policy(TRUE, FALSE, 2, 1, 0), Policy(TRUE, TRUE, 1, 1, 0),
                 Policy(TRUE, FALSE, 0, 1, 0), Policy(FALSE, FALSE, 1, 1, 0)}

\* Memories, messages, events and callers have no order among them.
Symmetry ==
    UNION {Permutations(Memories), Permutations(Messages), Permutations(Workers),
           Permutations(TickCallers), Permutations(Events), Permutations(Callers)}

-----------------------------------------------------------------------------

\* A part that does not run starts in one of its initial states only.
Init ==
    /\ part \in Parts
    /\ DataRootInit /\ UpgradeInit /\ RebuildInit /\ ExtractionInit /\ AutonomyInit
    /\ LifeIntentInit
    /\ part # "upgrade" => db = Empty(30)
    /\ part # "rebuild" => active = Nothing
    /\ part # "autonomy" => policy = NoPolicy /\ talked = NoTime

Next ==
    \/ part = "root" /\ DataRootNext
         /\ UNCHANGED <<part, upgradeVars, rebuildVars, extractionVars, autonomyVars, lifeIntentVars>>
    \/ part = "upgrade" /\ UpgradeNext
         /\ UNCHANGED <<part, dataRootVars, rebuildVars, extractionVars, autonomyVars, lifeIntentVars>>
    \/ part = "rebuild" /\ RebuildNext
         /\ UNCHANGED <<part, dataRootVars, upgradeVars, extractionVars, autonomyVars, lifeIntentVars>>
    \/ part = "extraction" /\ ExtractionNext
         /\ UNCHANGED <<part, dataRootVars, upgradeVars, rebuildVars, autonomyVars, lifeIntentVars>>
    \/ part = "autonomy" /\ AutonomyNext
         /\ UNCHANGED <<part, dataRootVars, upgradeVars, rebuildVars, extractionVars, lifeIntentVars>>
    \/ part = "intent" /\ LifeIntentNext
         /\ UNCHANGED <<part, dataRootVars, upgradeVars, rebuildVars, extractionVars, autonomyVars>>

storageVars == <<part, dataRootVars, upgradeVars, rebuildVars, extractionVars,
                 autonomyVars, lifeIntentVars>>

Spec == Init /\ [][Next]_storageVars

\* Every process of an upgrade opens the database step by step and is closed in
\* the end.
UpgradeFairness ==
    \A p \in Procs :
        /\ WF_upgradeVars(part = "upgrade" /\ OpenStep(p))
        /\ WF_upgradeVars(part = "upgrade" /\ Close(p))

\* Every step of the rebuild ends, and the deadline comes.
RebuildFairness ==
    /\ WF_rebuildVars(part = "rebuild" /\ Rebuild)
    /\ WF_rebuildVars(part = "rebuild" /\ DeadlinePasses)

\* The commands run to their end, and time passes.
ExtractionFairness ==
    /\ \A w \in Workers : WF_extractionVars(part = "extraction" /\ AttemptStep(w))
    /\ WF_extractionVars(part = "extraction" /\ Tick)

\* A started call of a tick runs on.
AutonomyFairness ==
    \A w \in TickCallers : WF_autonomyVars(part = "autonomy" /\ TickStep(w))

\* What is under way goes on.  Nothing is ever asked for again: what a property needs
\* of users, callers and the provider is its own antecedent.
FairSpec ==
    /\ Spec
    /\ UpgradeFairness /\ RebuildFairness /\ ExtractionFairness /\ AutonomyFairness

-----------------------------------------------------------------------------

\* What no step may do in the parts of this run: leave a failed move behind,
\* upgrade beside an earlier connection, pay twice for an embedding, give the
\* gate back under a live rebuild, touch what is over, or reopen what is closed.
StorageSteps ==
    /\ FailedIsUndone /\ NobodySinceBegin
    /\ NeverAsksAgain /\ GateOutlivesCandidate /\ OverIsFinal
    /\ RunsOnlyAdvance /\ ClosedStaysClosed

\* Repeated ticks of one caller decide what they created, one check-in for a goal.
TicksSettle == PendingIsDecided /\ []OneOpenPerGoal
==============================================================================
