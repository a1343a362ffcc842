------------------------------ MODULE MCConsent ------------------------------
(***************************************************************************)
(* Model checking of the three parts in which the application does         *)
(* something only after the user has agreed to exactly that: a change of a *)
(* workspace file and its recovery, the delivery of a screen picture, and  *)
(* the confirmation of a memory candidate.  The parts share no variable,   *)
(* so one run checks them side by side: a behaviour chooses a part at the  *)
(* start and takes the steps of that part only, and the state graph is the *)
(* disjoint union of the graphs of the parts.  A property of a part reads  *)
(* the part's own variables; where another part runs it sees the initial   *)
(* state for ever.                                                         *)
(***************************************************************************)
EXTENDS WorkspaceRecovery, VisionDelivery, Confirmation, TLC

CONSTANTS
    Parts,      \* the parts of this run
    f1, f2, c1, c2, x1, x2, q1, p1, p2,  \* of the workspace
    a1, a2, d1, d2                       \* of the pictures

VARIABLE part   \* the part that runs

consentVars == <<part, recoveryVars, visionVars, allVars>>

\* Every executor of the workspace tool in one process, or a process for each
\* replacement.
OneProcess == [e \in Txs \cup Recoverers |-> p1]
TwoProcesses == x1 :> p1 @@ x2 :> p2 @@ [q \in Recoverers |-> p1]

OneContent == {"tea"}
SomeContents == {"tea", "coffee"}

Symmetry ==
    UNION {Permutations(FileContents), Permutations(Attempts), Permutations(Destinations),
           Permutations(Callers)}

-----------------------------------------------------------------------------

\* A part that does not run starts in one of its initial states only.
ConsentInit ==
    /\ part \in Parts
    /\ RecoveryInit /\ VisionInit /\ ConfirmInit
    /\ part # "recovery" => bound = f1 /\ content = [o \in Objects |-> c1]
    /\ part # "vision" => dest = d1

ConsentNext ==
    /\ \/ part = "recovery" /\ RecoveryNext /\ UNCHANGED <<visionVars, allVars>>
       \/ part = "vision" /\ VisionNext /\ UNCHANGED <<recoveryVars, allVars>>
       \/ part = "confirmation" /\ ConfirmNext /\ UNCHANGED <<recoveryVars, visionVars>>
    /\ UNCHANGED part

ConsentSpec == ConsentInit /\ [][ConsentNext]_consentVars

-----------------------------------------------------------------------------

\* What no step may do in the parts of this run: destroy a content nobody named,
\* or send a picture again that the provider is known to have.
ConsentSteps == OverwritesOnlyNamed /\ NoResendAfterObserved
==============================================================================
