----------------------------- MODULE MCBoundary -----------------------------
(***************************************************************************)
(* Model checking of what must happen in the end where the application     *)
(* meets the user, the provider and the agent: the three parts of          *)
(* MCConsent and the Vita session, one part in each behaviour.             *)
(***************************************************************************)
EXTENDS MCConsent, VitaSession

\* As for the other parts, a session that does not run has one initial state.
Init ==
    /\ ConsentInit /\ SessionInit
    /\ part # "session" => trouble = CHOOSE T \in Troubles : TRUE

Next ==
    \/ ConsentNext /\ UNCHANGED sessionVars
    \/ part = "session" /\ SessionNext /\ UNCHANGED consentVars

\* Workers and executors of a living process run on; the user answers a
\* pending recovery as long as there is one.
RecoveryFairness ==
    /\ \A x \in Txs : WF_recoveryVars(part = "recovery" /\ TxStep(x))
    /\ \A q \in Recoverers :
         /\ WF_recoveryVars(part = "recovery" /\ RecStep(q))
         /\ WF_recoveryVars(part = "recovery" /\ \E x \in Txs : AskRecovery(q, x))

\* The runtime polls the command to its end, the main thread finishes the
\* command it serves, and a user who is offered the abandonment again and
\* again takes it.
VisionFairness ==
    /\ WF_visionVars(part = "vision" /\ ExecuteStep)
    /\ WF_visionVars(part = "vision" /\ DisarmIfBound)
    /\ SF_visionVars(part = "vision" /\ Abandon)

\* The threads run, and clock and recovery calls go on: the commands are
\* served by the async runtime, and a user who got no answer asks again with
\* the same token.
ConfirmFairness ==
    /\ \A w \in Callers : WF_allVars(part = "confirmation" /\ CallStep(w))
    /\ WF_allVars(part = "confirmation" /\ Tick)
    /\ \A t \in Tokens :
         WF_allVars(part = "confirmation" /\ \E w \in Callers : BeginAttempt(w, t))

\* Threads that can move do; time passes.  The user and Codex owe nothing.
SessionFairness ==
    /\ WF_sessionVars(part = "session" /\ HostReader)
    /\ WF_sessionVars(part = "session" /\ HostMain)
    /\ WF_sessionVars(part = "session" /\ Retire)
    /\ WF_sessionVars(part = "session" /\ Expiry)
    /\ WF_sessionVars(part = "session" /\ Router)
    /\ WF_sessionVars(part = "session" /\ CommandLoop)
    /\ WF_sessionVars(part = "session" /\ ConfirmationLoop)
    /\ WF_sessionVars(part = "session" /\ Lapse)
    /\ \A t \in Turns : WF_sessionVars(part = "session" /\ Task(t))
    /\ \A c \in Calls : WF_sessionVars(part = "session" /\ Tool(c))

FairSpec ==
    /\ Init /\ [][Next]_<<consentVars, sessionVars>>
    /\ RecoveryFairness /\ VisionFairness /\ ConfirmFairness /\ SessionFairness

-----------------------------------------------------------------------------

\* What the user agreed to is carried out or given up: pictures and tokens alike.
ConsentEnds == DeliveryEnds /\ TokensSettle
=============================================================================
