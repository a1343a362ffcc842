----------------------------- MODULE VitaSession -----------------------------
(***************************************************************************)
(* One session of the Vita agent: the Host inside the Tauri application,   *)
(* the sidecar process that runs Codex, and the two pipes between them.    *)
(*                                                                         *)
(* Host (src-tauri/src/vita_sidecar.rs).  Three threads share the session: *)
(* the main thread, on which the Tauri commands run one after another      *)
(* (start a turn, confirm, deny, cancel, stop, flip the capability in      *)
(* Settings); the reader, which handles the sidecar's frames; and the      *)
(* expiry thread.  turn_authority is the mutex every decision is made      *)
(* under; active_turn_id, which the window shows, is written after it has  *)
(* been released.                                                          *)
(*                                                                         *)
(* Sidecar (vita-agent/src/sidecar.rs, runtime_composition.rs, d29h7.rs).  *)
(* The router routes a reply to the request that waits for it and          *)
(* everything else to the command loop; the loop starts and cancels turns; *)
(* each turn has a task around run_turn; a tool call of Codex asks the     *)
(* Host to evaluate, to confirm, to issue a grant and to revalidate it     *)
(* before it launches the process; the confirmation loop carries the       *)
(* second question.  Codex itself is external: it may call the tool at any *)
(* time while its turn is open.                                            *)
(*                                                                         *)
(* Turns are numbered in the order the Host begins them; the Codex turn of *)
(* the task of turn t is also t.  A call is <<t, n>>, the n-th call of     *)
(* Codex turn t, and stands for its whole process binding.                 *)
(***************************************************************************)
EXTENDS Integers, Sequences, FiniteSets

CONSTANTS
    MaxTurns,     \* turns the user starts
    NCalls,       \* tool calls Codex makes in a turn
    MaxRev,       \* revisions of the capability authorization row
    MaxCancels,   \* cancel and stop commands
    CmdCap,       \* capacity of the sidecar's command channel (8 in the code)
    Troubles      \* the combinations of troubles a behaviour may meet

ASSUME SessionBounds ==
    /\ MaxTurns \in Nat \ {0} /\ NCalls \in Nat \ {0}
    /\ MaxRev \in Nat \ {0} /\ MaxCancels \in Nat /\ CmdCap \in Nat \ {0}
    /\ Troubles \subseteq SUBSET {"deny", "stop", "lapse", "timeout", "slow", "crash"}

VARIABLES
    trouble,   \* what may go wrong in this behaviour: the user denies or stops, a
               \* deadline lapses, run_turn times out after its 300 seconds, a request
               \* waits longer than AUTHORITY_REQUEST_TIMEOUT, the sidecar crashes
    root,      \* D28 row of the capability: on or off, and its revision
    auth,      \* turn_authority: state, Host turn, Codex turn it is bound to
    shownTurn,     \* active_turn_id: the turn the window shows, 0 for none
    pend,      \* pending confirmations: at most one, a set of [turn, call]
    appr,      \* approvals: a set of [turn, call, rev]
    grants,    \* grants not used yet: a set of [turn, call, rev]
    ticket,    \* calls the expiry thread is scheduled for: at most one
    hand,      \* calls whose ticket the expiry thread has taken
    closed,    \* the session is retired
    writer,    \* the Host's end of the pipe to the sidecar is open
    reader,    \* where the Host's reader thread is
    main,      \* where the command on the main thread is
    toV, toH,  \* the pipes
    cmds,      \* command channel of the sidecar
    ident,     \* active_identity: the turn the sidecar works for, 0 for none
    gateway,   \* turn the gateway credential is active for, 0 for none
    owner,     \* turn whose task TurnOwner holds, 0 for none
    loop,      \* where the command loop is
    task,      \* for each turn, where its task is and what it returned
    codex,     \* for each turn, its Codex turn
    running,   \* VitaAgentRuntime.active
    thread,    \* VitaAgentRuntime.active_thread, 0 for none
    call,      \* for each call, where it is
    lease,     \* calls that hold the process admission: at most one
    queue,     \* confirmation channel of the bridge: at most one call
    asking,    \* where the confirmation loop is
    late,      \* calls whose confirmation deadline has passed
    lateGrant, \* calls whose grant deadline has passed
    dead,      \* the sidecar process is gone
    turns, cancels,     \* what the user has done so far
    confirmed, ran      \* history: confirmations given, processes allowed

host == <<root, auth, shownTurn, pend, appr, grants, ticket, hand, closed, writer,
          reader, main>>
sidecar == <<cmds, ident, gateway, owner, loop, task, codex, running, thread,
             call, lease, queue, asking, dead>>
rest == <<late, lateGrant, turns, cancels, confirmed, ran, trouble>>
sessionVars == <<host, sidecar, toV, toH, rest>>

Turns == 1 .. MaxTurns
Calls == Turns \X (1 .. NCalls)

\* Frames.  TurnState Starting, Running and WaitingForToolConfirmation are
\* "live"; TurnCompleted and TurnFailed(Failed) are "ended"; TurnState and
\* TurnFailed with phase Cancelled are "cancelled".
About(k, t) == [k |-> k, turn |-> t]
AskFrame(k, t, c, r) == [k |-> k, turn |-> t, call |-> c, rev |-> r]
ReplyFrame(k, c, ok, r) == [k |-> k, call |-> c, ok |-> ok, rev |-> r]
Replies == {"scope", "decision", "issued", "revalidated"}

SessionInit ==
    /\ trouble \in Troubles
    /\ root = [on |-> TRUE, rev |-> 1]
    /\ auth = [st |-> "Idle", turn |-> 0, codex |-> 0]
    /\ shownTurn = 0 /\ pend = {} /\ appr = {} /\ grants = {}
    /\ ticket = {} /\ hand = {}
    /\ closed = FALSE /\ writer = TRUE
    /\ reader = [pc |-> "read"] /\ main = [pc |-> "idle"]
    /\ toV = <<>> /\ toH = <<>> /\ cmds = <<>>
    /\ ident = 0 /\ gateway = 0 /\ owner = 0
    /\ loop = [pc |-> "idle", turn |-> 0]
    /\ task = [t \in Turns |-> [pc |-> "none", res |-> "none",
                                cancelled |-> FALSE]]
    /\ codex = [t \in Turns |-> "none"]
    /\ running = FALSE /\ thread = 0
    /\ call = [c \in Calls |-> [pc |-> "none", token |-> FALSE,
                                cur |-> FALSE, ans |-> -1]]
    /\ lease = {} /\ queue = {}
    /\ asking = [pc |-> "idle"]
    /\ late = {} /\ lateGrant = {} /\ dead = FALSE
    /\ turns = 0 /\ cancels = 0
    /\ confirmed = {} /\ ran = {}

-----------------------------------------------------------------------------
(***************************************************************************)
(* Host: what every decision is made of.                                   *)
(***************************************************************************)
Active(t) == auth.st = "Active" /\ auth.turn = t

\* active_h7_binding_matches: the turn is active and already bound to the
\* Codex turn of the call.
FrameMatches(f) == Active(f.turn) /\ auth.codex = f.call[1]

CanSend == writer /\ ~dead
Sent(fs) == IF CanSend THEN toV \o fs ELSE toV

Decision(p, ok, r) == ReplyFrame("decision", p.call, ok, r)
SeqOf(S) == IF S = {} THEN <<>> ELSE <<CHOOSE x \in S : TRUE>>
Refusal(f) == ReplyFrame("decision", f.call, FALSE, 0)
Refusals(P) == [i \in 1 .. Len(SeqOf(P)) |-> Decision(SeqOf(P)[i], FALSE, 0)]

DueOf(P) == {p \in P : p.call \in late}
CallsOf(P) == {p.call : p \in P}
OfTurn(S, t) == {x \in S : x.turn = t}

\* clear_turn_evidence_locked: nothing of the turn stays behind.
ClearEvidence(t) ==
    /\ pend' = pend \ OfTurn(pend, t)
    /\ ticket' = ticket \ CallsOf(OfTurn(pend, t))
    /\ appr' = appr \ OfTurn(appr, t)
    /\ grants' = grants \ OfTurn(grants, t)

-----------------------------------------------------------------------------
(***************************************************************************)
(* Host: commands on the main thread.  A command that is refused changes   *)
(* nothing and is not an action.                                           *)
(***************************************************************************)
\* set_capability_root: a compare-and-set of the row from the revision the
\* Settings window has read.
Toggle ==
    /\ main.pc = "idle" /\ root.rev < MaxRev
    /\ root' = [on |-> ~root.on, rev |-> root.rev + 1]
    /\ UNCHANGED <<auth, shownTurn, pend, appr, grants, ticket, hand, closed,
                   writer, reader, main, sidecar, toV, toH, rest>>

\* start_turn up to the end of begin_turn's critical section.
BeginTurn ==
    /\ main.pc = "idle" /\ turns < MaxTurns
    /\ ~closed /\ auth.st = "Idle" /\ root.on
    /\ turns' = turns + 1
    /\ auth' = [st |-> "Active", turn |-> turns + 1, codex |-> 0]
    /\ main' = [pc |-> "begun", turn |-> turns + 1]
    /\ UNCHANGED <<root, shownTurn, pend, appr, grants, ticket, hand, closed,
                   writer, reader, sidecar, toV, toH, late, lateGrant, cancels,
                   confirmed, ran, trouble>>

\* The rest of start_turn: the window's state is written and the frame is
\* sent; a failed send takes the turn back (terminalize_turn).
StartTurn ==
    LET t == main.turn
        mine == auth.st \in {"Active", "Cancelling"} /\ auth.turn = t
    IN  /\ main.pc = "begun"
        /\ main' = [pc |-> "idle"]
        /\ toV' = Sent(<<About("start", t)>>)
        /\ IF ~CanSend /\ mine
           THEN /\ auth' = [auth EXCEPT !.st = "Idle", !.turn = 0, !.codex = 0]
                /\ shownTurn' = 0
                /\ ClearEvidence(t)
           ELSE /\ shownTurn' = t
                /\ UNCHANGED <<auth, pend, ticket, appr, grants>>
        /\ UNCHANGED <<root, hand, closed, writer, reader, sidecar, toH, rest>>

\* decide_pending_for_session up to the lock of turn_authority: what is due is
\* denied, anything else is taken out of the table.
Decide(yes) ==
    /\ main.pc = "idle" /\ (yes \/ "deny" \in trouble)
    /\ \E p \in pend :
         /\ pend' = pend \ {p}
         /\ ticket' = ticket \ {p.call}
         /\ IF p.call \in late
            THEN toV' = Sent(<<Decision(p, FALSE, 0)>>) /\ UNCHANGED main
            ELSE /\ main' = [pc |-> "deciding", taken |-> p, yes |-> yes]
                 /\ UNCHANGED toV
    /\ UNCHANGED <<root, auth, shownTurn, appr, grants, hand, closed, writer, reader,
                   sidecar, toH, rest>>

\* The rest of it, under turn_authority.  It does not ask whether the session has
\* been retired meanwhile.
AnswerTaken ==
    LET p == main.taken
        ok == main.yes /\ p.call \notin late /\ Active(p.turn) /\ root.on
    IN  /\ main.pc = "deciding"
        /\ main' = [pc |-> "idle"]
        /\ toV' = Sent(<<Decision(p, ok, IF ok THEN root.rev ELSE 0)>>)
        /\ appr' = IF ok /\ CanSend
                   THEN appr \union {[turn |-> p.turn, call |-> p.call, rev |-> root.rev]}
                   ELSE appr
        /\ confirmed' = IF ok /\ CanSend
                        THEN confirmed \union {<<p.turn, p.call, root.rev>>}
                        ELSE confirmed
        /\ UNCHANGED <<root, auth, shownTurn, pend, grants, ticket, hand, closed,
                       writer, reader, sidecar, toH, late, lateGrant, turns, cancels,
                       ran, trouble>>

Confirm == Decide(TRUE)
Deny == Decide(FALSE)

\* cancel and cancel_turn up to the end of begin_cancellation's critical
\* section.  A turn that is being cancelled already is cancelled again.
BeginCancellation ==
    LET live == auth.st \in {"Active", "Cancelling"}
    IN  /\ main.pc = "idle" /\ cancels < MaxCancels
        /\ cancels' = cancels + 1
        /\ auth' = IF live THEN [auth EXCEPT !.st = "Cancelling"] ELSE auth
        /\ main' = [pc |-> "cancelling", turn |-> IF live THEN auth.turn ELSE 0,
                    left |-> IF live THEN OfTurn(pend, auth.turn) ELSE {}]
        /\ IF live THEN ClearEvidence(auth.turn)
                   ELSE UNCHANGED <<pend, ticket, appr, grants>>
        /\ UNCHANGED <<root, shownTurn, hand, closed, writer, reader, sidecar, toV,
                       toH, late, lateGrant, turns, confirmed, ran, trouble>>

\* cancel_turn sends two frames; cancel of an idle session only the first.
CancelFrames(t) ==
    <<About("cancelAction", t)>>
      \o (IF t = 0 THEN <<>> ELSE <<About("cancelTurn", t)>>)

\* The rest of the command: the retired confirmations are answered, whatever
\* is still pending is taken, and the sidecar is told.
CancelTurn ==
    /\ main.pc = "cancelling"
    /\ toV' = Sent(Refusals(main.left \union pend) \o CancelFrames(main.turn))
    /\ pend' = {} /\ ticket' = ticket \ CallsOf(pend)
    /\ main' = [pc |-> "idle"]
    /\ UNCHANGED <<root, auth, shownTurn, appr, grants, hand, closed, writer,
                   reader, sidecar, toH, rest>>

\* stop: tell the sidecar, then retire the session on this thread.
Stop ==
    /\ main.pc = "idle" /\ "stop" \in trouble /\ cancels < MaxCancels
    /\ cancels' = cancels + 1
    /\ toV' = Sent(<<About("shutdown", 0)>>)
    /\ main' = [pc |-> "retire"]
    /\ UNCHANGED <<root, auth, shownTurn, pend, appr, grants, ticket, hand, closed,
                   writer, reader, sidecar, toH, late, lateGrant, turns, confirmed, ran, trouble>>

-----------------------------------------------------------------------------
(***************************************************************************)
(* Host: retire, by the reader at the end of its pipe or after a handler's *)
(* error, or by stop on the main thread.                                   *)
(***************************************************************************)
At(pc) == {w \in {"main", "reader"} :
             (w = "main" /\ main.pc = pc) \/ (w = "reader" /\ reader.pc = pc)}
Move(w, pc) ==
    /\ main' = IF w = "main" THEN [pc |-> pc] ELSE main
    /\ reader' = IF w = "reader" THEN [pc |-> pc] ELSE reader

\* closed is set and pending confirmations are denied.
RetireClose ==
    /\ \E w \in At("retire") : Move(w, "clear")
    /\ closed' = TRUE
    /\ toV' = Sent(Refusals(pend))
    /\ pend' = {}
    /\ UNCHANGED <<root, auth, shownTurn, appr, grants, ticket, hand, writer,
                   sidecar, toH, rest>>

\* What retire leaves of the grants.
RetiredGrants == {}

\* Approvals and grants go, the expiry thread is stopped and joined.
RetireClear ==
    /\ \E w \in At("clear") : Move(w, "terminal")
    /\ hand = {}
    /\ appr' = {} /\ grants' = RetiredGrants /\ ticket' = {}
    /\ UNCHANGED <<root, auth, shownTurn, pend, hand, closed, writer, sidecar, toV,
                   toH, rest>>

\* force_terminal_cancelled.
ForcedTerminal ==
    IF auth.st = "Idle" THEN auth ELSE [auth EXCEPT !.st = "Terminal"]

\* The turn is made terminal and the writer closed; stop then kills the process.
RetireEnd ==
    /\ \E w \in At("terminal") :
         /\ Move(w, "gone")
         /\ dead' = (dead \/ w = "main")
    /\ auth' = ForcedTerminal
    /\ shownTurn' = 0 /\ writer' = FALSE
    /\ UNCHANGED <<root, pend, appr, grants, ticket, hand, closed, cmds, ident,
                   gateway, owner, loop, task, codex, running, thread, call,
                   lease, queue, asking, toV, toH, rest>>

\* The reader meets the end of the pipe.
EndOfPipe ==
    /\ reader.pc = "read" /\ dead /\ toH = <<>>
    /\ reader' = [pc |-> "retire"]
    /\ UNCHANGED <<root, auth, shownTurn, pend, appr, grants, ticket, hand, closed,
                   writer, main, sidecar, toV, toH, rest>>

-----------------------------------------------------------------------------
(***************************************************************************)
(* Host: the expiry thread.                                                *)
(***************************************************************************)
\* expiry_loop: a ticket that is due is taken out before the lock is dropped.
TakeTicket ==
    /\ hand = {} /\ ticket # {} /\ ticket \subseteq late
    /\ hand' = ticket /\ ticket' = {}
    /\ UNCHANGED <<root, auth, shownTurn, pend, appr, grants, closed, writer,
                   reader, main, sidecar, toV, toH, rest>>

\* expire_pending_ticket: exactly the confirmation the ticket was made for.
ExpiredByTicket == {p \in pend : p.call \in hand /\ ~closed}

ExpireTicket ==
    /\ hand # {}
    /\ pend' = pend \ ExpiredByTicket
    /\ toV' = Sent(Refusals(ExpiredByTicket))
    /\ hand' = {}
    /\ UNCHANGED <<root, auth, shownTurn, appr, grants, ticket, closed, writer,
                   reader, main, sidecar, toH, rest>>

-----------------------------------------------------------------------------
(***************************************************************************)
(* Host: the reader.  One frame, one handler, under turn_authority.        *)
(***************************************************************************)
Frame(k) == reader.pc = "read" /\ toH # <<>> /\ Head(toH).k = k

\* A handler ends with its reply; a reply that cannot be written is an error
\* and ends the loop.
Reply(fs) ==
    /\ toV' = Sent(fs)
    /\ reader' = IF CanSend \/ fs = <<>> THEN [pc |-> "read"]
                                         ELSE [pc |-> "retire"]

HandleAuthorityEvaluate ==
    LET f == Head(toH)
        ok == Active(f.turn) /\ auth.codex \in {0, f.call[1]} /\ root.on
    IN  /\ Frame("evaluate")
        /\ toH' = Tail(toH)
        /\ auth' = IF ok THEN [auth EXCEPT !.codex = f.call[1]] ELSE auth
        /\ Reply(<<ReplyFrame("scope", f.call, ok, IF ok THEN root.rev ELSE 0)>>)
        /\ UNCHANGED <<root, shownTurn, pend, appr, grants, ticket, hand, closed,
                       writer, main, sidecar, rest>>

\* The ticket handle_confirmation_required schedules once it has let go of
\* both locks.
ToSchedule(c) == {c}

\* handle_confirmation_required up to the lock of turn_authority.  Whether the
\* session is retired is asked here and not again.
HandleConfirmationRequired ==
    LET f == Head(toH)
    IN  /\ Frame("confirm")
        /\ toH' = Tail(toH)
        /\ CASE closed ->
                  /\ reader' = [pc |-> "retire"]
                  /\ UNCHANGED <<pend, ticket, toV>>
             [] ~closed /\ f.call \in late ->
                  /\ Reply(<<Refusal(f)>>)
                  /\ UNCHANGED <<pend, ticket>>
             [] ~closed /\ f.call \notin late ->
                  /\ pend' = pend \ DueOf(pend)
                  /\ ticket' = ticket \ CallsOf(DueOf(pend))
                  /\ toV' = Sent(Refusals(DueOf(pend)))
                  /\ reader' = [pc |-> "admit", turn |-> f.turn, call |-> f.call]
        /\ UNCHANGED <<root, auth, shownTurn, appr, grants, hand, closed, writer,
                       main, sidecar, rest>>

\* The rest of it, under turn_authority: the confirmation becomes pending if its
\* turn is active and nothing else is pending (MAX_PENDING is 1).
AdmitConfirmation ==
    /\ reader.pc = "admit"
    /\ \/ /\ ~FrameMatches(reader)
          /\ Reply(<<Refusal(reader)>>) /\ UNCHANGED pend
       \/ /\ FrameMatches(reader) /\ pend # {}
          /\ reader' = [pc |-> "retire"] /\ UNCHANGED <<pend, toV>>
       \/ /\ FrameMatches(reader) /\ pend = {}
          /\ pend' = {[turn |-> reader.turn, call |-> reader.call]}
          /\ reader' = [pc |-> "schedule", call |-> reader.call]
          /\ UNCHANGED toV
    /\ UNCHANGED <<root, auth, shownTurn, appr, grants, ticket, hand, closed, writer,
                   main, sidecar, toH, rest>>

Schedule ==
    /\ reader.pc = "schedule"
    /\ ticket' = IF ToSchedule(reader.call) = {} \/ At("terminal") # {}
                      \/ At("gone") # {}
                 THEN ticket ELSE ToSchedule(reader.call)
    /\ reader' = [pc |-> "read"]
    /\ UNCHANGED <<root, auth, shownTurn, pend, appr, grants, hand, closed, writer,
                   main, sidecar, toV, toH, rest>>

\* The approval a grant is minted from: this turn, this call, this revision.
ApprovalsFor(f) ==
    {a \in appr : a.turn = f.turn /\ a.call = f.call /\ a.rev = f.rev}

HandleIssueGrant ==
    LET f == Head(toH)
        current == FrameMatches(f) /\ root.on /\ root.rev = f.rev
        used == ApprovalsFor(f)
        ok == current /\ used # {} /\ f.call \notin late
    IN  /\ Frame("issue")
        /\ toH' = Tail(toH)
        /\ IF f.rev <= 0                               \* IssueGrant::validate
           THEN /\ reader' = [pc |-> "retire"]
                /\ UNCHANGED <<pend, ticket, appr, grants, toV>>
           ELSE /\ pend' = IF FrameMatches(f) THEN pend \ DueOf(pend) ELSE pend
                /\ ticket' = IF FrameMatches(f) THEN ticket \ CallsOf(DueOf(pend))
                                           ELSE ticket
                /\ appr' = IF current THEN appr \ used ELSE appr
                /\ grants' = (IF current
                              THEN {g \in grants : g.call \notin lateGrant}
                              ELSE grants)
                             \union (IF ok THEN {[turn |-> f.turn,
                                                  call |-> f.call,
                                                  rev |-> f.rev]}
                                     ELSE {})
                /\ Reply((IF FrameMatches(f) THEN Refusals(DueOf(pend)) ELSE <<>>)
                         \o <<ReplyFrame("issued", f.call, ok,
                                     IF ok THEN f.rev ELSE 0)>>)
        /\ UNCHANGED <<root, auth, shownTurn, hand, closed, writer, main, sidecar,
                       rest>>

\* Mutant: the revision in force is not compared with the grant's.
UsableAnyRevision(f) ==
    {g \in grants : /\ g.turn = f.turn /\ g.call = f.call /\ g.rev = f.rev
                    /\ f.call \notin lateGrant}

\* consume_active_grant: the grant itself, for this turn and this call, under
\* the revision in force, in time.
Usable(f) ==
    {g \in grants : /\ g.turn = f.turn /\ g.call = f.call /\ g.rev = f.rev
                    /\ g.rev = root.rev
                    /\ f.call \notin lateGrant}

HandleRevalidateGrant ==
    LET f == Head(toH)
        used == IF FrameMatches(f) /\ root.on THEN Usable(f) ELSE {}
    IN  /\ Frame("revalidate")
        /\ toH' = Tail(toH)
        /\ grants' = grants \ used
        /\ ran' = IF used = {} THEN ran
                  ELSE ran \union {[turn |-> f.turn, call |-> f.call,
                                    rev |-> root.rev]}
        /\ Reply(<<ReplyFrame("revalidated", f.call, used # {}, f.rev)>>)
        /\ UNCHANGED <<root, auth, shownTurn, pend, appr, ticket, hand, closed,
                       writer, main, sidecar, late, lateGrant, turns, cancels,
                       confirmed, trouble>>

\* accept_turn_state: an active turn takes every state of its own, one that
\* is being cancelled only the acknowledgement.
Accepts(f) == \/ Active(f.turn)
              \/ /\ auth.st = "Cancelling" /\ auth.turn = f.turn
                 /\ f.k = "cancelled"

\* handle_turn_state, handle_turn_completed and handle_turn_failed up to the
\* end of the critical section.
HandleTurnState ==
    LET f == Head(toH)
    IN  /\ \/ Frame("live") \/ Frame("ended") \/ Frame("cancelled")
        /\ toH' = Tail(toH)
        /\ IF ~Accepts(f)
           THEN UNCHANGED <<auth, pend, ticket, appr, grants, reader>>
           ELSE IF f.k = "live"
           THEN /\ reader' = [pc |-> "show", turn |-> f.turn, left |-> {}]
                /\ UNCHANGED <<auth, pend, ticket, appr, grants>>
           ELSE /\ auth' = [st |-> "Idle", turn |-> 0, codex |-> 0]
                /\ ClearEvidence(f.turn)
                /\ reader' = [pc |-> "show", turn |-> 0,
                              left |-> OfTurn(pend, f.turn)]
        /\ UNCHANGED <<root, shownTurn, hand, closed, writer, main, sidecar, toV,
                       rest>>

\* What accept_turn_state writes to active_turn_id.
ShowsTurn(t) == t

\* The rest of accept_turn_state, after the lock.
ShowTurn ==
    /\ reader.pc = "show"
    /\ shownTurn' = ShowsTurn(reader.turn)
    /\ toV' = Sent(Refusals(reader.left))
    /\ reader' = [pc |-> "read"]
    /\ UNCHANGED <<root, auth, pend, appr, grants, ticket, hand, closed,
                   writer, main, sidecar, toH, rest>>

\* A Fatal frame ends the loop.
HandleFatal ==
    /\ Frame("fatal")
    /\ toH' = Tail(toH)
    /\ reader' = [pc |-> "retire"]
    /\ UNCHANGED <<root, auth, shownTurn, pend, appr, grants, ticket, hand, closed,
                   writer, main, sidecar, toV, rest>>

-----------------------------------------------------------------------------
(***************************************************************************)
(* Sidecar: the router and the command loop.                               *)
(***************************************************************************)
Told(fs) == IF dead THEN toH ELSE toH \o fs

\* The sidecar process ends: nothing of it moves any more.
Dies ==
    /\ dead' = TRUE
    /\ UNCHANGED <<cmds, ident, gateway, owner, loop, task, codex, running,
                   thread, call, lease, queue, asking>>

\* Where a call goes when its answer arrives, and where when it is refused.
After == [scope |-> "ready", issued |-> "launch", revalidated |-> "running"]
Waits == [scope |-> "evaluating", issued |-> "issuing",
          revalidated |-> "revalidating"]

\* Some request of the sidecar waits for this reply.
Expected(f) ==
    IF f.k = "decision"
    THEN asking.pc = "asked" /\ asking.call = f.call
    ELSE call[f.call].pc = Waits[f.k]

\* Mutant: a refused call keeps the admission.
LeaseLeaked(f) == lease

\* H7ProcessAdmissionLease: dropped with a call that is refused.
LeaseAfter(f) == IF f.ok THEN lease ELSE lease \ {f.call}

\* The IPC reader thread: a reply goes to the request that waits for it.
RouteReply ==
    LET f == Head(toV)
    IN  /\ toV # <<>> /\ ~dead /\ f.k \in Replies /\ Expected(f)
        /\ toV' = Tail(toV)
        /\ IF f.k = "decision"
           THEN /\ asking' = [asking EXCEPT !.pc = "answered", !.rev = f.rev]
                /\ UNCHANGED <<call, lease>>
           ELSE /\ call' = [call EXCEPT ![f.call].pc =
                              IF f.ok THEN After[f.k] ELSE "done"]
                /\ lease' = LeaseAfter(f)
                /\ UNCHANGED asking
        /\ UNCHANGED <<host, cmds, ident, gateway, owner, loop, task, codex,
                       running, thread, queue, dead, toH, rest>>

\* command_sender.try_send finds room.
Room == Len(cmds) < CmdCap

\* Everything else is a command, a reply nobody waits for too; a full channel
\* closes the pipe.
RouteCommand ==
    /\ toV # <<>> /\ ~dead
    /\ Head(toV).k \in Replies => ~Expected(Head(toV))
    /\ toV' = Tail(toV)
    /\ IF Room
       THEN /\ cmds' = Append(cmds, Head(toV))
            /\ UNCHANGED <<ident, gateway, owner, loop, task, codex, running,
                           thread, call, lease, queue, asking, dead>>
       ELSE Dies
    /\ UNCHANGED <<host, toH, rest>>

\* The Host has closed its end.
RouterEndOfPipe ==
    /\ toV = <<>> /\ ~writer /\ ~dead
    /\ Dies
    /\ UNCHANGED <<host, toV, toH, rest>>

Command(k) == ~dead /\ loop.pc = "idle" /\ cmds # <<>> /\ Head(cmds).k = k

\* production.cancel_turn: the token of the call that holds the admission is
\* set and the generation of the bridge moves on.
CancelledCalls ==
    [c \in Calls |-> [call[c] EXCEPT !.cur = FALSE,
                                     !.token = call[c].token \/ c \in lease]]

CommandCancelAction ==
    /\ Command("cancelAction")
    /\ cmds' = Tail(cmds)
    /\ call' = CancelledCalls
    /\ UNCHANGED <<host, ident, gateway, owner, loop, task, codex, running,
                   thread, lease, queue, asking, dead, toV, toH, rest>>

\* TurnOwner::reap_finished.
Reaped == IF owner # 0 /\ task[owner].pc = "done" THEN 0 ELSE owner

\* handle_start_turn.  A task that has sent its last frame but has not ended
\* still occupies the owner: the new task is aborted, and if it had entered
\* run_turn by then the runtime stays marked as active.
CommandStartTurn ==
    LET t == Head(cmds).turn
    IN  /\ Command("start")
        /\ cmds' = Tail(cmds)
        /\ owner' = IF Reaped = 0 /\ ident = 0 /\ gateway = 0 THEN t ELSE Reaped
        /\ IF ident # 0 \/ gateway # 0
           THEN /\ toH' = Told(<<About("ended", t)>>)
                /\ UNCHANGED <<ident, gateway, task, running, call>>
           ELSE /\ call' = [c \in Calls |-> [call[c] EXCEPT !.cur = FALSE]]
                /\ IF Reaped = 0
                   THEN /\ ident' = t /\ gateway' = t
                        /\ task' = [task EXCEPT ![t].pc = "new"]
                        /\ toH' = Told(<<About("live", t)>>)
                        /\ UNCHANGED running
                   ELSE /\ \E entered \in BOOLEAN :
                             running' = (running \/ entered)
                        /\ toH' = Told(<<About("live", t), About("ended", t)>>)
                        /\ UNCHANGED <<ident, gateway, task>>
        /\ UNCHANGED <<host, loop, codex, thread, lease, queue, asking, dead,
                       toV, rest>>

\* handle_cancel_turn up to the notification of the task.  For a turn the
\* sidecar no longer works for it does nothing at all.
CommandCancelTurn ==
    LET t == Head(cmds).turn
    IN  /\ Command("cancelTurn")
        /\ cmds' = Tail(cmds)
        /\ IF ident # t
           THEN UNCHANGED <<ident, gateway, owner, loop, task, call>>
           ELSE /\ ident' = 0 /\ gateway' = 0 /\ owner' = 0
                /\ call' = CancelledCalls
                /\ task' = [task EXCEPT ![t].cancelled = TRUE]
                /\ loop' = [pc |-> "interrupt", turn |-> t]
        /\ UNCHANGED <<host, codex, running, thread, lease, queue, asking, dead,
                       toV, toH, rest>>

\* interrupt_active_turn: Codex is interrupted if run_turn has not let go of
\* the thread yet; the tool call Codex was in is dropped.
InterruptActiveTurn ==
    /\ ~dead /\ loop.pc = "interrupt"
    /\ loop' = [loop EXCEPT !.pc = "join"]
    /\ codex' = IF thread = 0 THEN codex
                ELSE [codex EXCEPT ![thread] = "closed"]
    /\ call' = [c \in Calls |-> [call[c] EXCEPT !.token =
                  call[c].token \/ (c \in lease /\ c[1] = thread)]]
    /\ UNCHANGED <<host, cmds, ident, gateway, owner, task, running, thread,
                   lease, queue, asking, dead, toV, toH, rest>>

\* The task has ended.
Joined(t) == task[t].pc = "done"

\* The acknowledgement is sent once the task has ended.
AcknowledgeCancel ==
    /\ ~dead /\ loop.pc = "join" /\ Joined(loop.turn)
    /\ loop' = [pc |-> "idle", turn |-> 0]
    /\ toH' = Told(<<About("cancelled", loop.turn)>>)
    /\ UNCHANGED <<host, cmds, ident, gateway, owner, task, codex, running,
                   thread, call, lease, queue, asking, dead, toV, rest>>

\* The task does not end in 5 seconds: the sidecar gives up.
JoinTimeout ==
    /\ "slow" \in trouble /\ ~dead /\ loop.pc = "join" /\ ~Joined(loop.turn)
    /\ Dies
    /\ UNCHANGED <<host, toV, toH, rest>>

\* Shutdown, or a reply nobody waits for: the sidecar cancels, shuts Codex
\* down, says so and exits.
CommandShutdown ==
    /\ Command("shutdown")
    /\ Dies
    /\ UNCHANGED <<host, toV, toH, rest>>

CommandUnexpected ==
    /\ ~dead /\ loop.pc = "idle" /\ cmds # <<>> /\ Head(cmds).k \in Replies
    /\ toH' = Told(<<About("fatal", 0)>>)
    /\ Dies
    /\ UNCHANGED <<host, toV, rest>>

\* The process dies by itself.
SidecarCrash ==
    /\ "crash" \in trouble /\ ~dead
    /\ Dies
    /\ UNCHANGED <<host, toV, toH, rest>>

-----------------------------------------------------------------------------
(***************************************************************************)
(* Sidecar: the task of a turn, around run_turn.                           *)
(***************************************************************************)
Returned(t, r) == task' = [task EXCEPT ![t].pc = "back", ![t].res = r]

\* run_turn up to the creation of the Codex thread and turn.
TaskOpen(t) ==
    /\ ~dead /\ task[t].pc = "new"
    /\ IF running \/ task[t].cancelled
       THEN /\ Returned(t, IF running THEN "ended" ELSE "cancelled")
            /\ UNCHANGED <<codex, running, thread>>
       ELSE /\ task' = [task EXCEPT ![t].pc = "turn"]
            /\ codex' = [codex EXCEPT ![t] = "open"]
            /\ running' = TRUE /\ thread' = t
    /\ UNCHANGED <<host, cmds, ident, gateway, owner, loop, call, lease, queue,
                   asking, dead, toV, toH, rest>>

Busy(t) == \E c \in lease : c[1] = t

\* run_turn returns: Codex has completed, the task was notified of its
\* cancellation or Codex was interrupted, or the 300 seconds are over, in
\* which case Codex goes on.
TaskReturn(t) ==
    /\ ~dead /\ task[t].pc = "turn"
    /\ \/ /\ ~Busy(t) /\ codex[t] = "open"
          /\ Returned(t, "ended")
          /\ codex' = [codex EXCEPT ![t] = "closed"]
       \/ /\ task[t].cancelled \/ codex[t] = "closed"
          /\ Returned(t, "cancelled")
          /\ UNCHANGED codex
       \/ /\ "timeout" \in trouble
          /\ Returned(t, "ended")
          /\ UNCHANGED codex
    /\ running' = FALSE /\ thread' = 0
    /\ UNCHANGED <<host, cmds, ident, gateway, owner, loop, call, lease, queue,
                   asking, dead, toV, toH, rest>>

\* still_current.
TaskCheck(t) ==
    /\ ~dead /\ task[t].pc = "back"
    /\ task' = [task EXCEPT ![t].pc =
                  IF ident = t /\ gateway = t THEN "current" ELSE "done"]
    /\ UNCHANGED <<host, cmds, ident, gateway, owner, loop, codex, running,
                   thread, call, lease, queue, asking, dead, toV, toH, rest>>

\* GatewayAuthority::deactivate.
GatewayAfter(t) == IF gateway = t THEN 0 ELSE gateway

\* The task gives up the identity and the credential and reports.
TaskReport(t) ==
    /\ ~dead /\ task[t].pc = "current"
    /\ ident' = 0
    /\ gateway' = GatewayAfter(t)
    /\ toH' = Told(<<About(task[t].res, t)>>)
    /\ task' = [task EXCEPT ![t].pc = "reported"]
    /\ UNCHANGED <<host, cmds, owner, loop, codex, running, thread, call, lease,
                   queue, asking, dead, toV, rest>>

TaskEnd(t) ==
    /\ ~dead /\ task[t].pc = "reported"
    /\ task' = [task EXCEPT ![t].pc = "done"]
    /\ UNCHANGED <<host, cmds, ident, gateway, owner, loop, codex, running,
                   thread, call, lease, queue, asking, dead, toV, toH, rest>>

-----------------------------------------------------------------------------
(***************************************************************************)
(* Sidecar: a tool call (H7CGitStatusBroker::execute) and the confirmation *)
(* loop.  Every request names the turn the sidecar works for at the moment *)
(* it is sent (host_turn_id).                                              *)
(***************************************************************************)
CallMoves(c, pc) == call' = [call EXCEPT ![c].pc = pc]
CallEnds(c) ==
    /\ call' = [call EXCEPT ![c].pc = "done"]
    /\ lease' = lease \ {c}

\* Codex calls the tool; while another call holds the admission it is denied.
CallStart(c) ==
    /\ ~dead /\ codex[c[1]] = "open" /\ call[c].pc = "none"
    /\ IF lease = {} THEN lease' = {c} /\ CallMoves(c, "evaluate")
                     ELSE UNCHANGED lease /\ CallMoves(c, "done")
    /\ UNCHANGED <<host, cmds, ident, gateway, owner, loop, task, codex,
                   running, thread, queue, asking, dead, toV, toH, rest>>

\* Sends a request of the call, or ends the call when the sidecar works for
\* no turn.
ToolRequest(c, k, pc, r) ==
    IF ident = 0
    THEN CallEnds(c) /\ UNCHANGED toH
    ELSE /\ CallMoves(c, pc) /\ UNCHANGED lease
         /\ toH' = Told(<<AskFrame(k, ident, c, r)>>)

CallEvaluate(c) ==
    /\ ~dead /\ call[c].pc = "evaluate"
    /\ ToolRequest(c, "evaluate", "evaluating", 0)
    /\ UNCHANGED <<host, cmds, ident, gateway, owner, loop, task, codex,
                   running, thread, queue, asking, dead, toV, rest>>

\* await_confirmation: the action enters the channel of the bridge.
CallAwait(c) ==
    /\ ~dead /\ call[c].pc = "ready"
    /\ \/ /\ call[c].token
          /\ CallEnds(c) /\ UNCHANGED queue
       \/ /\ ~call[c].token /\ queue = {}
          /\ queue' = {c}
          /\ call' = [call EXCEPT ![c].pc = "awaiting", ![c].cur = TRUE]
          /\ UNCHANGED lease
    /\ UNCHANGED <<host, cmds, ident, gateway, owner, loop, task, codex,
                   running, thread, asking, dead, toV, toH, rest>>

\* The wait ends without an answer: cancelled, or after 30 seconds.
CallGiveUp(c) ==
    /\ ~dead /\ call[c].pc = "awaiting"
    /\ call[c].token \/ "lapse" \in trouble
    /\ CallEnds(c)
    /\ UNCHANGED <<host, cmds, ident, gateway, owner, loop, task, codex,
                   running, thread, queue, asking, dead, toV, toH, rest>>

\* With the answer, which is 0 for a refusal, the call asks for its grant.
CallIssue(c) ==
    /\ ~dead /\ call[c].pc = "awaiting" /\ call[c].ans >= 0
    /\ IF call[c].token
       THEN CallEnds(c) /\ UNCHANGED toH
       ELSE ToolRequest(c, "issue", "issuing", call[c].ans)
    /\ UNCHANGED <<host, cmds, ident, gateway, owner, loop, task, codex,
                   running, thread, queue, asking, dead, toV, rest>>

\* The launch worker's last question before the process is created.
CallLaunch(c) ==
    /\ ~dead /\ call[c].pc = "launch"
    /\ IF call[c].token
       THEN CallEnds(c) /\ UNCHANGED toH
       ELSE ToolRequest(c, "revalidate", "revalidating", call[c].ans)
    /\ UNCHANGED <<host, cmds, ident, gateway, owner, loop, task, codex,
                   running, thread, queue, asking, dead, toV, rest>>

\* supervise_native_prepared returns: the process has exited, or was terminated at
\* its deadline, for its output or for a cancellation.  The admission is held
\* until then.
CallExit(c) ==
    /\ ~dead /\ call[c].pc = "running"
    /\ CallEnds(c)
    /\ UNCHANGED <<host, cmds, ident, gateway, owner, loop, task, codex,
                   running, thread, queue, asking, dead, toV, toH, rest>>

\* A request of the call waits 35 seconds in vain.
CallTimeout(c) ==
    /\ ~dead /\ "slow" \in trouble
    /\ call[c].pc \in {"evaluating", "issuing", "revalidating"}
    /\ CallEnds(c)
    /\ UNCHANGED <<host, cmds, ident, gateway, owner, loop, task, codex,
                   running, thread, queue, asking, dead, toV, toH, rest>>

\* What the confirmation loop tells the call.
Answered(c, r) == call' = [call EXCEPT ![c].ans = r]

\* The confirmation loop takes the next action.  One of an earlier generation
\* is refused, and so is one that no turn is there for.
LoopTake(c) ==
    /\ ~dead /\ asking.pc = "idle" /\ c \in queue
    /\ queue' = {}
    /\ IF ~call[c].cur \/ ident = 0
       THEN Answered(c, 0) /\ UNCHANGED <<asking, toH>>
       ELSE /\ asking' = [pc |-> "asked", call |-> c, turn |-> ident,
                          rev |-> 0]
            /\ toH' = Told(<<About("live", ident), AskFrame("confirm", ident, c, 0)>>)
            /\ UNCHANGED call
    /\ UNCHANGED <<host, cmds, ident, gateway, owner, loop, task, codex,
                   running, thread, lease, dead, toV, rest>>

\* The revision the call is told: 0 unless the action is still current.
DecidedRevision == IF call[asking.call].cur THEN asking.rev ELSE 0

\* The Host's decision is passed on if the action is still current.
LoopAnswer ==
    /\ ~dead /\ asking.pc = "answered"
    /\ Answered(asking.call, DecidedRevision)
    /\ toH' = IF ident = asking.turn /\ call[asking.call].cur
              THEN Told(<<About("live", ident)>>) ELSE toH
    /\ asking' = [pc |-> "idle"]
    /\ UNCHANGED <<host, cmds, ident, gateway, owner, loop, task, codex,
                   running, thread, lease, queue, dead, toV, rest>>

\* The confirmation request waits 35 seconds in vain.
LoopTimeout ==
    /\ ~dead /\ "slow" \in trouble /\ asking.pc = "asked"
    /\ asking' = [asking EXCEPT !.pc = "answered"]
    /\ UNCHANGED <<host, cmds, ident, gateway, owner, loop, task, codex,
                   running, thread, call, lease, queue, dead, toV, toH, rest>>

-----------------------------------------------------------------------------
(***************************************************************************)
(* Time.                                                                   *)
(***************************************************************************)
\* The deadline of the confirmation the loop has asked for passes.
Lapse ==
    /\ "lapse" \in trouble /\ asking.pc = "asked" /\ asking.call \notin late
    /\ late' = late \union {asking.call}
    /\ UNCHANGED <<host, sidecar, toV, toH, lateGrant, turns, cancels,
                   confirmed, ran, trouble>>

\* An approval inherits the deadline of its confirmation; a grant has its own.
LapseLater(c) ==
    /\ "lapse" \in trouble
    /\ \/ /\ c \notin late /\ \E a \in appr : a.call = c
          /\ late' = late \union {c} /\ UNCHANGED lateGrant
       \/ /\ c \notin lateGrant /\ \E g \in grants : g.call = c
          /\ lateGrant' = lateGrant \union {c} /\ UNCHANGED late
    /\ UNCHANGED <<host, sidecar, toV, toH, turns, cancels, confirmed, ran, trouble>>

-----------------------------------------------------------------------------
HostReader ==
    \/ HandleAuthorityEvaluate
    \/ HandleConfirmationRequired \/ AdmitConfirmation \/ Schedule
    \/ HandleIssueGrant \/ HandleRevalidateGrant
    \/ HandleTurnState \/ ShowTurn \/ HandleFatal \/ EndOfPipe
HostMain == StartTurn \/ AnswerTaken \/ CancelTurn
Retire == RetireClose \/ RetireClear \/ RetireEnd
Expiry == TakeTicket \/ ExpireTicket
User == Toggle \/ BeginTurn \/ Confirm \/ Deny \/ BeginCancellation \/ Stop
Router == RouteReply \/ RouteCommand \/ RouterEndOfPipe
CommandLoop ==
    \/ CommandCancelAction \/ CommandStartTurn \/ CommandCancelTurn
    \/ InterruptActiveTurn \/ AcknowledgeCancel \/ CommandShutdown
    \/ CommandUnexpected
Task(t) ==
    \/ TaskOpen(t) \/ TaskReturn(t) \/ TaskCheck(t) \/ TaskReport(t)
    \/ TaskEnd(t)
Tool(c) ==
    \/ CallEvaluate(c) \/ CallAwait(c) \/ CallGiveUp(c) \/ CallIssue(c)
    \/ CallLaunch(c) \/ CallExit(c)
ConfirmationLoop == LoopAnswer \/ \E c \in Calls : LoopTake(c)
Slow == JoinTimeout \/ LoopTimeout \/ \E c \in Calls : CallTimeout(c)

SessionNext ==
    \/ HostReader \/ HostMain \/ Retire \/ Expiry \/ User
    \/ Router \/ CommandLoop \/ ConfirmationLoop \/ Slow \/ SidecarCrash \/ Lapse
    \/ \E t \in Turns : Task(t)
    \/ \E c \in Calls : CallStart(c) \/ Tool(c) \/ LapseLater(c)

SessionSpec == SessionInit /\ [][SessionNext]_sessionVars

-----------------------------------------------------------------------------
(***************************************************************************)
(* Properties.                                                             *)
(***************************************************************************)
SessionTypeOK ==
    /\ root \in [on : BOOLEAN, rev : 1 .. MaxRev]
    /\ auth \in [st : {"Idle", "Active", "Cancelling", "Terminal"},
                 turn : 0 .. MaxTurns, codex : 0 .. MaxTurns]
    /\ shownTurn \in 0 .. MaxTurns
    /\ pend \subseteq [turn : Turns, call : Calls] /\ Cardinality(pend) <= 1
    /\ appr \subseteq [turn : Turns, call : Calls, rev : 1 .. MaxRev]
    /\ grants \subseteq [turn : Turns, call : Calls, rev : 1 .. MaxRev]
    /\ ticket \subseteq Calls /\ Cardinality(ticket) <= 1 /\ hand \subseteq Calls
    /\ ident \in 0 .. MaxTurns /\ gateway \in 0 .. MaxTurns
    /\ owner \in 0 .. MaxTurns /\ thread \in 0 .. MaxTurns
    /\ Len(cmds) <= CmdCap
    /\ \A c \in Calls : call[c].ans \in -1 .. MaxRev
    /\ Cardinality(lease) <= 1 /\ Cardinality(queue) <= 1
    /\ late \subseteq Calls /\ lateGrant \subseteq Calls

\* A process is allowed to start only when the user has confirmed exactly that
\* call, in that turn, under the revision of the capability in force when the
\* process starts: flipping the capability off and on again takes the
\* confirmation away.
RunsAreConfirmed == \A r \in ran : <<r.turn, r.call, r.rev>> \in confirmed

\* Confirmations, approvals and grants the Host holds belong to the active
\* turn: nothing survives the turn it was given in.
EvidenceIsCurrent ==
    ~closed => \A e \in pend \union appr \union grants : Active(e.turn)

\* Every pending confirmation is in the hands of the expiry thread, so that
\* it ends even when nobody polls.
PendingIsWatched ==
    (~closed /\ reader.pc # "schedule") =>
        CallsOf(pend) \subseteq ticket \union hand

\* The expiry thread ends a confirmation only when its own deadline has passed:
\* a ticket left over from an earlier confirmation touches nothing.
ExpiryIsExact ==
    [][(hand # {} /\ hand' = {}) => CallsOf(pend \ pend') \subseteq late]_sessionVars

\* When the reader has retired the session, the Host holds no confirmation and
\* no grant, and no turn is active, whatever the commands did meanwhile; after a
\* stop no approval is left either.  A command that had taken a confirmation when
\* the reader retired the session may still leave an approval, which nothing can
\* use any more.
ClosedHoldsNothing ==
    /\ reader.pc = "gone" =>
         /\ pend = {} /\ grants = {}
         /\ auth.st \in {"Idle", "Terminal"}
    /\ main.pc = "gone" => appr = {} /\ grants = {}

\* Once the threads are at rest and no frame is under way, the window shows
\* the active turn although both threads write active_turn_id without the
\* lock.
WindowShowsActiveTurn ==
    (/\ auth.st = "Active" /\ ~closed /\ ~dead
     /\ main.pc = "idle" /\ reader.pc = "read"
     /\ toV = <<>> /\ toH = <<>> /\ cmds = <<>>)
      => shownTurn = auth.turn

\* The sidecar never finds itself busy when the Host, which has seen the end
\* of the last turn, starts the next.
NeverBusy == Command("start") => ident = 0 /\ gateway = 0

\* A turn whose cancellation has been acknowledged is over: its task has
\* ended, and with it the only party that could report for the turn.
AcknowledgedMeansEnded ==
    \A t \in Turns :
        (\E i \in 1 .. Len(toH) :
            toH[i] = About("cancelled", t) /\ task[t].cancelled)
          => task[t].pc \in {"reported", "done"}

\* A tool call never holds the process admission forever: it runs, is
\* refused, or gives up, or the sidecar ends.
AdmissionIsReturned ==
    \A c \in Calls : c \in lease ~> (c \notin lease \/ dead)

\* When the sidecar is gone the Host retires the session with everything in
\* it, and the turn is over for it too.
DeathEndsSession ==
    dead ~> (closed /\ pend = {} /\ grants = {}
               /\ auth.st \in {"Idle", "Terminal"})

\* The session as a whole is sound: what runs was confirmed, evidence does not
\* outlive its turn, expiry ends only what is late, and a closed session is
\* empty, in every interleaving of the Host's threads with the sidecar's.
SessionSound ==
    /\ [](/\ SessionTypeOK /\ RunsAreConfirmed /\ EvidenceIsCurrent
          /\ PendingIsWatched /\ ClosedHoldsNothing /\ WindowShowsActiveTurn
          /\ NeverBusy /\ AcknowledgedMeansEnded)
    /\ ExpiryIsExact

\* What is held is given back: the admission by every call, everything by a
\* session whose sidecar died.
SessionProgress == AdmissionIsReturned /\ DeathEndsSession
=============================================================================
