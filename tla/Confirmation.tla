---------------------------- MODULE Confirmation ----------------------------
(***************************************************************************)
(* The confirmation coordinator: approval tokens kept in memory, one entry *)
(* per token, and confirm calls that drive the D-4 transaction with no     *)
(* lock held.  A call that takes too long loses its lease to another call  *)
(* with the same token; a D-4 panic puts the token into recovery, which    *)
(* looks for a commit whose answer was lost before it may write again.     *)
(*                                                                         *)
(* A token is its own request id.  The sensitivity of a candidate never    *)
(* changes in the lifecycle, so the grant and the screening of contents    *)
(* are left out: neither adds a state to a token.                          *)
(***************************************************************************)
EXTENDS CandidateMemory

CONSTANTS
    Callers,      \* threads that serve the prepare and confirm commands
    Ttl,          \* TOKEN_TTL_MILLIS, in ticks
    Lease,        \* IN_FLIGHT_LEASE_MILLIS, also the retention of a terminal token
    Cache,        \* CONSUMED_CACHE_MILLIS
    Window,       \* RECOVERY_RECONCILIATION_WINDOW_MILLIS
    MaxAttempts,  \* MAX_ATTEMPTS (3 in the code)
    Capacity,     \* REGISTRY_SOFT_CAPACITY (512 in the code)
    MaxTime,      \* bound on the clock
    MaxFaults     \* bound on storage errors and panics

ASSUME ConfirmationAssumption ==
    /\ {Ttl, Lease, Cache, Window, MaxAttempts, Capacity} \subseteq Nat \ {0}
    /\ MaxTime \in Nat /\ MaxFaults \in Nat

Tokens == Requests

VARIABLES
    entry,       \* the ApprovalEntry of each token
    registered,  \* the tokens in the registry; a running call keeps its entry beyond
    caller,      \* what each thread is doing
    sequence,    \* the attempt sequence counter
    now,         \* the monotonic clock
    faults,      \* storage errors and panics so far
    writes,      \* history: D-4 transactions entered for each token
    shown,       \* history: the content each token was prepared with
    fresh        \* history: candidates a caller was told are freshly confirmed, a count

confirmVars == <<entry, registered, caller, sequence, now, faults, writes, shown, fresh>>
allVars == <<candidateVars, confirmVars>>

Blank == [candidate |-> Null, expected |-> 0, expires |-> 0, state |-> "none", attempts |-> 0,
          sequence |-> 0, lease |-> 0, deadline |-> 0, terminal |-> 0]

\* A thread.  `mint`, `at`, `todo` belong to a prepare, `result` to a confirm.
Idle == [pc |-> "idle", token |-> Null, sequence |-> 0, recovery |-> FALSE,
         readOnly |-> FALSE, result |-> "none", mint |-> Null, at |-> 0, todo |-> {}]

ConfirmInit ==
    /\ CandidateInit
    /\ entry = [t \in Tokens |-> Blank]
    /\ registered = {}
    /\ caller = [w \in Callers |-> Idle]
    /\ sequence = 0
    /\ now = 1
    /\ faults = 0
    /\ writes = [t \in Tokens |-> 0]
    /\ shown = [t \in Tokens |-> Null]
    /\ fresh = [c \in Candidates |-> 0]

-----------------------------------------------------------------------------
(* The registry *)

Ended(e, state) == [e EXCEPT !.state = state, !.terminal = now, !.lease = 0]

\* An issued token whose time has passed, as begin_attempt and cancel find it.
Aged(e) == IF e.state = "issued" /\ now >= e.expires THEN Ended(e, "expired") ELSE e

\* cleanup_locked: the entries that stay.
Retained(e, time) ==
    CASE e.state = "in_flight" -> TRUE
      [] e.state = "recovery" -> time < e.deadline
      [] e.state = "issued" -> time < e.expires
      [] e.state = "consumed" -> time < e.terminal + Cache
      [] OTHER -> time < e.terminal + Lease

\* prepare: read a pending candidate, copy the registry for the due recoveries.
BeginPrepare(w, t, c) ==
    /\ caller[w] = Idle
    /\ Pending(c)
    /\ entry[t] = Blank /\ \A v \in Callers : caller[v].mint # t
    /\ entry' = [entry EXCEPT ![t] = [Blank EXCEPT !.candidate = c,
                                                   !.expected = candidate[c].revision]]
    /\ shown' = [shown EXCEPT ![t] = candidate[c].content]
    /\ caller' = [caller EXCEPT ![w] = [Idle EXCEPT !.pc = "prepare", !.mint = t, !.at = now,
                                                    !.todo = registered]]
    /\ UNCHANGED <<candidateVars, registered, sequence, now, faults, writes, fresh>>

Due(e, time) == e.state = "recovery" /\ time >= e.deadline

\* reconcile_due_recoveries, one entry: a read-only attempt, or nothing to do.
ReconcileDue(w, t) ==
    /\ caller[w].pc = "prepare" /\ t \in caller[w].todo
    /\ IF Due(entry[t], caller[w].at)
       THEN /\ sequence' = sequence + 1
            /\ entry' = [entry EXCEPT ![t].state = "in_flight", ![t].sequence = sequence + 1,
                                      ![t].lease = caller[w].at + Lease]
            /\ caller' = [caller EXCEPT ![w].pc = "probe", ![w].token = t,
                                        ![w].sequence = sequence + 1, ![w].recovery = TRUE,
                                        ![w].readOnly = TRUE, ![w].todo = @ \ {t}]
       ELSE /\ caller' = [caller EXCEPT ![w].todo = @ \ {t}]
            /\ UNCHANGED <<sequence, entry>>
    /\ UNCHANGED <<candidateVars, registered, now, faults, writes, shown, fresh>>

\* insert_entry: cleanup only when the registry is full, then the new entry or refusal.
InsertEntry(w) ==
    /\ caller[w].pc = "prepare" /\ caller[w].todo = {}
    /\ LET t == caller[w].mint
           time == caller[w].at
           full == Cardinality(registered) >= Capacity
           kept == IF full THEN {s \in registered : Retained(entry[s], time)} ELSE registered
           lapsed == {s \in registered : full /\ Due(entry[s], time)}
           fits == Cardinality(kept) < Capacity
       IN  /\ registered' = IF fits THEN kept \cup {t} ELSE kept
           /\ entry' = [s \in Tokens |->
                 CASE s = t /\ fits -> [entry[s] EXCEPT !.state = "issued",
                                                        !.expires = time + Ttl]
                   [] s = t /\ ~fits -> [Blank EXCEPT !.state = "refused"]
                   [] s \in lapsed -> Ended(entry[s], "invalidated")
                   [] OTHER -> entry[s]]
    /\ caller' = [caller EXCEPT ![w] = Idle]
    /\ UNCHANGED <<candidateVars, sequence, now, faults, writes, shown, fresh>>

-----------------------------------------------------------------------------
(* One confirm call *)

Claimable(e) ==
    \/ e.state \in {"issued", "recovery"}
    \/ e.state = "in_flight" /\ now >= e.lease /\ now < e.expires

\* claim_attempt
ClaimAttempt(w, t, e, readOnly) ==
    IF ~readOnly /\ e.attempts >= MaxAttempts
    THEN /\ entry' = [entry EXCEPT ![t] = Ended(e, "invalidated")]
         /\ UNCHANGED <<sequence, caller>>
    ELSE /\ sequence' = sequence + 1
         /\ entry' = [entry EXCEPT ![t] =
                        [e EXCEPT !.state = "in_flight", !.sequence = sequence + 1,
                                  !.attempts = IF readOnly THEN @ ELSE @ + 1,
                                  !.lease = now + Lease]]
         /\ caller' = [caller EXCEPT ![w] =
                        [Idle EXCEPT !.pc = IF e.state = "recovery" THEN "probe" ELSE "reread",
                                     !.token = t, !.sequence = sequence + 1,
                                     !.recovery = e.state = "recovery",
                                     !.readOnly = readOnly]]

\* begin_attempt.  A call that is refused or answered from the cache only ages the entry.
BeginAttempt(w, t) ==
    /\ caller[w] = Idle /\ t \in registered
    /\ LET e == Aged(entry[t])
       IN  IF Claimable(e)
           THEN ClaimAttempt(w, t, e, e.state = "recovery" /\ now >= e.expires)
           ELSE /\ entry' = [entry EXCEPT ![t] = e]
                /\ UNCHANGED <<sequence, caller>>
    /\ UNCHANGED <<candidateVars, registered, now, faults, writes, shown, fresh>>

Result(w, result) == caller' = [caller EXCEPT ![w].pc = "finalize", ![w].result = result]

Fault == faults < MaxFaults /\ faults' = faults + 1

\* confirmed_memory_for_request: the commit of this very request, still there.
Committed(t) ==
    /\ Accepted(entry[t].candidate, t)
    /\ \E r \in memory : r.candidate = entry[t].candidate /\ r.request = t

\* run_confirm, first part: recovery reads what the database knows of the request.
ProbeRecovery(w) ==
    /\ caller[w].pc = "probe"
    /\ LET t == caller[w].token
       IN  \/ /\ Committed(t)
              /\ Result(w, "reconciled") /\ UNCHANGED faults
           \/ /\ ~Committed(t) /\ (caller[w].readOnly \/ now >= entry[t].expires)
              /\ Result(w, "not_committed") /\ UNCHANGED faults
           \/ /\ ~Committed(t) /\ ~caller[w].readOnly /\ now < entry[t].expires
              /\ caller' = [caller EXCEPT ![w].pc = "reread"]
              /\ UNCHANGED faults
           \/ Fault /\ Result(w, "unavailable")
    /\ UNCHANGED <<candidateVars, entry, registered, sequence, now, writes, shown, fresh>>

\* run_confirm, second part: read the candidate again; a recovery checks its time again.
RereadCandidate(w) ==
    /\ caller[w].pc = "reread"
    /\ LET t == caller[w].token
           there == candidate[entry[t].candidate].status # "gone"
       IN  \/ /\ ~there
              /\ Result(w, "terminal") /\ UNCHANGED faults
           \/ /\ there /\ caller[w].recovery /\ now >= entry[t].expires
              /\ Result(w, "not_committed") /\ UNCHANGED faults
           \/ /\ there /\ ~(caller[w].recovery /\ now >= entry[t].expires)
              /\ caller' = [caller EXCEPT ![w].pc = "write"]
              /\ UNCHANGED faults
           \/ Fault /\ Result(w, "unavailable")
    /\ UNCHANGED <<candidateVars, entry, registered, sequence, now, writes, shown, fresh>>

\* run_confirm, third part: the D-4 transaction.  Its answer may be lost in a panic,
\* before the commit or after it.
WriteD4(w) ==
    /\ caller[w].pc = "write"
    /\ LET t == caller[w].token
           c == entry[t].candidate
       IN  /\ writes' = [writes EXCEPT ![t] = @ + 1]
           /\ \/ /\ ConfirmCandidate(c, entry[t].expected, t)
                 /\ \/ Result(w, "confirmed") /\ UNCHANGED faults
                    \/ Result(w, "panic") /\ Fault
              \/ /\ UNCHANGED candidateVars
                 /\ \/ /\ Accepted(c, t)
                       /\ Result(w, "already") /\ UNCHANGED faults
                    \/ /\ ~Accepted(c, t) /\ ~EnsurePendingRevision(c, entry[t].expected)
                       /\ Result(w, "terminal") /\ UNCHANGED faults
                    \/ Result(w, "panic") /\ Fault
                    \/ Result(w, "unavailable") /\ Fault
    /\ UNCHANGED <<entry, registered, sequence, now, shown, fresh>>

EnterRecovery(e) ==
    [e EXCEPT !.state = "recovery", !.lease = 0,
              !.deadline = IF @ # 0 THEN @
                           ELSE IF e.expires > now + Window THEN e.expires ELSE now + Window]

\* Mutant: a stale success is dropped like a stale error.
SettledIfCurrent(e, result, recovery, current) ==
    CASE ~current -> e
      [] current /\ result \in {"reconciled", "confirmed", "already"} -> Ended(e, "consumed")
      [] current /\ result = "unavailable" /\ now < e.expires -> [e EXCEPT !.state = "issued"]
      [] OTHER -> Ended(e, "expired")

\* finalize: the entry after an attempt.  A stale attempt only reports a success.
Settled(e, result, recovery, current) ==
    CASE current /\ result \in {"reconciled", "confirmed", "already"} -> Ended(e, "consumed")
      [] ~current /\ result \in {"confirmed", "already"} ->
           IF e.state \in {"consumed", "cancelled"} THEN e
           ELSE [e EXCEPT !.state = "consumed", !.terminal = now]
      [] current /\ result = "not_committed" ->
           [Ended(e, "expired") EXCEPT !.terminal = IF now > Lease THEN now - Lease ELSE 0]
      [] current /\ result = "terminal" -> Ended(e, "invalidated")
      [] current /\ result = "unavailable" /\ ~recovery ->
           IF now >= e.expires THEN Ended(e, "expired")
           ELSE [e EXCEPT !.state = "issued", !.lease = 0]
      [] current /\ result = "unavailable" /\ recovery ->
           IF now < e.deadline THEN [e EXCEPT !.state = "recovery", !.lease = 0]
           ELSE Ended(e, "invalidated")
      [] current /\ result = "panic" ->
           IF recovery /\ now >= e.deadline THEN Ended(e, "invalidated") ELSE EnterRecovery(e)
      [] OTHER -> e

Finalize(w) ==
    /\ caller[w].pc = "finalize"
    /\ LET t == caller[w].token
           result == caller[w].result
           current == entry[t].state = "in_flight" /\ entry[t].sequence = caller[w].sequence
       IN  /\ entry' = [entry EXCEPT ![t] = Settled(@, result, caller[w].recovery, current)]
           /\ fresh' = [fresh EXCEPT ![entry[t].candidate] =
                          IF current /\ result = "confirmed" THEN @ + 1 ELSE @]
    /\ caller' = [caller EXCEPT ![w] =
                    IF @.mint = Null THEN Idle
                    ELSE [Idle EXCEPT !.pc = "prepare", !.mint = caller[w].mint,
                                      !.at = caller[w].at, !.todo = caller[w].todo]]
    /\ UNCHANGED <<candidateVars, registered, sequence, now, faults, writes, shown>>

\* cancel: only an issued token; in flight and in recovery the caller is told so.
Cancel(t) ==
    /\ t \in registered
    /\ entry[t].state = "issued"
    /\ entry' = [entry EXCEPT ![t] = IF now >= @.expires THEN Aged(@) ELSE Ended(@, "cancelled")]
    /\ UNCHANGED <<candidateVars, registered, caller, sequence, now, faults, writes, shown, fresh>>

-----------------------------------------------------------------------------

Tick ==
    /\ now < MaxTime
    /\ now' = now + 1
    /\ UNCHANGED <<candidateVars, entry, registered, caller, sequence, faults, writes, shown, fresh>>

CallStep(w) ==
    \/ \E t \in Tokens : ReconcileDue(w, t)
    \/ InsertEntry(w)
    \/ ProbeRecovery(w)
    \/ RereadCandidate(w)
    \/ WriteD4(w)
    \/ Finalize(w)

ConfirmNext ==
    \/ \E w \in Callers, t \in Tokens, c \in Candidates : BeginPrepare(w, t, c)
    \/ \E w \in Callers, t \in Tokens : BeginAttempt(w, t)
    \/ \E w \in Callers : CallStep(w)
    \/ \E t \in Tokens : Cancel(t)
    \/ Tick
    \/ ReviewStep /\ UNCHANGED confirmVars

ConfirmSpec == ConfirmInit /\ [][ConfirmNext]_allVars

-----------------------------------------------------------------------------
(* Properties *)

Running(t) == \E w \in Callers : caller[w].token = t

States == {"none", "refused", "issued", "in_flight", "recovery", "consumed", "expired",
           "cancelled", "invalidated"}

\* Types of the registry and of the threads; one that runs has the token it runs for.
ConfirmTypeOK ==
    /\ CandidateTypes
    /\ \A t \in Tokens : entry[t].state \in States /\ entry[t].attempts \in 0..MaxAttempts
    /\ registered \subseteq Tokens /\ Cardinality(registered) <= Capacity
    /\ \A w \in Callers :
         caller[w].pc \in {"probe", "reread", "write", "finalize"} =>
            caller[w].token \in Tokens /\ entry[caller[w].token].candidate \in Candidates

\* What the user approved is what is remembered: a memory has the content its token was
\* prepared with, although the candidate may be edited, rejected, deleted or confirmed
\* under another token between prepare and D-4; and a candidate is reported as freshly
\* confirmed at most once, whichever of the overlapping calls committed.
ConfirmedAsShown ==
    /\ \A r \in memory : r.content = shown[r.request]
    /\ \A c \in Candidates : fresh[c] <= 1

\* "The registry never contradicts a committed D-4 result", for a token reported as
\* consumed: D-4 committed under its request, and what the replay would return is that.
ConsumedIsCommitted ==
    \A t \in Tokens : entry[t].state = "consumed" =>
        \/ Accepted(entry[t].candidate, t)
        \/ candidate[entry[t].candidate].status = "gone"

\* Once no call runs for it, a token reported as expired has confirmed nothing, although
\* calls may overlap and one answer may be lost.
ExpiredIsUncommitted ==
    \A t \in Tokens : entry[t].state = "expired" /\ ~Running(t) => ~Committed(t)

\* The registry never loses a token with a current call: a full registry makes room only
\* among tokens that are over, so the answer of the call still finds its entry.
InFlightIsRegistered == \A t \in Tokens : entry[t].state = "in_flight" => t \in registered

\* Lease takeovers, retries and recoveries together enter D-4 at most MAX_ATTEMPTS times.
WritesAreBudgeted == \A t \in Tokens : writes[t] <= MaxAttempts

\* A token leaves flight and recovery in the end: neither a slow call, nor a panic, nor
\* storage errors keep it there and the registry full.
TokensSettle ==
    \A t \in Tokens : entry[t].state \in {"in_flight", "recovery"} ~>
                      entry[t].state \notin {"in_flight", "recovery"}

\* The registry in memory and the committed memories tell one story, however calls on
\* the same token overlap, outlive their lease or lose their answer.
ConfirmSafe ==
    /\ ConfirmTypeOK /\ TablesAgree /\ ConfirmedAsShown /\ ConsumedIsCommitted
    /\ ExpiredIsUncommitted /\ InFlightIsRegistered /\ WritesAreBudgeted
==============================================================================
