------------------------------ MODULE Autonomy ------------------------------
(***************************************************************************)
(* The autonomy tick of one Life (autonomy/runtime.rs and                  *)
(* trusted_runtime.rs over storage/autonomy.rs): a call names a tick,      *)
(* creates at most one pending check-in intent for one active goal and     *)
(* evaluates at most one pending intent.  A call is a series of storage    *)
(* calls that each take the storage lock for themselves, so calls,         *)
(* policy updates, conversations and the clock interleave between them,    *)
(* and a process may die between creating an intent and evaluating it.     *)
(* The intent of a tick and its evaluation event have identities derived   *)
(* from the tick, so both are kept by tick here.  Time is in minutes.      *)
(***************************************************************************)
EXTENDS Integers, Sequences, FiniteSets, FiniteSetsExt

CONSTANTS
  TickCallers,      \* callers that may run ticks at the same time
  NTicks,       \* ticks 1 .. NTicks, ordered as their intent identities are
  NGoals,       \* goals 1 .. NGoals, in the order they are created
  GoalLimit,    \* MAX_GOALS_INSPECTED_PER_TICK
  Recheck,      \* MIN_RECHECK_SECONDS
  Quiet,        \* RECENT_INTERACTION_QUIET_SECONDS
  Policies,     \* the policies the user may set
  MaxNow,       \* bound on the clock
  MaxTalks,     \* bound on conversations
  MaxUpdates,   \* bound on policy updates
  MaxTickCrashes,   \* bound on crashes
  MaxCalls      \* bound on calls per tick; the retry of a pending one is free

Ticks == 1 .. NTicks
Goals == 1 .. NGoals
NoTime == -1
NoTick == 0
NoPolicy == [enabled |-> FALSE, dnd |-> FALSE, max |-> 0, window |-> 1, gap |-> 0]

ASSUME AutonomyAssumption ==
  /\ \A k \in {NTicks, NGoals, GoalLimit, Recheck, Quiet} : k \in Nat \ {0}
  /\ \A k \in {MaxNow, MaxTalks, MaxUpdates, MaxTickCrashes, MaxCalls} : k \in Nat
  /\ Quiet <= MaxNow
  /\ \A p \in Policies : /\ p.enabled \in BOOLEAN /\ p.dnd \in BOOLEAN
                         /\ p.max \in Nat /\ p.window \in Nat \ {0} /\ p.gap \in Nat

Focuses == {"unknown", "available", "focused", "dnd"}
Closed == {"stored_silently", "cancelled"}
Decided == Closed \cup {"ready", "deferred"}

VARIABLES
  sqlClock,       \* the clock of SQLite
  policy,    \* the autonomy policy row; NoPolicy when there is none
  goal,      \* goal |-> "none", "active" or "closed"
  talked,    \* when the latest episode ended, NoTime if never
  intent,    \* tick |-> its life_proactive_intent row
  intentEvent,     \* tick |-> its life_proactive_intent_event row
  call,      \* worker |-> where its call stands and what it has read
  updates, tickCrashes, talks, calls,
  answers,   \* history: the decisions callers were told
  readies    \* history: the ready decisions, with the policy of their transaction

autonomyVars == <<sqlClock, policy, goal, talked, intent, intentEvent, call, updates, tickCrashes, talks, calls,
          answers, readies>>
autonomyDb == <<policy, goal, talked, intent, intentEvent>>

NoIntent == [status |-> "none", goal |-> 0, focus |-> "unknown", recent |-> NoTime,
             created |-> NoTime, updated |-> NoTime, notBefore |-> NoTime]
NoIntentEvent == [to |-> "none", notBefore |-> NoTime]
NoCall == [pc |-> "idle", tick |-> NoTick, focus |-> "unknown", policy |-> NoPolicy,
         todo |-> {}, latest |-> [g \in {} |-> NoTick], seen |-> NoIntent,
         at |-> NoTime, goal |-> 0, recent |-> NoTime, of |-> NoTick]

(* A Life with one goal, with or without a policy row and a conversation   *)
(* that ended long enough ago.  No policy row means autonomy is disabled.  *)
AutonomyInit ==
  /\ sqlClock = Quiet
  /\ policy \in Policies \cup {NoPolicy}
  /\ goal = [g \in Goals |-> IF g = 1 THEN "active" ELSE "none"]
  /\ talked \in {NoTime, 0}
  /\ intent = [t \in Ticks |-> NoIntent]
  /\ intentEvent = [t \in Ticks |-> NoIntentEvent]
  /\ call = [w \in TickCallers |-> NoCall]
  /\ updates = 0 /\ tickCrashes = 0 /\ talks = 0 /\ calls = [t \in Ticks |-> 0]
  /\ answers = {} /\ readies = <<>>

CallAt(w, label) == call[w].pc = label
CallTo(w, label) == call' = [call EXCEPT ![w].pc = label]

(* A call returns without a decision: disabled, no goal, waiting, an error. *)
Return(w) == call' = [call EXCEPT ![w] = NoCall]

(* A call returns the decision d it applied or replayed for tick t.        *)
Answer(w, t, d) ==
  /\ Return(w)
  /\ answers' = answers \cup {[tick |-> t, goal |-> intent[t].goal, status |-> d]}

----------------------------------------------------------------------------
(* The decision of an evaluation: evaluate_initiative_policy with the      *)
(* temporal context built by evaluate_pending_intent_in_transaction.       *)

(* The ready decisions that still count: events with to_status ready.      *)
ReadyTimes == {<<t, intent[t].updated>> : t \in {u \in Ticks : intentEvent[u].to = "ready"}}

Times(S) == {r[2] : r \in S}

InWindow(p) == {r \in ReadyTimes : r[2] >= sqlClock - p.window /\ r[2] <= sqlClock}

(* The times before which each gate that is closed keeps the intent back.  *)
RecentGate(i) ==
  IF i.recent = NoTime THEN {sqlClock + Recheck}
  ELSE IF i.recent < Quiet THEN {sqlClock + Quiet - i.recent} ELSE {}

TemporaryGate(i, p) ==
  IF p.dnd \/ i.focus # "available" THEN {sqlClock + Max({Recheck, p.gap})} ELSE {}

FrequencyGate(p) ==
  IF Cardinality(InWindow(p)) >= p.max THEN {Min(Times(InWindow(p))) + p.window} ELSE {}

GapGate(p) ==
  {c \in {Max(Times(ReadyTimes)) + p.gap : r \in ReadyTimes} : c > sqlClock}

Gates(i, p) == RecentGate(i) \cup TemporaryGate(i, p) \cup FrequencyGate(p) \cup GapGate(p)

(* The value of a goal check-in: importance 500, relevance 1000, desire 0, *)
(* cost 500 and the neutral acceptance 500 against the thresholds.         *)
Worthwhile ==
  LET importance == 500  relevance == 1000  desire == 0  cost == 500  acceptance == 500
  IN  /\ relevance >= 500 /\ cost <= 600 /\ acceptance >= 400
      /\ 2 * importance + 3 * relevance + Min({desire, 500}) + acceptance - 3 * cost >= 2500

Decision(i) ==
  IF ~policy.enabled \/ goal[i.goal] # "active" THEN "cancelled"
  ELSE IF policy.max = 0 THEN "stored_silently"
  ELSE IF Gates(i, policy) # {} THEN "deferred"
  ELSE IF Worthwhile THEN "ready" ELSE "stored_silently"

----------------------------------------------------------------------------
(* The call.                                                               *)

(* Mutant: an intent that is still pending is answered as it is.           *)
ReplayPending(w, t, r) ==
  /\ call' = [call EXCEPT ![w] =
       IF r.focus # @.focus \/ r.status = "pending" THEN NoCall
       ELSE [NoCall EXCEPT !.pc = "event", !.of = t, !.seen = r]]
  /\ UNCHANGED answers

(* replay_existing_tick_intent on the row r that was just read for tick t. *)
Replay(w, t, r) ==
  /\ call' = [call EXCEPT ![w] =
       IF r.focus # @.focus THEN NoCall
       ELSE IF r.status = "pending" THEN [NoCall EXCEPT !.pc = "evaluate", !.of = t]
       ELSE [NoCall EXCEPT !.pc = "event", !.of = t, !.seen = r]]
  /\ UNCHANGED answers

(* The trusted entry: the persisted focus of an existing intent is reused. *)
StartTick(w, t) ==
  /\ CallAt(w, "idle") /\ (calls[t] < MaxCalls \/ intent[t].status = "pending")
  /\ calls' = [calls EXCEPT ![t] = Min({MaxCalls, @ + 1})]
  /\ call' = [call EXCEPT ![w] = [NoCall EXCEPT
       !.tick = t,
       !.pc = IF intent[t] = NoIntent THEN "policy" ELSE "find",
       !.focus = intent[t].focus]]
  /\ UNCHANGED <<sqlClock, autonomyDb, updates, tickCrashes, talks, answers, readies>>

(* The focus is taken from the policy, or observed if the policy needs it. *)
ReadFocusPolicy(w) ==
  /\ CallAt(w, "policy")
  /\ call' = [call EXCEPT
       ![w].pc = IF ~policy.enabled \/ policy.dnd \/ policy.max = 0 THEN "find" ELSE "observe",
       ![w].focus = IF policy.enabled /\ policy.dnd THEN "dnd" ELSE "unknown"]
  /\ UNCHANGED <<sqlClock, autonomyDb, updates, tickCrashes, talks, calls, answers, readies>>

(* The foreground observation; without perception consent it is unknown.   *)
Observe(w) ==
  /\ CallAt(w, "observe")
  /\ \/ \E f \in {"available", "focused", "unknown"} :
          call' = [call EXCEPT ![w].pc = "find", ![w].focus = f]
     \/ Return(w)
  /\ UNCHANGED <<sqlClock, autonomyDb, updates, tickCrashes, talks, calls, answers, readies>>

FindIntent(w) ==
  /\ CallAt(w, "find")
  /\ IF intent[call[w].tick] = NoIntent
     THEN CallTo(w, "tickPolicy") /\ UNCHANGED answers
     ELSE Replay(w, call[w].tick, intent[call[w].tick])
  /\ UNCHANGED <<sqlClock, autonomyDb, updates, tickCrashes, talks, calls, readies>>

ReadTickPolicy(w) ==
  /\ CallAt(w, "tickPolicy")
  /\ IF policy.enabled
     THEN call' = [call EXCEPT ![w].pc = "goals", ![w].policy = policy]
     ELSE Return(w)
  /\ UNCHANGED <<sqlClock, autonomyDb, updates, tickCrashes, talks, calls, answers, readies>>

(* The first GoalLimit active goals in the order of their creation.        *)
Inspected ==
  {g \in Goals : /\ goal[g] = "active"
                 /\ Cardinality({h \in Goals : h < g /\ goal[h] = "active"}) < GoalLimit}

ReadGoals(w) ==
  /\ CallAt(w, "goals")
  /\ IF Inspected = {} THEN Return(w)
     ELSE call' = [call EXCEPT ![w].pc = "latest", ![w].todo = Inspected]
  /\ UNCHANGED <<sqlClock, autonomyDb, updates, tickCrashes, talks, calls, answers, readies>>

(* The latest intent of a goal: ORDER BY created_at DESC, intent_id DESC.  *)
IntentsOf(g) == {t \in Ticks : intent[t] # NoIntent /\ intent[t].goal = g}

Latest(g) ==
  CHOOSE t \in IntentsOf(g) : \A u \in IntentsOf(g) :
    \/ intent[u].created < intent[t].created
    \/ intent[u].created = intent[t].created /\ u <= t

(* One find_latest_intent_for_goal, in the order of the goals.             *)
ReadLatest(w) ==
  LET g == Min(call[w].todo)
      row == IF IntentsOf(g) = {} THEN [id |-> NoTick, row |-> NoIntent]
             ELSE [id |-> Latest(g), row |-> intent[Latest(g)]]
      rest == call[w].todo \ {g}
  IN  /\ CallAt(w, "latest")
      /\ call' = [call EXCEPT
           ![w].todo = rest,
           ![w].latest = [h \in DOMAIN @ \cup {g} |-> IF h = g THEN row ELSE @[h]],
           ![w].pc = IF rest = {} THEN "select" ELSE @]
      /\ UNCHANGED <<sqlClock, autonomyDb, updates, tickCrashes, talks, calls, answers, readies>>

(* What keeps a candidate back: blocking_state on the row that was read.   *)
Blocked(r, p) ==
  \/ r.status = "ready"
  \/ r.status = "deferred" /\ r.notBefore > sqlClock
  \/ r.status \in Closed /\ sqlClock < r.updated + Max({Recheck, p.gap})

(* compare_candidates: without history first, then the least recently      *)
(* updated, then the older goal.                                           *)
Before(c, g, h) ==
  LET u == c[g].row.updated  v == c[h].row.updated
  IN  u < v \/ (u = v /\ g <= h)

Selected(c, p) ==
  LET eligible == {g \in DOMAIN c : c[g].row.status # "pending" /\ ~Blocked(c[g].row, p)}
  IN  {g \in eligible : \A h \in eligible : Before(c, g, h)}

(* Where a candidate has a pending intent the first of them is recovered.  *)
PendingOf(c) == {g \in DOMAIN c : c[g].row.status = "pending"}

(* The tick decides what to do: recover, stop, select or wait.             *)
SelectCandidate(w) ==
  LET c == call[w].latest
      p == call[w].policy
      pick == Selected(c, p)
  IN  /\ CallAt(w, "select")
      /\ call' = [call EXCEPT ![w] =
           IF PendingOf(c) # {}
           THEN [NoCall EXCEPT !.pc = "evaluate", !.of = c[Min(PendingOf(c))].id]
           ELSE IF p.max = 0 \/ pick = {} THEN NoCall
           ELSE [@ EXCEPT !.pc = "episode", !.goal = Min(pick), !.at = sqlClock,
                          !.policy = NoPolicy, !.latest = NoCall.latest]]
      /\ UNCHANGED <<sqlClock, autonomyDb, updates, tickCrashes, talks, calls, answers, readies>>

ReadEpisode(w) ==
  /\ CallAt(w, "episode")
  /\ call' = [call EXCEPT ![w].pc = "create", ![w].at = NoTime,
       ![w].recent = IF talked = NoTime THEN NoTime ELSE Max({0, call[w].at - talked})]
  /\ UNCHANGED <<sqlClock, autonomyDb, updates, tickCrashes, talks, calls, answers, readies>>

Evidence(w) == <<call[w].goal, call[w].focus, call[w].recent>>

(* create_pending_intent_in_transaction.  An existing identity is resolved *)
(* first: the same evidence is a replay, other evidence a conflict that    *)
(* makes the tick look the intent up again.                                *)
CreateIntent(w) ==
  LET t == call[w].tick
      r == intent[t]
  IN  /\ CallAt(w, "create")
      /\ \/ /\ r # NoIntent /\ <<r.goal, r.focus, r.recent>> = Evidence(w)
            /\ Replay(w, t, r)
            /\ UNCHANGED intent
         \/ /\ r # NoIntent /\ <<r.goal, r.focus, r.recent>> # Evidence(w)
            /\ call' = [call EXCEPT ![w] = [NoCall EXCEPT !.pc = "conflict", !.tick = t, !.focus = call[w].focus]]
            /\ UNCHANGED <<intent, answers>>
         \/ /\ r = NoIntent
            /\ ~policy.enabled \/ goal[call[w].goal] # "active"
            /\ Return(w)
            /\ UNCHANGED <<intent, answers>>
         \/ /\ r = NoIntent /\ policy.enabled /\ goal[call[w].goal] = "active"
            /\ intent' = [intent EXCEPT ![t] =
                 [status |-> "pending", goal |-> call[w].goal, focus |-> call[w].focus,
                  recent |-> call[w].recent, created |-> sqlClock, updated |-> sqlClock,
                  notBefore |-> NoTime]]
            /\ call' = [call EXCEPT ![w] = [NoCall EXCEPT !.pc = "evaluate", !.of = t]]
            /\ UNCHANGED answers
      /\ UNCHANGED <<sqlClock, policy, goal, talked, intentEvent, updates, tickCrashes, talks, calls, readies>>

FindConflicting(w) ==
  /\ CallAt(w, "conflict")
  /\ Replay(w, call[w].tick, intent[call[w].tick])
  /\ UNCHANGED <<sqlClock, autonomyDb, updates, tickCrashes, talks, calls, readies>>

(* The evaluation event of a decided intent is read and compared with it.  *)
FindEvent(w) ==
  LET t == call[w].of
      r == call[w].seen
  IN  /\ CallAt(w, "event")
      /\ Answer(w, t, IF intentEvent[t] = [to |-> r.status, notBefore |-> r.notBefore]
                      THEN r.status ELSE "conflict")
      /\ UNCHANGED <<sqlClock, autonomyDb, updates, tickCrashes, talks, calls, readies>>

(* What an evaluation that found no event of the tick does to intent t.    *)
Evaluated(t, d) ==
  /\ intent' = [intent EXCEPT
       ![t].status = d, ![t].updated = sqlClock,
       ![t].notBefore = IF d = "deferred" THEN Max(Gates(intent[t], policy)) ELSE NoTime]
  /\ intentEvent' = [intentEvent EXCEPT ![t] = [to |-> d, notBefore |-> intent'[t].notBefore]]
  /\ readies' = IF d = "ready"
                THEN Append(readies, [tick |-> t, at |-> sqlClock, policy |-> policy])
                ELSE readies

(* Mutant: every evaluation decides anew.                                  *)
NeverEvaluated(t) == FALSE

(* An evaluation that finds its event answers from it, before anything     *)
(* else is read.                                                           *)
AlreadyEvaluated(t) == intentEvent[t] # NoIntentEvent

(* evaluate_pending_intent_in_transaction.                                 *)
Evaluate(w) ==
  LET t == call[w].of
      d == Decision(intent[t])
  IN  /\ CallAt(w, "evaluate")
      /\ \/ /\ AlreadyEvaluated(t)
            /\ Answer(w, t, intent[t].status)
            /\ UNCHANGED <<intent, intentEvent, readies>>
         \/ /\ ~AlreadyEvaluated(t)
            /\ Evaluated(t, d)
            /\ Answer(w, t, d)
      /\ UNCHANGED <<sqlClock, policy, goal, talked, updates, tickCrashes, talks, calls>>

----------------------------------------------------------------------------
(* The rest of the Life.                                                   *)

(* The user creates or updates the policy.                                 *)
SetPolicy(p) ==
  /\ updates < MaxUpdates /\ p # policy
  /\ policy' = p
  /\ updates' = updates + 1
  /\ UNCHANGED <<sqlClock, goal, talked, intent, intentEvent, call, tickCrashes, talks, calls, answers, readies>>

GoalAppears(g) ==
  /\ goal[g] = "none" /\ \A h \in Goals : h < g => goal[h] # "none"
  /\ goal' = [goal EXCEPT ![g] = "active"]
  /\ UNCHANGED <<sqlClock, policy, talked, intent, intentEvent, call, updates, tickCrashes, talks, calls,
                 answers, readies>>

(* A goal is completed or cancelled, and stays so.                         *)
CloseGoal(g) ==
  /\ goal[g] = "active"
  /\ goal' = [goal EXCEPT ![g] = "closed"]
  /\ UNCHANGED <<sqlClock, policy, talked, intent, intentEvent, call, updates, tickCrashes, talks, calls,
                 answers, readies>>

(* A conversation ends.                                                    *)
Talk ==
  /\ talks < MaxTalks /\ talked # sqlClock
  /\ talks' = talks + 1
  /\ talked' = sqlClock
  /\ UNCHANGED <<sqlClock, policy, goal, intent, intentEvent, call, updates, tickCrashes, calls,
                 answers, readies>>

ClockAdvances ==
  /\ sqlClock < MaxNow
  /\ sqlClock' = sqlClock + 1
  /\ UNCHANGED <<autonomyDb, call, updates, tickCrashes, talks, calls, answers, readies>>

(* A process dies in the middle of its call; what is committed stays.      *)
TickCrash(w) ==
  /\ tickCrashes < MaxTickCrashes /\ ~CallAt(w, "idle")
  /\ tickCrashes' = tickCrashes + 1
  /\ Return(w)
  /\ UNCHANGED <<sqlClock, autonomyDb, updates, talks, calls, answers, readies>>

TickStep(w) ==
  \/ ReadFocusPolicy(w) \/ Observe(w) \/ FindIntent(w) \/ ReadTickPolicy(w)
  \/ ReadGoals(w) \/ ReadLatest(w) \/ SelectCandidate(w) \/ ReadEpisode(w)
  \/ CreateIntent(w) \/ FindConflicting(w) \/ FindEvent(w) \/ Evaluate(w)

AutonomyNext ==
  \/ \E w \in TickCallers : TickStep(w) \/ TickCrash(w) \/ \E t \in Ticks : StartTick(w, t)
  \/ \E p \in Policies : SetPolicy(p)
  \/ \E g \in Goals : GoalAppears(g) \/ CloseGoal(g)
  \/ Talk \/ ClockAdvances

AutonomySpec == AutonomyInit /\ [][AutonomyNext]_autonomyVars

----------------------------------------------------------------------------
(* Properties.                                                             *)

AutonomyTypeOK ==
  /\ sqlClock \in 0 .. MaxNow
  /\ policy \in Policies \cup {NoPolicy}
  /\ goal \in [Goals -> {"none", "active", "closed"}]
  /\ talked \in {NoTime} \cup 0 .. sqlClock
  /\ \A t \in Ticks :
       /\ intent[t].status \in {"none", "pending"} \cup Decided
       /\ intent[t].focus \in Focuses
       /\ (intent[t].notBefore # NoTime) <=> (intent[t].status = "deferred")
       /\ intent[t].status = "deferred" => intent[t].notBefore >= intent[t].updated

(* Every caller that is told the decision on an intent is told the same    *)
(* one, however its call, the retries of the tick and the calls of other   *)
(* ticks that recover the intent interleave; none meets an intent whose    *)
(* evaluation evidence is missing or contradicts it (the second            *)
(* tick_conflict of replay_existing_tick_intent).                          *)
SameTickSameAnswer ==
  \A a, b \in answers : /\ a.status \in Decided
                        /\ a.tick = b.tick => a.status = b.status /\ a.goal = b.goal

(* However many callers evaluate at once, no window of the policy in force *)
(* at a ready decision holds more than max_ready_per_window of them, and   *)
(* the decision keeps min_gap_seconds from every earlier one.              *)
ReadyWithinBudget ==
  \A k \in 1 .. Len(readies) :
    LET r == readies[k]
        earlier == {j \in 1 .. k - 1 : readies[j].at >= r.at - r.policy.window}
    IN  /\ Cardinality(earlier) < r.policy.max
        /\ \A j \in 1 .. k - 1 : r.at >= readies[j].at + r.policy.gap

(* With one caller at a time, crashes included, an active goal has at most *)
(* one intent that is still pending or waits for delivery: a goal with a   *)
(* ready intent is kept back (blocking_state), a pending one is recovered  *)
(* before anything new is created.                                         *)
OneOpenPerGoal ==
  \A g \in Goals : goal[g] = "active" =>
    Cardinality({t \in Ticks : intent[t].goal = g
                               /\ intent[t].status \in {"pending", "ready"}}) <= 1

(* What PendingIsDecided assumes of a caller: a tick is run again until it *)
(* has an answer.  The code schedules no tick and has no such caller yet.  *)
TicksAreRepeated ==
  \A t \in Ticks : SF_autonomyVars(\E w \in TickCallers : StartTick(w, t))

(* If ticks are repeated, an intent left pending by a crash is decided in  *)
(* the end: by the retry of its tick or by any other tick that inspects    *)
(* its goal.                                                               *)
PendingIsDecided ==
  TicksAreRepeated =>
    \A t \in Ticks : intent[t].status = "pending" ~> intent[t].status \in Decided

(* Callers that evaluate at once agree and keep the budget.                *)
AutonomySafe == AutonomyTypeOK /\ SameTickSameAnswer /\ ReadyWithinBudget
=============================================================================
