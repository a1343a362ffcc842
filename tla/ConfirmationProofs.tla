------------------------- MODULE ConfirmationProofs -------------------------
(***************************************************************************)
(* Approval tokens and the memories confirmed with them, for any callers,  *)
(* tokens, candidates and limits: the registry in memory and the database  *)
(* tell one story.                                                         *)
(***************************************************************************)
EXTENDS Confirmation, CandidateProofs, FiniteSetTheorems, TLAPS

(* Tokens and calls *)

EntryRow ==
    [candidate : Candidates \cup {Null}, expected : Nat, expires : Nat, state : States,
     attempts : 0..MaxAttempts, sequence : Nat, lease : Nat, deadline : Nat, terminal : Nat]

Successes == {"reconciled", "confirmed", "already"}

Results == Successes \cup {"none", "not_committed", "unavailable", "terminal", "panic"}

CallerRow ==
    [pc : {"idle", "prepare", "probe", "reread", "write", "finalize"},
     token : Tokens \cup {Null}, sequence : Nat, recovery : BOOLEAN, readOnly : BOOLEAN,
     result : Results, mint : Tokens \cup {Null}, at : Nat, todo : SUBSET Tokens]

RegistryTyped ==
    /\ entry \in [Tokens -> EntryRow] /\ caller \in [Callers -> CallerRow]
    /\ registered \subseteq Tokens /\ IsFiniteSet(registered) /\ Cardinality(registered) <= Capacity
    /\ sequence \in Nat /\ now \in Nat /\ faults \in Nat
    /\ writes \in [Tokens -> Nat] /\ shown \in [Tokens -> Contents \cup {Null}]
    /\ fresh \in [Candidates -> {0, 1}]

\* The token was inserted in the registry once.
Issued(t) == entry[t].state \notin {"none", "refused"}

TokensSound ==
    \A t \in Tokens :
        /\ Issued(t) => entry[t].candidate \in Candidates
        /\ t \in registered => Issued(t)
        /\ ~Issued(t) => entry[t].attempts = 0
        /\ entry[t].state \in {"in_flight", "recovery"} => t \in registered

CallersSound ==
    /\ \A w \in Callers :
         /\ caller[w].token \in Tokens <=> caller[w].pc \notin {"idle", "prepare"}
         /\ caller[w].token \in Tokens => Issued(caller[w].token)
         /\ caller[w].mint \in Tokens =>
              entry[caller[w].mint].state = "none" /\ entry[caller[w].mint].candidate \in Candidates
         /\ caller[w].pc = "prepare" => caller[w].mint \in Tokens
         /\ \A t \in caller[w].todo : Issued(t)
         /\ caller[w].pc \in {"reread", "write"} => ~caller[w].readOnly
         /\ caller[w].result # "none" <=> caller[w].pc = "finalize"
    /\ \A v, w \in Callers : caller[v].mint \in Tokens /\ caller[v].mint = caller[w].mint => v = w

\* A candidate that is still at the revision it was prepared with has the content that
\* was shown, and so has every memory.
ShownSound ==
    /\ \A t \in Tokens : entry[t].candidate \in Candidates =>
         LET c == entry[t].candidate
         IN  /\ candidate[c].status # "unborn"
             /\ Pending(c) => /\ candidate[c].revision >= entry[t].expected
                              /\ candidate[c].revision = entry[t].expected =>
                                   candidate[c].content = shown[t]
    /\ \A r \in memory : /\ Issued(r.request) /\ entry[r.request].candidate = r.candidate
                         /\ r.content = shown[r.request]

\* The call that has confirmed c and not said so yet.
Confirming(w, c) == caller[w].result = "confirmed" /\ entry[caller[w].token].candidate = c

\* A candidate is told to be freshly confirmed once.
FreshSound ==
    \A c \in Candidates :
        /\ candidate[c].status \in {"unborn", "pending"} =>
             fresh[c] = 0 /\ \A w \in Callers : ~Confirming(w, c)
        /\ fresh[c] = 1 => \A w \in Callers : ~Confirming(w, c)
        /\ \A v, w \in Callers : Confirming(v, c) /\ Confirming(w, c) => v = w

\* The candidate of t was confirmed with t.
Confirmed(t) == Accepted(entry[t].candidate, t) \/ candidate[entry[t].candidate].status = "gone"

\* Who tells of a confirmation tells the truth.
TruthSound ==
    /\ \A t \in Tokens : entry[t].state = "consumed" => Confirmed(t)
    /\ \A w \in Callers : caller[w].result \in Successes => Confirmed(caller[w].token)

\* The calls that may still enter D-4 for t.
Writers(t) == {w \in Callers : /\ caller[w].token = t /\ ~caller[w].readOnly
                               /\ caller[w].pc \in {"probe", "reread", "write"}}

BudgetSound ==
    \A t \in Tokens : /\ IsFiniteSet(Writers(t))
                      /\ writes[t] + Cardinality(Writers(t)) <= entry[t].attempts

\* The inductive invariant.
ConfirmInv ==
    /\ CandidatesSound /\ RegistryTyped /\ TokensSound /\ CallersSound
    /\ ShownSound /\ FreshSound /\ TruthSound /\ BudgetSound

-----------------------------------------------------------------------------
(* At most one lost answer *)

Told(t) == \E w \in Callers : caller[w].token = t /\ caller[w].result = "confirmed"

\* Without a fault nothing recovers, and an issued token has not been claimed.
NoFaultYet ==
    faults = 0 =>
        /\ \A t \in Tokens : entry[t].state # "recovery"
        /\ \A w \in Callers : caller[w].token \in Tokens =>
             /\ ~caller[w].recovery /\ caller[w].pc # "probe"
             /\ caller[w].result \in {"none", "confirmed", "already", "terminal"}
             /\ entry[caller[w].token].state \notin {"issued", "expired", "cancelled"}

\* A commit that no call is about to tell.
Silent(t) ==
    /\ Issued(t) /\ Committed(t) /\ ~Told(t)
    /\ entry[t].state \notin {"consumed", "cancelled"}

\* The answer was the lost one, and no call of t will find that nothing was committed.
Lost(t) ==
    /\ faults = 1 /\ entry[t].state \in {"in_flight", "recovery", "invalidated"}
    /\ \A w \in Callers : caller[w].token = t =>
         /\ caller[w].result \notin {"not_committed", "unavailable"}
         /\ caller[w].recovery => caller[w].pc \in {"probe", "finalize"}

CommitIsKnown == \A t \in Tokens : Silent(t) => Lost(t)

OneFaultInv == faults <= 1 /\ NoFaultYet /\ CommitIsKnown

-----------------------------------------------------------------------------
(* One call and one entry *)

\* The next state x of a call of w for t: it keeps, or drops, what it has to prepare, and
\* has not just confirmed anything.
NextCall(w, x, t) ==
    /\ x \in CallerRow
    /\ x.token \in {t, Null} /\ (x.token = t <=> x.pc \notin {"idle", "prepare"})
    /\ x.mint = caller[w].mint \/ (x.mint = Null /\ x.pc # "prepare")
    /\ x.pc = "prepare" => caller[w].mint \in Tokens
    /\ x.todo \subseteq caller[w].todo
    /\ x.pc \in {"reread", "write"} => ~x.readOnly
    /\ x.result # "none" <=> x.pc = "finalize"
    /\ x.result # "confirmed"
    /\ x.result \in Successes => Confirmed(t)

\* The next state e of the entry of t.
NextEntry(e, t) ==
    /\ e \in EntryRow /\ e.candidate = entry[t].candidate /\ e.expected = entry[t].expected
    /\ e.state \notin {"none", "refused"}
    /\ e.state \in {"in_flight", "recovery"} => t \in registered
    /\ e.state = "consumed" => Confirmed(t)

\* A claim adds a writer and an attempt; a write takes a writer.
NextBudget(w, x, e, t) ==
    LET writer == x.token = t /\ ~x.readOnly /\ x.pc \in {"probe", "reread", "write"}
    IN  \/ writes' = writes /\ e.attempts = entry[t].attempts + 1
        \/ writes' = writes /\ e.attempts = entry[t].attempts /\ (writer => w \in Writers(t))
        \/ /\ writes' = [writes EXCEPT ![t] = @ + 1] /\ e.attempts = entry[t].attempts
           /\ ~writer /\ w \in Writers(t)

\* A writer more or less.
LEMMA OneWriter ==
  ASSUME NEW W, IsFiniteSet(W), NEW w
  PROVE  /\ IsFiniteSet(W \cup {w}) /\ IsFiniteSet(W \ {w})
         /\ Cardinality(W) \in Nat /\ Cardinality(W \ {w}) \in Nat /\ Cardinality(W \cup {w}) \in Nat
         /\ Cardinality(W \cup {w}) <= Cardinality(W) + 1 /\ Cardinality(W \ {w}) <= Cardinality(W)
         /\ w \in W => Cardinality(W \ {w}) = Cardinality(W) - 1
BY FS_AddElement, FS_RemoveElement, FS_CardinalityType

\* The budget holds for the callers and entries after a step.
LEMMA BudgetKept ==
  ASSUME RegistryTyped, BudgetSound, NEW w \in Callers, NEW x, NEW t \in Tokens, NEW e,
         caller' = [caller EXCEPT ![w] = x], entry' = [entry EXCEPT ![t] = e],
         x.token \in {t, Null}, e \in EntryRow, NextBudget(w, x, e, t)
  PROVE  BudgetSound'
<1>1. /\ entry'[t] = e /\ \A s \in Tokens \ {t} : entry'[s] = entry[s]
      /\ caller'[w] = x /\ \A v \in Callers \ {w} : caller'[v] = caller[v]
      /\ \A s \in Tokens : entry[s].attempts \in Nat /\ writes[s] \in Nat
      /\ Null \notin Tokens /\ e.attempts \in Nat
  BY CandidateAssumption, ConfirmationAssumption DEF RegistryTyped, EntryRow, Tokens
<1>2. ASSUME NEW s \in Tokens
      PROVE  /\ IsFiniteSet(Writers(s))' /\ Cardinality(Writers(s)') \in Nat /\ Cardinality(Writers(s)) \in Nat
             /\ Cardinality(Writers(s)') <= Cardinality(Writers(s)) + 1
             /\ s # t \/ ~(w \in Writers(t)' \ Writers(t)) => Cardinality(Writers(s)') <= Cardinality(Writers(s))
             /\ s = t /\ w \in Writers(t) \ Writers(t)' => Cardinality(Writers(s)') = Cardinality(Writers(s)) - 1
  <2>1. PICK old, new : old = Writers(s) /\ new = Writers(s)'
    OBVIOUS
  <2>2. new = old \cup {w} \/ new = old \ {w}
    BY <1>1, <2>1 DEF Writers
  <2>3. s # t => w \notin new
    BY <1>1, <2>1 DEF Writers
  <2>4. IsFiniteSet(old)
    BY <2>1 DEF BudgetSound
  <2>5. w \in old => old \cup {w} = old
    OBVIOUS
  <2>6. w \notin old => old \ {w} = old
    OBVIOUS
  <2>7. IsFiniteSet(new) /\ Cardinality(new) \in Nat /\ Cardinality(old) \in Nat
    BY <2>2, <2>4, OneWriter
  <2>8. Cardinality(new) <= Cardinality(old) + 1
    <3>1. CASE new = old \cup {w}
      BY <2>4, <3>1, OneWriter
    <3>2. CASE new = old \ {w}
      <4>1. Cardinality(new) <= Cardinality(old)
        BY <2>4, <3>2, OneWriter
      <4> QED
        BY <2>7, <4>1
    <3> QED
      BY <2>2, <3>1, <3>2
  <2>9. ~(w \in new \ old) => Cardinality(new) <= Cardinality(old)
    <3>1. CASE w \in new
      BY <2>2, <2>5, <2>7, <3>1
    <3>2. CASE w \notin new
      BY <2>2, <2>4, <2>7, <3>2, OneWriter
    <3> QED
      BY <3>1, <3>2
  <2>10. w \in old \ new => Cardinality(new) = Cardinality(old) - 1
    BY <2>2, <2>4, OneWriter
  <2> QED
    BY <2>1, <2>3, <2>7, <2>8, <2>9, <2>10
<1>3. ASSUME NEW s \in Tokens
      PROVE  writes'[s] + Cardinality(Writers(s)') <= entry'[s].attempts
  <2>1. writes[s] + Cardinality(Writers(s)) <= entry[s].attempts
    BY DEF BudgetSound
  <2>2. CASE s # t
    <3>1. writes'[s] = writes[s] /\ entry'[s] = entry[s]
      BY <1>1, <2>2 DEF NextBudget, RegistryTyped
    <3> QED
      BY <1>1, <1>2, <2>1, <2>2, <3>1
  <2>3. CASE s = t
    <3>1. CASE writes' = writes /\ e.attempts = entry[t].attempts + 1
      BY <1>1, <1>2, <2>1, <2>3, <3>1
    <3>2. CASE writes' = writes /\ e.attempts = entry[t].attempts /\ ~(w \in Writers(t)' \ Writers(t))
      BY <1>1, <1>2, <2>1, <2>3, <3>2
    <3>3. CASE /\ writes' = [writes EXCEPT ![t] = @ + 1] /\ e.attempts = entry[t].attempts
               /\ w \in Writers(t) \ Writers(t)'
      <4>1. writes'[t] = writes[t] + 1
        BY <3>3 DEF RegistryTyped
      <4> QED
        BY <1>1, <1>2, <2>1, <2>3, <3>3, <4>1
    <3>4. w \in Writers(t)' <=> x.token = t /\ ~x.readOnly /\ x.pc \in {"probe", "reread", "write"}
      BY <1>1 DEF Writers
    <3> QED
      BY <3>1, <3>2, <3>3, <3>4 DEF NextBudget
  <2> QED
    BY <2>2, <2>3
<1> QED
  BY <1>2, <1>3 DEF BudgetSound

\* A step of one call that leaves the database alone.
LEMMA CallChange ==
  ASSUME ConfirmInv, NEW w \in Callers, NEW x, NEW t \in Tokens, NEW e, Issued(t),
         caller' = [caller EXCEPT ![w] = x], entry' = [entry EXCEPT ![t] = e],
         NextCall(w, x, t), NextEntry(e, t), NextBudget(w, x, e, t),
         UNCHANGED <<candidateVars, registered, shown, now>>, sequence' \in Nat, faults' \in Nat,
         \/ fresh' = fresh
         \/ /\ Confirming(w, entry[t].candidate)
            /\ fresh' = [fresh EXCEPT ![entry[t].candidate] = @ + 1]
  PROVE  ConfirmInv'
<1> DEFINE c == entry[t].candidate
<1>1. /\ entry'[t] = e /\ \A s \in Tokens \ {t} : entry'[s] = entry[s]
      /\ caller'[w] = x /\ \A v \in Callers \ {w} : caller'[v] = caller[v]
      /\ Null \notin Tokens /\ c \in Candidates
  BY CandidateAssumption DEF ConfirmInv, RegistryTyped, TokensSound, Tokens
<1>2. /\ e.candidate = c /\ e.expected = entry[t].expected /\ e \in EntryRow /\ x \in CallerRow
      /\ e.state \notin {"none", "refused"}
  BY DEF NextEntry, NextCall
<1>3. \A s \in Tokens : /\ entry'[s].candidate = entry[s].candidate /\ entry'[s].expected = entry[s].expected
                        /\ Issued(s)' <=> Issued(s)
  BY <1>1, <1>2 DEF Issued
<1>4. CandidatesSound'
  BY DEF ConfirmInv, CandidatesSound, candidateVars, CandidateTypes, TablesAgree, Pending
<1>5. fresh' \in [Candidates -> {0, 1}] /\ \A d \in Candidates : fresh'[d] = fresh[d] \/ (d = c /\ fresh'[d] = 1)
  <2>1. fresh \in [Candidates -> {0, 1}]
    BY DEF ConfirmInv, RegistryTyped
  <2>2. CASE fresh' = fresh
    BY <2>1, <2>2
  <2>3. CASE Confirming(w, c) /\ fresh' = [fresh EXCEPT ![c] = @ + 1]
    <3>1. fresh[c] = 0
      BY <1>1, <2>1, <2>3 DEF ConfirmInv, FreshSound
    <3> QED
      BY <1>1, <2>1, <2>3, <3>1
  <2> QED
    BY <2>2, <2>3
<1>6. RegistryTyped'
  <2>1. writes' \in [Tokens -> Nat]
    <3>1. writes \in [Tokens -> Nat]
      BY DEF ConfirmInv, RegistryTyped
    <3> QED
      BY <3>1 DEF NextBudget
  <2> QED
    BY <1>2, <1>5, <2>1 DEF ConfirmInv, RegistryTyped
<1>7. TokensSound'
  <2>1. \A s \in Tokens : ~Issued(s) => s # t
    OBVIOUS
  <2> QED
    BY <1>1, <1>2, <1>3, <2>1 DEF ConfirmInv, TokensSound, NextEntry
<1>8. CallersSound'
  <2>1. ASSUME NEW v \in Callers
        PROVE  /\ caller'[v].token \in Tokens <=> caller'[v].pc \notin {"idle", "prepare"}
               /\ caller'[v].token \in Tokens => Issued(caller'[v].token)
               /\ caller'[v].mint \in Tokens => caller'[v].mint = caller[v].mint
               /\ caller'[v].pc = "prepare" => caller'[v].mint \in Tokens
               /\ \A s \in caller'[v].todo : Issued(s)
               /\ caller'[v].pc \in {"reread", "write"} => ~caller'[v].readOnly
               /\ caller'[v].result # "none" <=> caller'[v].pc = "finalize"
    <3>1. CASE v = w
      BY <1>1, <3>1 DEF NextCall, ConfirmInv, CallersSound
    <3>2. CASE v # w
      BY <1>1, <3>2 DEF ConfirmInv, CallersSound
    <3> QED
      BY <3>1, <3>2
  <2>2. \A v \in Callers : caller[v].mint \in Tokens =>
          caller[v].mint # t /\ entry[caller[v].mint].state = "none" /\ entry[caller[v].mint].candidate \in Candidates
    BY DEF ConfirmInv, CallersSound, Issued
  <2>3. \A v \in Callers : caller'[v].mint \in Tokens =>
          entry'[caller'[v].mint].state = "none" /\ entry'[caller'[v].mint].candidate \in Candidates
    BY <1>1, <2>1, <2>2
  <2>4. (\A v \in Callers : /\ caller[v].token \in Tokens => Issued(caller[v].token)
                            /\ \A s \in caller[v].todo : Issued(s))'
    <3>1. \A v \in Callers : caller'[v].todo \subseteq Tokens
      BY <1>6 DEF RegistryTyped, CallerRow
    <3>2. \A s \in Tokens : Issued(s) => entry'[s].state \notin {"none", "refused"}
      BY <1>3 DEF Issued
    <3> QED
      BY <2>1, <3>1, <3>2 DEF Issued
  <2>5. \A u, v \in Callers : caller'[u].mint \in Tokens /\ caller'[u].mint = caller'[v].mint => u = v
    BY <2>1 DEF ConfirmInv, CallersSound
  <2>6. \A v \in Callers : caller'[v].token \in Tokens <=> caller'[v].pc \notin {"idle", "prepare"}
    BY <2>1
  <2>7. \A v \in Callers : caller'[v].result # "none" <=> caller'[v].pc = "finalize"
    BY <2>1
  <2> QED
    BY <2>1, <2>3, <2>4, <2>5, <2>6, <2>7 DEF CallersSound
<1>9. ShownSound'
  <2>1. \A r \in memory : r.request \in Tokens
    BY DEF ConfirmInv, CandidatesSound, CandidateTypes, Tokens
  <2> QED
    BY <1>3, <2>1 DEF ConfirmInv, ShownSound, candidateVars, Pending
<1>10. FreshSound'
  <2>1. \A v \in Callers, d \in Candidates : Confirming(v, d)' => Confirming(v, d) /\ v # w
    <3>1. \A v \in Callers : v # w /\ caller[v].result = "confirmed" => caller[v].token \in Tokens
      BY DEF ConfirmInv, CallersSound
    <3> QED
      BY <1>1, <1>3, <3>1 DEF Confirming, NextCall
  <2>2. ASSUME NEW d \in Candidates, fresh'[d] = 1, fresh[d] # 1
        PROVE  d = c /\ Confirming(w, c) /\ candidate[c].status \notin {"unborn", "pending"}
    BY <1>1, <1>5, <2>2 DEF ConfirmInv, FreshSound
  <2>3. \A d \in Candidates : fresh'[d] \in {0, 1} /\ fresh[d] \in {0, 1} /\ (fresh'[d] = 0 => fresh[d] = 0)
    BY <1>5 DEF ConfirmInv, RegistryTyped
  <2> QED
    BY <1>1, <1>5, <2>1, <2>2, <2>3 DEF ConfirmInv, FreshSound, candidateVars
<1>11. TruthSound'
  <2>1. \A s \in Tokens : Confirmed(s)' <=> Confirmed(s)
    BY <1>3 DEF Confirmed, Accepted, candidateVars
  <2>2. \A v \in Callers : caller'[v].result \in Successes => caller'[v].token \in Tokens
    BY <1>8 DEF CallersSound, Successes
  <2>3. \A s \in Tokens : entry'[s].state = "consumed" => Confirmed(s)
    BY <1>1 DEF NextEntry, ConfirmInv, TruthSound
  <2>4. \A v \in Callers : caller'[v].result \in Successes => Confirmed(caller'[v].token)
    <3>1. x.result \in Successes => x.token = t
      BY DEF NextCall, Successes
    <3> QED
      BY <1>1, <3>1 DEF NextCall, ConfirmInv, TruthSound
  <2> QED
    BY <2>1, <2>2, <2>3, <2>4 DEF TruthSound
<1>12. BudgetSound'
  BY BudgetKept DEF ConfirmInv, NextCall, NextEntry
<1> QED
  BY <1>4, <1>6, <1>7, <1>8, <1>9, <1>10, <1>11, <1>12 DEF ConfirmInv

-----------------------------------------------------------------------------
(* The steps of calls *)

\* An entry that ends, ages or is claimed stays an entry.
LEMMA EntryKept ==
  ASSUME RegistryTyped, NEW e \in EntryRow
  PROVE  /\ \A state \in States : /\ Ended(e, state) \in EntryRow /\ Ended(e, state).state = state
                                  /\ Ended(e, state).candidate = e.candidate
                                  /\ Ended(e, state).expected = e.expected
                                  /\ Ended(e, state).attempts = e.attempts
         /\ Aged(e) \in EntryRow /\ (Aged(e) = e \/ (e.state = "issued" /\ Aged(e).state = "expired"))
         /\ Aged(e).candidate = e.candidate /\ Aged(e).expected = e.expected
         /\ Aged(e).attempts = e.attempts
<1>1. now \in Nat
  BY DEF RegistryTyped
<1>2. \A state \in States : /\ Ended(e, state) \in EntryRow /\ Ended(e, state).state = state
                            /\ Ended(e, state).candidate = e.candidate
                            /\ Ended(e, state).expected = e.expected
                            /\ Ended(e, state).attempts = e.attempts
  BY <1>1 DEF Ended, EntryRow
<1>3. "expired" \in States
  BY DEF States
<1> QED
  BY <1>2, <1>3 DEF Aged

LEMMA ReconcileKeeps ==
  ASSUME ConfirmInv, NEW w \in Callers, NEW t \in Tokens, ReconcileDue(w, t)
  PROVE  ConfirmInv'
<1>1. /\ Issued(t) /\ entry[t] \in EntryRow /\ caller[w] \in CallerRow /\ caller[w].token = Null
      /\ caller[w].pc = "prepare" /\ caller[w].result = "none" /\ caller[w].mint \in Tokens
      /\ sequence \in Nat /\ faults \in Nat /\ Lease \in Nat /\ Null \notin Tokens
  BY CandidateAssumption, ConfirmationAssumption
     DEF ReconcileDue, ConfirmInv, RegistryTyped, CallersSound, CallerRow, Tokens
<1>2. UNCHANGED <<candidateVars, registered, shown, now, faults, writes, fresh>>
  BY DEF ReconcileDue
<1>3. CASE Due(entry[t], caller[w].at)
  <2>1. PICK e : e = [entry[t] EXCEPT !.state = "in_flight", !.sequence = sequence + 1,
                                      !.lease = caller[w].at + Lease]
    OBVIOUS
  <2>2. PICK x : x = [caller[w] EXCEPT !.pc = "probe", !.token = t, !.sequence = sequence + 1,
                        !.recovery = TRUE, !.readOnly = TRUE, !.todo = @ \ {t}]
    OBVIOUS
  <2>3. /\ caller' = [caller EXCEPT ![w] = x] /\ entry' = [entry EXCEPT ![t] = e]
        /\ sequence' = sequence + 1
    BY <1>3, <2>1, <2>2 DEF ReconcileDue, ConfirmInv, RegistryTyped
  <2>4. /\ e \in EntryRow /\ e.state = "in_flight" /\ e.candidate = entry[t].candidate
        /\ e.expected = entry[t].expected /\ e.attempts = entry[t].attempts /\ t \in registered
    <3>1. sequence + 1 \in Nat /\ caller[w].at + Lease \in Nat /\ "in_flight" \in States
      BY <1>1 DEF CallerRow, States
    <3>2. t \in registered
      BY <1>3 DEF Due, ConfirmInv, TokensSound
    <3>3. e \in EntryRow /\ e.state = "in_flight"
      BY <1>1, <2>1, <3>1 DEF EntryRow
    <3>4. /\ e.candidate = entry[t].candidate /\ e.expected = entry[t].expected
          /\ e.attempts = entry[t].attempts
      BY <1>1, <2>1 DEF EntryRow
    <3> QED
      BY <3>2, <3>3, <3>4
  <2>5. /\ x \in CallerRow /\ x.token = t /\ x.pc = "probe" /\ x.readOnly = TRUE /\ x.result = "none"
        /\ x.mint = caller[w].mint /\ x.todo \subseteq caller[w].todo
    <3>1. sequence + 1 \in Nat /\ caller[w].todo \ {t} \in SUBSET Tokens
      BY <1>1 DEF CallerRow
    <3>2. x \in CallerRow
      BY <1>1, <2>2, <3>1 DEF CallerRow
    <3> QED
      BY <1>1, <2>2, <3>2 DEF CallerRow
  <2>6. NextEntry(e, t) /\ NextCall(w, x, t) /\ NextBudget(w, x, e, t)
    BY <1>1, <1>2, <2>4, <2>5 DEF NextEntry, NextCall, NextBudget, Successes
  <2>7. sequence' \in Nat /\ faults' \in Nat
    BY <1>1, <1>2, <2>3
  <2> QED
    BY <1>1, <1>2, <2>3, <2>6, <2>7, CallChange
<1>4. CASE ~Due(entry[t], caller[w].at)
  <2>1. PICK x : x = [caller[w] EXCEPT !.todo = @ \ {t}]
    OBVIOUS
  <2>2. /\ caller' = [caller EXCEPT ![w] = x] /\ entry' = [entry EXCEPT ![t] = entry[t]]
        /\ sequence' = sequence
    BY <1>4, <2>1 DEF ReconcileDue, ConfirmInv, RegistryTyped
  <2>3. /\ x \in CallerRow /\ x.token = Null /\ x.pc = "prepare" /\ x.result = "none"
        /\ x.mint = caller[w].mint /\ x.todo \subseteq caller[w].todo
    BY <1>1, <2>1 DEF CallerRow
  <2>4. NextEntry(entry[t], t) /\ NextCall(w, x, t) /\ NextBudget(w, x, entry[t], t)
    BY <1>1, <1>2, <2>3 DEF NextEntry, NextCall, NextBudget, Successes, Issued, ConfirmInv, TokensSound, TruthSound
  <2> QED
    BY <1>1, <1>2, <2>2, <2>4, CallChange
<1> QED
  BY <1>3, <1>4

LEMMA BeginAttemptKeeps ==
  ASSUME ConfirmInv, NEW w \in Callers, NEW t \in Tokens, BeginAttempt(w, t)
  PROVE  ConfirmInv'
<1> DEFINE e0 == Aged(entry[t])
<1>1. /\ Issued(t) /\ t \in registered /\ entry[t] \in EntryRow /\ caller[w] = Idle
      /\ sequence \in Nat /\ faults \in Nat /\ Lease \in Nat /\ now \in Nat /\ MaxAttempts \in Nat
      /\ Null \notin Tokens
      /\ UNCHANGED <<candidateVars, registered, now, faults, writes, shown, fresh>>
  BY CandidateAssumption, ConfirmationAssumption
     DEF BeginAttempt, ConfirmInv, RegistryTyped, TokensSound, Tokens
<1>2. /\ e0 \in EntryRow /\ (e0 = entry[t] \/ e0.state = "expired")
      /\ e0.candidate = entry[t].candidate /\ e0.expected = entry[t].expected
      /\ e0.attempts = entry[t].attempts
  BY <1>1, EntryKept DEF ConfirmInv
<1>3. /\ Idle \in CallerRow /\ Idle.token = Null /\ Idle.mint = Null /\ Idle.pc = "idle"
      /\ Idle.result = "none" /\ Idle.todo = {}
  BY DEF Idle, CallerRow, Results
<1>4. caller = [caller EXCEPT ![w] = Idle]
  BY <1>1 DEF ConfirmInv, RegistryTyped
<1> HIDE DEF e0
<1>5. ASSUME NEW e, entry' = [entry EXCEPT ![t] = e], UNCHANGED <<sequence, caller>>,
             e = e0 \/ e = Ended(e0, "invalidated")
      PROVE  ConfirmInv'
  <2>1. /\ e \in EntryRow /\ e.candidate = entry[t].candidate /\ e.expected = entry[t].expected
        /\ e.attempts = entry[t].attempts /\ (e.state \in {"expired", "invalidated"} \/ e = entry[t])
    BY <1>2, <1>5, EntryKept DEF ConfirmInv, States
  <2>2. NextEntry(e, t) /\ NextCall(w, Idle, t) /\ NextBudget(w, Idle, e, t)
    BY <1>1, <1>3, <2>1 DEF NextEntry, NextCall, NextBudget, Successes, Issued, ConfirmInv, TokensSound, TruthSound
  <2>3. caller' = [caller EXCEPT ![w] = Idle]
    BY <1>4, <1>5
  <2> QED
    BY <1>1, <1>5, <2>2, <2>3, CallChange
<1>6. ASSUME NEW readOnly \in BOOLEAN, ClaimAttempt(w, t, e0, readOnly),
             ~(~readOnly /\ e0.attempts >= MaxAttempts), readOnly => e0.state = "recovery"
      PROVE  ConfirmInv'
  <2>1. PICK attempts : attempts = IF readOnly THEN e0.attempts ELSE e0.attempts + 1
    OBVIOUS
  <2>2. PICK e : e = [e0 EXCEPT !.state = "in_flight", !.sequence = sequence + 1,
                                !.attempts = attempts, !.lease = now + Lease]
    OBVIOUS
  <2>3. PICK pc : pc = IF e0.state = "recovery" THEN "probe" ELSE "reread"
    OBVIOUS
  <2>4. PICK recovery \in BOOLEAN : recovery = (e0.state = "recovery")
    OBVIOUS
  <2>5. PICK x : x = [Idle EXCEPT !.pc = pc, !.token = t, !.sequence = sequence + 1,
                                  !.recovery = recovery, !.readOnly = readOnly]
    OBVIOUS
  <2>6. /\ caller' = [caller EXCEPT ![w] = x] /\ entry' = [entry EXCEPT ![t] = e]
        /\ sequence' = sequence + 1
    BY <1>6, <2>1, <2>2, <2>3, <2>4, <2>5 DEF ClaimAttempt
  <2>7. attempts \in 0..MaxAttempts
    BY <1>1, <1>2, <1>6, <2>1 DEF EntryRow
  <2>8. /\ e \in EntryRow /\ e.state = "in_flight" /\ e.candidate = entry[t].candidate
        /\ e.expected = entry[t].expected /\ e.attempts = attempts
    <3>1. sequence + 1 \in Nat /\ now + Lease \in Nat /\ "in_flight" \in States
      BY <1>1 DEF States
    <3>2. e \in EntryRow /\ e.state = "in_flight" /\ e.attempts = attempts
      BY <1>2, <2>2, <2>7, <3>1 DEF EntryRow
    <3>3. e.candidate = e0.candidate /\ e.expected = e0.expected
      BY <1>2, <2>2 DEF EntryRow
    <3> QED
      BY <1>2, <3>2, <3>3
  <2>9. /\ x \in CallerRow /\ x.token = t /\ x.pc = pc /\ x.readOnly = readOnly /\ x.result = "none"
        /\ x.mint = Null /\ x.todo = {} /\ pc \in {"probe", "reread"}
    <3>1. sequence + 1 \in Nat /\ pc \in {"probe", "reread"}
      BY <1>1, <2>3
    <3>2. x \in CallerRow
      BY <1>3, <2>5, <3>1 DEF CallerRow
    <3>3. /\ x.token = t /\ x.pc = pc /\ x.readOnly = readOnly /\ x.result = Idle.result
          /\ x.mint = Idle.mint /\ x.todo = Idle.todo
      BY <1>3, <2>5 DEF CallerRow
    <3> QED
      BY <1>3, <3>1, <3>2, <3>3
  <2>10. NextEntry(e, t) /\ NextCall(w, x, t)
    BY <1>1, <1>3, <1>6, <2>3, <2>8, <2>9 DEF NextEntry, NextCall, Successes
  <2>11. NextBudget(w, x, e, t)
    BY <1>1, <1>2, <2>1, <2>8, <2>9 DEF NextBudget
  <2>12. sequence' \in Nat /\ faults' \in Nat
    BY <1>1, <2>6
  <2> QED
    BY <1>1, <2>6, <2>10, <2>11, <2>12, CallChange
<1>7. CASE Claimable(e0)
  <2>1. PICK readOnly \in BOOLEAN : readOnly = (e0.state = "recovery" /\ now >= e0.expires)
    OBVIOUS
  <2>2. ClaimAttempt(w, t, e0, readOnly)
    BY <1>7, <2>1 DEF BeginAttempt, e0
  <2>3. CASE ~readOnly /\ e0.attempts >= MaxAttempts
    BY <1>5, <2>2, <2>3 DEF ClaimAttempt
  <2> QED
    BY <1>6, <2>1, <2>2, <2>3
<1>8. CASE ~Claimable(e0)
  BY <1>5, <1>8 DEF BeginAttempt, e0
<1> QED
  BY <1>7, <1>8

\* The first three parts of a call end or go on.
LEMMA CallOnKeeps ==
  ASSUME ConfirmInv, NEW w \in Callers, NEW pc \in {"reread", "write", "finalize"}, NEW result \in Results,
         caller[w].pc \in {"probe", "reread", "write"},
         caller' = [caller EXCEPT ![w].pc = pc, ![w].result = result],
         result # "none" <=> pc = "finalize", result # "confirmed",
         result \in Successes => Confirmed(caller[w].token),
         pc # "finalize" => ~caller[w].readOnly /\ caller[w].pc \in {"probe", "reread"},
         UNCHANGED <<candidateVars, entry, registered, sequence, now, shown, fresh>>, faults' \in Nat,
         \/ writes' = writes
         \/ /\ caller[w].pc = "write" /\ pc = "finalize"
            /\ writes' = [writes EXCEPT ![caller[w].token] = @ + 1]
  PROVE  ConfirmInv'
<1>1. PICK t : t = caller[w].token
  OBVIOUS
<1>2. /\ t \in Tokens /\ Issued(t) /\ entry[t] \in EntryRow /\ caller[w] \in CallerRow /\ sequence \in Nat
      /\ Null \notin Tokens
  BY <1>1, CandidateAssumption DEF ConfirmInv, RegistryTyped, CallersSound, Tokens
<1>3. PICK x : x = [caller[w] EXCEPT !.pc = pc, !.result = result]
  OBVIOUS
<1>4. caller' = [caller EXCEPT ![w] = x] /\ entry' = [entry EXCEPT ![t] = entry[t]]
  BY <1>2, <1>3 DEF ConfirmInv, RegistryTyped
<1>5. /\ x \in CallerRow /\ x.token = t /\ x.pc = pc /\ x.readOnly = caller[w].readOnly /\ x.result = result
      /\ x.mint = caller[w].mint /\ x.todo = caller[w].todo
  BY <1>1, <1>2, <1>3 DEF CallerRow
<1>6. NextEntry(entry[t], t)
  BY <1>2 DEF NextEntry, Issued, ConfirmInv, TokensSound, TruthSound
<1>7. NextCall(w, x, t)
  BY <1>1, <1>2, <1>5 DEF NextCall
<1>8. NextBudget(w, x, entry[t], t)
  <2>1. caller[w].pc = "write" => ~caller[w].readOnly
    BY DEF ConfirmInv, CallersSound
  <2> QED
    BY <1>1, <1>5, <2>1 DEF NextBudget, Writers
<1> QED
  BY <1>2, <1>4, <1>6, <1>7, <1>8, CallChange

LEMMA ProbeKeeps ==
  ASSUME ConfirmInv, NEW w \in Callers, ProbeRecovery(w)
  PROVE  ConfirmInv'
<1>1. /\ caller[w].pc = "probe" /\ caller[w].result = "none" /\ faults' \in Nat
      /\ UNCHANGED <<candidateVars, entry, registered, sequence, now, writes, shown, fresh>>
  BY DEF ProbeRecovery, ConfirmInv, CallersSound, RegistryTyped, Fault
<1>2. ASSUME NEW result \in {"reconciled", "not_committed", "unavailable"}, Result(w, result),
             result = "reconciled" => Committed(caller[w].token)
      PROVE  ConfirmInv'
  <2>1. result \in Results /\ result # "none" /\ result # "confirmed"
    BY DEF Results, Successes
  <2>2. result \in Successes => Confirmed(caller[w].token)
    BY <1>2 DEF Successes, Committed, Confirmed
  <2> QED
    BY <1>1, <1>2, <2>1, <2>2, CallOnKeeps DEF Result
<1>3. CASE ~caller[w].readOnly /\ caller' = [caller EXCEPT ![w].pc = "reread"]
  <2>1. caller' = [caller EXCEPT ![w].pc = "reread", ![w].result = "none"]
    <3>1. caller[w] \in CallerRow /\ caller \in [Callers -> CallerRow]
      BY DEF ConfirmInv, RegistryTyped
    <3>2. [caller[w] EXCEPT !.pc = "reread"] = [caller[w] EXCEPT !.pc = "reread", !.result = "none"]
      BY <1>1, <3>1 DEF CallerRow
    <3> QED
      BY <1>3, <3>1, <3>2
  <2>2. "none" \in Results /\ "none" \notin Successes
    BY DEF Results, Successes
  <2> QED
    BY <1>1, <1>3, <2>1, <2>2, CallOnKeeps
<1> QED
  BY <1>2, <1>3 DEF ProbeRecovery

LEMMA RereadKeeps ==
  ASSUME ConfirmInv, NEW w \in Callers, RereadCandidate(w)
  PROVE  ConfirmInv'
<1>1. /\ caller[w].pc = "reread" /\ caller[w].result = "none" /\ faults' \in Nat
      /\ ~caller[w].readOnly
      /\ UNCHANGED <<candidateVars, entry, registered, sequence, now, writes, shown, fresh>>
  BY DEF RereadCandidate, ConfirmInv, CallersSound, RegistryTyped, Fault
<1>2. ASSUME NEW result \in {"terminal", "not_committed", "unavailable"}, Result(w, result)
      PROVE  ConfirmInv'
  <2>1. result \in Results /\ result # "none" /\ result # "confirmed" /\ result \notin Successes
    BY DEF Results, Successes
  <2> QED
    BY <1>1, <1>2, <2>1, CallOnKeeps DEF Result
<1>3. CASE caller' = [caller EXCEPT ![w].pc = "write"]
  <2>1. caller' = [caller EXCEPT ![w].pc = "write", ![w].result = "none"]
    <3>1. caller[w] \in CallerRow /\ caller \in [Callers -> CallerRow]
      BY DEF ConfirmInv, RegistryTyped
    <3>2. [caller[w] EXCEPT !.pc = "write"] = [caller[w] EXCEPT !.pc = "write", !.result = "none"]
      BY <1>1, <3>1 DEF CallerRow
    <3> QED
      BY <1>3, <3>1, <3>2
  <2>2. "none" \in Results /\ "none" \notin Successes
    BY DEF Results, Successes
  <2> QED
    BY <1>1, <1>3, <2>1, <2>2, CallOnKeeps
<1> QED
  BY <1>2, <1>3 DEF RereadCandidate

-----------------------------------------------------------------------------
(* The transaction and the end of a call *)

\* D-4 accepts the candidate and inserts its memory.
LEMMA CommitTables ==
  ASSUME CandidatesSound, NEW c \in Candidates, NEW seen, NEW t \in Tokens, ConfirmCandidate(c, seen, t)
  PROVE  /\ CandidatesSound'
         /\ candidate'[c].status = "accepted" /\ candidate'[c].request = t
         /\ \A d \in Candidates \ {c} : candidate'[d] = candidate[d]
         /\ memory' = memory \cup {[candidate |-> c, request |-> t, content |-> candidate[c].content]}
         /\ Pending(c) /\ candidate[c].revision = seen
<1>1. /\ candidate \in [Candidates -> CandidateRow] /\ MaxRevision \in Nat \ {0}
      /\ memory \subseteq [candidate : Candidates, request : Requests, content : Contents]
      /\ Pending(c) /\ candidate[c].revision \in 1..MaxRevision /\ candidate[c].revision = seen
      /\ candidate[c].content \in Contents
  BY CandidateAssumption
     DEF CandidatesSound, CandidateTypes, CandidateRow, ConfirmCandidate, EnsurePendingRevision, TablesAgree
<1>2. PICK row : row = [Reviewed(candidate[c], "accepted") EXCEPT !.request = t]
  OBVIOUS
<1>3. row \in CandidateRow /\ row.status = "accepted" /\ row.request = t /\ row.content = Null
  <2>1. /\ candidate[c] \in CandidateRow /\ candidate[c].revision + 1 \in 0..MaxRevision + 1
        /\ "accepted" \in CandidateStatuses /\ t \in Requests
    BY <1>1 DEF CandidateStatuses, Tokens
  <2> QED
    BY <1>2, <2>1 DEF Reviewed, CandidateRow
<1>4. PICK r : r = [candidate |-> c, request |-> t, content |-> candidate[c].content]
  OBVIOUS
<1>5. /\ candidate' = [candidate EXCEPT ![c] = row] /\ memory' = memory \cup {r}
      /\ evidence' = evidence \ EvidenceOf(c) /\ UNCHANGED <<message, due, scan>>
  BY <1>1, <1>2, <1>4 DEF ConfirmCandidate
<1>6. /\ candidate' \in [Candidates -> CandidateRow] /\ candidate'[c] = row
      /\ \A d \in Candidates \ {c} : candidate'[d] = candidate[d]
  BY <1>1, <1>3, <1>5
<1>7. \A e \in evidence' : e \in evidence /\ e[1] # c
  BY <1>5 DEF EvidenceOf
<1>8. /\ r \in [candidate : Candidates, request : Requests, content : Contents]
      /\ r.candidate = c /\ r.request = t
  BY <1>1, <1>4 DEF Tokens
<1>9. \A q \in memory : q.candidate \in Candidates /\ q.candidate # c
  BY <1>1 DEF CandidatesSound, Pending
<1>10. CandidateTypes'
  BY <1>5, <1>6, <1>8 DEF CandidatesSound, CandidateTypes, CandidateRow
<1>11. TablesAgree'
  <2>1. \A d \in Candidates : Pending(d)' <=> candidate'[d].content # Null
    BY <1>3, <1>6 DEF CandidatesSound, TablesAgree, Pending
  <2>2. \A e \in evidence' : Pending(e[1])' /\ e[2] \in message'
    <3>1. \A e \in evidence' : e[1] \in Candidates
      BY <1>7 DEF CandidatesSound, CandidateTypes
    <3> QED
      BY <1>5, <1>6, <1>7, <3>1 DEF CandidatesSound, TablesAgree, Pending
  <2>3. \A d \in Candidates : candidate'[d].status = "accepted" =>
          \E q \in memory' : q.candidate = d /\ q.request = candidate'[d].request
    BY <1>3, <1>5, <1>6, <1>8 DEF CandidatesSound, TablesAgree
  <2>4. \A q, s \in memory' : q.candidate = s.candidate => q = s
    BY <1>5, <1>8, <1>9 DEF CandidatesSound, TablesAgree
  <2> QED
    BY <2>1, <2>2, <2>3, <2>4 DEF TablesAgree
<1>12. \A d \in Candidates : Pending(d)' => candidate'[d].revision \in 1..MaxRevision
  BY <1>3, <1>6 DEF CandidatesSound, Pending
<1>13. \A q \in memory' : candidate'[q.candidate].status \in {"accepted", "gone"}
  BY <1>3, <1>5, <1>6, <1>8, <1>9 DEF CandidatesSound
<1> QED
  BY <1>1, <1>3, <1>4, <1>5, <1>6, <1>10, <1>11, <1>12, <1>13 DEF CandidatesSound

\* What is committed is what was shown, and nobody else has confirmed it.
LEMMA CommitKeeps ==
  ASSUME ConfirmInv, NEW w \in Callers, NEW t, t = caller[w].token, caller[w].pc = "write",
         ConfirmCandidate(entry[t].candidate, entry[t].expected, t),
         NEW result \in {"confirmed", "panic"}, Result(w, result), faults' \in Nat,
         writes' = [writes EXCEPT ![t] = @ + 1],
         UNCHANGED <<entry, registered, sequence, now, shown, fresh>>
  PROVE  ConfirmInv'
<1>1. /\ t \in Tokens /\ Issued(t) /\ entry[t] \in EntryRow /\ caller[w] \in CallerRow
      /\ Null \notin Tokens /\ ~caller[w].readOnly
  BY CandidateAssumption DEF ConfirmInv, RegistryTyped, CallersSound, Tokens
<1>2. PICK c \in Candidates : c = entry[t].candidate
  BY <1>1 DEF ConfirmInv, TokensSound
<1>3. /\ CandidatesSound' /\ candidate'[c].status = "accepted" /\ candidate'[c].request = t
      /\ \A d \in Candidates \ {c} : candidate'[d] = candidate[d]
      /\ memory' = memory \cup {[candidate |-> c, request |-> t, content |-> candidate[c].content]}
      /\ candidate[c].status = "pending" /\ candidate[c].revision = entry[t].expected
  BY <1>1, <1>2, CommitTables DEF ConfirmInv, Pending
<1>4. PICK x : x = [caller[w] EXCEPT !.pc = "finalize", !.result = result]
  OBVIOUS
<1>5. /\ caller' = [caller EXCEPT ![w] = x] /\ entry' = [entry EXCEPT ![t] = entry[t]]
      /\ caller \in [Callers -> CallerRow]
  BY <1>1, <1>4 DEF ConfirmInv, RegistryTyped, Result
<1>6. /\ x \in CallerRow /\ x.token = t /\ x.pc = "finalize" /\ x.result = result
      /\ x.mint = caller[w].mint /\ x.todo = caller[w].todo /\ x.readOnly = caller[w].readOnly
  <2>1. result \in Results
    BY DEF Results, Successes
  <2> QED
    BY <1>1, <1>4, <2>1 DEF CallerRow
<1>7. caller'[w] = x /\ \A v \in Callers \ {w} : caller'[v] = caller[v]
  BY <1>5
<1>8. RegistryTyped'
  BY <1>1, <1>5, <1>6 DEF ConfirmInv, RegistryTyped
<1>9. TokensSound'
  BY DEF ConfirmInv, TokensSound, Issued
<1>10. CallersSound'
  BY <1>1, <1>6, <1>7 DEF ConfirmInv, CallersSound, Issued
<1>11. ShownSound'
  <2>1. ASSUME NEW s \in Tokens, entry'[s].candidate \in Candidates
        PROVE  /\ candidate'[entry'[s].candidate].status # "unborn"
               /\ candidate'[entry'[s].candidate].status = "pending" =>
                    /\ candidate'[entry'[s].candidate].revision >= entry'[s].expected
                    /\ candidate'[entry'[s].candidate].revision = entry'[s].expected =>
                         candidate'[entry'[s].candidate].content = shown'[s]
    <3>1. PICK d \in Candidates : d = entry[s].candidate /\ d = entry'[s].candidate
      BY <2>1
    <3>2. CASE d = c
      BY <1>3, <3>1, <3>2
    <3>3. CASE d # c
      BY <1>3, <3>1, <3>3 DEF ConfirmInv, ShownSound, Pending
    <3> QED
      BY <3>2, <3>3
  <2>2. candidate[c].content = shown[t]
    BY <1>1, <1>2, <1>3 DEF ConfirmInv, ShownSound, Pending
  <2>3. ASSUME NEW r \in memory'
        PROVE  /\ entry'[r.request].state \notin {"none", "refused"}
               /\ entry'[r.request].candidate = r.candidate /\ r.content = shown'[r.request]
    <3>1. CASE r \in memory
      BY <3>1 DEF ConfirmInv, ShownSound, Issued
    <3>2. CASE r \notin memory
      <4>1. r.candidate = c /\ r.request = t /\ r.content = candidate[c].content
        BY <1>3, <2>3, <3>2
      <4> QED
        BY <1>1, <1>2, <2>2, <4>1 DEF Issued
    <3> QED
      BY <3>1, <3>2
  <2> QED
    BY <2>1, <2>3 DEF ShownSound, Pending, Issued
<1>12. FreshSound'
  <2>1. fresh'[c] = 0 /\ \A v \in Callers : Confirming(v, c)' => v = w
    BY <1>3, <1>7 DEF ConfirmInv, FreshSound, Confirming
  <2>2. \A d \in Candidates \ {c}, v \in Callers : Confirming(v, d)' => Confirming(v, d)
    BY <1>2, <1>6, <1>7 DEF Confirming
  <2> QED
    BY <1>3, <2>1, <2>2 DEF ConfirmInv, FreshSound
<1>13. TruthSound'
  <2>1. \A s \in Tokens : Issued(s) /\ Confirmed(s) => Confirmed(s)'
    BY <1>2, <1>3 DEF Confirmed, Accepted, ConfirmInv, TokensSound
  <2>2. Confirmed(t)'
    BY <1>2, <1>3 DEF Confirmed, Accepted
  <2>3. \A s \in Tokens : entry[s].state = "consumed" => Issued(s)
    BY DEF Issued
  <2>4. \A v \in Callers : caller[v].result \in Successes => caller[v].token \in Tokens /\ Issued(caller[v].token)
    BY DEF ConfirmInv, CallersSound, Successes
  <2>5. ASSUME NEW v \in Callers, caller'[v].result \in Successes
        PROVE  \E s \in Tokens : s = caller'[v].token /\ Confirmed(s)'
    <3>1. CASE v = w
      BY <1>1, <1>6, <1>7, <2>2, <3>1
    <3>2. CASE v # w
      BY <1>7, <2>1, <2>4, <2>5, <3>2 DEF ConfirmInv, TruthSound
    <3> QED
      BY <3>1, <3>2
  <2>6. (\A v \in Callers : caller[v].result \in Successes => Confirmed(caller[v].token))'
    BY <2>5 DEF Confirmed, Accepted
  <2>7. (\A s \in Tokens : entry[s].state = "consumed" => Confirmed(s))'
    BY <2>1, <2>3 DEF ConfirmInv, TruthSound
  <2> QED
    BY <2>6, <2>7 DEF TruthSound
<1>14. BudgetSound'
  <2>1. NextBudget(w, x, entry[t], t)
    BY <1>1, <1>6 DEF NextBudget, Writers
  <2> QED
    BY <1>1, <1>5, <1>6, <2>1, BudgetKept DEF ConfirmInv
<1> QED
  BY <1>3, <1>8, <1>9, <1>10, <1>11, <1>12, <1>13, <1>14 DEF ConfirmInv

LEMMA WriteKeeps ==
  ASSUME ConfirmInv, NEW w \in Callers, WriteD4(w)
  PROVE  ConfirmInv'
<1>1. PICK t : t = caller[w].token
  OBVIOUS
<1>2. /\ caller[w].pc = "write" /\ faults' \in Nat /\ writes' = [writes EXCEPT ![t] = @ + 1]
      /\ UNCHANGED <<entry, registered, sequence, now, shown, fresh>>
  BY <1>1 DEF WriteD4, ConfirmInv, RegistryTyped, Fault
<1>3. CASE ConfirmCandidate(entry[t].candidate, entry[t].expected, t) /\ (Result(w, "confirmed") \/ Result(w, "panic"))
  BY <1>1, <1>2, <1>3, CommitKeeps
<1>4. ASSUME NEW result \in {"already", "terminal", "panic", "unavailable"}, Result(w, result),
             UNCHANGED candidateVars, result = "already" => Accepted(entry[t].candidate, t)
      PROVE  ConfirmInv'
  <2>1. result \in Results /\ result # "none" /\ result # "confirmed"
    BY DEF Results, Successes
  <2>2. result \in Successes => Confirmed(caller[w].token)
    BY <1>1, <1>4 DEF Successes, Confirmed
  <2> QED
    BY <1>1, <1>2, <1>4, <2>1, <2>2, CallOnKeeps DEF Result
<1> QED
  BY <1>1, <1>3, <1>4 DEF WriteD4

\* What a settled entry can be.
LEMMA SettledSound ==
  ASSUME RegistryTyped, NEW e \in EntryRow, NEW result \in Results, NEW recovery, NEW current \in BOOLEAN,
         e.state \notin {"none", "refused"}, current => e.state = "in_flight"
  PROVE  LET s == Settled(e, result, recovery, current)
         IN  /\ s \in EntryRow /\ s.candidate = e.candidate /\ s.expected = e.expected
             /\ s.attempts = e.attempts /\ s.state \notin {"none", "refused"}
             /\ s.state \in {"in_flight", "recovery"} => e.state \in {"in_flight", "recovery"}
             /\ s.state = "consumed" => e.state = "consumed" \/ result \in Successes
<1>1. now \in Nat /\ Lease \in Nat /\ Window \in Nat
  BY ConfirmationAssumption DEF RegistryTyped
<1>2. e.expires \in Nat /\ e.deadline \in Nat
  BY DEF EntryRow
<1> DEFINE s == Settled(e, result, recovery, current)
<1>3. ASSUME NEW end \in States, s = Ended(e, end)
      PROVE  /\ s \in EntryRow /\ s.candidate = e.candidate /\ s.expected = e.expected
             /\ s.attempts = e.attempts /\ s.state = end
  BY <1>3, EntryKept
<1> HIDE DEF s
<1>4. CASE ~current
  <2>1. s = e \/ (s = [e EXCEPT !.state = "consumed", !.terminal = now] /\ result \in Successes)
    BY <1>4 DEF s, Settled, Successes
  <2>2. [e EXCEPT !.state = "consumed", !.terminal = now] \in EntryRow
    BY <1>1 DEF EntryRow, States
  <2>3. CASE s = e
    BY <2>3 DEF s
  <2>4. CASE s = [e EXCEPT !.state = "consumed", !.terminal = now] /\ result \in Successes
    <3>1. s.candidate = e.candidate /\ s.expected = e.expected /\ s.attempts = e.attempts /\ s.state = "consumed"
      BY <2>4 DEF EntryRow
    <3> QED
      BY <2>2, <2>4, <3>1 DEF s
  <2> QED
    BY <2>1, <2>3, <2>4
<1>5. CASE current
  <2>1. \/ s = Ended(e, "consumed") /\ result \in Successes
        \/ s \in {Ended(e, "expired"), Ended(e, "invalidated")} \/ s = e \/ s = EnterRecovery(e)
        \/ s = [Ended(e, "expired") EXCEPT !.terminal = IF now > Lease THEN now - Lease ELSE 0]
        \/ s = [e EXCEPT !.state = "issued", !.lease = 0]
        \/ s = [e EXCEPT !.state = "recovery", !.lease = 0]
    BY <1>5 DEF s, Settled, Successes
  <2>2. {"consumed", "expired", "invalidated"} \subseteq States
    BY DEF States
  <2>3. CASE s = Ended(e, "consumed") /\ result \in Successes
    BY <1>3, <2>2, <2>3 DEF s
  <2>4. CASE s \in {Ended(e, "expired"), Ended(e, "invalidated")}
    BY <1>3, <2>2, <2>4 DEF s
  <2>5. CASE s = e
    BY <2>5 DEF s
  <2>6. CASE s = EnterRecovery(e)
    <3>1. /\ s \in EntryRow /\ s.candidate = e.candidate /\ s.expected = e.expected
          /\ s.attempts = e.attempts /\ s.state = "recovery"
      <4>1. PICK deadline : deadline = IF e.deadline # 0 THEN e.deadline
                                       ELSE IF e.expires > now + Window THEN e.expires ELSE now + Window
        OBVIOUS
      <4>2. s = [e EXCEPT !.state = "recovery", !.lease = 0, !.deadline = deadline]
        BY <2>6, <4>1 DEF EnterRecovery
      <4>3. deadline \in Nat /\ "recovery" \in States
        BY <1>1, <1>2, <4>1 DEF States
      <4> QED
        BY <4>2, <4>3 DEF EntryRow
    <3> QED
      BY <1>5, <3>1 DEF s
  <2>7. CASE s = [Ended(e, "expired") EXCEPT !.terminal = IF now > Lease THEN now - Lease ELSE 0]
    <3>1. PICK f \in EntryRow : /\ f = Ended(e, "expired") /\ f.candidate = e.candidate
                                /\ f.expected = e.expected /\ f.attempts = e.attempts /\ f.state = "expired"
      BY <2>2, EntryKept
    <3>2. PICK terminal : terminal = IF now > Lease THEN now - Lease ELSE 0
      OBVIOUS
    <3>5. terminal \in Nat
      BY <1>1, <3>2
    <3>3. s = [f EXCEPT !.terminal = terminal]
      BY <2>7, <3>1, <3>2
    <3>4. /\ s \in EntryRow /\ s.candidate = e.candidate /\ s.expected = e.expected
          /\ s.attempts = e.attempts /\ s.state = "expired"
      BY <3>1, <3>3, <3>5 DEF EntryRow
    <3> QED
      BY <3>4 DEF s
  <2>8. ASSUME NEW state \in {"issued", "recovery"}, s = [e EXCEPT !.state = state, !.lease = 0]
        PROVE  /\ s \in EntryRow /\ s.candidate = e.candidate /\ s.expected = e.expected
               /\ s.attempts = e.attempts /\ s.state = state
    BY <2>8 DEF EntryRow, States
  <2> QED
    BY <1>5, <2>1, <2>3, <2>4, <2>5, <2>6, <2>7, <2>8 DEF s
<1> QED
  BY <1>4, <1>5

LEMMA FinalizeKeeps ==
  ASSUME ConfirmInv, NEW w \in Callers, Finalize(w)
  PROVE  ConfirmInv'
<1>1. PICK t, result : t = caller[w].token /\ result = caller[w].result
  OBVIOUS
<1>2. /\ t \in Tokens /\ Issued(t) /\ entry[t] \in EntryRow /\ caller[w] \in CallerRow /\ sequence \in Nat
      /\ Null \notin Tokens /\ result \in Results /\ caller[w].pc = "finalize" /\ faults \in Nat
      /\ result \in Successes => Confirmed(t)
  BY <1>1, CandidateAssumption DEF Finalize, ConfirmInv, RegistryTyped, CallersSound, TruthSound, CallerRow, Tokens
<1>3. PICK current \in BOOLEAN : current = (entry[t].state = "in_flight" /\ entry[t].sequence = caller[w].sequence)
  OBVIOUS
<1>4. PICK e : e = Settled(entry[t], result, caller[w].recovery, current)
  OBVIOUS
<1>5. PICK x : x = IF caller[w].mint = Null THEN Idle
                   ELSE [Idle EXCEPT !.pc = "prepare", !.mint = caller[w].mint,
                                     !.at = caller[w].at, !.todo = caller[w].todo]
  OBVIOUS
<1>6. /\ entry' = [entry EXCEPT ![t] = e] /\ caller' = [caller EXCEPT ![w] = x]
      /\ fresh' = [fresh EXCEPT ![entry[t].candidate] = IF current /\ result = "confirmed" THEN @ + 1 ELSE @]
      /\ UNCHANGED <<candidateVars, registered, sequence, now, faults, writes, shown>>
  BY <1>1, <1>3, <1>4, <1>5 DEF Finalize, ConfirmInv, RegistryTyped
<1>7. /\ e \in EntryRow /\ e.candidate = entry[t].candidate /\ e.expected = entry[t].expected
      /\ e.attempts = entry[t].attempts /\ e.state \notin {"none", "refused"}
      /\ e.state \in {"in_flight", "recovery"} => entry[t].state \in {"in_flight", "recovery"}
      /\ e.state = "consumed" => entry[t].state = "consumed" \/ result \in Successes
  <2>1. current => entry[t].state = "in_flight"
    BY <1>3
  <2>2. RegistryTyped /\ entry[t].state \notin {"none", "refused"}
    BY <1>2 DEF Issued, ConfirmInv
  <2> QED
    BY <1>2, <1>4, <2>1, <2>2, SettledSound
<1>8. NextEntry(e, t)
  BY <1>2, <1>7 DEF NextEntry, ConfirmInv, TokensSound, TruthSound
<1>9. /\ x \in CallerRow /\ x.token = Null /\ x.result = "none"
      /\ \/ x.mint = Null /\ x.pc = "idle" /\ x.todo = {}
         \/ x.mint = caller[w].mint /\ x.mint \in Tokens /\ x.pc = "prepare" /\ x.todo = caller[w].todo
  BY <1>2, <1>5 DEF Idle, CallerRow, Results
<1>10. NextCall(w, x, t)
  BY <1>2, <1>9 DEF NextCall, Successes
<1>11. NextBudget(w, x, e, t)
  BY <1>2, <1>6, <1>7, <1>9 DEF NextBudget
<1>12. \/ fresh' = fresh
       \/ /\ Confirming(w, entry[t].candidate)
          /\ fresh' = [fresh EXCEPT ![entry[t].candidate] = @ + 1]
  <2>1. fresh \in [Candidates -> {0, 1}]
    BY DEF ConfirmInv, RegistryTyped
  <2> QED
    BY <1>1, <1>6, <2>1 DEF Confirming
<1> QED
  BY <1>2, <1>6, <1>8, <1>10, <1>11, <1>12, CallChange

-----------------------------------------------------------------------------
(* The registry *)

\* Callers and tokens whose candidate, budget and writes are as before.
LEMMA SameCallers ==
  ASSUME BudgetSound, NEW t \in Tokens, \A w \in Callers : caller'[w].token = t <=> caller[w].token = t,
         \A w \in Callers : caller[w].token = t => caller'[w] = caller[w],
         writes'[t] = writes[t], entry'[t].attempts = entry[t].attempts
  PROVE  IsFiniteSet(Writers(t))' /\ writes'[t] + Cardinality(Writers(t)') <= entry'[t].attempts
<1>1. Writers(t)' = Writers(t)
  BY DEF Writers
<1>2. IsFiniteSet(Writers(t)) /\ writes[t] + Cardinality(Writers(t)) <= entry[t].attempts
  BY DEF BudgetSound
<1> QED
  BY <1>1, <1>2

\* A candidate is read and a token is minted for what it shows.
LEMMA PrepareKeeps ==
  ASSUME ConfirmInv, NEW w \in Callers, NEW t \in Tokens, NEW c \in Candidates, BeginPrepare(w, t, c)
  PROVE  ConfirmInv'
<1>1. /\ caller[w] = Idle /\ Pending(c) /\ entry[t] = Blank /\ \A v \in Callers : caller[v].mint # t
      /\ UNCHANGED <<candidateVars, registered, sequence, now, faults, writes, fresh>>
  BY DEF BeginPrepare
<1>2. /\ candidate[c].revision \in Nat /\ candidate[c].content \in Contents /\ Null \notin Tokens \cup Candidates
      /\ now \in Nat /\ registered \subseteq Tokens /\ candidate[c].status = "pending"
      /\ entry \in [Tokens -> EntryRow] /\ caller \in [Callers -> CallerRow]
      /\ MaxAttempts \in Nat
  BY <1>1, CandidateAssumption, ConfirmationAssumption
     DEF ConfirmInv, CandidatesSound, CandidateTypes, TablesAgree, RegistryTyped, Tokens, Pending
<1>3. PICK e : e = [Blank EXCEPT !.candidate = c, !.expected = candidate[c].revision]
  OBVIOUS
<1>4. PICK x : x = [Idle EXCEPT !.pc = "prepare", !.mint = t, !.at = now, !.todo = registered]
  OBVIOUS
<1>5. /\ e \in EntryRow /\ e.candidate = c /\ e.expected = candidate[c].revision /\ e.state = "none"
      /\ e.attempts = 0
  <2>1. Blank \in EntryRow /\ Blank.state = "none" /\ Blank.attempts = 0
    BY <1>2 DEF Blank, EntryRow, States
  <2> QED
    BY <1>2, <1>3, <2>1 DEF EntryRow
<1>6. /\ x \in CallerRow /\ x.token = Null /\ x.pc = "prepare" /\ x.mint = t /\ x.todo = registered
      /\ x.result = "none"
  BY <1>2, <1>4 DEF Idle, CallerRow, Results
<1>7. /\ Blank.candidate = Null /\ Blank.state = "none" /\ Blank.attempts = 0
      /\ Idle.token = Null /\ Idle.result = "none"
  BY DEF Blank, Idle
<1>8. /\ entry' = [entry EXCEPT ![t] = e] /\ caller' = [caller EXCEPT ![w] = x]
      /\ shown' = [shown EXCEPT ![t] = candidate[c].content]
  BY <1>3, <1>4 DEF BeginPrepare
<1>9. /\ entry'[t] = e /\ \A s \in Tokens \ {t} : entry'[s] = entry[s]
      /\ caller'[w] = x /\ \A v \in Callers \ {w} : caller'[v] = caller[v]
  BY <1>2, <1>8
<1>10. ~Issued(t) /\ \A s \in Tokens : Issued(s)' <=> Issued(s)
  BY <1>1, <1>5, <1>7, <1>9 DEF Issued
<1>11. CandidatesSound'
  BY <1>1 DEF ConfirmInv, CandidatesSound, candidateVars, CandidateTypes, TablesAgree, Pending
<1>12. RegistryTyped'
  BY <1>1, <1>2, <1>5, <1>6, <1>8 DEF ConfirmInv, RegistryTyped
<1>13. TokensSound'
  BY <1>1, <1>5, <1>9, <1>10 DEF ConfirmInv, TokensSound
<1>14. CallersSound'
  <2>1. \A v \in Callers : caller'[v].token = caller[v].token /\ caller'[v].result = caller[v].result
    BY <1>1, <1>6, <1>7, <1>9
  <2>2. ASSUME NEW v \in Callers
        PROVE  /\ caller'[v].token \in Tokens <=> caller'[v].pc \notin {"idle", "prepare"}
               /\ caller'[v].token \in Tokens => entry'[caller'[v].token].state \notin {"none", "refused"}
               /\ caller'[v].pc = "prepare" => caller'[v].mint \in Tokens
               /\ caller'[v].pc \in {"reread", "write"} => ~caller'[v].readOnly
               /\ caller'[v].result # "none" <=> caller'[v].pc = "finalize"
    <3>1. CASE v = w
      BY <1>2, <1>6, <1>9, <3>1
    <3>2. CASE v # w
      <4>1. \A s \in Tokens : Issued(s) => entry'[s].state \notin {"none", "refused"}
        BY <1>10 DEF Issued
      <4> QED
        BY <1>9, <3>2, <4>1 DEF ConfirmInv, CallersSound
    <3> QED
      BY <3>1, <3>2
  <2>3. \A v \in Callers : caller'[v].mint \in Tokens =>
          entry'[caller'[v].mint].state = "none" /\ entry'[caller'[v].mint].candidate \in Candidates
    BY <1>5, <1>6, <1>9 DEF ConfirmInv, CallersSound
  <2>4. (\A v \in Callers : \A s \in caller[v].todo : Issued(s))'
    <3>1. \A s \in registered : Issued(s)
      BY <1>2 DEF ConfirmInv, TokensSound
    <3>2. \A v \in Callers : \A s \in caller'[v].todo : Issued(s) /\ s \in Tokens
      BY <1>2, <1>6, <1>9, <3>1 DEF ConfirmInv, CallersSound, RegistryTyped, CallerRow
    <3> QED
      BY <1>10, <3>2
  <2>5. \A u, v \in Callers : caller'[u].mint \in Tokens /\ caller'[u].mint = caller'[v].mint => u = v
    BY <1>1, <1>6, <1>9 DEF ConfirmInv, CallersSound
  <2>6. (\A v \in Callers : caller[v].token \in Tokens => Issued(caller[v].token))'
    BY <2>2 DEF Issued
  <2> QED
    BY <2>2, <2>3, <2>4, <2>5, <2>6 DEF CallersSound
<1>15. ShownSound'
  <2>1. shown'[t] = candidate[c].content /\ \A s \in Tokens \ {t} : shown'[s] = shown[s]
    BY <1>8 DEF ConfirmInv, RegistryTyped
  <2>2. ASSUME NEW s \in Tokens, entry'[s].candidate \in Candidates
        PROVE  /\ candidate[entry'[s].candidate].status # "unborn"
               /\ candidate[entry'[s].candidate].status = "pending" =>
                    /\ candidate[entry'[s].candidate].revision >= entry'[s].expected
                    /\ candidate[entry'[s].candidate].revision = entry'[s].expected =>
                         candidate[entry'[s].candidate].content = shown'[s]
    <3>1. CASE s = t
      BY <1>1, <1>2, <1>5, <1>9, <2>1, <3>1 DEF candidateVars
    <3>2. CASE s # t
      BY <1>1, <1>9, <2>1, <2>2, <3>2 DEF candidateVars, ConfirmInv, ShownSound, Pending
    <3> QED
      BY <3>1, <3>2
  <2>3. \A r \in memory : r.request \in Tokens /\ r.request # t /\ Issued(r.request)
    BY <1>10 DEF ConfirmInv, CandidatesSound, CandidateTypes, Tokens, ShownSound
  <2>4. \A r \in memory : /\ entry'[r.request].state \notin {"none", "refused"}
                          /\ entry'[r.request].candidate = r.candidate /\ r.content = shown'[r.request]
    BY <1>9, <2>1, <2>3 DEF ConfirmInv, ShownSound, Issued
  <2> QED
    BY <1>1, <2>2, <2>4 DEF ShownSound, candidateVars, Pending, Issued
<1>16. \A v \in Callers : /\ caller'[v].result = caller[v].result /\ caller'[v].token = caller[v].token
                          /\ caller[v].result # "none" =>
                               caller[v].token \in Tokens /\ entry'[caller[v].token] = entry[caller[v].token]
  <2>1. \A v \in Callers : caller'[v].result = caller[v].result /\ caller'[v].token = caller[v].token
    BY <1>1, <1>6, <1>7, <1>9
  <2>2. \A v \in Callers : caller[v].result # "none" => caller[v].token \in Tokens /\ caller[v].token # t
    BY <1>10 DEF ConfirmInv, CallersSound
  <2> QED
    BY <1>9, <2>1, <2>2
<1>17. FreshSound'
  <2>1. \A v \in Callers, d \in Candidates : Confirming(v, d)' => Confirming(v, d)
    BY <1>16 DEF Confirming
  <2> QED
    BY <1>1, <2>1 DEF ConfirmInv, FreshSound, candidateVars
<1>18. TruthSound'
  <2>1. \A s \in Tokens : s # t /\ Confirmed(s) => Confirmed(s)'
    BY <1>1, <1>9 DEF Confirmed, Accepted, candidateVars
  <2>2. \A v \in Callers : caller[v].result \in Successes => caller[v].token \in Tokens /\ caller[v].token # t
    BY <1>10, <1>16 DEF ConfirmInv, CallersSound, Successes
  <2>3. \A s \in Tokens : entry'[s].state = "consumed" => s # t /\ entry[s].state = "consumed"
    BY <1>5, <1>9
  <2> QED
    BY <1>16, <2>1, <2>2, <2>3 DEF ConfirmInv, TruthSound
<1>19. BudgetSound'
  <2>1. ASSUME NEW s \in Tokens
        PROVE  IsFiniteSet(Writers(s))' /\ writes'[s] + Cardinality(Writers(s)') <= entry'[s].attempts
    <3>1. \A v \in Callers : /\ caller'[v].token = s <=> caller[v].token = s
                             /\ caller[v].token = s => caller'[v] = caller[v]
      BY <1>1, <1>2, <1>7, <1>9, <1>16
    <3>2. entry'[s].attempts = entry[s].attempts /\ writes'[s] = writes[s]
      BY <1>1, <1>5, <1>7, <1>9
    <3> QED
      BY <3>1, <3>2, SameCallers DEF ConfirmInv
  <2> QED
    BY <2>1 DEF BudgetSound
<1> QED
  BY <1>11, <1>12, <1>13, <1>14, <1>15, <1>17, <1>18, <1>19 DEF ConfirmInv

\* Entries change and keep what they stand for, and one caller becomes idle or none.
LEMMA EntriesChange ==
  ASSUME ConfirmInv, RegistryTyped', UNCHANGED <<candidateVars, writes, shown, fresh>>,
         \A v \in Callers : caller'[v] = caller[v] \/ (caller'[v] = Idle /\ caller[v].token = Null /\ caller[v].result = "none"),
         \A s \in Tokens :
           /\ entry'[s].attempts = entry[s].attempts
           /\ \/ entry'[s] = entry[s] /\ (s \in registered' => s \in registered)
                 /\ (entry[s].state \in {"in_flight", "recovery"} /\ s \in registered => s \in registered')
              \/ /\ entry'[s].candidate = entry[s].candidate /\ entry'[s].expected = entry[s].expected
                 /\ entry'[s].candidate \in Candidates
                 /\ entry'[s].state \notin {"none", "refused", "in_flight", "recovery", "consumed"}
                 /\ \A v \in Callers : caller'[v].mint # s
              \/ /\ entry[s].state = "none" /\ entry'[s] = [Blank EXCEPT !.state = "refused"]
                 /\ s \notin registered' /\ \A v \in Callers : caller'[v].mint # s
  PROVE  ConfirmInv'
<1>1. /\ Null \notin Tokens \cup Candidates /\ Idle.token = Null /\ Idle.mint = Null /\ Idle.pc = "idle"
      /\ Idle.result = "none" /\ Idle.todo = {} /\ Idle.readOnly = FALSE
  BY CandidateAssumption DEF Idle, Tokens
<1>2. \A s \in Tokens : entry'[s] = [Blank EXCEPT !.state = "refused"] =>
         entry'[s].candidate = Null /\ entry'[s].state = "refused" /\ entry'[s].attempts = 0
  BY DEF Blank
<1>3. \A s \in Tokens : /\ Issued(s) => Issued(s)'
                        /\ Issued(s) => entry'[s].candidate = entry[s].candidate /\ entry'[s].expected = entry[s].expected
  BY DEF Issued
<1>4. CandidatesSound'
  BY DEF ConfirmInv, CandidatesSound, candidateVars, CandidateTypes, TablesAgree, Pending
<1>5. TokensSound'
  <2>1. ASSUME NEW s \in Tokens
        PROVE  /\ Issued(s)' => entry'[s].candidate \in Candidates
               /\ s \in registered' => Issued(s)'
               /\ ~Issued(s)' => entry'[s].attempts = 0
               /\ entry'[s].state \in {"in_flight", "recovery"} => s \in registered'
    <3>1. CASE entry'[s] = entry[s] /\ (s \in registered' => s \in registered)
               /\ (entry[s].state \in {"in_flight", "recovery"} /\ s \in registered => s \in registered')
      BY <3>1 DEF Issued, ConfirmInv, TokensSound
    <3>2. CASE entry'[s].candidate \in Candidates /\ entry'[s].state \notin {"none", "refused", "in_flight", "recovery", "consumed"}
      BY <3>2 DEF Issued
    <3>3. CASE entry'[s] = [Blank EXCEPT !.state = "refused"] /\ s \notin registered'
      BY <1>2, <3>3 DEF Issued
    <3> QED
      BY <3>1, <3>2, <3>3
  <2> QED
    BY <2>1 DEF TokensSound
<1>6. CallersSound'
  <2>1. ASSUME NEW v \in Callers
        PROVE  /\ caller'[v].token \in Tokens <=> caller'[v].pc \notin {"idle", "prepare"}
               /\ caller'[v].token \in Tokens => Issued(caller'[v].token)
               /\ caller'[v].pc = "prepare" => caller'[v].mint \in Tokens
               /\ \A s \in caller'[v].todo : Issued(s) /\ s \in Tokens
               /\ caller'[v].pc \in {"reread", "write"} => ~caller'[v].readOnly
               /\ caller'[v].result # "none" <=> caller'[v].pc = "finalize"
               /\ caller'[v].mint \in Tokens => caller'[v] = caller[v]
    <3>1. CASE caller'[v] = caller[v]
      BY <3>1 DEF ConfirmInv, CallersSound, RegistryTyped, CallerRow
    <3>2. CASE caller'[v] = Idle
      BY <1>1, <3>2
    <3> QED
      BY <3>1, <3>2
  <2>2. \A v \in Callers : caller'[v].mint \in Tokens =>
          entry'[caller'[v].mint].state = "none" /\ entry'[caller'[v].mint].candidate \in Candidates
    <3>1. \A v \in Callers : caller'[v].mint \in Tokens => entry'[caller'[v].mint] = entry[caller'[v].mint]
      OBVIOUS
    <3> QED
      BY <2>1, <3>1 DEF ConfirmInv, CallersSound
  <2>3. \A u, v \in Callers : caller'[u].mint \in Tokens /\ caller'[u].mint = caller'[v].mint => u = v
    BY <2>1 DEF ConfirmInv, CallersSound
  <2> QED
    BY <1>3, <2>1, <2>2, <2>3 DEF CallersSound
<1>7. ShownSound'
  <2>1. ASSUME NEW s \in Tokens, entry'[s].candidate \in Candidates
        PROVE  entry'[s].candidate = entry[s].candidate /\ entry'[s].expected = entry[s].expected
    BY <1>1, <1>2, <2>1
  <2>2. \A r \in memory : r.request \in Tokens
    BY DEF ConfirmInv, CandidatesSound, CandidateTypes, Tokens
  <2> QED
    BY <1>3, <2>1, <2>2 DEF ConfirmInv, ShownSound, candidateVars, Pending
<1>8. \A v \in Callers : caller'[v].result # "none" =>
         /\ caller'[v] = caller[v] /\ caller[v].token \in Tokens /\ Issued(caller[v].token)
  <2>1. \A v \in Callers : caller'[v].result # "none" => caller'[v] = caller[v]
    BY <1>1
  <2> QED
    BY <2>1 DEF ConfirmInv, CallersSound
<1>9. FreshSound'
  <2>1. \A v \in Callers, d \in Candidates : Confirming(v, d)' => Confirming(v, d)
    BY <1>3, <1>8 DEF Confirming
  <2> QED
    BY <2>1 DEF ConfirmInv, FreshSound, candidateVars
<1>10. TruthSound'
  <2>1. \A s \in Tokens : Issued(s) /\ Confirmed(s) => Confirmed(s)'
    BY <1>3 DEF Confirmed, Accepted, candidateVars
  <2>2. \A s \in Tokens : entry'[s].state = "consumed" => entry[s].state = "consumed" /\ Issued(s)
    BY <1>2 DEF Issued
  <2>3. \A v \in Callers : caller'[v].result \in Successes =>
          \E s \in Tokens : s = caller'[v].token /\ Confirmed(s)'
    BY <1>8, <2>1 DEF ConfirmInv, TruthSound, Successes
  <2>4. (\A v \in Callers : caller[v].result \in Successes => Confirmed(caller[v].token))'
    BY <2>3 DEF Confirmed, Accepted
  <2>5. (\A s \in Tokens : entry[s].state = "consumed" => Confirmed(s))'
    BY <2>1, <2>2 DEF ConfirmInv, TruthSound
  <2> QED
    BY <2>4, <2>5 DEF TruthSound
<1>11. BudgetSound'
  <2>1. ASSUME NEW s \in Tokens
        PROVE  IsFiniteSet(Writers(s))' /\ writes'[s] + Cardinality(Writers(s)') <= entry'[s].attempts
    <3>1. \A v \in Callers : /\ caller'[v].token = s <=> caller[v].token = s
                             /\ caller[v].token = s => caller'[v] = caller[v]
      BY <1>1
    <3> QED
      BY <3>1, SameCallers DEF ConfirmInv
  <2> QED
    BY <2>1 DEF BudgetSound
<1> QED
  BY <1>4, <1>5, <1>6, <1>7, <1>9, <1>10, <1>11 DEF ConfirmInv

\* A full registry makes room among the tokens that are over.
LEMMA InsertKeeps ==
  ASSUME ConfirmInv, NEW w \in Callers, InsertEntry(w)
  PROVE  ConfirmInv'
<1> DEFINE t == caller[w].mint
           time == caller[w].at
           full == Cardinality(registered) >= Capacity
           kept == IF full THEN {s \in registered : Retained(entry[s], time)} ELSE registered
           fits == Cardinality(kept) < Capacity
           lapsed == {s \in registered : full /\ Due(entry[s], time)}
           New(s) == CASE s = t /\ fits -> [entry[s] EXCEPT !.state = "issued", !.expires = time + Ttl]
                       [] s = t /\ ~fits -> [Blank EXCEPT !.state = "refused"]
                       [] s \in lapsed -> Ended(entry[s], "invalidated")
                       [] OTHER -> entry[s]
<1>5. /\ registered' = IF fits THEN kept \cup {t} ELSE kept
      /\ entry' = [s \in Tokens |-> New(s)]
      /\ caller' = [caller EXCEPT ![w] = Idle]
      /\ UNCHANGED <<candidateVars, sequence, now, faults, writes, shown, fresh>>
  BY DEF InsertEntry
<1>2. /\ kept \subseteq registered /\ \A s \in registered : ~full \/ Retained(entry[s], time) => s \in kept
      /\ \A s \in lapsed : s \in registered /\ full /\ Due(entry[s], time)
      /\ \A s \in registered : full /\ Due(entry[s], time) => s \in lapsed
  OBVIOUS
<1>3. fits <=> Cardinality(kept) < Capacity
  OBVIOUS
<1>4. t = caller[w].mint /\ time = caller[w].at
  OBVIOUS
<1> HIDE DEF t, time, full, kept, fits, lapsed, New
<1>6. /\ t \in Tokens /\ entry[t].state = "none" /\ entry[t].candidate \in Candidates
      /\ entry[t] \in EntryRow /\ time \in Nat /\ Ttl \in Nat /\ Capacity \in Nat /\ Null \notin Tokens
      /\ caller[w].token = Null /\ caller[w].result = "none" /\ caller \in [Callers -> CallerRow]
      /\ entry \in [Tokens -> EntryRow] /\ MaxAttempts \in Nat
      /\ \A v \in Callers \ {w} : caller[v].mint # t
  BY <1>4, CandidateAssumption, ConfirmationAssumption
     DEF InsertEntry, ConfirmInv, RegistryTyped, CallersSound, CallerRow, Tokens
<1>1. /\ New(t) = IF fits THEN [entry[t] EXCEPT !.state = "issued", !.expires = time + Ttl]
                  ELSE [Blank EXCEPT !.state = "refused"]
      /\ \A s \in Tokens \ {t} : New(s) = IF s \in lapsed THEN Ended(entry[s], "invalidated") ELSE entry[s]
  <2>4. t \notin lapsed
    BY <1>2, <1>6 DEF ConfirmInv, TokensSound, Issued
  <2>1. fits => New(t) = [entry[t] EXCEPT !.state = "issued", !.expires = time + Ttl]
    BY <2>4 DEF New
  <2>2. ~fits => New(t) = [Blank EXCEPT !.state = "refused"]
    BY <2>4 DEF New
  <2>3. ASSUME NEW s \in Tokens \ {t}
        PROVE  New(s) = IF s \in lapsed THEN Ended(entry[s], "invalidated") ELSE entry[s]
    <3>1. CASE s \in lapsed
      BY <2>3, <3>1 DEF New
    <3>2. CASE s \notin lapsed
      BY <2>3, <3>2 DEF New
    <3> QED
      BY <3>1, <3>2
  <2> QED
    BY <2>1, <2>2, <2>3
<1>7. kept \subseteq registered /\ IsFiniteSet(kept) /\ registered \subseteq Tokens /\ IsFiniteSet(registered)
  <2>1. kept \subseteq registered /\ IsFiniteSet(registered) /\ registered \subseteq Tokens
    BY <1>2 DEF ConfirmInv, RegistryTyped
  <2> QED
    BY <2>1, FS_Subset
<1>8. IsFiniteSet(registered') /\ Cardinality(registered') <= Capacity /\ registered' \subseteq Tokens
  <2>1. CASE fits
    <3>1. registered' = kept \cup {t}
      BY <1>5, <2>1
    <3>2. /\ Cardinality(kept) \in Nat /\ Cardinality(kept \cup {t}) \in Nat /\ IsFiniteSet(kept \cup {t})
          /\ Cardinality(kept \cup {t}) <= Cardinality(kept) + 1
      BY <1>7, OneWriter
    <3> QED
      BY <1>3, <1>6, <1>7, <2>1, <3>1, <3>2
  <2>2. CASE ~fits
    <3>1. Cardinality(kept) <= Cardinality(registered) /\ Cardinality(registered) <= Capacity
      BY <1>7, FS_Subset DEF ConfirmInv, RegistryTyped
    <3>2. Cardinality(kept) \in Nat /\ Cardinality(registered) \in Nat
      BY <1>7, FS_CardinalityType
    <3> QED
      BY <1>5, <1>6, <1>7, <2>2, <3>1, <3>2
  <2> QED
    BY <2>1, <2>2
<1>9. PICK e : e = [entry[t] EXCEPT !.state = "issued", !.expires = time + Ttl]
  OBVIOUS
<1>10. /\ e \in EntryRow /\ e.state = "issued" /\ e.candidate = entry[t].candidate
       /\ e.expected = entry[t].expected /\ e.attempts = entry[t].attempts
  <2>1. time + Ttl \in Nat /\ "issued" \in States
    BY <1>6 DEF States
  <2>2. e \in EntryRow
    BY <1>6, <1>9, <2>1 DEF EntryRow
  <2> QED
    BY <1>6, <1>9, <2>2 DEF EntryRow
<1>11. PICK b : b = [Blank EXCEPT !.state = "refused"]
  OBVIOUS
<1>12. b \in EntryRow /\ b.attempts = 0
  BY <1>6, <1>11 DEF Blank, EntryRow, States
<1>13. ASSUME NEW s \in Tokens \ {t}
       PROVE  /\ entry'[s] = entry[s] \/ entry'[s] = Ended(entry[s], "invalidated")
              /\ s \in registered' => s \in registered
              /\ entry'[s] = entry[s] /\ entry[s].state \in {"in_flight", "recovery"} /\ s \in registered => s \in registered'
              /\ entry'[s] # entry[s] => Issued(s)
  <2>1. entry'[s] = IF s \in lapsed THEN Ended(entry[s], "invalidated") ELSE entry[s]
    BY <1>1, <1>5, <1>13
  <2>2. s \in lapsed => entry[s].state = "recovery" /\ entry'[s].state = "invalidated"
    <3>1. "invalidated" \in States /\ RegistryTyped /\ entry[s] \in EntryRow
      BY <1>6, <1>13 DEF States, ConfirmInv
    <3>2. Ended(entry[s], "invalidated").state = "invalidated"
      BY <3>1, EntryKept
    <3>3. s \in lapsed => entry[s].state = "recovery"
      BY <1>2 DEF Due
    <3> QED
      BY <2>1, <3>2, <3>3
  <2>3. entry[s].state \in {"in_flight", "recovery"} /\ s \in registered /\ s \notin lapsed => s \in kept
    <3>1. entry[s].deadline \in Nat
      BY <1>6 DEF EntryRow
    <3> QED
      BY <1>2, <1>6, <3>1 DEF Retained, Due
  <2>4. s \in lapsed => entry'[s] # entry[s]
    BY <2>2
  <2> QED
    BY <1>5, <1>7, <1>13, <2>1, <2>2, <2>3, <2>4 DEF Issued
<1>14. \A s \in Tokens : Ended(entry[s], "invalidated") \in EntryRow
  <2>1. "invalidated" \in States
    BY DEF States
  <2> QED
    BY <1>6, <2>1, EntryKept DEF ConfirmInv
<1>15. entry'[t] = IF fits THEN e ELSE b
  <2>1. entry'[t] = New(t)
    BY <1>5, <1>6
  <2> QED
    BY <1>1, <1>9, <1>11, <2>1
<1>16. RegistryTyped'
  <2>1. entry' \in [Tokens -> EntryRow]
    <3>1. \A s \in Tokens : entry'[s] \in EntryRow
      BY <1>6, <1>10, <1>12, <1>13, <1>14, <1>15
    <3>2. entry' = [s \in Tokens |-> entry'[s]]
      BY <1>5
    <3> QED
      BY <3>1, <3>2
  <2>2. caller' \in [Callers -> CallerRow]
    <3>1. Idle \in CallerRow
      BY DEF Idle, CallerRow, Results
    <3> QED
      BY <1>5, <1>6, <3>1
  <2> QED
    BY <1>5, <1>8, <2>1, <2>2 DEF ConfirmInv, RegistryTyped
<1>17. caller'[w] = Idle /\ \A v \in Callers \ {w} : caller'[v] = caller[v]
  BY <1>5, <1>6
<1>18. \A v \in Callers : caller'[v].mint # t
  <2>1. Idle.mint = Null
    BY DEF Idle
  <2> QED
    BY <1>6, <1>17, <2>1
<1>19. entry[t].attempts = 0
  BY <1>6 DEF ConfirmInv, TokensSound, Issued
<1>20. ASSUME NEW s \in Tokens
       PROVE  /\ entry'[s].attempts = entry[s].attempts
              /\ \/ entry'[s] = entry[s] /\ (s \in registered' => s \in registered)
                    /\ (entry[s].state \in {"in_flight", "recovery"} /\ s \in registered => s \in registered')
                 \/ /\ entry'[s].candidate = entry[s].candidate /\ entry'[s].expected = entry[s].expected
                    /\ entry'[s].candidate \in Candidates
                    /\ entry'[s].state \notin {"none", "refused", "in_flight", "recovery", "consumed"}
                    /\ \A v \in Callers : caller'[v].mint # s
                 \/ /\ entry[s].state = "none" /\ entry'[s] = [Blank EXCEPT !.state = "refused"]
                    /\ s \notin registered' /\ \A v \in Callers : caller'[v].mint # s
  <2>1. CASE s = t /\ fits
    BY <1>6, <1>10, <1>15, <1>18, <2>1
  <2>2. CASE s = t /\ ~fits
    <3>1. t \notin registered'
      BY <1>5, <1>6, <1>7, <2>2 DEF ConfirmInv, TokensSound, Issued
    <3> QED
      BY <1>6, <1>11, <1>12, <1>15, <1>18, <1>19, <2>2, <3>1
  <2>3. CASE s # t /\ entry'[s] = entry[s]
    BY <1>13, <2>3
  <2>4. CASE s # t /\ entry'[s] # entry[s]
    <3>1. /\ entry'[s].candidate = entry[s].candidate /\ entry'[s].expected = entry[s].expected
          /\ entry'[s].attempts = entry[s].attempts /\ entry'[s].state = "invalidated" /\ Issued(s)
      <4>1. "invalidated" \in States
        BY DEF States
      <4> QED
        BY <1>6, <1>13, <2>4, <4>1, EntryKept DEF ConfirmInv
    <3>2. entry[s].candidate \in Candidates
      BY <3>1 DEF ConfirmInv, TokensSound
    <3>3. \A v \in Callers : caller'[v].mint # s
      <4>1. \A v \in Callers : caller[v].mint # s
        BY <3>1 DEF ConfirmInv, CallersSound, Issued
      <4>2. Idle.mint = Null
        BY DEF Idle
      <4> QED
        BY <1>6, <1>17, <4>1, <4>2
    <3> QED
      BY <3>1, <3>2, <3>3
  <2> QED
    BY <2>1, <2>2, <2>3, <2>4
<1>21. \A v \in Callers : caller'[v] = caller[v] \/ (caller'[v] = Idle /\ caller[v].token = Null /\ caller[v].result = "none")
  BY <1>6, <1>17
<1> QED
  BY <1>5, <1>16, <1>20, <1>21, EntriesChange

LEMMA CancelKeeps ==
  ASSUME ConfirmInv, NEW t \in Tokens, Cancel(t)
  PROVE  ConfirmInv'
<1>1. /\ t \in registered /\ entry[t].state = "issued" /\ entry \in [Tokens -> EntryRow] /\ Issued(t)
      /\ entry[t].candidate \in Candidates
      /\ UNCHANGED <<candidateVars, registered, caller, sequence, now, faults, writes, shown, fresh>>
  BY DEF Cancel, ConfirmInv, RegistryTyped, TokensSound, Issued
<1>2. PICK e : e = IF now >= entry[t].expires THEN Aged(entry[t]) ELSE Ended(entry[t], "cancelled")
  OBVIOUS
<1>3. entry' = [entry EXCEPT ![t] = e]
  BY <1>1, <1>2 DEF Cancel
<1>4. /\ e \in EntryRow /\ e.candidate = entry[t].candidate /\ e.expected = entry[t].expected
      /\ e.attempts = entry[t].attempts /\ e.state \in {"issued", "expired", "cancelled"}
  <2>1. "cancelled" \in States /\ entry[t] \in EntryRow
    BY <1>1 DEF States
  <2> QED
    BY <1>1, <1>2, <2>1, EntryKept DEF ConfirmInv
<1>5. RegistryTyped'
  BY <1>1, <1>3, <1>4 DEF ConfirmInv, RegistryTyped
<1>6. \A v \in Callers : caller'[v].mint # t
  BY <1>1 DEF ConfirmInv, CallersSound
<1>7. entry'[t] = e /\ \A s \in Tokens \ {t} : entry'[s] = entry[s]
  BY <1>1, <1>3
<1>8. ASSUME NEW s \in Tokens
      PROVE  /\ entry'[s].attempts = entry[s].attempts
             /\ \/ entry'[s] = entry[s] /\ (s \in registered' => s \in registered)
                   /\ (entry[s].state \in {"in_flight", "recovery"} /\ s \in registered => s \in registered')
                \/ /\ entry'[s].candidate = entry[s].candidate /\ entry'[s].expected = entry[s].expected
                   /\ entry'[s].candidate \in Candidates
                   /\ entry'[s].state \notin {"none", "refused", "in_flight", "recovery", "consumed"}
                   /\ \A v \in Callers : caller'[v].mint # s
                \/ /\ entry[s].state = "none" /\ entry'[s] = [Blank EXCEPT !.state = "refused"]
                   /\ s \notin registered' /\ \A v \in Callers : caller'[v].mint # s
  <2>1. CASE s = t
    BY <1>1, <1>4, <1>6, <1>7, <2>1
  <2>2. CASE s # t
    BY <1>1, <1>7, <2>2
  <2> QED
    BY <2>1, <2>2
<1> QED
  BY <1>1, <1>5, <1>8, EntriesChange

LEMMA TickKeeps ==
  ASSUME ConfirmInv, Tick
  PROVE  ConfirmInv'
<1>1. UNCHANGED <<candidateVars, entry, registered, caller, sequence, faults, writes, shown, fresh>>
  BY DEF Tick
<1>2. RegistryTyped'
  BY <1>1 DEF ConfirmInv, RegistryTyped, Tick
<1> QED
  BY <1>1, <1>2, EntriesChange

\* Review takes nothing back that was told, and shows nothing new at an old revision.
LEMMA ReviewStepKeeps ==
  ASSUME ConfirmInv, ReviewStep, UNCHANGED confirmVars
  PROVE  ConfirmInv'
<1>1. /\ CandidatesSound' /\ memory' \subseteq memory
      /\ \A d \in Candidates : Follows(candidate[d], candidate'[d])
  BY ReviewKeeps DEF ConfirmInv
<1>2. UNCHANGED <<entry, registered, caller, sequence, now, faults, writes, shown, fresh>>
  BY DEF confirmVars
<1>3. RegistryTyped' /\ TokensSound' /\ CallersSound' /\ BudgetSound'
  BY <1>2 DEF ConfirmInv, RegistryTyped, TokensSound, CallersSound, BudgetSound, Issued, Writers
<1>4. ShownSound'
  <2>1. ASSUME NEW d \in Candidates
        PROVE  /\ candidate[d].status # "unborn" => candidate'[d].status # "unborn"
               /\ candidate[d].status # "unborn" /\ candidate'[d].status = "pending" =>
                    /\ candidate[d].status = "pending" /\ candidate'[d].revision \in Nat /\ candidate[d].revision \in Nat
                    /\ candidate'[d] = candidate[d] \/ candidate'[d].revision > candidate[d].revision
    <3>1. candidate[d].status = "pending" => candidate[d].revision \in Nat
      BY DEF ConfirmInv, CandidatesSound, Pending
    <3>2. candidate'[d].status = "pending" => candidate'[d].revision \in Nat
      BY <1>1 DEF CandidatesSound, Pending
    <3> QED
      BY <1>1, <3>1, <3>2 DEF Follows
  <2>2. \A s \in Tokens : entry[s].expected \in Nat
    BY DEF ConfirmInv, RegistryTyped, EntryRow
  <2> QED
    BY <1>1, <1>2, <2>1, <2>2 DEF ConfirmInv, ShownSound, Pending, Issued
<1>5. FreshSound'
  <2>1. \A d \in Candidates : candidate'[d].status \in {"unborn", "pending"} => candidate[d].status \in {"unborn", "pending"}
    BY <1>1 DEF Follows
  <2> QED
    BY <1>2, <2>1 DEF ConfirmInv, FreshSound, Confirming
<1>6. TruthSound'
  <2>1. ASSUME NEW s \in Tokens, Issued(s), Confirmed(s) PROVE Confirmed(s)'
    <3>1. PICK d \in Candidates : d = entry[s].candidate
      BY <2>1 DEF ConfirmInv, TokensSound
    <3> QED
      BY <1>1, <1>2, <2>1, <3>1 DEF Confirmed, Accepted, Follows
  <2>2. \A s \in Tokens : entry[s].state = "consumed" => Issued(s)
    BY DEF Issued
  <2>3. \A v \in Callers : caller[v].result \in Successes => caller[v].token \in Tokens /\ Issued(caller[v].token)
    BY DEF ConfirmInv, CallersSound, Successes
  <2> QED
    BY <1>2, <2>1, <2>2, <2>3 DEF ConfirmInv, TruthSound
<1> QED
  BY <1>1, <1>3, <1>4, <1>5, <1>6 DEF ConfirmInv

-----------------------------------------------------------------------------
(* The registry and the database, always *)

LEMMA ConfirmInitInv ==
  ASSUME ConfirmInit
  PROVE  ConfirmInv
<1>1. /\ Null \notin Contents \cup Requests \cup Candidates /\ MaxAttempts \in Nat /\ Capacity \in Nat
      /\ MaxRevision \in Nat /\ Tokens = Requests
  BY CandidateAssumption, ConfirmationAssumption DEF Tokens
<1>2. /\ candidate = [c \in Candidates |-> Unborn] /\ evidence = {} /\ message = {} /\ memory = {}
      /\ due = {} /\ scan = {} /\ entry = [t \in Tokens |-> Blank] /\ registered = {}
      /\ caller = [w \in Callers |-> Idle] /\ sequence = 0 /\ now = 1 /\ faults = 0
      /\ writes = [t \in Tokens |-> 0] /\ shown = [t \in Tokens |-> Null] /\ fresh = [c \in Candidates |-> 0]
  BY DEF ConfirmInit, CandidateInit
<1>3. /\ Unborn \in CandidateRow /\ Unborn.status = "unborn" /\ Unborn.content = Null
  BY <1>1 DEF Unborn, CandidateRow, CandidateStatuses
<1>4. /\ Blank \in EntryRow /\ Blank.candidate = Null /\ Blank.state = "none" /\ Blank.attempts = 0
  BY <1>1 DEF Blank, EntryRow, States
<1>5. /\ Idle \in CallerRow /\ Idle.pc = "idle" /\ Idle.token = Null /\ Idle.mint = Null
      /\ Idle.result = "none" /\ Idle.todo = {} /\ Null \notin Tokens
  BY <1>1 DEF Idle, CallerRow, Results
<1>6. IsFiniteSet({}) /\ Cardinality({}) = 0
  BY FS_EmptySet
<1>7. CandidatesSound
  BY <1>1, <1>2, <1>3 DEF CandidatesSound, CandidateTypes, CandidateRow, TablesAgree, Pending
<1>8. RegistryTyped
  <2>1. registered \subseteq Tokens /\ IsFiniteSet(registered) /\ Cardinality(registered) <= Capacity
    BY <1>1, <1>2, <1>6
  <2> QED
    BY <1>2, <1>4, <1>5, <2>1 DEF RegistryTyped
<1>9. TokensSound
  BY <1>2, <1>4 DEF TokensSound, Issued
<1>10. CallersSound
  BY <1>2, <1>5 DEF CallersSound
<1>11. ShownSound
  BY <1>1, <1>2, <1>4 DEF ShownSound
<1>12. FreshSound
  BY <1>2, <1>5 DEF FreshSound, Confirming
<1>13. TruthSound
  BY <1>2, <1>4, <1>5 DEF TruthSound, Successes
<1>14. BudgetSound
  <2>1. \A t \in Tokens : Writers(t) = {}
    BY <1>2, <1>5 DEF Writers
  <2> QED
    BY <1>2, <1>4, <1>6, <2>1 DEF BudgetSound
<1> QED
  BY <1>7, <1>8, <1>9, <1>10, <1>11, <1>12, <1>13, <1>14 DEF ConfirmInv

LEMMA ConfirmStep ==
  ASSUME ConfirmInv, [ConfirmNext]_allVars
  PROVE  ConfirmInv'
<1>1. ASSUME NEW w \in Callers, NEW t \in Tokens, NEW c \in Candidates, BeginPrepare(w, t, c)
      PROVE  ConfirmInv'
  BY <1>1, PrepareKeeps
<1>2. ASSUME NEW w \in Callers, NEW t \in Tokens, BeginAttempt(w, t)
      PROVE  ConfirmInv'
  BY <1>2, BeginAttemptKeeps
<1>3. ASSUME NEW w \in Callers, NEW t \in Tokens, ReconcileDue(w, t)
      PROVE  ConfirmInv'
  BY <1>3, ReconcileKeeps
<1>4. ASSUME NEW w \in Callers, InsertEntry(w)
      PROVE  ConfirmInv'
  BY <1>4, InsertKeeps
<1>5. ASSUME NEW w \in Callers, ProbeRecovery(w) \/ RereadCandidate(w)
      PROVE  ConfirmInv'
  BY <1>5, ProbeKeeps, RereadKeeps
<1>6. ASSUME NEW w \in Callers, WriteD4(w) \/ Finalize(w)
      PROVE  ConfirmInv'
  BY <1>6, WriteKeeps, FinalizeKeeps
<1>7. ASSUME NEW t \in Tokens, Cancel(t)
      PROVE  ConfirmInv'
  BY <1>7, CancelKeeps
<1>8. CASE Tick
  BY <1>8, TickKeeps
<1>9. CASE ReviewStep /\ UNCHANGED confirmVars
  BY <1>9, ReviewStepKeeps
<1>10. CASE UNCHANGED allVars
  <2>1. UNCHANGED <<candidateVars, entry, registered, caller, sequence, now, faults, writes, shown, fresh>>
    BY <1>10 DEF allVars, confirmVars
  <2>2. RegistryTyped'
    BY <2>1 DEF ConfirmInv, RegistryTyped
  <2> QED
    BY <2>1, <2>2, EntriesChange
<1> QED
  BY <1>1, <1>2, <1>3, <1>4, <1>5, <1>6, <1>7, <1>8, <1>9, <1>10 DEF ConfirmNext, CallStep

\* However many answers are lost and however late a call is, the memories are what the
\* users approved, one per candidate and reported once as fresh; a token is consumed only
\* by a commit, a call in flight keeps its entry in the full registry, and no token enters
\* D-4 more than MAX_ATTEMPTS times.
THEOREM ApprovalIsHonoured ==
  ConfirmSpec => [](ConfirmTypeOK /\ TablesAgree /\ ConfirmedAsShown /\ ConsumedIsCommitted
                    /\ InFlightIsRegistered /\ WritesAreBudgeted)
<1> DEFINE Safe == /\ ConfirmTypeOK /\ TablesAgree /\ ConfirmedAsShown /\ ConsumedIsCommitted
                   /\ InFlightIsRegistered /\ WritesAreBudgeted
<1>1. ConfirmInit => ConfirmInv
  BY ConfirmInitInv
<1>2. ConfirmInv /\ [ConfirmNext]_allVars => ConfirmInv'
  BY ConfirmStep
<1>3. ConfirmInv => Safe
  <2> SUFFICES ASSUME ConfirmInv PROVE Safe
    OBVIOUS
  <2>1. ConfirmTypeOK
    <3>1. \A t \in Tokens : entry[t].state \in States /\ entry[t].attempts \in 0..MaxAttempts
      BY DEF ConfirmInv, RegistryTyped, EntryRow
    <3>2. \A w \in Callers : caller[w].pc \in {"probe", "reread", "write", "finalize"} =>
            caller[w].token \in Tokens /\ entry[caller[w].token].candidate \in Candidates
      BY DEF ConfirmInv, CallersSound, TokensSound
    <3> QED
      BY <3>1, <3>2 DEF ConfirmTypeOK, ConfirmInv, CandidatesSound, RegistryTyped
  <2>2. TablesAgree
    BY DEF ConfirmInv, CandidatesSound
  <2>3. ConfirmedAsShown
    <3>1. \A c \in Candidates : fresh[c] \in {0, 1}
      BY DEF ConfirmInv, RegistryTyped
    <3> QED
      BY <3>1 DEF ConfirmedAsShown, ConfirmInv, ShownSound
  <2>4. ConsumedIsCommitted
    BY DEF ConsumedIsCommitted, ConfirmInv, TruthSound, Confirmed
  <2>5. InFlightIsRegistered
    BY DEF InFlightIsRegistered, ConfirmInv, TokensSound
  <2>6. WritesAreBudgeted
    <3>1. ASSUME NEW t \in Tokens PROVE writes[t] <= MaxAttempts
      <4>1. /\ writes[t] + Cardinality(Writers(t)) <= entry[t].attempts /\ Cardinality(Writers(t)) \in Nat
        BY FS_CardinalityType DEF ConfirmInv, BudgetSound
      <4>2. writes[t] \in Nat /\ entry[t].attempts \in 0..MaxAttempts /\ MaxAttempts \in Nat
        BY ConfirmationAssumption DEF ConfirmInv, RegistryTyped, EntryRow
      <4> QED
        BY <4>1, <4>2
    <3> QED
      BY <3>1 DEF WritesAreBudgeted
  <2> QED
    BY <2>1, <2>2, <2>3, <2>4, <2>5, <2>6
<1> QED
  BY <1>1, <1>2, <1>3, PTL DEF ConfirmSpec

-----------------------------------------------------------------------------
(* One lost answer *)

\* The steps of w for t, x and e being the call and the entry after it.
QuietCall(w, x, t, e) ==
    faults' = 0 =>
        /\ e.state # "recovery"
        /\ x.token = t => /\ ~x.recovery /\ x.pc # "probe"
                          /\ x.result \in {"none", "confirmed", "already", "terminal"}
        /\ e.state \in {"issued", "expired", "cancelled"} =>
             x.token # t /\ \A v \in Callers \ {w} : caller[v].token # t

KnownCall(w, x, t, e) ==
    /\ caller[w].result = "confirmed" => e.state \in {"consumed", "cancelled"}
    /\ entry[t].state \in {"consumed", "cancelled"} => e.state \in {"consumed", "cancelled"}
    /\ Silent(t) =>
         \/ e.state \in {"consumed", "cancelled"}
         \/ /\ e.state \in {"in_flight", "recovery", "invalidated"}
            /\ x.token = t => /\ x.result \notin {"not_committed", "unavailable"}
                              /\ x.recovery => x.pc \in {"probe", "finalize"}

LEMMA OneFaultCall ==
  ASSUME ConfirmInv, OneFaultInv, NEW w \in Callers, NEW x, NEW t \in Tokens, NEW e, Issued(t),
         caller' = [caller EXCEPT ![w] = x], entry' = [entry EXCEPT ![t] = e],
         caller[w].token \in {t, Null}, x.token \in {t, Null}, x.result # "confirmed",
         e.candidate = entry[t].candidate, UNCHANGED candidateVars,
         faults' = faults \/ (faults = 0 /\ faults' = 1),
         QuietCall(w, x, t, e), KnownCall(w, x, t, e)
  PROVE  OneFaultInv'
<1>1. /\ entry'[t] = e /\ \A s \in Tokens \ {t} : entry'[s] = entry[s]
      /\ caller'[w] = x /\ \A v \in Callers \ {w} : caller'[v] = caller[v]
      /\ Null \notin Tokens
  BY CandidateAssumption DEF ConfirmInv, RegistryTyped, Tokens
<1>2. faults' <= 1
  BY DEF OneFaultInv
<1>3. NoFaultYet'
  <2>1. SUFFICES ASSUME faults' = 0
                 PROVE  /\ \A s \in Tokens : entry'[s].state # "recovery"
                        /\ \A v \in Callers : caller'[v].token \in Tokens =>
                             /\ ~caller'[v].recovery /\ caller'[v].pc # "probe"
                             /\ caller'[v].result \in {"none", "confirmed", "already", "terminal"}
                             /\ entry'[caller'[v].token].state \notin {"issued", "expired", "cancelled"}
    BY DEF NoFaultYet
  <2>2. faults = 0
    BY <2>1
  <2>3. \A s \in Tokens : entry'[s].state # "recovery"
    BY <1>1, <2>1, <2>2 DEF OneFaultInv, NoFaultYet, QuietCall
  <2>4. ASSUME NEW v \in Callers, caller'[v].token \in Tokens
        PROVE  /\ ~caller'[v].recovery /\ caller'[v].pc # "probe"
               /\ caller'[v].result \in {"none", "confirmed", "already", "terminal"}
               /\ entry'[caller'[v].token].state \notin {"issued", "expired", "cancelled"}
    <3>1. CASE v = w
      BY <1>1, <2>1, <2>4, <3>1 DEF QuietCall
    <3>2. CASE v # w
      BY <1>1, <2>1, <2>2, <2>4, <3>2 DEF QuietCall, OneFaultInv, NoFaultYet
    <3> QED
      BY <3>1, <3>2
  <2> QED
    BY <2>3, <2>4
<1>4. \A s \in Tokens : Committed(s)' <=> Committed(s)
  BY <1>1 DEF Committed, Accepted, candidateVars
<1>5. ASSUME NEW s \in Tokens, s # t, Silent(s)'
      PROVE  Lost(s)'
  <2>1. \A v \in Callers : caller'[v].token = s <=> caller[v].token = s
    BY <1>1, <1>5
  <2>2. \A v \in Callers : caller[v].token = s => caller'[v] = caller[v]
    BY <1>1, <1>5
  <2>3. Silent(s)
    BY <1>1, <1>4, <1>5, <2>1, <2>2 DEF Silent, Told, Issued
  <2>4. Lost(s)
    BY <2>3 DEF OneFaultInv, CommitIsKnown
  <2> QED
    BY <1>1, <1>5, <2>1, <2>2, <2>4 DEF Lost
<1>6. ASSUME Silent(t)'
      PROVE  Lost(t)'
  <2>1. e.state \notin {"consumed", "cancelled"}
    BY <1>1, <1>6 DEF Silent
  <2>2. caller[w].result # "confirmed" /\ entry[t].state \notin {"consumed", "cancelled"}
    BY <2>1 DEF KnownCall
  <2>3. ~Told(t)
    BY <1>1, <1>6, <2>2 DEF Silent, Told
  <2>4. Silent(t)
    BY <1>4, <1>6, <2>2, <2>3 DEF Silent
  <2>5. Lost(t)
    BY <2>4 DEF OneFaultInv, CommitIsKnown
  <2>6. /\ e.state \in {"in_flight", "recovery", "invalidated"}
        /\ x.token = t => /\ x.result \notin {"not_committed", "unavailable"}
                          /\ x.recovery => x.pc \in {"probe", "finalize"}
    BY <2>1, <2>4 DEF KnownCall
  <2>7. faults' = 1
    BY <2>5 DEF Lost
  <2>8. ASSUME NEW v \in Callers, caller'[v].token = t
        PROVE  /\ caller'[v].result \notin {"not_committed", "unavailable"}
               /\ caller'[v].recovery => caller'[v].pc \in {"probe", "finalize"}
    <3>1. CASE v = w
      BY <1>1, <2>6, <2>8, <3>1
    <3>2. CASE v # w
      BY <1>1, <2>5, <2>8, <3>2 DEF Lost
    <3> QED
      BY <3>1, <3>2
  <2> QED
    BY <1>1, <2>6, <2>7, <2>8 DEF Lost
<1>7. CommitIsKnown'
  BY <1>5, <1>6 DEF CommitIsKnown
<1> QED
  BY <1>2, <1>3, <1>7 DEF OneFaultInv

\* The steps that commit nothing and end no call.
LEMMA OneFaultRest ==
  ASSUME ConfirmInv, OneFaultInv, faults' = faults,
         \A s \in Tokens : Issued(s)' /\ Committed(s)' => Issued(s) /\ Committed(s),
         \A v \in Callers : \/ caller'[v] = caller[v]
                            \/ caller'[v].token \notin Tokens /\ caller[v].token \notin Tokens,
         \A s \in Tokens : /\ entry'[s].state = "recovery" => entry[s].state = "recovery"
                           /\ Issued(s) => \/ entry'[s].state = entry[s].state
                                           \/ entry[s].state = "recovery" /\ entry'[s].state = "invalidated"
  PROVE  OneFaultInv'
<1>1. \A v \in Callers : \A s \in Tokens : /\ caller'[v].token = s <=> caller[v].token = s
                                           /\ caller[v].token = s => caller'[v] = caller[v] /\ Issued(s)
  BY DEF ConfirmInv, CallersSound
<1>2. NoFaultYet'
  <2>1. SUFFICES ASSUME faults = 0
                 PROVE  /\ \A s \in Tokens : entry'[s].state # "recovery"
                        /\ \A v \in Callers : caller'[v].token \in Tokens =>
                             /\ ~caller'[v].recovery /\ caller'[v].pc # "probe"
                             /\ caller'[v].result \in {"none", "confirmed", "already", "terminal"}
                             /\ entry'[caller'[v].token].state \notin {"issued", "expired", "cancelled"}
    BY DEF NoFaultYet
  <2> QED
    BY <1>1, <2>1 DEF OneFaultInv, NoFaultYet
<1>3. ASSUME NEW s \in Tokens, Silent(s)'
      PROVE  Lost(s)'
  <2>1. Issued(s) /\ Committed(s) /\ entry'[s].state \notin {"consumed", "cancelled"}
    BY <1>3 DEF Silent
  <2>2. ~Told(s)
    BY <1>1, <1>3 DEF Silent, Told
  <2>3. Lost(s)
    BY <2>1, <2>2 DEF Silent, OneFaultInv, CommitIsKnown
  <2> QED
    BY <1>1, <2>1, <2>3 DEF Lost
<1> QED
  BY <1>2, <1>3 DEF OneFaultInv, CommitIsKnown

-----------------------------------------------------------------------------
(* Each step, with one lost answer at most *)

LEMMA ReconcileOne ==
  ASSUME ConfirmInv, OneFaultInv, NEW w \in Callers, NEW t \in Tokens, ReconcileDue(w, t)
  PROVE  OneFaultInv'
<1>1. /\ Issued(t) /\ entry[t] \in EntryRow /\ caller[w] \in CallerRow /\ caller[w].token = Null
      /\ caller[w].pc = "prepare" /\ caller[w].result = "none" /\ Null \notin Tokens
      /\ UNCHANGED <<candidateVars, faults>>
  BY CandidateAssumption DEF ReconcileDue, ConfirmInv, RegistryTyped, CallersSound, CallerRow, Tokens
<1>2. CASE Due(entry[t], caller[w].at)
  <2>1. PICK e : e = [entry[t] EXCEPT !.state = "in_flight", !.sequence = sequence + 1,
                                      !.lease = caller[w].at + Lease]
    OBVIOUS
  <2>2. PICK x : x = [caller[w] EXCEPT !.pc = "probe", !.token = t, !.sequence = sequence + 1,
                        !.recovery = TRUE, !.readOnly = TRUE, !.todo = @ \ {t}]
    OBVIOUS
  <2>3. caller' = [caller EXCEPT ![w] = x] /\ entry' = [entry EXCEPT ![t] = e]
    BY <1>2, <2>1, <2>2 DEF ReconcileDue, ConfirmInv, RegistryTyped
  <2>4. e.state = "in_flight" /\ e.candidate = entry[t].candidate /\ entry[t].state = "recovery"
    BY <1>1, <1>2, <2>1 DEF EntryRow, Due
  <2>5. x.token = t /\ x.pc = "probe" /\ x.result = "none"
    BY <1>1, <2>2 DEF CallerRow
  <2>6. QuietCall(w, x, t, e)
    BY <1>1, <2>4 DEF QuietCall, OneFaultInv, NoFaultYet
  <2>7. KnownCall(w, x, t, e)
    BY <1>1, <2>4, <2>5 DEF KnownCall
  <2> QED
    BY <1>1, <2>3, <2>4, <2>5, <2>6, <2>7, OneFaultCall
<1>3. CASE ~Due(entry[t], caller[w].at)
  <2>1. entry' = entry
    BY <1>3 DEF ReconcileDue
  <2>2. \A v \in Callers : \/ caller'[v] = caller[v]
                           \/ caller'[v].token \notin Tokens /\ caller[v].token \notin Tokens
    <3>1. PICK x : x = [caller[w] EXCEPT !.todo = @ \ {t}]
      OBVIOUS
    <3>2. caller' = [caller EXCEPT ![w] = x]
      BY <1>3, <3>1 DEF ReconcileDue, ConfirmInv, RegistryTyped
    <3>3. x.token = Null
      BY <1>1, <3>1 DEF CallerRow
    <3> QED
      BY <1>1, <3>2, <3>3 DEF ConfirmInv, RegistryTyped
  <2>3. \A s \in Tokens : Issued(s)' /\ Committed(s)' => Issued(s) /\ Committed(s)
    BY <1>1, <2>1 DEF Issued, Committed, Accepted, candidateVars
  <2> QED
    BY <1>1, <2>1, <2>2, <2>3, OneFaultRest
<1> QED
  BY <1>2, <1>3

LEMMA BeginAttemptOne ==
  ASSUME ConfirmInv, OneFaultInv, NEW w \in Callers, NEW t \in Tokens, BeginAttempt(w, t)
  PROVE  OneFaultInv'
<1> DEFINE e0 == Aged(entry[t])
<1>1. /\ Issued(t) /\ entry[t] \in EntryRow /\ caller[w] = Idle /\ Null \notin Tokens
      /\ Idle.token = Null /\ Idle.result = "none" /\ UNCHANGED <<candidateVars, faults>>
      /\ caller \in [Callers -> CallerRow]
  BY CandidateAssumption DEF BeginAttempt, ConfirmInv, RegistryTyped, TokensSound, Tokens, Idle
<1>2. /\ e0 \in EntryRow /\ (e0 = entry[t] \/ (entry[t].state = "issued" /\ e0.state = "expired"))
      /\ e0.candidate = entry[t].candidate
  BY <1>1, EntryKept DEF ConfirmInv
<1>3. faults = 0 =>
        /\ entry[t].state # "recovery"
        /\ entry[t].state \in {"issued", "expired", "cancelled"} => \A v \in Callers : caller[v].token # t
  BY DEF OneFaultInv, NoFaultYet
<1>4. Silent(t) => entry[t].state \in {"in_flight", "recovery", "invalidated"}
  BY DEF OneFaultInv, CommitIsKnown, Lost
<1>5. caller = [caller EXCEPT ![w] = Idle]
  BY <1>1
<1> HIDE DEF e0
<1>6. ASSUME NEW e, entry' = [entry EXCEPT ![t] = e], UNCHANGED caller,
             e = e0 \/ (e = Ended(e0, "invalidated") /\ Claimable(e0))
      PROVE  OneFaultInv'
  <2>1. /\ e.candidate = entry[t].candidate
        /\ e = entry[t] \/ (entry[t].state = "issued" /\ e.state = "expired")
             \/ (e.state = "invalidated" /\ entry[t].state \notin {"consumed", "cancelled"})
    <3>1. CASE e = e0
      BY <1>2, <3>1
    <3>2. CASE e = Ended(e0, "invalidated") /\ Claimable(e0)
      <4>1. "invalidated" \in States
        BY DEF States
      <4>2. e.state = "invalidated" /\ e.candidate = e0.candidate
        BY <1>2, <3>2, <4>1, EntryKept DEF ConfirmInv
      <4> QED
        BY <1>2, <3>2, <4>2 DEF Claimable
    <3> QED
      BY <1>6, <3>1, <3>2
  <2>2. QuietCall(w, Idle, t, e)
    BY <1>1, <1>3, <2>1 DEF QuietCall
  <2>3. KnownCall(w, Idle, t, e)
    BY <1>1, <1>4, <2>1 DEF KnownCall
  <2>4. caller' = [caller EXCEPT ![w] = Idle]
    BY <1>5, <1>6
  <2> QED
    BY <1>1, <1>6, <2>1, <2>2, <2>3, <2>4, OneFaultCall
<1>7. ASSUME NEW readOnly \in BOOLEAN, ClaimAttempt(w, t, e0, readOnly), Claimable(e0),
             ~(~readOnly /\ e0.attempts >= MaxAttempts)
      PROVE  OneFaultInv'
  <2>1. PICK e : e = [e0 EXCEPT !.state = "in_flight", !.sequence = sequence + 1,
                                !.attempts = IF readOnly THEN @ ELSE @ + 1, !.lease = now + Lease]
    OBVIOUS
  <2>2. PICK pc : pc = IF e0.state = "recovery" THEN "probe" ELSE "reread"
    OBVIOUS
  <2>3. PICK recovery \in BOOLEAN : recovery = (e0.state = "recovery")
    OBVIOUS
  <2>4. PICK x : x = [Idle EXCEPT !.pc = pc, !.token = t, !.sequence = sequence + 1,
                                  !.recovery = recovery, !.readOnly = readOnly]
    OBVIOUS
  <2>5. caller' = [caller EXCEPT ![w] = x] /\ entry' = [entry EXCEPT ![t] = e]
    BY <1>7, <2>1, <2>2, <2>3, <2>4 DEF ClaimAttempt
  <2>6. e.state = "in_flight" /\ e.candidate = entry[t].candidate
    BY <1>2, <2>1 DEF EntryRow
  <2>7. x.token = t /\ x.pc = pc /\ x.recovery = recovery /\ x.result = "none"
    BY <2>4 DEF Idle
  <2>8. e0.state \in {"issued", "recovery", "in_flight"}
    BY <1>7 DEF Claimable
  <2>9. recovery => pc = "probe" /\ entry[t].state = "recovery"
    BY <1>2, <2>2, <2>3
  <2>10. ~recovery => pc = "reread"
    BY <2>2, <2>3
  <2>11. QuietCall(w, x, t, e)
    BY <1>1, <1>3, <2>6, <2>7, <2>9, <2>10 DEF QuietCall
  <2>12. KnownCall(w, x, t, e)
    BY <1>1, <1>2, <2>6, <2>7, <2>8, <2>9 DEF KnownCall
  <2> QED
    BY <1>1, <2>5, <2>6, <2>7, <2>11, <2>12, OneFaultCall
<1>8. CASE Claimable(e0)
  <2>1. PICK readOnly \in BOOLEAN : readOnly = (e0.state = "recovery" /\ now >= e0.expires)
    OBVIOUS
  <2>2. ClaimAttempt(w, t, e0, readOnly)
    BY <1>8, <2>1 DEF BeginAttempt, e0
  <2>3. CASE ~readOnly /\ e0.attempts >= MaxAttempts
    BY <1>6, <1>8, <2>2, <2>3 DEF ClaimAttempt
  <2> QED
    BY <1>7, <1>8, <2>2, <2>3
<1>9. CASE ~Claimable(e0)
  BY <1>6, <1>9 DEF BeginAttempt, e0
<1> QED
  BY <1>8, <1>9

\* The first three parts of a call, when they commit nothing.
LEMMA CallOnOne ==
  ASSUME ConfirmInv, OneFaultInv, NEW w \in Callers, NEW pc \in {"reread", "write", "finalize"},
         NEW result, result # "confirmed", caller[w].pc \in {"probe", "reread", "write"},
         caller' = [caller EXCEPT ![w].pc = pc, ![w].result = result], UNCHANGED <<candidateVars, entry>>,
         \/ /\ faults' = faults /\ result \in {"none", "already", "terminal"}
            /\ caller[w].pc = "probe" => ~Committed(caller[w].token)
         \/ /\ faults' = faults /\ result = "reconciled" /\ caller[w].pc = "probe" /\ pc = "finalize"
         \/ faults' = faults /\ result = "not_committed" /\ ~Committed(caller[w].token) /\ caller[w].pc = "probe"
         \/ faults' = faults /\ result = "not_committed" /\ caller[w].pc = "reread" /\ caller[w].recovery
         \/ faults = 0 /\ faults' = 1
  PROVE  OneFaultInv'
<1>1. PICK t : t = caller[w].token
  OBVIOUS
<1>2. /\ t \in Tokens /\ Issued(t) /\ entry[t] \in EntryRow /\ caller[w] \in CallerRow
      /\ Null \notin Tokens /\ caller[w].result = "none" /\ caller \in [Callers -> CallerRow]
      /\ entry \in [Tokens -> EntryRow]
  BY <1>1, CandidateAssumption DEF ConfirmInv, RegistryTyped, CallersSound, Tokens
<1>3. PICK x : x = [caller[w] EXCEPT !.pc = pc, !.result = result]
  OBVIOUS
<1>4. caller' = [caller EXCEPT ![w] = x] /\ entry' = [entry EXCEPT ![t] = entry[t]]
  BY <1>2, <1>3
<1>5. /\ x.token = t /\ x.pc = pc /\ x.result = result /\ x.recovery = caller[w].recovery
  BY <1>1, <1>2, <1>3 DEF CallerRow
<1>6. faults = 0 => /\ ~caller[w].recovery /\ caller[w].pc # "probe"
                    /\ entry[t].state \notin {"recovery", "issued", "expired", "cancelled"}
  BY <1>1, <1>2 DEF OneFaultInv, NoFaultYet
<1>7. QuietCall(w, x, t, entry[t])
  BY <1>5, <1>6 DEF QuietCall
<1>8. Silent(t) => /\ faults = 1 /\ entry[t].state \in {"in_flight", "recovery", "invalidated"}
                   /\ caller[w].recovery => caller[w].pc = "probe"
                   /\ Committed(t)
  BY <1>1, <1>2 DEF OneFaultInv, CommitIsKnown, Lost, Silent
<1>9. KnownCall(w, x, t, entry[t])
  <2>1. Silent(t) => /\ result \notin {"not_committed", "unavailable"}
                     /\ caller[w].recovery => pc \in {"probe", "finalize"}
    BY <1>1, <1>8
  <2> QED
    BY <1>2, <1>5, <1>8, <2>1 DEF KnownCall
<1> QED
  BY <1>1, <1>2, <1>4, <1>5, <1>7, <1>9, OneFaultCall

\* A fault is the first one.
LEMMA FirstFault ==
  ASSUME MaxFaults <= 1, OneFaultInv, RegistryTyped, Fault
  PROVE  faults = 0 /\ faults' = 1
BY ConfirmationAssumption DEF OneFaultInv, RegistryTyped, Fault

LEMMA ProbeOne ==
  ASSUME MaxFaults <= 1, ConfirmInv, OneFaultInv, NEW w \in Callers, ProbeRecovery(w)
  PROVE  OneFaultInv'
<1>1. /\ caller[w].pc = "probe" /\ caller[w].result = "none" /\ UNCHANGED <<candidateVars, entry>>
      /\ caller \in [Callers -> CallerRow] /\ RegistryTyped
  BY DEF ProbeRecovery, ConfirmInv, CallersSound, RegistryTyped
<1>2. CASE Committed(caller[w].token) /\ Result(w, "reconciled") /\ UNCHANGED faults
  BY <1>1, <1>2, CallOnOne DEF Result
<1>3. CASE ~Committed(caller[w].token) /\ Result(w, "not_committed") /\ UNCHANGED faults
  BY <1>1, <1>3, CallOnOne DEF Result
<1>4. CASE ~Committed(caller[w].token) /\ caller' = [caller EXCEPT ![w].pc = "reread"] /\ UNCHANGED faults
  <2>1. caller' = [caller EXCEPT ![w].pc = "reread", ![w].result = "none"]
    <3>1. [caller[w] EXCEPT !.pc = "reread"] = [caller[w] EXCEPT !.pc = "reread", !.result = "none"]
      BY <1>1 DEF CallerRow
    <3> QED
      BY <1>1, <1>4, <3>1
  <2> QED
    BY <1>1, <1>4, <2>1, CallOnOne
<1>5. CASE Fault /\ Result(w, "unavailable")
  BY <1>1, <1>5, FirstFault, CallOnOne DEF Result
<1> QED
  BY <1>2, <1>3, <1>4, <1>5 DEF ProbeRecovery

LEMMA RereadOne ==
  ASSUME MaxFaults <= 1, ConfirmInv, OneFaultInv, NEW w \in Callers, RereadCandidate(w)
  PROVE  OneFaultInv'
<1>1. /\ caller[w].pc = "reread" /\ caller[w].result = "none" /\ UNCHANGED <<candidateVars, entry>>
      /\ caller \in [Callers -> CallerRow] /\ RegistryTyped
  BY DEF RereadCandidate, ConfirmInv, CallersSound, RegistryTyped
<1>2. CASE Result(w, "terminal") /\ UNCHANGED faults
  BY <1>1, <1>2, CallOnOne DEF Result
<1>3. CASE caller[w].recovery /\ Result(w, "not_committed") /\ UNCHANGED faults
  BY <1>1, <1>3, CallOnOne DEF Result
<1>4. CASE caller' = [caller EXCEPT ![w].pc = "write"] /\ UNCHANGED faults
  <2>1. caller' = [caller EXCEPT ![w].pc = "write", ![w].result = "none"]
    <3>1. [caller[w] EXCEPT !.pc = "write"] = [caller[w] EXCEPT !.pc = "write", !.result = "none"]
      BY <1>1 DEF CallerRow
    <3> QED
      BY <1>1, <1>4, <3>1
  <2> QED
    BY <1>1, <1>4, <2>1, CallOnOne
<1>5. CASE Fault /\ Result(w, "unavailable")
  BY <1>1, <1>5, FirstFault, CallOnOne DEF Result
<1> QED
  BY <1>2, <1>3, <1>4, <1>5 DEF RereadCandidate

\* The commit is told by w, or its answer is the first one that is lost.
LEMMA CommitOne ==
  ASSUME MaxFaults <= 1, ConfirmInv, OneFaultInv, NEW w \in Callers, caller[w].pc = "write",
         NEW t, t = caller[w].token, ConfirmCandidate(entry[t].candidate, entry[t].expected, t),
         NEW result, Result(w, result), UNCHANGED entry,
         \/ result = "confirmed" /\ faults' = faults
         \/ result = "panic" /\ Fault
  PROVE  OneFaultInv'
<1>1. /\ t \in Tokens /\ Issued(t) /\ RegistryTyped /\ caller[w] \in CallerRow
  BY DEF ConfirmInv, RegistryTyped, CallersSound
<1>2. PICK c \in Candidates : c = entry[t].candidate
  BY <1>1 DEF ConfirmInv, TokensSound
<1>3. /\ candidate'[c].status = "accepted" /\ candidate'[c].request = t
      /\ \A d \in Candidates \ {c} : candidate'[d] = candidate[d]
      /\ memory' = memory \cup {[candidate |-> c, request |-> t, content |-> candidate[c].content]}
  BY <1>1, <1>2, CommitTables DEF ConfirmInv
<1>4. PICK x : x = [caller[w] EXCEPT !.pc = "finalize", !.result = result]
  OBVIOUS
<1>5. caller' = [caller EXCEPT ![w] = x]
  BY <1>1, <1>4 DEF RegistryTyped, Result
<1>6. x.token = t /\ x.pc = "finalize" /\ x.result = result /\ x.recovery = caller[w].recovery
  BY <1>1, <1>4 DEF CallerRow
<1>7. caller'[w] = x /\ \A v \in Callers \ {w} : caller'[v] = caller[v]
  BY <1>5 DEF ConfirmInv, RegistryTyped
<1>8. \A s \in Tokens \ {t} : Issued(s) /\ Committed(s)' => Committed(s)
  <2>1. ASSUME NEW s \in Tokens \ {t}, Issued(s), Committed(s)'
        PROVE  Committed(s)
    <3>1. PICK d \in Candidates : d = entry[s].candidate
      BY <2>1 DEF ConfirmInv, TokensSound
    <3>2. d # c /\ candidate'[d] = candidate[d]
      BY <1>3, <2>1, <3>1 DEF Committed, Accepted
    <3>3. PICK r \in memory' : r.candidate = d /\ r.request = s
      BY <2>1, <3>1 DEF Committed
    <3>4. r \in memory
      BY <1>3, <2>1, <3>3
    <3> QED
      BY <2>1, <3>1, <3>2, <3>3, <3>4 DEF Committed, Accepted
  <2> QED
    BY <2>1
<1>9. /\ faults' <= 1
      /\ faults' # 0 => faults' = 1
      /\ (faults' = faults /\ result = "confirmed") \/ (faults = 0 /\ faults' = 1 /\ result = "panic")
  <2>1. CASE result = "confirmed" /\ faults' = faults
    BY <1>1, <2>1 DEF OneFaultInv, RegistryTyped
  <2>2. CASE result = "panic" /\ Fault
    BY <1>1, <2>2, FirstFault
  <2> QED
    BY <2>1, <2>2
<1>10. NoFaultYet'
  <2>1. SUFFICES ASSUME faults' = 0
                 PROVE  /\ \A s \in Tokens : entry'[s].state # "recovery"
                        /\ \A v \in Callers : caller'[v].token \in Tokens =>
                             /\ ~caller'[v].recovery /\ caller'[v].pc # "probe"
                             /\ caller'[v].result \in {"none", "confirmed", "already", "terminal"}
                             /\ entry'[caller'[v].token].state \notin {"issued", "expired", "cancelled"}
    BY DEF NoFaultYet
  <2>2. faults = 0 /\ result = "confirmed"
    BY <1>9, <2>1
  <2> QED
    BY <1>1, <1>6, <1>7, <2>2 DEF OneFaultInv, NoFaultYet
<1>11. ASSUME NEW s \in Tokens, s # t, Silent(s)'
       PROVE  Lost(s)'
  <2>1. \A v \in Callers : /\ caller'[v].token = s <=> caller[v].token = s
                           /\ caller[v].token = s => caller'[v] = caller[v]
    BY <1>6, <1>7, <1>11
  <2>2. Silent(s)
    BY <1>8, <1>11, <2>1 DEF Silent, Told, Issued
  <2>3. Lost(s)
    BY <2>2 DEF OneFaultInv, CommitIsKnown
  <2> QED
    BY <1>9, <2>1, <2>3 DEF Lost
<1>12. ASSUME Silent(t)'
       PROVE  Lost(t)'
  <2>1. result # "confirmed"
    BY <1>6, <1>7, <1>12 DEF Silent, Told
  <2>2. faults = 0 /\ faults' = 1 /\ result = "panic"
    BY <2>1, FirstFault, <1>1
  <2>3. /\ entry[t] \in EntryRow /\ entry[t].state \notin {"none", "refused", "consumed", "cancelled"}
        /\ entry[t].state \notin {"recovery", "issued", "expired", "cancelled"}
    BY <1>1, <1>12, <2>2 DEF Silent, Issued, OneFaultInv, NoFaultYet, RegistryTyped
  <2>4. entry[t].state \in {"in_flight", "invalidated"}
    BY <2>3 DEF EntryRow, States
  <2>5. ASSUME NEW v \in Callers, caller'[v].token = t
        PROVE  /\ caller'[v].result \notin {"not_committed", "unavailable"}
               /\ caller'[v].recovery => caller'[v].pc \in {"probe", "finalize"}
    <3>1. CASE v = w
      BY <1>6, <1>7, <2>2, <3>1
    <3>2. CASE v # w
      BY <1>1, <1>7, <2>2, <2>5, <3>2 DEF OneFaultInv, NoFaultYet
    <3> QED
      BY <3>1, <3>2
  <2> QED
    BY <2>2, <2>4, <2>5 DEF Lost
<1> QED
  BY <1>9, <1>10, <1>11, <1>12 DEF OneFaultInv, CommitIsKnown

LEMMA WriteOne ==
  ASSUME MaxFaults <= 1, ConfirmInv, OneFaultInv, NEW w \in Callers, WriteD4(w)
  PROVE  OneFaultInv'
<1>1. /\ caller[w].pc = "write" /\ UNCHANGED entry /\ RegistryTyped
  BY DEF WriteD4, ConfirmInv
<1>2. ASSUME NEW result, Result(w, result),
             ConfirmCandidate(entry[caller[w].token].candidate, entry[caller[w].token].expected, caller[w].token),
             (result = "confirmed" /\ UNCHANGED faults) \/ (result = "panic" /\ Fault)
      PROVE  OneFaultInv'
  BY <1>1, <1>2, CommitOne
<1>3. ASSUME NEW result, Result(w, result), UNCHANGED candidateVars,
             \/ result \in {"already", "terminal"} /\ UNCHANGED faults
             \/ result \in {"panic", "unavailable"} /\ Fault
      PROVE  OneFaultInv'
  BY <1>1, <1>3, FirstFault, CallOnOne DEF Result
<1> QED
  BY <1>2, <1>3 DEF WriteD4

\* How an attempt ends.
LEMMA SettledStates ==
  ASSUME RegistryTyped, NEW e \in EntryRow, NEW result, NEW recovery, NEW current \in BOOLEAN
  PROVE  LET s == Settled(e, result, recovery, current)
         IN  /\ result \in {"confirmed", "already"} =>
                  s.state = "consumed" \/ (~current /\ e.state \in {"consumed", "cancelled"} /\ s = e)
             /\ result = "reconciled" => s = e \/ s.state = "consumed"
             /\ result = "terminal" => s = e \/ s.state = "invalidated"
             /\ result = "panic" => s = e \/ s.state \in {"invalidated", "recovery"}
             /\ result = "none" => s = e
             /\ ~current => s = e \/ s.state = "consumed"
<1> DEFINE s == Settled(e, result, recovery, current)
<1>1. /\ Ended(e, "consumed").state = "consumed" /\ Ended(e, "invalidated").state = "invalidated"
      /\ EnterRecovery(e).state = "recovery"
      /\ [e EXCEPT !.state = "consumed", !.terminal = now].state = "consumed"
      /\ [e EXCEPT !.state = "recovery", !.lease = 0].state = "recovery"
  BY DEF Ended, EnterRecovery, EntryRow
<1>2. CASE current
  <2>1. result \in {"reconciled", "confirmed", "already"} => s = Ended(e, "consumed")
    BY <1>2 DEF Settled
  <2>2. result = "terminal" => s = Ended(e, "invalidated")
    BY <1>2 DEF Settled
  <2>3. result = "panic" => s \in {Ended(e, "invalidated"), EnterRecovery(e)}
    BY <1>2 DEF Settled
  <2>4. result = "none" => s = e
    BY <1>2 DEF Settled
  <2> QED
    BY <1>1, <1>2, <2>1, <2>2, <2>3, <2>4
<1>3. CASE ~current
  <2>1. result \in {"confirmed", "already"} =>
          s = IF e.state \in {"consumed", "cancelled"} THEN e ELSE [e EXCEPT !.state = "consumed", !.terminal = now]
    BY <1>3 DEF Settled
  <2>2. result \notin {"confirmed", "already"} => s = e
    BY <1>3 DEF Settled
  <2> QED
    BY <1>1, <1>3, <2>1, <2>2
<1> QED
  BY <1>2, <1>3

LEMMA FinalizeOne ==
  ASSUME ConfirmInv, OneFaultInv, NEW w \in Callers, Finalize(w)
  PROVE  OneFaultInv'
<1>1. PICK t, result : t = caller[w].token /\ result = caller[w].result
  OBVIOUS
<1>2. /\ t \in Tokens /\ Issued(t) /\ entry[t] \in EntryRow /\ caller[w] \in CallerRow
      /\ RegistryTyped /\ Null \notin Tokens /\ result \in Results /\ result # "none"
      /\ UNCHANGED <<candidateVars, faults>>
  BY <1>1, CandidateAssumption DEF Finalize, ConfirmInv, RegistryTyped, CallersSound, CallerRow, Tokens
<1>3. PICK current \in BOOLEAN : current = (entry[t].state = "in_flight" /\ entry[t].sequence = caller[w].sequence)
  OBVIOUS
<1>4. PICK e : e = Settled(entry[t], result, caller[w].recovery, current)
  OBVIOUS
<1>5. PICK x : x = IF caller[w].mint = Null THEN Idle
                   ELSE [Idle EXCEPT !.pc = "prepare", !.mint = caller[w].mint,
                                     !.at = caller[w].at, !.todo = caller[w].todo]
  OBVIOUS
<1>6. entry' = [entry EXCEPT ![t] = e] /\ caller' = [caller EXCEPT ![w] = x]
  BY <1>1, <1>3, <1>4, <1>5 DEF Finalize, ConfirmInv, RegistryTyped
<1>7. x.token = Null /\ x.result = "none"
  BY <1>5 DEF Idle
<1>8. current => entry[t].state = "in_flight"
  BY <1>3
<1>9. /\ result \in {"confirmed", "already"} =>
           e.state = "consumed" \/ (~current /\ entry[t].state \in {"consumed", "cancelled"} /\ e = entry[t])
      /\ result = "reconciled" => e = entry[t] \/ e.state = "consumed"
      /\ result = "terminal" => e = entry[t] \/ e.state = "invalidated"
      /\ result = "panic" => e = entry[t] \/ e.state \in {"invalidated", "recovery"}
      /\ ~current => e = entry[t] \/ e.state = "consumed"
  BY <1>2, <1>4, SettledStates
<1>10. e.candidate = entry[t].candidate
  <2>1. entry[t].state \notin {"none", "refused"}
    BY <1>2 DEF Issued
  <2> QED
    BY <1>2, <1>4, <1>8, <2>1, SettledSound
<1>11. faults = 0 => /\ result \in {"confirmed", "already", "terminal"}
                     /\ entry[t].state \notin {"issued", "expired", "cancelled", "recovery"}
  BY <1>1, <1>2 DEF OneFaultInv, NoFaultYet
<1>12. QuietCall(w, x, t, e)
  BY <1>2, <1>7, <1>9, <1>11 DEF QuietCall
<1>13. Silent(t) => /\ result \notin {"not_committed", "unavailable"}
                    /\ entry[t].state \in {"in_flight", "recovery", "invalidated"}
  BY <1>1, <1>2 DEF OneFaultInv, CommitIsKnown, Lost
<1>14. KnownCall(w, x, t, e)
  <2>1. result = "confirmed" => e.state \in {"consumed", "cancelled"}
    BY <1>9
  <2>2. entry[t].state \in {"consumed", "cancelled"} => e.state \in {"consumed", "cancelled"}
    BY <1>8, <1>9
  <2>3. Silent(t) => e.state \in {"consumed", "cancelled", "in_flight", "recovery", "invalidated"}
    BY <1>2, <1>9, <1>13 DEF Results, Successes
  <2> QED
    BY <1>1, <1>2, <1>7, <2>1, <2>2, <2>3 DEF KnownCall
<1> QED
  BY <1>1, <1>2, <1>6, <1>7, <1>10, <1>12, <1>14, OneFaultCall

LEMMA PrepareOne ==
  ASSUME ConfirmInv, OneFaultInv, NEW w \in Callers, NEW t \in Tokens, NEW c \in Candidates, BeginPrepare(w, t, c)
  PROVE  OneFaultInv'
<1>1. /\ caller[w].token = Null /\ entry[t].state = "none" /\ Null \notin Tokens
      /\ UNCHANGED <<candidateVars, faults>>
  BY CandidateAssumption DEF BeginPrepare, Idle, Blank, Tokens
<1>2. /\ \A v \in Callers \ {w} : caller'[v] = caller[v]
      /\ caller'[w].token = Null
      /\ \A s \in Tokens \ {t} : entry'[s] = entry[s]
      /\ entry'[t].state = "none"
  BY DEF BeginPrepare, ConfirmInv, RegistryTyped, Idle, Blank
<1>3. \A s \in Tokens : Issued(s)' /\ Committed(s)' => Issued(s) /\ Committed(s)
  BY <1>1, <1>2 DEF Issued, Committed, Accepted, candidateVars
<1> QED
  BY <1>1, <1>2, <1>3, OneFaultRest DEF Issued

LEMMA InsertOne ==
  ASSUME ConfirmInv, OneFaultInv, NEW w \in Callers, InsertEntry(w)
  PROVE  OneFaultInv'
<1>1. PICK t \in Tokens : t = caller[w].mint
  BY DEF InsertEntry, ConfirmInv, CallersSound
<1>2. /\ entry[t].state = "none" /\ caller[w].token = Null /\ Null \notin Tokens
      /\ UNCHANGED <<candidateVars, faults>> /\ caller' = [caller EXCEPT ![w] = Idle]
      /\ RegistryTyped
  BY <1>1, CandidateAssumption
     DEF InsertEntry, ConfirmInv, RegistryTyped, CallersSound, CallerRow, Tokens
<1>3. /\ \A v \in Callers \ {w} : caller'[v] = caller[v]
      /\ caller'[w].token = Null
  BY <1>2 DEF RegistryTyped, Idle
<1>4. ASSUME NEW s \in Tokens \ {t}
      PROVE  entry'[s] = entry[s] \/ (entry[s].state = "recovery" /\ entry'[s] = Ended(entry[s], "invalidated"))
  BY <1>1, <1>4 DEF InsertEntry, Due
<1>5. \A s \in Tokens \ {t} : entry'[s] = entry[s] \/
        (entry[s].state = "recovery" /\ entry'[s].state = "invalidated" /\ entry'[s].candidate = entry[s].candidate)
  <2>1. "invalidated" \in States
    BY DEF States
  <2>2. \A s \in Tokens : entry[s] \in EntryRow
    BY <1>2 DEF RegistryTyped
  <2> QED
    BY <1>2, <1>4, <2>1, <2>2, EntryKept
<1>6. entry'[t].state \in {"issued", "refused"} /\ \A r \in memory : r.request # t
  <2>1. \A r \in memory : r.request # t
    BY <1>2 DEF ConfirmInv, ShownSound, Issued
  <2>2. t \notin registered /\ entry[t] \in EntryRow
    BY <1>2 DEF ConfirmInv, TokensSound, Issued, RegistryTyped
  <2>3. \/ entry'[t] = [entry[t] EXCEPT !.state = "issued", !.expires = caller[w].at + Ttl]
        \/ entry'[t] = [Blank EXCEPT !.state = "refused"]
    BY <1>1, <2>2 DEF InsertEntry
  <2>4. entry'[t].state \in {"issued", "refused"}
    BY <2>2, <2>3 DEF EntryRow, Blank
  <2> QED
    BY <2>1, <2>4
<1>7. \A s \in Tokens : Issued(s)' /\ Committed(s)' => Issued(s) /\ Committed(s)
  BY <1>2, <1>5, <1>6 DEF Issued, Committed, Accepted, candidateVars
<1> QED
  BY <1>2, <1>3, <1>5, <1>6, <1>7, OneFaultRest DEF Issued

LEMMA CancelOne ==
  ASSUME ConfirmInv, OneFaultInv, NEW t \in Tokens, Cancel(t)
  PROVE  OneFaultInv'
<1>1. /\ entry[t].state = "issued" /\ entry[t] \in EntryRow /\ RegistryTyped /\ Issued(t)
      /\ UNCHANGED <<candidateVars, caller, faults>>
  BY DEF Cancel, ConfirmInv, RegistryTyped, Issued
<1>2. PICK e : e = IF now >= entry[t].expires THEN Aged(entry[t]) ELSE Ended(entry[t], "cancelled")
  OBVIOUS
<1>3. /\ entry'[t] = e /\ \A s \in Tokens \ {t} : entry'[s] = entry[s]
  BY <1>1, <1>2 DEF Cancel, RegistryTyped
<1>4. e.state \in {"expired", "cancelled"} /\ e.candidate = entry[t].candidate
  BY <1>1, <1>2 DEF Aged, Ended, EntryRow
<1>5. faults = 0 => \A v \in Callers : caller[v].token # t
  BY <1>1 DEF OneFaultInv, NoFaultYet
<1>6. ~Silent(t)
  BY <1>1 DEF OneFaultInv, CommitIsKnown, Lost
<1>7. \A s \in Tokens : (Committed(s)' <=> Committed(s)) /\ (Told(s)' <=> Told(s))
  BY <1>1, <1>3, <1>4 DEF Committed, Accepted, Told, candidateVars
<1>8. NoFaultYet'
  <2>1. SUFFICES ASSUME faults = 0
                 PROVE  /\ \A s \in Tokens : entry'[s].state # "recovery"
                        /\ \A v \in Callers : caller[v].token \in Tokens =>
                             /\ ~caller[v].recovery /\ caller[v].pc # "probe"
                             /\ caller[v].result \in {"none", "confirmed", "already", "terminal"}
                             /\ entry'[caller[v].token].state \notin {"issued", "expired", "cancelled"}
    BY <1>1 DEF NoFaultYet
  <2> QED
    BY <1>3, <1>4, <1>5, <2>1 DEF OneFaultInv, NoFaultYet
<1>9. ASSUME NEW s \in Tokens, Silent(s)'
      PROVE  Lost(s)'
  <2>1. s # t
    BY <1>1, <1>6, <1>7, <1>9 DEF Silent
  <2>2. Silent(s)
    BY <1>3, <1>7, <1>9, <2>1 DEF Silent, Issued
  <2>3. Lost(s)
    BY <2>2 DEF OneFaultInv, CommitIsKnown
  <2> QED
    BY <1>1, <1>3, <2>1, <2>3 DEF Lost
<1> QED
  BY <1>1, <1>8, <1>9 DEF OneFaultInv, CommitIsKnown

LEMMA RegistrySleeps ==
  ASSUME ConfirmInv, OneFaultInv, UNCHANGED <<entry, caller, faults>>,
         \/ UNCHANGED candidateVars
         \/ ReviewStep
  PROVE  OneFaultInv'
<1>1. \A s \in Tokens : Issued(s)' /\ Committed(s)' => Issued(s) /\ Committed(s)
  <2>1. CASE UNCHANGED candidateVars
    BY <2>1 DEF Issued, Committed, Accepted, candidateVars
  <2>2. CASE ReviewStep
    <3>1. memory' \subseteq memory /\ \A d \in Candidates : Follows(candidate[d], candidate'[d])
      BY <2>2, ReviewKeeps DEF ConfirmInv
    <3>2. \A d \in Candidates : candidate'[d].status = "accepted" => candidate'[d] = candidate[d]
      BY <3>1 DEF Follows
    <3>3. \A s \in Tokens : Issued(s) => entry[s].candidate \in Candidates
      BY DEF ConfirmInv, TokensSound
    <3> QED
      BY <3>1, <3>2, <3>3 DEF Issued, Committed, Accepted
  <2> QED
    BY <2>1, <2>2
<1> QED
  BY <1>1, OneFaultRest

LEMMA OneFaultStep ==
  ASSUME MaxFaults <= 1, ConfirmInv, OneFaultInv, [ConfirmNext]_allVars
  PROVE  OneFaultInv'
<1>1. ASSUME NEW w \in Callers, NEW t \in Tokens, NEW c \in Candidates, BeginPrepare(w, t, c)
      PROVE  OneFaultInv'
  BY <1>1, PrepareOne
<1>2. ASSUME NEW w \in Callers, NEW t \in Tokens, BeginAttempt(w, t)
      PROVE  OneFaultInv'
  BY <1>2, BeginAttemptOne
<1>3. ASSUME NEW w \in Callers, NEW t \in Tokens, ReconcileDue(w, t)
      PROVE  OneFaultInv'
  BY <1>3, ReconcileOne
<1>4. ASSUME NEW w \in Callers, InsertEntry(w)
      PROVE  OneFaultInv'
  BY <1>4, InsertOne
<1>5. ASSUME NEW w \in Callers, ProbeRecovery(w) \/ RereadCandidate(w)
      PROVE  OneFaultInv'
  BY <1>5, ProbeOne, RereadOne
<1>6. ASSUME NEW w \in Callers, WriteD4(w) \/ Finalize(w)
      PROVE  OneFaultInv'
  BY <1>6, WriteOne, FinalizeOne
<1>7. ASSUME NEW t \in Tokens, Cancel(t)
      PROVE  OneFaultInv'
  BY <1>7, CancelOne
<1>8. CASE Tick
  BY <1>8, RegistrySleeps DEF Tick
<1>9. CASE ReviewStep /\ UNCHANGED confirmVars
  BY <1>9, RegistrySleeps DEF confirmVars
<1>10. CASE UNCHANGED allVars
  BY <1>10, RegistrySleeps DEF allVars, confirmVars
<1> QED
  BY <1>1, <1>2, <1>3, <1>4, <1>5, <1>6, <1>7, <1>8, <1>9, <1>10 DEF ConfirmNext, CallStep

LEMMA OneFaultInit ==
  ASSUME ConfirmInit
  PROVE  OneFaultInv
<1>1. /\ entry = [t \in Tokens |-> Blank] /\ caller = [w \in Callers |-> Idle] /\ faults = 0
      /\ Blank.state = "none" /\ Idle.token = Null /\ Null \notin Tokens
  BY CandidateAssumption DEF ConfirmInit, Blank, Idle, Tokens
<1> QED
  BY <1>1 DEF OneFaultInv, NoFaultYet, CommitIsKnown, Silent, Issued

\* If at most one storage error or panic occurs, the registry and the database tell one
\* story for good: in particular no token is reported as expired whose D-4 committed,
\* although the one lost answer may be that of the commit.
THEOREM RegistryTellsTheTruth ==
  ASSUME MaxFaults <= 1
  PROVE  ConfirmSpec => []ConfirmSafe
<1>1. ConfirmInit => ConfirmInv /\ OneFaultInv
  BY ConfirmInitInv, OneFaultInit
<1>2. (ConfirmInv /\ OneFaultInv) /\ [ConfirmNext]_allVars => (ConfirmInv /\ OneFaultInv)'
  BY ConfirmStep, OneFaultStep
<1>3. OneFaultInv => ExpiredIsUncommitted
  <2> SUFFICES ASSUME OneFaultInv, NEW t \in Tokens, entry[t].state = "expired", ~Running(t), Committed(t)
               PROVE  FALSE
    BY DEF ExpiredIsUncommitted
  <2>1. Silent(t)
    BY DEF Silent, Issued, Told, Running
  <2> QED
    BY <2>1 DEF OneFaultInv, CommitIsKnown, Lost
<1>4. ConfirmSpec => []ExpiredIsUncommitted
  BY <1>1, <1>2, <1>3, PTL DEF ConfirmSpec
<1>5. ConfirmSafe <=>
        (ConfirmTypeOK /\ TablesAgree /\ ConfirmedAsShown /\ ConsumedIsCommitted
         /\ InFlightIsRegistered /\ WritesAreBudgeted) /\ ExpiredIsUncommitted
  BY DEF ConfirmSafe
<1> QED
  BY <1>4, <1>5, ApprovalIsHonoured, PTL

=============================================================================
