----------------------------- MODULE LifeIntent -----------------------------
(***************************************************************************)
(* The goals, plans, steps and actions of one Life (storage/life_intent.rs)*)
(* with their ledger of transition events.  Every operation is one         *)
(* immediate transaction.  A caller names the event of the transition it   *)
(* asks for and the revision it has seen; its answer may be lost, and it   *)
(* then asks again in the same words, after other callers have moved,      *)
(* deleted or created entities.                                            *)
(***************************************************************************)
EXTENDS Naturals, FiniteSets

CONSTANTS
  Entities,     \* identities of goals, plans, steps and actions
  KindOf,       \* identity |-> "goal", "plan", "step" or "action"
  Details,     \* what a creation request says besides identity and parent
  Events,       \* event identities callers use
  Callers,
  NoEntity,     \* the parent of a goal
  Reused,       \* whether the identity of a deleted entity is used again
  MaxLosses     \* bound on lost answers

Kinds == {"goal", "plan", "step", "action"}

ASSUME LifeIntentAssumption ==
  /\ KindOf \in [Entities -> Kinds]
  /\ NoEntity \notin Entities
  /\ Reused \in BOOLEAN /\ MaxLosses \in Nat

VARIABLES
  row,      \* entity |-> its row
  event,    \* event |-> its row in life_intent_event
  asked,    \* caller |-> the transition it is asking for
  used,     \* entities that have been created once
  losses,
  applied,  \* history: the requests that were applied
  said      \* history: what callers were told, and what was true

lifeIntentVars == <<row, event, asked, used, losses, applied, said>>

NoEntityRow == [parent |-> NoEntity, content |-> NoEntity, status |-> "none", revision |-> 0]
NoEvent == [entity |-> NoEntity, from |-> "none", to |-> "none", expected |-> 0]
NoRequest == [event |-> NoEntity, entity |-> NoEntity, to |-> "none", expected |-> 0]

LifeIntentInit ==
  /\ row = [x \in Entities |-> NoEntityRow]
  /\ event = [e \in Events |-> NoEvent]
  /\ asked = [c \in Callers |-> NoRequest]
  /\ used = {}
  /\ losses = 0
  /\ applied = {}
  /\ said = {}

Exists(x) == x \in Entities /\ row[x] # NoEntityRow

(* The kind an entity hangs under, its first status and its transitions.   *)
ParentKind == [plan |-> "goal", step |-> "plan", action |-> "step"]

Statuses == [goal   |-> {"active", "completed", "cancelled"},
             plan   |-> {"draft", "active", "completed", "cancelled"},
             step   |-> {"pending", "completed", "skipped", "cancelled"},
             action |-> {"proposed", "dismissed"}]

FirstStatus == [goal |-> "active", plan |-> "draft", step |-> "pending",
                action |-> "proposed"]

Allowed ==
  [goal   |-> {<<"active", "completed">>, <<"active", "cancelled">>},
   plan   |-> {<<"draft", "active">>, <<"active", "completed">>,
               <<"draft", "cancelled">>, <<"active", "cancelled">>},
   step   |-> {<<"pending", s>> : s \in {"completed", "skipped", "cancelled"}},
   action |-> {<<"proposed", "dismissed">>}]

(* target_status of the kind of x.                                         *)
MayMove(x, to) == <<row[x].status, to>> \in Allowed[KindOf[x]]

Targets(k) == {t[2] : t \in Allowed[k]}

(* Creation by identity: a request for an existing identity is a replay  *)
(* or a conflict and changes nothing; a parent must exist.  A step's       *)
(* content is its place in the plan, which another step may hold.          *)
ParentOk(x, p) ==
  IF KindOf[x] = "goal" THEN p = NoEntity
  ELSE Exists(p) /\ KindOf[p] = ParentKind[KindOf[x]]

PlaceFree(p, d) ==
  \A y \in Entities : KindOf[y] = "step" /\ row[y].parent = p => row[y].content # d

Create(x, p, d) ==
  /\ ~Exists(x)
  /\ Reused \/ x \notin used
  /\ ParentOk(x, p)
  /\ row' = [row EXCEPT ![x] = [parent |-> p, content |-> d,
                                status |-> FirstStatus[KindOf[x]], revision |-> 1]]
  /\ used' = used \cup {x}
  /\ UNCHANGED <<event, asked, losses, applied, said>>

CreateGoal(x, d) == KindOf[x] = "goal" /\ Create(x, NoEntity, d)

CreatePlan(x, p, d) == KindOf[x] = "plan" /\ Create(x, p, d)

CreateStep(x, p, d) == KindOf[x] = "step" /\ PlaceFree(p, d) /\ Create(x, p, d)

CreateAction(x, p, d) == KindOf[x] = "action" /\ Create(x, p, d)

(* A caller reads an entity and makes up a request for it.                 *)
AskTransition(c, e, x, to) ==
  /\ asked[c] = NoRequest /\ Exists(x)
  /\ to \in Targets(KindOf[x])
  /\ asked' = [asked EXCEPT ![c] =
       [event |-> e, entity |-> x, to |-> to, expected |-> row[x].revision]]
  /\ UNCHANGED <<row, event, used, losses, applied, said>>

(* What transition_*_in_transaction finds, in the order it looks: the      *)
(* event of the request, then the entity, its revision and its status.     *)
Recorded(q) == event[q.event] # NoEvent

Refused(q) ==
  \/ Recorded(q)
  \/ ~Exists(q.entity)
  \/ row[q.entity].revision # q.expected
  \/ ~MayMove(q.entity, q.to)

(* The answer yes is Applied or, where the event of the request is found   *)
(* with the same evidence, Replayed.                                       *)
Yes(q) ==
  \/ ~Refused(q)
  \/ /\ Recorded(q)
     /\ event[q.event].entity = q.entity /\ event[q.event].to = q.to
     /\ event[q.event].expected = q.expected

(* The answer reaches the caller, or it is lost and the caller asks again. *)
Answered(c) ==
  \/ /\ asked' = [asked EXCEPT ![c] = NoRequest]
     /\ said' = said \cup {[yes |-> Yes(asked[c]), done |-> asked[c] \in applied',
                            gone |-> ~Exists(asked[c].entity)]}
     /\ UNCHANGED losses
  \/ /\ losses < MaxLosses
     /\ losses' = losses + 1
     /\ UNCHANGED <<asked, said>>

(* Mutant: a request that was applied is not recorded.                     *)
RecordNothing(q) == event' = event

Record(q) ==
  event' = [event EXCEPT ![q.event] =
    [entity |-> q.entity, from |-> row[q.entity].status, to |-> q.to, expected |-> q.expected]]

Transition(c) ==
  LET q == asked[c]
  IN  /\ \/ /\ Refused(q)
            /\ UNCHANGED <<row, event, applied>>
         \/ /\ ~Refused(q)
            /\ row' = [row EXCEPT ![q.entity].status = q.to,
                                  ![q.entity].revision = q.expected + 1]
            /\ Record(q)
            /\ applied' = applied \cup {q}
      /\ Answered(c)
      /\ UNCHANGED used

Asking(c, k) == asked[c] # NoRequest /\ KindOf[asked[c].entity] = k

TransitionGoal(c) == Asking(c, "goal") /\ Transition(c)

TransitionPlan(c) == Asking(c, "plan") /\ Transition(c)

TransitionStep(c) == Asking(c, "step") /\ Transition(c)

TransitionAction(c) == Asking(c, "action") /\ Transition(c)

(* ON DELETE CASCADE: the entities below x, and the events of all of them. *)
Below(x) ==
  LET children(S) == S \cup {y \in Entities : Exists(y) /\ row[y].parent \in S}
  IN  children(children(children({x})))

Cascade(gone) == event' = [e \in Events |-> IF event[e].entity \in gone THEN NoEvent ELSE event[e]]

Delete(x) ==
  /\ Exists(x)
  /\ row' = [y \in Entities |-> IF y \in Below(x) THEN NoEntityRow ELSE row[y]]
  /\ Cascade(Below(x))
  /\ UNCHANGED <<asked, used, losses, applied, said>>

DeleteGoal(x) == KindOf[x] = "goal" /\ Delete(x)

DeletePlan(x) == KindOf[x] = "plan" /\ Delete(x)

DeleteStep(x) == KindOf[x] = "step" /\ Delete(x)

DeleteAction(x) == KindOf[x] = "action" /\ Delete(x)

LifeIntentNext ==
  \/ \E x \in Entities, d \in Details :
       \/ CreateGoal(x, d)
       \/ \E p \in Entities : CreatePlan(x, p, d) \/ CreateStep(x, p, d) \/ CreateAction(x, p, d)
  \/ \E x \in Entities : DeleteGoal(x) \/ DeletePlan(x) \/ DeleteStep(x) \/ DeleteAction(x)
  \/ \E c \in Callers :
       \/ TransitionGoal(c) \/ TransitionPlan(c) \/ TransitionStep(c) \/ TransitionAction(c)
       \/ \E e \in Events, x \in Entities : \E to \in Targets(KindOf[x]) : AskTransition(c, e, x, to)

LifeIntentSpec == LifeIntentInit /\ [][LifeIntentNext]_lifeIntentVars

----------------------------------------------------------------------------
(* Properties.                                                             *)

AnyStatus == {"none"} \cup UNION {Statuses[k] : k \in Kinds}

LifeIntentTypeOK ==
  /\ \A x \in Entities :
       /\ row[x].parent \in Entities \cup {NoEntity}
       /\ row[x].content \in Details \cup {NoEntity}
       /\ row[x].revision \in Nat
       /\ Exists(x) => row[x].status \in Statuses[KindOf[x]]
  /\ event \in [Events -> [entity : Entities \cup {NoEntity}, from : AnyStatus, to : AnyStatus,
                           expected : Nat]]
  /\ used \subseteq Entities /\ losses \in 0 .. MaxLosses
  /\ \A q \in applied : q.event \in Events /\ q.entity \in Entities

EventsOf(x) == {e \in Events : event[e].entity = x}

(* The ledger explains every entity: its events carry the revisions        *)
(* 1 .. n - 1 once each, each starts from the status the one before led    *)
(* to, the first from the status of a creation, and the last led to the    *)
(* status the entity has (transition_*_in_transaction, build_event).       *)
LedgerExplainsRow ==
  \A x \in Entities : Exists(x) =>
    /\ Cardinality(EventsOf(x)) = row[x].revision - 1
    /\ \A n \in 1 .. row[x].revision - 1 : \E e \in EventsOf(x) :
         /\ event[e].expected = n
         /\ n = 1 => event[e].from = FirstStatus[KindOf[x]]
         /\ n > 1 => \E f \in EventsOf(x) : event[f].expected = n - 1 /\ event[f].to = event[e].from
         /\ n = row[x].revision - 1 => event[e].to = row[x].status

(* However often a request is repeated and whatever other callers do in    *)
(* between, a caller told yes (Applied or Replayed) has its transition, and*)
(* one told no has not, or the entity has been deleted since.              *)
AnswersAreTrue == \A a \in said : IF a.yes THEN a.done ELSE a.done => a.gone

(* Nothing outlives what it hangs on: parents exist and have the right     *)
(* kind, and an event's entity exists (ON DELETE CASCADE).                 *)
NoOrphans ==
  /\ \A x \in Entities : Exists(x) => ParentOk(x, row[x].parent)
  /\ \A e \in Events : event[e] # NoEvent => Exists(event[e].entity)

(* An entity that is closed stays as it is until it is deleted.            *)
ClosedStaysClosed ==
  [][\A x \in Entities : Exists(x) /\ {t \in Allowed[KindOf[x]] : t[1] = row[x].status} = {} =>
       row'[x] \in {row[x], NoEntityRow}]_lifeIntentVars

(* Rows, ledger and answers agree under concurrent and repeated requests.  *)
LifeIntentSafe ==
  LifeIntentTypeOK /\ LedgerExplainsRow /\ AnswersAreTrue /\ NoOrphans
=============================================================================
