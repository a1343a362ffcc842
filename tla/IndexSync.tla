------------------------------ MODULE IndexSync ------------------------------
(***************************************************************************)
(* What the vector synchronisation promises, without outbox rows, leases,  *)
(* attempts or external calls: the index catches up with the memories one  *)
(* memory at a time, a memory that is not marked dirty is recorded at its  *)
(* desired revision, and a cut-over settles everything at once.            *)
(***************************************************************************)
EXTENDS Naturals

CONSTANT Memories

VARIABLES
    desired,    \* the revision the index should hold for each memory, 0 for none
    recorded,   \* the revision the index is known to hold
    dirty       \* memories whose latest mutation has not been settled

vars == <<desired, recorded, dirty>>

Init ==
    /\ desired = [m \in Memories |-> 0]
    /\ recorded = [m \in Memories |-> 0]
    /\ dirty = {}

\* A memory is confirmed, edited, hidden or deleted.
Mutate(m) ==
    /\ desired' \in [Memories -> Nat]
    /\ \A n \in Memories \ {m} : desired'[n] = desired[n]
    /\ dirty' = dirty \cup {m}
    /\ UNCHANGED recorded

\* The latest mutation of m is settled at the revision desired now, never at one
\* that was desired earlier.
Settle(m) ==
    /\ m \in dirty
    /\ recorded' = [recorded EXCEPT ![m] = desired[m]]
    /\ dirty' = dirty \ {m}
    /\ UNCHANGED desired

\* A rebuilt generation replaces the index.
Rebuild ==
    /\ recorded' = desired
    /\ dirty' = {}
    /\ UNCHANGED desired

Next == Rebuild \/ \E m \in Memories : Mutate(m) \/ Settle(m)

Spec == Init /\ [][Next]_vars

=============================================================================
