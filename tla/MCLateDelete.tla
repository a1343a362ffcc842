---------------------------- MODULE MCLateDelete ----------------------------
(***************************************************************************)
(* Instances of LateDelete for TLC.                                        *)
(***************************************************************************)
EXTENDS LateDelete, TLC

CONSTANTS m1, w1, o1, x1, x2

OneMemory == {m1}
OneWorker == {w1}
OneOwner == {o1}
SingleOwner == [w \in {w1} |-> o1]
OneResolver == {x1}
TwoResolvers == {x1, x2}
ResolverSymmetry == Permutations({x1, x2})

\* The history of the drains' calls is read by no action and no property here.
WithoutCalls == <<memory, clock, outbox, resolution, lease, active, item, store, now, worker,
                  rlease, resolver, probes>>

=============================================================================
