---------------------------- MODULE MCVectorSync ----------------------------
(***************************************************************************)
(* Instances of VectorSync for TLC.                                        *)
(***************************************************************************)
EXTENDS VectorSync

CONSTANTS m1, w1, w2, o1, o2

OneMemory == {m1}
OneWorker == {w1}
TwoWorkers == {w1, w2}
OneOwner == {o1}
TwoOwners == {o1, o2}

SharedOwner == [w \in {w1, w2} |-> o1]
OwnOwner == [w \in {w1, w2} |-> IF w = w1 THEN o1 ELSE o2]
SingleOwner == [w \in {w1} |-> o1]

=============================================================================
