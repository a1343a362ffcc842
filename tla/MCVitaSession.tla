---------------------------- MODULE MCVitaSession ----------------------------
(* Model-checking instances of VitaSession: the .cfg files bound turns,    *)
(* calls, revisions and cancellations and choose which faults may happen.  *)
EXTENDS VitaSession
=============================================================================
