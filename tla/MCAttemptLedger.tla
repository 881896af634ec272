-------------------------- MODULE MCAttemptLedger --------------------------
(* Instances of AttemptLedger for TLC.                                     *)
EXTENDS AttemptLedger, TLC

(* No handler is told from another by its name; sound because the run that *)
(* uses it checks no liveness.                                             *)
HandlerSymmetry == Permutations(Handlers)
=============================================================================
