-------------------------- MODULE MCDailyChallenge --------------------------
(* Instances of DailyChallenge for TLC: two codes of one length that can   *)
(* be mistaken for each other and one of another length; a prize an ATM    *)
(* pays and one it does not.                                               *)
EXTENDS DailyChallenge, TLC

CONSTANTS c1, c2, c3

MCCodes  == {c1, c2, c3}
MCLength == (c1 :> 4) @@ (c2 :> 4) @@ (c3 :> 6)

(* Handlers are told apart by their requests only; sound for the runs that *)
(* check no liveness.                                                      *)
HandlerSymmetry == Permutations(Handlers)
=============================================================================
