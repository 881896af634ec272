----------------------------- MODULE MCAccounts -----------------------------
(* An instance of Accounts for TLC: two browsers register one address, a   *)
(* registration is closed after one wrong code and a mail is sent twice at *)
(* most.                                                                   *)
EXTENDS Accounts, TLC

(* Neither the browsers nor the handlers are told apart by their names;    *)
(* sound because the run checks no liveness.                               *)
Symmetry == Permutations(Browsers) \cup Permutations(Handlers)
=============================================================================
