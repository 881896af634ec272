----------------------------- MODULE MCGamePage -----------------------------
(* An instance of GamePage for TLC: an allowance of one, so that the count *)
(* passes through one, zero and below, and one more guess than that loses. *)
EXTENDS GamePage
=============================================================================
