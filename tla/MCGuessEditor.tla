--------------------------- MODULE MCGuessEditor ---------------------------
(* An instance of GuessEditor for TLC: challenges of one and of three      *)
(* slots, so that an index of the longer board leaves a hole in the        *)
(* shorter one.                                                            *)
EXTENDS GuessEditor

CONSTANT d1, x1

MCDigits == {d1}
MCOther  == {x1}
=============================================================================
