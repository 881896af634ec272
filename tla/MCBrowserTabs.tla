---------------------------- MODULE MCBrowserTabs ----------------------------
(* Instances of BrowserTabs for TLC: two tabs, a prize that an ATM does    *)
(* not pay in full, and texts that are too short, fit, are too long, or    *)
(* fit only because a character of two UTF-16 units is counted twice.      *)
EXTENDS BrowserTabs

MCTexts ==
    {[units |-> 1, runes |-> 1], [units |-> 2, runes |-> 2],
     [units |-> 4, runes |-> 4], [units |-> 2, runes |-> 1]}
=============================================================================
