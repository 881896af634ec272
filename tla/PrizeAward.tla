----------------------------- MODULE PrizeAward -----------------------------
(***************************************************************************)
(* What the daily challenge promises about a day's prize, without requests,*)
(* transactions, locks or faults: the prize is offered once, won by one    *)
(* player, who may be told so only at that moment, paid out once and in    *)
(* full to that player, and announced to the admin once, after that.       *)
(* DailyChallenge implements it.                                           *)
(***************************************************************************)
EXTENDS Naturals

CONSTANTS Users, Prizes, Days,
          Nobody,   \* the winner before there is one
          NotPaid   \* the payout before there is one

VARIABLES award,    \* award[d]: the prize of day d, its winner and payout
          told,     \* <<user, day>> of players who were told they have won
          alerts    \* alerts[d]: messages to the admin about day d

vars == <<award, told, alerts>>

Award(offered, prize) ==
    [offered |-> offered, prize |-> prize, winner |-> Nobody,
     payout |-> NotPaid]

Init ==
    /\ award = [d \in Days |-> Award(FALSE, 0)]
    /\ told = {}
    /\ alerts = [d \in Days |-> 0]

Offer(d) ==
    /\ ~award[d].offered
    /\ \E p \in Prizes : award' = [award EXCEPT ![d] = Award(TRUE, p)]
    /\ UNCHANGED <<told, alerts>>

Win(d, u) ==
    /\ award[d].offered /\ award[d].winner = Nobody
    /\ award' = [award EXCEPT ![d].winner = u]
    /\ told' \in {told, told \cup {<<u, d>>}}
    /\ UNCHANGED alerts

Pay(d) ==
    /\ award[d].winner # Nobody /\ award[d].payout = NotPaid
    /\ award' = [award EXCEPT ![d].payout =
                    [user |-> award[d].winner, amount |-> award[d].prize]]
    /\ UNCHANGED <<told, alerts>>

Alert(d) ==
    /\ award[d].payout # NotPaid
    /\ alerts[d] = 0 /\ alerts' = [alerts EXCEPT ![d] = 1]
    /\ UNCHANGED <<award, told>>

Next ==
    \E d \in Days :
        Offer(d) \/ Pay(d) \/ Alert(d) \/ \E u \in Users : Win(d, u)

Spec == Init /\ [][Next]_vars
=============================================================================
