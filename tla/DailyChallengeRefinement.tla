---------------------- MODULE DailyChallengeRefinement ----------------------
(***************************************************************************)
(* DailyChallenge implements PrizeAward, for every value of the constants: *)
(* the commit of a new challenge offers the prize, the commit of a right   *)
(* guess wins it, the commit of a claim pays it, and the mail to the admin *)
(* announces it.  Every other step leaves the award as it is.              *)
(***************************************************************************)
EXTENDS DailyChallengeProofs

Awards == [d \in Days |-> AwardOf(d)]

(* What the award of a day is made of.                                     *)
LEMMA AwardParts ==
    ASSUME NEW d \in Days
    PROVE  /\ Awards[d] = AwardOf(d)
           /\ Awards[d].offered = Exists(d)
           /\ Exists(d) => Awards[d].prize = row[d].prize
           /\ Exists(d) => Awards[d].winner = row[d].winner
           /\ ~Exists(d) => Awards[d].winner = Nobody
           /\ Awards[d].payout = payout[d]
  BY DEF Awards, AwardOf

(* The awards change only with the tables.                                 *)
LEMMA AwardsStay ==
    ASSUME UNCHANGED <<row, payout, told, alerts>>
    PROVE  UNCHANGED Prize!vars
  BY DEF Prize!vars, AwardOf, Exists

(* A day without a challenge has no payout.                                *)
LEMMA NoChallengeNoPayout ==
    ASSUME PayInv, NEW d \in Days, ~Exists(d)
    PROVE  payout[d] = NoPayout
  BY DEF PayInv, PaidOnlyToWinner, IsWonBy

-----------------------------------------------------------------------------
(* One lemma for each step of the award.                                   *)

LEMMA OfferStep ==
    ASSUME LockInv, PayInv, NEW d \in Days, ~Exists(d),
           NEW c \in Codes, NEW p \in Prizes,
           row' = [row EXCEPT ![d] = NewChallenge(c, p)],
           UNCHANGED <<payout, told, alerts>>
    PROVE  Prize!Offer(d)
  <1>1. payout[d] = NoPayout
    BY NoChallengeNoPayout
  <1>2. NewChallenge(c, p) \in Challenge
    BY DEF NewChallenge, Challenge
  <1>3. /\ row'[d] = NewChallenge(c, p) /\ row'[d] # NoRow
        /\ \A e \in Days \ {d} : row'[e] = row[e]
    BY <1>2, ChallengeAssumption DEF LockInv, TypeOK
  <1>4. AwardOf(d)' = Prize!Award(TRUE, p)
    <2>1. Exists(d)' = TRUE
      BY <1>3 DEF Exists
    <2>2. /\ row'[d].prize = p /\ row'[d].winner = Nobody
          /\ payout'[d] = NoPayout
      BY <1>1, <1>3 DEF NewChallenge
    <2> QED
      BY <2>1, <2>2, Zenon DEF AwardOf, Prize!Award
  <1>5. \A e \in Days \ {d} : AwardOf(e)' = AwardOf(e)
    BY <1>3 DEF AwardOf, Exists
  <1>6. Awards' = [Awards EXCEPT ![d] = Prize!Award(TRUE, p)]
    BY <1>4, <1>5 DEF Awards
  <1>7. ~Awards[d].offered
    BY AwardParts
  <1> QED
    BY <1>6, <1>7 DEF Prize!Offer, Awards

LEMMA WinStep ==
    ASSUME LockInv, NEW h \in Handlers, pc[h] = "commitWin",
           NEW d \in Days, NEW u \in Users, rowDay[h] = d, user[h] = u,
           row' = [row EXCEPT ![d] = WonBy(@, u)],
           told' \in {told, told \cup {<<u, d>>}},
           UNCHANGED <<payout, alerts>>
    PROVE  Prize!Win(d, u)
  <1>1. d \in Days /\ u \in Users
    OBVIOUS
  <1>2. /\ Exists(d) /\ row[d] \in Challenge /\ row[d].winner = Nobody
    BY <1>1 DEF LockInv, TypeOK, Held, WinnerSet, GuessTx, Winning, IsActive,
                Exists
  <1>3. /\ row'[d] = WonBy(row[d], u) /\ row'[d] \in Challenge
        /\ \A e \in Days \ {d} : row'[e] = row[e]
    BY <1>1, <1>2, WonByType DEF LockInv, TypeOK
  <1>4. /\ row'[d] # NoRow
        /\ row'[d].prize = row[d].prize /\ row'[d].winner = u
    <2>1. row'[d] # NoRow
      BY <1>3, ChallengeAssumption
    <2>2. WonBy(row[d], u).prize = row[d].prize /\ WonBy(row[d], u).winner = u
      BY <1>2 DEF WonBy, Challenge
    <2> QED
      BY <1>3, <2>1, <2>2
  <1>5. AwardOf(d)' = [AwardOf(d) EXCEPT !.winner = u]
    <2>1. PICK t : t = TRUE
      OBVIOUS
    <2>2. Exists(d)' = t /\ Exists(d) = t
      BY <2>1, <1>2, <1>4 DEF Exists
    <2>3. AwardOf(d)' = [offered |-> t, prize |-> row[d].prize,
                         winner |-> u, payout |-> payout[d]]
      BY <1>4, <2>1, <2>2, Zenon DEF AwardOf
    <2>4. AwardOf(d) = [offered |-> t, prize |-> row[d].prize,
                        winner |-> row[d].winner, payout |-> payout[d]]
      BY <2>1, <2>2, Zenon DEF AwardOf
    <2> QED
      BY <2>3, <2>4
  <1>6. \A e \in Days \ {d} : AwardOf(e)' = AwardOf(e)
    BY <1>3 DEF AwardOf, Exists
  <1>7. Awards' = [Awards EXCEPT ![d].winner = u]
    BY <1>1, <1>5, <1>6 DEF Awards
  <1>8. Awards[d].offered /\ Awards[d].winner = Nobody
    BY <1>1, <1>2, AwardParts
  <1> QED
    BY <1>7, <1>8 DEF Prize!Win, Awards

LEMMA PayStep ==
    ASSUME LockInv, PayInv, NEW h \in Handlers, pc[h] = "commitNew",
           NEW d \in Days, NEW u \in Users, rowDay[h] = d, user[h] = u,
           PutPayout(h), UNCHANGED <<row, told, alerts>>
    PROVE  Prize!Pay(d)
  <1>1. /\ d \in Days /\ u \in Users /\ IsWonBy(d, u)
        /\ payout[d] = NoPayout
    BY DEF LockInv, TypeOK, Held, ClaimTx, PayInv, NoneYet
  <1>2. Exists(d) /\ row[d].winner = u /\ u # Nobody
    BY <1>1, ChallengeAssumption DEF IsWonBy
  <1>3. /\ payout'[d] = [user |-> u, amount |-> row[d].prize]
        /\ \A e \in Days \ {d} : payout'[e] = payout[e]
    BY <1>1 DEF PutPayout, LockInv, TypeOK
  <1>4. AwardOf(d)' = [AwardOf(d) EXCEPT !.payout =
                          [user |-> u, amount |-> row[d].prize]]
    <2>1. PICK t : t = TRUE
      OBVIOUS
    <2>2. Exists(d)' = t /\ Exists(d) = t
      BY <2>1, <1>2 DEF Exists
    <2>3. AwardOf(d)' = [offered |-> t, prize |-> row[d].prize,
                         winner |-> row[d].winner, payout |-> payout'[d]]
      BY <2>1, <2>2, Zenon DEF AwardOf
    <2>4. AwardOf(d) = [offered |-> t, prize |-> row[d].prize,
                        winner |-> row[d].winner, payout |-> payout[d]]
      BY <2>1, <2>2, Zenon DEF AwardOf
    <2> QED
      BY <1>3, <2>3, <2>4
  <1>5. \A e \in Days \ {d} : AwardOf(e)' = AwardOf(e)
    BY <1>3 DEF AwardOf, Exists
  <1>6. Awards' = [Awards EXCEPT ![d].payout =
                      [user |-> u, amount |-> row[d].prize]]
    BY <1>1, <1>4, <1>5 DEF Awards
  <1>7. /\ Awards[d].winner = u /\ Awards[d].prize = row[d].prize
        /\ Awards[d].payout = NoPayout
    BY <1>1, <1>2, AwardParts
  <1> QED
    BY <1>2, <1>6, <1>7 DEF Prize!Pay, Awards

LEMMA AlertStep ==
    ASSUME LockInv, PayInv, NEW h \in Handlers, pc[h] = "alert",
           NEW d \in Days, rowDay[h] = d,
           alerts' = [alerts EXCEPT ![d] = @ + 1],
           UNCHANGED <<row, payout, told>>
    PROVE  Prize!Alert(d)
  <1>1. d \in Days /\ payout[d] # NoPayout /\ alerts[d] = 0
    BY DEF LockInv, TypeOK, PayInv, Alerting
  <1>2. alerts' = [alerts EXCEPT ![d] = 1]
    BY <1>1 DEF LockInv, TypeOK
  <1>3. Awards' = Awards
    BY DEF Awards, AwardOf, Exists
  <1>4. Awards[d].payout # NoPayout
    BY <1>1, AwardParts
  <1> QED
    BY <1>1, <1>2, <1>3, <1>4 DEF Prize!Alert, Awards

-----------------------------------------------------------------------------
(* Every step of the handlers is a step of the award, or none.             *)
LEMMA AwardNext ==
    LockInv /\ PayInv /\ [Next]_vars => [Prize!Next]_(Prize!vars)
  <1> SUFFICES ASSUME LockInv, PayInv, [Next]_vars
               PROVE  [Prize!Next]_(Prize!vars)
    OBVIOUS
  <1>0. \A h \in Handlers : /\ \E d \in Days : rowDay[h] = d
                             /\ \E u \in Users : user[h] = u
    BY DEF LockInv, TypeOK
  <1>1. ASSUME NEW h \in Handlers, Create(h)
        PROVE  [Prize!Next]_(Prize!vars)
    <2>1. UNCHANGED <<payout, told, alerts>>
      BY <1>1 DEF Create, effects
    <2>2. CASE UNCHANGED row
      BY <2>1, <2>2, AwardsStay
    <2>3. CASE ~Exists(rowDay[h]) /\ ~UNCHANGED row
      <3>1. PICK c \in Codes, p \in Prizes :
                row' = [row EXCEPT ![rowDay[h]] = NewChallenge(c, p)]
        BY <1>1, <2>3 DEF Create
      <3> QED
        BY <1>0, <2>1, <2>3, <3>1, OfferStep DEF Prize!Next
    <2> QED
      BY <1>1, <2>2, <2>3 DEF Create
  <1>2. ASSUME NEW h \in Handlers, CommitWin(h)
        PROVE  [Prize!Next]_(Prize!vars)
    BY <1>0, <1>2, WinStep DEF CommitWin, effects, Prize!Next
  <1>3. ASSUME NEW h \in Handlers, CommitNew(h)
        PROVE  [Prize!Next]_(Prize!vars)
    BY <1>0, <1>3, PayStep DEF CommitNew, effects, Prize!Next
  <1>4. ASSUME NEW h \in Handlers, CommitReplyLost(h)
        PROVE  [Prize!Next]_(Prize!vars)
    <2>1. CASE pc[h] = "commitWin"
      BY <1>0, <1>4, <2>1, WinStep DEF CommitReplyLost, effects, Prize!Next
    <2>2. CASE pc[h] = "commitNew"
      BY <1>0, <1>4, <2>2, PayStep DEF CommitReplyLost, effects, Prize!Next
    <2> QED
      BY <1>4, <2>1, <2>2 DEF CommitReplyLost
  <1>5. ASSUME NEW h \in Handlers, Alert(h)
        PROVE  [Prize!Next]_(Prize!vars)
    <2>1. CASE UNCHANGED alerts
      BY <1>5, <2>1, AwardsStay DEF Alert
    <2>2. CASE alerts' = [alerts EXCEPT ![rowDay[h]] = @ + 1]
      BY <1>0, <1>5, <2>2, AlertStep DEF Alert, Prize!Next
    <2> QED
      BY <1>5, <2>1, <2>2 DEF Alert
  <1>6. ASSUME NEW h \in Handlers,
               \/ ReceiveDaily(h) \/ ReceiveGuess(h) \/ ReceiveClaim(h)
               \/ Lock(h) \/ Find(h) \/ ReadDate(h) \/ Charge(h) \/ Verify(h)
               \/ Record(h) \/ Publish(h) \/ CommitMiss(h) \/ FindPayout(h)
               \/ InsertPayout(h) \/ CommitOld(h) \/ Abort(h)
        PROVE  UNCHANGED <<row, payout, told, alerts>>
    BY <1>6 DEF ReceiveDaily, ReceiveGuess, ReceiveClaim, Receive, Lock,
                LockActive, LockClaim, Find, ReadDate, Charge, Verify, Record,
                Publish, CommitMiss, FindPayout, InsertPayout, CommitOld,
                Abort, effects
  <1>7. NextDay \/ UNCHANGED vars => UNCHANGED <<row, payout, told, alerts>>
    BY DEF NextDay, vars, effects
  <1> QED
    BY <1>1, <1>2, <1>3, <1>4, <1>5, <1>6, <1>7, AwardsStay DEF Next, Step

(* The handlers implement the award of one prize a day.                    *)
THEOREM PrizeAwardImplemented == Spec => ImplementsPrizeAward
  <1>1. Init => Prize!Init
    BY DEF Init, Prize!Init, Prize!Award, AwardOf, Exists
  <1> QED
    BY <1>1, AwardNext, LockInvAlways, PayInvAlways, PTL
       DEF Spec, ImplementsPrizeAward, Prize!Spec

-----------------------------------------------------------------------------
(* What the award keeps, the handlers keep.                                *)

Kept ==
    /\ told \subseteq told'
    /\ \A d \in Days : /\ payout[d] # NoPayout => payout'[d] = payout[d]
                       /\ alerts[d] # 0 => alerts'[d] = alerts[d]

LEMMA AwardKept ==
    ASSUME PayInv, LockInv, [Prize!Next]_(Prize!vars)
    PROVE  Kept
  <1> USE DEF Kept
  <1>0. /\ \A d \in Days : Awards[d].payout = payout[d]
        /\ \A d \in Days : Awards'[d].payout = payout'[d]
    BY DEF Awards, AwardOf
  <1>1. ASSUME NEW d \in Days, Prize!Offer(d) PROVE Kept
    <2>1. payout[d] = NoPayout
      <3>1. ~Awards[d].offered
        BY <1>1 DEF Prize!Offer, Awards
      <3> QED
        BY <3>1, AwardParts, NoChallengeNoPayout
    <2>2. \A e \in Days \ {d} : Awards'[e] = Awards[e]
      BY <1>1 DEF Prize!Offer, Awards
    <2> QED
      BY <1>0, <1>1, <2>1, <2>2 DEF Prize!Offer
  <1>2. ASSUME NEW d \in Days, NEW u \in Users, Prize!Win(d, u) PROVE Kept
    <2>1. Awards' = [Awards EXCEPT ![d].winner = u]
      BY <1>2 DEF Prize!Win, Awards
    <2>2. /\ \A e \in Days \ {d} : Awards'[e] = Awards[e]
          /\ Awards'[d] = [AwardOf(d) EXCEPT !.winner = u]
      BY <2>1 DEF Awards
    <2>3. [AwardOf(d) EXCEPT !.winner = u].payout = payout[d]
      BY DEF AwardOf
    <2>4. \A e \in Days : payout'[e] = payout[e]
      BY <1>0, <2>2, <2>3
    <2> QED
      BY <1>2, <2>4 DEF Prize!Win
  <1>3. ASSUME NEW d \in Days, Prize!Pay(d) PROVE Kept
    <2>1. payout[d] = NoPayout
      BY <1>0, <1>3 DEF Prize!Pay, Awards
    <2>2. \A e \in Days \ {d} : Awards'[e] = Awards[e]
      BY <1>3 DEF Prize!Pay, Awards
    <2> QED
      BY <1>0, <1>3, <2>1, <2>2 DEF Prize!Pay
  <1>4. ASSUME NEW d \in Days, Prize!Alert(d) PROVE Kept
    <2>1. Awards' = Awards /\ UNCHANGED told
      BY <1>4 DEF Prize!Alert, Awards
    <2>2. \A e \in Days : payout'[e] = payout[e]
      BY <1>0, <2>1
    <2>3. \A e \in Days : alerts[e] # 0 => alerts'[e] = alerts[e]
      BY <1>4 DEF Prize!Alert, LockInv, TypeOK
    <2> QED
      BY <2>1, <2>2, <2>3
  <1>5. ASSUME UNCHANGED Prize!vars PROVE Kept
    <2>1. Awards' = Awards /\ UNCHANGED <<told, alerts>>
      BY <1>5 DEF Prize!vars, Awards
    <2> QED
      BY <1>0, <2>1
  <1> HIDE DEF Kept
  <1> QED
    BY <1>1, <1>2, <1>3, <1>4, <1>5 DEF Prize!Next

(* What a player or the admin was told, and a payout that was committed,   *)
(* are never taken back or replaced, by a repeated claim, a lost commit or *)
(* a later day: read off the award, which the handlers implement.          *)
THEOREM AwardedForGood == Spec => [][Kept]_vars
  <1>1. LockInv /\ PayInv /\ [Next]_vars => [Kept]_vars
    BY AwardNext, AwardKept
  <1> QED
    BY <1>1, LockInvAlways, PayInvAlways, PTL DEF Spec
=============================================================================
