------------------------ MODULE DailyChallengeProofs ------------------------
(***************************************************************************)
(* The safety properties of DailyChallenge for every number of users,      *)
(* handlers and days, every code and prize, and every value of the bounds. *)
(***************************************************************************)
EXTENDS DailyChallenge, TLAPS

LEMMA SomeAreThere == SomeUser \in Users /\ SomeCode \in Codes
  BY ChallengeAssumption DEF SomeUser, SomeCode

(* Every variable keeps its type.                                          *)
LEMMA TypeInit == Init => TypeOK
  BY SomeAreThere, ChallengeAssumption DEF Init, TypeOK, PC, Days

(* Going on and answering keep the types of what they write.               *)
LEMMA GoToType ==
    ASSUME TypeOK, NEW h \in Handlers, NEW l \in PC, GoTo(h, l)
    PROVE  /\ pc' \in [Handlers -> PC]
           /\ user' \in [Handlers -> Users]
           /\ guess' \in [Handlers -> Codes]
           /\ strDay' \in [Handlers -> Days]
           /\ rowDay' \in [Handlers -> Days]
  BY DEF TypeOK, GoTo, request

LEMMA AnswerType ==
    ASSUME TypeOK, NEW h \in Handlers, Answer(h)
    PROVE  /\ pc' \in [Handlers -> PC]
           /\ user' \in [Handlers -> Users]
           /\ guess' \in [Handlers -> Codes]
           /\ strDay' \in [Handlers -> Days]
           /\ rowDay' \in [Handlers -> Days]
  <1>1. 0 \in Days /\ "idle" \in PC
    BY ChallengeAssumption DEF Days, PC
  <1> QED
    BY <1>1, SomeAreThere DEF TypeOK, Answer

LEMMA WonByType ==
    ASSUME NEW c \in Challenge, NEW u \in Users
    PROVE  WonBy(c, u) \in Challenge
  BY DEF WonBy, Challenge

-----------------------------------------------------------------------------
(* The row lock.  TypeOK is not inductive alone: that a commit writes a    *)
(* challenge, and not an update of a missing row, follows from what a      *)
(* handler that holds its row's lock knows of the row.                     *)

GuessTx == Winning \cup {"verify", "commitMiss"}
ClaimTx == {"findPayout", "insertPayout", "commitNew", "commitOld"}

(* One handler at most holds the lock of a row.                            *)
Exclusive ==
    \A g, h \in Handlers :
        pc[g] \in InTx /\ pc[h] \in InTx /\ rowDay[g] = rowDay[h] => g = h

(* A challenge has a winner exactly when it is not active.                 *)
WinnerSet ==
    \A d \in Days : Exists(d) => (row[d].active <=> row[d].winner = Nobody)

(* The row a guess holds is active, and the one a claim holds is won by    *)
(* the claimant, until the transaction ends.                               *)
Held ==
    \A h \in Handlers :
        /\ pc[h] \in GuessTx => IsActive(rowDay[h])
        /\ pc[h] \in ClaimTx => IsWonBy(rowDay[h], user[h])

LockInv == TypeOK /\ Exclusive /\ WinnerSet /\ Held

(* The part of LockInv that a step leaving the rows alone may disturb.     *)
LEMMA AnswerKeepsLocks ==
    ASSUME LockInv, NEW h \in Handlers, Answer(h), UNCHANGED row
    PROVE  Exclusive' /\ WinnerSet' /\ Held'
  <1> USE DEF LockInv, TypeOK, Answer
  <1>1. /\ pc'[h] = "idle"
        /\ \A g \in Handlers \ {h} : /\ pc'[g] = pc[g]
                                      /\ rowDay'[g] = rowDay[g]
                                      /\ user'[g] = user[g]
    OBVIOUS
  <1>2. Exclusive'
    BY <1>1 DEF Exclusive, InTx, Winning
  <1>3. WinnerSet'
    BY DEF WinnerSet, Exists
  <1>4. Held'
    BY <1>1 DEF Held, GuessTx, ClaimTx, Winning, IsActive, IsWonBy, Exists
  <1> QED
    BY <1>2, <1>3, <1>4

(* A handler that goes on within its transaction, or outside of one.       *)
LEMMA GoToKeepsLocks ==
    ASSUME LockInv, NEW h \in Handlers, NEW l \in PC, GoTo(h, l), UNCHANGED row,
           \/ l \notin InTx
           \/ pc[h] \in GuessTx /\ l \in GuessTx
           \/ pc[h] \in ClaimTx /\ l \in ClaimTx
    PROVE  Exclusive' /\ WinnerSet' /\ Held'
  <1> USE DEF LockInv, TypeOK, GoTo, request
  <1>1. /\ pc'[h] = l
        /\ \A g \in Handlers \ {h} : pc'[g] = pc[g]
        /\ UNCHANGED <<row, rowDay, user>>
    OBVIOUS
  <1>2. Exclusive'
    BY <1>1 DEF Exclusive, InTx, Winning, GuessTx, ClaimTx
  <1>3. WinnerSet'
    BY <1>1 DEF WinnerSet, Exists
  <1>4. Held'
    BY <1>1 DEF Held, GuessTx, ClaimTx, InTx, Winning, IsActive, IsWonBy, Exists
  <1> QED
    BY <1>2, <1>3, <1>4

(* A request that arrives: no handler enters a transaction.                *)
LEMMA ReceiveKeepsLocks ==
    ASSUME LockInv, NEW h \in Handlers, NEW l \in PC \ InTx,
           pc' = [pc EXCEPT ![h] = l], pc[h] \notin InTx, UNCHANGED row,
           \A g \in Handlers \ {h} : rowDay'[g] = rowDay[g] /\ user'[g] = user[g]
    PROVE  Exclusive' /\ WinnerSet' /\ Held'
  <1> USE DEF LockInv, TypeOK
  <1>1. pc'[h] = l /\ \A g \in Handlers \ {h} : pc'[g] = pc[g]
    OBVIOUS
  <1>2. Exclusive'
    BY <1>1 DEF Exclusive
  <1>3. WinnerSet'
    BY DEF WinnerSet, Exists
  <1>4. Held'
    BY <1>1 DEF Held, GuessTx, ClaimTx, InTx, Winning, IsActive, IsWonBy, Exists
  <1> QED
    BY <1>2, <1>3, <1>4

(* The lock is granted to a guess that finds its challenge active, or to a *)
(* claim that finds its user the winner.                                   *)
LEMMA LockKeepsLocks ==
    ASSUME LockInv, NEW h \in Handlers, NEW l \in PC, GoTo(h, l), UNCHANGED row,
           CanLock(rowDay[h]),
           \/ l = "verify" /\ IsActive(rowDay[h])
           \/ l = "findPayout" /\ IsWonBy(rowDay[h], user[h])
    PROVE  Exclusive' /\ WinnerSet' /\ Held'
  <1> USE DEF LockInv, TypeOK, GoTo, request
  <1>1. /\ pc'[h] = l
        /\ \A g \in Handlers \ {h} : pc'[g] = pc[g]
        /\ UNCHANGED <<row, rowDay, user>>
    OBVIOUS
  <1>2. Exclusive'
    BY <1>1 DEF Exclusive, CanLock
  <1>3. WinnerSet'
    BY <1>1 DEF WinnerSet, Exists
  <1>4. Held'
    BY <1>1 DEF Held, GuessTx, ClaimTx, InTx, Winning, IsActive, IsWonBy, Exists
  <1> QED
    BY <1>2, <1>3, <1>4

(* The commit of a win: nobody else holds the row, so nobody else relies   *)
(* on its being active.                                                    *)
LEMMA WinKeepsLocks ==
    ASSUME LockInv, NEW h \in Handlers, pc[h] = "commitWin", Answer(h),
           row' = [row EXCEPT ![rowDay[h]] = WonBy(@, user[h])]
    PROVE  /\ row' \in [Days -> Challenge \cup {NoRow}]
           /\ Exclusive' /\ WinnerSet' /\ Held'
  <1> DEFINE d == rowDay[h]
  <1>1. /\ pc'[h] = "idle"
        /\ \A g \in Handlers \ {h} : /\ pc'[g] = pc[g]
                                      /\ rowDay'[g] = rowDay[g]
                                      /\ user'[g] = user[g]
    BY DEF LockInv, TypeOK, Answer
  <1>2. d \in Days /\ user[h] \in Users /\ IsActive(d) /\ row[d] \in Challenge
    BY DEF LockInv, TypeOK, Held, GuessTx, Winning, IsActive, Exists
  <1>3. /\ WonBy(row[d], user[h]) \in Challenge
        /\ WonBy(row[d], user[h]).active = FALSE
        /\ WonBy(row[d], user[h]).winner = user[h]
    BY <1>2, WonByType DEF WonBy, Challenge
  <1>4. /\ row' \in [Days -> Challenge \cup {NoRow}]
        /\ row'[d] = WonBy(row[d], user[h])
        /\ \A e \in Days \ {d} : row'[e] = row[e]
    BY <1>2, <1>3 DEF LockInv, TypeOK
  <1>5. Exclusive'
    BY <1>1 DEF LockInv, Exclusive, InTx, Winning
  <1>6. WinnerSet'
    BY <1>2, <1>3, <1>4, ChallengeAssumption DEF LockInv, WinnerSet, Exists
  <1>7. \A g \in Handlers \ {h} : pc[g] \in InTx => rowDay[g] # d
    BY DEF LockInv, Exclusive, InTx, Winning
  <1>8. \A g \in Handlers : rowDay[g] \in Days
    BY DEF LockInv, TypeOK
  <1>9. Held'
    BY <1>1, <1>4, <1>7, <1>8
       DEF LockInv, Held, GuessTx, ClaimTx, InTx, Winning, IsActive, IsWonBy, Exists
  <1> QED
    BY <1>4, <1>5, <1>6, <1>9

(* A new challenge is active, has no winner, and nobody holds its row.     *)
LEMMA CreateKeepsLocks ==
    ASSUME LockInv, NEW h \in Handlers, Answer(h), ~Exists(rowDay[h]),
           NEW c \in Codes, NEW p \in Prizes,
           row' = [row EXCEPT ![rowDay[h]] = NewChallenge(c, p)]
    PROVE  /\ row' \in [Days -> Challenge \cup {NoRow}]
           /\ Exclusive' /\ WinnerSet' /\ Held'
  <1> DEFINE d == rowDay[h]
  <1>1. /\ pc'[h] = "idle"
        /\ \A g \in Handlers \ {h} : /\ pc'[g] = pc[g]
                                      /\ rowDay'[g] = rowDay[g]
                                      /\ user'[g] = user[g]
    BY DEF LockInv, TypeOK, Answer
  <1>2. /\ NewChallenge(c, p) \in Challenge
        /\ NewChallenge(c, p).active = TRUE
        /\ NewChallenge(c, p).winner = Nobody
    BY DEF NewChallenge, Challenge
  <1>3. /\ row' \in [Days -> Challenge \cup {NoRow}]
        /\ d \in Days
        /\ row'[d] = NewChallenge(c, p)
        /\ \A e \in Days \ {d} : row'[e] = row[e]
    BY <1>2 DEF LockInv, TypeOK
  <1>4. Exclusive'
    BY <1>1 DEF LockInv, Exclusive, InTx, Winning
  <1>5. WinnerSet'
    BY <1>2, <1>3 DEF LockInv, WinnerSet, Exists
  <1>6. \A g \in Handlers : rowDay[g] \in Days
    BY DEF LockInv, TypeOK
  <1>7. Held'
    BY <1>1, <1>3, <1>6
       DEF LockInv, Held, GuessTx, ClaimTx, Winning, IsActive, IsWonBy, Exists
  <1> QED
    BY <1>3, <1>4, <1>5, <1>7

-----------------------------------------------------------------------------
LEMMA LockInvInit == Init => LockInv
  BY TypeInit
     DEF Init, LockInv, Exclusive, WinnerSet, Held, InTx, GuessTx, ClaimTx,
         Winning, Exists

LEMMA LockInvNext == LockInv /\ [Next]_vars => LockInv'
  <1> SUFFICES ASSUME LockInv, [Next]_vars PROVE LockInv'
    OBVIOUS
  <1> USE DEF PC, GuessPC, ClaimPC, DailyPC, effects
  <1>t. TypeOK
    BY DEF LockInv
  <1>1. CASE NextDay
    <2>1. today' \in Days
      BY <1>1, <1>t, ChallengeAssumption DEF NextDay, TypeOK, Days
    <2>2. TypeOK'
      BY <1>1, <1>t, <2>1 DEF NextDay, request, TypeOK
    <2>3. UNCHANGED <<row, pc, user, rowDay>>
      BY <1>1 DEF NextDay, request
    <2>4. Exclusive' /\ WinnerSet' /\ Held'
      BY <2>3 DEF LockInv, Exclusive, WinnerSet, Held, IsActive, IsWonBy, Exists
    <2> QED
      BY <2>2, <2>4 DEF LockInv
  <1>2. ASSUME NEW h \in Handlers, ReceiveDaily(h) PROVE LockInv'
    <2>1. TypeOK'
      BY <1>2, <1>t DEF ReceiveDaily, Receive, TypeOK
    <2>2. Exclusive' /\ WinnerSet' /\ Held'
      BY <1>2, <1>t, ReceiveKeepsLocks
         DEF ReceiveDaily, Receive, TypeOK, InTx, Winning
    <2> QED
      BY <2>1, <2>2 DEF LockInv
  <1>3. ASSUME NEW h \in Handlers, ReceiveGuess(h) PROVE LockInv'
    <2>1. TypeOK'
      BY <1>3, <1>t DEF ReceiveGuess, Receive, TypeOK
    <2>2. Exclusive' /\ WinnerSet' /\ Held'
      BY <1>3, <1>t, ReceiveKeepsLocks
         DEF ReceiveGuess, Receive, TypeOK, InTx, Winning
    <2> QED
      BY <2>1, <2>2 DEF LockInv
  <1>4. ASSUME NEW h \in Handlers, ReceiveClaim(h) PROVE LockInv'
    <2>1. TypeOK'
      BY <1>4, <1>t DEF ReceiveClaim, Receive, TypeOK
    <2>2. Exclusive' /\ WinnerSet' /\ Held'
      BY <1>4, <1>t, ReceiveKeepsLocks
         DEF ReceiveClaim, Receive, TypeOK, InTx, Winning
    <2> QED
      BY <2>1, <2>2 DEF LockInv
  <1>5. ASSUME NEW h \in Handlers, ReadDate(h) PROVE LockInv'
    <2>1. TypeOK'
      BY <1>5, <1>t DEF ReadDate, TypeOK
    <2>2. Exclusive' /\ WinnerSet' /\ Held'
      BY <1>5, <1>t, ReceiveKeepsLocks DEF ReadDate, TypeOK, InTx, Winning
    <2> QED
      BY <2>1, <2>2 DEF LockInv
  <1>6. ASSUME NEW h \in Handlers, Answer(h), UNCHANGED <<row, payout>>, TypeOK'
        PROVE  LockInv'
    BY <1>6, AnswerKeepsLocks DEF LockInv
  <1>7. ASSUME NEW h \in Handlers, Find(h) PROVE LockInv'
    <2>1. TypeOK'
      BY <1>7, <1>t, GoToType, AnswerType DEF Find, TypeOK
    <2>2. Exclusive' /\ WinnerSet' /\ Held'
      BY <1>7, AnswerKeepsLocks, GoToKeepsLocks DEF Find, InTx, Winning
    <2> QED
      BY <2>1, <2>2 DEF LockInv
  <1>8. ASSUME NEW h \in Handlers, Create(h) PROVE LockInv'
    <2>1. CASE Exists(rowDay[h]) /\ UNCHANGED row
      <3>1. TypeOK'
        BY <1>8, <2>1, <1>t, AnswerType DEF Create, TypeOK
      <3> QED
        BY <1>8, <2>1, <3>1, <1>6 DEF Create
    <2>2. CASE ~Exists(rowDay[h])
      <3>1. PICK c \in Codes, p \in Prizes :
              row' = [row EXCEPT ![rowDay[h]] = NewChallenge(c, p)]
        BY <1>8, <2>2 DEF Create
      <3>2. /\ row' \in [Days -> Challenge \cup {NoRow}]
            /\ Exclusive' /\ WinnerSet' /\ Held'
        BY <1>8, <2>2, <3>1, CreateKeepsLocks DEF Create
      <3>3. TypeOK'
        BY <1>8, <1>t, <3>2, AnswerType DEF Create, TypeOK
      <3> QED
        BY <3>2, <3>3 DEF LockInv
    <2> QED
      BY <1>8, <2>1, <2>2 DEF Create
  <1>9. ASSUME NEW h \in Handlers, Charge(h) PROVE LockInv'
    <2>1. TypeOK'
      BY <1>9, <1>t, GoToType, AnswerType DEF Charge, TypeOK
    <2>2. Exclusive' /\ WinnerSet' /\ Held'
      BY <1>9, AnswerKeepsLocks, GoToKeepsLocks DEF Charge, InTx, Winning
    <2> QED
      BY <2>1, <2>2 DEF LockInv
  <1>10. ASSUME NEW h \in Handlers, LockActive(h) PROVE LockInv'
    <2>1. TypeOK'
      BY <1>10, <1>t, GoToType, AnswerType DEF LockActive, TypeOK
    <2>2. Exclusive' /\ WinnerSet' /\ Held'
      BY <1>10, AnswerKeepsLocks, LockKeepsLocks DEF LockActive
    <2> QED
      BY <2>1, <2>2 DEF LockInv
  <1>11. ASSUME NEW h \in Handlers, Verify(h) PROVE LockInv'
    <2>1. /\ zeroed' \in SUBSET (Users \X Days)
          /\ Answer(h) \/ GoTo(h, "commitMiss") \/ GoTo(h, "record")
          /\ pc[h] = "verify"
      BY <1>11, <1>t DEF Verify, TypeOK
    <2>2. TypeOK'
      BY <1>11, <1>t, <2>1, GoToType, AnswerType DEF Verify, TypeOK
    <2>3. UNCHANGED row
      BY <1>11 DEF Verify
    <2>4. Exclusive' /\ WinnerSet' /\ Held'
      BY <2>1, <2>3, AnswerKeepsLocks, GoToKeepsLocks DEF GuessTx, Winning
    <2> QED
      BY <2>2, <2>4 DEF LockInv
  <1>12. ASSUME NEW h \in Handlers, Record(h) PROVE LockInv'
    <2>1. TypeOK'
      BY <1>12, <1>t, GoToType DEF Record, TypeOK
    <2>2. Exclusive' /\ WinnerSet' /\ Held'
      BY <1>12, GoToKeepsLocks DEF Record, GuessTx, Winning
    <2> QED
      BY <2>1, <2>2 DEF LockInv
  <1>13. ASSUME NEW h \in Handlers, Publish(h) PROVE LockInv'
    <2>1. TypeOK'
      BY <1>13, <1>t, GoToType DEF Publish, TypeOK
    <2>2. Exclusive' /\ WinnerSet' /\ Held'
      BY <1>13, GoToKeepsLocks DEF Publish, GuessTx, Winning
    <2> QED
      BY <2>1, <2>2 DEF LockInv
  <1>14. ASSUME NEW h \in Handlers, CommitWin(h) PROVE LockInv'
    <2>1. /\ row' \in [Days -> Challenge \cup {NoRow}]
          /\ Exclusive' /\ WinnerSet' /\ Held'
      BY <1>14, WinKeepsLocks DEF CommitWin
    <2>2. TypeOK'
      BY <1>14, <1>t, <2>1, AnswerType DEF CommitWin, TypeOK
    <2> QED
      BY <2>1, <2>2 DEF LockInv
  <1>15. ASSUME NEW h \in Handlers, CommitMiss(h) PROVE LockInv'
    <2>1. TypeOK'
      BY <1>15, <1>t, AnswerType DEF CommitMiss, TypeOK
    <2> QED
      BY <1>15, <2>1, <1>6 DEF CommitMiss
  <1>16. ASSUME NEW h \in Handlers, LockClaim(h) PROVE LockInv'
    <2>1. TypeOK'
      BY <1>16, <1>t, GoToType, AnswerType DEF LockClaim, TypeOK
    <2>2. CASE Answer(h)
      BY <1>16, <2>1, <2>2, <1>6 DEF LockClaim
    <2>3. CASE /\ Exists(rowDay[h]) /\ CanLock(rowDay[h])
               /\ MayClaim(rowDay[h], user[h]) /\ GoTo(h, "findPayout")
      <3>1. IsWonBy(rowDay[h], user[h])
        BY <1>t, <2>3, ChallengeAssumption
           DEF LockInv, TypeOK, WinnerSet, MayClaim, IsWonBy, Exists
      <3>2. Exclusive' /\ WinnerSet' /\ Held'
        BY <1>16, <2>3, <3>1, LockKeepsLocks DEF LockClaim
      <3> QED
        BY <2>1, <3>2 DEF LockInv
    <2> QED
      BY <1>16, <2>2, <2>3 DEF LockClaim
  <1>17. ASSUME NEW h \in Handlers, FindPayout(h) PROVE LockInv'
    <2>1. TypeOK'
      BY <1>17, <1>t, GoToType DEF FindPayout, TypeOK
    <2>2. Exclusive' /\ WinnerSet' /\ Held'
      BY <1>17, GoToKeepsLocks DEF FindPayout, ClaimTx
    <2> QED
      BY <2>1, <2>2 DEF LockInv
  <1>18. ASSUME NEW h \in Handlers, InsertPayout(h) PROVE LockInv'
    <2>1. TypeOK'
      BY <1>18, <1>t, GoToType, AnswerType DEF InsertPayout, TypeOK
    <2>2. Exclusive' /\ WinnerSet' /\ Held'
      BY <1>18, AnswerKeepsLocks, GoToKeepsLocks DEF InsertPayout, ClaimTx
    <2> QED
      BY <2>1, <2>2 DEF LockInv
  <1>19. ASSUME NEW h \in Handlers, pc[h] = "commitNew", PutPayout(h)
         PROVE  payout' \in [Days -> Payout \cup {NoPayout}]
    <2>1. rowDay[h] \in Days /\ row[rowDay[h]] \in Challenge /\ user[h] \in Users
      BY <1>19, <1>t DEF LockInv, TypeOK, Held, ClaimTx, IsWonBy, Exists
    <2>2. [user |-> user[h], amount |-> row[rowDay[h]].prize] \in Payout
      BY <2>1 DEF Payout, Challenge
    <2> QED
      BY <1>19, <1>t, <2>1, <2>2 DEF PutPayout, TypeOK
  <1>20. ASSUME NEW h \in Handlers, CommitNew(h) PROVE LockInv'
    <2>1. TypeOK'
      BY <1>20, <1>t, <1>19, GoToType DEF CommitNew, TypeOK
    <2>2. Exclusive' /\ WinnerSet' /\ Held'
      BY <1>20, GoToKeepsLocks DEF CommitNew, InTx, Winning
    <2> QED
      BY <2>1, <2>2 DEF LockInv
  <1>21. ASSUME NEW h \in Handlers, CommitOld(h) PROVE LockInv'
    <2>1. TypeOK'
      BY <1>21, <1>t, AnswerType DEF CommitOld, TypeOK
    <2> QED
      BY <1>21, <2>1, <1>6 DEF CommitOld
  <1>22. ASSUME NEW h \in Handlers, Alert(h) PROVE LockInv'
    <2>1. TypeOK'
      BY <1>22, <1>t, AnswerType DEF Alert, TypeOK
    <2> QED
      BY <1>22, <2>1, <1>6 DEF Alert
  <1>23. ASSUME NEW h \in Handlers, Abort(h) PROVE LockInv'
    <2>1. TypeOK'
      BY <1>23, <1>t, AnswerType DEF Abort, Fault, TypeOK
    <2> QED
      BY <1>23, <2>1, <1>6 DEF Abort
  <1>24. ASSUME NEW h \in Handlers, CommitReplyLost(h) PROVE LockInv'
    <2>1. CASE pc[h] = "commitWin"
      <3>1. /\ row' \in [Days -> Challenge \cup {NoRow}]
            /\ Exclusive' /\ WinnerSet' /\ Held'
            /\ UNCHANGED payout
        BY <1>24, <2>1, WinKeepsLocks DEF CommitReplyLost
      <3>2. TypeOK'
        BY <1>24, <1>t, <3>1, AnswerType DEF CommitReplyLost, Fault, TypeOK
      <3> QED
        BY <3>1, <3>2 DEF LockInv
    <2>2. CASE pc[h] = "commitNew"
      <3>1. UNCHANGED row /\ PutPayout(h) /\ Answer(h)
        BY <1>24, <2>2 DEF CommitReplyLost
      <3>2. TypeOK'
        BY <1>24, <1>t, <2>2, <3>1, <1>19, AnswerType
           DEF CommitReplyLost, Fault, TypeOK
      <3> QED
        BY <3>1, <3>2, AnswerKeepsLocks DEF LockInv
    <2> QED
      BY <1>24, <2>1, <2>2 DEF CommitReplyLost
  <1>25. CASE UNCHANGED vars
    BY <1>25 DEF vars, LockInv, TypeOK, Exclusive, WinnerSet, Held, IsActive,
                 IsWonBy, Exists
  <1> QED
    BY <1>1, <1>2, <1>3, <1>4, <1>5, <1>7, <1>8, <1>9, <1>10, <1>11, <1>12,
       <1>13, <1>14, <1>15, <1>16, <1>17, <1>18, <1>20, <1>21, <1>22, <1>23,
       <1>24, <1>25 DEF Next, Step, Lock

LEMMA LockInvAlways == Spec => []LockInv
  BY LockInvInit, LockInvNext, PTL DEF Spec

(* Type correctness, for every instance.                                   *)
THEOREM TypeCorrect == Spec => []TypeOK
  <1>1. LockInv => TypeOK
    BY DEF LockInv
  <1> QED
    BY <1>1, LockInvAlways, PTL

(* Row locks exclude: no two transactions hold the same challenge row.     *)
THEOREM RowLockExclusive == Spec => []Exclusive
  <1>1. LockInv => Exclusive
    BY DEF LockInv
  <1> QED
    BY <1>1, LockInvAlways, PTL

-----------------------------------------------------------------------------
(* The challenge of a day.                                                 *)

(* Which steps write a row, and what they find there.                      *)
LEMMA RowWrites ==
    ASSUME LockInv, [Next]_vars
    PROVE  \/ UNCHANGED row
           \/ \E h \in Handlers :
                 /\ pc[h] = "create" /\ ~Exists(rowDay[h])
                 /\ \E c \in Codes, p \in Prizes :
                       row' = [row EXCEPT ![rowDay[h]] = NewChallenge(c, p)]
           \/ \E h \in Handlers :
                 /\ pc[h] = "commitWin"
                 /\ row' = [row EXCEPT ![rowDay[h]] = WonBy(@, user[h])]
  <1>1. ASSUME NEW h \in Handlers, Create(h)
        PROVE  \/ UNCHANGED row
               \/ /\ pc[h] = "create" /\ ~Exists(rowDay[h])
                  /\ \E c \in Codes, p \in Prizes :
                        row' = [row EXCEPT ![rowDay[h]] = NewChallenge(c, p)]
    BY <1>1 DEF Create
  <1>2. ASSUME NEW h \in Handlers, CommitWin(h)
        PROVE  /\ pc[h] = "commitWin"
               /\ row' = [row EXCEPT ![rowDay[h]] = WonBy(@, user[h])]
    BY <1>2 DEF CommitWin
  <1>3. ASSUME NEW h \in Handlers, CommitReplyLost(h)
        PROVE  \/ UNCHANGED row
               \/ /\ pc[h] = "commitWin"
                  /\ row' = [row EXCEPT ![rowDay[h]] = WonBy(@, user[h])]
    BY <1>3 DEF CommitReplyLost
  <1>4. ASSUME NEW h \in Handlers,
               \/ ReceiveDaily(h) \/ ReceiveGuess(h) \/ ReceiveClaim(h)
               \/ Lock(h) \/ Find(h) \/ ReadDate(h) \/ Charge(h) \/ Verify(h)
               \/ Record(h) \/ Publish(h) \/ CommitMiss(h) \/ FindPayout(h)
               \/ InsertPayout(h) \/ CommitNew(h) \/ CommitOld(h) \/ Alert(h)
               \/ Abort(h)
        PROVE  UNCHANGED row
    BY <1>4 DEF ReceiveDaily, ReceiveGuess, ReceiveClaim, Receive, Lock,
                LockActive, LockClaim, Find, ReadDate, Charge, Verify, Record,
                Publish, CommitMiss, FindPayout, InsertPayout, CommitNew,
                CommitOld, Alert, Abort
  <1>5. NextDay \/ UNCHANGED vars => UNCHANGED row
    BY DEF NextDay, vars
  <1> QED
    BY <1>1, <1>2, <1>3, <1>4, <1>5 DEF Next, Step

(* A step neither removes nor rewrites a challenge; it gives it a winner   *)
(* once.                                                                   *)
LEMMA SettledStep ==
    ASSUME LockInv, [Next]_vars, NEW d \in Days, Exists(d)
    PROVE  /\ row'[d] # NoRow
           /\ row'[d].secret = row[d].secret
           /\ row'[d].prize = row[d].prize
           /\ row[d].winner # Nobody => row'[d] = row[d]
  <1>1. row[d] \in Challenge
    BY DEF LockInv, TypeOK, Exists
  <1>2. ASSUME NEW h \in Handlers, pc[h] = "create", ~Exists(rowDay[h]),
               NEW c \in Codes, NEW p \in Prizes,
               row' = [row EXCEPT ![rowDay[h]] = NewChallenge(c, p)]
        PROVE  row'[d] = row[d]
    BY <1>2 DEF LockInv, TypeOK
  <1>3. ASSUME NEW h \in Handlers, pc[h] = "commitWin",
               row' = [row EXCEPT ![rowDay[h]] = WonBy(@, user[h])],
               rowDay[h] = d
        PROVE  /\ row'[d] \in Challenge
               /\ row'[d].secret = row[d].secret
               /\ row'[d].prize = row[d].prize
               /\ row[d].winner = Nobody
    <2>1. row'[d] = WonBy(row[d], user[h]) /\ user[h] \in Users
      BY <1>3 DEF LockInv, TypeOK
    <2>2. row[d].winner = Nobody
      BY <1>3 DEF LockInv, WinnerSet, Held, GuessTx, Winning, IsActive, Exists
    <2> QED
      BY <1>1, <2>1, <2>2 DEF WonBy, Challenge
  <1>4. ASSUME NEW h \in Handlers, pc[h] = "commitWin",
               row' = [row EXCEPT ![rowDay[h]] = WonBy(@, user[h])],
               rowDay[h] # d
        PROVE  row'[d] = row[d]
    BY <1>4 DEF LockInv, TypeOK
  <1> QED
    BY <1>1, <1>2, <1>3, <1>4, RowWrites, ChallengeAssumption DEF Exists

(* The challenge of a day is created once, and its winner never replaced.  *)
THEOREM ChallengeSettledHolds == Spec => ChallengeSettled
  <1>1. LockInv /\ [Next]_vars =>
          [\A d \in Days : Exists(d) =>
              /\ row'[d] # NoRow
              /\ row'[d].secret = row[d].secret
              /\ row'[d].prize = row[d].prize
              /\ row[d].winner # Nobody => row'[d] = row[d]]_vars
    BY SettledStep
  <1> QED
    BY <1>1, LockInvAlways, PTL DEF Spec, ChallengeSettled

(* A winner stays the winner.                                              *)
LEMMA WonStays ==
    ASSUME LockInv, [Next]_vars, NEW d \in Days, NEW u \in Users, IsWonBy(d, u)
    PROVE  IsWonBy(d, u)'
  BY SettledStep, ChallengeAssumption DEF IsWonBy, Exists

(* Everybody who is answered "success" is the recorded winner of the day.  *)
THEOREM SuccessIsTheWinnerHolds == Spec => []SuccessIsTheWinner
  <1>1. Init => SuccessIsTheWinner
    BY DEF Init, SuccessIsTheWinner
  <1>2. LockInv /\ SuccessIsTheWinner /\ [Next]_vars => SuccessIsTheWinner'
    <2> SUFFICES ASSUME LockInv, SuccessIsTheWinner, [Next]_vars,
                        NEW t \in told'
                 PROVE  IsWonBy(t[2], t[1])'
      BY DEF SuccessIsTheWinner
    <2>1. CASE t \in told
      <3>1. t[1] \in Users /\ t[2] \in Days
        BY <2>1 DEF LockInv, TypeOK
      <3> QED
        BY <2>1, <3>1, WonStays DEF SuccessIsTheWinner
    <2>2. CASE t \notin told
      <3>1. PICK h \in Handlers : CommitWin(h) /\ t = <<user[h], rowDay[h]>>
        <4>1. CASE UNCHANGED told
          BY <2>2, <4>1
        <4>2. ASSUME NEW h \in Handlers, CommitWin(h)
              PROVE  t = <<user[h], rowDay[h]>>
          BY <2>2, <4>2 DEF CommitWin
        <4> QED
          BY <4>1, <4>2
             DEF Next, Step, Lock, vars, NextDay, ReceiveDaily, ReceiveGuess,
                 ReceiveClaim, Receive, LockActive, LockClaim, Find, Create,
                 ReadDate, Charge, Verify, Record, Publish, CommitMiss,
                 FindPayout, InsertPayout, CommitNew, CommitOld, Alert, Abort,
                 CommitReplyLost
      <3>2. rowDay[h] \in Days /\ user[h] \in Users /\ row[rowDay[h]] \in Challenge
        BY <3>1 DEF CommitWin, LockInv, TypeOK, Held, GuessTx, Winning, IsActive,
                    Exists
      <3>3. /\ row'[rowDay[h]] = WonBy(row[rowDay[h]], user[h])
            /\ WonBy(row[rowDay[h]], user[h]) \in Challenge
        BY <3>1, <3>2, WonByType DEF CommitWin, LockInv, TypeOK
      <3> QED
        BY <3>1, <3>2, <3>3, ChallengeAssumption
           DEF IsWonBy, Exists, WonBy, Challenge
    <2> QED
      BY <2>1, <2>2
  <1> QED
    BY <1>1, <1>2, LockInvAlways, PTL DEF Spec

-----------------------------------------------------------------------------
(* The claim.                                                              *)

(* A claimant that is past the search for an earlier payout relies on      *)
(* there being none; the one that committed alerts the admin once.         *)
NoneYet ==
    \A h \in Handlers :
        pc[h] \in {"insertPayout", "commitNew"} => payout[rowDay[h]] = NoPayout

Alerting ==
    /\ \A h \in Handlers : pc[h] = "alert" =>
          payout[rowDay[h]] # NoPayout /\ alerts[rowDay[h]] = 0
    /\ \A g, h \in Handlers :
          pc[g] = "alert" /\ pc[h] = "alert" /\ rowDay[g] = rowDay[h] => g = h

PayInv == PaidOnlyToWinner /\ NoneYet /\ Alerting /\ AlertedOnce

(* A payout that stays keeps being right, as its challenge is settled.     *)
LEMMA PaidStays ==
    ASSUME LockInv, PaidOnlyToWinner, [Next]_vars, NEW d \in Days,
           payout'[d] = payout[d], payout[d] # NoPayout
    PROVE  IsWonBy(d, payout[d].user)' /\ payout'[d].amount = row'[d].prize
  <1>1. payout[d] \in Payout
    BY DEF LockInv, TypeOK
  <1>2. payout[d].user \in Users /\ IsWonBy(d, payout[d].user)
    BY <1>1 DEF Payout, PaidOnlyToWinner
  <1>3. IsWonBy(d, payout[d].user)'
    <2>1. ASSUME NEW u \in Users, IsWonBy(d, u) PROVE IsWonBy(d, u)'
      BY <2>1, WonStays
    <2>2. PICK u \in Users : u = payout[d].user
      BY <1>2
    <2>3. IsWonBy(d, u)'
      BY <1>2, <2>1, <2>2
    <2>4. payout'[d].user = u
      BY <2>2
    <2> QED
      BY <2>3, <2>4 DEF IsWonBy, Exists
  <1>4. Exists(d)
    BY <1>2 DEF IsWonBy
  <1>5. row'[d].prize = row[d].prize
    BY <1>4, SettledStep
  <1> QED
    BY <1>3, <1>5 DEF PaidOnlyToWinner

(* A step that writes no payout and no alert, and after which nobody is    *)
(* newly inserting, committing a payout or alerting.                       *)
LEMMA ElsewherePayInv ==
    ASSUME LockInv, PayInv, [Next]_vars, UNCHANGED <<payout, alerts>>,
           \A g \in Handlers :
              pc'[g] \in {"insertPayout", "commitNew", "alert"}
                 => pc'[g] = pc[g] /\ rowDay'[g] = rowDay[g]
    PROVE  PayInv'
  <1>1. PaidOnlyToWinner'
    BY PaidStays DEF PayInv, PaidOnlyToWinner
  <1>2. NoneYet'
    BY DEF PayInv, NoneYet
  <1>3. Alerting'
    BY DEF PayInv, Alerting
  <1>4. AlertedOnce'
    BY DEF PayInv, AlertedOnce
  <1> QED
    BY <1>1, <1>2, <1>3, <1>4 DEF PayInv

(* The commit of a payout by the handler that holds the row.               *)
LEMMA CommitPayInv ==
    ASSUME LockInv, PayInv, [Next]_vars, NEW h \in Handlers, pc[h] = "commitNew",
           PutPayout(h), UNCHANGED <<alerts, row>>,
           GoTo(h, "alert") \/ Answer(h)
    PROVE  PayInv'
  <1> DEFINE d == rowDay[h]
  <1>1. /\ d \in Days /\ user[h] \in Users /\ row[d] \in Challenge
        /\ IsWonBy(d, user[h]) /\ payout[d] = NoPayout
    BY DEF LockInv, TypeOK, Held, ClaimTx, IsWonBy, Exists, PayInv, NoneYet
  <1>2. /\ payout'[d] = [user |-> user[h], amount |-> row[d].prize]
        /\ payout'[d] \in Payout
        /\ \A e \in Days \ {d} : payout'[e] = payout[e]
    BY <1>1 DEF PutPayout, LockInv, TypeOK, Payout, Challenge
  <1>3. /\ pc'[h] \in {"alert", "idle"}
        /\ \A g \in Handlers \ {h} : pc'[g] = pc[g] /\ rowDay'[g] = rowDay[g]
        /\ pc'[h] = "alert" => rowDay'[h] = d
    BY DEF GoTo, request, Answer, LockInv, TypeOK
  <1>4. \A g \in Handlers \ {h} : pc[g] \in InTx => rowDay[g] # d
    BY DEF LockInv, Exclusive, InTx, Winning
  <1>5. PaidOnlyToWinner'
    <2> SUFFICES ASSUME NEW e \in Days, payout'[e] # NoPayout
                 PROVE  IsWonBy(e, payout[e].user)' /\ payout'[e].amount = row'[e].prize
      BY DEF PaidOnlyToWinner
    <2>1. CASE e = d
      BY <1>1, <1>2, <2>1 DEF IsWonBy, Exists
    <2>2. CASE e # d
      BY <1>2, <2>2, PaidStays DEF PayInv
    <2> QED
      BY <2>1, <2>2
  <1>6. NoneYet'
    <2> SUFFICES ASSUME NEW g \in Handlers, pc'[g] \in {"insertPayout", "commitNew"}
                 PROVE  payout'[rowDay'[g]] = NoPayout
      BY DEF NoneYet
    <2>1. g \in Handlers \ {h} /\ pc'[g] = pc[g] /\ rowDay'[g] = rowDay[g]
      BY <1>3
    <2>2. rowDay[g] # d
      BY <1>4, <2>1 DEF InTx
    <2>3. rowDay[g] \in Days
      BY DEF LockInv, TypeOK
    <2>4. payout[rowDay[g]] = NoPayout
      BY <2>1 DEF PayInv, NoneYet
    <2>5. payout'[rowDay[g]] = payout[rowDay[g]]
      BY <1>2, <2>2, <2>3
    <2> QED
      BY <2>1, <2>4, <2>5
  <1>7. payout'[d] # NoPayout
    BY <1>2, ChallengeAssumption
  <1>8. alerts[d] = 0 /\ \A g \in Handlers : pc[g] = "alert" => rowDay[g] # d
    BY <1>1 DEF PayInv, Alerting, AlertedOnce
  <1>9. Alerting'
    BY <1>2, <1>3, <1>7, <1>8 DEF PayInv, Alerting, LockInv, TypeOK
  <1>10. AlertedOnce'
    BY <1>2, <1>7 DEF PayInv, AlertedOnce
  <1> QED
    BY <1>5, <1>6, <1>9, <1>10 DEF PayInv

LEMMA PayInvNext == LockInv /\ PayInv /\ [Next]_vars => PayInv'
  <1> SUFFICES ASSUME LockInv, PayInv, [Next]_vars PROVE PayInv'
    OBVIOUS
  <1> USE DEF LockInv, TypeOK
  <1>1. ASSUME NEW h \in Handlers, Answer(h), UNCHANGED <<payout, alerts>>
        PROVE  PayInv'
    BY <1>1, ElsewherePayInv DEF Answer
  <1>2. ASSUME NEW h \in Handlers,
               NEW l \in PC \ {"insertPayout", "commitNew", "alert"},
               GoTo(h, l), UNCHANGED <<payout, alerts>>
        PROVE  PayInv'
    BY <1>2, ElsewherePayInv DEF GoTo, request
  <1>3. NextDay \/ UNCHANGED vars => PayInv'
    BY ElsewherePayInv DEF NextDay, vars, request, effects
  <1>4. ASSUME NEW h \in Handlers,
               ReceiveDaily(h) \/ ReceiveGuess(h) \/ ReceiveClaim(h) \/ ReadDate(h)
        PROVE  PayInv'
    BY <1>4, ElsewherePayInv
       DEF ReceiveDaily, ReceiveGuess, ReceiveClaim, Receive, ReadDate, effects
  <1>5. ASSUME NEW h \in Handlers,
               \/ Find(h) \/ Create(h) \/ Charge(h) \/ LockActive(h) \/ Record(h)
               \/ CommitWin(h) \/ CommitMiss(h) \/ LockClaim(h) \/ CommitOld(h)
               \/ Abort(h)
        PROVE  PayInv'
    BY <1>5, <1>1, <1>2
       DEF Find, Create, Charge, LockActive, Record, CommitWin, CommitMiss,
           LockClaim, CommitOld, Abort, effects, PC, GuessPC, ClaimPC, DailyPC
  <1>6. ASSUME NEW h \in Handlers, Verify(h) \/ Publish(h) PROVE PayInv'
    BY <1>6, <1>1, <1>2 DEF Verify, Publish, PC, GuessPC
  <1>7. ASSUME NEW h \in Handlers, FindPayout(h) PROVE PayInv'
    <2>1. UNCHANGED <<payout, alerts, row, user, rowDay>>
      BY <1>7 DEF FindPayout, GoTo, request, effects
    <2>2. CASE GoTo(h, "commitOld")
      BY <2>1, <2>2, <1>2 DEF PC, ClaimPC
    <2>3. CASE /\ GoTo(h, "insertPayout")
               /\ ~(payout[rowDay[h]] # NoPayout /\ payout[rowDay[h]].user = user[h])
      <3>1. IsWonBy(rowDay[h], user[h])
        BY <1>7 DEF FindPayout, Held, ClaimTx
      <3>2. payout[rowDay[h]] = NoPayout
        BY <2>3, <3>1 DEF PayInv, PaidOnlyToWinner, IsWonBy
      <3>3. /\ pc'[h] = "insertPayout"
            /\ \A g \in Handlers \ {h} : pc'[g] = pc[g]
        BY <2>3 DEF GoTo
      <3>4. PaidOnlyToWinner'
        BY <2>1, PaidStays DEF PayInv, PaidOnlyToWinner
      <3>5. NoneYet' /\ Alerting' /\ AlertedOnce'
        BY <2>1, <3>2, <3>3 DEF PayInv, NoneYet, Alerting, AlertedOnce
      <3> QED
        BY <3>4, <3>5 DEF PayInv
    <2> QED
      BY <1>7, <2>2, <2>3 DEF FindPayout
  <1>8. ASSUME NEW h \in Handlers, InsertPayout(h) PROVE PayInv'
    <2>1. CASE Answer(h)
      BY <1>8, <2>1, <1>1 DEF InsertPayout, effects
    <2>2. CASE payout[rowDay[h]] = NoPayout /\ GoTo(h, "commitNew")
      <3>1. /\ UNCHANGED <<payout, alerts, rowDay>>
            /\ pc'[h] = "commitNew"
            /\ \A g \in Handlers \ {h} : pc'[g] = pc[g]
        BY <1>8, <2>2 DEF InsertPayout, GoTo, request, effects
      <3>2. PaidOnlyToWinner'
        BY <3>1, PaidStays DEF PayInv, PaidOnlyToWinner
      <3>3. NoneYet' /\ Alerting' /\ AlertedOnce'
        BY <2>2, <3>1 DEF PayInv, NoneYet, Alerting, AlertedOnce
      <3> QED
        BY <3>2, <3>3 DEF PayInv
    <2> QED
      BY <1>8, <2>1, <2>2 DEF InsertPayout
  <1>9. ASSUME NEW h \in Handlers, CommitNew(h) PROVE PayInv'
    BY <1>9, CommitPayInv DEF CommitNew, effects
  <1>10. ASSUME NEW h \in Handlers, CommitReplyLost(h) PROVE PayInv'
    <2>1. CASE pc[h] = "commitWin"
      BY <1>10, <2>1, <1>1 DEF CommitReplyLost, effects
    <2>2. CASE pc[h] = "commitNew"
      BY <1>10, <2>2, CommitPayInv DEF CommitReplyLost, effects
    <2> QED
      BY <1>10, <2>1, <2>2 DEF CommitReplyLost
  <1>11. ASSUME NEW h \in Handlers, Alert(h) PROVE PayInv'
    <2>1. CASE UNCHANGED alerts
      BY <1>11, <2>1, <1>1 DEF Alert
    <2>2. CASE alerts' = [alerts EXCEPT ![rowDay[h]] = @ + 1]
      <3>1. /\ UNCHANGED <<payout, row>>
            /\ pc'[h] = "idle"
            /\ \A g \in Handlers \ {h} : pc'[g] = pc[g] /\ rowDay'[g] = rowDay[g]
        BY <1>11 DEF Alert, Answer
      <3>2. payout[rowDay[h]] # NoPayout /\ alerts[rowDay[h]] = 0
        BY <1>11 DEF Alert, PayInv, Alerting
      <3>3. \A g \in Handlers \ {h} : pc[g] = "alert" => rowDay[g] # rowDay[h]
        BY <1>11 DEF Alert, PayInv, Alerting
      <3>4. PaidOnlyToWinner'
        BY <3>1, PaidStays DEF PayInv, PaidOnlyToWinner
      <3>5. NoneYet'
        BY <3>1 DEF PayInv, NoneYet
      <3>6. Alerting'
        BY <2>2, <3>1, <3>3 DEF PayInv, Alerting
      <3>7. AlertedOnce'
        BY <2>2, <3>1, <3>2 DEF PayInv, AlertedOnce
      <3> QED
        BY <3>4, <3>5, <3>6, <3>7 DEF PayInv
    <2> QED
      BY <1>11, <2>1, <2>2 DEF Alert
  <1> QED
    BY <1>3, <1>4, <1>5, <1>6, <1>7, <1>8, <1>9, <1>10, <1>11
       DEF Next, Step, Lock

LEMMA PayInvAlways == Spec => []PayInv
  <1>1. Init => PayInv
    BY DEF Init, PayInv, PaidOnlyToWinner, NoneYet, Alerting, AlertedOnce
  <1> QED
    BY <1>1, PayInvNext, LockInvAlways, PTL DEF Spec

(* A payout goes to the winner of its day and is that day's prize.         *)
THEOREM PaidOnlyToWinnerHolds == Spec => []PaidOnlyToWinner
  <1>1. PayInv => PaidOnlyToWinner
    BY DEF PayInv
  <1> QED
    BY <1>1, PayInvAlways, PTL

(* No claim ever meets the unique index on payouts.                        *)
THEOREM NoClaimConflictHolds == Spec => []NoClaimConflict
  <1>1. PayInv => NoClaimConflict
    BY DEF PayInv, NoneYet, NoClaimConflict
  <1> QED
    BY <1>1, PayInvAlways, PTL

(* The admin is alerted at most once a day, and for a committed payout.    *)
THEOREM AlertedOnceHolds == Spec => []AlertedOnce
  <1>1. PayInv => AlertedOnce
    BY DEF PayInv
  <1> QED
    BY <1>1, PayInvAlways, PTL

-----------------------------------------------------------------------------
(* The guess.                                                              *)

(* What a handler knows of its guess on the way to the commit of a win.    *)
Charged ==
    \A h \in Handlers :
        /\ pc[h] = "readDate" => strDay[h] \in {today - 1, today}
        /\ pc[h] \in {"charge", "lockActive"} \cup GuessTx
              => strDay[h] \in {rowDay[h] - 1, rowDay[h]}
        /\ pc[h] \in {"lockActive"} \cup GuessTx
              => <<user[h], guess[h], strDay[h]>> \in admitted
        /\ pc[h] \in Winning => guess[h] = row[rowDay[h]].secret

GuessInv == WinnerGuessedIt /\ Charged

ChargedAt(h) ==
    /\ pc[h] = "readDate" => strDay[h] \in {today - 1, today}
    /\ pc[h] \in {"charge", "lockActive"} \cup GuessTx
          => strDay[h] \in {rowDay[h] - 1, rowDay[h]}
    /\ pc[h] \in {"lockActive"} \cup GuessTx
          => <<user[h], guess[h], strDay[h]>> \in admitted
    /\ pc[h] \in Winning => guess[h] = row[rowDay[h]].secret

(* No charge is ever forgotten.                                            *)
LEMMA AdmittedGrows == [Next]_vars => admitted \subseteq admitted'
  <1> SUFFICES ASSUME [Next]_vars PROVE admitted \subseteq admitted'
    OBVIOUS
  <1>1. ASSUME NEW h \in Handlers, Charge(h) PROVE admitted \subseteq admitted'
    BY <1>1 DEF Charge
  <1> QED
    BY <1>1
       DEF Next, Step, Lock, vars, NextDay, ReceiveDaily, ReceiveGuess,
           ReceiveClaim, Receive, LockActive, LockClaim, Find, Create, ReadDate,
           Verify, Record, Publish, CommitWin, CommitMiss, FindPayout,
           InsertPayout, CommitNew, CommitOld, Alert, Abort, CommitReplyLost

(* A handler whose request and place stay the same keeps what it knows, as *)
(* the row it holds keeps its secret.                                      *)
LEMMA ChargedElsewhere ==
    ASSUME LockInv, Charged, [Next]_vars, NEW g \in Handlers,
           pc'[g] = pc[g], user'[g] = user[g], guess'[g] = guess[g],
           strDay'[g] = strDay[g], rowDay'[g] = rowDay[g],
           today' = today \/ pc[g] # "readDate"
    PROVE  ChargedAt(g)'
  <1>1. ASSUME pc[g] \in Winning
        PROVE  row'[rowDay[g]].secret = row[rowDay[g]].secret
    <2>1. rowDay[g] \in Days /\ Exists(rowDay[g])
      BY <1>1 DEF LockInv, TypeOK, Held, GuessTx, IsActive
    <2> QED
      BY <2>1, SettledStep
  <1> QED
    BY <1>1, AdmittedGrows DEF Charged, ChargedAt

LEMMA ChargedOutside ==
    ASSUME NEW h, pc'[h] \in {"idle", "find", "create"} \cup ClaimPC
    PROVE  ChargedAt(h)'
  BY DEF ChargedAt, ClaimPC, GuessTx, Winning

LEMMA ChargedNext == LockInv /\ Charged /\ [Next]_vars => Charged'
  <1> SUFFICES ASSUME LockInv, Charged, [Next]_vars PROVE Charged'
    OBVIOUS
  <1> USE DEF LockInv, TypeOK
  <1>0. (\A g \in Handlers : ChargedAt(g)') => Charged'
    BY DEF Charged, ChargedAt
  <1>1. ASSUME NEW h \in Handlers, Answer(h), UNCHANGED today PROVE Charged'
    <2>1. ChargedAt(h)'
      BY <1>1, ChargedOutside DEF Answer
    <2>2. ASSUME NEW g \in Handlers \ {h} PROVE ChargedAt(g)'
      BY <1>1, <2>2, ChargedElsewhere DEF Answer
    <2> QED
      BY <1>0, <2>1, <2>2
  <1>2. ASSUME NEW h \in Handlers, NEW l \in PC, GoTo(h, l), UNCHANGED today,
               ChargedAt(h)'
        PROVE  Charged'
    <2>1. ASSUME NEW g \in Handlers \ {h} PROVE ChargedAt(g)'
      BY <1>2, <2>1, ChargedElsewhere DEF GoTo, request
    <2> QED
      BY <1>0, <1>2, <2>1
  <1>3. ASSUME NEW h \in Handlers, NEW l \in {"create"} \cup ClaimPC,
               GoTo(h, l), UNCHANGED today
        PROVE  Charged'
    BY <1>2, <1>3, ChargedOutside DEF GoTo, PC, DailyPC
  <1>4. CASE NextDay
    <2>1. ASSUME NEW g \in Handlers, pc[g] = "readDate" PROVE ChargedAt(g)'
      BY <1>4, <2>1 DEF NextDay, request, ChargedAt, GuessTx, Winning, Days
    <2>2. ASSUME NEW g \in Handlers, pc[g] # "readDate" PROVE ChargedAt(g)'
      BY <1>4, <2>2, ChargedElsewhere DEF NextDay, request
    <2> QED
      BY <1>0, <2>1, <2>2
  <1>5. CASE UNCHANGED vars
    BY <1>0, <1>5, ChargedElsewhere DEF vars
  <1>6. ASSUME NEW h \in Handlers, ReceiveDaily(h) \/ ReceiveClaim(h)
        PROVE  Charged'
    <2>1. ChargedAt(h)'
      BY <1>6, ChargedOutside DEF ReceiveDaily, ReceiveClaim, Receive, ClaimPC
    <2>2. ASSUME NEW g \in Handlers \ {h} PROVE ChargedAt(g)'
      BY <1>6, <2>2, ChargedElsewhere DEF ReceiveDaily, ReceiveClaim, Receive
    <2> QED
      BY <1>0, <2>1, <2>2
  <1>7. ASSUME NEW h \in Handlers, ReceiveGuess(h) PROVE Charged'
    <2>1. ChargedAt(h)'
      BY <1>7 DEF ReceiveGuess, Receive, ChargedAt, GuessTx, Winning
    <2>2. ASSUME NEW g \in Handlers \ {h} PROVE ChargedAt(g)'
      BY <1>7, <2>2, ChargedElsewhere DEF ReceiveGuess, Receive
    <2> QED
      BY <1>0, <2>1, <2>2
  <1>8. ASSUME NEW h \in Handlers, ReadDate(h) PROVE Charged'
    <2>1. ChargedAt(h)'
      BY <1>8 DEF ReadDate, Charged, ChargedAt, GuessTx, Winning
    <2>2. ASSUME NEW g \in Handlers \ {h} PROVE ChargedAt(g)'
      BY <1>8, <2>2, ChargedElsewhere DEF ReadDate
    <2> QED
      BY <1>0, <2>1, <2>2
  <1>9. ASSUME NEW h \in Handlers, Charge(h) PROVE Charged'
    <2>1. CASE GoTo(h, "lockActive")
               /\ admitted' = admitted \cup {<<user[h], guess[h], strDay[h]>>}
      <3>1. ChargedAt(h)'
        BY <1>9, <2>1
           DEF Charge, GoTo, request, Charged, ChargedAt, GuessTx, Winning
      <3> QED
        BY <1>9, <2>1, <3>1, <1>2 DEF Charge, PC, GuessPC
    <2> QED
      BY <1>9, <2>1, <1>1 DEF Charge
  <1>10. ASSUME NEW h \in Handlers, NEW l \in GuessTx, GoTo(h, l),
                UNCHANGED <<today, row, admitted>>,
                pc[h] \in {"lockActive"} \cup GuessTx,
                l \in Winning => guess[h] = row[rowDay[h]].secret
         PROVE  Charged'
    <2>1. ChargedAt(h)'
      BY <1>10 DEF GoTo, request, Charged, ChargedAt, GuessTx, Winning
    <2>2. l \in PC
      BY DEF PC, GuessPC, GuessTx, Winning
    <2> QED
      BY <1>10, <2>1, <2>2, <1>2
  <1>11. ASSUME NEW h \in Handlers, LockActive(h) PROVE Charged'
    BY <1>11, <1>1, <1>10 DEF LockActive, GuessTx, Winning
  <1>12. ASSUME NEW h \in Handlers, Verify(h) PROVE Charged'
    <2>1. /\ UNCHANGED <<today, row, admitted>>
          /\ pc[h] \in GuessTx
          /\ \/ Answer(h)
             \/ GoTo(h, "commitMiss")
             \/ GoTo(h, "record") /\ guess[h] = row[rowDay[h]].secret
      BY <1>12 DEF Verify, Matches, GuessTx
    <2> QED
      BY <2>1, <1>1, <1>10 DEF GuessTx, Winning
  <1>13. ASSUME NEW h \in Handlers, Record(h) \/ Publish(h) PROVE Charged'
    <2>1. guess[h] = row[rowDay[h]].secret /\ pc[h] \in GuessTx
      BY <1>13 DEF Record, Publish, Charged, Winning, GuessTx
    <2> QED
      BY <1>13, <2>1, <1>10 DEF Record, Publish, Winning, GuessTx
  <1>14. ASSUME NEW h \in Handlers,
                \/ Create(h) \/ CommitWin(h) \/ CommitMiss(h) \/ CommitOld(h)
                \/ Alert(h) \/ Abort(h) \/ CommitReplyLost(h)
         PROVE  Charged'
    BY <1>14, <1>1
       DEF Create, CommitWin, CommitMiss, CommitOld, Alert, Abort, CommitReplyLost
  <1>15. ASSUME NEW h \in Handlers,
                \/ Find(h) \/ LockClaim(h) \/ FindPayout(h) \/ InsertPayout(h)
                \/ CommitNew(h)
         PROVE  Charged'
    BY <1>15, <1>1, <1>3
       DEF Find, LockClaim, FindPayout, InsertPayout, CommitNew, ClaimPC
  <1> QED
    BY <1>4, <1>5, <1>6, <1>7, <1>8, <1>9, <1>11, <1>12, <1>13, <1>14, <1>15
       DEF Next, Step, Lock

LEMMA GuessInvNext == LockInv /\ GuessInv /\ [Next]_vars => GuessInv'
  <1> SUFFICES ASSUME LockInv, GuessInv, [Next]_vars PROVE GuessInv'
    OBVIOUS
  <1>1. Charged'
    BY ChargedNext DEF GuessInv
  <1>2. ASSUME NEW d \in Days, NEW u \in Users, SolvedBy(u, d)
        PROVE  SolvedBy(u, d)'
    BY <1>2, SettledStep, AdmittedGrows DEF SolvedBy, Exists
  <1>3. ASSUME NEW d \in Days, NEW u \in Users, IsWonBy(d, u)', ~IsWonBy(d, u)
        PROVE  SolvedBy(u, d)
    <2>1. PICK h \in Handlers :
            /\ pc[h] = "commitWin" /\ rowDay[h] = d
            /\ row' = [row EXCEPT ![d] = WonBy(@, user[h])]
      <3>1. ASSUME NEW h \in Handlers, ~Exists(rowDay[h]),
                   NEW c \in Codes, NEW p \in Prizes,
                   row' = [row EXCEPT ![rowDay[h]] = NewChallenge(c, p)]
            PROVE  ~IsWonBy(d, u)'
        BY <1>3, <3>1 DEF LockInv, TypeOK, NewChallenge, IsWonBy, Exists
      <3>2. ASSUME NEW h \in Handlers, rowDay[h] # d,
                   row' = [row EXCEPT ![rowDay[h]] = WonBy(@, user[h])]
            PROVE  ~IsWonBy(d, u)'
        BY <1>3, <3>2 DEF LockInv, TypeOK, IsWonBy, Exists
      <3>3. UNCHANGED row => ~IsWonBy(d, u)'
        BY <1>3 DEF IsWonBy, Exists
      <3> QED
        BY <1>3, <3>1, <3>2, <3>3, RowWrites
    <2>2. row[d] \in Challenge /\ user[h] \in Users /\ Exists(d)
      BY <2>1 DEF LockInv, TypeOK, Held, GuessTx, Winning, IsActive, Exists
    <2>3. user[h] = u
      BY <1>3, <2>1, <2>2 DEF LockInv, TypeOK, WonBy, Challenge, IsWonBy
    <2>4. /\ guess[h] = row[d].secret
          /\ <<user[h], guess[h], strDay[h]>> \in admitted
          /\ strDay[h] \in {d - 1, d}
      BY <2>1 DEF GuessInv, Charged, GuessTx, Winning
    <2> QED
      BY <2>2, <2>3, <2>4 DEF SolvedBy
  <1>4. WinnerGuessedIt'
    <2> SUFFICES ASSUME NEW d \in Days, NEW u \in Users, IsWonBy(d, u)'
                 PROVE  SolvedBy(u, d)'
      BY DEF WinnerGuessedIt
    <2>1. SolvedBy(u, d)
      BY <1>3 DEF GuessInv, WinnerGuessedIt
    <2> QED
      BY <1>2, <2>1
  <1> QED
    BY <1>1, <1>4 DEF GuessInv

(* The winner of a day had a guess equal to its secret charged and         *)
(* admitted, that day or, across midnight, the day before.                 *)
THEOREM WinnerGuessedItHolds == Spec => []WinnerGuessedIt
  <1>1. Init => GuessInv
    BY DEF Init, GuessInv, WinnerGuessedIt, Charged, IsWonBy, Exists, GuessTx,
           Winning
  <1>2. GuessInv => WinnerGuessedIt
    BY DEF GuessInv
  <1> QED
    BY <1>1, <1>2, GuessInvNext, LockInvAlways, PTL DEF Spec

-----------------------------------------------------------------------------
(* Redis and Postgres.                                                     *)

(* Who is the winner of a day, or about to be.                             *)
Wins(u, d) == IsWonBy(d, u) \/ WinningNow(u, d)

(* A handler that found the secret leaves its transaction by the commit    *)
(* that makes its user the winner, as long as nothing fails.               *)
LEMMA WinningGoesOn ==
    ASSUME TypeOK, [Next]_vars, faults' = faults,
           NEW h \in Handlers, pc[h] \in Winning
    PROVE  \/ CommitWin(h)
           \/ /\ pc'[h] \in Winning
              /\ user'[h] = user[h] /\ rowDay'[h] = rowDay[h]
  <1> DEFINE Stays == /\ pc'[h] \in Winning
                      /\ user'[h] = user[h] /\ rowDay'[h] = rowDay[h]
  <1> USE DEF TypeOK, Winning
  <1>1. CASE NextDay \/ UNCHANGED vars
    BY <1>1 DEF NextDay, request, vars
  <1>2. ASSUME NEW g \in Handlers, Abort(g) \/ CommitReplyLost(g) PROVE FALSE
    BY <1>2 DEF Abort, CommitReplyLost, Fault
  <1>3. ASSUME NEW g \in Handlers \ {h}, NEW l \in PC, Answer(g) \/ GoTo(g, l)
        PROVE  Stays
    BY <1>3 DEF Answer, GoTo, request
  <1>4. ASSUME NEW l \in Winning, GoTo(h, l) PROVE Stays
    BY <1>4 DEF GoTo, request
  <1>5. ASSUME NEW g \in Handlers,
               ReceiveDaily(g) \/ ReceiveGuess(g) \/ ReceiveClaim(g) \/ ReadDate(g)
        PROVE  Stays
    BY <1>5 DEF ReceiveDaily, ReceiveGuess, ReceiveClaim, Receive, ReadDate
  <1>6. ASSUME NEW g \in Handlers, Record(g) \/ Publish(g) PROVE Stays
    BY <1>6, <1>3, <1>4 DEF Record, Publish, PC, GuessPC
  <1>7. ASSUME NEW g \in Handlers, CommitWin(g), g # h PROVE Stays
    BY <1>7, <1>3 DEF CommitWin, PC
  <1>8. ASSUME NEW g \in Handlers,
               \/ Lock(g) \/ Find(g) \/ Create(g) \/ Charge(g) \/ Verify(g)
               \/ CommitMiss(g) \/ FindPayout(g) \/ InsertPayout(g)
               \/ CommitNew(g) \/ CommitOld(g) \/ Alert(g)
        PROVE  Stays
    <2>1. g # h
      BY <1>8 DEF Lock, LockActive, LockClaim, Find, Create, Charge, Verify,
                  CommitMiss, FindPayout, InsertPayout, CommitNew, CommitOld,
                  Alert
    <2>2. \E l \in PC : Answer(g) \/ GoTo(g, l)
      BY <1>8 DEF Lock, LockActive, LockClaim, Find, Create, Charge, Verify,
                  CommitMiss, FindPayout, InsertPayout, CommitNew, CommitOld,
                  Alert, PC, GuessPC, ClaimPC, DailyPC
    <2> QED
      BY <2>1, <2>2, <1>3
  <1> QED
    BY <1>1, <1>2, <1>5, <1>6, <1>7, <1>8 DEF Next, Step

LEMMA WinsStays ==
    ASSUME LockInv, [Next]_vars, faults' = faults, NEW d \in Days,
           NEW u \in Users, Wins(u, d)
    PROVE  Wins(u, d)'
  <1>1. CASE IsWonBy(d, u)
    BY <1>1, WonStays DEF Wins
  <1>2. CASE WinningNow(u, d)
    <2>1. PICK h \in Handlers : pc[h] \in Winning /\ user[h] = u /\ rowDay[h] = d
      BY <1>2 DEF WinningNow
    <2>2. CASE CommitWin(h)
      <3>1. row[d] \in Challenge
        BY <2>1 DEF LockInv, TypeOK, Held, GuessTx, IsActive, Exists
      <3>2. row'[d] = WonBy(row[d], u) /\ WonBy(row[d], u) \in Challenge
        BY <2>1, <2>2, <3>1, WonByType DEF CommitWin, LockInv, TypeOK
      <3>3. row'[d].active = FALSE /\ row'[d].winner = u /\ row'[d] # NoRow
        BY <3>1, <3>2, ChallengeAssumption DEF WonBy, Challenge
      <3> QED
        BY <3>3 DEF Wins, IsWonBy, Exists
    <2>3. CASE pc'[h] \in Winning /\ user'[h] = user[h] /\ rowDay'[h] = rowDay[h]
      BY <2>1, <2>3 DEF Wins, WinningNow
    <2> QED
      BY <2>1, <2>2, <2>3, WinningGoesOn DEF LockInv
  <1> QED
    BY <1>1, <1>2 DEF Wins

(* What a step adds to zeroed and announced is of a handler that found the *)
(* secret.                                                                 *)
LEMMA EffectsGrow ==
    ASSUME TypeOK, [Next]_vars
    PROVE  /\ \A z \in zeroed' \ zeroed :
                 \E h \in Handlers, u \in Users, d \in Days :
                    /\ pc[h] = "verify" /\ u = user[h] /\ d = rowDay[h]
                    /\ z = <<u, strDay[h]>> /\ WinningNow(u, d)'
           /\ \A d \in announced' \ announced : \E h \in Handlers :
                 pc[h] = "publish" /\ d = rowDay[h]
  <1>1. ASSUME NEW h \in Handlers, NEW u \in Users, NEW d \in Days,
               u = user[h], d = rowDay[h], Verify(h)
        PROVE  /\ UNCHANGED announced
               /\ \/ UNCHANGED zeroed
                  \/ /\ pc[h] = "verify" /\ WinningNow(u, d)'
                     /\ zeroed' = zeroed \cup {<<u, strDay[h]>>}
    <2>1. CASE GoTo(h, "record")
      <3>1. pc'[h] = "record" /\ user'[h] = u /\ rowDay'[h] = d
        BY <1>1, <2>1 DEF GoTo, request, TypeOK
      <3>2. WinningNow(u, d)'
        BY <3>1 DEF WinningNow, Winning
      <3> QED
        BY <1>1, <3>2 DEF Verify
    <2> QED
      BY <1>1, <2>1 DEF Verify
  <1>2. ASSUME NEW h \in Handlers, Publish(h)
        PROVE  /\ UNCHANGED zeroed /\ pc[h] = "publish"
               /\ announced' \subseteq announced \cup {rowDay[h]}
    BY <1>2 DEF Publish
  <1>3. \/ \E h \in Handlers : Verify(h) \/ Publish(h)
        \/ UNCHANGED <<zeroed, announced>>
    BY DEF Next, Step, Lock, vars, NextDay, ReceiveDaily, ReceiveGuess,
           ReceiveClaim, Receive, LockActive, LockClaim, Find, Create, ReadDate,
           Charge, Record, CommitWin, CommitMiss, FindPayout, InsertPayout,
           CommitNew, CommitOld, Alert, Abort, CommitReplyLost, effects
  <1>4. \A h \in Handlers : user[h] \in Users /\ rowDay[h] \in Days
    BY DEF TypeOK
  <1> QED
    BY <1>1, <1>2, <1>3, <1>4

(* Without a fault every account set to 0 and every announced day belong   *)
(* to a winner, recorded or about to be, across midnight included.         *)
THEOREM RedisAgreesHolds == Spec => []RedisAgrees
  <1>1. Init => RedisAgrees
    BY DEF Init, RedisAgrees
  <1>2. LockInv /\ Charged /\ RedisAgrees /\ [Next]_vars => RedisAgrees'
    <2> SUFFICES ASSUME LockInv, Charged, RedisAgrees, [Next]_vars, faults' = 0
                 PROVE  /\ \A z \in zeroed' : \E d \in Days \cap {z[2], z[2] + 1} :
                             Wins(z[1], d)'
                        /\ \A d \in announced' : \E u \in Users : Wins(u, d)'
      BY DEF RedisAgrees, Wins
    <2>1. faults' = faults
      <3>1. ASSUME NEW h \in Handlers, Lock(h) \/ Step(h)
            PROVE  faults' = faults
        BY <3>1 DEF Step, Lock, LockActive, LockClaim, Find, Create, ReadDate,
                    Charge, Verify, Record, Publish, CommitWin, CommitMiss,
                    FindPayout, InsertPayout, CommitNew, CommitOld, Alert
      <3>2. ASSUME NEW h \in Handlers, Abort(h) \/ CommitReplyLost(h)
            PROVE  faults' = faults + 1
        BY <3>2 DEF Abort, CommitReplyLost, Fault
      <3>3. faults \in Nat /\ faults' = 0
        BY DEF LockInv, TypeOK
      <3>4. ~\E h \in Handlers : Abort(h) \/ CommitReplyLost(h)
        BY <3>2, <3>3
      <3>5. ASSUME NEW h \in Handlers,
                   ReceiveDaily(h) \/ ReceiveGuess(h) \/ ReceiveClaim(h)
            PROVE  faults' = faults
        BY <3>5 DEF ReceiveDaily, ReceiveGuess, ReceiveClaim, Receive
      <3>6. NextDay \/ UNCHANGED vars => faults' = faults
        BY DEF NextDay, vars
      <3> QED
        BY <3>1, <3>4, <3>5, <3>6 DEF Next
    <2>2. ASSUME NEW z \in zeroed'
          PROVE  \E d \in Days \cap {z[2], z[2] + 1} : Wins(z[1], d)'
      <3>1. CASE z \in zeroed
        <4>1. PICK d \in Days \cap {z[2], z[2] + 1} : Wins(z[1], d)
          BY <2>1, <3>1 DEF RedisAgrees, Wins
        <4>2. z[1] \in Users
          BY <3>1 DEF LockInv, TypeOK
        <4> QED
          BY <2>1, <4>1, <4>2, WinsStays
      <3>2. CASE z \notin zeroed
        <4>1. PICK h \in Handlers, u \in Users, d \in Days :
                /\ pc[h] = "verify" /\ u = user[h] /\ d = rowDay[h]
                /\ z = <<u, strDay[h]>> /\ WinningNow(u, d)'
          BY <3>2, EffectsGrow DEF LockInv
        <4>2. strDay[h] \in {d - 1, d}
          BY <4>1 DEF Charged, GuessTx
        <4>3. d \in Days \cap {z[2], z[2] + 1} /\ z[1] = u
          BY <4>1, <4>2 DEF Days
        <4> QED
          BY <4>1, <4>3 DEF Wins
      <3> QED
        BY <3>1, <3>2
    <2>3. ASSUME NEW d \in announced' PROVE \E u \in Users : Wins(u, d)'
      <3>1. PICK u \in Users : Wins(u, d) /\ d \in Days
        <4>1. CASE d \in announced
          BY <2>1, <4>1 DEF RedisAgrees, Wins, LockInv, TypeOK
        <4>2. CASE d \notin announced
          <5>1. PICK h \in Handlers : pc[h] = "publish" /\ d = rowDay[h]
            BY <4>2, EffectsGrow DEF LockInv
          <5> QED
            BY <5>1 DEF LockInv, TypeOK, Wins, WinningNow, Winning
        <4> QED
          BY <4>1, <4>2
      <3> QED
        BY <2>1, <3>1, WinsStays
    <2> QED
      BY <2>2, <2>3
  <1>3. Init => Charged
    BY DEF Init, Charged, GuessTx, Winning
  <1> QED
    BY <1>1, <1>2, <1>3, ChargedNext, LockInvAlways, PTL DEF Spec
=============================================================================
