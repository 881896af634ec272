------------------------ MODULE AttemptLedgerProofs ------------------------
(***************************************************************************)
(* The safety properties of AttemptLedger for every set of accounts and    *)
(* handlers, every allowance, every cap and every value of the bounds.     *)
(***************************************************************************)
EXTENDS AttemptLedger, TLAPS

(* The cap's test and count are one command, so the key never passes it;   *)
(* a restart of Redis forgets at most one day's worth of rewards.          *)
AdCapInv ==
    \A k \in Accounts :
        /\ watched[k] <= DailyAdLimit
        /\ granted[k] <= DailyAdLimit * restarts + watched[k]

(* Without a restart, a handler that is past the seeding of its account    *)
(* finds the key there.                                                    *)
KeyPresent ==
    restarts = 0 =>
        \A h \in Handlers : pc[h] \in {"decr", "script", "verify"}
                                => attempts[acct[h]] # Absent

(* Without a restart, a missing key was never touched and a present one    *)
(* was written at least once.                                              *)
Untouched ==
    restarts = 0 =>
        \A k \in Accounts :
            IF attempts[k] = Absent
            THEN /\ seeds[k] = 0 /\ admitted[k] = 0 /\ rejected[k] = 0
                 /\ lost[k] = 0 /\ granted[k] = 0
            ELSE seeds[k] >= 1

(* What is left and what was used of the free allowance, on an account     *)
(* that is not locked: together they never fall below the allowance.       *)
AllowanceKept ==
    restarts = 0 =>
        \A k \in Accounts \ locked :
            /\ attempts[k] # Absent /\ attempts[k] >= 0
                  => attempts[k] + admitted[k] + lost[k] >= FreeAttempts
            /\ attempts[k] # Absent /\ attempts[k] < 0
                  => admitted[k] + lost[k] >= FreeAttempts
            /\ rejected[k] > 0 => admitted[k] + lost[k] >= FreeAttempts

-----------------------------------------------------------------------------
LEMMA Distributes == \A m, n \in Nat : m * (n + 1) = m * n + m /\ m * n \in Nat
  BY SMT

(* Every variable keeps its type.                                          *)
LEMMA TypeInit == Init => TypeOK
  BY DEF Init, TypeOK, PC

LEMMA TypeNext == TypeOK /\ [Next]_vars => TypeOK'
  <1> SUFFICES ASSUME TypeOK, [Next]_vars PROVE TypeOK'
    OBVIOUS
  <1> USE DEF TypeOK, PC, GuessPC, ReadPC, RewardPC, GoTo, store, history, bounds
  <1>value. \A k \in Accounts : Value(k) \in Int
    BY DEF Value
  <1>free. FreeAttempts \in Int
    BY LedgerAssumption
  <1>early. early' \in SUBSET Handlers
    BY DEF Next, Step, Disturb, Remember, RedisRestart, vars
  <1>1. ASSUME NEW h \in Handlers, NEW k \in Accounts, Receive(h, k)
        PROVE  TypeOK'
    BY <1>1, <1>early DEF Receive
  <1>2. ASSUME NEW h \in Handlers, Exists(h) PROVE TypeOK'
    BY <1>2, <1>early DEF Exists
  <1>3. ASSUME NEW h \in Handlers, SeedGuess(h) PROVE TypeOK'
    BY <1>3, <1>early, <1>free DEF SeedGuess, SetFree
  <1>4. ASSUME NEW h \in Handlers, Decr(h) PROVE TypeOK'
    BY <1>4, <1>early, <1>value DEF Decr, Decrement
  <1>5. ASSUME NEW h \in Handlers, AnswerGuess(h) PROVE TypeOK'
    BY <1>5, <1>early DEF AnswerGuess
  <1>6. ASSUME NEW h \in Handlers, LockOnSuccess(h) PROVE TypeOK'
    BY <1>6, <1>early DEF LockOnSuccess
  <1>7. ASSUME NEW h \in Handlers, Get(h) PROVE TypeOK'
    BY <1>7, <1>early DEF Get
  <1>8. ASSUME NEW h \in Handlers, SeedRead(h) PROVE TypeOK'
    BY <1>8, <1>early, <1>free DEF SeedRead, SetFree
  <1>9. ASSUME NEW h \in Handlers, AdScript(h) PROVE TypeOK'
    BY <1>9, <1>early, <1>value DEF AdScript, RunScript
  <1>10. ASSUME NEW h \in Handlers, CommandFails(h) PROVE TypeOK'
    BY <1>10, <1>early DEF CommandFails
  <1>11. ASSUME NEW h \in Handlers, ReplyLost(h) PROVE TypeOK'
    BY <1>11, <1>early, <1>value, <1>free
       DEF ReplyLost, SeedPC, SetFree, Decrement, RunScript
  <1>12. CASE RedisRestart
    BY <1>12, <1>early DEF RedisRestart
  <1>13. CASE UNCHANGED vars
    BY <1>13, <1>early DEF vars
  <1> QED
    BY <1>1, <1>2, <1>3, <1>4, <1>5, <1>6, <1>7, <1>8, <1>9, <1>10, <1>11,
       <1>12, <1>13 DEF Next, Step, Disturb

(* Type correctness, for every instance.                                   *)
THEOREM TypeCorrect == Spec => []TypeOK
  BY TypeInit, TypeNext, PTL DEF Spec

-----------------------------------------------------------------------------
(* No overlap of callbacks, repeated deliveries or lost replies grants an  *)
(* account more rewards than the cap per life of the store.                *)
THEOREM AdCapHolds == Spec => []AdCap
  <1>1. Init => AdCapInv
    <2> SUFFICES ASSUME Init, NEW k \in Accounts
                 PROVE  /\ watched[k] <= DailyAdLimit
                        /\ granted[k] <= DailyAdLimit * restarts + watched[k]
      BY DEF AdCapInv
    <2>1. watched[k] = 0 /\ granted[k] = 0 /\ restarts = 0
      BY DEF Init
    <2>2. DailyAdLimit \in Nat /\ DailyAdLimit * restarts \in Nat
      BY <2>1, LedgerAssumption, Distributes
    <2> QED
      BY <2>1, <2>2
  <1>2. TypeOK /\ AdCapInv /\ [Next]_vars => AdCapInv'
    <2> SUFFICES ASSUME TypeOK, AdCapInv, [Next]_vars PROVE AdCapInv'
      OBVIOUS
    <2>limit. DailyAdLimit \in Nat
      BY LedgerAssumption
    <2>1. ASSUME NEW k \in Accounts, RunScript(k), UNCHANGED restarts
          PROVE  AdCapInv'
      <3>1. DailyAdLimit * restarts \in Nat
        BY <2>limit, Distributes DEF TypeOK
      <3> QED
        BY <2>1, <2>limit, <3>1 DEF RunScript, UnderAdCap, TypeOK, AdCapInv
    <2>2. CASE UNCHANGED <<watched, granted, restarts>>
      BY <2>2 DEF AdCapInv
    <2>3. CASE RedisRestart
      <3>1. DailyAdLimit * (restarts + 1) = DailyAdLimit * restarts + DailyAdLimit
        BY <2>limit, Distributes DEF TypeOK
      <3>2. DailyAdLimit * restarts \in Nat
        BY <2>limit, Distributes DEF TypeOK
      <3> QED
        BY <2>3, <2>limit, <3>1, <3>2
           DEF RedisRestart, history, TypeOK, AdCapInv
    <2>4. ASSUME NEW h \in Handlers, AdScript(h) PROVE AdCapInv'
      BY <2>4, <2>1 DEF AdScript, TypeOK, bounds
    <2>5. ASSUME NEW h \in Handlers, ReplyLost(h) PROVE AdCapInv'
      BY <2>5, <2>1, <2>2 DEF ReplyLost, TypeOK
    <2> QED
      BY <2>2, <2>3, <2>4, <2>5
         DEF Next, Step, Disturb, vars, Receive, Exists, SeedGuess, Decr,
             AnswerGuess, LockOnSuccess, Get, SeedRead, CommandFails, store,
             history, bounds
  <1>3. TypeOK /\ AdCapInv => AdCap
    <2> SUFFICES ASSUME TypeOK, AdCapInv, NEW k \in Accounts
                 PROVE  granted[k] <= DailyAdLimit * (restarts + 1)
      BY DEF AdCap
    <2>1. /\ DailyAdLimit * (restarts + 1) = DailyAdLimit * restarts + DailyAdLimit
          /\ DailyAdLimit * restarts \in Nat
      BY LedgerAssumption, Distributes DEF TypeOK
    <2> QED
      BY <2>1, LedgerAssumption DEF AdCapInv, TypeOK
  <1> QED
    BY <1>1, <1>2, <1>3, TypeCorrect, PTL DEF Spec

-----------------------------------------------------------------------------
(* What an account has left and has used never exceeds the allowances      *)
(* written to it plus its rewards, for all interleavings of EXISTS, SET,   *)
(* DECR and the script, lost replies and restarts included.                *)
THEOREM GuessBoundHolds == Spec => []GuessBound
  <1>free. FreeAttempts \in Nat
    BY LedgerAssumption
  <1>1. Init => GuessBound
    <2> SUFFICES ASSUME Init, NEW k \in Accounts
                 PROVE  admitted[k] + (IF Value(k) > 0 THEN Value(k) ELSE 0)
                          <= FreeAttempts * seeds[k] + granted[k]
      BY DEF GuessBound
    <2>1. /\ admitted[k] = 0 /\ seeds[k] = 0 /\ granted[k] = 0
          /\ Value(k) = 0
      BY DEF Init, Value
    <2>2. FreeAttempts * seeds[k] \in Nat
      BY <2>1, <1>free, Distributes
    <2> QED
      BY <2>1, <2>2
  <1>2. TypeOK /\ GuessBound /\ [Next]_vars => GuessBound'
    <2> SUFFICES ASSUME TypeOK, GuessBound, [Next]_vars PROVE GuessBound'
      OBVIOUS
    <2> USE LedgerAssumption DEF TypeOK, GuessBound, Value
    <2>0. \A k \in Accounts :
             /\ FreeAttempts * seeds[k] \in Nat
             /\ FreeAttempts * (seeds[k] + 1)
                  = FreeAttempts * seeds[k] + FreeAttempts
      BY <1>free, Distributes
    <2>1. CASE UNCHANGED <<attempts, admitted, seeds, granted>>
      BY <2>1
    <2>2. ASSUME NEW k \in Accounts, SetFree(k), UNCHANGED <<admitted, granted>>
          PROVE  GuessBound'
      BY <2>2, <2>0 DEF SetFree
    <2>3. ASSUME NEW k \in Accounts, RunScript(k), UNCHANGED <<admitted, seeds>>
          PROVE  GuessBound'
      BY <2>3, <2>0 DEF RunScript
    <2>4. ASSUME NEW h \in Handlers, Decr(h) PROVE GuessBound'
      BY <2>4, <2>0 DEF Decr, Decrement, Admits
    <2>5. ASSUME NEW h \in Handlers, LockOnSuccess(h) PROVE GuessBound'
      BY <2>5, <2>0 DEF LockOnSuccess
    <2>6. ASSUME NEW h \in Handlers, ReplyLost(h) PROVE GuessBound'
      <3>1. CASE pc[h] = "decr" /\ Decrement(acct[h])
                   /\ UNCHANGED <<admitted, seeds, granted>>
        BY <3>1, <2>0 DEF Decrement
      <3> QED
        BY <2>6, <3>1, <2>2, <2>3 DEF ReplyLost
    <2>7. CASE RedisRestart
      BY <2>7, <2>0 DEF RedisRestart, history
    <2>8. ASSUME NEW h \in Handlers, SeedGuess(h) PROVE GuessBound'
      BY <2>8, <2>2 DEF SeedGuess
    <2>9. ASSUME NEW h \in Handlers, SeedRead(h) PROVE GuessBound'
      BY <2>9, <2>2 DEF SeedRead
    <2>10. ASSUME NEW h \in Handlers, AdScript(h) PROVE GuessBound'
      BY <2>10, <2>3 DEF AdScript
    <2> QED
      BY <2>1, <2>4, <2>5, <2>6, <2>7, <2>8, <2>9, <2>10
         DEF Next, Step, Disturb, vars, Receive, Exists, AnswerGuess, Get,
             CommandFails, store, history
  <1> QED
    BY <1>1, <1>2, TypeCorrect, PTL DEF Spec

-----------------------------------------------------------------------------
(* The two accounting properties need to know that a running handler never *)
(* meets a missing key and that a missing key has no history.              *)
LedgerInv == KeyPresent /\ Untouched /\ AllowanceKept /\ ExactLedger

LEMMA LedgerInvInit == Init => LedgerInv
  BY LedgerAssumption
     DEF Init, LedgerInv, KeyPresent, Untouched, AllowanceKept, ExactLedger

(* SET on a missing key starts the ledger; on a present one it makes       *)
(* seeds[k] at least 2 and leaves at least the allowance.                  *)
LEMMA SeedKeepsLedger ==
    ASSUME TypeOK, LedgerInv, NEW h \in Handlers, pc[h] \in SeedPC,
           SetFree(acct[h]), \E l \in PC : GoTo(h, l),
           UNCHANGED <<acct, admitted, rejected, lost, granted, locked, restarts>>
    PROVE  LedgerInv'
  <1> USE LedgerAssumption DEF TypeOK, LedgerInv, SetFree, GoTo, SeedPC
  <1>1. KeyPresent'
    BY DEF KeyPresent
  <1>2. Untouched'
    BY DEF Untouched
  <1>3. AllowanceKept'
    BY DEF AllowanceKept, Untouched
  <1>4. ExactLedger'
    BY DEF ExactLedger, Untouched
  <1> QED
    BY <1>1, <1>2, <1>3, <1>4

(* The script adds the same one to the key and to the rewards.             *)
LEMMA ScriptKeepsLedger ==
    ASSUME TypeOK, LedgerInv, NEW h \in Handlers, pc[h] = "script",
           RunScript(acct[h]), GoTo(h, "idle") \/ UNCHANGED pc,
           UNCHANGED <<acct, admitted, rejected, lost, seeds, locked, restarts>>
    PROVE  LedgerInv'
  <1> USE LedgerAssumption
      DEF TypeOK, LedgerInv, RunScript, GoTo, Value, KeyPresent
  <1>1. KeyPresent'
    OBVIOUS
  <1>2. Untouched'
    BY DEF Untouched
  <1>3. AllowanceKept'
    BY DEF AllowanceKept
  <1>4. ExactLedger'
    BY DEF ExactLedger
  <1> QED
    BY <1>1, <1>2, <1>3, <1>4

(* A DECR takes one from the key and is counted once: as admitted, as      *)
(* rejected, or as lost.                                                   *)
LEMMA DecrKeepsLedger ==
    ASSUME TypeOK, LedgerInv, NEW h \in Handlers, NEW k \in Accounts,
           pc[h] = "decr", k = acct[h], Decrement(k),
           \/ /\ Value(k) - 1 >= 0
              /\ admitted' = [admitted EXCEPT ![k] = @ + 1]
              /\ UNCHANGED <<rejected, lost>>
           \/ /\ Value(k) - 1 < 0
              /\ rejected' = [rejected EXCEPT ![k] = @ + 1]
              /\ UNCHANGED <<admitted, lost>>
           \/ /\ lost' = [lost EXCEPT ![k] = @ + 1]
              /\ UNCHANGED <<admitted, rejected>>,
           GoTo(h, "verify") \/ GoTo(h, "idle") \/ UNCHANGED pc,
           UNCHANGED <<acct, seeds, granted, locked, restarts>>
    PROVE  LedgerInv'
  <1> USE LedgerAssumption
      DEF TypeOK, LedgerInv, Decrement, GoTo, Value, KeyPresent
  <1>1. KeyPresent'
    OBVIOUS
  <1>2. Untouched'
    BY DEF Untouched
  <1>3. AllowanceKept'
    BY DEF AllowanceKept
  <1>4. ExactLedger'
    BY DEF ExactLedger
  <1> QED
    BY <1>1, <1>2, <1>3, <1>4

LEMMA LedgerInvNext == TypeOK /\ LedgerInv /\ [Next]_vars => LedgerInv'
  <1> SUFFICES ASSUME TypeOK, LedgerInv, [Next]_vars PROVE LedgerInv'
    OBVIOUS
  <1> USE DEF PC, GuessPC, ReadPC, RewardPC, SeedPC, store, history, bounds
  <1>1. ASSUME NEW h \in Handlers, NEW k \in Accounts, Receive(h, k)
        PROVE  LedgerInv'
    BY <1>1 DEF Receive, GoTo, TypeOK, LedgerInv, KeyPresent, Untouched,
                AllowanceKept, ExactLedger
  <1>2. ASSUME NEW h \in Handlers,
               Exists(h) \/ AnswerGuess(h) \/ Get(h) \/ CommandFails(h)
        PROVE  LedgerInv'
    BY <1>2 DEF Exists, AnswerGuess, Get, CommandFails, GoTo, TypeOK, LedgerInv,
                KeyPresent, Untouched, AllowanceKept, ExactLedger
  <1>3. ASSUME NEW h \in Handlers, SeedGuess(h) PROVE LedgerInv'
    BY <1>3, SeedKeepsLedger DEF SeedGuess
  <1>4. ASSUME NEW h \in Handlers, SeedRead(h) PROVE LedgerInv'
    BY <1>4, SeedKeepsLedger DEF SeedRead
  <1>5. ASSUME NEW h \in Handlers, Decr(h) PROVE LedgerInv'
    <2>1. acct[h] \in Accounts /\ Value(acct[h]) \in Int
      BY DEF TypeOK, Value
    <2> QED
      BY <1>5, <2>1, DecrKeepsLedger DEF Decr, Admits
  <1>6. ASSUME NEW h \in Handlers, LockOnSuccess(h) PROVE LedgerInv'
    BY <1>6, LedgerAssumption
       DEF LockOnSuccess, GoTo, TypeOK, LedgerInv, KeyPresent, Untouched,
           AllowanceKept, ExactLedger
  <1>7. ASSUME NEW h \in Handlers, AdScript(h) PROVE LedgerInv'
    BY <1>7, ScriptKeepsLedger DEF AdScript
  <1>8. ASSUME NEW h \in Handlers, ReplyLost(h) PROVE LedgerInv'
    <2>1. acct[h] \in Accounts /\ Value(acct[h]) \in Int
      BY DEF TypeOK, Value
    <2>2. UNCHANGED <<acct, admitted, rejected, locked, restarts>>
          /\ (GoTo(h, "idle") \/ UNCHANGED pc)
      BY <1>8 DEF ReplyLost
    <2>3. CASE /\ pc[h] \in SeedPC /\ SetFree(acct[h])
               /\ UNCHANGED <<watched, lost, granted>>
      <3>1. \E l \in PC : GoTo(h, l)
        BY <2>2, <2>3 DEF GoTo, TypeOK
      <3> QED
        BY <2>2, <2>3, <3>1, SeedKeepsLedger
    <2>4. CASE /\ pc[h] = "decr" /\ Decrement(acct[h])
               /\ lost' = [lost EXCEPT ![acct[h]] = @ + 1]
               /\ UNCHANGED <<watched, seeds, granted>>
      BY <2>1, <2>2, <2>4, DecrKeepsLedger
    <2>5. CASE /\ pc[h] = "script" /\ RunScript(acct[h])
               /\ UNCHANGED <<lost, seeds>>
      BY <2>2, <2>5, ScriptKeepsLedger
    <2> QED
      BY <1>8, <2>3, <2>4, <2>5 DEF ReplyLost
  <1>9. CASE RedisRestart
    BY <1>9 DEF RedisRestart, TypeOK, LedgerInv, KeyPresent, Untouched,
                AllowanceKept, ExactLedger
  <1>10. CASE UNCHANGED vars
    BY <1>10 DEF vars, TypeOK, LedgerInv, KeyPresent, Untouched, AllowanceKept,
                 ExactLedger
  <1> QED
    BY <1>1, <1>2, <1>3, <1>4, <1>5, <1>6, <1>7, <1>8, <1>9, <1>10
       DEF Next, Step, Disturb

(* No interleaving of EXISTS, SET and DECR turns a guess away while part   *)
(* of the free allowance is unused.                                        *)
THEOREM NeverTurnedAwayEarlyHolds == Spec => []NeverTurnedAwayEarly
  <1>1. LedgerInv => NeverTurnedAwayEarly
    BY DEF LedgerInv, AllowanceKept, NeverTurnedAwayEarly
  <1> QED
    BY <1>1, LedgerInvInit, LedgerInvNext, TypeCorrect, PTL DEF Spec

(* Seeded once, the key is an exact ledger of rewards and DECRs.           *)
THEOREM ExactLedgerHolds == Spec => []ExactLedger
  <1>1. LedgerInv => ExactLedger
    BY DEF LedgerInv
  <1> QED
    BY <1>1, LedgerInvInit, LedgerInvNext, TypeCorrect, PTL DEF Spec

-----------------------------------------------------------------------------
(* The first touch of the day by several requests at once.                 *)

(* Who is about to SET a key that is there was about to SET it when it was *)
(* written first.                                                          *)
SeedInv ==
    restarts = 0 =>
        \A h \in Handlers :
            pc[h] \in SeedPC /\ attempts[acct[h]] # Absent => h \in early

(* The step of a handler: only Exists and Get, finding the key missing,    *)
(* bring a handler to its SET, and the first SET is remembered.            *)
LEMMA SeedInvNext ==
    ASSUME TypeOK, LedgerInv, SeedInv, [Next]_vars, TypeOK', LedgerInv'
    PROVE  SeedInv'
  <1> SUFFICES ASSUME restarts' = 0, NEW g \in Handlers,
                      pc'[g] \in SeedPC, attempts'[acct'[g]] # Absent
               PROVE  g \in early'
    BY DEF SeedInv
  <1>1. CASE RedisRestart
    BY <1>1 DEF RedisRestart, TypeOK
  <1>2. CASE UNCHANGED vars
    BY <1>2 DEF vars, SeedInv
  <1>3. ASSUME NEW h \in Handlers, Step(h) \/ Disturb(h)
        PROVE  g \in early'
    <2> USE DEF TypeOK, SeedPC, GoTo, store, history, bounds
    <2>1. Remember /\ restarts = 0
      BY <1>3 DEF Step, Disturb, Receive, Exists, SeedGuess, Decr, AnswerGuess,
                  LockOnSuccess, Get, SeedRead, AdScript, CommandFails, ReplyLost
    <2>2. acct'[g] = acct[g] /\ acct[g] \in Accounts
      BY <1>3 DEF Step, Disturb, Receive, Exists, SeedGuess, Decr, AnswerGuess,
                  LockOnSuccess, Get, SeedRead, AdScript, CommandFails, ReplyLost
    <2>3. seeds[acct[g]] >= 0 /\ seeds'[acct[g]] >= 1
      BY <2>2, <2>1 DEF LedgerInv, Untouched
    <2>4. CASE attempts[acct[g]] = Absent
      <3>1. seeds[acct[g]] = 0
        BY <2>1, <2>2, <2>4 DEF LedgerInv, Untouched
      <3> QED
        BY <2>1, <2>3, <3>1 DEF Remember
    <2>5. CASE attempts[acct[g]] # Absent
      <3>1. pc[g] \in SeedPC
        BY <1>3, <2>2, <2>5
           DEF Step, Disturb, Receive, Exists, SeedGuess, Decr, AnswerGuess,
               LockOnSuccess, Get, SeedRead, AdScript, CommandFails, ReplyLost
      <3> QED
        BY <2>1, <2>5, <3>1 DEF Remember, SeedInv
    <2> QED
      BY <2>4, <2>5
  <1> QED
    BY <1>1, <1>2, <1>3 DEF Next

(* As long as Redis keeps its data, a handler that is about to SET the     *)
(* allowance of a key that was SET before had found the key missing, with  *)
(* the same request, before that first SET: no request that came or looked *)
(* later resets a running count.                                           *)
THEOREM SeedsAreConcurrentHolds == Spec => []SeedsAreConcurrent
  <1>1. TypeOK /\ LedgerInv /\ SeedInv => SeedsAreConcurrent
    BY DEF TypeOK, LedgerInv, Untouched, SeedInv, SeedsAreConcurrent
  <1>2. Init => SeedInv
    BY DEF Init, SeedInv, SeedPC
  <1> QED
    BY <1>1, <1>2, SeedInvNext, LedgerInvInit, LedgerInvNext, TypeCorrect, PTL
       DEF Spec
=============================================================================
