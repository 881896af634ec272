--------------------------- MODULE AttemptLedger ---------------------------
(***************************************************************************)
(* The attempt counters and the ad counters in Redis                       *)
(* (src/backend/internal/services/redis.go), and the handlers that work on *)
(* them: POST /guess up to its admission (DecrementAndSave) and its        *)
(* LockOnSuccess, GET /challenge/attempts (GetOrCreateAttempts) and the ad *)
(* callback (IncrementAttemptAndAdsWatched).                               *)
(*                                                                         *)
(* An account stands for the suffix "{userID}:{date}" that the two keys    *)
(* attempts:{userID}:{date} and ads_watched:{userID}:{date} share.  One    *)
(* action is one Redis command, because each command is a round trip of    *)
(* its own and other handlers run between two of them; the Lua script is   *)
(* one command.  A key lives 26 hours and is refreshed by every write, so  *)
(* it outlives its date: expiry is not modelled, loss of the whole store   *)
(* is (the redis container of docker-compose.yml has no named volume).     *)
(***************************************************************************)
EXTENDS Integers

CONSTANTS
    Accounts,       \* the user-and-date suffixes of the Redis keys
    Handlers,       \* the request handlers that may run at the same time
    Absent,         \* the value of an attempts key that does not exist
    FreeAttempts,   \* what SET writes on the first touch of the day (5)
    DailyAdLimit,   \* rewarded ads per user and day (3)
    MaxRequests,    \* bound: requests received in a behaviour
    MaxFaults,      \* bound: Redis calls that fail or whose reply is lost
    MaxRestarts     \* bound: restarts of Redis that lose the data

ASSUME LedgerAssumption ==
    /\ Absent \notin Int
    /\ FreeAttempts \in Nat \ {0}
    /\ DailyAdLimit \in Nat
    /\ MaxRequests \in Nat
    /\ MaxFaults \in Nat
    /\ MaxRestarts \in Nat

VARIABLES
    attempts,   \* attempts[k]: the attempts key of account k
    watched,    \* watched[k]: the ads_watched key of account k (missing is 0)
    pc,         \* pc[h]: the Redis command handler h sends next
    acct,       \* acct[h]: the account of the request h serves
    \* what happened so far, which no code reads:
    admitted,   \* guesses let through by DecrementAndSave
    rejected,   \* guesses turned away with "no attempts left"
    lost,       \* DECRs Redis applied whose reply never reached the handler
    seeds,      \* SETs to FreeAttempts
    early,      \* handlers that have found their key missing, are about to
                \* SET it, and were when it was SET for the first time
    granted,    \* ad rewards the script granted
    locked,     \* accounts LockOnSuccess has set to 0
    started, faults, restarts   \* counters for the bounds

store   == <<attempts, watched>>
history == <<admitted, rejected, lost, seeds, granted, locked>>
bounds  == <<started, faults, restarts>>
vars    == <<attempts, watched, pc, acct, admitted, rejected, lost, seeds,
             early, granted, locked, started, faults, restarts>>

(* The commands still to come, by endpoint; "verify" is the guess between  *)
(* its admission and its answer.                                           *)
GuessPC  == {"exists", "seedGuess", "decr"}
ReadPC   == {"get", "seedRead"}
RewardPC == {"getReward", "seedReward", "script"}
SeedPC   == {"seedGuess", "seedRead", "seedReward"}
PC       == {"idle", "verify"} \cup GuessPC \cup ReadPC \cup RewardPC

-----------------------------------------------------------------------------
(* What the commands do to the store.                                      *)

(* INCR and DECR treat a missing key as 0.                                 *)
Value(k) == IF attempts[k] = Absent THEN 0 ELSE attempts[k]

(* Variant: lets the first negative value through.                         *)
AdmitsBelowZero(rem) == rem >= -1

(* Variant: takes the last attempt for one too many.                       *)
AdmitsAboveZero(rem) == rem > 0

(* ProcessGuess turns a guess away only when the decremented value is      *)
(* negative.                                                               *)
Admits(rem) == rem >= 0

(* SET attempts 5: both first-touch paths write the allowance.             *)
SetFree(k) ==
    /\ attempts' = [attempts EXCEPT ![k] = FreeAttempts]
    /\ seeds' = [seeds EXCEPT ![k] = @ + 1]

(* DECR attempts                                                           *)
Decrement(k) == attempts' = [attempts EXCEPT ![k] = Value(k) - 1]

(* Variant: the cap is passed by one.                                      *)
UpToAdCap(k) == watched[k] <= DailyAdLimit

(* The test the Lua script opens with.                                     *)
UnderAdCap(k) == watched[k] < DailyAdLimit

(* Variant: the attempt is granted before the cap is tested.               *)
GrantThenTest(k) ==
    /\ attempts' = [attempts EXCEPT ![k] = Value(k) + 1]
    /\ IF UnderAdCap(k)
       THEN /\ watched' = [watched EXCEPT ![k] = @ + 1]
            /\ granted' = [granted EXCEPT ![k] = @ + 1]
       ELSE UNCHANGED <<watched, granted>>

(* Variant: the ads left are counted down in a key that starts missing.    *)
CountAdsDown(k) ==
    /\ watched' = [watched EXCEPT ![k] = @ - 1]
    /\ attempts' = [attempts EXCEPT ![k] = Value(k) + 1]
    /\ granted' = [granted EXCEPT ![k] = @ + 1]

(* adRewardScript: the cap, then both increments, in one atomic command.   *)
RunScript(k) ==
    IF UnderAdCap(k)
    THEN /\ watched' = [watched EXCEPT ![k] = @ + 1]
         /\ attempts' = [attempts EXCEPT ![k] = Value(k) + 1]
         /\ granted' = [granted EXCEPT ![k] = @ + 1]
    ELSE UNCHANGED <<watched, attempts, granted>>

GoTo(h, label) == pc' = [pc EXCEPT ![h] = label]

-----------------------------------------------------------------------------
Init ==
    /\ attempts = [k \in Accounts |-> Absent]
    /\ watched = [k \in Accounts |-> 0]
    /\ pc = [h \in Handlers |-> "idle"]
    /\ acct \in [Handlers -> Accounts]
    /\ admitted = [k \in Accounts |-> 0]
    /\ rejected = [k \in Accounts |-> 0]
    /\ lost = [k \in Accounts |-> 0]
    /\ seeds = [k \in Accounts |-> 0]
    /\ early = {}
    /\ granted = [k \in Accounts |-> 0]
    /\ locked = {}
    /\ started = 0 /\ faults = 0 /\ restarts = 0

(* A request for account k reaches an idle handler: a guess, a read of the *)
(* counter or a callback of the ad network (its signature and timestamp    *)
(* already accepted; a delivery repeated by the network is received again).*)
Receive(h, k) ==
    /\ pc[h] = "idle"
    /\ started < MaxRequests
    /\ started' = started + 1
    /\ acct' = [acct EXCEPT ![h] = k]
    /\ \E first \in {"exists", "get", "getReward"} : GoTo(h, first)
    /\ UNCHANGED <<store, history, faults, restarts>>

(* Variant: writes the allowance whatever EXISTS answers.                  *)
SeedAlways(h) ==
    /\ pc[h] = "exists"
    /\ GoTo(h, "seedGuess")
    /\ UNCHANGED <<store, acct, history, bounds>>

(* DecrementAndSave: EXISTS                                                *)
Exists(h) ==
    /\ pc[h] = "exists"
    /\ GoTo(h, IF attempts[acct[h]] = Absent THEN "seedGuess" ELSE "decr")
    /\ UNCHANGED <<store, acct, history, bounds>>

(* DecrementAndSave: SET 5 after an EXISTS that answered 0                 *)
SeedGuess(h) ==
    /\ pc[h] = "seedGuess"
    /\ SetFree(acct[h])
    /\ GoTo(h, "decr")
    /\ UNCHANGED <<watched, acct, admitted, rejected, lost, granted, locked,
                   bounds>>

(* DecrementAndSave: DECR, and the test of ProcessGuess on its result      *)
Decr(h) ==
    LET k == acct[h] IN
    /\ pc[h] = "decr"
    /\ Decrement(k)
    /\ \/ /\ Admits(Value(k) - 1)
          /\ admitted' = [admitted EXCEPT ![k] = @ + 1]
          /\ GoTo(h, "verify")
          /\ UNCHANGED rejected
       \/ /\ ~Admits(Value(k) - 1)
          /\ rejected' = [rejected EXCEPT ![k] = @ + 1]
          /\ GoTo(h, "idle")
          /\ UNCHANGED admitted
    /\ UNCHANGED <<watched, acct, lost, seeds, granted, locked, bounds>>

(* The admitted guess is answered without LockOnSuccess: it was wrong, or  *)
(* the transaction failed (module DailyChallenge), or the SET of           *)
(* LockOnSuccess failed, an error the code drops.                          *)
AnswerGuess(h) ==
    /\ pc[h] = "verify"
    /\ GoTo(h, "idle")
    /\ UNCHANGED <<store, acct, history, bounds>>

(* LockOnSuccess: SET attempts 0 after a correct guess                     *)
LockOnSuccess(h) ==
    /\ pc[h] = "verify"
    /\ attempts' = [attempts EXCEPT ![acct[h]] = 0]
    /\ locked' = locked \cup {acct[h]}
    /\ GoTo(h, "idle")
    /\ UNCHANGED <<watched, acct, admitted, rejected, lost, seeds, granted,
                   bounds>>

(* GetOrCreateAttempts: GET, for /challenge/attempts and the ad callback   *)
Get(h) ==
    /\ \/ /\ pc[h] = "get"
          /\ GoTo(h, IF attempts[acct[h]] = Absent THEN "seedRead" ELSE "idle")
       \/ /\ pc[h] = "getReward"
          /\ GoTo(h, IF attempts[acct[h]] = Absent THEN "seedReward"
                                                   ELSE "script")
    /\ UNCHANGED <<store, acct, history, bounds>>

(* GetOrCreateAttempts: SET 5 after a GET that answered nil                *)
SeedRead(h) ==
    /\ \/ pc[h] = "seedRead" /\ GoTo(h, "idle")
       \/ pc[h] = "seedReward" /\ GoTo(h, "script")
    /\ SetFree(acct[h])
    /\ UNCHANGED <<watched, acct, admitted, rejected, lost, granted, locked,
                   bounds>>

(* IncrementAttemptAndAdsWatched: the script                               *)
AdScript(h) ==
    /\ pc[h] = "script"
    /\ RunScript(acct[h])
    /\ GoTo(h, "idle")
    /\ UNCHANGED <<acct, admitted, rejected, lost, seeds, locked, bounds>>

-----------------------------------------------------------------------------
(* Faults.                                                                 *)

(* A command never reaches Redis (connection refused, request cancelled by *)
(* the client): the handler returns its error.                             *)
CommandFails(h) ==
    /\ pc[h] \notin {"idle", "verify"}
    /\ faults < MaxFaults
    /\ faults' = faults + 1
    /\ GoTo(h, "idle")
    /\ UNCHANGED <<store, acct, history, started, restarts>>

(* A command that writes is applied but its reply is lost.  The handler    *)
(* either returns its error or the Redis client sends the command again    *)
(* (go-redis repeats a command after a network error by default).          *)
ReplyLost(h) ==
    LET k == acct[h] IN
    /\ faults < MaxFaults
    /\ faults' = faults + 1
    /\ \/ /\ pc[h] \in SeedPC
          /\ SetFree(k)
          /\ UNCHANGED <<watched, lost, granted>>
       \/ /\ pc[h] = "decr"
          /\ Decrement(k)
          /\ lost' = [lost EXCEPT ![k] = @ + 1]
          /\ UNCHANGED <<watched, seeds, granted>>
       \/ /\ pc[h] = "script"
          /\ RunScript(k)
          /\ UNCHANGED <<lost, seeds>>
    /\ GoTo(h, "idle") \/ UNCHANGED pc
    /\ UNCHANGED <<acct, admitted, rejected, locked, started, restarts>>

(* Redis restarts with an empty store while handlers are running.          *)
RedisRestart ==
    /\ restarts < MaxRestarts
    /\ restarts' = restarts + 1
    /\ attempts' = [k \in Accounts |-> Absent]
    /\ watched' = [k \in Accounts |-> 0]
    /\ UNCHANGED <<pc, acct, history, early, started, faults>>

-----------------------------------------------------------------------------
(* The history variable: every step of a handler keeps in `early` those    *)
(* that are still about to SET, and the step that is the first SET of its  *)
(* account adds the others that are.                                       *)
Remember ==
    early' = {g \in Handlers :
                 /\ pc'[g] \in SeedPC
                 /\ \/ g \in early
                    \/ seeds[acct[g]] = 0 /\ seeds'[acct[g]] > 0}

(* The steps a running handler takes on its own.                           *)
Step(h) ==
    /\ \/ Exists(h)
       \/ SeedGuess(h)
       \/ Decr(h)
       \/ AnswerGuess(h)
       \/ LockOnSuccess(h)
       \/ Get(h)
       \/ SeedRead(h)
       \/ AdScript(h)
    /\ Remember

(* A request arrives, or a Redis call goes wrong.                          *)
Disturb(h) ==
    /\ \/ \E k \in Accounts : Receive(h, k)
       \/ CommandFails(h)
       \/ ReplyLost(h)
    /\ Remember

Next ==
    \/ \E h \in Handlers : Step(h) \/ Disturb(h)
    \/ RedisRestart

(* A Redis call returns a result or an error before its timeout, so a      *)
(* handler that has a command to send eventually takes its step.           *)
Fairness == \A h \in Handlers : WF_vars(Step(h))

Spec == Init /\ [][Next]_vars /\ Fairness

-----------------------------------------------------------------------------
(* Correctness.                                                            *)

(* Every variable keeps its type.                                          *)
TypeOK ==
    /\ attempts \in [Accounts -> Int \cup {Absent}]
    /\ watched \in [Accounts -> Nat]
    /\ pc \in [Handlers -> PC]
    /\ acct \in [Handlers -> Accounts]
    /\ admitted \in [Accounts -> Nat]
    /\ rejected \in [Accounts -> Nat]
    /\ lost \in [Accounts -> Nat]
    /\ seeds \in [Accounts -> Nat]
    /\ early \in SUBSET Handlers
    /\ granted \in [Accounts -> Nat]
    /\ locked \in SUBSET Accounts
    /\ started \in Nat /\ faults \in Nat /\ restarts \in Nat

(* The daily ad cap: however callbacks overlap or repeat, no account is    *)
(* granted more than DailyAdLimit rewards in the life of one Redis store   *)
(* (adRewardScript tests and counts in one command).                       *)
AdCap ==
    \A k \in Accounts : granted[k] <= DailyAdLimit * (restarts + 1)

(* What an account has left and has used never exceeds what it was given:  *)
(* FreeAttempts per SET of the first-touch paths plus one per rewarded ad, *)
(* although DecrementAndSave is three commands and handlers interleave.    *)
GuessBound ==
    \A k \in Accounts :
        admitted[k] + (IF Value(k) > 0 THEN Value(k) ELSE 0)
            <= FreeAttempts * seeds[k] + granted[k]

(* A guess is turned away only after the whole free allowance was used (by *)
(* admitted guesses or by DECRs whose reply was lost) or the account was   *)
(* set to 0 for a correct guess: the interleavings of EXISTS, SET and DECR *)
(* never cost a player a free attempt.  A Redis restart may: a DECR that   *)
(* finds its key gone answers -1.                                          *)
NeverTurnedAwayEarly ==
    \A k \in Accounts :
        restarts = 0 /\ rejected[k] > 0 /\ k \notin locked
            => admitted[k] + lost[k] >= FreeAttempts

(* As long as the allowance was written once and the account is not        *)
(* locked, the key is an exact ledger: allowance plus rewards minus every  *)
(* DECR, also the DECRs of guesses that were turned away.                  *)
ExactLedger ==
    \A k \in Accounts :
        restarts = 0 /\ seeds[k] = 1 /\ k \notin locked
            => attempts[k] = FreeAttempts + granted[k]
                             - (admitted[k] + rejected[k] + lost[k])

(* The allowance is handed out again only by requests that had already     *)
(* found the key missing when it was first written: a handler about to SET *)
(* a key that was SET before was about to SET it then, with the request it *)
(* still serves.  No request that came, or looked, later resets a running  *)
(* counter, as long as Redis keeps its data.                               *)
SeedsAreConcurrent ==
    restarts = 0 =>
        \A h \in Handlers :
            pc[h] \in SeedPC /\ seeds[acct[h]] > 0 => h \in early

-----------------------------------------------------------------------------
(* What the comment on IncrementAttemptAndAdsWatched says of a reward.     *)

(* "grants one extra attempt": after a granted reward a player who has not *)
(* solved the challenge has at least one attempt.                          *)
RewardUsable ==
    [][\A k \in Accounts : granted'[k] > granted[k] /\ k \notin locked
                             => attempts'[k] >= 1]_vars

(* "no race condition possible": in a behaviour without faults, a granted  *)
(* reward stays on the account until guesses use it.                       *)
RewardNotLost ==
    \A k \in Accounts :
        attempts[k] # Absent /\ k \notin locked /\ faults = 0 /\ restarts = 0
            => attempts[k] + admitted[k] + rejected[k]
                 >= FreeAttempts + granted[k]
=============================================================================
