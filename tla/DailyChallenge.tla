--------------------------- MODULE DailyChallenge ---------------------------
(***************************************************************************)
(* The daily challenge in Postgres and the handlers that work on it: the   *)
(* creation of the day's challenge (CreateOrGetTodayChallenge, behind      *)
(* GET /challenge and the server's start), a guess (ProcessGuess, behind   *)
(* POST /guess) and the claim of the prize (ClaimPrize, POST /claim).      *)
(*                                                                         *)
(* Postgres runs at READ COMMITTED.  A row lock of SELECT ... FOR UPDATE   *)
(* is held by exactly the handlers between their locking SELECT and the    *)
(* end of their transaction, so it is no variable: Locked(d) says that     *)
(* such a handler exists.  What a transaction wrote and has not committed  *)
(* is known from its pc; row and payout hold committed data only.          *)
(*                                                                         *)
(* The decrement of the attempts key is one step here whose outcome is     *)
(* open: which guesses it admits is the subject of AttemptLedger.          *)
(***************************************************************************)
EXTENDS Integers, FiniteSets

CONSTANTS
    Users,
    Handlers,     \* the request handlers that may run at the same time
    Codes,        \* secrets and guesses
    Length,       \* Length[c]: the number of digits of code c
    Prizes,       \* the amounts calculateWeightedPrize may draw
    LastDay,      \* bound: the days are 0 .. LastDay
    Nobody,       \* the winner_id of a challenge that nobody has solved
    NoRow,        \* no challenge row for a day
    NoPayout,     \* no payout row for a challenge
    MaxRequests,  \* bound: requests received in a behaviour
    MaxFaults     \* bound: database errors, lost commits and crashes

Days == 0 .. LastDay

(* models.Challenge: release_date is the index of row, and its unique      *)
(* index makes the challenge of a day one row; Difficulty is Length[secret]*)
Challenge == [secret : Codes, prize : Prizes, active : BOOLEAN,
              winner : Users \cup {Nobody}]

(* models.PayoutRequest: challenge_id is unique, so payout is indexed by   *)
(* the challenge's day.                                                    *)
Payout == [user : Users, amount : Prizes]

ASSUME ChallengeAssumption ==
    /\ Users # {} /\ Codes # {}
    /\ LastDay \in Nat
    /\ Length \in [Codes -> Nat]
    /\ Prizes \subseteq Nat
    /\ Nobody \notin Users
    /\ NoRow \notin Challenge
    /\ NoPayout \notin Payout
    /\ MaxRequests \in Nat
    /\ MaxFaults \in Nat

VARIABLES
    today,      \* the UTC date
    row,        \* row[d]: the committed challenge of day d
    payout,     \* payout[d]: the committed payout request for it
    pc,         \* pc[h]: what handler h does next
    user,       \* user[h]: who made the request h serves
    guess,      \* guess[h]: the code of a guess
    strDay,     \* strDay[h]: todayStr of ProcessGuess, the date of its keys
    rowDay,     \* rowDay[h]: the date h looks the challenge up by
    zeroed,     \* accounts <<user, date>> that LockOnSuccess set to 0
    announced,  \* days whose "solved" event was published
    alerts,     \* alerts[d]: winner alerts sent to the admin for day d
    \* what happened so far, which no code reads:
    admitted,   \* <<user, code, date>> of guesses that were charged and admitted
    told,       \* <<user, day>> of guesses answered "success"
    started, faults   \* counters for the bounds

request == <<user, guess, strDay, rowDay>>
tables  == <<row, payout>>
effects == <<zeroed, announced, alerts>>
vars    == <<today, row, payout, pc, user, guess, strDay, rowDay, zeroed,
             announced, alerts, admitted, told, started, faults>>

(* A guess: todayStr is read, todayTruncated is read, the attempt is       *)
(* charged, the row locked, the guess verified; a right one is recorded,   *)
(* published and committed.                                                *)
GuessPC == {"readDate", "charge", "lockActive", "verify", "record", "publish",
            "commitWin", "commitMiss"}
ClaimPC == {"lockClaim", "findPayout", "insertPayout", "commitNew",
            "commitOld", "alert"}
DailyPC == {"find", "create"}
PC      == {"idle"} \cup GuessPC \cup ClaimPC \cup DailyPC

(* The part of a transaction in which it holds its challenge row.          *)
Winning == {"record", "publish", "commitWin"}
InTx    == Winning \cup {"verify", "commitMiss"}
                   \cup {"findPayout", "insertPayout", "commitNew", "commitOld"}

-----------------------------------------------------------------------------
GoTo(h, label) == pc' = [pc EXCEPT ![h] = label] /\ UNCHANGED request

(* The handler answers its request; its transaction, if any, has ended and *)
(* its variables are gone (what stands in them then is of no account).     *)
SomeUser == CHOOSE u \in Users : TRUE
SomeCode == CHOOSE c \in Codes : TRUE

Answer(h) ==
    /\ pc' = [pc EXCEPT ![h] = "idle"]
    /\ user' = [user EXCEPT ![h] = SomeUser]
    /\ guess' = [guess EXCEPT ![h] = SomeCode]
    /\ strDay' = [strDay EXCEPT ![h] = 0]
    /\ rowDay' = [rowDay EXCEPT ![h] = 0]

Exists(d)     == row[d] # NoRow
IsActive(d)   == Exists(d) /\ row[d].active
IsWonBy(d, u) == Exists(d) /\ ~row[d].active /\ row[d].winner = u

(* Variant: the lock is ignored, as a SELECT without FOR UPDATE would.     *)
ReadUnlocked(d) == TRUE

(* A SELECT ... FOR UPDATE that matches the row of day d gets it when no   *)
(* other transaction holds it.                                             *)
CanLock(d) == \A h \in Handlers : pc[h] \in InTx => rowDay[h] # d

(* generateRandomSecret, calculateWeightedPrize: a new challenge           *)
NewChallenge(code, prize) ==
    [secret |-> code, prize |-> prize, active |-> TRUE, winner |-> Nobody]

(* Variant: the update forgets is_active.                                  *)
WonStillActive(c, u) == [c EXCEPT !.winner = u]

(* UpdateChallengeAsWon                                                    *)
WonBy(c, u) == [c EXCEPT !.active = FALSE, !.winner = u]

(* Variant: any code of the right length is taken for the secret.          *)
MatchesLength(code, secret) == Length[code] = Length[secret]

(* VerifyGuess: bcrypt tells equal codes from different ones.              *)
Matches(code, secret) == code = secret

(* The ATM rule of ClaimPrize.                                             *)
AtmAmount(p) == p >= 1000 /\ p <= 30000 /\ p % 1000 = 0

Fault == faults < MaxFaults /\ faults' = faults + 1

-----------------------------------------------------------------------------
Init ==
    /\ today = 0
    /\ row = [d \in Days |-> NoRow]
    /\ payout = [d \in Days |-> NoPayout]
    /\ pc = [h \in Handlers |-> "idle"]
    /\ user = [h \in Handlers |-> SomeUser]
    /\ guess = [h \in Handlers |-> SomeCode]
    /\ strDay = [h \in Handlers |-> 0]
    /\ rowDay = [h \in Handlers |-> 0]
    /\ zeroed = {} /\ announced = {}
    /\ alerts = [d \in Days |-> 0]
    /\ admitted = {} /\ told = {}
    /\ started = 0 /\ faults = 0

(* Midnight UTC, at any point of any handler; the two readings of the      *)
(* clock in ProcessGuess are less than a day apart.                        *)
NextDay ==
    /\ today < LastDay
    /\ \A h \in Handlers : pc[h] = "readDate" => strDay[h] = today
    /\ today' = today + 1
    /\ UNCHANGED <<row, payout, pc, request, effects, admitted, told, started,
                   faults>>

(* A request reaches an idle handler.                                      *)
Receive(h) ==
    /\ pc[h] = "idle"
    /\ started < MaxRequests
    /\ started' = started + 1
    /\ UNCHANGED <<today, row, payout, effects, admitted, told, faults>>

-----------------------------------------------------------------------------
(* GET /challenge: CreateOrGetTodayChallenge.                              *)

ReceiveDaily(h) ==
    /\ Receive(h)
    /\ pc' = [pc EXCEPT ![h] = "find"]
    /\ rowDay' = [rowDay EXCEPT ![h] = today]
    /\ UNCHANGED <<user, guess, strDay>>

(* The challenge of the day is there and is answered, or is to be created. *)
Find(h) ==
    /\ pc[h] = "find"
    /\ \/ Exists(rowDay[h]) /\ Answer(h)
       \/ ~Exists(rowDay[h]) /\ GoTo(h, "create")
    /\ UNCHANGED <<today, row, payout, effects, admitted, told, started, faults>>

(* The insert: the unique index on release_date refuses a second row for   *)
(* the day, and the handler answers 500 (the server's start exits).        *)
Create(h) ==
    LET d == rowDay[h] IN
    /\ pc[h] = "create"
    /\ \/ /\ ~Exists(d)
          /\ \E code \in Codes, prize \in Prizes :
                row' = [row EXCEPT ![d] = NewChallenge(code, prize)]
       \/ Exists(d) /\ UNCHANGED row
    /\ Answer(h)
    /\ UNCHANGED <<today, payout, effects, admitted, told, started, faults>>

-----------------------------------------------------------------------------
(* POST /guess: ProcessGuess.                                              *)

(* todayStr, the date of the Redis keys                                    *)
ReceiveGuess(h) ==
    /\ Receive(h)
    /\ pc' = [pc EXCEPT ![h] = "readDate"]
    /\ \E u \in Users, c \in Codes :
          /\ user' = [user EXCEPT ![h] = u]
          /\ guess' = [guess EXCEPT ![h] = c]
    /\ strDay' = [strDay EXCEPT ![h] = today]
    /\ UNCHANGED rowDay

(* Variant: the time is rounded to the nearest midnight, not truncated.    *)
ReadRoundedDate(h) ==
    /\ pc[h] = "readDate"
    /\ pc' = [pc EXCEPT ![h] = "charge"]
    /\ rowDay' \in {[rowDay EXCEPT ![h] = d] : d \in {today, today + 1}}
    /\ UNCHANGED <<today, row, payout, user, guess, strDay, effects, admitted,
                   told, started, faults>>

(* todayTruncated, the date of the row: a second reading of the clock      *)
ReadDate(h) ==
    /\ pc[h] = "readDate"
    /\ pc' = [pc EXCEPT ![h] = "charge"]
    /\ rowDay' = [rowDay EXCEPT ![h] = today]
    /\ UNCHANGED <<today, row, payout, user, guess, strDay, effects, admitted,
                   told, started, faults>>

(* DecrementAndSave: admitted, or answered "no attempts left" or "service  *)
(* unavailable"                                                            *)
Charge(h) ==
    /\ pc[h] = "charge"
    /\ \/ /\ admitted' = admitted \cup {<<user[h], guess[h], strDay[h]>>}
          /\ GoTo(h, "lockActive")
       \/ Answer(h) /\ UNCHANGED admitted
    /\ UNCHANGED <<today, row, payout, effects, told, started, faults>>

(* Variant: the guess waits for an active challenge to appear.             *)
AwaitActive(h) ==
    /\ pc[h] = "lockActive"
    /\ IsActive(rowDay[h]) /\ CanLock(rowDay[h]) /\ GoTo(h, "verify")
    /\ UNCHANGED <<today, row, payout, effects, admitted, told, started, faults>>

(* GetActiveChallengeForUpdate: a row that is not active does not match    *)
(* the SELECT, not even when it stopped being so while the SELECT waited   *)
(* for its lock; the guess is then answered "challenge not found".         *)
LockActive(h) ==
    LET d == rowDay[h] IN
    /\ pc[h] = "lockActive"
    /\ \/ ~IsActive(d) /\ Answer(h)
       \/ IsActive(d) /\ CanLock(d) /\ GoTo(h, "verify")
    /\ UNCHANGED <<today, row, payout, effects, admitted, told, started, faults>>

(* Variant: the account is set to 0 before the guess is compared.          *)
LockThenVerify(h) ==
    LET secret == row[rowDay[h]].secret IN
    /\ pc[h] = "verify"
    /\ zeroed' = zeroed \cup {<<user[h], strDay[h]>>}
    /\ GoTo(h, IF Matches(guess[h], secret) THEN "record" ELSE "commitMiss")
    /\ UNCHANGED <<today, row, payout, announced, alerts, admitted, told,
                   started, faults>>

(* The length test, the bcrypt comparison and LockOnSuccess, whose Redis   *)
(* error is dropped.                                                       *)
Verify(h) ==
    LET secret == row[rowDay[h]].secret IN
    /\ pc[h] = "verify"
    /\ \/ Length[guess[h]] # Length[secret] /\ Answer(h) /\ UNCHANGED zeroed
       \/ /\ Length[guess[h]] = Length[secret] /\ ~Matches(guess[h], secret)
          /\ GoTo(h, "commitMiss")
          /\ UNCHANGED zeroed
       \/ /\ Length[guess[h]] = Length[secret] /\ Matches(guess[h], secret)
          /\ GoTo(h, "record")
          /\ \/ zeroed' = zeroed \cup {<<user[h], strDay[h]>>}
             \/ UNCHANGED zeroed
    /\ UNCHANGED <<today, row, payout, announced, alerts, admitted, told,
                   started, faults>>

(* GetUserByID and UpdateChallengeAsWon, visible to others at the commit   *)
Record(h) ==
    /\ pc[h] = "record"
    /\ GoTo(h, "publish")
    /\ UNCHANGED <<today, row, payout, effects, admitted, told, started, faults>>

(* PublishChallengeEvent("solved"): its error is only logged               *)
Publish(h) ==
    /\ pc[h] = "publish"
    /\ announced' = announced \cup {rowDay[h]} \/ UNCHANGED announced
    /\ GoTo(h, "commitWin")
    /\ UNCHANGED <<today, row, payout, zeroed, alerts, admitted, told, started,
                   faults>>

(* Variant: the error of the commit is overlooked.                         *)
CommitWinUnchecked(h) ==
    LET d == rowDay[h] IN
    /\ pc[h] = "commitWin"
    /\ row' = [row EXCEPT ![d] = WonBy(@, user[h])] \/ UNCHANGED row
    /\ told' = told \cup {<<user[h], d>>}
    /\ Answer(h)
    /\ UNCHANGED <<today, payout, effects, admitted, started, faults>>

(* The commit of a right guess, answered "success"                         *)
CommitWin(h) ==
    LET d == rowDay[h] IN
    /\ pc[h] = "commitWin"
    /\ row' = [row EXCEPT ![d] = WonBy(@, user[h])]
    /\ told' = told \cup {<<user[h], d>>}
    /\ Answer(h)
    /\ UNCHANGED <<today, payout, effects, admitted, started, faults>>

(* The commit of a wrong guess, answered "incorrect"                       *)
CommitMiss(h) ==
    /\ pc[h] = "commitMiss"
    /\ Answer(h)
    /\ UNCHANGED <<today, row, payout, effects, admitted, told, started, faults>>

-----------------------------------------------------------------------------
(* POST /claim: ClaimPrize.                                                *)

(* The date is read when the locking SELECT is built, before it may wait.  *)
ReceiveClaim(h) ==
    /\ Receive(h)
    /\ pc' = [pc EXCEPT ![h] = "lockClaim"]
    /\ \E u \in Users : user' = [user EXCEPT ![h] = u]
    /\ rowDay' = [rowDay EXCEPT ![h] = today]
    /\ UNCHANGED <<guess, strDay>>

(* Variant: anyone may claim a challenge that has been solved.             *)
MayClaimSolved(d, u) == ~row[d].active

(* The winner test of ClaimPrize                                           *)
MayClaim(d, u) == row[d].winner = u

(* The locking SELECT and the tests on the row: no row of today, not the   *)
(* winner, an amount no ATM pays (for that method).                        *)
LockClaim(h) ==
    LET d == rowDay[h] IN
    /\ pc[h] = "lockClaim"
    /\ \/ ~Exists(d) /\ Answer(h)
       \/ /\ Exists(d) /\ CanLock(d)
          /\ \/ ~MayClaim(d, user[h]) /\ Answer(h)
             \/ MayClaim(d, user[h]) /\ ~AtmAmount(row[d].prize) /\ Answer(h)
             \/ MayClaim(d, user[h]) /\ GoTo(h, "findPayout")
    /\ UNCHANGED <<today, row, payout, effects, admitted, told, started, faults>>

(* Variant: an existing payout is found but not remembered.                *)
FindPayoutForgotten(h) ==
    LET found == /\ payout[rowDay[h]] # NoPayout
                 /\ payout[rowDay[h]].user = user[h]
    IN
    /\ pc[h] = "findPayout"
    /\ GoTo(h, IF found THEN "commitNew" ELSE "insertPayout")
    /\ UNCHANGED <<today, row, payout, effects, admitted, told, started, faults>>

(* The SELECT of an earlier payout of this user for this challenge         *)
FindPayout(h) ==
    LET found == /\ payout[rowDay[h]] # NoPayout
                 /\ payout[rowDay[h]].user = user[h]
    IN
    /\ pc[h] = "findPayout"
    /\ GoTo(h, IF found THEN "commitOld" ELSE "insertPayout")
    /\ UNCHANGED <<today, row, payout, effects, admitted, told, started, faults>>

(* The insert; a second payout for the challenge violates the unique index *)
(* and is answered 409.                                                    *)
InsertPayout(h) ==
    /\ pc[h] = "insertPayout"
    /\ \/ payout[rowDay[h]] = NoPayout /\ GoTo(h, "commitNew")
       \/ payout[rowDay[h]] # NoPayout /\ Answer(h)
    /\ UNCHANGED <<today, row, payout, effects, admitted, told, started, faults>>

(* What the insert of InsertPayout makes visible at the commit.            *)
PutPayout(h) ==
    payout' = [payout EXCEPT ![rowDay[h]] =
                  [user |-> user[h], amount |-> row[rowDay[h]].prize]]

CommitNew(h) ==
    /\ pc[h] = "commitNew"
    /\ PutPayout(h)
    /\ GoTo(h, "alert")
    /\ UNCHANGED <<today, row, effects, admitted, told, started, faults>>

(* "already claimed": answered 200 without an alert                        *)
CommitOld(h) ==
    /\ pc[h] = "commitOld"
    /\ Answer(h)
    /\ UNCHANGED <<today, row, payout, effects, admitted, told, started, faults>>

(* SendAdminWinnerAlert in its own goroutine: it is sent, or its failure   *)
(* is only logged.                                                         *)
Alert(h) ==
    /\ pc[h] = "alert"
    /\ \/ alerts' = [alerts EXCEPT ![rowDay[h]] = @ + 1]
       \/ UNCHANGED alerts
    /\ Answer(h)
    /\ UNCHANGED <<today, row, payout, zeroed, announced, admitted, told,
                   started, faults>>

-----------------------------------------------------------------------------
(* Faults.                                                                 *)

(* A statement or the commit fails, the client goes away and cancels the   *)
(* request, or the server dies: the transaction is rolled back and its     *)
(* lock released, and the request gets an error or no answer.              *)
Abort(h) ==
    /\ pc[h] # "idle"
    /\ Fault
    /\ Answer(h)
    /\ UNCHANGED <<today, row, payout, effects, admitted, told, started>>

(* Postgres commits and the server does not learn of it: the handler       *)
(* answers an error for work that is done.                                 *)
CommitReplyLost(h) ==
    /\ Fault
    /\ \/ /\ pc[h] = "commitWin"
          /\ row' = [row EXCEPT ![rowDay[h]] = WonBy(@, user[h])]
          /\ UNCHANGED payout
       \/ pc[h] = "commitNew" /\ PutPayout(h) /\ UNCHANGED row
    /\ Answer(h)
    /\ UNCHANGED <<today, effects, admitted, told, started>>

-----------------------------------------------------------------------------
(* The steps a running handler takes on its own.                           *)
Lock(h) == LockActive(h) \/ LockClaim(h)

Step(h) ==
    \/ Find(h) \/ Create(h)
    \/ ReadDate(h) \/ Charge(h) \/ Verify(h) \/ Record(h) \/ Publish(h)
    \/ CommitWin(h) \/ CommitMiss(h)
    \/ FindPayout(h) \/ InsertPayout(h) \/ CommitNew(h) \/ CommitOld(h)
    \/ Alert(h)

Next ==
    \/ NextDay
    \/ \E h \in Handlers :
          \/ ReceiveDaily(h) \/ ReceiveGuess(h) \/ ReceiveClaim(h)
          \/ Lock(h) \/ Step(h)
          \/ Abort(h) \/ CommitReplyLost(h)

(* Every call a handler makes returns or times out, so it goes on.  The    *)
(* transactions waiting for a row lock queue up and each gets it in turn.  *)
Fairness == \A h \in Handlers : WF_vars(Step(h)) /\ SF_vars(Lock(h))

Spec == Init /\ [][Next]_vars /\ Fairness

-----------------------------------------------------------------------------
(* Correctness.                                                            *)

(* Every variable keeps its type.                                          *)
TypeOK ==
    /\ today \in Days
    /\ row \in [Days -> Challenge \cup {NoRow}]
    /\ payout \in [Days -> Payout \cup {NoPayout}]
    /\ pc \in [Handlers -> PC]
    /\ user \in [Handlers -> Users]
    /\ guess \in [Handlers -> Codes]
    /\ strDay \in [Handlers -> Days]
    /\ rowDay \in [Handlers -> Days]
    /\ zeroed \in SUBSET (Users \X Days)
    /\ announced \in SUBSET Days
    /\ alerts \in [Days -> Nat]
    /\ admitted \in SUBSET (Users \X Codes \X Days)
    /\ told \in SUBSET (Users \X Days)
    /\ started \in Nat /\ faults \in Nat

(* A day gets one challenge, whoever creates it and however often, and its *)
(* secret and prize never change; once it has a winner it stays: no later  *)
(* guess, even one that was waiting for the lock, replaces the winner.     *)
ChallengeSettled ==
    [][\A d \in Days : Exists(d) =>
          /\ row'[d] # NoRow
          /\ row'[d].secret = row[d].secret
          /\ row'[d].prize = row[d].prize
          /\ row[d].winner # Nobody => row'[d] = row[d]]_vars

(* The winner paid for the right guess: the winner of a solved challenge   *)
(* had a guess equal to its secret charged and admitted, on the day of the *)
(* challenge or, when midnight fell between the two readings of the clock, *)
(* on the day before.                                                      *)
SolvedBy(u, d) ==
    /\ Exists(d)
    /\ \E c \in {d - 1, d} : <<u, row[d].secret, c>> \in admitted

WinnerGuessedIt ==
    \A d \in Days : \A u \in Users : IsWonBy(d, u) => SolvedBy(u, d)

(* Whoever is answered "success" is the recorded winner of that day, so at *)
(* most one player is told so.                                             *)
SuccessIsTheWinner == \A t \in told : IsWonBy(t[2], t[1])

(* A payout request is for a solved challenge, by its winner, of its prize.*)
PaidOnlyToWinner ==
    \A d \in Days : payout[d] # NoPayout =>
        /\ IsWonBy(d, payout[d].user)
        /\ payout[d].amount = row[d].prize

(* A repeated or concurrent claim is never answered 409: it waits for the  *)
(* row lock and then finds the payout, so no insert meets the unique index *)
(* (the comment on ClaimPrize).                                            *)
NoClaimConflict ==
    \A h \in Handlers :
        pc[h] = "insertPayout" => payout[rowDay[h]] = NoPayout

(* "Only fire the admin alert email on the first successful claim": at     *)
(* most one alert a day, and only for a committed payout.                  *)
AlertedOnce ==
    \A d \in Days :
        alerts[d] # 0 => alerts[d] = 1 /\ payout[d] # NoPayout

(* Redis agrees with Postgres when nothing fails: an account LockOnSuccess *)
(* set to 0 belongs to the winner, or to the one handler that is about to  *)
(* make its user the winner, and so does an announced day.                 *)
WinningNow(u, d) ==
    \E h \in Handlers : pc[h] \in Winning /\ user[h] = u /\ rowDay[h] = d

RedisAgrees ==
    faults = 0 =>
        /\ \A z \in zeroed : \E d \in Days \cap {z[2], z[2] + 1} :
              IsWonBy(d, z[1]) \/ WinningNow(z[1], d)
        /\ \A d \in announced : \E u \in Users :
              IsWonBy(d, u) \/ WinningNow(u, d)

(* Every request is answered: no handler waits for a row lock forever.     *)
RequestsAnswered == \A h \in Handlers : pc[h] # "idle" ~> pc[h] = "idle"

(* An announced challenge is solved in the end unless something failed.    *)
AnnouncedGetsSolved ==
    \A d \in Days : d \in announced ~> (~IsActive(d) \/ faults > 0)

-----------------------------------------------------------------------------
(* What the tables hold of a day's prize, as PrizeAward sees it.           *)
AwardOf(d) ==
    [offered |-> Exists(d),
     prize   |-> IF Exists(d) THEN row[d].prize ELSE 0,
     winner  |-> IF Exists(d) THEN row[d].winner ELSE Nobody,
     payout  |-> payout[d]]

Prize == INSTANCE PrizeAward
         WITH award <- [d \in Days |-> AwardOf(d)], NotPaid <- NoPayout

(* Requests, transactions, locks, faults and all, the handlers implement   *)
(* the award of one prize a day: every step offers, wins, pays or announces*)
(* one, in that order and once, or changes nothing anybody is promised.    *)
ImplementsPrizeAward == Prize!Spec

-----------------------------------------------------------------------------
(* What the clients are told the event means: "Another player just won".   *)

(* When "solved" has been published the challenge is no longer active, so  *)
(* a client that refreshes on the event sees the winner.                   *)
AnnouncedIsSolved == \A d \in announced : ~IsActive(d)
=============================================================================
