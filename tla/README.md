# Femabras: TLA+ specifications and proofs

Femabras is a daily code-breaking game: one secret a day, a limited number of
attempts, extra attempts for watching ads, and a cash prize for the first player
who finds the code. The backend is Go (gin, Postgres through GORM, Redis, asynq),
the frontend Next.js. Several server processes and many concurrent requests may
run against one Postgres and one Redis; a player has several tabs.

This directory specifies what the program must keep right, checks it with TLC on
small instances, and proves with TLAPS, for every instance, each safety invariant
and action property that the runs check.

## 1. Inventory

Paths are relative to `src/`; `B` is `backend/internal`, `F` is `frontend/src`.

| Component | Code | State | Operations | Modelled by |
|---|---|---|---|---|
| Attempt and ad counters | `B/services/redis.go`, `B/handlers/ads.go` | Redis keys `attempts:{user}:{date}`, `ads_watched:{user}:{date}` | `GetOrCreateAttempts`, `DecrementAndSave`, `LockOnSuccess`, `IncrementAttemptAndAdsWatched` (Lua) | `AttemptLedger` |
| Daily challenge | `B/services/challenge.go`, `B/challenge/**`, `B/models/{challenge,payout}.go` | rows `challenges` (unique `release_date`) and `payout_requests` (unique `challenge_id`) | `CreateOrGetTodayChallenge`, `ProcessGuess`, `ClaimPrize` | `DailyChallenge`, abstractly `PrizeAward` |
| Live updates | `StreamStatus`, `PublishChallengeEvent`, `useGameEngine.ts` | EventSource connections | publish, connect, break, refresh | `GamePage` |
| Page data | `F/app/[locale]/page.tsx`, `challenge.server.service.ts`, `header.tsx` | none of its own | read challenge and status; choose what to show | `GamePage`, `BrowserTabs` |
| Attempts and guesses on the client | `useGameEngine.ts`, `challenge.client.service.ts` | count, `localStorage`, answers under way | submit, fetch live attempts, save, take over a reward | `GamePage` |
| Game board | `useGameEngine.ts`, `challenge.utils.ts`, `game-board.client.tsx` and its parts | slots, focus, timers, drag, prompt, `sessionStorage` | type, drag, tray, revise, submit, prompt, log in | `GuessEditor` |
| Rewarded ad button | `ad-button.client.tsx`, `B/handlers/ads.go` | phase, script, slots, listeners, verifications | click, granted, closed, verify | `RewardedAd` |
| Claim form, winner status | `claim-prize-form.client.tsx`, `winner-status.client.tsx` | form, shown status, polls | claim, poll | `BrowserTabs` |
| CSRF double submit | `B/middleware/csrf.go`, `F/shared/lib/api.client.ts` | cookie `csrf_token` | issue, read, send, test | `BrowserTabs` |
| Contact form | `B/handlers/contact.go`, `contact/page.tsx` | none | send | `BrowserTabs` |
| Registration | `B/auth/**`, `register-form.client.tsx` | `pending_users`, `users`, the form | register, verify | `Accounts` |
| E-mail queue | `B/worker/**` | asynq queue | enqueue, deliver, retry | `Accounts` |
| Sessions | `auth_service.go`, `B/middleware/auth.go`, login form, logout buttons | cookies; `refresh_tokens`, `user:active:{id}` | sign in, log out; refresh, cache | `Accounts` (sign-in, logout), `BrowserTabs` (expiry); the last two not modelled |
| Attempts badge | `attempts-badge.client.tsx`, `events.ts` | the last count it was given | display | not modelled (section 6) |
| Cleanup | `auth_repository.go:74-112` | advisory lock, expired rows | `RunCleanup`, which nothing calls | not modelled |
| CORS, headers, routes, rate limits; start-up; unused tables; static pages | rest | none that another part depends on | | not modelled (section 6) |

How they interact. `POST /guess` charges an attempt in Redis, then opens a
Postgres transaction, locks the day's row, compares, sets the Redis key to 0,
writes the winner, publishes "solved" on Redis and only then commits: four
effects in two stores with no common transaction. The ad network's callback
raises the same Redis counter. `GET /challenge` may create the day's row. `POST
/claim` locks the row again and inserts a payout. Boards learn of a win through
`GET /challenge/stream` and then render the page again, which reads `GET
/challenge` and `GET /challenge/my-status`; the board and the ad button read
`GET /challenge/attempts`, which may itself write the allowance. Every mutating
request of the frontend goes through `apiFetch`, which may first need `GET /csrf`.

What is hard. Multi-command Redis updates that interleave; two right guesses at
once; row locks and READ COMMITTED; errors after an effect that is not undone;
commits and replies that get lost; midnight falling inside a request or between
two polls; callbacks that are repeated or late; answers that arrive out of order;
timers and listeners with the values of an older render; tabs that share one
cookie jar. `PROJECT.json` lists each hazard at its line with the properties that
would catch it.

What makes each component correct, in short:

- *Counters*: nobody uses more than was given, nobody loses free attempts to an
  interleaving, the cap on rewards holds.
- *Challenge*: one challenge a day, one winner, who guessed it and paid for the
  guess; one payout, to that winner; one alert; Redis and Postgres agree.
- *Page and attempts*: "out of attempts" is true of the key as it was last raised;
  a board that was refused is refused again only after another reading of the count;
  the winner keeps the way to the prize; who guesses too late learns of it.
- *Board*: what is sent has one digit per slot; a guess survives the login.
- *Ad button*: it does not wait forever; attempts it shows exist; a granted ad
  is reported.
- *Winner's tabs*: nothing is shown that the database does not have; a claim is
  refused only for cause; a decision is not forgotten.
- *Registration*: an account belongs to whoever proved the address; the number of
  wrong codes is bounded under concurrency; a code that is waited for is on its way.

## 2. The modules

Each `MC` module instantiates the module of the same name for TLC, and each
`...Proofs` module extends it with the theorems about it (section 4). No module but
the refinement imports another: the parts meet over HTTP, and each module takes
from the other side what crosses that border (said in its header).

### AttemptLedger

One action per Redis **command**, since every command is a round trip and other
handlers run between two of them. `pc[h]` names the command handler `h` sends
next.

| Code | Actions |
|---|---|
| `DecrementAndSave` | `Exists`, `SeedGuess`, `Decr` |
| `GetOrCreateAttempts` | `Get`, `SeedRead` (used by `GET /challenge/attempts` and by the callback) |
| `IncrementAttemptAndAdsWatched` | `Get`, `SeedRead`, then `AdScript` (`RunScript`: the Lua script, one command) |
| `LockOnSuccess`, the rest of a guess | `LockOnSuccess`, `AnswerGuess` |
| faults | `CommandFails` (never reached Redis), `ReplyLost` (applied; error answered or command repeated by go-redis), `RedisRestart` (store lost) |

`admitted`, `rejected`, `lost`, `seeds`, `granted`, `locked` and `early` are history
the code does not read; the properties relate the two keys to it. `early` holds the
handlers that are still about to write the allowance since before it was first
written (`Remember`, part of every handler's step): `SeedsAreConcurrent` says that no
other handler ever is, once the allowance was written. An account is a
*user and date* pair: the suffix the two keys share. Expiry (26 hours, renewed by
each write) is longer than the date is in use, so it is left out.

### DailyChallenge

Actions are the points at which other handlers can observe something: a
statement, a commit, an effect on Redis. A `SELECT ... FOR UPDATE` lock is no
variable: it is held exactly by the handlers whose `pc` is in `InTx`, so it cannot
be forgotten or released twice in the model unless it can in the code, where the
deferred rollback and the commit are the only ends of a transaction. Uncommitted
writes are in the `pc` and the request; `row` and `payout` hold committed data.

| Code | Actions |
|---|---|
| `CreateOrGetTodayChallenge` | `ReceiveDaily`, `Find`, `Create` |
| `ProcessGuess` | `ReceiveGuess` (todayStr), `ReadDate` (todayTruncated), `Charge`, `LockActive`, `Verify` (length, bcrypt, `LockOnSuccess`), `Record`, `Publish`, `CommitWin`, `CommitMiss` |
| `ClaimPrize` | `ReceiveClaim`, `LockClaim`, `FindPayout`, `InsertPayout`, `CommitNew`, `CommitOld`, `Alert` |
| faults, time | `Abort` (statement or commit fails, client gone, process dies), `CommitReplyLost`, `NextDay` |

`Charge` is one step that may admit or refuse; which it does is what
`AttemptLedger` is about. `NextDay` may come at any point, except that the two
readings of the clock in `ProcessGuess`, a few instructions apart, are less than
a day apart.

### PrizeAward and DailyChallengeRefinement

`PrizeAward` is what a player and the admin are promised of a day's prize, with no
requests, locks or faults: `Offer`, `Win`, `Pay`, `Alert`, each once and in that
order. `DailyChallenge` instantiates it with a mapping (`AwardOf`): the offer and
the prize are the committed row, the winner its `winner_id`, the payout the
committed `payout_requests` row; `told` and `alerts` are the same.

| Step of the award | Steps of the handlers |
|---|---|
| `Offer` | `Create` |
| `Win` | `CommitWin`, or `CommitReplyLost` of a right guess (then nobody is told) |
| `Pay` | `CommitNew`, or `CommitReplyLost` of a new claim |
| `Alert` | `Alert` |
| none | everything else |

### GamePage

The page of one player, from a load to what it shows: the readings on the Next.js
server, the board's count with its copy in `localStorage`, the guess in flight, the
EventSource, and the verification of the ad that the locked panel offers. The server
is reduced to this player's key (`left`) and the day's challenge (`phase`, `winner`),
with the order of effects that `AttemptLedger` and `DailyChallenge` establish. The
key is lowered by guesses, here and in the player's other tabs, and raised by the ad
network's callback and by a new day.

| Code | Actions |
|---|---|
| `page.tsx`, `getDailyChallenge`, `getMyStatus` | `Load`, `Refresh`, `ReadChallenge`, `ReadStatus`, `ChallengeFails`, `StatusFails`, `KeepBoard`, `MountBoard`, `ShowOther` |
| `submitSequence` | `Submit`, `GuessAnswered`, `GuessAnsweredLate` (unmounted meanwhile) |
| `ProcessGuess`, as seen from here | `Charge`, `JudgeLate`, `JudgeWrong`, `JudgeRight`, `CommitMine`, `GuessFails`; from elsewhere: `OtherAnnounces`, `OtherCommits`, `OtherVisits` (creates the day's row), `GuessElsewhere` (this player's other tab) |
| `AdRewardWebhook` | `Reward` |
| `handleRewardGranted` and `onRewardGranted` of the locked panel's button | `AdGranted`, `ServeCheck`, `CheckFails`, `CheckAnswered` |
| `fetchLiveAttempts` | `ServeLive`, `LiveFails`, `LiveAnswered` |
| the EventSource effect | `Listen` (part of every action that changes what it depends on), `Connect`, `Disconnect`, `SolvedEvent` |
| `saveTodayAttempts`, `getTodayAttempts` | `Save`, `TodayAttempts` |
| time | `Midnight` |

`version`, `asOf`, `heard`, `refused` and `told` are history: how often the key was
raised, the version of the key that the shown count was read from, the counts of
`fetchLiveAttempts` that the mounted board was given, the guesses of it that were
turned away, and whether it was told of today's win. The listeners of a board's
earlier ads stay (`watching`), so that an ad may be verified, and the count set,
while the panel is no longer locked.

### GuessEditor

The board itself. Every handler of `useGameEngine` and every control of
`GameBoard` is an action, every timer an action of its own that runs with the
values it closed over: `BlurTimer` (100 ms), `ShakeEnds` (600 ms, with the
`slotsCount` of the render that sent the guess), `Tick` (the prompt's seconds).

| Code | Actions |
|---|---|
| `handleManualInput`, `onKeyDown`, focus | `Type`, `Backspace`, `FocusSlot`, `ClickSlot` |
| `handleTrayClick`, `handleDragStart`, `handleDragEnd` | `TrayClick`, `DragStart`, `DragEnd` |
| `removeDigit` | `Revise`, and in `Backspace`, `ClickSlot` |
| `submitSequence` | `Submit`, `Answered` |
| `confirmAuthRedirect`, the overlay | `ConfirmAuthRedirect`, `Cancel`, `Tick` |
| effects on mount, on `slotsCount` and on `isAuthenticated` | `Return` (`Mounted`), `Refreshed` (`NewProps`) |
| the rest of the page | `SolvedEvent`, `Rewarded`, `Leave`, `Logout`, `Midnight` |

An array written past its end leaves holes (`Hole`), which are not `null` to
`isComplete` but vanish from the string that is sent, as in JavaScript. Of that
string only the length matters here (`GuessLength`).

### RewardedAd

The button under a locked board and all its predecessors. `listeners` grows by
one entry per click, since nothing removes a listener; an event of any ad runs
every entry; what an old button's handler sets is lost, but the count it reports
reaches the board.

| Code | Actions |
|---|---|
| the effect that loads the script | `Init`, `ScriptLoads`, `ScriptFails`, `Mount` |
| `handleWatchAd` | `WatchAd`, `RunQueued`, `Dismiss` |
| `slotRenderEnded`, `rewardedSlotGranted`, `rewardedSlotClosed` | `Rendered`, `Granted`, `Closed` |
| `handleRewardGranted` | `ServeCheck`, `CheckAnswered`, `CheckFails` |
| `AdRewardWebhook` | `Callback`, `CallbackLost` |
| the board | `Guess`, `Unlocked` |

### BrowserTabs

The winner's tabs share one cookie jar. `apiFetch` is modelled up to the cookie
the browser attaches: `Submit` (header read from the jar, or `GET /csrf` asked
for), `ServeCsrf`, `CookieArrives`, `ReadToken`, `CsrfFails`, `Send`, then
`ServeClaim` or `ServeContact` with their tests in the order of the middleware,
`PostFails`, `Answered`. The tracker is `Poll`, `ServePoll`, `PollFails`,
`PollAnswered`; several of its polls may be under way, and each compares its
answer with the status of the effect that started it. `AdminSettles`, `Expire`
(the 15 minutes of `access_token`), `Midnight` and `Load` are the surroundings.

### Accounts

Registration, verification and sign-in for one address, one action per statement:
no transaction joins them.

| Code | Actions |
|---|---|
| `Register`, `CreatePendingUser` | `FindUser`, `DeletePrior`, `Insert`, `Enqueue` |
| `VerifyOTP` | `ReadPending`, `CountWrong`, `CreateUser`, `DropPending`, `Mint` |
| `Login`, `HandleGoogleCallback`, `Logout` | `CheckPassword`, `FindGoogle`, `CreateGoogle`, `Revoke` |
| the worker | `Deliver`, `DeliveryFails` (repeated, then given up), `TaskLost` (not to be repeated, no API key, Redis lost) |
| the forms | `SubmitRegister`, `SubmitCode`, `SubmitLogin`, `SignInWithGoogle`, `SubmitLogout`, `Open` |
| faults, time | `LoseAnswer`, `Abort`, errors that the code drops (`Dropped`) or takes for "no such user" (`NotFound`), `Expire` |

### Variants

Operators whose comment begins with "Variant:" (`AdmitsBelowZero`,
`AwaitActive`, ...) are plausible mistakes in the code that the specification
does **not** use. `PROJECT.json` ("mutants") says which definition each replaces
and which property then fails: they show that no property holds idly.

## 3. The runs

| Run | Configuration | Shows | States |
|---|---|---|---|
| `ledger` | `MCAttemptLedger.cfg` | `TypeOK`, `AdCap`, `GuessBound`, `NeverTurnedAwayEarly`, `ExactLedger`, `SeedsAreConcurrent` | 431,907 |
| `reward_usable` | `MCAttemptLedger_reward_usable.cfg` | `RewardUsable` is violated (finding 1) | |
| `reward_lost` | `MCAttemptLedger_reward_lost.cfg` | `RewardNotLost` is violated (finding 2) | |
| `daily` | `MCDailyChallenge.cfg` | `TypeOK`, `ChallengeSettled`, `WinnerGuessedIt`, `SuccessIsTheWinner`, `PaidOnlyToWinner`, `NoClaimConflict`, `AlertedOnce`, `RedisAgrees` | 2.8 million |
| `daily_live` | `MCDailyChallenge_live.cfg` | `RequestsAnswered`, `AnnouncedGetsSolved`, `ImplementsPrizeAward` | |
| `daily_announced` | `MCDailyChallenge_announced.cfg` | `AnnouncedIsSolved` is violated (finding 3) | |
| `slots` | `MCGuessEditor.cfg` | `TypeOK`, `GuessFits`, `GuessSurvivesLogin`, `FrozenWhilePrompted` | 565,226 |
| `board` | `MCGamePage.cfg` | `TypeOK`, `OutMeansOut`, `RefusedOncePerRead`, `WinnerKeepsPrize`, `LateGuesserSees` | 381,963 |
| `ad` | `MCRewardedAd.cfg` | `TypeOK`, `RewardIsReal`, `BusyEnds`, `GrantIsReported` | 43,530 |
| `winner` | `MCBrowserTabs.cfg` | `TypeOK`, `ShownIsRecorded`, `RefusedForCause`, `TrackerNeverTurnsBack`, `SettledIsShown` | 279,048 |
| `winner_status` | `MCBrowserTabs_reflected.cfg` | `DecisionIsReflected` is violated (finding 4) | |
| `accounts` | `MCAccounts.cfg` | `TypeOK`, `AccountIsProven`, `WrongCodesBounded`, `CodeIsOnItsWay` | 711,592 |

Bounds, and why they are enough.

- `ledger`: one account, because no command touches two; three handlers, the
  number needed for a guess, a read and a callback to meet in the seeding
  window; an allowance of 2 and a cap of 1, so that five requests exhaust both
  and go past them; one fault and one restart. Handlers are symmetric. The two violation runs use the
  real 5 and 3 and **no** fault.
- `daily`: two users, two handlers (a transaction that holds a row, one that
  waits for it), two codes of one length and a third of another, a prize an ATM
  pays and one it does not, two days, four requests (create, two right guesses,
  a claim) and one fault. Handlers are symmetric; no liveness is checked there.
  `daily_live`: one day, one prize, no symmetry, one fault.
- `slots`: boards of one and of three slots, so that an index of the longer board
  leaves a hole in the shorter; one digit and one other key, because no handler
  compares two digits; one submit, two blur timers, two visits, one new day; a
  countdown of two. A refresh may bring the other board, another session or both.
- `board`: an allowance of one, so that the count passes through one, zero and
  below; the key is new, or was used up elsewhere; two guesses here or elsewhere,
  one ad, one load after the first, and one upset: a raise of the key (a reward or
  midnight) or a fault. `OutMeansOut` and `WinnerKeepsPrize` say nothing after a fault,
  and the other two do not need both. One `fetchLiveAttempts` and one verification at a time; no page is being
  rendered and no guess being served when midnight falls.
- `ad`: two clicks, which is where listeners begin to accumulate; four buttons; a
  cap of one, so that the second reward is refused; two faults.
- `winner`: two tabs, two methods, a prize that an ATM does not pay, two submits,
  one load, and one upset: a fault, midnight or the end of the session (each excuses
  much of what could go wrong after another); lengths of two to three, and four texts: one too
  short, one that fits, one too long, one of a single character that is two UTF-16
  units, which the form accepts and the server refuses. `winner_status`: one tab, **no** fault.
- `accounts`: two browsers and two handlers, one address (no statement touches
  two), one wrong code, one retry, four requests, two faults.

`Max...` and `LastDay` are the only bounds on counters. `CHECK_DEADLOCK FALSE` is
set because a behaviour whose requests are used up rightly stops; that nobody is
stuck before is the subject of the liveness properties. Symmetry is used only in
`ledger`, `daily` and `accounts`, which check no liveness.

Exceptions that properties name, each because the code really does otherwise
there and promises nothing else:

- `faults = 0` in `RedisAgrees`, `OutMeansOut`, `WinnerKeepsPrize`: a call that
  fails falls back to a default.
- `asOf = version` in `OutMeansOut`: a board that shows zero when midnight or a late
  callback raises the key asks for nothing, and stays locked until an ad is verified
  or it is loaded again.
- `units # runes` and `amid = "exchange"` in `RefusedForCause`: see section 5, and two
  tabs that fetch a CSRF token at once.
- `misread` in `TrackerNeverTurnsBack` and `SettledIsShown`: `GetMyStatus` answers
  "unclaimed" when its query for the payout fails (`challenge_handler.go:161`); the
  tracker shows that, turned back, and stops polling (`winner-status.client.tsx:27,37`).
- `misfit` and `excused` in `GuessFits`: a guess saved for another challenge, a
  board that was refreshed on a new day for a guest, a shake timer or a `focusedIndex`
  older than the challenge; and the submit button that stays under the prompt.
- `overtaken` in `RewardIsReal`: a guess made while another handler's
  verification was under way. `RewardedAd` has one tab and one day: a guess in
  another tab, or midnight, would be the same exception.
- `AdCanEnd` in `BusyEnds`: a later button takes `window.googletag`, which the
  first one set, for the script, and waits for ever when the script was blocked.
- `today # 0`, `~session` in `SettledIsShown`: what finding 4 is about.

Fairness.

- `AttemptLedger`, `DailyChallenge`: `WF(Step(h))`, since every Redis and
  Postgres call returns or fails after a timeout; `SF(Lock(h))`, since Postgres
  queues the transactions that wait for a row lock.
- `GamePage`: the server and the renderer answer (`Serve`, `Render`, `Deliver`) and
  answers reach a page that is there (`GuessAnswered`, `LiveAnswered`). Nothing is
  assumed of the EventSource or of its events.
- `RewardedAd`: a loaded script runs its queue, an ad that was asked for comes or
  not and ends (for each click), and a verification is answered. Nothing is
  assumed of the script itself or of the callback.
- `BrowserTabs`: per tab, the interval fires and polls are served, and answers
  arrive.
- `GuessEditor`, `Accounts`: none; they check safety only.

Nothing is ever assumed of players, faults, restarts or midnight.

### Findings

1. *A reward may grant nothing.* A guess that is turned away leaves the counter
   below zero (`redis.go:101`), and the script increments what is there: -1
   becomes 0. The comment at `redis.go:118` says it "grants one extra attempt".
2. *A reward may be overwritten.* The allowance is written by a SET that is a
   command of its own, after a test that is another: EXISTS then SET in `POST /guess`
   (`redis.go:91-99`), GET then SET in a read of the count (`redis.go:71-77`). A first
   touch of the day that has found no key writes 5 after another handler has written
   5 and run the script. The trace shows a guess's EXISTS and SET around a callback
   (with other seeds TLC may show a GET instead). The comment at `redis.go:119` says
   "no race condition possible".
3. *"solved" comes before the commit.* `challenge_service.go:73` publishes inside
   the transaction, so a client that refreshes on it may read an active challenge.
   `useGameEngine.ts:124` says "Another player just won — refresh to show the
   winner podium".
4. *The tracker may never show the admin's decision.* `access_token` lasts 15
   minutes (`auth_handler.go:42`) and no page calls `POST /refresh`, so polls are
   then answered 401 and skipped (`winner-status.client.tsx:35`); after midnight
   `GET /challenge/my-status` answers "unclaimed" for the new challenge, and the
   tracker stops polling. The comment at `winner-status.client.tsx:22-25` says
   that the UI "will reflect it within one polling cycle".

## 4. The proofs

Every invariant and every action property that a passing run checks is a theorem,
and so is the refinement: `Spec => ...`, for every value of the constants. Each
invariant that the proofs use was checked with TLC before it was proved.

Assumed is only what the modules state next to their constants, and TLC evaluates
it in every run: the bounds are natural numbers; the "absent" values (`None`,
`Absent`, `NoRow`, ...) are not real values; `Handlers` is finite where a property
counts handlers (`AttemptLedger`, `Accounts`); there is a user, a code, a button,
and an allowance that is not 0; the lengths a challenge may have (`Counts`) have a
largest one.

**AttemptLedgerProofs**

- `TypeCorrect`.
- `AdCapHolds`, by `AdCapInv`: the key never passes the cap, and each restart
  forgets at most one cap's worth of grants.
- `GuessBoundHolds`: `GuessBound` with `TypeOK` is inductive by itself.
- `NeverTurnedAwayEarlyHolds` and `ExactLedgerHolds`, by `LedgerInv`, that is
  `KeyPresent` (past the seeding, the key is there: a DECR never meets a missing
  one), `Untouched` (a missing key has no history), `AllowanceKept` (what is left
  and what was used never fall below the allowance, whoever seeds again) and
  `ExactLedger`. `NeverTurnedAwayEarly` is not inductive: a repeated SET after a
  refusal is harmless only because of the accounting in `AllowanceKept`.
- `SeedsAreConcurrentHolds`, by `SeedInv`: whoever is about to SET a key that is there
  was about to SET it when it was first written. A handler comes to its SET only by
  finding the key missing, and as long as Redis keeps its data a key that was written
  is there (`LedgerInv`).

**DailyChallengeProofs**

- `LockInv` = `TypeOK`, `Exclusive` (no two transactions hold one row),
  `WinnerSet` (a challenge is inactive exactly when it has a winner) and `Held`
  (what a transaction read under its lock is still true). It gives `TypeCorrect`,
  `RowLockExclusive`, `ChallengeSettledHolds` (an action property, through
  `RowWrites`, which says what a step may write into a row) and
  `SuccessIsTheWinnerHolds`.
- `PayInv` adds `NoneYet` (a handler past `InsertPayout` sees no payout, because
  it holds the lock) and `Alerting` (a handler about to alert has committed the
  only payout, and no alert was sent); from it `PaidOnlyToWinnerHolds`,
  `NoClaimConflictHolds` and `AlertedOnceHolds`.
- `GuessInv` adds `Charged` (a guess past the charge was admitted for its date,
  and the row's date is that date or the next); from it `WinnerGuessedItHolds`.
- `RedisAgreesHolds`: inductive with `LockInv` and `Charged`. An account is set to
  0 and a day is announced only by a handler that is about to win (`EffectsGrow`),
  and without a fault such a handler wins (`WinningGoesOn`, `WinsStays`).

**DailyChallengeRefinement**

- `PrizeAwardImplemented`: `Spec => ImplementsPrizeAward`. The initial tables map
  to no award (first step); `AwardNext` shows that under `LockInv` and `PayInv`
  every step of a handler is a step of the award or changes nothing of it. It has
  one lemma per step of the award: `OfferStep` (a day without a challenge has no
  payout, by `PaidOnlyToWinner`), `WinStep` (the row read under the lock is still
  active: `Held`), `PayStep` (no payout yet: `NoneYet`) and `AlertStep` (no alert
  yet: `Alerting`).
- `AwardedForGood`: no payout is replaced and nothing that was told or announced
  is taken back; shown of the steps of the award (`AwardKept`), to which every step
  of the handlers maps.

**GamePageProofs**

- `TypeHolds`, by `TypeInv`: with the types, a guess that is about to win holds the
  challenge.
- `RefusedOncePerReadHolds`, by `WaitsInv` (only a mounted board waits), `DeniedInv`
  (a refusal brings a count of zero) and `RefusedInv`: a board that may still send a
  guess (`GuessMay`: its count is not zero, or a guess is in flight) was refused no
  more often than it heard a count. A refusal leaves it at zero, and then only an answer of
  `fetchLiveAttempts` (of its first effect, or of an ad's verification) lets it send
  again. How many such answers there are depends on how many ads the player watches,
  so there is no fixed number of refusals for a board.
- `OutMeansOutHolds`, by `DatedInv` (nothing was read at a version to come) and
  `CountInv`: as long as nothing failed, a count of zero of the present version means
  that the key has nothing left, in an answer (`GuessCount`, `LiveCount`), in
  `localStorage` (`StoredCount`) and on the board (`BoardCount`): between two raises
  the key only falls. The one exception is the zero that comes with a success, whose
  lock a reward may follow before the commit: then the challenge is over and no board
  is mounted to show it (`Over`, `OrphanInv`).
- `WinnerKeepsPrizeHolds`, by `PrizeInv`: a success of today is that of the day's
  committed winner (`SuccessInv`), a page of today for a player who is logged in
  is the podium only if another has won (`PodiumInv`), and a page on its way to a
  player who was told is the prize or leaves the board mounted (`ToldInv`).

The frame lemmas (`GuessFrame`, `RenderFrame`, ...) name, for each variable, the
actions that can change it; `FaultFrame` that a run without faults takes none of
the failing steps.

**GuessEditorProofs**

- `TypeHolds`, by `TypeInv`: no list of slots is longer than the longest challenge
  or, on the page, empty, and a saved guess has no holes. It rests on lemmas about
  the operators on slots (`PlaceType`, `StringifiedType`, `RemoveType`, ...).
- `GuessFitsHolds`: inductive with `TypeInv`; `PlaceFits` and `RemoveFits` say that
  writing and removing a digit keep a board that fits, `CompleteLength` that a
  complete board sends one digit per slot.
- `GuessSurvivesLoginHolds` (action property), by `KeptInv`: what the player left
  with is what is saved, until a board is shown to a player who is logged in.
- `FrozenWhilePromptedHolds` (action property), from `TypeInv` alone.

**RewardedAdProofs**

- `TypeHolds`, with `Removed` (what is left of the verifications when one is taken
  out).
- `RewardIsRealHolds`, by `CheckInv`: an answer under way counts no more than the
  server has, unless a guess overtook it, because only a guess lowers that count.

**BrowserTabsProofs**

- `TypeHolds`.
- `ShownIsRecordedHolds`, by `ShownInv`: not only what a tab shows but every answer
  on its way to it, to a poll or to a form, is in the database already, which never
  takes a claim or a decision back (`RecordStays`).
- `TrackerNeverTurnsBackHolds` (action property), by `ShownInv` and `PollInv`: there
  are polls only once there is a claim, and "unclaimed" answers one only on a later
  day or when the payout could not be read.
- `RefusedForCauseHolds`, by `TokenInv` (at each stage of `apiFetch` which token and
  cookie the request has, and that what it sent obeys the rules of the form), `CalmInv`
  (a request that began when the exchange of tokens was over keeps the token that
  stays in the jar) and `Caused` (the property of each answer). It holds through failed
  calls: a claim repeated after a lost answer is accepted again.

**AccountsProofs**

- `TypeHolds`.
- `AccountIsProvenHolds`, by `ProvenInv`: a browser has one request at a time
  (`OneRequest`), what a handler knows of it is about the form and the registration
  that the browser shows (`FormOf`, `OwnRegistration`), and a code that fits was
  mailed (`MailedCode`).
- `WrongCodesBoundedHolds`, by `WrongInv`: the count, and the handlers that have
  read it below the limit and are about to raise it, are together bounded.
- `CodeIsOnItsWayHolds`, by `MailInv`: of every form that asks for a code, whether
  or not its registration still stands.

Only model-checked:

- the liveness properties `RequestsAnswered` and `AnnouncedGetsSolved`
  (`AttemptLedger`, `DailyChallenge`), `LateGuesserSees`, `BusyEnds`,
  `GrantIsReported` and `SettledIsShown`: the prover reasons neither about fairness
  nor about ENABLED;
- the four properties of the violation runs, which are false.

## 5. Accuracy

Definitions are translated from the source; `PROJECT.json` ("map") names the
lines. What is external (the clock, the network, the cookie jar, EventSource,
React, Postgres, Redis, the ad network, the admin) is modelled from how the code
uses it and marked so.

- Data are abstracted to what the properties tell apart: a code is a value with a
  length, a text of a form has a length in UTF-16 units and one in code points, a
  token or a registration is a number, a digit is a model value.
- The comment at `claim-prize-form.client.tsx:38` says that the form's test of lengths
  "mirrors backend ClaimRequest binding tags". It counts UTF-16 units where the tags
  (`models/challenge.go:44-48`) count code points, so a text with characters outside
  the BMP passes one test and not the other; `RefusedForCause` names this as the only
  way in which form and server disagree.
- A rate limit that refuses a request is one of the failed calls.
- Where the frontend's answer depends on something another module is about, any
  answer the backend could give is allowed there.

## 6. Not modelled

- Running without Redis (`REDIS_URL` empty), where the counter functions return
  constants: `routes.go` refuses to start then.
- The signature and the 300 s window of the ad callback: a callback is received
  when they accept it. That a callback may be received twice is modelled.
- The attempts badge of the header with the event `attempts-updated`, and the header's
  own reading of the attempts: display only, no other part reads them.
- In `GamePage`, a refresh that finds the session ended or begun: the board keeps its
  `isAuthenticated` there. `GuessEditor` has such refreshes.
- In `RewardedAd`, other tabs and midnight; `GamePage` has both, with one verification.
- How length, prize and secret of a challenge are drawn: any may come.
- The subscriptions and the keep-alive of `StreamStatus` on the server: an event
  reaches the connections that are open, or is lost.
- `RunCleanup` (expired registrations, advisory lock, sequence): nothing calls it.
- `POST /refresh` with the `refresh_tokens` rows, and the Redis entry
  `user:active:{id}` of the middleware: no page calls the one, and since no code
  unverifies or removes a user, the other never differs from the table.
- `UpdateUserStatus`, the OTP table with its repository functions, `UserStat` and
  `logoutAction`: nothing calls or reads them.
- The week after which the CSRF cookie expires; the tests of CORS and origin,
  security headers, routing and the counting of rate limits (a library's).
- The button that offers to buy attempts, which has no handler; the branch of the
  ad button for a missing ad unit.
- Start-up, configuration and migrations: sequential.
- Wording, toasts, animations, password strength display, podium layout, locale
  redirect, static pages.

## 7. Plan

The operations that pages reach are modelled, apart from those section 6 lists, and
the safety properties are proved. What is left is to prove more about how the
modules fit together.

1. An abstract allowance (given, used, refused) that `AttemptLedger` implements, as
   `DailyChallenge` implements `PrizeAward`; it would replace the reductions of the
   counter in `GamePage` and `RewardedAd` by one statement that both rest on.
2. That the server of `GamePage` (`phase`, `winner`) takes only steps that
   `DailyChallenge` takes, for one player and the others as one.
3. The safety halves of the liveness properties: what may delay `RequestsAnswered`
   and `LateGuesserSees` but not undo it.
