------------------------------ MODULE GamePage ------------------------------
(***************************************************************************)
(* One player's page: what app/[locale]/page.tsx decides to show from two  *)
(* readings of the server, the board's count of attempts (useGameEngine,   *)
(* challenge.client.service) with its copy in localStorage, the guess that *)
(* is in flight, and the EventSource through which the board learns of a   *)
(* win.                                                                    *)
(*                                                                         *)
(* The server is the day's attempts key of this player and the day's       *)
(* challenge, reduced from AttemptLedger and DailyChallenge: a guess is    *)
(* charged, then judged under the row's lock; "solved" is published before *)
(* the commit.  The player's other tabs and devices use the same key, and  *)
(* the ad network's callback raises it.  How a guess is put together is    *)
(* the subject of GuessEditor; of the ad button, which the locked panel    *)
(* offers, the verification alone is here: RewardedAd has the rest.        *)
(***************************************************************************)
EXTENDS Integers

CONSTANTS
    Allowance,    \* MAX_ATTEMPTS, and the server's allowance a day
    None,         \* nothing stored, nothing known
    MaxGuesses,   \* bound: guesses submitted, here and elsewhere
    MaxAds,       \* bound: ads seen to their end on this page
    MaxLoads,     \* bound: page loads after the first
    MaxUpsets,    \* bound: raises of the key, failed calls and broken
                  \* connections, together
    LastDay       \* bound: the days are 0 .. LastDay

ASSUME PageAssumption ==
    /\ Allowance \in Nat \ {0}
    /\ None \notin Int \cup {"me", "other"}
    /\ {MaxGuesses, MaxAds, MaxLoads, MaxUpsets, LastDay} \subseteq Nat

VARIABLES
    \* the server
    today,
    left,       \* the attempts key of this player for today
    phase,      \* today's challenge: "missing" (no row yet), "active",
                \* "announced" (not committed) or "solved"
    winner,     \* "me", "other" or None
    \* answers on their way
    guess,      \* POST /guess: where it is, its answer, and who waits for it
    live,       \* GET /challenge/attempts of the board's first effect
    check,      \* the same request, of the ad button's handleRewardGranted
    event,      \* a "solved" event is on its way to the browser
    wanted,     \* router.refresh was called and has not begun
    render,     \* the rendering of the page on the Next.js server
    \* the browser
    auth,       \* the page was rendered with an access_token cookie
    page,       \* what is mounted
    attempts, hasWon, submitting,   \* of useGameEngine
    source,     \* the board's EventSource
    watching,   \* an ad button of this board is listening for its reward
    stored,     \* localStorage: the day and the count saved with it
    \* what happened so far, which no code reads:
    version,    \* how often the key was raised: by a new day or a reward
    asOf,       \* the version of the key the shown count was read from
    heard,      \* counts of fetchLiveAttempts this board was given
    refused,    \* guesses of this board answered "no attempts left"
    told,       \* the board was told "success" for today's challenge
    guesses, ads, loads, faults  \* counters for the bounds

server  == <<today, left, phase, winner, version>>
board   == <<attempts, hasWon, submitting, stored, asOf, told>>
button  == <<check, watching, heard>>
bounds  == <<guesses, ads, loads, faults>>
vars    == <<today, left, phase, winner, version, guess, live, check, event,
             wanted, render, auth, page, attempts, hasWon, submitting, source,
             watching, stored, asOf, heard, refused, told, guesses, ads,
             loads, faults>>

Idle == [at |-> "none"]
(* What happens to the page from outside: the key is raised (see version), *)
(* a call fails.  Bounded together.                                        *)
Upset == version + faults < MaxUpsets
Raise == Upset /\ version' = version + 1
Fault == Upset /\ faults' = faults + 1

(* getBoardTitle, as far as attempts go: the claim form, the locked panel  *)
(* or the board to play on                                                 *)
Panel == IF hasWon THEN "won" ELSE IF attempts = 0 THEN "out" ELSE "play"

-----------------------------------------------------------------------------
(* The server.                                                             *)

(* A right guess of somebody else is published, then committed.            *)
OtherAnnounces ==
    /\ phase = "active"
    /\ phase' = "announced" /\ winner' = "other"
    /\ event' = (event \/ source = "open")
    /\ UNCHANGED <<today, left, version, guess, live, wanted, render, auth,
                   page, board, source, refused, button, bounds>>

OtherCommits ==
    /\ phase = "announced" /\ winner = "other"
    /\ phase' = "solved"
    /\ UNCHANGED <<today, left, winner, version, guess, live, event, wanted,
                   render, auth, page, board, source, refused, button, bounds>>

(* Variant: the winner of yesterday stays.                                 *)
MidnightKeepsWinner ==
    /\ today < LastDay /\ today' = today + 1
    /\ guess.at \in {"none", "answered"} /\ phase # "announced"
    /\ render.at = "none"
    /\ Raise
    /\ left' = Allowance /\ phase' = "active"
    /\ told' = FALSE
    /\ UNCHANGED <<winner, guess, live, event, wanted, render, auth, page,
                   attempts, hasWon, submitting, source, stored, asOf, refused,
                   button, bounds>>

(* A new date has a new key, and a new challenge once somebody asks for    *)
(* it.  A guess that is being served when midnight falls is a matter of    *)
(* DailyChallenge; that no page is being rendered then is a bound.         *)
Midnight ==
    /\ today < LastDay /\ today' = today + 1
    /\ guess.at \in {"none", "answered"} /\ phase # "announced"
    /\ render.at = "none"
    /\ Raise
    /\ left' = Allowance /\ phase' = "missing" /\ winner' = None
    /\ told' = FALSE
    /\ UNCHANGED <<guess, live, event, wanted, render, auth, page, attempts,
                   hasWon, submitting, source, stored, asOf, refused, button,
                   bounds>>

(* GetOrCreateDailyChallenge for another visitor                           *)
OtherVisits ==
    /\ phase = "missing"
    /\ phase' = "active"
    /\ UNCHANGED <<today, left, winner, version, guess, live, event, wanted,
                   render, auth, page, board, source, refused, button, bounds>>

(* A wrong guess of this player in another tab or on another device        *)
GuessElsewhere ==
    /\ guesses < MaxGuesses /\ guesses' = guesses + 1
    /\ left' = left - 1
    /\ UNCHANGED <<today, phase, winner, version, guess, live, event, wanted,
                   render, auth, page, board, source, refused, button, ads,
                   loads, faults>>

(* The ad network's callback, for an ad watched here or elsewhere, grants  *)
(* one attempt: before, during or after what the button does.              *)
Reward ==
    /\ Raise
    /\ left' = left + 1
    /\ UNCHANGED <<today, phase, winner, guess, live, event, wanted, render,
                   auth, page, board, source, refused, button, bounds>>

Reply(kind, n) ==
    IF guess.to = "nobody" THEN Idle
    ELSE [at |-> "answered", kind |-> kind, n |-> n, day |-> today,
          version |-> version, to |-> guess.to]

(* DecrementAndSave, answered 403 below zero                               *)
Charge ==
    /\ guess.at = "sent"
    /\ left' = left - 1
    /\ guess' = IF left' < 0 THEN Reply("denied", 0)
                ELSE [at |-> "charged", to |-> guess.to]
    /\ UNCHANGED <<today, phase, winner, version, live, event, wanted, render,
                   auth, page, board, source, refused, button, bounds>>

(* The challenge of today is not there yet or no longer active: 404.       *)
JudgeLate ==
    /\ guess.at = "charged" /\ phase \in {"missing", "solved"}
    /\ guess' = Reply("missing", 0)
    /\ UNCHANGED <<server, live, event, wanted, render, auth, page, board,
                   source, refused, button, bounds>>

JudgeWrong ==
    /\ guess.at = "charged" /\ phase = "active"
    /\ guess' = Reply("incorrect", left)
    /\ UNCHANGED <<server, live, event, wanted, render, auth, page, board,
                   source, refused, button, bounds>>

(* A right guess: LockOnSuccess, the winner, the event                     *)
JudgeRight ==
    /\ guess.at = "charged" /\ phase = "active"
    /\ left' = 0 /\ phase' = "announced" /\ winner' = "me"
    /\ event' = (event \/ source = "open")
    /\ guess' = [at |-> "winning", to |-> guess.to]
    /\ UNCHANGED <<today, version, live, wanted, render, auth, page, board,
                   source, refused, button, bounds>>

CommitMine ==
    /\ guess.at = "winning"
    /\ phase' = "solved"
    /\ guess' = Reply("success", 0)
    /\ UNCHANGED <<today, left, winner, version, live, event, wanted, render,
                   auth, page, board, source, refused, button, bounds>>

(* The call fails before or after it was charged, the transaction is       *)
(* rolled back, or a guard in front of the handler answers 401 or 403 (the *)
(* CSRF test among them).                                                  *)
GuessFails(kind) ==
    /\ guess.at \in {"sent", "charged", "winning"} /\ Fault
    /\ kind = "denied" => guess.at = "sent"
    /\ guess' = Reply(kind, 0)
    /\ phase' = IF guess.at = "winning" THEN "active" ELSE phase
    /\ winner' = IF guess.at = "winning" THEN None ELSE winner
    /\ UNCHANGED <<today, left, version, live, event, wanted, render, auth,
                   page, board, source, refused, button, guesses, ads, loads>>

(* GET /challenge/attempts reads the key.                                  *)
ServeLive ==
    /\ live.at = "sent"
    /\ live' = [at |-> "answered", n |-> left, version |-> version,
                to |-> live.to]
    /\ UNCHANGED <<server, guess, event, wanted, render, auth, page, board,
                   source, refused, button, bounds>>

(* It is not ok, and fetchLiveAttempts returns 0; or it is not answered at *)
(* all, and nothing happens.                                               *)
LiveFails ==
    /\ live.at = "sent" /\ Fault
    /\ \/ live' = [at |-> "answered", n |-> 0, version |-> version,
                   to |-> live.to]
       \/ live' = Idle
    /\ UNCHANGED <<server, guess, event, wanted, render, auth, page, board,
                   source, refused, button, guesses, ads, loads>>

(* The same for handleRewardGranted, to which a 0 and an error are alike   *)
ServeCheck ==
    /\ check.at = "sent"
    /\ check' = [at |-> "answered", n |-> left, version |-> version]
    /\ UNCHANGED <<server, guess, live, event, wanted, render, auth, page,
                   board, source, refused, watching, heard, bounds>>

CheckFails ==
    /\ check.at = "sent" /\ Fault
    /\ check' = Idle
    /\ UNCHANGED <<server, guess, live, event, wanted, render, auth, page,
                   board, source, refused, watching, heard, guesses, ads,
                   loads>>

-----------------------------------------------------------------------------
(* The count of attempts.                                                  *)

(* saveTodayAttempts: dated by the browser's clock when it is called       *)
Save(n, from) == stored' = [day |-> today, n |-> n, from |-> from]

(* setAttempts                                                             *)
SetAttempts(n, from) == attempts' = n /\ asOf' = from

(* Variant: the stored count is used whatever its date.                    *)
StoredAttempts == IF stored # None THEN stored.n ELSE Allowance

(* getTodayAttempts                                                        *)
TodayAttempts ==
    IF stored # None /\ stored.day = today THEN stored.n ELSE Allowance

(* The effect that opens an EventSource while the player may still guess,  *)
(* and closes it otherwise: what was on its way to it is dropped.          *)
Listen ==
    /\ source' = IF page' # "board" \/ hasWon' \/ attempts' = 0 THEN "closed"
                 ELSE IF source = "closed" THEN "connecting" ELSE source
    /\ event' = (event /\ source' = "open")

-----------------------------------------------------------------------------
(* The board.                                                              *)

(* submitSequence up to the request, of a player who is logged in          *)
Submit ==
    /\ page = "board" /\ auth /\ Panel = "play" /\ ~submitting
    /\ guess.at = "none"
    /\ guesses < MaxGuesses /\ guesses' = guesses + 1
    /\ guess' = [at |-> "sent", to |-> "board"]
    /\ submitting' = TRUE
    /\ UNCHANGED <<server, live, event, wanted, render, auth, page, attempts,
                   hasWon, source, stored, asOf, refused, told, button, ads,
                   loads, faults>>

(* Variant: a guess that is turned away leaves the count as it is.         *)
CountKindsAccepted == {"success", "incorrect"}

(* The answers that bring a count, 403 that of zero                        *)
CountKinds == {"success", "incorrect", "denied"}

(* Variant: a 404 is an error like others.                                 *)
NoRefresh == {}

(* The answers after which the page is rendered again                      *)
RefreshKinds == {"missing"}

(* A success of yesterday does not count.                                  *)
ToldToday == guess.kind = "success" /\ guess.day = today

(* submitSequence from the answer on, in a board that is still mounted     *)
GuessAnswered ==
    /\ guess.at = "answered" /\ guess.to = "board"
    /\ guess' = Idle /\ submitting' = FALSE
    /\ IF guess.kind \in CountKinds
       THEN SetAttempts(guess.n, guess.version) /\ Save(guess.n, guess.version)
       ELSE UNCHANGED <<attempts, asOf, stored>>
    /\ hasWon' = (hasWon \/ guess.kind = "success")
    /\ told' = (told \/ ToldToday)
    /\ refused' = IF guess.kind = "denied" THEN refused + 1 ELSE refused
    /\ wanted' = (wanted \/ guess.kind \in RefreshKinds)
    /\ UNCHANGED <<server, live, render, auth, page, button, bounds>>
    /\ Listen

(* After the board was unmounted by a refresh the answer still saves its   *)
(* count and may ask for another refresh.                                  *)
GuessAnsweredLate ==
    /\ guess.at = "answered" /\ guess.to = "left"
    /\ guess' = Idle
    /\ IF guess.kind \in CountKinds THEN Save(guess.n, guess.version)
       ELSE UNCHANGED stored
    /\ wanted' = (wanted \/ guess.kind \in RefreshKinds)
    /\ UNCHANGED <<server, live, event, render, auth, page, attempts, hasWon,
                   submitting, source, asOf, refused, told, button, bounds>>

(* The answer of fetchLiveAttempts                                         *)
LiveAnswered ==
    /\ live.at = "answered"
    /\ live' = Idle
    /\ Save(live.n, live.version)
    /\ IF live.to = "board"
       THEN SetAttempts(live.n, live.version) /\ heard' = heard + 1
       ELSE UNCHANGED <<attempts, asOf, heard>>
    /\ UNCHANGED <<server, guess, check, wanted, render, auth, page, hasWon,
                   submitting, watching, refused, told, bounds>>
    /\ Listen

(* The ad button of the locked panel: the ad has been watched, and its     *)
(* listener verifies.  The listeners of this board's earlier buttons stay, *)
(* so that a later ad, or the same, is verified again though the panel is  *)
(* gone.  (A guest's verification is answered 401 and changes nothing.)    *)
AdGranted ==
    /\ page = "board" /\ auth /\ (Panel = "out" \/ watching)
    /\ check.at = "none"  \* bound: one verification at a time
    /\ ads < MaxAds /\ ads' = ads + 1
    /\ check' = [at |-> "sent"] /\ watching' = TRUE
    /\ UNCHANGED <<server, guess, live, event, wanted, render, auth, page,
                   board, source, heard, refused, guesses, loads, faults>>

(* Its answer: handleRewardGranted reports a count above zero, with which  *)
(* onRewardGranted sets the board's count; nothing is stored.              *)
CheckAnswered ==
    /\ check.at = "answered"
    /\ check' = Idle
    /\ IF check.n > 0
       THEN SetAttempts(check.n, check.version) /\ heard' = heard + 1
       ELSE UNCHANGED <<attempts, asOf, heard>>
    /\ UNCHANGED <<server, guess, live, wanted, render, auth, page, hasWon,
                   submitting, watching, stored, refused, told, bounds>>
    /\ Listen

Connect ==
    /\ source = "connecting"
    /\ source' = "open"
    /\ UNCHANGED <<server, guess, live, event, wanted, render, auth, page,
                   board, refused, button, bounds>>

(* The connection breaks and what is on its way is lost; a new attempt     *)
(* that is answered with an HTTP error is the last one.                    *)
Disconnect ==
    /\ Fault
    /\ \/ source = "open" /\ source' = "connecting"
       \/ source = "connecting" /\ source' = "failed"
    /\ event' = FALSE
    /\ UNCHANGED <<server, guess, live, wanted, render, auth, page, board,
                   refused, button, guesses, ads, loads>>

SolvedEvent ==
    /\ event /\ event' = FALSE
    /\ wanted' = TRUE
    /\ UNCHANGED <<server, guess, live, render, auth, page, board, source,
                   refused, button, bounds>>

-----------------------------------------------------------------------------
(* The page.                                                               *)

(* What an unmounted board and its buttons kept is gone.                   *)
NoBoard ==
    /\ attempts' = Allowance /\ hasWon' = FALSE /\ submitting' = FALSE
    /\ check' = Idle /\ watching' = FALSE
    /\ asOf' = 0 /\ heard' = 0 /\ refused' = 0

(* A page load: by the address bar, a login or a logout.  The logout       *)
(* button of the header forgets the stored count, that of the menu for     *)
(* small screens does not.                                                 *)
Load(a) ==
    /\ loads < MaxLoads /\ loads' = loads + 1
    /\ auth' = a /\ page' = "loading"
    /\ render' = [at |-> "challenge"]
    /\ wanted' = FALSE
    /\ guess' = IF guess.at \in {"none", "answered"} THEN Idle
                ELSE [guess EXCEPT !.to = "nobody"]
    /\ live' = Idle /\ NoBoard
    /\ stored' \in IF auth /\ ~a THEN {stored, None} ELSE {stored}
    /\ UNCHANGED <<server, told, guesses, ads, faults>>
    /\ Listen

(* router.refresh                                                          *)
Refresh ==
    /\ wanted /\ render.at = "none"
    /\ wanted' = FALSE
    /\ render' = [at |-> "challenge"]
    /\ UNCHANGED <<server, guess, live, event, auth, page, board, source,
                   refused, button, bounds>>

Ready(show) == [at |-> "ready", show |-> show]

(* getDailyChallenge, which creates the day's challenge when it is not     *)
(* there                                                                   *)
ReadChallenge ==
    /\ render.at = "challenge"
    /\ render' = IF phase # "solved" THEN Ready("board")
                 ELSE IF auth THEN [render EXCEPT !.at = "status"]
                 ELSE Ready("podium")
    /\ phase' = IF phase = "missing" THEN "active" ELSE phase
    /\ UNCHANGED <<today, left, winner, version, guess, live, event, wanted,
                   auth, page, board, source, refused, button, bounds>>

(* Variant: the page trusts the public answer, which never names a winner. *)
ReadPublicStatus ==
    /\ render.at = "status"
    /\ render' = Ready("podium")
    /\ UNCHANGED <<server, guess, live, event, wanted, auth, page, board,
                   source, refused, button, bounds>>

(* getMyStatus: the claim form or the payout's status for the winner       *)
ReadStatus ==
    /\ render.at = "status"
    /\ render' = Ready(IF phase = "solved" /\ winner = "me" THEN "prize"
                       ELSE "podium")
    /\ UNCHANGED <<server, guess, live, event, wanted, auth, page, board,
                   source, refused, button, bounds>>

(* getDailyChallenge throws, and the error page is shown.                  *)
ChallengeFails ==
    /\ render.at = "challenge" /\ Fault
    /\ render' = Ready("error")
    /\ UNCHANGED <<server, guess, live, event, wanted, auth, page, board,
                   source, refused, button, guesses, ads, loads>>

(* getMyStatus falls back to "not the winner".                             *)
StatusFails ==
    /\ render.at = "status" /\ Fault
    /\ render' = Ready("podium")
    /\ UNCHANGED <<server, guess, live, event, wanted, auth, page, board,
                   source, refused, button, guesses, ads, loads>>

(* The page that was rendered reaches the browser.  A board stays mounted  *)
(* when the page is a board again; otherwise what was mounted goes, and a  *)
(* board begins anew.                                                      *)
KeepBoard ==
    /\ render.at = "ready" /\ render.show = "board" /\ page = "board"
    /\ render' = Idle
    /\ UNCHANGED <<server, guess, live, event, wanted, auth, page, board,
                   source, refused, button, bounds>>

MountBoard ==
    /\ render.at = "ready" /\ render.show = "board" /\ page # "board"
    /\ live.at = "none"  \* bound: one such request at a time
    /\ render' = Idle /\ page' = "board"
    /\ attempts' = IF auth THEN Allowance ELSE TodayAttempts
    /\ asOf' = IF ~auth /\ stored # None /\ stored.day = today THEN stored.from
               ELSE version
    /\ hasWon' = FALSE /\ submitting' = FALSE
    /\ live' = IF auth THEN [at |-> "sent", to |-> "board"] ELSE Idle
    /\ UNCHANGED <<server, guess, wanted, auth, stored, refused, told, button,
                   bounds>>
    /\ Listen

Orphan(request) ==
    IF request.at # "none" /\ request.to = "board"
    THEN [request EXCEPT !.to = "left"] ELSE request

ShowOther ==
    /\ render.at = "ready" /\ render.show # "board"
    /\ render' = Idle /\ page' = render.show
    /\ guess' = Orphan(guess) /\ live' = Orphan(live)
    /\ NoBoard
    /\ UNCHANGED <<server, wanted, auth, stored, told, bounds>>
    /\ Listen

-----------------------------------------------------------------------------
Init ==
    /\ today = 0 /\ left \in {0, Allowance}  \* used up elsewhere, or new
    /\ phase = "active" /\ winner = None
    /\ version = 0 /\ guess = Idle /\ live = Idle /\ check = Idle
    /\ event = FALSE /\ wanted = FALSE
    /\ render = [at |-> "challenge"]
    /\ auth \in BOOLEAN /\ page = "loading"
    /\ attempts = Allowance /\ hasWon = FALSE /\ submitting = FALSE
    /\ source = "closed" /\ stored = None
    /\ watching = FALSE /\ asOf = 0 /\ heard = 0 /\ refused = 0 /\ told = FALSE
    /\ guesses = 0 /\ ads = 0 /\ loads = 0 /\ faults = 0

Judge   == JudgeLate \/ JudgeWrong \/ JudgeRight
Serve   == Charge \/ Judge \/ CommitMine \/ OtherCommits \/ ServeLive
           \/ ServeCheck
Arrive  == GuessAnswered \/ GuessAnsweredLate \/ LiveAnswered \/ SolvedEvent
           \/ CheckAnswered
Render  == Refresh \/ ReadChallenge \/ ReadStatus
Deliver == KeepBoard \/ MountBoard \/ ShowOther

Next ==
    \/ Serve \/ Arrive \/ Render \/ Deliver
    \/ OtherAnnounces \/ OtherVisits \/ GuessElsewhere \/ Reward \/ Midnight
    \/ Submit \/ AdGranted \/ Connect
    \/ \E a \in BOOLEAN : Load(a)
    \/ \E kind \in {"denied", "error"} : GuessFails(kind)
    \/ LiveFails \/ CheckFails \/ Disconnect
    \/ ChallengeFails \/ StatusFails

(* The server and the renderer answer, and answers reach the browser.      *)
Fairness ==
    /\ WF_vars(Serve) /\ WF_vars(Render) /\ WF_vars(Deliver)
    /\ WF_vars(GuessAnswered) /\ WF_vars(LiveAnswered)

Spec == Init /\ [][Next]_vars /\ Fairness

-----------------------------------------------------------------------------
(* Correctness.                                                            *)

Days == 0 .. LastDay

(* A guess that is answered, and what was answered when                    *)
GuessAnswers ==
    [at : {"answered"}, to : {"board", "left"}, n : Int, day : Days,
     version : Nat,
     kind : {"success", "incorrect", "denied", "missing", "error"}]

Guesses ==
    {Idle} \cup GuessAnswers
    \cup [at : {"sent", "charged", "winning"},
          to : {"board", "left", "nobody"}]

(* GET /challenge/attempts and its answer                                  *)
LiveAnswers ==
    [at : {"answered"}, to : {"board", "left"}, n : Int, version : Nat]
CheckAnswers == [at : {"answered"}, n : Int, version : Nat]
Lives == {Idle} \cup LiveAnswers \cup [at : {"sent"}, to : {"board", "left"}]
Checks == {Idle} \cup CheckAnswers \cup [at : {"sent"}]

(* A page that is being rendered, and one that is rendered                 *)
Shows     == {"board", "podium", "prize", "error"}
Renders   == [at : {"ready"}, show : Shows]
Renderings == {Idle} \cup Renders \cup [at : {"challenge", "status"}]

(* Every variable keeps its type.                                          *)
TypeOK ==
    /\ today \in Days /\ left \in Int
    /\ phase \in {"missing", "active", "announced", "solved"}
    /\ winner \in {"me", "other", None}
    /\ winner = None <=> phase \in {"missing", "active"}
    /\ guess \in Guesses /\ live \in Lives /\ check \in Checks
    /\ render \in Renderings
    /\ {event, wanted, auth, hasWon, submitting, watching, told}
         \subseteq BOOLEAN
    /\ page \in Shows \cup {"loading"}
    /\ attempts \in Int /\ refused \in Nat
    /\ source \in {"closed", "connecting", "open", "failed"}
    /\ stored # None => /\ stored.day \in Days /\ stored.from \in Nat
                        /\ stored.n \in Int
    /\ {version, asOf, heard} \subseteq Nat
    /\ {guesses, ads, loads, faults} \subseteq Nat

(* The locked panel tells the truth: when nothing failed, a board, also a  *)
(* guest's board with a stored count, says "out of attempts" only when the *)
(* server would indeed turn a guess away, however late the answers came    *)
(* and whatever was guessed elsewhere, unless the key was raised since the *)
(* count was read: by midnight (the board does not ask again) or by a      *)
(* reward that no verification has seen.                                   *)
OutMeansOut ==
    page = "board" /\ Panel = "out" /\ asOf = version /\ faults = 0 =>
        left <= 0

(* A count that is too high costs little: a board that was turned away is  *)
(* turned away again only after another answer of fetchLiveAttempts, that  *)
(* of its first effect or that of an ad's verification, whatever fails,    *)
(* whatever the other tabs spend and however many days it stays open.      *)
RefusedOncePerRead == refused <= 1 + heard

(* A player who was told "success" keeps the way to the prize, the form on *)
(* the board or the prize page, through the refresh that the own "solved"  *)
(* event causes and through page loads, as long as nothing fails.          *)
WinnerKeepsPrize ==
    told /\ auth /\ faults = 0 =>
        page \in {"prize", "loading"} \/ (page = "board" /\ hasWon)

(* Who guesses too late learns of the win: a guess that is answered 404    *)
(* leads away from the board, though the board's own event was lost or its *)
(* refresh came before the commit.                                         *)
TooLate ==
    /\ guess.at = "answered" /\ guess.kind = "missing" /\ guess.to = "board"
    /\ phase = "solved"

LateGuesserSees == TooLate ~> (page # "board" \/ phase # "solved")
=============================================================================
