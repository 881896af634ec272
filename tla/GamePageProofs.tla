--------------------------- MODULE GamePageProofs ---------------------------
(***************************************************************************)
(* The safety properties of GamePage for every allowance and every number  *)
(* of guesses, rewards, page loads and faults.                             *)
(***************************************************************************)
EXTENDS GamePage, TLAPS

(* A right guess that is not committed yet holds the challenge.            *)
WinningInv == guess.at = "winning" => phase = "announced" /\ winner = "me"

TypeInv == TypeOK /\ WinningInv

(* Nobody but a mounted board waits for an answer to the board.            *)
WaitsInv == guess.at # "none" /\ guess.to = "board" => page = "board"

(* What can still make the board send a guess: a count that is not zero,   *)
(* or a guess in flight, whose answer is not yet known.                    *)
GuessMay == attempts # 0 \/ (guess.at # "none" /\ guess.to = "board")

(* Each guess that is turned away leaves a count of zero, and only another *)
(* count of fetchLiveAttempts raises it.                                   *)
RefusedInv ==
    /\ RefusedOncePerRead
    /\ page = "board" /\ GuessMay => refused <= heard
    /\ page # "board" => refused = 0

(* A guess that is turned away answers a count of zero.                    *)
DeniedInv == guess.at = "answered" /\ guess.kind = "denied" => guess.n = 0

(* Nothing was read after a raise of the key that is still to come.        *)
DatedInv ==
    /\ guess.at = "answered" => guess.version <= version
    /\ live.at = "answered" => live.version <= version
    /\ check.at = "answered" => check.version <= version
    /\ stored # None => stored.from <= version
    /\ asOf <= version

(* No answer was given on a day that is still to come.                     *)
DayInv == guess.at = "answered" => guess.day <= today

(* A page on its way mounts a board.                                       *)
Coming == render.at = "ready" /\ render.show = "board" /\ page # "board"

(* The day's challenge is solved, and no board is to be mounted before     *)
(* midnight.                                                               *)
Over == phase = "solved" /\ ~Coming

(* As long as nothing failed, a count of zero, wherever it has got to, is  *)
(* that of a key with nothing left, unless the key was raised since; or it *)
(* came with the success of a guess, between whose lock and whose commit a *)
(* reward may fall, and then no board shows it as "out of attempts".       *)
GuessCount ==
    guess.at = "answered" /\ guess.kind \in CountKinds
    /\ guess.version = version /\ guess.n = 0 =>
        left <= 0 \/ (guess.kind = "success" /\ Over)
LiveCount ==
    live.at = "answered" /\ live.version = version /\ live.n = 0 => left <= 0
StoredCount ==
    stored # None /\ stored.from = version /\ stored.n = 0 =>
        left <= 0 \/ Over
BoardCount ==
    page = "board" /\ asOf = version /\ attempts = 0 => left <= 0 \/ hasWon

(* A board that went while its guess was being served went because         *)
(* somebody else had won.                                                  *)
OrphanInv ==
    guess.at \in {"sent", "charged", "winning"} /\ guess.to = "left" =>
        phase = "solved"

CountInv ==
    faults = 0 =>
        GuessCount /\ LiveCount /\ StoredCount /\ BoardCount /\ OrphanInv

(* A success of today is that of the player who won today.                 *)
SuccessInv ==
    /\ (guess.at = "answered" /\ guess.kind = "success"
        /\ guess.day = today) => phase = "solved" /\ winner = "me"
    /\ told => phase = "solved" /\ winner = "me"

(* A page other than the board is rendered only when the challenge is      *)
(* solved, for a player who is logged in the podium only when somebody     *)
(* else has won.                                                           *)
PodiumInv ==
    /\ render.at = "status" => phase = "solved"
    /\ (faults = 0 /\ render.at = "ready" /\ render.show # "board") =>
          phase = "solved" /\ render.show # "error"
    /\ (faults = 0 /\ auth /\ render.at = "ready"
        /\ render.show = "podium") => winner # "me"

(* No page on its way takes the prize from a player who was told of it.    *)
ToldInv ==
    told /\ auth /\ faults = 0 /\ render.at = "ready" =>
        \/ render.show = "prize"
        \/ render.show = "board" /\ page = "board" /\ hasWon

PrizeInv == SuccessInv /\ ToldInv /\ WinnerKeepsPrize

-----------------------------------------------------------------------------
(* What is on its way                                                      *)

Owners == {"board", "left", "nobody"}
Kinds  == {"success", "incorrect", "denied", "missing", "error"}

LEMMA GuessType ==
  ASSUME NEW g \in Guesses
  PROVE  /\ g.at \in {"none", "sent", "charged", "winning", "answered"}
         /\ g.at = "none" => g = Idle
         /\ g.at # "none" => g.to \in Owners
         /\ g.at = "answered" =>
               g \in GuessAnswers /\ g.n \in Int /\ g.day \in Days
               /\ g.kind \in Kinds /\ g.version \in Nat
         /\ g.at \in {"sent", "charged", "winning"} =>
               g \in [at : {"sent", "charged", "winning"}, to : Owners]
  <1>1. CASE g = Idle
    BY <1>1 DEF Idle
  <1>2. CASE g \in GuessAnswers
    BY <1>2 DEF GuessAnswers, Owners, Kinds
  <1>3. CASE g \in [at : {"sent", "charged", "winning"}, to : Owners]
    BY <1>3 DEF Owners
  <1> QED
    BY <1>1, <1>2, <1>3 DEF Guesses, Owners

LEMMA LiveType ==
  ASSUME NEW g \in Lives
  PROVE  /\ g.at \in {"none", "sent", "answered"}
         /\ g.at = "none" => g = Idle
         /\ g.at # "none" => g.to \in {"board", "left"}
         /\ g.at = "answered" =>
               g \in LiveAnswers /\ g.n \in Int /\ g.version \in Nat
  <1>1. CASE g = Idle
    BY <1>1 DEF Idle
  <1>2. CASE g \in LiveAnswers
    BY <1>2 DEF LiveAnswers
  <1>3. CASE g \in [at : {"sent"}, to : {"board", "left"}]
    BY <1>3
  <1> QED
    BY <1>1, <1>2, <1>3 DEF Lives

LEMMA CheckType ==
  ASSUME NEW g \in Checks
  PROVE  /\ g.at \in {"none", "sent", "answered"}
         /\ g.at = "answered" =>
               g \in CheckAnswers /\ g.n \in Int /\ g.version \in Nat
  <1>1. CASE g = Idle
    BY <1>1 DEF Idle
  <1>2. CASE g \in CheckAnswers
    BY <1>2 DEF CheckAnswers
  <1>3. CASE g \in [at : {"sent"}]
    BY <1>3
  <1> QED
    BY <1>1, <1>2, <1>3 DEF Checks

LEMMA RenderType ==
  ASSUME NEW g \in Renderings
  PROVE  /\ g.at \in {"none", "challenge", "status", "ready"}
         /\ g.at = "ready" => g \in Renders /\ g.show \in Shows
         /\ g.at \in {"challenge", "status"} =>
               g \in [at : {"challenge", "status"}]
  <1>1. CASE g = Idle
    BY <1>1 DEF Idle
  <1>2. CASE g \in Renders
    BY <1>2 DEF Renders
  <1>3. CASE g \in [at : {"challenge", "status"}]
    BY <1>3
  <1> QED
    BY <1>1, <1>2, <1>3 DEF Renderings

(* An answer to the board, or to nobody any more                           *)
LEMMA ReplyType ==
  ASSUME TypeOK, guess.at # "none", NEW kind \in Kinds, NEW n \in Int
  PROVE  /\ Reply(kind, n) \in Guesses
         /\ Reply(kind, n).at \in {"answered", "none"}
         /\ Reply(kind, n).at = "answered" =>
               /\ Reply(kind, n).kind = kind /\ Reply(kind, n).n = n
               /\ Reply(kind, n).day = today
               /\ Reply(kind, n).version = version
               /\ Reply(kind, n).to = guess.to
         /\ Reply(kind, n).at # "none" => Reply(kind, n).to = guess.to
  <1>1. /\ guess.to \in Owners /\ today \in Days /\ version \in Nat
    BY GuessType DEF TypeOK
  <1>2. CASE guess.to = "nobody"
    BY <1>2 DEF Reply, Idle, Guesses
  <1>3. CASE guess.to # "nobody"
    <2>1. Reply(kind, n) \in GuessAnswers
      BY <1>1, <1>3 DEF Reply, GuessAnswers, Owners, Kinds
    <2> QED
      BY <1>3, <2>1 DEF Reply, Guesses
  <1> QED
    BY <1>2, <1>3

LEMMA ReadyType ==
  ASSUME NEW show \in Shows
  PROVE  /\ Ready(show) \in Renderings
         /\ Ready(show).at = "ready" /\ Ready(show).show = show
  <1>1. Ready(show) \in Renders
    BY DEF Ready, Renders
  <1> QED
    BY <1>1 DEF Ready, Renderings

LEMMA ListenType ==
  ASSUME TypeOK, Listen
  PROVE  /\ source' \in {"closed", "connecting", "open", "failed"}
         /\ event' \in BOOLEAN
  BY DEF TypeOK, Listen

(* A guess whose owner goes                                                *)
LEMMA GuessMoves ==
  ASSUME NEW g \in Guesses, g.at # "none",
         NEW to \in {"left", "nobody"},
         to = "left" \/ g.at # "answered"
  PROVE  /\ [g EXCEPT !.to = to] \in Guesses
         /\ [g EXCEPT !.to = to].at = g.at
         /\ [g EXCEPT !.to = to].to = to
         /\ g.at = "answered" =>
               /\ [g EXCEPT !.to = to].kind = g.kind
               /\ [g EXCEPT !.to = to].day = g.day
               /\ [g EXCEPT !.to = to].version = g.version
               /\ [g EXCEPT !.to = to].n = g.n
  <1>1. CASE g \in GuessAnswers
    <2>1. [g EXCEPT !.to = to] \in GuessAnswers
      BY <1>1 DEF GuessAnswers
    <2>2. g = [at |-> g.at, to |-> g.to, n |-> g.n, day |-> g.day,
               version |-> g.version, kind |-> g.kind]
      BY <1>1 DEF GuessAnswers
    <2> QED
      BY <1>1, <2>1, <2>2 DEF Guesses, GuessAnswers
  <1>2. CASE g \in [at : {"sent", "charged", "winning"}, to : Owners]
    BY <1>2 DEF Guesses, Owners
  <1> QED
    BY <1>1, <1>2, GuessType

LEMMA OrphanGuess ==
  ASSUME NEW g \in Guesses
  PROVE  /\ Orphan(g) \in Guesses /\ Orphan(g).at = g.at
         /\ g.at # "none" => Orphan(g).to # "board"
         /\ g.at = "answered" =>
               /\ Orphan(g).kind = g.kind
               /\ Orphan(g).day = g.day
               /\ Orphan(g).version = g.version
               /\ Orphan(g).n = g.n
  <1>1. CASE g.at # "none" /\ g.to = "board"
    <2>1. Orphan(g) = [g EXCEPT !.to = "left"]
      BY <1>1 DEF Orphan
    <2> DEFINE o == [g EXCEPT !.to = "left"]
    <2>2. /\ o \in Guesses /\ o.at = g.at /\ o.to = "left"
          /\ g.at = "answered" =>
                /\ o.kind = g.kind /\ o.day = g.day
                /\ o.version = g.version /\ o.n = g.n
      BY <1>1, GuessMoves
    <2> HIDE DEF o
    <2> QED
      BY <2>1, <2>2 DEF o
  <1>2. CASE ~(g.at # "none" /\ g.to = "board")
    BY <1>2 DEF Orphan
  <1> QED
    BY <1>1, <1>2

LEMMA OrphanLive ==
  ASSUME NEW g \in Lives
  PROVE  /\ Orphan(g) \in Lives /\ Orphan(g).at = g.at
         /\ g.at = "answered" =>
               Orphan(g).version = g.version /\ Orphan(g).n = g.n
  <1>1. CASE g.at # "none" /\ g.to = "board"
    <2>1. Orphan(g) = [g EXCEPT !.to = "left"]
      BY <1>1 DEF Orphan
    <2>2. CASE g \in LiveAnswers
      BY <2>1, <2>2 DEF LiveAnswers, Lives
    <2>3. CASE g \in [at : {"sent"}, to : {"board", "left"}]
      BY <2>1, <2>3 DEF Lives
    <2> QED
      BY <1>1, <2>2, <2>3 DEF Lives, Idle
  <1>2. CASE ~(g.at # "none" /\ g.to = "board")
    BY <1>2 DEF Orphan
  <1> QED
    BY <1>1, <1>2

(* A guess whose page is loaded again is answered to nobody.               *)
LEMMA LoadGuess ==
  ASSUME TypeOK, NEW a \in BOOLEAN, Load(a)
  PROVE  /\ guess' \in Guesses
         /\ guess'.at # "answered" /\ guess'.at \in {"none", guess.at}
         /\ guess'.at # "none" => guess'.to = "nobody"
  <1>0. guess \in Guesses
    BY DEF TypeOK
  <1>1. CASE guess.at \in {"none", "answered"}
    BY <1>1 DEF Load, Idle, Guesses
  <1>2. CASE guess.at \notin {"none", "answered"}
    <2>1. guess' = [guess EXCEPT !.to = "nobody"]
      BY <1>2 DEF Load
    <2> QED
      BY <1>0, <1>2, <2>1, GuessMoves
  <1> QED
    BY <1>1, <1>2

-----------------------------------------------------------------------------
(* Types                                                                   *)

LEMMA TypeInit == Init => TypeInv
  <1> SUFFICES ASSUME Init PROVE TypeInv
    OBVIOUS
  <1>1. /\ guess \in Guesses /\ live \in Lives /\ check \in Checks
        /\ guess.at = "none"
    BY DEF Init, Idle, Guesses, Lives, Checks
  <1>2. today \in Days
    BY PageAssumption DEF Init, Days
  <1>3. render \in Renderings
    BY DEF Init, Renderings
  <1>4. left \in Int /\ attempts \in Int
    BY PageAssumption DEF Init
  <1>5. {event, wanted, auth, hasWon, submitting, watching, told}
          \subseteq BOOLEAN
    BY DEF Init
  <1> QED
    BY <1>1, <1>2, <1>3, <1>4, <1>5
    DEF Init, TypeInv, TypeOK, WinningInv, Shows

(* Steps of the server for this player's requests                          *)
LEMMA ServeType ==
  ASSUME TypeInv, Serve
  PROVE  TypeInv'
  <1> USE DEF server, board, button, bounds
  <1>0. /\ TypeOK /\ guess \in Guesses /\ live \in Lives /\ check \in Checks
        /\ today \in Days /\ left \in Int /\ version \in Nat
    BY DEF TypeInv, TypeOK
  <1>1. CASE Charge
    <2>1. [at |-> "charged", to |-> guess.to] \in Guesses
      BY <1>0, <1>1, GuessType DEF Charge, Guesses, Owners
    <2>2. Reply("denied", 0) \in Guesses /\ Reply("denied", 0).at # "winning"
      BY <1>0, <1>1, ReplyType DEF Charge, Kinds
    <2>3. guess' \in Guesses /\ guess'.at # "winning" /\ left' \in Int
      BY <1>0, <1>1, <2>1, <2>2 DEF Charge, TypeOK
    <2> QED
      BY <1>1, <2>3 DEF Charge, TypeInv, TypeOK, WinningInv
  <1>2. CASE JudgeLate \/ JudgeWrong
    <2>2. guess' \in Guesses /\ guess'.at # "winning"
      BY <1>0, <1>2, ReplyType DEF JudgeLate, JudgeWrong, Kinds
    <2> QED
      BY <1>2, <2>2
      DEF JudgeLate, JudgeWrong, TypeInv, TypeOK, WinningInv
  <1>3. CASE JudgeRight
    <2>1. guess' \in Guesses
      BY <1>0, <1>3, GuessType DEF JudgeRight, Guesses, Owners
    <2>2. event' \in BOOLEAN /\ left' \in Int
      BY <1>0, <1>3 DEF JudgeRight, TypeOK
    <2>3. winner' \in {"me", "other", None}
          /\ (winner' = None <=> phase' \in {"missing", "active"})
      BY <1>3, PageAssumption DEF JudgeRight
    <2> QED
      BY <1>3, <2>1, <2>2, <2>3 DEF JudgeRight, TypeInv, TypeOK, WinningInv
  <1>4. CASE CommitMine
    <2>1. guess' \in Guesses /\ guess'.at # "winning"
      BY <1>0, <1>4, ReplyType DEF CommitMine, Kinds
    <2>2. winner' = "me" /\ winner' # None /\ phase' = "solved"
      BY <1>4, PageAssumption DEF CommitMine, TypeInv, WinningInv
    <2> QED
      BY <1>4, <2>1, <2>2 DEF CommitMine, TypeInv, TypeOK, WinningInv
  <1>5. CASE OtherCommits
    <2>1. winner' = "other" /\ winner' # None /\ phase' = "solved"
      BY <1>5, PageAssumption DEF OtherCommits
    <2>2. guess.at # "winning"
      BY <1>5 DEF OtherCommits, TypeInv, WinningInv
    <2> QED
      BY <1>5, <2>1, <2>2 DEF OtherCommits, TypeInv, TypeOK, WinningInv
  <1>6. CASE ServeLive
    <2>1. live' \in LiveAnswers
      BY <1>0, <1>6, LiveType DEF ServeLive, LiveAnswers
    <2>2. live' \in Lives
      BY <2>1 DEF Lives
    <2> QED
      BY <1>6, <2>2 DEF ServeLive, TypeInv, TypeOK, WinningInv
  <1>7. CASE ServeCheck
    <2>1. check' \in CheckAnswers
      BY <1>0, <1>7 DEF ServeCheck, CheckAnswers
    <2>2. check' \in Checks
      BY <2>1 DEF Checks
    <2> QED
      BY <1>7, <2>2 DEF ServeCheck, TypeInv, TypeOK, WinningInv
  <1> QED
    BY <1>1, <1>2, <1>3, <1>4, <1>5, <1>6, <1>7 DEF Serve, Judge

(* Other players, other tabs, midnight and the ad network                  *)
LEMMA OthersType ==
  ASSUME TypeInv,
         \/ OtherAnnounces \/ OtherVisits \/ GuessElsewhere \/ Reward
         \/ Midnight
  PROVE  TypeInv'
  <1> USE DEF server, board, button, bounds
  <1>0. TypeOK /\ today \in Days /\ left \in Int /\ version \in Nat
    BY DEF TypeInv, TypeOK
  <1>1. CASE OtherAnnounces
    <2>1. winner' = "other" /\ winner' # None /\ phase' = "announced"
      BY <1>1, PageAssumption DEF OtherAnnounces
    <2>2. event' \in BOOLEAN /\ guess.at # "winning"
      BY <1>0, <1>1 DEF OtherAnnounces, TypeInv, TypeOK, WinningInv
    <2> QED
      BY <1>1, <2>1, <2>2 DEF OtherAnnounces, TypeInv, TypeOK, WinningInv
  <1>2. CASE OtherVisits
    <2>1. phase' = "active" /\ winner' = None /\ guess.at # "winning"
      BY <1>0, <1>2 DEF OtherVisits, TypeInv, TypeOK, WinningInv
    <2> QED
      BY <1>2, <2>1 DEF OtherVisits, TypeInv, TypeOK, WinningInv
  <1>3. CASE GuessElsewhere
    <2>1. left' \in Int /\ guesses' \in Nat
      BY <1>0, <1>3 DEF GuessElsewhere, TypeOK
    <2> QED
      BY <1>3, <2>1 DEF GuessElsewhere, TypeInv, TypeOK, WinningInv
  <1>4. CASE Reward
    <2>1. left' \in Int /\ version' \in Nat
      BY <1>0, <1>4 DEF Reward, Raise
    <2> QED
      BY <1>4, <2>1 DEF Reward, Raise, TypeInv, TypeOK, WinningInv
  <1>5. CASE Midnight
    <2>1. today' \in Days
      BY <1>0, <1>5, PageAssumption DEF Midnight, Raise, Days
    <2>2. left' \in Int /\ version' \in Nat /\ guess.at # "winning"
      BY <1>0, <1>5, PageAssumption DEF Midnight, Raise
    <2> QED
      BY <1>5, <2>1, <2>2 DEF Midnight, Raise, TypeInv, TypeOK, WinningInv
  <1> QED
    BY <1>1, <1>2, <1>3, <1>4, <1>5

(* What fails                                                              *)
LEMMA FaultType ==
  ASSUME TypeInv,
         \/ \E kind \in {"denied", "error"} : GuessFails(kind)
         \/ LiveFails \/ CheckFails \/ Disconnect
         \/ ChallengeFails \/ StatusFails
  PROVE  TypeInv'
  <1> USE DEF server, board, button, bounds
  <1>0. /\ TypeOK /\ guess \in Guesses /\ live \in Lives /\ check \in Checks
        /\ version \in Nat
    BY DEF TypeInv, TypeOK
  <1>f. Fault => faults' \in Nat
    BY <1>0 DEF Fault, TypeOK
  <1>1. ASSUME NEW kind \in {"denied", "error"}, GuessFails(kind)
        PROVE  TypeInv'
    <2>1. guess' \in Guesses /\ guess'.at # "winning"
      BY <1>0, <1>1, ReplyType DEF GuessFails, Kinds
    <2>2. /\ phase' \in {"missing", "active", "announced", "solved"}
          /\ winner' \in {"me", "other", None}
          /\ winner' = None <=> phase' \in {"missing", "active"}
      BY <1>0, <1>1 DEF GuessFails, TypeOK
    <2>3. faults' \in Nat
      BY <1>f, <1>1 DEF GuessFails
    <2> QED
      BY <1>1, <2>1, <2>2, <2>3 DEF GuessFails, TypeInv, TypeOK, WinningInv
  <1>2. CASE LiveFails
    <2>1. [at |-> "answered", n |-> 0, version |-> version, to |-> live.to]
             \in LiveAnswers
      BY <1>0, <1>2, LiveType DEF LiveFails, LiveAnswers
    <2>2. live' \in Lives
      BY <1>2, <2>1 DEF LiveFails, Lives
    <2>3. faults' \in Nat
      BY <1>f, <1>2 DEF LiveFails
    <2> QED
      BY <1>2, <2>2, <2>3 DEF LiveFails, TypeInv, TypeOK, WinningInv
  <1>3. CASE CheckFails
    <2>1. check' \in Checks
      BY <1>3 DEF CheckFails, Checks
    <2>2. faults' \in Nat
      BY <1>f, <1>3 DEF CheckFails
    <2> QED
      BY <1>3, <2>1, <2>2 DEF CheckFails, TypeInv, TypeOK, WinningInv
  <1>4. CASE Disconnect
    <2>1. source' \in {"closed", "connecting", "open", "failed"}
      BY <1>0, <1>4 DEF Disconnect, TypeOK
    <2>2. faults' \in Nat
      BY <1>f, <1>4 DEF Disconnect
    <2>3. event' = FALSE
      BY <1>4 DEF Disconnect
    <2> QED
      BY <1>4, <2>1, <2>2, <2>3 DEF Disconnect, TypeInv, TypeOK, WinningInv
  <1>5. CASE ChallengeFails \/ StatusFails
    <2>1. render' \in Renderings
      BY <1>5, ReadyType DEF ChallengeFails, StatusFails, Shows
    <2>2. faults' \in Nat
      BY <1>f, <1>5 DEF ChallengeFails, StatusFails
    <2> QED
      BY <1>5, <2>1, <2>2
      DEF ChallengeFails, StatusFails, TypeInv, TypeOK, WinningInv
  <1> QED
    BY <1>1, <1>2, <1>3, <1>4, <1>5

(* A count with the version of the key it was read from                    *)
LEMMA CountType ==
  ASSUME TypeOK, NEW n \in Int, NEW from \in Nat
  PROVE  /\ SetAttempts(n, from) => attempts' \in Int /\ asOf' \in Nat
         /\ Save(n, from) /\ today' = today /\ stored' # None =>
               /\ stored'.day \in Days /\ stored'.from \in Nat
               /\ stored'.n \in Int
  BY DEF TypeOK, SetAttempts, Save

(* The renderings of the Next.js server                                    *)
LEMMA RenderStepType ==
  ASSUME TypeInv, Render
  PROVE  TypeInv'
  <1> USE DEF server, board, button, bounds
  <1>0. TypeOK /\ render \in Renderings
    BY DEF TypeInv, TypeOK
  <1>1. CASE Refresh
    <2>1. render' \in Renderings
      BY <1>1 DEF Refresh, Renderings
    <2> QED
      BY <1>1, <2>1 DEF Refresh, TypeInv, TypeOK, WinningInv
  <1>2. CASE ReadChallenge
    <2>1. [render EXCEPT !.at = "status"] \in Renderings
      BY <1>0, <1>2, RenderType DEF ReadChallenge, Renderings
    <2>2. Ready("board") \in Renderings /\ Ready("podium") \in Renderings
      BY ReadyType DEF Shows
    <2>3. render' \in Renderings
      BY <1>2, <2>1, <2>2 DEF ReadChallenge
    <2>4. /\ phase' \in {"missing", "active", "announced", "solved"}
          /\ winner' = None <=> phase' \in {"missing", "active"}
          /\ guess.at = "winning" => phase' = phase
      BY <1>0, <1>2 DEF ReadChallenge, TypeInv, TypeOK, WinningInv
    <2> QED
      BY <1>2, <2>3, <2>4 DEF ReadChallenge, TypeInv, TypeOK, WinningInv
  <1>3. CASE ReadStatus
    <2>1. Ready("prize") \in Renderings /\ Ready("podium") \in Renderings
      BY ReadyType DEF Shows
    <2>2. render' \in Renderings
      BY <1>3, <2>1 DEF ReadStatus
    <2> QED
      BY <1>3, <2>2 DEF ReadStatus, TypeInv, TypeOK, WinningInv
  <1> QED
    BY <1>1, <1>2, <1>3 DEF Render

(* The board and what arrives at it                                        *)
LEMMA BoardType ==
  ASSUME TypeInv, Submit \/ AdGranted \/ Arrive \/ Connect
  PROVE  TypeInv'
  <1> USE DEF server, board, button, bounds
  <1>0. /\ TypeOK /\ guess \in Guesses /\ live \in Lives /\ check \in Checks
        /\ heard \in Nat
    BY DEF TypeInv, TypeOK
  <1>1. CASE Submit
    <2>1. guess' \in Guesses /\ guess'.at = "sent" /\ guesses' \in Nat
      BY <1>0, <1>1 DEF Submit, Guesses, TypeOK
    <2> QED
      BY <1>1, <2>1 DEF Submit, TypeInv, TypeOK, WinningInv
  <1>2. CASE GuessAnswered
    <2>1. guess.n \in Int /\ guess.version \in Nat /\ guess' = Idle
      BY <1>0, <1>2, GuessType DEF GuessAnswered
    <2>2. /\ attempts' \in Int /\ asOf' \in Nat
          /\ stored' # None => /\ stored'.day \in Days /\ stored'.from \in Nat
                               /\ stored'.n \in Int
      <3>1. CASE guess.kind \in CountKinds
        BY <1>0, <1>2, <2>1, <3>1, CountType DEF GuessAnswered
      <3>2. CASE guess.kind \notin CountKinds
        BY <1>0, <1>2, <3>2 DEF GuessAnswered, TypeOK
      <3> QED
        BY <3>1, <3>2
    <2>3. /\ {hasWon', told', wanted', submitting'} \subseteq BOOLEAN
          /\ refused' \in Nat
      <3>1. hasWon' \in BOOLEAN /\ submitting' \in BOOLEAN
        BY <1>0, <1>2 DEF GuessAnswered, TypeOK
      <3>2. told' \in BOOLEAN
        BY <1>0, <1>2 DEF GuessAnswered, TypeOK, ToldToday
      <3>3. wanted' \in BOOLEAN /\ refused' \in Nat
        BY <1>0, <1>2 DEF GuessAnswered, TypeOK
      <3> QED
        BY <3>1, <3>2, <3>3
    <2>4. /\ source' \in {"closed", "connecting", "open", "failed"}
          /\ event' \in BOOLEAN
      BY <1>0, <1>2, ListenType DEF GuessAnswered
    <2>5. guess' \in Guesses /\ guess'.at = "none"
      BY <2>1 DEF Idle, Guesses
    <2> QED
      BY <1>2, <2>2, <2>3, <2>4, <2>5
      DEF GuessAnswered, TypeInv, TypeOK, WinningInv
  <1>3. CASE GuessAnsweredLate
    <2>1. guess.n \in Int /\ guess.version \in Nat /\ guess' = Idle
      BY <1>0, <1>3, GuessType DEF GuessAnsweredLate
    <2>2. stored' # None => /\ stored'.day \in Days /\ stored'.from \in Nat
                            /\ stored'.n \in Int
      <3>1. CASE guess.kind \in CountKinds
        BY <1>0, <1>3, <2>1, <3>1, CountType DEF GuessAnsweredLate
      <3>2. CASE guess.kind \notin CountKinds
        BY <1>0, <1>3, <3>2 DEF GuessAnsweredLate, TypeOK
      <3> QED
        BY <3>1, <3>2
    <2>3. wanted' \in BOOLEAN
      BY <1>0, <1>3 DEF GuessAnsweredLate, TypeOK
    <2>4. guess' \in Guesses /\ guess'.at = "none"
      BY <2>1 DEF Idle, Guesses
    <2> QED
      BY <1>3, <2>2, <2>3, <2>4
      DEF GuessAnsweredLate, TypeInv, TypeOK, WinningInv
  <1>4. CASE LiveAnswered
    <2>1. live.n \in Int /\ live.version \in Nat /\ live' \in Lives
      BY <1>0, <1>4, LiveType DEF LiveAnswered, Lives
    <2>2. attempts' \in Int /\ asOf' \in Nat /\ heard' \in Nat
      <3>1. CASE live.to = "board"
        BY <1>0, <1>4, <2>1, <3>1, CountType DEF LiveAnswered
      <3>2. CASE live.to # "board"
        BY <1>0, <1>4, <3>2 DEF LiveAnswered, TypeOK
      <3> QED
        BY <3>1, <3>2
    <2>3. stored' # None => /\ stored'.day \in Days /\ stored'.from \in Nat
                            /\ stored'.n \in Int
      BY <1>0, <1>4, <2>1, CountType DEF LiveAnswered
    <2>4. /\ source' \in {"closed", "connecting", "open", "failed"}
          /\ event' \in BOOLEAN
      BY <1>0, <1>4, ListenType DEF LiveAnswered
    <2> QED
      BY <1>4, <2>1, <2>2, <2>3, <2>4
      DEF LiveAnswered, TypeInv, TypeOK, WinningInv
  <1>5. CASE CheckAnswered
    <2>1. check.n \in Int /\ check.version \in Nat /\ check' \in Checks
      BY <1>0, <1>5, CheckType DEF CheckAnswered, Checks
    <2>2. attempts' \in Int /\ asOf' \in Nat /\ heard' \in Nat
      <3>1. CASE check.n > 0
        BY <1>0, <1>5, <2>1, <3>1, CountType DEF CheckAnswered
      <3>2. CASE ~(check.n > 0)
        BY <1>0, <1>5, <3>2 DEF CheckAnswered, TypeOK
      <3> QED
        BY <3>1, <3>2
    <2>3. /\ source' \in {"closed", "connecting", "open", "failed"}
          /\ event' \in BOOLEAN
      BY <1>0, <1>5, ListenType DEF CheckAnswered
    <2> QED
      BY <1>5, <2>1, <2>2, <2>3
      DEF CheckAnswered, TypeInv, TypeOK, WinningInv
  <1>6. CASE SolvedEvent
    BY <1>6 DEF SolvedEvent, TypeInv, TypeOK, WinningInv
  <1>7. CASE Connect
    BY <1>7 DEF Connect, TypeInv, TypeOK, WinningInv
  <1>8. CASE AdGranted
    <2>1. check' \in Checks /\ watching' \in BOOLEAN /\ ads' \in Nat
      BY <1>0, <1>8 DEF AdGranted, Checks, TypeOK
    <2> QED
      BY <1>8, <2>1 DEF AdGranted, TypeInv, TypeOK, WinningInv
  <1> QED
    BY <1>1, <1>2, <1>3, <1>4, <1>5, <1>6, <1>7, <1>8 DEF Arrive

(* Page loads, and pages that reach the browser                            *)
LEMMA NoBoardType ==
  ASSUME NoBoard
  PROVE  /\ attempts' \in Int /\ check' \in Checks
         /\ {hasWon', submitting', watching'} \subseteq BOOLEAN
         /\ {asOf', heard', refused'} \subseteq Nat
  <1>1. attempts' \in Int
    BY PageAssumption DEF NoBoard
  <1>2. check' \in Checks
    BY DEF NoBoard, Checks
  <1>3. {hasWon', submitting', watching'} \subseteq BOOLEAN
    BY DEF NoBoard
  <1>4. {asOf', heard', refused'} \subseteq Nat
    BY DEF NoBoard
  <1> QED
    BY <1>1, <1>2, <1>3, <1>4

LEMMA PageType ==
  ASSUME TypeInv, Deliver \/ \E a \in BOOLEAN : Load(a)
  PROVE  TypeInv'
  <1> USE DEF server, board, button, bounds
  <1>0. /\ TypeOK /\ guess \in Guesses /\ live \in Lives
        /\ render \in Renderings /\ Allowance \in Int
        /\ Idle \in Renderings /\ Idle \in Lives
    BY PageAssumption DEF TypeInv, TypeOK, Renderings, Lives
  <1>1. ASSUME NEW a \in BOOLEAN, Load(a) PROVE TypeInv'
    <2>1. guess' \in Guesses /\ guess'.at \in {"none", guess.at}
      BY <1>0, <1>1, LoadGuess
    <2>2. render' \in Renderings
      BY <1>1 DEF Load, Renderings
    <2>3. /\ source' \in {"closed", "connecting", "open", "failed"}
          /\ event' \in BOOLEAN
      BY <1>0, <1>1, ListenType DEF Load
    <2>4. stored' \in {stored, None}
      BY <1>1 DEF Load
    <2>5. stored' # None => /\ stored'.day \in Days /\ stored'.from \in Nat
                            /\ stored'.n \in Int
      BY <1>0, <2>4 DEF TypeOK
    <2>6. {wanted', auth', told'} \subseteq BOOLEAN /\ loads' \in Nat
      <3>1. told' \in BOOLEAN
        BY <1>0, <1>1 DEF Load, TypeOK
      <3>2. wanted' \in BOOLEAN /\ auth' \in BOOLEAN
        BY <1>1 DEF Load
      <3>3. loads' \in Nat
        BY <1>0, <1>1 DEF Load, TypeOK
      <3> QED
        BY <3>1, <3>2, <3>3
    <2>7. /\ attempts' \in Int /\ check' \in Checks
          /\ {hasWon', submitting', watching'} \subseteq BOOLEAN
          /\ {asOf', heard', refused'} \subseteq Nat
      BY <1>1, NoBoardType DEF Load
    <2>8. WinningInv'
      BY <1>1, <2>1 DEF Load, TypeInv, WinningInv
    <2>9. live' \in Lives /\ page' = "loading"
      BY <1>0, <1>1 DEF Load
    <2>10. UNCHANGED <<today, left, phase, winner, version, guesses, ads,
                       faults>>
      BY <1>1 DEF Load
    <2> QED
      BY <1>0, <2>1, <2>2, <2>3, <2>5, <2>6, <2>7, <2>8, <2>9, <2>10
      DEF TypeInv, TypeOK
  <1>2. CASE KeepBoard
    BY <1>0, <1>2 DEF KeepBoard, TypeInv, TypeOK, WinningInv
  <1>3. CASE MountBoard
    <2>1. attempts' \in Int /\ asOf' \in Nat
      BY <1>0, <1>3 DEF MountBoard, TodayAttempts, TypeOK
    <2>3. live' \in Lives
      BY <1>0, <1>3 DEF MountBoard, Lives
    <2>4. /\ source' \in {"closed", "connecting", "open", "failed"}
          /\ event' \in BOOLEAN
      BY <1>0, <1>3, ListenType DEF MountBoard
    <2> QED
      BY <1>0, <1>3, <2>1, <2>3, <2>4
      DEF MountBoard, TypeInv, TypeOK, WinningInv, Shows
  <1>4. CASE ShowOther
    <2>1. guess' \in Guesses /\ guess'.at = guess.at /\ live' \in Lives
      BY <1>0, <1>4, OrphanGuess, OrphanLive DEF ShowOther
    <2>2. page' \in Shows
      BY <1>0, <1>4, RenderType DEF ShowOther
    <2>3. /\ source' \in {"closed", "connecting", "open", "failed"}
          /\ event' \in BOOLEAN
      BY <1>0, <1>4, ListenType DEF ShowOther
    <2>4. /\ attempts' \in Int /\ check' \in Checks
          /\ {hasWon', submitting', watching'} \subseteq BOOLEAN
          /\ {asOf', heard', refused'} \subseteq Nat
      BY <1>4, NoBoardType DEF ShowOther
    <2>5. WinningInv'
      BY <1>4, <2>1 DEF ShowOther, TypeInv, WinningInv
    <2>6. /\ render' \in Renderings
          /\ UNCHANGED <<today, left, phase, winner, version, wanted, auth,
                         stored, told, guesses, ads, loads, faults>>
      BY <1>0, <1>4 DEF ShowOther
    <2> QED
      BY <1>0, <2>1, <2>2, <2>3, <2>4, <2>5, <2>6 DEF TypeInv, TypeOK
  <1> QED
    BY <1>1, <1>2, <1>3, <1>4 DEF Deliver

LEMMA TypeNext == TypeInv /\ [Next]_vars => TypeInv'
  <1>1. TypeInv /\ UNCHANGED vars => TypeInv'
    BY DEF vars, TypeInv, TypeOK, WinningInv
  <1> QED
    BY <1>1, ServeType, OthersType, FaultType, RenderStepType, BoardType,
       PageType DEF Next

LEMMA TypeInvHolds == Spec => []TypeInv
  BY TypeInit, TypeNext, PTL DEF Spec

(* Every variable keeps its type, each request with the place it has       *)
(* reached and the answer it carries included.                             *)
THEOREM TypeHolds == Spec => []TypeOK
  <1>1. TypeInv => TypeOK
    BY DEF TypeInv
  <1> QED
    BY <1>1, TypeInvHolds, PTL

-----------------------------------------------------------------------------
(* Which steps change what                                                 *)

PageLoad   == \E a \in BOOLEAN : Load(a)
GuessFault == \E kind \in {"denied", "error"} : GuessFails(kind)

LEMMA GuessFrame ==
  ASSUME [Next]_vars
  PROVE  \/ UNCHANGED guess
         \/ Charge \/ Judge \/ CommitMine \/ GuessFault \/ Submit
         \/ GuessAnswered \/ GuessAnsweredLate \/ PageLoad \/ ShowOther
  BY DEF Next, Serve, Arrive, Render, Deliver, OtherCommits, ServeLive,
         ServeCheck, LiveAnswered, SolvedEvent, CheckAnswered, Refresh,
         ReadChallenge, ReadStatus, KeepBoard, MountBoard, OtherAnnounces,
         OtherVisits, GuessElsewhere, Reward, Midnight, AdGranted, Connect,
         LiveFails, CheckFails, Disconnect, ChallengeFails, StatusFails,
         PageLoad, GuessFault, server, board, button, vars

LEMMA LiveFrame ==
  ASSUME [Next]_vars
  PROVE  \/ UNCHANGED live
         \/ ServeLive \/ LiveFails \/ LiveAnswered \/ PageLoad
         \/ MountBoard \/ ShowOther
  BY DEF Next, Serve, Arrive, Render, Deliver, Judge, Charge, JudgeLate,
         JudgeWrong, JudgeRight, CommitMine, OtherCommits, ServeCheck,
         GuessAnswered, GuessAnsweredLate, SolvedEvent, CheckAnswered, Refresh,
         ReadChallenge, ReadStatus, KeepBoard, OtherAnnounces, OtherVisits,
         GuessElsewhere, Reward, Midnight, Submit, AdGranted, Connect,
         GuessFails, CheckFails, Disconnect, ChallengeFails, StatusFails,
         PageLoad, GuessFault, server, board, button, vars

LEMMA CheckFrame ==
  ASSUME [Next]_vars
  PROVE  \/ UNCHANGED check
         \/ ServeCheck \/ CheckFails \/ AdGranted \/ CheckAnswered
         \/ PageLoad \/ ShowOther
  BY DEF Next, Serve, Arrive, Render, Deliver, Judge, Charge, JudgeLate,
         JudgeWrong, JudgeRight, CommitMine, OtherCommits, ServeLive,
         GuessAnswered, GuessAnsweredLate, LiveAnswered, SolvedEvent, Refresh,
         ReadChallenge, ReadStatus, KeepBoard, MountBoard, OtherAnnounces,
         OtherVisits, GuessElsewhere, Reward, Midnight, Submit, Connect,
         GuessFails, LiveFails, Disconnect, ChallengeFails, StatusFails,
         PageLoad, GuessFault, server, board, button, vars

LEMMA StoredFrame ==
  ASSUME [Next]_vars
  PROVE  \/ UNCHANGED stored
         \/ GuessAnswered \/ GuessAnsweredLate \/ LiveAnswered
         \/ PageLoad
  BY DEF Next, Serve, Arrive, Render, Deliver, Judge, Charge, JudgeLate,
         JudgeWrong, JudgeRight, CommitMine, OtherCommits, ServeLive,
         ServeCheck, SolvedEvent, CheckAnswered, Refresh, ReadChallenge,
         ReadStatus, KeepBoard, MountBoard, ShowOther, OtherAnnounces,
         OtherVisits, GuessElsewhere, Reward, Midnight, Submit, AdGranted,
         Connect, GuessFails, LiveFails, CheckFails, Disconnect,
         ChallengeFails, StatusFails, PageLoad, GuessFault, server, board,
         button, vars

LEMMA PageFrame ==
  ASSUME [Next]_vars
  PROVE  \/ UNCHANGED <<page, auth, attempts, asOf, hasWon, told, heard,
                      refused>>
         \/ GuessAnswered \/ LiveAnswered \/ CheckAnswered \/ PageLoad
         \/ MountBoard \/ ShowOther \/ Midnight
  BY DEF Next, Serve, Arrive, Render, Deliver, Judge, Charge, JudgeLate,
         JudgeWrong, JudgeRight, CommitMine, OtherCommits, ServeLive,
         ServeCheck, GuessAnsweredLate, SolvedEvent, Refresh, ReadChallenge,
         ReadStatus, KeepBoard, OtherAnnounces, OtherVisits, GuessElsewhere,
         Reward, Submit, AdGranted, Connect, GuessFails, LiveFails, CheckFails,
         Disconnect, ChallengeFails, StatusFails, PageLoad, GuessFault, server,
         board, button, vars

LEMMA LeftFrame ==
  ASSUME [Next]_vars
  PROVE  \/ UNCHANGED <<today, left, version>>
         \/ Charge \/ JudgeRight \/ Midnight \/ GuessElsewhere
         \/ Reward
  BY DEF Next, Serve, Arrive, Render, Deliver, Judge, JudgeLate, JudgeWrong,
         CommitMine, OtherCommits, ServeLive, ServeCheck, GuessAnswered,
         GuessAnsweredLate, LiveAnswered, SolvedEvent, CheckAnswered, Refresh,
         ReadChallenge, ReadStatus, KeepBoard, MountBoard, ShowOther,
         OtherAnnounces, OtherVisits, Submit, AdGranted, Connect, Load,
         GuessFails, LiveFails, CheckFails, Disconnect, ChallengeFails,
         StatusFails, PageLoad, GuessFault, server, board, button, vars

LEMMA PhaseFrame ==
  ASSUME [Next]_vars
  PROVE  \/ UNCHANGED <<phase, winner>>
         \/ JudgeRight \/ CommitMine \/ OtherCommits \/ OtherAnnounces
         \/ OtherVisits \/ ReadChallenge \/ Midnight \/ GuessFault
  BY DEF Next, Serve, Arrive, Render, Deliver, Judge, Charge, JudgeLate,
         JudgeWrong, ServeLive, ServeCheck, GuessAnswered, GuessAnsweredLate,
         LiveAnswered, SolvedEvent, CheckAnswered, Refresh, ReadStatus,
         KeepBoard, MountBoard, ShowOther, GuessElsewhere, Reward, Submit,
         AdGranted, Connect, Load, LiveFails, CheckFails, Disconnect,
         ChallengeFails, StatusFails, PageLoad, GuessFault, server, board,
         button, vars

LEMMA RenderFrame ==
  ASSUME [Next]_vars
  PROVE  \/ UNCHANGED render
         \/ Render \/ Deliver \/ PageLoad \/ ChallengeFails
         \/ StatusFails
  BY DEF Next, Serve, Arrive, Judge, Charge, JudgeLate, JudgeWrong, JudgeRight,
         CommitMine, OtherCommits, ServeLive, ServeCheck, GuessAnswered,
         GuessAnsweredLate, LiveAnswered, SolvedEvent, CheckAnswered,
         OtherAnnounces, OtherVisits, GuessElsewhere, Reward, Midnight, Submit,
         AdGranted, Connect, GuessFails, LiveFails, CheckFails, Disconnect,
         PageLoad, GuessFault, server, board, button, vars

(* A run without faults takes none of the failing steps.                   *)
LEMMA FaultFrame ==
  ASSUME TypeOK, [Next]_vars, faults' = 0
  PROVE  /\ faults = 0 /\ ~GuessFault /\ ~LiveFails /\ ~CheckFails
         /\ ~Disconnect /\ ~ChallengeFails /\ ~StatusFails
  <1>1. Fault => faults' # 0
    BY DEF Fault, TypeOK
  <1>2. /\ ~GuessFault /\ ~LiveFails /\ ~CheckFails
        /\ ~Disconnect /\ ~ChallengeFails /\ ~StatusFails
    BY <1>1 DEF GuessFault, GuessFails, LiveFails, CheckFails, Disconnect,
                ChallengeFails, StatusFails
  <1>3. UNCHANGED faults
    BY <1>2
    DEF Next, Serve, Arrive, Render, Deliver, Judge, Charge, JudgeLate,
        JudgeWrong, JudgeRight, CommitMine, OtherCommits, ServeLive,
        ServeCheck, GuessAnswered, GuessAnsweredLate, LiveAnswered,
        SolvedEvent, CheckAnswered, Refresh, ReadChallenge, ReadStatus,
        KeepBoard, MountBoard, ShowOther, OtherAnnounces, OtherVisits,
        GuessElsewhere, Reward, Midnight, Submit, AdGranted, Connect, Load,
        GuessFault, bounds, vars
  <1> QED
    BY <1>2, <1>3

-----------------------------------------------------------------------------
(* Guesses that are turned away                                            *)

LEMMA RefusedInit == Init => WaitsInv /\ DeniedInv /\ RefusedInv
  <1> SUFFICES ASSUME Init PROVE WaitsInv /\ DeniedInv /\ RefusedInv
    OBVIOUS
  <1>1. guess.at = "none" /\ page = "loading" /\ refused = 0 /\ heard = 0
    BY DEF Init, Idle
  <1> QED
    BY <1>1 DEF WaitsInv, DeniedInv, RefusedInv, RefusedOncePerRead

(* What the server does with a guess: it is on its way still or answered,  *)
(* for the same owner, refused with a count of zero; or nobody waits.      *)
LEMMA GuessServed ==
  ASSUME TypeInv, Charge \/ Judge \/ CommitMine \/ GuessFault
  PROVE  /\ guess.at \in {"sent", "charged", "winning"}
         /\ guess'.at # "none" => guess'.to = guess.to
         /\ guess'.at = "answered" =>
               /\ guess'.day = today /\ guess'.version = version
               /\ guess'.n \in Int /\ guess'.to # "nobody"
               /\ guess'.kind = "denied" => guess'.n = 0
         /\ UNCHANGED <<today, version, page, attempts, heard, refused, stored,
                        render, asOf, hasWon, live>>
  <1> USE DEF server, board, button, bounds
  <1>0. TypeOK /\ left \in Int
    BY DEF TypeInv, TypeOK
  <1>1. guess.at \in {"sent", "charged", "winning"}
    BY DEF Charge, Judge, JudgeLate, JudgeWrong, JudgeRight, CommitMine,
           GuessFault, GuessFails
  <1>2. UNCHANGED <<today, version, page, attempts, heard, refused, stored,
                    render, asOf, hasWon, live>>
    BY DEF Charge, Judge, JudgeLate, JudgeWrong, JudgeRight, CommitMine,
           GuessFault, GuessFails
  <1> DEFINE Served ==
              /\ guess'.at # "none" => guess'.to = guess.to
              /\ guess'.at = "answered" =>
                    /\ guess'.day = today /\ guess'.version = version
                    /\ guess'.n \in Int /\ guess'.to # "nobody"
                    /\ guess'.kind = "denied" => guess'.n = 0
  <1>3. ASSUME NEW kind \in Kinds, NEW n \in Int, guess' = Reply(kind, n),
               kind = "denied" => n = 0
        PROVE  Served
    BY <1>3 DEF Reply, Idle
  <1>4. ASSUME NEW at \in {"charged", "winning"},
               guess' = [at |-> at, to |-> guess.to]
        PROVE  Served
    BY <1>4
  <1> HIDE DEF Served
  <1>5. ASSUME Charge PROVE Served
    BY <1>3, <1>4, <1>5 DEF Charge, Kinds
  <1>6. ASSUME JudgeLate \/ CommitMine PROVE Served
    BY <1>3, <1>6 DEF JudgeLate, CommitMine, Kinds
  <1>7. ASSUME JudgeWrong PROVE Served
    BY <1>0, <1>3, <1>7 DEF JudgeWrong, Kinds
  <1>8. ASSUME JudgeRight PROVE Served
    BY <1>4, <1>8 DEF JudgeRight
  <1>9. ASSUME GuessFault PROVE Served
    BY <1>3, <1>9 DEF GuessFault, GuessFails, Kinds
  <1>10. Served
    BY <1>5, <1>6, <1>7, <1>8, <1>9 DEF Judge
  <1> QED
    BY <1>1, <1>2, <1>10 DEF Served

LEMMA WaitsNext == TypeInv /\ WaitsInv /\ [Next]_vars => WaitsInv'
  <1> SUFFICES ASSUME TypeInv, WaitsInv, [Next]_vars PROVE WaitsInv'
    OBVIOUS
  <1>0. guess \in Guesses /\ TypeOK
    BY DEF TypeInv, TypeOK
  <1>1. CASE Charge \/ Judge \/ CommitMine \/ GuessFault
    BY <1>1, GuessServed DEF WaitsInv
  <1>2. CASE Submit
    BY <1>2 DEF Submit, WaitsInv
  <1>3. CASE GuessAnswered \/ GuessAnsweredLate
    BY <1>3 DEF GuessAnswered, GuessAnsweredLate, Idle, WaitsInv
  <1>4. CASE ShowOther
    BY <1>0, <1>4, OrphanGuess DEF ShowOther, WaitsInv
  <1>5. CASE PageLoad
    BY <1>0, <1>5, LoadGuess DEF PageLoad, WaitsInv
  <1>6. CASE UNCHANGED guess /\ ~PageLoad /\ ~ShowOther
    <2>1. page' = page \/ page' = "board"
      BY <1>6, PageFrame DEF GuessAnswered, LiveAnswered, CheckAnswered,
                             MountBoard, Midnight
    <2> QED
      BY <1>6, <2>1 DEF WaitsInv
  <1> QED
    BY <1>1, <1>2, <1>3, <1>4, <1>5, <1>6, GuessFrame

LEMMA DeniedNext == TypeInv /\ DeniedInv /\ [Next]_vars => DeniedInv'
  <1> SUFFICES ASSUME TypeInv, DeniedInv, [Next]_vars PROVE DeniedInv'
    OBVIOUS
  <1>0. guess \in Guesses /\ TypeOK
    BY DEF TypeInv, TypeOK
  <1>1. CASE Charge \/ Judge \/ CommitMine \/ GuessFault
    BY <1>1, GuessServed DEF DeniedInv
  <1>2. CASE Submit \/ GuessAnswered \/ GuessAnsweredLate
    BY <1>2 DEF Submit, GuessAnswered, GuessAnsweredLate, Idle, DeniedInv
  <1>3. CASE ShowOther
    BY <1>0, <1>3, OrphanGuess DEF ShowOther, DeniedInv
  <1>4. CASE PageLoad
    BY <1>0, <1>4, LoadGuess DEF PageLoad, DeniedInv
  <1>5. CASE UNCHANGED guess
    BY <1>5 DEF DeniedInv
  <1> QED
    BY <1>1, <1>2, <1>3, <1>4, <1>5, GuessFrame

LEMMA RefusedNext ==
    /\ TypeInv /\ WaitsInv /\ DeniedInv /\ RefusedInv
    /\ [Next]_vars
    => RefusedInv'
  <1> SUFFICES ASSUME TypeInv, WaitsInv, DeniedInv, RefusedInv, [Next]_vars
               PROVE  RefusedInv'
    OBVIOUS
  <1>0. /\ guess \in Guesses /\ refused \in Nat /\ heard \in Nat
        /\ refused <= 1 + heard
    BY DEF TypeInv, TypeOK, RefusedInv, RefusedOncePerRead
  <1>1. CASE GuessAnswered
    <2>1. /\ page = "board" /\ GuessMay /\ guess' = Idle
          /\ page' = page /\ heard' = heard
      BY <1>1 DEF GuessAnswered, WaitsInv, GuessMay, button
    <2>2. refused <= heard
      BY <2>1 DEF RefusedInv
    <2>3. CASE guess.kind = "denied"
      <3>1. refused' = refused + 1 /\ attempts' = guess.n /\ guess.n = 0
        BY <1>1, <2>3 DEF GuessAnswered, CountKinds, SetAttempts, DeniedInv
      <3>2. ~GuessMay'
        BY <2>1, <3>1 DEF GuessMay, Idle
      <3>3. refused' <= 1 + heard'
        BY <1>0, <2>1, <2>2, <3>1
      <3> QED
        BY <2>1, <3>2, <3>3 DEF RefusedInv, RefusedOncePerRead
    <2>4. CASE guess.kind # "denied"
      <3>1. refused' = refused
        BY <1>1, <2>4 DEF GuessAnswered
      <3>2. refused' <= 1 + heard' /\ refused' <= heard'
        BY <1>0, <2>1, <2>2, <3>1
      <3> QED
        BY <2>1, <3>2 DEF RefusedInv, RefusedOncePerRead
    <2> QED
      BY <2>3, <2>4
  (* A count of fetchLiveAttempts is counted when it changes the board's.  *)
  <1>2. CASE LiveAnswered \/ CheckAnswered
    <2>1. UNCHANGED <<guess, page, refused>>
      BY <1>2 DEF LiveAnswered, CheckAnswered
    <2>2. \/ heard' = heard + 1
          \/ heard' = heard /\ attempts' = attempts
      BY <1>2 DEF LiveAnswered, CheckAnswered
    <2>3. CASE heard' = heard + 1
      <3>1. refused' <= 1 + heard' /\ refused' <= heard'
        BY <1>0, <2>1, <2>3
      <3> QED
        BY <2>1, <3>1 DEF RefusedInv, RefusedOncePerRead
    <2>4. CASE heard' = heard /\ attempts' = attempts
      BY <2>1, <2>4 DEF RefusedInv, RefusedOncePerRead, GuessMay
    <2> QED
      BY <2>2, <2>3, <2>4
  <1>3. CASE MountBoard
    <2>1. refused = 0 /\ refused' = refused /\ heard' = heard
      BY <1>3 DEF MountBoard, RefusedInv, button
    <2>2. page' = "board"
      BY <1>3 DEF MountBoard
    <2>3. refused' <= 1 + heard' /\ refused' <= heard'
      BY <1>0, <2>1
    <2> QED
      BY <2>2, <2>3 DEF RefusedInv, RefusedOncePerRead
  <1>4. CASE ShowOther \/ PageLoad
    <2>1. refused' = 0 /\ heard' = 0
      BY <1>4 DEF ShowOther, PageLoad, Load, NoBoard
    <2>2. page' # "board"
      BY <1>4 DEF ShowOther, PageLoad, Load
    <2>3. refused' <= 1 + heard'
      BY <2>1
    <2> QED
      BY <2>1, <2>2, <2>3 DEF RefusedInv, RefusedOncePerRead
  <1>5. CASE UNCHANGED <<page, attempts, heard, refused>> /\ ~GuessAnswered
             /\ ~ShowOther /\ ~PageLoad
    <2>1. page' = "board" /\ GuessMay' => GuessMay
      <3>1. CASE Charge \/ Judge \/ CommitMine \/ GuessFault
        BY <1>5, <3>1, GuessServed DEF GuessMay
      <3>2. CASE Submit
        BY <1>5, <3>2 DEF Submit, Panel, GuessMay
      <3>3. CASE GuessAnsweredLate
        BY <1>5, <3>3 DEF GuessAnsweredLate, GuessMay, Idle
      <3>4. CASE UNCHANGED guess
        BY <1>5, <3>4 DEF GuessMay
      <3> QED
        BY <1>5, <3>1, <3>2, <3>3, <3>4, GuessFrame
    <2> QED
      BY <1>5, <2>1 DEF RefusedInv, RefusedOncePerRead
  <1>6. Midnight => UNCHANGED <<page, attempts, heard, refused>>
    BY DEF Midnight, Raise, button
  <1> QED
    BY <1>1, <1>2, <1>3, <1>4, <1>5, <1>6, PageFrame

(* A board that was turned away is turned away again only after another    *)
(* answer of fetchLiveAttempts, for every allowance, however many guesses, *)
(* days, ads and refreshes it lives through, and whatever fails: a refusal *)
(* shows zero, and only such an answer raises the count after that.        *)
THEOREM RefusedOncePerReadHolds == Spec => []RefusedOncePerRead
  <1>1. Init => WaitsInv /\ DeniedInv /\ RefusedInv
    BY RefusedInit
  <1>2. TypeInv /\ WaitsInv /\ [Next]_vars => WaitsInv'
    BY WaitsNext
  <1>3. TypeInv /\ DeniedInv /\ [Next]_vars => DeniedInv'
    BY DeniedNext
  <1>4. TypeInv /\ WaitsInv /\ DeniedInv /\ RefusedInv /\ [Next]_vars
        => RefusedInv'
    BY RefusedNext
  <1>5. RefusedInv => RefusedOncePerRead
    BY DEF RefusedInv
  <1> QED
    BY <1>1, <1>2, <1>3, <1>4, <1>5, TypeInvHolds, PTL DEF Spec

-----------------------------------------------------------------------------
(* What does not come back                                                 *)

(* A challenge that is solved stays so until midnight.                     *)
LEMMA SolvedStays ==
  ASSUME TypeInv, [Next]_vars, phase = "solved", ~Midnight
  PROVE  UNCHANGED <<phase, winner>>
  <1>1. ~JudgeRight /\ ~OtherCommits /\ ~OtherAnnounces /\ ~OtherVisits
    BY DEF JudgeRight, OtherCommits, OtherAnnounces, OtherVisits
  <1>2. guess.at # "winning"
    BY DEF TypeInv, WinningInv
  <1>3. ~CommitMine
    BY <1>2 DEF CommitMine
  <1>4. GuessFault => UNCHANGED <<phase, winner>>
    BY <1>2 DEF GuessFault, GuessFails
  <1>5. ReadChallenge => UNCHANGED <<phase, winner>>
    BY DEF ReadChallenge
  <1> QED
    BY <1>1, <1>3, <1>4, <1>5, PhaseFrame

(* The key is raised by midnight and by rewards alone; otherwise a key     *)
(* with nothing left stays so.                                             *)
LEMMA LeftStays ==
  ASSUME TypeInv, [Next]_vars
  PROVE  \/ version' = version + 1 /\ (Midnight \/ Reward)
         \/ /\ version' = version /\ ~Midnight /\ ~Reward
            /\ left <= 0 => left' <= 0
  <1>0. left \in Int /\ version \in Nat
    BY DEF TypeInv, TypeOK
  <1>1. Midnight \/ Reward => version' = version + 1
    BY DEF Midnight, Raise, Reward
  <1>2. Charge \/ GuessElsewhere =>
          version' = version /\ (left <= 0 => left' <= 0)
    BY <1>0 DEF Charge, GuessElsewhere
  <1>3. JudgeRight => version' = version /\ (left <= 0 => left' <= 0)
    BY DEF JudgeRight
  <1> QED
    BY <1>0, <1>1, <1>2, <1>3, LeftFrame

(* What was read from the key as it is after a step was read before it.    *)
LEMMA ReadNow ==
  ASSUME TypeInv, [Next]_vars, NEW v \in Int, v <= version, v = version'
  PROVE  /\ version' = version /\ v = version /\ ~Midnight
         /\ left <= 0 => left' <= 0
  <1>1. version \in Int
    BY DEF TypeInv, TypeOK
  <1>2. version' # version + 1
    BY <1>1
  <1> QED
    BY <1>2, LeftStays

LEMMA OverStays ==
  ASSUME TypeInv, [Next]_vars, Over, ~Midnight
  PROVE  Over'
  <1>1. phase' = "solved" /\ phase = "solved"
    BY SolvedStays DEF Over
  <1>2. ASSUME Coming' PROVE FALSE
    <2>1. ~PageLoad /\ ~Deliver /\ ~Refresh
      BY <1>2 DEF Coming, PageLoad, Load, Deliver, KeepBoard, MountBoard,
                  ShowOther, Refresh, Idle
    <2>2. ~ReadChallenge
      <3>1. ASSUME ReadChallenge, auth PROVE FALSE
        <4>1. render \in Renderings /\ render.at = "challenge"
          BY <3>1 DEF ReadChallenge, TypeInv, TypeOK
        <4>2. render' = [render EXCEPT !.at = "status"]
          BY <1>1, <3>1 DEF ReadChallenge
        <4>3. render'.at = "status"
          BY <4>1, <4>2, RenderType
        <4> QED
          BY <1>2, <4>3 DEF Coming
      <3>2. ASSUME ReadChallenge, ~auth PROVE FALSE
        BY <1>1, <1>2, <3>2 DEF ReadChallenge, Ready, Coming
      <3> QED
        BY <3>1, <3>2
    <2>3. ~ReadStatus /\ ~ChallengeFails /\ ~StatusFails
      BY <1>2 DEF ReadStatus, ChallengeFails, StatusFails, Ready, Coming
    <2>4. UNCHANGED render
      BY <2>1, <2>2, <2>3, RenderFrame DEF Render
    <2>5. page' = page
      BY <2>1, PageFrame DEF GuessAnswered, LiveAnswered, CheckAnswered,
                             Deliver, Midnight
    <2> QED
      BY <1>2, <2>4, <2>5 DEF Coming, Over
  <1> QED
    BY <1>1, <1>2 DEF Over

(* The rendering is what it was, or one step further.                      *)
LEMMA RenderStep ==
  ASSUME TypeInv, [Next]_vars
  PROVE  \/ UNCHANGED render
         \/ render'.at \in {"none", "challenge"}
         \/ /\ ReadChallenge \/ ReadStatus \/ ChallengeFails \/ StatusFails
            /\ UNCHANGED <<today, winner, auth, page, hasWon, told>>
            /\ phase = "solved" => phase' = "solved"
  <1>1. ASSUME Deliver PROVE render'.at = "none"
    BY <1>1 DEF Deliver, KeepBoard, MountBoard, ShowOther, Idle
  <1>2. ASSUME Refresh \/ PageLoad PROVE render'.at = "challenge"
    BY <1>2 DEF Refresh, PageLoad, Load
  <1>3. ASSUME ReadChallenge \/ ReadStatus \/ ChallengeFails \/ StatusFails
        PROVE  /\ UNCHANGED <<today, winner, auth, page, hasWon, told>>
               /\ phase = "solved" => phase' = "solved"
    BY <1>3 DEF ReadChallenge, ReadStatus, ChallengeFails, StatusFails,
                server, board
  <1> QED
    BY <1>1, <1>2, <1>3, RenderFrame DEF Render

(* Reading the challenge and the status ends in a page, or asks for the    *)
(* status of a player who is logged in.                                    *)
LEMMA ReadStep ==
  ASSUME TypeInv
  PROVE  /\ ReadChallenge =>
               \/ render'.at = "ready" /\ render'.show = "board"
                  /\ phase # "solved"
               \/ render'.at = "ready" /\ render'.show = "podium"
                  /\ phase = "solved" /\ ~auth
               \/ render'.at = "status" /\ phase = "solved" /\ auth
         /\ ReadStatus =>
               /\ render.at = "status" /\ render'.at = "ready"
               /\ render'.show = IF phase = "solved" /\ winner = "me"
                                 THEN "prize" ELSE "podium"
         /\ ChallengeFails \/ StatusFails => render'.at = "ready"
  <1>1. ASSUME render.at = "challenge"
        PROVE  [render EXCEPT !.at = "status"].at = "status"
    BY <1>1, RenderType DEF TypeInv, TypeOK
  <1>2. ASSUME NEW show
        PROVE  Ready(show).at = "ready" /\ Ready(show).show = show
    BY DEF Ready
  <1>3. ReadChallenge =>
               \/ render'.at = "ready" /\ render'.show = "board"
                  /\ phase # "solved"
               \/ render'.at = "ready" /\ render'.show = "podium"
                  /\ phase = "solved" /\ ~auth
               \/ render'.at = "status" /\ phase = "solved" /\ auth
    BY <1>1, <1>2 DEF ReadChallenge
  <1>4. ReadStatus =>
               /\ render.at = "status" /\ render'.at = "ready"
               /\ render'.show = IF phase = "solved" /\ winner = "me"
                                 THEN "prize" ELSE "podium"
    BY <1>2 DEF ReadStatus
  <1>5. ChallengeFails \/ StatusFails => render'.at = "ready"
    BY <1>2 DEF ChallengeFails, StatusFails
  <1> QED
    BY <1>3, <1>4, <1>5

LEMMA PodiumNext ==
  ASSUME TypeInv, PodiumInv, [Next]_vars
  PROVE  PodiumInv'
  (* Midnight waits for a page that is being rendered.                     *)
  <1>0. ASSUME UNCHANGED render, render.at # "none" PROVE ~Midnight
    BY <1>0 DEF Midnight, Raise
  <1>1. ASSUME render'.at = "status" PROVE phase' = "solved"
    <2>1. CASE UNCHANGED render
      <3>1. phase = "solved" /\ ~Midnight
        BY <1>0, <1>1, <2>1 DEF PodiumInv
      <3> QED
        BY <3>1, SolvedStays
    <2>2. CASE ~UNCHANGED render
      <3>1. /\ phase = "solved" => phase' = "solved"
            /\ ReadChallenge \/ ReadStatus \/ ChallengeFails \/ StatusFails
        BY <1>1, <2>2, RenderStep
      <3> QED
        BY <1>1, <3>1, ReadStep
    <2> QED
      BY <2>1, <2>2
  <1>2. ASSUME faults' = 0, render'.at = "ready", render'.show # "board"
        PROVE  /\ phase' = "solved" /\ render'.show # "error"
               /\ auth' /\ render'.show = "podium" => winner' # "me"
    <2>0. faults = 0 /\ ~ChallengeFails /\ ~StatusFails
      BY <1>2, FaultFrame DEF TypeInv
    <2>1. CASE UNCHANGED render
      <3>1. phase = "solved" /\ render.show # "error" /\ ~Midnight
        BY <1>0, <1>2, <2>0, <2>1 DEF PodiumInv
      <3>2. UNCHANGED <<phase, winner>>
        BY <3>1, SolvedStays
      <3>3. ~PageLoad
        BY <1>2, <2>1 DEF PageLoad, Load
      <3>4. auth' = auth
        BY <3>3, PageFrame DEF GuessAnswered, LiveAnswered, CheckAnswered,
                               MountBoard, ShowOther, Midnight
      <3> QED
        BY <1>2, <2>0, <2>1, <3>1, <3>2, <3>4 DEF PodiumInv
    <2>2. CASE ~UNCHANGED render
      <3>1. /\ UNCHANGED <<winner, auth>>
            /\ phase = "solved" => phase' = "solved"
            /\ ReadChallenge \/ ReadStatus
        BY <1>2, <2>0, <2>2, RenderStep
      <3>2. CASE ReadChallenge
        BY <1>2, <3>1, <3>2, ReadStep
      <3>3. CASE ReadStatus
        <4>1. /\ render.at = "status"
              /\ render'.show = IF phase = "solved" /\ winner = "me"
                                THEN "prize" ELSE "podium"
          BY <3>3, ReadStep
        <4>2. phase = "solved"
          BY <4>1 DEF PodiumInv
        <4> QED
          BY <3>1, <4>1, <4>2
      <3> QED
        BY <3>1, <3>2, <3>3
    <2> QED
      BY <2>1, <2>2
  <1> QED
    BY <1>1, <1>2 DEF PodiumInv

-----------------------------------------------------------------------------
(* The count on the board and the key on the server                        *)

LEMMA DatedInit == Init => DatedInv /\ DayInv
  BY DEF Init, Idle, DatedInv, DayInv

LEMMA DatedNext == TypeInv /\ DatedInv /\ [Next]_vars => DatedInv'
  <1> SUFFICES ASSUME TypeInv, DatedInv, [Next]_vars PROVE DatedInv'
    OBVIOUS
  <1>0. /\ guess \in Guesses /\ live \in Lives /\ check \in Checks /\ TypeOK
        /\ version \in Int /\ version' \in Int /\ version <= version'
        /\ guess.at = "answered" => guess.version \in Int
        /\ live.at = "answered" => live.version \in Int
        /\ check.at = "answered" => check.version \in Int
        /\ stored # None => stored.from \in Int
        /\ asOf \in Int
    <2>1. TypeOK
      BY DEF TypeInv
    <2>2. /\ guess \in Guesses /\ live \in Lives /\ check \in Checks
          /\ asOf \in Int /\ version \in Int
          /\ stored # None => stored.from \in Int
      BY <2>1 DEF TypeOK
    <2>3. version' = version \/ version' = version + 1
      BY LeftStays
    <2> QED
      BY <2>1, <2>2, <2>3, GuessType, LiveType, CheckType
  <1>1. guess'.at = "answered" => guess'.version <= version'
    <2>1. CASE Charge \/ Judge \/ CommitMine \/ GuessFault
      BY <1>0, <2>1, GuessServed
    <2>2. CASE Submit \/ GuessAnswered \/ GuessAnsweredLate
      BY <2>2 DEF Submit, GuessAnswered, GuessAnsweredLate, Idle
    <2>3. CASE PageLoad
      BY <1>0, <2>3, LoadGuess DEF PageLoad
    <2>4. CASE ShowOther
      BY <1>0, <2>4, OrphanGuess DEF ShowOther, DatedInv
    <2>5. CASE UNCHANGED guess
      BY <1>0, <2>5 DEF DatedInv
    <2> QED
      BY <2>1, <2>2, <2>3, <2>4, <2>5, GuessFrame
  <1>2. live'.at = "answered" => live'.version <= version'
    <2>1. CASE ServeLive \/ LiveFails
      BY <1>0, <2>1 DEF ServeLive, LiveFails, Idle
    <2>2. CASE LiveAnswered \/ PageLoad \/ MountBoard
      BY <2>2 DEF LiveAnswered, PageLoad, Load, MountBoard, Idle
    <2>3. CASE ShowOther
      BY <1>0, <2>3, OrphanLive DEF ShowOther, DatedInv
    <2>4. CASE UNCHANGED live
      BY <1>0, <2>4 DEF DatedInv
    <2> QED
      BY <2>1, <2>2, <2>3, <2>4, LiveFrame
  <1>3. check'.at = "answered" => check'.version <= version'
    <2>1. CASE ServeCheck
      BY <1>0, <2>1 DEF ServeCheck
    <2>2. CASE CheckFails \/ AdGranted \/ CheckAnswered \/ PageLoad
               \/ ShowOther
      BY <2>2 DEF CheckFails, AdGranted, CheckAnswered, PageLoad, Load,
                  ShowOther, NoBoard, Idle
    <2>3. CASE UNCHANGED check
      BY <1>0, <2>3 DEF DatedInv
    <2> QED
      BY <2>1, <2>2, <2>3, CheckFrame
  <1>4. stored' # None => stored'.from <= version'
    <2>1. CASE stored' = stored \/ stored' = None
      BY <1>0, <2>1 DEF DatedInv
    <2>2. CASE Save(guess.n, guess.version) /\ guess.at = "answered"
      BY <1>0, <2>2 DEF Save, DatedInv
    <2>3. CASE Save(live.n, live.version) /\ live.at = "answered"
      BY <1>0, <2>3 DEF Save, DatedInv
    <2>4. GuessAnswered \/ GuessAnsweredLate =>
             stored' = stored \/ (Save(guess.n, guess.version)
                                  /\ guess.at = "answered")
      BY DEF GuessAnswered, GuessAnsweredLate
    <2>5. LiveAnswered => Save(live.n, live.version) /\ live.at = "answered"
      BY DEF LiveAnswered
    <2>6. PageLoad => stored' = stored \/ stored' = None
      BY DEF PageLoad, Load
    <2> QED
      BY <2>1, <2>2, <2>3, <2>4, <2>5, <2>6, StoredFrame
  <1>5. asOf' <= version'
    <2>1. CASE UNCHANGED asOf
      BY <1>0, <2>1 DEF DatedInv
    <2>2. CASE GuessAnswered
      BY <1>0, <2>2 DEF GuessAnswered, SetAttempts, DatedInv
    <2>3. CASE LiveAnswered
      BY <1>0, <2>3 DEF LiveAnswered, SetAttempts, DatedInv
    <2>4. CASE CheckAnswered
      BY <1>0, <2>4 DEF CheckAnswered, SetAttempts, DatedInv
    <2>5. CASE MountBoard
      BY <1>0, <2>5 DEF MountBoard, DatedInv
    <2>6. CASE PageLoad \/ ShowOther
      <3>1. asOf' = 0 /\ version' = version
        BY <2>6 DEF PageLoad, Load, ShowOther, NoBoard, server
      <3>2. version \in Nat
        BY <1>0 DEF TypeOK
      <3> QED
        BY <3>1, <3>2
    <2>7. Midnight => UNCHANGED asOf
      BY DEF Midnight, Raise
    <2> QED
      BY <2>1, <2>2, <2>3, <2>4, <2>5, <2>6, <2>7, PageFrame
  <1> QED
    BY <1>1, <1>2, <1>3, <1>4, <1>5 DEF DatedInv

LEMMA CountNext ==
  ASSUME TypeInv, WaitsInv, DatedInv, PodiumInv, CountInv, [Next]_vars
  PROVE  CountInv'
  <1> SUFFICES ASSUME faults' = 0
               PROVE  /\ GuessCount' /\ LiveCount' /\ StoredCount'
                      /\ BoardCount' /\ OrphanInv'
    BY DEF CountInv
  <1>0. /\ TypeOK /\ guess \in Guesses /\ live \in Lives
        /\ left \in Int /\ Allowance \in Nat \ {0}
        /\ guess.at = "answered" => guess.version \in Int
        /\ live.at = "answered" => live.version \in Int
        /\ stored # None => stored.from \in Int
        /\ asOf \in Int
    <2>1. /\ TypeOK /\ guess \in Guesses /\ live \in Lives
          /\ left \in Int /\ asOf \in Int
          /\ stored # None => stored.from \in Int
      BY DEF TypeInv, TypeOK
    <2> QED
      BY <2>1, GuessType, LiveType, PageAssumption
  <1>a. /\ ~GuessFault /\ ~LiveFails /\ faults = 0
        /\ GuessCount /\ LiveCount /\ StoredCount /\ BoardCount /\ OrphanInv
    BY <1>0, FaultFrame DEF CountInv
  <1>b. GuessAnswered \/ GuessAnsweredLate \/ LiveAnswered \/ CheckAnswered
        \/ PageLoad \/ MountBoard \/ ShowOther
        => version' = version /\ left' = left
    BY DEF GuessAnswered, GuessAnsweredLate, LiveAnswered, CheckAnswered,
           PageLoad, Load, MountBoard, ShowOther, server
  <1>c. version' = version => ~Midnight
    <2>1. version \in Nat
      BY <1>0 DEF TypeOK
    <2> QED
      BY <2>1, LeftStays
  <1>1. GuessCount'
    <2> SUFFICES ASSUME guess'.at = "answered", guess'.kind \in CountKinds,
                        guess'.version = version', guess'.n = 0
                 PROVE  left' <= 0 \/ (guess'.kind = "success" /\ Over')
      BY DEF GuessCount, CountKinds
    <2>1. CASE Charge
      BY <1>0, <2>1 DEF Charge, Reply
    <2>2. CASE Judge
      <3>1. ~JudgeLate /\ ~JudgeRight
        BY DEF JudgeLate, JudgeRight, Reply, Idle, CountKinds
      <3>2. JudgeWrong
        BY <2>2, <3>1 DEF Judge
      <3> QED
        BY <1>0, <3>2 DEF JudgeWrong, Reply, Idle, server
    <2>3. CASE CommitMine
      <3>1. /\ guess.at = "winning" /\ phase' = "solved"
            /\ guess.to # "nobody" /\ guess'.kind = "success"
            /\ UNCHANGED <<render, page>>
        BY <2>3 DEF CommitMine, Reply, Idle
      <3>2. guess.to # "left"
        BY <1>a, <3>1 DEF OrphanInv, TypeInv, WinningInv
      <3>3. guess.to = "board"
        BY <1>0, <3>1, <3>2, GuessType DEF Owners
      <3>4. page = "board"
        BY <3>1, <3>3 DEF WaitsInv
      <3> QED
        BY <3>1, <3>4 DEF Over, Coming
    <2>4. CASE Submit \/ GuessAnswered \/ GuessAnsweredLate
      BY <2>4 DEF Submit, GuessAnswered, GuessAnsweredLate, Idle
    <2>5. CASE PageLoad
      BY <1>0, <2>5, LoadGuess DEF PageLoad
    <2>6. CASE ShowOther
      <3>1. /\ guess.at = "answered" /\ guess.kind = guess'.kind
            /\ guess.version = guess'.version /\ guess.n = guess'.n
        BY <1>0, <2>6, OrphanGuess DEF ShowOther
      <3>2. version' = version /\ left' = left
        BY <1>b, <2>6
      <3>3. left <= 0 \/ (guess.kind = "success" /\ Over)
        BY <1>a, <3>1, <3>2 DEF GuessCount
      <3> QED
        BY <1>c, <3>1, <3>2, <3>3, OverStays
    <2>7. CASE UNCHANGED guess
      <3>1. guess.version <= version
        BY <2>7 DEF DatedInv
      <3>2. /\ version' = version /\ guess.version = version /\ ~Midnight
            /\ left <= 0 => left' <= 0
        BY <1>0, <2>7, <3>1, ReadNow
      <3>3. left <= 0 \/ (guess.kind = "success" /\ Over)
        BY <1>a, <2>7, <3>2 DEF GuessCount
      <3> QED
        BY <2>7, <3>2, <3>3, OverStays
    <2> QED
      BY <1>a, <2>1, <2>2, <2>3, <2>4, <2>5, <2>6, <2>7, GuessFrame
  <1>2. LiveCount'
    <2> SUFFICES ASSUME live'.at = "answered", live'.version = version',
                        live'.n = 0
                 PROVE  left' <= 0
      BY DEF LiveCount
    <2>1. CASE ServeLive
      BY <1>0, <2>1 DEF ServeLive, server
    <2>2. CASE LiveAnswered \/ PageLoad \/ MountBoard
      BY <2>2 DEF LiveAnswered, PageLoad, Load, MountBoard, Idle
    <2>3. CASE ShowOther
      <3>1. /\ live.at = "answered" /\ live.version = live'.version
            /\ live.n = live'.n
        BY <1>0, <2>3, OrphanLive DEF ShowOther
      <3> QED
        BY <1>a, <1>b, <2>3, <3>1 DEF LiveCount
    <2>4. CASE UNCHANGED live
      <3>1. live.version <= version
        BY <2>4 DEF DatedInv
      <3>2. live.version = version /\ (left <= 0 => left' <= 0)
        BY <1>0, <2>4, <3>1, ReadNow
      <3> QED
        BY <1>a, <2>4, <3>2 DEF LiveCount
    <2> QED
      BY <1>a, <2>1, <2>2, <2>3, <2>4, LiveFrame
  <1>3. StoredCount'
    <2> SUFFICES ASSUME stored' # None, stored'.from = version',
                        stored'.n = 0
                 PROVE  left' <= 0 \/ Over'
      BY DEF StoredCount
    <2>1. ASSUME UNCHANGED stored PROVE left' <= 0 \/ Over'
      <3>1. stored.from <= version
        BY <2>1 DEF DatedInv
      <3>2. /\ stored.from = version /\ ~Midnight
            /\ left <= 0 => left' <= 0
        BY <1>0, <2>1, <3>1, ReadNow
      <3>3. left <= 0 \/ Over
        BY <1>a, <2>1, <3>2 DEF StoredCount
      <3> QED
        BY <3>2, <3>3, OverStays
    <2>2. ASSUME GuessAnswered \/ GuessAnsweredLate, ~UNCHANGED stored
          PROVE  left' <= 0 \/ Over'
      <3>1. /\ guess.at = "answered" /\ guess.kind \in CountKinds
            /\ Save(guess.n, guess.version)
        BY <2>2 DEF GuessAnswered, GuessAnsweredLate
      <3>2. guess.version = version' /\ guess.n = 0
        BY <3>1 DEF Save
      <3>3. left <= 0 \/ Over
        BY <1>a, <1>b, <2>2, <3>1, <3>2 DEF GuessCount
      <3> QED
        BY <1>b, <1>c, <2>2, <3>3, OverStays
    <2>3. ASSUME LiveAnswered PROVE left' <= 0 \/ Over'
      <3>1. live.at = "answered" /\ Save(live.n, live.version)
        BY <2>3 DEF LiveAnswered
      <3>2. live.version = version' /\ live.n = 0
        BY <3>1 DEF Save
      <3> QED
        BY <1>a, <1>b, <2>3, <3>1, <3>2 DEF LiveCount
    <2>4. ASSUME PageLoad PROVE UNCHANGED stored
      BY <2>4 DEF PageLoad, Load
    <2> QED
      BY <2>1, <2>2, <2>3, <2>4, StoredFrame
  <1>4. BoardCount'
    <2> SUFFICES ASSUME page' = "board", asOf' = version', attempts' = 0
                 PROVE  left' <= 0 \/ hasWon'
      BY DEF BoardCount
    <2>1. ASSUME UNCHANGED <<page, attempts, asOf>>, hasWon => hasWon'
          PROVE  left' <= 0 \/ hasWon'
      <3>1. asOf <= version
        BY DEF DatedInv
      <3>2. asOf = version /\ (left <= 0 => left' <= 0)
        BY <1>0, <2>1, <3>1, ReadNow
      <3>3. left <= 0 \/ hasWon
        BY <1>a, <2>1, <3>2 DEF BoardCount
      <3> QED
        BY <2>1, <3>2, <3>3
    <2>2. ASSUME GuessAnswered PROVE left' <= 0 \/ hasWon'
      <3>1. CASE guess.kind \in CountKinds
        <4>1. attempts' = guess.n /\ asOf' = guess.version
          BY <2>2, <3>1 DEF GuessAnswered, SetAttempts
        <4>2. left <= 0 \/ guess.kind = "success"
          BY <1>a, <1>b, <2>2, <3>1, <4>1 DEF GuessCount, GuessAnswered
        <4>3. guess.kind = "success" => hasWon'
          BY <2>2 DEF GuessAnswered
        <4> QED
          BY <1>b, <2>2, <4>2, <4>3
      <3>2. CASE guess.kind \notin CountKinds
        BY <2>1, <2>2, <3>2 DEF GuessAnswered
      <3> QED
        BY <3>1, <3>2
    <2>3. ASSUME LiveAnswered PROVE left' <= 0 \/ hasWon'
      <3>1. CASE live.to = "board"
        <4>1. attempts' = live.n /\ asOf' = live.version
          BY <2>3, <3>1 DEF LiveAnswered, SetAttempts
        <4> QED
          BY <1>b, <1>a, <2>3, <4>1 DEF LiveCount, LiveAnswered
      <3>2. CASE live.to # "board"
        BY <2>1, <2>3, <3>2 DEF LiveAnswered
      <3> QED
        BY <3>1, <3>2
    <2>4. ASSUME CheckAnswered PROVE left' <= 0 \/ hasWon'
      <3>1. CASE check.n > 0
        BY <2>4, <3>1 DEF CheckAnswered, SetAttempts
      <3>2. CASE ~(check.n > 0)
        BY <2>1, <2>4, <3>2 DEF CheckAnswered
      <3> QED
        BY <3>1, <3>2
    <2>5. ASSUME MountBoard PROVE left' <= 0 \/ hasWon'
      <3>1. /\ ~auth /\ stored # None /\ stored.day = today
            /\ attempts' = stored.n /\ asOf' = stored.from
        BY <1>0, <2>5 DEF MountBoard, TodayAttempts
      <3>2. ~Over
        BY <2>5 DEF MountBoard, Over, Coming
      <3> QED
        BY <1>a, <1>b, <2>5, <3>1, <3>2 DEF StoredCount
    <2>6. ASSUME PageLoad \/ ShowOther PROVE FALSE
      BY <2>6 DEF PageLoad, Load, ShowOther
    <2>7. Midnight => UNCHANGED <<page, attempts, asOf, hasWon>>
      BY DEF Midnight, Raise
    <2> QED
      BY <2>1, <2>2, <2>3, <2>4, <2>5, <2>6, <2>7, PageFrame
  <1>5. OrphanInv'
    <2> SUFFICES ASSUME guess'.at \in {"sent", "charged", "winning"},
                        guess'.to = "left"
                 PROVE  phase' = "solved"
      BY DEF OrphanInv
    <2>1. ASSUME guess.at \in {"sent", "charged", "winning"},
                 guess.to = "left"
          PROVE  phase' = "solved"
      <3>1. phase = "solved" /\ ~Midnight
        BY <1>a, <2>1 DEF OrphanInv, Midnight, Raise
      <3> QED
        BY <3>1, SolvedStays
    <2>2. CASE Charge \/ Judge \/ CommitMine \/ GuessFault
      BY <2>1, <2>2, GuessServed
    <2>3. CASE Submit \/ GuessAnswered \/ GuessAnsweredLate
      BY <2>3 DEF Submit, GuessAnswered, GuessAnsweredLate, Idle
    <2>4. CASE PageLoad
      BY <1>0, <2>4, LoadGuess DEF PageLoad
    <2>5. CASE ShowOther
      <3>1. phase = "solved" /\ phase' = phase
        BY <1>a, <2>5 DEF ShowOther, PodiumInv, server
      <3> QED
        BY <3>1
    <2>6. CASE UNCHANGED guess
      BY <2>1, <2>6
    <2> QED
      BY <2>2, <2>3, <2>4, <2>5, <2>6, GuessFrame
  <1> QED
    BY <1>1, <1>2, <1>3, <1>4, <1>5

(* The locked panel tells the truth, for every allowance and whatever is   *)
(* guessed elsewhere: as long as nothing failed, a count of zero, wherever *)
(* it has got to, in an answer, in localStorage or on the board, is that   *)
(* of a key with nothing left, unless midnight or a reward has raised the  *)
(* key since it was read, and a guest's board is no exception.             *)
THEOREM OutMeansOutHolds == Spec => []OutMeansOut
  <1>1. Init => WaitsInv /\ DatedInv /\ PodiumInv /\ CountInv
    <2>1. Init => PodiumInv /\ CountInv
      BY DEF Init, Idle, PodiumInv, CountInv, GuessCount, LiveCount,
             StoredCount, BoardCount, OrphanInv
    <2> QED
      BY <2>1, RefusedInit, DatedInit
  <1>2. TypeInv /\ WaitsInv /\ [Next]_vars => WaitsInv'
    BY WaitsNext
  <1>3. TypeInv /\ DatedInv /\ [Next]_vars => DatedInv'
    BY DatedNext
  <1>4. TypeInv /\ PodiumInv /\ [Next]_vars => PodiumInv'
    BY PodiumNext
  <1>5. TypeInv /\ WaitsInv /\ DatedInv /\ PodiumInv /\ CountInv
        /\ [Next]_vars => CountInv'
    BY CountNext
  <1>6. CountInv => OutMeansOut
    BY DEF CountInv, BoardCount, OutMeansOut, Panel
  <1> QED
    BY <1>1, <1>2, <1>3, <1>4, <1>5, <1>6, TypeInvHolds, PTL DEF Spec

-----------------------------------------------------------------------------
(* The way to the prize                                                    *)

(* A day that is not over stays the same but for midnight.                 *)
LEMMA SameDay ==
  ASSUME TypeInv, [Next]_vars
  PROVE  \/ Midnight /\ today' = today + 1 /\ told' = FALSE
         \/ ~Midnight /\ today' = today
  <1>1. Midnight => today' = today + 1 /\ told' = FALSE
    BY DEF Midnight, Raise
  <1>2. Charge \/ JudgeRight \/ GuessElsewhere \/ Reward => today' = today
    BY DEF Charge, JudgeRight, GuessElsewhere, Reward, Raise
  <1> QED
    BY <1>1, <1>2, LeftFrame

LEMMA DayNext == TypeInv /\ DayInv /\ [Next]_vars => DayInv'
  <1> SUFFICES ASSUME TypeInv, DayInv, [Next]_vars PROVE DayInv'
    OBVIOUS
  <1>0. /\ guess \in Guesses /\ TypeOK /\ today \in Int
        /\ today' = today \/ today' = today + 1
        /\ guess.at = "answered" => guess.day \in Int
    <2>1. guess \in Guesses /\ TypeOK /\ today \in Int
      BY DEF TypeInv, TypeOK, Days
    <2>2. guess.at = "answered" => guess.day \in Int
      BY <2>1, GuessType DEF Days
    <2> QED
      BY <2>1, <2>2, SameDay
  <1>1. CASE Charge \/ Judge \/ CommitMine \/ GuessFault
    BY <1>0, <1>1, GuessServed DEF DayInv
  <1>2. CASE Submit \/ GuessAnswered \/ GuessAnsweredLate
    BY <1>2 DEF Submit, GuessAnswered, GuessAnsweredLate, Idle, DayInv
  <1>3. CASE PageLoad
    BY <1>0, <1>3, LoadGuess DEF PageLoad, DayInv
  <1>4. CASE ShowOther
    BY <1>0, <1>4, OrphanGuess DEF ShowOther, DayInv
  <1>5. CASE UNCHANGED guess
    BY <1>0, <1>5 DEF DayInv
  <1> QED
    BY <1>1, <1>2, <1>3, <1>4, <1>5, GuessFrame

LEMMA SuccessNext ==
  ASSUME TypeInv, DayInv, SuccessInv, [Next]_vars
  PROVE  SuccessInv'
  <1>0. /\ guess \in Guesses /\ TypeOK /\ today \in Int
        /\ guess.at = "answered" => guess.day \in Int
    BY GuessType DEF TypeInv, TypeOK, Days
  <1>1. ASSUME guess'.at = "answered", guess'.kind = "success",
               guess'.day = today'
        PROVE  phase' = "solved" /\ winner' = "me"
    <2>1. CASE Charge \/ Judge \/ GuessFault
      BY <1>1, <2>1 DEF Charge, Judge, JudgeLate, JudgeWrong, JudgeRight,
                        GuessFault, GuessFails, Reply, Idle
    <2>2. CASE CommitMine
      BY <2>2 DEF CommitMine, TypeInv, WinningInv
    <2>3. CASE Submit \/ GuessAnswered \/ GuessAnsweredLate
      BY <1>1, <2>3 DEF Submit, GuessAnswered, GuessAnsweredLate, Idle
    <2>4. CASE PageLoad
      BY <1>0, <1>1, <2>4, LoadGuess DEF PageLoad
    <2>5. CASE ShowOther
      <3>1. guess.at = "answered" /\ guess.kind = "success"
            /\ guess.day = today'
        BY <1>0, <1>1, <2>5, OrphanGuess DEF ShowOther
      <3>2. UNCHANGED <<today, phase, winner>>
        BY <2>5 DEF ShowOther, server
      <3> QED
        BY <3>1, <3>2 DEF SuccessInv
    <2>6. CASE UNCHANGED guess
      <3>1. today' # today + 1
        BY <1>0, <1>1, <2>6 DEF DayInv
      <3>2. ~Midnight /\ today' = today
        BY <3>1, SameDay
      <3>3. phase = "solved" /\ winner = "me"
        BY <1>1, <2>6, <3>2 DEF SuccessInv
      <3> QED
        BY <3>2, <3>3, SolvedStays
    <2> QED
      BY <2>1, <2>2, <2>3, <2>4, <2>5, <2>6, GuessFrame
  <1>2. ASSUME told' PROVE phase' = "solved" /\ winner' = "me"
    <2>1. ~Midnight
      BY <1>2 DEF Midnight, Raise
    <2>2. told \/ (GuessAnswered /\ ToldToday)
      BY <1>2, <2>1, PageFrame DEF GuessAnswered, LiveAnswered,
                    CheckAnswered, PageLoad, Load, MountBoard, ShowOther
    <2>3. phase = "solved" /\ winner = "me"
      BY <2>2 DEF SuccessInv, GuessAnswered, ToldToday
    <2> QED
      BY <2>1, <2>3, SolvedStays
  <1> QED
    BY <1>1, <1>2 DEF SuccessInv

LEMMA ToldNext ==
  ASSUME TypeInv, WaitsInv, PodiumInv, PrizeInv, [Next]_vars
  PROVE  (ToldInv /\ WinnerKeepsPrize)'
  <1> USE DEF PrizeInv
  <1>0. hasWon' \in BOOLEAN /\ hasWon \in BOOLEAN
    BY TypeNext DEF TypeInv, TypeOK
  (* Who is told now was told before, or has just won.                     *)
  <1>1. ASSUME told'
        PROVE  /\ ~Midnight
               /\ \/ told
                  \/ /\ GuessAnswered /\ ToldToday
                     /\ page = "board" /\ page' = "board" /\ hasWon'
                     /\ phase = "solved" /\ winner = "me"
    <2>1. ~Midnight
      BY <1>1, SameDay
    <2>2. told \/ (GuessAnswered /\ ToldToday)
      BY <1>1, <2>1, PageFrame DEF GuessAnswered, LiveAnswered,
                    CheckAnswered, PageLoad, Load, MountBoard, ShowOther
    <2>3. ASSUME GuessAnswered, ToldToday
          PROVE  /\ page = "board" /\ page' = "board" /\ hasWon'
                 /\ phase = "solved" /\ winner = "me"
      <3>1. /\ guess.at = "answered" /\ guess.to = "board" /\ page' = page
            /\ guess.kind = "success" /\ guess.day = today /\ hasWon'
        BY <2>3 DEF GuessAnswered, ToldToday
      <3> QED
        BY <3>1 DEF WaitsInv, SuccessInv
    <2> QED
      BY <2>1, <2>2, <2>3
  (* While nothing fails the page only moves for a load or a delivery.     *)
  <1>2. ASSUME told, told', auth', faults' = 0
        PROVE  /\ auth /\ faults = 0 /\ phase = "solved" /\ winner = "me"
               \/ PageLoad
    <2>1. faults = 0 /\ phase = "solved" /\ winner = "me"
      BY <1>2, FaultFrame DEF TypeInv, SuccessInv
    <2>2. auth' = auth \/ PageLoad
      BY PageFrame DEF GuessAnswered, LiveAnswered, CheckAnswered,
                       MountBoard, ShowOther, Midnight
    <2> QED
      BY <1>2, <2>1, <2>2
  <1>3. ASSUME told, told', ~PageLoad, ~MountBoard, ~ShowOther
        PROVE  page' = page /\ (hasWon => hasWon')
    <2>1. ~Midnight
      BY <1>1, <1>3
    <2>2. GuessAnswered => page' = page /\ (hasWon => hasWon')
      BY DEF GuessAnswered
    <2>3. LiveAnswered \/ CheckAnswered => page' = page /\ (hasWon => hasWon')
      BY DEF LiveAnswered, CheckAnswered
    <2> QED
      BY <1>3, <2>1, <2>2, <2>3, PageFrame
  <1>4. ASSUME told', auth', faults' = 0, render'.at = "ready"
        PROVE  \/ render'.show = "prize"
               \/ render'.show = "board" /\ page' = "board" /\ hasWon'
    <2>0. faults = 0 /\ ~ChallengeFails /\ ~StatusFails
      BY <1>4, FaultFrame DEF TypeInv
    <2>1. ~PageLoad /\ ~MountBoard /\ ~ShowOther
      <3>1. PageLoad => render'.at = "challenge"
        BY DEF PageLoad, Load
      <3>2. MountBoard \/ ShowOther => render'.at = "none"
        BY DEF MountBoard, ShowOther, Idle
      <3> QED
        BY <1>4, <3>1, <3>2
    <2>2. CASE UNCHANGED render
      <3>1. CASE told
        <4>1. auth /\ page' = page /\ (hasWon => hasWon')
          BY <1>2, <1>3, <1>4, <2>1, <3>1
        <4> QED
          BY <1>4, <2>0, <2>2, <3>1, <4>1 DEF ToldInv
      <3>2. CASE ~told
        <4>1. /\ GuessAnswered /\ ToldToday /\ page' = "board" /\ hasWon'
              /\ winner = "me"
          BY <1>1, <1>4, <3>2
        <4>2. auth
          BY <1>4, <4>1 DEF GuessAnswered
        <4>3. render.show \in Shows
          BY <1>4, <2>2, RenderType DEF TypeInv, TypeOK
        <4>4. render.show # "error" /\ render.show # "podium"
          BY <1>4, <2>0, <2>2, <4>1, <4>2 DEF PodiumInv
        <4> QED
          BY <2>2, <4>1, <4>3, <4>4 DEF Shows
      <3> QED
        BY <3>1, <3>2
    <2>3. CASE ~UNCHANGED render
      <3>1. /\ ReadChallenge \/ ReadStatus
            /\ UNCHANGED <<auth, told>>
        BY <1>4, <2>0, <2>3, RenderStep
      <3>2. auth /\ phase = "solved" /\ winner = "me"
        BY <1>2, <1>4, <2>1, <3>1
      <3> QED
        BY <1>4, <3>1, <3>2, ReadStep
    <2> QED
      BY <2>2, <2>3
  <1>5. ASSUME told', auth', faults' = 0
        PROVE  \/ page' \in {"prize", "loading"}
               \/ page' = "board" /\ hasWon'
    <2>1. CASE ~told
      BY <1>1, <1>5, <2>1
    <2>2. CASE PageLoad
      BY <2>2 DEF PageLoad, Load
    <2>3. ASSUME told, ~PageLoad
          PROVE  \/ page' \in {"prize", "loading"}
                 \/ page' = "board" /\ hasWon'
      <3>1. auth /\ faults = 0
        BY <1>2, <1>5, <2>3
      <3>2. ~MountBoard
        BY <2>3, <3>1 DEF MountBoard, ToldInv
      <3>3. CASE ShowOther
        BY <2>3, <3>1, <3>3 DEF ShowOther, ToldInv
      <3>4. CASE ~ShowOther
        <4>1. page' = page /\ (hasWon => hasWon')
          BY <1>3, <1>5, <2>3, <3>2, <3>4
        <4> QED
          BY <2>3, <3>1, <4>1 DEF WinnerKeepsPrize
      <3> QED
        BY <3>3, <3>4
    <2> QED
      BY <2>1, <2>2, <2>3
  <1>6. ToldInv'
    BY <1>4 DEF ToldInv
  <1>7. WinnerKeepsPrize'
    BY <1>5 DEF WinnerKeepsPrize
  <1> QED
    BY <1>6, <1>7

(* Who was told "success" keeps the way to the prize as long as nothing    *)
(* fails: the success is committed when it is told, a page rendered after  *)
(* it asks for the status and finds the winner, and one that was begun     *)
(* before it keeps the board mounted.                                      *)
THEOREM WinnerKeepsPrizeHolds == Spec => []WinnerKeepsPrize
  <1>1. Init => WaitsInv /\ DayInv /\ PodiumInv /\ PrizeInv
    <2>1. Init => PodiumInv /\ PrizeInv
      BY DEF Init, Idle, PodiumInv, PrizeInv, SuccessInv, ToldInv,
             WinnerKeepsPrize
    <2> QED
      BY <2>1, RefusedInit, DatedInit
  <1>2. TypeInv /\ WaitsInv /\ [Next]_vars => WaitsInv'
    BY WaitsNext
  <1>3. TypeInv /\ DayInv /\ [Next]_vars => DayInv'
    BY DayNext
  <1>4. TypeInv /\ PodiumInv /\ [Next]_vars => PodiumInv'
    BY PodiumNext
  <1>5. TypeInv /\ WaitsInv /\ DayInv /\ PodiumInv /\ PrizeInv /\ [Next]_vars
        => PrizeInv'
    BY SuccessNext, ToldNext DEF PrizeInv
  <1>6. PrizeInv => WinnerKeepsPrize
    BY DEF PrizeInv
  <1> QED
    BY <1>1, <1>2, <1>3, <1>4, <1>5, <1>6, TypeInvHolds, PTL DEF Spec
=============================================================================
