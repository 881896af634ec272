----------------------------- MODULE RewardedAd -----------------------------
(***************************************************************************)
(* The button under a locked board that shows a rewarded ad for another    *)
(* attempt (ad-button.client.tsx): the advertising script it loads, the    *)
(* ads it asks for, the listeners that every click adds and nothing        *)
(* removes, and the verifications that read the attempts from the server   *)
(* when an ad was granted.  The ad network tells the server in a callback  *)
(* of its own, which may come later than that reading, or not at all.      *)
(*                                                                         *)
(* A board that shows attempts has no button; when they are used up it     *)
(* mounts a new one.  Buttons are numbered: what an old one still does     *)
(* reaches the board, but not the state of the new one.  The ad unit is    *)
(* configured, as in production.                                           *)
(***************************************************************************)
EXTENDS Integers, Sequences, SequencesExt

CONSTANTS
    AdCap,       \* rewards a day
    MaxClicks,   \* bound: ads asked for
    MaxButtons,  \* bound: buttons mounted
    MaxFaults    \* bound: failed verifications and lost callbacks

ASSUME AdAssumption ==
    /\ {AdCap, MaxClicks, MaxFaults} \subseteq Nat
    /\ MaxButtons \in Nat \ {0}

Clicks  == 1 .. MaxClicks
Buttons == 1 .. MaxButtons

VARIABLES
    \* the page and the advertising script
    script,     \* the script element: "none", "loading", "loaded", "failed"
    tagged,     \* window.googletag exists
    ad,         \* ad[k]: the ad of click k
    owner,      \* owner[k]: the button that was clicked
    listeners,  \* the buttons whose handlers are registered, one per click
    \* the button
    button,     \* the number of the last button mounted
    mounted,    \* it is on the page
    gptReady,
    adState,
    errorMsg,
    \* the board and the server
    attempts,   \* the board's count
    left,       \* the attempts key
    watched,    \* the ads_watched key
    callbacks,  \* callbacks of the ad network on their way
    checks,     \* verifications on their way: the button, and the answer
    \* what happened so far, which no code reads:
    overtaken,  \* a guess was made while a verification was under way
    faults

gpt    == <<script, tagged, ad, owner, listeners>>
ui     == <<button, mounted, gptReady, adState, errorMsg>>
server == <<left, watched, callbacks>>
vars   == <<script, tagged, ad, owner, listeners, button, mounted, gptReady,
            adState, errorMsg, attempts, left, watched, callbacks, checks,
            overtaken, faults>>

AdStates == {"idle", "loading", "playing", "verifying", "error"}
Messages == {"none", "blocker", "notReady", "failed", "noAds", "delayed",
             "verify"}

(* isDisabled                                                              *)
Busy == adState \notin {"idle", "error"}

Fault == faults < MaxFaults /\ faults' = faults + 1

(* setAdState and setErrorMsg of button b: nothing when it is gone         *)
Set(b, state, msg) ==
    IF mounted /\ button = b THEN adState' = state /\ errorMsg' = msg
    ELSE UNCHANGED <<adState, errorMsg>>

Fail(b, msg) == Set(b, "error", msg)

-----------------------------------------------------------------------------
(* The button.                                                             *)

(* The lazy initialiser of gptReady for the first button: it renders       *)
(* before its effect sets window.googletag and adds the script.            *)
FirstReady == FALSE

Init ==
    /\ script = "loading" /\ tagged = TRUE
    /\ ad = [k \in Clicks |-> "none"] /\ owner = [k \in Clicks |-> 1]
    /\ listeners = <<>>
    /\ button = 1 /\ mounted = TRUE
    /\ gptReady = FirstReady /\ adState = "idle" /\ errorMsg = "none"
    /\ attempts = 0 /\ left \in {-1, 0} /\ watched = 0
    /\ callbacks = 0 /\ checks = <<>>
    /\ overtaken = FALSE /\ faults = 0

(* The lazy initialiser of gptReady for a button mounted later: the first  *)
(* one has set window.googletag, whatever became of the script.            *)
KnownReady == tagged

(* The board is locked again and mounts a new button.                      *)
Mount ==
    /\ button' = button + 1 /\ mounted' = TRUE
    /\ gptReady' = KnownReady
    /\ adState' = "idle" /\ errorMsg' = "none"

(* The body of googletag.cmd.push: a slot, three more listeners, and the   *)
(* request for an ad; or no slot.                                          *)
RunCommand(k, b) ==
    \/ /\ ad' = [ad EXCEPT ![k] = "requested"]
       /\ listeners' = Append(listeners, b)
       /\ Set(b, "loading", "none")
    \/ /\ ad' = [ad EXCEPT ![k] = "over"]
       /\ Fail(b, "failed")
       /\ UNCHANGED listeners

(* handleWatchAd                                                           *)
WatchAd(k) ==
    /\ mounted /\ adState = "idle"
    /\ ad[k] = "none" /\ \A j \in Clicks : j < k => ad[j] # "none"
    /\ owner' = [owner EXCEPT ![k] = button]
    /\ \/ /\ ~gptReady
          /\ ad' = [ad EXCEPT ![k] = "over"]
          /\ Fail(button, "notReady")
          /\ UNCHANGED listeners
       \/ /\ gptReady /\ script = "loaded"
          /\ RunCommand(k, button)
       \/ /\ gptReady /\ script # "loaded"
          /\ ad' = [ad EXCEPT ![k] = "queued"]
          /\ Set(button, "loading", "none")
          /\ UNCHANGED listeners
    /\ UNCHANGED <<script, tagged, button, mounted, gptReady, attempts, server,
                   checks, overtaken, faults>>

(* A click on a button that shows an error                                 *)
Dismiss ==
    /\ mounted /\ adState = "error"
    /\ Set(button, "idle", "none")
    /\ UNCHANGED <<gpt, button, mounted, gptReady, attempts, server, checks,
                   overtaken, faults>>

-----------------------------------------------------------------------------
(* The script and the ads.                                                 *)

(* onload: the first button learns of it, and the queue of commands is run *)
ScriptLoads ==
    /\ script = "loading" /\ script' = "loaded"
    /\ gptReady' = (gptReady \/ (mounted /\ button = 1))
    /\ UNCHANGED <<tagged, ad, owner, listeners, button, mounted, adState,
                   errorMsg, attempts, server, checks, overtaken, faults>>

(* onerror                                                                 *)
ScriptFails ==
    /\ script = "loading" /\ script' = "failed"
    /\ Fail(1, "blocker")
    /\ UNCHANGED <<tagged, ad, owner, listeners, button, mounted, gptReady,
                   attempts, server, checks, overtaken, faults>>

RunQueued(k) ==
    /\ script = "loaded" /\ ad[k] = "queued"
    /\ RunCommand(k, owner[k])
    /\ UNCHANGED <<script, tagged, owner, button, mounted, gptReady, attempts,
                   server, checks, overtaken, faults>>

(* An event of any ad is heard by the handlers of all clicks; to those of  *)
(* old buttons it is nothing but a new verification.                       *)
Hears == mounted /\ \E i \in DOMAIN listeners : listeners[i] = button

(* slotRenderEnded                                                         *)
Rendered(k) ==
    /\ ad[k] = "requested"
    /\ \/ /\ ad' = [ad EXCEPT ![k] = "playing"]
          /\ adState' = IF Hears THEN "playing" ELSE adState
          /\ UNCHANGED errorMsg
       \/ /\ ad' = [ad EXCEPT ![k] = "over"]
          /\ IF Hears THEN Fail(button, "noAds")
             ELSE UNCHANGED <<adState, errorMsg>>
    /\ UNCHANGED <<script, tagged, owner, listeners, button, mounted, gptReady,
                   attempts, server, checks, overtaken, faults>>

(* rewardedSlotGranted: every handler starts handleRewardGranted, and the  *)
(* slots are destroyed, with or without a closed event to follow.  The ad  *)
(* network calls the server.                                               *)
Granted(k) ==
    /\ ad[k] = "playing"
    /\ ad' \in {[ad EXCEPT ![k] = s] : s \in {"granted", "over"}}
    /\ adState' = IF Hears THEN "verifying" ELSE adState
    /\ checks' = checks \o [i \in DOMAIN listeners |->
                               [by |-> listeners[i], at |-> "sent"]]
    /\ callbacks' = callbacks + 1
    /\ UNCHANGED <<script, tagged, owner, listeners, button, mounted, gptReady,
                   errorMsg, attempts, left, watched, overtaken, faults>>

(* Variant: nobody listens for the closed event.                           *)
ClosedUnheard(k) ==
    /\ ad[k] \in {"playing", "granted"}
    /\ ad' = [ad EXCEPT ![k] = "over"]
    /\ UNCHANGED <<script, tagged, owner, listeners, ui, attempts, server,
                   checks, overtaken, faults>>

(* rewardedSlotClosed, after the reward or without one                     *)
Closed(k) ==
    /\ ad[k] \in {"playing", "granted"}
    /\ ad' = [ad EXCEPT ![k] = "over"]
    /\ adState' = IF Hears THEN "idle" ELSE adState
    /\ UNCHANGED <<script, tagged, owner, listeners, button, mounted, gptReady,
                   errorMsg, attempts, server, checks, overtaken, faults>>

-----------------------------------------------------------------------------
(* The server and the verification.                                        *)

(* Variant: the cap is not looked at.                                      *)
CallbackUncapped ==
    /\ callbacks > 0 /\ callbacks' = callbacks - 1
    /\ left' = left + 1 /\ watched' = watched + 1
    /\ UNCHANGED <<gpt, ui, attempts, checks, overtaken, faults>>

(* AdRewardWebhook, with the cap of the script in Redis                    *)
Callback ==
    /\ callbacks > 0 /\ callbacks' = callbacks - 1
    /\ IF watched < AdCap THEN left' = left + 1 /\ watched' = watched + 1
       ELSE UNCHANGED <<left, watched>>
    /\ UNCHANGED <<gpt, ui, attempts, checks, overtaken, faults>>

CallbackLost ==
    /\ callbacks > 0 /\ callbacks' = callbacks - 1
    /\ Fault
    /\ UNCHANGED <<gpt, ui, attempts, left, watched, checks, overtaken>>

(* GET /challenge/attempts for verification i                              *)
ServeCheck(i) ==
    /\ checks[i].at = "sent"
    /\ checks' = [checks EXCEPT ![i] =
                     [by |-> @.by, at |-> "answered", n |-> left]]
    /\ UNCHANGED <<gpt, ui, attempts, server, overtaken, faults>>

(* Variant: the count is taken over even when it is not positive.          *)
AnyCount(n) == TRUE

(* liveAttempts > 0                                                        *)
IsReward(n) == n > 0

(* Variant: a reward that has not arrived makes the button idle.           *)
CheckAnsweredQuietly(i) ==
    /\ checks[i].at = "answered"
    /\ checks' = RemoveAt(checks, i)
    /\ IF IsReward(checks[i].n)
       THEN /\ attempts' = checks[i].n
            /\ mounted' = FALSE
            /\ UNCHANGED <<adState, errorMsg>>
       ELSE Set(checks[i].by, "idle", "none") /\ UNCHANGED <<attempts, mounted>>
    /\ UNCHANGED <<gpt, button, gptReady, server, overtaken, faults>>

(* The rest of handleRewardGranted: the board takes the count over and the *)
(* button goes, or the reward has not arrived.                             *)
CheckAnswered(i) ==
    /\ checks[i].at = "answered"
    /\ checks' = RemoveAt(checks, i)
    /\ IF IsReward(checks[i].n)
       THEN /\ attempts' = checks[i].n
            /\ mounted' = FALSE
            /\ UNCHANGED <<adState, errorMsg>>
       ELSE Fail(checks[i].by, "delayed") /\ UNCHANGED <<attempts, mounted>>
    /\ UNCHANGED <<gpt, button, gptReady, server, overtaken, faults>>

(* The call is not answered at all, or is not ok and reads as 0.           *)
CheckFails(i) ==
    /\ checks[i].at = "sent" /\ Fault
    /\ checks' = RemoveAt(checks, i)
    /\ \E msg \in {"verify", "delayed"} : Fail(checks[i].by, msg)
    /\ UNCHANGED <<gpt, button, mounted, gptReady, attempts, server,
                   overtaken>>

-----------------------------------------------------------------------------
(* The board.                                                              *)

(* A wrong guess: charged by the server, which answers what is left or     *)
(* turns it away.                                                          *)
Guess ==
    /\ ~mounted /\ button < MaxButtons
    /\ left' = left - 1
    /\ attempts' = IF left' < 0 THEN 0 ELSE left'
    /\ overtaken' = (overtaken \/ checks # <<>>)
    /\ IF attempts' = 0 THEN Mount ELSE UNCHANGED ui
    /\ UNCHANGED <<gpt, watched, callbacks, checks, faults>>

(* A late answer of the board's own fetchLiveAttempts unlocks it.          *)
Unlocked ==
    /\ mounted /\ button = 1 /\ left # 0
    /\ attempts' = left /\ mounted' = FALSE
    /\ UNCHANGED <<gpt, button, gptReady, adState, errorMsg, server, checks,
                   overtaken, faults>>

-----------------------------------------------------------------------------
AdEnds(k) == Rendered(k) \/ Closed(k)

Next ==
    \/ \E k \in Clicks :
          WatchAd(k) \/ RunQueued(k) \/ AdEnds(k) \/ Granted(k)
    \/ Dismiss \/ ScriptLoads \/ ScriptFails
    \/ Callback \/ CallbackLost
    \/ \E i \in DOMAIN checks :
          ServeCheck(i) \/ CheckAnswered(i) \/ CheckFails(i)
    \/ Guess \/ Unlocked

(* A loaded script runs its queue, an ad that was asked for comes or not   *)
(* and ends, and a verification is answered.  Nothing is assumed of the    *)
(* callback.                                                               *)
Fairness ==
    /\ \A k \in Clicks : WF_vars(RunQueued(k)) /\ WF_vars(AdEnds(k))
    /\ WF_vars(checks # <<>> /\ (ServeCheck(1) \/ CheckAnswered(1)))

Spec == Init /\ [][Next]_vars /\ Fairness

-----------------------------------------------------------------------------
(* Correctness.                                                            *)

(* A verification under way                                                *)
Checks == [by : Buttons, at : {"sent"}]
          \cup [by : Buttons, at : {"answered"}, n : Int]

(* Every variable keeps its type.                                          *)
TypeOK ==
    /\ script \in {"loading", "loaded", "failed"}
    /\ {tagged, mounted, gptReady, overtaken} \subseteq BOOLEAN
    /\ ad \in [Clicks -> {"none", "queued", "requested", "playing", "granted",
                          "over"}]
    /\ owner \in [Clicks -> Buttons] /\ listeners \in Seq(Buttons)
    /\ button \in Buttons
    /\ adState \in AdStates /\ errorMsg \in Messages
    /\ attempts \in Int /\ left \in Int /\ watched \in 0 .. AdCap
    /\ callbacks \in Nat /\ checks \in Seq(Checks)
    /\ faults \in Nat

(* The board and the button exclude each other, and attempts that are      *)
(* shown are there: whichever of the accumulated handlers reports, the     *)
(* board shows no more than the server has, unless the player has guessed  *)
(* while another handler's verification was still under way.               *)
RewardIsReal ==
    /\ mounted <=> attempts = 0
    /\ attempts > 0 => attempts <= left \/ overtaken

(* A button that waits becomes usable again or goes, in whatever order its *)
(* handlers and those of older clicks run, once the script has loaded, and *)
(* the first button also when the script is blocked.  (A later one takes   *)
(* window.googletag for the script and waits for an ad that cannot come.)  *)
AdCanEnd == script = "loaded" \/ (script = "failed" /\ button = 1)

BusyEnds == mounted /\ Busy /\ AdCanEnd ~> ~mounted \/ ~Busy

(* A reward is reported: a verification of the button on the page ends     *)
(* with attempts on the board or with a message that says why not, even if *)
(* the ad's closed event has made the button usable again meanwhile.       *)
GrantIsReported ==
    mounted /\ (\E i \in DOMAIN checks : checks[i].by = button) ~>
        attempts # 0 \/ errorMsg \in {"delayed", "verify"}
=============================================================================
