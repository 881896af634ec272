-------------------------- MODULE RewardedAdProofs --------------------------
(***************************************************************************)
(* The safety properties of RewardedAd for every cap and every number of   *)
(* clicks, buttons and faults.                                             *)
(***************************************************************************)
EXTENDS RewardedAd, SequenceTheorems, TLAPS

(* An answer that is still to be taken over counts no more than the server *)
(* has, unless a guess overtook it: the server's count falls by guesses    *)
(* only.                                                                   *)
CheckInv ==
    \A i \in DOMAIN checks :
        checks[i].at = "answered" => checks[i].n <= left \/ overtaken

RewardInv == CheckInv /\ RewardIsReal

-----------------------------------------------------------------------------
(* What remains when one verification is taken out                         *)
LEMMA Removed ==
  ASSUME NEW S, NEW s \in Seq(S), NEW i \in DOMAIN s
  PROVE  /\ RemoveAt(s, i) \in Seq(S)
         /\ \A j \in DOMAIN RemoveAt(s, i) :
               \E k \in DOMAIN s : RemoveAt(s, i)[j] = s[k]
  <1> DEFINE a == SubSeq(s, 1, i - 1)
             b == SubSeq(s, i + 1, Len(s))
  <1>1. i \in 1 .. Len(s) /\ Len(s) \in Nat
    OBVIOUS
  <1>2. a \in Seq(S) /\ Len(a) = i - 1 /\ \A j \in 1 .. i - 1 : a[j] = s[j]
    BY <1>1
  <1>3. /\ b \in Seq(S) /\ Len(b) = Len(s) - i
        /\ \A j \in 1 .. Len(s) - i : b[j] = s[i + j]
    <2>1. \A j \in i + 1 .. Len(s) : s[j] \in S
      BY <1>1
    <2>2. b \in Seq(S) /\ Len(b) = Len(s) - i
      BY <1>1, <2>1, SubSeqProperties
    <2>3. \A j \in 1 .. Len(s) - (i + 1) + 1 : b[j] = s[i + 1 + j - 1]
      BY <1>1, <2>1, SubSeqProperties
    <2>4. \A j \in 1 .. Len(s) - i : i + 1 + j - 1 = i + j
      BY <1>1
    <2>5. 1 .. Len(s) - (i + 1) + 1 = 1 .. Len(s) - i
      BY <1>1
    <2> HIDE DEF b
    <2> QED
      BY <2>2, <2>3, <2>4, <2>5
  <1>4. RemoveAt(s, i) = a \o b
    BY DEF RemoveAt
  <1> HIDE DEF a, b
  <1>5. /\ a \o b \in Seq(S) /\ Len(a \o b) = Len(s) - 1
        /\ \A j \in 1 .. Len(s) - 1 :
              (a \o b)[j] = IF j <= i - 1 THEN a[j] ELSE b[j - (i - 1)]
    <2>1. Len(a) + Len(b) = Len(s) - 1
      BY <1>1, <1>2, <1>3
    <2>2. /\ a \o b \in Seq(S) /\ Len(a \o b) = Len(a) + Len(b)
          /\ \A j \in 1 .. Len(a) + Len(b) :
                (a \o b)[j] = IF j <= Len(a) THEN a[j] ELSE b[j - Len(a)]
      BY <1>2, <1>3, ConcatProperties
    <2> QED
      BY <1>2, <2>1, <2>2
  <1>6. ASSUME NEW j \in 1 .. Len(s) - 1
        PROVE  \E k \in DOMAIN s : (a \o b)[j] = s[k]
    <2>1. CASE j <= i - 1
      <3>1. (a \o b)[j] = a[j] /\ a[j] = s[j] /\ j \in DOMAIN s
        BY <1>1, <1>2, <1>5, <2>1
      <3> QED
        BY <3>1
    <2>2. CASE ~(j <= i - 1)
      <3>1. (a \o b)[j] = b[j - (i - 1)]
        BY <1>5, <2>2
      <3>2. /\ j - (i - 1) \in 1 .. Len(s) - i
            /\ i + (j - (i - 1)) = j + 1
        BY <1>1, <2>2
      <3>3. b[j - (i - 1)] = s[j + 1]
        BY <1>3, <3>2
      <3>4. j + 1 \in DOMAIN s
        BY <1>1, <2>2
      <3> QED
        BY <3>1, <3>3, <3>4
    <2> QED
      BY <2>1, <2>2
  <1>7. DOMAIN (a \o b) = 1 .. Len(s) - 1
    BY <1>5, LenProperties
  <1> QED
    BY <1>4, <1>5, <1>6, <1>7

(* What a grant starts: one verification for each of the handlers          *)
Started == [i \in DOMAIN listeners |-> [by |-> listeners[i], at |-> "sent"]]

LEMMA Grants ==
  ASSUME listeners \in Seq(Buttons), checks \in Seq(Checks)
  PROVE  /\ checks \o Started \in Seq(Checks)
         /\ \A j \in DOMAIN (checks \o Started) :
               \/ j \in DOMAIN checks /\ (checks \o Started)[j] = checks[j]
               \/ (checks \o Started)[j].at = "sent"
  <1>1. DOMAIN listeners = 1 .. Len(listeners) /\ Len(listeners) \in Nat
    OBVIOUS
  <1>2. Started \in [1 .. Len(listeners) -> Checks]
    BY <1>1 DEF Started, Checks
  <1>3. Started \in Seq(Checks) /\ Len(Started) = Len(listeners)
    BY <1>1, <1>2
  <1>4. \A j \in 1 .. Len(listeners) : Started[j].at = "sent"
    BY <1>1 DEF Started
  <1> HIDE DEF Started
  <1> QED
    BY <1>1, <1>3, <1>4

(* Set and Fail stay within the types.                                     *)
LEMMA SetType ==
  ASSUME TypeOK, NEW b, NEW state \in AdStates, NEW msg \in Messages,
         Set(b, state, msg)
  PROVE  adState' \in AdStates /\ errorMsg' \in Messages
  BY DEF TypeOK, Set

LEMMA CommandType ==
  ASSUME TypeOK, NEW k \in Clicks, NEW b \in Buttons, RunCommand(k, b)
  PROVE  /\ ad' \in [Clicks -> {"none", "queued", "requested", "playing",
                                "granted", "over"}]
         /\ listeners' \in Seq(Buttons)
         /\ adState' \in AdStates /\ errorMsg' \in Messages
  <1>1. CASE /\ ad' = [ad EXCEPT ![k] = "requested"]
             /\ listeners' = Append(listeners, b)
             /\ Set(b, "loading", "none")
    <2>1. adState' \in AdStates /\ errorMsg' \in Messages
      BY <1>1, SetType DEF AdStates, Messages
    <2>2. listeners' \in Seq(Buttons)
      BY <1>1, AppendProperties DEF TypeOK
    <2> QED
      BY <1>1, <2>1, <2>2 DEF TypeOK
  <1>2. CASE /\ ad' = [ad EXCEPT ![k] = "over"]
             /\ Fail(b, "failed")
             /\ UNCHANGED listeners
    <2>1. adState' \in AdStates /\ errorMsg' \in Messages
      BY <1>2, SetType DEF Fail, AdStates, Messages
    <2> QED
      BY <1>2, <2>1 DEF TypeOK
  <1> QED
    BY <1>1, <1>2 DEF RunCommand

-----------------------------------------------------------------------------
(* Types                                                                   *)

LEMMA TypeInit == Init => TypeOK
  <1> SUFFICES ASSUME Init PROVE TypeOK
    OBVIOUS
  <1>1. button \in Buttons /\ owner \in [Clicks -> Buttons]
    BY AdAssumption DEF Init, Buttons
  <1>2. listeners \in Seq(Buttons) /\ checks \in Seq(Checks)
    BY EmptySeq DEF Init
  <1>3. attempts \in Int /\ left \in Int /\ watched \in 0 .. AdCap
    BY AdAssumption DEF Init
  <1>4. {tagged, mounted, gptReady, overtaken} \subseteq BOOLEAN
    BY DEF Init, FirstReady
  <1>5. ad \in [Clicks -> {"none", "queued", "requested", "playing",
                           "granted", "over"}]
    BY DEF Init
  <1>6. adState \in AdStates /\ errorMsg \in Messages
    BY DEF Init, AdStates, Messages
  <1> QED
    BY <1>1, <1>2, <1>3, <1>4, <1>5, <1>6 DEF Init, TypeOK

LEMMA TypeNext == TypeOK /\ [Next]_vars => TypeOK'
  <1> SUFFICES ASSUME TypeOK, [Next]_vars PROVE TypeOK'
    OBVIOUS
  <1> DEFINE Ads == [Clicks -> {"none", "queued", "requested", "playing",
                                "granted", "over"}]
             Ui  == /\ adState' \in AdStates /\ errorMsg' \in Messages
  <1>1. ASSUME NEW k \in Clicks, WatchAd(k) PROVE TypeOK'
    <2>1. ad' \in Ads /\ listeners' \in Seq(Buttons) /\ Ui
      <3>1. CASE /\ ~gptReady
                 /\ ad' = [ad EXCEPT ![k] = "over"]
                 /\ Fail(button, "notReady")
                 /\ UNCHANGED listeners
        BY <3>1, SetType DEF TypeOK, Fail, AdStates, Messages
      <3>2. CASE gptReady /\ script = "loaded" /\ RunCommand(k, button)
        BY <3>2, CommandType DEF TypeOK
      <3>3. CASE /\ gptReady /\ script # "loaded"
                 /\ ad' = [ad EXCEPT ![k] = "queued"]
                 /\ Set(button, "loading", "none")
                 /\ UNCHANGED listeners
        BY <3>3, SetType DEF TypeOK, AdStates, Messages
      <3> QED
        BY <1>1, <3>1, <3>2, <3>3 DEF WatchAd
    <2>2. owner' \in [Clicks -> Buttons]
      BY <1>1 DEF WatchAd, TypeOK
    <2> QED
      BY <1>1, <2>1, <2>2 DEF WatchAd, TypeOK, server
  <1>2. ASSUME NEW k \in Clicks, RunQueued(k) PROVE TypeOK'
    <2>1. ad' \in Ads /\ listeners' \in Seq(Buttons) /\ Ui
      BY <1>2, CommandType DEF RunQueued, TypeOK
    <2> QED
      BY <1>2, <2>1 DEF RunQueued, TypeOK, server
  <1>3. ASSUME NEW k \in Clicks, AdEnds(k) PROVE TypeOK'
    <2>1. ad' \in Ads
      BY <1>3 DEF AdEnds, Rendered, Closed, TypeOK
    <2>2. Ui
      BY <1>3, SetType
      DEF AdEnds, Rendered, Closed, Fail, TypeOK, AdStates, Messages
    <2> QED
      BY <1>3, <2>1, <2>2 DEF AdEnds, Rendered, Closed, TypeOK, server
  <1>4. ASSUME NEW k \in Clicks, Granted(k) PROVE TypeOK'
    <2>1. ad' \in Ads
      BY <1>4 DEF Granted, TypeOK
    <2>2. checks' \in Seq(Checks)
      BY <1>4, Grants DEF Granted, Started, TypeOK
    <2> QED
      BY <1>4, <2>1, <2>2 DEF Granted, TypeOK, AdStates
  <1>5. ASSUME Dismiss \/ ScriptLoads \/ ScriptFails PROVE TypeOK'
    <2>1. Ui
      BY <1>5, SetType
      DEF Dismiss, ScriptLoads, ScriptFails, Fail, TypeOK, AdStates, Messages
    <2> QED
      BY <1>5, <2>1 DEF Dismiss, ScriptLoads, ScriptFails, TypeOK, gpt, server
  <1>6. ASSUME Callback \/ CallbackLost PROVE TypeOK'
    <2>1. callbacks' \in Nat /\ faults' \in Nat
      BY <1>6 DEF Callback, CallbackLost, Fault, TypeOK
    <2>2. left' \in Int /\ watched' \in 0 .. AdCap
      BY <1>6, AdAssumption DEF Callback, CallbackLost, TypeOK
    <2>3. UNCHANGED <<gpt, ui, attempts, checks, overtaken>>
      BY <1>6 DEF Callback, CallbackLost
    <2> QED
      BY <2>1, <2>2, <2>3 DEF TypeOK, gpt, ui
  <1>7. ASSUME NEW i \in DOMAIN checks, ServeCheck(i) PROVE TypeOK'
    <2>1. [by |-> checks[i].by, at |-> "answered", n |-> left] \in Checks
      BY DEF TypeOK, Checks
    <2>2. checks' \in Seq(Checks)
      BY <1>7, <2>1 DEF ServeCheck, TypeOK
    <2> QED
      BY <1>7, <2>2 DEF ServeCheck, TypeOK, gpt, ui, server
  <1>8. ASSUME NEW i \in DOMAIN checks, CheckAnswered(i) PROVE TypeOK'
    <2>1. checks' \in Seq(Checks)
      BY <1>8, Removed DEF CheckAnswered, TypeOK
    <2>2. checks[i] \in Checks /\ checks[i].n \in Int
      BY <1>8 DEF TypeOK, Checks, CheckAnswered
    <2>3. Ui
      BY <1>8, SetType
      DEF CheckAnswered, Fail, TypeOK, AdStates, Messages
    <2> QED
      BY <1>8, <2>1, <2>2, <2>3 DEF CheckAnswered, TypeOK, gpt, server
  <1>9. ASSUME NEW i \in DOMAIN checks, CheckFails(i) PROVE TypeOK'
    <2>1. checks' \in Seq(Checks)
      BY <1>9, Removed DEF CheckFails, TypeOK
    <2>2. Ui
      <3>1. PICK msg \in {"verify", "delayed"} : Fail(checks[i].by, msg)
        BY <1>9 DEF CheckFails
      <3> QED
        BY <3>1, SetType DEF Fail, AdStates, Messages
    <2> QED
      BY <1>9, <2>1, <2>2 DEF CheckFails, Fault, TypeOK, gpt, server
  <1>10. ASSUME Guess PROVE TypeOK'
    <2>1. left' \in Int /\ attempts' \in Int /\ overtaken' \in BOOLEAN
      BY <1>10 DEF Guess, TypeOK
    <2>2. button' \in Buttons
      BY <1>10, AdAssumption DEF Guess, Mount, TypeOK, ui, Buttons
    <2>3. mounted' \in BOOLEAN /\ gptReady' \in BOOLEAN
      BY <1>10 DEF Guess, Mount, KnownReady, TypeOK, ui
    <2>4. Ui
      BY <1>10 DEF Guess, Mount, TypeOK, ui, AdStates, Messages
    <2> QED
      BY <1>10, <2>1, <2>2, <2>3, <2>4 DEF Guess, TypeOK, gpt
  <1>11. ASSUME Unlocked PROVE TypeOK'
    BY <1>11 DEF Unlocked, TypeOK, gpt, server
  <1>12. ASSUME UNCHANGED vars PROVE TypeOK'
    BY <1>12 DEF vars, TypeOK
  <1> QED
    BY <1>1, <1>2, <1>3, <1>4, <1>5, <1>6, <1>7, <1>8, <1>9, <1>10, <1>11,
       <1>12 DEF Next

(* Every variable keeps its type, the list of the registered handlers and  *)
(* that of the verifications under way included.                           *)
THEOREM TypeHolds == Spec => []TypeOK
  BY TypeInit, TypeNext, PTL DEF Spec

-----------------------------------------------------------------------------
(* Rewards                                                                 *)

LEMMA RewardInit == Init => RewardInv
  BY DEF Init, RewardInv, CheckInv, RewardIsReal

LEMMA RewardNext == TypeOK /\ RewardInv /\ [Next]_vars => RewardInv'
  <1> SUFFICES ASSUME TypeOK, RewardInv, [Next]_vars PROVE RewardInv'
    OBVIOUS
  <1>1. ASSUME NEW k \in Clicks, Granted(k) PROVE RewardInv'
    <2>1. checks' = checks \o Started
      BY <1>1 DEF Granted, Started
    <2>2. CheckInv'
      BY <1>1, <2>1, Grants DEF Granted, RewardInv, CheckInv, TypeOK
    <2> QED
      BY <1>1, <2>2 DEF Granted, RewardInv, RewardIsReal
  <1>2. ASSUME Callback PROVE RewardInv'
    <2>1. left <= left'
      BY <1>2 DEF Callback, TypeOK
    <2>2. CheckInv'
      BY <1>2, <2>1 DEF Callback, RewardInv, CheckInv, TypeOK, Checks
    <2> QED
      BY <1>2, <2>1, <2>2 DEF Callback, RewardInv, RewardIsReal, TypeOK, ui
  <1>3. ASSUME NEW i \in DOMAIN checks, ServeCheck(i) PROVE RewardInv'
    BY <1>3
    DEF ServeCheck, RewardInv, CheckInv, RewardIsReal, TypeOK, ui, server
  <1>4. ASSUME NEW i \in DOMAIN checks, CheckAnswered(i) PROVE RewardInv'
    <2>1. CheckInv'
      BY <1>4, Removed DEF CheckAnswered, RewardInv, CheckInv, TypeOK, server
    <2>2. checks[i].n \in Int /\ (checks[i].n <= left \/ overtaken)
      BY <1>4 DEF CheckAnswered, TypeOK, Checks, RewardInv, CheckInv
    <2> QED
      BY <1>4, <2>1, <2>2
      DEF CheckAnswered, IsReward, RewardInv, RewardIsReal, TypeOK, server
  <1>5. ASSUME NEW i \in DOMAIN checks, CheckFails(i) PROVE RewardInv'
    <2>1. CheckInv'
      BY <1>5, Removed DEF CheckFails, RewardInv, CheckInv, TypeOK, server
    <2> QED
      BY <1>5, <2>1 DEF CheckFails, RewardInv, RewardIsReal, server
  <1>6. ASSUME Guess PROVE RewardInv'
    <2>1. CheckInv'
      <3>1. CASE checks = <<>>
        BY <1>6, <3>1 DEF Guess, CheckInv
      <3>2. CASE checks # <<>>
        BY <1>6, <3>2 DEF Guess, CheckInv
      <3> QED
        BY <3>1, <3>2
    <2>2. RewardIsReal'
      BY <1>6 DEF Guess, Mount, ui, RewardInv, RewardIsReal, TypeOK
    <2> QED
      BY <2>1, <2>2 DEF RewardInv
  <1>7. ASSUME Unlocked PROVE RewardInv'
    BY <1>7
    DEF Unlocked, RewardInv, CheckInv, RewardIsReal, TypeOK, server
  <1>8. ASSUME \/ \E k \in Clicks : WatchAd(k) \/ RunQueued(k) \/ AdEnds(k)
               \/ Dismiss \/ ScriptLoads \/ ScriptFails \/ CallbackLost
               \/ UNCHANGED vars
        PROVE RewardInv'
    <2>1. UNCHANGED <<checks, left, overtaken, mounted, attempts>>
      BY <1>8 DEF WatchAd, RunQueued, AdEnds, Rendered, Closed, Dismiss,
                  ScriptLoads, ScriptFails, CallbackLost, vars, server, ui
    <2> QED
      BY <2>1 DEF RewardInv, CheckInv, RewardIsReal
  <1> QED
    BY <1>1, <1>2, <1>3, <1>4, <1>5, <1>6, <1>7, <1>8 DEF Next

(* The locked panel and its button are there exactly when the board shows  *)
(* no attempts, and attempts that a reward has brought to the board are on *)
(* the server, whichever of the accumulated handlers' verifications brings *)
(* them, as long as no guess has overtaken a verification: for every cap   *)
(* and every number of clicks, handlers and lost callbacks.                *)
THEOREM RewardIsRealHolds == Spec => []RewardIsReal
  <1>1. Init => RewardInv
    BY RewardInit
  <1>2. TypeOK /\ RewardInv /\ [Next]_vars => RewardInv'
    BY RewardNext
  <1>3. RewardInv => RewardIsReal
    BY DEF RewardInv
  <1> QED
    BY <1>1, <1>2, <1>3, TypeHolds, PTL DEF Spec
=============================================================================
