----------------------------- MODULE GuessEditor -----------------------------
(***************************************************************************)
(* The board on which a player puts a guess together (useGameEngine.ts and *)
(* game-board.client.tsx): the slots and the three ways to fill them       *)
(* (keyboard, tray, drag and drop), the focus and its delayed loss, the    *)
(* timer that empties the slots after a wrong guess, the login prompt, and *)
(* the guess that is kept in sessionStorage while the player logs in.      *)
(*                                                                         *)
(* Handlers run one at a time, but their timers and answers come later, in *)
(* any order, with the values they closed over.  Slots are numbered from 1.*)
(* What the server does with a guess is the subject of GamePage: here an   *)
(* answer is one of the kinds submitSequence tells apart.                  *)
(***************************************************************************)
EXTENDS Integers, Sequences, FiniteSets

CONSTANTS
    Digits,       \* the digits of the tray, the same for every challenge
    OtherKeys,    \* characters a keyboard sends that are no such digits
    Counts,       \* the numbers of slots a challenge may have
    Countdown,    \* seconds the login prompt stays (5 in the code)
    Null,         \* an empty slot
    Hole,         \* an index never assigned in a JavaScript array: undefined
    None,         \* no focus, no saved guess, no request, nothing dragged
    MaxSubmits,   \* bound: clicks on the submit button
    MaxBlurs,     \* bound: blur timers that run at the same time
    MaxVisits,    \* bound: times the player leaves the board
    LastDay       \* bound: the days are 0 .. LastDay

Values    == Digits \cup {Null, Hole}
MostSlots == CHOOSE n \in Counts : \A m \in Counts : m <= n
Slots     == 1 .. MostSlots

ASSUME EditorAssumption ==
    /\ Counts \subseteq Nat \ {0}
    /\ \E n \in Counts : \A m \in Counts : m <= n
    /\ Countdown \in Nat \ {0}
    /\ Null # Hole /\ Null \notin Digits /\ Hole \notin Digits
    /\ None \notin Slots /\ None \notin Digits /\ None \notin Seq(Values)
    /\ OtherKeys \cap Digits = {}
    /\ {MaxSubmits, MaxBlurs, MaxVisits, LastDay} \subseteq Nat

VARIABLES
    shown,      \* TRUE while the board is mounted
    auth,       \* the prop isAuthenticated
    count,      \* the prop slotsCount
    slots,
    focused,    \* focusedIndex
    cursor,     \* the input the browser has focused, or None
    blurs,      \* blur timers that have not fired
    shakes,     \* shake timers that have not fired: the slotsCount of each
    prompt,     \* 0, or the countdown of the active login prompt
    drag,       \* the digit that is being dragged
    request,    \* the guess in flight: its length, slotsCount at the time
    won,        \* hasWon
    spent,      \* attempts === 0
    refreshing, \* router.refresh was called and has not rendered
    saved,      \* femabras_saved_guess in sessionStorage
    day,        \* the day whose challenge a page load would bring
    \* what happened so far, which no code reads:
    leftWith,   \* the slots when the player last left to log in
    misfit,     \* the slots were last made for another challenge
    submits, visits  \* counters for the bounds

focus  == <<focused, cursor, blurs>>
board  == <<auth, count, won, spent, refreshing>>
tab    == <<shown, saved, day, leftWith, visits>>
vars   == <<shown, auth, count, slots, focused, cursor, blurs, shakes, prompt,
            drag, request, won, spent, refreshing, saved, day, leftWith,
            misfit, submits, visits>>

-----------------------------------------------------------------------------
(* challenge.utils.ts                                                      *)

Empty(n) == [i \in 1 .. n |-> Null]

(* An assignment past the end of an array leaves holes.                    *)
PlaceDigit(s, i, d) ==
    [j \in 1 .. (IF i > Len(s) THEN i ELSE Len(s)) |->
        IF j = i THEN d ELSE IF j <= Len(s) THEN s[j] ELSE Hole]

Empties(s) == {i \in 1 .. Len(s) : s[i] = Null}
First(S)   == CHOOSE i \in S : \A j \in S : i <= j

FindNextEmpty(s, after) ==
    LET later == {i \in Empties(s) : i > after} IN
    IF later # {} THEN First(later)
    ELSE IF Empties(s) # {} THEN First(Empties(s)) ELSE None

(* isComplete: a hole is not null.                                         *)
IsComplete(s) == s # <<>> /\ Empties(s) = {}

(* The length of the string that is sent: an empty slot and a hole add     *)
(* nothing to it.                                                          *)
GuessLength(s) == Cardinality({i \in 1 .. Len(s) : s[i] \in Digits})

(* JSON.stringify writes a hole as null.                                   *)
Stringified(s) == [i \in 1 .. Len(s) |-> IF s[i] = Hole THEN Null ELSE s[i]]

-----------------------------------------------------------------------------
(* What the board renders.                                                 *)
IsOut      == spent /\ ~won
ShowSlots  == shown /\ ~IsOut
Prompting  == prompt > 0
ShowTray   == ShowSlots /\ ~won /\ ~IsComplete(slots) /\ ~Prompting
ShowSubmit == ShowSlots /\ ~won /\ (IsComplete(slots) \/ Prompting)
ShowBanner == ShowSlots /\ ~won /\ ~Prompting /\ IsComplete(slots) /\ ~auth
Inputs     == IF ShowSlots THEN 1 .. Len(slots) ELSE {}

-----------------------------------------------------------------------------
(* A page load: the state of the hook's useState calls, and for a player   *)
(* who is logged in the effect that restores a saved guess.                *)
Mounted(a, n) ==
    /\ auth' = a /\ count' = n
    /\ shown' = TRUE
    /\ slots' = IF a /\ saved # None THEN saved ELSE Empty(n)
    /\ saved' = IF a THEN None ELSE saved
    /\ misfit' = (Len(slots') # n)
    /\ focused' = None /\ cursor' = None /\ blurs' = 0
    /\ shakes' = <<>> /\ prompt' = 0 /\ drag' = None /\ request' = None
    /\ won' = FALSE /\ refreshing' = FALSE
    /\ spent' \in BOOLEAN

Init ==
    /\ shown = TRUE /\ auth \in BOOLEAN /\ count \in Counts
    /\ slots = Empty(count)
    /\ focused = None /\ cursor = None /\ blurs = 0 /\ shakes = <<>>
    /\ prompt = 0 /\ drag = None /\ request = None
    /\ won = FALSE /\ spent = FALSE /\ refreshing = FALSE
    /\ saved = None /\ day = 0
    /\ leftWith = None /\ misfit = FALSE
    /\ submits = 0 /\ visits = 0

(* An input that is no longer rendered loses the browser's focus without   *)
(* an onBlur; focusedIndex keeps its number.                               *)
KeepCursor == cursor' = IF cursor \in Inputs' THEN cursor ELSE None

(* inputRefs.current[i].focus(), .blur() for None, or the user's move: the *)
(* input left schedules setFocusedIndex(null), the one entered calls       *)
(* setFocusedIndex(i) at once.                                             *)
MoveFocus(i) ==
    /\ cursor' = i
    /\ focused' = IF i = None THEN focused ELSE i
    /\ IF cursor \in {None, i} THEN UNCHANGED blurs
       ELSE blurs < MaxBlurs /\ blurs' = blurs + 1

(* removeDigit                                                             *)
RemoveDigit(i) ==
    IF won \/ Prompting THEN UNCHANGED <<slots, misfit>>
    ELSE slots' = PlaceDigit(slots, i, Null) /\ UNCHANGED misfit

-----------------------------------------------------------------------------
(* The player.                                                             *)

FocusSlot(i) ==
    /\ i \in Inputs \cup {None} /\ i # cursor
    /\ MoveFocus(i)
    /\ UNCHANGED <<board, tab, slots, misfit, shakes, prompt, drag, request,
                   submits>>

(* handleManualInput and onPlace: a digit typed goes into the slot and the *)
(* focus to the next empty one; other characters only raise a toast.       *)
Type(k) ==
    /\ cursor \in Inputs
    /\ k # slots[cursor]  \* else the input does not change
    /\ IF Prompting \/ k \notin Digits THEN UNCHANGED <<slots, focus>>
       ELSE /\ slots' = PlaceDigit(slots, cursor, k)
            /\ MoveFocus(FindNextEmpty(slots', cursor))
    /\ UNCHANGED <<board, tab, misfit, shakes, prompt, drag, request, submits>>

(* onKeyDown: on an empty slot the one before it is focused and cleared.   *)
Backspace ==
    /\ cursor \in Inputs
    /\ IF slots[cursor] \notin Digits /\ cursor > 1
       THEN MoveFocus(cursor - 1) /\ RemoveDigit(cursor - 1)
       ELSE RemoveDigit(cursor) /\ UNCHANGED focus
    /\ UNCHANGED <<board, tab, shakes, prompt, drag, request, submits>>

(* A click on the frame of a slot                                          *)
ClickSlot(i) ==
    /\ i \in Inputs
    /\ RemoveDigit(i)
    /\ UNCHANGED <<board, tab, focus, shakes, prompt, drag, request, submits>>

(* handleTrayClick: into the slot of focusedIndex, or the first empty one  *)
TrayClick(d) ==
    /\ ShowTray
    /\ slots' = PlaceDigit(slots,
                           IF focused # None THEN focused
                           ELSE First(Empties(slots)), d)
    /\ misfit' = (misfit \/ (focused # None /\ focused > count))
    /\ UNCHANGED <<board, tab, focus, shakes, prompt, drag, request, submits>>

DragStart(d) ==
    /\ ShowTray /\ drag = None
    /\ drag' = d
    /\ UNCHANGED <<board, tab, slots, misfit, focus, shakes, prompt, request,
                   submits>>

(* Variant: a drop does not look at the prompt.                            *)
DropAnyway(i) ==
    /\ shown /\ drag # None /\ drag' = None
    /\ slots' = IF i \in Inputs THEN PlaceDigit(slots, i, drag) ELSE slots
    /\ UNCHANGED <<board, tab, misfit, focus, shakes, prompt, request,
                   submits>>

(* handleDragEnd: on slot i, or on no slot (None); what is on the screen   *)
(* may have changed since the drag began.                                  *)
DragEnd(i) ==
    /\ shown /\ drag # None /\ drag' = None
    /\ slots' = IF i \in Inputs /\ ~Prompting THEN PlaceDigit(slots, i, drag)
                ELSE slots
    /\ UNCHANGED <<board, tab, misfit, focus, shakes, prompt, request,
                   submits>>

(* Variant: the index of the last slot is off by one.                      *)
ReviseBeyond ==
    /\ ShowSubmit
    /\ RemoveDigit(count + 1)
    /\ UNCHANGED <<board, tab, focus, shakes, prompt, drag, request, submits>>

(* The revise button empties the last slot.                                *)
Revise ==
    /\ ShowSubmit
    /\ RemoveDigit(count)
    /\ UNCHANGED <<board, tab, focus, shakes, prompt, drag, request, submits>>

(* submitSequence up to the request: a guest is prompted to log in.        *)
Submit ==
    /\ ShowSubmit /\ request = None
    /\ submits < MaxSubmits /\ submits' = submits + 1
    /\ IF auth
       THEN /\ request' = [digits |-> GuessLength(slots), slots |-> count,
                           excused |-> Prompting \/ misfit]
            /\ UNCHANGED prompt
       ELSE prompt' = Countdown /\ UNCHANGED request
    /\ UNCHANGED <<board, tab, slots, misfit, focus, shakes, drag>>

(* The overlay's cancel button                                             *)
Cancel ==
    /\ shown /\ Prompting
    /\ prompt' = 0
    /\ UNCHANGED <<board, tab, slots, misfit, focus, shakes, drag, request,
                   submits>>

-----------------------------------------------------------------------------
(* Timers and answers.                                                     *)

(* Variant: the timer goes on after the prompt has closed.                 *)
TickOnward ==
    /\ shown
    /\ prompt' = prompt - 1
    /\ UNCHANGED <<board, tab, slots, misfit, focus, shakes, drag, request,
                   submits>>

(* The prompt's timer: at 0 the prompt closes.                             *)
Tick ==
    /\ shown /\ Prompting
    /\ prompt' = prompt - 1
    /\ UNCHANGED <<board, tab, slots, misfit, focus, shakes, drag, request,
                   submits>>

BlurTimer ==
    /\ shown /\ blurs > 0
    /\ blurs' = blurs - 1
    /\ focused' = None
    /\ UNCHANGED <<board, tab, slots, misfit, cursor, shakes, prompt, drag,
                   request, submits>>

(* The timer of triggerError, with the slotsCount of the render in which   *)
(* the guess was submitted                                                 *)
ShakeEnds ==
    /\ shown /\ shakes # <<>>
    /\ shakes' = Tail(shakes)
    /\ slots' = Empty(Head(shakes))
    /\ misfit' = (Head(shakes) # count)
    /\ UNCHANGED <<board, tab, focused, blurs, prompt, drag, request, submits>>
    /\ KeepCursor

TriggerError == shakes' = Append(shakes, request.slots)

(* submitSequence from the answer on: success, incorrect (perhaps with no  *)
(* attempt left), 401, 403, 404 or another error                           *)
Answered(kind) ==
    /\ shown /\ request # None
    /\ request' = None
    /\ won' = (won \/ kind = "success")
    /\ CASE kind \in {"success", "denied"} -> spent' = TRUE
         [] kind = "incorrect" -> spent' \in BOOLEAN
         [] OTHER -> UNCHANGED spent
    /\ prompt' = IF kind = "unauthorized" THEN Countdown ELSE prompt
    /\ refreshing' = (refreshing \/ kind = "missing")
    /\ IF kind \in {"incorrect", "denied", "error"} THEN TriggerError
       ELSE UNCHANGED shakes
    /\ UNCHANGED <<auth, count, tab, slots, misfit, focused, blurs, drag,
                   submits>>
    /\ KeepCursor

Kinds == {"success", "incorrect", "unauthorized", "denied", "missing", "error"}

(* The watched ad gave an attempt: onRewardGranted.                        *)
Rewarded ==
    /\ shown /\ IsOut
    /\ spent' = FALSE
    /\ UNCHANGED <<auth, count, won, refreshing, tab, slots, misfit, focus,
                   shakes, prompt, drag, request, submits>>

(* The event "solved" on the board's EventSource                           *)
SolvedEvent ==
    /\ shown /\ ~won /\ ~IsOut /\ ~refreshing
    /\ refreshing' = TRUE
    /\ UNCHANGED <<auth, count, won, spent, tab, slots, misfit, focus, shakes,
                   prompt, drag, request, submits>>

-----------------------------------------------------------------------------
(* The page.                                                               *)

Midnight ==
    /\ day < LastDay
    /\ day' = day + 1
    /\ UNCHANGED <<board, shown, saved, leftWith, visits, slots, misfit, focus,
                   shakes, prompt, drag, request, submits>>

(* The effect on isAuthenticated and slotsCount: for a player who is now   *)
(* logged in the board starts over; a guest keeps the slots there are.     *)
NewProps(a, n) ==
    /\ auth' = a /\ count' = n
    /\ IF a = auth /\ n = count
       THEN UNCHANGED <<slots, saved, won, prompt, misfit, leftWith>>
       ELSE IF ~a
       THEN /\ misfit' = (misfit \/ n # count)
            /\ UNCHANGED <<slots, saved, won, prompt, leftWith>>
       ELSE /\ slots' = IF saved # None THEN saved ELSE Empty(n)
            /\ saved' = None /\ leftWith' = None
            /\ won' = FALSE /\ prompt' = 0
            /\ misfit' = (Len(slots') # n)

(* router.refresh renders today's challenge and today's session into the   *)
(* mounted board: a new day may have another number of slots, the session  *)
(* may have ended or, in another tab, begun, and then the attempts are     *)
(* read again.                                                             *)
Refreshed(a, n) ==
    /\ shown /\ refreshing
    /\ refreshing' = FALSE
    /\ n # count => day > 0
    /\ NewProps(a, n)
    /\ IF a = auth THEN UNCHANGED spent ELSE spent' \in BOOLEAN
    /\ UNCHANGED <<shown, day, visits, focused, blurs, shakes, drag, request,
                   submits>>
    /\ KeepCursor

(* Variant: the guess is not saved.                                        *)
SaveNothing == saved' = saved

(* sessionStorage.setItem of confirmAuthRedirect                           *)
SaveGuess == saved' = Stringified(slots)

(* The board is unmounted: its timers and the answer in flight find        *)
(* nothing to act on.                                                      *)
Unmount ==
    /\ visits < MaxVisits /\ visits' = visits + 1
    /\ shown' = FALSE
    /\ slots' = <<>> /\ misfit' = FALSE
    /\ focused' = None /\ cursor' = None /\ blurs' = 0
    /\ shakes' = <<>> /\ prompt' = 0 /\ drag' = None /\ request' = None
    /\ won' = FALSE /\ spent' = FALSE /\ refreshing' = FALSE
    /\ UNCHANGED <<auth, count, day, submits>>

(* confirmAuthRedirect, from the overlay or the guest banner: to /login    *)
ConfirmAuthRedirect ==
    /\ shown /\ (Prompting \/ ShowBanner)
    /\ SaveGuess
    /\ leftWith' = Stringified(slots)
    /\ Unmount

(* A refresh that finds the challenge solved, a link, a closed page        *)
Leave ==
    /\ shown
    /\ Unmount
    /\ UNCHANGED <<saved, leftWith>>

(* The logout button, on another page of the same tab                      *)
Logout ==
    /\ ~shown /\ saved # None
    /\ saved' = None /\ leftWith' = None
    /\ UNCHANGED <<board, shown, day, visits, slots, misfit, focus, shakes,
                   prompt, drag, request, submits>>

(* The board is loaded again in the same tab, with or without a login.     *)
Return(a, n) ==
    /\ ~shown
    /\ n # count => day > 0
    /\ Mounted(a, n)
    /\ leftWith' = IF a THEN None ELSE leftWith
    /\ UNCHANGED <<day, visits, submits>>

-----------------------------------------------------------------------------
Player ==
    \/ \E i \in Slots \cup {None} : FocusSlot(i) \/ ClickSlot(i) \/ DragEnd(i)
    \/ \E k \in Digits \cup OtherKeys : Type(k)
    \/ \E d \in Digits : TrayClick(d) \/ DragStart(d)
    \/ Backspace \/ Revise \/ Submit \/ Cancel \/ ConfirmAuthRedirect

Next ==
    \/ Player
    \/ Tick \/ BlurTimer \/ ShakeEnds
    \/ \E kind \in Kinds : Answered(kind)
    \/ Rewarded \/ SolvedEvent \/ Midnight
    \/ \E n \in Counts, a \in BOOLEAN : Refreshed(a, n) \/ Return(a, n)
    \/ Leave \/ Logout

Spec == Init /\ [][Next]_vars

-----------------------------------------------------------------------------
(* Correctness.                                                            *)

SlotLists == UNION {[1 .. n -> Values] : n \in 0 .. MostSlots}

(* Every variable keeps its type.                                          *)
TypeOK ==
    /\ {shown, auth, won, spent, misfit, refreshing} \subseteq BOOLEAN
    /\ count \in Counts
    /\ slots \in SlotLists
    /\ {focused, cursor} \subseteq Slots \cup {None}
    /\ blurs \in 0 .. MaxBlurs
    /\ shakes \in Seq(Counts)
    /\ prompt \in 0 .. Countdown
    /\ drag \in Digits \cup {None}
    /\ request # None => /\ request.digits \in Nat
                         /\ request.slots \in Counts
                         /\ request.excused \in BOOLEAN
    /\ saved \in SlotLists \cup {None} /\ leftWith \in SlotLists \cup {None}
    /\ day \in Nat /\ submits \in Nat /\ visits \in Nat

(* The board fits its challenge: one slot per digit and no hole among      *)
(* them, whatever is typed, dragged, clicked and wiped in whatever order,  *)
(* and a guess that is sent outside the prompt has one digit per slot.     *)
(* The exceptions are misfits, and they come only from a guess saved for   *)
(* another challenge, a guest's board that was refreshed, a shake timer or *)
(* a focusedIndex that is older than the challenge.                        *)
GuessFits ==
    /\ shown /\ ~misfit =>
          Len(slots) = count /\ \A i \in 1 .. count : slots[i] # Hole
    /\ request # None /\ ~request.excused =>
          request.digits = request.slots

(* What a guest has put together survives the login: the board that opens  *)
(* after it shows the guess the player left with, whatever was loaded in   *)
(* between.                                                                *)
GuessSurvivesLogin ==
    [][~shown /\ shown' /\ auth' /\ leftWith # None => slots' = leftWith]_vars

(* While the login prompt is open the player cannot change the guess that  *)
(* is to be saved: not with a drag begun before it opened, nor with a key  *)
(* or a button under the overlay.                                          *)
FrozenWhilePrompted ==
    [][Prompting /\ prompt' > 0 /\ shakes' = shakes => slots' = slots]_vars
=============================================================================
