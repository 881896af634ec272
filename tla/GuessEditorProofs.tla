-------------------------- MODULE GuessEditorProofs --------------------------
(***************************************************************************)
(* The safety properties of GuessEditor for every set of digits, every     *)
(* choice of lengths a challenge may have, and every bound.                *)
(***************************************************************************)
EXTENDS GuessEditor, FiniteSetTheorems, SequenceTheorems,
        WellFoundedInduction, TLAPS

(* A board that is on the page has slots, and a saved guess is a list of   *)
(* slots without holes: JSON has none.                                     *)
ListInv ==
    /\ shown => slots # <<>>
    /\ saved # None =>
          saved # <<>> /\ \A i \in 1 .. Len(saved) : saved[i] # Hole

TypeInv == TypeOK /\ ListInv

(* The guess a guest left with is the saved one until the player is logged *)
(* in: no later page load, refresh or prompt replaces it.                  *)
KeptInv ==
    /\ leftWith # None => saved = leftWith
    /\ shown /\ auth => leftWith = None

-----------------------------------------------------------------------------
(* Lists of slots                                                          *)

LEMMA MostType == MostSlots \in Counts /\ \A n \in Counts : n <= MostSlots
  <1> DEFINE Longest(n) == \A m \in Counts : m <= n
  <1>1. \E n \in Counts : Longest(n)
    BY EditorAssumption
  <1>2. MostSlots = CHOOSE n \in Counts : Longest(n)
    BY DEF MostSlots
  <1> QED
    BY <1>1, <1>2

LEMMA CountType ==
  /\ \A n \in Counts : n \in Nat /\ n \in Slots
  /\ MostSlots \in Nat
  /\ Slots = 1 .. MostSlots
  BY MostType, EditorAssumption DEF Slots

LEMMA ListType ==
  ASSUME NEW s
  PROVE  s \in SlotLists <=> s \in Seq(Values) /\ Len(s) <= MostSlots
  <1>1. ASSUME s \in SlotLists
        PROVE  s \in Seq(Values) /\ Len(s) <= MostSlots
    <2>1. PICK n \in 0 .. MostSlots : s \in [1 .. n -> Values]
      BY <1>1 DEF SlotLists
    <2> QED
      BY <2>1, CountType
  <1>2. ASSUME s \in Seq(Values), Len(s) <= MostSlots
        PROVE  s \in SlotLists
    <2>1. Len(s) \in 0 .. MostSlots /\ s \in [1 .. Len(s) -> Values]
      BY <1>2, CountType, LenProperties
    <2> QED
      BY <2>1 DEF SlotLists
  <1> QED
    BY <1>1, <1>2

LEMMA EmptyType ==
  ASSUME NEW n \in Counts
  PROVE  /\ Empty(n) \in SlotLists /\ Len(Empty(n)) = n /\ Empty(n) # <<>>
         /\ \A i \in 1 .. n : Empty(n)[i] # Hole
  <1>1. n \in Nat /\ n # 0 /\ n <= MostSlots
    BY CountType, MostType, EditorAssumption
  <1>2. Empty(n) \in [1 .. n -> Values]
    BY DEF Empty, Values
  <1>3. Empty(n) \in Seq(Values) /\ Len(Empty(n)) = n
    BY <1>1, <1>2
  <1>4. \A i \in 1 .. n : Empty(n)[i] = Null
    BY DEF Empty
  <1> QED
    BY <1>1, <1>3, <1>4, ListType, EditorAssumption

(* An assignment to an index within the longest board                      *)
LEMMA PlaceType ==
  ASSUME NEW s \in SlotLists, NEW i \in Slots, NEW d \in Values
  PROVE  LET t == PlaceDigit(s, i, d)
         IN  /\ t \in SlotLists /\ t # <<>>
             /\ i \in 1 .. Len(s) =>
                   /\ Len(t) = Len(s)
                   /\ \A j \in 1 .. Len(s) : t[j] = IF j = i THEN d ELSE s[j]
  <1> DEFINE n == IF i > Len(s) THEN i ELSE Len(s)
             t == PlaceDigit(s, i, d)
  <1>1. /\ s \in Seq(Values) /\ Len(s) \in Nat /\ Len(s) <= MostSlots
        /\ \A j \in 1 .. Len(s) : s[j] \in Values
    BY ListType
  <1>2. i \in Nat /\ i # 0 /\ i <= MostSlots /\ MostSlots \in Nat
    BY CountType
  <1>3. n \in Nat /\ n # 0 /\ n <= MostSlots
    BY <1>1, <1>2
  <1>4. t = [j \in 1 .. n |->
               IF j = i THEN d ELSE IF j <= Len(s) THEN s[j] ELSE Hole]
    BY DEF PlaceDigit
  <1>5. (i \in 1 .. Len(s)) => n = Len(s)
    BY <1>1, <1>2
  <1> HIDE DEF n, t
  <1>6. t \in [1 .. n -> Values]
    BY <1>1, <1>3, <1>4 DEF Values
  <1>7. t \in Seq(Values) /\ Len(t) = n
    BY <1>3, <1>6
  <1>8. t \in SlotLists /\ t # <<>>
    BY <1>3, <1>7, ListType
  <1>9. ASSUME i \in 1 .. Len(s)
        PROVE  /\ Len(t) = Len(s)
               /\ \A j \in 1 .. Len(s) : t[j] = IF j = i THEN d ELSE s[j]
    BY <1>1, <1>4, <1>5, <1>7, <1>9
  <1>10. /\ t \in SlotLists /\ t # <<>>
         /\ i \in 1 .. Len(s) =>
               /\ Len(t) = Len(s)
               /\ \A j \in 1 .. Len(s) : t[j] = IF j = i THEN d ELSE s[j]
    BY <1>8, <1>9
  <1> QED
    BY <1>10 DEF t

LEMMA StringifiedType ==
  ASSUME NEW s \in SlotLists, s # <<>>
  PROVE  /\ Stringified(s) \in SlotLists /\ Stringified(s) # <<>>
         /\ \A i \in 1 .. Len(Stringified(s)) : Stringified(s)[i] # Hole
  <1> DEFINE t == Stringified(s)
  <1>1. /\ s \in Seq(Values) /\ Len(s) \in Nat /\ Len(s) <= MostSlots
        /\ \A j \in 1 .. Len(s) : s[j] \in Values
        /\ Len(s) # 0
    BY ListType
  <1>2. t = [i \in 1 .. Len(s) |-> IF s[i] = Hole THEN Null ELSE s[i]]
    BY DEF Stringified
  <1> HIDE DEF t
  <1>3. t \in [1 .. Len(s) -> Values]
    BY <1>1, <1>2 DEF Values
  <1>4. t \in Seq(Values) /\ Len(t) = Len(s)
    BY <1>1, <1>3
  <1>5. \A i \in 1 .. Len(s) : t[i] # Hole
    BY <1>2, EditorAssumption
  <1>6. t \in SlotLists /\ t # <<>> /\ \A i \in 1 .. Len(t) : t[i] # Hole
    BY <1>1, <1>4, <1>5, ListType
  <1> QED
    BY <1>6 DEF t

(* The first of a set of indices is one of them.                           *)
LEMMA FirstType ==
  ASSUME NEW S, S \subseteq Nat, S # {}
  PROVE  First(S) \in S
  <1>1. PICK i \in S : \A j \in S : <<j, i>> \notin OpToRel(<, Nat)
    BY NatLessThanWellFounded, WFMin, Zenon
  <1>2. \A j \in S : ~(j < i)
    BY <1>1 DEF OpToRel
  <1>3. \A j \in S : i <= j
    BY <1>2
  <1> QED
    BY <1>3 DEF First

LEMMA NextEmptyType ==
  ASSUME NEW s \in SlotLists, NEW after
  PROVE  FindNextEmpty(s, after) \in 1 .. Len(s) \cup {None}
  <1> DEFINE later == {i \in Empties(s) : i > after}
  <1>1. Empties(s) \subseteq 1 .. Len(s) /\ 1 .. Len(s) \subseteq Nat
    BY DEF Empties
  <1>2. CASE later # {}
    <2>1. First(later) \in later
      BY <1>1, <1>2, FirstType
    <2> QED
      BY <1>1, <1>2, <2>1 DEF FindNextEmpty
  <1>3. CASE later = {} /\ Empties(s) # {}
    <2>1. First(Empties(s)) \in Empties(s)
      BY <1>1, <1>3, FirstType
    <2> QED
      BY <1>1, <1>3, <2>1 DEF FindNextEmpty
  <1>4. CASE later = {} /\ Empties(s) = {}
    BY <1>4 DEF FindNextEmpty
  <1> QED
    BY <1>2, <1>3, <1>4

-----------------------------------------------------------------------------
(* Types                                                                   *)

LEMMA MoveType ==
  ASSUME TypeOK, NEW i \in Slots \cup {None}, MoveFocus(i)
  PROVE  /\ {focused', cursor'} \subseteq Slots \cup {None}
         /\ blurs' \in 0 .. MaxBlurs
  <1>1. {focused', cursor'} \subseteq Slots \cup {None}
    BY DEF MoveFocus, TypeOK
  <1>2. blurs' \in 0 .. MaxBlurs
    BY EditorAssumption DEF MoveFocus, TypeOK
  <1> QED
    BY <1>1, <1>2

(* The inputs of the board that is shown                                   *)
LEMMA InputType ==
  ASSUME TypeOK, NEW i \in Inputs
  PROVE  /\ shown /\ i \in 1 .. Len(slots) /\ i \in Slots
         /\ slots \in Seq(Values) /\ Len(slots) \in Nat
  <1>1. shown /\ i \in 1 .. Len(slots)
    BY DEF Inputs, ShowSlots
  <1>2. slots \in SlotLists
    BY DEF TypeOK
  <1>3. slots \in Seq(Values) /\ Len(slots) <= MostSlots
    BY <1>2, ListType
  <1> QED
    BY <1>1, <1>3, CountType

(* removeDigit keeps a board a board.                                      *)
LEMMA RemoveType ==
  ASSUME TypeInv, shown, NEW i \in Slots, RemoveDigit(i)
  PROVE  slots' \in SlotLists /\ slots' # <<>> /\ misfit' = misfit
  <1>1. slots \in SlotLists /\ slots # <<>> /\ Null \in Values
    BY DEF TypeInv, TypeOK, ListInv, Values
  <1>2. CASE won \/ Prompting
    BY <1>1, <1>2 DEF RemoveDigit
  <1>3. CASE ~(won \/ Prompting)
    <2>1. slots' = PlaceDigit(slots, i, Null) /\ misfit' = misfit
      BY <1>3 DEF RemoveDigit
    <2> QED
      BY <1>1, <2>1, PlaceType
  <1> QED
    BY <1>2, <1>3

(* The place of a tray click                                               *)
LEMMA TrayPlace ==
  ASSUME TypeInv, ShowTray
  PROVE  /\ shown /\ First(Empties(slots)) \in 1 .. Len(slots)
         /\ First(Empties(slots)) \in Slots
  <1>1. shown /\ slots \in SlotLists /\ slots # <<>> /\ ~IsComplete(slots)
    BY DEF TypeInv, TypeOK, ListInv, ShowTray, ShowSlots
  <1>2. Empties(slots) # {} /\ Empties(slots) \subseteq 1 .. Len(slots)
    BY <1>1 DEF IsComplete, Empties
  <1>3. Empties(slots) \subseteq Nat
    BY <1>2
  <1>4. First(Empties(slots)) \in 1 .. Len(slots)
    BY <1>2, <1>3, FirstType
  <1>5. Len(slots) \in Nat /\ Len(slots) <= MostSlots
    BY <1>1, ListType
  <1> QED
    BY <1>1, <1>4, <1>5, CountType

(* TypeOK without what the tab keeps                                       *)
BoardType ==
    /\ {shown, auth, won, spent, misfit, refreshing} \subseteq BOOLEAN
    /\ count \in Counts /\ slots \in SlotLists
    /\ {focused, cursor} \subseteq Slots \cup {None}
    /\ blurs \in 0 .. MaxBlurs /\ shakes \in Seq(Counts)
    /\ prompt \in 0 .. Countdown /\ drag \in Digits \cup {None}
    /\ request # None => /\ request.digits \in Nat
                         /\ request.slots \in Counts
                         /\ request.excused \in BOOLEAN
    /\ submits \in Nat

LEMMA UnmountType ==
  ASSUME TypeOK, Unmount
  PROVE  BoardType' /\ ~shown' /\ visits' \in Nat /\ day' \in Nat
  <1>1. blurs' \in 0 .. MaxBlurs /\ prompt' \in 0 .. Countdown
    <2>1. blurs' = 0 /\ prompt' = 0
      BY DEF Unmount
    <2> QED
      BY <2>1, EditorAssumption
  <1>2. slots' \in SlotLists
    <2>1. <<>> \in Seq(Values) /\ Len(<<>>) = 0 /\ 0 <= MostSlots
      BY EmptySeq, CountType
    <2>2. <<>> \in SlotLists
      BY <2>1, ListType
    <2> QED
      BY <2>2 DEF Unmount
  <1>3. shakes' \in Seq(Counts)
    BY EmptySeq DEF Unmount
  <1>4. {shown', auth', won', spent', misfit', refreshing'} \subseteq BOOLEAN
    BY DEF Unmount, TypeOK
  <1>5. request' = None /\ drag' = None /\ focused' = None /\ cursor' = None
    BY DEF Unmount
  <1>6. count' \in Counts /\ submits' \in Nat
    BY DEF Unmount, TypeOK
  <1>7. BoardType'
    BY <1>1, <1>2, <1>3, <1>4, <1>5, <1>6 DEF BoardType
  <1> QED
    BY <1>7 DEF Unmount, TypeOK

LEMMA TypeInit == Init => TypeInv
  <1> SUFFICES ASSUME Init PROVE TypeInv
    OBVIOUS
  <1>1. slots \in SlotLists /\ slots # <<>>
    BY EmptyType DEF Init
  <1>2. shakes \in Seq(Counts)
    BY EmptySeq DEF Init
  <1>3. blurs \in 0 .. MaxBlurs /\ prompt \in 0 .. Countdown
    BY EditorAssumption DEF Init
  <1>4. {shown, auth, won, spent, misfit, refreshing} \subseteq BOOLEAN
    BY DEF Init
  <1> QED
    BY <1>1, <1>2, <1>3, <1>4 DEF Init, TypeInv, TypeOK, ListInv

(* What the player does on the board                                       *)
LEMMA PlayerType == TypeInv /\ Player => TypeInv'
  <1> SUFFICES ASSUME TypeInv, Player PROVE TypeInv'
    OBVIOUS
  <1> USE DEF focus, board, tab
  <1>0. TypeOK /\ Null \in Values /\ Digits \subseteq Values
    BY DEF TypeInv, Values
  <1>1. ASSUME NEW i \in Slots \cup {None}, FocusSlot(i) PROVE TypeInv'
    BY <1>0, <1>1, MoveType DEF FocusSlot, TypeInv, TypeOK, ListInv
  <1>2. ASSUME NEW i \in Slots \cup {None}, ClickSlot(i) PROVE TypeInv'
    <2>1. slots' \in SlotLists /\ slots' # <<>> /\ misfit' = misfit
      BY <1>0, <1>2, InputType, RemoveType DEF ClickSlot
    <2> QED
      BY <1>2, <2>1 DEF ClickSlot, TypeInv, TypeOK, ListInv
  <1>3. ASSUME NEW i \in Slots \cup {None}, DragEnd(i) PROVE TypeInv'
    <2>1. slots' \in SlotLists /\ slots' # <<>>
      <3>1. CASE i \in Inputs /\ ~Prompting
        <4>1. i \in Slots /\ drag \in Values /\ slots \in SlotLists
          BY <1>0, <1>3, <3>1, InputType DEF DragEnd, TypeOK
        <4>2. slots' = PlaceDigit(slots, i, drag)
          BY <1>3, <3>1 DEF DragEnd
        <4> QED
          BY <4>1, <4>2, PlaceType
      <3>2. CASE ~(i \in Inputs /\ ~Prompting)
        BY <1>3, <3>2 DEF DragEnd, TypeInv, TypeOK, ListInv
      <3> QED
        BY <3>1, <3>2
    <2> QED
      BY <1>3, <2>1 DEF DragEnd, TypeInv, TypeOK, ListInv
  <1>4. ASSUME NEW k \in Digits \cup OtherKeys, Type(k) PROVE TypeInv'
    <2>1. CASE Prompting \/ k \notin Digits
      BY <1>4, <2>1 DEF Type, TypeInv, TypeOK, ListInv
    <2>2. CASE ~(Prompting \/ k \notin Digits)
      <3>1. cursor \in Slots /\ slots \in SlotLists /\ k \in Values
        BY <1>0, <1>4, <2>2, InputType DEF Type, TypeOK
      <3>2. slots' = PlaceDigit(slots, cursor, k)
        BY <1>4, <2>2 DEF Type
      <3>3. slots' \in SlotLists /\ slots' # <<>>
        BY <3>1, <3>2, PlaceType
      <3>4. Len(slots') \in Nat /\ Len(slots') <= MostSlots
        BY <3>3, ListType
      <3>5. FindNextEmpty(slots', cursor) \in Slots \cup {None}
        BY <3>3, <3>4, NextEmptyType, CountType
      <3>6. /\ {focused', cursor'} \subseteq Slots \cup {None}
            /\ blurs' \in 0 .. MaxBlurs
        BY <1>0, <1>4, <2>2, <3>5, MoveType DEF Type
      <3> QED
        BY <1>4, <3>3, <3>6 DEF Type, TypeInv, TypeOK, ListInv
    <2> QED
      BY <2>1, <2>2
  <1>5. ASSUME NEW d \in Digits, TrayClick(d) PROVE TypeInv'
    <2> DEFINE place == IF focused # None THEN focused
                        ELSE First(Empties(slots))
    <2>1. place \in Slots
      BY <1>0, <1>5, TrayPlace DEF TrayClick, TypeOK
    <2>2. slots' = PlaceDigit(slots, place, d)
      BY <1>5 DEF TrayClick
    <2> HIDE DEF place
    <2>3. slots' \in SlotLists /\ slots' # <<>>
      BY <1>0, <2>1, <2>2, PlaceType DEF TypeOK
    <2>4. misfit' \in BOOLEAN
      BY <1>0, <1>5 DEF TrayClick, TypeOK
    <2> QED
      BY <1>5, <2>3, <2>4 DEF TrayClick, TypeInv, TypeOK, ListInv
  <1>6. ASSUME NEW d \in Digits, DragStart(d) PROVE TypeInv'
    BY <1>6 DEF DragStart, TypeInv, TypeOK, ListInv
  <1>7. ASSUME Backspace PROVE TypeInv'
    <2>1. CASE slots[cursor] \notin Digits /\ cursor > 1
      <3>1. cursor - 1 \in Slots /\ shown
        BY <1>0, <1>7, <2>1, InputType, CountType DEF Backspace
      <3>2. MoveFocus(cursor - 1) /\ RemoveDigit(cursor - 1)
        BY <1>7, <2>1 DEF Backspace
      <3>3. slots' \in SlotLists /\ slots' # <<>> /\ misfit' = misfit
        BY <3>1, <3>2, RemoveType
      <3>4. /\ {focused', cursor'} \subseteq Slots \cup {None}
            /\ blurs' \in 0 .. MaxBlurs
        BY <1>0, <3>1, <3>2, MoveType
      <3> QED
        BY <1>7, <3>3, <3>4 DEF Backspace, TypeInv, TypeOK, ListInv
    <2>2. CASE ~(slots[cursor] \notin Digits /\ cursor > 1)
      <3>1. slots' \in SlotLists /\ slots' # <<>> /\ misfit' = misfit
        BY <1>0, <1>7, <2>2, InputType, RemoveType DEF Backspace
      <3> QED
        BY <1>7, <2>2, <3>1 DEF Backspace, TypeInv, TypeOK, ListInv
    <2> QED
      BY <2>1, <2>2
  <1>8. ASSUME Revise PROVE TypeInv'
    <2>1. shown /\ count \in Slots
      BY <1>0, <1>8, CountType DEF Revise, ShowSubmit, ShowSlots, TypeOK
    <2>2. slots' \in SlotLists /\ slots' # <<>> /\ misfit' = misfit
      BY <1>8, <2>1, RemoveType DEF Revise
    <2> QED
      BY <1>8, <2>2 DEF Revise, TypeInv, TypeOK, ListInv
  <1>9. ASSUME Submit PROVE TypeInv'
    <2>1. ASSUME auth PROVE request'.digits \in Nat
      <3>1. request'.digits = GuessLength(slots)
        BY <1>9, <2>1 DEF Submit
      <3>2. Len(slots) \in Nat
        BY <1>0, ListType DEF TypeOK
      <3>3. IsFiniteSet(1 .. Len(slots))
        BY <3>2, FS_Interval
      <3>4. IsFiniteSet({i \in 1 .. Len(slots) : slots[i] \in Digits})
        BY <3>3, FS_Subset
      <3> QED
        BY <3>1, <3>4, FS_CardinalityType DEF GuessLength
    <2>2. request' # None => /\ request'.digits \in Nat
                             /\ request'.slots \in Counts
                             /\ request'.excused \in BOOLEAN
      BY <1>0, <1>9, <2>1 DEF Submit, Prompting, TypeOK
    <2>3. prompt' \in 0 .. Countdown
      BY <1>0, <1>9, EditorAssumption DEF Submit, TypeOK
    <2> QED
      BY <1>9, <2>2, <2>3 DEF Submit, TypeInv, TypeOK, ListInv
  <1>10. ASSUME Cancel PROVE TypeInv'
    <2>1. prompt' \in 0 .. Countdown
      BY <1>10, EditorAssumption DEF Cancel
    <2> QED
      BY <1>10, <2>1 DEF Cancel, TypeInv, TypeOK, ListInv
  <1>11. ASSUME ConfirmAuthRedirect PROVE TypeInv'
    <2>1. slots \in SlotLists /\ slots # <<>>
      BY <1>0, <1>11 DEF ConfirmAuthRedirect, TypeInv, TypeOK, ListInv
    <2>2. /\ saved' \in SlotLists /\ saved' # <<>>
          /\ \A i \in 1 .. Len(saved') : saved'[i] # Hole
          /\ leftWith' \in SlotLists
      BY <1>11, <2>1, StringifiedType DEF ConfirmAuthRedirect, SaveGuess
    <2>3. BoardType' /\ ~shown' /\ visits' \in Nat /\ day' \in Nat
      BY <1>0, <1>11, UnmountType DEF ConfirmAuthRedirect
    <2> QED
      BY <2>2, <2>3 DEF BoardType, TypeOK, ListInv, TypeInv
  <1> QED
    BY <1>1, <1>2, <1>3, <1>4, <1>5, <1>6, <1>7, <1>8, <1>9, <1>10, <1>11
    DEF Player

(* Timers, answers and the page                                            *)
LEMMA TypeNext == TypeInv /\ [Next]_vars => TypeInv'
  <1> SUFFICES ASSUME TypeInv, [Next]_vars PROVE TypeInv'
    OBVIOUS
  <1> USE DEF focus, board, tab
  <1>0. TypeOK
    BY DEF TypeInv
  <1>1. ASSUME Tick PROVE TypeInv'
    <2>1. prompt' \in 0 .. Countdown
      BY <1>0, <1>1, EditorAssumption DEF Tick, Prompting, TypeOK
    <2> QED
      BY <1>1, <2>1 DEF Tick, TypeInv, TypeOK, ListInv
  <1>2. ASSUME BlurTimer PROVE TypeInv'
    <2>1. blurs' \in 0 .. MaxBlurs
      BY <1>0, <1>2, EditorAssumption DEF BlurTimer, TypeOK
    <2> QED
      BY <1>2, <2>1 DEF BlurTimer, TypeInv, TypeOK, ListInv
  <1>3. ASSUME ShakeEnds PROVE TypeInv'
    <2>1. Head(shakes) \in Counts /\ shakes' \in Seq(Counts)
      BY <1>0, <1>3, HeadTailProperties DEF ShakeEnds, TypeOK
    <2>2. slots' \in SlotLists /\ slots' # <<>>
      BY <1>3, <2>1, EmptyType DEF ShakeEnds
    <2>3. misfit' \in BOOLEAN /\ cursor' \in Slots \cup {None}
      BY <1>0, <1>3 DEF ShakeEnds, KeepCursor, TypeOK
    <2> QED
      BY <1>3, <2>1, <2>2, <2>3 DEF ShakeEnds, TypeInv, TypeOK, ListInv
  <1>4. ASSUME NEW kind \in Kinds, Answered(kind) PROVE TypeInv'
    <2>1. prompt' \in 0 .. Countdown
      BY <1>0, <1>4, EditorAssumption DEF Answered, TypeOK
    <2>2. shakes' \in Seq(Counts)
      <3>1. request.slots \in Counts /\ shakes \in Seq(Counts)
        BY <1>0, <1>4 DEF Answered, TypeOK
      <3>2. shakes' = shakes \/ shakes' = Append(shakes, request.slots)
        BY <1>4 DEF Answered, TriggerError
      <3> QED
        BY <3>1, <3>2, AppendProperties
    <2>3. {won', spent', refreshing'} \subseteq BOOLEAN
      <3>1. won' \in BOOLEAN /\ refreshing' \in BOOLEAN
        BY <1>0, <1>4 DEF Answered, TypeOK
      <3>2. spent' \in BOOLEAN
        BY <1>0, <1>4 DEF Answered, TypeOK, Kinds
      <3> QED
        BY <3>1, <3>2
    <2>4. cursor' \in Slots \cup {None}
      BY <1>0, <1>4 DEF Answered, KeepCursor, TypeOK
    <2> QED
      BY <1>4, <2>1, <2>2, <2>3, <2>4
      DEF Answered, TypeInv, TypeOK, ListInv
  <1>5. ASSUME Rewarded \/ SolvedEvent \/ Midnight PROVE TypeInv'
    <2>1. CASE Rewarded
      BY <2>1 DEF Rewarded, TypeInv, TypeOK, ListInv
    <2>2. CASE SolvedEvent
      BY <2>2 DEF SolvedEvent, TypeInv, TypeOK, ListInv
    <2>3. CASE Midnight
      BY <2>3 DEF Midnight, TypeInv, TypeOK, ListInv
    <2> QED
      BY <1>5, <2>1, <2>2, <2>3
  <1>6. ASSUME NEW n \in Counts, NEW a \in BOOLEAN, Refreshed(a, n)
        PROVE  TypeInv'
    <2>1. cursor' \in Slots \cup {None}
      BY <1>0, <1>6 DEF Refreshed, KeepCursor, TypeOK
    <2>2. shown /\ slots \in SlotLists /\ slots # <<>>
      BY <1>6 DEF Refreshed, TypeInv, TypeOK, ListInv
    <2>3. /\ count' \in Counts /\ slots' \in SlotLists /\ slots' # <<>>
          /\ saved' \in {saved, None} /\ leftWith' \in {leftWith, None}
          /\ prompt' \in 0 .. Countdown
          /\ {auth', won', misfit'} \subseteq BOOLEAN
      <3>1. CASE a = auth /\ n = count
        <4>1. /\ UNCHANGED <<slots, saved, won, prompt, misfit, leftWith>>
              /\ auth' = a /\ count' = n
          BY <1>6, <3>1 DEF Refreshed, NewProps
        <4> QED
          BY <1>0, <2>2, <4>1 DEF TypeOK
      <3>2. CASE ~(a = auth /\ n = count) /\ ~a
        <4>1. /\ UNCHANGED <<slots, saved, won, prompt, leftWith>>
              /\ auth' = a /\ count' = n /\ misfit' = (misfit \/ n # count)
          BY <1>6, <3>2 DEF Refreshed, NewProps
        <4>2. misfit' \in BOOLEAN
          BY <1>0, <4>1 DEF TypeOK
        <4> QED
          BY <1>0, <2>2, <4>1, <4>2 DEF TypeOK
      <3>3. CASE ~(a = auth /\ n = count) /\ a
        <4>1. /\ slots' = IF saved # None THEN saved ELSE Empty(n)
              /\ saved' = None /\ leftWith' = None
              /\ won' = FALSE /\ prompt' = 0
              /\ misfit' \in BOOLEAN /\ auth' = a /\ count' = n
          BY <1>6, <3>3 DEF Refreshed, NewProps
        <4>2. slots' \in SlotLists /\ slots' # <<>>
          BY <4>1, EmptyType DEF TypeInv, TypeOK, ListInv
        <4>3. prompt' \in 0 .. Countdown
          BY <4>1, EditorAssumption
        <4>4. {auth', won', misfit'} \subseteq BOOLEAN
          BY <4>1
        <4> QED
          BY <4>1, <4>2, <4>3, <4>4
      <3> QED
        BY <3>1, <3>2, <3>3
    <2>4. spent' \in BOOLEAN
      BY <1>0, <1>6 DEF Refreshed, TypeOK
    <2> QED
      BY <1>6, <2>1, <2>3, <2>4 DEF Refreshed, TypeInv, TypeOK, ListInv
  <1>7. ASSUME NEW n \in Counts, NEW a \in BOOLEAN, Return(a, n)
        PROVE  TypeInv'
    <2>1. slots' \in SlotLists /\ slots' # <<>>
      BY <1>7, EmptyType DEF Return, Mounted, TypeInv, TypeOK, ListInv
    <2>2. shakes' \in Seq(Counts)
      BY <1>7, EmptySeq DEF Return, Mounted
    <2>3. blurs' \in 0 .. MaxBlurs /\ prompt' \in 0 .. Countdown
      <3>1. blurs' = 0 /\ prompt' = 0
        BY <1>7 DEF Return, Mounted
      <3> QED
        BY <3>1, EditorAssumption
    <2>4. /\ {shown', auth', won', spent', misfit', refreshing'}
                \subseteq BOOLEAN
          /\ saved' \in {saved, None} /\ leftWith' \in {leftWith, None}
      BY <1>7 DEF Return, Mounted
    <2> QED
      BY <1>7, <2>1, <2>2, <2>3, <2>4
      DEF Return, Mounted, TypeInv, TypeOK, ListInv
  <1>8. ASSUME Leave PROVE TypeInv'
    <2>1. BoardType' /\ ~shown' /\ visits' \in Nat /\ day' \in Nat
      BY <1>0, <1>8, UnmountType DEF Leave
    <2> QED
      BY <1>8, <2>1 DEF Leave, BoardType, TypeInv, TypeOK, ListInv
  <1>9. ASSUME Logout PROVE TypeInv'
    BY <1>9 DEF Logout, TypeInv, TypeOK, ListInv
  <1>10. ASSUME UNCHANGED vars PROVE TypeInv'
    BY <1>10 DEF vars, TypeInv, TypeOK, ListInv
  <1> QED
    BY <1>1, <1>2, <1>3, <1>4, <1>5, <1>6, <1>7, <1>8, <1>9, <1>10,
       PlayerType
    DEF Next

LEMMA TypeInvHolds == Spec => []TypeInv
  BY TypeInit, TypeNext, PTL DEF Spec

(* Every variable keeps its type: no list of slots is longer than the      *)
(* longest challenge, whichever index a late handler assigns.              *)
THEOREM TypeHolds == Spec => []TypeOK
  <1>1. TypeInv => TypeOK
    BY DEF TypeInv
  <1> QED
    BY <1>1, TypeInvHolds, PTL

-----------------------------------------------------------------------------
(* The board fits its challenge.                                           *)

Fits(s, n) == Len(s) = n /\ \A i \in 1 .. n : s[i] # Hole

LEMMA PlaceFits ==
  ASSUME NEW s \in SlotLists, NEW n \in Counts, Fits(s, n),
         NEW i \in 1 .. Len(s), NEW d \in Values, d # Hole
  PROVE  Fits(PlaceDigit(s, i, d), n)
  <1>1. Len(s) \in Nat /\ Len(s) <= MostSlots
    BY ListType
  <1>2. i \in Slots
    BY <1>1, CountType
  <1> QED
    BY <1>2, PlaceType DEF Fits

LEMMA RemoveFits ==
  ASSUME TypeInv, GuessFits, shown, NEW i \in Slots, RemoveDigit(i),
         ~misfit => i \in 1 .. Len(slots)
  PROVE  ~misfit' => Fits(slots', count)
  <1>1. slots \in SlotLists /\ count \in Counts /\ Null \in Values
    BY DEF TypeInv, TypeOK, Values
  <1>2. ~misfit => Fits(slots, count)
    BY DEF GuessFits, Fits
  <1>3. CASE won \/ Prompting
    BY <1>2, <1>3 DEF RemoveDigit
  <1>4. CASE ~(won \/ Prompting)
    <2>1. slots' = PlaceDigit(slots, i, Null) /\ misfit' = misfit
      BY <1>4 DEF RemoveDigit
    <2> QED
      BY <1>1, <1>2, <2>1, PlaceFits, EditorAssumption
  <1> QED
    BY <1>3, <1>4

(* A complete board without holes sends one digit per slot.                *)
LEMMA CompleteLength ==
  ASSUME NEW s \in SlotLists, NEW n \in Counts, Fits(s, n), IsComplete(s)
  PROVE  GuessLength(s) = n
  <1>1. Len(s) = n /\ n \in Nat
    BY CountType DEF Fits
  <1>2. \A i \in 1 .. Len(s) : s[i] \in Digits
    <2>1. \A i \in 1 .. Len(s) : s[i] \in Values
      BY ListType
    <2> QED
      BY <1>1, <2>1 DEF Fits, IsComplete, Empties, Values
  <1>3. {i \in 1 .. Len(s) : s[i] \in Digits} = 1 .. n
    BY <1>1, <1>2
  <1>4. Cardinality(1 .. n) = n
    BY <1>1, FS_Interval
  <1> QED
    BY <1>3, <1>4 DEF GuessLength

LEMMA FitsInit == Init => GuessFits
  BY EmptyType DEF Init, GuessFits

LEMMA FitsNext == TypeInv /\ GuessFits /\ [Next]_vars => GuessFits'
  <1> SUFFICES ASSUME TypeInv, GuessFits, [Next]_vars PROVE GuessFits'
    OBVIOUS
  <1> USE DEF focus, board, tab
  <1>0. /\ TypeOK /\ slots \in SlotLists /\ count \in Counts
        /\ Digits \subseteq Values /\ Hole \notin Digits
        /\ shown /\ ~misfit => Fits(slots, count)
        /\ count \in Slots /\ Len(slots) \in Nat
    BY EditorAssumption, CountType, ListType
    DEF TypeInv, TypeOK, GuessFits, Fits, Values
  <1> DEFINE BoardFits == shown /\ ~misfit => Fits(slots, count)
             SentFits  == request # None /\ ~request.excused =>
                             request.digits = request.slots
  <1>a. BoardFits' /\ SentFits' => GuessFits'
    BY DEF GuessFits, Fits
  <1>b. UNCHANGED request \/ request' = None => SentFits'
    BY DEF GuessFits
  <1>c. UNCHANGED <<shown, misfit, slots, count>> => BoardFits'
    BY <1>0 DEF Fits
  <1>1. ASSUME NEW i \in Slots \cup {None}, ClickSlot(i) PROVE GuessFits'
    <2>1. i \in Slots /\ i \in 1 .. Len(slots) /\ shown
      BY <1>0, <1>1, InputType DEF ClickSlot
    <2>2. RemoveDigit(i) /\ UNCHANGED <<count, request>>
      BY <1>1 DEF ClickSlot
    <2>3. BoardFits'
      BY <2>1, <2>2, RemoveFits
    <2> QED
      BY <1>a, <1>b, <2>2, <2>3
  <1>2. ASSUME NEW i \in Slots \cup {None}, DragEnd(i) PROVE GuessFits'
    <2>1. UNCHANGED <<shown, misfit, count, request>>
      BY <1>2 DEF DragEnd
    <2>2. BoardFits'
      <3>1. CASE i \in Inputs /\ ~Prompting
        <4>1. i \in 1 .. Len(slots) /\ drag \in Digits /\ shown
          BY <1>0, <1>2, <3>1, InputType DEF DragEnd, TypeOK
        <4>2. slots' = PlaceDigit(slots, i, drag)
          BY <1>2, <3>1 DEF DragEnd
        <4> QED
          BY <1>0, <2>1, <4>1, <4>2, PlaceFits
      <3>2. CASE ~(i \in Inputs /\ ~Prompting)
        BY <1>2, <1>c, <3>2 DEF DragEnd
      <3> QED
        BY <3>1, <3>2
    <2> QED
      BY <1>a, <1>b, <2>1, <2>2
  <1>3. ASSUME NEW k \in Digits \cup OtherKeys, Type(k) PROVE GuessFits'
    <2>1. UNCHANGED <<shown, misfit, count, request>>
      BY <1>3 DEF Type
    <2>2. BoardFits'
      <3>1. CASE Prompting \/ k \notin Digits
        BY <1>3, <1>c, <2>1, <3>1 DEF Type
      <3>2. CASE ~(Prompting \/ k \notin Digits)
        <4>1. cursor \in 1 .. Len(slots) /\ shown
          BY <1>0, <1>3, InputType DEF Type
        <4>2. slots' = PlaceDigit(slots, cursor, k)
          BY <1>3, <3>2 DEF Type
        <4> QED
          BY <1>0, <2>1, <3>2, <4>1, <4>2, PlaceFits
      <3> QED
        BY <3>1, <3>2
    <2> QED
      BY <1>a, <1>b, <2>1, <2>2
  <1>4. ASSUME NEW d \in Digits, TrayClick(d) PROVE GuessFits'
    <2> DEFINE place == IF focused # None THEN focused
                        ELSE First(Empties(slots))
    <2>1. slots' = PlaceDigit(slots, place, d) /\ UNCHANGED <<count, request>>
      BY <1>4 DEF TrayClick
    <2>2. ShowTray /\ shown /\ shown'
      BY <1>4 DEF TrayClick, ShowTray, ShowSlots
    <2>3. ~misfit' => ~misfit /\ (focused = None \/ ~(focused > count))
      BY <1>0, <1>4 DEF TrayClick, TypeOK
    <2>4. ASSUME ~misfit' PROVE place \in 1 .. Len(slots)
      <3>1. CASE focused # None
        <4>1. focused \in Slots /\ ~(focused > count) /\ Len(slots) = count
          BY <1>0, <2>2, <2>3, <2>4, <3>1 DEF TypeOK, Fits
        <4> QED
          BY <1>0, <3>1, <4>1, CountType
      <3>2. CASE focused = None
        BY <2>2, <3>2, TrayPlace
      <3> QED
        BY <3>1, <3>2
    <2> HIDE DEF place
    <2>5. BoardFits'
      BY <1>0, <2>1, <2>2, <2>3, <2>4, PlaceFits
    <2> QED
      BY <1>a, <1>b, <2>1, <2>5
  <1>5. ASSUME Backspace PROVE GuessFits'
    <2>1. /\ cursor \in 1 .. Len(slots) /\ cursor \in Slots /\ shown
          /\ UNCHANGED <<shown, count, request>>
      BY <1>0, <1>5, InputType DEF Backspace
    <2>2. PICK i \in {cursor, cursor - 1} :
             i \in 1 .. Len(slots) /\ RemoveDigit(i)
      BY <1>0, <1>5, <2>1 DEF Backspace
    <2>3. i \in Slots
      BY <1>0, <2>1, <2>2, CountType
    <2>4. BoardFits'
      BY <2>1, <2>2, <2>3, RemoveFits
    <2> QED
      BY <1>a, <1>b, <2>1, <2>4
  <1>6. ASSUME Revise PROVE GuessFits'
    <2>1. shown /\ RemoveDigit(count) /\ UNCHANGED <<shown, count, request>>
      BY <1>6 DEF Revise, ShowSubmit, ShowSlots
    <2>2. ~misfit => count \in 1 .. Len(slots)
      BY <1>0, <2>1, CountType DEF Fits
    <2>3. BoardFits'
      BY <1>0, <2>1, <2>2, RemoveFits
    <2> QED
      BY <1>a, <1>b, <2>1, <2>3
  <1>7. ASSUME Submit PROVE GuessFits'
    <2>1. SentFits'
      <3>1. CASE auth
        <4>1. request' = [digits |-> GuessLength(slots), slots |-> count,
                          excused |-> Prompting \/ misfit]
          BY <1>7, <3>1 DEF Submit
        <4>2. ASSUME ~Prompting, ~misfit PROVE GuessLength(slots) = count
          <5>1. shown /\ IsComplete(slots)
            BY <1>7, <4>2 DEF Submit, ShowSubmit, ShowSlots
          <5> QED
            BY <1>0, <4>2, <5>1, CompleteLength
        <4> QED
          BY <4>1, <4>2
      <3>2. CASE ~auth
        BY <1>7, <1>b, <3>2 DEF Submit
      <3> QED
        BY <3>1, <3>2
    <2> QED
      BY <1>7, <1>a, <1>c, <2>1 DEF Submit
  <1>8. ASSUME ShakeEnds PROVE GuessFits'
    <2>1. Head(shakes) \in Counts
      BY <1>0, <1>8, HeadTailProperties DEF ShakeEnds, TypeOK
    <2>2. BoardFits'
      BY <1>8, <2>1, EmptyType DEF ShakeEnds, Fits
    <2> QED
      BY <1>8, <1>a, <1>b, <2>2 DEF ShakeEnds
  <1>9. ASSUME NEW n \in Counts, NEW a \in BOOLEAN, Refreshed(a, n)
        PROVE  GuessFits'
    <2>1. BoardFits'
      <3>1. CASE a = auth /\ n = count
        BY <1>9, <1>c, <3>1 DEF Refreshed, NewProps
      <3>2. CASE ~(a = auth /\ n = count) /\ ~a
        BY <1>0, <1>9, <3>2 DEF Refreshed, NewProps, Fits
      <3>3. CASE ~(a = auth /\ n = count) /\ a
        <4>1. /\ slots' = IF saved # None THEN saved ELSE Empty(n)
              /\ misfit' = (Len(slots') # n) /\ count' = n
          BY <1>9, <3>3 DEF Refreshed, NewProps
        <4> QED
          BY <4>1, EmptyType DEF Fits, TypeInv, ListInv
      <3> QED
        BY <3>1, <3>2, <3>3
    <2> QED
      BY <1>9, <1>a, <1>b, <2>1 DEF Refreshed
  <1>10. ASSUME NEW n \in Counts, NEW a \in BOOLEAN, Return(a, n)
         PROVE  GuessFits'
    <2>1. /\ slots' = IF a /\ saved # None THEN saved ELSE Empty(n)
          /\ misfit' = (Len(slots') # n) /\ count' = n /\ request' = None
      BY <1>10 DEF Return, Mounted
    <2>2. BoardFits'
      BY <2>1, EmptyType DEF Fits, TypeInv, ListInv
    <2> QED
      BY <1>a, <1>b, <2>1, <2>2
  <1>11. ASSUME Leave \/ ConfirmAuthRedirect PROVE GuessFits'
    <2>1. ~shown' /\ request' = None
      BY <1>11 DEF Leave, ConfirmAuthRedirect, Unmount
    <2> QED
      BY <1>a, <1>b, <2>1
  <1>12. ASSUME \/ \E i \in Slots \cup {None} : FocusSlot(i)
                \/ \E d \in Digits : DragStart(d)
                \/ Cancel \/ Tick \/ BlurTimer
                \/ \E kind \in Kinds : Answered(kind)
                \/ Rewarded \/ SolvedEvent \/ Midnight \/ Logout
                \/ UNCHANGED vars
         PROVE  GuessFits'
    <2>1. /\ UNCHANGED <<shown, misfit, slots, count>>
          /\ UNCHANGED request \/ request' = None
      BY <1>12 DEF FocusSlot, DragStart, Cancel, Tick, BlurTimer, Answered,
                   Rewarded, SolvedEvent, Midnight, Logout, vars
    <2> QED
      BY <1>a, <1>b, <1>c, <2>1
  <1> QED
    BY <1>1, <1>2, <1>3, <1>4, <1>5, <1>6, <1>7, <1>8, <1>9, <1>10, <1>11,
       <1>12
    DEF Next, Player

(* A board that is no misfit has one slot per digit of its challenge and   *)
(* no hole, and a guess sent outside the prompt has one digit per slot,    *)
(* whatever the player and the timers do in whatever order: for every set  *)
(* of digits and every choice of lengths.                                  *)
THEOREM GuessFitsHolds == Spec => []GuessFits
  <1>1. Init => GuessFits
    BY FitsInit
  <1>2. TypeInv /\ GuessFits /\ [Next]_vars => GuessFits'
    BY FitsNext
  <1> QED
    BY <1>1, <1>2, TypeInvHolds, PTL DEF Spec

-----------------------------------------------------------------------------
(* The guess survives the login.                                           *)

(* Only a page load shows the board again.                                 *)
LEMMA Reappears ==
  ASSUME [Next]_vars, ~shown, shown'
  PROVE  \E n \in Counts, a \in BOOLEAN : Return(a, n)
  BY DEF Next, Player, FocusSlot, ClickSlot, DragEnd, Type, TrayClick,
         DragStart, Backspace, Revise, Submit, Cancel, ConfirmAuthRedirect,
         Tick, BlurTimer, ShakeEnds, Answered, Rewarded, SolvedEvent,
         Midnight, Refreshed, Leave, Logout, Inputs, ShowSlots, ShowTray,
         ShowSubmit, Unmount, vars, tab

LEMMA KeptInit == Init => KeptInv
  BY DEF Init, KeptInv

LEMMA KeptNext == TypeInv /\ KeptInv /\ [Next]_vars => KeptInv'
  <1> SUFFICES ASSUME TypeInv, KeptInv, [Next]_vars PROVE KeptInv'
    OBVIOUS
  <1>1. ASSUME ConfirmAuthRedirect PROVE KeptInv'
    BY <1>1 DEF ConfirmAuthRedirect, SaveGuess, Unmount, KeptInv
  <1>2. ASSUME Leave PROVE KeptInv'
    BY <1>2 DEF Leave, Unmount, KeptInv
  <1>3. ASSUME Logout PROVE KeptInv'
    BY <1>3 DEF Logout, KeptInv
  <1>4. ASSUME NEW n \in Counts, NEW a \in BOOLEAN, Refreshed(a, n)
        PROVE  KeptInv'
    BY <1>4 DEF Refreshed, NewProps, KeptInv
  <1>5. ASSUME NEW n \in Counts, NEW a \in BOOLEAN, Return(a, n)
        PROVE  KeptInv'
    BY <1>5 DEF Return, Mounted, KeptInv
  <1>6. ASSUME \/ \E i \in Slots \cup {None} :
                     FocusSlot(i) \/ ClickSlot(i) \/ DragEnd(i)
               \/ \E k \in Digits \cup OtherKeys : Type(k)
               \/ \E d \in Digits : TrayClick(d) \/ DragStart(d)
               \/ Backspace \/ Revise \/ Submit \/ Cancel
               \/ Tick \/ BlurTimer \/ ShakeEnds
               \/ \E kind \in Kinds : Answered(kind)
               \/ Rewarded \/ SolvedEvent \/ Midnight
               \/ UNCHANGED vars
        PROVE  KeptInv'
    <2>1. UNCHANGED <<shown, auth, saved, leftWith>>
      BY <1>6 DEF FocusSlot, ClickSlot, DragEnd, Type, TrayClick, DragStart,
                  Backspace, Revise, Submit, Cancel, Tick, BlurTimer,
                  ShakeEnds, Answered, Rewarded, SolvedEvent, Midnight, vars,
                  tab, board
    <2> QED
      BY <2>1 DEF KeptInv
  <1> QED
    BY <1>1, <1>2, <1>3, <1>4, <1>5, <1>6 DEF Next, Player

LEMMA SurvivesStep ==
  ASSUME KeptInv, [Next]_vars
  PROVE  [~shown /\ shown' /\ auth' /\ leftWith # None =>
             slots' = leftWith]_vars
  <1> SUFFICES ASSUME ~shown, shown', auth', leftWith # None
               PROVE  slots' = leftWith
    OBVIOUS
  <1>1. PICK n \in Counts, a \in BOOLEAN : Return(a, n)
    BY Reappears
  <1>2. slots' = IF a /\ saved # None THEN saved ELSE Empty(n)
    BY <1>1 DEF Return, Mounted
  <1>3. a /\ saved = leftWith
    BY <1>1 DEF Return, Mounted, KeptInv
  <1> QED
    BY <1>2, <1>3

(* The board that opens after the login shows the guess the player left    *)
(* with, through every page load, refresh, prompt and midnight in between. *)
THEOREM GuessSurvivesLoginHolds == Spec => GuessSurvivesLogin
  <1>1. Init => KeptInv
    BY KeptInit
  <1>2. TypeInv /\ KeptInv /\ [Next]_vars => KeptInv'
    BY KeptNext
  <1>3. KeptInv /\ [Next]_vars =>
           [~shown /\ shown' /\ auth' /\ leftWith # None =>
               slots' = leftWith]_vars
    BY SurvivesStep
  <1> QED
    BY <1>1, <1>2, <1>3, TypeInvHolds, PTL DEF Spec, GuessSurvivesLogin

-----------------------------------------------------------------------------
(* The prompt                                                              *)

LEMMA FrozenStep ==
  ASSUME TypeInv, [Next]_vars
  PROVE  [Prompting /\ prompt' > 0 /\ shakes' = shakes =>
             slots' = slots]_vars
  <1> SUFFICES ASSUME Prompting, prompt' > 0, shakes' = shakes
               PROVE  slots' = slots
    OBVIOUS
  <1>1. ~ShakeEnds
    <2> SUFFICES ASSUME ShakeEnds PROVE FALSE
      OBVIOUS
    <2>1. shakes \in Seq(Counts) /\ shakes # <<>> /\ shakes' = Tail(shakes)
      BY DEF ShakeEnds, TypeInv, TypeOK
    <2>2. Len(shakes') = Len(shakes) - 1 /\ Len(shakes) \in Nat
      BY <2>1, HeadTailProperties
    <2> QED
      BY <2>2
  <1>2. ASSUME NEW n \in Counts, NEW a \in BOOLEAN, Refreshed(a, n)
        PROVE  slots' = slots
    BY <1>2 DEF Refreshed, NewProps
  <1>3. ASSUME NEW n \in Counts, NEW a \in BOOLEAN, Return(a, n)
        PROVE  slots' = slots
    <2>1. prompt' = 0
      BY <1>3 DEF Return, Mounted
    <2> QED
      BY <2>1
  <1>4. ASSUME ConfirmAuthRedirect \/ Leave PROVE slots' = slots
    <2>1. prompt' = 0
      BY <1>4 DEF ConfirmAuthRedirect, Leave, Unmount
    <2> QED
      BY <2>1
  <1>5. ASSUME \/ \E i \in Slots \cup {None} : ClickSlot(i) \/ DragEnd(i)
               \/ \E k \in Digits \cup OtherKeys : Type(k)
               \/ \E d \in Digits : TrayClick(d)
               \/ Backspace \/ Revise
        PROVE  slots' = slots
    BY <1>5 DEF ClickSlot, DragEnd, Type, TrayClick, ShowTray, Backspace,
                Revise, RemoveDigit
  <1>6. ASSUME \/ \E i \in Slots \cup {None} : FocusSlot(i)
               \/ \E d \in Digits : DragStart(d)
               \/ Submit \/ Cancel \/ Tick \/ BlurTimer
               \/ \E kind \in Kinds : Answered(kind)
               \/ Rewarded \/ SolvedEvent \/ Midnight \/ Logout
               \/ UNCHANGED vars
        PROVE  slots' = slots
    BY <1>6 DEF FocusSlot, DragStart, Submit, Cancel, Tick, BlurTimer,
                Answered, Rewarded, SolvedEvent, Midnight, Logout, vars
  <1> QED
    BY <1>1, <1>2, <1>3, <1>4, <1>5, <1>6 DEF Next, Player

(* Under an open login prompt no key, button, drag or refresh changes the  *)
(* guess that is to be saved: only a shake timer still wipes it.           *)
THEOREM FrozenWhilePromptedHolds == Spec => FrozenWhilePrompted
  <1>1. TypeInv /\ [Next]_vars =>
           [Prompting /\ prompt' > 0 /\ shakes' = shakes =>
               slots' = slots]_vars
    BY FrozenStep
  <1> QED
    BY <1>1, TypeInvHolds, PTL DEF Spec, FrozenWhilePrompted
=============================================================================
