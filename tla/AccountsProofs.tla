--------------------------- MODULE AccountsProofs ---------------------------
(***************************************************************************)
(* The safety properties of Accounts for every set of browsers and every   *)
(* finite set of handlers, every limit and every value of the bounds.      *)
(***************************************************************************)
EXTENDS Accounts, FiniteSetTheorems, TLAPS

(* A browser waits for one request at a time.                              *)
OneRequest ==
    \A g, h \in Handlers :
        /\ call[g].at # "idle" /\ call[h].at # "idle"
        /\ call[g].by = call[h].by /\ call[g].by # None
        => g = h

(* The form that a browser shows while it waits is the one that made the   *)
(* request, and a request that was made with a code is about the           *)
(* registration of that form, which is the browser's own.                  *)
FormOf(h) ==
    LET b == call[h].by IN
    call[h].at # "idle" /\ b # None =>
        /\ call[h].at \in {"findUser", "deletePrior", "insert"}
              => call[h].owner = b
        /\ call[h].at \in {"findUser", "deletePrior", "insert", "enqueue",
                           "checkPassword", "findGoogle", "createGoogle"}
              => form[b] = "other"
        /\ call[h].at = "enqueue" /\ pending # None /\ pending.id = call[h].id
              => pending.owner = b
        /\ call[h].at = "readPending"
              => form[b] = "otp" /\ regId[b] = call[h].id
        /\ call[h].at = "createUser" => call[h].owner = b
        /\ call[h].at = "dropPending" => user # None /\ user.owner = b
        /\ call[h].at = "mint" /\ form[b] = "otp"
              => user # None /\ user.owner = b

OwnRegistration ==
    \A b \in Browsers :
        form[b] = "otp" /\ pending # None /\ pending.id = regId[b]
            => pending.owner = b

(* A code that fits was mailed.                                            *)
MailedCode ==
    \A h \in Handlers : call[h].at = "createUser" => call[h].id \in mailbox

ProvenInv ==
    /\ OneRequest /\ \A h \in Handlers : FormOf(h)
    /\ OwnRegistration /\ MailedCode /\ AccountIsProven

(* The handlers that are about to count a wrong code of the row; each has  *)
(* read a count that was below the limit.                                  *)
Counting ==
    {h \in Handlers : call[h].at = "countWrong" /\ call[h].id = pending.id}

WrongInv ==
    pending # None =>
        pending.wrong + Cardinality(Counting)
            <= MaxWrong + Cardinality(Handlers) - 1

(* The code of every form that asks for one is under way.                  *)
OnItsWay(id) == id \in mailbox \cup lost \/ \E m \in queue : m.code = id

MailInv == \A b \in Browsers : form[b] = "otp" => OnItsWay(regId[b])

-----------------------------------------------------------------------------
(* What a handler may know only grows.                                     *)
LEMMA CallsGrow ==
  ASSUME issued \in Nat, issued' \in Nat, issued <= issued',
         mailbox \subseteq mailbox'
  PROVE  Calls \subseteq Calls'
  <1>1. 1 .. issued \subseteq 1 .. issued'
    OBVIOUS
  <1>2. mailbox \cup {0} \subseteq mailbox' \cup {0}
    OBVIOUS
  <1> QED
    BY <1>1, <1>2 DEF Calls

LEMMA TypeInit == Init => TypeOK
  BY AccountsAssumption DEF Init, TypeOK, Calls

(* A handler's request, by what it is doing                                *)
LEMMA CallFields ==
  ASSUME TypeOK, NEW h \in Handlers
  PROVE  LET c == call[h] IN
         /\ c.at # "idle" => c.by \in Browsers \cup {None}
         /\ c.at \in {"findUser", "deletePrior", "insert", "checkPassword",
                      "createUser", "countWrong", "dropPending"}
               => c.owner \in Browsers
         /\ c.at \in {"enqueue", "readPending", "createUser", "countWrong",
                      "dropPending"} => c.id \in 1 .. issued
         /\ c.at = "readPending" => c.code \in mailbox \cup {0}
  <1>1. call[h] \in Calls
    BY DEF TypeOK
  <1> QED
    BY <1>1 DEF Calls, Idle

(* An answer that is not waited for, and the next statement of a handler   *)
LEMMA Unheard ==
  ASSUME NEW c \in Calls, c.at # "idle"
  PROVE  [c EXCEPT !.by = None] \in Calls
  BY DEF Calls, Idle

LEMMA NextLabel ==
  ASSUME NEW c \in Calls
  PROVE  /\ c.at \in {"findUser", "deletePrior"} =>
               /\ [c EXCEPT !.at = "deletePrior"] \in Calls
               /\ [c EXCEPT !.at = "insert"] \in Calls
         /\ c.at = "createUser" => [c EXCEPT !.at = "dropPending"] \in Calls
         /\ c.at = "dropPending" => [c EXCEPT !.at = "mint"] \in Calls
         /\ c.at = "checkPassword" => [c EXCEPT !.at = "mint"] \in Calls
         /\ c.at \in {"findGoogle", "createGoogle"} =>
               /\ [c EXCEPT !.at = "mint"] \in Calls
               /\ [c EXCEPT !.at = "createGoogle"] \in Calls
  <1> USE DEF Calls, Idle
  <1>1. ASSUME c.at \in {"findUser", "deletePrior"}
        PROVE  /\ [c EXCEPT !.at = "deletePrior"] \in Calls
               /\ [c EXCEPT !.at = "insert"] \in Calls
    BY <1>1
  <1>2. ASSUME c.at = "createUser"
        PROVE  [c EXCEPT !.at = "dropPending"] \in Calls
    BY <1>2
  <1>3. ASSUME c.at = "dropPending" PROVE [c EXCEPT !.at = "mint"] \in Calls
    BY <1>3
  <1>4. ASSUME c.at = "checkPassword" PROVE [c EXCEPT !.at = "mint"] \in Calls
    BY <1>4
  <1>5. ASSUME c.at \in {"findGoogle", "createGoogle"}
        PROVE  /\ [c EXCEPT !.at = "mint"] \in Calls
               /\ [c EXCEPT !.at = "createGoogle"] \in Calls
    BY <1>5
  <1> HIDE DEF Calls, Idle
  <1> QED
    BY <1>1, <1>2, <1>3, <1>4, <1>5, Zenon

(* The row of a registration when it is counted or expires                 *)
LEMMA RowChanges ==
  ASSUME NEW r \in Registrations
  PROVE  /\ [r EXCEPT !.wrong = @ + 1] \in Registrations
         /\ [r EXCEPT !.expired = TRUE] \in Registrations
         /\ [r EXCEPT !.wrong = @ + 1].id = r.id
         /\ [r EXCEPT !.expired = TRUE].id = r.id
  <1>1. [r EXCEPT !.wrong = @ + 1] \in Registrations
    BY DEF Registrations
  <1>2. [r EXCEPT !.expired = TRUE] \in Registrations
    BY DEF Registrations
  <1>3. [r EXCEPT !.wrong = @ + 1].id = r.id
    BY DEF Registrations
  <1>4. [r EXCEPT !.expired = TRUE].id = r.id
    BY DEF Registrations
  <1> QED
    BY <1>1, <1>2, <1>3, <1>4, Zenon

LEMMA TypeNext == TypeOK /\ [Next]_vars => TypeOK'
  <1> SUFFICES ASSUME TypeOK, [Next]_vars PROVE TypeOK'
    OBVIOUS
  <1> USE AccountsAssumption, CallFields
      DEF TypeOK, tables, mail, client, Fault, Dropped, Goto, AnswerError
  <1>idle. Idle \in Calls
    BY DEF Calls
  <1>1. ASSUME NEW b \in Browsers, Open(b) PROVE TypeOK'
    <2>1. \A h \in Handlers : call'[h] \in Calls
      BY <1>1, Unheard DEF Open
    <2>2. call' \in [Handlers -> Calls]
      BY <1>1, <2>1 DEF Open
    <2>3. Calls' = Calls
      BY <1>1 DEF Open, Calls
    <2> QED
      BY <1>1, <2>2, <2>3 DEF Open
  <1>2. ASSUME NEW b \in Browsers, NEW r \in Calls, Request(b, r)
        PROVE  TypeOK'
    <2>1. Calls' = Calls
      BY <1>2 DEF Request, Calls
    <2> QED
      BY <1>2, <2>1 DEF Request
  <1>3. ASSUME NEW b \in Browsers, Submit(b) PROVE TypeOK'
    <2>1. \E r \in Calls : Request(b, r)
      BY <1>3 DEF Submit, SubmitRegister, SubmitLogin, SignInWithGoogle,
         SubmitLogout, SubmitCode, CanVerify, Calls
    <2> QED
      BY <1>2, <2>1
  <1>4. ASSUME NEW h \in Handlers,
               FindUser(h) \/ DeletePrior(h) \/ CreateUser(h) \/ DropPending(h)
                  \/ CheckPassword(h) \/ FindGoogle(h) \/ CreateGoogle(h)
        PROVE  TypeOK'
    <2>1. \E r \in Calls : call' = [call EXCEPT ![h] = r]
      BY <1>4, <1>idle, NextLabel
         DEF FindUser, DeletePrior, CreateUser, DropPending, CheckPassword,
             FindGoogle, CreateGoogle
    <2>2. Calls' = Calls
      BY <1>4 DEF Calls, FindUser, DeletePrior, CreateUser, DropPending,
         CheckPassword, FindGoogle, CreateGoogle
    <2>3. call' \in [Handlers -> Calls']
      BY <2>1, <2>2
    <2>4. user' \in {None} \cup Users
      BY <1>4 DEF FindUser, DeletePrior, CreateUser, DropPending,
         CheckPassword, FindGoogle, CreateGoogle, Users
    <2>5. /\ pending' \in {None, pending} /\ faults' \in Nat
          /\ UNCHANGED <<issued, mail, client, calls>>
      BY <1>4 DEF FindUser, FindGoogle, NotFound, DeletePrior, CreateUser,
         DropPending, CheckPassword, CreateGoogle
    <2> QED
      BY <2>3, <2>4, <2>5
  <1>5. ASSUME NEW h \in Handlers, Insert(h) PROVE TypeOK'
    <2>1. CASE pending # None
      <3>1. Calls' = Calls
        BY <1>5, <2>1 DEF Insert, Calls
      <3> QED
        BY <1>5, <1>idle, <2>1, <3>1 DEF Insert
    <2>2. CASE pending = None
      <3> DEFINE r == [at |-> "enqueue", by |-> call[h].by, id |-> issued']
      <3>1. issued' = issued + 1 /\ mailbox' = mailbox
        BY <1>5, <2>2 DEF Insert
      <3>2. r \in Calls'
        BY <1>5, <3>1 DEF Insert, Calls
      <3>3. call' \in [Handlers -> Calls']
        <4>1. call' = [call EXCEPT ![h] = r]
          BY <1>5, <2>2 DEF Insert
        <4>2. Calls \subseteq Calls'
          BY <3>1, CallsGrow
        <4> HIDE DEF r
        <4> QED
          BY <4>1, <4>2, <3>2
      <3>4. pending' \in Registrations /\ pending'.id = issued'
        <4>1. /\ pending' = [id |-> issued', owner |-> call[h].owner,
                             wrong |-> 0, expired |-> FALSE]
              /\ call[h].at = "insert"
          BY <1>5, <2>2 DEF Insert
        <4>2. call[h].owner \in Browsers /\ issued' \in Nat
          BY <3>1, <4>1
        <4> QED
          BY <4>1, <4>2 DEF Registrations
      <3>5. 1 .. issued \subseteq 1 .. issued' /\ issued' \in 1 .. issued'
        BY <3>1
      <3> QED
        BY <1>5, <2>2, <3>1, <3>3, <3>4, <3>5 DEF Insert
    <2> QED
      BY <2>1, <2>2
  <1>6. ASSUME NEW h \in Handlers, Enqueue(h) PROVE TypeOK'
    <2>1. Calls' = Calls
      BY <1>6 DEF Enqueue, Calls
    <2> QED
      BY <1>6, <1>idle, <2>1 DEF Enqueue, AnswerRegistered
  <1>7. ASSUME NEW h \in Handlers, ReadPending(h) PROVE TypeOK'
    <2>1. \E r \in Calls : call' = [call EXCEPT ![h] = r]
      BY <1>7, <1>idle DEF ReadPending, Calls, Registrations
    <2>2. Calls' = Calls
      BY <1>7 DEF ReadPending, Calls
    <2> QED
      BY <1>7, <2>1, <2>2 DEF ReadPending
  <1>8. ASSUME NEW h \in Handlers, CountWrong(h) PROVE TypeOK'
    <2>1. Calls' = Calls
      BY <1>8 DEF CountWrong, Calls
    <2> QED
      <3>1. /\ pending' \in {None} \cup Registrations
            /\ pending' # None => pending'.id \in 1 .. issued
        BY <1>8, RowChanges DEF CountWrong
      <3> QED
        BY <1>8, <1>idle, <2>1, <3>1 DEF CountWrong
  <1>9. ASSUME NEW h \in Handlers, Mint(h) \/ Revoke(h) PROVE TypeOK'
    <2>1. Calls' = Calls
      BY <1>9 DEF Mint, Revoke, Calls
    <2>2. CASE Mint(h)
      BY <2>2, <1>idle, <2>1 DEF Mint, AnswerSignedIn
    <2>3. CASE Revoke(h)
      BY <2>3, <1>idle, <2>1 DEF Revoke, AnswerLoggedOut
    <2> QED
      BY <1>9, <2>2, <2>3
  <1>10. ASSUME NEW h \in Handlers, LoseAnswer(h) \/ Abort(h) PROVE TypeOK'
    <2>1. \E r \in Calls : call' = [call EXCEPT ![h] = r]
      BY <1>10, <1>idle, Unheard DEF LoseAnswer, Abort
    <2>2. Calls' = Calls
      BY <1>10 DEF LoseAnswer, Abort, Calls
    <2> QED
      BY <1>10, <2>1, <2>2 DEF LoseAnswer, Abort
  <1>11. ASSUME NEW m \in queue, Deliver(m) PROVE TypeOK'
    <2>1. Calls \subseteq Calls'
      BY <1>11, CallsGrow DEF Deliver
    <2> QED
      BY <1>11, <2>1 DEF Deliver
  <1>12. ASSUME NEW m \in queue, DeliveryFails(m) \/ TaskLost(m)
         PROVE  TypeOK'
    <2>1. Calls' = Calls
      BY <1>12 DEF DeliveryFails, TaskLost, Calls
    <2> QED
      BY <1>12, <2>1 DEF DeliveryFails, TaskLost
  <1>13. CASE Expire
    <2>1. Calls' = Calls
      BY <1>13 DEF Expire, Calls
    <2> QED
      BY <1>13, <2>1, RowChanges DEF Expire
  <1>14. CASE UNCHANGED vars
    BY <1>14 DEF vars, Calls
  <1> QED
    BY <1>1, <1>3, <1>4, <1>5, <1>6, <1>7, <1>8, <1>9, <1>10, <1>11, <1>12,
       <1>13, <1>14 DEF Next, Serve

(* Every variable keeps its type, the tables, the mails and what each      *)
(* handler knows of its request, with answers lost and statements failing  *)
(* at any point.                                                           *)
THEOREM TypeHolds == Spec => []TypeOK
  BY TypeInit, TypeNext, PTL DEF Spec

-----------------------------------------------------------------------------
(* What a step does to one request: it is taken up for a browser that does *)
(* not wait, it moves on, it ends, or its answer is given up.              *)
Asks(b, r) ==
    /\ ~Loading(b) /\ r.by = b
    /\ \/ r.at \in {"findUser", "checkPassword"} /\ r.owner = b
             /\ form[b] = "other"
       \/ r.at = "findGoogle" /\ form[b] = "other"
       \/ r.at = "readPending" /\ form[b] = "otp" /\ r.id = regId[b]
       \/ r.at = "revoke"

LEMMA Asked ==
  ASSUME TypeOK, NEW b \in Browsers, Submit(b)
  PROVE  /\ \E g \in Handlers, r \in Calls :
               /\ Asks(b, r) /\ call[g].at = "idle"
               /\ call' = [call EXCEPT ![g] = r]
         /\ UNCHANGED <<tables, mail, client>>
  <1> USE AccountsAssumption DEF TypeOK, Request, Asks
  <1>1. CASE SubmitRegister(b)
    BY <1>1 DEF SubmitRegister, CanRegister, Calls
  <1>2. CASE SubmitLogin(b)
    BY <1>2 DEF SubmitLogin, CanLogIn, Calls
  <1>3. CASE SignInWithGoogle(b)
    BY <1>3 DEF SignInWithGoogle, CanUseGoogle, Calls
  <1>4. CASE SubmitLogout(b)
    BY <1>4 DEF SubmitLogout, CanLogOut, Calls
  <1>5. ASSUME NEW code \in mailbox \cup {0}, SubmitCode(b, code)
        PROVE  /\ \E g \in Handlers, r \in Calls :
                     /\ Asks(b, r) /\ call[g].at = "idle"
                     /\ call' = [call EXCEPT ![g] = r]
               /\ UNCHANGED <<tables, mail, client>>
    <2> DEFINE r == [at |-> "readPending", by |-> b, id |-> regId[b],
                     code |-> code]
    <2>1. r \in Calls /\ Asks(b, r)
      BY <1>5 DEF SubmitCode, CanVerify, Calls
    <2> HIDE DEF r
    <2> QED
      BY <1>5, <2>1 DEF SubmitCode, r
  <1> QED
    BY <1>1, <1>2, <1>3, <1>4, <1>5 DEF Submit

LEMMA OneMoves ==
  ASSUME TypeOK, [Next]_vars, NEW h \in Handlers, call'[h] # call[h]
  PROVE  \/ Serve(h)
         \/ call'[h] = Idle
         \/ /\ call[h].at # "idle"
            /\ call'[h] = [call[h] EXCEPT !.by = None]
         \/ \E b \in Browsers :
               Submit(b) /\ call[h].at = "idle" /\ Asks(b, call'[h])
  <1> USE DEF TypeOK, Goto, AnswerError
  <1>1. ASSUME NEW b \in Browsers, Open(b)
        PROVE  /\ call[h].at # "idle"
               /\ call'[h] = [call[h] EXCEPT !.by = None]
    BY <1>1 DEF Open
  <1>2. ASSUME NEW b \in Browsers, Submit(b)
        PROVE  call[h].at = "idle" /\ Asks(b, call'[h])
    BY <1>2, Asked
  <1>3. ASSUME NEW g \in Handlers, Serve(g) PROVE g = h
    BY <1>3 DEF Serve, FindUser, DeletePrior, Insert, Enqueue, ReadPending,
       CountWrong, CreateUser, DropPending, Mint, CheckPassword, FindGoogle,
       CreateGoogle, Revoke, AnswerRegistered, AnswerSignedIn,
       AnswerLoggedOut
  <1>4. ASSUME NEW g \in Handlers, LoseAnswer(g)
        PROVE  /\ call[h].at # "idle"
               /\ call'[h] = [call[h] EXCEPT !.by = None]
    BY <1>4 DEF LoseAnswer
  <1>5. ASSUME NEW g \in Handlers, Abort(g) PROVE call'[h] = Idle
    BY <1>5 DEF Abort
  <1>6. ASSUME Expire \/ UNCHANGED vars
                 \/ \E m \in queue :
                       Deliver(m) \/ DeliveryFails(m) \/ TaskLost(m)
        PROVE  FALSE
    BY <1>6 DEF Expire, vars, Deliver, DeliveryFails, TaskLost
  <1> HIDE DEF TypeOK, Goto, AnswerError
  <1> QED
    BY <1>1, <1>2, <1>3, <1>4, <1>5, <1>6 DEF Next

(* An account is made once, and a code that came by mail stays known.      *)
LEMMA AccountStays ==
  ASSUME TypeOK, [Next]_vars
  PROVE  /\ \/ user' = user
            \/ \E h \in Handlers : user = None /\
                  (CreateUser(h) \/ CreateGoogle(h))
         /\ mailbox \subseteq mailbox'
  <1> USE DEF TypeOK, tables, mail
  <1>1. ASSUME NEW h \in Handlers, CreateUser(h) \/ CreateGoogle(h)
        PROVE  /\ user' = user \/ user = None
               /\ mailbox' = mailbox
    BY <1>1 DEF CreateUser, CreateGoogle
  <1>2. ASSUME NEW b \in Browsers, Open(b) \/ Submit(b)
        PROVE  UNCHANGED <<user, mailbox>>
    BY <1>2, Asked DEF Open
  <1>3. ASSUME NEW h \in Handlers,
               \/ FindUser(h) \/ DeletePrior(h) \/ Insert(h) \/ Enqueue(h)
               \/ ReadPending(h) \/ CountWrong(h) \/ DropPending(h) \/ Mint(h)
               \/ CheckPassword(h) \/ FindGoogle(h) \/ Revoke(h)
               \/ LoseAnswer(h) \/ Abort(h)
        PROVE  UNCHANGED <<user, mailbox>>
    BY <1>3 DEF FindUser, DeletePrior, Insert, Enqueue, ReadPending,
       CountWrong, DropPending, Mint, CheckPassword, FindGoogle, Revoke,
       LoseAnswer, Abort
  <1>4. ASSUME NEW m \in queue, Deliver(m) \/ DeliveryFails(m) \/ TaskLost(m)
        PROVE  user' = user /\ mailbox \subseteq mailbox'
    BY <1>4 DEF Deliver, DeliveryFails, TaskLost
  <1>5. ASSUME Expire \/ UNCHANGED vars PROVE UNCHANGED <<user, mailbox>>
    BY <1>5 DEF Expire, vars
  <1> QED
    BY <1>1, <1>2, <1>3, <1>4, <1>5 DEF Next, Serve

(* The row of the address is the one of before, or that of a registration  *)
(* nobody has heard of yet.                                                *)
SameRow ==
    pending' # None => /\ pending # None /\ pending'.id = pending.id
                       /\ pending'.owner = pending.owner

LEMMA RowStep ==
  ASSUME TypeOK, [Next]_vars
  PROVE  /\ SameRow \/ (pending' # None /\ pending'.id = issued + 1)
         /\ SameRow \/ \E h \in Handlers : Insert(h) /\ pending = None
         /\ issued' >= issued
  <1> USE AccountsAssumption DEF TypeOK, tables, Dropped
  <1> DEFINE Goal == SameRow /\ issued' = issued
  <1>1. ASSUME NEW h \in Handlers, Insert(h)
        PROVE  \/ Goal
               \/ /\ pending = None /\ issued' = issued + 1
                  /\ pending' # None => pending'.id = issued + 1
                  /\ pending' # None
    <2>1. CASE pending # None
      BY <1>1, <2>1 DEF Insert, SameRow
    <2>2. CASE pending = None
      <3>1. /\ issued' = issued + 1 /\ call[h].at = "insert"
            /\ pending' = [id |-> issued', owner |-> call[h].owner,
                           wrong |-> 0, expired |-> FALSE]
        BY <1>1, <2>2 DEF Insert
      <3>2. pending' \in Registrations
        BY <3>1, CallFields DEF Registrations
      <3> QED
        BY <2>2, <3>1, <3>2
    <2> QED
      BY <2>1, <2>2
  <1>2. ASSUME NEW h \in Handlers, DeletePrior(h) \/ DropPending(h)
        PROVE  Goal
    BY <1>2 DEF DeletePrior, DropPending, SameRow
  <1>3. ASSUME NEW h \in Handlers, CountWrong(h) PROVE Goal
    <2>1. pending # None =>
             /\ [pending EXCEPT !.wrong = @ + 1].id = pending.id
             /\ [pending EXCEPT !.wrong = @ + 1].owner = pending.owner
      BY DEF Registrations
    <2> QED
      BY <1>3, <2>1 DEF CountWrong, SameRow
  <1>4. ASSUME Expire PROVE Goal
    <2>1. /\ [pending EXCEPT !.expired = TRUE].id = pending.id
          /\ [pending EXCEPT !.expired = TRUE].owner = pending.owner
      BY <1>4 DEF Expire, Registrations
    <2> QED
      BY <1>4, <2>1 DEF Expire, SameRow
  <1>5. ASSUME NEW b \in Browsers, Open(b) \/ Submit(b) PROVE Goal
    BY <1>5, Asked DEF Open, SameRow
  <1>6. ASSUME NEW h \in Handlers,
               \/ FindUser(h) \/ Enqueue(h) \/ ReadPending(h) \/ CreateUser(h)
               \/ Mint(h) \/ CheckPassword(h) \/ FindGoogle(h)
               \/ CreateGoogle(h) \/ Revoke(h) \/ LoseAnswer(h) \/ Abort(h)
        PROVE  Goal
    BY <1>6 DEF FindUser, Enqueue, ReadPending, CreateUser, Mint,
       CheckPassword, FindGoogle, CreateGoogle, Revoke, LoseAnswer, Abort,
       SameRow
  <1>7. ASSUME \/ UNCHANGED vars
               \/ \E m \in queue :
                     Deliver(m) \/ DeliveryFails(m) \/ TaskLost(m)
        PROVE  Goal
    BY <1>7 DEF vars, Deliver, DeliveryFails, TaskLost, SameRow
  <1>8. Goal => issued' >= issued
    OBVIOUS
  <1> HIDE DEF Goal
  <1>9. \/ Goal
        \/ \E h \in Handlers :
              /\ Insert(h) /\ pending = None /\ issued' = issued + 1
              /\ pending' # None /\ pending'.id = issued + 1
    BY <1>1, <1>2, <1>3, <1>4, <1>5, <1>6, <1>7 DEF Next, Serve
  <1> QED
    BY <1>8, <1>9 DEF Goal

(* A form asks for a code because it did before, or because it hears now   *)
(* of the registration that it sent.                                       *)
LEMMA FormStep ==
  ASSUME TypeOK, [Next]_vars, NEW b \in Browsers, form'[b] = "otp"
  PROVE  \/ form[b] = "otp" /\ regId'[b] = regId[b]
         \/ \E h \in Handlers : Enqueue(h) /\ call[h].by = b
                                  /\ regId'[b] = call[h].id
  <1> USE DEF TypeOK, client, AnswerError
  <1>1. ASSUME NEW c \in Browsers, Open(c)
        PROVE  form[b] = "otp" /\ regId'[b] = regId[b]
    BY <1>1 DEF Open
  <1>2. ASSUME NEW h \in Handlers, Enqueue(h)
        PROVE  \/ form[b] = "otp" /\ regId'[b] = regId[b]
               \/ call[h].by = b /\ regId'[b] = call[h].id
    <2>1. CASE call[h].by = b
      BY AccountsAssumption, <1>2, <2>1 DEF Enqueue, AnswerRegistered
    <2>2. CASE call[h].by # b
      BY <1>2, <2>2 DEF Enqueue, AnswerRegistered
    <2> QED
      BY <2>1, <2>2
  <1>3. ASSUME NEW h \in Handlers, Mint(h) \/ Revoke(h)
        PROVE  form[b] = "otp" /\ regId'[b] = regId[b]
    BY <1>3 DEF Mint, Revoke, AnswerSignedIn, AnswerLoggedOut
  <1>4. ASSUME \/ \E c \in Browsers : Submit(c)
               \/ \E h \in Handlers :
                     \/ FindUser(h) \/ DeletePrior(h) \/ Insert(h)
                     \/ ReadPending(h) \/ CountWrong(h) \/ CreateUser(h)
                     \/ DropPending(h) \/ CheckPassword(h) \/ FindGoogle(h)
                     \/ CreateGoogle(h) \/ LoseAnswer(h) \/ Abort(h)
               \/ \E m \in queue :
                     Deliver(m) \/ DeliveryFails(m) \/ TaskLost(m)
               \/ Expire \/ UNCHANGED vars
        PROVE  form[b] = "otp" /\ regId'[b] = regId[b]
    <2>1. UNCHANGED <<form, regId>>
      BY <1>4, Asked DEF FindUser, DeletePrior, Insert, ReadPending,
         CountWrong, CreateUser, DropPending, CheckPassword, FindGoogle,
         CreateGoogle, LoseAnswer, Abort, Deliver, DeliveryFails, TaskLost,
         Expire, vars
    <2> QED
      BY <2>1
  <1> HIDE DEF TypeOK, client, AnswerError
  <1> QED
    BY <1>1, <1>2, <1>3, <1>4 DEF Next, Serve

(* While a browser waits, its form stays as it is.                         *)
LEMMA FormKept ==
  ASSUME TypeOK, OneRequest, [Next]_vars, NEW h \in Handlers,
         NEW b \in Browsers, call[h].at # "idle", call[h].by = b,
         call'[h].at # "idle", call'[h].by = b
  PROVE  form'[b] = form[b] /\ regId'[b] = regId[b]
  <1> USE AccountsAssumption DEF TypeOK, client, AnswerError
  <1>1. ASSUME NEW c \in Browsers, Open(c) PROVE c # b
    BY <1>1 DEF Open
  <1>2. ASSUME NEW c \in Browsers, Open(c)
        PROVE  form'[b] = form[b] /\ regId'[b] = regId[b]
    BY <1>1, <1>2 DEF Open
  <1>3. ASSUME NEW g \in Handlers, Enqueue(g) \/ Mint(g) \/ Revoke(g)
        PROVE  call[g].by # b
    <2>1. call[g].at # "idle" /\ call'[g] = Idle
      BY <1>3 DEF Enqueue, Mint, Revoke, AnswerRegistered, AnswerSignedIn,
         AnswerLoggedOut
    <2>2. g # h
      BY <2>1 DEF Idle
    <2> QED
      BY <2>1, <2>2 DEF OneRequest
  <1>4. ASSUME NEW g \in Handlers, Enqueue(g) \/ Mint(g) \/ Revoke(g)
        PROVE  form'[b] = form[b] /\ regId'[b] = regId[b]
    BY <1>3, <1>4 DEF Enqueue, Mint, Revoke, AnswerRegistered,
       AnswerSignedIn, AnswerLoggedOut
  <1>5. ASSUME \/ \E c \in Browsers : Submit(c)
               \/ \E g \in Handlers :
                     \/ FindUser(g) \/ DeletePrior(g) \/ Insert(g)
                     \/ ReadPending(g) \/ CountWrong(g) \/ CreateUser(g)
                     \/ DropPending(g) \/ CheckPassword(g) \/ FindGoogle(g)
                     \/ CreateGoogle(g) \/ LoseAnswer(g) \/ Abort(g)
               \/ \E m \in queue :
                     Deliver(m) \/ DeliveryFails(m) \/ TaskLost(m)
               \/ Expire \/ UNCHANGED vars
        PROVE  form'[b] = form[b] /\ regId'[b] = regId[b]
    <2>1. UNCHANGED <<form, regId>>
      BY <1>5, Asked DEF FindUser, DeletePrior, Insert, ReadPending,
         CountWrong, CreateUser, DropPending, CheckPassword, FindGoogle,
         CreateGoogle, LoseAnswer, Abort, Deliver, DeliveryFails, TaskLost,
         Expire, vars
    <2> QED
      BY <2>1
  <1> HIDE DEF TypeOK, client, AnswerError
  <1> QED
    BY <1>2, <1>4, <1>5 DEF Next, Serve

(* A request keeps its browser until it ends or its answer is given up.    *)
LEMMA ServeKeeps ==
  ASSUME TypeOK, NEW h \in Handlers, Serve(h)
  PROVE  /\ call[h].at # "idle"
         /\ call'[h] = Idle \/ call'[h].by = call[h].by
         /\ \A g \in Handlers \ {h} : call'[g] = call[g]
  <1> USE DEF TypeOK, Goto, AnswerError, Calls, Idle
  <1>1. CASE FindUser(h) \/ DeletePrior(h) \/ CreateUser(h) \/ DropPending(h)
    BY <1>1 DEF FindUser, DeletePrior, CreateUser, DropPending
  <1>2. CASE CheckPassword(h) \/ FindGoogle(h) \/ CreateGoogle(h)
    BY <1>2 DEF CheckPassword, FindGoogle, CreateGoogle
  <1>3. CASE Insert(h)
    BY <1>3 DEF Insert
  <1>4. CASE ReadPending(h)
    BY <1>4 DEF ReadPending
  <1>5. CASE Enqueue(h) \/ CountWrong(h) \/ Mint(h) \/ Revoke(h)
    BY <1>5 DEF Enqueue, CountWrong, Mint, Revoke, AnswerRegistered,
       AnswerSignedIn, AnswerLoggedOut
  <1> HIDE DEF TypeOK, Goto, AnswerError, Calls, Idle
  <1> QED
    BY <1>1, <1>2, <1>3, <1>4, <1>5 DEF Serve

LEMMA OneRequestNext ==
  ASSUME TypeOK, OneRequest, [Next]_vars
  PROVE  OneRequest'
  <1> DEFINE Taken(h) == \E b \in Browsers :
                            Submit(b) /\ call[h].at = "idle" /\ Asks(b, call'[h])
             Kept(h) == call[h].at # "idle" /\ call[h].by = call'[h].by
  <1>1. ASSUME NEW h \in Handlers, call'[h].at # "idle", call'[h].by # None
        PROVE  Taken(h) \/ Kept(h)
    <2>1. CASE call'[h] = call[h]
      BY <1>1, <2>1
    <2>2. CASE Serve(h)
      BY <1>1, <2>2, ServeKeeps DEF Idle
    <2>3. CASE call[h].at # "idle" /\ call'[h] = [call[h] EXCEPT !.by = None]
      <3>1. [call[h] EXCEPT !.by = None].by = None
        BY <2>3 DEF TypeOK, Calls, Idle
      <3> QED
        BY <1>1, <2>3, <3>1
    <2> QED
      BY <1>1, <2>1, <2>2, <2>3, OneMoves DEF Idle
  <1>2. ASSUME NEW g \in Handlers, NEW h \in Handlers, Taken(g), Taken(h)
        PROVE  g = h
    <2>1. PICK b \in Browsers : Submit(b)
      BY <1>2
    <2>2. PICK f \in Handlers, r \in Calls : call' = [call EXCEPT ![f] = r]
      BY <2>1, Asked
    <2>3. ASSUME NEW k \in Handlers, Taken(k) PROVE k = f
      <3>1. call'[k].at # "idle" /\ call[k].at = "idle"
        BY <2>3 DEF Asks
      <3> QED
        BY <2>2, <3>1 DEF TypeOK
    <2> QED
      BY <1>2, <2>3
  <1>3. ASSUME NEW g \in Handlers, NEW h \in Handlers, Taken(g), Kept(h)
        PROVE  call'[g].by # call'[h].by
    BY <1>3 DEF Asks, Loading
  <1>4. ASSUME NEW g \in Handlers, NEW h \in Handlers, Kept(g), Kept(h),
               call'[g].by = call'[h].by, call'[g].by # None
        PROVE  g = h
    BY <1>4 DEF OneRequest
  <1> HIDE DEF Taken, Kept
  <1> QED
    BY <1>1, <1>2, <1>3, <1>4 DEF OneRequest

(* The form and the request that a browser waits for stay in step.         *)
LEMMA FormOfNext ==
  ASSUME TypeOK, ProvenInv, [Next]_vars, NEW h \in Handlers
  PROVE  FormOf(h)'
  <1> SUFFICES ASSUME call'[h].at # "idle", call'[h].by # None
               PROVE  FormOf(h)'
    BY DEF FormOf
  <1> DEFINE b == call'[h].by
  <1>1. OneRequest /\ FormOf(h) /\ OwnRegistration
    BY DEF ProvenInv
  <1>2. /\ user # None => user' = user
        /\ SameRow \/ pending'.id = issued + 1
    BY AccountStays, RowStep
  <1>3. CASE call'[h] = call[h]
    <2>1. b \in Browsers /\ call[h].at # "idle" /\ call[h].by = b
      BY <1>3, CallFields
    <2>2. form'[b] = form[b] /\ regId'[b] = regId[b]
      BY <1>1, <1>3, <2>1, FormKept
    <2>3. call[h].at = "enqueue" => call[h].id # issued + 1
      BY CallFields DEF TypeOK
    <2> QED
      BY <1>1, <1>2, <1>3, <2>1, <2>2, <2>3 DEF FormOf, SameRow
  <1>4. CASE Serve(h)
    <2>1. b \in Browsers /\ call[h].at # "idle" /\ call[h].by = b
      BY <1>4, ServeKeeps, CallFields DEF Idle
    <2>2. form'[b] = form[b] /\ regId'[b] = regId[b]
      BY <1>1, <2>1, FormKept
    <2> USE <1>1, <2>1, <2>2 DEF FormOf
    <2>3. CASE FindUser(h) \/ DeletePrior(h)
      <3>1. /\ call[h].at \in {"findUser", "deletePrior"}
            /\ call'[h].at \in {"deletePrior", "insert"}
            /\ call'[h].owner = call[h].owner
        BY <2>3 DEF FindUser, DeletePrior, Goto, AnswerError, Idle, TypeOK,
           Calls
      <3> QED
        BY <3>1
    <2>4. CASE Insert(h)
      <3>1. /\ call[h].at = "insert" /\ call'[h].at = "enqueue"
            /\ pending'.owner = call[h].owner
        BY <2>4 DEF Insert, AnswerError, Idle, TypeOK
      <3> QED
        BY <3>1
    <2>5. CASE ReadPending(h)
      <3>1. /\ call[h].at = "readPending" /\ pending # None
            /\ pending.id = call[h].id
            /\ call'[h].at \in {"createUser", "countWrong"}
            /\ call'[h].owner = pending.owner
        BY <2>5 DEF ReadPending, AnswerError, Idle, TypeOK
      <3>2. pending.owner = b
        BY <3>1 DEF OwnRegistration
      <3> QED
        BY <3>1, <3>2
    <2>6. CASE CreateUser(h)
      <3>1. /\ call[h].at = "createUser" /\ call'[h].at = "dropPending"
            /\ user' = [owner |-> call[h].owner, reg |-> call[h].id]
        BY <2>6 DEF CreateUser, Goto, AnswerError, Idle, TypeOK, Calls
      <3>2. call[h].owner \in Browsers /\ call[h].id \in Nat
        BY <3>1, CallFields DEF TypeOK
      <3>3. user' \in Users
        BY <3>1, <3>2 DEF Users
      <3>4. user' # None /\ user'.owner = b
        BY <3>1, <3>3, AccountsAssumption
      <3> QED
        BY <3>1, <3>4
    <2>7. CASE DropPending(h)
      <3>1. /\ call[h].at = "dropPending" /\ call'[h].at = "mint"
        BY <2>7 DEF DropPending, Goto, TypeOK, Calls, Idle
      <3> QED
        BY <1>2, <3>1
    <2>8. CASE CheckPassword(h) \/ FindGoogle(h) \/ CreateGoogle(h)
      <3>1. /\ call[h].at \in {"checkPassword", "findGoogle", "createGoogle"}
            /\ call'[h].at \in {"mint", "createGoogle"}
        BY <2>8 DEF CheckPassword, FindGoogle, CreateGoogle, Goto,
           AnswerError, TypeOK, Calls, Idle
      <3> QED
        BY <3>1
    <2>9. ASSUME Enqueue(h) \/ CountWrong(h) \/ Mint(h) \/ Revoke(h)
          PROVE  FALSE
      BY <2>9 DEF Enqueue, CountWrong, Mint, Revoke, AnswerRegistered,
         AnswerSignedIn, AnswerLoggedOut, AnswerError, Idle, TypeOK
    <2> HIDE DEF FormOf
    <2> QED
      BY <1>4, <2>3, <2>4, <2>5, <2>6, <2>7, <2>8, <2>9 DEF Serve
  <1>5. ASSUME NEW c \in Browsers, Submit(c), Asks(c, call'[h])
        PROVE  FormOf(h)'
    <2>1. UNCHANGED <<form, regId>>
      BY <1>5, Asked DEF client
    <2> QED
      BY <1>5, <2>1 DEF Asks, FormOf
  <1>6. ASSUME call[h].at # "idle", call'[h] = [call[h] EXCEPT !.by = None]
        PROVE  FALSE
    <2>1. [call[h] EXCEPT !.by = None].by = None
      BY <1>6 DEF TypeOK, Calls, Idle
    <2> QED
      BY <1>6, <2>1
  <1> QED
    BY <1>3, <1>4, <1>5, <1>6, OneMoves DEF Idle

LEMMA OwnNext ==
  ASSUME TypeOK, ProvenInv, [Next]_vars
  PROVE  OwnRegistration'
  <1> SUFFICES ASSUME NEW b \in Browsers, form'[b] = "otp", pending' # None,
                      pending'.id = regId'[b]
               PROVE  pending'.owner = b
    BY DEF OwnRegistration
  <1>1. CASE form[b] = "otp" /\ regId'[b] = regId[b]
    <2>1. regId[b] # issued + 1
      BY AccountsAssumption DEF TypeOK
    <2>2. SameRow
      BY <1>1, <2>1, RowStep
    <2> QED
      BY <1>1, <2>2 DEF SameRow, ProvenInv, OwnRegistration
  <1>2. ASSUME NEW h \in Handlers, Enqueue(h), call[h].by = b,
               regId'[b] = call[h].id
        PROVE  pending'.owner = b
    <2>1. pending' = pending /\ call[h].at = "enqueue"
      BY <1>2 DEF Enqueue, tables
    <2> QED
      BY AccountsAssumption, <1>2, <2>1 DEF ProvenInv, FormOf
  <1> QED
    BY <1>1, <1>2, FormStep

LEMMA MailedNext ==
  ASSUME TypeOK, ProvenInv, [Next]_vars
  PROVE  MailedCode'
  <1> SUFFICES ASSUME NEW h \in Handlers, call'[h].at = "createUser"
               PROVE  call'[h].id \in mailbox'
    BY DEF MailedCode
  <1>1. mailbox \subseteq mailbox'
    BY AccountStays
  <1>2. CASE call'[h] = call[h]
    BY <1>1, <1>2 DEF ProvenInv, MailedCode
  <1>3. CASE call[h].at # "idle" /\ call'[h] = [call[h] EXCEPT !.by = None]
    <2>1. /\ call'[h].at = call[h].at
          /\ call[h].at = "createUser" => call'[h].id = call[h].id
      BY <1>3 DEF TypeOK, Calls, Idle
    <2> QED
      BY <1>1, <2>1 DEF ProvenInv, MailedCode
  <1>4. CASE Serve(h)
    <2>1. ReadPending(h)
      BY <1>4 DEF Serve, FindUser, DeletePrior, Insert, Enqueue, CountWrong,
         CreateUser, DropPending, Mint, CheckPassword, FindGoogle,
         CreateGoogle, Revoke, Goto, AnswerError, AnswerRegistered,
         AnswerSignedIn, AnswerLoggedOut, TypeOK, Calls, Idle
    <2>2. /\ call[h].at = "readPending" /\ call[h].code = call[h].id
          /\ call'[h].id = call[h].id
      BY <2>1 DEF ReadPending, AnswerError, Idle, TypeOK
    <2>3. call[h].id \in 1 .. issued /\ call[h].code \in mailbox \cup {0}
      BY <2>2, CallFields
    <2> QED
      BY <1>1, <2>2, <2>3
  <1> QED
    BY <1>2, <1>3, <1>4, OneMoves DEF Asks, Idle

LEMMA ProvenNext ==
  ASSUME TypeOK, ProvenInv, [Next]_vars
  PROVE  AccountIsProven'
  <1>1. mailbox \subseteq mailbox' /\ (user # None => user' = user)
    BY AccountStays
  <1>2. user' # None /\ user'.owner # Google => user'.reg \in mailbox'
    <2>1. CASE user' = user
      BY <1>1, <2>1 DEF ProvenInv, AccountIsProven
    <2>2. ASSUME NEW h \in Handlers, CreateUser(h), user = None
          PROVE  user'.reg \in mailbox'
      <3>1. /\ call[h].at = "createUser"
            /\ user' = [owner |-> call[h].owner, reg |-> call[h].id]
        BY <2>2 DEF CreateUser
      <3> QED
        BY <1>1, <3>1 DEF ProvenInv, MailedCode
    <2>3. ASSUME NEW h \in Handlers, CreateGoogle(h), user = None
          PROVE  user'.owner = Google
      BY <2>3 DEF CreateGoogle
    <2> QED
      BY <2>1, <2>2, <2>3, AccountStays
  <1>3. ASSUME NEW b \in verified', b \notin verified
        PROVE  user # None /\ user.owner = b
    <2>1. ASSUME NEW h \in Handlers, Mint(h)
          PROVE  user # None /\ user.owner = b
      <3>1. /\ call[h].at = "mint" /\ call[h].by = b /\ b # None
            /\ form[b] = "otp"
        BY <1>3, <2>1 DEF Mint, AnswerSignedIn
      <3> QED
        BY <3>1 DEF ProvenInv, FormOf
    <2>2. ASSUME \/ \E c \in Browsers : Open(c) \/ Submit(c)
                 \/ \E h \in Handlers :
                       \/ FindUser(h) \/ DeletePrior(h) \/ Insert(h)
                       \/ Enqueue(h) \/ ReadPending(h) \/ CountWrong(h)
                       \/ CreateUser(h) \/ DropPending(h) \/ CheckPassword(h)
                       \/ FindGoogle(h) \/ CreateGoogle(h) \/ Revoke(h)
                       \/ LoseAnswer(h) \/ Abort(h)
                 \/ \E m \in queue :
                       Deliver(m) \/ DeliveryFails(m) \/ TaskLost(m)
                 \/ Expire \/ UNCHANGED vars
          PROVE  verified' = verified
      BY <2>2, Asked DEF Open, FindUser, DeletePrior, Insert, Enqueue,
         ReadPending, CountWrong, CreateUser, DropPending, CheckPassword,
         FindGoogle, CreateGoogle, Revoke, LoseAnswer, Abort, Deliver,
         DeliveryFails, TaskLost, Expire, AnswerError, AnswerRegistered,
         AnswerLoggedOut, client, vars
    <2> QED
      BY <1>3, <2>1, <2>2 DEF Next, Serve
  <1>4. \A b \in verified' : user' # None /\ user'.owner = b
    BY <1>1, <1>3 DEF ProvenInv, AccountIsProven
  <1> QED
    BY <1>2, <1>4 DEF AccountIsProven

LEMMA ProvenInvNext == TypeOK /\ ProvenInv /\ [Next]_vars => ProvenInv'
  BY OneRequestNext, FormOfNext, OwnNext, MailedNext, ProvenNext DEF ProvenInv

LEMMA ProvenInit == Init => ProvenInv
  BY AccountsAssumption DEF Init, Idle, ProvenInv, OneRequest, FormOf,
     OwnRegistration, MailedCode, AccountIsProven

(* An account has the password of a registration whose code was mailed,    *)
(* and the browser whose code was accepted owns it, though registrations   *)
(* replace each other between the statements of Register and of VerifyOTP: *)
(* for every set of browsers and handlers.                                 *)
THEOREM AccountIsProvenHolds == Spec => []AccountIsProven
  <1>1. ProvenInv => AccountIsProven
    BY DEF ProvenInv
  <1> QED
    BY <1>1, TypeHolds, ProvenInit, ProvenInvNext, PTL DEF Spec

-----------------------------------------------------------------------------
(* Once a code is under way it stays so, or has come, or is given up.      *)
LEMMA MailStays ==
  ASSUME TypeOK, [Next]_vars, NEW id, OnItsWay(id)
  PROVE  OnItsWay(id)'
  <1> USE DEF OnItsWay, mail
  <1>1. ASSUME NEW h \in Handlers, Enqueue(h) PROVE OnItsWay(id)'
    BY <1>1 DEF Enqueue
  <1>2. ASSUME NEW m \in queue, Deliver(m) PROVE OnItsWay(id)'
    BY <1>2 DEF Deliver
  <1>3. ASSUME NEW m \in queue, DeliveryFails(m) \/ TaskLost(m)
        PROVE  OnItsWay(id)'
    <2>1. [m EXCEPT !.failed = @ + 1].code = m.code
      BY DEF TypeOK
    <2> QED
      BY <1>3, <2>1 DEF DeliveryFails, TaskLost
  <1>4. ASSUME \/ \E b \in Browsers : Open(b) \/ Submit(b)
               \/ \E h \in Handlers :
                     \/ FindUser(h) \/ DeletePrior(h) \/ Insert(h)
                     \/ ReadPending(h) \/ CountWrong(h) \/ CreateUser(h)
                     \/ DropPending(h) \/ Mint(h) \/ CheckPassword(h)
                     \/ FindGoogle(h) \/ CreateGoogle(h) \/ Revoke(h)
                     \/ LoseAnswer(h) \/ Abort(h)
               \/ Expire \/ UNCHANGED vars
        PROVE  OnItsWay(id)'
    <2>1. UNCHANGED <<queue, mailbox, lost>>
      BY <1>4, Asked DEF Open, FindUser, DeletePrior, Insert, ReadPending,
         CountWrong, CreateUser, DropPending, Mint, CheckPassword,
         FindGoogle, CreateGoogle, Revoke, LoseAnswer, Abort, Expire, vars
    <2> QED
      BY <2>1
  <1> HIDE DEF OnItsWay, mail
  <1> QED
    BY <1>1, <1>2, <1>3, <1>4 DEF Next, Serve

LEMMA MailInvNext == TypeOK /\ MailInv /\ [Next]_vars => MailInv'
  <1> SUFFICES ASSUME TypeOK, MailInv, [Next]_vars, NEW b \in Browsers,
                      form'[b] = "otp", NEW id, id = regId'[b]
               PROVE  OnItsWay(id)'
    BY DEF MailInv, OnItsWay
  <1>1. CASE form[b] = "otp" /\ regId'[b] = regId[b]
    BY <1>1, MailStays DEF MailInv
  <1>2. ASSUME NEW h \in Handlers, Enqueue(h), regId'[b] = call[h].id
        PROVE  OnItsWay(id)'
    <2>1. CASE id \in lost'
      BY <2>1 DEF OnItsWay
    <2>2. CASE queue' = queue \cup {[code |-> id, failed |-> 0]}
      <3> DEFINE m == [code |-> id, failed |-> 0]
      <3>1. m \in queue' /\ m.code = id
        BY <2>2
      <3> QED
        BY <3>1, Zenon DEF OnItsWay
    <2> QED
      BY <1>2, <2>1, <2>2 DEF Enqueue
  <1> QED
    BY <1>1, <1>2, FormStep

(* The code that a form asks for has been mailed or is still in the queue, *)
(* unless it could not be queued or was given up: no registration and no   *)
(* failed delivery forgets one.                                            *)
THEOREM CodeIsOnItsWayHolds == Spec => []CodeIsOnItsWay
  <1>1. Init => MailInv
    BY DEF Init, MailInv
  <1>2. MailInv => CodeIsOnItsWay
    BY DEF MailInv, OnItsWay, CodeIsOnItsWay, Awaited
  <1> QED
    BY <1>1, <1>2, TypeHolds, MailInvNext, PTL DEF Spec

-----------------------------------------------------------------------------
(* Nobody but ReadPending sends a handler to count a wrong code.           *)
LEMMA CountingStep ==
  ASSUME TypeOK, [Next]_vars, NEW h \in Handlers, call'[h].at = "countWrong"
  PROVE  \/ ReadPending(h) /\ call'[h].id = call[h].id
         \/ call[h].at = "countWrong" /\ call'[h].id = call[h].id
  <1>1. CASE call[h].at # "idle" /\ call'[h] = [call[h] EXCEPT !.by = None]
    BY <1>1 DEF TypeOK, Calls, Idle
  <1>2. CASE Serve(h)
    <2>1. ReadPending(h)
      BY <1>2 DEF Serve, FindUser, DeletePrior, Insert, Enqueue, CountWrong,
         CreateUser, DropPending, Mint, CheckPassword, FindGoogle,
         CreateGoogle, Revoke, Goto, AnswerError, AnswerRegistered,
         AnswerSignedIn, AnswerLoggedOut, TypeOK, Calls, Idle
    <2>2. call'[h].id = call[h].id
      BY <2>1 DEF ReadPending, AnswerError, Idle, TypeOK
    <2> QED
      BY <2>1, <2>2
  <1> QED
    BY <1>1, <1>2, OneMoves DEF Asks, Idle

(* The count of the row changes only by CountWrong.                        *)
LEMMA WrongStep ==
  ASSUME TypeOK, [Next]_vars, pending' # None
  PROVE  \/ \E h \in Handlers : Insert(h) /\ pending = None
         \/ \E h \in Handlers : CountWrong(h)
         \/ /\ pending # None /\ pending'.id = pending.id
            /\ pending'.wrong = pending.wrong
  <1> USE DEF TypeOK, tables, Dropped
  <1> DEFINE Same == /\ pending # None /\ pending'.id = pending.id
                     /\ pending'.wrong = pending.wrong
  <1>1. ASSUME NEW h \in Handlers, Insert(h)
        PROVE  pending = None \/ Same
    BY <1>1 DEF Insert
  <1>2. ASSUME NEW h \in Handlers, DeletePrior(h) \/ DropPending(h)
        PROVE  Same
    BY <1>2 DEF DeletePrior, DropPending
  <1>3. ASSUME Expire PROVE Same
    <2>1. [pending EXCEPT !.expired = TRUE].wrong = pending.wrong
      BY <1>3 DEF Expire, Registrations
    <2>2. [pending EXCEPT !.expired = TRUE].id = pending.id
      BY <1>3, RowChanges DEF Expire
    <2> QED
      BY <1>3, <2>1, <2>2 DEF Expire
  <1>4. ASSUME NEW b \in Browsers, Open(b) \/ Submit(b) PROVE Same
    BY <1>4, Asked DEF Open
  <1>5. ASSUME NEW h \in Handlers,
               \/ FindUser(h) \/ Enqueue(h) \/ ReadPending(h) \/ CreateUser(h)
               \/ Mint(h) \/ CheckPassword(h) \/ FindGoogle(h)
               \/ CreateGoogle(h) \/ Revoke(h) \/ LoseAnswer(h) \/ Abort(h)
        PROVE  Same
    BY <1>5 DEF FindUser, Enqueue, ReadPending, CreateUser, Mint,
       CheckPassword, FindGoogle, CreateGoogle, Revoke, LoseAnswer, Abort
  <1>6. ASSUME \/ UNCHANGED vars
               \/ \E m \in queue :
                     Deliver(m) \/ DeliveryFails(m) \/ TaskLost(m)
        PROVE  Same
    BY <1>6 DEF vars, Deliver, DeliveryFails, TaskLost
  <1> HIDE DEF Same
  <1>7. \/ \E h \in Handlers : Insert(h) /\ pending = None
        \/ \E h \in Handlers : CountWrong(h)
        \/ Same
    BY <1>1, <1>2, <1>3, <1>4, <1>5, <1>6 DEF Next, Serve
  <1> QED
    BY <1>7 DEF Same

(* A handler that finds the row open brings the handlers about to count to *)
(* all of them at most; each of them adds one to a count that was below    *)
(* the limit when it was read.                                             *)
LEMMA WrongInvNext == TypeOK /\ WrongInv /\ [Next]_vars => WrongInv'
  <1> SUFFICES ASSUME TypeOK, WrongInv, [Next]_vars, pending' # None
               PROVE  pending'.wrong + Cardinality(Counting')
                         <= MaxWrong + Cardinality(Handlers) - 1
    BY DEF WrongInv, Counting
  <1> DEFINE n == Cardinality(Handlers)
  <1>1. /\ Counting \subseteq Handlers /\ IsFiniteSet(Counting)
        /\ Cardinality(Counting) \in Nat
    BY AccountsAssumption, FS_Subset, FS_CardinalityType DEF Counting
  <1>2. /\ Counting' \subseteq Handlers /\ IsFiniteSet(Counting')
        /\ Cardinality(Counting') \in Nat /\ Cardinality(Counting') <= n
        /\ n \in Nat
    <2>1. Counting' \subseteq Handlers
      BY DEF Counting
    <2> QED
      BY <2>1, AccountsAssumption, FS_Subset, FS_CardinalityType
  <1>3. pending # None => pending.wrong \in Nat
    BY DEF TypeOK, Registrations
  <1>4. MaxWrong \in Nat
    BY AccountsAssumption
  <1>5. ASSUME NEW h \in Handlers, Insert(h), pending = None
        PROVE  pending'.wrong + Cardinality(Counting') <= MaxWrong + n - 1
    <2>1. /\ pending'.wrong = 0 /\ pending'.id = issued + 1
          /\ call'[h].at = "enqueue" /\ issued \in Nat
      BY <1>5 DEF Insert, TypeOK
    <2>2. Counting' = {}
      <3> SUFFICES ASSUME NEW g \in Counting' PROVE FALSE
        OBVIOUS
      <3>1. g \in Handlers /\ call'[g].at = "countWrong"
              /\ call'[g].id = issued + 1
        BY <2>1 DEF Counting
      <3>2. call'[g] = call[g]
        BY <1>5, <2>1, <3>1 DEF Insert, TypeOK
      <3> QED
        BY <2>1, <3>1, <3>2, CallFields
    <2>3. n > 0
      BY AccountsAssumption, FS_EmptySet, <1>2
    <2> QED
      BY <1>2, <1>4, <2>1, <2>2, <2>3, FS_EmptySet
  <1>6. ASSUME NEW h \in Handlers, ReadPending(h), call'[h].at = "countWrong"
        PROVE  pending'.wrong + Cardinality(Counting') <= MaxWrong + n - 1
    <2>1. /\ pending' = pending /\ pending # None
          /\ ~(pending.wrong >= MaxWrong)
      BY <1>6 DEF ReadPending, TooMany, tables, AnswerError, Idle, TypeOK
    <2> QED
      BY <1>2, <1>3, <1>4, <2>1
  <1>7. ASSUME NEW h \in Handlers, CountWrong(h)
        PROVE  pending'.wrong + Cardinality(Counting') <= MaxWrong + n - 1
    <2>1. /\ call[h].at = "countWrong" /\ call'[h].at = "idle"
          /\ \A g \in Handlers \ {h} : call'[g] = call[g]
      BY <1>7 DEF CountWrong, AnswerError, Idle, TypeOK
    <2>2. pending # None /\ pending'.id = pending.id
      BY <1>7, RowChanges DEF CountWrong, Dropped, TypeOK
    <2>3. Counting' = Counting \ {h}
      BY <2>1, <2>2 DEF Counting
    <2>4. \/ pending' = pending
          \/ /\ call[h].id = pending.id
             /\ pending' = [pending EXCEPT !.wrong = @ + 1]
      BY <1>7 DEF CountWrong, Dropped
    <2>5. [pending EXCEPT !.wrong = @ + 1].wrong = pending.wrong + 1
      BY <2>2 DEF TypeOK, Registrations
    <2>6. CASE pending' = pending
      <3>1. Cardinality(Counting') <= Cardinality(Counting)
        BY <1>1, <2>3, FS_Subset
      <3> QED
        BY <1>1, <1>2, <1>3, <1>4, <2>2, <2>6, <3>1 DEF WrongInv
    <2>7. CASE call[h].id = pending.id /\ pending'.wrong = pending.wrong + 1
      <3>1. h \in Counting
        BY <2>1, <2>7 DEF Counting
      <3>2. Cardinality(Counting') = Cardinality(Counting) - 1
        BY <1>1, <2>3, <3>1, FS_RemoveElement
      <3> QED
        BY <1>1, <1>2, <1>3, <1>4, <2>2, <2>7, <3>2 DEF WrongInv
    <2> QED
      BY <2>4, <2>5, <2>6, <2>7
  <1>8. ASSUME ~ \E h \in Handlers :
                    ReadPending(h) /\ call'[h].at = "countWrong",
               pending # None, pending'.id = pending.id,
               pending'.wrong = pending.wrong
        PROVE  pending'.wrong + Cardinality(Counting') <= MaxWrong + n - 1
    <2>1. Counting' \subseteq Counting
      BY <1>8, CountingStep DEF Counting
    <2>2. Cardinality(Counting') <= Cardinality(Counting)
      BY <1>1, <2>1, FS_Subset
    <2> QED
      BY <1>1, <1>2, <1>3, <1>4, <1>8, <2>2 DEF WrongInv
  <1> QED
    BY <1>5, <1>6, <1>7, <1>8, WrongStep

(* The count of wrong codes passes the limit by less than the number of    *)
(* handlers: each one that read the count below the limit adds at most     *)
(* one, however they interleave and whatever fails.                        *)
THEOREM WrongCodesBoundedHolds == Spec => []WrongCodesBounded
  <1>1. Init => WrongInv
    BY DEF Init, WrongInv
  <1>2. TypeOK /\ WrongInv => WrongCodesBounded
    <2> SUFFICES ASSUME TypeOK, WrongInv, pending # None
                 PROVE  pending.wrong <= MaxWrong + Cardinality(Handlers) - 1
      BY DEF WrongCodesBounded
    <2>1. Cardinality(Counting) \in Nat /\ Cardinality(Handlers) \in Nat
      BY AccountsAssumption, FS_Subset, FS_CardinalityType DEF Counting
    <2> QED
      BY <2>1, AccountsAssumption DEF WrongInv, TypeOK, Registrations
  <1> QED
    BY <1>1, <1>2, TypeHolds, WrongInvNext, PTL DEF Spec
=============================================================================
