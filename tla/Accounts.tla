------------------------------ MODULE Accounts ------------------------------
(***************************************************************************)
(* Registration, verification and sign-in for one e-mail address: the      *)
(* forms (RegisterForm, LoginForm, the logout buttons), the handlers of    *)
(* auth_service with the tables they share, and the queue that mails the   *)
(* verification code.                                                      *)
(*                                                                         *)
(* Several browsers use the address, as when a registration is repeated    *)
(* because its mail is late; each has a password of its own, so an account *)
(* is known by the browser that chose its password.  A registration's code *)
(* is named by the registration's id.  Every repository call is a step: no *)
(* transaction joins them.  The refresh tokens are left out with the       *)
(* request that would use them, POST /refresh, which no page makes.        *)
(***************************************************************************)
EXTENDS Integers, FiniteSets

CONSTANTS
    Browsers,
    Handlers,    \* request handlers that may run at the same time
    Google,      \* the "password" of an account made by Google sign-in
    None,
    MaxWrong,    \* wrong codes after which a registration is closed (5)
    MaxRetry,    \* asynq.MaxRetry (3)
    MaxCalls,    \* bound: requests made
    MaxFaults    \* bound: failed statements and calls

(* The rows of users and of pending_users                                  *)
Users == [owner : Browsers \cup {Google}, reg : Nat]
Registrations ==
    [id : Nat, owner : Browsers, wrong : Nat, expired : BOOLEAN]

ASSUME AccountsAssumption ==
    /\ Google \notin Browsers /\ None \notin Browsers \cup {Google} \cup Nat
    /\ None \notin Users /\ None \notin Registrations
    /\ IsFiniteSet(Handlers)
    /\ {MaxWrong, MaxRetry, MaxCalls, MaxFaults} \subseteq Nat

VARIABLES
    \* Postgres: email is unique in both tables
    user,       \* the account: whose password, and of which registration
    pending,    \* the pending_users row
    issued,     \* ids given to registrations so far
    \* the queue and the mailbox
    queue,      \* verification mails: the code and the failed deliveries
    mailbox,    \* codes that were delivered
    \* requests
    call,       \* what each handler is doing
    \* the browsers
    form,       \* "otp" while RegisterForm asks for the code, else "other"
    regId,      \* pendingUserId of RegisterForm
    cookie,     \* TRUE while the browser has the cookies of a sign-in
    \* what happened so far, which no code reads:
    lost,       \* codes that were not queued, lost by the queue or given up
    verified,   \* browsers whose code was accepted
    calls, faults   \* counters for the bounds

tables == <<user, pending, issued>>
mail   == <<queue, mailbox, lost>>
client == <<form, regId, cookie, verified>>
vars   == <<user, pending, issued, queue, mailbox, call, form, regId, cookie,
            lost, verified, calls, faults>>

Idle  == [at |-> "idle"]
Fault == faults < MaxFaults /\ faults' = faults + 1

(* A statement whose error is dropped: it changes v to w or, failing,      *)
(* leaves it.                                                              *)
Dropped(changed, unchanged) ==
    \/ changed /\ UNCHANGED faults
    \/ unchanged /\ Fault

(* isLoading of a form, and of a browser that is off to Google's page      *)
Loading(b) == \E h \in Handlers : call[h].at # "idle" /\ call[h].by = b

-----------------------------------------------------------------------------
(* The forms.                                                              *)

(* A page load; what a form waited for is not heard.  (Going from one page *)
(* to another without anything to lose is no step.)                        *)
Open(b) ==
    /\ form[b] = "otp" \/ Loading(b)
    /\ form' = [form EXCEPT ![b] = "other"]
    /\ regId' = [regId EXCEPT ![b] = None]
    /\ call' = [h \in Handlers |->
                   IF call[h].at # "idle" /\ call[h].by = b
                   THEN [call[h] EXCEPT !.by = None] ELSE call[h]]
    /\ UNCHANGED <<tables, mail, cookie, verified, calls, faults>>

(* The views: the form for a registration, for its code and for a login,   *)
(* each with inputs and button disabled while it waits, the link to Google,*)
(* and the logout button, which only the cookie brings.  The button that   *)
(* registers needs a password of some strength, which every browser has.   *)
CanRegister(b) == form[b] = "other" /\ ~Loading(b)
CanVerify(b)   == form[b] = "otp" /\ regId[b] # None /\ ~Loading(b)
CanLogIn(b)    == form[b] = "other" /\ ~Loading(b)
CanUseGoogle(b) == form[b] = "other" /\ ~Loading(b)
CanLogOut(b)   == cookie[b] /\ ~Loading(b)

(* An idle handler takes the request up.                                   *)
Request(b, r) ==
    /\ calls < MaxCalls /\ calls' = calls + 1
    /\ \E h \in Handlers :
          call[h].at = "idle" /\ call' = [call EXCEPT ![h] = r]
    /\ UNCHANGED <<tables, mail, client, faults>>

(* handleRegister                                                          *)
SubmitRegister(b) ==
    /\ CanRegister(b)
    /\ Request(b, [at |-> "findUser", by |-> b, owner |-> b])

(* handleVerifyOTP, with a code that was mailed or a wrong one             *)
SubmitCode(b, code) ==
    /\ CanVerify(b)
    /\ Request(b, [at |-> "readPending", by |-> b, id |-> regId[b],
                      code |-> code])

(* handleSubmit of LoginForm                                               *)
SubmitLogin(b) ==
    /\ CanLogIn(b)
    /\ Request(b, [at |-> "checkPassword", by |-> b, owner |-> b])

(* "Continue with Google", up to the callback                              *)
SignInWithGoogle(b) ==
    /\ CanUseGoogle(b)
    /\ Request(b, [at |-> "findGoogle", by |-> b])

(* The logout button, in the header or in the menu                         *)
SubmitLogout(b) ==
    /\ CanLogOut(b)
    /\ Request(b, [at |-> "revoke", by |-> b])

-----------------------------------------------------------------------------
(* Answers.                                                                *)

Goto(h, label) == call' = [call EXCEPT ![h].at = label]

(* An error leaves the form as it is, with a message.                      *)
AnswerError(h) == call' = [call EXCEPT ![h] = Idle] /\ UNCHANGED client

(* The form goes on to ask for the code.                                   *)
AnswerRegistered(h) ==
    LET b == call[h].by IN
    /\ call' = [call EXCEPT ![h] = Idle]
    /\ form' = IF b = None THEN form ELSE [form EXCEPT ![b] = "otp"]
    /\ regId' = IF b = None THEN regId ELSE [regId EXCEPT ![b] = call[h].id]
    /\ UNCHANGED <<cookie, verified>>

(* setAuthCookies, and the form goes home.                                 *)
AnswerSignedIn(h) ==
    LET b == call[h].by IN
    /\ call' = [call EXCEPT ![h] = Idle]
    /\ form' = IF b = None THEN form ELSE [form EXCEPT ![b] = "other"]
    /\ cookie' = IF b = None THEN cookie ELSE [cookie EXCEPT ![b] = TRUE]
    /\ verified' = IF b # None /\ form[b] = "otp" THEN verified \cup {b}
                   ELSE verified
    /\ regId' = IF b = None THEN regId ELSE [regId EXCEPT ![b] = None]

(* clearAuthCookies; both buttons then load the first page.                *)
AnswerLoggedOut(h) ==
    LET b == call[h].by IN
    /\ call' = [call EXCEPT ![h] = Idle]
    /\ cookie' = IF b = None THEN cookie ELSE [cookie EXCEPT ![b] = FALSE]
    /\ form' = IF b = None THEN form ELSE [form EXCEPT ![b] = "other"]
    /\ regId' = IF b = None THEN regId ELSE [regId EXCEPT ![b] = None]
    /\ UNCHANGED verified

-----------------------------------------------------------------------------
(* POST /register: Register.                                               *)

(* GetUserByIdentifier finds nothing, or fails, which is taken for that.   *)
NotFound == IF user = None THEN UNCHANGED faults ELSE Fault

FindUser(h) ==
    /\ call[h].at = "findUser"
    /\ \/ user # None /\ AnswerError(h) /\ UNCHANGED faults
       \/ NotFound /\ Goto(h, "deletePrior") /\ UNCHANGED client
    /\ UNCHANGED <<tables, mail, calls>>

(* CreatePendingUser deletes the row of this address, whose error is       *)
(* dropped, and inserts a new one, which the unique index may refuse.      *)
DeletePrior(h) ==
    /\ call[h].at = "deletePrior"
    /\ Dropped(pending' = None, UNCHANGED pending)
    /\ Goto(h, "insert")
    /\ UNCHANGED <<user, issued, mail, client, calls>>

(* Variant: the row is kept, with its code, and gets the new password.     *)
InsertOrUpdate(h) ==
    /\ call[h].at = "insert"
    /\ issued' = IF pending = None THEN issued + 1 ELSE issued
    /\ pending' = IF pending = None
                  THEN [id |-> issued', owner |-> call[h].owner, wrong |-> 0,
                        expired |-> FALSE]
                  ELSE [pending EXCEPT !.owner = call[h].owner]
    /\ call' = [call EXCEPT ![h] = [at |-> "enqueue", by |-> call[h].by,
                                    id |-> pending'.id]]
    /\ UNCHANGED <<user, mail, client, calls, faults>>

Insert(h) ==
    /\ call[h].at = "insert"
    /\ IF pending # None THEN AnswerError(h) /\ UNCHANGED <<issued, pending>>
       ELSE /\ issued' = issued + 1
            /\ pending' = [id |-> issued', owner |-> call[h].owner,
                           wrong |-> 0, expired |-> FALSE]
            /\ call' = [call EXCEPT ![h] = [at |-> "enqueue",
                                            by |-> call[h].by, id |-> issued']]
            /\ UNCHANGED client
    /\ UNCHANGED <<user, mail, calls, faults>>

(* EnqueueVerificationEmail, whose error is only logged                    *)
Enqueue(h) ==
    LET code == call[h].id IN
    /\ call[h].at = "enqueue"
    /\ \/ queue' = queue \cup {[code |-> code, failed |-> 0]}
          /\ UNCHANGED <<lost, faults>>
       \/ Fault /\ lost' = lost \cup {code} /\ UNCHANGED queue
    /\ AnswerRegistered(h)
    /\ UNCHANGED <<tables, mailbox, calls>>

-----------------------------------------------------------------------------
(* The worker.                                                             *)

(* A mail that is sent twice, which asynq allows, is as good as one.       *)
Deliver(m) ==
    /\ m \in queue
    /\ mailbox' = mailbox \cup {m.code}
    /\ queue' = queue \ {m}
    /\ UNCHANGED <<tables, call, client, lost, calls, faults>>

(* Variant: the error of the mail provider is not one to retry.            *)
DeliveryDropped(m) ==
    /\ m \in queue
    /\ queue' = queue \ {m}
    /\ UNCHANGED <<tables, mailbox, lost, call, client, calls, faults>>

(* Variant: a delivery is repeated once more than that.                    *)
RetryOnceMore(m) ==
    /\ m \in queue
    /\ IF m.failed <= MaxRetry
       THEN /\ queue' = (queue \ {m}) \cup {[m EXCEPT !.failed = @ + 1]}
            /\ UNCHANGED lost
       ELSE queue' = queue \ {m} /\ lost' = lost \cup {m.code}
    /\ UNCHANGED <<tables, mailbox, call, client, calls, faults>>

(* A failed delivery is repeated MaxRetry times.                           *)
DeliveryFails(m) ==
    /\ m \in queue
    /\ IF m.failed < MaxRetry
       THEN /\ queue' = (queue \ {m}) \cup {[m EXCEPT !.failed = @ + 1]}
            /\ UNCHANGED lost
       ELSE queue' = queue \ {m} /\ lost' = lost \cup {m.code}
    /\ UNCHANGED <<tables, mailbox, call, client, calls, faults>>

(* A task is lost at once when it cannot be decrypted or RESEND_API_KEY is *)
(* missing, and with the others when Redis restarts without its data.      *)
TaskLost(m) ==
    /\ m \in queue
    /\ queue' = queue \ {m} /\ lost' = lost \cup {m.code}
    /\ UNCHANGED <<tables, mailbox, call, client, calls, faults>>

-----------------------------------------------------------------------------
(* POST /verify-otp: VerifyOTP.                                            *)

(* Ten minutes after the registration                                      *)
Expire ==
    /\ pending # None /\ ~pending.expired
    /\ pending' = [pending EXCEPT !.expired = TRUE]
    /\ UNCHANGED <<user, issued, mail, call, client, calls,
                   faults>>

(* Variant: one more wrong code than that is let through.                  *)
TooManyOffByOne(p) == p.wrong > MaxWrong

TooMany(p) == p.wrong >= MaxWrong

(* The row by its id, its expiry, its count of wrong codes, and the code   *)
ReadPending(h) ==
    LET found == pending # None /\ pending.id = call[h].id IN
    /\ call[h].at = "readPending"
    /\ IF ~found \/ pending.expired \/ TooMany(pending) THEN AnswerError(h)
       ELSE /\ call' = [call EXCEPT ![h] =
                  [at |-> IF call[h].code = call[h].id THEN "createUser"
                          ELSE "countWrong",
                   by |-> call[h].by, id |-> call[h].id,
                   owner |-> pending.owner]]
            /\ UNCHANGED client
    /\ UNCHANGED <<tables, mail, calls, faults>>

(* IncrementOTPFail by id, whose error is dropped                          *)
CountWrong(h) ==
    LET counted == IF pending # None /\ pending.id = call[h].id
                   THEN [pending EXCEPT !.wrong = @ + 1] ELSE pending
    IN
    /\ call[h].at = "countWrong"
    /\ Dropped(pending' = counted, UNCHANGED pending)
    /\ AnswerError(h)
    /\ UNCHANGED <<user, issued, mail, calls>>

(* What was read is inserted; the unique index refuses a second account.   *)
CreateUser(h) ==
    /\ call[h].at = "createUser"
    /\ IF user # None THEN AnswerError(h) /\ UNCHANGED user
       ELSE /\ user' = [owner |-> call[h].owner, reg |-> call[h].id]
            /\ Goto(h, "dropPending") /\ UNCHANGED client
    /\ UNCHANGED <<pending, issued, mail, calls, faults>>

(* DeletePendingUser by id, whose error is dropped                         *)
DropPending(h) ==
    LET rest == IF pending # None /\ pending.id = call[h].id THEN None
                ELSE pending
    IN
    /\ call[h].at = "dropPending"
    /\ Dropped(pending' = rest, UNCHANGED pending)
    /\ Goto(h, "mint")
    /\ UNCHANGED <<user, issued, mail, client, calls>>

(* generateToken: the cookies of a new session                             *)
Mint(h) ==
    /\ call[h].at = "mint"
    /\ AnswerSignedIn(h)
    /\ UNCHANGED <<tables, mail, calls, faults>>

-----------------------------------------------------------------------------
(* POST /login, GET /auth/google/callback, POST /logout.                   *)

CheckPassword(h) ==
    /\ call[h].at = "checkPassword"
    /\ IF user # None /\ user.owner = call[h].owner
       THEN Goto(h, "mint") /\ UNCHANGED client
       ELSE AnswerError(h)
    /\ UNCHANGED <<tables, mail, calls, faults>>

(* HandleGoogleCallback: an account with a password is not taken over.     *)
FindGoogle(h) ==
    /\ call[h].at = "findGoogle"
    /\ \/ NotFound /\ Goto(h, "createGoogle") /\ UNCHANGED client
       \/ /\ user # None /\ UNCHANGED faults
          /\ IF user.owner = Google THEN Goto(h, "mint") /\ UNCHANGED client
             ELSE AnswerError(h)
    /\ UNCHANGED <<tables, mail, calls>>

CreateGoogle(h) ==
    /\ call[h].at = "createGoogle"
    /\ IF user # None THEN AnswerError(h) /\ UNCHANGED user
       ELSE /\ user' = [owner |-> Google, reg |-> 0]
            /\ Goto(h, "mint") /\ UNCHANGED client
    /\ UNCHANGED <<pending, issued, mail, calls, faults>>

(* RevokeRefreshToken, whose error the handler drops, and clearAuthCookies *)
Revoke(h) ==
    /\ call[h].at = "revoke"
    /\ AnswerLoggedOut(h)
    /\ UNCHANGED <<tables, mail, calls, faults>>

-----------------------------------------------------------------------------
(* Faults.                                                                 *)

(* The answer is lost: the form shows an error and the handler goes on.    *)
LoseAnswer(h) ==
    /\ call[h].at # "idle" /\ call[h].by # None /\ Fault
    /\ call' = [call EXCEPT ![h].by = None]
    /\ UNCHANGED <<tables, mail, client, calls>>

(* A statement whose error is answered fails, or the server dies.          *)
Abort(h) ==
    /\ call[h].at # "idle" /\ Fault
    /\ AnswerError(h)
    /\ UNCHANGED <<tables, mail, calls>>

-----------------------------------------------------------------------------
Init ==
    /\ user = None /\ pending = None /\ issued = 0
    /\ queue = {} /\ mailbox = {} /\ lost = {}
    /\ call = [h \in Handlers |-> Idle]
    /\ form = [b \in Browsers |-> "other"]
    /\ regId = [b \in Browsers |-> None]
    /\ cookie = [b \in Browsers |-> FALSE]
    /\ verified = {} /\ calls = 0 /\ faults = 0

Serve(h) ==
    \/ FindUser(h) \/ DeletePrior(h) \/ Insert(h) \/ Enqueue(h)
    \/ ReadPending(h) \/ CountWrong(h) \/ CreateUser(h) \/ DropPending(h)
    \/ Mint(h) \/ CheckPassword(h) \/ FindGoogle(h) \/ CreateGoogle(h)
    \/ Revoke(h)

Submit(b) ==
    \/ SubmitRegister(b) \/ SubmitLogin(b) \/ SignInWithGoogle(b)
    \/ SubmitLogout(b)
    \/ \E code \in mailbox \cup {0} : SubmitCode(b, code)

Next ==
    \/ \E b \in Browsers :
          Open(b) \/ Submit(b)
    \/ \E h \in Handlers : Serve(h) \/ LoseAnswer(h) \/ Abort(h)
    \/ \E m \in queue : Deliver(m) \/ DeliveryFails(m) \/ TaskLost(m)
    \/ Expire

Spec == Init /\ [][Next]_vars

-----------------------------------------------------------------------------
(* Correctness.                                                            *)

(* What a handler knows of its request: whose it is, unless its answer is  *)
(* lost, and the registration or the password it is about                  *)
Calls ==
    LET By == Browsers \cup {None}
        Id == 1 .. issued
    IN
    {Idle}
    \cup [at : {"findUser", "deletePrior", "insert", "checkPassword", "mint"},
          by : By, owner : Browsers]
    \cup [at : {"enqueue"}, by : By, id : Id]
    \cup [at : {"readPending"}, by : By, id : Id, code : mailbox \cup {0}]
    \cup [at : {"createUser", "countWrong", "dropPending", "mint"},
          by : By, id : Id, owner : Browsers]
    \cup [at : {"findGoogle", "createGoogle", "mint", "revoke"}, by : By]

(* Every variable keeps its type.                                          *)
TypeOK ==
    /\ user \in {None} \cup Users
    /\ pending \in {None} \cup Registrations
    /\ pending # None => pending.id \in 1 .. issued
    /\ mailbox \cup lost \subseteq 1 .. issued
    /\ queue \subseteq [code : 1 .. issued, failed : 0 .. MaxRetry]
    /\ call \in [Handlers -> Calls]
    /\ form \in [Browsers -> {"otp", "other"}]
    /\ regId \in [Browsers -> {None} \cup 1 .. issued]
    /\ cookie \in [Browsers -> BOOLEAN]
    /\ verified \subseteq Browsers
    /\ {issued, calls, faults} \subseteq Nat

(* An account belongs to whoever proved the address with it: its password  *)
(* is that of the registration whose code came by mail, and a browser      *)
(* whose code was accepted has an account with its own password, though    *)
(* registrations for the address replace each other meanwhile.             *)
AccountIsProven ==
    /\ user # None /\ user.owner # Google => user.reg \in mailbox
    /\ \A b \in verified : user # None /\ user.owner = b

(* A registration is closed after MaxWrong wrong codes; handlers that read *)
(* its count at the same time let through one more each.                   *)
WrongCodesBounded ==
    pending # None => pending.wrong <= MaxWrong + Cardinality(Handlers) - 1

(* The code that a form waits for is not forgotten: as long as the         *)
(* registration stands it has come or is still in the queue, through failed*)
(* deliveries and registrations that replace each other, unless it could   *)
(* not be queued or the queue gave up or lost it.                          *)
Awaited(b) == form[b] = "otp" /\ pending # None /\ pending.id = regId[b]

CodeIsOnItsWay ==
    \A b \in Browsers :
        Awaited(b) => \/ regId[b] \in mailbox \cup lost
                      \/ \E m \in queue : m.code = regId[b]
=============================================================================
