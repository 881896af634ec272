----------------------------- MODULE BrowserTabs -----------------------------
(***************************************************************************)
(* The tabs of the winner's browser: the form that claims the prize        *)
(* (ClaimPrizeForm), the tracker that polls the payout's status            *)
(* (WinnerStatus) and the contact form, each of which changes state on the *)
(* server through apiFetch.                                                *)
(*                                                                         *)
(* The tabs share one cookie jar.  csrf_token is issued by GET /csrf when  *)
(* it carries none, and a POST must repeat it in a header: between reading *)
(* the cookie for the header and sending the request, the answer to        *)
(* another tab's GET may put another token into the jar.                   *)
(*                                                                         *)
(* The challenge of day 0 is solved and this player is its winner; an      *)
(* admin decides the payout in the database.                               *)
(***************************************************************************)
EXTENDS Integers

CONSTANTS
    Tabs,
    Methods,     \* the payout methods to choose from
    Texts,       \* what is typed: its UTF-16 units and its code points
    MinLength,   \* the bounds of a text, which stand for those of every
    MaxLength,   \* field
    None,        \* no cookie, no refusal
    Prize,       \* the prize of day 0
    LastDay,     \* bound: the days are 0 .. LastDay
    MaxSubmits,  \* bound: forms submitted
    MaxLoads,    \* bound: pages loaded after the first ones
    MaxFaults,   \* bound: failed calls
    MaxUpsets    \* bound: failed calls, new days and the end of the session

ASSUME TabsAssumption ==
    /\ Prize \in Nat /\ None \notin Nat /\ None \notin STRING
    /\ {LastDay, MaxSubmits, MaxLoads, MaxFaults, MaxUpsets} \subseteq Nat

ASSUME FormAssumption ==
    /\ Methods \subseteq {"Bank", "ATM", "Multicaixa"}
    /\ Texts \subseteq [units : Nat, runes : Nat]
    /\ {MinLength, MaxLength} \subseteq Nat

VARIABLES
    \* the server
    today,
    payout,     \* the payout request of day 0: "none" or its status
    mails,      \* contact messages forwarded to the admin
    issued,     \* csrf tokens issued so far; they are 1, 2, ...
    \* the cookie jar
    jar,        \* csrf_token
    session,    \* access_token, which lasts 15 minutes
    cookies,    \* tokens in Set-Cookie headers that have not arrived yet
    \* each tab
    page,       \* "claim", "tracker", "contact" or "other"
    success,    \* its form is done
    shown,      \* the payoutStatus of its tracker
    post,       \* its mutating request: how far apiFetch is
    polls,      \* its polls: "sent", or the status in their answer
    misread,    \* tabs with a poll for which the payout could not be read
    submits, loads, faults  \* counters for the bounds

server  == <<today, payout, mails>>
polling == <<polls, misread>>
bounds  == <<submits, loads, faults>>
vars    == <<today, payout, mails, issued, jar, session, cookies, page, success,
             shown, post, polls, misread, submits, loads, faults>>

Settled == {"paid", "rejected"}
Idle    == [at |-> "none"]

(* The views of the forms: a form is there until it succeeded, and its     *)
(* inputs and its button are disabled while its request is under way.      *)
ClaimForm(t)   == page[t] = "claim" /\ ~success[t]
ContactForm(t) == page[t] = "contact" /\ ~success[t]
Waits(t)       == post[t].at # "none" /\ post[t].to = page[t]
CanSubmit(t)   == (ClaimForm(t) \/ ContactForm(t)) /\ ~Waits(t)

(* atmEligible of the form, and the same rule in ClaimPrize                *)
AtmEligible  == Prize >= 1000 /\ Prize <= 30000 /\ Prize % 1000 = 0
AtmAmount(p) == p >= 1000 /\ p <= 30000 /\ p % 1000 = 0

(* The buttons that choose a method; the contact form has none, where any  *)
(* method but one stands for that.                                         *)
Offered(t) ==
    {m \in Methods : m = "ATM" => page[t] = "claim" /\ AtmEligible}

Fits(length) == MinLength <= length /\ length <= MaxLength

(* Variant: the claim form leaves the lengths to the server, too.          *)
AcceptsAll(t) == Texts

(* The claim form counts the UTF-16 units of what it has trimmed and turns *)
(* away what does not fit; the contact form leaves that to the server.     *)
Accepts(t) ==
    {text \in Texts : page[t] = "claim" => Fits(text.units)}

(* The three steps of the tracker, and what tab t displays of them         *)
Steps(status) ==
    [cracked |-> TRUE,
     claimed |-> status \in {"pending"} \cup Settled,
     sent    |-> status = "paid",
     issue   |-> status = "rejected"]

Displayed(t) == Steps(shown[t])

(* payout_status of the winner's GetMyStatus                               *)
Status == IF payout = "none" THEN "unclaimed" ELSE payout

(* What happens to the tabs from outside, bounded together                 *)
Upsets == today + faults + (IF session THEN 0 ELSE 1)

Fault == faults < MaxFaults /\ Upsets < MaxUpsets /\ faults' = faults + 1

-----------------------------------------------------------------------------
(* Pages.                                                                  *)

(* app/[locale]/page.tsx for this player: the challenge is solved on day 0 *)
(* only, and without a session nobody is known to be the winner.           *)
Home == IF today # 0 \/ ~session THEN "other"
        ELSE IF payout = "none" THEN "claim" ELSE "tracker"

(* A page load: what was mounted is gone, its request goes on alone.       *)
Mount(t, p, status) ==
    /\ loads < MaxLoads /\ loads' = loads + 1
    /\ page' = [page EXCEPT ![t] = p]
    /\ success' = [success EXCEPT ![t] = FALSE]
    /\ shown' = [shown EXCEPT ![t] = status]
    /\ post' = [post EXCEPT ![t] =
                   IF @.at = "none" THEN @ ELSE [@ EXCEPT !.to = "nobody"]]
    /\ polls' = [polls EXCEPT ![t] = {}] /\ misread' = misread \ {t}
    /\ UNCHANGED <<server, issued, jar, session, cookies, submits>>

Load(t) ==
    /\ \E p \in {Home, "contact"} : Mount(t, p, Status)
    /\ UNCHANGED faults

(* The payout cannot be read, which leaves "unclaimed", or the call of the *)
(* page fails, which makes nobody the winner.                              *)
LoadFails(t) ==
    /\ today = 0 /\ session /\ Fault
    /\ \E p \in {"claim", "other"} : Mount(t, p, "unclaimed")

(* The access token expires and no page calls POST /refresh; logging in    *)
(* again begins a new visit.                                               *)
Expire ==
    /\ session /\ session' = FALSE
    /\ Upsets < MaxUpsets
    /\ UNCHANGED <<server, issued, jar, cookies, page, success, shown, post,
                   polling, bounds>>

-----------------------------------------------------------------------------
(* The forms.                                                              *)

(* The jar has its token and no GET /csrf is under way that could bring    *)
(* another one.                                                            *)
TokensSettled ==
    /\ jar # None /\ cookies = {}
    /\ \A t \in Tabs : post[t].at # "csrf"

(* handleSubmit and apiFetch up to the first await, with the method and    *)
(* the text chosen so far: the body is put together, and ensureCsrfToken   *)
(* finds the cookie or asks GET /csrf for it.  What the request began amid *)
(* is remembered for the properties.                                       *)
Request(t, method, text) ==
    [to |-> page[t], kind |-> page[t], method |-> method, text |-> text,
     cookie |-> None, token |-> jar, answer |-> None,
     amid |-> IF TokensSettled THEN "calm" ELSE "exchange",
     at |-> IF jar = None THEN "csrf" ELSE "ready"]

Submit(t, method, text) ==
    /\ CanSubmit(t) /\ post[t].at = "none"  \* bound: one request for a tab
    /\ submits < MaxSubmits /\ submits' = submits + 1
    /\ method \in Offered(t) /\ text \in Accepts(t)
    /\ post' = [post EXCEPT ![t] = Request(t, method, text)]
    /\ UNCHANGED <<server, issued, jar, session, cookies, page, success, shown,
                   polling, loads, faults>>

(* ensureCSRFCookie of a GET that carried no token                         *)
ServeCsrf(t) ==
    /\ post[t].at = "csrf"
    /\ issued' = issued + 1 /\ cookies' = cookies \cup {issued'}
    /\ post' = [post EXCEPT ![t].at = "issued", ![t].cookie = issued']
    /\ UNCHANGED <<server, jar, session, page, success, shown, polling, bounds>>

CookieArrives(n) ==
    /\ n \in cookies
    /\ cookies' = cookies \ {n} /\ jar' = n
    /\ UNCHANGED <<server, issued, session, page, success, shown, post, polling,
                   bounds>>

(* After the answer of GET /csrf the cookie is read again.                 *)
ReadToken(t) ==
    /\ post[t].at = "issued" /\ post[t].cookie \notin cookies
    /\ post' = [post EXCEPT ![t].at = "ready", ![t].token = jar]
    /\ UNCHANGED <<server, issued, jar, session, cookies, page, success, shown,
                   polling, bounds>>

(* GET /csrf fails: the request is sent without the header.                *)
CsrfFails(t) ==
    /\ post[t].at = "csrf" /\ Fault
    /\ post' = [post EXCEPT ![t].at = "ready"]
    /\ UNCHANGED <<server, issued, jar, session, cookies, page, success, shown,
                   polling, submits, loads>>

(* The browser attaches the jar's cookie when it sends the request.        *)
Send(t) ==
    /\ post[t].at = "ready"
    /\ post' = [post EXCEPT ![t].at = "sent", ![t].cookie = jar]
    /\ UNCHANGED <<server, issued, jar, session, cookies, page, success, shown,
                   polling, bounds>>

(* The tests of middleware/csrf.go on a POST                               *)
PassesCsrf(r) == r.cookie # None /\ r.token # None /\ r.cookie = r.token

Respond(t, answer) ==
    post' = [post EXCEPT ![t].at = "answered", ![t].answer = answer]

(* The binding of ClaimRequest, which counts code points                   *)
Binds(r) ==
    r.method \in {"Bank", "ATM", "Multicaixa"} /\ Fits(r.text.runes)

(* POST /claim: the session, the token, the binding, the row of today and  *)
(* its winner, the ATM rule; an earlier payout makes the claim a           *)
(* repetition.                                                             *)
ServeClaim(t) ==
    LET r == post[t]
        refused == CASE ~session -> "unauthorized"
                     [] ~PassesCsrf(r) -> "csrf"
                     [] ~Binds(r) -> "invalid"
                     [] today # 0 -> "notWinner"
                     [] r.method = "ATM" /\ ~AtmAmount(Prize) -> "amount"
                     [] OTHER -> None
    IN
    /\ r.at = "sent" /\ r.kind = "claim"
    /\ Respond(t, IF refused = None THEN "ok" ELSE refused)
    /\ payout' = IF refused = None /\ payout = "none" THEN "pending" ELSE payout
    /\ UNCHANGED <<today, mails, issued, jar, session, cookies, page, success,
                   shown, polling, bounds>>

(* POST /contact: the token, the lengths, then the mail; no session needed *)
ServeContact(t) ==
    LET r == post[t]
        refused == CASE ~PassesCsrf(r) -> "csrf"
                     [] ~Fits(r.text.runes) -> "invalid"
                     [] OTHER -> None
    IN
    /\ r.at = "sent" /\ r.kind = "contact"
    /\ Respond(t, IF refused = None THEN "ok" ELSE refused)
    /\ mails' = IF refused = None THEN mails + 1 ELSE mails
    /\ UNCHANGED <<today, payout, issued, jar, session, cookies, page, success,
                   shown, polling, bounds>>

(* The call fails or a rate limit refuses it before it is served, or its   *)
(* answer is lost.                                                         *)
PostFails(t) ==
    /\ post[t].at \in {"sent", "answered"} /\ Fault
    /\ Respond(t, "error")
    /\ UNCHANGED <<server, issued, jar, session, cookies, page, success, shown,
                   polling, submits, loads>>

(* Variant: the answer's status is not looked at.                          *)
AnyAnswer(t) ==
    /\ post[t].at = "answered"
    /\ post' = [post EXCEPT ![t] = Idle]
    /\ success' = [success EXCEPT ![t] = @ \/ Waits(t)]
    /\ UNCHANGED <<server, issued, jar, session, cookies, page, shown, polling,
                   bounds>>

(* handleSubmit after the answer, if the form is still there               *)
Answered(t) ==
    /\ post[t].at = "answered"
    /\ post' = [post EXCEPT ![t] = Idle]
    /\ success' = [success EXCEPT ![t] =
                      @ \/ (Waits(t) /\ post[t].answer = "ok")]
    /\ UNCHANGED <<server, issued, jar, session, cookies, page, shown, polling,
                   bounds>>

-----------------------------------------------------------------------------
(* The payout and the tracker.                                             *)

(* The admin's update of the row                                           *)
AdminSettles ==
    /\ payout = "pending" /\ payout' \in Settled
    /\ UNCHANGED <<today, mails, issued, jar, session, cookies, page, success,
                   shown, post, polling, bounds>>

Midnight ==
    /\ today < LastDay /\ today' = today + 1
    /\ Upsets < MaxUpsets
    /\ UNCHANGED <<payout, mails, issued, jar, session, cookies, page, success,
                   shown, post, polling, bounds>>

(* Every 30 seconds while "pending".  The jar holds a token by then, for a *)
(* claim was accepted with it.  (A poll is not sent here while another is  *)
(* unserved, which would read the same.)                                   *)
Poll(t) ==
    /\ page[t] = "tracker" /\ shown[t] = "pending"
    /\ "sent" \notin polls[t]
    /\ polls' = [polls EXCEPT ![t] = @ \cup {"sent"}]
    /\ UNCHANGED <<server, issued, jar, session, cookies, page, success, shown,
                   post, misread, bounds>>

(* Variant: the body of a refused poll is taken for an answer.             *)
MyStatusUnchecked == IF session THEN {{Status}} ELSE {{"error"}}

(* The answers of GetMyStatus that reads all it asks the database for, of  *)
(* today's challenge: "unclaimed" for one that is not won.  None counts    *)
(* that is not ok: 404 while a new day has no challenge, 401 without a     *)
(* session.                                                                *)
MyStatus ==
    IF ~session THEN {{}} ELSE IF today = 0 THEN {{Status}}
    ELSE {{"unclaimed"}, {}}

Answer(t, answer) ==
    polls' = [polls EXCEPT ![t] = (@ \ {"sent"}) \cup answer]

ServePoll(t) ==
    /\ "sent" \in polls[t]
    /\ \E answer \in MyStatus : Answer(t, answer)
    /\ UNCHANGED <<server, issued, jar, session, cookies, page, success, shown,
                   post, misread, bounds>>

(* The query for the winner's payout fails and its error is dropped: 200,  *)
(* "unclaimed".                                                            *)
PayoutUnread(t) ==
    /\ "sent" \in polls[t] /\ session /\ today = 0 /\ Fault
    /\ Answer(t, {"unclaimed"}) /\ misread' = misread \cup {t}
    /\ UNCHANGED <<server, issued, jar, session, cookies, page, success, shown,
                   post, submits, loads>>

PollFails(t) ==
    /\ Fault
    /\ \E p \in polls[t] : polls' = [polls EXCEPT ![t] = @ \ {p}]
    /\ UNCHANGED <<server, issued, jar, session, cookies, page, success, shown,
                   post, misread, submits, loads>>

(* Variant: only "paid" is taken over.                                     *)
DiffersWhenPaid(t, s) == s = "paid"

(* Variant: the answer is compared with the status shown by now.           *)
DiffersFromShown(t, s) == s # shown[t]

(* The status a poll compares its answer with is that of the effect it     *)
(* belongs to, which is "pending".                                         *)
Differs(t, s) == s # "pending"

PollAnswered(t, s) ==
    /\ s \in polls[t] /\ s # "sent"
    /\ polls' = [polls EXCEPT ![t] = @ \ {s}]
    /\ shown' = IF Differs(t, s) THEN [shown EXCEPT ![t] = s] ELSE shown
    /\ UNCHANGED <<server, issued, jar, session, cookies, page, success, post,
                   misread, bounds>>

-----------------------------------------------------------------------------
Init ==
    /\ today = 0 /\ payout = "none" /\ mails = 0 /\ issued = 0
    /\ jar = None /\ session = TRUE /\ cookies = {}
    /\ page = [t \in Tabs |-> "claim"]
    /\ success = [t \in Tabs |-> FALSE]
    /\ shown = [t \in Tabs |-> "unclaimed"]
    /\ post = [t \in Tabs |-> Idle] /\ polls = [t \in Tabs |-> {}]
    /\ misread = {}
    /\ submits = 0 /\ loads = 0 /\ faults = 0

Fetch(t) == ServeCsrf(t) \/ ReadToken(t) \/ Send(t)
Serve(t) == ServeClaim(t) \/ ServeContact(t)
Statuses == {"unclaimed", "pending"} \cup Settled

Next ==
    \/ Expire \/ AdminSettles \/ Midnight
    \/ \E n \in cookies : CookieArrives(n)
    \/ \E t \in Tabs :
          \/ Load(t) \/ LoadFails(t)
          \/ \E m \in Methods, text \in Texts : Submit(t, m, text)
          \/ Fetch(t) \/ CsrfFails(t)
          \/ Serve(t) \/ PostFails(t) \/ Answered(t)
          \/ Poll(t) \/ ServePoll(t) \/ PayoutUnread(t) \/ PollFails(t)
          \/ \E s \in Statuses : PollAnswered(t, s)

(* The interval fires, polls are served and what is answered arrives.      *)
Fairness ==
    \A t \in Tabs :
        /\ WF_vars(Poll(t) \/ ServePoll(t))
        /\ WF_vars(\E s \in Statuses : PollAnswered(t, s))

Spec == Init /\ [][Next]_vars /\ Fairness

-----------------------------------------------------------------------------
(* Correctness.                                                            *)

(* A request of a tab, from the submission of its form to its answer       *)
Requests ==
    [to : {"claim", "contact", "nobody"}, kind : {"claim", "contact"},
     method : Methods, text : Texts,
     cookie : {None} \cup 1 .. issued, token : {None} \cup 1 .. issued,
     amid : {"calm", "exchange"},
     answer : {None, "ok", "error", "unauthorized", "csrf", "notWinner",
               "amount", "invalid"},
     at : {"csrf", "issued", "ready", "sent", "answered"}]

(* Every variable keeps its type.                                          *)
TypeOK ==
    /\ today \in 0 .. LastDay /\ payout \in {"none", "pending"} \cup Settled
    /\ issued \in Nat /\ jar \in {None} \cup 1 .. issued
    /\ cookies \subseteq 1 .. issued /\ session \in BOOLEAN
    /\ page \in [Tabs -> {"claim", "tracker", "contact", "other"}]
    /\ success \in [Tabs -> BOOLEAN]
    /\ shown \in [Tabs -> Statuses]
    /\ polls \in [Tabs -> SUBSET (Statuses \cup {"sent"})]
    /\ post \in [Tabs -> {Idle} \cup Requests]
    /\ misread \subseteq Tabs
    /\ {mails, submits, loads, faults} \subseteq Nat

(* No tab is ahead of the database: "Request Received!" and "Claim         *)
(* Submitted" need a payout request, "Prize Sent" and "Issue with Payout"  *)
(* the admin's decision, a message that was sent a mail, through lost      *)
(* answers, other tabs, midnight and the end of the session.               *)
ShownIsRecorded ==
    \A t \in Tabs :
        /\ success[t] =>
              IF page[t] = "contact" THEN mails > 0 ELSE payout # "none"
        /\ page[t] = "tracker" =>
              /\ Displayed(t).claimed => payout # "none"
              /\ Displayed(t).sent => payout = "paid"
              /\ Displayed(t).issue => payout = "rejected"

(* Within the day a tracker that shows the admin's decision keeps it,      *)
(* though polls that were sent before are still answered after it, unless  *)
(* the payout could not be read for one of its polls.                      *)
TrackerNeverTurnsBack ==
    [][\A t \in Tabs :
          /\ page[t] = "tracker" /\ page'[t] = "tracker" /\ today' = 0
          /\ shown[t] \in Settled
          => shown'[t] = shown[t] \/ t \in misread]_vars

(* A request that is answered is refused for a cause, though calls fail    *)
(* and are repeated: a claim only without a session, on a later day than   *)
(* the win or for a text whose UTF-16 units are not its code points, for   *)
(* form and server agree on methods, amounts and, but for that, lengths.   *)
(* The token test refuses only what began while tokens were being issued,  *)
(* and then only if there were two of them or a call failed.               *)
RefusedForCause ==
    \A t \in Tabs :
        LET r == post[t] IN
        r.at = "answered" /\ r.answer \notin {"ok", "error"} =>
            \/ r.answer = "unauthorized" /\ r.kind = "claim" /\ ~session
            \/ r.answer = "notWinner" /\ r.kind = "claim" /\ today # 0
            \/ /\ r.answer = "invalid"
               /\ r.kind = "claim" => r.text.units # r.text.runes
            \/ /\ r.answer = "csrf" /\ r.amid = "exchange"
               /\ issued > 1 \/ (r.token = None /\ faults > 0)

(* The admin's decision reaches every tracker that waits for it, as long   *)
(* as the day and the session last, the tab stays and its polls can read   *)
(* the payout.                                                             *)
Waiting(t) == payout \in Settled /\ page[t] = "tracker" /\ shown[t] = "pending"

SettledIsShown ==
    \A t \in Tabs :
        Waiting(t) ~> \/ shown[t] = payout \/ page[t] # "tracker"
                      \/ today # 0 \/ ~session \/ t \in misread

-----------------------------------------------------------------------------
(* What the comment on WinnerStatus says: "when they update the DB status  *)
(* to "paid" or "rejected", the UI will reflect it within one polling cycle*)
(* without the user needing to refresh".                                   *)

(* The admin's decision reaches every tracker that waits for it.           *)
DecisionIsReflected ==
    \A t \in Tabs : Waiting(t) ~> (shown[t] = payout \/ page[t] # "tracker")
=============================================================================
