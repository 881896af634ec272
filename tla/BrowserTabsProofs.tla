-------------------------- MODULE BrowserTabsProofs --------------------------
(***************************************************************************)
(* The safety properties of BrowserTabs for every number of tabs, every    *)
(* choice of payout methods, every prize and every value of the bounds.    *)
(***************************************************************************)
EXTENDS BrowserTabs, TLAPS

(* Whatever a tab shows or is about to show, on any page, the database has *)
(* it already: the status on the screen, the answers of polls that are     *)
(* still under way, and the answer of a form's request, which only the     *)
(* form that sent it will take over.                                       *)
Recorded(status) ==
    /\ status \in {"pending"} \cup Settled => payout # "none"
    /\ status \in Settled => payout = status

(* A form that is done, and an accepted request, have their row or mail.   *)
SuccessInv(t) ==
    success[t] => IF page[t] = "contact" THEN mails > 0 ELSE payout # "none"

AcceptedInv(t) ==
    post[t].at # "none" =>
        /\ post[t].to \in {post[t].kind, "nobody"}
        /\ post[t].at = "answered" /\ post[t].answer = "ok" =>
              IF post[t].kind = "contact" THEN mails > 0 ELSE payout # "none"

ShownInv ==
    \A t \in Tabs :
        /\ Recorded(shown[t])
        /\ \A s \in polls[t] : Recorded(s)
        /\ SuccessInv(t) /\ AcceptedInv(t)

(* A poll is sent for a claim that was made, and is answered "unclaimed"   *)
(* on a later day only, or when the payout could not be read.              *)
PollInv ==
    \A t \in Tabs :
        /\ polls[t] # {} => payout # "none"
        /\ "unclaimed" \in polls[t] => today # 0 \/ t \in misread

(* A request carries a token unless its GET /csrf failed, and the jar has  *)
(* one from the arrival of the first cookie on; the form's rules hold in   *)
(* what it sent.                                                           *)
TokenInv(t) ==
    post[t].at # "none" =>
        /\ post[t].at \in {"csrf", "issued"} => post[t].token = None
        /\ post[t].at = "issued" => post[t].cookie \in cookies \/ jar # None
        /\ post[t].at \in {"ready", "sent", "answered"} =>
              post[t].token # None \/ faults > 0
        /\ post[t].at \in {"ready", "sent"} /\ post[t].token # None =>
              jar # None
        /\ post[t].at = "sent" /\ post[t].token # None =>
              post[t].cookie # None
        /\ post[t].method = "ATM" => post[t].kind = "claim" /\ AtmEligible
        /\ post[t].kind = "claim" => Fits(post[t].text.units)

(* What began when the exchange of tokens was over carries the token that  *)
(* stays in the jar.                                                       *)
CalmInv(t) ==
    post[t].at # "none" /\ post[t].amid = "calm" =>
        /\ TokensSettled /\ post[t].token = jar
        /\ post[t].at \in {"ready", "sent", "answered"}
        /\ post[t].at = "sent" => post[t].cookie = jar

(* An answer refuses for a cause.                                          *)
Caused(t) ==
    post[t].at = "answered" /\ post[t].answer \notin {"ok", "error"} =>
        \/ /\ post[t].answer = "unauthorized" /\ post[t].kind = "claim"
           /\ ~session
        \/ post[t].answer = "notWinner" /\ post[t].kind = "claim" /\ today # 0
        \/ /\ post[t].answer = "invalid"
           /\ post[t].kind = "claim" => post[t].text.units # post[t].text.runes
        \/ /\ post[t].answer = "csrf" /\ post[t].amid = "exchange"
           /\ issued > 1 \/ (post[t].token = None /\ faults > 0)

RefusedInv == \A t \in Tabs : TokenInv(t) /\ CalmInv(t) /\ Caused(t)

-----------------------------------------------------------------------------
(* Every variable keeps its type.                                          *)
LEMMA TypeInit == Init => TypeOK
  BY TabsAssumption DEF Init, TypeOK, Statuses

LEMMA TypeNext == TypeOK /\ [Next]_vars => TypeOK'
  <1> SUFFICES ASSUME TypeOK, [Next]_vars PROVE TypeOK'
    OBVIOUS
  <1> USE TabsAssumption
      DEF TypeOK, Statuses, Settled, Requests, Idle, server, bounds, polling,
          Fault
  <1>1. ASSUME NEW t \in Tabs, Load(t) \/ LoadFails(t) PROVE TypeOK'
    <2>1. PICK p \in {"claim", "tracker", "contact", "other"},
               status \in Statuses : Mount(t, p, status)
      <3>1. CASE Load(t)
        <4>1. Status \in Statuses /\ {Home, "contact"} \subseteq
                 {"claim", "tracker", "contact", "other"}
          BY DEF Status, Home
        <4> QED
          BY <3>1, <4>1 DEF Load
      <3>2. CASE LoadFails(t)
        BY <3>2 DEF LoadFails
      <3> QED
        BY <1>1, <3>1, <3>2
    <2>2. faults' \in Nat
      BY <1>1 DEF Load, LoadFails
    <2>3. post'[t] \in {Idle} \cup Requests
      BY <2>1 DEF Mount
    <2> QED
      BY <2>1, <2>2, <2>3 DEF Mount
  <1>2. ASSUME NEW t \in Tabs, NEW m \in Methods,
               NEW text \in Texts, Submit(t, m, text)
        PROVE  TypeOK'
    <2>1. page[t] \in {"claim", "contact"}
      BY <1>2 DEF Submit, CanSubmit, ClaimForm, ContactForm
    <2>2. Request(t, m, text) \in Requests
      BY <2>1 DEF Request
    <2> QED
      BY <1>2, <2>2 DEF Submit
  <1>3. ASSUME NEW t \in Tabs, ServeCsrf(t) PROVE TypeOK'
    <2>1. post[t] \in Requests
      BY <1>3 DEF ServeCsrf
    <2>2. 1 .. issued \subseteq 1 .. issued' /\ issued' \in 1 .. issued'
      BY <1>3 DEF ServeCsrf
    <2>3. post'[t] \in Requests'
      BY <1>3, <2>1, <2>2 DEF ServeCsrf
    <2>4. \A u \in Tabs \ {t} : post'[u] \in ({Idle} \cup Requests)'
      BY <1>3, <2>2 DEF ServeCsrf
    <2>5. post' \in [Tabs -> ({Idle} \cup Requests)']
      BY <1>3, <2>3, <2>4 DEF ServeCsrf
    <2> QED
      BY <1>3, <2>2, <2>5 DEF ServeCsrf
  <1>4. ASSUME NEW n \in cookies, CookieArrives(n) PROVE TypeOK'
    BY <1>4 DEF CookieArrives
  <1>5. ASSUME NEW t \in Tabs, ReadToken(t) \/ Send(t) \/ CsrfFails(t)
        PROVE  TypeOK'
    <2>1. post[t] \in Requests
      BY <1>5 DEF ReadToken, Send, CsrfFails
    <2>2. post'[t] \in {Idle} \cup Requests
      BY <1>5, <2>1 DEF ReadToken, Send, CsrfFails
    <2> QED
      BY <1>5, <2>2 DEF ReadToken, Send, CsrfFails
  <1>6 ASSUME NEW t \in Tabs, ServeClaim(t) PROVE TypeOK'
    <2> DEFINE Outcomes == {"ok", "error", "unauthorized", "csrf", "notWinner",
                            "amount", "invalid"}
    <2>1. post[t] \in Requests
      BY <1>6 DEF ServeClaim
    <2>2. PICK answer \in Outcomes : Respond(t, answer)
      BY <1>6 DEF ServeClaim
    <2>3. post'[t] \in Requests
      BY <2>1, <2>2 DEF Respond
    <2>4. post' \in [Tabs -> {Idle} \cup Requests]
      BY <2>2, <2>3 DEF Respond
    <2> QED
      BY <1>6, <2>4 DEF ServeClaim
  <1>7 ASSUME NEW t \in Tabs, ServeContact(t) PROVE TypeOK'
    <2> DEFINE Outcomes == {"ok", "error", "unauthorized", "csrf", "notWinner",
                            "amount", "invalid"}
    <2>1. post[t] \in Requests
      BY <1>7 DEF ServeContact
    <2>2. PICK answer \in Outcomes : Respond(t, answer)
      BY <1>7 DEF ServeContact
    <2>3. post'[t] \in Requests
      BY <2>1, <2>2 DEF Respond
    <2>4. post' \in [Tabs -> {Idle} \cup Requests]
      BY <2>2, <2>3 DEF Respond
    <2> QED
      BY <1>7, <2>4 DEF ServeContact
  <1>8. ASSUME NEW t \in Tabs, PostFails(t) PROVE TypeOK'
    <2>1. post[t] \in Requests
      BY <1>8 DEF PostFails
    <2>2. post'[t] \in Requests
      BY <1>8, <2>1 DEF PostFails, Respond
    <2>3. post' \in [Tabs -> {Idle} \cup Requests]
      BY <1>8, <2>2 DEF PostFails, Respond
    <2> QED
      BY <1>8, <2>3 DEF PostFails
  <1>9. ASSUME NEW t \in Tabs, Answered(t) PROVE TypeOK'
    <2> DEFINE done == success[t] \/ (Waits(t) /\ post[t].answer = "ok")
    <2>1. done \in BOOLEAN
      <3>1. success[t] \in BOOLEAN
        BY SMT
      <3> HIDE DEF TypeOK
      <3> QED
        BY <3>1, Zenon DEF Waits
    <2>2. success' = [success EXCEPT ![t] = done]
      BY <1>9, Zenon DEF Answered
    <2> HIDE DEF done
    <2>3. success' \in [Tabs -> BOOLEAN]
      BY <2>1, <2>2
    <2>4. post' \in [Tabs -> {Idle} \cup Requests]
      BY <1>9 DEF Answered
    <2> QED
      BY <1>9, <2>3, <2>4 DEF Answered
  <1>10. ASSUME NEW t \in Tabs,
                Poll(t) \/ ServePoll(t) \/ PayoutUnread(t) \/ PollFails(t)
         PROVE  TypeOK'
    <2> DEFINE Answers == Statuses \cup {"sent"}
    <2>1. \E a \in SUBSET Answers : polls' = [polls EXCEPT ![t] = a]
      <3>1. CASE Poll(t)
        BY <3>1 DEF Poll
      <3>2. CASE ServePoll(t)
        <4>1. PICK answer \in MyStatus : Answer(t, answer)
          BY <3>2 DEF ServePoll
        <4>2. answer \in SUBSET Answers
          BY DEF MyStatus, Status
        <4> QED
          BY <4>1, <4>2 DEF Answer
      <3>3. CASE PollFails(t)
        <4>1. PICK a \in polls[t] : polls' = [polls EXCEPT ![t] = @ \ {a}]
          BY <3>3 DEF PollFails
        <4> QED
          BY <4>1
      <3>4. CASE PayoutUnread(t)
        BY <3>4 DEF PayoutUnread, Answer
      <3> QED
        BY <1>10, <3>1, <3>2, <3>3, <3>4, Zenon
    <2>2. polls' \in [Tabs -> SUBSET Answers]
      BY <2>1
    <2>3. UNCHANGED <<server, issued, jar, session, cookies, page, success,
                      shown, post, submits, loads>>
         /\ faults' \in Nat /\ misread' \subseteq Tabs
      BY <1>10 DEF Poll, ServePoll, PayoutUnread, PollFails
    <2> QED
      BY <2>2, <2>3
  <1>11. ASSUME NEW t \in Tabs, NEW s \in Statuses, PollAnswered(t, s)
         PROVE  TypeOK'
    BY <1>11 DEF PollAnswered
  <1>12. ASSUME Expire \/ AdminSettles \/ Midnight PROVE TypeOK'
    <2>1. CASE Expire
      BY <2>1 DEF Expire
    <2>2. CASE AdminSettles
      BY <2>2 DEF AdminSettles
    <2>3. CASE Midnight
      BY <2>3 DEF Midnight
    <2> QED
      BY <1>12, <2>1, <2>2, <2>3
  <1>13. ASSUME UNCHANGED vars PROVE TypeOK'
    BY <1>13 DEF vars
  <1> QED
    BY <1>1, <1>2, <1>3, <1>4, <1>5, <1>6, <1>7, <1>8, <1>9, <1>10, <1>11,
       <1>12, <1>13 DEF Next, Fetch, Serve

(* Every variable keeps its type, a request of apiFetch at every moment of *)
(* the token exchange included, through cookies that replace each other,   *)
(* page loads and lost answers.                                            *)
THEOREM TypeHolds == Spec => []TypeOK
  BY TypeInit, TypeNext, PTL DEF Spec

-----------------------------------------------------------------------------
(* What the database holds stays true of it: the payout goes on from       *)
(* "none" to "pending" to the admin's decision, and mails only grow.       *)
LEMMA RecordStays ==
  ASSUME TypeOK, [Next]_vars
  PROVE  /\ payout # "none" => payout' # "none"
         /\ payout \in Settled => payout' = payout
         /\ mails > 0 => mails' > 0
         /\ today' >= today
  <1> USE DEF TypeOK, Settled, server, bounds
  <1>1. CASE AdminSettles \/ Midnight
    BY <1>1 DEF AdminSettles, Midnight
  <1>2. ASSUME NEW t \in Tabs, ServeClaim(t) \/ ServeContact(t)
        PROVE  /\ payout' = payout \/ payout = "none"
               /\ payout' \in {payout, "pending"}
               /\ mails' \in {mails, mails + 1} /\ today' = today
    BY <1>2 DEF ServeClaim, ServeContact
  <1>3. CASE \E t \in Tabs : ServeClaim(t) \/ ServeContact(t)
    BY <1>2, <1>3
  <1>4. CASE \/ Expire \/ \E n \in cookies : CookieArrives(n)
             \/ \E t \in Tabs :
                   \/ Load(t) \/ LoadFails(t)
                   \/ \E m \in Methods, text \in Texts :
                         Submit(t, m, text)
                   \/ Fetch(t) \/ CsrfFails(t) \/ PostFails(t) \/ Answered(t)
                   \/ Poll(t) \/ ServePoll(t) \/ PayoutUnread(t)
                   \/ PollFails(t)
                   \/ \E s \in Statuses : PollAnswered(t, s)
             \/ UNCHANGED vars
    <2>1. UNCHANGED <<today, payout, mails>>
      BY <1>4 DEF Expire, CookieArrives, Load, LoadFails, Mount, Submit,
         Fetch, ServeCsrf, ReadToken, Send, CsrfFails, PostFails, Answered,
         Poll, ServePoll, PayoutUnread, PollFails, PollAnswered, vars
    <2> QED
      BY <2>1
  <1> QED
    BY <1>1, <1>3, <1>4 DEF Next, Serve

(* The status on the screen and the answers of polls are never ahead of    *)
(* the database.                                                           *)
LEMMA ShownNext ==
  ASSUME TypeOK, ShownInv, [Next]_vars, NEW t \in Tabs
  PROVE  Recorded(shown[t])' /\ \A s \in polls'[t] : Recorded(s)'
  <1>1. \A s : Recorded(s) => Recorded(s)'
    BY RecordStays DEF Recorded
  <1>2. /\ Recorded(Status) /\ Recorded("unclaimed") /\ Recorded("sent")
        /\ Recorded(shown[t]) /\ \A s \in polls[t] : Recorded(s)
    BY DEF Recorded, Status, Settled, ShownInv, TypeOK
  <1> DEFINE Known == {shown[t], Status, "sent", "unclaimed"} \cup polls[t]
             Fresh == shown'[t] \in Known /\ polls'[t] \subseteq Known
  <1>3. ASSUME NEW u \in Tabs, Load(u) \/ LoadFails(u)
        PROVE  Fresh
    BY <1>3 DEF Load, LoadFails, Mount, TypeOK
  <1>4. ASSUME NEW u \in Tabs, Poll(u) \/ PayoutUnread(u) \/ PollFails(u)
        PROVE  Fresh
    <2>1. CASE Poll(u)
      BY <2>1 DEF Poll, TypeOK
    <2>2. CASE PollFails(u)
      <3>1. PICK a \in polls[u] : polls' = [polls EXCEPT ![u] = @ \ {a}]
        BY <2>2 DEF PollFails
      <3> QED
        BY <2>2, <3>1 DEF PollFails, TypeOK
    <2>3. CASE PayoutUnread(u)
      BY <2>3 DEF PayoutUnread, Answer, TypeOK
    <2> QED
      BY <1>4, <2>1, <2>2, <2>3
  <1>5. ASSUME NEW u \in Tabs, ServePoll(u)
        PROVE  Fresh
    <2>1. PICK answer \in MyStatus : Answer(u, answer)
      BY <1>5 DEF ServePoll
    <2>2. answer \subseteq Known
      BY DEF MyStatus
    <2> QED
      BY <1>5, <2>1, <2>2 DEF ServePoll, Answer, TypeOK
  <1>6. ASSUME NEW u \in Tabs, NEW s \in Statuses, PollAnswered(u, s)
        PROVE  Fresh
    BY <1>6 DEF PollAnswered, TypeOK
  <1>7. ASSUME \/ Expire \/ AdminSettles \/ Midnight
               \/ \E n \in cookies : CookieArrives(n)
               \/ \E u \in Tabs :
                     \/ \E m \in Methods, text \in Texts :
                           Submit(u, m, text)
                     \/ Fetch(u) \/ CsrfFails(u) \/ Serve(u)
                     \/ PostFails(u) \/ Answered(u)
               \/ UNCHANGED vars
        PROVE  Fresh
    BY <1>7 DEF Expire, AdminSettles, Midnight, CookieArrives, Submit, Fetch,
         ServeCsrf, ReadToken, Send, CsrfFails, Serve, ServeClaim,
         ServeContact, PostFails, Answered, polling, vars
  <1>8. Fresh
    <2> HIDE DEF Fresh
    <2> QED
      BY <1>3, <1>4, <1>5, <1>6, <1>7 DEF Next
  <1>9. \A s \in {shown'[t]} \cup polls'[t] : Recorded(s)
    BY <1>2, <1>8
  <1> QED
    BY <1>1, <1>9

(* A form that is done stays backed by its row or mail.                    *)
LEMMA SuccessNext ==
  ASSUME TypeOK, [Next]_vars, NEW t \in Tabs, SuccessInv(t), AcceptedInv(t)
  PROVE  SuccessInv(t)'
  <1>1. CASE Load(t) \/ LoadFails(t)
    BY <1>1 DEF Load, LoadFails, Mount, SuccessInv, TypeOK
  <1>2. CASE Answered(t)
    <2>1. page' = page /\ UNCHANGED <<mails, payout>>
      BY <1>2 DEF Answered, server
    <2>2. success'[t] => success[t] \/ (Waits(t) /\ post[t].answer = "ok")
      BY <1>2 DEF Answered, TypeOK
    <2>3. CASE success[t]
      BY <2>1, <2>3 DEF SuccessInv
    <2>4. CASE Waits(t) /\ post[t].answer = "ok"
      <3>1. post[t].at = "answered" /\ post[t].kind = page[t]
        BY <1>2, <2>4 DEF Answered, Waits, AcceptedInv, TypeOK, Requests, Idle
      <3> QED
        BY <2>1, <2>4, <3>1 DEF AcceptedInv, SuccessInv
    <2> QED
      BY <2>2, <2>3, <2>4 DEF SuccessInv
  <1>3. CASE success'[t] = success[t] /\ page'[t] = page[t]
    BY <1>3, RecordStays DEF SuccessInv
  <1> QED
    <2>1. ASSUME NEW u \in Tabs \ {t},
                 \/ Answered(u) \/ Load(u) \/ LoadFails(u)
          PROVE  success'[t] = success[t] /\ page'[t] = page[t]
      BY <2>1 DEF Answered, Load, LoadFails, Mount, TypeOK
    <2>2. ASSUME \/ Expire \/ AdminSettles \/ Midnight
                 \/ \E n \in cookies : CookieArrives(n)
                 \/ \E u \in Tabs :
                       \/ \E m \in Methods, text \in Texts :
                             Submit(u, m, text)
                       \/ Fetch(u) \/ CsrfFails(u) \/ Serve(u)
                       \/ PostFails(u) \/ Poll(u) \/ ServePoll(u)
                       \/ PayoutUnread(u) \/ PollFails(u)
                       \/ \E s \in Statuses : PollAnswered(u, s)
                 \/ UNCHANGED vars
          PROVE  UNCHANGED <<success, page>>
      BY <2>2 DEF Expire, AdminSettles, Midnight, CookieArrives, Submit, Fetch,
         ServeCsrf, ReadToken, Send, CsrfFails, Serve, ServeClaim,
         ServeContact, PostFails, Poll, ServePoll, PayoutUnread, PollFails,
         PollAnswered, vars
    <2> QED
      BY <1>1, <1>2, <1>3, <2>1, <2>2 DEF Next

(* A step of the program leaves the request of a tab alone unless it is a  *)
(* step of that tab, and then it is one of these.                          *)
PostStep(t) ==
    \/ Load(t) \/ LoadFails(t)
    \/ \E m \in Methods, text \in Texts : Submit(t, m, text)
    \/ Fetch(t) \/ CsrfFails(t) \/ Serve(t) \/ PostFails(t) \/ Answered(t)

LEMMA PostUnchanged ==
  ASSUME TypeOK, [Next]_vars, NEW t \in Tabs, ~PostStep(t)
  PROVE  post'[t] = post[t]
  <1>1. ASSUME NEW u \in Tabs \ {t}, PostStep(u)
        PROVE  post'[t] = post[t]
    BY <1>1 DEF PostStep, Load, LoadFails, Mount, Submit, Fetch, ServeCsrf,
       ReadToken, Send, CsrfFails, Serve, ServeClaim, ServeContact, Respond,
       PostFails, Answered, TypeOK
  <1>2. ASSUME \/ Expire \/ AdminSettles \/ Midnight
               \/ \E n \in cookies : CookieArrives(n)
               \/ \E u \in Tabs :
                     \/ Poll(u) \/ ServePoll(u) \/ PayoutUnread(u)
                     \/ PollFails(u)
                     \/ \E s \in Statuses : PollAnswered(u, s)
               \/ UNCHANGED vars
        PROVE  post'[t] = post[t]
    BY <1>2 DEF Expire, AdminSettles, Midnight, CookieArrives, Poll, ServePoll,
       PayoutUnread, PollFails, PollAnswered, vars
  <1> QED
    BY <1>1, <1>2 DEF Next, PostStep

(* An accepted request is on record, and only its own form hears of it.    *)
LEMMA AcceptedNext ==
  ASSUME TypeOK, [Next]_vars, NEW t \in Tabs, AcceptedInv(t)
  PROVE  AcceptedInv(t)'
  <1> USE DEF TypeOK, Requests, Idle, server
  <1>1. CASE Load(t) \/ LoadFails(t)
    <2>1. UNCHANGED <<payout, mails>>
      BY <1>1 DEF Load, LoadFails, Mount
    <2>2. CASE post[t].at = "none"
      BY <1>1, <2>2 DEF Load, LoadFails, Mount, AcceptedInv
    <2>3. CASE post[t].at # "none"
      <3>1. post'[t] = [post[t] EXCEPT !.to = "nobody"]
        BY <1>1, <2>3 DEF Load, LoadFails, Mount
      <3> QED
        BY <2>1, <2>3, <3>1 DEF AcceptedInv
    <2> QED
      BY <2>2, <2>3
  <1>2. ASSUME NEW m \in Methods, NEW text \in Texts,
               Submit(t, m, text)
        PROVE  AcceptedInv(t)'
    BY <1>2 DEF Submit, Request, AcceptedInv
  <1>3. CASE Fetch(t) \/ CsrfFails(t)
    <2>1. post[t] \in Requests
      BY <1>3 DEF Fetch, ServeCsrf, ReadToken, Send, CsrfFails
    <2>2. /\ post'[t].to = post[t].to /\ post'[t].kind = post[t].kind
          /\ post'[t].at # "answered"
      BY <1>3, <2>1 DEF Fetch, ServeCsrf, ReadToken, Send, CsrfFails
    <2> QED
      BY <2>1, <2>2 DEF AcceptedInv
  <1>4. CASE ServeClaim(t)
    <2>1. post[t] \in Requests /\ post[t].kind = "claim"
      BY <1>4 DEF ServeClaim
    <2>2. PICK answer : /\ Respond(t, answer)
                        /\ answer = "ok" => payout' # "none"
      BY <1>4, TabsAssumption DEF ServeClaim
    <2> QED
      BY <2>1, <2>2 DEF Respond, AcceptedInv
  <1>5. CASE ServeContact(t)
    <2>1. post[t] \in Requests /\ post[t].kind = "contact"
      BY <1>5 DEF ServeContact
    <2>2. PICK answer : /\ Respond(t, answer)
                        /\ answer = "ok" => mails' > 0
      BY <1>5, TabsAssumption DEF ServeContact
    <2> QED
      BY <2>1, <2>2 DEF Respond, AcceptedInv
  <1>6. CASE PostFails(t) \/ Answered(t)
    <2>1. post[t] \in Requests
      BY <1>6 DEF PostFails, Answered
    <2>2. CASE PostFails(t)
      BY <2>1, <2>2 DEF PostFails, Respond, AcceptedInv
    <2>3. CASE Answered(t)
      BY <2>3 DEF Answered, AcceptedInv
    <2> QED
      BY <1>6, <2>2, <2>3
  <1>7. CASE post'[t] = post[t]
    BY <1>7, RecordStays DEF AcceptedInv
  <1> QED
    BY <1>1, <1>2, <1>3, <1>4, <1>5, <1>6, <1>7, PostUnchanged
       DEF PostStep, Serve

(* No tab is ahead of the database.                                        *)
LEMMA ShownInit == Init => ShownInv
  <1> SUFFICES ASSUME Init, NEW t \in Tabs
               PROVE  /\ Recorded(shown[t]) /\ \A s \in polls[t] : Recorded(s)
                      /\ SuccessInv(t) /\ AcceptedInv(t)
    BY DEF ShownInv
  <1>1. /\ shown[t] = "unclaimed" /\ polls[t] = {} /\ success[t] = FALSE
        /\ post[t].at = "none"
    BY DEF Init, Idle
  <1> QED
    BY <1>1 DEF Recorded, Settled, SuccessInv, AcceptedInv

LEMMA ShownInvNext == TypeOK /\ ShownInv /\ [Next]_vars => ShownInv'
  <1> SUFFICES ASSUME TypeOK, ShownInv, [Next]_vars, NEW t \in Tabs
               PROVE  /\ Recorded(shown[t])'
                      /\ \A s \in polls'[t] : Recorded(s)'
                      /\ SuccessInv(t)' /\ AcceptedInv(t)'
    BY DEF ShownInv, Recorded
  <1> QED
    BY ShownNext, SuccessNext, AcceptedNext DEF ShownInv

(* No form says that it is done and no tracker shows a claim or a decision *)
(* that the database does not have, though the answers to the forms and to *)
(* the polls are lost, late or those of other tabs: for every number of    *)
(* tabs.                                                                   *)
THEOREM ShownIsRecordedHolds == Spec => []ShownIsRecorded
  <1>1. Init => ShownInv
    BY ShownInit
  <1>2. TypeOK /\ ShownInv => ShownIsRecorded
    BY DEF TypeOK, ShownInv, Recorded, SuccessInv, ShownIsRecorded,
       Displayed, Steps, Settled
  <1> QED
    BY <1>1, <1>2, TypeHolds, ShownInvNext, PTL DEF Spec

-----------------------------------------------------------------------------
(* A poll is for a claim that was made; "unclaimed" is of a later day.     *)
LEMMA PollInvNext ==
  TypeOK /\ ShownInv /\ PollInv /\ [Next]_vars => PollInv'
  <1> SUFFICES ASSUME TypeOK, ShownInv, PollInv, [Next]_vars, NEW t \in Tabs
               PROVE  /\ polls'[t] # {} => payout' # "none"
                      /\ "unclaimed" \in polls'[t]
                            => today' # 0 \/ t \in misread'
    BY DEF PollInv
  <1>1. /\ payout # "none" => payout' # "none"
        /\ today # 0 => today' # 0
    BY RecordStays DEF TypeOK
  <1>2. CASE Poll(t)
    <2>1. polls'[t] = polls[t] \cup {"sent"} /\ misread' = misread
      BY <1>2 DEF Poll, TypeOK, polling
    <2>2. payout # "none"
      BY <1>2 DEF Poll, TypeOK, ShownInv, Recorded
    <2> QED
      BY <2>1, <2>2, <1>1 DEF PollInv
  <1>3. CASE ServePoll(t)
    <2>1. PICK answer \in MyStatus : Answer(t, answer)
      BY <1>3 DEF ServePoll
    <2>2. payout # "none" /\ misread' = misread
      BY <1>3 DEF ServePoll, PollInv
    <2>3. "unclaimed" \in answer => today # 0
      BY <2>2 DEF MyStatus, Status, TypeOK, Settled
    <2> QED
      BY <2>1, <2>2, <2>3, <1>1 DEF PollInv, TypeOK, Answer
  <1>4. CASE PayoutUnread(t)
    <2>1. t \in misread' /\ payout # "none"
      BY <1>4 DEF PayoutUnread, PollInv
    <2> QED
      BY <2>1, <1>1
  <1>5. CASE /\ polls'[t] \subseteq polls[t]
             /\ polls'[t] = {} \/ (t \in misread => t \in misread')
    BY <1>1, <1>5 DEF PollInv
  <1>6. CASE ~Poll(t) /\ ~ServePoll(t) /\ ~PayoutUnread(t)
    <2> DEFINE Local == /\ polls'[t] \subseteq polls[t]
                        /\ polls'[t] = {} \/ (t \in misread => t \in misread')
    <2>1. ASSUME NEW u \in Tabs, u # t,
                 Poll(u) \/ ServePoll(u) \/ PayoutUnread(u)
          PROVE  Local
      BY <2>1 DEF Poll, ServePoll, PayoutUnread, Answer, TypeOK, polling
    <2>2. ASSUME NEW u \in Tabs, PollFails(u) PROVE Local
      <3>1. PICK a \in polls[u] : polls' = [polls EXCEPT ![u] = @ \ {a}]
        BY <2>2 DEF PollFails
      <3> QED
        BY <2>2, <3>1 DEF TypeOK, PollFails
    <2>3. ASSUME NEW u \in Tabs, NEW s \in Statuses, PollAnswered(u, s)
          PROVE  Local
      BY <2>3 DEF PollAnswered, TypeOK
    <2>4. ASSUME NEW u \in Tabs, Load(u) \/ LoadFails(u) PROVE Local
      <3>1. polls' = [polls EXCEPT ![u] = {}] /\ misread' = misread \ {u}
        BY <2>4 DEF Load, LoadFails, Mount
      <3>2. CASE u = t
        BY <3>1, <3>2 DEF TypeOK
      <3>3. CASE u # t
        <4>1. /\ polls'[t] = polls[t]
              /\ t \in misread => t \in misread'
          BY <3>1, <3>3 DEF TypeOK
        <4> QED
          BY <4>1
      <3> QED
        BY <3>2, <3>3
    <2>5. ASSUME \/ Expire \/ AdminSettles \/ Midnight
                 \/ \E n \in cookies : CookieArrives(n)
                 \/ \E u \in Tabs :
                       \/ \E m \in Methods, text \in Texts :
                             Submit(u, m, text)
                       \/ Fetch(u) \/ CsrfFails(u) \/ Serve(u)
                       \/ PostFails(u) \/ Answered(u)
                 \/ UNCHANGED vars
          PROVE  Local
      <3>1. UNCHANGED polling
        BY <2>5 DEF Expire, AdminSettles, Midnight, CookieArrives, Submit,
           Fetch, ServeCsrf, ReadToken, Send, CsrfFails, Serve, ServeClaim,
           ServeContact, PostFails, Answered, polling, vars
      <3> QED
        BY <3>1 DEF polling
    <2> HIDE DEF Local
    <2>6. Local
      BY <1>6, <2>1, <2>2, <2>3, <2>4, <2>5 DEF Next
    <2> QED
      BY <2>6, <1>5 DEF Local
  <1> QED
    BY <1>2, <1>3, <1>4, <1>6

(* Within a day a tracker that shows the decision of the admin keeps it,   *)
(* however many polls are under way and in whatever order they are         *)
(* answered: the handler of a poll takes over only what differs from the   *)
(* "pending" it began with, the decision is made once, and "unclaimed" is  *)
(* answered only on a later day or for a payout that could not be read.    *)
THEOREM TrackerNeverTurnsBackHolds == Spec => TrackerNeverTurnsBack
  <1>1. Init => ShownInv /\ PollInv
    BY ShownInit DEF Init, PollInv
  <1>2. TypeOK /\ ShownInv /\ PollInv /\ [Next]_vars
           => [\A t \in Tabs :
                  /\ page[t] = "tracker" /\ page'[t] = "tracker" /\ today' = 0
                  /\ shown[t] \in Settled
                  => shown'[t] = shown[t] \/ t \in misread]_vars
    <2> SUFFICES ASSUME TypeOK, ShownInv, PollInv, [Next]_vars, NEW t \in Tabs,
                        page'[t] = "tracker", today' = 0,
                        shown[t] \in Settled, t \notin misread
                 PROVE  shown'[t] = shown[t]
      OBVIOUS
    <2>1. payout = shown[t] /\ today = 0
      BY RecordStays DEF ShownInv, Recorded, TypeOK
    <2>2. ASSUME NEW u \in Tabs, Load(u) \/ LoadFails(u)
          PROVE  shown'[t] = shown[t]
      <3>1. CASE u = t
        <4>1. CASE Load(t)
          BY <2>1, <4>1 DEF Load, Mount, Status, Settled, TypeOK
        <4>2. CASE LoadFails(t)
          <5>1. page'[t] # "tracker"
            BY <4>2 DEF LoadFails, Mount, TypeOK
          <5> QED
            BY <5>1
        <4> QED
          BY <2>2, <3>1, <4>1, <4>2
      <3>2. CASE u # t
        BY <2>2, <3>2 DEF Load, LoadFails, Mount, TypeOK
      <3> QED
        BY <3>1, <3>2
    <2>3. ASSUME NEW u \in Tabs, NEW s \in Statuses, PollAnswered(u, s)
          PROVE  shown'[t] = shown[t]
      <3>1. CASE u = t /\ Differs(t, s)
        <4>1. s \in polls[t] /\ s # "sent" /\ s # "pending"
          BY <2>3, <3>1 DEF PollAnswered, Differs
        <4>2. s \in Settled /\ s = payout
          BY <2>1, <4>1 DEF PollInv, ShownInv, Recorded, Statuses
        <4> QED
          BY <2>1, <2>3, <3>1, <4>2 DEF PollAnswered, TypeOK
      <3>2. CASE ~(u = t /\ Differs(t, s))
        BY <2>3, <3>2 DEF PollAnswered, TypeOK
      <3> QED
        BY <3>1, <3>2
    <2>4. ASSUME \/ Expire \/ AdminSettles \/ Midnight
                 \/ \E n \in cookies : CookieArrives(n)
                 \/ \E u \in Tabs :
                       \/ \E m \in Methods, text \in Texts :
                             Submit(u, m, text)
                       \/ Fetch(u) \/ CsrfFails(u) \/ Serve(u)
                       \/ PostFails(u) \/ Answered(u)
                       \/ Poll(u) \/ ServePoll(u) \/ PayoutUnread(u)
                       \/ PollFails(u)
                 \/ UNCHANGED vars
          PROVE  shown'[t] = shown[t]
      BY <2>4 DEF Expire, AdminSettles, Midnight, CookieArrives, Submit, Fetch,
         ServeCsrf, ReadToken, Send, CsrfFails, Serve, ServeClaim,
         ServeContact, PostFails, Answered, Poll, ServePoll, PayoutUnread,
         PollFails, vars
    <2> QED
      BY <2>2, <2>3, <2>4 DEF Next
  <1> QED
    BY <1>1, <1>2, TypeHolds, ShownInvNext, PollInvNext, PTL
       DEF Spec, TrackerNeverTurnsBack

-----------------------------------------------------------------------------
(* The jar is never emptied, a cookie leaves the way for the jar, and a    *)
(* session that has ended does not begin again.                            *)
LEMMA JarStays ==
  ASSUME TypeOK, [Next]_vars
  PROVE  /\ jar # None => jar' # None
         /\ \A n \in cookies : n \in cookies' \/ jar' # None
         /\ issued > 1 => issued' > 1
         /\ faults > 0 => faults' > 0
  <1> USE TabsAssumption DEF TypeOK, bounds, Fault
  <1> DEFINE Goal == /\ jar # None => jar' # None
                     /\ \A n \in cookies : n \in cookies' \/ jar' # None
                     /\ issued > 1 => issued' > 1
                     /\ faults > 0 => faults' > 0
  <1>1. ASSUME NEW n \in cookies, CookieArrives(n) PROVE Goal
    BY <1>1 DEF CookieArrives
  <1>2. ASSUME NEW t \in Tabs, ServeCsrf(t) PROVE Goal
    BY <1>2 DEF ServeCsrf
  <1>3. ASSUME NEW t \in Tabs,
               \/ CsrfFails(t) \/ PostFails(t) \/ PollFails(t)
               \/ PayoutUnread(t) \/ LoadFails(t)
        PROVE  Goal
    BY <1>3 DEF CsrfFails, PostFails, PollFails, PayoutUnread, LoadFails, Mount
  <1>4. ASSUME \/ Expire \/ AdminSettles \/ Midnight
               \/ \E t \in Tabs :
                     \/ Load(t)
                     \/ \E m \in Methods, text \in Texts : Submit(t, m, text)
                     \/ ReadToken(t) \/ Send(t) \/ Serve(t) \/ Answered(t)
                     \/ Poll(t) \/ ServePoll(t)
                     \/ \E s \in Statuses : PollAnswered(t, s)
               \/ UNCHANGED vars
        PROVE  Goal
    <2>1. UNCHANGED <<jar, cookies, issued, faults>>
      BY <1>4 DEF Expire, AdminSettles, Midnight, Load, Mount, Submit,
         ReadToken, Send, Serve, ServeClaim, ServeContact, Answered, Poll,
         ServePoll, PollAnswered, vars
    <2> QED
      BY <2>1
  <1> HIDE DEF Goal
  <1>5. Goal
    BY <1>1, <1>2, <1>3, <1>4 DEF Next, Fetch
  <1> QED
    BY <1>5 DEF Goal

LEMMA SessionEnds ==
  ASSUME [Next]_vars, ~session
  PROVE  ~session'
  <1>1. ~Expire
    BY DEF Expire
  <1>2. ASSUME \/ AdminSettles \/ Midnight
               \/ \E n \in cookies : CookieArrives(n)
               \/ \E t \in Tabs :
                     \/ Load(t) \/ LoadFails(t)
                     \/ \E m \in Methods, text \in Texts : Submit(t, m, text)
                     \/ Fetch(t) \/ CsrfFails(t) \/ Serve(t)
                     \/ PostFails(t) \/ Answered(t)
                     \/ Poll(t) \/ ServePoll(t) \/ PayoutUnread(t)
                     \/ PollFails(t)
                     \/ \E s \in Statuses : PollAnswered(t, s)
               \/ UNCHANGED vars
        PROVE  session' = session
    BY <1>2 DEF AdminSettles, Midnight, CookieArrives, Load, LoadFails, Mount,
       Submit, Fetch, ServeCsrf, ReadToken, Send, CsrfFails, Serve, ServeClaim,
       ServeContact, PostFails, Answered, Poll, ServePoll, PayoutUnread,
       PollFails, PollAnswered, vars
  <1>3. session' = session
    BY <1>1, <1>2 DEF Next
  <1> QED
    BY <1>3

(* Once the exchange of tokens is over it stays so.                        *)
LEMMA SettledStays ==
  ASSUME TypeOK, TokensSettled, [Next]_vars
  PROVE  TokensSettled' /\ jar' = jar
  <1>1. jar # None /\ cookies = {} /\ \A t \in Tabs : post[t].at # "csrf"
    BY DEF TokensSettled
  <1>2. ASSUME NEW t \in Tabs PROVE ~ServeCsrf(t) /\ ~CsrfFails(t)
    BY <1>1 DEF ServeCsrf, CsrfFails
  <1>3. UNCHANGED <<jar, cookies>>
    <2>1. ASSUME \/ Expire \/ AdminSettles \/ Midnight
                 \/ \E t \in Tabs :
                       \/ Load(t) \/ LoadFails(t)
                       \/ \E m \in Methods, text \in Texts : Submit(t, m, text)
                       \/ ReadToken(t) \/ Send(t) \/ Serve(t)
                       \/ PostFails(t) \/ Answered(t)
                       \/ Poll(t) \/ ServePoll(t) \/ PayoutUnread(t)
                       \/ PollFails(t)
                       \/ \E s \in Statuses : PollAnswered(t, s)
                 \/ UNCHANGED vars
          PROVE  UNCHANGED <<jar, cookies>>
      BY <2>1 DEF Expire, AdminSettles, Midnight, Load, LoadFails, Mount,
         Submit, ReadToken, Send, Serve, ServeClaim, ServeContact, PostFails,
         Answered, Poll, ServePoll, PayoutUnread, PollFails, PollAnswered, vars
    <2> QED
      BY <1>1, <1>2, <2>1 DEF Next, Fetch
  <1>4. ASSUME NEW t \in Tabs PROVE post'[t].at # "csrf"
    <2> USE DEF TypeOK, Requests, Idle
    <2>1. CASE Load(t) \/ LoadFails(t)
      <3>1. post'[t] = post[t] \/ post'[t] = [post[t] EXCEPT !.to = "nobody"]
        BY <2>1 DEF Load, LoadFails, Mount
      <3>2. post[t].at # "csrf"
        BY <1>1
      <3> QED
        BY <3>1, <3>2
    <2>2. ASSUME NEW m \in Methods, NEW text \in Texts, Submit(t, m, text)
          PROVE  post'[t].at # "csrf"
      BY <1>1, <2>2 DEF Submit, Request
    <2>3. CASE \/ ReadToken(t) \/ Send(t) \/ Serve(t) \/ PostFails(t)
               \/ Answered(t)
      <3>1. post[t] \in Requests
        BY <2>3 DEF ReadToken, Send, Serve, ServeClaim, ServeContact,
           PostFails, Answered
      <3> QED
        BY <2>3, <3>1 DEF ReadToken, Send, Serve, ServeClaim, ServeContact,
           PostFails, Answered, Respond
    <2>4. CASE ~PostStep(t)
      BY <1>1, <2>4, PostUnchanged
    <2> HIDE DEF TypeOK, Requests, Idle
    <2> QED
      BY <1>2, <2>1, <2>2, <2>3, <2>4 DEF PostStep, Fetch
  <1> QED
    BY <1>1, <1>3, <1>4 DEF TokensSettled

(* A step of a request that is under way, and what it leaves of it         *)
LEMMA RequestStep ==
  ASSUME TypeOK, [Next]_vars, NEW t \in Tabs, post'[t] # post[t]
  PROVE  \/ /\ Load(t) \/ LoadFails(t)
            /\ post[t] \in Requests
            /\ post'[t] = [post[t] EXCEPT !.to = "nobody"]
            /\ UNCHANGED <<issued, jar, cookies>>
         \/ \E m \in Methods, text \in Texts : Submit(t, m, text)
         \/ /\ Fetch(t) \/ CsrfFails(t) \/ Serve(t) \/ PostFails(t)
            /\ post[t] \in Requests
         \/ Answered(t)
  <1> USE DEF TypeOK, Idle
  <1>1. PostStep(t)
    BY PostUnchanged
  <1>2. CASE Load(t) \/ LoadFails(t)
    <2>1. post[t].at # "none"
      BY <1>2 DEF Load, LoadFails, Mount
    <2>2. post[t] \in Requests
      BY <2>1
    <2> QED
      BY <1>2, <2>1, <2>2 DEF Load, LoadFails, Mount
  <1>3. CASE Fetch(t) \/ CsrfFails(t) \/ Serve(t) \/ PostFails(t)
    <2>1. post[t] \in Requests
      BY <1>3 DEF Fetch, ServeCsrf, ReadToken, Send, CsrfFails, Serve,
         ServeClaim, ServeContact, PostFails
    <2> QED
      BY <1>3, <2>1
  <1> HIDE DEF TypeOK, Idle
  <1> QED
    BY <1>1, <1>2, <1>3 DEF PostStep

LEMMA AnswerStep ==
  ASSUME TypeOK, NEW t \in Tabs, Serve(t) \/ PostFails(t)
  PROVE  \E answer : post'[t] = [post[t] EXCEPT !.at = "answered",
                                                !.answer = answer]
  <1>1. CASE ServeClaim(t)
    <2>1. PICK answer : Respond(t, answer)
      BY <1>1 DEF ServeClaim
    <2> QED
      BY <2>1 DEF Respond, TypeOK
  <1>2. CASE ServeContact(t)
    <2>1. PICK answer : Respond(t, answer)
      BY <1>2 DEF ServeContact
    <2> QED
      BY <2>1 DEF Respond, TypeOK
  <1>3. CASE PostFails(t)
    BY <1>3 DEF PostFails, Respond, TypeOK
  <1> QED
    BY <1>1, <1>2, <1>3 DEF Serve

LEMMA TokenNext ==
  ASSUME TypeOK, [Next]_vars, NEW t \in Tabs, TokenInv(t)
  PROVE  TokenInv(t)'
  <1> USE TabsAssumption DEF Requests, Idle
  <1>1. CASE post'[t] = post[t]
    BY <1>1, JarStays DEF TokenInv
  <1>2. ASSUME post[t] \in Requests,
               post'[t] = [post[t] EXCEPT !.to = "nobody"]
        PROVE  TokenInv(t)'
    BY <1>2, JarStays DEF TokenInv
  <1>3. ASSUME NEW m \in Methods, NEW text \in Texts, Submit(t, m, text)
        PROVE  TokenInv(t)'
    <2>1. /\ post'[t] = Request(t, m, text) /\ UNCHANGED <<jar, faults>>
          /\ m \in Offered(t) /\ text \in Accepts(t)
          /\ page[t] \in {"claim", "contact"}
      BY <1>3 DEF Submit, TypeOK, CanSubmit, ClaimForm, ContactForm
    <2> QED
      BY <2>1 DEF Request, Offered, Accepts, TokenInv
  <1>4. CASE ServeCsrf(t) /\ post[t] \in Requests
    BY <1>4 DEF ServeCsrf, TokenInv, TypeOK
  <1>5. CASE ReadToken(t) /\ post[t] \in Requests
    BY <1>5 DEF ReadToken, TokenInv, TypeOK
  <1>6. CASE CsrfFails(t) /\ post[t] \in Requests
    <2>1. faults' > 0
      BY <1>6 DEF CsrfFails, Fault, TypeOK
    <2>2. post'[t] = [post[t] EXCEPT !.at = "ready"] /\ jar' = jar
      BY <1>6 DEF CsrfFails, TypeOK
    <2>3. post[t].at = "csrf" /\ post[t].token = None
      BY <1>6 DEF CsrfFails, TokenInv
    <2> QED
      BY <1>6, <2>1, <2>2, <2>3 DEF TokenInv
  <1>7. CASE Send(t) /\ post[t] \in Requests
    BY <1>7 DEF Send, TokenInv, TypeOK, bounds
  <1>8. CASE (Serve(t) \/ PostFails(t)) /\ post[t] \in Requests
    <2>1. PICK answer : post'[t] = [post[t] EXCEPT !.at = "answered",
                                                   !.answer = answer]
      BY <1>8, AnswerStep
    <2>2. post[t].token # None \/ faults' > 0
      <3>1. post[t].at \in {"sent", "answered"}
        BY <1>8 DEF Serve, ServeClaim, ServeContact, PostFails
      <3> QED
        BY <3>1, JarStays DEF TokenInv
    <2> QED
      BY <1>8, <2>1, <2>2 DEF TokenInv
  <1>9. CASE Answered(t)
    BY <1>9 DEF Answered, TokenInv, TypeOK
  <1> HIDE DEF Requests, Idle
  <1> QED
    BY <1>1, <1>2, <1>3, <1>4, <1>5, <1>6, <1>7, <1>8, <1>9, RequestStep
       DEF Fetch

LEMMA CalmNext ==
  ASSUME TypeOK, [Next]_vars, NEW t \in Tabs, CalmInv(t)
  PROVE  CalmInv(t)'
  <1> USE DEF Requests, Idle
  <1>1. CASE post'[t] = post[t]
    BY <1>1, SettledStays DEF CalmInv
  <1>2. ASSUME post[t] \in Requests,
               post'[t] = [post[t] EXCEPT !.to = "nobody"]
        PROVE  CalmInv(t)'
    BY <1>2, SettledStays DEF CalmInv
  <1>3. ASSUME NEW m \in Methods, NEW text \in Texts, Submit(t, m, text)
        PROVE  CalmInv(t)'
    <2>1. post'[t] = Request(t, m, text) /\ jar' = jar
      BY <1>3 DEF Submit, TypeOK
    <2>2. CASE TokensSettled
      BY <2>1, <2>2, SettledStays DEF Request, CalmInv, TokensSettled
    <2>3. CASE ~TokensSettled
      BY <2>1, <2>3 DEF Request, CalmInv
    <2> QED
      BY <2>2, <2>3
  <1>4. CASE (Fetch(t) \/ CsrfFails(t)) /\ post[t] \in Requests
    <2>1. CASE post[t].amid = "calm"
      <3>1. ~ServeCsrf(t) /\ ~ReadToken(t) /\ ~CsrfFails(t)
        BY <1>4, <2>1 DEF ServeCsrf, ReadToken, CsrfFails, CalmInv
      <3>2. post'[t] = [post[t] EXCEPT !.at = "sent", !.cookie = jar]
        BY <1>4, <3>1 DEF Fetch, Send, TypeOK
      <3> QED
        BY <1>4, <2>1, <3>2, SettledStays DEF CalmInv
    <2>2. CASE post[t].amid # "calm"
      <3>1. post'[t].amid = post[t].amid
        BY <1>4 DEF Fetch, ServeCsrf, ReadToken, Send, CsrfFails, TypeOK
      <3> QED
        BY <2>2, <3>1 DEF CalmInv
    <2> QED
      BY <2>1, <2>2
  <1>5. CASE (Serve(t) \/ PostFails(t)) /\ post[t] \in Requests
    <2>1. PICK answer : post'[t] = [post[t] EXCEPT !.at = "answered",
                                                   !.answer = answer]
      BY <1>5, AnswerStep
    <2> QED
      BY <1>5, <2>1, SettledStays DEF CalmInv
  <1>6. CASE Answered(t)
    BY <1>6 DEF Answered, CalmInv, TypeOK
  <1> HIDE DEF Requests, Idle
  <1> QED
    BY <1>1, <1>2, <1>3, <1>4, <1>5, <1>6, RequestStep

(* The token test refuses two different tokens or a missing one, and not   *)
(* what began when the exchange was over.                                  *)
LEMMA CsrfRefusal ==
  ASSUME TypeOK, NEW t \in Tabs, post[t] \in Requests, post[t].at = "sent",
         TokenInv(t), CalmInv(t), ~PassesCsrf(post[t])
  PROVE  /\ post[t].amid = "exchange"
         /\ issued > 1 \/ (post[t].token = None /\ faults > 0)
  <1> USE TabsAssumption DEF TypeOK, Requests, PassesCsrf
  <1>1. post[t].amid # "calm"
    BY DEF CalmInv, TokensSettled
  <1>2. CASE post[t].token = None
    BY <1>1, <1>2 DEF TokenInv
  <1>3. CASE post[t].token # None
    <2>1. /\ post[t].cookie \in 1 .. issued /\ post[t].token \in 1 .. issued
          /\ post[t].cookie # post[t].token
      BY <1>3 DEF TokenInv
    <2> QED
      BY <1>1, <2>1
  <1> QED
    BY <1>2, <1>3

LEMMA CausedNext ==
  ASSUME TypeOK, [Next]_vars, NEW t \in Tabs,
         TokenInv(t), CalmInv(t), Caused(t)
  PROVE  Caused(t)'
  <1> USE DEF Requests, Idle
  <1>1. CASE post'[t] = post[t]
    BY <1>1, JarStays, SessionEnds, RecordStays DEF Caused, TypeOK
  <1>2. ASSUME post[t] \in Requests,
               post'[t] = [post[t] EXCEPT !.to = "nobody"]
        PROVE  Caused(t)'
    BY <1>2, JarStays, SessionEnds, RecordStays DEF Caused, TypeOK
  <1>3. ASSUME \/ \E m \in Methods, text \in Texts : Submit(t, m, text)
               \/ (Fetch(t) \/ CsrfFails(t)) /\ post[t] \in Requests
               \/ Answered(t)
        PROVE  Caused(t)'
    <2>1. post'[t].at # "answered"
      BY <1>3 DEF Submit, Request, Fetch, ServeCsrf, ReadToken, Send,
         CsrfFails, Answered, TypeOK
    <2> QED
      BY <2>1 DEF Caused
  <1>4. CASE ServeClaim(t) /\ post[t] \in Requests
    <2> DEFINE r == post[t]
    <2>1. /\ r.at = "sent" /\ r.kind = "claim"
          /\ UNCHANGED <<session, today, issued, faults>>
      BY <1>4 DEF ServeClaim, bounds
    <2>2. Fits(r.text.units) /\ r.method \in {"Bank", "ATM", "Multicaixa"}
      BY <1>4, <2>1, FormAssumption DEF TokenInv
    <2>3. ~Binds(r) => r.text.units # r.text.runes
      BY <2>2 DEF Binds
    <2>4. r.method = "ATM" => AtmAmount(Prize)
      BY <2>1 DEF TokenInv, AtmEligible, AtmAmount
    <2>5. ~PassesCsrf(r) =>
             /\ r.amid = "exchange"
             /\ issued > 1 \/ (r.token = None /\ faults > 0)
      BY <1>4, <2>1, CsrfRefusal
    <2>6. PICK answer :
             /\ Respond(t, answer)
             /\ \/ answer = "ok"
                \/ answer = "unauthorized" /\ ~session
                \/ answer = "csrf" /\ ~PassesCsrf(r)
                \/ answer = "invalid" /\ ~Binds(r)
                \/ answer = "notWinner" /\ today # 0
      BY <1>4, <2>4 DEF ServeClaim
    <2>7. post'[t] = [r EXCEPT !.at = "answered", !.answer = answer]
      BY <2>6 DEF Respond, TypeOK
    <2> HIDE DEF Requests, r
    <2>8. /\ post'[t].answer = answer /\ post'[t].kind = "claim"
          /\ post'[t].text = r.text /\ post'[t].amid = r.amid
          /\ post'[t].token = r.token
      BY <1>4, <2>1, <2>7 DEF Requests, r
    <2> QED
      BY <2>1, <2>3, <2>5, <2>6, <2>8 DEF Caused
  <1>5. CASE ServeContact(t) /\ post[t] \in Requests
    <2> DEFINE r == post[t]
    <2>1. /\ r.at = "sent" /\ r.kind = "contact"
          /\ UNCHANGED <<issued, faults>>
      BY <1>5 DEF ServeContact, bounds
    <2>2. ~PassesCsrf(r) =>
             /\ r.amid = "exchange"
             /\ issued > 1 \/ (r.token = None /\ faults > 0)
      BY <1>5, <2>1, CsrfRefusal
    <2>3. PICK answer :
             /\ Respond(t, answer)
             /\ \/ answer \in {"ok", "invalid"}
                \/ answer = "csrf" /\ ~PassesCsrf(r)
      BY <1>5 DEF ServeContact
    <2>4. post'[t] = [r EXCEPT !.at = "answered", !.answer = answer]
      BY <2>3 DEF Respond, TypeOK
    <2> HIDE DEF Requests, r
    <2>5. /\ post'[t].answer = answer /\ post'[t].kind = "contact"
          /\ post'[t].amid = r.amid /\ post'[t].token = r.token
      BY <1>5, <2>1, <2>4 DEF Requests, r
    <2> QED
      BY <2>1, <2>2, <2>3, <2>5 DEF Caused
  <1>6. CASE PostFails(t) /\ post[t] \in Requests
    BY <1>6 DEF PostFails, Respond, Caused, TypeOK
  <1> HIDE DEF Requests, Idle
  <1> QED
    BY <1>1, <1>2, <1>3, <1>4, <1>5, <1>6, RequestStep DEF Serve

(* A request is refused only for want of a session, after midnight, for a  *)
(* text that the two ends count differently, or by the token test amid an  *)
(* exchange of tokens, whatever fails and is repeated: the rules of the    *)
(* form are those of the handler, and apiFetch sends the token of the jar. *)
THEOREM RefusedForCauseHolds == Spec => []RefusedForCause
  <1>1. Init => RefusedInv
    <2> SUFFICES ASSUME Init, NEW t \in Tabs PROVE post[t].at = "none"
      BY DEF RefusedInv, TokenInv, CalmInv, Caused
    <2> QED
      BY DEF Init, Idle
  <1>2. TypeOK /\ RefusedInv /\ [Next]_vars => RefusedInv'
    BY TokenNext, CalmNext, CausedNext DEF RefusedInv
  <1>3. RefusedInv => RefusedForCause
    BY DEF RefusedInv, Caused, RefusedForCause
  <1> QED
    BY <1>1, <1>2, <1>3, TypeHolds, PTL DEF Spec
=============================================================================
