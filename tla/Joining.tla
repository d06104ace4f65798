------------------------------- MODULE Joining -------------------------------
(***************************************************************************)
(* One person asking to join, from the phone app (register.tsx), from the  *)
(* website (app/register), or from both, and the administrator's Team      *)
(* page.  Both screens go by a ticket they remember: the phone in its      *)
(* secure store, the website in a cookie.  Access has the same screen of   *)
(* the phone among the others that write the secure store, and closes the  *)
(* app between two of its writes.                                          *)
(***************************************************************************)
EXTENDS JoinRequests

\* Bound: what goes otherwise than the plain course. A call that the phone leaves
\* to the gateway counts twice, anything else once.
CONSTANT Mishaps

ASSUME MishapAssumption == Mishaps \in Nat

VARIABLES
  phone,    \* register.tsx: stage, ticket, shown; and the session landed
  web,      \* app/register: page, ticket (the cookie), shown
  mishaps   \* how many more may happen

vars == <<joinVars, phone, web, mishaps>>

Stage == {"away", "loading", "details", "codes", "waiting", "rejected",
          "elsewhere", "finish"}
Page == {"details", "codes", "waiting", "approved", "rejected"}

TypeOK ==
  /\ JoinTypeOK
  /\ phone \in [stage : Stage, ticket : Ticket, shown : SUBSET Channel, session : Ticket]
  /\ web \in [page : Page, ticket : Ticket, shown : SUBSET Channel]
  /\ mishaps \in 0..Mishaps

Init ==
  /\ JoinInit
  /\ phone = [stage |-> "away", ticket |-> 0, shown |-> {},
              session |-> 0]
  /\ web = [page |-> "details", ticket |-> 0, shown |-> {}]
  /\ mishaps = Mishaps

Plain == mishaps' = mishaps
Cost(n) == mishaps >= n /\ mishaps' = mishaps - n
Mishap == Cost(1)
If(plain) == IF plain THEN Plain ELSE Mishap

Quiet == UNCHANGED <<registration, account, inbox, entered>>

\* The codes the person has at hand for what a screen still asks.
Latest(shown) ==
  {inbox[ch] : ch \in Channel \ shown} \ {NoCode(ch) : ch \in Channel}

Verifying(r) == r # 0 /\ registration[r].status = "verifying"
Tiresome(r) == Verifying(r) /\ Spoilt(r)

\* New codes are wanted: the ones at hand no longer do, or never came.
WantsCodes(r, shown) ==
  \/ Spoilt(r)
  \/ \E ch \in Channel \ (shown \cup registration[r].proven) :
        ~IsRight(inbox[ch], r)

\* The codes step leads nowhere: it has no request behind it, one that is over
\* with nothing at hand to try, or one that sends no more codes.
NoWayOn(r, shown) ==
  \/ r = 0
  \/ r # 0 /\ registration[r].status # "verifying" /\ Latest(shown) = {}
  \/ Verifying(r) /\ WantsCodes(r, shown) /\ registration[r].sends >= MaxSends

-----------------------------------------------------------------------------
(* The phone *)

PhoneCalls(op) == {c \in calls : c.by = "app" /\ c.heard /\ c.op = op}
Ask(op, typed) == calls' = calls \cup {Call(op, "app", phone.ticket, typed)}

\* The app's first screen leads here with a ticket, or when somebody has no code.
OpenScreen ==
  /\ phone.stage = "away" /\ phone.session = 0
  /\ phone' = [phone EXCEPT !.stage = IF phone.ticket = 0 THEN "details" ELSE "loading"]
  /\ IF phone.ticket = 0 THEN UNCHANGED calls ELSE Ask("status", {})
  /\ UNCHANGED web /\ Quiet /\ Plain

\* What the gateway goes on with when nobody listens: the calls that write.
Unheard(c) ==
  IF c.at = "answered" \/ c.op = "status" THEN {} ELSE {[c EXCEPT !.heard = FALSE]}
Left(unheard) == IF unheard = {} THEN 1 ELSE 2

\* The app is closed.  A screen that waits for nothing it could still get is
\* closed sooner or later; the others by accident.
Deserted ==
  \/ phone.stage = "waiting" /\ phone.ticket = 0
  \/ phone.stage = "details" /\ phone.ticket # 0
Close ==
  LET left == UNION {Unheard(c) : c \in {x \in calls : x.by = "app"}} IN
  /\ phone.stage # "away"
  /\ IF Deserted /\ \A c \in calls : c.by = "app" => ~c.heard
     THEN Plain ELSE Cost(Left(left))
  /\ phone' = [phone EXCEPT !.stage = "away"]
  /\ calls' = {c \in calls : c.by = "web"} \cup left
  /\ UNCHANGED web /\ Quiet

\* Details: every field is filled and a state is chosen from the options.
SubmitDetails ==
  /\ phone.stage = "details"
  /\ PhoneCalls("start") = {} /\ MayStart
  /\ If(phone.ticket = 0)
  /\ calls' = calls \cup {Call("start", "app", 0, {})}
  /\ UNCHANGED <<phone, web>> /\ Quiet

\* onSubmit's answer: the ticket is saved and the request looked up.
HearStart(c) ==
  /\ c \in PhoneCalls("start") /\ c.at = "answered"
  /\ IF c.got = "started"
     THEN /\ phone' = [phone EXCEPT !.ticket = c.request]
          /\ Proceed(c, Call("status", "app", c.request, {}))
     ELSE UNCHANGED phone /\ calls' = calls \ {c}
  /\ UNCHANGED web /\ Quiet /\ Plain

\* Codes: whatever has arrived of what is asked is typed; either code on its own
\* is enough to send.
Confirm ==
  /\ phone.stage = "codes" /\ phone.ticket # 0
  /\ \A c \in PhoneCalls("verify") : c.request # phone.ticket
  /\ Latest(phone.shown) # {}
  /\ If(~Tiresome(phone.ticket))
  /\ Ask("verify", Latest(phone.shown))
  /\ UNCHANGED <<phone, web>> /\ Quiet

Resend ==
  /\ phone.stage = "codes" /\ phone.ticket # 0 /\ PhoneCalls("resend") = {}
  /\ If(MayResend(phone.ticket) /\ WantsCodes(phone.ticket, phone.shown))
  /\ Ask("resend", {})
  /\ UNCHANGED <<phone, web>> /\ Quiet

\* "Start again", which no call in progress disables.
OffersStartOver == phone.stage \in {"codes", "rejected"}
StartOver ==
  /\ OffersStartOver
  /\ If(phone.stage = "codes" /\ NoWayOn(phone.ticket, phone.shown))
  /\ phone' = [phone EXCEPT !.stage = "details", !.ticket = 0]
  /\ UNCHANGED <<calls, web>> /\ Quiet

\* "Back", under "You're approved".
Back ==
  /\ phone.stage = "elsewhere" /\ Mishap
  /\ phone' = [phone EXCEPT !.stage = "away", !.ticket = 0]
  /\ UNCHANGED <<calls, web>> /\ Quiet

\* The waiting screen's timer and button, and the return to the app.
LooksAgain == phone.stage = "waiting" /\ PhoneCalls("status") = {}
Check ==
  /\ LooksAgain /\ phone.ticket # 0
  /\ Ask("status", {})
  /\ UNCHANGED <<phone, web>> /\ Quiet /\ Plain

\* land(): whichever request the answer is about.
Landed(c) ==
  CASE c.got = "verifying" -> [phone EXCEPT !.stage = "codes", !.shown = c.ok]
    [] c.got = "pending"   -> [phone EXCEPT !.stage = "waiting"]
    [] c.got = "rejected"  -> [phone EXCEPT !.stage = "rejected"]
    [] c.got = "withdrawn" -> [phone EXCEPT !.stage = "details", !.ticket = 0]
    [] c.got = "approved"  -> [phone EXCEPT !.stage = "elsewhere"]
    [] c.got = "session"   -> [phone EXCEPT !.stage = "finish", !.ticket = 0,
                                            !.session = c.request]

HearStatus(c) ==
  /\ c \in PhoneCalls("status") /\ c.at = "answered"
  /\ phone' = Landed(c)
  /\ calls' = calls \ {c}
  /\ UNCHANGED web /\ Quiet /\ Plain

\* After a refusal the screen asks where the request stands.
LookAgain(c) ==
  calls' = (calls \ {c}) \cup
    IF phone.ticket = 0 THEN {} ELSE {Call("status", "app", phone.ticket, {})}

HearVerify(c) ==
  /\ c \in PhoneCalls("verify") /\ c.at = "answered"
  /\ IF c.got \in {"wrong", "refused", "failed"}
     THEN LookAgain(c) /\ UNCHANGED phone
     ELSE phone' = Landed(c) /\ calls' = calls \ {c}
  /\ UNCHANGED web /\ Quiet /\ Plain

\* What resend() answers is not looked at.
HearResend(c) ==
  /\ c \in PhoneCalls("resend") /\ c.at = "answered"
  /\ calls' = calls \ {c}
  /\ UNCHANGED <<phone, web>> /\ Quiet /\ Plain

\* Mutant: the screen goes on showing that it is opening.
OutOfReach_GoesOnLoading(c) == phone
\* "cannotReach": on opening, the ticket is kept for next time.
OutOfReach(c) ==
  IF phone.stage = "loading" /\ c.op = "status"
  THEN [phone EXCEPT !.stage = "details"] ELSE phone

\* The phone gives a call up after a minute; the gateway may go on with it.
GiveUp(c) ==
  /\ c \in calls /\ c.by = "app" /\ c.heard /\ Cost(Left(Unheard(c)))
  /\ phone' = OutOfReach(c)
  /\ LET rest == (calls \ {c}) \cup Unheard(c)
     IN  calls' = IF c.op = "verify" /\ phone.ticket # 0
                  THEN rest \cup {Call("status", "app", phone.ticket, {})}
                  ELSE rest
  /\ UNCHANGED web /\ Quiet

PhoneHears(op) ==
  \E c \in calls : /\ c.op = op
                   /\ HearStart(c) \/ HearStatus(c) \/ HearVerify(c) \/ HearResend(c)

-----------------------------------------------------------------------------
(* The website: every page is made from the cookie's request.               *)

PageOf(r) ==
  IF r = 0 THEN "details"
  ELSE CASE registration[r].status = "verifying" -> "codes"
         [] registration[r].status = "pending"   -> "waiting"
         [] registration[r].status \in Decided   -> registration[r].status
         [] OTHER                                -> "details"

Rendered(r) ==
  [page |-> PageOf(r), ticket |-> r,
   shown |-> IF r = 0 THEN {} ELSE registration[r].proven]

WebCalls == {c \in calls : c.by = "web" /\ c.heard}
WebAsk(op, typed) == calls' = calls \cup {Call(op, "web", web.ticket, typed)}

\* A reload, or the waiting page's timer.
Reload ==
  /\ web.ticket # 0 /\ WebCalls = {}
  /\ web' = Rendered(web.ticket) /\ web' # web
  /\ UNCHANGED <<calls, phone>> /\ Quiet /\ Plain

\* The status could not be read: the page is the one without a request.
ReloadBlind ==
  /\ web.ticket # 0 /\ WebCalls = {} /\ web.page # "details" /\ Mishap
  /\ web' = [web EXCEPT !.page = "details"]
  /\ UNCHANGED <<calls, phone>> /\ Quiet

WebSubmit ==
  /\ web.page = "details" /\ WebCalls = {} /\ MayStart /\ Mishap
  /\ calls' = calls \cup {Call("start", "web", 0, {})}
  /\ UNCHANGED <<phone, web>> /\ Quiet

WebConfirm ==
  /\ web.page = "codes" /\ WebCalls = {}
  /\ Latest(web.shown) # {}
  /\ If(~Tiresome(web.ticket))
  /\ WebAsk("verify", Latest(web.shown))
  /\ UNCHANGED <<phone, web>> /\ Quiet

WebResend ==
  /\ web.page = "codes" /\ WebCalls = {}
  /\ If(MayResend(web.ticket) /\ WantsCodes(web.ticket, web.shown))
  /\ WebAsk("resend", {})
  /\ UNCHANGED <<phone, web>> /\ Quiet

WebStartOver ==
  /\ web.page \in {"codes", "rejected"} /\ WebCalls = {}
  /\ If(web.page = "codes" /\ NoWayOn(web.ticket, web.shown))
  /\ web' = Rendered(0)
  /\ UNCHANGED <<calls, phone>> /\ Quiet

\* The actions' answers: the cookie and the redirect, the refreshed page after
\* codes right or wrong, the note under the form.
WebHears(c) ==
  /\ c \in WebCalls /\ c.at = "answered"
  /\ web' = CASE c.op = "start" /\ c.got = "started" -> Rendered(c.request)
              [] c.op = "verify"                     -> Rendered(web.ticket)
              [] OTHER                               -> web
  /\ calls' = calls \ {c}
  /\ UNCHANGED phone /\ Quiet /\ Plain

\* The browser is closed, or its connection lost, while an action runs.
WebLoses(c) ==
  /\ c \in WebCalls /\ Mishap
  /\ calls' = (calls \ {c}) \cup Unheard(c)
  /\ UNCHANGED <<phone, web>> /\ Quiet

-----------------------------------------------------------------------------
(* The Team page *)

\* Its cards are the requests that were pending when it was read; deciding about
\* one that no longer is changes nothing.
HasCard(r) == registration[r].status = "pending"
Decide(r) ==
  /\ HasCard(r)
  /\ Reject(r) \/ \E role \in {"inspector", "office"} : Approve(r, role)
  /\ UNCHANGED <<phone, web>> /\ Plain

-----------------------------------------------------------------------------
Gateway(by, ops) ==
  /\ \E c \in calls : c.by = by /\ c.op \in ops /\ Serve(c, Channel)
  /\ UNCHANGED <<phone, web>> /\ Plain

\* Every message of a sending is lost, or one; the two channels are alike.
MessageLost ==
  /\ \E c \in calls : \E arrived \in {{}, {"email"}} :
       StartWrite(c, arrived) \/ ResendWrite(c, arrived)
  /\ UNCHANGED <<phone, web>> /\ Mishap

ResendTooSoon ==
  /\ \E c \in calls : ResendRead(c, TRUE)
  /\ UNCHANGED <<phone, web>> /\ Mishap

CodesExpire ==
  /\ \E r \in Request : HalfHour(r)
  /\ UNCHANGED <<phone, web>> /\ Mishap

Next ==
  \/ OpenScreen \/ Close \/ SubmitDetails \/ Confirm \/ Resend \/ StartOver
  \/ Back \/ Check
  \/ \E op \in Op : PhoneHears(op)
  \/ \E by \in {"app", "web"} : Gateway(by, Op)
  \/ \E c \in calls : GiveUp(c) \/ WebHears(c) \/ WebLoses(c)
  \/ Reload \/ ReloadBlind \/ WebSubmit \/ WebConfirm \/ WebResend \/ WebStartOver
  \/ MessageLost \/ ResendTooSoon \/ CodesExpire
  \/ \E r \in Request : Decide(r)

Spec == Init /\ [][Next]_vars

\* Calls are answered and the answers heard; the person goes on with whatever
\* the screen in front offers, opens the app again, and asks for new codes or
\* starts again when nothing else is left; the timers of the two waiting
\* screens run; the administrator decides what is pending.
PhoneGoesOn ==
  /\ Plain
  /\ \/ OpenScreen \/ Close \/ SubmitDetails \/ Confirm \/ Resend \/ StartOver
     \/ \E op \in Op \ {"status"} : PhoneHears(op)

Fairness ==
  /\ WF_vars(Gateway("app", {"status"}))
  /\ WF_vars(Gateway("app", Op \ {"status"}))
  /\ WF_vars(Check \/ PhoneHears("status")) /\ WF_vars(PhoneGoesOn)
  /\ WF_vars(Gateway("web", Op) \/ (\E c \in calls : WebHears(c)) \/ Reload)
  /\ WF_vars(\E r \in Request : Decide(r))

FairSpec == Spec /\ Fairness

-----------------------------------------------------------------------------
\* "Pending means both contacts were proven" (0011_registrations.sql:52): what
\* reaches an administrator, and what they decided for, had the right code of
\* both channels handed in, however many calls, screens and sendings of codes
\* there were.
DecidedIsProven ==
  \A r \in Request :
    registration[r].status \in {"pending", "approved"} => entered[r] = Channel

\* A decision is not undone by asking again, resending, or another request:
\* only by a verify() that read the row before the decision, which nothing
\* keeps from writing after it (registration.service.ts:301).
DecisionsStand ==
  [][\A r \in Request :
       registration[r].status \in Decided /\ registration'[r].status # registration[r].status
         => \E c \in calls : c.op = "verify" /\ c.at = "read" /\ c.request = r]_vars

\* The person knows how it ended.
Knows == phone.session # 0 \/ phone.stage \in {"rejected", "elsewhere"}

\* What leaves the phone without an answer: the account is there and the
\* ticket is not, or an approved request was put back to pending, or the
\* hour's requests are used up and the last one is gone.
Stranded ==
  \/ account # "none" /\ (phone.ticket = 0 \/ registration[phone.ticket].status \in Open)
  \/ ~MayStart /\ phone.ticket = 0

\* Whatever is lost, closed, mistimed or asked twice, a person who goes on is
\* told the decision on the phone.
Told == []<>(Knows \/ Stranded)

=============================================================================
