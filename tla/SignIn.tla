------------------------------- MODULE SignIn -------------------------------
(***************************************************************************)
(* One person at one browser getting into the console of one deployment:   *)
(* the sign-in pages (apps/console/app/signin, lib/oidc.ts, lib/api.ts),   *)
(* the gateway's e-mail links (auth/email-sign-in.service.ts), its token   *)
(* verification and guard (common/), and the register they ask.  A live    *)
(* link's token is known only to whoever got the mail, so a link stands    *)
(* for its token.  The settings do not change while the gateway runs.      *)
(***************************************************************************)
EXTENDS Deployment, FiniteSets

CONSTANTS
  Settings,   \* the deployments looked at
  Role,       \* the roles the person may hold
  Admin,      \* the one a first administrator is given
  MaxLink,    \* sign-in links kept track of; a dead one is forgotten
  MaxTab,     \* sign-ins at the provider under way at once
  AskLimit,   \* links one address may ask for in a window of 15 minutes
  Mishaps     \* how much goes wrong, or is changed, in one behaviour

ASSUME SignInAssumption ==
  /\ Settings \subseteq SettingsType
  /\ Admin \in Role /\ {MaxLink, MaxTab, AskLimit} \subseteq Nat \ {0}
  /\ Mishaps \in Nat

Link == 1..MaxLink
Tab == 1..MaxTab

VARIABLES
  config,   \* what the gateway made of its settings
  own,      \* whether the console has a provider of its own configured
  linked,   \* whether the register knows the provider's name for the person
  account,  \* app_user.status, "none" for no account
  roles,    \* the roles the register gives the person
  awake,    \* whether the gateway answers
  asked,    \* links asked for in the current window; kept in memory
  link,     \* rows of sign_in_link, and whether the mail arrived
  opened,   \* history: sessions given for each link
  page,     \* what the browser shows
  opening,  \* the link whose page it shows, 0 for none
  acting,   \* the roles the console page was served for
  jar,      \* the session cookie
  expected, \* the state cookie of a sign-in at the provider, 0 for none
  away,     \* tabs that are at the provider
  found,    \* the processes that hold the provider's discovery document
  mishaps

vars == <<config, own, linked, account, roles, awake, asked, link, opened, page,
          opening, acting, jar, expected, away, found, mishaps>>
fixed == <<config, own, linked>>
register == <<account, roles>>
links == <<asked, link, opened>>
browser == <<page, opening, acting, jar, expected, away>>

NoSession == [kind |-> "none", roles |-> {}]
Session(kind, held) == [kind |-> kind, roles |-> held]
Kind == {"none", "console", "provider", "shared"}

TypeOK ==
  /\ config \in {LoadConfig(s) : s \in Settings}
  /\ own \in BOOLEAN /\ linked \in BOOLEAN /\ awake \in BOOLEAN
  /\ account \in {"none", "active", "suspended"} /\ roles \subseteq Role
  /\ asked \in 0..AskLimit
  /\ link \in [Link -> {"none", "mailed", "unseen", "spent", "expired"}]
  /\ opened \in [Link -> 0..1]
  /\ page \in {"blank", "waiting", "signin", "sent", "verify", "home", "refused"}
  /\ opening \in 0..MaxLink /\ acting \subseteq Role
  /\ jar \in [kind : Kind, roles : SUBSET Role]
  /\ expected \in 0..MaxTab /\ away \subseteq Tab
  /\ found \subseteq {"console", "gateway"} /\ mishaps \in 0..Mishaps

Init ==
  /\ \E s \in Settings : Starts(s) /\ config = LoadConfig(s)
  /\ own \in BOOLEAN
  /\ linked \in BOOLEAN /\ (linked => own \/ config.oidc)  \* of no matter without
  /\ account \in {"none", "active"}
  /\ roles \in IF account = "none" THEN {{}} ELSE SUBSET Role
  /\ awake = FALSE
  /\ asked = 0
  /\ link = [l \in Link |-> "none"]
  /\ opened = [l \in Link |-> 0]
  /\ page = "blank" /\ opening = 0 /\ acting = {}
  /\ jar = NoSession
  /\ expected = 0 /\ away = {} /\ found = {}
  /\ mishaps = Mishaps

Costs(n) == mishaps >= n /\ mishaps' = mishaps - n
Spare == Costs(1)
-----------------------------------------------------------------------------
(* The gateway as a process, and the register *)

\* ensure(): what a start makes of the person named first administrator.
Ensured ==
  IF ~config.firstAdmin \/ account = "suspended" THEN register
  ELSE <<"active", roles \cup {Admin}>>

Start ==
  /\ ~awake
  /\ awake' = TRUE
  /\ asked' = 0 /\ found' = found \ {"gateway"}
  /\ account' = Ensured[1] /\ roles' = Ensured[2]
  /\ UNCHANGED <<fixed, link, opened, browser, mishaps>>

Sleep ==
  /\ awake /\ Spare
  /\ awake' = FALSE
  /\ UNCHANGED <<fixed, found, register, links, browser>>

Suspend ==
  /\ account = "active" /\ Spare
  /\ account' = "suspended"
  /\ UNCHANGED <<fixed, found, roles, awake, links, browser>>

ChangeRoles(held) ==
  /\ account # "none" /\ held # roles /\ Spare
  /\ roles' = held
  /\ UNCHANGED <<fixed, found, account, awake, links, browser>>

-----------------------------------------------------------------------------
(* The sign-in page *)

\* The people a demonstration lets one continue as.  The console does not ask
\* where it has a provider of its own.
Demo == config.dev /\ ~own /\ account = "active"

\* What the page holds out, by the three ways it is laid out.
Offers ==
  CASE config.email -> {"email"} \cup (IF own /\ config.oidc THEN {"provider"} ELSE {})
                                 \cup (IF Demo THEN {"demo", "token"} ELSE {})
    [] ~config.email /\ own -> {"provider"}
    [] OTHER -> {"token"} \cup (IF Demo THEN {"demo"} ELSE {})

\* Any page of the console, without a session, or /signin itself.  A gateway
\* that does not answer is waited for.
LoadSignIn ==
  /\ page \in {"blank", "waiting", "signin", "sent", "refused"}
  /\ page = "blank" => jar = NoSession
  /\ page' = IF awake THEN "signin" ELSE "waiting"
  /\ UNCHANGED <<fixed, found, register, awake, links, opening, acting, jar, expected, away, mishaps>>

-----------------------------------------------------------------------------
(* By e-mail *)

\* What becomes of a mail: only a real provider sends it, and one of them not
\* from an address at somebody else's domain, or only to its own customer.
Sends == config.mailer \in RealMail /\ ~(config.mailer = "resend" /\ config.from # "own")

Sendable == account = "active" /\ roles # {}
Free == {l \in Link : link[l] \in {"none", "unseen", "spent", "expired"}}

\* The controller lets an address ask so often in a window.
MayAsk == asked < AskLimit

\* start(): the answer is the same whatever happened.
Ask ==
  /\ awake /\ page = "signin" /\ "email" \in Offers
  /\ MayAsk
  /\ asked' = asked + 1
  /\ IF Sendable
     THEN \E l \in Free : \E fate \in {"mailed", "unseen"} :
            /\ link' = [link EXCEPT ![l] = fate]
            /\ opened' = [opened EXCEPT ![l] = 0]
            /\ IF fate = "mailed" THEN Sends /\ UNCHANGED mishaps
               ELSE IF Sends THEN Spare ELSE UNCHANGED mishaps
     ELSE UNCHANGED <<link, opened, mishaps>>
  /\ page' = "sent"
  /\ UNCHANGED <<fixed, found, register, awake, opening, acting, jar, expected, away>>

\* A mutant: opening a link spends it.
Arrived_Spends(l) == [link EXCEPT ![l] = "spent"]

\* Arriving by the link does nothing to it, whoever does: a person, or a
\* scanner that opens every link of a mail.
Arrived(l) == link

Scan(l) ==
  /\ link[l] = "mailed" /\ awake /\ page # "verify" /\ Spare
  /\ link' = Arrived(l)
  /\ UNCHANGED <<fixed, found, register, awake, asked, opened, browser>>

OpenLink(l) ==
  /\ link[l] \in {"mailed", "spent", "expired"} /\ awake
  /\ page \in {"signin", "sent"}
  /\ IF link[l] = "mailed" THEN UNCHANGED mishaps ELSE Spare
  /\ page' = "verify" /\ opening' = l
  /\ link' = Arrived(l)
  /\ UNCHANGED <<fixed, found, register, awake, asked, opened, acting, jar, expected, away>>

\* A mutant: a used link is as good as a new one.
Spendable_Twice(l) == link[l] \in {"mailed", "spent"}

\* The one statement that spends a link.
Spendable(l) == link[l] = "mailed"

\* verify(), and its answer, which may be lost on the way to the console.
Continue(l) ==
  /\ awake /\ page = "verify" /\ opening = l
  /\ opening' = 0
  /\ link' = IF Spendable(l) THEN [link EXCEPT ![l] = "spent"] ELSE link
  /\ \E arrives \in BOOLEAN :
       LET good == Spendable(l) /\ account = "active" IN
       /\ IF arrives THEN UNCHANGED mishaps ELSE Spare
       /\ opened' = IF good THEN [opened EXCEPT ![l] = @ + 1] ELSE opened
       /\ jar' = IF good /\ arrives THEN Session("console", {}) ELSE jar
       /\ page' = IF good /\ arrives THEN "blank" ELSE "signin"
  /\ UNCHANGED <<fixed, found, register, awake, asked, acting, expected, away>>

ExpireLink(l) ==
  /\ link[l] = "mailed" /\ Spare
  /\ link' = [link EXCEPT ![l] = "expired"]
  /\ UNCHANGED <<fixed, found, register, awake, asked, opened, browser>>

WindowPasses ==
  /\ asked > 0
  /\ asked' = 0
  /\ UNCHANGED <<fixed, found, register, awake, link, opened, browser, mishaps>>

-----------------------------------------------------------------------------
(* By the institution's provider, as a demonstration, or by a pasted token *)

\* A process asks the provider where its endpoints and keys are when it first
\* needs them, and keeps the answer.  A failure is not kept.
Discovers(process, reached) ==
  /\ process \in found => reached
  /\ found' = IF reached THEN found \cup {process} ELSE found

\* The redirect to the provider, for which its address has to be known.  When it
\* is not found the cookie may already be set.
Departs(t, reached) ==
  /\ away' = IF reached THEN away \cup {t} ELSE away
  /\ expected' \in IF reached THEN {t} ELSE {t, expected}
  /\ page' = IF reached THEN page ELSE "refused"

\* A second tab overwrites the cookie of the first.
BeginProvider(t) ==
  /\ page = "signin" /\ "provider" \in Offers
  /\ t \notin away /\ \A u \in 1..(t - 1) : u \in away
  /\ \E reached \in BOOLEAN :
       /\ Discovers("console", reached)
       /\ Costs((IF away = {} THEN 0 ELSE 1) + (IF reached THEN 0 ELSE 1))
       /\ Departs(t, reached)
  /\ UNCHANGED <<fixed, register, awake, links, opening, acting, jar>>

\* The code is exchanged for a token, or it is not.
Exchange(good) ==
  /\ jar' = IF good THEN Session("provider", roles) ELSE jar
  /\ page' = IF good THEN "blank" ELSE "signin"

\* The provider sends the browser back with a code that may be exchanged, or
\* with a refusal of its own, which leaves the cookies as they are.
Callback(t) ==
  /\ t \in away
  /\ away' = away \ {t}
  /\ \E answer \in {"code", "badCode", "refusal"} :
       /\ IF answer = "code" THEN UNCHANGED mishaps ELSE Spare
       /\ expected' = IF answer = "refusal" THEN expected ELSE 0
       /\ Exchange(answer = "code" /\ expected = t)
  /\ UNCHANGED <<fixed, found, register, awake, links, opening, acting>>

\* Naming a seeded user is enough, where the gateway has a secret to sign with.
SignInAs ==
  /\ awake /\ page = "signin" /\ "demo" \in Offers
  /\ jar' = IF config.shared THEN Session("shared", roles) ELSE jar
  /\ page' = IF config.shared THEN "blank" ELSE "signin"
  /\ UNCHANGED <<fixed, found, register, awake, links, opening, acting, expected, away, mishaps>>

\* A token somebody minted with the shared secret (cli/mint-token.ts).
PasteToken ==
  /\ page = "signin" /\ "token" \in Offers
  /\ config.shared /\ Sendable
  /\ jar' = Session("shared", roles)
  /\ page' = "blank"
  /\ UNCHANGED <<fixed, found, register, awake, links, opening, acting, expected, away, mishaps>>

-----------------------------------------------------------------------------
(* A request of the console *)

\* Which tokens the gateway can verify at all.
Verifies(kind) ==
  CASE kind = "console" -> config.email
    [] kind = "provider" -> config.oidc
    [] kind = "shared" -> ~config.oidc /\ config.shared
    [] OTHER -> FALSE

\* A session of the console's own names the person and nothing else; the
\* others carry the roles they were issued with.
Authority == IF jar.kind = "console" THEN roles ELSE jar.roles

\* A mutant: a session is good until it expires.
Known_ForSessions == jar.kind = "provider" => linked

\* The guard: the register decides who is somebody here.  It answers 401, on
\* which the console returns to the sign-in page, or 403.
Known == account = "active" /\ (jar.kind = "provider" => linked)

\* Whether it can verify this one: the provider's keys have to be found first,
\* and a provider that cannot be reached is told apart from a bad token (503).
FindsKeys(reached) ==
  IF jar.kind = "provider" /\ config.oidc THEN Discovers("gateway", reached)
  ELSE reached /\ UNCHANGED found

LoadHome ==
  /\ awake /\ jar # NoSession /\ page \in {"blank", "home"}
  /\ \E reached \in BOOLEAN :
       /\ FindsKeys(reached)
       /\ Costs(IF reached THEN 0 ELSE 1)
       /\ page' = CASE ~reached -> "refused"
                    [] reached /\ Verifies(jar.kind) /\ Known -> "home"
                    [] reached /\ Verifies(jar.kind) /\ ~Known /\ jar.kind # "console" -> "refused"
                    [] OTHER -> "signin"
  /\ acting' = IF page' = "home" THEN Authority ELSE {}
  /\ UNCHANGED <<fixed, register, awake, links, opening, jar, expected, away>>

SignOut ==
  /\ page = "home" /\ Spare
  /\ jar' = NoSession /\ page' = "blank" /\ acting' = {}
  /\ UNCHANGED <<fixed, found, register, awake, links, opening, expected, away>>

\* The cookie lasts as long as the token, and is gone with it.
SessionEnds ==
  /\ jar # NoSession /\ Spare
  /\ jar' = NoSession /\ page' = "blank" /\ acting' = {}
  /\ UNCHANGED <<fixed, found, register, awake, links, opening, expected, away>>

-----------------------------------------------------------------------------
Next ==
  \/ Start \/ Sleep \/ Suspend \/ WindowPasses
  \/ LoadSignIn \/ Ask \/ SignInAs \/ PasteToken \/ LoadHome \/ SignOut \/ SessionEnds
  \/ \E held \in SUBSET Role : ChangeRoles(held)
  \/ \E l \in Link : Scan(l) \/ OpenLink(l) \/ Continue(l) \/ ExpireLink(l)
  \/ \E t \in Tab : BeginProvider(t) \/ Callback(t)

\* A person who keeps trying, a gateway that is started again, time passing.
Fairness ==
  /\ WF_vars(Start) /\ WF_vars(WindowPasses)
  /\ WF_vars(LoadSignIn) /\ WF_vars(Ask) /\ WF_vars(LoadHome)
  /\ WF_vars(\E l \in Link : OpenLink(l)) /\ WF_vars(\E l \in Link : Continue(l))
  /\ WF_vars(\E t \in Tab : BeginProvider(t)) /\ WF_vars(\E t \in Tab : Callback(t))

Spec == Init /\ [][Next]_vars /\ Fairness

-----------------------------------------------------------------------------
(* Properties *)

Opens(way) ==
  CASE way = "email" -> config.email /\ config.mailer \in RealMail
    [] way = "provider" -> config.oidc
    [] OTHER -> Verifies("shared")

\* What a pilot promises (config.ts:182-189): exhibits and the public page are
\* kept apart as its status page says, every way its sign-in page holds out is
\* one its gateway honours, and no page is served under a token that anybody with
\* the shared secret can make.  It takes the console's settings to agree with the
\* gateway's on whether there is a provider.
PilotPromises ==
  config.pilot =>
    /\ Checks(config, TRUE, 0).evidence = "ok" /\ Checks(config, TRUE, 0).verify = "ok"
    /\ own = config.oidc => \A way \in Offers : Opens(way)
    /\ page = "home" => jar.kind # "shared"

\* A link opens the console once, whatever is pressed twice, opened by a
\* scanner or lost on the way (email-sign-in.service.ts:16-20).
LinkOpensOnce == \A l \in Link : opened[l] <= 1

\* Taking a role away or suspending the person takes effect on the next click
\* (console-session.ts:5-8): a page is never served to somebody suspended, and
\* under a session of the console's own never with a role since taken away.
ActsAsRegistered ==
  [][page' = "home" /\ (page # "home" \/ acting' # acting) =>
       /\ account = "active"
       /\ jar.kind = "console" => acting' = roles]_vars

\* The status page says nothing is broken in signing in and in e-mail, and the
\* console and the register know the provider where only that is left.
SaysFine ==
  LET checks == Checks(config, TRUE, 0) IN
  /\ checks.signin # "fail" /\ checks.email = "ok"
  /\ checks.signin = "warn" => own /\ linked
  /\ "provider" \in Offers => linked

\* Then an active person with a role who keeps trying gets in
\* (system-status.ts:3-9 against all of the above).
GetsIn ==
  SaysFine => (<>[](account = "active" /\ roles # {}) => []<>(page = "home"))
=============================================================================
