---------------------------- MODULE ConsoleProofs ---------------------------
(***************************************************************************)
(* What holds of the console whatever the settings, the roles, the number  *)
(* of links, tabs, commands and sweeps, and the due dates: a pilot keeps   *)
(* its promises, a link opens the console once, and a page is served under *)
(* the roles the register has at that moment; a finding is closed only by  *)
(* a verification of a closure that was not rejected in between, and once  *)
(* closed stays closed.                                                    *)
(*                                                                         *)
(* SignIn and FindingWorkflow share no variable; each theorem is of one of *)
(* them.                                                                   *)
(***************************************************************************)
EXTENDS SignIn, FindingWorkflow, TLAPS

-----------------------------------------------------------------------------
(* Signing in: types.                                                      *)

JarType == [kind : Kind, roles : SUBSET Role]
LinkState == {"none", "mailed", "unseen", "spent", "expired"}
Page == {"blank", "waiting", "signin", "sent", "verify", "home", "refused"}

\* The parts of the state, by what changes them together.
FixedOK ==
  config \in {LoadConfig(s) : s \in Settings} /\ own \in BOOLEAN /\ linked \in BOOLEAN
RegisterOK == account \in {"none", "active", "suspended"} /\ roles \subseteq Role
GatewayOK == awake \in BOOLEAN /\ found \subseteq {"console", "gateway"}
LinksOK ==
  /\ asked \in 0..AskLimit
  /\ link \in [Link -> LinkState] /\ opened \in [Link -> 0..1]
BrowserOK ==
  /\ page \in Page /\ opening \in 0..MaxLink /\ acting \subseteq Role
  /\ jar \in JarType /\ expected \in 0..MaxTab /\ away \subseteq Tab

LEMMA TypeParts ==
  TypeOK <=> /\ FixedOK /\ RegisterOK /\ GatewayOK /\ LinksOK /\ BrowserOK
             /\ mishaps \in 0..Mishaps
BY DEF TypeOK, FixedOK, RegisterOK, GatewayOK, LinksOK, BrowserOK, JarType,
       LinkState, Page

LEMMA TypePartsNext ==
  ASSUME FixedOK', RegisterOK', GatewayOK', LinksOK', BrowserOK', mishaps' \in 0..Mishaps
  PROVE  TypeOK'
BY DEF TypeOK, FixedOK, RegisterOK, GatewayOK, LinksOK, BrowserOK, JarType,
       LinkState, Page

LEMMA Bounds ==
  /\ MaxLink \in Nat \ {0} /\ MaxTab \in Nat \ {0} /\ AskLimit \in Nat \ {0}
  /\ Mishaps \in Nat /\ Admin \in Role
BY SignInAssumption

LEMMA Sessions ==
  /\ NoSession \in JarType
  /\ \A kind \in Kind, held \in SUBSET Role : Session(kind, held) \in JarType
BY DEF NoSession, Session, JarType, Kind

\* What is spent of the mishaps was there.
LEMMA CostsKeep ==
  ASSUME mishaps \in 0..Mishaps, NEW n \in Nat, Costs(n)
  PROVE  mishaps' \in 0..Mishaps
BY Bounds DEF Costs

LEMMA SpareKeeps ==
  ASSUME mishaps \in 0..Mishaps, Spare PROVE mishaps' \in 0..Mishaps
BY Bounds DEF Spare, Costs

LEMMA EnsuredIs ==
  ASSUME RegisterOK
  PROVE  Ensured[1] \in {"none", "active", "suspended"} /\ Ensured[2] \subseteq Role
<1>1. CASE ~config.firstAdmin \/ account = "suspended"
  <2>1. Ensured = <<account, roles>>
    BY <1>1, Zenon DEF Ensured, register
  <2> QED
    BY <2>1 DEF RegisterOK
<1>2. CASE ~(~config.firstAdmin \/ account = "suspended")
  <2>1. Ensured = <<"active", roles \cup {Admin}>>
    BY <1>2, Zenon DEF Ensured
  <2> QED
    BY <2>1, Bounds DEF RegisterOK
<1> QED
  BY <1>1, <1>2

LEMMA TypesInit == ASSUME Init PROVE TypeOK
<1>1. FixedOK
  <2>1. PICK s \in Settings : config = LoadConfig(s)
    BY Zenon DEF Init
  <2> QED
    BY <2>1 DEF FixedOK, Init
<1>2. RegisterOK
  BY DEF RegisterOK, Init
<1>3. GatewayOK /\ LinksOK /\ mishaps \in 0..Mishaps
  <2>1. GatewayOK /\ mishaps \in 0..Mishaps
    <3>1. awake = FALSE /\ found = {} /\ mishaps = Mishaps
      BY Zenon DEF Init
    <3>2. mishaps \in 0..Mishaps
      BY <3>1, Bounds
    <3> QED
      BY <3>1, <3>2 DEF GatewayOK
  <2>2. link \in [Link -> LinkState] /\ opened \in [Link -> 0..1]
    BY DEF Init, LinkState
  <2>3. asked \in 0..AskLimit
    BY Bounds DEF Init
  <2> QED
    BY <2>1, <2>2, <2>3 DEF LinksOK
<1>4. BrowserOK
  BY Bounds, Sessions DEF BrowserOK, Init, Page
<1> QED
  BY <1>1, <1>2, <1>3, <1>4, TypeParts

\* The gateway and the register.
LEMMA GatewayTypes ==
  ASSUME TypeOK, \/ Start \/ Sleep \/ Suspend \/ WindowPasses
                 \/ \E held \in SUBSET Role : ChangeRoles(held)
  PROVE  TypeOK'
<1> USE TypeParts, TypePartsNext DEF fixed, register, links, browser
<1>1. CASE Start
  <2>1. RegisterOK'
    BY <1>1, EnsuredIs DEF Start, RegisterOK
  <2>2. GatewayOK' /\ LinksOK'
    BY <1>1, Bounds DEF Start, GatewayOK, LinksOK
  <2>3. FixedOK' /\ BrowserOK' /\ mishaps' \in 0..Mishaps
    BY <1>1 DEF Start, FixedOK, BrowserOK
  <2> QED
    BY <2>1, <2>2, <2>3
<1>2. CASE Sleep
  <2>1. mishaps' \in 0..Mishaps
    BY <1>2, SpareKeeps DEF Sleep
  <2>2. FixedOK' /\ RegisterOK' /\ GatewayOK' /\ LinksOK' /\ BrowserOK'
    BY <1>2 DEF Sleep, FixedOK, RegisterOK, GatewayOK, LinksOK, BrowserOK
  <2> QED
    BY <2>1, <2>2
<1>3. CASE Suspend
  <2>1. mishaps' \in 0..Mishaps
    BY <1>3, SpareKeeps DEF Suspend
  <2>2. FixedOK' /\ RegisterOK' /\ GatewayOK' /\ LinksOK' /\ BrowserOK'
    BY <1>3 DEF Suspend, FixedOK, RegisterOK, GatewayOK, LinksOK, BrowserOK
  <2> QED
    BY <2>1, <2>2
<1>4. CASE WindowPasses
  <2>1. LinksOK' /\ mishaps' = mishaps
    BY <1>4, Bounds DEF WindowPasses, LinksOK
  <2>2. FixedOK' /\ RegisterOK' /\ GatewayOK' /\ BrowserOK'
    BY <1>4 DEF WindowPasses, FixedOK, RegisterOK, GatewayOK, BrowserOK
  <2> QED
    BY <2>1, <2>2
<1>5. ASSUME NEW held \in SUBSET Role, ChangeRoles(held) PROVE TypeOK'
  <2>1. mishaps' \in 0..Mishaps
    BY <1>5, SpareKeeps DEF ChangeRoles
  <2>2. FixedOK' /\ RegisterOK' /\ GatewayOK' /\ LinksOK' /\ BrowserOK'
    BY <1>5 DEF ChangeRoles, FixedOK, RegisterOK, GatewayOK, LinksOK, BrowserOK
  <2> QED
    BY <2>1, <2>2
<1> QED
  BY <1>1, <1>2, <1>3, <1>4, <1>5

\* A link that is mailed may be spent, and has opened nothing yet.
UnspentOpenedNothing == \A l \in Link : link[l] = "mailed" => opened[l] = 0

\* What asking for a link, opening it and continuing from it do to the links.
LEMMA LinkSteps ==
  ASSUME TypeOK, UnspentOpenedNothing,
         \/ Ask \/ \E l \in Link : Scan(l) \/ OpenLink(l) \/ Continue(l) \/ ExpireLink(l)
  PROVE  LinksOK' /\ UnspentOpenedNothing' /\ mishaps' \in 0..Mishaps
<1>1. LinksOK /\ mishaps \in 0..Mishaps
  BY TypeParts
<1>2. CASE Ask
  <2>1. asked' \in 0..AskLimit
    BY <1>1, <1>2, Bounds DEF Ask, MayAsk, LinksOK
  <2>2. CASE UNCHANGED <<link, opened, mishaps>>
    BY <1>1, <2>1, <2>2 DEF LinksOK, UnspentOpenedNothing
  <2>3. ASSUME NEW l \in Link, NEW fate \in {"mailed", "unseen"},
               link' = [link EXCEPT ![l] = fate], opened' = [opened EXCEPT ![l] = 0],
               Spare \/ UNCHANGED mishaps
        PROVE  LinksOK' /\ UnspentOpenedNothing' /\ mishaps' \in 0..Mishaps
    <3>1. mishaps' \in 0..Mishaps
      BY <1>1, <2>3, SpareKeeps
    <3>2. link' \in [Link -> LinkState] /\ opened' \in [Link -> 0..1]
      BY <1>1, <2>3 DEF LinksOK, LinkState
    <3>3. \A m \in Link : link'[m] = "mailed" => opened'[m] = 0
      BY <1>1, <2>3 DEF LinksOK, UnspentOpenedNothing
    <3> QED
      BY <2>1, <3>1, <3>2, <3>3 DEF LinksOK, UnspentOpenedNothing
  <2>4. \/ UNCHANGED <<link, opened, mishaps>>
        \/ \E l \in Link, fate \in {"mailed", "unseen"} :
             /\ link' = [link EXCEPT ![l] = fate] /\ opened' = [opened EXCEPT ![l] = 0]
             /\ Spare \/ UNCHANGED mishaps
    BY <1>2 DEF Ask, Free
  <2> QED
    BY <2>2, <2>3, <2>4
<1>3. ASSUME NEW l \in Link, Scan(l) \/ OpenLink(l)
      PROVE  LinksOK' /\ UnspentOpenedNothing' /\ mishaps' \in 0..Mishaps
  <2>1. UNCHANGED <<asked, link, opened>>
    BY <1>3 DEF Scan, OpenLink, Arrived
  <2>2. mishaps' \in 0..Mishaps
    <3>1. Spare \/ UNCHANGED mishaps
      BY <1>3 DEF Scan, OpenLink
    <3> QED
      BY <1>1, <3>1, SpareKeeps
  <2> QED
    BY <1>1, <2>1, <2>2 DEF LinksOK, UnspentOpenedNothing
<1>4. ASSUME NEW l \in Link, Continue(l)
      PROVE  LinksOK' /\ UnspentOpenedNothing' /\ mishaps' \in 0..Mishaps
  <2>1. mishaps' \in 0..Mishaps
    <3>1. Spare \/ UNCHANGED mishaps
      BY <1>4 DEF Continue
    <3> QED
      BY <1>1, <3>1, SpareKeeps
  <2>2. /\ asked' = asked
        /\ link' = IF link[l] = "mailed" THEN [link EXCEPT ![l] = "spent"] ELSE link
        /\ \/ opened' = opened
           \/ link[l] = "mailed" /\ opened' = [opened EXCEPT ![l] = @ + 1]
    BY <1>4 DEF Continue, Spendable
  <2>3. CASE link[l] # "mailed"
    BY <1>1, <2>1, <2>2, <2>3 DEF LinksOK, UnspentOpenedNothing
  <2>4. CASE link[l] = "mailed"
    <3>1. opened[l] = 0
      BY <2>4 DEF UnspentOpenedNothing
    <3>2. opened' = opened \/ opened' = [opened EXCEPT ![l] = 1]
      BY <2>2, <3>1
    <3>3. link' = [link EXCEPT ![l] = "spent"]
      BY <2>2, <2>4
    <3>4. link' \in [Link -> LinkState] /\ opened' \in [Link -> 0..1]
      BY <1>1, <3>2, <3>3 DEF LinksOK, LinkState
    <3>5. \A m \in Link : link'[m] = "mailed" => opened'[m] = 0
      BY <1>1, <3>2, <3>3 DEF LinksOK, UnspentOpenedNothing
    <3> QED
      BY <1>1, <2>1, <2>2, <3>4, <3>5 DEF LinksOK, UnspentOpenedNothing
  <2> QED
    BY <2>3, <2>4
<1>5. ASSUME NEW l \in Link, ExpireLink(l)
      PROVE  LinksOK' /\ UnspentOpenedNothing' /\ mishaps' \in 0..Mishaps
  <2>1. mishaps' \in 0..Mishaps
    BY <1>1, <1>5, SpareKeeps DEF ExpireLink
  <2>2. UNCHANGED <<asked, opened>> /\ link' = [link EXCEPT ![l] = "expired"]
    BY <1>5 DEF ExpireLink
  <2>3. link' \in [Link -> LinkState] /\ \A m \in Link : link'[m] = "mailed" => link[m] = "mailed"
    BY <1>1, <2>2 DEF LinksOK, LinkState
  <2> QED
    BY <1>1, <2>1, <2>2, <2>3 DEF LinksOK, UnspentOpenedNothing
<1> QED
  BY <1>2, <1>3, <1>4, <1>5

LEMMA LinkTypes ==
  ASSUME TypeOK, UnspentOpenedNothing,
         \/ Ask \/ \E l \in Link : Scan(l) \/ OpenLink(l) \/ Continue(l) \/ ExpireLink(l)
  PROVE  TypeOK'
<1> USE DEF fixed, register, browser
<1>1. FixedOK' /\ RegisterOK' /\ GatewayOK'
  BY TypeParts DEF Ask, Scan, OpenLink, Continue, ExpireLink, FixedOK, RegisterOK, GatewayOK
<1>2. BrowserOK'
  <2>1. BrowserOK
    BY TypeParts
  <2>2. /\ page' \in Page /\ opening' \in 0..MaxLink
        /\ UNCHANGED <<acting, expected, away>>
    BY <2>1, Bounds
       DEF Ask, Scan, OpenLink, Continue, ExpireLink, BrowserOK, Page, Link
  <2>3. jar' = jar \/ jar' = Session("console", {})
    BY DEF Ask, Scan, OpenLink, Continue, ExpireLink
  <2>4. jar' \in JarType
    BY <2>1, <2>3, Sessions DEF BrowserOK, Kind
  <2> QED
    BY <2>1, <2>2, <2>4 DEF BrowserOK
<1> QED
  BY <1>1, <1>2, LinkSteps, TypePartsNext

\* Everything else is of the browser and the provider.
LEMMA BrowserTypes ==
  ASSUME TypeOK,
         \/ LoadSignIn \/ SignInAs \/ PasteToken \/ LoadHome \/ SignOut \/ SessionEnds
         \/ \E t \in Tab : BeginProvider(t) \/ Callback(t)
  PROVE  TypeOK'
<1> USE DEF fixed, register, links
<1>1. /\ FixedOK' /\ RegisterOK' /\ LinksOK' /\ awake' = awake
      /\ BrowserOK /\ GatewayOK /\ mishaps \in 0..Mishaps /\ roles \subseteq Role
  BY TypeParts
     DEF LoadSignIn, SignInAs, PasteToken, LoadHome, SignOut, SessionEnds,
         BeginProvider, Callback, FixedOK, RegisterOK, LinksOK
<1>2. mishaps' \in 0..Mishaps
  <2>1. \/ UNCHANGED mishaps
        \/ Costs(0) \/ Costs(1) \/ Costs(2)
    BY DEF LoadSignIn, SignInAs, PasteToken, LoadHome, SignOut, SessionEnds,
           BeginProvider, Callback, Spare
  <2> QED
    BY <1>1, <2>1, CostsKeep
<1>3. GatewayOK'
  <2>1. found' \subseteq found \cup {"console", "gateway"}
    BY DEF LoadSignIn, SignInAs, PasteToken, LoadHome, SignOut, SessionEnds,
           BeginProvider, Callback, FindsKeys, Discovers
  <2> QED
    BY <1>1, <2>1 DEF GatewayOK
<1>4. page' \in Page /\ opening' = opening
  BY <1>1 DEF LoadSignIn, SignInAs, PasteToken, LoadHome, SignOut, SessionEnds,
              BeginProvider, Callback, Exchange, Departs, BrowserOK, Page
<1>5. jar' \in JarType /\ acting' \subseteq Role
  <2>1. \/ jar' \in {jar, NoSession}
        \/ \E kind \in Kind : jar' = Session(kind, roles)
    BY DEF LoadSignIn, SignInAs, PasteToken, LoadHome, SignOut, SessionEnds,
           BeginProvider, Callback, Exchange, Kind
  <2>2. jar' \in JarType
    BY <1>1, <2>1, Sessions DEF BrowserOK
  <2>3. acting' \in {acting, Authority, {}}
    BY DEF LoadSignIn, SignInAs, PasteToken, LoadHome, SignOut, SessionEnds,
           BeginProvider, Callback
  <2>4. Authority \subseteq Role
    BY <1>1 DEF Authority, BrowserOK, JarType
  <2> QED
    BY <1>1, <2>2, <2>3, <2>4 DEF BrowserOK
<1>6. expected' \in 0..MaxTab /\ away' \subseteq Tab
  <2>1. CASE \E t \in Tab : BeginProvider(t) \/ Callback(t)
    <3>1. PICK t \in Tab : BeginProvider(t) \/ Callback(t)
      BY <2>1
    <3>2. away' \subseteq away \cup {t} /\ expected' \in {expected, t, 0}
      BY <3>1 DEF BeginProvider, Callback, Departs
    <3> QED
      BY <1>1, <3>2, Bounds DEF BrowserOK, Tab
  <2>2. CASE UNCHANGED <<expected, away>>
    BY <1>1, <2>2 DEF BrowserOK
  <2> QED
    BY <2>1, <2>2 DEF LoadSignIn, SignInAs, PasteToken, LoadHome, SignOut, SessionEnds
<1>7. BrowserOK'
  BY <1>4, <1>5, <1>6, <1>1 DEF BrowserOK
<1> QED
  BY <1>1, <1>2, <1>3, <1>7, TypePartsNext

-----------------------------------------------------------------------------
(* What the gateway's settings allow, and what the page in front was served *)
(* for.                                                                     *)

\* The gateway started with these settings.
Started ==
  \E s \in Settings : Starts(s) /\ config = LoadConfig(s)

\* A page of the console is shown under a session the gateway can verify.
HomeIsVerified == page = "home" => Verifies(jar.kind)

SignInInv == TypeOK /\ UnspentOpenedNothing /\ Started /\ HomeIsVerified

LEMMA InvInit == ASSUME Init PROVE SignInInv
<1>1. UnspentOpenedNothing /\ HomeIsVerified
  BY DEF Init, UnspentOpenedNothing, HomeIsVerified
<1>2. Started
  BY Zenon DEF Init, Started
<1> QED
  BY <1>1, <1>2, TypesInit DEF SignInInv

\* The page of the console is served by LoadHome alone, and no other step leaves
\* it in front with another session in the jar.
LEMMA HomeSteps ==
  ASSUME [Next]_vars, page' = "home"
  PROVE  \/ LoadHome
         \/ page = "home" /\ jar' = jar /\ acting' = acting
<1> USE DEF links, browser
<1>1. CASE \/ Start \/ Sleep \/ Suspend \/ WindowPasses \/ UNCHANGED vars
           \/ \E held \in SUBSET Role : ChangeRoles(held)
  BY <1>1 DEF Start, Sleep, Suspend, WindowPasses, ChangeRoles, vars
<1>2. CASE LoadSignIn \/ Ask \/ SignInAs \/ PasteToken \/ SignOut \/ SessionEnds
  BY <1>2 DEF LoadSignIn, Ask, SignInAs, PasteToken, SignOut, SessionEnds
<1>3. ASSUME NEW l \in Link, Scan(l) \/ OpenLink(l) \/ Continue(l) \/ ExpireLink(l)
      PROVE  page = "home" /\ jar' = jar /\ acting' = acting
  BY <1>3 DEF Scan, OpenLink, Continue, ExpireLink
<1>4. ASSUME NEW t \in Tab, BeginProvider(t) \/ Callback(t)
      PROVE  page = "home" /\ jar' = jar /\ acting' = acting
  BY <1>4 DEF BeginProvider, Callback, Departs, Exchange
<1> QED
  BY <1>1, <1>2, <1>3, <1>4 DEF Next

LEMMA ConfigStays == ASSUME [Next]_vars PROVE UNCHANGED fixed
BY DEF Next, Start, Sleep, Suspend, WindowPasses, LoadSignIn, Ask, SignInAs,
       PasteToken, LoadHome, SignOut, SessionEnds, ChangeRoles, Scan, OpenLink,
       Continue, ExpireLink, BeginProvider, Callback, vars, fixed

LEMMA LinksStay ==
  ASSUME UnspentOpenedNothing, UNCHANGED <<link, opened>> PROVE UnspentOpenedNothing'
BY DEF UnspentOpenedNothing

LEMMA InvNext == ASSUME SignInInv, [Next]_vars PROVE SignInInv'
<1> USE DEF SignInInv
<1>1. TypeOK' /\ UnspentOpenedNothing'
  <2>1. CASE \/ Start \/ Sleep \/ Suspend \/ WindowPasses
             \/ \E held \in SUBSET Role : ChangeRoles(held)
    <3>1. UNCHANGED <<link, opened>>
      BY <2>1 DEF Start, Sleep, Suspend, WindowPasses, ChangeRoles, links
    <3> QED
      BY <2>1, <3>1, GatewayTypes, LinksStay
  <2>2. CASE \/ LoadSignIn \/ SignInAs \/ PasteToken \/ LoadHome \/ SignOut \/ SessionEnds
             \/ \E t \in Tab : BeginProvider(t) \/ Callback(t)
    <3>1. UNCHANGED <<link, opened>>
      BY <2>2 DEF LoadSignIn, SignInAs, PasteToken, LoadHome, SignOut, SessionEnds,
                  BeginProvider, Callback, links
    <3> QED
      BY <2>2, <3>1, BrowserTypes, LinksStay
  <2>3. CASE Ask \/ \E l \in Link : Scan(l) \/ OpenLink(l) \/ Continue(l) \/ ExpireLink(l)
    BY <2>3, LinkTypes, LinkSteps
  <2>4. CASE UNCHANGED vars
    BY <2>4 DEF vars, TypeOK, UnspentOpenedNothing
  <2> QED
    BY <2>1, <2>2, <2>3, <2>4 DEF Next
<1>2. config' = config
  BY ConfigStays DEF fixed
<1>3. Started'
  BY <1>2 DEF Started
<1>4. HomeIsVerified'
  <2>1. CASE page' = "home" /\ ~LoadHome
    BY <1>2, <2>1, HomeSteps, Zenon DEF HomeIsVerified, Verifies
  <2>2. CASE page' = "home" /\ LoadHome
    <3>1. Verifies(jar.kind) /\ jar' = jar
      BY <2>2 DEF LoadHome
    <3> QED
      BY <1>2, <3>1, Zenon DEF HomeIsVerified, Verifies
  <2> QED
    BY <2>1, <2>2 DEF HomeIsVerified
<1> QED
  BY <1>1, <1>3, <1>4

LEMMA InvHolds == Spec => []SignInInv
<1>1. Init => SignInInv
  BY InvInit
<1>2. SignInInv /\ [Next]_vars => SignInInv'
  BY InvNext
<1> QED
  BY <1>1, <1>2, PTL DEF Spec

-----------------------------------------------------------------------------
(* The theorems                                                            *)

\* The variables have the shapes their comments say.
THEOREM SignInTypes == Spec => []TypeOK
BY InvHolds, PTL DEF SignInInv

\* A link opens the console once, whatever is pressed twice, opened by a
\* scanner or lost on the way (email-sign-in.service.ts:16-20).
THEOREM LinkOpensOnceTheorem == Spec => []LinkOpensOnce
<1>1. SignInInv => LinkOpensOnce
  BY DEF SignInInv, TypeOK, LinkOpensOnce
<1> QED
  BY <1>1, InvHolds, PTL

\* What a pilot promises follows from the settings it refuses to start without.
LEMMA PilotSettings ==
  ASSUME Started, config.pilot
  PROVE  /\ config.s3 /\ config.ownRole /\ ~config.dev
         /\ config.oidc \/ (config.email /\ ~config.shared)
         /\ config.email => config.mailer \in RealMail
<1>1. PICK s \in Settings : Starts(s) /\ config = LoadConfig(s)
  BY DEF Started
<1>2. /\ config.pilot = s.pilot /\ config.s3 = s.s3 /\ config.ownRole = s.ownRole
      /\ config.dev = s.dev /\ config.oidc = s.issuer /\ config.shared = s.shared
      /\ config.email = (s.consoleUrl = "ok") /\ config.mailer = Mailer(s)
  BY <1>1 DEF LoadConfig
<1>3. FitForPilot(s)
  BY <1>1, <1>2, Zenon DEF Starts
<1> QED
  BY <1>2, <1>3, Zenon DEF FitForPilot

LEMMA PilotKeeps == ASSUME SignInInv PROVE PilotPromises
<1> SUFFICES ASSUME config.pilot
             PROVE  /\ Checks(config, TRUE, 0).evidence = "ok"
                    /\ Checks(config, TRUE, 0).verify = "ok"
                    /\ own = config.oidc => \A way \in Offers : Opens(way)
                    /\ page = "home" => jar.kind # "shared"
  BY Zenon DEF PilotPromises
<1>1. /\ config.s3 /\ config.ownRole /\ ~config.dev
      /\ config.oidc \/ (config.email /\ ~config.shared)
      /\ config.email => config.mailer \in RealMail
  BY PilotSettings DEF SignInInv
<1>2. Checks(config, TRUE, 0).evidence = "ok" /\ Checks(config, TRUE, 0).verify = "ok"
  <2>1. Grade(config.s3, "fail") = "ok" /\ Grade(config.ownRole, "warn") = "ok"
    BY <1>1, Zenon DEF Grade
  <2> QED
    BY <2>1 DEF Checks
<1>3. ASSUME own = config.oidc, NEW way \in Offers PROVE Opens(way)
  <2>1. ~Demo
    BY <1>1, Zenon DEF Demo
  <2>2. CASE config.email
    <3>1. way = "email" \/ (way = "provider" /\ config.oidc)
      BY <1>3, <2>1, <2>2 DEF Offers
    <3> QED
      BY <1>1, <2>2, <3>1 DEF Opens
  <2>3. CASE ~config.email
    <3>1. config.oidc /\ own
      BY <1>1, <1>3, <2>3, Zenon
    <3>2. way = "provider"
      BY <2>3, <3>1 DEF Offers
    <3> QED
      BY <3>1, <3>2 DEF Opens
  <2> QED
    BY <2>2, <2>3
<1>4. ASSUME page = "home" PROVE jar.kind # "shared"
  <2>1. Verifies(jar.kind)
    BY <1>4 DEF SignInInv, HomeIsVerified
  <2>2. ~Verifies("shared")
    BY <1>1 DEF Verifies
  <2> QED
    BY <2>1, <2>2
<1> QED
  BY <1>2, <1>3, <1>4

\* What a pilot promises (config.ts:182-189), for every combination of settings
\* it can be started with.
THEOREM PilotPromisesTheorem == Spec => []PilotPromises
<1>1. SignInInv => PilotPromises
  BY PilotKeeps
<1> QED
  BY <1>1, InvHolds, PTL

\* A page is never served to somebody suspended, and under a session of the
\* console's own never with a role since taken away (console-session.ts:5-8).
THEOREM ActsAsRegisteredTheorem == Spec => ActsAsRegistered
<1>1. ASSUME [Next]_vars, page' = "home", page # "home" \/ acting' # acting
      PROVE  account = "active" /\ (jar.kind = "console" => acting' = roles)
  <2>1. LoadHome
    BY <1>1, HomeSteps
  <2>2. Known /\ acting' = Authority
    BY <1>1, <2>1 DEF LoadHome
  <2> QED
    BY <2>2 DEF Known, Authority
<1>2. [Next]_vars =>
        [page' = "home" /\ (page # "home" \/ acting' # acting) =>
           account = "active" /\ (jar.kind = "console" => acting' = roles)]_vars
  BY <1>1
<1> QED
  BY <1>2, PTL DEF Spec, ActsAsRegistered

-----------------------------------------------------------------------------
(* A finding: its row's status, after an event.                            *)

\* The handlers' guards, event by event: what each sets and when it does not.
LEMMA ProjectCases ==
  ASSUME NEW k \in Kinds, NEW s \in Statuses
  PROVE  /\ Project(k, s) \in Statuses
         /\ s = "closed" => Project(k, s) = "closed"
         /\ Project(k, s) = "closed" /\ s # "closed" => s = "awaiting" /\ k = "Closed"
         /\ Project(k, s) = "awaiting" =>
              k = "ClosureSubmitted" \/ (s = "awaiting" /\ k # "ClosureRejected")
BY DEF Kinds, Statuses, Project, Accepts, Sets

-----------------------------------------------------------------------------
(* Types.                                                                  *)

CommandRec ==
  [at : {"idle", "checked", "projecting"},
   does : {"none", "ClosureSubmitted", "Closed", "ClosureRejected"},
   awaits : Nat]

SweepRec ==
  [at : {"idle", "marking", "escalating", "notifying"},
   saw : {"none", "open", "overdue"}, today : 0..LastDay, awaits : Nat]

\* A command that has been checked has an event to append.
CheckedHasEvent ==
  \A c \in Command : command[c].at = "checked" => command[c].does \in Kinds

FindingTypes == WorkflowTypeOK /\ CheckedHasEvent

\* The store keeps its type and its events when one is appended.
LEMMA AppendFacts ==
  ASSUME NEW L \in Seq(Kinds), NEW k \in Kinds
  PROVE  /\ Append(L, k) \in Seq(Kinds)
         /\ Len(Append(L, k)) = Len(L) + 1
         /\ \A i \in 1..Len(L) : Append(L, k)[i] = L[i]
OBVIOUS

LEMMA FindingTypesInit == ASSUME WorkflowInit PROVE FindingTypes
<1> USE WorkflowAssumption DEF WorkflowInit
<1>1. log \in Seq(Kinds) /\ Len(log) = 1
  BY DEF Kinds
<1>2. command \in [Command -> CommandRec] /\ CheckedHasEvent
  BY DEF CommandRec, NoCommand, CheckedHasEvent
<1>3. sweep \in [Sweeper -> SweepRec]
  BY DEF SweepRec, NoSweep
<1> QED
  BY <1>1, <1>2, <1>3 DEF FindingTypes, WorkflowTypeOK, CommandRec, SweepRec, Statuses

LEMMA FindingTypesNext == ASSUME FindingTypes, [WorkflowNext]_workflowVars PROVE FindingTypes'
<1> USE WorkflowAssumption
<1>0. /\ day \in 0..LastDay /\ log \in Seq(Kinds) /\ seen \in 1..Len(log)
      /\ status \in Statuses /\ command \in [Command -> CommandRec]
      /\ sweep \in [Sweeper -> SweepRec] /\ notified \in Nat /\ CheckedHasEvent
      /\ Len(log) \in Nat
  BY DEF FindingTypes, WorkflowTypeOK, CommandRec, SweepRec
<1>m. mode' \in Modes
  BY DEF FindingTypes, WorkflowTypeOK, WorkflowNext, Tick, ProjectNext, SubmitClosure, VerifyClosure,
         RejectClosure, Check, AppendCommand, AnswerCommand, CommandDies,
         SweepReads, SweepStep, SweepMarks, SweepEscalates, SweepNotifies,
         SweepPasses, SweepDies, workflowVars
<1>q. ASSUME day' \in 0..LastDay, log' \in Seq(Kinds), seen' \in 1..Len(log'),
             status' \in Statuses, command' \in [Command -> CommandRec],
             sweep' \in [Sweeper -> SweepRec], notified' \in Nat, CheckedHasEvent'
      PROVE  FindingTypes'
  BY <1>m, <1>q DEF FindingTypes, WorkflowTypeOK, CommandRec, SweepRec
<1>1. CASE Tick
  <2>1. day' \in 0..LastDay
    BY <1>0, <1>1 DEF Tick
  <2> QED BY <2>1, <1>0, <1>1, <1>q DEF Tick, CheckedHasEvent
<1>2. CASE ProjectNext
  <2>1. seen' \in 1..Len(log') /\ log[seen + 1] \in Kinds
    BY <1>0, <1>2 DEF ProjectNext
  <2>2. status' \in Statuses
    BY <2>1, <1>0, <1>2, ProjectCases DEF ProjectNext
  <2> QED BY <2>1, <2>2, <1>0, <1>2, <1>q DEF ProjectNext, CheckedHasEvent
<1>3. ASSUME NEW c \in Command,
             SubmitClosure(c) \/ VerifyClosure(c) \/ RejectClosure(c)
      PROVE  FindingTypes'
  <2>1. PICK k \in {"ClosureSubmitted", "Closed", "ClosureRejected"} : Check(c, k)
    BY <1>3 DEF SubmitClosure, VerifyClosure, RejectClosure
  <2>2. command' \in [Command -> CommandRec] /\ CheckedHasEvent'
    BY <2>1, <1>0 DEF Check, CommandRec, CheckedHasEvent, Kinds
  <2> QED BY <2>1, <2>2, <1>0, <1>q DEF Check
<1>4. ASSUME NEW c \in Command, AppendCommand(c) PROVE FindingTypes'
  <2>1. command[c].does \in Kinds
    BY <1>4, <1>0 DEF AppendCommand, CheckedHasEvent
  <2>2. log' \in Seq(Kinds) /\ seen' \in 1..Len(log')
    BY <2>1, <1>4, <1>0, AppendFacts DEF AppendCommand
  <2> DEFINE r == [command[c] EXCEPT !.at = "projecting", !.awaits = Len(log) + 1]
  <2>a. command[c] \in CommandRec
    BY <1>0
  <2>b. r \in CommandRec /\ r.at = "projecting"
    <3>1. Len(log) + 1 \in Nat
      BY <1>0
    <3> QED BY <2>a, <3>1 DEF CommandRec
  <2>3. command' = [command EXCEPT ![c] = r]
    BY <1>4 DEF AppendCommand
  <2> HIDE DEF r
  <2>4. command' \in [Command -> CommandRec] /\ command'[c].at = "projecting"
    BY <2>3, <2>b, <1>0
  <2>5. CheckedHasEvent'
    BY <2>3, <2>4, <1>0 DEF CheckedHasEvent
  <2> QED BY <2>2, <2>4, <2>5, <1>4, <1>0, <1>q DEF AppendCommand
<1>5. ASSUME NEW c \in Command, AnswerCommand(c) \/ CommandDies(c) PROVE FindingTypes'
  <2>0. /\ command' = [command EXCEPT ![c] = NoCommand]
        /\ NoCommand \in CommandRec /\ NoCommand.at = "idle"
    BY <1>5 DEF AnswerCommand, CommandDies, CommandRec, NoCommand
  <2>1. command' \in [Command -> CommandRec] /\ CheckedHasEvent'
    BY <2>0, <1>0 DEF CheckedHasEvent
  <2> QED BY <2>1, <1>5, <1>0, <1>q DEF AnswerCommand, CommandDies
<1>6. ASSUME NEW s \in Sweeper, SweepReads(s) PROVE FindingTypes'
  <2>1. sweep' \in [Sweeper -> SweepRec]
    BY <1>6, <1>0 DEF SweepReads, SweepRec
  <2> QED BY <2>1, <1>6, <1>0, <1>q DEF SweepReads, CheckedHasEvent
<1>7. ASSUME NEW s \in Sweeper, SweepMarks(s) PROVE FindingTypes'
  <2>1. log' \in Seq(Kinds) /\ seen' \in 1..Len(log') /\ Len(log') \in Nat
    BY <1>7, <1>0, AppendFacts DEF SweepMarks, Kinds
  <2>2. PICK n \in Nat :
          sweep' = [sweep EXCEPT ![s] = [sweep[s] EXCEPT !.at = "escalating", !.awaits = n]]
    BY <2>1, <1>7, <1>0 DEF SweepMarks
  <2>a. [sweep[s] EXCEPT !.at = "escalating", !.awaits = n] \in SweepRec
    BY <1>0 DEF SweepRec
  <2>3. sweep' \in [Sweeper -> SweepRec]
    BY <2>2, <2>a, <1>0
  <2> QED BY <2>1, <2>3, <1>7, <1>0, <1>q DEF SweepMarks, CheckedHasEvent
<1>8. ASSUME NEW s \in Sweeper, SweepEscalates(s) PROVE FindingTypes'
  <2>1. log' \in Seq(Kinds) /\ seen' \in 1..Len(log') /\ Len(log') \in Nat
    BY <1>8, <1>0, AppendFacts DEF SweepEscalates, Kinds
  <2>2. sweep' \in [Sweeper -> SweepRec]
    BY <2>1, <1>8, <1>0 DEF SweepEscalates, SweepRec
  <2> QED BY <2>1, <2>2, <1>8, <1>0, <1>q DEF SweepEscalates, CheckedHasEvent
<1>9. ASSUME NEW s \in Sweeper, SweepNotifies(s) \/ SweepPasses(s) \/ SweepDies(s)
      PROVE  FindingTypes'
  <2>0. sweep' = [sweep EXCEPT ![s] = NoSweep] /\ NoSweep \in SweepRec
    BY <1>9 DEF SweepNotifies, SweepPasses, SweepDies, SweepRec, NoSweep
  <2>1. sweep' \in [Sweeper -> SweepRec]
    BY <2>0, <1>0
  <2>2. notified' \in Nat
    BY <1>9, <1>0 DEF SweepNotifies, SweepPasses, SweepDies
  <2> QED BY <2>1, <2>2, <1>9, <1>0, <1>q
        DEF SweepNotifies, SweepPasses, SweepDies, CheckedHasEvent
<1>10. CASE UNCHANGED workflowVars
  BY <1>10, <1>0, <1>q DEF workflowVars, CheckedHasEvent
<1> QED
  BY <1>1, <1>2, <1>3, <1>4, <1>5, <1>6, <1>7, <1>8, <1>9, <1>10 DEF WorkflowNext, SweepStep

\* The variables keep their shapes whatever commands and sweeps do.
THEOREM FindingTypesTheorem == WorkflowSpec => []WorkflowTypeOK
<1>1. FindingTypes => WorkflowTypeOK
  BY DEF FindingTypes
<1> QED
  BY FindingTypesInit, FindingTypesNext, <1>1, PTL DEF WorkflowSpec

-----------------------------------------------------------------------------
(* What a step does to the store and to the row.                           *)

\* Every step either appends an event or leaves the store alone, and only the
\* projector moves the row.
LEMMA StepShape ==
  ASSUME FindingTypes, [WorkflowNext]_workflowVars
  PROVE  \/ ProjectNext
         \/ /\ status' = status /\ seen' = seen
            /\ \/ log' = log
               \/ \E k \in Kinds : log' = Append(log, k)
<1>1. \A c \in Command : AppendCommand(c) => command[c].does \in Kinds
  BY DEF AppendCommand, FindingTypes, CheckedHasEvent
<1>2. "BecameOverdue" \in Kinds /\ "Escalated" \in Kinds
  BY DEF Kinds
<1> QED
  BY <1>1, <1>2 DEF WorkflowNext, workflowVars, Tick, SubmitClosure, VerifyClosure, RejectClosure,
     Check, AppendCommand, AnswerCommand, CommandDies, SweepReads, SweepStep,
     SweepMarks, SweepEscalates, SweepNotifies, SweepPasses, SweepDies

-----------------------------------------------------------------------------
(* Closed is final.                                                        *)

\* No event takes a closed finding anywhere, however stale the read behind it.
THEOREM ClosedIsFinalTheorem == WorkflowSpec => ClosedIsFinal
<1>1. ASSUME FindingTypes, [WorkflowNext]_workflowVars, status = "closed" PROVE status' = "closed"
  <2>1. CASE ProjectNext
    <3>1. log[seen + 1] \in Kinds /\ status \in Statuses
      BY <1>1, <2>1 DEF ProjectNext, FindingTypes, WorkflowTypeOK
    <3> QED BY <3>1, <1>1, <2>1, ProjectCases DEF ProjectNext
  <2> QED BY <2>1, <1>1, StepShape
<1>2. FindingTypes /\ [WorkflowNext]_workflowVars => [status = "closed" => status' = "closed"]_workflowVars
  BY <1>1
<1> QED
  BY FindingTypesInit, FindingTypesNext, <1>2, PTL DEF WorkflowSpec, ClosedIsFinal

-----------------------------------------------------------------------------
(* Closed was verified.                                                    *)

\* A finding that waits for verification has a closure on record that no
\* rejection followed.
AwaitingIsOnRecord ==
  status = "awaiting" =>
    \E i \in 1..seen :
      log[i] = "ClosureSubmitted" /\ \A k \in i..seen : log[k] # "ClosureRejected"

Records == AwaitingIsOnRecord /\ ClosedWasVerified

LEMMA RecordsInit == ASSUME WorkflowInit PROVE Records
BY DEF WorkflowInit, Records, AwaitingIsOnRecord, ClosedWasVerified

\* Both are about the projected part of the store, which an append leaves alone.
LEMMA RecordsAppend ==
  ASSUME FindingTypes, Records, status' = status, seen' = seen,
         \A i \in 1..seen : log'[i] = log[i]
  PROVE  Records'
<1>1. seen \in Nat
  BY DEF FindingTypes, WorkflowTypeOK
<1>2. AwaitingIsOnRecord'
  <2>1. ASSUME status = "awaiting"
        PROVE  \E i \in 1..seen : /\ log'[i] = "ClosureSubmitted"
                                  /\ \A k \in i..seen : log'[k] # "ClosureRejected"
    <3>1. PICK i \in 1..seen : /\ log[i] = "ClosureSubmitted"
                               /\ \A k \in i..seen : log[k] # "ClosureRejected"
      BY <2>1 DEF Records, AwaitingIsOnRecord
    <3>2. \A k \in i..seen : k \in 1..seen
      BY <1>1
    <3> QED BY <3>1, <3>2
  <2> QED BY <2>1 DEF AwaitingIsOnRecord
<1>3. ClosedWasVerified'
  <2>1. ASSUME status = "closed"
        PROVE  \E i, j \in 1..seen :
                 /\ i < j /\ log'[i] = "ClosureSubmitted" /\ log'[j] = "Closed"
                 /\ \A k \in i..j : log'[k] # "ClosureRejected"
    <3>1. PICK i \in 1..seen, j \in 1..seen :
            /\ i < j /\ log[i] = "ClosureSubmitted" /\ log[j] = "Closed"
            /\ \A k \in i..j : log[k] # "ClosureRejected"
      BY <2>1 DEF Records, ClosedWasVerified
    <3>2. \A k \in i..j : k \in 1..seen
      BY <1>1
    <3> QED BY <3>1, <3>2
  <2> QED BY <2>1 DEF ClosedWasVerified
<1> QED BY <1>2, <1>3 DEF Records

LEMMA RecordsProject == ASSUME FindingTypes, Records, ProjectNext PROVE Records'
<1> DEFINE e == log[seen + 1]
<1>0. /\ seen \in Nat /\ seen' = seen + 1 /\ log' = log /\ status' = Project(e, status)
      /\ e \in Kinds /\ status \in Statuses
  BY DEF FindingTypes, WorkflowTypeOK, ProjectNext
<1> HIDE DEF e
<1>1. ASSUME status' = "awaiting"
      PROVE  \E i \in 1..seen' : /\ log[i] = "ClosureSubmitted"
                                 /\ \A k \in i..seen' : log[k] # "ClosureRejected"
  <2>1. CASE e = "ClosureSubmitted"
    <3>1. log[seen + 1] = "ClosureSubmitted" /\ \A k \in (seen + 1)..seen' : k = seen + 1
      BY <2>1, <1>0 DEF e
    <3>2. seen + 1 \in 1..seen'
      BY <1>0
    <3> QED BY <3>1, <3>2
  <2>2. CASE e # "ClosureSubmitted"
    <3>1. status = "awaiting" /\ log[seen + 1] # "ClosureRejected"
      BY <2>2, <1>0, <1>1, ProjectCases DEF e
    <3>2. PICK i \in 1..seen : /\ log[i] = "ClosureSubmitted"
                               /\ \A k \in i..seen : log[k] # "ClosureRejected"
      BY <3>1 DEF Records, AwaitingIsOnRecord
    <3>3. i \in 1..seen' /\ \A k \in i..seen' : k \in i..seen \/ k = seen + 1
      BY <1>0
    <3> QED BY <3>1, <3>2, <3>3
  <2> QED BY <2>1, <2>2
<1>2. ASSUME status' = "closed"
      PROVE  \E i, j \in 1..seen' :
               /\ i < j /\ log[i] = "ClosureSubmitted" /\ log[j] = "Closed"
               /\ \A k \in i..j : log[k] # "ClosureRejected"
  <2>1. CASE status = "closed"
    <3>1. PICK i \in 1..seen, j \in 1..seen :
            /\ i < j /\ log[i] = "ClosureSubmitted" /\ log[j] = "Closed"
            /\ \A k \in i..j : log[k] # "ClosureRejected"
      BY <2>1 DEF Records, ClosedWasVerified
    <3>2. i \in 1..seen' /\ j \in 1..seen'
      BY <1>0
    <3> QED BY <3>1, <3>2
  <2>2. CASE status # "closed"
    <3>1. status = "awaiting" /\ log[seen + 1] = "Closed"
      BY <2>2, <1>0, <1>2, ProjectCases DEF e
    <3>2. PICK i \in 1..seen : /\ log[i] = "ClosureSubmitted"
                               /\ \A k \in i..seen : log[k] # "ClosureRejected"
      BY <3>1 DEF Records, AwaitingIsOnRecord
    <3>3. /\ i \in 1..seen' /\ seen + 1 \in 1..seen' /\ i < seen + 1
          /\ \A k \in i..(seen + 1) : k \in i..seen \/ k = seen + 1
      BY <1>0
    <3> QED BY <3>1, <3>2, <3>3
  <2> QED BY <2>1, <2>2
<1>3. AwaitingIsOnRecord'
  BY <1>0, <1>1 DEF AwaitingIsOnRecord
<1>4. ClosedWasVerified'
  BY <1>0, <1>2 DEF ClosedWasVerified
<1> QED BY <1>3, <1>4 DEF Records

LEMMA RecordsNext == ASSUME FindingTypes, Records, [WorkflowNext]_workflowVars PROVE Records'
<1>1. CASE ProjectNext
  BY <1>1, RecordsProject
<1>2. CASE status' = status /\ seen' = seen /\ log' = log
  BY <1>2, RecordsAppend
<1>3. ASSUME NEW k \in Kinds, log' = Append(log, k), status' = status, seen' = seen
      PROVE  Records'
  <2>1. log \in Seq(Kinds) /\ seen \in 1..Len(log) /\ Len(log) \in Nat
    BY DEF FindingTypes, WorkflowTypeOK
  <2>2. \A i \in 1..seen : log'[i] = log[i]
    <3>1. \A i \in 1..seen : i \in 1..Len(log)
      BY <2>1
    <3> QED BY <3>1, <2>1, <1>3, AppendFacts
  <2> QED BY <2>2, <1>3, RecordsAppend
<1> QED
  BY <1>1, <1>2, <1>3, StepShape

\* The console shows as closed only what an officer verified, for every order
\* in which commands that read the same row append their events.
THEOREM ClosedWasVerifiedTheorem == WorkflowSpec => []ClosedWasVerified
<1>1. Records => ClosedWasVerified
  BY DEF Records
<1> QED
  BY FindingTypesInit, FindingTypesNext, RecordsInit, RecordsNext, <1>1, PTL DEF WorkflowSpec
=============================================================================
