----------------------------- MODULE Deployment -----------------------------
(***************************************************************************)
(* What a deployment's settings make of the gateway: config/config.ts,     *)
(* which refuses to start in a shape that cannot work, and                 *)
(* console/system-status.ts, which tells an administrator what does not.   *)
(* A setting is abstracted to what the code tells apart: "unset", "odd"    *)
(* for a value it refuses, "ok" or the name of a provider.                 *)
(***************************************************************************)
EXTENDS Naturals

Bit == {"unset", "odd", "ok"}
RealMail == {"resend", "sendgrid"}
RealText == {"termii", "africastalking", "twilio"}

\* The environment, with the settings that stand or fall together merged:
\* limits is the numbers with a range, bucket what the object store needs.
SettingsType ==
  [pilot : BOOLEAN, issuer : BOOLEAN, audience : BOOLEAN, shared : BOOLEAN,
   consoleUrl : Bit, consoleSecret : Bit, deviceSecret : Bit, dev : BOOLEAN,
   mail : RealMail \cup {"log", "none", "unset", "odd"}, mailKey : BOOLEAN,
   from : {"own", "free", "test"},
   text : RealText \cup {"log", "none", "unset", "odd"}, textKey : BOOLEAN,
   s3 : BOOLEAN, bucket : BOOLEAN, ownRole : BOOLEAN, tls : BOOLEAN,
   limits : BOOLEAN, selfRegistration : BOOLEAN, firstAdmin : Bit,
   download : {"unset", "dead", "ok"}]

-----------------------------------------------------------------------------
(* Loading *)

\* Where nothing is named a development machine logs and a pilot is silent.
Quiet(s) == IF s.pilot THEN "none" ELSE "log"
Mailer(s) == IF s.mail = "unset" THEN Quiet(s) ELSE s.mail
Texter(s) == IF s.text = "unset" THEN Quiet(s) ELSE s.text

\* The shared secret stands in for the two session secrets, where it may.
SessionSecret(s) ==
  s.consoleSecret = "ok" \/ (s.consoleSecret = "unset" /\ s.shared /\ ~s.issuer /\ ~s.pilot)
PhoneSecret(s) ==
  s.deviceSecret = "ok" \/ (s.deviceSecret = "unset" /\ s.shared /\ ~s.issuer)

Loads(s) ==
  /\ s.issuer => s.audience /\ ~s.dev
  /\ s.consoleUrl # "unset" => s.consoleUrl = "ok" /\ SessionSecret(s)
  /\ s.issuer \/ s.shared \/ s.consoleUrl = "ok"
  /\ s.deviceSecret # "odd"
  /\ s.limits
  /\ s.mail # "odd" /\ (s.mail \in RealMail => s.mailKey)
  /\ s.text # "odd" /\ (s.text \in RealText => s.textKey)
  /\ s.s3 => s.bucket
  /\ s.firstAdmin # "odd"

\* A mutant: a pilot need not be able to send mail.
FitForPilot_AnyMail(s) ==
  /\ ~s.dev
  /\ s.issuer \/ (s.consoleUrl = "ok" /\ ~s.shared)
  /\ s.s3 /\ s.ownRole /\ s.tls

FitForPilot(s) ==
  /\ ~s.dev
  /\ s.issuer \/ (s.consoleUrl = "ok" /\ ~s.shared)
  /\ s.consoleUrl = "ok" => Mailer(s) \in RealMail
  /\ s.s3 /\ s.ownRole /\ s.tls

Starts(s) == Loads(s) /\ (s.pilot => FitForPilot(s))

\* What the running gateway knows of its settings.
LoadConfig(s) ==
  [pilot |-> s.pilot, oidc |-> s.issuer, shared |-> s.shared,
   email |-> s.consoleUrl = "ok", phones |-> PhoneSecret(s), dev |-> s.dev,
   mailer |-> Mailer(s), from |-> s.from, texter |-> Texter(s), s3 |-> s.s3,
   ownRole |-> s.ownRole, selfRegistration |-> s.selfRegistration,
   firstAdmin |-> s.firstAdmin = "ok", download |-> s.download]

-----------------------------------------------------------------------------
(* The status page *)

Grade(fine, otherwise) == IF fine THEN "ok" ELSE otherwise

EmailCheck(c) ==
  CASE c.mailer \notin RealMail -> IF c.email THEN "fail" ELSE "warn"
    [] c.mailer = "resend" /\ c.from = "free" -> "fail"
    [] c.from = "test" -> "warn"
    [] OTHER -> "ok"

\* up says whether the database answers, lag how far the read model is behind
\* (the page is not shown a figure where the database is down).
Checks(c, up, lag) ==
  [database  |-> Grade(up, "fail"),
   freshness |-> Grade(~up \/ lag <= 50, "warn"),
   signin    |-> Grade(c.email, IF c.oidc THEN "warn" ELSE "fail"),
   provider  |-> Grade(~(c.oidc /\ c.email), "warn"),
   email     |-> EmailCheck(c),
   sms       |-> Grade(c.texter \in RealText, "warn"),
   phones    |-> Grade(c.phones, "fail"),
   download  |-> Grade(c.download = "ok", "warn"),
   evidence  |-> Grade(c.s3, "fail"),
   verify    |-> Grade(c.ownRole, "warn")]

Overall(checks) ==
  LET states == {checks[k] : k \in DOMAIN checks}
  IN CASE "fail" \in states -> "broken"
       [] "warn" \in states -> "attention"
       [] OTHER -> "ok"

\* Self-registration opens only where both contacts can be proven.
TakesRegistrations(c) ==
  c.selfRegistration /\ c.mailer # "none" /\ c.texter # "none"
=============================================================================
