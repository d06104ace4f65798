------------------------------ MODULE MCSignIn ------------------------------
(* Small instances of SignIn. *)
EXTENDS SignIn

CONSTANT national

\* All that bears on signing in, by what is set and what is left out.
SigningIn(pilot, kept) ==
  [pilot : pilot, issuer : BOOLEAN, audience : {TRUE}, shared : BOOLEAN,
   consoleUrl : {"unset", "ok"}, consoleSecret : {"unset", "ok"},
   deviceSecret : {"ok"}, dev : BOOLEAN, mail : {"unset", "resend"},
   mailKey : {TRUE}, from : {"own", "free"}, text : {"termii"}, textKey : {TRUE},
   s3 : kept, bucket : {TRUE}, ownRole : kept, tls : kept, limits : {TRUE},
   selfRegistration : {FALSE}, firstAdmin : {"unset", "ok"}, download : {"ok"}]

\* The sender's address and the first administrator are varied where mail is
\* what one signs in by.
SomeSettings ==
  {s \in SigningIn(BOOLEAN, {TRUE}) \cup SigningIn({TRUE}, BOOLEAN) :
     /\ s.from = "free" => s.mail = "resend" /\ s.consoleUrl = "ok"
     /\ s.firstAdmin = "ok" => s.consoleUrl = "ok"}

Roles == {national}
=============================================================================
