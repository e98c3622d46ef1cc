----------------------------- MODULE SecurityPage -----------------------------
(***************************************************************************)
(* SecurityPage of the account pages, with the handlers of MfaController   *)
(* behind it: the password, two-factor authentication and passkeys.        *)
(* Deleting the account ends the session and is in WebSession.             *)
(***************************************************************************)
EXTENDS WebPage

CONSTANT Secrets \* the secrets an authenticator can be set up with

ASSUME SecurityPageAssumption ==
  Secrets # {} /\ None \notin Secrets /\ \A s \in Secrets : {s} # None

NewSecret(issued) == CHOOSE s \in Secrets : s \notin issued

SecurityMounted ==
  /\ ui = [loading |-> TRUE, busy |-> {}, open |-> {}, secret |-> None,
           mfa |-> None, setup |-> None, passkeys |-> 0]
  /\ \E on \in BOOLEAN :
       /\ meant = IF on THEN {NewSecret({})} ELSE {}
       /\ db = [enabled |-> on, secret |-> meant, issued |-> meant, passkeys |-> 0, passwords |-> 0]
  /\ calls = Sent({}, "fetchProfile", "read", {"mfa"}, "none")

-----------------------------------------------------------------------------
(* setup stores a new secret over the one there is; verify reads the secret *)
(* and checks the code against it, and only then enables MFA; disable       *)
(* forgets the secret.  A user has one secret or none: a set.               *)
MfaSetup(c) ==
  LET s == NewSecret(db.issued)
  IN Reply(c, db.issued # Secrets, [db EXCEPT !.secret = {s}, !.issued = @ \cup {s}], {s})

MfaVerifySetup(c) ==
  IF c.st = "half"
  THEN Reply(c, TRUE, [db EXCEPT !.enabled = TRUE], None)
  ELSE IF db.secret # {} /\ c.body = db.secret
  THEN Answer(c, "half", None) /\ UNCHANGED <<page, ui, db, inputs, marks, others, meant>>
  ELSE Reply(c, FALSE, db, None)

MfaDisable(c) == Reply(c, TRUE, [db EXCEPT !.enabled = FALSE, !.secret = {}], None)

ServeSecurity ==
  \E c \in calls :
    \/ c.op = "verify" /\ c.st \in {"sent", "half"} /\ MfaVerifySetup(c)
    \/ /\ c.st = "sent"
       /\ \/ c.op = "setup" /\ MfaSetup(c)
          \/ c.op = "disable" /\ MfaDisable(c)
          \/ c.op = "read" /\ Reply(c, TRUE, db, db)
          \/ c.op = "password" /\ Reply(c, TRUE, [db EXCEPT !.passwords = @ + 1], None)
          \/ c.op = "finish" /\ Reply(c, TRUE, [db EXCEPT !.passkeys = @ + 1], None)
          \/ c.op \in {"begin", "prompt"} /\ Reply(c, TRUE, db, None)

-----------------------------------------------------------------------------
SecurityTemplate ==
  [password |-> ~ui.loading /\ "changingPassword" \notin ui.busy,
   disable |-> ~ui.loading /\ ui.mfa = TRUE /\ "disablingMfa" \notin ui.busy,
   verify |-> ~ui.loading /\ ui.mfa # TRUE /\ ui.setup # None,
   setup |-> ~ui.loading /\ ui.mfa # TRUE /\ ui.setup = None /\ "settingUpMfa" \notin ui.busy,
   passkey |-> ~ui.loading /\ "registeringPasskey" \notin ui.busy]

Profile(cs, flag) == Sent(cs, "fetchProfile", "read", {"mfa"}, flag)

Passkeys(cs, flag) == Sent(cs, "fetchWebauthnCredentials", "read", {"passkeys"}, flag)

(* The profile, and then the passkeys, for which nobody waits.              *)
FetchSecurityProfile ==
  /\ At("security")
  /\ \E c \in Answered("fetchProfile") :
       LET u == [Drop(ui, c.flag) EXCEPT !.loading = FALSE]
       IN IF c.st = "ok" THEN Resume(Passkeys(calls \ {c}, "none"), [u EXCEPT !.mfa = c.res.enabled])
          ELSE Resume(calls \ {c}, u)

ChangePassword ==
  /\ At("security")
  /\ \/ SecurityTemplate.password /\ Start("changingPassword", "changePassword", "password", None)
     \/ \E c \in Answered("changePassword") : Resume(calls \ {c}, Drop(ui, c.flag))

(* Whether the page still waits to hear what became of MFA.                 *)
Unheard == \E c \in calls : c.fn \in {"fetchProfile", "verifyMfaSetup", "disableMfa"}

Checking == \E c \in calls : c.fn = "verifyMfaSetup"

StartMfa(flag, fn, op, early) ==
  /\ inputs < MaxInputs[page] /\ inputs' = inputs + 1
  /\ calls' = Sent(calls, fn, op, None, flag)
  /\ Cardinality(calls') <= MaxCalls
  /\ marks' = IF early THEN marks \cup {"early"} ELSE marks
  /\ ui' = Raise(flag)
  /\ UNCHANGED <<page, db>>

(* When it succeeds the flag stays: the setup is shown.                     *)
SetupMfa ==
  /\ At("security")
  /\ \/ /\ SecurityTemplate.setup
        /\ StartMfa("settingUpMfa", "setupMfa", "setup", Unheard \/ ui.mfa = None)
     \/ \E c \in Answered("setupMfa") :
          Resume(calls \ {c}, IF c.st = "ok" THEN [ui EXCEPT !.setup = c.res] ELSE Drop(ui, c.flag))

(* The user enters a code of the secret shown, or a wrong one.  The         *)
(* authenticator keeps the secret whose code was accepted.  Mutant: the     *)
(* profile is not fetched again.                                            *)
VerifyMfaSetupOnly ==
  /\ page = "security" /\ UNCHANGED others
  /\ \/ /\ SecurityTemplate.verify /\ UNCHANGED meant
        /\ \E code \in {ui.setup, {}} : Start("none", "verifyMfaSetup", "verify", code)
     \/ \E c \in Answered("verifyMfaSetup") :
          IF c.st = "ok"
          THEN /\ Resume(calls \ {c}, [Drop(ui, "settingUpMfa") EXCEPT !.setup = None])
               /\ meant' = c.body
          ELSE Resume(calls \ {c}, ui) /\ UNCHANGED meant

VerifyMfaSetup ==
  /\ page = "security" /\ UNCHANGED others
  /\ \/ /\ SecurityTemplate.verify /\ UNCHANGED meant
        /\ \E code \in {ui.setup, {}} : Start("none", "verifyMfaSetup", "verify", code)
     \/ \E c \in Answered("verifyMfaSetup") :
          IF c.st = "ok"
          THEN /\ Resume(Profile(calls \ {c}, "none"), [Drop(ui, "settingUpMfa") EXCEPT !.setup = None])
               /\ meant' = c.body
          ELSE Resume(calls \ {c}, ui) /\ UNCHANGED meant

CancelMfaSetup ==
  /\ page = "security" /\ SecurityTemplate.verify
  /\ Type([Drop(ui, "settingUpMfa") EXCEPT !.setup = None])

DisableMfa ==
  /\ At("security")
  /\ \/ SecurityTemplate.disable /\ StartMfa("disablingMfa", "disableMfa", "disable", Checking)
     \/ \E c \in Answered("disableMfa") :
          IF c.st = "ok" THEN Resume(Profile(calls \ {c}, c.flag), ui)
          ELSE Resume(calls \ {c}, Drop(ui, c.flag))

FetchWebauthnCredentials ==
  /\ At("security")
  /\ \E c \in Answered("fetchWebauthnCredentials") :
       Resume(calls \ {c}, [Drop(ui, c.flag) EXCEPT !.passkeys = IF c.st = "ok" THEN c.res.passkeys ELSE @])

(* A challenge, the browser's prompt, which the user may refuse, and the    *)
(* credential: three answers in a row.                                      *)
RegisterPasskey ==
  /\ At("security")
  /\ \/ SecurityTemplate.passkey /\ Start("registeringPasskey", "registerPasskey", "begin", None)
     \/ \E c \in Answered("registerPasskey") :
          LET rest == calls \ {c}
          IN \/ c.st = "failed" /\ Resume(rest, Drop(ui, c.flag))
             \/ /\ c.st = "ok"
                /\ \/ c.op = "begin" /\ Resume(Sent(rest, c.fn, "prompt", None, c.flag), ui)
                   \/ c.op = "prompt" /\ Resume(Sent(rest, c.fn, "finish", None, c.flag), ui)
                   \/ c.op = "finish" /\ Resume(Passkeys(rest, c.flag), ui)

SecurityPageNext ==
  \/ page = "security" /\ ServeSecurity
  \/ FetchSecurityProfile \/ ChangePassword \/ SetupMfa \/ VerifyMfaSetup \/ CancelMfaSetup
  \/ DisableMfa \/ FetchWebauthnCredentials \/ RegisterPasskey
=============================================================================
