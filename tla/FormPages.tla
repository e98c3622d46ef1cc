------------------------------ MODULE FormPages ------------------------------
(***************************************************************************)
(* The pages of OAuth2Frontend that submit a form, or the token of a link: *)
(* registration, a password reset and its request, email verification,     *)
(* the code of a device, and the consent to an application.  sel is what   *)
(* the page shows: the form, or how it went.                               *)
(***************************************************************************)
EXTENDS WebPage

FormPageNames ==
  {"register", "forgot-password", "reset-password", "verify-email", "device-verify", "consent"}

FormsMounted(p) ==
  /\ db = [accepted |-> 0]
  /\ \/ /\ p # "verify-email"
        /\ ui = [Fresh EXCEPT !.loading = FALSE, !.sel = "form"]
        /\ calls = {}
     \/ /\ p = "verify-email"
        /\ ui = [Fresh EXCEPT !.sel = "loading"]
        /\ calls = Sent({}, "verifyEmail", "submit", None, "none")
     \/ /\ p \in {"verify-email", "reset-password"} \* a link without its token
        /\ ui = [Fresh EXCEPT !.loading = FALSE, !.sel = "error"]
        /\ calls = {}

ServeForm ==
  \E c \in calls : c.st = "sent" /\ Reply(c, TRUE, [db EXCEPT !.accepted = @ + 1], None)

-----------------------------------------------------------------------------
(* What the user has typed passes the checks of the page, or nothing is     *)
(* sent; the form is there until the page shows how it went.                *)
FormOffered == ui.sel = "form" /\ "loading" \notin ui.busy

Submit(fn) == FormOffered /\ Start("loading", fn, "submit", None)

(* The answer: good or bad is what the page shows then.                     *)
Submitted(fn, good, bad) ==
  \E c \in Answered(fn) :
    Resume(calls \ {c}, [Drop(ui, c.flag) EXCEPT !.sel = IF c.st = "ok" THEN good ELSE bad])

HandleRegister ==
  At("register") /\ (Submit("handleRegister") \/ Submitted("handleRegister", "done", "form"))

(* Whatever became of the request, the page says that a mail was sent.      *)
HandleSubmit ==
  At("forgot-password") /\ (Submit("handleSubmit") \/ Submitted("handleSubmit", "done", "done"))

(* Mutant: the form stays when the password has been reset.                 *)
HandleResetStay ==
  At("reset-password") /\ (Submit("handleReset") \/ Submitted("handleReset", "form", "form"))

HandleReset ==
  At("reset-password") /\ (Submit("handleReset") \/ Submitted("handleReset", "done", "form"))

VerifyEmail ==
  /\ At("verify-email")
  /\ \E c \in Answered("verifyEmail") :
       Resume(calls \ {c}, [ui EXCEPT !.loading = FALSE,
                                      !.sel = IF c.st = "ok" THEN "done" ELSE "error"])

HandleVerify ==
  At("device-verify") /\ (Submit("handleVerify") \/ Submitted("handleVerify", "done", "error"))

TryAgain ==
  page = "device-verify" /\ ui.sel = "error" /\ Type([ui EXCEPT !.sel = "form"])

(* The browser is sent on to the application, but until it has left the     *)
(* page both buttons are enabled again.                                     *)
HandleConsent ==
  /\ At("consent")
  /\ \/ \E fn \in {"approve", "deny"} :
          ui.busy = {} /\ Start("loading", fn, "submit", None)
     \/ \E fn \in {"approve", "deny"} : Submitted(fn, "leaving", ui.sel)

FormPagesNext ==
  /\ page \in FormPageNames
  /\ \/ ServeForm \/ HandleRegister \/ HandleSubmit \/ HandleReset \/ VerifyEmail
     \/ HandleVerify \/ TryAgain \/ HandleConsent
=============================================================================
