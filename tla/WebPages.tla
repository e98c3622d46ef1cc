------------------------------- MODULE WebPages -------------------------------
(***************************************************************************)
(* The pages of the account application and of the administration console: *)
(* any one of them, from the moment it is mounted.                         *)
(***************************************************************************)
EXTENDS ListPages, RecordPages, TokensPage, SecurityPage, FormPages

Init ==
  /\ page \in Pages /\ inputs = 0 /\ marks = {} /\ others = <<>>
  /\ \/ page \in ListPageNames /\ ListMounted(page) /\ meant = [r \in Rows |-> {}]
     \/ page \in RecordPageNames /\ RecordMounted(page) /\ meant = {}
     \/ page = "tokens" /\ TokensMounted /\ meant = {}
     \/ page = "security" /\ SecurityMounted
     \/ page \in FormPageNames /\ FormsMounted(page) /\ meant = {}

Next ==
  \/ ListPagesNext
  \/ RecordPagesNext
  \/ TokensPageNext
  \/ SecurityPageNext
  \/ FormPagesNext

Spec == Init /\ [][Next]_vars

-----------------------------------------------------------------------------
ShowsData ==
  CASE page \in ListPageNames -> ui.shown \in [Rows -> RowVals(page) \cup {None}]
    [] page \in RecordPageNames ->
         /\ DOMAIN ui.shown = Fields[page]
         /\ \A k \in Fields[page] : ui.shown[k] = None \/ ui.shown[k] \in FieldVals(k)
    [] page = "tokens" -> ui.shown \subseteq Tokens
    [] page = "security" -> ui.mfa = None \/ ui.mfa \in BOOLEAN
    [] OTHER -> ui.shown = None

(* The shape of the state; requests under way are told apart by their       *)
(* numbers, and what a page shows is data or nothing, never what a failed   *)
(* fetch left (RolesPage.vue fetchRoles and its siblings).                  *)
TypeOK ==
  /\ page \in Pages
  /\ inputs \in 0..MaxInputs[page]
  /\ marks \subseteq Marks
  /\ DOMAIN others \subseteq UNION {Fields[p] : p \in RecordPageNames}
  /\ ui.loading \in BOOLEAN
  /\ ShowsData
  /\ \A c \in calls : c.id \in 1..(MaxCalls + 1) /\ c.st \in {"sent", "half", "ok", "failed"}
  /\ \A c, d \in calls : c.id = d.id => c = d

(* When every answer has been read, the page shows what the server holds,   *)
(* though it never fetches what it does not think it has changed: unless a  *)
(* fetch failed, something was done of which it was told that it failed,    *)
(* answers for one place came in another order, somebody else was at work,  *)
(* or MFA was changed before an earlier step was heard of (the mark early). *)
(* The scopes of an application are excepted once the server has misled the *)
(* page about them (AdminController.cc:491-495, 868), and while an update   *)
(* of them is yet to be committed.  A secret shown is the one the           *)
(* application has now, unless another has been asked for.                  *)
ShownIsCurrent ==
  /\ Settled /\ marks \subseteq {"blind", "misled"} =>
       CASE page \in ListPageNames -> ui.shown = db.data
         [] page \in RecordPageNames ->
              db.pending = {} =>
                \A k \in Fields[page] :
                  ui.shown[k] = db.data[k] \/ (k = "scopes" /\ "misled" \in marks)
         [] page = "tokens" -> ui.shown = Found(ui.asked, db.live)
         [] page = "security" -> ui.mfa = db.enabled /\ ui.passkeys = db.passkeys
         [] OTHER -> TRUE
  /\ /\ ui.secret # None /\ marks \cap {"overlap", "lost", "other"} = {}
     /\ ~ \E c \in calls : Shows(c) = {"secret"}
     =>
       ui.secret.n = db.secret[ui.secret.of]

(* When every answer has been read, whatever they were, the page is not     *)
(* left loading and its buttons are enabled, but Enable MFA, whose flag     *)
(* stays up while the secret of a setup is shown (SecurityPage.vue:47-66).  *)
ControlsComeBack ==
  Settled => /\ ~ui.loading
             /\ ui.busy \subseteq IF page = "security" /\ ui.setup # None THEN {"settingUpMfa"} ELSE {}

(* A button that a flag disables never has two requests under way, and a    *)
(* form that was accepted is not submitted again, unless the page was told  *)
(* that it failed.  Consent is excepted: its buttons are enabled between    *)
(* the answer and the new page (ConsentPage.vue:27-51).  So is Confirm of   *)
(* the tokens page, which no flag disables (TokensPage.vue:72), and Enable  *)
(* MFA after an early setup: the answer to a verification that was          *)
(* cancelled and forgotten drops its flag (SecurityPage.vue:47-66, 240).    *)
SubmittedOnce ==
  /\ \A c, d \in calls :
       /\ c.flag = d.flag /\ c.flag \notin {"none", "confirm"}
       /\ c.flag = "settingUpMfa" => "early" \notin marks
       => c = d
  /\ page \in FormPageNames \ {"consent"} /\ "lost" \notin marks => db.accepted <= 1

(* What somebody else has set in a field that this page's user had not      *)
(* edited by then, nor has since, is never undone by a save:                *)
(* UserDetailPage.vue saveInfo and ApplicationDetailPage.vue saveChanges    *)
(* send what differs from what was loaded, however old that is.  A form     *)
(* saved before it was filled, or of redirect URIs it writes differently,   *)
(* is excepted.                                                             *)
OthersEditsKept ==
  "blind" \notin marks => \A k \in DOMAIN others : db.data[k] = others[k]

(* While MFA is enabled, the authenticator whose code was accepted can      *)
(* still sign in: MfaController.cc setup overwrites a verified secret, and  *)
(* what keeps the security page from asking for that is the profile it      *)
(* fetched last.  Not so when MFA was disabled while a code was still being *)
(* checked, or set up before the page had heard of an earlier step: early.  *)
AuthenticatorWorks ==
  page = "security" /\ Settled /\ db.enabled /\ marks \cap {"early", "lost", "unread"} = {} =>
    meant = db.secret

(* A user has no role but those the console last said it had given, though  *)
(* the server deletes the old ones and inserts the new in statements of     *)
(* their own, while none of that is under way; and has all of them, unless  *)
(* an insert failed before the last and the console was told success        *)
(* (AdminController.cc:1209-1276): the mark misled.                         *)
AskedIsDone ==
  LET told == marks \cap {"lost", "other"} = {}
      given(has, said) == has \subseteq said /\ ("misled" \notin marks => has = said)
  IN /\ page = "users" /\ told =>
          \A r \in Rows : \/ given(db.roles[r], meant[r])
                          \/ \E c \in calls : c.op = "assign" /\ c.body.name = r
     /\ page = "user-detail" /\ told =>
          \A said \in meant : \/ given(db.data["roles"], said)
                              \/ \E c \in calls : c.op = "assign"
=============================================================================
