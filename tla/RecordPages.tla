----------------------------- MODULE RecordPages -----------------------------
(***************************************************************************)
(* The pages that show one thing: the console's UserDetailPage,            *)
(* ApplicationDetailPage, SettingsPage and DashboardPage, and ProfilePage  *)
(* of the account pages.  Two of them fill a form from what they load and  *)
(* send back what differs.  The lists of all roles and of all scopes,      *)
(* which two pages also load, are taken to be there.                       *)
(***************************************************************************)
EXTENDS WebPage

CONSTANTS
  Texts,     \* what fields hold
  Blank,     \* the empty value: '', false, unlocked
  Odd,       \* redirect URIs stored with spaces or empty parts
  Plain,     \* the same URIs without
  ScopeNames \* the scopes there are

ASSUME RecordPagesAssumption ==
  {Blank, Odd, Plain} \subseteq Texts /\ Odd # Plain /\ Odd # Blank /\ None \notin Texts

Fields ==
  [p \in {"user-detail", "application-detail", "settings", "admin-dashboard", "profile"} |->
     CASE p = "user-detail" -> {"email", "verified", "locked", "roles"}
       [] p = "application-detail" -> {"name", "uris", "scopes"}
       [] p = "settings" -> {"scopes", "keys"}
       [] p = "admin-dashboard" -> {"health", "stats"}
       [] p = "profile" -> {"verified"}]

RecordPageNames == DOMAIN Fields

FieldVals(k) ==
  CASE k = "roles" -> SUBSET RoleNames
    [] k = "scopes" -> SUBSET ScopeNames
    [] k = "uris" -> Texts
    [] OTHER -> Texts \ {Odd}

Records(p) ==
  LET of(k) == FieldVals(k)
  IN CASE p = "user-detail" -> [email : {Plain}, verified : of("verified"),
                                locked : of("locked"), roles : of("roles")]
       [] p = "application-detail" -> [name : {Plain}, uris : of("uris"),
                                       scopes : of("scopes")]
       [] p = "settings" -> [scopes : of("scopes"), keys : of("keys")]
       [] p = "admin-dashboard" -> [health : of("health"), stats : of("stats")]
       [] p = "profile" -> [verified : of("verified")]

(* What new says, and of the rest what old says.                            *)
Over(new, old) ==
  [k \in DOMAIN new \cup DOMAIN old |-> IF k \in DOMAIN new THEN new[k] ELSE old[k]]

OrBlank(v) == IF v = None THEN Blank ELSE v

(* How the form of an application writes redirect URIs: each on a line,     *)
(* trimmed, empty ones dropped.                                             *)
Tidy(v) == IF v = Odd THEN Plain ELSE v

(* The part of a form that a save compares with what was loaded.            *)
FormFields == IF page = "user-detail" THEN {"email", "verified"}
              ELSE IF page = "application-detail" THEN {"name", "uris"} ELSE {}

Untouched(k) == ui.draft[k] = Tidy(OrBlank(ui.shown[k]))

EmptyForm ==
  [email |-> Blank, verified |-> Blank, name |-> Blank, uris |-> Blank, roles |-> {}, scopes |-> {}]

RecordMounted(p) ==
  /\ db \in [data : Records(p), secret : {[a \in {"this"} |-> 0]}, sent : {0}, pending : {{}}]
  /\ ui = [Fresh EXCEPT !.shown = [k \in Fields[p] |-> None], !.draft = EmptyForm,
                        !.busy = IF p = "settings" THEN {"oidcLoading"} ELSE {},
                        !.sel = IF p \in {"user-detail", "application-detail"} THEN "info" ELSE None]
  /\ calls =
       CASE p = "user-detail" ->
              Sent({}, "fetchUser", "read", Fields[p], "none")
         [] p = "application-detail" ->
              Sent({}, "fetchClient", "read", Fields[p], "none")
         [] p = "settings" ->
              Sent(Sent({}, "fetchScopes", "read", {"scopes"}, "none"),
                   "fetchOidcKeys", "read", {"keys"}, "oidcLoading")
         [] p = "admin-dashboard" ->
              Sent(Sent({}, "dashboard", "read", {"health"}, "none"),
                   "dashboard", "read", {"stats"}, "none")
         [] p = "profile" -> Sent({}, "fetchProfile", "read", {"verified"}, "none")

-----------------------------------------------------------------------------
(* The server.  getClient reads the application, and then its scopes: when  *)
(* that second query fails it answers that there are none.                  *)
GetClient(c) ==
  \/ /\ c.st = "sent"
     /\ \/ /\ Answer(c, "half", [k \in c.body \ {"scopes"} |-> db.data[k]])
           /\ UNCHANGED marks
        \/ /\ Answer(c, "failed", None)
           /\ marks' = marks \cup {"unread"}
     /\ UNCHANGED <<page, ui, db, inputs, others, meant>>
  \/ /\ c.st = "half"
     /\ \/ /\ Answer(c, "ok", Over([k \in {"scopes"} |-> db.data[k]], c.res))
           /\ marks' = IF db.pending # {} THEN marks \cup {"misled"} ELSE marks
        \/ /\ Answer(c, "ok", Over([k \in {"scopes"} |-> {}], c.res))
           /\ marks' = marks \cup {"misled"}
        \/ /\ Answer(c, "failed", None)
           /\ marks' = marks \cup {"unread"}
     /\ UNCHANGED <<page, ui, db, inputs, others, meant>>

(* updateClientScopes answers while its transaction is open: what it sets   *)
(* is pending until the commit, which may fail.  A second transaction for   *)
(* the same application waits for the locks of the first.                   *)
UpdateClientScopes(c) ==
  Reply(c, db.pending = {}, [db EXCEPT !.pending = {c.body["scopes"]}], c.body)

EndUpdate ==
  /\ \E set \in db.pending :
       \/ /\ db' = [db EXCEPT !.data["scopes"] = set, !.pending = {}]
          /\ UNCHANGED marks
       \/ /\ db' = [db EXCEPT !.pending = {}]
          /\ marks' = marks \cup {"misled"}
  /\ UNCHANGED <<page, ui, calls, inputs, others, meant>>

(* The other handlers.                                                      *)
ServeRecord ==
  \E c \in calls :
    \/ c.op = "read" /\ page = "application-detail" /\ GetClient(c)
    \/ /\ c.st = "sent"
       /\ \/ /\ c.op = "read" /\ page # "application-detail"
             /\ Reply(c, TRUE, db, [k \in c.body |-> db.data[k]])
          \/ c.op = "put" /\ Reply(c, TRUE, [db EXCEPT !.data = Over(c.body, @)], c.body)
          \/ c.op = "scopes" /\ UpdateClientScopes(c)
          \/ /\ c.op = "reset"
             /\ Reply(c, TRUE, [db EXCEPT !.secret["this"] = @ + 1],
                      [of |-> "this", n |-> db.secret["this"] + 1])
          \/ c.op = "mail" /\ Reply(c, TRUE, [db EXCEPT !.sent = @ + 1], None)

ServeAssignInRecord ==
  \/ \E c \in Sending("assign") : RolesDeleted(c, [db EXCEPT !.data["roles"] = {}])
  \/ \E c \in Halfway("assign") :
       RoleInserted(c, db.data["roles"],
                    [held \in SUBSET RoleNames |-> [db EXCEPT !.data["roles"] = held]])

(* Somebody else sets a field.  It is remembered when this page's user has  *)
(* not edited that field and no save of it is under way.                    *)
OtherInRecord ==
  \E k \in Fields[page] : \E v \in FieldVals(k) \ {db.data[k]} :
    Elsewhere([db EXCEPT !.data[k] = v],
              IF \/ k \notin FormFields \/ ~Untouched(k)
                 \/ \E c \in calls : c.op = "put" /\ k \in DOMAIN c.body
              THEN others ELSE Over([j \in {k} |-> v], others))

-----------------------------------------------------------------------------
(* An answer is shown, and the form filled from it.                         *)
Loaded(u, r) ==
  [u EXCEPT !.shown = Over(r, @),
            !.draft = Over([k \in DOMAIN r \cap DOMAIN @ |->
                              IF k \in {"roles", "scopes"} THEN r[k] ELSE Tidy(r[k])], @)]

(* A fetch comes back; hides says whether the page was hidden meanwhile.     *)
(* Mutant: a fetch that fails leaves everything as it is.                   *)
GotRecordOnly(fn, hides) ==
  \E c \in Answered(fn) :
    LET u == IF hides THEN [Drop(ui, c.flag) EXCEPT !.loading = FALSE] ELSE Drop(ui, c.flag)
    IN Resume(calls \ {c}, IF c.st = "ok" THEN Loaded(u, c.res) ELSE ui)

GotRecord(fn, hides) ==
  \E c \in Answered(fn) :
    LET u == IF hides THEN [Drop(ui, c.flag) EXCEPT !.loading = FALSE] ELSE Drop(ui, c.flag)
    IN Resume(calls \ {c}, IF c.st = "ok" THEN Loaded(u, c.res) ELSE u)

(* Done: the record is fetched again, under flag.  Failed: flags drop.      *)
ThenGet(fn, get, flag) ==
  \E c \in Answered(fn) :
    IF c.st = "ok"
    THEN Resume(Sent(calls \ {c}, get, "read", Fields[page], flag),
                [Drop(ui, IF flag = "none" THEN c.flag ELSE "none") EXCEPT !.loading = TRUE])
    ELSE Resume(calls \ {c}, Drop(ui, c.flag))

(* A save of body, if there is anything in it.                              *)
Save(fn, body, unfilled) ==
  /\ DOMAIN body # {}
  /\ LET cs == Sent(calls, fn, "put", body, "saving")
     IN /\ inputs < MaxInputs[page] /\ inputs' = inputs + 1
        /\ Cardinality(cs) <= MaxCalls
        /\ calls' = cs
        /\ marks' = IF unfilled THEN marks \cup {"blind"} ELSE marks
        /\ ui' = Raise("saving")
        /\ UNCHANGED <<page, db>>

(* The user edits field k.                                                  *)
Edit(k, v) ==
  /\ Enter([ui EXCEPT !.draft[k] = v])
  /\ others' = [j \in DOMAIN others \ {k} |-> others[j]]

-----------------------------------------------------------------------------
(* UserDetailPage *)
UserTemplate ==
  LET on(tab) == ~ui.loading /\ ui.sel = tab
  IN [tabs |-> IF ui.loading THEN {} ELSE {"info", "roles"},
      fields |-> IF on("info") THEN FormFields ELSE {},
      roles |-> on("roles"),
      saveInfo |-> on("info") /\ "saving" \notin ui.busy,
      saveRoles |-> on("roles") /\ "saving" \notin ui.busy,
      disable |-> ~ui.loading /\ OrBlank(ui.shown["locked"]) = Blank,
      enable |-> ~ui.loading /\ OrBlank(ui.shown["locked"]) # Blank]

FetchUser == At("user-detail") /\ GotRecord("fetchUser", TRUE)

(* What differs from the user that was loaded.  A flag that was never       *)
(* loaded differs from false.  Mutant: everything is sent.                  *)
AllInfo == [k \in FormFields |-> ui.draft[k]]

ChangedInfo ==
  [k \in {j \in FormFields : ui.draft[j] # IF j = "email" THEN OrBlank(ui.shown[j])
                                           ELSE ui.shown[j]} |-> ui.draft[k]]

SaveInfo ==
  /\ At("user-detail")
  /\ \/ UserTemplate.saveInfo /\ Save("saveInfo", ChangedInfo, ui.shown["email"] = None)
     \/ ThenGet("saveInfo", "fetchUser", "saving")

(* The whole set of roles is sent; the user is fetched in the background.   *)
SaveRoles ==
  /\ page = "user-detail" /\ UNCHANGED others
  /\ \/ /\ UserTemplate.saveRoles
        /\ Start("saving", "saveRoles", "assign", [name |-> "this", val |-> ui.draft["roles"]])
        /\ UNCHANGED meant
     \/ /\ ThenGet("saveRoles", "fetchUser", "none")
        /\ \E c \in Answered("saveRoles") :
             meant' = IF c.st = "ok" THEN {c.body.val} ELSE meant

DisableUser ==
  /\ At("user-detail")
  /\ \/ UserTemplate.disable /\ \E v \in FieldVals("locked") \ {Blank} :
          Start("none", "disableUser", "put", [locked |-> v])
     \/ ThenGet("disableUser", "fetchUser", "none")

(* Mutant: the user is not fetched again.                                   *)
EnableUserOnly ==
  /\ At("user-detail")
  /\ \/ UserTemplate.enable /\ Start("none", "enableUser", "put", [locked |-> Blank])
     \/ \E c \in Answered("enableUser") : Resume(calls \ {c}, ui)

EnableUser ==
  /\ At("user-detail")
  /\ \/ UserTemplate.enable /\ Start("none", "enableUser", "put", [locked |-> Blank])
     \/ ThenGet("enableUser", "fetchUser", "none")

-----------------------------------------------------------------------------
(* ApplicationDetailPage.  The grant types go the way of the redirect URIs. *)
(* The save button is outside of what loading hides.                        *)
ApplicationTemplate ==
  LET on(tab) == ~ui.loading /\ ui.sel = tab
  IN [tabs |-> IF ui.loading THEN {} ELSE {"info", "auth", "scopes", "credentials"},
      fields |-> (IF on("info") THEN {"name"} ELSE {}) \cup (IF on("auth") THEN {"uris"} ELSE {}),
      scopes |-> on("scopes"),
      save |-> ui.sel \in {"info", "auth"} /\ "saving" \notin ui.busy,
      saveScopes |-> on("scopes") /\ "savingScopes" \notin ui.busy,
      reset |-> on("credentials"),
      done |-> "secret" \in ui.open]

FetchClient == At("application-detail") /\ GotRecord("fetchClient", TRUE)

ChangedClient ==
  [k \in {j \in FormFields : Tidy(ui.draft[j]) # OrBlank(ui.shown[j])} |-> Tidy(ui.draft[k])]

SaveChanges ==
  /\ At("application-detail")
  /\ \/ ApplicationTemplate.save /\ Save("saveChanges", ChangedClient, ui.shown["uris"] = Odd)
     \/ ThenGet("saveChanges", "fetchClient", "saving")

SaveScopes ==
  /\ At("application-detail")
  /\ \/ /\ ApplicationTemplate.saveScopes
        /\ Start("savingScopes", "saveScopes", "scopes", [scopes |-> ui.draft["scopes"]])
     \/ GotRecord("saveScopes", FALSE)

ResetClientSecret ==
  /\ At("application-detail")
  /\ \/ ApplicationTemplate.reset /\ Start("none", "resetClientSecret", "reset", "this")
     \/ \E c \in Answered("resetClientSecret") :
          Resume(calls \ {c}, IF c.st = "ok" THEN [ui EXCEPT !.secret = c.res, !.open = {"secret"}]
                              ELSE ui)

DismissSecret ==
  /\ page = "application-detail" /\ ApplicationTemplate.done
  /\ Type([ui EXCEPT !.secret = None, !.open = {}])

-----------------------------------------------------------------------------
(* SettingsPage, which only shows; DashboardPage, which shows both answers  *)
(* or, when either fails, health as bad: the blank value; ProfilePage.      *)
SettingsScopes == At("settings") /\ GotRecord("fetchScopes", TRUE)

FetchOidcKeys == At("settings") /\ GotRecord("fetchOidcKeys", FALSE)

DashboardLoad ==
  /\ At("admin-dashboard")
  /\ LET good == {c \in Answered("dashboard") : c.st = "ok"}
     IN \/ /\ Cardinality(good) = 2
           /\ \E c, d \in good : /\ c # d
                                 /\ Resume({}, [ui EXCEPT !.loading = FALSE, !.shown = Over(c.res, d.res)])
        \/ /\ good # Answered("dashboard")
           /\ Resume({}, [ui EXCEPT !.loading = FALSE, !.shown["health"] = Blank])

FetchProfile == At("profile") /\ GotRecord("fetchProfile", TRUE)

ProfileTemplate == [resend |-> ~ui.loading /\ ui.shown["verified"] = Blank]

ResendVerification ==
  /\ At("profile")
  /\ \/ ProfileTemplate.resend /\ Start("none", "resendVerification", "mail", None)
     \/ \E c \in Answered("resendVerification") : Resume(calls \ {c}, ui)

-----------------------------------------------------------------------------
RecordTyping ==
  \/ /\ page = "user-detail"
     /\ \/ \E t \in UserTemplate.tabs \ {ui.sel} : Type([ui EXCEPT !.sel = t])
        \/ \E k \in UserTemplate.fields : \E v \in FieldVals(k) \ {ui.draft[k]} : Edit(k, v)
        \/ UserTemplate.roles /\ \E s \in SUBSET RoleNames \ {ui.draft["roles"]} : Edit("roles", s)
  \/ /\ page = "application-detail"
     /\ \/ \E t \in ApplicationTemplate.tabs \ {ui.sel} : Type([ui EXCEPT !.sel = t])
        \/ \E k \in ApplicationTemplate.fields : \E v \in Texts \ {ui.draft[k]} : Edit(k, v)
        \/ /\ ApplicationTemplate.scopes
           /\ \E s \in SUBSET ScopeNames \ {ui.draft["scopes"]} : Edit("scopes", s)

RecordPagesNext ==
  /\ page \in RecordPageNames
  /\ \/ ServeRecord \/ EndUpdate \/ ServeAssignInRecord \/ OtherInRecord \/ RecordTyping
     \/ FetchUser \/ SaveInfo \/ SaveRoles \/ DisableUser \/ EnableUser
     \/ FetchClient \/ SaveChanges \/ SaveScopes
     \/ ResetClientSecret \/ DismissSecret
     \/ SettingsScopes \/ FetchOidcKeys \/ DashboardLoad \/ FetchProfile \/ ResendVerification
=============================================================================
