----------------------------- MODULE WebSession -----------------------------
(***************************************************************************)
(* The login session of the two single-page applications: the account      *)
(* pages (OAuth2Frontend: services/http.ts, services/authService.ts,       *)
(* stores/auth.ts, router) and the admin console (OAuth2Admin:             *)
(* stores/auth.ts, router).                                                *)
(*                                                                         *)
(* A tab keeps an access token and a refresh token in memory; the account  *)
(* pages also keep the refresh token in localStorage, which all tabs of    *)
(* the browser share.  A request that is answered 401 is sent again after  *)
(* a refresh.  Each function that awaits is a task; between two awaits it  *)
(* is one step, and the tasks of all tabs interleave.                      *)
(*                                                                         *)
(* Of the server only the rotation of refresh tokens is kept: TokenService *)
(* models it in full.  The token pairs of one login are a family, and a    *)
(* refresh token that has been rotated already ends its family.  Whether   *)
(* an access token is still accepted is left open: any request may be      *)
(* answered 401.                                                           *)
(***************************************************************************)
EXTENDS Naturals, FiniteSets

CONSTANTS
  Apps,      \* the applications looked at, of {"account", "admin"}
  Tabs,      \* browser tabs
  LoginTabs, \* the tabs in which users log in: the others share the session
  Calls,     \* requests the pages of a tab make at a time
  Families,  \* logins: the token families the server may found
  Admins,    \* the families whose user has the role admin
  GitHub,    \* the families founded by a login with GitHub
  None,      \* null
  Refused,   \* the answer 400 to a refresh
  MaxGen,    \* bound on the rotations of a family: later ones are refused
  MaxInputs  \* bound on what users do

ASSUME WebSessionAssumption ==
  /\ Apps \subseteq {"account", "admin"}
  /\ Tabs # {} /\ LoginTabs \subseteq Tabs
  /\ Admins \subseteq Families /\ GitHub \subseteq Families
  /\ Calls \cap {"login", "restore", "logout"} = {}
  /\ None \notin Families
  /\ None # Refused
  /\ {MaxGen, MaxInputs} \subseteq Nat

VARIABLES
  app,      \* the application
  gen,      \* server: the latest refresh token of each family, 0 for no family
  dead,     \* server: the families ended by a reuse
  storage,  \* localStorage.refresh_token
  tab,      \* the memory of each tab
  task,     \* what each tab is awaiting
  orphans,  \* refreshes under way whose page is gone
  inputs,   \* what users have done so far, counted
  slip,     \* history: a refresh token may have been sent twice
  crossed   \* history: tabs where a session began or ended while another
            \* task of the tab was under way

vars == <<app, gen, dead, storage, tab, task, orphans, inputs, slip, crossed>>

Kinds == {"login", "restore", "logout"} \cup Calls

(* A token pair; only its refresh token is ever spent.                      *)
Pair == [family: Families, n: Nat]

ASSUME NullAssumption == None \notin Pair /\ Refused \notin Pair

NoTab == [access |-> None, refresh |-> None, present |-> FALSE, user |-> None,
          route |-> "closed"]

(* at: "sent" and "resent" await the answer to a request, "refreshing" the  *)
(* answer to a refresh, "asking" the user's MFA code.                       *)
Idle == [at |-> "idle", what |-> "none", tok |-> None, ans |-> None]

Sent(what, tok) == [at |-> "sent", what |-> what, tok |-> tok, ans |-> None]

Quiet == [k \in Kinds |-> Idle]

Init ==
  /\ app \in Apps
  /\ gen = [f \in Families |-> 0]
  /\ dead = {}
  /\ storage = None
  /\ tab = [t \in Tabs |-> IF t \in LoginTabs THEN [NoTab EXCEPT !.route = "login"] ELSE NoTab]
  /\ task = [t \in Tabs |-> Quiet]
  /\ orphans = {}
  /\ inputs = 0
  /\ slip = FALSE
  /\ crossed = {}

-----------------------------------------------------------------------------
(* The routes and who may see them: "guest" pages are for users who are     *)
(* not signed in, "auth" pages for those who are, "open" ones for all.      *)
AccountRoutes ==
  [guest |-> {"login", "register", "forgot-password", "reset-password"},
   open  |-> {"verify-email", "callback", "github-callback", "consent", "device-verify"},
   auth  |-> {"dashboard", "profile", "security", "authorized-apps"}]

AdminRoutes ==
  [guest |-> {},
   open  |-> {"login", "callback"},
   auth  |-> {"dashboard", "applications", "application-detail", "users", "user-detail",
              "roles", "scopes", "logs", "tokens", "settings"}]

Routes == IF app = "account" THEN AccountRoutes ELSE AdminRoutes

Pages == UNION {Routes[a] : a \in DOMAIN Routes}

(* Of the page shown it matters whether it is a page for signed-in users    *)
(* and whether it is the login page.                                        *)
Shown(page) == IF page = "login" THEN "login"
               ELSE IF page \in Routes.auth THEN "auth" ELSE "other"

(* beforeEach of the account pages, for a tab in state s: where it leads.   *)
(* A tab that is not signed in and still has an access token is let in      *)
(* (restoreSession returns !!getAccessToken()).                             *)
AccountGuard(s, page) ==
  CASE page \in AccountRoutes.auth -> IF s.present \/ s.access # None THEN page ELSE "login"
    [] page \in AccountRoutes.guest -> IF s.present THEN "dashboard" ELSE page
    [] OTHER -> page

(* beforeEach of the console.                                               *)
AdminGuard(s, page) ==
  IF page \in AdminRoutes.auth /\ s.access = None THEN "login" ELSE page

Guard(s, page) == Shown(IF app = "account" THEN AccountGuard(s, page) ELSE AdminGuard(s, page))

-----------------------------------------------------------------------------
Only(t, k, rec) == task' = [task EXCEPT ![t][k] = rec]
Tab(t, s) == tab' = [tab EXCEPT ![t] = s]

Busy(t, k) == task[t][k].at \notin {"idle", "asking"}

(* Tasks other than k would still act on a session that k begins or ends.   *)
Cross(t, k) ==
  crossed' = IF \E j \in Kinds \ {k} : Busy(t, j) THEN crossed \cup {t} ELSE crossed

Refreshing(t, k) == task[t][k].at = "refreshing"

(* setTokens, in memory.  Mutant: the answer is stored, not its tokens.     *)
SetAnswer(s, p) == [s EXCEPT !.access = p.family, !.refresh = p]

SetTokens(s, p) == [s EXCEPT !.access = p, !.refresh = p]

(* Only the account pages persist the refresh token.                        *)
Persist(p) == storage' = IF app = "account" THEN p ELSE storage

(* clearTokens, in memory.  Mutant: the access token only.                  *)
ClearAccess(s) == [s EXCEPT !.access = None]

ClearTokens(s) == [s EXCEPT !.access = None, !.refresh = None]

SignedOut(s) == [ClearTokens(s) EXCEPT !.user = None, !.present = FALSE]

(* A refresh with token p is about to be sent: does it risk a reuse?        *)
Risky(p) ==
  \/ app = "account" /\ p # storage
  \/ p \in orphans
  \/ \E t \in Tabs, k \in Kinds : Refreshing(t, k) /\ task[t][k].tok = p

(* The page of a tab is loaded, at first or again, with st in localStorage: *)
(* memory is lost, and requests go on without a reader.  The store is       *)
(* created and, when there is a refresh token, restores the session while   *)
(* the page is shown already.                                               *)
Load(t, page, st, login) ==
  LET s == [NoTab EXCEPT !.refresh = st, !.present = st # None]
      lost == {k \in Kinds : Refreshing(t, k)}
      kept == {task[t][k].tok : k \in {j \in lost : task[t][j].ans = None}}
  IN /\ storage' = st
     /\ Tab(t, [s EXCEPT !.route = Guard(s, page)])
     /\ task' = [task EXCEPT ![t] =
                   [Quiet EXCEPT !["restore"] = IF st = None THEN Idle
                                                ELSE [Sent("restore", st) EXCEPT !.at = "refreshing"],
                                 !["login"] = login]]
     /\ orphans' = orphans \cup kept
     /\ slip' = \/ slip
                \/ lost # {} /\ st # None
                \/ st # None /\ st \in orphans
                \/ st # None /\ \E u \in Tabs, k \in Kinds :
                                   Refreshing(u, k) /\ task[u][k].tok = st
     /\ crossed' = crossed \ {t}

-----------------------------------------------------------------------------
(* Tokens are looked up by their hash; GitHubController stores its own as   *)
(* they are, so that no refresh and no request with one is ever accepted.   *)
Hashed(f) == f \notin GitHub

Accepted(p) == Hashed(p.family) /\ p.family \notin dead /\ p.n = gen[p.family]

(* The server's answer to a refresh with token p, received or not.          *)
RefreshAnswer(p) ==
  IF Accepted(p) /\ p.n < MaxGen
  THEN [p EXCEPT !.n = p.n + 1] ELSE Refused

Rotated(p) ==
  IF RefreshAnswer(p) = Refused
  THEN /\ dead' = IF Hashed(p.family) /\ p.n < gen[p.family] THEN dead \cup {p.family} ELSE dead
       /\ UNCHANGED gen
  ELSE gen' = [gen EXCEPT ![p.family] = p.n + 1] /\ UNCHANGED dead

ServerRefresh(t, k) ==
  /\ Refreshing(t, k)
  /\ task[t][k].ans = None
  /\ Rotated(task[t][k].tok)
  /\ Only(t, k, [task[t][k] EXCEPT !.ans = RefreshAnswer(task[t][k].tok)])
  /\ UNCHANGED <<app, storage, tab, orphans, slip, crossed>>

ServerRefreshOrphan(p) ==
  /\ p \in orphans
  /\ orphans' = orphans \ {p}
  /\ Rotated(p)
  /\ UNCHANGED <<app, storage, tab, task, slip, crossed>>

-----------------------------------------------------------------------------
(* Answers to refreshes.  An answer may also be lost, before or after the   *)
(* server acts on the request; the page takes that for a refusal.           *)
Won(t, k) == task[t][k].ans \notin {None, Refused}

RefreshFails(t, k) ==
  orphans' = IF task[t][k].ans = None THEN orphans \cup {task[t][k].tok} ELSE orphans

(* tryRestoreSession and what restoreSession makes of it.  Mutant: a        *)
(* failure does not clear the tokens.                                       *)
RestoredUncleared(t) ==
  LET r == task[t]["restore"] IN
  /\ app = "account" /\ Refreshing(t, "restore") /\ r.what = "restore"
  /\ ~Won(t, "restore")
  /\ Tab(t, [tab[t] EXCEPT !.present = FALSE])
  /\ Only(t, "restore", Idle)
  /\ RefreshFails(t, "restore")
  /\ Cross(t, "restore")
  /\ UNCHANGED <<app, gen, dead, storage, slip>>

AccountRestored(t) ==
  LET r == task[t]["restore"] IN
  /\ app = "account" /\ Refreshing(t, "restore") /\ r.what = "restore"
  /\ \/ /\ Won(t, "restore")
        /\ Tab(t, [SetTokens(tab[t], r.ans) EXCEPT !.present = TRUE])
        /\ Persist(r.ans)
        /\ Only(t, "restore", Sent("userinfo", r.ans))
        /\ UNCHANGED <<orphans, crossed>>
     \/ /\ Tab(t, [ClearTokens(tab[t]) EXCEPT !.present = FALSE])
        /\ Persist(None)
        /\ Only(t, "restore", Idle)
        /\ RefreshFails(t, "restore")
        /\ Cross(t, "restore")
  /\ UNCHANGED <<app, gen, dead, slip>>

(* The response interceptor of services/http.ts: a 401 is answered by a     *)
(* refresh with the token now in memory, once per request; whoever else is  *)
(* refreshing with it is not asked.  The GitHub login does not pass it, and *)
(* a bad code is answered 400.  Refreshes do not pass it either; those of   *)
(* the console do, but /oauth2/token answers a refresh 400 when it is not   *)
(* accepted (getHttpStatusCodeForError), never 401, and the interceptor     *)
(* lets it through.  Mutant: the request is not marked _retry.              *)
StartRefreshAgain(t, k) ==
  LET r == task[t][k] IN
  /\ r.at \in {"sent", "resent"} /\ r.what \in {"call", "delete", "userinfo", "cred", "mfa", "revoke"}
  /\ tab[t].refresh # None
  /\ Only(t, k, [r EXCEPT !.at = "refreshing", !.tok = tab[t].refresh])
  /\ slip' = (slip \/ Risky(tab[t].refresh))
  /\ UNCHANGED <<app, gen, dead, storage, tab, orphans, crossed>>

StartRefresh(t, k) ==
  LET r == task[t][k] IN
  /\ r.at = "sent" /\ r.what \in {"call", "delete", "userinfo", "cred", "mfa", "revoke"}
  /\ tab[t].refresh # None
  /\ Only(t, k, [r EXCEPT !.at = "refreshing", !.tok = tab[t].refresh])
  /\ slip' = (slip \/ Risky(tab[t].refresh))
  /\ UNCHANGED <<app, gen, dead, storage, tab, orphans, crossed>>

(* The request is sent again with the new token.  Mutants: the rotated      *)
(* refresh token is dropped, or not persisted.                              *)
ResendKeepsRefresh(t, k) ==
  /\ Won(t, k)
  /\ Tab(t, [tab[t] EXCEPT !.access = task[t][k].ans])
  /\ Only(t, k, [task[t][k] EXCEPT !.at = "resent", !.tok = task[t][k].ans, !.ans = None])
  /\ UNCHANGED <<storage, orphans, slip, crossed>>

ResendUnsaved(t, k) ==
  /\ Won(t, k)
  /\ Tab(t, SetTokens(tab[t], task[t][k].ans))
  /\ Only(t, k, [task[t][k] EXCEPT !.at = "resent", !.tok = task[t][k].ans, !.ans = None])
  /\ UNCHANGED <<storage, orphans, slip, crossed>>

Resend(t, k) ==
  LET r == task[t][k] IN
  /\ Won(t, k)
  /\ Tab(t, SetTokens(tab[t], r.ans))
  /\ Persist(r.ans)
  /\ Only(t, k, [r EXCEPT !.at = "resent", !.tok = r.ans, !.ans = None])
  /\ UNCHANGED <<orphans, slip, crossed>>

(* ... and when the refresh fails the tokens are cleared and the page is    *)
(* loaded again at /login.                                                  *)
AccountRefreshed(t, k) ==
  /\ app = "account" /\ Refreshing(t, k) /\ task[t][k].what # "restore"
  /\ \/ Resend(t, k)
     \/ Load(t, "login", None, Idle)
  /\ UNCHANGED <<app, gen, dead>>

(* refreshAccessToken and the interceptor of the console: a failure signs   *)
(* out, on the page that is shown.                                          *)
AdminRefreshed(t, k) ==
  /\ app = "admin" /\ Refreshing(t, k)
  /\ \/ Resend(t, k)
     \/ /\ Tab(t, SignedOut(tab[t]))
        /\ Only(t, k, Idle)
        /\ RefreshFails(t, k)
        /\ Cross(t, k)
        /\ UNCHANGED <<storage, slip>>
  /\ UNCHANGED <<app, gen, dead>>

-----------------------------------------------------------------------------
(* A request of the page shown; the Bearer header is attached when there is *)
(* an access token.  One of them deletes the account.  What it is answered  *)
(* is left open.                                                            *)
PageCall(t, k, what) ==
  /\ tab[t].route = "auth" /\ task[t][k].at = "idle"
  /\ what = "delete" => app = "account"
  /\ Only(t, k, Sent(what, tab[t].access))
  /\ UNCHANGED <<app, gen, dead, storage, tab, orphans, slip, crossed>>

Answerable(t, k, what) ==
  task[t][k].at \in {"sent", "resent"} /\ task[t][k].what = what

PageCallAnswered(t, k) ==
  /\ Answerable(t, k, "call") \/ Answerable(t, k, "delete")
  /\ Only(t, k, Idle)
  /\ UNCHANGED <<app, gen, dead, storage, tab, orphans, slip, crossed>>

(* deleteAccount, once the server has deleted: localStorage is cleared and  *)
(* the login page loaded.                                                   *)
AccountDeleted(t, k) ==
  /\ Answerable(t, k, "delete") /\ task[t][k].tok # None /\ Hashed(task[t][k].tok.family)
  /\ Load(t, "login", None, Idle)
  /\ UNCHANGED <<app, gen, dead>>

-----------------------------------------------------------------------------
(* Families no login has been promised.  On the account pages families are  *)
(* interchangeable, and one is tried.                                       *)
Unpromised == {f \in Families : gen[f] = 0 /\ \A t \in Tabs : task[t]["login"].tok # [family |-> f, n |-> 0]}

Fresh(families) ==
  LET free == Unpromised \cap families IN
  IF app = "account" /\ free # {} THEN {CHOOSE f \in free : TRUE} ELSE free

Others == Families \ GitHub

Login(t, rec) ==
  /\ Only(t, "login", rec)
  /\ UNCHANGED <<app, gen, dead, storage, tab, orphans, slip, crossed>>

(* What the login page offers: its form, or the MFA form.  auth.loading     *)
(* disables both buttons.                                                   *)
AccountLoginForm(t) ==
  LET shown == tab[t].route = "login" /\ app = "account" IN
  [signIn |-> shown /\ task[t]["login"].at = "idle",
   verify |-> shown /\ task[t]["login"].at = "asking",
   back   |-> shown /\ task[t]["login"].at = "asking"]

(* handleLogin of the page, login of the store.                             *)
AccountHandleLogin(t) ==
  AccountLoginForm(t).signIn /\ Login(t, Sent("cred", tab[t].access))

(* authService.login: MFA is asked for, or a code is exchanged.             *)
AccountLoginAnswered(t) ==
  /\ app = "account" /\ Answerable(t, "login", "cred")
  /\ \/ Login(t, Idle)
     \/ tab[t].route = "login" /\ Login(t, [Idle EXCEPT !.at = "asking"])
     \/ \E f \in Fresh(Others) : Login(t, Sent("code", [family |-> f, n |-> 0]))

(* handleMfa and verifyMfa: the server's answer (MfaController::verifyLogin) *)
(* has no tokens, so the form stays whatever the code was.                  *)
AccountHandleMfa(t) ==
  AccountLoginForm(t).verify /\ Login(t, Sent("mfa", tab[t].access))

AccountMfaAnswered(t) ==
  /\ Answerable(t, "login", "mfa")
  /\ Login(t, IF tab[t].route = "login" THEN [Idle EXCEPT !.at = "asking"] ELSE Idle)

AccountMfaBack(t) == AccountLoginForm(t).back /\ Login(t, Idle)

(* The code is exchanged, for authService.login, CallbackPage (exchangeCode) *)
(* or GitHubCallbackPage; then fetchUser is sent.                           *)
Exchanged(t, p, present) ==
  /\ gen' = [gen EXCEPT ![p.family] = 1]
  /\ Tab(t, [SetTokens(tab[t], p) EXCEPT !.present = present])
  /\ Persist(p)
  /\ Only(t, "login", Sent("userinfo", p))
  /\ Cross(t, "login")
  /\ UNCHANGED <<app, dead, orphans, slip>>

Exchanges(t, what, present) ==
  /\ Answerable(t, "login", what)
  /\ \/ Exchanged(t, [family |-> task[t]["login"].tok.family, n |-> 1], present)
     \/ Login(t, Idle)

AccountExchangeCode(t) ==
  app = "account" /\ (Exchanges(t, "code", TRUE) \/ Exchanges(t, "exchange", TRUE))

GitHubLoggedIn(t) == Exchanges(t, "github", TRUE)

(* fetchUser, at the end of a login or of restoreSession.  A login ends on  *)
(* the dashboard even when it fails, as it does after a login with GitHub   *)
(* unless its 401 has led to /login before.                                 *)
AccountFetchUser(t, k) ==
  /\ app = "account" /\ Answerable(t, k, "userinfo")
  /\ \E user \in {None} \cup ({task[t][k].tok.family} \ GitHub) :
       LET s == [tab[t] EXCEPT !.user = user] IN
       Tab(t, IF k = "login" THEN [s EXCEPT !.route = Guard(s, "dashboard")] ELSE s)
  /\ Only(t, k, Idle)
  /\ UNCHANGED <<app, gen, dead, storage, orphans, slip, crossed>>

-----------------------------------------------------------------------------
(* The login page of the console and login of its store.  An answer that    *)
(* asks for MFA is returned to the page, which ignores it.                  *)
AdminHandleLogin(t) ==
  /\ app = "admin" /\ tab[t].route = "login" /\ task[t]["login"].at = "idle"
  /\ Login(t, Sent("cred", tab[t].access))

AdminLoginAnswered(t) ==
  /\ app = "admin" /\ Answerable(t, "login", "cred")
  /\ \/ Login(t, Idle)
     \/ \E f \in Fresh(Others) : Login(t, Sent("code", [family |-> f, n |-> 0]))

AdminExchangeCode(t) == app = "admin" /\ Exchanges(t, "code", FALSE)

(* fetchUserInfo and the check of the role: whoever is not an administrator *)
(* is signed out again.  Mutant: the role is not looked at.                 *)
AdminFetchAnyUserInfo(t) ==
  LET s == [tab[t] EXCEPT !.user = task[t]["login"].tok.family] IN
  /\ app = "admin" /\ Answerable(t, "login", "userinfo")
  /\ Only(t, "login", Idle)
  /\ Tab(t, [s EXCEPT !.route = Guard(s, "dashboard")])
  /\ UNCHANGED <<app, gen, dead, storage, orphans, slip, crossed>>

AdminFetchUserInfo(t) ==
  /\ app = "admin" /\ Answerable(t, "login", "userinfo")
  /\ Only(t, "login", Idle)
  /\ \/ LET f == task[t]["login"].tok.family
            s == [tab[t] EXCEPT !.user = f]
        IN /\ f \in Admins
           /\ Tab(t, [s EXCEPT !.route = Guard(s, "dashboard")])
           /\ UNCHANGED crossed
     \/ /\ Tab(t, SignedOut(tab[t]))
        /\ Cross(t, "login")
  /\ UNCHANGED <<app, gen, dead, storage, orphans, slip>>

-----------------------------------------------------------------------------
(* logout of the account pages ends when the revocation has been answered,  *)
(* whatever the answer; handleLogout then pushes /login.  Mutant: the user  *)
(* is kept.                                                                 *)
AccountSignedOutNamed(t) ==
  LET s == [ClearTokens(tab[t]) EXCEPT !.present = FALSE] IN
  /\ Tab(t, [s EXCEPT !.route = Guard(s, "login")])
  /\ Persist(None)
  /\ Only(t, "logout", Idle)
  /\ Cross(t, "logout")
  /\ UNCHANGED <<app, gen, dead, orphans, slip>>

AccountSignedOut(t) ==
  LET s == SignedOut(tab[t]) IN
  /\ Tab(t, [s EXCEPT !.route = Guard(s, "login")])
  /\ Persist(None)
  /\ Only(t, "logout", Idle)
  /\ Cross(t, "logout")
  /\ UNCHANGED <<app, gen, dead, orphans, slip>>

(* authService.logout: with no access token nothing is revoked.             *)
AccountLogout(t) ==
  /\ app = "account" /\ tab[t].route = "auth" /\ task[t]["logout"].at = "idle"
  /\ \/ tab[t].access = None /\ AccountSignedOut(t)
     \/ /\ tab[t].access # None
        /\ Only(t, "logout", Sent("revoke", tab[t].access))
        /\ UNCHANGED <<app, gen, dead, storage, tab, orphans, slip, crossed>>

AccountLogoutAnswered(t) == Answerable(t, "logout", "revoke") /\ AccountSignedOut(t)

(* Sign out of the console.                                                 *)
AdminLogout(t) ==
  LET s == SignedOut(tab[t]) IN
  /\ app = "admin" /\ tab[t].route = "auth"
  /\ Tab(t, [s EXCEPT !.route = Guard(s, "login")])
  /\ Cross(t, "logout")
  /\ UNCHANGED <<app, gen, dead, storage, task, orphans, slip>>

-----------------------------------------------------------------------------
(* The links of the two layouts; the back button leads to the login page    *)
(* or, from there, to a page seen before.                                   *)
AccountLinks == {"dashboard", "profile", "security", "authorized-apps"}

AdminLinks == {"dashboard", "applications", "users", "roles", "scopes", "tokens",
               "logs", "settings"}

Links == IF app = "account" THEN AccountLinks ELSE AdminLinks

(* A login page that is left forgets that it was asking for an MFA code.    *)
Navigate(t, page) ==
  /\ tab[t].route # "closed"
  /\ page \in Links \cup {"login"}
  /\ Guard(tab[t], page) # tab[t].route
  /\ Tab(t, [tab[t] EXCEPT !.route = Guard(tab[t], page)])
  /\ task' = IF task[t]["login"].at = "asking" THEN [task EXCEPT ![t]["login"] = Idle] ELSE task
  /\ UNCHANGED <<app, gen, dead, storage, orphans, slip, crossed>>

(* The user opens or reloads the application.                               *)
OpenPage(t, page) ==
  /\ page \in Pages \ {"callback", "github-callback"}
  /\ Load(t, page, storage, Idle)
  /\ UNCHANGED <<app, gen, dead>>

(* The browser comes back from an authorization with a code: onMounted of   *)
(* CallbackPage and of GitHubCallbackPage.  A code may be missing.          *)
AccountCallback(t) ==
  /\ app = "account"
  /\ \/ Load(t, "callback", storage, Idle)
     \/ \E f \in Fresh(Others) : Load(t, "callback", storage, Sent("exchange", [family |-> f, n |-> 0]))
  /\ UNCHANGED <<app, gen, dead>>

GitHubCallback(t) ==
  /\ app = "account"
  /\ \/ Load(t, "github-callback", storage, Idle)
     \/ \E f \in Fresh(GitHub) : Load(t, "github-callback", storage, Sent("github", [family |-> f, n |-> 0]))
  /\ UNCHANGED <<app, gen, dead>>

(* The console's callback page calls a function its store does not have:    *)
(* it shows an error in every case.                                         *)
AdminCallback(t) ==
  /\ app = "admin"
  /\ Load(t, "callback", storage, Idle)
  /\ UNCHANGED <<app, gen, dead>>

-----------------------------------------------------------------------------
(* An answer of the network, or of the server, to task k.                   *)
Progress(t, k) ==
  \/ ServerRefresh(t, k)
  \/ StartRefresh(t, k)
  \/ AccountRefreshed(t, k) \/ AdminRefreshed(t, k)
  \/ PageCallAnswered(t, k) \/ AccountDeleted(t, k)
  \/ AccountFetchUser(t, k)
  \/ k = "restore" /\ AccountRestored(t)
  \/ /\ k = "login"
     /\ \/ AccountLoginAnswered(t) \/ AccountMfaAnswered(t) \/ AccountExchangeCode(t)
        \/ GitHubLoggedIn(t) \/ AdminLoginAnswered(t) \/ AdminExchangeCode(t)
        \/ AdminFetchUserInfo(t)
  \/ k = "logout" /\ AccountLogoutAnswered(t)

UserStep(t) ==
  \/ \E k \in Calls, what \in {"call", "delete"} : PageCall(t, k, what)
  \/ AccountLogout(t) \/ AdminLogout(t)
  \/ \E page \in Pages : Navigate(t, page) \/ OpenPage(t, page)
  \/ /\ t \in LoginTabs
     /\ \/ AccountHandleLogin(t) \/ AccountHandleMfa(t) \/ AccountMfaBack(t) \/ AdminHandleLogin(t)
        \/ AccountCallback(t) \/ GitHubCallback(t) \/ AdminCallback(t)

Next ==
  \/ /\ \/ \E t \in Tabs, k \in Kinds : Progress(t, k)
        \/ \E p \in orphans : ServerRefreshOrphan(p)
     /\ UNCHANGED inputs
  \/ /\ inputs < MaxInputs /\ inputs' = inputs + 1
     /\ \E t \in Tabs : UserStep(t)

Spec == Init /\ [][Next]_vars

-----------------------------------------------------------------------------
TaskRecord ==
  [at: {"idle", "sent", "refreshing", "resent", "asking"},
   what: {"none", "restore", "userinfo", "cred", "code", "exchange", "github", "mfa",
          "revoke", "call", "delete"},
   tok: Pair \cup {None}, ans: Pair \cup {None, Refused}]

TabRecord ==
  [access: Pair \cup {None}, refresh: Pair \cup {None}, present: BOOLEAN,
   user: Families \cup {None},
   route: {"closed", "login", "other", "auth"}]

TypeOK ==
  /\ app \in Apps
  /\ gen \in [Families -> Nat]
  /\ dead \subseteq Families
  /\ storage \in Pair \cup {None}
  /\ tab \in [Tabs -> TabRecord]
  /\ task \in [Tabs -> [Kinds -> TaskRecord]]
  /\ orphans \subseteq Pair
  /\ inputs \in 0..MaxInputs
  /\ slip \in BOOLEAN
  /\ crossed \subseteq Tabs

SignedIn(t) == IF app = "account" THEN tab[t].present ELSE tab[t].access # None

(* No reuse is detected, and no family ended, unless a refresh was sent     *)
(* with a token that may have been spent: one that another request or tab   *)
(* was refreshing with, that the other tabs had replaced, or whose          *)
(* successor was lost in a reload (http.ts, stores/auth.ts).                *)
PunishedForCause == dead # {} => slip

(* ... and then the refresh token in localStorage is the one the server     *)
(* accepts next, unless a refresh with it is under way: a reload can        *)
(* restore the session.  It never can after a login with GitHub, whose      *)
(* tokens the server does not find (GitHubController.cc:206-242).           *)
StoredTokenIsUsable ==
  storage # None /\ ~slip /\ Hashed(storage.family) =>
    \/ Accepted(storage)
    \/ \E t \in Tabs, k \in Kinds : Refreshing(t, k) /\ task[t][k].tok = storage

(* The name shown is that of the session whose tokens the tab uses, even    *)
(* with refreshes, logouts and other tabs in between; crossed tabs are the  *)
(* exception (stores/auth.ts, both applications).                           *)
SessionIsOne ==
  \A t \in Tabs \ crossed :
    tab[t].user # None /\ ~Busy(t, "login") =>
      tab[t].access # None /\ tab[t].access.family = tab[t].user

(* A tab that is signed out holds nothing of the session it had, and its    *)
(* late answers bring nothing back (logout, restoreSession, both stores).   *)
SignedOutIsEmpty ==
  \A t \in Tabs \ crossed :
    ~SignedIn(t) => tab[t].access = None /\ tab[t].refresh = None /\ tab[t].user = None

(* A refresh token without an access token is one the tab is restoring its  *)
(* session with: what the guards rely on when they look at the access token *)
(* only (restoreSession, beforeEach).                                       *)
LoneTokenIsRestoring ==
  \A t \in Tabs : tab[t].access = None /\ tab[t].refresh # None =>
    task[t]["restore"].what = "restore"

(* The console keeps a token, once the login is over, for administrators    *)
(* only (login of the console's store).                                     *)
ConsoleNeedsRole ==
  app = "admin" =>
    \A t \in Tabs \ crossed :
      SignedIn(t) /\ ~Busy(t, "login") => tab[t].user # None /\ tab[t].user \in Admins

(* How much a task still has to do: requests of the functions it runs, then *)
(* answers to the request it is in.                                         *)
Rests(r) == r.at \in {"idle", "asking"}

ToDo(r) ==
  IF Rests(r) THEN <<0, 0>>
  ELSE <<CASE r.what = "cred" -> 3
           [] r.what \in {"code", "exchange", "github", "restore"} -> 2
           [] r.what = "userinfo" -> 1
           [] OTHER -> 0,
         CASE r.at = "resent" -> 1
           [] r.at = "refreshing" -> (IF r.ans # None THEN 2 ELSE 3)
           [] OTHER -> 4>>

Less(x, y) == x[1] < y[1] \/ (x[1] = y[1] /\ x[2] < y[2])

(* Whatever the network answers brings a task nearer to its end, and starts *)
(* none: no request is retried, refreshed for or reloaded for ever (both    *)
(* interceptors, restoreSession).                                           *)
RetriesEnd ==
  [][inputs' = inputs =>
       \A t \in Tabs, k \in Kinds :
         task'[t][k] \notin {task[t][k], Idle} => Less(ToDo(task'[t][k]), ToDo(task[t][k]))]_vars

(* "used to silently refresh on page reload" (http.ts:11): the refresh that *)
(* restores the session is not refused because the page that is loading     *)
(* spends the token as well.                                                *)
ReloadKeepsSession ==
  \A t \in Tabs :
    Refreshing(t, "restore") /\ task[t]["restore"].ans = Refused =>
      \A k \in Kinds \ {"restore"} :
        Refreshing(t, k) => task[t][k].tok # task[t]["restore"].tok
=============================================================================
