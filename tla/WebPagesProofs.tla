---------------------------- MODULE WebPagesProofs ----------------------------
(***************************************************************************)
(* Proofs about WebPages, for any one page, any data, any number of inputs *)
(* and requests: what holds of every page alike.                           *)
(***************************************************************************)
EXTENDS WebPages, FiniteSetTheorems, TLAPS

-----------------------------------------------------------------------------
(* Requests under way.                                                      *)
CallFields == {"id", "fn", "op", "body", "flag", "st", "res"}

(* The flags that disable nothing or, settingUpMfa, do not always.          *)
Lone == {"none", "confirm", "settingUpMfa"}

(* What the functions of each page ask for.                                 *)
Asks(p) ==
  CASE p = "roles" ->
         {<<"fetchRoles", "read">>, <<"createRole", "create">>, <<"updateRole", "update">>,
          <<"deleteRole", "remove">>}
    [] p = "scopes" ->
         {<<"fetchScopes", "read">>, <<"createScope", "create">>, <<"updateScope", "update">>,
          <<"deleteScope", "remove">>}
    [] p = "users" -> {<<"fetchUsers", "read">>, <<"assignRoles", "assign">>}
    [] p = "applications" ->
         {<<"fetchClients", "read">>, <<"createClient", "create">>, <<"deleteClient", "remove">>,
          <<"resetSecret", "reset">>}
    [] p = "authorized-apps" -> {<<"fetchApps", "read">>, <<"revokeApp", "remove">>}
    [] p = "user-detail" ->
         {<<"fetchUser", "read">>, <<"saveInfo", "put">>, <<"disableUser", "put">>,
          <<"enableUser", "put">>, <<"saveRoles", "assign">>}
    [] p = "application-detail" ->
         {<<"fetchClient", "read">>, <<"saveChanges", "put">>, <<"saveScopes", "scopes">>,
          <<"resetClientSecret", "reset">>}
    [] p = "settings" -> {<<"fetchScopes", "read">>, <<"fetchOidcKeys", "read">>}
    [] p = "admin-dashboard" -> {<<"dashboard", "read">>}
    [] p = "profile" -> {<<"fetchProfile", "read">>, <<"resendVerification", "mail">>}
    [] p = "tokens" -> {<<"fetchTokens", "search">>, <<"revoke", "revoke">>}
    [] p = "security" ->
         {<<"fetchProfile", "read">>, <<"fetchWebauthnCredentials", "read">>,
          <<"changePassword", "password">>, <<"setupMfa", "setup">>, <<"verifyMfaSetup", "verify">>,
          <<"disableMfa", "disable">>, <<"registerPasskey", "begin">>, <<"registerPasskey", "prompt">>,
          <<"registerPasskey", "finish">>}
    [] p = "register" -> {<<"handleRegister", "submit">>}
    [] p = "forgot-password" -> {<<"handleSubmit", "submit">>}
    [] p = "reset-password" -> {<<"handleReset", "submit">>}
    [] p = "verify-email" -> {<<"verifyEmail", "submit">>}
    [] p = "device-verify" -> {<<"handleVerify", "submit">>}
    [] p = "consent" -> {<<"approve", "submit">>, <<"deny", "submit">>}

(* Which flags a function goes by, when it does not reset the one it has.   *)
FlagFits(fn, flag) ==
  /\ fn \in {"saveInfo", "saveChanges", "assignRoles", "saveRoles"} => flag = "saving"
  /\ fn \in {"resetSecret", "resetClientSecret", "dashboard", "resendVerification", "verifyEmail",
             "verifyMfaSetup"} => flag = "none"
  /\ fn = "fetchTokens" => flag \in {"none", "confirm"}
  /\ fn = "revoke" => flag = "confirm"
  /\ fn = "createClient" => flag = "creating"
  /\ fn \in {"handleRegister", "handleSubmit", "handleReset", "handleVerify", "approve", "deny"} =>
       flag = "loading"
  /\ flag = "settingUpMfa" <=> fn = "setupMfa"
  /\ fn = "setupMfa" => page = "security"

Fits(fn, op, flag) == <<fn, op>> \in Asks(page) /\ FlagFits(fn, flag)

IsCall(c) ==
  /\ DOMAIN c = CallFields
  /\ c.id \in 1..(MaxCalls + 1)
  /\ c.st \in {"sent", "half", "ok", "failed"}
  /\ Fits(c.fn, c.op, c.flag)

CallsFit ==
  /\ IsFiniteSet(calls) /\ Cardinality(calls) <= MaxCalls
  /\ \A c \in calls : IsCall(c)
  /\ \A c, d \in calls : c.id = d.id => c = d

(* A request that is sent while those of cs are under way.                  *)
New(d, cs) == IsCall(d) /\ d.st = "sent" /\ d.res = None /\ \A c \in cs : c.id # d.id

LEMMA FreshId ==
  ASSUME NEW cs, IsFiniteSet(cs), Cardinality(cs) <= MaxCalls
  PROVE  \E i \in 1..(MaxCalls + 1) : \A c \in cs : c.id # i
<1> SUFFICES ASSUME \A i \in 1..(MaxCalls + 1) : \E c \in cs : c.id = i
             PROVE  FALSE
  OBVIOUS
<1> DEFINE f == [i \in 1..(MaxCalls + 1) |-> CHOOSE c \in cs : c.id = i]
<1>1. \A i \in 1..(MaxCalls + 1) : f[i] \in cs /\ f[i].id = i
  OBVIOUS
<1>2. f \in [1..(MaxCalls + 1) -> cs]
  BY <1>1
<1>3. MaxCalls \in Nat
  BY WebPageAssumption
<1>4. IsFiniteSet(1..(MaxCalls + 1)) /\ Cardinality(1..(MaxCalls + 1)) = MaxCalls + 1
  BY <1>3, FS_Interval
<1>5. Cardinality(cs) \in Nat
  BY FS_CardinalityType
<1> HIDE DEF f
<1>6. \E i, j \in 1..(MaxCalls + 1) : i # j /\ f[i] = f[j]
  BY <1>2, <1>3, <1>4, <1>5, FS_PigeonHole
<1> QED BY <1>1, <1>6

LEMMA SentNew ==
  ASSUME NEW cs, IsFiniteSet(cs), Cardinality(cs) <= MaxCalls,
         NEW fn, NEW op, NEW body, NEW flag, Fits(fn, op, flag)
  PROVE  \E d : /\ Sent(cs, fn, op, body, flag) = cs \cup {d}
                /\ New(d, cs)
                /\ d.fn = fn /\ d.op = op /\ d.body = body /\ d.flag = flag
<1> DEFINE i == CHOOSE j \in 1..(MaxCalls + 1) : \A c \in cs : c.id # j
           d == [id |-> i, fn |-> fn, op |-> op, body |-> body, flag |-> flag, st |-> "sent",
                 res |-> None]
<1>1. i \in 1..(MaxCalls + 1) /\ \A c \in cs : c.id # i
  BY FreshId
<1>2. Sent(cs, fn, op, body, flag) = cs \cup {d}
  BY DEF Sent
<1> HIDE DEF i
<1>3. New(d, cs) /\ d.fn = fn /\ d.op = op /\ d.body = body /\ d.flag = flag
  BY <1>1 DEF New, IsCall, CallFields
<1> HIDE DEF d
<1> QED BY <1>2, <1>3

(* The answer to a request.                                                 *)
Answers(d, c) ==
  /\ IsCall(d) /\ d.st # "sent"
  /\ d.id = c.id /\ d.fn = c.fn /\ d.op = c.op /\ d.body = c.body /\ d.flag = c.flag

LEMMA AnswerNew ==
  ASSUME NEW c, IsCall(c), NEW st \in {"half", "ok", "failed"}, NEW r, Answer(c, st, r)
  PROVE  \E d : calls' = (calls \ {c}) \cup {d} /\ Answers(d, c) /\ d.st = st /\ d.res = r
<1> DEFINE d == [c EXCEPT !.st = st, !.res = r]
<1>1. calls' = (calls \ {c}) \cup {d}
  BY DEF Answer
<1>2. Answers(d, c) /\ d.st = st /\ d.res = r
  BY DEF Answers, IsCall, CallFields
<1> HIDE DEF d
<1> QED BY <1>1, <1>2

-----------------------------------------------------------------------------
(* What a component holds, as far as all of them hold the same.             *)
UiFields ==
  CASE page = "tokens" -> {"loading", "busy", "open", "secret", "shown", "client", "user", "nr",
                           "dialog", "asked"}
    [] page = "security" -> {"loading", "busy", "open", "secret", "mfa", "setup", "passkeys"}
    [] OTHER -> {"loading", "busy", "open", "sel", "form", "draft", "shown", "secret"}

UiFits ==
  /\ DOMAIN ui = UiFields
  /\ ui.loading \in BOOLEAN
  /\ ui.busy \cap {"none", "confirm"} = {}
  /\ "settingUpMfa" \in ui.busy => page = "security"

Bounded ==
  /\ page \in Pages
  /\ inputs \in 0..MaxInputs[page]
  /\ marks \subseteq Marks

Base == CallsFit /\ UiFits /\ Bounded

(* The functions that hide the page until they are answered.                *)
Loaders ==
  {"fetchRoles", "fetchScopes", "fetchUsers", "fetchClients", "fetchApps", "fetchUser",
   "fetchClient", "dashboard", "fetchProfile", "fetchTokens", "verifyEmail"}

Busy(u) == u.busy \ {"settingUpMfa"}

(* The component becomes u: loading only if it may, and busy with these;    *)
(* only the pages of applications show a secret.                            *)
Becomes(u, loading, busy) ==
  /\ page \in {"applications", "application-detail"} \/ u.secret = ui.secret
  /\ DOMAIN u = DOMAIN ui
  /\ u.loading \in BOOLEAN /\ (u.loading => loading)
  /\ Busy(u) = busy
  /\ "settingUpMfa" \in u.busy => "settingUpMfa" \in ui.busy \/ page = "security"

(* Answers that are shown in one place and awaited together are marked.     *)
OverlapMarked == "overlap" \notin marks => ~Overlap(calls)

(* The effects a step can have on the requests under way and the flags.     *)
Stays == calls' = calls /\ Becomes(ui', ui.loading, Busy(ui))

Starts ==
  \E d : /\ New(d, calls) /\ calls' = calls \cup {d} /\ Cardinality(calls') <= MaxCalls
         /\ d.flag \notin Lone => d.flag \notin ui.busy
         /\ Becomes(ui', ui.loading \/ d.fn \in Loaders, Busy(ui) \cup ({d.flag} \ Lone))
         /\ OverlapMarked' \/ Shows(d) = {}

IsAnswered ==
  \E c \in calls : \E d :
    /\ Answers(d, c) /\ calls' = (calls \ {c}) \cup {d} /\ ui' = ui
    /\ d.op \in {"read", "search"} /\ d.st = "failed" => {"unread", "lost"} \cap marks' # {}

Ends ==
  \E c \in calls : /\ calls' = calls \ {c}
                   /\ Becomes(ui', ui.loading /\ c.fn \notin Loaders, Busy(ui) \ {c.flag})

Follows ==
  \E c \in calls : \E d :
    /\ New(d, calls \ {c}) /\ calls' = (calls \ {c}) \cup {d}
    /\ d.flag \in {c.flag, "none"}
    /\ Becomes(ui', (ui.loading /\ c.fn \notin Loaders) \/ d.fn \in Loaders,
               Busy(ui) \ ({c.flag} \ {d.flag}))
    /\ OverlapMarked'

AllEnd ==
  /\ calls' = {} /\ \A c \in calls : c.flag = "none"
  /\ Becomes(ui', FALSE, Busy(ui))

Effect ==
  /\ page' = page /\ Bounded' /\ marks \subseteq marks'
  /\ Stays \/ Starts \/ IsAnswered \/ Ends \/ Follows \/ AllEnd

-----------------------------------------------------------------------------
(* The steps the pages are made of have these effects.                      *)
LEMMA Counted ==
  ASSUME Bounded, inputs < MaxInputs[page], inputs' = inputs + 1
  PROVE  inputs' \in 0..MaxInputs[page]
BY WebPageAssumption DEF Bounded

LEMMA SameEffect ==
  ASSUME Base, page' = page, inputs' = inputs, marks \subseteq marks', marks' \subseteq Marks,
         calls' = calls,
         Becomes(ui', ui.loading, Busy(ui))
  PROVE  Effect
BY DEF Effect, Stays, Base, Bounded

LEMMA TypeEffect ==
  ASSUME Base, NEW u, Type(u), Becomes(u, ui.loading, Busy(ui))
  PROVE  Effect
BY SameEffect DEF Type, Base, Bounded

LEMMA EnterEffect ==
  ASSUME Base, NEW u, Enter(u), Becomes(u, ui.loading, Busy(ui))
  PROVE  Effect
BY Counted DEF Enter, Effect, Stays, Base, Bounded

LEMMA ElsewhereEffect ==
  ASSUME Base, NEW d, NEW o, Elsewhere(d, o)
  PROVE  Effect
<1>1. Becomes(ui', ui.loading, Busy(ui))
  BY DEF Elsewhere, Becomes, Base, UiFits
<1> QED BY <1>1, Counted DEF Elsewhere, Effect, Stays, Base, Bounded, Marks

LEMMA AwaitingMarks ==
  ASSUME Bounded, NEW cs, Awaiting(cs)
  PROVE  marks \subseteq marks' /\ marks' \subseteq Marks /\ OverlapMarked'
<1>1. calls' = cs /\ marks' = IF Overlap(cs) THEN marks \cup {"overlap"} ELSE marks
  BY DEF Awaiting
<1>2. Overlap(calls)' <=> Overlap(cs)
  BY <1>1 DEF Overlap
<1> QED BY <1>1, <1>2 DEF Bounded, Marks, OverlapMarked

LEMMA StartsEffect ==
  ASSUME Base, NEW fn, NEW op, NEW body, NEW flag, Fits(fn, op, flag),
         calls' = Sent(calls, fn, op, body, flag), Cardinality(calls') <= MaxCalls,
         page' = page, inputs < MaxInputs[page], inputs' = inputs + 1, marks \subseteq marks',
         marks' \subseteq Marks,
         flag \notin Lone => flag \notin ui.busy,
         Becomes(ui', ui.loading \/ fn \in Loaders, Busy(ui) \cup ({flag} \ Lone)),
         OverlapMarked' \/ (op \in {"put", "setup", "disable"} /\ fn # "createClient")
  PROVE  Effect
<1>1. PICK d : /\ Sent(calls, fn, op, body, flag) = calls \cup {d}
               /\ New(d, calls)
               /\ d.fn = fn /\ d.op = op /\ d.body = body /\ d.flag = flag
  BY SentNew DEF Base, CallsFit
<1>2. op \in {"put", "setup", "disable"} /\ fn # "createClient" => Shows(d) = {}
  BY <1>1 DEF Shows
<1>3. Starts
  BY <1>1, <1>2 DEF Starts
<1>4. Bounded'
  BY Counted DEF Base, Bounded
<1> QED BY <1>3, <1>4 DEF Effect

LEMMA ClickEffect ==
  ASSUME Base, NEW fn, NEW op, NEW body, NEW flag, Fits(fn, op, flag), NEW u,
         Click(Sent(calls, fn, op, body, flag), u),
         flag \notin Lone => flag \notin ui.busy,
         Becomes(u, ui.loading \/ fn \in Loaders, Busy(ui) \cup ({flag} \ Lone))
  PROVE  Effect
<1> DEFINE cs == Sent(calls, fn, op, body, flag)
<1>1. /\ inputs < MaxInputs[page] /\ inputs' = inputs + 1 /\ page' = page /\ ui' = u
      /\ Cardinality(cs) <= MaxCalls /\ calls' = cs /\ Awaiting(cs)
  BY DEF Click, Awaiting
<1>2. marks \subseteq marks' /\ marks' \subseteq Marks /\ OverlapMarked'
  <2> HIDE DEF cs
  <2> QED BY <1>1, AwaitingMarks DEF Base
<1> QED BY <1>1, <1>2, StartsEffect

LEMMA RaiseBecomes ==
  ASSUME UiFits, NEW flag, flag # "confirm", flag # "settingUpMfa" \/ page = "security"
  PROVE  Becomes(Raise(flag), ui.loading, Busy(ui) \cup ({flag} \ Lone))
<1>1. {"loading", "busy"} \subseteq DOMAIN ui
  BY DEF UiFits, UiFields
<1> QED BY <1>1 DEF Raise, Becomes, Busy, Lone, UiFits

LEMMA StartEffect ==
  ASSUME Base, NEW fn, NEW op, NEW body, NEW flag, Fits(fn, op, flag), flag # "confirm",
         flag # "settingUpMfa" \/ page = "security", Start(flag, fn, op, body),
         flag \notin Lone => flag \notin ui.busy
  PROVE  Effect
<1>1. Becomes(Raise(flag), ui.loading \/ fn \in Loaders, Busy(ui) \cup ({flag} \ Lone))
  BY RaiseBecomes DEF Base, Becomes
<1> QED BY <1>1, ClickEffect DEF Start

LEMMA AnswerEffect ==
  ASSUME Base, NEW c \in calls, NEW st \in {"half", "ok", "failed"}, NEW r, Answer(c, st, r),
         page' = page, ui' = ui, inputs' = inputs, marks \subseteq marks', marks' \subseteq Marks,
         c.op \in {"read", "search"} /\ st = "failed" => {"unread", "lost"} \cap marks' # {}
  PROVE  Effect
<1>1. IsAnswered
  BY AnswerNew DEF Base, CallsFit, IsAnswered, Answers
<1> QED BY <1>1 DEF Effect, Base, Bounded

LEMMA ReplyEffect ==
  ASSUME Base, NEW c \in calls, NEW pre, NEW d, NEW r, Reply(c, pre, d, r)
  PROVE  Effect
<1>1. PICK st \in {"half", "ok", "failed"} :
        /\ \E s : Answer(c, st, s)
        /\ c.op \in {"read", "search"} /\ st = "failed" => {"unread", "lost"} \cap marks' # {}
  BY DEF Reply
<1>2. marks \subseteq marks' /\ marks' \subseteq Marks
  BY DEF Reply, Base, Bounded, Marks
<1> QED BY <1>1, <1>2, AnswerEffect DEF Reply

LEMMA RolesDeletedEffect ==
  ASSUME Base, NEW c \in calls, c.op = "assign", NEW d, RolesDeleted(c, d)
  PROVE  Effect
<1>1. PICK st \in {"half", "ok", "failed"} : \E s : Answer(c, st, s)
  BY DEF RolesDeleted
<1>2. marks \subseteq marks' /\ marks' \subseteq Marks
  BY DEF RolesDeleted, Base, Bounded, Marks
<1> QED BY <1>1, <1>2, AnswerEffect DEF RolesDeleted

LEMMA RoleInsertedEffect ==
  ASSUME Base, NEW c \in calls, c.op = "assign", NEW held, NEW with, RoleInserted(c, held, with)
  PROVE  Effect
<1>1. PICK st \in {"half", "ok", "failed"} : \E s : Answer(c, st, s)
  BY DEF RoleInserted
<1>2. marks \subseteq marks' /\ marks' \subseteq Marks
  BY DEF RoleInserted, Base, Bounded, Marks
<1> QED BY <1>1, <1>2, AnswerEffect DEF RoleInserted

LEMMA CreateEffect ==
  ASSUME Base, NEW c \in calls, c.op = "create", Create(c)
  PROVE  Effect
<1>1. CASE \E pre, d, r : Reply(c, pre, d, r)
  BY <1>1, ReplyEffect
<1>2. CASE Answer(c, "half", None) /\ UNCHANGED <<page, ui, db, inputs, marks, others, meant>>
  BY <1>2, AnswerEffect DEF Base, Bounded
<1> QED BY <1>1, <1>2 DEF Create

(* A fetch in two statements; the end of an update of scopes; a revocation  *)
(* in two statements.                                                       *)
LEMMA GetClientEffect ==
  ASSUME Base, NEW c \in calls, GetClient(c)
  PROVE  Effect
<1>1. PICK st \in {"half", "ok", "failed"} :
        (\E s : Answer(c, st, s)) /\ (st = "failed" => "unread" \in marks')
  BY DEF GetClient
<1>2. marks \subseteq marks' /\ marks' \subseteq Marks
  BY DEF GetClient, Base, Bounded, Marks
<1>3. page' = page /\ ui' = ui /\ inputs' = inputs
  BY DEF GetClient
<1> QED BY <1>1, <1>2, <1>3, AnswerEffect

LEMMA EndUpdateEffect ==
  ASSUME Base, EndUpdate
  PROVE  Effect
<1>1. marks \subseteq marks' /\ marks' \subseteq Marks
  BY DEF EndUpdate, Base, Bounded, Marks
<1>2. Becomes(ui', ui.loading, Busy(ui))
  BY DEF EndUpdate, Becomes, Base, UiFits
<1> QED BY <1>1, <1>2, SameEffect DEF EndUpdate

LEMMA RevokeAllEffect ==
  ASSUME Base, NEW c \in calls, c.op = "revoke", RevokeAll(c)
  PROVE  Effect
<1>1. PICK st \in {"half", "ok", "failed"} : \E s : Answer(c, st, s)
  BY DEF RevokeAll
<1>2. marks \subseteq marks' /\ marks' \subseteq Marks
  BY DEF RevokeAll, Base, Bounded, Marks
<1>3. page' = page /\ ui' = ui /\ inputs' = inputs
  BY DEF RevokeAll
<1> QED BY <1>1, <1>2, <1>3, AnswerEffect

LEMMA ResumeRest ==
  ASSUME Base, NEW cs, NEW u, Resume(cs, u)
  PROVE  page' = page /\ Bounded' /\ marks \subseteq marks' /\ calls' = cs /\ ui' = u /\ OverlapMarked'
BY AwaitingMarks DEF Resume, Awaiting, Base, Bounded

LEMMA EndEffect ==
  ASSUME Base, NEW c \in calls, NEW u, Resume(calls \ {c}, u),
         Becomes(u, ui.loading /\ c.fn \notin Loaders, Busy(ui) \ {c.flag})
  PROVE  Effect
<1>1. page' = page /\ Bounded' /\ marks \subseteq marks' /\ calls' = calls \ {c} /\ ui' = u
  BY ResumeRest
<1>2. Ends
  BY <1>1 DEF Ends, Becomes
<1> QED BY <1>1, <1>2 DEF Effect

LEMMA FollowEffect ==
  ASSUME Base, NEW c \in calls, NEW fn, NEW op, NEW body, NEW flag, Fits(fn, op, flag), NEW u,
         Resume(Sent(calls \ {c}, fn, op, body, flag), u), flag \in {c.flag, "none"},
         Becomes(u, (ui.loading /\ c.fn \notin Loaders) \/ fn \in Loaders,
                 Busy(ui) \ ({c.flag} \ {flag}))
  PROVE  Effect
<1>1. IsFiniteSet(calls \ {c}) /\ Cardinality(calls \ {c}) <= MaxCalls
  BY FS_Subset, FS_CardinalityType, WebPageAssumption DEF Base, CallsFit
<1>2. PICK d : /\ Sent(calls \ {c}, fn, op, body, flag) = (calls \ {c}) \cup {d}
               /\ New(d, calls \ {c})
               /\ d.fn = fn /\ d.op = op /\ d.body = body /\ d.flag = flag
  BY <1>1, SentNew
<1>3. /\ page' = page /\ Bounded' /\ marks \subseteq marks' /\ OverlapMarked'
      /\ calls' = Sent(calls \ {c}, fn, op, body, flag) /\ ui' = u
  BY ResumeRest
<1>4. Follows
  BY <1>2, <1>3 DEF Follows, Becomes
<1> QED BY <1>3, <1>4 DEF Effect

LEMMA DropFields ==
  ASSUME NEW u, {"loading", "busy"} \subseteq DOMAIN u, NEW flag
  PROVE  /\ DOMAIN Drop(u, flag) = DOMAIN u /\ Drop(u, flag).loading = u.loading
         /\ Drop(u, flag).busy = u.busy \ {flag}
         /\ \A k \in DOMAIN u : k # "busy" => Drop(u, flag)[k] = u[k]
BY DEF Drop
-----------------------------------------------------------------------------
(* The pages that show a table.                                             *)
LEMMA PlainUi ==
  ASSUME UiFits, page \notin {"tokens", "security"}
  PROVE  DOMAIN ui = {"loading", "busy", "open", "sel", "form", "draft", "shown", "secret"}
BY DEF UiFits, UiFields

LEMMA ListUi ==
  ASSUME Base, page \in ListPageNames
  PROVE  /\ DOMAIN ui = {"loading", "busy", "open", "sel", "form", "draft", "shown", "secret"}
         /\ ui.loading \in BOOLEAN
BY PlainUi DEF Base, UiFits, ListPageNames

LEMMA FetchedEffect ==
  ASSUME Base, page \in ListPageNames, NEW fn \in Loaders, Fetched(fn)
  PROVE  Effect
<1>1. PICK c \in Answered(fn) :
        Resume(calls \ {c}, [Drop(ui, c.flag) EXCEPT !.loading = FALSE,
                                                     !.shown = IF c.st = "ok" THEN c.res ELSE @])
  BY DEF Fetched
<1> DEFINE u == [Drop(ui, c.flag) EXCEPT !.loading = FALSE,
                                         !.shown = IF c.st = "ok" THEN c.res ELSE @]
<1>2. c \in calls /\ c.fn = fn
  BY DEF Answered
<1>3. Becomes(u, ui.loading /\ c.fn \notin Loaders, Busy(ui) \ {c.flag})
  BY <1>2, ListUi, DropFields DEF Becomes, Busy
<1> HIDE DEF u
<1> QED BY <1>1, <1>2, <1>3, EndEffect DEF u

LEMMA FetchOfLoads ==
  ASSUME page \in ListPageNames
  PROVE  FetchOf(page) \in Loaders \ {"fetchTokens"}
BY DEF ListPageNames, FetchOf, Loaders

LEMMA ThenFetchEffect ==
  ASSUME Base, page \in ListPageNames, NEW fn, fn \notin Loaders \cup {"setupMfa"}, NEW u,
         ThenFetch(fn, u), DOMAIN u = DOMAIN ui, u.busy = ui.busy,
         page = "applications" \/ u.secret = ui.secret
  PROVE  Effect
<1>1. PICK c \in Answered(fn) :
        IF c.st = "ok"
        THEN Resume(Sent(calls \ {c}, FetchOf(page), "read", Rows, c.flag), [u EXCEPT !.loading = TRUE])
        ELSE Resume(calls \ {c}, Drop(ui, c.flag))
  BY DEF ThenFetch
<1>2. c \in calls /\ c.fn = fn
  BY DEF Answered
<1>3. CASE c.st = "ok"
  <2> DEFINE v == [u EXCEPT !.loading = TRUE]
  <2>1. Fits(FetchOf(page), "read", c.flag)
    <3>1. Fits(fn, c.op, c.flag)
      BY <1>2 DEF Base, CallsFit, IsCall
    <3> QED BY <3>1 DEF Fits, Asks, FlagFits, FetchOf, ListPageNames
  <2>2. Becomes(v, (ui.loading /\ c.fn \notin Loaders) \/ FetchOf(page) \in Loaders,
                Busy(ui) \ ({c.flag} \ {c.flag}))
    BY <1>2, ListUi, FetchOfLoads DEF Becomes, Busy
  <2> HIDE DEF v
  <2>3. Resume(Sent(calls \ {c}, FetchOf(page), "read", Rows, c.flag), v)
    BY <1>1, <1>3 DEF v
  <2> QED BY <1>2, <2>1, <2>2, <2>3, FollowEffect
<1>4. CASE c.st # "ok"
  <2>1. Becomes(Drop(ui, c.flag), ui.loading /\ c.fn \notin Loaders, Busy(ui) \ {c.flag})
    BY <1>2, ListUi, DropFields DEF Becomes, Busy
  <2> QED BY <1>1, <1>2, <1>4, <2>1, EndEffect
<1> QED BY <1>3, <1>4

(* The modals only change what is open and what is typed.                   *)
LEMMA ModalsRest ==
  ASSUME Base, page \in ListPageNames, NEW template, Modals(template)
  PROVE  /\ UNCHANGED <<page, db, calls, inputs, marks, others, meant>>
         /\ DOMAIN ui' = DOMAIN ui
         /\ ui'.loading = ui.loading /\ ui'.busy = ui.busy
         /\ ui'.shown = ui.shown /\ ui'.secret = ui.secret
<1>1. DOMAIN ui = {"loading", "busy", "open", "sel", "form", "draft", "shown", "secret"}
  BY ListUi
<1>2. CASE template.add /\ Type([ui EXCEPT !.open = @ \cup {"create"}])
  BY <1>1, <1>2 DEF Type
<1>3. CASE \E r \in Rows, v \in IF page = "applications" THEN RowVals(page) ELSE Typed :
             Type([ui EXCEPT !.form = [name |-> r, val |-> v]])
  BY <1>1, <1>3 DEF Type
<1>4. CASE \E v \in IF page = "users" THEN SUBSET (RoleNames \cup {"unknown"}) ELSE Typed :
             Type([ui EXCEPT !.draft = v])
  BY <1>1, <1>4 DEF Type
<1>5. CASE \E m \in ui.open \ {"secret"} : Type(Closed(m))
  BY <1>1, <1>5 DEF Type, Closed
<1> QED BY <1>2, <1>3, <1>4, <1>5 DEF Modals

LEMMA ModalsEffect ==
  ASSUME Base, page \in ListPageNames, NEW template, Modals(template)
  PROVE  Effect
BY ModalsRest, SameEffect DEF Becomes, Busy, Base, UiFits, Bounded

LEMMA ServeListEffect ==
  ASSUME Base, ServeList \/ ServeAssignInList \/ OtherInList
  PROVE  Effect
<1>1. CASE ServeList
  <2>1. PICK c \in calls : (\E pre, d, r : Reply(c, pre, d, r)) \/ (c.op = "create" /\ Create(c))
    BY <1>1, Zenon DEF ServeList
  <2> QED BY <2>1, ReplyEffect, CreateEffect
<1>2. CASE ServeAssignInList
  BY <1>2, RolesDeletedEffect, RoleInsertedEffect DEF ServeAssignInList, Sending, Halfway
<1>3. CASE OtherInList
  BY <1>3, ElsewhereEffect DEF OtherInList
<1> QED BY <1>1, <1>2, <1>3

LEMMA OpenEditEffect ==
  ASSUME Base, page \in ListPageNames, NEW r, NEW v, OpenEdit(r, v)
  PROVE  Effect
<1> DEFINE u == [ui EXCEPT !.sel = r, !.draft = v, !.open = @ \cup {"edit"}]
<1>1. Becomes(u, ui.loading, Busy(ui))
  BY ListUi DEF Becomes, Busy
<1> HIDE DEF u
<1> QED BY <1>1, TypeEffect DEF OpenEdit, u

LEMMA ClosedFields ==
  ASSUME Base, page \in ListPageNames, NEW m
  PROVE  /\ DOMAIN Closed(m) = DOMAIN ui /\ Closed(m).busy = ui.busy
         /\ Closed(m).shown = ui.shown /\ Closed(m).secret = ui.secret
BY ListUi DEF Closed

LEMMA RolePageEffect ==
  ASSUME Base, page = "roles",
         \/ FetchRoles \/ CreateRole \/ OpenEditRole \/ UpdateRole \/ DeleteRole
  PROVE  Effect
<1>1. page \in ListPageNames
  BY DEF ListPageNames
<1>2. CASE FetchRoles
  BY <1>1, <1>2, FetchedEffect DEF FetchRoles, Loaders
<1>3. CASE CreateRole
  <2>1. CASE RolesTemplate.create /\ Start("saving", "createRole", "create", ui.form)
    BY <2>1, StartEffect DEF RolesTemplate, ModalTable, Free, Fits, Asks, FlagFits
  <2>2. CASE ThenFetch("createRole", [ui EXCEPT !.open = @ \ {"create"}, !.form = NoForm])
    BY <1>1, <2>2, ThenFetchEffect, ListUi DEF Loaders
  <2> QED BY <1>3, <2>1, <2>2 DEF CreateRole
<1>4. CASE OpenEditRole
  BY <1>1, <1>4, OpenEditEffect DEF OpenEditRole
<1>5. CASE UpdateRole
  <2>1. CASE RolesTemplate.save /\ Start("saving", "updateRole", "update", Edited)
    BY <2>1, StartEffect DEF RolesTemplate, ModalTable, Free, Fits, Asks, FlagFits
  <2>2. CASE ThenFetch("updateRole", Closed("edit"))
    BY <1>1, <2>2, ThenFetchEffect, ClosedFields DEF Loaders
  <2> QED BY <1>5, <2>1, <2>2 DEF UpdateRole
<1>6. CASE DeleteRole
  <2>1. CASE \E r \in RolesTemplate.delete : Start("none", "deleteRole", "remove", r)
    BY <2>1, StartEffect DEF Lone, Fits, Asks, FlagFits
  <2>2. CASE ThenFetch("deleteRole", ui)
    BY <1>1, <2>2, ThenFetchEffect DEF Loaders
  <2> QED BY <1>6, <2>1, <2>2 DEF DeleteRole
<1> QED BY <1>2, <1>3, <1>4, <1>5, <1>6

LEMMA ScopePageEffect ==
  ASSUME Base, page = "scopes",
         \/ FetchScopes \/ CreateScope \/ OpenEditScope \/ UpdateScope \/ DeleteScope
  PROVE  Effect
<1>1. page \in ListPageNames
  BY DEF ListPageNames
<1>2. CASE FetchScopes
  BY <1>1, <1>2, FetchedEffect DEF FetchScopes, Loaders
<1>3. CASE CreateScope
  <2>1. CASE ScopesTemplate.create /\ Start("saving", "createScope", "create", ui.form)
    BY <2>1, StartEffect DEF ScopesTemplate, ModalTable, Free, Fits, Asks, FlagFits
  <2>2. CASE ThenFetch("createScope", [ui EXCEPT !.open = @ \ {"create"}, !.form = NoForm])
    BY <1>1, <2>2, ThenFetchEffect, ListUi DEF Loaders
  <2> QED BY <1>3, <2>1, <2>2 DEF CreateScope
<1>4. CASE OpenEditScope
  BY <1>1, <1>4, OpenEditEffect DEF OpenEditScope
<1>5. CASE UpdateScope
  <2>1. CASE ScopesTemplate.save /\ Start("saving", "updateScope", "update", Edited)
    BY <2>1, StartEffect DEF ScopesTemplate, ModalTable, Free, Fits, Asks, FlagFits
  <2>2. CASE ThenFetch("updateScope", Closed("edit"))
    BY <1>1, <2>2, ThenFetchEffect, ClosedFields DEF Loaders
  <2> QED BY <1>5, <2>1, <2>2 DEF UpdateScope
<1>6. CASE DeleteScope
  <2>1. CASE \E r \in ScopesTemplate.delete : Start("none", "deleteScope", "remove", r)
    BY <2>1, StartEffect DEF Lone, Fits, Asks, FlagFits
  <2>2. CASE ThenFetch("deleteScope", ui)
    BY <1>1, <2>2, ThenFetchEffect DEF Loaders
  <2> QED BY <1>6, <2>1, <2>2 DEF DeleteScope
<1> QED BY <1>2, <1>3, <1>4, <1>5, <1>6

LEMMA UsersPageEffect ==
  ASSUME Base, page = "users", FetchUsers \/ OpenRoleModal \/ AssignRoles
  PROVE  Effect
<1>1. page \in ListPageNames
  BY DEF ListPageNames
<1>2. CASE FetchUsers
  BY <1>1, <1>2, FetchedEffect DEF FetchUsers, Loaders
<1>3. CASE OpenRoleModal
  BY <1>1, <1>3, OpenEditEffect DEF OpenRoleModal
<1>4. CASE AssignRoles
  <2>1. CASE UsersTemplate.save /\ Start("saving", "assignRoles", "assign", Edited)
    BY <2>1, StartEffect DEF UsersTemplate, Free, Fits, Asks, FlagFits
  <2>2. CASE ThenFetch("assignRoles", Closed("edit"))
    BY <1>1, <2>2, ThenFetchEffect, ClosedFields DEF Loaders
  <2> QED BY <1>4, <2>1, <2>2 DEF AssignRoles
<1> QED BY <1>2, <1>3, <1>4

LEMMA ShowSecretEffect ==
  ASSUME Base, page = "applications", ShowSecret
  PROVE  Effect
<1>1. PICK c \in Answered("resetSecret") :
        Resume(calls \ {c}, IF c.st = "ok" THEN [ui EXCEPT !.secret = c.res, !.open = @ \cup {"secret"}]
                            ELSE ui)
  BY DEF ShowSecret
<1> DEFINE u == IF c.st = "ok" THEN [ui EXCEPT !.secret = c.res, !.open = @ \cup {"secret"}] ELSE ui
<1>2. c \in calls /\ c.fn = "resetSecret" /\ c.flag = "none"
  BY DEF Answered, Base, CallsFit, IsCall, Fits, Asks, FlagFits
<1>3. Becomes(u, ui.loading /\ c.fn \notin Loaders, Busy(ui) \ {c.flag})
  <2>1. DOMAIN u = DOMAIN ui /\ u.loading = ui.loading /\ u.busy = ui.busy
    BY ListUi DEF ListPageNames
  <2> HIDE DEF u
  <2> QED BY <1>2, <2>1 DEF Becomes, Busy, Loaders, Base, UiFits
<1> HIDE DEF u
<1> QED BY <1>1, <1>2, <1>3, EndEffect DEF u

LEMMA ApplicationsPageEffect ==
  ASSUME Base, page = "applications",
         FetchClients \/ CreateClient \/ DeleteClient \/ ResetSecret
  PROVE  Effect
<1>1. page \in ListPageNames
  BY DEF ListPageNames
<1>2. CASE FetchClients
  BY <1>1, <1>2, FetchedEffect DEF FetchClients, Loaders
<1>3. CASE CreateClient
  <2>1. CASE ApplicationsTemplate.create /\ Start("creating", "createClient", "create", ui.form)
    BY <2>1, StartEffect DEF ApplicationsTemplate, Free, Fits, Asks, FlagFits
  <2>2. CASE \E c \in Answered("createClient") :
               ThenFetch(c.fn, [ui EXCEPT !.secret = c.res, !.form = NoForm,
                                          !.open = (@ \ {"create"}) \cup {"secret"}])
    BY <1>1, <2>2, ThenFetchEffect, ListUi DEF Answered, Loaders
  <2> QED BY <1>3, <2>1, <2>2 DEF CreateClient
<1>4. CASE DeleteClient
  <2>1. CASE \E r \in ApplicationsTemplate.delete : Start("none", "deleteClient", "remove", r)
    BY <2>1, StartEffect DEF Lone, Fits, Asks, FlagFits
  <2>2. CASE ThenFetch("deleteClient", ui)
    BY <1>1, <2>2, ThenFetchEffect DEF Loaders
  <2> QED BY <1>4, <2>1, <2>2 DEF DeleteClient
<1>5. CASE ResetSecret
  <2>1. CASE \E r \in ApplicationsTemplate.reset : Start("none", "resetSecret", "reset", r)
    BY <2>1, StartEffect DEF Lone, Fits, Asks, FlagFits
  <2>2. CASE ShowSecret
    BY <1>1, <2>2, ShowSecretEffect
  <2>3. CASE CloseSecret
    <3> DEFINE u == [ui EXCEPT !.secret = None, !.open = @ \ {"secret"}]
    <3>1. Becomes(u, ui.loading, Busy(ui))
      BY <1>1, ListUi DEF Becomes, Busy
    <3> HIDE DEF u
    <3> QED BY <2>3, <3>1, TypeEffect DEF CloseSecret, u
  <2> QED BY <1>5, <2>1, <2>2, <2>3 DEF ResetSecret
<1> QED BY <1>2, <1>3, <1>4, <1>5

LEMMA AuthorizedAppsPageEffect ==
  ASSUME Base, page = "authorized-apps", FetchApps \/ RevokeApp
  PROVE  Effect
<1>1. page \in ListPageNames
  BY DEF ListPageNames
<1>2. CASE FetchApps
  BY <1>1, <1>2, FetchedEffect DEF FetchApps, Loaders
<1>3. CASE RevokeApp
  <2>1. CASE \E r \in AuthorizedAppsTemplate.revoke : Start("none", "revokeApp", "remove", r)
    BY <2>1, StartEffect DEF Lone, Fits, Asks, FlagFits
  <2>2. CASE ThenFetch("revokeApp", ui)
    BY <1>1, <2>2, ThenFetchEffect DEF Loaders
  <2> QED BY <1>3, <2>1, <2>2 DEF RevokeApp
<1> QED BY <1>2, <1>3

LEMMA ListPagesEffect ==
  ASSUME Base, ListPagesNext
  PROVE  Effect
<1>1. page \in ListPageNames
  BY DEF ListPagesNext
<1>2. CASE ServeList \/ ServeAssignInList \/ OtherInList
  BY <1>2, ServeListEffect
<1>3. CASE Modals(ModalTable) \/ Modals(UsersTemplate) \/ Modals(ApplicationsTemplate)
  BY <1>1, <1>3, ModalsEffect
<1>4. CASE FetchRoles \/ CreateRole \/ OpenEditRole \/ UpdateRole \/ DeleteRole
  BY <1>4, RolePageEffect
     DEF FetchRoles, CreateRole, OpenEditRole, UpdateRole, DeleteRole, At
<1>5. CASE FetchScopes \/ CreateScope \/ OpenEditScope \/ UpdateScope \/ DeleteScope
  BY <1>5, ScopePageEffect
     DEF FetchScopes, CreateScope, OpenEditScope, UpdateScope, DeleteScope, At
<1>6. CASE FetchUsers \/ OpenRoleModal \/ AssignRoles
  BY <1>6, UsersPageEffect DEF FetchUsers, OpenRoleModal, AssignRoles, At
<1>7. CASE FetchClients \/ CreateClient \/ DeleteClient \/ ResetSecret
  BY <1>7, ApplicationsPageEffect DEF FetchClients, CreateClient, DeleteClient, ResetSecret, At
<1>8. CASE FetchApps \/ RevokeApp
  BY <1>8, AuthorizedAppsPageEffect DEF FetchApps, RevokeApp, At
<1> QED BY <1>2, <1>3, <1>4, <1>5, <1>6, <1>7, <1>8 DEF ListPagesNext
-----------------------------------------------------------------------------
(* The pages that show one thing.                                           *)
LEMMA RecordUi ==
  ASSUME Base, page \in RecordPageNames
  PROVE  /\ DOMAIN ui = {"loading", "busy", "open", "sel", "form", "draft", "shown", "secret"}
         /\ ui.loading \in BOOLEAN /\ "none" \notin ui.busy
BY PlainUi DEF Base, UiFits, RecordPageNames, Fields

LEMMA LoadedFields ==
  ASSUME NEW u, {"draft", "shown"} \subseteq DOMAIN u, NEW r
  PROVE  /\ DOMAIN Loaded(u, r) = DOMAIN u
         /\ \A k \in DOMAIN u \ {"draft", "shown"} : Loaded(u, r)[k] = u[k]
BY DEF Loaded

LEMMA GotRecordEffect ==
  ASSUME Base, page \in RecordPageNames, NEW fn, NEW hides \in BOOLEAN, hides <=> fn \in Loaders,
         GotRecord(fn, hides)
  PROVE  Effect
<1> DEFINE v(c) == IF hides THEN [Drop(ui, c.flag) EXCEPT !.loading = FALSE] ELSE Drop(ui, c.flag)
<1>1. PICK c \in Answered(fn) :
        Resume(calls \ {c}, IF c.st = "ok" THEN Loaded(v(c), c.res) ELSE v(c))
  BY DEF GotRecord
<1>2. c \in calls /\ c.fn = fn
  BY DEF Answered
<1>3. /\ DOMAIN v(c) = DOMAIN ui
      /\ v(c).secret = ui.secret
      /\ v(c).busy = ui.busy \ {c.flag}
      /\ v(c).loading = IF hides THEN FALSE ELSE ui.loading
  <2>1. CASE hides
    <3> DEFINE w == Drop(ui, c.flag)
    <3>1. /\ DOMAIN w = DOMAIN ui /\ {"loading", "busy", "secret"} \subseteq DOMAIN w
          /\ w.secret = ui.secret /\ w.busy = ui.busy \ {c.flag}
      BY RecordUi, DropFields
    <3>2. v(c) = [w EXCEPT !.loading = FALSE]
      BY <2>1
    <3> HIDE DEF w, v
    <3> QED BY <2>1, <3>1, <3>2
  <2>2. CASE ~hides
    BY <2>2, RecordUi, DropFields
  <2> QED BY <2>1, <2>2
<1> HIDE DEF v
<1> DEFINE u == IF c.st = "ok" THEN Loaded(v(c), c.res) ELSE v(c)
<1>4. DOMAIN u = DOMAIN ui /\ u.secret = ui.secret /\ u.busy = v(c).busy /\ u.loading = v(c).loading
  <2>1. {"draft", "shown"} \subseteq DOMAIN v(c) /\ {"busy", "loading", "secret"} \subseteq DOMAIN v(c)
    BY <1>3, RecordUi
  <2>2. /\ DOMAIN Loaded(v(c), c.res) = DOMAIN v(c)
        /\ Loaded(v(c), c.res).busy = v(c).busy /\ Loaded(v(c), c.res).loading = v(c).loading
        /\ Loaded(v(c), c.res).secret = v(c).secret
    BY <2>1, LoadedFields
  <2> QED BY <1>3, <2>2
<1> HIDE DEF u
<1>5. Becomes(u, ui.loading /\ c.fn \notin Loaders, Busy(ui) \ {c.flag})
  <2>1. u.loading \in BOOLEAN /\ (u.loading => ui.loading /\ c.fn \notin Loaders)
    BY <1>2, <1>3, <1>4, RecordUi
  <2> QED BY <1>3, <1>4, <2>1 DEF Becomes, Busy
<1> QED BY <1>1, <1>2, <1>5, EndEffect DEF u

LEMMA ThenGetEffect ==
  ASSUME Base, page \in RecordPageNames, NEW fn, fn \notin Loaders \cup {"setupMfa"},
         NEW get \in {"fetchUser", "fetchClient"}, <<get, "read">> \in Asks(page),
         NEW flag \in {"none", "saving"},
         flag = "saving" => fn \in {"saveInfo", "saveChanges"},
         ThenGet(fn, get, flag)
  PROVE  Effect
<1>1. PICK c \in Answered(fn) :
        IF c.st = "ok"
        THEN Resume(Sent(calls \ {c}, get, "read", Fields[page], flag),
                    [Drop(ui, IF flag = "none" THEN c.flag ELSE "none") EXCEPT !.loading = TRUE])
        ELSE Resume(calls \ {c}, Drop(ui, c.flag))
  BY DEF ThenGet
<1>2. c \in calls /\ c.fn = fn /\ Fits(fn, c.op, c.flag)
  BY DEF Answered, Base, CallsFit, IsCall
<1>3. CASE c.st = "ok"
  <2> DEFINE old == IF flag = "none" THEN c.flag ELSE "none"
             v == [Drop(ui, old) EXCEPT !.loading = TRUE]
  <2>1. Fits(get, "read", flag)
    BY DEF Fits, FlagFits
  <2>2. flag \in {c.flag, "none"} /\ ui.busy \ {old} = ui.busy \ ({c.flag} \ {flag})
    BY <1>2, RecordUi DEF Fits, Asks, FlagFits
  <2>3. DOMAIN v = DOMAIN ui /\ v.secret = ui.secret /\ v.loading = TRUE /\ v.busy = ui.busy \ {old}
    BY RecordUi, DropFields
  <2> HIDE DEF v
  <2>4. Becomes(v, (ui.loading /\ c.fn \notin Loaders) \/ get \in Loaders,
                Busy(ui) \ ({c.flag} \ {flag}))
    BY <2>2, <2>3 DEF Becomes, Busy, Loaders
  <2>5. Resume(Sent(calls \ {c}, get, "read", Fields[page], flag), v)
    BY <1>1, <1>3 DEF v
  <2> QED BY <1>2, <2>1, <2>2, <2>4, <2>5, FollowEffect
<1>4. CASE c.st # "ok"
  <2>1. Becomes(Drop(ui, c.flag), ui.loading /\ c.fn \notin Loaders, Busy(ui) \ {c.flag})
    BY <1>2, RecordUi, DropFields DEF Becomes, Busy
  <2> QED BY <1>1, <1>2, <1>4, <2>1, EndEffect
<1> QED BY <1>3, <1>4

LEMMA SaveEffect ==
  ASSUME Base, NEW fn \in {"saveInfo", "saveChanges"}, NEW body, NEW unfilled,
         Fits(fn, "put", "saving"), Save(fn, body, unfilled),
         "saving" \notin ui.busy
  PROVE  Effect
<1>1. marks \subseteq marks' /\ marks' \subseteq Marks
  BY DEF Save, Base, Bounded, Marks
<1>2. Becomes(Raise("saving"), ui.loading, Busy(ui) \cup ({"saving"} \ Lone))
  BY RaiseBecomes DEF Base
<1>3. Becomes(Raise("saving"), ui.loading \/ fn \in Loaders, Busy(ui) \cup ({"saving"} \ Lone))
  BY <1>2 DEF Becomes
<1> QED BY <1>1, <1>3, StartsEffect DEF Save

(* An answer after which only the fields of ks change.                      *)
LEMMA QuietEndEffect ==
  ASSUME Base, NEW fn \in {"resetClientSecret", "resendVerification"}, NEW c \in Answered(fn),
         NEW u, Resume(calls \ {c}, u),
         DOMAIN u = DOMAIN ui, page = "application-detail" \/ u.secret = ui.secret,
         u.loading = ui.loading, u.busy = ui.busy
  PROVE  Effect
<1>1. c \in calls /\ c.fn = fn /\ c.flag = "none"
  BY DEF Answered, Base, CallsFit, IsCall, Fits, Asks, FlagFits
<1>2. Becomes(u, ui.loading /\ c.fn \notin Loaders, Busy(ui) \ {c.flag})
  BY <1>1 DEF Becomes, Busy, Loaders, Base, UiFits
<1> QED BY <1>1, <1>2, EndEffect

LEMMA DashboardEffect ==
  ASSUME Base, page \in RecordPageNames, \A c \in calls : c.flag = "none", DashboardLoad
  PROVE  Effect
<1>1. /\ Resume({}, ui')
      /\ DOMAIN ui' = DOMAIN ui /\ ui'.secret = ui.secret /\ ui'.loading = FALSE /\ ui'.busy = ui.busy
  <2>1. CASE Resume({}, [ui EXCEPT !.loading = FALSE, !.shown["health"] = Blank])
    BY <2>1, RecordUi DEF Resume
  <2>2. ASSUME NEW s, Resume({}, [ui EXCEPT !.loading = FALSE, !.shown = s])
        PROVE  /\ Resume({}, ui')
               /\ DOMAIN ui' = DOMAIN ui /\ ui'.secret = ui.secret /\ ui'.loading = FALSE
               /\ ui'.busy = ui.busy
    BY <2>2, RecordUi DEF Resume
  <2> QED BY <2>1, <2>2, Zenon DEF DashboardLoad
<1>2. page' = page /\ Bounded' /\ marks \subseteq marks' /\ calls' = {}
  BY <1>1, ResumeRest
<1>3. AllEnd
  BY <1>1, <1>2 DEF AllEnd, Becomes, Busy
<1> QED BY <1>2, <1>3 DEF Effect

LEMMA ServeRecordEffect ==
  ASSUME Base, ServeRecord \/ EndUpdate \/ ServeAssignInRecord \/ OtherInRecord
  PROVE  Effect
<1>1. CASE ServeRecord
  <2>1. PICK c \in calls : (\E pre, d, r : Reply(c, pre, d, r)) \/ GetClient(c)
    BY <1>1, Zenon DEF ServeRecord, UpdateClientScopes
  <2> QED BY <2>1, ReplyEffect, GetClientEffect
<1>2. CASE ServeAssignInRecord
  BY <1>2, RolesDeletedEffect, RoleInsertedEffect DEF ServeAssignInRecord, Sending, Halfway
<1>3. CASE OtherInRecord
  BY <1>3, ElsewhereEffect DEF OtherInRecord
<1> QED BY <1>1, <1>2, <1>3, EndUpdateEffect

LEMMA UserDetailEffect ==
  ASSUME Base, page = "user-detail",
         FetchUser \/ SaveInfo \/ SaveRoles \/ DisableUser \/ EnableUser
  PROVE  Effect
<1>1. page \in RecordPageNames
  BY DEF RecordPageNames, Fields
<1>2. CASE FetchUser
  BY <1>1, <1>2, GotRecordEffect DEF FetchUser, Loaders
<1>3. CASE SaveInfo
  <2>1. CASE UserTemplate.saveInfo /\ Save("saveInfo", ChangedInfo, ui.shown["email"] = None)
    BY <2>1, SaveEffect DEF UserTemplate, Fits, Asks, FlagFits
  <2>2. CASE ThenGet("saveInfo", "fetchUser", "saving")
    BY <1>1, <2>2, ThenGetEffect DEF Loaders, Asks
  <2> QED BY <1>3, <2>1, <2>2 DEF SaveInfo
<1>4. CASE SaveRoles
  <2>1. CASE /\ UserTemplate.saveRoles
             /\ Start("saving", "saveRoles", "assign", [name |-> "this", val |-> ui.draft["roles"]])
    <3> DEFINE body == [name |-> "this", val |-> ui.draft["roles"]]
    <3>1. "saving" \notin ui.busy /\ Fits("saveRoles", "assign", "saving")
      BY <2>1 DEF UserTemplate, Fits, Asks, FlagFits
    <3> HIDE DEF body
    <3>2. Start("saving", "saveRoles", "assign", body)
      BY <2>1 DEF body
    <3> QED BY <3>1, <3>2, StartEffect
  <2>2. CASE ThenGet("saveRoles", "fetchUser", "none")
    BY <1>1, <2>2, ThenGetEffect DEF Loaders, Asks
  <2> QED BY <1>4, <2>1, <2>2 DEF SaveRoles
<1>5. CASE DisableUser
  <2>1. CASE \E v \in FieldVals("locked") \ {Blank} :
               Start("none", "disableUser", "put", [locked |-> v])
    BY <2>1, StartEffect DEF Lone, Fits, Asks, FlagFits
  <2>2. CASE ThenGet("disableUser", "fetchUser", "none")
    BY <1>1, <2>2, ThenGetEffect DEF Loaders, Asks
  <2> QED BY <1>5, <2>1, <2>2 DEF DisableUser
<1>6. CASE EnableUser
  <2>1. CASE Start("none", "enableUser", "put", [locked |-> Blank])
    BY <2>1, StartEffect DEF Lone, Fits, Asks, FlagFits
  <2>2. CASE ThenGet("enableUser", "fetchUser", "none")
    BY <1>1, <2>2, ThenGetEffect DEF Loaders, Asks
  <2> QED BY <1>6, <2>1, <2>2 DEF EnableUser
<1> QED BY <1>2, <1>3, <1>4, <1>5, <1>6

LEMMA ApplicationDetailEffect ==
  ASSUME Base, page = "application-detail",
         FetchClient \/ SaveChanges \/ SaveScopes \/ ResetClientSecret \/ DismissSecret
  PROVE  Effect
<1>1. page \in RecordPageNames
  BY DEF RecordPageNames, Fields
<1>2. CASE FetchClient
  BY <1>1, <1>2, GotRecordEffect DEF FetchClient, Loaders
<1>3. CASE SaveChanges
  <2>1. CASE ApplicationTemplate.save /\ Save("saveChanges", ChangedClient, ui.shown["uris"] = Odd)
    BY <2>1, SaveEffect DEF ApplicationTemplate, Fits, Asks, FlagFits
  <2>2. CASE ThenGet("saveChanges", "fetchClient", "saving")
    BY <1>1, <2>2, ThenGetEffect DEF Loaders, Asks
  <2> QED BY <1>3, <2>1, <2>2 DEF SaveChanges
<1>4. CASE SaveScopes
  <2>1. CASE /\ ApplicationTemplate.saveScopes
             /\ Start("savingScopes", "saveScopes", "scopes", [scopes |-> ui.draft["scopes"]])
    <3> DEFINE body == [scopes |-> ui.draft["scopes"]]
    <3>1. "savingScopes" \notin ui.busy /\ Fits("saveScopes", "scopes", "savingScopes")
      BY <2>1 DEF ApplicationTemplate, Fits, Asks, FlagFits
    <3> HIDE DEF body
    <3>2. Start("savingScopes", "saveScopes", "scopes", body)
      BY <2>1 DEF body
    <3> QED BY <3>1, <3>2, StartEffect
  <2>2. CASE GotRecord("saveScopes", FALSE)
    BY <1>1, <2>2, GotRecordEffect DEF Loaders
  <2> QED BY <1>4, <2>1, <2>2 DEF SaveScopes
<1>5. CASE ResetClientSecret
  <2>1. CASE Start("none", "resetClientSecret", "reset", "this")
    BY <2>1, StartEffect DEF Lone, Fits, Asks, FlagFits
  <2>2. ASSUME NEW c \in Answered("resetClientSecret"),
               Resume(calls \ {c}, IF c.st = "ok" THEN [ui EXCEPT !.secret = c.res, !.open = {"secret"}]
                                   ELSE ui)
        PROVE  Effect
    <3> DEFINE u == IF c.st = "ok" THEN [ui EXCEPT !.secret = c.res, !.open = {"secret"}] ELSE ui
    <3>1. DOMAIN u = DOMAIN ui /\ u.loading = ui.loading /\ u.busy = ui.busy
      BY <1>1, RecordUi
    <3> HIDE DEF u
    <3> QED BY <2>2, <3>1, QuietEndEffect DEF u
  <2> QED BY <1>5, <2>1, <2>2 DEF ResetClientSecret
<1>6. CASE DismissSecret
  <2> DEFINE u == [ui EXCEPT !.secret = None, !.open = {}]
  <2>1. Becomes(u, ui.loading, Busy(ui))
    BY <1>1, RecordUi DEF Becomes, Busy
  <2> HIDE DEF u
  <2> QED BY <1>6, <2>1, TypeEffect DEF DismissSecret, u
<1> QED BY <1>2, <1>3, <1>4, <1>5, <1>6

LEMMA ShownOnlyEffect ==
  ASSUME Base, page \in RecordPageNames,
         SettingsScopes \/ FetchOidcKeys \/ FetchProfile \/ ResendVerification
  PROVE  Effect
<1>1. CASE SettingsScopes \/ FetchOidcKeys \/ FetchProfile
  BY <1>1, GotRecordEffect DEF SettingsScopes, FetchOidcKeys, FetchProfile, Loaders
<1>2. CASE ResendVerification
  <2>1. CASE Start("none", "resendVerification", "mail", None)
    BY <1>2, <2>1, StartEffect DEF ResendVerification, At, Lone, Fits, Asks, FlagFits
  <2>2. CASE \E c \in Answered("resendVerification") : Resume(calls \ {c}, ui)
    BY <2>2, QuietEndEffect
  <2> QED BY <1>2, <2>1, <2>2 DEF ResendVerification
<1> QED BY <1>1, <1>2

(* What a user types in the form of a record, and which tab is chosen.      *)
LEMMA RecordTypingRest ==
  ASSUME Base, page \in RecordPageNames, RecordTyping
  PROVE  \/ \E t : Type([ui EXCEPT !.sel = t])
         \/ \E k, v : Edit(k, v)
BY DEF RecordTyping

LEMMA RecordTypingEffect ==
  ASSUME Base, page \in RecordPageNames, RecordTyping
  PROVE  Effect
<1>1. ASSUME NEW t, Type([ui EXCEPT !.sel = t])
      PROVE  Effect
  <2> DEFINE u == [ui EXCEPT !.sel = t]
  <2>1. Becomes(u, ui.loading, Busy(ui))
    BY RecordUi DEF Becomes, Busy
  <2> HIDE DEF u
  <2> QED BY <1>1, <2>1, TypeEffect DEF u
<1>2. ASSUME NEW k, NEW v, Edit(k, v)
      PROVE  Effect
  <2> DEFINE u == [ui EXCEPT !.draft[k] = v]
  <2>1. Becomes(u, ui.loading, Busy(ui))
    BY RecordUi DEF Becomes, Busy
  <2> HIDE DEF u
  <2> QED BY <1>2, <2>1, EnterEffect DEF Edit, u
<1> QED BY <1>1, <1>2, RecordTypingRest

LEMMA RecordPagesEffect ==
  ASSUME Base, RecordPagesNext
  PROVE  Effect
<1>1. page \in RecordPageNames
  BY DEF RecordPagesNext
<1>2. CASE ServeRecord \/ EndUpdate \/ ServeAssignInRecord \/ OtherInRecord
  BY <1>2, ServeRecordEffect
<1>3. CASE RecordTyping
  BY <1>1, <1>3, RecordTypingEffect
<1>4. CASE FetchUser \/ SaveInfo \/ SaveRoles \/ DisableUser \/ EnableUser
  BY <1>4, UserDetailEffect DEF FetchUser, SaveInfo, SaveRoles, DisableUser, EnableUser, At
<1>5. CASE FetchClient \/ SaveChanges \/ SaveScopes \/ ResetClientSecret \/ DismissSecret
  BY <1>5, ApplicationDetailEffect
     DEF FetchClient, SaveChanges, SaveScopes, ResetClientSecret, DismissSecret, At
<1>6. CASE SettingsScopes \/ FetchOidcKeys \/ FetchProfile \/ ResendVerification
  BY <1>1, <1>6, ShownOnlyEffect
<1>7. CASE DashboardLoad
  <2>1. \A c \in calls : c.flag = "none"
    BY <1>7 DEF DashboardLoad, At, Base, CallsFit, IsCall, Fits, Asks, FlagFits
  <2> QED BY <1>1, <1>7, <2>1, DashboardEffect
<1> QED BY <1>2, <1>3, <1>4, <1>5, <1>6, <1>7 DEF RecordPagesNext
-----------------------------------------------------------------------------
(* The tokens.                                                              *)
LEMMA TokensUi ==
  ASSUME Base, page = "tokens"
  PROVE  /\ DOMAIN ui = {"loading", "busy", "open", "secret", "shown", "client", "user", "nr",
                         "dialog", "asked"}
         /\ ui.loading \in BOOLEAN /\ ui.busy \cap {"none", "confirm"} = {}
BY DEF Base, UiFits, UiFields

LEMMA SearchingEffect ==
  ASSUME Base, page = "tokens", NEW u, Searching(u), DOMAIN u = DOMAIN ui /\ u.secret = ui.secret,
         u.busy = ui.busy
  PROVE  Effect
<1> DEFINE v == [u EXCEPT !.loading = TRUE]
           body == [client |-> u.client, user |-> u.user, nr |-> u.nr]
<1>1. Becomes(v, ui.loading \/ "fetchTokens" \in Loaders, Busy(ui) \cup ({"none"} \ Lone))
  BY TokensUi DEF Becomes, Busy, Loaders, Lone
<1>2. Fits("fetchTokens", "search", "none")
  BY DEF Fits, Asks, FlagFits
<1>3. Click(Sent(calls, "fetchTokens", "search", body, "none"), v)
  BY DEF Searching, Search
<1> HIDE DEF v, body
<1> QED BY <1>1, <1>2, <1>3, ClickEffect DEF Lone

LEMMA FetchTokensEffect ==
  ASSUME Base, FetchTokens
  PROVE  Effect
<1> DEFINE v(c) == [Ended(ui, c.flag) EXCEPT !.loading = FALSE]
           u(c) == IF c.st = "ok" THEN [v(c) EXCEPT !.shown = c.res, !.asked = c.body] ELSE v(c)
<1>1. PICK c \in Answered("fetchTokens") : Resume(calls \ {c}, u(c))
  BY DEF FetchTokens
<1>2. page = "tokens" /\ c \in calls /\ c.fn = "fetchTokens" /\ c.flag \in {"none", "confirm"}
  BY DEF FetchTokens, At, Answered, Base, CallsFit, IsCall, Fits, Asks, FlagFits
<1>3. DOMAIN v(c) = DOMAIN ui /\ v(c).secret = ui.secret /\ v(c).loading = FALSE /\ v(c).busy = ui.busy
  BY <1>2, TokensUi DEF Ended
<1> HIDE DEF v
<1>4. DOMAIN u(c) = DOMAIN ui /\ u(c).secret = ui.secret /\ u(c).loading = FALSE /\ u(c).busy = ui.busy
  BY <1>2, <1>3, TokensUi
<1> HIDE DEF u
<1>5. Becomes(u(c), ui.loading /\ c.fn \notin Loaders, Busy(ui) \ {c.flag})
  BY <1>2, <1>4, TokensUi DEF Becomes, Busy
<1> QED BY <1>1, <1>2, <1>5, EndEffect

LEMMA RevokedEffect ==
  ASSUME Base, Revoked
  PROVE  Effect
<1>1. PICK c \in Answered("revoke") :
        IF c.st = "ok" THEN Resume(Search(calls \ {c}, ui, "confirm"), [ui EXCEPT !.loading = TRUE])
        ELSE Resume(calls \ {c}, [ui EXCEPT !.dialog = None])
  BY DEF Revoked
<1>2. page = "tokens" /\ c \in calls /\ c.fn = "revoke" /\ c.flag = "confirm"
  BY DEF Revoked, At, Answered, Base, CallsFit, IsCall, Fits, Asks, FlagFits
<1>3. CASE c.st = "ok"
  <2> DEFINE v == [ui EXCEPT !.loading = TRUE]
             body == [client |-> ui.client, user |-> ui.user, nr |-> ui.nr]
  <2>1. Becomes(v, (ui.loading /\ c.fn \notin Loaders) \/ "fetchTokens" \in Loaders,
                Busy(ui) \ ({c.flag} \ {"confirm"}))
    BY <1>2, TokensUi DEF Becomes, Busy, Loaders
  <2>2. Fits("fetchTokens", "search", "confirm")
    BY <1>2 DEF Fits, Asks, FlagFits
  <2>3. Resume(Sent(calls \ {c}, "fetchTokens", "search", body, "confirm"), v)
    BY <1>1, <1>3 DEF Search
  <2> HIDE DEF v, body
  <2> QED BY <1>2, <2>1, <2>2, <2>3, FollowEffect
<1>4. CASE c.st # "ok"
  <2> DEFINE v == [ui EXCEPT !.dialog = None]
  <2>1. Becomes(v, ui.loading /\ c.fn \notin Loaders, Busy(ui) \ {c.flag})
    BY <1>2, TokensUi DEF Becomes, Busy, Loaders
  <2> HIDE DEF v
  <2> QED BY <1>1, <1>2, <1>4, <2>1, EndEffect DEF v
<1> QED BY <1>3, <1>4

(* What the dialog, the menu and the filters change without asking.         *)
LEMMA TokensTypingEffect ==
  ASSUME Base, page = "tokens",
         TypeFilters \/ ShowBulkMenu \/ CancelConfirm \/ RevokeToken \/ RevokeByClient \/ RevokeByUser
  PROVE  Effect
<1>1. ASSUME NEW u, Type(u) \/ Enter(u), DOMAIN u = DOMAIN ui /\ u.secret = ui.secret,
             u.loading = ui.loading, u.busy = ui.busy
      PROVE  Effect
  BY <1>1, TypeEffect, EnterEffect, TokensUi DEF Becomes, Busy
<1>2. CASE TypeFilters
  <2>1. ASSUME NEW k, Enter([ui EXCEPT !.client = k]) \/ Enter([ui EXCEPT !.user = k])
        PROVE  Effect
    <3>1. CASE Enter([ui EXCEPT !.client = k])
      <4> DEFINE u == [ui EXCEPT !.client = k]
      <4>1. DOMAIN u = DOMAIN ui /\ u.secret = ui.secret /\ u.loading = ui.loading /\ u.busy = ui.busy
        BY TokensUi
      <4> HIDE DEF u
      <4> QED BY <1>1, <3>1, <4>1 DEF u
    <3>2. CASE Enter([ui EXCEPT !.user = k])
      <4> DEFINE u == [ui EXCEPT !.user = k]
      <4>1. DOMAIN u = DOMAIN ui /\ u.secret = ui.secret /\ u.loading = ui.loading /\ u.busy = ui.busy
        BY TokensUi
      <4> HIDE DEF u
      <4> QED BY <1>1, <3>2, <4>1 DEF u
    <3> QED BY <2>1, <3>1, <3>2
  <2> QED BY <1>2, <2>1 DEF TypeFilters
<1>3. CASE ShowBulkMenu
  <2> DEFINE u == [ui EXCEPT !.open = IF @ = {} THEN {"menu"} ELSE {}]
  <2>1. DOMAIN u = DOMAIN ui /\ u.secret = ui.secret /\ u.loading = ui.loading /\ u.busy = ui.busy
    BY TokensUi
  <2> HIDE DEF u
  <2> QED BY <1>1, <1>3, <2>1 DEF ShowBulkMenu, u
<1>4. ASSUME NEW u, DOMAIN u = DOMAIN ui /\ u.secret = ui.secret, u.loading = ui.loading,
             u.busy = ui.busy, NEW d,
             Type([u EXCEPT !.dialog = d])
      PROVE  Effect
  <2> DEFINE v == [u EXCEPT !.dialog = d]
  <2>1. DOMAIN v = DOMAIN ui /\ v.secret = ui.secret /\ v.loading = ui.loading /\ v.busy = ui.busy
    BY <1>4, TokensUi
  <2> HIDE DEF v
  <2> QED BY <1>1, <1>4, <2>1 DEF v
<1>5. CASE CancelConfirm \/ RevokeToken \/ RevokeByUser
  BY <1>4, <1>5 DEF CancelConfirm, RevokeToken, RevokeByUser, ShowConfirm
<1>6. CASE RevokeByClient
  <2> DEFINE u == [ui EXCEPT !.open = {}]
  <2>1. DOMAIN u = DOMAIN ui /\ u.secret = ui.secret /\ u.loading = ui.loading /\ u.busy = ui.busy
    BY TokensUi
  <2>2. PICK k : Type([u EXCEPT !.dialog = [by |-> "client", who |-> k]])
    BY <1>6 DEF RevokeByClient, ShowConfirm
  <2> HIDE DEF u
  <2> QED BY <1>4, <2>1, <2>2
<1> QED BY <1>2, <1>3, <1>5, <1>6

LEMMA TokensPageEffect ==
  ASSUME Base, TokensPageNext
  PROVE  Effect
<1>1. CASE page = "tokens" /\ (ServeTokens \/ OtherWithTokens)
  <2>1. CASE ServeTokens
    <3>1. PICK c \in calls :
            (\E pre, d, r : Reply(c, pre, d, r)) \/ (c.op = "revoke" /\ RevokeAll(c))
      BY <2>1, Zenon DEF ServeTokens, RevokeOne
    <3> QED BY <3>1, ReplyEffect, RevokeAllEffect
  <2>2. CASE OtherWithTokens
    BY <2>2, ElsewhereEffect DEF OtherWithTokens
  <2> QED BY <1>1, <2>1, <2>2
<1>2. ASSUME ApplyFilters \/ ClearFilters \/ PreviousPage \/ NextPage
      PROVE  /\ page = "tokens"
             /\ \E u : /\ Searching(u) /\ DOMAIN u = DOMAIN ui
                      /\ u.secret = ui.secret /\ u.busy = ui.busy
  <2>1. page = "tokens"
    BY <1>2 DEF ApplyFilters, ClearFilters, PreviousPage, NextPage, At
  <2>2. CASE ApplyFilters
    <3> DEFINE u == [ui EXCEPT !.nr = 1]
    <3>1. Searching(u) /\ DOMAIN u = DOMAIN ui /\ u.secret = ui.secret /\ u.busy = ui.busy
      BY <2>1, <2>2, TokensUi DEF ApplyFilters
    <3> QED BY <2>1, <3>1
  <2>3. CASE ClearFilters
    <3> DEFINE u == [ui EXCEPT !.client = None, !.user = None, !.nr = 1]
    <3>1. Searching(u) /\ DOMAIN u = DOMAIN ui /\ u.secret = ui.secret /\ u.busy = ui.busy
      BY <2>1, <2>3, TokensUi DEF ClearFilters
    <3> QED BY <2>1, <3>1
  <2>4. CASE PreviousPage
    <3> DEFINE u == [ui EXCEPT !.nr = @ - 1]
    <3>1. Searching(u) /\ DOMAIN u = DOMAIN ui /\ u.secret = ui.secret /\ u.busy = ui.busy
      BY <2>1, <2>4, TokensUi DEF PreviousPage
    <3> QED BY <2>1, <3>1
  <2>5. CASE NextPage
    <3> DEFINE u == [ui EXCEPT !.nr = @ + 1]
    <3>1. Searching(u) /\ DOMAIN u = DOMAIN ui /\ u.secret = ui.secret /\ u.busy = ui.busy
      BY <2>1, <2>5, TokensUi DEF NextPage
    <3> QED BY <2>1, <3>1
  <2> QED BY <1>2, <2>2, <2>3, <2>4, <2>5
<1>3. CASE ExecuteConfirm
  <2>1. /\ page = "tokens"
        /\ Click(Sent(calls, "revoke", "revoke", Action(ui.dialog), "confirm"), ui)
    BY <1>3 DEF ExecuteConfirm, At
  <2>2. Becomes(ui, ui.loading \/ "revoke" \in Loaders, Busy(ui) \cup ({"confirm"} \ Lone))
    BY <2>1, TokensUi DEF Becomes, Busy, Lone
  <2> QED BY <2>1, <2>2, ClickEffect DEF Fits, Asks, FlagFits, Lone
<1>4. CASE TypeFilters \/ ShowBulkMenu \/ CancelConfirm \/ RevokeToken \/ RevokeByClient \/ RevokeByUser
  BY <1>4, TokensTypingEffect
     DEF TypeFilters, ShowBulkMenu, CancelConfirm, RevokeToken, RevokeByClient, RevokeByUser
<1> QED BY <1>1, <1>2, <1>3, <1>4, SearchingEffect, FetchTokensEffect, RevokedEffect DEF TokensPageNext
-----------------------------------------------------------------------------
(* The security page.                                                       *)
LEMMA SecurityUi ==
  ASSUME Base, page = "security"
  PROVE  /\ DOMAIN ui = {"loading", "busy", "open", "secret", "mfa", "setup", "passkeys"}
         /\ ui.loading \in BOOLEAN /\ ui.busy \cap {"none", "confirm"} = {}
BY DEF Base, UiFits, UiFields

LEMMA MfaAnswerEffect ==
  ASSUME Base, NEW c \in calls, c.op \notin {"read", "search"},
         MfaVerifySetup(c) \/ MfaSetup(c) \/ MfaDisable(c)
  PROVE  Effect
<1>1. CASE MfaVerifySetup(c)
  <2>1. CASE Answer(c, "half", None) /\ UNCHANGED <<page, ui, db, inputs, marks, others, meant>>
    BY <2>1, AnswerEffect DEF Base, Bounded
  <2>2. CASE \E pre, d, r : Reply(c, pre, d, r)
    BY <2>2, ReplyEffect
  <2> QED BY <1>1, <2>1, <2>2, Zenon DEF MfaVerifySetup
<1>2. CASE MfaSetup(c)
  <2> DEFINE pre == db.issued # Secrets
  <2>1. \E d, r : Reply(c, pre, d, r)
    BY <1>2, Zenon DEF MfaSetup
  <2> HIDE DEF pre
  <2> QED BY <2>1, ReplyEffect
<1>3. CASE MfaDisable(c)
  BY <1>3, ReplyEffect DEF MfaDisable
<1> QED BY <1>1, <1>2, <1>3

LEMMA ServeSecurityEffect ==
  ASSUME Base, ServeSecurity
  PROVE  Effect
BY MfaAnswerEffect, ReplyEffect DEF ServeSecurity

LEMMA StartMfaEffect ==
  ASSUME Base, NEW flag \in {"settingUpMfa", "disablingMfa"}, NEW fn \in {"setupMfa", "disableMfa"},
         NEW op \in {"setup", "disable"}, NEW early \in BOOLEAN,
         Fits(fn, op, flag), page = "security", StartMfa(flag, fn, op, early),
         flag = "disablingMfa" => flag \notin ui.busy
  PROVE  Effect
<1>1. marks \subseteq marks' /\ marks' \subseteq Marks
  BY DEF StartMfa, Base, Bounded, Marks
<1>2. Becomes(Raise(flag), ui.loading, Busy(ui) \cup ({flag} \ Lone))
  BY RaiseBecomes DEF Base
<1>3. Becomes(ui', ui.loading \/ fn \in Loaders, Busy(ui) \cup ({flag} \ Lone))
  BY <1>2 DEF Becomes, StartMfa
<1>4. calls' = Sent(calls, fn, op, None, flag)
  BY DEF StartMfa
<1> QED BY <1>1, <1>3, <1>4, StartsEffect DEF StartMfa, Lone

(* A function of the security page goes on, asking for nothing more ...     *)
LEMMA SecurityEndEffect ==
  ASSUME Base, page = "security", NEW c \in calls, NEW u, Resume(calls \ {c}, u),
         DOMAIN u = DOMAIN ui /\ u.secret = ui.secret, u.loading \in BOOLEAN, u.loading => ui.loading,
         c.fn \in Loaders => ~u.loading,
         u.busy \in {ui.busy \ {c.flag}, ui.busy \ {"settingUpMfa"}, ui.busy},
         u.busy # ui.busy \ {c.flag} => c.flag \in {"none", "settingUpMfa"}
  PROVE  Effect
<1>1. Becomes(u, ui.loading /\ c.fn \notin Loaders, Busy(ui) \ {c.flag})
  BY SecurityUi DEF Becomes, Busy
<1> QED BY <1>1, EndEffect

(* ... or for the profile, the passkeys or the next step of a registration. *)
LEMMA SecurityFollowEffect ==
  ASSUME Base, page = "security", NEW c \in calls, NEW fn, NEW op, NEW body,
         NEW flag \in {c.flag, "none"}, Fits(fn, op, flag), NEW u,
         Resume(Sent(calls \ {c}, fn, op, body, flag), u),
         DOMAIN u = DOMAIN ui /\ u.secret = ui.secret, u.loading \in BOOLEAN,
         u.loading => \/ ui.loading /\ c.fn \notin Loaders
                      \/ fn \in Loaders,
         Busy(u) = Busy(ui) \ ({c.flag} \ {flag})
  PROVE  Effect
<1>1. Becomes(u, (ui.loading /\ c.fn \notin Loaders) \/ fn \in Loaders,
              Busy(ui) \ ({c.flag} \ {flag}))
  BY DEF Becomes
<1> QED BY <1>1, FollowEffect

LEMMA SecurityProfileEffect ==
  ASSUME Base, page = "security", FetchSecurityProfile
  PROVE  Effect
<1> DEFINE v(c) == [Drop(ui, c.flag) EXCEPT !.loading = FALSE]
           w(c) == [v(c) EXCEPT !.mfa = c.res.enabled]
<1>1. PICK c \in Answered("fetchProfile") :
        IF c.st = "ok" THEN Resume(Passkeys(calls \ {c}, "none"), w(c)) ELSE Resume(calls \ {c}, v(c))
  BY DEF FetchSecurityProfile
<1>2. c \in calls /\ c.fn = "fetchProfile"
  BY DEF Answered
<1>3. /\ DOMAIN v(c) = DOMAIN ui /\ v(c).secret = ui.secret /\ v(c).loading = FALSE
      /\ v(c).busy = ui.busy \ {c.flag}
  BY SecurityUi, DropFields
<1> HIDE DEF v
<1>4. /\ DOMAIN w(c) = DOMAIN ui /\ w(c).secret = ui.secret /\ w(c).loading = FALSE
      /\ w(c).busy = ui.busy \ {c.flag}
  BY <1>3, SecurityUi
<1> HIDE DEF w
<1>5. CASE c.st = "ok"
  <2>1. Resume(Sent(calls \ {c}, "fetchWebauthnCredentials", "read", {"passkeys"}, "none"), w(c))
    BY <1>1, <1>5 DEF Passkeys
  <2>2. Busy(w(c)) = Busy(ui) \ ({c.flag} \ {"none"})
    BY <1>4, SecurityUi DEF Busy
  <2>3. Fits("fetchWebauthnCredentials", "read", "none")
    BY DEF Fits, Asks, FlagFits
  <2> QED BY <1>2, <1>4, <2>1, <2>2, <2>3, SecurityFollowEffect
<1>6. CASE c.st # "ok"
  BY <1>1, <1>2, <1>3, <1>6, SecurityEndEffect
<1> QED BY <1>5, <1>6

LEMMA ChangePasswordEffect ==
  ASSUME Base, page = "security", ChangePassword
  PROVE  Effect
<1>1. CASE /\ SecurityTemplate.password
           /\ Start("changingPassword", "changePassword", "password", None)
  BY <1>1, StartEffect DEF SecurityTemplate, Fits, Asks, FlagFits
<1>2. ASSUME NEW c \in Answered("changePassword"), Resume(calls \ {c}, Drop(ui, c.flag))
      PROVE  Effect
  BY <1>2, SecurityEndEffect, SecurityUi, DropFields DEF Answered, Loaders
<1> QED BY <1>1, <1>2 DEF ChangePassword

LEMMA SetupMfaEffect ==
  ASSUME Base, page = "security", SetupMfa
  PROVE  Effect
<1>1. CASE StartMfa("settingUpMfa", "setupMfa", "setup", Unheard \/ ui.mfa = None)
  <2> DEFINE early == Unheard \/ ui.mfa = None
  <2>1. Fits("setupMfa", "setup", "settingUpMfa") /\ early \in BOOLEAN
    BY DEF Fits, Asks, FlagFits
  <2> HIDE DEF early
  <2>2. StartMfa("settingUpMfa", "setupMfa", "setup", early)
    BY <1>1 DEF early
  <2> QED BY <2>1, <2>2, StartMfaEffect
<1>2. ASSUME NEW c \in Answered("setupMfa"),
             Resume(calls \ {c}, IF c.st = "ok" THEN [ui EXCEPT !.setup = c.res] ELSE Drop(ui, c.flag))
      PROVE  Effect
  <2> DEFINE u == IF c.st = "ok" THEN [ui EXCEPT !.setup = c.res] ELSE Drop(ui, c.flag)
  <2>1. c \in calls /\ c.fn = "setupMfa" /\ c.flag = "settingUpMfa"
    BY <1>2 DEF Answered, Base, CallsFit, IsCall, Fits, Asks, FlagFits
  <2>2. /\ DOMAIN u = DOMAIN ui /\ u.secret = ui.secret /\ u.loading = ui.loading
        /\ u.busy \in {ui.busy, ui.busy \ {c.flag}}
    BY SecurityUi, DropFields
  <2> HIDE DEF u
  <2>3. Resume(calls \ {c}, u)
    BY <1>2 DEF u
  <2> QED BY <2>1, <2>2, <2>3, SecurityUi, SecurityEndEffect DEF Loaders
<1> QED BY <1>1, <1>2 DEF SetupMfa

LEMMA VerifyMfaSetupEffect ==
  ASSUME Base, page = "security", VerifyMfaSetup
  PROVE  Effect
<1>1. ASSUME NEW code, Start("none", "verifyMfaSetup", "verify", code)
      PROVE  Effect
  BY <1>1, StartEffect DEF Lone, Fits, Asks, FlagFits
<1> DEFINE u == [Drop(ui, "settingUpMfa") EXCEPT !.setup = None]
<1>2. /\ DOMAIN u = DOMAIN ui /\ u.secret = ui.secret /\ u.loading = ui.loading
      /\ u.busy = ui.busy \ {"settingUpMfa"}
  BY SecurityUi, DropFields
<1> HIDE DEF u
<1>3. ASSUME NEW c \in Answered("verifyMfaSetup"), Resume(Profile(calls \ {c}, "none"), u)
      PROVE  Effect
  <2>1. c \in calls /\ c.fn = "verifyMfaSetup" /\ c.flag = "none"
    BY <1>3 DEF Answered, Base, CallsFit, IsCall, Fits, Asks, FlagFits
  <2>2. Resume(Sent(calls \ {c}, "fetchProfile", "read", {"mfa"}, "none"), u)
    BY <1>3 DEF Profile
  <2>3. Busy(u) = Busy(ui) \ ({c.flag} \ {"none"})
    BY <1>2, <2>1 DEF Busy
  <2>4. "fetchProfile" \in Loaders /\ Fits("fetchProfile", "read", "none")
    BY DEF Loaders, Fits, Asks, FlagFits
  <2> QED BY <1>2, <2>1, <2>2, <2>3, <2>4, SecurityUi, SecurityFollowEffect
<1>4. ASSUME NEW c \in Answered("verifyMfaSetup"), Resume(calls \ {c}, ui)
      PROVE  Effect
  <2>1. c \in calls /\ c.fn = "verifyMfaSetup" /\ c.flag = "none"
    BY <1>4 DEF Answered, Base, CallsFit, IsCall, Fits, Asks, FlagFits
  <2> QED BY <1>4, <2>1, SecurityUi, SecurityEndEffect DEF Loaders
<1> QED BY <1>1, <1>3, <1>4 DEF VerifyMfaSetup, u

LEMMA CancelMfaSetupEffect ==
  ASSUME Base, page = "security", CancelMfaSetup
  PROVE  Effect
<1> DEFINE u == [Drop(ui, "settingUpMfa") EXCEPT !.setup = None]
<1>1. Becomes(u, ui.loading, Busy(ui))
  BY SecurityUi, DropFields DEF Becomes, Busy
<1> HIDE DEF u
<1> QED BY <1>1, TypeEffect DEF CancelMfaSetup, u

LEMMA DisableMfaEffect ==
  ASSUME Base, page = "security", DisableMfa
  PROVE  Effect
<1>1. CASE /\ SecurityTemplate.disable
           /\ StartMfa("disablingMfa", "disableMfa", "disable", Checking)
  <2>1. Checking \in BOOLEAN /\ "disablingMfa" \notin ui.busy /\ Fits("disableMfa", "disable", "disablingMfa")
    BY <1>1 DEF Checking, SecurityTemplate, Fits, Asks, FlagFits
  <2> QED BY <1>1, <2>1, StartMfaEffect
<1>2. ASSUME NEW c \in Answered("disableMfa"),
             IF c.st = "ok" THEN Resume(Profile(calls \ {c}, c.flag), ui)
             ELSE Resume(calls \ {c}, Drop(ui, c.flag))
      PROVE  Effect
  <2>1. c \in calls /\ c.fn = "disableMfa" /\ c.flag # "settingUpMfa"
    BY <1>2 DEF Answered, Base, CallsFit, IsCall, Fits, Asks, FlagFits
  <2>2. CASE c.st = "ok"
    <3>1. Resume(Sent(calls \ {c}, "fetchProfile", "read", {"mfa"}, c.flag), ui)
      BY <1>2, <2>2 DEF Profile
    <3>2. /\ Busy(ui) = Busy(ui) \ ({c.flag} \ {c.flag})
          /\ Fits("fetchProfile", "read", c.flag)
      BY <2>1 DEF Fits, Asks, FlagFits
    <3> QED BY <2>1, <3>1, <3>2, SecurityUi, SecurityFollowEffect DEF Loaders
  <2>3. CASE c.st # "ok"
    BY <1>2, <2>1, <2>3, SecurityUi, DropFields, SecurityEndEffect DEF Loaders
  <2> QED BY <2>2, <2>3
<1> QED BY <1>1, <1>2 DEF DisableMfa

LEMMA WebauthnCredentialsEffect ==
  ASSUME Base, page = "security", FetchWebauthnCredentials
  PROVE  Effect
<1> DEFINE u(c) == [Drop(ui, c.flag) EXCEPT !.passkeys = IF c.st = "ok" THEN c.res.passkeys ELSE @]
<1>1. PICK c \in Answered("fetchWebauthnCredentials") : Resume(calls \ {c}, u(c))
  BY DEF FetchWebauthnCredentials
<1>2. c \in calls /\ c.fn = "fetchWebauthnCredentials"
  BY DEF Answered
<1>3. /\ DOMAIN u(c) = DOMAIN ui /\ u(c).secret = ui.secret /\ u(c).loading = ui.loading
      /\ u(c).busy = ui.busy \ {c.flag}
  BY SecurityUi, DropFields
<1> HIDE DEF u
<1> QED BY <1>1, <1>2, <1>3, SecurityUi, SecurityEndEffect DEF Loaders

LEMMA RegisterPasskeyEffect ==
  ASSUME Base, page = "security", RegisterPasskey
  PROVE  Effect
<1>1. CASE SecurityTemplate.passkey /\ Start("registeringPasskey", "registerPasskey", "begin", None)
  BY <1>1, StartEffect DEF SecurityTemplate, Fits, Asks, FlagFits
<1>2. ASSUME NEW c \in Answered("registerPasskey"),
             \/ Resume(calls \ {c}, Drop(ui, c.flag))
             \/ Resume(Sent(calls \ {c}, c.fn, "prompt", None, c.flag), ui)
             \/ Resume(Sent(calls \ {c}, c.fn, "finish", None, c.flag), ui)
             \/ Resume(Passkeys(calls \ {c}, c.flag), ui)
      PROVE  Effect
  <2>1. c \in calls /\ c.fn = "registerPasskey" /\ c.flag # "settingUpMfa"
    BY <1>2 DEF Answered, Base, CallsFit, IsCall, Fits, Asks, FlagFits
  <2>2. CASE Resume(calls \ {c}, Drop(ui, c.flag))
    BY <2>1, <2>2, SecurityUi, DropFields, SecurityEndEffect DEF Loaders
  <2>3. ASSUME NEW fn \in {"registerPasskey", "fetchWebauthnCredentials"}, NEW op, NEW body,
               <<fn, op>> \in Asks(page),
               Resume(Sent(calls \ {c}, fn, op, body, c.flag), ui)
        PROVE  Effect
    <3>1. Busy(ui) = Busy(ui) \ ({c.flag} \ {c.flag}) /\ Fits(fn, op, c.flag)
      BY <2>1, <2>3 DEF Fits, FlagFits
    <3> QED BY <2>1, <2>3, <3>1, SecurityUi, SecurityFollowEffect DEF Loaders
  <2> QED BY <1>2, <2>1, <2>2, <2>3 DEF Passkeys, Asks
<1>3. CASE \E c \in Answered("registerPasskey") :
             \/ Resume(calls \ {c}, Drop(ui, c.flag))
             \/ Resume(Sent(calls \ {c}, c.fn, "prompt", None, c.flag), ui)
             \/ Resume(Sent(calls \ {c}, c.fn, "finish", None, c.flag), ui)
             \/ Resume(Passkeys(calls \ {c}, c.flag), ui)
  BY <1>2, <1>3
<1> QED BY <1>1, <1>3, Zenon DEF RegisterPasskey

LEMMA SecurityPageEffect ==
  ASSUME Base, SecurityPageNext
  PROVE  Effect
<1>1. page = "security"
  BY DEF SecurityPageNext, FetchSecurityProfile, ChangePassword, SetupMfa, VerifyMfaSetup,
         CancelMfaSetup, DisableMfa, FetchWebauthnCredentials, RegisterPasskey, At
<1> QED BY <1>1, ServeSecurityEffect, SecurityProfileEffect, ChangePasswordEffect, SetupMfaEffect,
           VerifyMfaSetupEffect, CancelMfaSetupEffect, DisableMfaEffect, WebauthnCredentialsEffect,
           RegisterPasskeyEffect
        DEF SecurityPageNext

-----------------------------------------------------------------------------
(* The pages that submit a form.                                            *)
LEMMA FormsUi ==
  ASSUME Base, page \in FormPageNames
  PROVE  /\ DOMAIN ui = {"loading", "busy", "open", "sel", "form", "draft", "shown", "secret"}
         /\ ui.loading \in BOOLEAN
BY PlainUi DEF Base, UiFits, FormPageNames

LEMMA SubmitEffect ==
  ASSUME Base, NEW fn \in {"handleRegister", "handleSubmit", "handleReset", "handleVerify", "approve",
                           "deny"},
         <<fn, "submit">> \in Asks(page), "loading" \notin ui.busy, Start("loading", fn, "submit", None)
  PROVE  Effect
BY StartEffect DEF Fits, FlagFits

LEMMA SubmittedEffect ==
  ASSUME Base, page \in FormPageNames,
         NEW fn \in {"handleRegister", "handleSubmit", "handleReset", "handleVerify", "approve", "deny"},
         NEW good, NEW bad, Submitted(fn, good, bad)
  PROVE  Effect
<1> DEFINE u(c) == [Drop(ui, c.flag) EXCEPT !.sel = IF c.st = "ok" THEN good ELSE bad]
<1>1. PICK c \in Answered(fn) : Resume(calls \ {c}, u(c))
  BY DEF Submitted
<1>2. c \in calls /\ c.fn = fn /\ c.fn \notin Loaders
  BY DEF Answered, Loaders
<1>3. /\ DOMAIN u(c) = DOMAIN ui /\ u(c).secret = ui.secret /\ u(c).loading = ui.loading
      /\ u(c).busy = ui.busy \ {c.flag}
  BY FormsUi, DropFields
<1> HIDE DEF u
<1>4. Becomes(u(c), ui.loading /\ c.fn \notin Loaders, Busy(ui) \ {c.flag})
  BY <1>2, <1>3, FormsUi DEF Becomes, Busy
<1> QED BY <1>1, <1>2, <1>4, EndEffect

LEMMA FormPagesEffect ==
  ASSUME Base, FormPagesNext
  PROVE  Effect
<1>1. page \in FormPageNames
  BY DEF FormPagesNext
<1>2. CASE ServeForm
  BY <1>2, ReplyEffect DEF ServeForm
<1>3. CASE HandleRegister \/ HandleSubmit \/ HandleReset \/ HandleVerify
  BY <1>1, <1>3, SubmitEffect, SubmittedEffect
     DEF HandleRegister, HandleSubmit, HandleReset, HandleVerify, Submit, FormOffered, At, Asks
<1>4. CASE VerifyEmail
  <2> DEFINE u(c) == [ui EXCEPT !.loading = FALSE, !.sel = IF c.st = "ok" THEN "done" ELSE "error"]
  <2>1. PICK c \in Answered("verifyEmail") : Resume(calls \ {c}, u(c))
    BY <1>4 DEF VerifyEmail
  <2>2. c \in calls /\ c.fn = "verifyEmail" /\ c.flag = "none"
    BY DEF Answered, Base, CallsFit, IsCall, Fits, Asks, FlagFits
  <2>3. DOMAIN u(c) = DOMAIN ui /\ u(c).secret = ui.secret /\ u(c).loading = FALSE /\ u(c).busy = ui.busy
    BY <1>1, FormsUi
  <2> HIDE DEF u
  <2>4. Becomes(u(c), ui.loading /\ c.fn \notin Loaders, Busy(ui) \ {c.flag})
    BY <2>2, <2>3 DEF Becomes, Busy, Base, UiFits
  <2> QED BY <2>1, <2>2, <2>4, EndEffect
<1>5. CASE TryAgain
  <2> DEFINE u == [ui EXCEPT !.sel = "form"]
  <2>1. Becomes(u, ui.loading, Busy(ui))
    BY <1>1, FormsUi DEF Becomes, Busy
  <2> HIDE DEF u
  <2> QED BY <1>5, <2>1, TypeEffect DEF TryAgain, u
<1>6. CASE HandleConsent
  BY <1>1, <1>6, SubmitEffect, SubmittedEffect DEF HandleConsent, At, Asks
<1> QED BY <1>2, <1>3, <1>4, <1>5, <1>6 DEF FormPagesNext

(* Every step of every page.                                                *)
LEMMA NextEffect ==
  ASSUME Base, Next
  PROVE  Effect
BY ListPagesEffect, RecordPagesEffect, TokensPageEffect, SecurityPageEffect, FormPagesEffect DEF Next
-----------------------------------------------------------------------------
(* What every step keeps: the shape of requests and component, ...          *)
LEMMA EffectCalls ==
  ASSUME Base, Effect
  PROVE  CallsFit'
<1>1. /\ IsFiniteSet(calls) /\ Cardinality(calls) <= MaxCalls /\ Cardinality(calls) \in Nat
      /\ MaxCalls \in Nat
      /\ \A c \in calls : IsCall(c)
      /\ \A c, d \in calls : c.id = d.id => c = d
      /\ page' = page
  BY FS_CardinalityType, WebPageAssumption DEF Base, CallsFit, Effect
<1>2. ASSUME NEW c \in calls
      PROVE  IsFiniteSet(calls \ {c}) /\ Cardinality(calls \ {c}) = Cardinality(calls) - 1
  BY <1>1, FS_RemoveElement
<1>3. CASE Stays
  BY <1>1, <1>3 DEF Stays, CallsFit, IsCall, CallFields, Fits, FlagFits
<1>4. CASE Starts
  <2>1. PICK d : New(d, calls) /\ calls' = calls \cup {d} /\ Cardinality(calls') <= MaxCalls
    BY <1>4 DEF Starts
  <2>2. IsFiniteSet(calls')
    BY <1>1, <2>1, FS_AddElement
  <2>3. \A c \in calls' : IsCall(c)
    BY <1>1, <2>1 DEF New
  <2>4. \A c, e \in calls' : c.id = e.id => c = e
    BY <1>1, <2>1 DEF New
  <2> QED BY <1>1, <2>1, <2>2, <2>3, <2>4 DEF CallsFit, IsCall, CallFields, Fits, FlagFits
<1>5. ASSUME NEW c \in calls, NEW d, calls' = (calls \ {c}) \cup {d}, IsCall(d),
             \A e \in calls \ {c} : e.id # d.id
      PROVE  CallsFit'
  <2>1. IsFiniteSet(calls') /\ Cardinality(calls') <= MaxCalls
    <3> DEFINE rest == calls \ {c}
    <3>1. IsFiniteSet(rest) /\ Cardinality(rest) = Cardinality(calls) - 1
      BY <1>2
    <3>2. /\ IsFiniteSet(rest \cup {d})
          /\ Cardinality(rest \cup {d}) \in {Cardinality(rest), Cardinality(rest) + 1}
      BY <3>1, FS_AddElement
    <3> HIDE DEF rest
    <3>3. calls' = rest \cup {d}
      BY <1>5 DEF rest
    <3> QED BY <1>1, <3>1, <3>2, <3>3
  <2>2. \A e \in calls' : IsCall(e)
    BY <1>1, <1>5
  <2>3. \A e, f \in calls' : e.id = f.id => e = f
    BY <1>1, <1>5
  <2> QED BY <1>1, <2>1, <2>2, <2>3 DEF CallsFit, IsCall, CallFields, Fits, FlagFits
<1>6. CASE IsAnswered
  <2>1. PICK c \in calls : \E d : Answers(d, c) /\ calls' = (calls \ {c}) \cup {d}
    BY <1>6 DEF IsAnswered
  <2>2. PICK d : Answers(d, c) /\ calls' = (calls \ {c}) \cup {d}
    BY <2>1
  <2>3. IsCall(d) /\ \A e \in calls \ {c} : e.id # d.id
    BY <1>1, <2>2 DEF Answers
  <2> QED BY <1>5, <2>2, <2>3
<1>7. CASE Ends
  <2>1. PICK c \in calls : calls' = calls \ {c}
    BY <1>7 DEF Ends
  <2> QED BY <1>1, <1>2, <2>1 DEF CallsFit, IsCall, CallFields, Fits, FlagFits
<1>8. CASE Follows
  <2>1. PICK c \in calls : \E d : New(d, calls \ {c}) /\ calls' = (calls \ {c}) \cup {d}
    BY <1>8 DEF Follows
  <2>2. PICK d : New(d, calls \ {c}) /\ calls' = (calls \ {c}) \cup {d}
    BY <2>1
  <2>3. IsCall(d) /\ \A e \in calls \ {c} : e.id # d.id
    BY <2>2 DEF New
  <2> QED BY <1>5, <2>2, <2>3
<1>9. CASE AllEnd
  <2>1. IsFiniteSet({}) /\ Cardinality({}) = 0
    BY FS_EmptySet
  <2> QED BY <1>1, <1>9, <2>1 DEF AllEnd, CallsFit
<1> QED BY <1>3, <1>4, <1>6, <1>7, <1>8, <1>9 DEF Effect

LEMMA EffectUi ==
  ASSUME Base, Effect
  PROVE  UiFits'
<1>1. /\ DOMAIN ui' = DOMAIN ui /\ ui'.loading \in BOOLEAN
      /\ "settingUpMfa" \in ui'.busy => "settingUpMfa" \in ui.busy \/ page = "security"
      /\ Busy(ui') \cap {"none", "confirm"} = {}
  <2>1. Busy(ui) \cap {"none", "confirm"} = {}
    BY DEF Base, UiFits, Busy
  <2>2. CASE Stays
    BY <2>1, <2>2 DEF Stays, Becomes
  <2>3. CASE Starts
    BY <2>1, <2>3 DEF Starts, Becomes, Lone
  <2>4. CASE IsAnswered
    BY <2>1, <2>4 DEF IsAnswered, Base, UiFits
  <2>5. CASE Ends
    BY <2>1, <2>5 DEF Ends, Becomes
  <2>6. CASE Follows
    BY <2>1, <2>6 DEF Follows, Becomes
  <2>7. CASE AllEnd
    BY <2>1, <2>7 DEF AllEnd, Becomes
  <2> QED BY <2>2, <2>3, <2>4, <2>5, <2>6, <2>7 DEF Effect
<1>2. page' = page
  BY DEF Effect
<1>3. UiFields' = UiFields
  BY <1>2 DEF UiFields
<1> QED BY <1>1, <1>2, <1>3 DEF UiFits, Base, Busy

LEMMA EffectBase ==
  ASSUME Base, Effect
  PROVE  Base'
BY EffectCalls, EffectUi DEF Base, Effect

(* Only the two pages of applications ever show a secret.                   *)
NoSecret == page \in {"applications", "application-detail"} \/ ui.secret = None

LEMMA EffectSecret ==
  ASSUME NoSecret, Effect
  PROVE  NoSecret'
<1>1. page' = page
  BY DEF Effect
<1>2. page \in {"applications", "application-detail"} \/ ui'.secret = ui.secret
  BY DEF Effect, Stays, Starts, IsAnswered, Ends, Follows, AllEnd, Becomes
<1> QED BY <1>1, <1>2 DEF NoSecret

LEMMA EffectOverlap ==
  ASSUME Base, OverlapMarked, Effect
  PROVE  OverlapMarked'
<1>1. marks \subseteq marks'
  BY DEF Effect
<1>2. CASE Stays \/ Ends \/ AllEnd
  BY <1>1, <1>2 DEF OverlapMarked, Overlap, Stays, Ends, AllEnd
<1>3. CASE Starts
  <2>1. PICK d : calls' = calls \cup {d} /\ (OverlapMarked' \/ Shows(d) = {})
    BY <1>3 DEF Starts
  <2> QED BY <1>1, <2>1 DEF OverlapMarked, Overlap
<1>4. CASE IsAnswered
  <2>1. PICK c \in calls : \E d : Answers(d, c) /\ calls' = (calls \ {c}) \cup {d}
    BY <1>4 DEF IsAnswered
  <2>2. PICK d : Answers(d, c) /\ calls' = (calls \ {c}) \cup {d}
    BY <2>1
  <2>3. Shows(d) = Shows(c)
    BY <2>2 DEF Answers, Shows
  <2> QED BY <1>1, <2>2, <2>3 DEF OverlapMarked, Overlap
<1>5. CASE Follows
  BY <1>5 DEF Follows
<1> QED BY <1>2, <1>3, <1>4, <1>5 DEF Effect

(* What becomes of a fetch that does not succeed is remembered.             *)
ReadsMarked ==
  \A c \in calls :
    c.op \in {"read", "search"} /\ c.st = "failed" => {"unread", "lost"} \cap marks # {}

LEMMA EffectReads ==
  ASSUME Base, ReadsMarked, Effect
  PROVE  ReadsMarked'
<1>1. marks \subseteq marks'
  BY DEF Effect
<1>2. CASE Stays \/ Starts \/ Ends \/ Follows \/ AllEnd
  BY <1>1, <1>2 DEF ReadsMarked, Stays, Starts, Ends, Follows, AllEnd, New
<1>3. CASE IsAnswered
  BY <1>1, <1>3 DEF ReadsMarked, IsAnswered
<1> QED BY <1>2, <1>3 DEF Effect

(* ... and how the flags go with the requests.  A flag that disables a      *)
(* button is up for the one request that will drop it.                      *)
FlagsFit ==
  /\ \A c \in calls : c.flag \notin Lone => c.flag \in ui.busy
  /\ \A c, d \in calls : c.flag = d.flag /\ c.flag \notin Lone => c = d
  /\ \A f \in Busy(ui) : \E c \in calls : c.flag = f
  /\ ui.loading => \E c \in calls : c.fn \in Loaders

LEMMA EffectFlags ==
  ASSUME Base, FlagsFit, Effect
  PROVE  FlagsFit'
<1>1. /\ \A c \in calls : c.flag \notin Lone => c.flag \in Busy(ui)
      /\ \A c, d \in calls : c.flag = d.flag /\ c.flag \notin Lone => c = d
      /\ \A f \in Busy(ui) : f \notin Lone /\ \E c \in calls : c.flag = f
      /\ ui.loading => \E c \in calls : c.fn \in Loaders
  BY DEF FlagsFit, Busy, Lone, Base, UiFits
<1>2. SUFFICES /\ \A c \in calls' : c.flag \notin Lone => c.flag \in Busy(ui')
               /\ \A c, d \in calls' : c.flag = d.flag /\ c.flag \notin Lone => c = d
               /\ \A f \in Busy(ui') : \E c \in calls' : c.flag = f
               /\ ui'.loading => \E c \in calls' : c.fn \in Loaders
  BY DEF FlagsFit, Busy, Loaders
<1>3. CASE Stays
  BY <1>1, <1>3 DEF Stays, Becomes
<1>4. CASE Starts
  <2>1. PICK d : /\ calls' = calls \cup {d}
                 /\ d.flag \notin Lone => d.flag \notin ui.busy
                 /\ Becomes(ui', ui.loading \/ d.fn \in Loaders, Busy(ui) \cup ({d.flag} \ Lone))
    BY <1>4 DEF Starts
  <2>2. Busy(ui') = Busy(ui) \cup ({d.flag} \ Lone) /\ (ui'.loading => ui.loading \/ d.fn \in Loaders)
    BY <2>1 DEF Becomes
  <2>3. d.flag \notin Lone => \A c \in calls : c.flag # d.flag
    BY <1>1, <2>1 DEF Busy
  <2> QED BY <1>1, <2>1, <2>2, <2>3
<1>5. CASE IsAnswered
  <2>1. PICK c \in calls : \E d : Answers(d, c) /\ calls' = (calls \ {c}) \cup {d} /\ ui' = ui
    BY <1>5 DEF IsAnswered
  <2>2. PICK d : d.flag = c.flag /\ d.fn = c.fn /\ calls' = (calls \ {c}) \cup {d} /\ ui' = ui
    BY <2>1 DEF Answers
  <2>3. ui'.loading => \E e \in calls' : e.fn \in Loaders
    BY <1>1, <2>2
  <2>4. \A f \in Busy(ui') : \E e \in calls' : e.flag = f
    BY <1>1, <2>2
  <2> QED BY <1>1, <2>2, <2>3, <2>4
<1>6. CASE Ends
  <2>1. PICK c \in calls : /\ calls' = calls \ {c}
                           /\ Becomes(ui', ui.loading /\ c.fn \notin Loaders, Busy(ui) \ {c.flag})
    BY <1>6 DEF Ends
  <2>2. Busy(ui') = Busy(ui) \ {c.flag} /\ (ui'.loading => ui.loading /\ c.fn \notin Loaders)
    BY <2>1 DEF Becomes
  <2> QED BY <1>1, <2>1, <2>2
<1>7. CASE Follows
  <2>1. PICK c \in calls :
          \E d : /\ calls' = (calls \ {c}) \cup {d}
                 /\ d.flag \in {c.flag, "none"}
                 /\ Becomes(ui', (ui.loading /\ c.fn \notin Loaders) \/ d.fn \in Loaders,
                            Busy(ui) \ ({c.flag} \ {d.flag}))
    BY <1>7 DEF Follows
  <2>2. PICK d : /\ calls' = (calls \ {c}) \cup {d}
                 /\ d.flag \in {c.flag, "none"}
                 /\ Becomes(ui', (ui.loading /\ c.fn \notin Loaders) \/ d.fn \in Loaders,
                            Busy(ui) \ ({c.flag} \ {d.flag}))
    BY <2>1
  <2>3. /\ Busy(ui') = Busy(ui) \ ({c.flag} \ {d.flag})
        /\ ui'.loading => (ui.loading /\ c.fn \notin Loaders) \/ d.fn \in Loaders
    BY <2>2 DEF Becomes
  <2>4. \A e \in calls' : e.flag \notin Lone => e.flag \in Busy(ui')
    BY <1>1, <2>2, <2>3 DEF Lone
  <2>5. \A e, f \in calls' : e.flag = f.flag /\ e.flag \notin Lone => e = f
    BY <1>1, <2>2 DEF Lone
  <2>6. \A f \in Busy(ui') : \E e \in calls' : e.flag = f
    BY <1>1, <2>2, <2>3
  <2>7. ui'.loading => \E e \in calls' : e.fn \in Loaders
    BY <1>1, <2>2, <2>3
  <2> QED BY <2>4, <2>5, <2>6, <2>7
<1>8. CASE AllEnd
  <2>1. calls' = {} /\ ~ui'.loading /\ Busy(ui') = Busy(ui) /\ \A c \in calls : c.flag = "none"
    BY <1>8 DEF AllEnd, Becomes
  <2>2. Busy(ui) = {}
    BY <1>1, <2>1 DEF Lone
  <2> QED BY <2>1, <2>2
<1> QED BY <1>3, <1>4, <1>5, <1>6, <1>7, <1>8 DEF Effect
-----------------------------------------------------------------------------
(* What the steps do to requests, data and marks, in the terms of the       *)
(* invariants below.                                                        *)
Joins(d, cs, fn, op, body, flag) ==
  /\ New(d, cs) /\ calls' = cs \cup {d}
  /\ d.fn = fn /\ d.op = op /\ d.body = body /\ d.flag = flag

Waits ==
  /\ marks \subseteq marks' /\ marks' \subseteq marks \cup {"overlap"}
  /\ "overlap" \notin marks' => ~Overlap(calls')
  /\ page' = page /\ db' = db

LEMMA AwaitingWaits ==
  ASSUME NEW cs, Awaiting(cs), UNCHANGED <<page, db>>
  PROVE  calls' = cs /\ Waits
<1>1. calls' = cs /\ marks' = IF Overlap(cs) THEN marks \cup {"overlap"} ELSE marks
  BY DEF Awaiting
<1>2. Overlap(calls') <=> Overlap(cs)
  BY <1>1
<1> QED BY <1>1, <1>2 DEF Waits

LEMMA ClickForm ==
  ASSUME Base, NEW fn, NEW op, NEW body, NEW flag, Fits(fn, op, flag), NEW u,
         Click(Sent(calls, fn, op, body, flag), u)
  PROVE  Waits /\ ui' = u /\ \E d : Joins(d, calls, fn, op, body, flag)
<1> DEFINE cs == Sent(calls, fn, op, body, flag)
<1>1. Awaiting(cs) /\ UNCHANGED <<page, db>> /\ ui' = u
  BY DEF Click
<1>2. PICK d : cs = calls \cup {d} /\ New(d, calls)
               /\ d.fn = fn /\ d.op = op /\ d.body = body /\ d.flag = flag
  BY SentNew DEF Base, CallsFit
<1> HIDE DEF cs
<1>3. calls' = cs /\ Waits
  BY <1>1, AwaitingWaits
<1> QED BY <1>1, <1>2, <1>3 DEF Joins

LEMMA EndForm ==
  ASSUME Base, NEW c \in calls, NEW u, Resume(calls \ {c}, u)
  PROVE  Waits /\ ui' = u /\ calls' = calls \ {c}
BY AwaitingWaits DEF Resume

LEMMA FollowForm ==
  ASSUME Base, NEW c \in calls, NEW fn, NEW op, NEW body, NEW flag, Fits(fn, op, flag), NEW u,
         Resume(Sent(calls \ {c}, fn, op, body, flag), u)
  PROVE  Waits /\ ui' = u /\ \E d : Joins(d, calls \ {c}, fn, op, body, flag)
<1> DEFINE cs == Sent(calls \ {c}, fn, op, body, flag)
<1>1. Awaiting(cs) /\ UNCHANGED <<page, db>> /\ ui' = u
  BY DEF Resume
<1>2. IsFiniteSet(calls \ {c}) /\ Cardinality(calls \ {c}) <= MaxCalls
  BY FS_Subset, FS_CardinalityType, WebPageAssumption DEF Base, CallsFit
<1>3. PICK d : cs = (calls \ {c}) \cup {d} /\ New(d, calls \ {c})
               /\ d.fn = fn /\ d.op = op /\ d.body = body /\ d.flag = flag
  BY <1>2, SentNew
<1> HIDE DEF cs
<1>4. calls' = cs /\ Waits
  BY <1>1, AwaitingWaits
<1> QED BY <1>1, <1>3, <1>4 DEF Joins

(* Call c is answered with r: done, refused, or done and reported as failed. *)
Turns(e, c) == Answers(e, c) /\ calls' = (calls \ {c}) \cup {e}

LEMMA ReplyForm ==
  ASSUME Base, NEW c \in calls, NEW pre, NEW d, NEW r, Reply(c, pre, d, r)
  PROVE  /\ UNCHANGED <<page, ui, others, meant>>
         /\ \E e : /\ Turns(e, c)
                   /\ \/ pre /\ db' = d /\ e.st = "ok" /\ e.res = r /\ marks' = marks
                      \/ /\ db' = db /\ e.st = "failed" /\ e.res = None
                         /\ marks' = IF c.op \in {"read", "search"} THEN marks \cup {"unread"} ELSE marks
                      \/ /\ pre /\ db' = d /\ e.st = "failed" /\ e.res = None
                         /\ marks' = marks \cup {"lost"}
<1>1. IsCall(c)
  BY DEF Base, CallsFit
<1>2. CASE pre /\ db' = d /\ Answer(c, "ok", r) /\ UNCHANGED marks
  BY <1>1, <1>2, AnswerNew DEF Reply, Turns
<1>3. CASE /\ UNCHANGED db /\ Answer(c, "failed", None)
           /\ marks' = IF c.op \in {"read", "search"} THEN marks \cup {"unread"} ELSE marks
  BY <1>1, <1>3, AnswerNew DEF Reply, Turns
<1>4. CASE pre /\ db' = d /\ Answer(c, "failed", None) /\ marks' = marks \cup {"lost"}
  BY <1>1, <1>4, AnswerNew DEF Reply, Turns
<1> QED BY <1>2, <1>3, <1>4 DEF Reply
-----------------------------------------------------------------------------
(* The steps of the security page, one by one.  Same(ks): the component     *)
(* still holds these.                                                       *)
Same(ks) == \A k \in ks : ui'[k] = ui[k]

SettingUp(u) == "settingUpMfa" \in u.busy

SetupAsked ==
  /\ \E d : Joins(d, calls, "setupMfa", "setup", None, "settingUpMfa")
  /\ ui.mfa # TRUE /\ ui.setup = None /\ ~SettingUp(ui)
  /\ SettingUp(ui') /\ Same({"mfa", "setup", "passkeys"})
  /\ marks' = IF Unheard \/ ui.mfa = None THEN marks \cup {"early"} ELSE marks
  /\ UNCHANGED <<page, db, meant>>

SetupHeard ==
  \E c \in calls :
    /\ c.fn = "setupMfa" /\ calls' = calls \ {c}
    /\ \/ c.st = "ok" /\ ui'.setup = c.res /\ (SettingUp(ui') <=> SettingUp(ui))
       \/ c.st = "failed" /\ ui'.setup = ui.setup /\ ~SettingUp(ui')
    /\ Same({"mfa", "passkeys"}) /\ Waits /\ meant' = meant

VerifyAsked ==
  /\ ui.setup # None
  /\ \E d : \E code \in {ui.setup, {}} : Joins(d, calls, "verifyMfaSetup", "verify", code, "none")
  /\ Same({"mfa", "setup", "passkeys"}) /\ (SettingUp(ui') <=> SettingUp(ui))
  /\ Waits /\ meant' = meant

VerifyHeard ==
  \E c \in calls :
    /\ c.fn = "verifyMfaSetup"
    /\ \/ /\ c.st = "ok"
          /\ \E d : Joins(d, calls \ {c}, "fetchProfile", "read", {"mfa"}, "none")
          /\ ui'.setup = None /\ ~SettingUp(ui') /\ meant' = c.body
       \/ /\ c.st = "failed" /\ calls' = calls \ {c} /\ meant' = meant
          /\ Same({"setup"}) /\ (SettingUp(ui') <=> SettingUp(ui))
    /\ Same({"mfa", "passkeys"}) /\ Waits

Cancelled ==
  /\ ui.setup # None /\ ui'.setup = None /\ ~SettingUp(ui') /\ Same({"mfa", "passkeys"})
  /\ UNCHANGED <<page, db, calls, marks, meant>>

DisableAsked ==
  /\ ui.mfa = TRUE
  /\ \E d : Joins(d, calls, "disableMfa", "disable", None, "disablingMfa")
  /\ Same({"mfa", "setup", "passkeys"}) /\ (SettingUp(ui') <=> SettingUp(ui))
  /\ marks' = IF Checking THEN marks \cup {"early"} ELSE marks
  /\ UNCHANGED <<page, db, meant>>

DisableHeard ==
  \E c \in calls :
    /\ c.fn = "disableMfa"
    /\ \/ c.st = "ok" /\ \E d : Joins(d, calls \ {c}, "fetchProfile", "read", {"mfa"}, c.flag)
       \/ c.st = "failed" /\ calls' = calls \ {c}
    /\ Same({"mfa", "setup", "passkeys"}) /\ (SettingUp(ui') <=> SettingUp(ui))
    /\ Waits /\ meant' = meant

ProfileHeard ==
  \E c \in calls :
    /\ c.fn = "fetchProfile"
    /\ \/ /\ c.st = "ok" /\ ui'.mfa = c.res.enabled
          /\ \E d : Joins(d, calls \ {c}, "fetchWebauthnCredentials", "read", {"passkeys"}, "none")
       \/ c.st = "failed" /\ ui'.mfa = ui.mfa /\ calls' = calls \ {c}
    /\ Same({"setup", "passkeys"}) /\ (SettingUp(ui') <=> SettingUp(ui))
    /\ Waits /\ meant' = meant

PasskeysHeard ==
  \E c \in calls :
    /\ c.fn = "fetchWebauthnCredentials" /\ c.st \in {"ok", "failed"} /\ calls' = calls \ {c}
    /\ ui'.passkeys = IF c.st = "ok" THEN c.res.passkeys ELSE ui.passkeys
    /\ Same({"mfa", "setup"}) /\ (SettingUp(ui') <=> SettingUp(ui))
    /\ Waits /\ meant' = meant

(* Passwords and the registration of passkeys.                              *)
OtherAsked ==
  /\ \E d : New(d, calls) /\ calls' = calls \cup {d} /\ d.fn \in {"changePassword", "registerPasskey"}
  /\ Same({"mfa", "setup", "passkeys"}) /\ (SettingUp(ui') <=> SettingUp(ui))
  /\ Waits /\ meant' = meant

OtherHeard ==
  \E c \in calls :
    /\ c.fn \in {"changePassword", "registerPasskey"}
    /\ \/ calls' = calls \ {c} /\ (c.op = "finish" => c.st = "failed")
       \/ \E d : /\ New(d, calls \ {c}) /\ calls' = (calls \ {c}) \cup {d}
                 /\ d.fn = "registerPasskey" /\ c.op # "finish"
       \/ \E d : Joins(d, calls \ {c}, "fetchWebauthnCredentials", "read", {"passkeys"}, c.flag)
    /\ Same({"mfa", "setup", "passkeys"}) /\ (SettingUp(ui') <=> SettingUp(ui))
    /\ Waits /\ meant' = meant

LEMMA SecurityKinds ==
  ASSUME Base, page = "security", NEW c \in calls
  PROVE  /\ c.fn = "setupMfa" <=> c.op = "setup"
         /\ c.fn = "verifyMfaSetup" <=> c.op = "verify"
         /\ c.fn = "disableMfa" <=> c.op = "disable"
         /\ c.fn \in {"fetchProfile", "fetchWebauthnCredentials"} <=> c.op = "read"
         /\ c.fn = "registerPasskey" <=> c.op \in {"begin", "prompt", "finish"}
         /\ c.fn = "changePassword" <=> c.op = "password"
         /\ c.flag = "settingUpMfa" <=> c.fn = "setupMfa"
         /\ c.fn \in {"fetchProfile", "fetchWebauthnCredentials", "changePassword", "setupMfa",
                      "verifyMfaSetup", "disableMfa", "registerPasskey"}
BY DEF Base, CallsFit, IsCall, Fits, Asks, FlagFits

LEMMA RaiseFields ==
  ASSUME Base, page = "security", NEW flag
  PROVE  /\ Raise(flag).busy = ui.busy \cup ({flag} \ {"none"})
         /\ \A k \in {"mfa", "setup", "passkeys"} : Raise(flag)[k] = ui[k]
BY SecurityUi DEF Raise

LEMMA SetupMfaForm ==
  ASSUME Base, page = "security", SetupMfa
  PROVE  SetupAsked \/ SetupHeard
<1>1. CASE /\ SecurityTemplate.setup
           /\ StartMfa("settingUpMfa", "setupMfa", "setup", Unheard \/ ui.mfa = None)
  <2>1. ui.mfa # TRUE /\ ui.setup = None /\ ~SettingUp(ui)
    BY <1>1 DEF SecurityTemplate, SettingUp
  <2>2. /\ calls' = Sent(calls, "setupMfa", "setup", None, "settingUpMfa")
        /\ marks' = IF Unheard \/ ui.mfa = None THEN marks \cup {"early"} ELSE marks
        /\ ui' = Raise("settingUpMfa") /\ UNCHANGED <<page, db>>
    BY <1>1, Zenon DEF StartMfa
  <2>3. Fits("setupMfa", "setup", "settingUpMfa")
    BY DEF Fits, Asks, FlagFits
  <2>4. \E d : Joins(d, calls, "setupMfa", "setup", None, "settingUpMfa")
    BY <2>2, <2>3, SentNew DEF Base, CallsFit, Joins
  <2>5. SettingUp(ui') /\ Same({"mfa", "setup", "passkeys"})
    BY <2>2, RaiseFields DEF SettingUp, Same
  <2> QED BY <2>1, <2>2, <2>4, <2>5 DEF SetupAsked, SetupMfa, At
<1>2. ASSUME NEW c \in Answered("setupMfa"),
             Resume(calls \ {c}, IF c.st = "ok" THEN [ui EXCEPT !.setup = c.res] ELSE Drop(ui, c.flag))
      PROVE  SetupHeard
  <2> DEFINE u == IF c.st = "ok" THEN [ui EXCEPT !.setup = c.res] ELSE Drop(ui, c.flag)
  <2>1. c \in calls /\ c.fn = "setupMfa" /\ c.st \in {"ok", "failed"} /\ c.flag = "settingUpMfa"
    BY SecurityKinds DEF Answered
  <2>2. /\ u.mfa = ui.mfa /\ u.passkeys = ui.passkeys
        /\ c.st = "ok" => u.setup = c.res /\ u.busy = ui.busy
        /\ c.st # "ok" => u.setup = ui.setup /\ u.busy = ui.busy \ {"settingUpMfa"}
    BY <2>1, SecurityUi, DropFields
  <2>3. Resume(calls \ {c}, u)
    BY <1>2
  <2> HIDE DEF u
  <2>4. Waits /\ ui' = u /\ calls' = calls \ {c}
    BY <2>1, <2>3, EndForm
  <2> QED BY <2>1, <2>2, <2>4 DEF SetupHeard, SettingUp, Same, SetupMfa, At
<1> QED BY <1>1, <1>2 DEF SetupMfa

LEMMA VerifyMfaSetupForm ==
  ASSUME Base, page = "security", VerifyMfaSetup
  PROVE  VerifyAsked \/ VerifyHeard
<1>1. ASSUME SecurityTemplate.verify, UNCHANGED meant,
             NEW code \in {ui.setup, {}}, Start("none", "verifyMfaSetup", "verify", code)
      PROVE  VerifyAsked
  <2>1. Fits("verifyMfaSetup", "verify", "none")
    BY DEF Fits, Asks, FlagFits
  <2>2. /\ Waits /\ ui' = Raise("none")
        /\ \E d : Joins(d, calls, "verifyMfaSetup", "verify", code, "none")
    BY <1>1, <2>1, ClickForm DEF Start
  <2>3. ui.setup # None
    BY <1>1 DEF SecurityTemplate
  <2>4. Same({"mfa", "setup", "passkeys"}) /\ (SettingUp(ui') <=> SettingUp(ui))
    BY <2>2, RaiseFields DEF SettingUp, Same
  <2> QED BY <1>1, <2>2, <2>3, <2>4 DEF VerifyAsked
<1> DEFINE u == [Drop(ui, "settingUpMfa") EXCEPT !.setup = None]
<1>2. u.setup = None /\ u.busy = ui.busy \ {"settingUpMfa"} /\ u.mfa = ui.mfa /\ u.passkeys = ui.passkeys
  BY SecurityUi, DropFields
<1> HIDE DEF u
<1>3. ASSUME NEW c \in Answered("verifyMfaSetup"), c.st = "ok",
             Resume(Profile(calls \ {c}, "none"), u), meant' = c.body
      PROVE  VerifyHeard
  <2>1. Fits("fetchProfile", "read", "none")
    BY DEF Fits, Asks, FlagFits
  <2>2. /\ Waits /\ ui' = u
        /\ \E d : Joins(d, calls \ {c}, "fetchProfile", "read", {"mfa"}, "none")
    BY <1>3, <2>1, FollowForm DEF Profile, Answered
  <2> QED BY <1>2, <1>3, <2>2 DEF VerifyHeard, SettingUp, Same, Answered
<1>4. ASSUME NEW c \in Answered("verifyMfaSetup"), c.st # "ok", Resume(calls \ {c}, ui), UNCHANGED meant
      PROVE  VerifyHeard
  <2>1. Waits /\ ui' = ui /\ calls' = calls \ {c}
    BY <1>4, EndForm DEF Answered
  <2> QED BY <1>4, <2>1 DEF VerifyHeard, SettingUp, Same, Answered
<1> QED BY <1>1, <1>3, <1>4 DEF VerifyMfaSetup, u

LEMMA CancelMfaSetupForm ==
  ASSUME Base, page = "security", CancelMfaSetup
  PROVE  Cancelled
<1> DEFINE u == [Drop(ui, "settingUpMfa") EXCEPT !.setup = None]
<1>1. u.setup = None /\ u.busy = ui.busy \ {"settingUpMfa"} /\ u.mfa = ui.mfa /\ u.passkeys = ui.passkeys
  BY SecurityUi, DropFields
<1> HIDE DEF u
<1> QED BY <1>1 DEF CancelMfaSetup, SecurityTemplate, Type, u, Cancelled, SettingUp, Same

LEMMA DisableMfaForm ==
  ASSUME Base, page = "security", DisableMfa
  PROVE  DisableAsked \/ DisableHeard
<1>1. CASE /\ SecurityTemplate.disable
           /\ StartMfa("disablingMfa", "disableMfa", "disable", Checking)
  <2>1. ui.mfa = TRUE
    BY <1>1 DEF SecurityTemplate
  <2>2. /\ calls' = Sent(calls, "disableMfa", "disable", None, "disablingMfa")
        /\ marks' = IF Checking THEN marks \cup {"early"} ELSE marks
        /\ ui' = Raise("disablingMfa") /\ UNCHANGED <<page, db>>
    BY <1>1, Zenon DEF StartMfa
  <2>3. Fits("disableMfa", "disable", "disablingMfa")
    BY DEF Fits, Asks, FlagFits
  <2>4. \E d : Joins(d, calls, "disableMfa", "disable", None, "disablingMfa")
    BY <2>2, <2>3, SentNew DEF Base, CallsFit, Joins
  <2>5. Same({"mfa", "setup", "passkeys"}) /\ (SettingUp(ui') <=> SettingUp(ui))
    BY <2>2, RaiseFields DEF SettingUp, Same
  <2> QED BY <2>1, <2>2, <2>4, <2>5 DEF DisableAsked, DisableMfa, At
<1>2. ASSUME NEW c \in Answered("disableMfa"),
             IF c.st = "ok" THEN Resume(Profile(calls \ {c}, c.flag), ui)
             ELSE Resume(calls \ {c}, Drop(ui, c.flag))
      PROVE  DisableHeard
  <2>1. c \in calls /\ c.fn = "disableMfa" /\ c.st \in {"ok", "failed"} /\ c.flag # "settingUpMfa"
    BY SecurityKinds DEF Answered
  <2>2. CASE c.st = "ok"
    <3>1. Fits("fetchProfile", "read", c.flag)
      BY <2>1 DEF Fits, Asks, FlagFits
    <3>2. /\ Waits /\ ui' = ui
          /\ \E d : Joins(d, calls \ {c}, "fetchProfile", "read", {"mfa"}, c.flag)
      BY <1>2, <2>1, <2>2, <3>1, FollowForm DEF Profile
    <3> QED BY <2>1, <2>2, <3>2 DEF DisableHeard, SettingUp, Same, DisableMfa, At
  <2>3. CASE c.st # "ok"
    <3>1. Waits /\ ui' = Drop(ui, c.flag) /\ calls' = calls \ {c}
      BY <1>2, <2>1, <2>3, EndForm
    <3>2. Same({"mfa", "setup", "passkeys"}) /\ (SettingUp(ui') <=> SettingUp(ui))
      BY <2>1, <3>1, SecurityUi, DropFields DEF SettingUp, Same
    <3> QED BY <2>1, <2>3, <3>1, <3>2 DEF DisableHeard, DisableMfa, At
  <2> QED BY <2>2, <2>3
<1> QED BY <1>1, <1>2 DEF DisableMfa

LEMMA SecurityProfileForm ==
  ASSUME Base, page = "security", FetchSecurityProfile
  PROVE  ProfileHeard
<1> DEFINE v(c) == [Drop(ui, c.flag) EXCEPT !.loading = FALSE]
           w(c) == [v(c) EXCEPT !.mfa = c.res.enabled]
<1>1. PICK c \in Answered("fetchProfile") :
        IF c.st = "ok" THEN Resume(Passkeys(calls \ {c}, "none"), w(c)) ELSE Resume(calls \ {c}, v(c))
  BY DEF FetchSecurityProfile
<1>2. c \in calls /\ c.fn = "fetchProfile" /\ c.st \in {"ok", "failed"} /\ c.flag # "settingUpMfa"
  BY SecurityKinds DEF Answered
<1>3. /\ DOMAIN v(c) = DOMAIN ui /\ v(c).busy = ui.busy \ {c.flag}
      /\ v(c).setup = ui.setup /\ v(c).passkeys = ui.passkeys /\ v(c).mfa = ui.mfa
  BY SecurityUi, DropFields
<1> HIDE DEF v
<1>4. /\ w(c).busy = ui.busy \ {c.flag}
      /\ w(c).setup = ui.setup /\ w(c).passkeys = ui.passkeys /\ w(c).mfa = c.res.enabled
  BY <1>3, SecurityUi
<1> HIDE DEF w
<1>5. CASE c.st = "ok"
  <2>1. Fits("fetchWebauthnCredentials", "read", "none")
    BY DEF Fits, Asks, FlagFits
  <2>2. /\ Waits /\ ui' = w(c)
        /\ \E d : Joins(d, calls \ {c}, "fetchWebauthnCredentials", "read", {"passkeys"}, "none")
    BY <1>1, <1>2, <1>5, <2>1, FollowForm DEF Passkeys
  <2>3. /\ ui'.mfa = c.res.enabled /\ Same({"setup", "passkeys"})
        /\ SettingUp(ui') <=> SettingUp(ui)
    BY <1>2, <1>4, <2>2 DEF SettingUp, Same
  <2> QED BY <1>2, <1>5, <2>2, <2>3 DEF ProfileHeard, FetchSecurityProfile, At
<1>6. CASE c.st # "ok"
  <2>1. Waits /\ ui' = v(c) /\ calls' = calls \ {c}
    BY <1>1, <1>2, <1>6, EndForm
  <2>2. /\ ui'.mfa = ui.mfa /\ Same({"setup", "passkeys"})
        /\ SettingUp(ui') <=> SettingUp(ui)
    BY <1>2, <1>3, <2>1 DEF SettingUp, Same
  <2> QED BY <1>2, <1>6, <2>1, <2>2 DEF ProfileHeard, FetchSecurityProfile, At
<1> QED BY <1>5, <1>6

LEMMA WebauthnCredentialsForm ==
  ASSUME Base, page = "security", FetchWebauthnCredentials
  PROVE  PasskeysHeard
<1> DEFINE u(c) == [Drop(ui, c.flag) EXCEPT !.passkeys = IF c.st = "ok" THEN c.res.passkeys ELSE @]
<1>1. PICK c \in Answered("fetchWebauthnCredentials") : Resume(calls \ {c}, u(c))
  BY DEF FetchWebauthnCredentials
<1>2. /\ c \in calls /\ c.fn = "fetchWebauthnCredentials" /\ c.flag # "settingUpMfa"
      /\ c.st \in {"ok", "failed"}
  BY SecurityKinds DEF Answered
<1>3. /\ u(c).busy = ui.busy \ {c.flag} /\ u(c).setup = ui.setup /\ u(c).mfa = ui.mfa
      /\ u(c).passkeys = IF c.st = "ok" THEN c.res.passkeys ELSE ui.passkeys
  BY SecurityUi, DropFields
<1> HIDE DEF u
<1>4. Waits /\ ui' = u(c) /\ calls' = calls \ {c}
  BY <1>1, <1>2, EndForm
<1>5. Same({"mfa", "setup"}) /\ (SettingUp(ui') <=> SettingUp(ui))
  BY <1>2, <1>3, <1>4 DEF SettingUp, Same
<1> QED BY <1>2, <1>3, <1>4, <1>5 DEF PasskeysHeard, FetchWebauthnCredentials, At

(* A function of the security page sends something, or ends, and the        *)
(* component only drops or raises a flag.                                   *)
LEMMA OtherStart ==
  ASSUME Base, page = "security", NEW flag, NEW fn \in {"changePassword", "registerPasskey"}, NEW op,
         NEW body, Fits(fn, op, flag), Start(flag, fn, op, body), UNCHANGED meant
  PROVE  OtherAsked
<1>1. /\ Waits /\ ui' = Raise(flag)
      /\ \E d : Joins(d, calls, fn, op, body, flag)
  BY ClickForm DEF Start
<1>2. flag # "settingUpMfa"
  BY DEF Fits, FlagFits
<1>3. Same({"mfa", "setup", "passkeys"}) /\ (SettingUp(ui') <=> SettingUp(ui))
  BY <1>1, <1>2, RaiseFields DEF SettingUp, Same
<1> QED BY <1>1, <1>3 DEF OtherAsked, Joins

LEMMA OtherEnd ==
  ASSUME Base, page = "security", NEW c \in calls, c.fn \in {"changePassword", "registerPasskey"},
         c.op = "finish" => c.st = "failed", Resume(calls \ {c}, Drop(ui, c.flag)), UNCHANGED meant
  PROVE  OtherHeard
<1>1. Waits /\ ui' = Drop(ui, c.flag) /\ calls' = calls \ {c}
  BY EndForm
<1>2. c.flag # "settingUpMfa"
  BY SecurityKinds
<1>3. Same({"mfa", "setup", "passkeys"}) /\ (SettingUp(ui') <=> SettingUp(ui))
  BY <1>1, <1>2, SecurityUi, DropFields DEF SettingUp, Same
<1> QED BY <1>1, <1>3 DEF OtherHeard

LEMMA ChangePasswordForm ==
  ASSUME Base, page = "security", ChangePassword
  PROVE  OtherAsked \/ OtherHeard
<1>1. Fits("changePassword", "password", "changingPassword")
  BY DEF Fits, Asks, FlagFits
<1>2. CASE Start("changingPassword", "changePassword", "password", None)
  BY <1>1, <1>2, OtherStart DEF ChangePassword, At
<1>3. ASSUME NEW c \in Answered("changePassword"), Resume(calls \ {c}, Drop(ui, c.flag))
      PROVE  OtherHeard
  <2>1. c \in calls /\ c.fn = "changePassword" /\ c.op # "finish"
    BY SecurityKinds DEF Answered
  <2> QED BY <1>3, <2>1, OtherEnd DEF ChangePassword, At
<1> QED BY <1>2, <1>3 DEF ChangePassword

LEMMA RegisterPasskeyForm ==
  ASSUME Base, page = "security", RegisterPasskey
  PROVE  OtherAsked \/ OtherHeard
<1>1. UNCHANGED meant
  BY DEF RegisterPasskey, At
<1>2. CASE Start("registeringPasskey", "registerPasskey", "begin", None)
  <2>1. Fits("registerPasskey", "begin", "registeringPasskey")
    BY DEF Fits, Asks, FlagFits
  <2> QED BY <1>1, <1>2, <2>1, OtherStart
<1>3. ASSUME NEW c \in Answered("registerPasskey"), NEW op \in {"prompt", "finish"}, c.op # "finish",
             Resume(Sent(calls \ {c}, c.fn, op, None, c.flag), ui)
      PROVE  OtherHeard
  <2>1. c \in calls /\ c.fn = "registerPasskey" /\ c.flag # "settingUpMfa"
    BY SecurityKinds DEF Answered
  <2>2. Fits(c.fn, op, c.flag)
    BY <2>1 DEF Fits, Asks, FlagFits
  <2>3. Waits /\ ui' = ui /\ \E d : Joins(d, calls \ {c}, c.fn, op, None, c.flag)
    BY <1>3, <2>1, <2>2, FollowForm
  <2>4. PICK d : Joins(d, calls \ {c}, c.fn, op, None, c.flag)
    BY <2>3
  <2> QED BY <1>1, <1>3, <2>1, <2>3, <2>4 DEF OtherHeard, Joins, Same, SettingUp
<1>4. ASSUME NEW c \in Answered("registerPasskey"), Resume(Passkeys(calls \ {c}, c.flag), ui)
      PROVE  OtherHeard
  <2>1. c \in calls /\ c.fn = "registerPasskey" /\ c.flag # "settingUpMfa"
    BY SecurityKinds DEF Answered
  <2>2. Fits("fetchWebauthnCredentials", "read", c.flag)
    BY <2>1 DEF Fits, Asks, FlagFits
  <2>3. /\ Waits /\ ui' = ui
        /\ \E d : Joins(d, calls \ {c}, "fetchWebauthnCredentials", "read", {"passkeys"}, c.flag)
    BY <1>4, <2>1, <2>2, FollowForm DEF Passkeys
  <2> QED BY <1>1, <2>1, <2>3 DEF OtherHeard, Same, SettingUp
<1>5. ASSUME NEW c \in Answered("registerPasskey"), c.st = "failed", Resume(calls \ {c}, Drop(ui, c.flag))
      PROVE  OtherHeard
  BY <1>1, <1>5, OtherEnd DEF Answered
<1>6. CASE \E c \in Answered("registerPasskey") :
             \/ c.st = "failed" /\ Resume(calls \ {c}, Drop(ui, c.flag))
             \/ c.op = "begin" /\ Resume(Sent(calls \ {c}, c.fn, "prompt", None, c.flag), ui)
             \/ c.op = "prompt" /\ Resume(Sent(calls \ {c}, c.fn, "finish", None, c.flag), ui)
             \/ Resume(Passkeys(calls \ {c}, c.flag), ui)
  BY <1>3, <1>4, <1>5, <1>6
<1> QED BY <1>2, <1>6, Zenon DEF RegisterPasskey

LEMMA SecurityForms ==
  ASSUME Base, SecurityPageNext
  PROVE  /\ page = "security"
         /\ \/ ServeSecurity
            \/ SetupAsked \/ SetupHeard \/ VerifyAsked \/ VerifyHeard \/ Cancelled
            \/ DisableAsked \/ DisableHeard \/ ProfileHeard \/ PasskeysHeard \/ OtherAsked \/ OtherHeard
<1>1. page = "security"
  BY DEF SecurityPageNext, FetchSecurityProfile, ChangePassword, SetupMfa, VerifyMfaSetup,
         CancelMfaSetup, DisableMfa, FetchWebauthnCredentials, RegisterPasskey, At
<1> QED BY <1>1, SetupMfaForm, VerifyMfaSetupForm, CancelMfaSetupForm, DisableMfaForm,
           SecurityProfileForm, WebauthnCredentialsForm, ChangePasswordForm, RegisterPasskeyForm
        DEF SecurityPageNext
-----------------------------------------------------------------------------
(* The server does not do what c asks; ...                                  *)
Fails(c, e) ==
  /\ db' = db /\ e.st = "failed" /\ e.res = None
  /\ marks' = IF c.op \in {"read", "search"} THEN marks \cup {"unread"} ELSE marks

(* ... or does it, and says so in e or the answer is lost.                  *)
Serves(c, e, d, r) ==
  \/ db' = d /\ e.st = "ok" /\ e.res = r /\ marks' = marks
  \/ db' = d /\ e.st = "failed" /\ e.res = None /\ marks' = marks \cup {"lost"}
  \/ Fails(c, e)

Stored(s) == [db EXCEPT !.secret = {s}, !.issued = @ \cup {s}]

ServesSecurity(c, e) ==
  \/ /\ c.fn = "setupMfa" /\ c.st = "sent"
     /\ \E s \in Secrets : Serves(c, e, Stored(s), {s})
  \/ /\ c.fn = "verifyMfaSetup" /\ c.st = "sent" /\ UNCHANGED <<db, marks>>
     /\ e.res = None /\ (e.st = "failed" \/ (e.st = "half" /\ c.body = db.secret))
  \/ /\ c.fn = "verifyMfaSetup" /\ c.st = "half"
     /\ Serves(c, e, [db EXCEPT !.enabled = TRUE], None)
  \/ /\ c.fn = "disableMfa" /\ c.st = "sent"
     /\ Serves(c, e, [db EXCEPT !.enabled = FALSE, !.secret = {}], None)
  \/ c.op = "read" /\ c.st = "sent" /\ Serves(c, e, db, db)
  \/ /\ c.fn = "changePassword" /\ c.st = "sent"
     /\ Serves(c, e, [db EXCEPT !.passwords = @ + 1], None)
  \/ /\ c.fn = "registerPasskey" /\ c.st = "sent"
     /\ \/ c.op = "finish" /\ Serves(c, e, [db EXCEPT !.passkeys = @ + 1], None)
        \/ c.op # "finish" /\ Serves(c, e, db, None)

SecurityServed ==
  /\ \E c \in calls : \E e : Turns(e, c) /\ ServesSecurity(c, e)
  /\ UNCHANGED <<page, ui, meant>>

LEMMA ReplyServes ==
  ASSUME Base, NEW c \in calls, NEW pre, NEW d, NEW r, Reply(c, pre, d, r)
  PROVE  /\ \E e : Turns(e, c) /\ Serves(c, e, d, r) /\ (~pre => Fails(c, e))
         /\ UNCHANGED <<page, ui, others, meant>>
BY ReplyForm DEF Serves, Fails

LEMMA MfaSetupServes ==
  ASSUME Base, NEW c \in calls, MfaSetup(c), db.issued \subseteq Secrets
  PROVE  /\ \E e : Turns(e, c) /\ \E s \in Secrets : Serves(c, e, Stored(s), {s})
         /\ UNCHANGED <<page, ui, meant>>
<1> DEFINE s == NewSecret(db.issued)
           pre == db.issued # Secrets
<1>1. Reply(c, pre, Stored(s), {s})
  BY Zenon DEF MfaSetup, Stored
<1>2. pre => s \in Secrets
  BY DEF NewSecret
<1> HIDE DEF pre, s
<1>3. PICK e : Turns(e, c) /\ Serves(c, e, Stored(s), {s}) /\ (~pre => Fails(c, e))
  BY <1>1, ReplyServes
<1>4. UNCHANGED <<page, ui, meant>>
  BY <1>1, ReplyServes
<1>5. \E t \in Secrets : Serves(c, e, Stored(t), {t})
  BY <1>2, <1>3, SecurityPageAssumption DEF Serves
<1> QED BY <1>3, <1>4, <1>5

LEMMA MfaVerifyServes ==
  ASSUME Base, NEW c \in calls, c.op = "verify", c.st \in {"sent", "half"}, MfaVerifySetup(c)
  PROVE  /\ \E e : /\ Turns(e, c)
                   /\ \/ /\ c.st = "half" /\ Serves(c, e, [db EXCEPT !.enabled = TRUE], None)
                      \/ /\ c.st = "sent" /\ UNCHANGED <<db, marks>> /\ e.res = None
                         /\ e.st = "failed" \/ (e.st = "half" /\ c.body = db.secret)
         /\ UNCHANGED <<page, ui, meant>>
<1>1. CASE c.st = "half" /\ Reply(c, TRUE, [db EXCEPT !.enabled = TRUE], None)
  BY <1>1, ReplyServes
<1>2. CASE /\ c.st = "sent" /\ c.body = db.secret /\ Answer(c, "half", None)
           /\ UNCHANGED <<page, ui, db, marks, meant>>
  BY <1>2, AnswerNew DEF Base, CallsFit, Turns
<1>3. CASE c.st = "sent" /\ Reply(c, FALSE, db, None)
  BY <1>3, ReplyServes DEF Fails
<1> QED BY <1>1, <1>2, <1>3 DEF MfaVerifySetup

LEMMA ServeSecurityForm ==
  ASSUME Base, page = "security", ServeSecurity, db.issued \subseteq Secrets
  PROVE  SecurityServed
<1>1. ASSUME NEW c \in calls, c.op = "verify", c.st \in {"sent", "half"}, MfaVerifySetup(c)
      PROVE  SecurityServed
  BY <1>1, MfaVerifyServes, SecurityKinds DEF SecurityServed, ServesSecurity
<1>2. ASSUME NEW c \in calls, c.st = "sent", c.op = "setup", MfaSetup(c)
      PROVE  SecurityServed
  BY <1>2, MfaSetupServes, SecurityKinds DEF SecurityServed, ServesSecurity
<1>3. ASSUME NEW c \in calls, c.st = "sent", NEW d, NEW r, Reply(c, TRUE, d, r),
             \/ c.op = "disable" /\ d = [db EXCEPT !.enabled = FALSE, !.secret = {}] /\ r = None
             \/ c.op = "read" /\ d = db /\ r = db
             \/ c.op = "password" /\ d = [db EXCEPT !.passwords = @ + 1] /\ r = None
             \/ c.op = "finish" /\ d = [db EXCEPT !.passkeys = @ + 1] /\ r = None
             \/ c.op \notin {"verify", "setup", "disable", "read", "password", "finish"} /\ d = db /\ r = None
      PROVE  SecurityServed
  <2>1. PICK e : Turns(e, c) /\ Serves(c, e, d, r)
    BY <1>3, ReplyServes
  <2>2. UNCHANGED <<page, ui, meant>>
    BY <1>3, ReplyServes
  <2>3. c.op \in {"setup", "verify", "disable", "read", "begin", "prompt", "finish", "password"}
    BY SecurityKinds
  <2>4. ServesSecurity(c, e)
    BY <1>3, <2>1, <2>3, SecurityKinds DEF ServesSecurity
  <2> QED BY <2>1, <2>2, <2>4 DEF SecurityServed
<1> QED BY <1>1, <1>2, <1>3 DEF ServeSecurity, MfaDisable
-----------------------------------------------------------------------------
(* The user's two-factor state, and what the page knows of it.              *)
SecurityTypes ==
  /\ db.enabled \in BOOLEAN /\ db.issued \subseteq Secrets
  /\ DOMAIN db = {"enabled", "secret", "issued", "passkeys", "passwords"}
  /\ ui.mfa = None \/ ui.mfa \in BOOLEAN
  /\ \A c \in calls :
       /\ c.fn = "fetchProfile" /\ c.st = "ok" => c.res.enabled \in BOOLEAN
       /\ c.fn = "setupMfa" /\ c.st = "ok" => c.res # None

(* The flag of Enable MFA is up while a setup is asked for or shown; unless *)
(* that was early, nothing else is then asked about MFA.                    *)
SetupFits ==
  /\ SettingUp(ui) => ui.setup # None \/ \E c \in calls : c.fn = "setupMfa"
  /\ "early" \notin marks =>
       \A c \in calls : c.fn = "setupMfa" =>
         /\ SettingUp(ui) /\ ui.setup = None
         /\ \A d \in calls : d.fn # "verifyMfaSetup" /\ (d.fn = "setupMfa" => d = c)

Heard == marks \cap {"early", "lost", "unread"} = {}

(* While a setup is shown, it is the one the server holds; ...              *)
SetupIsStored ==
  ui.setup # None =>
    /\ ui.mfa = FALSE /\ ui.setup = db.secret
    /\ \A c \in calls : c.fn \notin {"fetchProfile", "disableMfa", "setupMfa"}

(* ... one that is asked for replaces no secret that is in use; ...         *)
SetupIsNew ==
  \A c \in calls : c.fn = "setupMfa" =>
    /\ ui.mfa = FALSE /\ ~db.enabled
    /\ c.st = "ok" => c.res = db.secret
    /\ \A d \in calls : d.fn \notin {"fetchProfile", "disableMfa"}

(* ... a code that was accepted is one of the secret there is; ...          *)
CodesAreGood ==
  \A c \in calls : c.fn = "verifyMfaSetup" =>
    /\ c.st \in {"half", "ok"} => c.body = db.secret
    /\ c.st = "ok" => db.enabled
    /\ \A d \in calls : d.fn # "disableMfa" /\ (d.fn = "fetchProfile" => db.enabled)

(* ... and MFA that is enabled is known to be, or about to be heard of.     *)
EnabledIsKnown ==
  db.enabled =>
    /\ \A c \in calls : c.fn = "fetchProfile" /\ c.st = "ok" => c.res.enabled = TRUE
    /\ ui.mfa = FALSE =>
         \E c \in calls : c.fn = "fetchProfile" \/ (c.fn = "verifyMfaSetup" /\ c.st = "ok")
    /\ meant = db.secret \/ \E c \in calls : c.fn = "verifyMfaSetup" /\ c.st = "ok"

AuthFits == Heard => SetupIsStored /\ SetupIsNew /\ CodesAreGood /\ EnabledIsKnown

SecurityFits == SecurityTypes /\ SetupFits /\ AuthFits

(* What is known of the requests of the page.                               *)
SecurityCalls ==
  \A c \in calls :
    /\ c.st \in {"sent", "half", "ok", "failed"}
    /\ c.fn \in {"fetchProfile", "fetchWebauthnCredentials", "changePassword", "setupMfa",
                 "verifyMfaSetup", "disableMfa", "registerPasskey"}
    /\ c.op \in {"read", "search"} <=> c.fn \in {"fetchProfile", "fetchWebauthnCredentials"}

LEMMA SecurityCallsHold ==
  ASSUME Base, page = "security"
  PROVE  SecurityCalls
BY SecurityKinds DEF Base, CallsFit, IsCall, SecurityCalls, Fits, Asks

LEMMA SetupAskedFits ==
  ASSUME SecurityCalls, ReadsMarked, SecurityFits, SetupAsked
  PROVE  SecurityFits'
<1>1. SecurityTypes'
  BY DEF SecurityCalls, SecurityFits, SecurityTypes, SetupAsked, Joins, New, Waits, Same,
         SettingUp, Unheard
<1>2. SetupFits'
  BY DEF SecurityFits, SetupFits, SetupAsked, Joins, Same, Unheard
<1>3. Heard' => Heard
  BY DEF Heard, SetupAsked, Joins, New, Waits, Same, SettingUp, Unheard
<1>4. Heard' => SetupIsStored'
  BY <1>3 DEF SetupIsStored, SetupAsked, Same
<1>5. Heard' => SetupIsNew'
  BY <1>3 DEF SecurityFits, SecurityTypes, AuthFits, SetupIsNew, EnabledIsKnown, Heard, SetupAsked,
              Joins, New, Same, Unheard
<1>6. Heard' => CodesAreGood'
  BY <1>3 DEF SecurityFits, AuthFits, CodesAreGood, SetupAsked, Joins
<1>7. Heard' => EnabledIsKnown'
  BY <1>3 DEF SecurityFits, SecurityTypes, AuthFits, EnabledIsKnown, Heard, SetupAsked, Joins
<1> QED BY <1>1, <1>2, <1>4, <1>5, <1>6, <1>7 DEF SecurityFits, AuthFits

LEMMA SetupHeardFits ==
  ASSUME SecurityCalls, ReadsMarked, SecurityFits, SetupHeard
  PROVE  SecurityFits'
<1>1. SecurityTypes'
  BY DEF SecurityCalls, SecurityFits, SecurityTypes, SetupHeard, Joins, New, Waits, Same,
         SettingUp
<1>2. SetupFits'
  BY DEF SecurityCalls, SecurityFits, SecurityTypes, SetupFits, SetupHeard, Joins, New, Waits, Same,
         SettingUp
<1>3. Heard' => Heard
  BY DEF Heard, SetupHeard, Joins, New, Waits, Same, SettingUp
<1>4. Heard' => SetupIsStored'
  BY <1>3 DEF SecurityFits, SetupFits, AuthFits, SetupIsStored, SetupIsNew, Heard, SetupHeard, Waits,
              Same
<1>5. Heard' => SetupIsNew'
  BY <1>3 DEF SecurityFits, SetupFits, SetupIsNew, Heard, SetupHeard
<1>6. Heard' => CodesAreGood'
  BY <1>3 DEF SecurityFits, SetupFits, CodesAreGood, Heard, SetupHeard
<1>7. Heard' => EnabledIsKnown'
  BY <1>3 DEF SecurityFits, AuthFits, SetupIsNew, EnabledIsKnown, SetupHeard, Waits
<1> QED BY <1>1, <1>2, <1>4, <1>5, <1>6, <1>7 DEF SecurityFits, AuthFits

LEMMA VerifyAskedFits ==
  ASSUME SecurityCalls, ReadsMarked, SecurityFits, VerifyAsked
  PROVE  SecurityFits'
<1>1. SecurityTypes'
  BY DEF SecurityCalls, SecurityFits, SecurityTypes, VerifyAsked, Joins, New, Waits, Same,
         SettingUp
<1>2. SetupFits'
  BY DEF SecurityFits, SetupFits, VerifyAsked, Joins, Waits, Same
<1>3. Heard' => Heard
  BY DEF Heard, VerifyAsked, Joins, New, Waits, Same, SettingUp
<1>4. Heard' => SetupIsStored'
  BY <1>3 DEF SecurityFits, AuthFits, SetupIsStored, VerifyAsked, Joins, Waits, Same
<1>5. Heard' => SetupIsNew'
  BY <1>3 DEF SecurityFits, AuthFits, SetupIsStored, SetupIsNew, VerifyAsked, Joins
<1>6. Heard' => CodesAreGood'
  BY <1>3 DEF SecurityFits, AuthFits, SetupIsStored, CodesAreGood, VerifyAsked, Joins, New, Waits
<1>7. Heard' => EnabledIsKnown'
  BY <1>3 DEF SecurityFits, AuthFits, SetupIsStored, EnabledIsKnown, VerifyAsked, Joins, Waits
<1> QED BY <1>1, <1>2, <1>4, <1>5, <1>6, <1>7 DEF SecurityFits, AuthFits

LEMMA VerifyHeardFits ==
  ASSUME SecurityCalls, ReadsMarked, SecurityFits, VerifyHeard
  PROVE  SecurityFits'
<1>1. SecurityTypes'
  BY DEF SecurityCalls, SecurityFits, SecurityTypes, VerifyHeard, Joins, New, Waits, Same,
         SettingUp
<1>2. SetupFits'
  BY DEF SecurityFits, SetupFits, VerifyHeard, Joins, Waits, Same
<1>3. Heard' => Heard
  BY DEF Heard, VerifyHeard, Joins, New, Waits, Same, SettingUp
<1>4. Heard' => SetupIsStored'
  BY <1>3 DEF SecurityFits, AuthFits, SetupIsStored, VerifyHeard, Waits, Same
<1>5. Heard' => SetupIsNew'
  BY <1>3 DEF SecurityFits, SetupFits, SetupIsNew, Heard, VerifyHeard, Joins
<1>6. Heard' => CodesAreGood'
  BY <1>3 DEF SecurityFits, AuthFits, CodesAreGood, VerifyHeard, Joins, Waits
<1>7. Heard' => EnabledIsKnown'
  BY <1>3 DEF SecurityFits, AuthFits, CodesAreGood, EnabledIsKnown, VerifyHeard, Joins, New, Waits, Same
<1> QED BY <1>1, <1>2, <1>4, <1>5, <1>6, <1>7 DEF SecurityFits, AuthFits

LEMMA CancelledFits ==
  ASSUME SecurityCalls, ReadsMarked, SecurityFits, Cancelled
  PROVE  SecurityFits'
<1>1. SecurityTypes'
  BY DEF SecurityCalls, SecurityFits, SecurityTypes, Cancelled, Joins, New, Waits, Same,
         SettingUp
<1>2. SetupFits'
  BY DEF SecurityCalls, SecurityFits, SecurityTypes, SetupFits, Cancelled, Joins, New, Waits, Same,
         SettingUp
<1>3. Heard' => Heard
  BY DEF Heard, Cancelled, Joins, New, Waits, Same, SettingUp
<1>4. Heard' => SetupIsStored'
  BY <1>3 DEF SetupIsStored, Cancelled
<1>5. Heard' => SetupIsNew'
  BY <1>3 DEF SecurityFits, AuthFits, SetupIsStored, SetupIsNew, Cancelled
<1>6. Heard' => CodesAreGood'
  BY <1>3 DEF SecurityFits, AuthFits, CodesAreGood, Cancelled
<1>7. Heard' => EnabledIsKnown'
  BY <1>3 DEF SecurityFits, AuthFits, SetupIsStored, EnabledIsKnown, Cancelled
<1> QED BY <1>1, <1>2, <1>4, <1>5, <1>6, <1>7 DEF SecurityFits, AuthFits

LEMMA DisableAskedFits ==
  ASSUME SecurityCalls, ReadsMarked, SecurityFits, DisableAsked
  PROVE  SecurityFits'
<1>1. SecurityTypes'
  BY DEF SecurityFits, SecurityTypes, DisableAsked, Joins, Same
<1>2. SetupFits'
  BY DEF SecurityFits, SetupFits, DisableAsked, Joins, Same
<1>3. Heard' => Heard
  BY DEF Heard, DisableAsked, Joins, New, Waits, Same, SettingUp, Checking
<1>4. Heard' => SetupIsStored'
  BY <1>3 DEF SecurityFits, AuthFits, SetupIsStored, DisableAsked, Same
<1>5. Heard' => SetupIsNew'
  BY <1>3 DEF SecurityFits, AuthFits, SetupIsNew, DisableAsked, Joins
<1>6. Heard' => CodesAreGood'
  BY <1>3 DEF CodesAreGood, Heard, DisableAsked, Joins, Checking
<1>7. Heard' => EnabledIsKnown'
  BY <1>3 DEF SecurityFits, AuthFits, EnabledIsKnown, DisableAsked, Joins, Same
<1> QED BY <1>1, <1>2, <1>4, <1>5, <1>6, <1>7 DEF SecurityFits, AuthFits

LEMMA DisableHeardFits ==
  ASSUME SecurityCalls, ReadsMarked, SecurityFits, DisableHeard
  PROVE  SecurityFits'
<1>1. SecurityTypes'
  BY DEF SecurityCalls, SecurityFits, SecurityTypes, DisableHeard, Joins, New, Waits, Same,
         SettingUp
<1>2. SetupFits'
  BY DEF SecurityFits, SetupFits, DisableHeard, Joins, Waits, Same
<1>3. Heard' => Heard
  BY DEF Heard, DisableHeard, Joins, New, Waits, Same, SettingUp
<1>4. Heard' => SetupIsStored'
  BY <1>3 DEF SecurityFits, AuthFits, SetupIsStored, DisableHeard, Same
<1>5. Heard' => SetupIsNew'
  BY <1>3 DEF SecurityFits, AuthFits, SetupIsNew, DisableHeard, Joins
<1>6. Heard' => CodesAreGood'
  BY <1>3 DEF SecurityFits, AuthFits, CodesAreGood, DisableHeard, Joins
<1>7. Heard' => EnabledIsKnown'
  BY <1>3 DEF SecurityFits, AuthFits, EnabledIsKnown, DisableHeard, Joins, New, Waits, Same
<1> QED BY <1>1, <1>2, <1>4, <1>5, <1>6, <1>7 DEF SecurityFits, AuthFits

LEMMA ProfileHeardFits ==
  ASSUME SecurityCalls, ReadsMarked, SecurityFits, ProfileHeard
  PROVE  SecurityFits'
<1>1. SecurityTypes'
  BY DEF SecurityCalls, SecurityFits, SecurityTypes, ProfileHeard, Joins, New, Waits, Same,
         SettingUp
<1>2. SetupFits'
  BY DEF SecurityFits, SetupFits, ProfileHeard, Joins, Waits, Same
<1>3. Heard' => Heard
  BY DEF Heard, ProfileHeard, Joins, New, Waits, Same, SettingUp
<1>4. Heard' => SetupIsStored'
  BY <1>3 DEF SecurityFits, AuthFits, SetupIsStored, ProfileHeard, Same
<1>5. Heard' => SetupIsNew'
  BY <1>3 DEF SecurityFits, AuthFits, SetupIsNew, ProfileHeard, Joins
<1>6. Heard' => CodesAreGood'
  BY <1>3 DEF SecurityFits, AuthFits, CodesAreGood, ProfileHeard, Joins, Waits
<1>7. Heard' => EnabledIsKnown'
  BY <1>3 DEF SecurityCalls, SecurityFits, ReadsMarked, AuthFits, EnabledIsKnown, Heard, ProfileHeard,
              Joins, Waits
<1> QED BY <1>1, <1>2, <1>4, <1>5, <1>6, <1>7 DEF SecurityFits, AuthFits

LEMMA PasskeysHeardFits ==
  ASSUME SecurityCalls, ReadsMarked, SecurityFits, PasskeysHeard
  PROVE  SecurityFits'
<1>1. SecurityTypes'
  BY DEF SecurityCalls, SecurityFits, SecurityTypes, PasskeysHeard, Joins, New, Waits, Same,
         SettingUp
<1>2. SetupFits'
  BY DEF SecurityFits, SetupFits, PasskeysHeard, Waits, Same
<1>3. Heard' => Heard
  BY DEF Heard, PasskeysHeard, Joins, New, Waits, Same, SettingUp
<1>4. Heard' => SetupIsStored'
  BY <1>3 DEF SecurityFits, AuthFits, SetupIsStored, PasskeysHeard, Waits, Same
<1>5. Heard' => SetupIsNew'
  BY <1>3 DEF SecurityFits, AuthFits, SetupIsNew, PasskeysHeard, Waits, Same
<1>6. Heard' => CodesAreGood'
  BY <1>3 DEF SecurityFits, AuthFits, CodesAreGood, PasskeysHeard, Waits
<1>7. Heard' => EnabledIsKnown'
  BY <1>3 DEF SecurityFits, AuthFits, EnabledIsKnown, PasskeysHeard, Waits, Same
<1> QED BY <1>1, <1>2, <1>4, <1>5, <1>6, <1>7 DEF SecurityFits, AuthFits

LEMMA OtherAskedFits ==
  ASSUME SecurityCalls, ReadsMarked, SecurityFits, OtherAsked
  PROVE  SecurityFits'
<1>1. SecurityTypes'
  BY DEF SecurityCalls, SecurityFits, SecurityTypes, OtherAsked, Joins, New, Waits, Same,
         SettingUp
<1>2. SetupFits'
  BY DEF SecurityCalls, SecurityFits, SecurityTypes, SetupFits, OtherAsked, Joins, New, Waits, Same,
         SettingUp
<1>3. Heard' => Heard
  BY DEF Heard, OtherAsked, Joins, New, Waits, Same, SettingUp
<1>4. Heard' => SetupIsStored'
  BY <1>3 DEF SecurityFits, AuthFits, SetupIsStored, OtherAsked, Waits, Same
<1>5. Heard' => SetupIsNew'
  BY <1>3 DEF SecurityFits, AuthFits, SetupIsNew, OtherAsked, Waits, Same
<1>6. Heard' => CodesAreGood'
  BY <1>3 DEF SecurityFits, AuthFits, CodesAreGood, OtherAsked, Waits
<1>7. Heard' => EnabledIsKnown'
  BY <1>3 DEF SecurityFits, AuthFits, EnabledIsKnown, OtherAsked, Waits, Same
<1> QED BY <1>1, <1>2, <1>4, <1>5, <1>6, <1>7 DEF SecurityFits, AuthFits

LEMMA OtherHeardFits ==
  ASSUME SecurityCalls, ReadsMarked, SecurityFits, OtherHeard
  PROVE  SecurityFits'
<1>1. SecurityTypes'
  BY DEF SecurityCalls, SecurityFits, SecurityTypes, OtherHeard, Joins, New, Waits, Same,
         SettingUp
<1>2. SetupFits'
  BY DEF SecurityCalls, SecurityFits, SecurityTypes, SetupFits, OtherHeard, Joins, New, Waits, Same,
         SettingUp
<1>3. Heard' => Heard
  BY DEF Heard, OtherHeard, Joins, New, Waits, Same, SettingUp
<1>4. Heard' => SetupIsStored'
  BY <1>3 DEF SecurityFits, AuthFits, SetupIsStored, OtherHeard, Joins, Waits, Same
<1>5. Heard' => SetupIsNew'
  BY <1>3 DEF SecurityFits, AuthFits, SetupIsNew, OtherHeard, Joins, Waits, Same
<1>6. Heard' => CodesAreGood'
  BY <1>3 DEF SecurityFits, AuthFits, CodesAreGood, OtherHeard, Joins, Waits
<1>7. Heard' => EnabledIsKnown'
  BY <1>3 DEF SecurityFits, AuthFits, EnabledIsKnown, OtherHeard, Joins, Waits, Same
<1> QED BY <1>1, <1>2, <1>4, <1>5, <1>6, <1>7 DEF SecurityFits, AuthFits

LEMMA SetupServedFits ==
  ASSUME SecurityCalls, ReadsMarked, SecurityFits, NEW c \in calls, NEW e, Turns(e, c),
         UNCHANGED <<page, ui, meant>>,
         c.fn = "setupMfa", c.st = "sent",
         NEW s \in Secrets, Serves(c, e, Stored(s), {s})
  PROVE  SecurityFits'
<1>1. /\ DOMAIN db' = DOMAIN db /\ db'.enabled = db.enabled /\ {s} # None
      /\ \/ db'.secret = {s} /\ db'.issued = db.issued \cup {s}
         \/ db'.secret = db.secret /\ db'.issued = db.issued
      /\ \/ e.st = "ok" /\ e.res = {s} /\ db'.secret = {s} /\ marks' = marks
         \/ e.st = "failed" /\ db'.secret = db.secret /\ marks' = marks
         \/ e.st = "failed" /\ marks' = marks \cup {"lost"}
  BY SecurityPageAssumption DEF Serves, Fails, Stored, SecurityCalls, SecurityFits, SecurityTypes
<1>2. SecurityTypes'
  BY <1>1 DEF SecurityCalls, SecurityFits, SecurityTypes, Turns, Answers, SettingUp
<1>3. SetupFits'
  BY <1>1 DEF SecurityCalls, SecurityFits, SetupFits, Turns, Answers, SettingUp
<1>4. Heard' => Heard
  BY <1>1 DEF Heard
<1>5. Heard' => SetupIsStored'
  BY <1>1, <1>4 DEF SecurityFits, AuthFits, SetupIsStored
<1>6. Heard' => SetupIsNew'
  BY <1>1, <1>4 DEF SecurityFits, SetupFits, AuthFits, SetupIsNew, Heard, Turns
<1>7. Heard' => CodesAreGood'
  BY <1>1, <1>4 DEF SecurityFits, SetupFits, CodesAreGood, Heard, Turns, Answers
<1>8. Heard' => EnabledIsKnown'
  BY <1>1, <1>4 DEF SecurityFits, AuthFits, SetupIsNew, EnabledIsKnown
<1> QED BY <1>2, <1>3, <1>5, <1>6, <1>7, <1>8 DEF SecurityFits, AuthFits

LEMMA VerifyCheckedFits ==
  ASSUME SecurityCalls, ReadsMarked, SecurityFits, NEW c \in calls, NEW e, Turns(e, c),
         UNCHANGED <<page, ui, meant>>,
         c.fn = "verifyMfaSetup", c.st = "sent",
         UNCHANGED <<db, marks>>, e.st = "failed" \/ (e.st = "half" /\ c.body = db.secret)
  PROVE  SecurityFits'
<1>2. SecurityTypes'
  BY DEF SecurityCalls, SecurityFits, SecurityTypes, Turns, Answers, SettingUp
<1>3. SetupFits'
  BY DEF SecurityCalls, SecurityFits, SetupFits, Turns, Answers, SettingUp
<1>4. Heard' => Heard
  BY DEF Heard
<1>5. Heard' => SetupIsStored'
  BY <1>4 DEF SecurityFits, AuthFits, SetupIsStored, Turns, Answers
<1>6. Heard' => SetupIsNew'
  BY <1>4 DEF SecurityFits, AuthFits, SetupIsNew, Turns, Answers
<1>7. Heard' => CodesAreGood'
  BY <1>4 DEF SecurityFits, AuthFits, CodesAreGood, Turns, Answers
<1>8. Heard' => EnabledIsKnown'
  BY <1>4 DEF SecurityFits, AuthFits, EnabledIsKnown, Turns
<1> QED BY <1>2, <1>3, <1>5, <1>6, <1>7, <1>8 DEF SecurityFits, AuthFits

LEMMA VerifyServedFits ==
  ASSUME SecurityCalls, ReadsMarked, SecurityFits, NEW c \in calls, NEW e, Turns(e, c),
         UNCHANGED <<page, ui, meant>>,
         c.fn = "verifyMfaSetup", c.st = "half",
         Serves(c, e, [db EXCEPT !.enabled = TRUE], None)
  PROVE  SecurityFits'
<1>1. /\ DOMAIN db' = DOMAIN db /\ db'.secret = db.secret /\ db'.issued = db.issued
      /\ \/ e.st = "ok" /\ db'.enabled = TRUE /\ marks' = marks
         \/ e.st = "failed" /\ db'.enabled = db.enabled /\ marks' = marks
         \/ e.st = "failed" /\ db'.enabled = TRUE /\ marks' = marks \cup {"lost"}
  BY SecurityPageAssumption DEF Serves, Fails, Stored, SecurityCalls, SecurityFits, SecurityTypes
<1>2. SecurityTypes'
  BY <1>1 DEF SecurityCalls, SecurityFits, SecurityTypes, Turns, Answers, SettingUp
<1>3. SetupFits'
  BY <1>1 DEF SecurityCalls, SecurityFits, SetupFits, Turns, Answers, SettingUp
<1>4. Heard' => Heard
  BY <1>1 DEF Heard
<1>5. Heard' => SetupIsStored'
  BY <1>1, <1>4 DEF SecurityFits, AuthFits, SetupIsStored, Turns, Answers
<1>6. Heard' => SetupIsNew'
  BY <1>1, <1>4 DEF SecurityFits, SetupFits, SetupIsNew, Heard, Turns, Answers
<1>7. Heard' => CodesAreGood'
  BY <1>1, <1>4 DEF SecurityFits, AuthFits, CodesAreGood, Turns, Answers
<1>8. Heard' => EnabledIsKnown'
  BY <1>1, <1>4 DEF SecurityFits, AuthFits, CodesAreGood, EnabledIsKnown, Heard, Turns, Answers
<1> QED BY <1>2, <1>3, <1>5, <1>6, <1>7, <1>8 DEF SecurityFits, AuthFits

LEMMA DisableServedFits ==
  ASSUME SecurityCalls, ReadsMarked, SecurityFits, NEW c \in calls, NEW e, Turns(e, c),
         UNCHANGED <<page, ui, meant>>,
         c.fn = "disableMfa", c.st = "sent",
         Serves(c, e, [db EXCEPT !.enabled = FALSE, !.secret = {}], None)
  PROVE  SecurityFits'
<1>1. /\ DOMAIN db' = DOMAIN db /\ db'.issued = db.issued
      /\ \/ e.st = "ok" /\ db'.enabled = FALSE /\ marks' = marks
         \/ e.st = "failed" /\ db'.secret = db.secret /\ db'.enabled = db.enabled /\ marks' = marks
         \/ e.st = "failed" /\ db'.enabled = FALSE /\ marks' = marks \cup {"lost"}
  BY SecurityPageAssumption DEF Serves, Fails, Stored, SecurityCalls, SecurityFits, SecurityTypes
<1>2. SecurityTypes'
  BY <1>1 DEF SecurityCalls, SecurityFits, SecurityTypes, Turns, Answers, SettingUp
<1>3. SetupFits'
  BY <1>1 DEF SecurityCalls, SecurityFits, SetupFits, Turns, Answers, SettingUp
<1>4. Heard' => Heard
  BY <1>1 DEF Heard
<1>5. Heard' => SetupIsStored'
  BY <1>1, <1>4 DEF SecurityFits, AuthFits, SetupIsStored
<1>6. Heard' => SetupIsNew'
  BY <1>1, <1>4 DEF SecurityFits, AuthFits, SetupIsNew, Turns, Answers
<1>7. Heard' => CodesAreGood'
  BY <1>1, <1>4 DEF SecurityFits, AuthFits, CodesAreGood, Turns, Answers
<1>8. Heard' => EnabledIsKnown'
  BY <1>1, <1>4 DEF SecurityFits, AuthFits, EnabledIsKnown, Turns
<1> QED BY <1>2, <1>3, <1>5, <1>6, <1>7, <1>8 DEF SecurityFits, AuthFits

LEMMA OtherServedFits ==
  ASSUME SecurityCalls, ReadsMarked, SecurityFits, NEW c \in calls, NEW e, Turns(e, c),
         UNCHANGED <<page, ui, meant>>,
         c.st = "sent",
         c.fn \notin {"setupMfa", "verifyMfaSetup", "disableMfa"}, NEW r, Serves(c, e, db', r),
         \A k \in {"enabled", "secret", "issued"} : db'[k] = db[k], DOMAIN db' = DOMAIN db,
         c.fn = "fetchProfile" => r = db
  PROVE  SecurityFits'
<1>1. /\ db'.enabled = db.enabled /\ db'.secret = db.secret /\ db'.issued = db.issued
      /\ \/ e.st = "ok" /\ e.res = r /\ marks' = marks
         \/ /\ e.st = "failed" /\ c.fn # "fetchProfile"
            /\ marks \subseteq marks' /\ marks' \subseteq marks \cup {"unread", "lost"}
         \/ e.st = "failed" /\ marks' \in {marks \cup {"unread"}, marks \cup {"lost"}}
  BY SecurityPageAssumption DEF Serves, Fails, Stored, SecurityCalls, SecurityFits, SecurityTypes
<1>2. SecurityTypes'
  BY <1>1 DEF SecurityCalls, SecurityFits, SecurityTypes, Turns, Answers, SettingUp
<1>3. SetupFits'
  BY <1>1 DEF SecurityCalls, SecurityFits, SetupFits, Turns, Answers, SettingUp
<1>4. Heard' => Heard
  BY <1>1 DEF Heard
<1>5. Heard' => SetupIsStored'
  BY <1>1, <1>4 DEF SecurityFits, AuthFits, SetupIsStored, Turns, Answers
<1>6. Heard' => SetupIsNew'
  BY <1>1, <1>4 DEF SecurityFits, AuthFits, SetupIsNew, Turns, Answers
<1>7. Heard' => CodesAreGood'
  BY <1>1, <1>4 DEF SecurityFits, AuthFits, CodesAreGood, Turns, Answers
<1>8. Heard' => EnabledIsKnown'
  BY <1>1, <1>4 DEF SecurityFits, AuthFits, EnabledIsKnown, Turns, Answers
<1> QED BY <1>2, <1>3, <1>5, <1>6, <1>7, <1>8 DEF SecurityFits, AuthFits

LEMMA SecurityServedFits ==
  ASSUME SecurityCalls, ReadsMarked, SecurityFits, SecurityServed
  PROVE  SecurityFits'
<1>1. PICK c \in calls : \E e : Turns(e, c) /\ ServesSecurity(c, e)
  BY DEF SecurityServed
<1>2. PICK e : Turns(e, c) /\ ServesSecurity(c, e)
  BY <1>1
<1>3. UNCHANGED <<page, ui, meant>>
  BY DEF SecurityServed
<1>4. DOMAIN db = {"enabled", "secret", "issued", "passkeys", "passwords"}
  BY DEF SecurityFits, SecurityTypes
<1>5. ASSUME c.st = "sent", c.fn \notin {"setupMfa", "verifyMfaSetup", "disableMfa"},
             NEW d \in {db, [db EXCEPT !.passwords = @ + 1], [db EXCEPT !.passkeys = @ + 1]},
             NEW r, Serves(c, e, d, r), c.fn = "fetchProfile" => r = db
      PROVE  SecurityFits'
  <2>1. (\A k \in {"enabled", "secret", "issued"} : db'[k] = db[k]) /\ DOMAIN db' = DOMAIN db
    BY <1>4, <1>5 DEF Serves, Fails
  <2>2. Serves(c, e, db', r)
    BY <1>5 DEF Serves, Fails
  <2> QED BY <1>2, <1>3, <1>5, <2>1, <2>2, OtherServedFits
<1>6. CASE c.fn \in {"setupMfa", "verifyMfaSetup", "disableMfa"}
  BY <1>2, <1>3, <1>6, SetupServedFits, VerifyCheckedFits, VerifyServedFits, DisableServedFits
     DEF ServesSecurity, SecurityCalls
<1>7. CASE c.fn \notin {"setupMfa", "verifyMfaSetup", "disableMfa"}
  BY <1>2, <1>5, <1>7 DEF ServesSecurity
<1> QED BY <1>6, <1>7
-----------------------------------------------------------------------------
(* The pages that submit a form.  There is one request at most, and the     *)
(* form is gone before what it asked for could be done again.               *)
FormFits ==
  page \in FormPageNames \ {"consent"} =>
    /\ DOMAIN db = {"accepted"}
    /\ \A c, d \in calls : c = d
    /\ "lost" \notin marks =>
         \/ db.accepted = 0 /\ \A c \in calls : c.st # "ok"
         \/ db.accepted = 1 /\ calls = {} /\ ui.sel = "done"
         \/ db.accepted = 1 /\ \E c \in calls : c.st = "ok"

LEMMA SubmitFits ==
  ASSUME Base, FlagsFit, FormFits, page \in FormPageNames \ {"consent", "verify-email"},
         NEW fn, <<fn, "submit">> \in Asks(page), Submit(fn)
  PROVE  FormFits'
<1>1. Fits(fn, "submit", "loading")
  BY DEF Fits, Asks, FlagFits, FormPageNames
<1>2. /\ Waits /\ ui' = Raise("loading")
      /\ \E d : Joins(d, calls, fn, "submit", None, "loading")
  BY <1>1, ClickForm DEF Submit, Start
<1>3. \A c \in calls : c.flag = "loading"
  BY DEF Base, CallsFit, IsCall, Fits, Asks, FlagFits, FormPageNames
<1>4. calls = {}
  BY <1>3 DEF Submit, FormOffered, FlagsFit, Lone
<1>5. ui.sel = "form"
  BY DEF Submit, FormOffered
<1> QED BY <1>2, <1>4, <1>5 DEF FormFits, Waits, Joins, New

LEMMA SubmittedFits ==
  ASSUME Base, FormFits, page \in FormPageNames \ {"consent"},
         NEW c \in calls, c.st \in {"ok", "failed"}, NEW u, Resume(calls \ {c}, u),
         c.st = "ok" => u.sel = "done"
  PROVE  FormFits'
<1>1. Waits /\ ui' = u /\ calls' = calls \ {c}
  BY EndForm
<1> QED BY <1>1 DEF FormFits, Waits

LEMMA FormPagesFits ==
  ASSUME Base, FlagsFit, FormFits, FormPagesNext
  PROVE  FormFits'
<1>1. page \in FormPageNames /\ page' = page
  BY FormPagesEffect DEF FormPagesNext, Effect
<1> SUFFICES ASSUME page # "consent"
             PROVE  FormFits'
  BY <1>1 DEF FormFits
<1>2. CASE ServeForm
  <2> DEFINE d == [db EXCEPT !.accepted = @ + 1]
  <2>1. PICK c \in calls : c.st = "sent" /\ Reply(c, TRUE, d, None)
    BY <1>2 DEF ServeForm
  <2>2. DOMAIN d = DOMAIN db /\ d.accepted = db.accepted + 1
    BY <1>1 DEF FormFits
  <2> HIDE DEF d
  <2>3. PICK e : Turns(e, c) /\ Serves(c, e, d, None)
    BY <2>1, ReplyServes
  <2>4. ui' = ui
    BY <2>1 DEF Reply
  <2>5. calls = {c} /\ calls' = {e}
    BY <1>1, <2>3 DEF FormFits, Turns
  <2>6. \/ db' = d /\ e.st = "ok" /\ marks' = marks
        \/ db' = db /\ e.st = "failed" /\ marks \subseteq marks'
        \/ db' = d /\ "lost" \in marks'
    BY <2>3 DEF Serves, Fails
  <2> QED BY <1>1, <2>1, <2>2, <2>4, <2>5, <2>6 DEF FormFits
<1>3. ASSUME NEW fn, NEW bad, Submitted(fn, "done", bad)
      PROVE  FormFits'
  <2> DEFINE u(c) == [Drop(ui, c.flag) EXCEPT !.sel = IF c.st = "ok" THEN "done" ELSE bad]
  <2>1. PICK c \in Answered(fn) : Resume(calls \ {c}, u(c))
    BY <1>3 DEF Submitted
  <2>2. c.st = "ok" => u(c).sel = "done"
    BY <1>1, FormsUi, DropFields
  <2> HIDE DEF u
  <2> QED BY <1>1, <2>1, <2>2, SubmittedFits DEF Answered
<1>4. CASE HandleRegister \/ HandleSubmit \/ HandleReset \/ HandleVerify
  BY <1>1, <1>3, <1>4, SubmitFits
     DEF HandleRegister, HandleSubmit, HandleReset, HandleVerify, At, Asks
<1>5. CASE VerifyEmail
  <2> DEFINE u(c) == [ui EXCEPT !.loading = FALSE, !.sel = IF c.st = "ok" THEN "done" ELSE "error"]
  <2>1. PICK c \in Answered("verifyEmail") : Resume(calls \ {c}, u(c))
    BY <1>5 DEF VerifyEmail
  <2>2. c.st = "ok" => u(c).sel = "done"
    BY <1>1, FormsUi
  <2> HIDE DEF u
  <2> QED BY <1>1, <2>1, <2>2, SubmittedFits DEF Answered
<1>6. CASE TryAgain
  BY <1>1, <1>6 DEF TryAgain, Type, FormFits
<1> QED BY <1>2, <1>4, <1>5, <1>6 DEF FormPagesNext, HandleConsent, At
-----------------------------------------------------------------------------
(* A page that has been mounted awaits nothing, one answer or two.          *)
Awaits(fn, flag, cs, d) == New(d, cs) /\ d.fn = fn /\ d.flag = flag

Started ==
  /\ DOMAIN ui = UiFields /\ ui.loading \in BOOLEAN /\ ui.secret = None /\ OverlapMarked
  /\ \/ calls = {} /\ ~ui.loading /\ ui.busy = {}
     \/ \E fn \in Loaders : \E d : Awaits(fn, "none", {}, d) /\ calls = {d} /\ ui.busy = {}
     \/ \E fn \in Loaders : \E fn2 : \E flag : \E d : \E e :
          /\ Awaits(fn, "none", {}, d) /\ Awaits(fn2, flag, {d}, e)
          /\ calls = {d} \cup {e} /\ ui.busy = {flag} \ {"none"}
          /\ flag \in {"none", "oidcLoading"}

LEMMA OneAwaited ==
  ASSUME NEW fn, NEW op, NEW body, NEW flag, Fits(fn, op, flag)
  PROVE  \E d : Awaits(fn, flag, {}, d) /\ Sent({}, fn, op, body, flag) = {d} /\ d.op = op /\ d.body = body
<1>1. IsFiniteSet({}) /\ Cardinality({}) = 0
  BY FS_EmptySet
<1>2. 0 <= MaxCalls
  BY WebPageAssumption
<1>3. PICK d : /\ Sent({}, fn, op, body, flag) = {} \cup {d}
               /\ New(d, {})
               /\ d.fn = fn /\ d.op = op /\ d.body = body /\ d.flag = flag
  BY <1>1, <1>2, SentNew
<1>4. {} \cup {d} = {d}
  OBVIOUS
<1> QED BY <1>3, <1>4 DEF Awaits

LEMMA StartedFits ==
  ASSUME Started, page \in Pages, inputs = 0, marks = {}
  PROVE  NoSecret /\ Base /\ FlagsFit /\ ReadsMarked /\ OverlapMarked
<1>0. NoSecret
  BY DEF Started, NoSecret
<1>1. MaxCalls \in Nat /\ MaxCalls > 2 /\ MaxInputs[page] \in Nat
  BY WebPageAssumption
<1>2. Bounded
  BY <1>1 DEF Bounded
<1>3. UiFits
  BY DEF Started, UiFits
<1>4. ASSUME calls = {}, ~ui.loading, ui.busy = {}
      PROVE  Base /\ FlagsFit /\ ReadsMarked /\ OverlapMarked
  <2>1. CallsFit
    BY <1>1, <1>4, FS_EmptySet DEF CallsFit
  <2> QED BY <1>2, <1>3, <1>4, <2>1 DEF Started, Base, FlagsFit, Busy, ReadsMarked
<1>5. ASSUME NEW fn \in Loaders, NEW d, Awaits(fn, "none", {}, d), calls = {d}, ui.busy = {}
      PROVE  Base /\ FlagsFit /\ ReadsMarked /\ OverlapMarked
  <2>1. IsFiniteSet({d}) /\ Cardinality({d}) = 1
    BY FS_Singleton
  <2>2. CallsFit
    BY <1>1, <1>5, <2>1 DEF CallsFit, Awaits, New
  <2> QED BY <1>2, <1>3, <1>5, <2>2 DEF Started, Base, FlagsFit, Busy, ReadsMarked, Awaits, New, Lone
<1>6. ASSUME NEW fn \in Loaders, NEW fn2, NEW flag \in {"none", "oidcLoading"}, NEW d, NEW e,
             Awaits(fn, "none", {}, d), Awaits(fn2, flag, {d}, e),
             calls = {d} \cup {e}, ui.busy = {flag} \ {"none"}
      PROVE  Base /\ FlagsFit /\ ReadsMarked /\ OverlapMarked
  <2>1. IsFiniteSet({d}) /\ Cardinality({d}) = 1
    BY FS_Singleton
  <2>2. /\ IsFiniteSet({d} \cup {e})
        /\ Cardinality({d} \cup {e}) \in {Cardinality({d}), Cardinality({d}) + 1}
    BY <2>1, FS_AddElement
  <2>3. IsFiniteSet(calls) /\ Cardinality(calls) <= MaxCalls
    BY <1>1, <1>6, <2>1, <2>2
  <2>4. CallsFit
    BY <1>6, <2>3 DEF CallsFit, Awaits, New
  <2> QED BY <1>2, <1>3, <1>6, <2>4 DEF Started, Base, FlagsFit, Busy, ReadsMarked, Awaits, New, Lone
<1>7. Base /\ FlagsFit /\ ReadsMarked /\ OverlapMarked
  BY <1>4, <1>5, <1>6 DEF Started
<1> QED BY <1>0, <1>7

LEMMA OneStarted ==
  ASSUME NEW fn \in Loaders, NEW op, NEW body, Fits(fn, op, "none"), calls = Sent({}, fn, op, body, "none"),
         DOMAIN ui = UiFields, ui.loading \in BOOLEAN, ui.secret = None, ui.busy = {}
  PROVE  Started
<1>1. PICK d : Awaits(fn, "none", {}, d) /\ calls = {d}
  BY OneAwaited
<1>2. OverlapMarked
  BY <1>1 DEF OverlapMarked, Overlap
<1> QED BY <1>1, <1>2 DEF Started

(* Two functions, each of which awaits what it reads.                       *)
Reading(fn, body, fn2, body2, flag) ==
  \E d : \E e :
    /\ Awaits(fn, "none", {}, d) /\ Awaits(fn2, flag, {d}, e) /\ calls = {d} \cup {e}
    /\ d.op = "read" /\ d.body = body /\ e.op = "read" /\ e.body = body2

LEMMA TwoStarted ==
  ASSUME NEW fn \in Loaders, NEW body, Fits(fn, "read", "none"),
         NEW fn2 \in Loaders \cup {"fetchOidcKeys"}, NEW body2,
         NEW flag \in {"none", "oidcLoading"}, Fits(fn2, "read", flag),
         body \cap body2 = {},
         calls = Sent(Sent({}, fn, "read", body, "none"), fn2, "read", body2, flag),
         DOMAIN ui = UiFields, ui.loading \in BOOLEAN, ui.secret = None, ui.busy = {flag} \ {"none"}
  PROVE  Started /\ Reading(fn, body, fn2, body2, flag)
<1>1. PICK d : /\ Awaits(fn, "none", {}, d) /\ Sent({}, fn, "read", body, "none") = {d}
               /\ d.op = "read" /\ d.body = body
  BY OneAwaited
<1>2. IsFiniteSet({d}) /\ Cardinality({d}) = 1
  BY FS_Singleton
<1>3. 1 <= MaxCalls
  BY WebPageAssumption
<1>4. PICK e : /\ Sent({d}, fn2, "read", body2, flag) = {d} \cup {e}
               /\ New(e, {d})
               /\ e.fn = fn2 /\ e.op = "read" /\ e.body = body2 /\ e.flag = flag
  BY <1>2, <1>3, SentNew
<1>5. calls = {d} \cup {e} /\ Awaits(fn2, flag, {d}, e)
  BY <1>1, <1>4 DEF Awaits
<1>6. OverlapMarked
  <2>0. d.op = "read" /\ e.op = "read" /\ d.fn # "createClient" /\ e.fn # "createClient"
    BY <1>1, <1>4 DEF Awaits, Loaders
  <2>1. Shows(d) = d.body /\ Shows(e) = e.body
    BY <2>0 DEF Shows
  <2>2. ASSUME NEW a \in calls, NEW b \in calls, a # b
        PROVE  Shows(a) \cap Shows(b) = {}
    BY <1>1, <1>4, <1>5, <2>1, <2>2
  <2> QED BY <2>2 DEF OverlapMarked, Overlap
<1>7. Started
  BY <1>1, <1>5, <1>6 DEF Started
<1>8. Reading(fn, body, fn2, body2, flag)
  BY <1>1, <1>4, <1>5 DEF Reading
<1> QED BY <1>7, <1>8

LEMMA FreshFields ==
  /\ DOMAIN Fresh = {"loading", "busy", "open", "sel", "form", "draft", "shown", "secret"}
  /\ Fresh.loading = TRUE /\ Fresh.busy = {} /\ Fresh.secret = None
BY DEF Fresh

LEMMA ListStarted ==
  ASSUME page \in ListPageNames, ListMounted(page)
  PROVE  Started
<1>1. DOMAIN ui = UiFields /\ ui.secret = None /\ ui.loading = TRUE /\ ui.busy = {}
  BY FreshFields DEF ListMounted, ListPageNames, UiFields
<1>2. Fits(FetchOf(page), "read", "none") /\ FetchOf(page) \in Loaders
  BY DEF ListPageNames, FetchOf, Fits, Asks, FlagFits, Loaders
<1> QED BY <1>1, <1>2, OneStarted DEF ListMounted

LEMMA RecordStarted ==
  ASSUME page \in RecordPageNames, RecordMounted(page)
  PROVE  Started
<1>0. page \in {"user-detail", "application-detail", "settings", "admin-dashboard", "profile"}
  BY DEF RecordPageNames, Fields
<1>1. /\ DOMAIN ui = UiFields /\ ui.secret = None /\ ui.loading = TRUE
      /\ ui.busy = IF page = "settings" THEN {"oidcLoading"} ELSE {}
  BY <1>0, FreshFields DEF RecordMounted, UiFields
<1>2. CASE page = "user-detail"
  <2>1. Fits("fetchUser", "read", "none") /\ "fetchUser" \in Loaders
    BY <1>2 DEF Fits, Asks, FlagFits, Loaders
  <2> QED BY <1>1, <1>2, <2>1, OneStarted DEF RecordMounted
<1>3. CASE page = "application-detail"
  <2>1. Fits("fetchClient", "read", "none") /\ "fetchClient" \in Loaders
    BY <1>3 DEF Fits, Asks, FlagFits, Loaders
  <2> QED BY <1>1, <1>3, <2>1, OneStarted DEF RecordMounted
<1>4. CASE page = "profile"
  <2>1. Fits("fetchProfile", "read", "none") /\ "fetchProfile" \in Loaders
    BY <1>4 DEF Fits, Asks, FlagFits, Loaders
  <2> QED BY <1>1, <1>4, <2>1, OneStarted DEF RecordMounted
<1>5. CASE page = "settings"
  <2>1. /\ Fits("fetchScopes", "read", "none") /\ "fetchScopes" \in Loaders
        /\ Fits("fetchOidcKeys", "read", "oidcLoading")
    BY <1>5 DEF Fits, Asks, FlagFits, Loaders
  <2>2. calls = Sent(Sent({}, "fetchScopes", "read", {"scopes"}, "none"),
                     "fetchOidcKeys", "read", {"keys"}, "oidcLoading")
    BY <1>5 DEF RecordMounted
  <2>3. ui.busy = {"oidcLoading"} \ {"none"} /\ {"scopes"} \cap {"keys"} = {}
    BY <1>1, <1>5
  <2> QED BY <1>1, <2>1, <2>2, <2>3, TwoStarted
<1>6. CASE page = "admin-dashboard"
  <2>1. Fits("dashboard", "read", "none") /\ "dashboard" \in Loaders
    BY <1>6 DEF Fits, Asks, FlagFits, Loaders
  <2>2. calls = Sent(Sent({}, "dashboard", "read", {"health"}, "none"),
                     "dashboard", "read", {"stats"}, "none")
    BY <1>6 DEF RecordMounted
  <2>3. ui.busy = {"none"} \ {"none"} /\ {"health"} \cap {"stats"} = {}
    BY <1>1, <1>6
  <2> QED BY <1>1, <2>1, <2>2, <2>3, TwoStarted
<1> QED BY <1>0, <1>2, <1>3, <1>4, <1>5, <1>6

LEMMA TokensStarted ==
  ASSUME page = "tokens", TokensMounted
  PROVE  Started
<1>1. DOMAIN ui = UiFields /\ ui.secret = None /\ ui.loading = TRUE /\ ui.busy = {}
  BY DEF TokensMounted, UiFields
<1>2. Fits("fetchTokens", "search", "none") /\ "fetchTokens" \in Loaders
  BY DEF Fits, Asks, FlagFits, Loaders
<1> QED BY <1>1, <1>2, OneStarted DEF TokensMounted

LEMMA SecurityStarted ==
  ASSUME page = "security", SecurityMounted, marks = {}
  PROVE  Started /\ SecurityFits
<1>1. /\ DOMAIN ui = UiFields /\ ui.secret = None /\ ui.loading = TRUE /\ ui.busy = {}
      /\ ui.mfa = None /\ ui.setup = None
  BY DEF SecurityMounted, UiFields
<1>2. Fits("fetchProfile", "read", "none") /\ "fetchProfile" \in Loaders
  BY DEF Fits, Asks, FlagFits, Loaders
<1>3. PICK d : /\ Awaits("fetchProfile", "none", {}, d) /\ calls = {d}
  BY <1>2, OneAwaited DEF SecurityMounted
<1>4. Started
  BY <1>1, <1>2, OneStarted DEF SecurityMounted
<1>5. /\ DOMAIN db = {"enabled", "secret", "issued", "passkeys", "passwords"}
      /\ db.enabled \in BOOLEAN /\ db.secret = meant /\ db.issued = meant
      /\ meant \in {{NewSecret({})}, {}}
  BY DEF SecurityMounted
<1>6. NewSecret({}) \in Secrets
  BY SecurityPageAssumption DEF NewSecret
<1>7. d.fn = "fetchProfile" /\ d.st = "sent"
  BY <1>3 DEF Awaits, New
<1>8. SecurityTypes /\ SetupFits
  BY <1>1, <1>3, <1>5, <1>6, <1>7 DEF SecurityTypes, SetupFits, SettingUp
<1>9. AuthFits
  BY <1>1, <1>3, <1>5, <1>7 DEF AuthFits, SetupIsStored, SetupIsNew, CodesAreGood, EnabledIsKnown
<1> QED BY <1>4, <1>8, <1>9 DEF SecurityFits

LEMMA FormsStarted ==
  ASSUME page \in FormPageNames, FormsMounted(page)
  PROVE  Started /\ FormFits
<1>1. DOMAIN ui = UiFields /\ ui.secret = None /\ ui.loading \in BOOLEAN /\ ui.busy = {}
  BY FreshFields DEF FormsMounted, FormPageNames, UiFields
<1>2. DOMAIN db = {"accepted"} /\ db.accepted = 0
  BY DEF FormsMounted
<1>3. CASE calls = {} /\ ~ui.loading
  BY <1>1, <1>2, <1>3 DEF Started, OverlapMarked, Overlap, FormFits
<1>4. CASE page = "verify-email" /\ calls = Sent({}, "verifyEmail", "submit", None, "none")
  <2>1. Fits("verifyEmail", "submit", "none") /\ "verifyEmail" \in Loaders
    BY <1>4 DEF Fits, Asks, FlagFits, Loaders
  <2>2. PICK d : Awaits("verifyEmail", "none", {}, d) /\ calls = {d}
    BY <1>4, <2>1, OneAwaited
  <2>3. Started
    BY <1>1, <1>4, <2>1, OneStarted
  <2> QED BY <1>2, <2>2, <2>3 DEF FormFits, Awaits, New
<1> QED BY <1>3, <1>4, FreshFields DEF FormsMounted

-----------------------------------------------------------------------------
(* The inductive invariant.                                                 *)
KnownPages ==
  ListPageNames \cup RecordPageNames \cup FormPageNames \cup {"tokens", "security"}

PageInv ==
  /\ page \in KnownPages /\ NoSecret
  /\ Base /\ FlagsFit /\ ReadsMarked /\ OverlapMarked
  /\ page = "security" => SecurityFits
  /\ FormFits

LEMMA InitPageInv ==
  ASSUME Init
  PROVE  PageInv
<1>1. page \in Pages /\ inputs = 0 /\ marks = {}
  BY DEF Init
<1>2. CASE page \in ListPageNames /\ ListMounted(page)
  BY <1>1, <1>2, ListStarted, StartedFits DEF PageInv, KnownPages, ListPageNames, FormFits, FormPageNames
<1>3. CASE page \in RecordPageNames /\ RecordMounted(page)
  BY <1>1, <1>3, RecordStarted, StartedFits
     DEF PageInv, KnownPages, RecordPageNames, Fields, FormFits, FormPageNames
<1>4. CASE page = "tokens" /\ TokensMounted
  BY <1>1, <1>4, TokensStarted, StartedFits DEF PageInv, KnownPages, FormFits, FormPageNames
<1>5. CASE page = "security" /\ SecurityMounted
  BY <1>1, <1>5, SecurityStarted, StartedFits DEF PageInv, KnownPages, FormFits, FormPageNames
<1>6. CASE page \in FormPageNames /\ FormsMounted(page)
  BY <1>1, <1>6, FormsStarted, StartedFits DEF PageInv, KnownPages, FormPageNames
<1> QED BY <1>2, <1>3, <1>4, <1>5, <1>6 DEF Init

LEMMA SecurityNextFits ==
  ASSUME PageInv, page = "security", SecurityPageNext
  PROVE  SecurityFits'
<1>1. Base /\ ReadsMarked /\ SecurityFits /\ SecurityCalls
  BY SecurityCallsHold DEF PageInv
<1>2. CASE ServeSecurity
  <2>1. SecurityServed
    BY <1>1, <1>2, ServeSecurityForm DEF SecurityFits, SecurityTypes
  <2> QED BY <1>1, <2>1, SecurityServedFits
<1> QED BY <1>1, <1>2, SecurityForms, SetupAskedFits, SetupHeardFits, VerifyAskedFits, VerifyHeardFits,
           CancelledFits, DisableAskedFits, DisableHeardFits, ProfileHeardFits, PasskeysHeardFits,
           OtherAskedFits, OtherHeardFits

LEMMA NextPageInv ==
  ASSUME PageInv, Next
  PROVE  PageInv'
<1>1. Effect
  BY NextEffect DEF PageInv
<1>2. Base' /\ FlagsFit' /\ ReadsMarked' /\ OverlapMarked' /\ NoSecret'
  BY <1>1, EffectBase, EffectFlags, EffectReads, EffectOverlap, EffectSecret DEF PageInv
<1>3. page' = page /\ page' \in KnownPages
  BY <1>1 DEF Effect, PageInv
<1>4. CASE ListPagesNext
  BY <1>2, <1>3, <1>4 DEF PageInv, ListPagesNext, ListPageNames, FormFits, FormPageNames
<1>5. CASE RecordPagesNext
  BY <1>2, <1>3, <1>5 DEF PageInv, RecordPagesNext, RecordPageNames, Fields, FormFits, FormPageNames
<1>6. CASE TokensPageNext
  <2>1. page = "tokens"
    BY <1>6 DEF TokensPageNext, FetchTokens, ApplyFilters, ClearFilters, PreviousPage, NextPage,
               TypeFilters, ShowBulkMenu, ExecuteConfirm, CancelConfirm, Revoked, RevokeToken,
               RevokeByClient, RevokeByUser, At
  <2> QED BY <1>2, <1>3, <2>1 DEF PageInv, FormFits, FormPageNames
<1>7. CASE SecurityPageNext
  <2>1. page = "security"
    BY <1>7, SecurityForms DEF PageInv
  <2> QED BY <1>2, <1>3, <1>7, <2>1, SecurityNextFits DEF PageInv, FormFits, FormPageNames
<1>8. CASE FormPagesNext
  BY <1>2, <1>3, <1>8, FormPagesFits DEF PageInv, FormPagesNext, FormPageNames
<1> QED BY <1>4, <1>5, <1>6, <1>7, <1>8 DEF Next

LEMMA StutterPageInv ==
  ASSUME PageInv, UNCHANGED vars
  PROVE  PageInv'
<1>1. UNCHANGED <<page, ui, db, calls, inputs, marks, meant>>
  BY DEF vars
<1>2. CallsFit'
  <2>1. CallsFit /\ page' = page
    BY <1>1 DEF PageInv, Base
  <2> QED BY <1>1, <2>1 DEF CallsFit, IsCall, Fits, FlagFits
<1>3. UiFits' /\ Bounded'
  BY <1>1 DEF PageInv, Base, UiFits, UiFields, Bounded
<1>4. FlagsFit' /\ ReadsMarked' /\ OverlapMarked'
  BY <1>1 DEF PageInv, FlagsFit, Busy, ReadsMarked, OverlapMarked, Overlap
<1>5. page' = "security" => SecurityTypes' /\ SetupFits'
  BY <1>1 DEF PageInv, SecurityFits, SecurityTypes, SetupFits, SettingUp
<1>6. page' = "security" => AuthFits'
  BY <1>1 DEF PageInv, SecurityFits, AuthFits, Heard, SetupIsStored, SetupIsNew, CodesAreGood,
              EnabledIsKnown
<1>7. FormFits'
  BY <1>1 DEF PageInv, FormFits
<1>8. page' \in KnownPages /\ NoSecret'
  BY <1>1 DEF PageInv, NoSecret
<1> QED BY <1>2, <1>3, <1>4, <1>5, <1>6, <1>7, <1>8 DEF PageInv, Base, SecurityFits

(* Every page, in every behaviour, satisfies the inductive invariant.       *)
THEOREM PageInvariant == Spec => []PageInv
<1>1. Init => PageInv
  BY InitPageInv
<1>2. PageInv /\ [Next]_vars => PageInv'
  BY NextPageInv, StutterPageInv
<1> QED BY <1>1, <1>2, PTL DEF Spec

-----------------------------------------------------------------------------
(* Whatever the answers were, and however many requests a page had under    *)
(* way: when all are read it is not left loading, and its buttons are       *)
(* enabled.                                                                 *)
THEOREM ControlsAlwaysComeBack == Spec => []ControlsComeBack
<1>1. ASSUME PageInv
      PROVE  ControlsComeBack
  <2>1. SUFFICES ASSUME calls = {}
                 PROVE  /\ ~ui.loading
                        /\ ui.busy \subseteq IF page = "security" /\ ui.setup # None
                                             THEN {"settingUpMfa"} ELSE {}
    BY DEF ControlsComeBack, Settled
  <2>2. ~ui.loading /\ Busy(ui) = {}
    BY <1>1, <2>1 DEF PageInv, FlagsFit, Base, UiFits
  <2>3. "settingUpMfa" \in ui.busy => page = "security" /\ ui.setup # None
    BY <1>1, <2>1 DEF PageInv, Base, UiFits, SecurityFits, SetupFits, SettingUp
  <2> QED BY <2>2, <2>3 DEF Busy
<1> QED BY <1>1, PageInvariant, PTL

(* No button that a flag disables has two requests under way, and a form    *)
(* that was accepted is not submitted again.                                *)
THEOREM AlwaysSubmittedOnce == Spec => []SubmittedOnce
<1>1. ASSUME PageInv
      PROVE  SubmittedOnce
  <2>1. ASSUME NEW c \in calls, NEW d \in calls, c.flag = d.flag, c.flag \notin {"none", "confirm"},
               c.flag = "settingUpMfa" => "early" \notin marks
        PROVE  c = d
    <3>1. CASE c.flag = "settingUpMfa"
      <4>1. c.fn = "setupMfa" /\ d.fn = "setupMfa" /\ page = "security"
        BY <1>1, <2>1, <3>1 DEF PageInv, Base, CallsFit, IsCall, Fits, FlagFits
      <4> QED BY <1>1, <2>1, <3>1, <4>1 DEF PageInv, SecurityFits, SetupFits
    <3>2. CASE c.flag # "settingUpMfa"
      BY <1>1, <2>1, <3>2 DEF PageInv, FlagsFit, Lone
    <3> QED BY <3>1, <3>2
  <2>2. page \in FormPageNames \ {"consent"} /\ "lost" \notin marks => db.accepted <= 1
    BY <1>1 DEF PageInv, FormFits
  <2> QED BY <2>1, <2>2 DEF SubmittedOnce
<1> QED BY <1>1, PageInvariant, PTL

(* While MFA is enabled, the authenticator whose code was accepted is the   *)
(* one the server checks codes of.                                          *)
THEOREM AuthenticatorAlwaysWorks == Spec => []AuthenticatorWorks
<1>1. PageInv => AuthenticatorWorks
  BY DEF PageInv, SecurityFits, AuthFits, Heard, EnabledIsKnown, AuthenticatorWorks, Settled
<1> QED BY <1>1, PageInvariant, PTL

=============================================================================
