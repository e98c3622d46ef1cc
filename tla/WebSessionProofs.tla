-------------------------- MODULE WebSessionProofs --------------------------
(***************************************************************************)
(* Proofs about WebSession, for either application, any tabs, tasks,       *)
(* families and administrators, and any number of rotations and inputs.    *)
(***************************************************************************)
EXTENDS WebSession, TLAPS

-----------------------------------------------------------------------------
(* What a task may be doing, and the token it has while it does.            *)
Promised == {"code", "exchange", "github"}

WhatsOf(k) ==
  CASE k = "login"   -> {"none", "cred", "mfa", "userinfo"} \cup Promised
    [] k = "restore" -> {"none", "restore", "userinfo"}
    [] k = "logout"  -> {"none", "revoke"}
    [] OTHER         -> {"none", "call", "delete"}

TaskFits(k, r) ==
  /\ r.what \in WhatsOf(k)
  /\ r.at \in {"idle", "asking"} <=> r.what = "none"
  /\ r.what = "restore" => r.at = "refreshing"
  /\ r.what \in Promised \cup {"userinfo"} => r.tok \in Pair
  /\ r.at = "refreshing" => r.tok \in Pair /\ r.what \notin Promised
  /\ r.at # "refreshing" => r.ans = None
  /\ r.ans \in Pair => r.ans = [r.tok EXCEPT !.n = @ + 1]

TasksFit == \A t \in Tabs, k \in Kinds : TaskFits(k, task[t][k])

(* The console keeps nothing, so it restores and revokes nothing.           *)
ConsoleFits ==
  app = "admin" =>
    /\ storage = None
    /\ \A t \in Tabs : task[t]["restore"].what = "none" /\ task[t]["logout"].what = "none"

(* The tokens of a tab are one pair.                                        *)
TabFits(s, w) ==
  /\ s.access \in {None, s.refresh}
  /\ s.access = None /\ s.refresh # None => w["restore"].what = "restore"

TabsFit == \A t \in Tabs : TabFits(tab[t], task[t])

(* The tasks w of a tab and its memory s are about one session.             *)
LoginEnding(w) == w["login"].what = "userinfo"

Coherent(s, w) ==
  /\ \A k \in Kinds : w[k].at = "refreshing" => s.refresh # None /\ w[k].tok.family = s.refresh.family
  /\ \A k \in Kinds : w[k].what = "userinfo" => s.access # None /\ w[k].tok.family = s.access.family
  /\ s.user # None /\ ~LoginEnding(w) => s.access # None /\ s.access.family = s.user
  /\ w["restore"].what = "restore" => s.user = None /\ ~LoginEnding(w)
  /\ app = "account" /\ ~s.present => s.access = None /\ s.refresh = None /\ s.user = None
  /\ app = "admin" /\ s.access # None /\ ~LoginEnding(w) => s.user # None /\ s.user \in Admins

SessionsFit == \A t \in Tabs \ crossed : Coherent(tab[t], task[t])

(* Families are founded by the exchange of a code, one code each.           *)
Known(p) ==
  \/ p = storage \/ p \in orphans
  \/ \E t \in Tabs : p = tab[t].refresh
  \/ \E t \in Tabs, k \in Kinds : Refreshing(t, k) /\ p \in {task[t][k].tok, task[t][k].ans}

Born(p) == 1 <= p.n /\ p.n <= gen[p.family]

TokensBorn == \A p \in Pair : Known(p) => Born(p)

Promise(t) == task[t]["login"].what \in Promised

CodesFit ==
  \A t \in Tabs : Promise(t) =>
    /\ task[t]["login"].tok.n = 0
    /\ gen[task[t]["login"].tok.family] = 0
    /\ \A u \in Tabs \ {t} :
         Promise(u) => task[u]["login"].tok.family # task[t]["login"].tok.family

(* The token a tab spends next, when it does not risk a reuse.              *)
Live(t) == IF app = "account" THEN storage ELSE tab[t].refresh

Current(p) == p.n = gen[p.family]

(* While no refresh risked a reuse: every refresh under way is the only one *)
(* with its token, what it sends or brings back is current, and no tab      *)
(* holds a token that another one is about to replace.                      *)
RefreshFits(t, k) ==
  LET r == task[t][k] IN
  /\ r.tok \notin orphans /\ r.ans \notin orphans
  /\ \A u \in Tabs, j \in Kinds : Refreshing(u, j) =>
       /\ task[u][j].tok # r.ans
       /\ task[u][j].tok = r.tok => u = t /\ j = k
  /\ r.ans \in Pair => Current(r.ans)
  /\ r.ans \notin Pair => Current(r.tok)
  /\ \A u \in Tabs : Live(u) # None =>
       /\ Live(u) # r.ans
       /\ app = "admin" /\ Live(u) = r.tok => u = t

LiveFits(t) ==
  Live(t) # None =>
    /\ Live(t) \notin orphans
    /\ \/ Current(Live(t))
       \/ \E u \in Tabs, k \in Kinds : Refreshing(u, k) /\ task[u][k].tok = Live(t)
    /\ app = "admin" => \A u \in Tabs : Live(u) = Live(t) => u = t

RefreshesFit ==
  /\ dead = {}
  /\ \A p \in orphans : Current(p)
  /\ \A t \in Tabs, k \in Kinds : Refreshing(t, k) => RefreshFits(t, k)
  /\ \A t \in Tabs : LiveFits(t)

IInv ==
  /\ TypeOK
  /\ TasksFit
  /\ ConsoleFits
  /\ TabsFit
  /\ SessionsFit
  /\ TokensBorn
  /\ CodesFit
  /\ ~slip => RefreshesFit
-----------------------------------------------------------------------------
(* Only task k of tab t, or only the memory of t, changes.                  *)
OnlyTask(t, k) ==
  /\ task' \in [Tabs -> [Kinds -> TaskRecord]]
  /\ \A u \in Tabs, j \in Kinds : u # t \/ j # k => task'[u][j] = task[u][j]

OnlyTab(t) ==
  /\ tab' \in [Tabs -> TabRecord]
  /\ \A u \in Tabs : u # t => tab'[u] = tab[u]

Crossing(t, k) ==
  /\ t \in crossed \/ (\E j \in Kinds \ {k} : Busy(t, j)) => t \in crossed'
  /\ \A u \in Tabs : u # t => (u \in crossed' <=> u \in crossed)
  /\ crossed' \subseteq Tabs

SameSession(t) ==
  /\ OnlyTab(t)
  /\ tab'[t].access = tab[t].access
  /\ tab'[t].refresh = tab[t].refresh
  /\ tab'[t].present = tab[t].present

Unpromising(t, r) ==
  r.what \in Promised =>
    /\ r.tok.n = 0 /\ gen[r.tok.family] = 0
    /\ \A u \in Tabs : task[u]["login"].tok # r.tok

(* What the steps of WebSession do to the sessions and their tokens: each   *)
(* step has one of these effects.                                           *)
Elsewhere(t, k) ==
  /\ k \in Kinds
  /\ OnlyTask(t, k)
  /\ SameSession(t) /\ tab'[t].user = tab[t].user
  /\ TaskFits(k, task'[t][k])
  /\ task[t][k].at # "refreshing" /\ task'[t][k].at # "refreshing"
  /\ task[t][k].what \notin {"restore", "userinfo"}
  /\ task'[t][k].what \notin {"restore", "userinfo"}
  /\ app = "admin" => task'[t][k].what # "revoke"
  /\ Unpromising(t, task'[t][k])
  /\ UNCHANGED <<app, gen, dead, storage, orphans, slip, crossed>>

Moves(t) ==
  /\ SameSession(t) /\ tab'[t].user = tab[t].user
  /\ UNCHANGED <<app, gen, dead, storage, task, orphans, slip, crossed>>

Starts(t, k) ==
  /\ k \in Kinds
  /\ OnlyTask(t, k)
  /\ task[t][k].at = "sent"
  /\ task[t][k].what \notin Promised \cup {"restore"}
  /\ tab[t].refresh # None
  /\ task'[t][k] = [task[t][k] EXCEPT !.at = "refreshing", !.tok = tab[t].refresh]
  /\ slip' = (slip \/ Risky(tab[t].refresh))
  /\ UNCHANGED <<app, gen, dead, storage, tab, orphans, crossed>>

Answers(t, k) ==
  /\ k \in Kinds
  /\ OnlyTask(t, k)
  /\ Refreshing(t, k) /\ task[t][k].ans = None
  /\ Rotated(task[t][k].tok)
  /\ task'[t][k] = [task[t][k] EXCEPT !.ans = RefreshAnswer(task[t][k].tok)]
  /\ UNCHANGED <<app, storage, tab, orphans, slip, crossed>>

Holds(t, p) ==
  /\ OnlyTab(t)
  /\ tab'[t].access = p /\ tab'[t].refresh = p
  /\ tab'[t].user = tab[t].user
  /\ Persist(p)

Resends(t, k) ==
  /\ k \in Kinds
  /\ OnlyTask(t, k)
  /\ Refreshing(t, k) /\ Won(t, k) /\ task[t][k].what # "restore"
  /\ task'[t][k] = [task[t][k] EXCEPT !.at = "resent", !.tok = task[t][k].ans, !.ans = None]
  /\ Holds(t, task[t][k].ans)
  /\ tab'[t].present = tab[t].present
  /\ UNCHANGED <<app, gen, dead, orphans, slip, crossed>>

Founds(t) ==
  LET p == [family |-> task[t]["login"].tok.family, n |-> 1] IN
  /\ OnlyTask(t, "login")
  /\ Promise(t)
  /\ gen' = [gen EXCEPT ![p.family] = 1]
  /\ Holds(t, p)
  /\ app = "account" => tab'[t].present
  /\ task'[t]["login"] = Sent("userinfo", p)
  /\ Crossing(t, "login")
  /\ UNCHANGED <<app, dead, orphans, slip>>

Restores(t) ==
  LET p == task[t]["restore"].ans IN
  /\ app = "account"
  /\ OnlyTask(t, "restore")
  /\ Refreshing(t, "restore") /\ Won(t, "restore") /\ task[t]["restore"].what = "restore"
  /\ Holds(t, p)
  /\ tab'[t].present
  /\ task'[t]["restore"] = Sent("userinfo", p)
  /\ UNCHANGED <<app, gen, dead, orphans, slip, crossed>>

Leaves(t, k) ==
  /\ k \in Kinds
  /\ OnlyTask(t, k) /\ OnlyTab(t)
  /\ tab'[t].access = None /\ tab'[t].refresh = None
  /\ \/ tab'[t].user = None
     \/ task[t][k].what = "restore" /\ tab'[t].user = tab[t].user
  /\ Persist(None)
  /\ task'[t][k].at \in {"idle", "asking"} /\ TaskFits(k, task'[t][k])
  /\ task'[t][k] \in {Idle, task[t][k]}
  /\ orphans' = IF Refreshing(t, k) /\ task[t][k].ans = None THEN orphans \cup {task[t][k].tok}
                ELSE orphans
  /\ Crossing(t, k)
  /\ UNCHANGED <<app, gen, dead, slip>>

Names(t, k) ==
  /\ k \in Kinds
  /\ OnlyTask(t, k)
  /\ SameSession(t)
  /\ task[t][k].what = "userinfo" /\ task[t][k].at # "refreshing"
  /\ tab'[t].user \in {None, task[t][k].tok.family}
  /\ app = "admin" => tab'[t].user = task[t][k].tok.family /\ tab'[t].user \in Admins
  /\ task'[t][k] = Idle
  /\ UNCHANGED <<app, gen, dead, storage, orphans, slip, crossed>>

(* The page is loaded with st in localStorage: nothing of its tasks is left *)
(* but the requests under way.                                              *)
LoadsWith(t, st) ==
  /\ task' \in [Tabs -> [Kinds -> TaskRecord]]
  /\ \A u \in Tabs : u # t => task'[u] = task[u]
  /\ \A k \in Kinds \ {"login", "restore"} : task'[t][k] = Idle
  /\ task'[t]["restore"] = IF st = None THEN Idle
                           ELSE [Sent("restore", st) EXCEPT !.at = "refreshing"]
  /\ \/ task'[t]["login"] = Idle
     \/ /\ task'[t]["login"].at = "sent" /\ task'[t]["login"].what \in Promised
        /\ TaskFits("login", task'[t]["login"])
        /\ Unpromising(t, task'[t]["login"])
  /\ OnlyTab(t)
  /\ tab'[t].access = None /\ tab'[t].refresh = st /\ tab'[t].user = None
  /\ tab'[t].present <=> st # None
  /\ storage' = st
  /\ orphans' = orphans \cup {task[t][k].tok : k \in {j \in Kinds : Refreshing(t, j) /\ task[t][j].ans = None}}
  /\ ~slip' /\ st # None =>
       /\ st \notin orphans
       /\ \A k \in Kinds : ~Refreshing(t, k)
       /\ \A u \in Tabs, k \in Kinds : Refreshing(u, k) => task[u][k].tok # st
  /\ slip => slip'
  /\ slip' \in BOOLEAN
  /\ crossed' = crossed \ {t}
  /\ UNCHANGED <<app, gen, dead>>

Loads(t) == LoadsWith(t, storage) \/ LoadsWith(t, None)

Orphaned(p) ==
  /\ p \in orphans /\ orphans' = orphans \ {p}
  /\ Rotated(p)
  /\ UNCHANGED <<app, storage, tab, task, slip, crossed>>

Effect ==
  \/ \E t \in Tabs :
       \/ \E k \in Kinds : \/ Elsewhere(t, k) \/ Starts(t, k) \/ Answers(t, k)
                           \/ Resends(t, k) \/ Leaves(t, k) \/ Names(t, k)
       \/ Moves(t) \/ Founds(t) \/ Restores(t) \/ Loads(t)
  \/ \E p \in orphans : Orphaned(p)
-----------------------------------------------------------------------------
(* Records of the shapes the actions build.                                 *)
LEMMA IdleFields ==
  /\ Idle \in TaskRecord
  /\ Idle.at = "idle" /\ Idle.what = "none" /\ Idle.tok = None /\ Idle.ans = None
BY DEF Idle, TaskRecord

LEMMA AskingFields ==
  /\ [Idle EXCEPT !.at = "asking"] \in TaskRecord
  /\ [Idle EXCEPT !.at = "asking"].at = "asking"
  /\ [Idle EXCEPT !.at = "asking"].what = "none"
  /\ [Idle EXCEPT !.at = "asking"].tok = None
  /\ [Idle EXCEPT !.at = "asking"].ans = None
BY DEF Idle, TaskRecord

Whats == {"none", "restore", "userinfo", "cred", "code", "exchange", "github", "mfa",
          "revoke", "call", "delete"}

LEMMA SentFields ==
  ASSUME NEW what \in Whats, NEW tok \in Pair \cup {None}
  PROVE  /\ Sent(what, tok) \in TaskRecord
         /\ Sent(what, tok).at = "sent" /\ Sent(what, tok).what = what
         /\ Sent(what, tok).tok = tok /\ Sent(what, tok).ans = None
BY DEF Sent, TaskRecord, Whats

LEMMA TaskFields ==
  ASSUME TypeOK, NEW t \in Tabs, NEW k \in Kinds
  PROVE  /\ task[t][k] \in TaskRecord
         /\ task[t][k].at \in {"idle", "sent", "refreshing", "resent", "asking"}
         /\ task[t][k].what \in Whats
         /\ task[t][k].tok \in Pair \cup {None}
         /\ task[t][k].ans \in Pair \cup {None, Refused}
<1>1. task[t][k] \in TaskRecord
  BY DEF TypeOK
<1> QED BY <1>1 DEF TaskRecord, Whats

LEMMA TabFields ==
  ASSUME TypeOK, NEW t \in Tabs
  PROVE  /\ tab[t] \in TabRecord
         /\ tab[t].access \in Pair \cup {None}
         /\ tab[t].refresh \in Pair \cup {None}
         /\ tab[t].present \in BOOLEAN
         /\ tab[t].user \in Families \cup {None}
<1>1. tab[t] \in TabRecord
  BY DEF TypeOK
<1> QED BY <1>1 DEF TabRecord

LEMMA PairFields ==
  ASSUME NEW p \in Pair
  PROVE  p.family \in Families /\ p.n \in Nat
BY DEF Pair

LEMMA PairOf ==
  ASSUME NEW f \in Families, NEW n \in Nat
  PROVE  /\ [family |-> f, n |-> n] \in Pair
         /\ [family |-> f, n |-> n].family = f /\ [family |-> f, n |-> n].n = n
BY DEF Pair

LEMMA NextPair ==
  ASSUME NEW p \in Pair
  PROVE  /\ [p EXCEPT !.n = p.n + 1] \in Pair
         /\ [p EXCEPT !.n = p.n + 1].family = p.family
         /\ [p EXCEPT !.n = p.n + 1].n = p.n + 1
         /\ [p EXCEPT !.n = @ + 1] = [p EXCEPT !.n = p.n + 1]
BY DEF Pair

(* Two pairs of one family and one number are the same.                     *)
LEMMA PairIdentity ==
  ASSUME NEW p \in Pair, NEW q \in Pair, p.family = q.family, p.n = q.n
  PROVE  p = q
BY DEF Pair

LEMMA KindNames == "login" \in Kinds /\ "restore" \in Kinds /\ "logout" \in Kinds
BY DEF Kinds

LEMMA TaskPoint ==
  ASSUME TypeOK, NEW t \in Tabs, NEW k \in Kinds, NEW rec \in TaskRecord, Only(t, k, rec)
  PROVE  OnlyTask(t, k) /\ task'[t][k] = rec
<1>1. task \in [Tabs -> [Kinds -> TaskRecord]]
  BY DEF TypeOK
<1>2. task' = [task EXCEPT ![t][k] = rec]
  BY DEF Only
<1> QED BY <1>1, <1>2 DEF OnlyTask

LEMMA TaskSame ==
  ASSUME TypeOK, NEW t \in Tabs, NEW k \in Kinds, UNCHANGED task
  PROVE  OnlyTask(t, k) /\ task'[t][k] = task[t][k]
BY DEF TypeOK, OnlyTask

LEMMA TabPoint ==
  ASSUME TypeOK, NEW t \in Tabs, NEW s \in TabRecord, Tab(t, s)
  PROVE  OnlyTab(t) /\ tab'[t] = s
BY DEF TypeOK, Tab, OnlyTab

LEMMA TabSame ==
  ASSUME TypeOK, NEW t \in Tabs, UNCHANGED tab
  PROVE  SameSession(t) /\ tab'[t].user = tab[t].user
BY DEF TypeOK, OnlyTab, SameSession

LEMMA CrossPoint ==
  ASSUME TypeOK, NEW t \in Tabs, NEW k \in Kinds, Cross(t, k)
  PROVE  Crossing(t, k)
BY DEF TypeOK, Cross, Crossing

(* The page that is shown.                                                  *)
LEMMA GuardRoute ==
  ASSUME NEW s, NEW page
  PROVE  Guard(s, page) \in {"login", "other", "auth"}
BY DEF Guard, Shown

LEMMA RouteSet ==
  ASSUME NEW s \in TabRecord, NEW route \in {"login", "other", "auth"}
  PROVE  /\ [s EXCEPT !.route = route] \in TabRecord
         /\ [s EXCEPT !.route = route].access = s.access
         /\ [s EXCEPT !.route = route].refresh = s.refresh
         /\ [s EXCEPT !.route = route].present = s.present
         /\ [s EXCEPT !.route = route].user = s.user
BY DEF TabRecord

LEMMA PresentSet ==
  ASSUME NEW s \in TabRecord, NEW present \in BOOLEAN
  PROVE  /\ [s EXCEPT !.present = present] \in TabRecord
         /\ [s EXCEPT !.present = present].access = s.access
         /\ [s EXCEPT !.present = present].refresh = s.refresh
         /\ [s EXCEPT !.present = present].present = present
         /\ [s EXCEPT !.present = present].user = s.user
BY DEF TabRecord

LEMMA UserSet ==
  ASSUME NEW s \in TabRecord, NEW user \in Families \cup {None}
  PROVE  /\ [s EXCEPT !.user = user] \in TabRecord
         /\ [s EXCEPT !.user = user].access = s.access
         /\ [s EXCEPT !.user = user].refresh = s.refresh
         /\ [s EXCEPT !.user = user].present = s.present
         /\ [s EXCEPT !.user = user].user = user
BY DEF TabRecord

LEMMA TokensSet ==
  ASSUME NEW s \in TabRecord, NEW p \in Pair
  PROVE  /\ SetTokens(s, p) \in TabRecord
         /\ SetTokens(s, p).access = p /\ SetTokens(s, p).refresh = p
         /\ SetTokens(s, p).present = s.present /\ SetTokens(s, p).user = s.user
BY DEF TabRecord, SetTokens

LEMMA TokensCleared ==
  ASSUME NEW s \in TabRecord
  PROVE  /\ ClearTokens(s) \in TabRecord
         /\ ClearTokens(s).access = None /\ ClearTokens(s).refresh = None
         /\ ClearTokens(s).present = s.present /\ ClearTokens(s).user = s.user
BY DEF TabRecord, ClearTokens

LEMMA MemoryCleared ==
  ASSUME NEW s \in TabRecord
  PROVE  /\ SignedOut(s) \in TabRecord
         /\ SignedOut(s).access = None /\ SignedOut(s).refresh = None
         /\ SignedOut(s).user = None
<1> DEFINE c == ClearTokens(s)
<1>1. /\ c \in TabRecord
      /\ c.access = None /\ c.refresh = None
  BY TokensCleared
<1>2. SignedOut(s) = [c EXCEPT !.user = None, !.present = FALSE]
  BY DEF SignedOut
<1> HIDE DEF c
<1> QED BY <1>1, <1>2 DEF TabRecord

(* Kinds of tasks, and what each is about.                                  *)
LEMMA WhatsOfKinds ==
  /\ WhatsOf("login") = {"none", "cred", "mfa", "userinfo"} \cup Promised
  /\ WhatsOf("restore") = {"none", "restore", "userinfo"}
  /\ WhatsOf("logout") = {"none", "revoke"}
  /\ \A k \in Calls : WhatsOf(k) = {"none", "call", "delete"}
<1>1. \A k \in Calls : k \notin {"login", "restore", "logout"}
  BY WebSessionAssumption
<1> QED BY <1>1 DEF WhatsOf

LEMMA IdleFits ==
  ASSUME NEW k \in Kinds
  PROVE  TaskFits(k, Idle)
BY IdleFields, WhatsOfKinds, NullAssumption DEF TaskFits, Kinds, Promised

LEMMA AskingFits == TaskFits("login", [Idle EXCEPT !.at = "asking"])
BY AskingFields, WhatsOfKinds, NullAssumption DEF TaskFits, Promised

LEMMA SentFits ==
  ASSUME NEW k \in Kinds, NEW what \in Whats \ {"none", "restore"},
         NEW tok \in Pair \cup {None},
         what \in WhatsOf(k),
         what \in Promised \cup {"userinfo"} => tok \in Pair
  PROVE  TaskFits(k, Sent(what, tok))
BY SentFields, NullAssumption DEF TaskFits
-----------------------------------------------------------------------------
(* The effect of every action.                                              *)
Fits == TypeOK /\ TasksFit /\ ConsoleFits

LEMMA TaskFitsHere ==
  ASSUME Fits, NEW t \in Tabs, NEW k \in Kinds
  PROVE  TaskFits(k, task[t][k])
BY DEF Fits, TasksFit

LEMMA ElsewherePoint ==
  ASSUME Fits, NEW t \in Tabs, NEW k \in Kinds, NEW rec \in TaskRecord,
         TaskFits(k, rec), rec.at # "refreshing", rec.what \notin {"restore", "userinfo"},
         app = "admin" => rec.what # "revoke", Unpromising(t, rec),
         task[t][k].at # "refreshing", task[t][k].what \notin {"restore", "userinfo"},
         Only(t, k, rec), UNCHANGED <<app, gen, dead, storage, tab, orphans, slip, crossed>>
  PROVE  Elsewhere(t, k)
<1>1. OnlyTask(t, k) /\ task'[t][k] = rec
  BY TaskPoint DEF Fits
<1>2. SameSession(t) /\ tab'[t].user = tab[t].user
  BY TabSame DEF Fits
<1> QED BY <1>1, <1>2 DEF Elsewhere

LEMMA PageCallEffect ==
  ASSUME Fits, NEW t \in Tabs, NEW k \in Calls, NEW what \in {"call", "delete"},
         PageCall(t, k, what)
  PROVE  Elsewhere(t, k)
<1> DEFINE rec == Sent(what, tab[t].access)
<1>1. k \in Kinds /\ what \in Whats \ {"none", "restore"} /\ what \in WhatsOf(k)
  BY WhatsOfKinds DEF Kinds, Whats
<1>2. rec \in TaskRecord /\ rec.at = "sent" /\ rec.what = what
  BY <1>1, SentFields, TabFields DEF Fits
<1>3. TaskFits(k, rec)
  BY <1>1, SentFits, TabFields DEF Fits, Promised
<1>4. Only(t, k, rec) /\ UNCHANGED <<app, gen, dead, storage, tab, orphans, slip, crossed>>
  BY DEF PageCall
<1>5. task[t][k].at = "idle" /\ task[t][k].what = "none"
  BY <1>1, TaskFitsHere DEF PageCall, TaskFits
<1>6. Unpromising(t, rec)
  BY <1>2 DEF Unpromising, Promised
<1> HIDE DEF rec
<1> QED BY <1>1, <1>2, <1>3, <1>4, <1>5, <1>6, ElsewherePoint

LEMMA PageCallAnsweredEffect ==
  ASSUME Fits, NEW t \in Tabs, NEW k \in Kinds, PageCallAnswered(t, k)
  PROVE  Elsewhere(t, k)
<1>1. task[t][k].at # "refreshing" /\ task[t][k].what \notin {"restore", "userinfo"}
  BY DEF PageCallAnswered, Answerable
<1>2. Unpromising(t, Idle)
  BY IdleFields DEF Unpromising, Promised
<1> QED BY <1>1, <1>2, IdleFields, IdleFits, ElsewherePoint DEF PageCallAnswered

LEMMA FreshUnpromised ==
  ASSUME NEW families, NEW f \in Fresh(families)
  PROVE  f \in Unpromised
BY DEF Fresh

(* A task of the login page ends, asks, or sends something.                 *)
LoginRests(t) == task[t]["login"].at # "refreshing" /\ task[t]["login"].what \notin {"restore", "userinfo"}

LEMMA LoginIdles ==
  ASSUME Fits, NEW t \in Tabs, LoginRests(t), Login(t, Idle)
  PROVE  Elsewhere(t, "login")
<1>1. Unpromising(t, Idle)
  BY IdleFields DEF Unpromising, Promised
<1> QED BY <1>1, IdleFields, IdleFits, KindNames, ElsewherePoint DEF Login, LoginRests

LEMMA LoginAsks ==
  ASSUME Fits, NEW t \in Tabs, LoginRests(t), Login(t, [Idle EXCEPT !.at = "asking"])
  PROVE  Elsewhere(t, "login")
<1> DEFINE rec == [Idle EXCEPT !.at = "asking"]
<1>1. rec \in TaskRecord /\ rec.at = "asking" /\ rec.what = "none" /\ TaskFits("login", rec)
  BY AskingFields, AskingFits
<1>2. Unpromising(t, rec)
  BY <1>1 DEF Unpromising, Promised
<1>3. Only(t, "login", rec) /\ UNCHANGED <<app, gen, dead, storage, tab, orphans, slip, crossed>>
  BY DEF Login
<1> HIDE DEF rec
<1> QED BY <1>1, <1>2, <1>3, KindNames, ElsewherePoint DEF LoginRests

LEMMA LoginSends ==
  ASSUME Fits, NEW t \in Tabs, LoginRests(t),
         NEW what \in {"cred", "mfa"}, Login(t, Sent(what, tab[t].access))
  PROVE  Elsewhere(t, "login")
<1> DEFINE rec == Sent(what, tab[t].access)
<1>1. what \in Whats \ {"none", "restore"} /\ what \in WhatsOf("login")
  BY WhatsOfKinds DEF Whats
<1>2. rec \in TaskRecord /\ rec.at = "sent" /\ rec.what = what
  BY <1>1, SentFields, TabFields DEF Fits
<1>3. TaskFits("login", rec)
  BY <1>1, SentFits, TabFields, KindNames DEF Fits, Promised
<1>4. Unpromising(t, rec)
  BY <1>2 DEF Unpromising, Promised
<1>5. Only(t, "login", rec) /\ UNCHANGED <<app, gen, dead, storage, tab, orphans, slip, crossed>>
  BY DEF Login
<1> HIDE DEF rec
<1> QED BY <1>1, <1>2, <1>3, <1>4, <1>5, KindNames, ElsewherePoint DEF LoginRests

LEMMA PromiseFields ==
  ASSUME Fits, NEW t \in Tabs, NEW f \in Unpromised, NEW what \in Promised
  PROVE  LET rec == Sent(what, [family |-> f, n |-> 0]) IN
         /\ rec \in TaskRecord /\ rec.at = "sent" /\ rec.what = what
         /\ TaskFits("login", rec)
         /\ Unpromising(t, rec)
<1> DEFINE p == [family |-> f, n |-> 0]
           rec == Sent(what, p)
<1>1. f \in Families /\ gen[f] = 0 /\ \A u \in Tabs : task[u]["login"].tok # p
  BY DEF Unpromised
<1>2. p \in Pair /\ p.family = f /\ p.n = 0
  BY <1>1, PairOf
<1> HIDE DEF p
<1>3. what \in Whats \ {"none", "restore"} /\ what \in WhatsOf("login")
  BY WhatsOfKinds DEF Whats, Promised
<1>4. rec \in TaskRecord /\ rec.at = "sent" /\ rec.what = what /\ rec.tok = p
  BY <1>2, <1>3, SentFields
<1>5. TaskFits("login", rec)
  BY <1>2, <1>3, SentFits, KindNames
<1>6. Unpromising(t, rec)
  BY <1>1, <1>2, <1>4 DEF Unpromising
<1> QED BY <1>4, <1>5, <1>6 DEF p

LEMMA LoginPromises ==
  ASSUME Fits, NEW t \in Tabs, LoginRests(t), NEW f \in Unpromised,
         Login(t, Sent("code", [family |-> f, n |-> 0]))
  PROVE  Elsewhere(t, "login")
<1> DEFINE rec == Sent("code", [family |-> f, n |-> 0])
<1>1. /\ rec \in TaskRecord /\ rec.at = "sent" /\ rec.what = "code"
      /\ TaskFits("login", rec) /\ Unpromising(t, rec)
  BY PromiseFields DEF Promised
<1>2. Only(t, "login", rec) /\ UNCHANGED <<app, gen, dead, storage, tab, orphans, slip, crossed>>
  BY DEF Login
<1> HIDE DEF rec
<1> QED BY <1>1, <1>2, KindNames, ElsewherePoint DEF LoginRests

LEMMA LoginFormEffect ==
  ASSUME Fits, NEW t \in Tabs,
         AccountHandleLogin(t) \/ AdminHandleLogin(t) \/ AccountHandleMfa(t) \/ AccountMfaBack(t)
  PROVE  Elsewhere(t, "login")
<1>1. task[t]["login"].at \in {"idle", "asking"}
  BY DEF AccountHandleLogin, AdminHandleLogin, AccountHandleMfa, AccountMfaBack, AccountLoginForm
<1>2. LoginRests(t)
  BY <1>1, TaskFitsHere, KindNames DEF TaskFits, LoginRests
<1>3. CASE Login(t, Sent("cred", tab[t].access)) \/ Login(t, Sent("mfa", tab[t].access))
  BY <1>2, <1>3, LoginSends
<1>4. CASE Login(t, Idle)
  BY <1>2, <1>4, LoginIdles
<1> QED BY <1>3, <1>4 DEF AccountHandleLogin, AdminHandleLogin, AccountHandleMfa, AccountMfaBack

LEMMA LoginAnsweredEffect ==
  ASSUME Fits, NEW t \in Tabs,
         AccountLoginAnswered(t) \/ AdminLoginAnswered(t) \/ AccountMfaAnswered(t)
  PROVE  Elsewhere(t, "login")
<1>1. LoginRests(t)
  BY DEF AccountLoginAnswered, AdminLoginAnswered, AccountMfaAnswered, Answerable, LoginRests
<1>2. CASE Login(t, Idle)
  BY <1>1, <1>2, LoginIdles
<1>3. CASE Login(t, [Idle EXCEPT !.at = "asking"])
  BY <1>1, <1>3, LoginAsks
<1>4. CASE \E f \in Fresh(Others) : Login(t, Sent("code", [family |-> f, n |-> 0]))
  BY <1>1, <1>4, FreshUnpromised, LoginPromises
<1> QED BY <1>2, <1>3, <1>4 DEF AccountLoginAnswered, AdminLoginAnswered, AccountMfaAnswered

(* The code is exchanged for the first tokens of its family.                *)
LEMMA ExchangedEffect ==
  ASSUME Fits, NEW t \in Tabs, NEW present \in BOOLEAN, app = "account" => present,
         task[t]["login"].what \in Promised,
         Exchanged(t, [family |-> task[t]["login"].tok.family, n |-> 1], present)
  PROVE  Founds(t)
<1> DEFINE r == task[t]["login"]
           p == [family |-> r.tok.family, n |-> 1]
<1>1. r.tok \in Pair
  BY TaskFitsHere, KindNames DEF TaskFits
<1>2. p \in Pair /\ p.family = r.tok.family
  BY <1>1, PairFields, PairOf
<1> DEFINE s == [SetTokens(tab[t], p) EXCEPT !.present = present]
           rec == Sent("userinfo", p)
<1> USE DEF p
<1>3. /\ gen' = [gen EXCEPT ![p.family] = 1]
      /\ Tab(t, s) /\ Persist(p) /\ Only(t, "login", rec)
      /\ Cross(t, "login") /\ UNCHANGED <<app, dead, orphans, slip>>
  BY DEF Exchanged
<1> HIDE DEF p
<1>4. rec \in TaskRecord
  BY <1>2, SentFields DEF Whats
<1>5. /\ s \in TabRecord /\ s.access = p /\ s.refresh = p /\ s.user = tab[t].user
      /\ s.present = present
  BY <1>2, TabFields, TokensSet, PresentSet DEF Fits
<1> HIDE DEF s, rec
<1>6. OnlyTab(t) /\ tab'[t] = s
  BY <1>3, <1>5, TabPoint DEF Fits
<1>7. OnlyTask(t, "login") /\ task'[t]["login"] = rec
  BY <1>3, <1>4, KindNames, TaskPoint DEF Fits
<1>8. Crossing(t, "login")
  BY <1>3, KindNames, CrossPoint DEF Fits
<1>9. Holds(t, p)
  BY <1>3, <1>5, <1>6 DEF Holds
<1> QED BY <1>2, <1>3, <1>5, <1>6, <1>7, <1>8, <1>9 DEF Founds, Promise, p, rec

LEMMA ExchangesEffect ==
  ASSUME Fits, NEW t \in Tabs, NEW what \in Promised, NEW present \in BOOLEAN,
         app = "account" => present, Exchanges(t, what, present)
  PROVE  \/ Login(t, Idle) /\ Elsewhere(t, "login")
         \/ Founds(t)
<1> DEFINE r == task[t]["login"]
<1>1. r.at # "refreshing" /\ r.what \in Promised
  BY DEF Exchanges, Answerable
<1>2. LoginRests(t)
  BY <1>1 DEF LoginRests, Promised
<1>3. CASE Login(t, Idle)
  BY <1>2, <1>3, LoginIdles
<1>4. CASE Exchanged(t, [family |-> r.tok.family, n |-> 1], present)
  BY <1>1, <1>4, ExchangedEffect
<1> QED BY <1>3, <1>4 DEF Exchanges

LEMMA ExchangeEffect ==
  ASSUME Fits, NEW t \in Tabs,
         AccountExchangeCode(t) \/ GitHubLoggedIn(t) \/ AdminExchangeCode(t)
  PROVE  \/ Login(t, Idle) /\ Elsewhere(t, "login")
         \/ Founds(t)
<1>1. {"code", "exchange", "github"} \subseteq Promised
  BY DEF Promised
<1>2. CASE AccountExchangeCode(t) \/ GitHubLoggedIn(t)
  BY <1>1, <1>2, ExchangesEffect DEF AccountExchangeCode, GitHubLoggedIn
<1>3. CASE AdminExchangeCode(t)
  BY <1>1, <1>3, ExchangesEffect DEF AdminExchangeCode
<1> QED BY <1>2, <1>3
-----------------------------------------------------------------------------
(* Refreshes.                                                               *)
LEMMA RefreshTakes ==
  ASSUME Fits, NEW t \in Tabs, NEW k \in Kinds, Refreshing(t, k)
  PROVE  /\ task[t][k].tok \in Pair
         /\ task[t][k].what \notin Promised \cup {"none"}
         /\ Won(t, k) => task[t][k].ans \in Pair
         /\ ~Won(t, k) => task[t][k].ans \in {None, Refused}
<1>1. TaskFits(k, task[t][k])
  BY TaskFitsHere
<1>2. task[t][k].ans \in Pair \cup {None, Refused}
  BY TaskFields DEF Fits
<1> QED BY <1>1, <1>2 DEF TaskFits, Refreshing, Won

LEMMA RefreshAnswerIs ==
  ASSUME TypeOK, NEW p \in Pair
  PROVE  \/ RefreshAnswer(p) = Refused
         \/ /\ RefreshAnswer(p) = [p EXCEPT !.n = @ + 1]
            /\ p.family \notin dead /\ p.n = gen[p.family]
BY NextPair DEF RefreshAnswer, Accepted

LEMMA ServerRefreshEffect ==
  ASSUME Fits, NEW t \in Tabs, NEW k \in Kinds, ServerRefresh(t, k)
  PROVE  Answers(t, k)
<1> DEFINE r == task[t][k]
           ans == RefreshAnswer(r.tok)
           rec == [r EXCEPT !.ans = ans]
<1>1. r \in TaskRecord /\ r.tok \in Pair
  BY TaskFields, RefreshTakes DEF Fits, ServerRefresh
<1>2. ans \in Pair \cup {None, Refused}
  BY <1>1, RefreshAnswerIs, NextPair DEF Fits
<1>3. Only(t, k, rec)
  BY DEF ServerRefresh
<1> HIDE DEF ans
<1>4. rec \in TaskRecord
  BY <1>1, <1>2 DEF TaskRecord
<1>5. OnlyTask(t, k) /\ task'[t][k] = rec
  BY <1>3, <1>4, TaskPoint DEF Fits
<1> QED BY <1>5 DEF ServerRefresh, Answers, ans

LEMMA StartRefreshEffect ==
  ASSUME Fits, NEW t \in Tabs, NEW k \in Kinds, StartRefresh(t, k)
  PROVE  Starts(t, k)
<1> DEFINE r == task[t][k]
           rec == [r EXCEPT !.at = "refreshing", !.tok = tab[t].refresh]
<1>1. r \in TaskRecord /\ tab[t].refresh \in Pair \cup {None}
  BY TaskFields, TabFields DEF Fits
<1>2. rec \in TaskRecord
  BY <1>1 DEF TaskRecord
<1>3. Only(t, k, rec)
  BY DEF StartRefresh
<1>4. OnlyTask(t, k) /\ task'[t][k] = rec
  BY <1>2, <1>3, TaskPoint DEF Fits
<1> QED BY <1>4 DEF StartRefresh, Starts, Promised

LEMMA ResendEffect ==
  ASSUME Fits, NEW t \in Tabs, NEW k \in Kinds, Refreshing(t, k), Resend(t, k),
         task[t][k].what # "restore", UNCHANGED <<app, gen, dead>>
  PROVE  Resends(t, k)
<1> DEFINE r == task[t][k]
           s == SetTokens(tab[t], r.ans)
           rec == [r EXCEPT !.at = "resent", !.tok = r.ans, !.ans = None]
<1>1. r \in TaskRecord /\ r.ans \in Pair
  BY TaskFields, RefreshTakes DEF Fits, Resend
<1>2. rec \in TaskRecord
  BY <1>1 DEF TaskRecord
<1>3. /\ s \in TabRecord /\ s.access = r.ans /\ s.refresh = r.ans
      /\ s.user = tab[t].user /\ s.present = tab[t].present
  BY <1>1, TabFields, TokensSet DEF Fits
<1>4. Only(t, k, rec) /\ Tab(t, s)
  BY DEF Resend
<1> HIDE DEF s
<1>5. OnlyTask(t, k) /\ task'[t][k] = rec
  BY <1>2, <1>4, TaskPoint DEF Fits
<1>6. OnlyTab(t) /\ tab'[t] = s
  BY <1>3, <1>4, TabPoint DEF Fits
<1>7. Holds(t, r.ans)
  BY <1>3, <1>6 DEF Holds, Resend
<1> QED BY <1>3, <1>5, <1>6, <1>7 DEF Resend, Resends

(* A page that is loaded again.                                             *)
LEMMA RestoreFields ==
  ASSUME NEW st \in Pair
  PROVE  LET rec == [Sent("restore", st) EXCEPT !.at = "refreshing"] IN
         /\ rec \in TaskRecord
         /\ rec.at = "refreshing" /\ rec.what = "restore" /\ rec.tok = st /\ rec.ans = None
BY DEF Sent, TaskRecord

LEMMA LoadEffect ==
  ASSUME Fits, NEW t \in Tabs, NEW page, NEW st \in {storage, None}, NEW login \in TaskRecord,
         \/ login = Idle
         \/ /\ login.at = "sent" /\ login.what \in Promised
            /\ TaskFits("login", login) /\ Unpromising(t, login),
         Load(t, page, st, login), UNCHANGED <<app, gen, dead>>
  PROVE  LoadsWith(t, st)
<1> DEFINE present == st # None
           s == [NoTab EXCEPT !.refresh = st, !.present = present]
           route == Guard(s, page)
           a == [s EXCEPT !.route = route]
           rec == IF st = None THEN Idle ELSE [Sent("restore", st) EXCEPT !.at = "refreshing"]
           w == [Quiet EXCEPT !["restore"] = rec, !["login"] = login]
<1>1. st \in Pair \cup {None}
  BY DEF Fits, TypeOK
<1>2. Tab(t, a) /\ task' = [task EXCEPT ![t] = w] /\ storage' = st /\ crossed' = crossed \ {t}
  BY DEF Load
<1>3. present \in BOOLEAN /\ rec \in TaskRecord
  BY <1>1, IdleFields, RestoreFields
<1> HIDE DEF present, rec
<1>33. /\ w \in [Kinds -> TaskRecord]
      /\ w["login"] = login /\ w["restore"] = rec
      /\ \A k \in Kinds \ {"login", "restore"} : w[k] = Idle
  <2>1. Quiet \in [Kinds -> TaskRecord] /\ \A k \in Kinds : Quiet[k] = Idle
    BY IdleFields DEF Quiet
  <2> QED BY <1>3, <2>1, KindNames
<1> HIDE DEF w
<1>4. task \in [Tabs -> [Kinds -> TaskRecord]]
  BY DEF Fits, TypeOK
<1>5. /\ task' \in [Tabs -> [Kinds -> TaskRecord]]
      /\ task'[t] = w
      /\ \A u \in Tabs : u # t => task'[u] = task[u]
  BY <1>2, <1>33, <1>4
<1>6. route \in {"login", "other", "auth"}
  BY GuardRoute
<1> HIDE DEF route
<1>7. /\ a \in TabRecord
      /\ a.access = None /\ a.refresh = st /\ a.user = None
      /\ a.present = present
  <2>1. /\ s \in TabRecord
        /\ s.access = None /\ s.refresh = st /\ s.user = None
        /\ s.present = present
    BY <1>1, <1>3 DEF NoTab, TabRecord
  <2> HIDE DEF s
  <2> QED BY <1>6, <2>1, RouteSet
<1> HIDE DEF a
<1>8. OnlyTab(t) /\ tab'[t] = a
  BY <1>2, <1>7, TabPoint DEF Fits
<1>9. orphans' = orphans \cup {task[t][k].tok : k \in {j \in Kinds : Refreshing(t, j) /\ task[t][j].ans = None}}
  <2> DEFINE lost == {k \in Kinds : Refreshing(t, k)}
  <2>1. orphans' = orphans \cup {task[t][k].tok : k \in {j \in lost : task[t][j].ans = None}}
    BY DEF Load
  <2>2. {j \in lost : task[t][j].ans = None} = {j \in Kinds : Refreshing(t, j) /\ task[t][j].ans = None}
    OBVIOUS
  <2> QED BY <2>1, <2>2
<1>10. /\ slip' \in BOOLEAN
       /\ slip => slip'
       /\ ~slip' /\ st # None =>
            /\ st \notin orphans
            /\ \A k \in Kinds : ~Refreshing(t, k)
            /\ \A u \in Tabs, k \in Kinds : Refreshing(u, k) => task[u][k].tok # st
  <2> DEFINE b == \/ slip
                  \/ {k \in Kinds : Refreshing(t, k)} # {} /\ st # None
                  \/ st # None /\ st \in orphans
                  \/ st # None /\ \E u \in Tabs, k \in Kinds : Refreshing(u, k) /\ task[u][k].tok = st
  <2>1. slip' = b
    BY DEF Load
  <2>2. /\ b \in BOOLEAN
        /\ slip => b
        /\ ~b /\ st # None =>
            /\ st \notin orphans
            /\ \A k \in Kinds : ~Refreshing(t, k)
            /\ \A u \in Tabs, k \in Kinds : Refreshing(u, k) => task[u][k].tok # st
    OBVIOUS
  <2> HIDE DEF b
  <2> QED BY <2>1, <2>2
<1> QED BY <1>2, <1>33, <1>5, <1>7, <1>8, <1>9, <1>10 DEF LoadsWith, present, rec

LEMMA LoadQuietly ==
  ASSUME Fits, NEW t \in Tabs, NEW page, NEW st \in {storage, None},
         Load(t, page, st, Idle), UNCHANGED <<app, gen, dead>>
  PROVE  Loads(t)
BY IdleFields, LoadEffect DEF Loads

LEMMA OpenEffect ==
  ASSUME Fits, NEW t \in Tabs, NEW page, OpenPage(t, page) \/ AdminCallback(t)
  PROVE  Loads(t)
BY LoadQuietly DEF OpenPage, AdminCallback

LEMMA LoadPromising ==
  ASSUME Fits, NEW t \in Tabs, NEW page, NEW what \in Promised, NEW f \in Unpromised,
         Load(t, page, storage, Sent(what, [family |-> f, n |-> 0])), UNCHANGED <<app, gen, dead>>
  PROVE  Loads(t)
<1> DEFINE rec == Sent(what, [family |-> f, n |-> 0])
<1>1. /\ rec \in TaskRecord /\ rec.at = "sent" /\ rec.what = what
      /\ TaskFits("login", rec) /\ Unpromising(t, rec)
  BY PromiseFields
<1>2. Load(t, page, storage, rec)
  OBVIOUS
<1> HIDE DEF rec
<1> QED BY <1>1, <1>2, LoadEffect DEF Loads

LEMMA CallbackEffect ==
  ASSUME Fits, NEW t \in Tabs, AccountCallback(t) \/ GitHubCallback(t)
  PROVE  Loads(t)
<1>1. UNCHANGED <<app, gen, dead>>
  BY DEF AccountCallback, GitHubCallback
<1>2. CASE Load(t, "callback", storage, Idle) \/ Load(t, "github-callback", storage, Idle)
  BY <1>1, <1>2, LoadQuietly
<1>3. CASE \E f \in Fresh(Others) : Load(t, "callback", storage, Sent("exchange", [family |-> f, n |-> 0]))
  BY <1>1, <1>3, FreshUnpromised, LoadPromising DEF Promised
<1>4. CASE \E f \in Fresh(GitHub) : Load(t, "github-callback", storage, Sent("github", [family |-> f, n |-> 0]))
  BY <1>1, <1>4, FreshUnpromised, LoadPromising DEF Promised
<1> QED BY <1>2, <1>3, <1>4 DEF AccountCallback, GitHubCallback

LEMMA DeletedEffect ==
  ASSUME Fits, NEW t \in Tabs, NEW k \in Kinds, AccountDeleted(t, k)
  PROVE  Loads(t)
BY LoadQuietly DEF AccountDeleted

LEMMA AccountRefreshedEffect ==
  ASSUME Fits, NEW t \in Tabs, NEW k \in Kinds, AccountRefreshed(t, k)
  PROVE  Resends(t, k) \/ Loads(t)
BY LoadQuietly, ResendEffect DEF AccountRefreshed
-----------------------------------------------------------------------------
(* Sessions that end, users that become known.                              *)
LEMMA AppIs == Fits => app \in {"account", "admin"}
BY WebSessionAssumption DEF Fits, TypeOK

LEMMA LeavesPoint ==
  ASSUME Fits, NEW t \in Tabs, NEW k \in Kinds, NEW s \in TabRecord,
         Tab(t, s), s.access = None, s.refresh = None,
         s.user = None \/ (task[t][k].what = "restore" /\ s.user = tab[t].user),
         Only(t, k, Idle), Persist(None), Cross(t, k),
         \/ Refreshing(t, k) /\ RefreshFails(t, k)
         \/ ~Refreshing(t, k) /\ UNCHANGED orphans,
         UNCHANGED <<app, gen, dead, slip>>
  PROVE  Leaves(t, k)
<1>1. OnlyTab(t) /\ tab'[t] = s
  BY TabPoint DEF Fits
<1>2. OnlyTask(t, k) /\ task'[t][k] = Idle
  BY IdleFields, TaskPoint DEF Fits
<1>3. orphans' = IF Refreshing(t, k) /\ task[t][k].ans = None THEN orphans \cup {task[t][k].tok}
                 ELSE orphans
  BY DEF RefreshFails
<1>4. Crossing(t, k)
  BY CrossPoint DEF Fits
<1> QED BY <1>1, <1>2, <1>3, <1>4, IdleFields, IdleFits DEF Leaves

LEMMA AdminRefreshedEffect ==
  ASSUME Fits, NEW t \in Tabs, NEW k \in Kinds, AdminRefreshed(t, k)
  PROVE  Resends(t, k) \/ Leaves(t, k)
<1>1. app = "admin" /\ Refreshing(t, k) /\ UNCHANGED <<app, gen, dead>>
  BY DEF AdminRefreshed
<1>2. CASE Resend(t, k)
  <2>1. k = "restore" => task[t][k].what = "none"
    BY <1>1, AppIs DEF Fits, ConsoleFits
  <2>2. task[t][k].what # "restore"
    BY <2>1, TaskFitsHere, WhatsOfKinds DEF TaskFits, Kinds, Promised
  <2> QED BY <1>1, <1>2, <2>2, ResendEffect
<1>3. CASE Tab(t, SignedOut(tab[t])) /\ Only(t, k, Idle) /\ RefreshFails(t, k) /\ Cross(t, k)
           /\ UNCHANGED <<storage, slip>>
  <2> DEFINE s == SignedOut(tab[t])
  <2>1. s \in TabRecord /\ s.access = None /\ s.refresh = None /\ s.user = None
    BY MemoryCleared, TabFields DEF Fits
  <2>2. Persist(None)
    BY <1>1, <1>3 DEF Persist
  <2>3. Tab(t, s)
    BY <1>3
  <2> HIDE DEF s
  <2> QED BY <1>1, <1>3, <2>1, <2>2, <2>3, LeavesPoint
<1> QED BY <1>2, <1>3 DEF AdminRefreshed

LEMMA AdminFetchEffect ==
  ASSUME Fits, NEW t \in Tabs, AdminFetchUserInfo(t)
  PROVE  Names(t, "login") \/ Leaves(t, "login")
<1> DEFINE r == task[t]["login"]
<1>1. /\ app = "admin" /\ r.at # "refreshing" /\ r.what = "userinfo"
      /\ Only(t, "login", Idle) /\ UNCHANGED <<app, gen, dead, storage, orphans, slip>>
  BY DEF AdminFetchUserInfo, Answerable
<1>2. r.tok \in Pair
  BY <1>1, TaskFitsHere, KindNames DEF TaskFits
<1>3. CASE LET f == r.tok.family
               s == [tab[t] EXCEPT !.user = f]
           IN /\ f \in Admins
              /\ Tab(t, [s EXCEPT !.route = Guard(s, "dashboard")])
              /\ UNCHANGED crossed
  <2> DEFINE f == r.tok.family
             s == [tab[t] EXCEPT !.user = f]
             route == Guard(s, "dashboard")
             a == [s EXCEPT !.route = route]
  <2>1. f \in Families /\ f \in Admins /\ Tab(t, a) /\ UNCHANGED crossed
    BY <1>2, <1>3, PairFields
  <2>2. route \in {"login", "other", "auth"}
    BY GuardRoute
  <2> HIDE DEF route
  <2>3. /\ s \in TabRecord /\ s.user = f
        /\ s.access = tab[t].access /\ s.refresh = tab[t].refresh /\ s.present = tab[t].present
    BY <2>1, TabFields, UserSet DEF Fits
  <2> HIDE DEF s
  <2>4. /\ a \in TabRecord /\ a.user = f
        /\ a.access = tab[t].access /\ a.refresh = tab[t].refresh /\ a.present = tab[t].present
    BY <2>2, <2>3, RouteSet
  <2> HIDE DEF a
  <2>5. OnlyTab(t) /\ tab'[t] = a
    BY <2>1, <2>4, TabPoint DEF Fits
  <2>6. OnlyTask(t, "login") /\ task'[t]["login"] = Idle
    BY <1>1, IdleFields, KindNames, TaskPoint DEF Fits
  <2> QED BY <1>1, <2>1, <2>4, <2>5, <2>6, KindNames DEF Names, SameSession
<1>4. CASE Tab(t, SignedOut(tab[t])) /\ Cross(t, "login")
  <2> DEFINE s == SignedOut(tab[t])
  <2>1. s \in TabRecord /\ s.access = None /\ s.refresh = None /\ s.user = None
    BY MemoryCleared, TabFields DEF Fits
  <2>2. Persist(None) /\ ~Refreshing(t, "login")
    BY <1>1 DEF Persist, Refreshing
  <2>3. Tab(t, s)
    BY <1>4
  <2> HIDE DEF s
  <2> QED BY <1>1, <1>4, <2>1, <2>2, <2>3, KindNames, LeavesPoint
<1> QED BY <1>3, <1>4 DEF AdminFetchUserInfo

LEMMA AccountFetchEffect ==
  ASSUME Fits, NEW t \in Tabs, NEW k \in Kinds, AccountFetchUser(t, k)
  PROVE  Names(t, k)
<1> DEFINE r == task[t][k]
<1>1. /\ app = "account" /\ r.at # "refreshing" /\ r.what = "userinfo"
      /\ Only(t, k, Idle) /\ UNCHANGED <<app, gen, dead, storage, orphans, slip, crossed>>
  BY DEF AccountFetchUser, Answerable
<1>2. PICK user \in {None} \cup ({r.tok.family} \ GitHub) :
        LET s == [tab[t] EXCEPT !.user = user] IN
        Tab(t, IF k = "login" THEN [s EXCEPT !.route = Guard(s, "dashboard")] ELSE s)
  BY DEF AccountFetchUser
<1>3. user \in Families \cup {None}
  <2>1. r.tok \in Pair
    BY <1>1, TaskFitsHere DEF TaskFits
  <2>2. r.tok.family \in Families
    BY <2>1, PairFields
  <2> QED BY <2>2
<1> DEFINE s == [tab[t] EXCEPT !.user = user]
           route == Guard(s, "dashboard")
           a == IF k = "login" THEN [s EXCEPT !.route = route] ELSE s
<1>4. Tab(t, a)
  BY <1>2
<1>5. route \in {"login", "other", "auth"}
  BY GuardRoute
<1> HIDE DEF route
<1>6. /\ s \in TabRecord /\ s.user = user
      /\ s.access = tab[t].access /\ s.refresh = tab[t].refresh /\ s.present = tab[t].present
  BY <1>3, TabFields, UserSet DEF Fits
<1> HIDE DEF s
<1>7. /\ a \in TabRecord /\ a.user = user
      /\ a.access = tab[t].access /\ a.refresh = tab[t].refresh /\ a.present = tab[t].present
  BY <1>5, <1>6, RouteSet
<1> HIDE DEF a
<1>8. OnlyTab(t) /\ tab'[t] = a
  BY <1>4, <1>7, TabPoint DEF Fits
<1>9. OnlyTask(t, k) /\ task'[t][k] = Idle
  BY <1>1, IdleFields, TaskPoint DEF Fits
<1> QED BY <1>1, <1>2, <1>7, <1>8, <1>9 DEF Names, SameSession

LEMMA AccountRestoredEffect ==
  ASSUME Fits, NEW t \in Tabs, AccountRestored(t)
  PROVE  Restores(t) \/ Leaves(t, "restore")
<1> DEFINE r == task[t]["restore"]
           p == r.ans
<1>1. /\ app = "account" /\ Refreshing(t, "restore") /\ r.what = "restore"
      /\ UNCHANGED <<app, gen, dead, slip>>
  BY DEF AccountRestored
<1>2. CASE /\ Won(t, "restore")
           /\ Tab(t, [SetTokens(tab[t], p) EXCEPT !.present = TRUE])
           /\ Persist(p)
           /\ Only(t, "restore", Sent("userinfo", p))
           /\ UNCHANGED <<orphans, crossed>>
  <2>1. p \in Pair
    BY <1>1, <1>2, RefreshTakes, KindNames
  <2> DEFINE s == [SetTokens(tab[t], p) EXCEPT !.present = TRUE]
             rec == Sent("userinfo", p)
  <2>2. Tab(t, s) /\ Only(t, "restore", rec)
    BY <1>2
  <2>3. s \in TabRecord /\ s.access = p /\ s.refresh = p /\ s.user = tab[t].user /\ s.present
    <3>1. /\ tab[t] \in TabRecord /\ SetTokens(tab[t], p) \in TabRecord
          /\ SetTokens(tab[t], p).access = p /\ SetTokens(tab[t], p).refresh = p
          /\ SetTokens(tab[t], p).user = tab[t].user
      BY <2>1, TabFields, TokensSet DEF Fits
    <3> HIDE DEF p
    <3> QED BY <3>1, PresentSet
  <2>4. rec \in TaskRecord
    BY <2>1, SentFields DEF Whats
  <2> HIDE DEF s, rec
  <2>5. OnlyTab(t) /\ tab'[t] = s
    BY <2>2, <2>3, TabPoint DEF Fits
  <2>6. OnlyTask(t, "restore") /\ task'[t]["restore"] = rec
    BY <2>2, <2>4, KindNames, TaskPoint DEF Fits
  <2>7. Holds(t, p) /\ tab'[t].present
    BY <1>2, <2>3, <2>5 DEF Holds
  <2> QED BY <1>1, <1>2, <2>6, <2>7 DEF Restores, rec
<1>3. CASE /\ Tab(t, [ClearTokens(tab[t]) EXCEPT !.present = FALSE])
           /\ Persist(None)
           /\ Only(t, "restore", Idle)
           /\ RefreshFails(t, "restore")
           /\ Cross(t, "restore")
  <2> DEFINE s == [ClearTokens(tab[t]) EXCEPT !.present = FALSE]
  <2>1. s \in TabRecord /\ s.access = None /\ s.refresh = None /\ s.user = tab[t].user
    <3> DEFINE c == ClearTokens(tab[t])
    <3>1. tab[t] \in TabRecord
      BY TabFields DEF Fits
    <3>2. c \in TabRecord /\ c.access = None /\ c.refresh = None /\ c.user = tab[t].user
      BY <3>1, TokensCleared
    <3> HIDE DEF c
    <3> DEFINE d == [c EXCEPT !.present = FALSE]
    <3>3. d \in TabRecord /\ d.access = None /\ d.refresh = None /\ d.user = tab[t].user
      BY <3>2, PresentSet
    <3> QED BY <3>3 DEF c
  <2>2. Tab(t, s)
    BY <1>3
  <2> HIDE DEF s
  <2> QED BY <1>1, <1>3, <2>1, <2>2, KindNames, LeavesPoint
<1> QED BY <1>2, <1>3 DEF AccountRestored

LEMMA SignedOutEffect ==
  ASSUME Fits, NEW t \in Tabs, ~Refreshing(t, "logout"), AccountSignedOut(t)
  PROVE  Leaves(t, "logout")
<1> DEFINE s == SignedOut(tab[t])
           route == Guard(s, "login")
           a == [s EXCEPT !.route = route]
<1>1. Tab(t, a)
  BY DEF AccountSignedOut
<1>2. route \in {"login", "other", "auth"}
  BY GuardRoute
<1> HIDE DEF route
<1>3. s \in TabRecord /\ s.access = None /\ s.refresh = None /\ s.user = None
  BY MemoryCleared, TabFields DEF Fits
<1> HIDE DEF s
<1>4. a \in TabRecord /\ a.access = None /\ a.refresh = None /\ a.user = None
  BY <1>2, <1>3, RouteSet
<1> HIDE DEF a
<1> QED BY <1>1, <1>4, KindNames, LeavesPoint DEF AccountSignedOut

LEMMA LogoutAnsweredEffect ==
  ASSUME Fits, NEW t \in Tabs, AccountLogoutAnswered(t)
  PROVE  Leaves(t, "logout")
BY SignedOutEffect DEF AccountLogoutAnswered, Answerable, Refreshing

LEMMA AccountLogoutEffect ==
  ASSUME Fits, NEW t \in Tabs, AccountLogout(t)
  PROVE  Elsewhere(t, "logout") \/ Leaves(t, "logout")
<1>1. app = "account" /\ task[t]["logout"].at = "idle" /\ task[t]["logout"].what = "none"
  BY TaskFitsHere, KindNames DEF AccountLogout, TaskFits
<1>2. CASE AccountSignedOut(t)
  BY <1>1, <1>2, SignedOutEffect DEF Refreshing
<1>3. CASE /\ Only(t, "logout", Sent("revoke", tab[t].access))
           /\ UNCHANGED <<app, gen, dead, storage, tab, orphans, slip, crossed>>
  <2> DEFINE rec == Sent("revoke", tab[t].access)
  <2>1. rec \in TaskRecord /\ rec.at = "sent" /\ rec.what = "revoke"
    BY SentFields, TabFields DEF Fits, Whats
  <2>2. TaskFits("logout", rec)
    BY SentFits, TabFields, KindNames, WhatsOfKinds DEF Fits, Whats, Promised
  <2>3. Unpromising(t, rec)
    BY <2>1 DEF Unpromising, Promised
  <2>4. Only(t, "logout", rec)
    BY <1>3
  <2> HIDE DEF rec
  <2> QED BY <1>1, <1>3, <2>1, <2>2, <2>3, <2>4, KindNames, ElsewherePoint
<1> QED BY <1>2, <1>3 DEF AccountLogout

LEMMA AdminLogoutEffect ==
  ASSUME Fits, NEW t \in Tabs, AdminLogout(t)
  PROVE  Leaves(t, "logout")
<1> DEFINE s == SignedOut(tab[t])
           route == Guard(s, "login")
           a == [s EXCEPT !.route = route]
<1>1. /\ app = "admin" /\ Tab(t, a) /\ Cross(t, "logout")
      /\ UNCHANGED <<app, gen, dead, storage, task, orphans, slip>>
  BY DEF AdminLogout
<1>2. route \in {"login", "other", "auth"}
  BY GuardRoute
<1> HIDE DEF route
<1>3. s \in TabRecord /\ s.access = None /\ s.refresh = None /\ s.user = None
  BY MemoryCleared, TabFields DEF Fits
<1> HIDE DEF s
<1>4. a \in TabRecord /\ a.access = None /\ a.refresh = None /\ a.user = None
  BY <1>2, <1>3, RouteSet
<1> HIDE DEF a
<1>5. OnlyTab(t) /\ tab'[t] = a
  BY <1>1, <1>4, TabPoint DEF Fits
<1>6. OnlyTask(t, "logout") /\ task'[t]["logout"] = task[t]["logout"]
  BY <1>1, TaskSame, KindNames DEF Fits
<1>7. task[t]["logout"].at \in {"idle", "asking"} /\ TaskFits("logout", task[t]["logout"])
  BY <1>1, TaskFitsHere, KindNames DEF Fits, ConsoleFits, TaskFits
<1>8. Crossing(t, "logout")
  BY <1>1, KindNames, CrossPoint DEF Fits
<1>9. Persist(None) /\ ~Refreshing(t, "logout")
  BY <1>1, <1>7 DEF Persist, Refreshing
<1> QED BY <1>1, <1>4, <1>5, <1>6, <1>7, <1>8, <1>9, KindNames DEF Leaves

LEMMA NavigateEffect ==
  ASSUME Fits, NEW t \in Tabs, NEW page, Navigate(t, page)
  PROVE  Elsewhere(t, "login") \/ Moves(t)
<1> DEFINE route == Guard(tab[t], page)
           a == [tab[t] EXCEPT !.route = route]
<1>1. Tab(t, a) /\ UNCHANGED <<app, gen, dead, storage, orphans, slip, crossed>>
  BY DEF Navigate
<1>2. route \in {"login", "other", "auth"}
  BY GuardRoute
<1> HIDE DEF route
<1>3. /\ a \in TabRecord /\ a.user = tab[t].user
      /\ a.access = tab[t].access /\ a.refresh = tab[t].refresh /\ a.present = tab[t].present
  BY <1>2, TabFields, RouteSet DEF Fits
<1> HIDE DEF a
<1>4. SameSession(t) /\ tab'[t].user = tab[t].user
  BY <1>1, <1>3, TabPoint DEF Fits, SameSession
<1>5. CASE UNCHANGED task
  BY <1>1, <1>4, <1>5 DEF Moves
<1>6. CASE task[t]["login"].at = "asking" /\ Only(t, "login", Idle)
  <2>1. OnlyTask(t, "login") /\ task'[t]["login"] = Idle
    BY <1>6, IdleFields, KindNames, TaskPoint DEF Fits
  <2>2. task[t]["login"].what = "none"
    BY <1>6, TaskFitsHere, KindNames DEF TaskFits
  <2>3. Unpromising(t, Idle)
    BY IdleFields DEF Unpromising, Promised
  <2> QED BY <1>1, <1>4, <1>6, <2>1, <2>2, <2>3, KindNames, IdleFields, IdleFits DEF Elsewhere
<1> QED BY <1>5, <1>6 DEF Navigate, Only

-----------------------------------------------------------------------------
(* Every step has one of the effects.                                       *)
LEMMA ProgressEffect ==
  ASSUME Fits, NEW t \in Tabs, NEW k \in Kinds, Progress(t, k)
  PROVE  Effect
<1>1. CASE ServerRefresh(t, k) \/ StartRefresh(t, k)
  BY <1>1, ServerRefreshEffect, StartRefreshEffect DEF Effect
<1>2. CASE AccountRefreshed(t, k) \/ AdminRefreshed(t, k)
  BY <1>2, AccountRefreshedEffect, AdminRefreshedEffect DEF Effect
<1>3. CASE PageCallAnswered(t, k) \/ AccountDeleted(t, k)
  BY <1>3, PageCallAnsweredEffect, DeletedEffect DEF Effect
<1>4. CASE AccountFetchUser(t, k) \/ (k = "restore" /\ AccountRestored(t))
  BY <1>4, AccountFetchEffect, AccountRestoredEffect, KindNames DEF Effect
<1>5. CASE AccountLoginAnswered(t) \/ AccountMfaAnswered(t) \/ AdminLoginAnswered(t)
  BY <1>5, LoginAnsweredEffect, KindNames DEF Effect
<1>6. CASE AccountExchangeCode(t) \/ GitHubLoggedIn(t) \/ AdminExchangeCode(t)
  BY <1>6, ExchangeEffect, KindNames DEF Effect
<1>7. CASE AdminFetchUserInfo(t) \/ AccountLogoutAnswered(t)
  BY <1>7, AdminFetchEffect, LogoutAnsweredEffect, KindNames DEF Effect
<1> QED BY <1>1, <1>2, <1>3, <1>4, <1>5, <1>6, <1>7 DEF Progress

LEMMA UserEffect ==
  ASSUME Fits, NEW t \in Tabs, UserStep(t)
  PROVE  Effect
<1>1. CASE \E k \in Calls, what \in {"call", "delete"} : PageCall(t, k, what)
  BY <1>1, PageCallEffect DEF Effect, Kinds
<1>2. CASE AccountLogout(t) \/ AdminLogout(t)
  BY <1>2, AccountLogoutEffect, AdminLogoutEffect, KindNames DEF Effect
<1>3. CASE \E page \in Pages : Navigate(t, page) \/ OpenPage(t, page)
  BY <1>3, NavigateEffect, OpenEffect, KindNames DEF Effect
<1>4. CASE \/ AccountHandleLogin(t) \/ AccountHandleMfa(t) \/ AccountMfaBack(t)
           \/ AdminHandleLogin(t)
  BY <1>4, LoginFormEffect, KindNames DEF Effect
<1>5. CASE AccountCallback(t) \/ GitHubCallback(t) \/ AdminCallback(t)
  BY <1>5, CallbackEffect, OpenEffect DEF Effect
<1> QED BY <1>1, <1>2, <1>3, <1>4, <1>5 DEF UserStep

LEMMA NextEffect ==
  ASSUME Fits, Next
  PROVE  /\ Effect
         /\ inputs' \in 0..MaxInputs
<1>1. inputs \in 0..MaxInputs /\ MaxInputs \in Nat
  BY WebSessionAssumption DEF Fits, TypeOK
<1>2. inputs' \in 0..MaxInputs
  BY <1>1 DEF Next
<1>3. CASE \E t \in Tabs, k \in Kinds : Progress(t, k)
  BY <1>2, <1>3, ProgressEffect
<1>4. CASE \E p \in orphans : ServerRefreshOrphan(p)
  BY <1>2, <1>4 DEF ServerRefreshOrphan, Orphaned, Effect
<1>5. CASE \E t \in Tabs : UserStep(t)
  BY <1>2, <1>5, UserEffect
<1> QED BY <1>2, <1>3, <1>4, <1>5 DEF Next
-----------------------------------------------------------------------------
(* The task that changes, field by field.                                   *)
LEMMA StartsTask ==
  ASSUME Fits, NEW t \in Tabs, NEW k \in Kinds, Starts(t, k)
  PROVE  /\ tab[t].refresh \in Pair
         /\ task[t][k].at = "sent" /\ task[t][k].ans = None
         /\ task'[t][k].at = "refreshing" /\ task'[t][k].what = task[t][k].what
         /\ task'[t][k].tok = tab[t].refresh /\ task'[t][k].ans = None
         /\ TaskFits(k, task'[t][k])
<1> DEFINE r == task[t][k]
<1>1. /\ r \in TaskRecord /\ TaskFits(k, r) /\ r.at = "sent"
      /\ r.what \notin Promised \cup {"restore"}
      /\ tab[t].refresh \in Pair
  BY TaskFields, TaskFitsHere, TabFields DEF Fits, Starts
<1>2. task'[t][k] = [r EXCEPT !.at = "refreshing", !.tok = tab[t].refresh]
  BY DEF Starts
<1>3. r.ans = None
  BY <1>1 DEF TaskFits
<1>4. /\ task'[t][k].at = "refreshing" /\ task'[t][k].what = r.what
      /\ task'[t][k].tok = tab[t].refresh /\ task'[t][k].ans = None
  BY <1>1, <1>2, <1>3 DEF TaskRecord
<1>5. TaskFits(k, task'[t][k])
  BY <1>1, <1>4, NullAssumption DEF TaskFits, Promised
<1> QED BY <1>1, <1>3, <1>4, <1>5

LEMMA AnswersTask ==
  ASSUME Fits, NEW t \in Tabs, NEW k \in Kinds, Answers(t, k)
  PROVE  /\ task[t][k].tok \in Pair
         /\ task[t][k].at = "refreshing" /\ task[t][k].ans = None
         /\ task'[t][k].at = "refreshing" /\ task'[t][k].what = task[t][k].what
         /\ task'[t][k].tok = task[t][k].tok
         /\ task'[t][k].ans = RefreshAnswer(task[t][k].tok)
         /\ TaskFits(k, task'[t][k])
<1> DEFINE r == task[t][k]
<1>1. /\ r \in TaskRecord /\ TaskFits(k, r) /\ r.at = "refreshing" /\ r.ans = None
      /\ r.tok \in Pair
  BY TaskFields, TaskFitsHere, RefreshTakes DEF Fits, Answers, Refreshing
<1>2. task'[t][k] = [r EXCEPT !.ans = RefreshAnswer(r.tok)]
  BY DEF Answers
<1>3. /\ task'[t][k].at = "refreshing" /\ task'[t][k].what = r.what
      /\ task'[t][k].tok = r.tok /\ task'[t][k].ans = RefreshAnswer(r.tok)
  BY <1>1, <1>2 DEF TaskRecord
<1>4. RefreshAnswer(r.tok) = Refused \/ RefreshAnswer(r.tok) = [r.tok EXCEPT !.n = @ + 1]
  BY <1>1, RefreshAnswerIs DEF Fits
<1>5. TaskFits(k, task'[t][k])
  BY <1>1, <1>3, <1>4, NullAssumption DEF TaskFits
<1> QED BY <1>1, <1>3, <1>5

LEMMA AnswerNumber ==
  ASSUME Fits, NEW t \in Tabs, NEW k \in Kinds, task[t][k].ans \in Pair
  PROVE  /\ task[t][k].tok \in Pair /\ Refreshing(t, k)
         /\ task[t][k].ans = [task[t][k].tok EXCEPT !.n = task[t][k].tok.n + 1]
         /\ task[t][k].ans.family = task[t][k].tok.family
         /\ task[t][k].ans.n = task[t][k].tok.n + 1
<1>1. TaskFits(k, task[t][k])
  BY TaskFitsHere
<1>2. /\ Refreshing(t, k) /\ task[t][k].tok \in Pair
      /\ task[t][k].ans = [task[t][k].tok EXCEPT !.n = @ + 1]
  BY <1>1, NullAssumption DEF TaskFits, Refreshing
<1> QED BY <1>2, NextPair

LEMMA ResendsTask ==
  ASSUME Fits, NEW t \in Tabs, NEW k \in Kinds, Resends(t, k)
  PROVE  /\ task[t][k].tok \in Pair /\ task[t][k].ans \in Pair
         /\ task[t][k].at = "refreshing" /\ task[t][k].what # "restore"
         /\ task'[t][k].at = "resent" /\ task'[t][k].what = task[t][k].what
         /\ task'[t][k].tok = task[t][k].ans /\ task'[t][k].ans = None
         /\ TaskFits(k, task'[t][k])
<1> DEFINE r == task[t][k]
<1>1. /\ r \in TaskRecord /\ TaskFits(k, r) /\ r.at = "refreshing" /\ r.what # "restore"
      /\ r.tok \in Pair /\ r.ans \in Pair
  BY TaskFields, TaskFitsHere, RefreshTakes DEF Fits, Resends, Refreshing
<1>2. task'[t][k] = [r EXCEPT !.at = "resent", !.tok = r.ans, !.ans = None]
  BY DEF Resends
<1>3. /\ task'[t][k].at = "resent" /\ task'[t][k].what = r.what
      /\ task'[t][k].tok = r.ans /\ task'[t][k].ans = None
  BY <1>1, <1>2 DEF TaskRecord
<1>4. TaskFits(k, task'[t][k])
  BY <1>1, <1>3, NullAssumption DEF TaskFits
<1> QED BY <1>1, <1>3, <1>4

LEMMA FoundsTask ==
  ASSUME Fits, NEW t \in Tabs, Founds(t)
  PROVE  /\ task[t]["login"].tok \in Pair /\ task[t]["login"].at # "refreshing"
         /\ task[t]["login"].what \in Promised
         /\ tab'[t].refresh \in Pair /\ tab'[t].refresh.n = 1
         /\ tab'[t].refresh.family = task[t]["login"].tok.family
         /\ tab'[t].access = tab'[t].refresh
         /\ task'[t]["login"].at = "sent" /\ task'[t]["login"].what = "userinfo"
         /\ task'[t]["login"].tok = tab'[t].refresh /\ task'[t]["login"].ans = None
         /\ TaskFits("login", task'[t]["login"])
<1> DEFINE r == task[t]["login"]
           p == [family |-> r.tok.family, n |-> 1]
<1>1. r.what \in Promised /\ r.tok \in Pair /\ r.at # "refreshing"
  BY TaskFitsHere, KindNames DEF Founds, Promise, TaskFits
<1>2. p \in Pair /\ p.family = r.tok.family /\ p.n = 1
  BY <1>1, PairFields, PairOf
<1>3. /\ tab'[t].access = p /\ tab'[t].refresh = p
      /\ task'[t]["login"] = Sent("userinfo", p)
  BY DEF Founds, Holds
<1> HIDE DEF p
<1>4. "userinfo" \in Whats \ {"none", "restore"} /\ "userinfo" \in WhatsOf("login")
  BY WhatsOfKinds DEF Whats
<1> QED BY <1>1, <1>2, <1>3, <1>4, SentFields, SentFits, KindNames

LEMMA RestoresTask ==
  ASSUME Fits, NEW t \in Tabs, Restores(t)
  PROVE  /\ task[t]["restore"].tok \in Pair /\ task[t]["restore"].ans \in Pair
         /\ task[t]["restore"].at = "refreshing" /\ task[t]["restore"].what = "restore"
         /\ tab'[t].access = task[t]["restore"].ans /\ tab'[t].refresh = task[t]["restore"].ans
         /\ task'[t]["restore"].at = "sent" /\ task'[t]["restore"].what = "userinfo"
         /\ task'[t]["restore"].tok = task[t]["restore"].ans /\ task'[t]["restore"].ans = None
         /\ TaskFits("restore", task'[t]["restore"])
<1> DEFINE r == task[t]["restore"]
<1>1. r.at = "refreshing" /\ r.what = "restore" /\ r.tok \in Pair /\ r.ans \in Pair
  BY RefreshTakes, KindNames DEF Restores, Refreshing
<1>2. "userinfo" \in Whats \ {"none", "restore"} /\ "userinfo" \in WhatsOf("restore")
  BY WhatsOfKinds DEF Whats
<1>3. /\ tab'[t].access = r.ans /\ tab'[t].refresh = r.ans
      /\ task'[t]["restore"] = Sent("userinfo", r.ans)
  BY DEF Restores, Holds
<1> QED BY <1>1, <1>2, <1>3, SentFields, SentFits, KindNames

(* Of the tasks of a page just loaded only the restoring one refreshes.     *)
LEMMA LoadsTask ==
  ASSUME Fits, NEW t \in Tabs, NEW st \in {storage, None}, LoadsWith(t, st), NEW k \in Kinds
  PROVE  /\ TaskFits(k, task'[t][k])
         /\ task'[t][k].ans = None
         /\ task'[t][k].what # "userinfo"
         /\ task'[t][k].at = "refreshing" <=> k = "restore" /\ st # None
         /\ task'[t][k].at = "refreshing" => task'[t][k].tok = st
         /\ task'[t][k].what = "restore" <=> k = "restore" /\ st # None
         /\ k # "login" => task'[t][k].what \notin Promised
<1>1. st \in Pair \cup {None}
  BY DEF Fits, TypeOK
<1>2. TaskFits(k, Idle)
  BY IdleFits
<1>3. CASE k = "login"
  <2>1. CASE task'[t]["login"] = Idle
    BY <1>2, <1>3, <2>1, IdleFields
  <2>2. CASE /\ task'[t]["login"].at = "sent" /\ task'[t]["login"].what \in Promised
             /\ TaskFits("login", task'[t]["login"])
    BY <1>3, <2>2 DEF TaskFits, Promised
  <2> QED BY <2>1, <2>2 DEF LoadsWith
<1>4. CASE k = "restore" /\ st = None
  <2>1. task'[t][k] = Idle
    BY <1>4 DEF LoadsWith
  <2> QED BY <1>2, <1>4, <2>1, IdleFields DEF Promised
<1>5. CASE k = "restore" /\ st # None
  <2> DEFINE rec == [Sent("restore", st) EXCEPT !.at = "refreshing"]
  <2>1. task'[t][k] = rec
    BY <1>5 DEF LoadsWith
  <2>2. rec.at = "refreshing" /\ rec.what = "restore" /\ rec.tok = st /\ rec.ans = None
    BY <1>1, <1>5, RestoreFields
  <2> HIDE DEF rec
  <2>3. TaskFits("restore", rec)
    BY <1>1, <1>5, <2>2, WhatsOfKinds, NullAssumption DEF TaskFits, Promised
  <2> QED BY <1>5, <2>1, <2>2, <2>3 DEF Promised
<1>6. CASE k \notin {"login", "restore"}
  <2>1. task'[t][k] = Idle
    BY <1>6 DEF LoadsWith
  <2> QED BY <1>2, <1>6, <2>1, IdleFields DEF Promised
<1> QED BY <1>3, <1>4, <1>5, <1>6

-----------------------------------------------------------------------------
(* Types.                                                                   *)
LEMMA RotatedType ==
  ASSUME TypeOK, NEW p \in Pair, Rotated(p)
  PROVE  gen' \in [Families -> Nat] /\ dead' \subseteq Families
<1>1. p.family \in Families /\ p.n \in Nat
  BY PairFields
<1> QED BY <1>1 DEF TypeOK, Rotated

LEMMA RiskyType ==
  ASSUME NEW p
  PROVE  Risky(p) \in BOOLEAN
BY DEF Risky

LEMMA PersistType ==
  ASSUME TypeOK, NEW p \in Pair \cup {None}, Persist(p)
  PROVE  storage' \in Pair \cup {None}
BY DEF TypeOK, Persist

LEMMA TypeStep ==
  ASSUME Fits, Effect, inputs' \in 0..MaxInputs
  PROVE  TypeOK'
<1> USE DEF Fits
<1>1. ASSUME NEW t \in Tabs, NEW k \in Kinds, Elsewhere(t, k) PROVE TypeOK'
  BY <1>1 DEF TypeOK, Elsewhere, OnlyTask, SameSession, OnlyTab
<1>2. ASSUME NEW t \in Tabs, NEW k \in Kinds, Starts(t, k) PROVE TypeOK'
  <2>1. slip' \in BOOLEAN
    <3> DEFINE b == Risky(tab[t].refresh)
    <3>1. b \in BOOLEAN
      BY RiskyType
    <3>2. slip' = (slip \/ b)
      BY <1>2 DEF Starts
    <3> HIDE DEF b
    <3> QED BY <3>1, <3>2 DEF TypeOK
  <2> QED BY <1>2, <2>1 DEF TypeOK, Starts, OnlyTask
<1>3. ASSUME NEW t \in Tabs, NEW k \in Kinds, Answers(t, k) PROVE TypeOK'
  <2>1. gen' \in [Families -> Nat] /\ dead' \subseteq Families
    BY <1>3, AnswersTask, RotatedType DEF Answers
  <2> QED BY <1>3, <2>1 DEF TypeOK, Answers, OnlyTask
<1>4. ASSUME NEW t \in Tabs, NEW k \in Kinds, Resends(t, k) PROVE TypeOK'
  <2>1. storage' \in Pair \cup {None}
    BY <1>4, ResendsTask, PersistType DEF Resends, Holds
  <2> QED BY <1>4, <2>1 DEF TypeOK, Resends, Holds, OnlyTask, OnlyTab
<1>5. ASSUME NEW t \in Tabs, NEW k \in Kinds, Leaves(t, k) PROVE TypeOK'
  <2>1. storage' \in Pair \cup {None}
    BY <1>5, PersistType DEF Leaves
  <2>2. orphans' \subseteq Pair
    BY <1>5, RefreshTakes DEF TypeOK, Leaves
  <2> QED BY <1>5, <2>1, <2>2 DEF TypeOK, Leaves, OnlyTask, OnlyTab, Crossing
<1>6. ASSUME NEW t \in Tabs, NEW k \in Kinds, Names(t, k) PROVE TypeOK'
  BY <1>6 DEF TypeOK, Names, OnlyTask, SameSession, OnlyTab
<1>7. ASSUME NEW t \in Tabs, Moves(t) PROVE TypeOK'
  BY <1>7 DEF TypeOK, Moves, SameSession, OnlyTab
<1>8. ASSUME NEW t \in Tabs, Founds(t) PROVE TypeOK'
  <2>1. tab'[t].refresh \in Pair /\ tab'[t].refresh.family = task[t]["login"].tok.family
        /\ task[t]["login"].tok.family \in Families
    BY <1>8, FoundsTask, PairFields
  <2>2. storage' \in Pair \cup {None}
    BY <1>8, <2>1, PersistType DEF Founds, Holds
  <2>3. gen' \in [Families -> Nat]
    <3> DEFINE f == task[t]["login"].tok.family
    <3>1. gen' = [gen EXCEPT ![f] = 1]
      BY <1>8 DEF Founds
    <3> HIDE DEF f
    <3> QED BY <3>1 DEF TypeOK
  <2> QED BY <1>8, <2>2, <2>3 DEF TypeOK, Founds, Holds, OnlyTask, OnlyTab, Crossing
<1>9. ASSUME NEW t \in Tabs, Restores(t) PROVE TypeOK'
  <2>1. storage' \in Pair \cup {None}
    BY <1>9, RestoresTask, PersistType DEF Restores, Holds
  <2> QED BY <1>9, <2>1 DEF TypeOK, Restores, Holds, OnlyTask, OnlyTab
<1>10. ASSUME NEW t \in Tabs, Loads(t) PROVE TypeOK'
  <2>1. PICK st \in {storage, None} : LoadsWith(t, st)
    BY <1>10 DEF Loads
  <2>2. storage' \in Pair \cup {None} /\ crossed' \subseteq Tabs
    BY <2>1 DEF TypeOK, LoadsWith
  <2>3. orphans' \subseteq Pair
    BY <2>1, RefreshTakes DEF TypeOK, LoadsWith
  <2> QED BY <2>1, <2>2, <2>3 DEF TypeOK, LoadsWith, OnlyTab
<1>11. ASSUME NEW p \in orphans, Orphaned(p) PROVE TypeOK'
  <2>1. p \in Pair
    BY DEF TypeOK
  <2>2. gen' \in [Families -> Nat] /\ dead' \subseteq Families
    BY <1>11, <2>1, RotatedType DEF Orphaned
  <2> QED BY <1>11, <2>2 DEF TypeOK, Orphaned
<1> QED BY <1>1, <1>2, <1>3, <1>4, <1>5, <1>6, <1>7, <1>8, <1>9, <1>10, <1>11 DEF Effect

LEMMA TasksPoint ==
  ASSUME TasksFit, NEW t \in Tabs, NEW k \in Kinds, OnlyTask(t, k), TaskFits(k, task'[t][k])
  PROVE  TasksFit'
BY DEF TasksFit, OnlyTask

LEMMA TasksStep ==
  ASSUME Fits, Effect
  PROVE  TasksFit'
<1> USE DEF Fits
<1>1. ASSUME NEW t \in Tabs, NEW k \in Kinds, Elsewhere(t, k) \/ Leaves(t, k) PROVE TasksFit'
  BY <1>1, TasksPoint DEF Elsewhere, Leaves
<1>2. ASSUME NEW t \in Tabs, NEW k \in Kinds, Starts(t, k) PROVE TasksFit'
  BY <1>2, StartsTask, TasksPoint DEF Starts
<1>3. ASSUME NEW t \in Tabs, NEW k \in Kinds, Answers(t, k) PROVE TasksFit'
  BY <1>3, AnswersTask, TasksPoint DEF Answers
<1>4. ASSUME NEW t \in Tabs, NEW k \in Kinds, Resends(t, k) PROVE TasksFit'
  BY <1>4, ResendsTask, TasksPoint DEF Resends
<1>5. ASSUME NEW t \in Tabs, NEW k \in Kinds, Names(t, k) PROVE TasksFit'
  <2>1. TaskFits(k, task'[t][k])
    BY <1>5, IdleFits DEF Names
  <2> QED BY <1>5, <2>1, TasksPoint DEF Names
<1>6. ASSUME NEW t \in Tabs, Founds(t) PROVE TasksFit'
  BY <1>6, FoundsTask, TasksPoint, KindNames DEF Founds
<1>7. ASSUME NEW t \in Tabs, Restores(t) PROVE TasksFit'
  BY <1>7, RestoresTask, TasksPoint, KindNames DEF Restores
<1>8. ASSUME NEW t \in Tabs, Loads(t) PROVE TasksFit'
  <2>1. PICK st \in {storage, None} : LoadsWith(t, st)
    BY <1>8 DEF Loads
  <2>2. \A k \in Kinds : TaskFits(k, task'[t][k])
    BY <2>1, LoadsTask
  <2> QED BY <2>1, <2>2 DEF TasksFit, LoadsWith
<1>9. CASE UNCHANGED task
  BY <1>9 DEF TasksFit
<1> QED BY <1>1, <1>2, <1>3, <1>4, <1>5, <1>6, <1>7, <1>8, <1>9 DEF Effect, Moves, Orphaned
-----------------------------------------------------------------------------
(* The console.                                                             *)
LEMMA ConsolePoint ==
  ASSUME Fits, app = "admin", NEW t \in Tabs, NEW k \in Kinds, OnlyTask(t, k),
         k \in {"restore", "logout"} => task'[t][k].what = "none"
  PROVE  \A u \in Tabs : task'[u]["restore"].what = "none" /\ task'[u]["logout"].what = "none"
<1> SUFFICES ASSUME NEW u \in Tabs, NEW j \in {"restore", "logout"}
             PROVE  task'[u][j].what = "none"
  OBVIOUS
<1>1. j \in Kinds /\ task[u][j].what = "none"
  BY KindNames DEF Fits, ConsoleFits
<1> QED BY <1>1 DEF OnlyTask

LEMMA AppStays == Effect => app' = app
<1>1. \A t \in Tabs, k \in Kinds :
        Elsewhere(t, k) \/ Starts(t, k) \/ Answers(t, k) => app' = app
  BY DEF Elsewhere, Starts, Answers
<1>2. \A t \in Tabs, k \in Kinds :
        Resends(t, k) \/ Leaves(t, k) \/ Names(t, k) => app' = app
  BY DEF Resends, Leaves, Names
<1>3. \A t \in Tabs : Moves(t) \/ Founds(t) \/ Restores(t) \/ Loads(t) => app' = app
  BY DEF Moves, Founds, Restores, Loads, LoadsWith
<1>4. \A p \in orphans : Orphaned(p) => app' = app
  BY DEF Orphaned
<1> QED BY <1>1, <1>2, <1>3, <1>4 DEF Effect

LEMMA ConsoleStep ==
  ASSUME Fits, Effect
  PROVE  ConsoleFits'
<1> SUFFICES ASSUME app = "admin", app' = app
             PROVE  /\ storage' = None
                    /\ \A u \in Tabs : /\ task'[u]["restore"].what = "none"
                                       /\ task'[u]["logout"].what = "none"
  BY AppStays DEF ConsoleFits
<1>0. /\ storage = None
      /\ \A u \in Tabs : task[u]["restore"].what = "none" /\ task[u]["logout"].what = "none"
  BY DEF Fits, ConsoleFits
<1> DEFINE Kept == \A u \in Tabs : task'[u]["restore"].what = "none" /\ task'[u]["logout"].what = "none"
<1>1. ASSUME NEW t \in Tabs, NEW k \in Kinds, Elsewhere(t, k) PROVE Kept /\ storage' = None
  <2>1. k \in {"restore", "logout"} => task'[t][k].what = "none"
    BY <1>1, WhatsOfKinds DEF Elsewhere, TaskFits
  <2> QED BY <1>0, <1>1, <2>1, ConsolePoint DEF Elsewhere
<1>2. ASSUME NEW t \in Tabs, NEW k \in Kinds, Starts(t, k) PROVE Kept /\ storage' = None
  <2>1. task'[t][k].what = task[t][k].what
    BY <1>2, StartsTask
  <2>2. k \in {"restore", "logout"} => task'[t][k].what = "none"
    BY <1>0, <2>1
  <2> QED BY <1>0, <1>2, <2>2, ConsolePoint DEF Starts
<1>3. ASSUME NEW t \in Tabs, NEW k \in Kinds, Answers(t, k) PROVE Kept /\ storage' = None
  BY <1>0, <1>3, AnswersTask, ConsolePoint DEF Answers
<1>4. ASSUME NEW t \in Tabs, NEW k \in Kinds, Resends(t, k) PROVE Kept /\ storage' = None
  <2>1. task'[t][k].what = task[t][k].what
    BY <1>4, ResendsTask
  <2>2. k \in {"restore", "logout"} => task'[t][k].what = "none"
    BY <1>0, <2>1
  <2> QED BY <1>0, <1>4, <2>2, ConsolePoint DEF Resends, Holds, Persist
<1>5. ASSUME NEW t \in Tabs, NEW k \in Kinds, Leaves(t, k) PROVE Kept /\ storage' = None
  BY <1>0, <1>5, ConsolePoint DEF Leaves, TaskFits, Persist
<1>6. ASSUME NEW t \in Tabs, NEW k \in Kinds, Names(t, k) PROVE Kept /\ storage' = None
  BY <1>0, <1>6, IdleFields, ConsolePoint DEF Names
<1>7. ASSUME NEW t \in Tabs, Founds(t) PROVE Kept /\ storage' = None
  <2>1. OnlyTask(t, "login") /\ Persist([family |-> task[t]["login"].tok.family, n |-> 1])
    BY <1>7 DEF Founds, Holds
  <2> QED BY <1>0, <2>1, ConsolePoint, KindNames DEF Persist
<1>8. ASSUME NEW t \in Tabs, Loads(t) PROVE Kept /\ storage' = None
  <2>1. LoadsWith(t, None)
    BY <1>0, <1>8 DEF Loads
  <2>2. task'[t]["restore"] = Idle /\ task'[t]["logout"] = Idle
    BY <2>1, KindNames DEF LoadsWith
  <2> QED BY <1>0, <2>1, <2>2, IdleFields DEF LoadsWith
<1>9. CASE UNCHANGED <<task, storage>>
  BY <1>0, <1>9
<1> QED BY <1>1, <1>2, <1>3, <1>4, <1>5, <1>6, <1>7, <1>8, <1>9 DEF Effect, Moves, Restores, Orphaned

LEMMA FitsStep ==
  ASSUME Fits, Effect, inputs' \in 0..MaxInputs
  PROVE  Fits'
BY TypeStep, TasksStep, ConsoleStep DEF Fits

-----------------------------------------------------------------------------
(* The tokens of a tab.                                                     *)
LEMMA TabsPoint ==
  ASSUME TabsFit, NEW t \in Tabs, OnlyTab(t), \A u \in Tabs : u # t => task'[u] = task[u],
         TabFits(tab'[t], task'[t])
  PROVE  TabsFit'
BY DEF TabsFit, OnlyTab

LEMMA OtherTasks ==
  ASSUME Fits, NEW t \in Tabs, NEW k \in Kinds, OnlyTask(t, k)
  PROVE  \A u \in Tabs : u # t => task'[u] = task[u]
<1> SUFFICES ASSUME NEW u \in Tabs, u # t PROVE task'[u] = task[u]
  OBVIOUS
<1>1. /\ task'[u] \in [Kinds -> TaskRecord] /\ task[u] \in [Kinds -> TaskRecord]
      /\ \A j \in Kinds : task'[u][j] = task[u][j]
  BY DEF OnlyTask, Fits, TypeOK
<1> QED BY <1>1

LEMMA TabsStep ==
  ASSUME Fits, TabsFit, Effect
  PROVE  TabsFit'
<1>1. ASSUME NEW t \in Tabs, NEW k \in Kinds, SameSession(t), OnlyTask(t, k),
             task[t][k].what # "restore"
      PROVE  TabsFit'
  <2>1. TabFits(tab[t], task[t])
    BY DEF TabsFit
  <2>2. task[t]["restore"].what = "restore" => task'[t]["restore"].what = "restore"
    BY <1>1, KindNames DEF OnlyTask
  <2>3. TabFits(tab'[t], task'[t])
    BY <1>1, <2>1, <2>2 DEF TabFits, SameSession
  <2> QED BY <1>1, <2>3, TabsPoint, OtherTasks DEF SameSession
<1>2. ASSUME NEW t \in Tabs, NEW k \in Kinds, Elsewhere(t, k) \/ Names(t, k) PROVE TabsFit'
  BY <1>1, <1>2 DEF Elsewhere, Names
<1>3. ASSUME NEW t \in Tabs, NEW k \in Kinds, Starts(t, k) PROVE TabsFit'
  BY <1>1, <1>3, TabSame DEF Starts, Fits
<1>4. ASSUME NEW t \in Tabs, NEW k \in Kinds, Answers(t, k) PROVE TabsFit'
  <2>1. TabFits(tab[t], task[t])
    BY DEF TabsFit
  <2>2. task'[t]["restore"].what = task[t]["restore"].what
    BY <1>4, AnswersTask, KindNames DEF Answers, OnlyTask
  <2>3. TabFits(tab'[t], task'[t]) /\ OnlyTab(t)
    BY <1>4, <2>1, <2>2, TabSame DEF TabFits, Answers, Fits, SameSession
  <2> QED BY <1>4, <2>3, TabsPoint, OtherTasks DEF Answers
<1>5. ASSUME NEW t \in Tabs, NEW k \in Kinds, OnlyTask(t, k), OnlyTab(t),
             tab'[t].access = tab'[t].refresh,
             tab'[t].refresh \in Pair \cup {None}
      PROVE  TabsFit'
  <2>1. TabFits(tab'[t], task'[t])
    BY <1>5 DEF TabFits
  <2> QED BY <1>5, <2>1, TabsPoint, OtherTasks
<1>6. ASSUME NEW t \in Tabs, NEW k \in Kinds, Resends(t, k) \/ Leaves(t, k) PROVE TabsFit'
  <2>1. CASE Resends(t, k)
    <3>1. tab'[t].access = task[t][k].ans /\ tab'[t].refresh = task[t][k].ans
          /\ task[t][k].ans \in Pair /\ OnlyTask(t, k) /\ OnlyTab(t)
      BY <2>1, ResendsTask DEF Resends, Holds
    <3> QED BY <1>5, <3>1
  <2>2. CASE Leaves(t, k)
    BY <1>5, <2>2 DEF Leaves
  <2> QED BY <1>6, <2>1, <2>2
<1>7. ASSUME NEW t \in Tabs, Founds(t) \/ Restores(t) PROVE TabsFit'
  BY <1>5, <1>7, FoundsTask, RestoresTask, KindNames DEF Founds, Restores, Holds
<1>8. ASSUME NEW t \in Tabs, Loads(t) PROVE TabsFit'
  <2>1. PICK st \in {storage, None} : LoadsWith(t, st)
    BY <1>8 DEF Loads
  <2>2. tab'[t].access = None /\ tab'[t].refresh = st
    BY <2>1 DEF LoadsWith
  <2>3. st # None => task'[t]["restore"].what = "restore"
    BY <2>1, LoadsTask, KindNames
  <2>4. TabFits(tab'[t], task'[t])
    BY <2>2, <2>3 DEF TabFits
  <2> QED BY <2>1, <2>4, TabsPoint DEF LoadsWith
<1>9. ASSUME NEW t \in Tabs, Moves(t) PROVE TabsFit'
  <2>1. TabFits(tab'[t], task'[t])
    BY <1>9 DEF TabsFit, TabFits, Moves, SameSession
  <2> QED BY <1>9, <2>1, TabsPoint DEF Moves, SameSession
<1>10. CASE UNCHANGED <<tab, task>>
  BY <1>10 DEF TabsFit
<1> QED BY <1>2, <1>3, <1>4, <1>6, <1>7, <1>8, <1>9, <1>10 DEF Effect, Orphaned
-----------------------------------------------------------------------------
(* The session of a tab.                                                    *)
LEMMA SessionsPoint ==
  ASSUME SessionsFit, app' = app, NEW t \in Tabs, OnlyTab(t),
         \A u \in Tabs : u # t => task'[u] = task[u],
         \A u \in Tabs : u # t => (u \in crossed' <=> u \in crossed),
         t \notin crossed' => Coherent(tab'[t], task'[t])
  PROVE  SessionsFit'
<1> SUFFICES ASSUME NEW u \in Tabs, u \notin crossed'
             PROVE  Coherent(tab'[u], task'[u])
  BY DEF SessionsFit, Coherent, LoginEnding
<1>1. CASE u = t
  BY <1>1
<1>2. CASE u # t
  <2>1. Coherent(tab[u], task[u])
    BY <1>2 DEF SessionsFit
  <2>2. tab'[u] = tab[u] /\ task'[u] = task[u]
    BY <1>2 DEF OnlyTab
  <2> QED BY <2>1, <2>2
<1> QED BY <1>1, <1>2

Here(t) ==
  /\ Fits
  /\ TabFits(tab[t], task[t])
  /\ Coherent(tab[t], task[t])

(* Nothing but the session's route or a request of it changes.              *)
LEMMA ElsewhereCoherent ==
  ASSUME NEW t \in Tabs, Here(t), NEW k \in Kinds, Elsewhere(t, k)
  PROVE  Coherent(tab'[t], task'[t])
<1>1. /\ tab'[t].access = tab[t].access /\ tab'[t].refresh = tab[t].refresh
      /\ tab'[t].present = tab[t].present /\ tab'[t].user = tab[t].user
  BY DEF Elsewhere, SameSession
<1>2. /\ task'[t][k].at # "refreshing" /\ task'[t][k].what \notin {"restore", "userinfo"}
      /\ task[t][k].what \notin {"restore", "userinfo"}
      /\ \A j \in Kinds : j # k => task'[t][j] = task[t][j]
  BY DEF Elsewhere, OnlyTask
<1>3. LoginEnding(task'[t]) <=> LoginEnding(task[t])
  BY <1>2, KindNames DEF LoginEnding
<1>4. task'[t]["restore"].what = "restore" => task[t]["restore"].what = "restore"
  BY <1>2, KindNames
<1> QED BY <1>1, <1>2, <1>3, <1>4 DEF Here, Coherent

LEMMA MovesCoherent ==
  ASSUME NEW t \in Tabs, Here(t), Moves(t)
  PROVE  Coherent(tab'[t], task'[t])
<1>1. /\ tab'[t].access = tab[t].access /\ tab'[t].refresh = tab[t].refresh
      /\ tab'[t].present = tab[t].present /\ tab'[t].user = tab[t].user
      /\ task'[t] = task[t]
  BY DEF Moves, SameSession
<1> QED BY <1>1 DEF Here, Coherent

LEMMA StartsCoherent ==
  ASSUME NEW t \in Tabs, Here(t), NEW k \in Kinds, Starts(t, k)
  PROVE  Coherent(tab'[t], task'[t])
<1>1. /\ tab' = tab /\ tab[t].refresh \in Pair /\ tab[t].refresh # None
      /\ task'[t][k].what = task[t][k].what /\ task'[t][k].tok = tab[t].refresh
      /\ \A j \in Kinds : j # k => task'[t][j] = task[t][j]
  <2>1. Fits
    BY DEF Here
  <2>2. /\ tab[t].refresh \in Pair /\ task'[t][k].what = task[t][k].what
        /\ task'[t][k].tok = tab[t].refresh
    BY <2>1, StartsTask
  <2>3. tab' = tab /\ tab[t].refresh # None /\ OnlyTask(t, k)
    BY DEF Starts
  <2> QED BY <2>2, <2>3 DEF OnlyTask
<1>2. /\ LoginEnding(task'[t]) <=> LoginEnding(task[t])
      /\ task'[t]["restore"].what = task[t]["restore"].what
  BY <1>1, KindNames DEF LoginEnding
<1>3. ASSUME NEW j \in Kinds, task'[t][j].what = "userinfo"
      PROVE  tab[t].access # None /\ task'[t][j].tok.family = tab[t].access.family
  <2>1. tab[t].access # None /\ task[t][j].tok.family = tab[t].access.family
    BY <1>1, <1>3 DEF Here, Coherent
  <2>2. tab[t].access = tab[t].refresh
    BY <2>1 DEF Here, TabFits
  <2> QED BY <1>1, <2>1, <2>2
<1>4. \A j \in Kinds : task'[t][j].at = "refreshing" =>
        tab[t].refresh # None /\ task'[t][j].tok.family = tab[t].refresh.family
  BY <1>1 DEF Here, Coherent
<1> QED BY <1>1, <1>2, <1>3, <1>4 DEF Here, Coherent

LEMMA AnswersCoherent ==
  ASSUME NEW t \in Tabs, Here(t), NEW k \in Kinds, Answers(t, k)
  PROVE  Coherent(tab'[t], task'[t])
<1>1. /\ tab' = tab
      /\ \A j \in Kinds : /\ task'[t][j].at = task[t][j].at
                          /\ task'[t][j].what = task[t][j].what
                          /\ task'[t][j].tok = task[t][j].tok
  BY AnswersTask DEF Here, Answers, OnlyTask
<1>2. /\ LoginEnding(task'[t]) <=> LoginEnding(task[t])
      /\ task'[t]["restore"].what = task[t]["restore"].what
  BY <1>1, KindNames DEF LoginEnding
<1> QED BY <1>1, <1>2 DEF Here, Coherent

(* New tokens of the family a task was refreshing.                          *)
LEMMA HeldFamily ==
  ASSUME NEW t \in Tabs, Here(t), NEW k \in Kinds, task[t][k].ans \in Pair
  PROVE  /\ tab[t].refresh # None
         /\ task[t][k].ans.family = tab[t].refresh.family
         /\ task[t][k].ans # None
BY AnswerNumber, NullAssumption DEF Here, Coherent, Refreshing

LEMMA ResendsCoherent ==
  ASSUME NEW t \in Tabs, Here(t), NEW k \in Kinds, Resends(t, k)
  PROVE  Coherent(tab'[t], task'[t])
<1> DEFINE p == task[t][k].ans
<1>1. /\ tab'[t].access = p /\ tab'[t].refresh = p
      /\ tab'[t].present = tab[t].present /\ tab'[t].user = tab[t].user
  BY DEF Resends, Holds
<1>2. /\ p # None /\ tab[t].refresh # None /\ p.family = tab[t].refresh.family
  BY ResendsTask, HeldFamily DEF Here
<1>3. /\ task'[t][k].at = "resent" /\ task'[t][k].what = task[t][k].what
      /\ task'[t][k].tok = p
      /\ \A j \in Kinds : j # k => task'[t][j] = task[t][j]
  <2>1. /\ task'[t][k].at = "resent" /\ task'[t][k].what = task[t][k].what
        /\ task'[t][k].tok = p
    BY ResendsTask DEF Here
  <2>2. \A j \in Kinds : j # k => task'[t][j] = task[t][j]
    BY DEF Resends, OnlyTask
  <2> QED BY <2>1, <2>2
<1> HIDE DEF p
<1>4. /\ LoginEnding(task'[t]) <=> LoginEnding(task[t])
      /\ task'[t]["restore"].what = task[t]["restore"].what
  BY <1>3, KindNames DEF LoginEnding
<1>5. tab[t].access # None => tab[t].access.family = p.family
  BY <1>2 DEF Here, TabFits
<1>6. \A j \in Kinds : task'[t][j].at = "refreshing" => task'[t][j].tok.family = p.family
  BY <1>2, <1>3 DEF Here, Coherent
<1>7. \A j \in Kinds : task'[t][j].what = "userinfo" => task'[t][j].tok.family = p.family
  BY <1>3, <1>5 DEF Here, Coherent
<1>8. tab[t].user # None /\ ~LoginEnding(task[t]) => p.family = tab[t].user
  BY <1>5 DEF Here, Coherent
<1>9. app = "account" => tab[t].present
  BY <1>2 DEF Here, Coherent
<1>10. app = "admin" /\ ~LoginEnding(task[t]) => tab[t].user # None /\ tab[t].user \in Admins
  <2>1. app = "admin" => tab[t].access # None
    BY <1>2, KindNames DEF Here, TabFits, Fits, ConsoleFits
  <2> QED BY <2>1 DEF Here, Coherent
<1>11. task[t]["restore"].what = "restore" => tab[t].user = None /\ ~LoginEnding(task[t])
  BY DEF Here, Coherent
<1> QED BY <1>1, <1>2, <1>4, <1>6, <1>7, <1>8, <1>9, <1>10, <1>11 DEF Coherent

LEMMA RestoresCoherent ==
  ASSUME NEW t \in Tabs, Here(t), Restores(t)
  PROVE  Coherent(tab'[t], task'[t])
<1> DEFINE p == task[t]["restore"].ans
<1>1. /\ tab'[t].access = p /\ tab'[t].refresh = p
      /\ tab'[t].present /\ tab'[t].user = tab[t].user
  BY DEF Restores, Holds
<1>2. /\ p # None /\ tab[t].refresh # None /\ p.family = tab[t].refresh.family
  BY RestoresTask, HeldFamily, KindNames DEF Here
<1>3. /\ task'[t]["restore"].at = "sent" /\ task'[t]["restore"].what = "userinfo"
      /\ task'[t]["restore"].tok = p
      /\ \A j \in Kinds : j # "restore" => task'[t][j] = task[t][j]
  BY RestoresTask DEF Here, Restores, OnlyTask
<1> HIDE DEF p
<1>4. tab[t].user = None /\ app = "account"
  BY DEF Here, Coherent, Restores
<1>5. tab[t].access # None => tab[t].access.family = p.family
  BY <1>2 DEF Here, TabFits
<1>6. \A j \in Kinds : task'[t][j].at = "refreshing" => task'[t][j].tok.family = p.family
  BY <1>2, <1>3 DEF Here, Coherent
<1>7. \A j \in Kinds : task'[t][j].what = "userinfo" => task'[t][j].tok.family = p.family
  BY <1>3, <1>5 DEF Here, Coherent
<1> QED BY <1>1, <1>2, <1>3, <1>4, <1>6, <1>7 DEF Coherent

LEMMA NamesCoherent ==
  ASSUME NEW t \in Tabs, Here(t), NEW k \in Kinds, Names(t, k)
  PROVE  Coherent(tab'[t], task'[t])
<1>1. /\ tab'[t].access = tab[t].access /\ tab'[t].refresh = tab[t].refresh
      /\ tab'[t].present = tab[t].present
      /\ tab'[t].user \in {None, task[t][k].tok.family}
      /\ app = "admin" => tab'[t].user = task[t][k].tok.family /\ tab'[t].user \in Admins
  BY DEF Names, SameSession
<1>2. /\ task'[t][k].at = "idle" /\ task'[t][k].what = "none"
      /\ \A j \in Kinds : j # k => task'[t][j] = task[t][j]
  BY IdleFields DEF Names, OnlyTask
<1>3. /\ task[t][k].what = "userinfo"
      /\ tab[t].access # None /\ task[t][k].tok.family = tab[t].access.family
  BY DEF Here, Coherent, Names
<1>4. task[t][k].tok.family \in Families /\ None \notin Families
  BY <1>3, TaskFitsHere, PairFields, WebSessionAssumption DEF Here, TaskFits
<1>5. k \in {"login", "restore"}
  <2>1. "userinfo" \in WhatsOf(k)
    BY <1>3, TaskFitsHere DEF Here, TaskFits
  <2>2. k # "logout" /\ k \notin Calls
    BY <2>1, WhatsOfKinds
  <2> QED BY <2>2 DEF Kinds
<1>6. app = "account" => tab[t].present
  BY <1>3 DEF Here, Coherent
<1>7. task'[t]["restore"].what # "restore"
  <2>1. CASE k = "restore"
    BY <1>2, <2>1
  <2>2. CASE k = "login"
    BY <1>2, <1>3, <2>2, KindNames DEF Here, Coherent, LoginEnding
  <2> QED BY <1>5, <2>1, <2>2
<1>8. \A j \in Kinds : task'[t][j].at = "refreshing" =>
        tab[t].refresh # None /\ task'[t][j].tok.family = tab[t].refresh.family
  BY <1>2 DEF Here, Coherent
<1>9. \A j \in Kinds : task'[t][j].what = "userinfo" =>
        tab[t].access # None /\ task'[t][j].tok.family = tab[t].access.family
  BY <1>2 DEF Here, Coherent
<1> QED BY <1>1, <1>3, <1>4, <1>6, <1>7, <1>8, <1>9 DEF Coherent

(* A session begins or ends: no other task is under way.                    *)
LEMMA Alone ==
  ASSUME Fits, NEW t \in Tabs, NEW k \in Kinds, Crossing(t, k), t \notin crossed', OnlyTask(t, k)
  PROVE  \A j \in Kinds \ {k} : /\ task'[t][j].at \in {"idle", "asking"}
                                /\ task'[t][j].what = "none"
<1> SUFFICES ASSUME NEW j \in Kinds \ {k}
             PROVE  task'[t][j].at \in {"idle", "asking"} /\ task'[t][j].what = "none"
  OBVIOUS
<1>1. task[t][j].at \in {"idle", "asking"}
  BY DEF Crossing, Busy
<1>2. task[t][j].what = "none"
  BY <1>1, TaskFitsHere DEF TaskFits
<1> QED BY <1>1, <1>2 DEF OnlyTask

LEMMA FoundsCoherent ==
  ASSUME Fits, NEW t \in Tabs, Founds(t), t \notin crossed'
  PROVE  Coherent(tab'[t], task'[t])
<1>1. \A j \in Kinds \ {"login"} : task'[t][j].at \in {"idle", "asking"} /\ task'[t][j].what = "none"
  BY Alone, KindNames DEF Founds
<1>2. /\ tab'[t].refresh \in Pair /\ tab'[t].access = tab'[t].refresh
      /\ task'[t]["login"].at = "sent" /\ task'[t]["login"].what = "userinfo"
      /\ task'[t]["login"].tok = tab'[t].refresh
  BY FoundsTask
<1>3. tab'[t].refresh # None
  BY <1>2, NullAssumption
<1>4. app = "account" => tab'[t].present
  BY DEF Founds
<1> QED BY <1>1, <1>2, <1>3, <1>4, KindNames DEF Coherent, LoginEnding

LEMMA LeavesCoherent ==
  ASSUME Fits, NEW t \in Tabs, NEW k \in Kinds, Leaves(t, k), t \notin crossed',
         Coherent(tab[t], task[t])
  PROVE  Coherent(tab'[t], task'[t])
<1>1. \A j \in Kinds : task'[t][j].at \in {"idle", "asking"} /\ task'[t][j].what = "none"
  BY Alone DEF Leaves, TaskFits
<1>2. tab'[t].access = None /\ tab'[t].refresh = None
  BY DEF Leaves
<1>3. tab'[t].user = None
  <2>1. task[t][k].what = "restore" => k = "restore"
    BY TaskFitsHere, WhatsOfKinds DEF TaskFits, Kinds, Promised
  <2> QED BY <2>1 DEF Leaves, Coherent
<1> QED BY <1>1, <1>2, <1>3, KindNames DEF Coherent

LEMMA LoadsCoherent ==
  ASSUME Fits, NEW t \in Tabs, NEW st \in {storage, None}, LoadsWith(t, st)
  PROVE  Coherent(tab'[t], task'[t])
<1>1. /\ tab'[t].access = None /\ tab'[t].refresh = st /\ tab'[t].user = None
      /\ tab'[t].present <=> st # None
  BY DEF LoadsWith
<1>2. \A k \in Kinds : /\ task'[t][k].what # "userinfo"
                       /\ task'[t][k].at = "refreshing" => st # None /\ task'[t][k].tok = st
  BY LoadsTask
<1> QED BY <1>1, <1>2, KindNames DEF Coherent, LoginEnding

LEMMA SessionsStep ==
  ASSUME Fits, TabsFit, SessionsFit, Effect
  PROVE  SessionsFit'
<1>1. app' = app
  BY AppStays
<1>2. \A t \in Tabs : t \notin crossed => Here(t)
  BY DEF TabsFit, SessionsFit, Here
<1>3. ASSUME NEW t \in Tabs, NEW k \in Kinds,
             \/ Elsewhere(t, k) \/ Starts(t, k) \/ Answers(t, k) \/ Resends(t, k) \/ Names(t, k)
      PROVE  SessionsFit'
  <2>1. OnlyTab(t) /\ OnlyTask(t, k) /\ crossed' = crossed
    BY <1>3, TabSame DEF Fits, Elsewhere, Starts, Answers, Resends, Names, Holds, SameSession
  <2>2. t \notin crossed => Coherent(tab'[t], task'[t])
    BY <1>2, <1>3, ElsewhereCoherent, StartsCoherent, AnswersCoherent, ResendsCoherent, NamesCoherent
  <2> QED BY <1>1, <2>1, <2>2, OtherTasks, SessionsPoint
<1>4. ASSUME NEW t \in Tabs, NEW k \in Kinds, Leaves(t, k) PROVE SessionsFit'
  <2>1. t \notin crossed' => Coherent(tab'[t], task'[t])
    BY <1>2, <1>4, LeavesCoherent DEF Here, Leaves, Crossing
  <2> QED BY <1>1, <1>4, <2>1, OtherTasks, SessionsPoint DEF Leaves, Crossing
<1>5. ASSUME NEW t \in Tabs, Founds(t) PROVE SessionsFit'
  <2>1. t \notin crossed' => Coherent(tab'[t], task'[t])
    BY <1>5, FoundsCoherent
  <2> QED BY <1>1, <1>5, <2>1, OtherTasks, SessionsPoint, KindNames DEF Founds, Holds, Crossing
<1>6. ASSUME NEW t \in Tabs, Restores(t) PROVE SessionsFit'
  <2>1. t \notin crossed => Coherent(tab'[t], task'[t])
    BY <1>2, <1>6, RestoresCoherent
  <2> QED BY <1>1, <1>6, <2>1, OtherTasks, SessionsPoint, KindNames DEF Restores, Holds
<1>7. ASSUME NEW t \in Tabs, Moves(t) PROVE SessionsFit'
  <2>1. t \notin crossed => Coherent(tab'[t], task'[t])
    BY <1>2, <1>7, MovesCoherent
  <2> QED BY <1>1, <1>7, <2>1, SessionsPoint DEF Moves, SameSession
<1>8. ASSUME NEW t \in Tabs, Loads(t) PROVE SessionsFit'
  <2>1. PICK st \in {storage, None} : LoadsWith(t, st)
    BY <1>8 DEF Loads
  <2>2. Coherent(tab'[t], task'[t])
    BY <2>1, LoadsCoherent
  <2> QED BY <1>1, <2>1, <2>2, SessionsPoint DEF LoadsWith
<1>9. CASE UNCHANGED <<tab, task, crossed>>
  BY <1>1, <1>9 DEF SessionsFit, Coherent, LoginEnding
<1> QED BY <1>3, <1>4, <1>5, <1>6, <1>7, <1>8, <1>9 DEF Effect, Orphaned
-----------------------------------------------------------------------------
(* The server's rotation of a token.                                        *)
LEMMA RotatedIs ==
  ASSUME TypeOK, NEW p \in Pair, Rotated(p)
  PROVE  \/ RefreshAnswer(p) = Refused /\ gen' = gen
         \/ /\ RefreshAnswer(p) \in Pair
            /\ RefreshAnswer(p).family = p.family /\ RefreshAnswer(p).n = p.n + 1
            /\ p.n = gen[p.family]
            /\ gen' = [gen EXCEPT ![p.family] = p.n + 1] /\ dead' = dead
<1>1. /\ [p EXCEPT !.n = p.n + 1] \in Pair
      /\ [p EXCEPT !.n = p.n + 1].family = p.family
      /\ [p EXCEPT !.n = p.n + 1].n = p.n + 1
  BY NextPair
<1>2. CASE RefreshAnswer(p) = Refused
  BY <1>2 DEF Rotated
<1>3. CASE RefreshAnswer(p) # Refused
  <2>1. RefreshAnswer(p) = [p EXCEPT !.n = p.n + 1] /\ p.n = gen[p.family]
    BY <1>3 DEF RefreshAnswer, Accepted
  <2>2. gen' = [gen EXCEPT ![p.family] = p.n + 1] /\ dead' = dead
    BY <1>3 DEF Rotated
  <2> QED BY <1>1, <2>1, <2>2
<1> QED BY <1>2, <1>3

LEMMA RotatedGen ==
  ASSUME TypeOK, NEW p \in Pair, Rotated(p), NEW f \in Families
  PROVE  /\ gen'[f] \in Nat /\ gen[f] \in Nat /\ gen[f] <= gen'[f]
         /\ gen'[f] # gen[f] => /\ f = p.family /\ p.n = gen[f] /\ gen'[f] = gen[f] + 1
<1>1. gen \in [Families -> Nat] /\ p.family \in Families /\ p.n \in Nat
  BY PairFields DEF TypeOK
<1> QED BY <1>1, RotatedIs

(* No family loses a generation.                                            *)
LEMMA GenGrows ==
  ASSUME Fits, CodesFit, Effect, NEW f \in Families
  PROVE  gen[f] \in Nat /\ gen'[f] \in Nat /\ gen[f] <= gen'[f]
<1>0. gen \in [Families -> Nat]
  BY DEF Fits, TypeOK
<1>1. CASE gen' = gen
  BY <1>0, <1>1
<1>2. ASSUME NEW t \in Tabs, NEW k \in Kinds, Answers(t, k)
      PROVE  gen[f] \in Nat /\ gen'[f] \in Nat /\ gen[f] <= gen'[f]
  BY <1>2, AnswersTask, RotatedGen DEF Answers, Fits
<1>3. ASSUME NEW p \in orphans, Orphaned(p)
      PROVE  gen[f] \in Nat /\ gen'[f] \in Nat /\ gen[f] <= gen'[f]
  BY <1>3, RotatedGen DEF Orphaned, Fits, TypeOK
<1>4. ASSUME NEW t \in Tabs, Founds(t)
      PROVE  gen[f] \in Nat /\ gen'[f] \in Nat /\ gen[f] <= gen'[f]
  <2> DEFINE g == task[t]["login"].tok.family
  <2>1. g \in Families /\ gen[g] = 0
    BY <1>4, FoundsTask, PairFields DEF CodesFit, Founds
  <2>2. gen' = [gen EXCEPT ![g] = 1]
    BY <1>4 DEF Founds
  <2> HIDE DEF g
  <2> QED BY <1>0, <2>1, <2>2
<1>5. \A t \in Tabs, k \in Kinds :
        Elsewhere(t, k) \/ Starts(t, k) \/ Resends(t, k) => gen' = gen
  BY DEF Elsewhere, Starts, Resends
<1>6. \A t \in Tabs, k \in Kinds : Leaves(t, k) \/ Names(t, k) => gen' = gen
  BY DEF Leaves, Names
<1>7. \A t \in Tabs : Moves(t) \/ Restores(t) \/ Loads(t) => gen' = gen
  BY DEF Moves, Restores, Loads, LoadsWith
<1> QED BY <1>1, <1>2, <1>3, <1>4, <1>5, <1>6, <1>7 DEF Effect

-----------------------------------------------------------------------------
(* Where the tokens come from.                                              *)
LEMMA KnownPlaces ==
  ASSUME NEW p
  PROVE  /\ p = storage => Known(p)
         /\ p \in orphans => Known(p)
         /\ \A t \in Tabs : p = tab[t].refresh => Known(p)
         /\ \A t \in Tabs, k \in Kinds : Refreshing(t, k) /\ p = task[t][k].tok => Known(p)
         /\ \A t \in Tabs, k \in Kinds : Refreshing(t, k) /\ p = task[t][k].ans => Known(p)
BY DEF Known

LEMMA KnownAfter ==
  ASSUME NEW p, Known(p)'
  PROVE  \/ p = storage' \/ p \in orphans'
         \/ \E t \in Tabs : p = tab'[t].refresh
         \/ \E t \in Tabs, k \in Kinds :
              task'[t][k].at = "refreshing" /\ p \in {task'[t][k].tok, task'[t][k].ans}
BY DEF Known, Refreshing

(* A step at task k of tab t that does not touch storage, tabs and orphans. *)
LEMMA KnownTask ==
  ASSUME NEW p \in Pair, Known(p)', NEW t \in Tabs, NEW k \in Kinds, OnlyTask(t, k),
         UNCHANGED storage,
         \A u \in Tabs : tab'[u].refresh = tab[u].refresh,
         orphans' \subseteq orphans,
         task'[t][k].at = "refreshing" => Known(task'[t][k].tok) /\ (p = task'[t][k].ans => Known(p))
  PROVE  Known(p)
<1>1. CASE p = storage' \/ p \in orphans' \/ \E u \in Tabs : p = tab'[u].refresh
  BY <1>1, KnownPlaces
<1>2. CASE \E u \in Tabs, j \in Kinds :
              task'[u][j].at = "refreshing" /\ p \in {task'[u][j].tok, task'[u][j].ans}
  <2>1. PICK u \in Tabs, j \in Kinds :
              task'[u][j].at = "refreshing" /\ p \in {task'[u][j].tok, task'[u][j].ans}
    BY <1>2
  <2>2. CASE u = t /\ j = k
    BY <2>1, <2>2
  <2>3. CASE u # t \/ j # k
    BY <2>1, <2>3, KnownPlaces DEF OnlyTask, Refreshing
  <2> QED BY <2>2, <2>3
<1> QED BY <1>1, <1>2, KnownAfter

(* A step that ends task k of tab t and gives the tab token q.              *)
LEMMA KnownEnd ==
  ASSUME NEW p \in Pair, Known(p)', NEW t \in Tabs, NEW k \in Kinds, OnlyTask(t, k), OnlyTab(t),
         NEW q, storage' \in {storage, q}, tab'[t].refresh = q,
         \A x \in orphans' : Known(x),
         task'[t][k].at # "refreshing"
  PROVE  Known(p) \/ p = q
<1>1. CASE p = storage' \/ p \in orphans' \/ \E u \in Tabs : p = tab'[u].refresh
  BY <1>1, KnownPlaces DEF OnlyTab
<1>2. CASE \E u \in Tabs, j \in Kinds :
              task'[u][j].at = "refreshing" /\ p \in {task'[u][j].tok, task'[u][j].ans}
  BY <1>2, KnownPlaces DEF OnlyTask, Refreshing
<1> QED BY <1>1, <1>2, KnownAfter

LEMMA KnownStep ==
  ASSUME Fits, Effect, NEW p \in Pair, Known(p)'
  PROVE  \/ Known(p)
         \/ \E t \in Tabs, k \in Kinds : Answers(t, k) /\ p = RefreshAnswer(task[t][k].tok)
         \/ \E t \in Tabs : Founds(t) /\ p = tab'[t].refresh
<1>0. p # None
  BY NullAssumption
<1>1. ASSUME NEW t \in Tabs, NEW k \in Kinds, Elsewhere(t, k) \/ Names(t, k) PROVE Known(p)
  <2>1. /\ OnlyTask(t, k) /\ SameSession(t) /\ UNCHANGED <<storage, orphans>>
        /\ task'[t][k].at # "refreshing"
    BY <1>1, IdleFields DEF Elsewhere, Names
  <2>2. \A u \in Tabs : tab'[u].refresh = tab[u].refresh
    BY <2>1 DEF SameSession, OnlyTab
  <2> QED BY <2>1, <2>2, KnownTask
<1>2. ASSUME NEW t \in Tabs, NEW k \in Kinds, Starts(t, k) PROVE Known(p)
  <2>1. /\ OnlyTask(t, k) /\ UNCHANGED <<storage, orphans, tab>>
        /\ Known(task'[t][k].tok) /\ p # task'[t][k].ans
    <3>1. /\ OnlyTask(t, k) /\ UNCHANGED <<storage, orphans, tab>>
          /\ task'[t][k].tok = tab[t].refresh /\ task'[t][k].ans = None
      BY <1>2, StartsTask DEF Starts
    <3>2. Known(tab[t].refresh)
      BY KnownPlaces
    <3> QED BY <1>0, <3>1, <3>2
  <2> QED BY <2>1, KnownTask
<1>3. ASSUME NEW t \in Tabs, NEW k \in Kinds, Answers(t, k), p # RefreshAnswer(task[t][k].tok)
      PROVE  Known(p)
  <2>1. /\ OnlyTask(t, k) /\ UNCHANGED <<storage, orphans, tab>>
        /\ task'[t][k].tok = task[t][k].tok /\ Refreshing(t, k) /\ p # task'[t][k].ans
    BY <1>3, AnswersTask DEF Answers
  <2>2. Known(task'[t][k].tok)
    BY <2>1, KnownPlaces
  <2> QED BY <2>1, <2>2, KnownTask
<1>4. ASSUME NEW t \in Tabs, NEW k \in Kinds, Resends(t, k) PROVE Known(p)
  <2> DEFINE q == task[t][k].ans
  <2>1. /\ OnlyTask(t, k) /\ OnlyTab(t) /\ storage' \in {storage, q} /\ tab'[t].refresh = q
        /\ orphans' = orphans /\ task'[t][k].at # "refreshing" /\ Refreshing(t, k)
    BY <1>4, ResendsTask DEF Resends, Holds, Persist
  <2>2. Known(q)
    BY <2>1, KnownPlaces
  <2> HIDE DEF q
  <2>3. \A x \in orphans' : Known(x)
    BY <2>1, KnownPlaces
  <2> QED BY <2>1, <2>2, <2>3, KnownEnd
<1>5. ASSUME NEW t \in Tabs, Restores(t) PROVE Known(p)
  <2> DEFINE q == task[t]["restore"].ans
  <2>1. /\ OnlyTask(t, "restore") /\ OnlyTab(t) /\ storage' \in {storage, q} /\ tab'[t].refresh = q
        /\ orphans' = orphans /\ task'[t]["restore"].at # "refreshing" /\ Refreshing(t, "restore")
    BY <1>5, RestoresTask DEF Restores, Holds, Persist
  <2>2. Known(q)
    BY <2>1, KnownPlaces, KindNames
  <2> HIDE DEF q
  <2>3. \A x \in orphans' : Known(x)
    BY <2>1, KnownPlaces
  <2> QED BY <2>1, <2>2, <2>3, KnownEnd, KindNames
<1>6. ASSUME NEW t \in Tabs, NEW k \in Kinds, Leaves(t, k) PROVE Known(p)
  <2>1. /\ OnlyTask(t, k) /\ OnlyTab(t) /\ storage' \in {storage, None} /\ tab'[t].refresh = None
        /\ task'[t][k].at # "refreshing"
    BY <1>6 DEF Leaves, Persist
  <2>2. \A x \in orphans' : Known(x)
    BY <1>6, KnownPlaces DEF Leaves
  <2> QED BY <1>0, <2>1, <2>2, KnownEnd
<1>7. ASSUME NEW t \in Tabs, Founds(t), p # tab'[t].refresh PROVE Known(p)
  <2> DEFINE q == tab'[t].refresh
  <2>1. /\ OnlyTask(t, "login") /\ OnlyTab(t) /\ storage' \in {storage, q}
        /\ orphans' = orphans /\ task'[t]["login"].at # "refreshing"
    BY <1>7, FoundsTask DEF Founds, Holds, Persist
  <2>2. \A x \in orphans' : Known(x)
    BY <2>1, KnownPlaces
  <2> QED BY <1>7, <2>1, <2>2, KnownEnd, KindNames
<1>8. ASSUME NEW t \in Tabs, Loads(t) PROVE Known(p)
  <2>1. PICK st \in {storage, None} : LoadsWith(t, st)
    BY <1>8 DEF Loads
  <2>2. storage' = st /\ OnlyTab(t) /\ tab'[t].refresh = st /\ (p = st => Known(p))
    BY <1>0, <2>1, KnownPlaces DEF LoadsWith
  <2>3. \A x \in orphans' : Known(x)
    BY <2>1, KnownPlaces DEF LoadsWith
  <2>4. ASSUME NEW u \in Tabs, NEW j \in Kinds, task'[u][j].at = "refreshing",
               p \in {task'[u][j].tok, task'[u][j].ans}
        PROVE  Known(p)
    <3>1. CASE u = t
      BY <1>0, <2>1, <2>2, <2>4, <3>1, LoadsTask
    <3>2. CASE u # t
      BY <2>1, <2>4, <3>2, KnownPlaces DEF LoadsWith, Refreshing
    <3> QED BY <3>1, <3>2
  <2>5. CASE p = storage' \/ p \in orphans' \/ \E u \in Tabs : p = tab'[u].refresh
    BY <2>2, <2>3, <2>5, KnownPlaces DEF OnlyTab
  <2> QED BY <2>4, <2>5, KnownAfter
<1>9. ASSUME NEW t \in Tabs, Moves(t) PROVE Known(p)
  <2>1. UNCHANGED <<storage, orphans, task>> /\ \A u \in Tabs : tab'[u].refresh = tab[u].refresh
    BY <1>9 DEF Moves, SameSession, OnlyTab
  <2> QED BY <2>1 DEF Known, Refreshing
<1>10. ASSUME NEW q \in orphans, Orphaned(q) PROVE Known(p)
  <2>1. UNCHANGED <<storage, tab, task>> /\ orphans' \subseteq orphans
    BY <1>10 DEF Orphaned
  <2> QED BY <2>1 DEF Known, Refreshing
<1> QED BY <1>1, <1>2, <1>3, <1>4, <1>5, <1>6, <1>7, <1>8, <1>9, <1>10 DEF Effect

LEMMA BornStep ==
  ASSUME Fits, CodesFit, TokensBorn, Effect
  PROVE  TokensBorn'
<1> SUFFICES ASSUME NEW p \in Pair, Known(p)' PROVE 1 <= p.n /\ p.n <= gen'[p.family]
  BY DEF TokensBorn, Born
<1>0. p.family \in Families /\ p.n \in Nat
  BY PairFields
<1>1. CASE Known(p)
  <2>1. 1 <= p.n /\ p.n <= gen[p.family]
    BY <1>1 DEF TokensBorn, Born
  <2> QED BY <1>0, <2>1, GenGrows
<1>2. ASSUME NEW t \in Tabs, NEW k \in Kinds, Answers(t, k), p = RefreshAnswer(task[t][k].tok)
      PROVE  1 <= p.n /\ p.n <= gen'[p.family]
  <2> DEFINE q == task[t][k].tok
  <2>1. q \in Pair /\ Rotated(q) /\ p # Refused
    BY <1>2, AnswersTask, NullAssumption DEF Answers
  <2>2. q.n \in Nat /\ q.family \in Families
    BY <2>1, PairFields
  <2>3. p.family = q.family /\ p.n = q.n + 1 /\ gen' = [gen EXCEPT ![q.family] = q.n + 1]
    BY <1>2, <2>1, RotatedIs DEF Fits
  <2>4. gen \in [Families -> Nat]
    BY DEF Fits, TypeOK
  <2> HIDE DEF q
  <2> QED BY <2>2, <2>3, <2>4
<1>3. ASSUME NEW t \in Tabs, Founds(t), p = tab'[t].refresh
      PROVE  1 <= p.n /\ p.n <= gen'[p.family]
  <2>1. p.n = 1 /\ p.family = task[t]["login"].tok.family
    BY <1>3, FoundsTask
  <2>2. gen' = [gen EXCEPT ![p.family] = 1] /\ gen \in [Families -> Nat]
    BY <1>3, <2>1 DEF Founds, Fits, TypeOK
  <2> QED BY <1>0, <2>1, <2>2
<1> QED BY <1>1, <1>2, <1>3, KnownStep

-----------------------------------------------------------------------------
(* Codes.                                                                   *)
LEMMA CodesKept ==
  ASSUME CodesFit,
         \A u \in Tabs : task'[u]["login"].what \in Promised =>
           /\ task[u]["login"].what \in Promised
           /\ task'[u]["login"].tok = task[u]["login"].tok
           /\ gen'[task[u]["login"].tok.family] = 0
  PROVE  CodesFit'
<1> SUFFICES ASSUME NEW t \in Tabs, task'[t]["login"].what \in Promised
             PROVE  /\ task'[t]["login"].tok.n = 0
                    /\ gen'[task'[t]["login"].tok.family] = 0
                    /\ \A u \in Tabs \ {t} : task'[u]["login"].what \in Promised =>
                         task'[u]["login"].tok.family # task'[t]["login"].tok.family
  BY DEF CodesFit, Promise
<1> QED BY DEF CodesFit, Promise

LEMMA CodesAdded ==
  ASSUME Fits, CodesFit, NEW t \in Tabs, gen' = gen,
         \A u \in Tabs : u # t => task'[u]["login"] = task[u]["login"],
         task'[t]["login"].what \in Promised =>
           TaskFits("login", task'[t]["login"]) /\ Unpromising(t, task'[t]["login"])
  PROVE  CodesFit'
<1>1. CASE task'[t]["login"].what \notin Promised
  <2>1. ASSUME NEW u \in Tabs, task'[u]["login"].what \in Promised
        PROVE  /\ task[u]["login"].what \in Promised
               /\ task'[u]["login"].tok = task[u]["login"].tok
               /\ gen'[task[u]["login"].tok.family] = 0
    BY <1>1, <2>1 DEF CodesFit, Promise
  <2> QED BY <2>1, CodesKept
<1>2. CASE task'[t]["login"].what \in Promised
  <2> DEFINE p == task'[t]["login"].tok
  <2>1. p \in Pair /\ p.n = 0 /\ gen[p.family] = 0 /\ \A u \in Tabs : task[u]["login"].tok # p
    BY <1>2 DEF TaskFits, Unpromising
  <2>2. ASSUME NEW u \in Tabs, u # t, task'[u]["login"].what \in Promised
        PROVE  /\ task'[u]["login"].tok.n = 0 /\ gen[task'[u]["login"].tok.family] = 0
               /\ task'[u]["login"].tok.family # p.family
    <3>1. task[u]["login"].what \in Promised /\ task'[u]["login"].tok = task[u]["login"].tok
      BY <2>2
    <3>2. task[u]["login"].tok \in Pair
      BY <3>1, TaskFitsHere, KindNames DEF TaskFits
    <3>3. task[u]["login"].tok.n = 0 /\ gen[task[u]["login"].tok.family] = 0
      BY <3>1 DEF CodesFit, Promise
    <3> QED BY <2>1, <3>1, <3>2, <3>3, PairIdentity
  <2>3. ASSUME NEW u \in Tabs, NEW v \in Tabs \ {u}, task'[u]["login"].what \in Promised,
               task'[v]["login"].what \in Promised
        PROVE  task'[v]["login"].tok.family # task'[u]["login"].tok.family
    <3>1. CASE u = t \/ v = t
      BY <2>2, <2>3, <3>1
    <3>2. CASE u # t /\ v # t
      BY <2>3, <3>2 DEF CodesFit, Promise
    <3> QED BY <3>1, <3>2
  <2>4. ASSUME NEW u \in Tabs, task'[u]["login"].what \in Promised
        PROVE  task'[u]["login"].tok.n = 0 /\ gen'[task'[u]["login"].tok.family] = 0
    BY <2>1, <2>2, <2>4
  <2> QED BY <2>3, <2>4 DEF CodesFit, Promise
<1> QED BY <1>1, <1>2

(* A rotation leaves the families of codes alone.                           *)
LEMMA CodesRotated ==
  ASSUME Fits, TokensBorn, CodesFit, NEW p \in Pair, Known(p), Rotated(p),
         \A u \in Tabs : task'[u]["login"].what \in Promised =>
           task'[u]["login"] = task[u]["login"]
  PROVE  CodesFit'
<1>1. p.family \in Families /\ p.n \in Nat /\ 1 <= p.n
  BY PairFields DEF TokensBorn, Born
<1>2. ASSUME NEW u \in Tabs, task'[u]["login"].what \in Promised
      PROVE  /\ task[u]["login"].what \in Promised
             /\ task'[u]["login"].tok = task[u]["login"].tok
             /\ gen'[task[u]["login"].tok.family] = 0
  <2>1. task[u]["login"].what \in Promised /\ task'[u]["login"].tok = task[u]["login"].tok
    BY <1>2
  <2>2. gen[task[u]["login"].tok.family] = 0 /\ task[u]["login"].tok.family \in Families
    BY <2>1, TaskFitsHere, PairFields, KindNames DEF CodesFit, Promise, TaskFits
  <2> QED BY <1>1, <2>1, <2>2, RotatedGen DEF Fits
<1> QED BY <1>2, CodesKept

LEMMA CodesStep ==
  ASSUME Fits, TokensBorn, CodesFit, Effect
  PROVE  CodesFit'
<1>1. ASSUME NEW t \in Tabs, NEW k \in Kinds, gen' = gen, OnlyTask(t, k),
             k = "login" /\ task'[t]["login"].what \in Promised =>
               TaskFits("login", task'[t]["login"]) /\ Unpromising(t, task'[t]["login"])
      PROVE  CodesFit'
  <2>1. \A u \in Tabs : u # t => task'[u]["login"] = task[u]["login"]
    BY <1>1, KindNames DEF OnlyTask
  <2>2. CASE k = "login"
    BY <1>1, <2>1, <2>2, CodesAdded
  <2>3. CASE k # "login"
    <3>1. \A u \in Tabs : task'[u]["login"] = task[u]["login"]
      BY <1>1, <2>3, KindNames DEF OnlyTask
    <3> QED BY <1>1, <3>1, CodesKept DEF CodesFit, Promise
  <2> QED BY <2>2, <2>3
<1>2. ASSUME NEW t \in Tabs, NEW k \in Kinds, Elsewhere(t, k) PROVE CodesFit'
  BY <1>1, <1>2 DEF Elsewhere
<1>3. ASSUME NEW t \in Tabs, NEW k \in Kinds, Starts(t, k) PROVE CodesFit'
  <2>1. task'[t][k].what \notin Promised
    BY <1>3, StartsTask DEF Starts
  <2> QED BY <1>1, <1>3, <2>1 DEF Starts
<1>4. ASSUME NEW t \in Tabs, NEW k \in Kinds, Resends(t, k) PROVE CodesFit'
  <2>1. task'[t][k].what \notin Promised
    <3>1. Refreshing(t, k) /\ task'[t][k].what = task[t][k].what
      BY <1>4, ResendsTask DEF Resends
    <3> QED BY <3>1, RefreshTakes
  <2> QED BY <1>1, <1>4, <2>1 DEF Resends
<1>5. ASSUME NEW t \in Tabs, NEW k \in Kinds, Leaves(t, k) \/ Names(t, k) PROVE CodesFit'
  <2>1. task'[t][k].what = "none" /\ OnlyTask(t, k) /\ gen' = gen
    BY <1>5, IdleFields DEF Leaves, Names, TaskFits
  <2>2. task'[t][k].what \notin Promised
    BY <2>1 DEF Promised
  <2> QED BY <1>1, <2>1, <2>2
<1>6. ASSUME NEW t \in Tabs, Restores(t) PROVE CodesFit'
  BY <1>1, <1>6, KindNames DEF Restores
<1>7. ASSUME NEW t \in Tabs, Loads(t) PROVE CodesFit'
  <2>1. PICK st \in {storage, None} : LoadsWith(t, st)
    BY <1>7 DEF Loads
  <2>2. /\ gen' = gen
        /\ \A u \in Tabs : u # t => task'[u]["login"] = task[u]["login"]
        /\ task'[t]["login"].what \in Promised =>
             TaskFits("login", task'[t]["login"]) /\ Unpromising(t, task'[t]["login"])
    BY <2>1, IdleFields DEF LoadsWith, Promised
  <2> QED BY <2>2, CodesAdded
<1>8. ASSUME NEW t \in Tabs, NEW k \in Kinds, Answers(t, k) PROVE CodesFit'
  <2>1. task[t][k].tok \in Pair /\ Refreshing(t, k) /\ Rotated(task[t][k].tok) /\ OnlyTask(t, k)
    BY <1>8, AnswersTask DEF Answers
  <2>2. task'[t][k].what \notin Promised
    <3>1. Refreshing(t, k) /\ task'[t][k].what = task[t][k].what
      BY <1>8, AnswersTask DEF Answers
    <3> QED BY <3>1, RefreshTakes
  <2>3. \A u \in Tabs : task'[u]["login"].what \in Promised => task'[u]["login"] = task[u]["login"]
    BY <2>1, <2>2, KindNames DEF OnlyTask
  <2> QED BY <2>1, <2>3, KnownPlaces, CodesRotated
<1>9. ASSUME NEW p \in orphans, Orphaned(p) PROVE CodesFit'
  BY <1>9, KnownPlaces, CodesRotated DEF Orphaned, Fits, TypeOK
<1>10. ASSUME NEW t \in Tabs, Founds(t) PROVE CodesFit'
  <2> DEFINE f == task[t]["login"].tok.family
  <2>1. f \in Families /\ gen' = [gen EXCEPT ![f] = 1] /\ gen \in [Families -> Nat]
    BY <1>10, FoundsTask, PairFields DEF Founds, Fits, TypeOK
  <2>2. task'[t]["login"].what = "userinfo" /\ OnlyTask(t, "login") /\ Promise(t)
    BY <1>10, FoundsTask DEF Founds
  <2>3. ASSUME NEW u \in Tabs, task'[u]["login"].what \in Promised
        PROVE  /\ task[u]["login"].what \in Promised
               /\ task'[u]["login"].tok = task[u]["login"].tok
               /\ gen'[task[u]["login"].tok.family] = 0
    <3>1. u # t
      BY <2>2, <2>3 DEF Promised
    <3>2. task'[u]["login"] = task[u]["login"]
      BY <2>2, <3>1, KindNames DEF OnlyTask
    <3>3. gen[task[u]["login"].tok.family] = 0 /\ task[u]["login"].tok.family # f
      BY <2>2, <2>3, <3>1, <3>2 DEF CodesFit, Promise
    <3>4. task[u]["login"].tok.family \in Families
      BY <2>3, <3>2, TaskFitsHere, PairFields, KindNames DEF TaskFits
    <3> HIDE DEF f
    <3> QED BY <2>1, <2>3, <3>2, <3>3, <3>4
  <2> QED BY <2>3, CodesKept
<1>11. CASE UNCHANGED <<task, gen>>
  BY <1>11 DEF CodesFit, Promise
<1> QED BY <1>2, <1>3, <1>4, <1>5, <1>6, <1>7, <1>8, <1>9, <1>10, <1>11 DEF Effect, Moves
-----------------------------------------------------------------------------
(* Refreshes that risk no reuse.                                            *)
LEMMA LiveIs ==
  ASSUME Fits, NEW t \in Tabs
  PROVE  /\ Live(t) \in Pair \cup {None}
         /\ Live(t) # None => Live(t) \in Pair /\ Known(Live(t))
<1>1. storage \in Pair \cup {None} /\ tab[t].refresh \in Pair \cup {None}
  BY TabFields DEF Fits, TypeOK
<1> QED BY <1>1, KnownPlaces DEF Live

(* The token a tab would refresh with, when that risks nothing.             *)
LEMMA UsableIsLive ==
  ASSUME Fits, NEW t \in Tabs, NEW p \in Pair, p = tab[t].refresh, ~Risky(p)
  PROVE  /\ p = Live(t) /\ p # None
         /\ p \notin orphans
         /\ \A u \in Tabs, j \in Kinds : Refreshing(u, j) => task[u][j].tok # p
BY NullAssumption DEF Risky, Live

LEMMA RefreshesPoint ==
  ASSUME dead' = {}, \A p \in orphans' : p.n = gen'[p.family],
         \A t \in Tabs, k \in Kinds : task'[t][k].at = "refreshing" => RefreshFits(t, k)',
         \A t \in Tabs : LiveFits(t)'
  PROVE  RefreshesFit'
BY DEF RefreshesFit, Refreshing, Current

(* A task that begins to refresh, with the live token of its tab.           *)
LEMMA BeginsRefreshes ==
  ASSUME Fits, RefreshesFit, NEW t \in Tabs, NEW k \in Kinds, NEW p \in Pair,
         p = Live(t), p \notin orphans,
         \A u \in Tabs, j \in Kinds : Refreshing(u, j) => task[u][j].tok # p,
         UNCHANGED <<app, gen, dead, orphans>>,
         \A u \in Tabs : Live(u)' = Live(u),
         task'[t][k].at = "refreshing", task'[t][k].tok = p, task'[t][k].ans = None,
         \A u \in Tabs, j \in Kinds : u # t \/ j # k =>
           /\ task'[u][j].at = "refreshing" <=> Refreshing(u, j)
           /\ Refreshing(u, j) => task'[u][j] = task[u][j],
         ~Refreshing(t, k)
  PROVE  RefreshesFit'
<1>0. None \notin Pair /\ None \notin orphans /\ p # None
  BY NullAssumption DEF Fits, TypeOK
<1>1. Current(p)
  BY <1>0 DEF RefreshesFit, LiveFits
<1>2. ASSUME NEW u \in Tabs, NEW j \in Kinds, task'[u][j].at = "refreshing", u # t \/ j # k
      PROVE  RefreshFits(u, j)'
  <2>1. Refreshing(u, j) /\ task'[u][j] = task[u][j] /\ RefreshFits(u, j)
    BY <1>2 DEF RefreshesFit
  <2>2. ASSUME NEW v \in Tabs, NEW i \in Kinds, task'[v][i].at = "refreshing"
        PROVE  /\ task'[v][i].tok # task[u][j].ans
               /\ task'[v][i].tok = task[u][j].tok => v = u /\ i = j
    <3>1. CASE v = t /\ i = k
      BY <1>0, <1>2, <2>1, <3>1 DEF RefreshFits
    <3>2. CASE v # t \/ i # k
      BY <2>1, <2>2, <3>2 DEF RefreshFits
    <3> QED BY <3>1, <3>2
  <2> QED BY <2>1, <2>2 DEF RefreshFits, Current, Refreshing
<1>3. RefreshFits(t, k)'
  <2>1. ASSUME NEW v \in Tabs, NEW i \in Kinds, task'[v][i].at = "refreshing"
        PROVE  /\ task'[v][i].tok # None
               /\ task'[v][i].tok = p => v = t /\ i = k
    <3>1. CASE v = t /\ i = k
      BY <1>0, <3>1
    <3>2. CASE v # t \/ i # k
      BY <1>0, <2>1, <3>2, RefreshTakes
    <3> QED BY <3>1, <3>2
  <2>2. \A u \in Tabs : Live(u) # None /\ app = "admin" /\ Live(u) = p => u = t
    BY <1>0 DEF RefreshesFit, LiveFits
  <2> QED BY <1>0, <1>1, <2>1, <2>2 DEF RefreshFits, Current, Refreshing
<1>4. ASSUME NEW u \in Tabs PROVE LiveFits(u)'
  <2>1. LiveFits(u)
    BY DEF RefreshesFit
  <2>2. \A v \in Tabs, i \in Kinds : Refreshing(v, i) =>
          task'[v][i].at = "refreshing" /\ task'[v][i].tok = task[v][i].tok
    OBVIOUS
  <2> QED BY <2>1, <2>2 DEF LiveFits, Current, Refreshing
<1> QED BY <1>2, <1>3, <1>4, RefreshesPoint DEF RefreshesFit, Current

LEMMA StartsRefreshes ==
  ASSUME Fits, RefreshesFit, NEW t \in Tabs, NEW k \in Kinds, Starts(t, k), ~slip'
  PROVE  RefreshesFit'
<1> DEFINE p == tab[t].refresh
<1>1. /\ p \in Pair /\ ~Refreshing(t, k)
      /\ task'[t][k].at = "refreshing" /\ task'[t][k].tok = p /\ task'[t][k].ans = None
  BY StartsTask DEF Refreshing
<1>2. ~Risky(p) /\ OnlyTask(t, k) /\ UNCHANGED <<app, gen, dead, orphans, storage, tab>>
  BY DEF Starts
<1>3. /\ p = Live(t) /\ p \notin orphans
      /\ \A u \in Tabs, j \in Kinds : Refreshing(u, j) => task[u][j].tok # p
  BY <1>1, <1>2, UsableIsLive
<1>4. \A u \in Tabs : Live(u)' = Live(u)
  BY <1>2 DEF Live
<1>5. \A u \in Tabs, j \in Kinds : u # t \/ j # k =>
        /\ task'[u][j].at = "refreshing" <=> Refreshing(u, j)
        /\ Refreshing(u, j) => task'[u][j] = task[u][j]
  BY <1>2 DEF OnlyTask, Refreshing
<1> HIDE DEF p
<1> QED BY <1>1, <1>2, <1>3, <1>4, <1>5, BeginsRefreshes

(* Nothing that matters to refreshes changes.                               *)
LEMMA SameRefreshes ==
  ASSUME RefreshesFit, UNCHANGED <<app, gen, dead, orphans>>,
         \A u \in Tabs : Live(u)' = Live(u),
         \A u \in Tabs, j \in Kinds :
           /\ task'[u][j].at = "refreshing" <=> Refreshing(u, j)
           /\ Refreshing(u, j) => task'[u][j] = task[u][j]
  PROVE  RefreshesFit'
<1>1. ASSUME NEW u \in Tabs, NEW j \in Kinds, task'[u][j].at = "refreshing"
      PROVE  RefreshFits(u, j)'
  <2>1. RefreshFits(u, j) /\ task'[u][j] = task[u][j]
    BY <1>1 DEF RefreshesFit
  <2> QED BY <2>1 DEF RefreshFits, Current, Refreshing
<1>2. ASSUME NEW u \in Tabs PROVE LiveFits(u)'
  <2>1. LiveFits(u)
    BY DEF RefreshesFit
  <2> QED BY <2>1 DEF LiveFits, Current, Refreshing
<1> QED BY <1>1, <1>2, RefreshesPoint DEF RefreshesFit, Current

LEMMA QuietRefreshes ==
  ASSUME Fits, RefreshesFit, NEW t \in Tabs,
         Moves(t) \/ \E k \in Kinds : Elsewhere(t, k) \/ Names(t, k)
  PROVE  RefreshesFit'
<1>1. SameSession(t) /\ UNCHANGED <<app, gen, dead, orphans, storage>>
  BY DEF Moves, Elsewhere, Names
<1>2. \A u \in Tabs : Live(u)' = Live(u)
  BY <1>1 DEF SameSession, OnlyTab, Live
<1>3. ASSUME NEW u \in Tabs, NEW j \in Kinds
      PROVE  /\ task'[u][j].at = "refreshing" <=> Refreshing(u, j)
             /\ Refreshing(u, j) => task'[u][j] = task[u][j]
  <2>1. CASE Moves(t)
    BY <2>1 DEF Moves, Refreshing
  <2>2. ASSUME NEW k \in Kinds, Elsewhere(t, k) \/ Names(t, k)
        PROVE  /\ task'[u][j].at = "refreshing" <=> Refreshing(u, j)
               /\ Refreshing(u, j) => task'[u][j] = task[u][j]
    <3>1. OnlyTask(t, k) /\ task[t][k].at # "refreshing" /\ task'[t][k].at # "refreshing"
      BY <2>2, IdleFields DEF Elsewhere, Names
    <3> QED BY <3>1 DEF OnlyTask, Refreshing
  <2> QED BY <2>1, <2>2
<1> QED BY <1>1, <1>2, <1>3, SameRefreshes

(* The server rotates p: of the tokens in use none but p was of p's number. *)
LEMMA OthersStay ==
  ASSUME Fits, NEW p \in Pair, Rotated(p), Current(p), NEW q \in Pair, q # p, Current(q)
  PROVE  q.n = gen'[q.family]
<1>1. q.family \in Families /\ p.family \in Families /\ q.n \in Nat /\ p.n \in Nat
  BY PairFields
<1>2. gen'[q.family] # gen[q.family] => q.family = p.family /\ p.n = gen[q.family]
  BY <1>1, RotatedGen DEF Fits
<1>3. q.n = gen[q.family]
  BY DEF Current
<1> QED BY <1>2, <1>3, PairIdentity

LEMMA AllowedRotation ==
  ASSUME Fits, NEW p \in Pair, Rotated(p), Current(p), dead = {}
  PROVE  dead' = {}
<1>1. p.family \in Families /\ p.n \in Nat /\ p.n = gen[p.family]
  BY PairFields DEF Current
<1>2. CASE RefreshAnswer(p) = Refused
  BY <1>1, <1>2 DEF Rotated
<1>3. CASE RefreshAnswer(p) # Refused
  BY <1>3 DEF Rotated
<1> QED BY <1>2, <1>3

LEMMA AnswersRefreshes ==
  ASSUME Fits, TokensBorn, RefreshesFit, NEW t \in Tabs, NEW k \in Kinds, Answers(t, k)
  PROVE  RefreshesFit'
<1> DEFINE p == task[t][k].tok
           a == task'[t][k].ans
<1>1. /\ p \in Pair /\ Refreshing(t, k) /\ task[t][k].ans = None
      /\ task'[t][k].at = "refreshing" /\ task'[t][k].tok = p /\ a = RefreshAnswer(p)
  BY AnswersTask DEF Refreshing
<1>2. /\ Rotated(p) /\ OnlyTask(t, k)
      /\ UNCHANGED <<app, storage, tab, orphans>>
  BY DEF Answers
<1>3. RefreshFits(t, k) /\ dead = {}
  BY <1>1 DEF RefreshesFit
<1>4. Current(p) /\ p \notin orphans
  BY <1>1, <1>3, NullAssumption DEF RefreshFits
<1>5. dead' = {}
  BY <1>1, <1>2, <1>3, <1>4, AllowedRotation
<1>6. \A u \in Tabs : Live(u)' = Live(u)
  BY <1>2 DEF Live
<1>7. \A u \in Tabs, j \in Kinds : u # t \/ j # k => task'[u][j] = task[u][j]
  BY <1>2 DEF OnlyTask
<1>8. \A u \in Tabs, j \in Kinds : /\ task'[u][j].at = "refreshing" <=> Refreshing(u, j)
                                   /\ task'[u][j].tok = task[u][j].tok
  BY <1>1, <1>7 DEF Refreshing
<1>9. /\ a \in Pair => a.n = gen'[a.family] /\ ~Known(a)
      /\ a \notin Pair => p.n = gen'[p.family] /\ a = Refused
  <2>1. CASE a = Refused /\ gen' = gen
    BY <1>4, <2>1, NullAssumption DEF Current
  <2>2. CASE /\ a \in Pair /\ a.family = p.family /\ a.n = p.n + 1
             /\ p.n = gen[p.family] /\ gen' = [gen EXCEPT ![p.family] = p.n + 1]
    <3>1. p.family \in Families /\ p.n \in Nat /\ gen \in [Families -> Nat]
      BY <1>1, PairFields DEF Fits, TypeOK
    <3>2. a.n = gen'[a.family]
      BY <2>2, <3>1
    <3>3. ~Known(a)
      BY <2>2, <3>1 DEF TokensBorn, Born
    <3> QED BY <2>2, <3>2, <3>3
  <2> QED BY <1>1, <1>2, <2>1, <2>2, RotatedIs DEF Fits
<1>10. /\ a \notin orphans
       /\ \A u \in Tabs : Live(u) # None => Live(u) # a
       /\ \A u \in Tabs, j \in Kinds : Refreshing(u, j) => task[u][j].tok # a
  <2>1. CASE a \in Pair
    BY <1>9, <2>1, KnownPlaces, LiveIs
  <2>2. CASE a = Refused
    BY <2>2, NullAssumption, LiveIs, RefreshTakes DEF Fits, TypeOK
  <2> QED BY <1>9, <2>1, <2>2
<1> HIDE DEF p, a
<1>11. RefreshFits(t, k)'
  <2>1. /\ \A u \in Tabs, j \in Kinds : Refreshing(u, j) =>
             task[u][j].tok # a /\ (task[u][j].tok = p => u = t /\ j = k)
        /\ \A u \in Tabs : Live(u) # None => Live(u) # a /\ (app = "admin" /\ Live(u) = p => u = t)
    BY <1>3, <1>10 DEF RefreshFits, p
  <2> QED BY <1>1, <1>2, <1>4, <1>6, <1>8, <1>9, <1>10, <2>1 DEF RefreshFits, Current, Refreshing, a
<1>12. ASSUME NEW u \in Tabs, NEW j \in Kinds, task'[u][j].at = "refreshing", u # t \/ j # k
       PROVE  RefreshFits(u, j)'
  <2>1. Refreshing(u, j) /\ task'[u][j] = task[u][j] /\ RefreshFits(u, j)
    BY <1>7, <1>12 DEF RefreshesFit, Refreshing
  <2>2. task[u][j].tok \in Pair /\ task[u][j].tok # p /\ task[u][j].ans # p
    BY <1>1, <1>3, <1>12, <2>1, RefreshTakes DEF RefreshFits, p
  <2>3. task[u][j].ans \in Pair => task[u][j].ans.n = gen'[task[u][j].ans.family]
    BY <1>1, <1>2, <1>4, <2>1, <2>2, OthersStay DEF RefreshFits
  <2>4. task[u][j].ans \notin Pair => task[u][j].tok.n = gen'[task[u][j].tok.family]
    BY <1>1, <1>2, <1>4, <2>1, <2>2, OthersStay DEF RefreshFits
  <2> QED BY <1>2, <1>6, <1>8, <2>1, <2>3, <2>4 DEF RefreshFits, Current, Refreshing
<1>13. ASSUME NEW u \in Tabs PROVE LiveFits(u)'
  <2>1. LiveFits(u)
    BY DEF RefreshesFit
  <2>2. Live(u) # None =>
          \/ Live(u).n = gen'[Live(u).family]
          \/ \E v \in Tabs, i \in Kinds : task'[v][i].at = "refreshing" /\ task'[v][i].tok = Live(u)
    <3>1. CASE Live(u) = p
      BY <1>1, <3>1
    <3>2. CASE Live(u) # p /\ Live(u) # None /\ Current(Live(u))
      BY <1>1, <1>2, <1>4, <3>2, LiveIs, OthersStay
    <3>3. CASE \E v \in Tabs, i \in Kinds : Refreshing(v, i) /\ task[v][i].tok = Live(u)
      BY <1>8, <3>3
    <3> QED BY <2>1, <3>1, <3>2, <3>3 DEF LiveFits
  <2> QED BY <1>2, <1>6, <2>1, <2>2 DEF LiveFits, Current, Refreshing
<1>14. \A q \in orphans' : q.n = gen'[q.family]
  BY <1>1, <1>2, <1>4, OthersStay DEF RefreshesFit, Fits, TypeOK
<1> QED BY <1>5, <1>11, <1>12, <1>13, <1>14, RefreshesPoint

LEMMA OrphanedRefreshes ==
  ASSUME Fits, RefreshesFit, NEW p \in orphans, Orphaned(p)
  PROVE  RefreshesFit'
<1>1. /\ p \in Pair /\ Rotated(p) /\ Current(p) /\ dead = {}
      /\ orphans' = orphans \ {p} /\ UNCHANGED <<app, storage, tab, task>>
  BY DEF Orphaned, RefreshesFit, Fits, TypeOK
<1>2. dead' = {}
  BY <1>1, AllowedRotation
<1>3. \A u \in Tabs : Live(u)' = Live(u)
  BY <1>1 DEF Live
<1>4. ASSUME NEW u \in Tabs, NEW j \in Kinds, task'[u][j].at = "refreshing"
      PROVE  RefreshFits(u, j)'
  <2>1. Refreshing(u, j) /\ RefreshFits(u, j)
    BY <1>1, <1>4 DEF RefreshesFit, Refreshing
  <2>2. task[u][j].tok \in Pair /\ task[u][j].tok # p /\ task[u][j].ans # p
    BY <2>1, RefreshTakes DEF RefreshFits
  <2>3. task[u][j].ans \in Pair => task[u][j].ans.n = gen'[task[u][j].ans.family]
    BY <1>1, <2>1, <2>2, OthersStay DEF RefreshFits
  <2>4. task[u][j].ans \notin Pair => task[u][j].tok.n = gen'[task[u][j].tok.family]
    BY <1>1, <2>1, <2>2, OthersStay DEF RefreshFits
  <2> QED BY <1>1, <1>3, <2>1, <2>3, <2>4 DEF RefreshFits, Current, Refreshing
<1>5. ASSUME NEW u \in Tabs PROVE LiveFits(u)'
  <2>1. LiveFits(u)
    BY DEF RefreshesFit
  <2>2. Live(u) # None /\ Current(Live(u)) => Live(u).n = gen'[Live(u).family]
    BY <1>1, <2>1, LiveIs, OthersStay DEF LiveFits
  <2> QED BY <1>1, <1>3, <2>1, <2>2 DEF LiveFits, Current, Refreshing
<1>6. \A q \in orphans' : q.n = gen'[q.family]
  BY <1>1, OthersStay DEF RefreshesFit, Fits, TypeOK
<1> QED BY <1>2, <1>4, <1>5, <1>6, RefreshesPoint
(* An answer tells which token was sent.                                    *)
LEMMA AnswerTells ==
  ASSUME Fits, NEW t \in Tabs, NEW k \in Kinds, NEW u \in Tabs, NEW j \in Kinds,
         task[t][k].ans \in Pair, task[u][j].ans = task[t][k].ans
  PROVE  task[u][j].tok = task[t][k].tok
<1>0. task[u][j].ans \in Pair
  OBVIOUS
<1>1. /\ task[t][k].tok \in Pair /\ task[u][j].tok \in Pair
      /\ task[t][k].ans.family = task[t][k].tok.family /\ task[t][k].ans.n = task[t][k].tok.n + 1
  BY <1>0, AnswerNumber
<1>2. task[u][j].ans.family = task[u][j].tok.family /\ task[u][j].ans.n = task[u][j].tok.n + 1
  BY <1>0, AnswerNumber
<1>3. task[t][k].tok.n \in Nat /\ task[u][j].tok.n \in Nat
  BY <1>1, PairFields
<1>4. task[t][k].tok.n = task[u][j].tok.n /\ task[t][k].tok.family = task[u][j].tok.family
  BY <1>1, <1>2, <1>3
<1> QED BY <1>1, <1>4, PairIdentity

(* A task receives the tokens it was waiting for.                           *)
LEMMA ReceivesRefreshes ==
  ASSUME Fits, RefreshesFit, NEW t \in Tabs, NEW k \in Kinds, Refreshing(t, k),
         NEW a \in Pair, a = task[t][k].ans,
         OnlyTask(t, k), task'[t][k].at # "refreshing", Holds(t, a),
         UNCHANGED <<app, gen, dead, orphans>>
  PROVE  RefreshesFit'
<1> DEFINE p == task[t][k].tok
<1>1. /\ p \in Pair /\ RefreshFits(t, k) /\ a # None
      /\ a.family = p.family /\ a.n = p.n + 1
  BY AnswerNumber, NullAssumption DEF RefreshesFit
<1>2. /\ a \notin orphans /\ Current(a)
      /\ \A u \in Tabs, j \in Kinds : Refreshing(u, j) =>
           task[u][j].tok # a /\ (task[u][j].tok = p => u = t /\ j = k)
      /\ \A u \in Tabs : Live(u) # None => Live(u) # a /\ (app = "admin" /\ Live(u) = p => u = t)
  BY <1>1 DEF RefreshFits
<1>3. /\ Live(t)' = a
      /\ \A u \in Tabs : \/ Live(u)' = a /\ (app = "admin" => u = t)
                         \/ app = "admin" /\ u # t /\ Live(u)' = Live(u)
  BY AppIs DEF Holds, Persist, OnlyTab, Live
<1>4. \A u \in Tabs, j \in Kinds : task'[u][j].at = "refreshing" =>
        /\ u # t \/ j # k
        /\ Refreshing(u, j) /\ task'[u][j] = task[u][j]
  BY DEF OnlyTask, Refreshing
<1>5. ASSUME NEW u \in Tabs, NEW j \in Kinds, task'[u][j].at = "refreshing"
      PROVE  RefreshFits(u, j)'
  <2>1. (u # t \/ j # k) /\ Refreshing(u, j) /\ task'[u][j] = task[u][j] /\ RefreshFits(u, j)
    BY <1>4, <1>5 DEF RefreshesFit
  <2>2. task[u][j].ans # a
    <3>1. task[u][j].ans = a => task[u][j].tok = p
      BY AnswerTells
    <3> QED BY <1>2, <2>1, <3>1
  <2>3. task[u][j].tok # a
    BY <1>2, <2>1
  <2>4. \A v \in Tabs : Live(v)' # None =>
          /\ Live(v)' # task[u][j].ans
          /\ app = "admin" /\ Live(v)' = task[u][j].tok => v = u
    BY <1>3, <2>1, <2>2, <2>3 DEF RefreshFits
  <2>5. \A v \in Tabs, i \in Kinds : task'[v][i].at = "refreshing" =>
          /\ task'[v][i].tok # task[u][j].ans
          /\ task'[v][i].tok = task[u][j].tok => v = u /\ i = j
    BY <1>4, <2>1 DEF RefreshFits
  <2> QED BY <2>1, <2>4, <2>5 DEF RefreshFits, Current, Refreshing
<1>6. ASSUME NEW u \in Tabs PROVE LiveFits(u)'
  <2>1. CASE Live(u)' = a
    <3>1. \A v \in Tabs : app = "admin" /\ Live(v)' = a => v = u
      <4>1. \A v \in Tabs : app = "admin" /\ Live(v)' = a => v = t
        BY <1>1, <1>2, <1>3
      <4>2. app = "admin" => u = t
        BY <2>1, <4>1
      <4> QED BY <4>1, <4>2
    <3> QED BY <1>2, <2>1, <3>1 DEF LiveFits, Current
  <2>2. CASE app = "admin" /\ u # t /\ Live(u)' = Live(u) /\ Live(u) # None /\ Live(u)' # a
    <3>1. LiveFits(u) /\ Live(u) # p
      BY <1>2, <2>2 DEF RefreshesFit
    <3>2. \/ Current(Live(u))
          \/ \E v \in Tabs, i \in Kinds : task'[v][i].at = "refreshing" /\ task'[v][i].tok = Live(u)
      <4>1. CASE \E v \in Tabs, i \in Kinds : Refreshing(v, i) /\ task[v][i].tok = Live(u)
        <5>1. PICK v \in Tabs, i \in Kinds : Refreshing(v, i) /\ task[v][i].tok = Live(u)
          BY <4>1
        <5>2. v # t \/ i # k
          BY <3>1, <5>1
        <5> QED BY <5>1, <5>2 DEF OnlyTask, Refreshing
      <4> QED BY <2>2, <3>1, <4>1 DEF LiveFits
    <3>3. \A v \in Tabs : Live(v)' = Live(u) => v = u
      BY <1>2, <1>3, <2>2, <3>1 DEF LiveFits
    <3> QED BY <2>2, <3>1, <3>2, <3>3 DEF LiveFits, Current, Refreshing
  <2>3. CASE Live(u)' = None
    BY <2>3 DEF LiveFits
  <2> QED BY <1>3, <2>1, <2>2, <2>3
<1> QED BY <1>5, <1>6, RefreshesPoint DEF RefreshesFit, Current

(* Tasks of a tab end, whose tokens may still reach the server, and the tab *)
(* has no token left.                                                       *)
LEMMA EndsRefreshes ==
  ASSUME Fits, RefreshesFit, NEW t \in Tabs,
         \A u \in Tabs, j \in Kinds : task'[u][j].at = "refreshing" =>
           Refreshing(u, j) /\ task'[u][j] = task[u][j],
         \A u \in Tabs, j \in Kinds : u # t => task'[u][j] = task[u][j],
         \A q \in orphans' : q \in orphans \/ \E j \in Kinds :
           /\ Refreshing(t, j) /\ task'[t][j].at # "refreshing"
           /\ task[t][j].ans = None /\ q = task[t][j].tok,
         \A u \in Tabs : Live(u)' = None \/ (app = "admin" /\ u # t /\ Live(u)' = Live(u)),
         UNCHANGED <<app, gen, dead>>
  PROVE  RefreshesFit'
<1>1. ASSUME NEW q \in orphans', q \notin orphans
      PROVE  /\ q.n = gen'[q.family]
             /\ \A u \in Tabs, j \in Kinds : task'[u][j].at = "refreshing" =>
                  task[u][j].tok # q /\ task[u][j].ans # q
             /\ \A u \in Tabs : Live(u)' # None => Live(u)' # q
  <2>1. PICK i \in Kinds : /\ Refreshing(t, i) /\ task'[t][i].at # "refreshing"
                           /\ task[t][i].ans = None /\ q = task[t][i].tok
    BY <1>1
  <2>2. RefreshFits(t, i)
    BY <2>1 DEF RefreshesFit
  <2>3. q.n = gen'[q.family]
    BY <2>1, <2>2, NullAssumption DEF RefreshFits, Current
  <2>4. ASSUME NEW u \in Tabs, NEW j \in Kinds, task'[u][j].at = "refreshing"
        PROVE  task[u][j].tok # q /\ task[u][j].ans # q
    <3>1. Refreshing(u, j) /\ (u # t \/ j # i) /\ RefreshFits(u, j)
      BY <2>1, <2>4 DEF RefreshesFit
    <3>2. task[u][j].tok # q
      BY <2>1, <2>2, <3>1 DEF RefreshFits
    <3>3. task[u][j].ans # q
      BY <2>1, <3>1 DEF RefreshFits
    <3> QED BY <3>2, <3>3
  <2>5. \A u \in Tabs : Live(u)' # None => Live(u)' # q
    BY <2>1, <2>2 DEF RefreshFits
  <2> QED BY <2>3, <2>4, <2>5
<1>2. ASSUME NEW u \in Tabs, NEW j \in Kinds, task'[u][j].at = "refreshing"
      PROVE  RefreshFits(u, j)'
  <2>1. Refreshing(u, j) /\ task'[u][j] = task[u][j] /\ RefreshFits(u, j)
    BY <1>2 DEF RefreshesFit
  <2>2. task[u][j].tok \notin orphans' /\ task[u][j].ans \notin orphans'
    BY <1>1, <1>2, <2>1 DEF RefreshFits
  <2>3. \A v \in Tabs, i \in Kinds : task'[v][i].at = "refreshing" =>
          /\ task'[v][i].tok # task[u][j].ans
          /\ task'[v][i].tok = task[u][j].tok => v = u /\ i = j
    BY <2>1 DEF RefreshFits
  <2>4. \A v \in Tabs : Live(v)' # None =>
          /\ Live(v)' # task[u][j].ans
          /\ app = "admin" /\ Live(v)' = task[u][j].tok => v = u
    BY <2>1 DEF RefreshFits
  <2> QED BY <2>1, <2>2, <2>3, <2>4 DEF RefreshFits, Current, Refreshing
<1>3. ASSUME NEW u \in Tabs PROVE LiveFits(u)'
  <2>1. CASE app = "admin" /\ u # t /\ Live(u)' = Live(u) /\ Live(u) # None
    <3>1. LiveFits(u)
      BY DEF RefreshesFit
    <3>2. Live(u) \notin orphans'
      BY <1>1, <2>1, <3>1 DEF LiveFits
    <3>3. \/ Current(Live(u))
          \/ \E v \in Tabs, i \in Kinds : task'[v][i].at = "refreshing" /\ task'[v][i].tok = Live(u)
      <4>1. CASE \E v \in Tabs, i \in Kinds : Refreshing(v, i) /\ task[v][i].tok = Live(u)
        <5>1. PICK v \in Tabs, i \in Kinds : Refreshing(v, i) /\ task[v][i].tok = Live(u)
          BY <4>1
        <5>2. v # t
          BY <2>1, <5>1 DEF RefreshesFit, RefreshFits
        <5> QED BY <5>1, <5>2 DEF Refreshing
      <4> QED BY <2>1, <3>1, <4>1 DEF LiveFits
    <3>4. \A v \in Tabs : Live(v)' = Live(u) => v = u
      BY <2>1, <3>1 DEF LiveFits
    <3> QED BY <2>1, <3>2, <3>3, <3>4 DEF LiveFits, Current, Refreshing
  <2>2. CASE Live(u)' = None
    BY <2>2 DEF LiveFits
  <2> QED BY <2>1, <2>2
<1>4. \A q \in orphans' : q.n = gen'[q.family]
  BY <1>1 DEF RefreshesFit, Current
<1> QED BY <1>2, <1>3, <1>4, RefreshesPoint DEF RefreshesFit

LEMMA LeavesRefreshes ==
  ASSUME Fits, RefreshesFit, NEW t \in Tabs, NEW k \in Kinds, Leaves(t, k)
  PROVE  RefreshesFit'
<1>1. /\ OnlyTask(t, k) /\ OnlyTab(t) /\ task'[t][k].at # "refreshing"
      /\ tab'[t].refresh = None /\ Persist(None)
      /\ UNCHANGED <<app, gen, dead>>
      /\ orphans' = IF Refreshing(t, k) /\ task[t][k].ans = None THEN orphans \cup {task[t][k].tok}
                    ELSE orphans
  BY DEF Leaves
<1>2. /\ \A u \in Tabs, j \in Kinds : task'[u][j].at = "refreshing" =>
           Refreshing(u, j) /\ task'[u][j] = task[u][j]
      /\ \A u \in Tabs, j \in Kinds : u # t => task'[u][j] = task[u][j]
  BY <1>1 DEF OnlyTask, Refreshing
<1>3. \A u \in Tabs : Live(u)' = None \/ (app = "admin" /\ u # t /\ Live(u)' = Live(u))
  BY <1>1, AppIs DEF Persist, OnlyTab, Live
<1>4. \A q \in orphans' : q \in orphans \/ \E j \in Kinds :
           /\ Refreshing(t, j) /\ task'[t][j].at # "refreshing"
           /\ task[t][j].ans = None /\ q = task[t][j].tok
  BY <1>1
<1> QED BY <1>1, <1>2, <1>3, <1>4, EndsRefreshes

LEMMA LoadsRefreshes ==
  ASSUME Fits, RefreshesFit, NEW t \in Tabs, NEW st \in {storage, None}, LoadsWith(t, st), ~slip'
  PROVE  RefreshesFit'
<1>1. /\ OnlyTab(t) /\ tab'[t].refresh = st /\ storage' = st
      /\ \A u \in Tabs : u # t => task'[u] = task[u]
      /\ UNCHANGED <<app, gen, dead>>
  BY DEF LoadsWith
<1>2. \A j \in Kinds : task'[t][j].at = "refreshing" <=> j = "restore" /\ st # None
  BY LoadsTask
<1>3. CASE st = None
  <2>1. \A u \in Tabs, j \in Kinds : task'[u][j].at = "refreshing" =>
           Refreshing(u, j) /\ task'[u][j] = task[u][j]
    BY <1>1, <1>2, <1>3 DEF Refreshing
  <2>2. \A u \in Tabs : Live(u)' = None \/ (app = "admin" /\ u # t /\ Live(u)' = Live(u))
    BY <1>1, <1>3, AppIs DEF OnlyTab, Live
  <2>3. \A q \in orphans' : q \in orphans \/ \E j \in Kinds :
           /\ Refreshing(t, j) /\ task'[t][j].at # "refreshing"
           /\ task[t][j].ans = None /\ q = task[t][j].tok
    BY <1>2, <1>3 DEF LoadsWith
  <2> QED BY <1>1, <2>1, <2>2, <2>3, EndsRefreshes
<1>4. CASE st # None
  <2>1. /\ st = storage /\ storage \in Pair /\ app = "account"
    BY <1>4, AppIs DEF Fits, TypeOK, ConsoleFits
  <2>2. /\ st \notin orphans
        /\ \A k \in Kinds : ~Refreshing(t, k)
        /\ \A u \in Tabs, k \in Kinds : Refreshing(u, k) => task[u][k].tok # st
    BY <1>4 DEF LoadsWith
  <2>3. orphans' = orphans
    BY <2>2 DEF LoadsWith
  <2>4. st = Live(t) /\ \A u \in Tabs : Live(u)' = Live(u)
    BY <1>1, <2>1 DEF Live
  <2>5. /\ task'[t]["restore"].at = "refreshing" /\ task'[t]["restore"].tok = st
        /\ task'[t]["restore"].ans = None
    BY <1>4, LoadsTask, KindNames
  <2>6. \A u \in Tabs, j \in Kinds : u # t \/ j # "restore" =>
           /\ task'[u][j].at = "refreshing" <=> Refreshing(u, j)
           /\ Refreshing(u, j) => task'[u][j] = task[u][j]
    BY <1>1, <1>2, <2>2 DEF Refreshing
  <2>7. st \in Pair
    BY <2>1
  <2> QED BY <1>1, <2>2, <2>3, <2>4, <2>5, <2>6, <2>7, KindNames, BeginsRefreshes
<1> QED BY <1>3, <1>4

(* A new family: nobody has a token of it yet.                              *)
LEMMA FoundsRefreshes ==
  ASSUME Fits, TokensBorn, CodesFit, RefreshesFit, NEW t \in Tabs, Founds(t)
  PROVE  RefreshesFit'
<1> DEFINE p == tab'[t].refresh
           f == task[t]["login"].tok.family
<1>1. /\ p \in Pair /\ p.n = 1 /\ p.family = f /\ f \in Families
      /\ gen' = [gen EXCEPT ![f] = 1] /\ gen \in [Families -> Nat] /\ gen[f] = 0
  BY FoundsTask, PairFields DEF Founds, CodesFit, Fits, TypeOK
<1>2. /\ OnlyTask(t, "login") /\ OnlyTab(t) /\ storage' = IF app = "account" THEN p ELSE storage
      /\ UNCHANGED <<app, dead, orphans>>
  BY DEF Founds, Holds, Persist
<1>3. task[t]["login"].at # "refreshing" /\ task'[t]["login"].at # "refreshing"
  BY FoundsTask
<1> HIDE DEF p, f
<1>4. ASSUME NEW q \in Pair, Known(q)
      PROVE  q # p /\ gen'[q.family] = gen[q.family]
  <2>1. 1 <= q.n /\ q.n <= gen[q.family] /\ q.n \in Nat /\ q.family \in Families
    BY <1>4, PairFields DEF TokensBorn, Born
  <2>2. q.family # f
    BY <1>1, <2>1
  <2> QED BY <1>1, <2>1, <2>2
<1>5. /\ Live(t)' = p
      /\ \A u \in Tabs : \/ Live(u)' = p /\ (app = "admin" => u = t)
                         \/ app = "admin" /\ u # t /\ Live(u)' = Live(u)
  BY <1>2, AppIs DEF OnlyTab, Live, p
<1>6. \A u \in Tabs, j \in Kinds : /\ task'[u][j].at = "refreshing" <=> Refreshing(u, j)
                                   /\ Refreshing(u, j) => task'[u][j] = task[u][j]
  BY <1>2, <1>3 DEF OnlyTask, Refreshing
<1>7. p \notin orphans /\ p # None
  BY <1>1, <1>4, KnownPlaces, NullAssumption
<1>8. ASSUME NEW u \in Tabs, NEW j \in Kinds, task'[u][j].at = "refreshing"
      PROVE  RefreshFits(u, j)'
  <2>1. Refreshing(u, j) /\ task'[u][j] = task[u][j] /\ RefreshFits(u, j)
    BY <1>6, <1>8 DEF RefreshesFit
  <2>2. /\ task[u][j].tok \in Pair /\ task[u][j].tok # p
        /\ gen'[task[u][j].tok.family] = gen[task[u][j].tok.family]
    BY <1>4, <2>1, RefreshTakes, KnownPlaces
  <2>3. /\ task[u][j].ans # p
        /\ task[u][j].ans \in Pair =>
             gen'[task[u][j].ans.family] = gen[task[u][j].ans.family]
    BY <1>1, <1>4, <2>1, KnownPlaces
  <2>4. \A v \in Tabs : Live(v)' # None =>
          /\ Live(v)' # task[u][j].ans
          /\ app = "admin" /\ Live(v)' = task[u][j].tok => v = u
    BY <1>5, <2>1, <2>2, <2>3 DEF RefreshFits
  <2>5. \A v \in Tabs, i \in Kinds : task'[v][i].at = "refreshing" =>
          /\ task'[v][i].tok # task[u][j].ans
          /\ task'[v][i].tok = task[u][j].tok => v = u /\ i = j
    BY <1>6, <2>1 DEF RefreshFits
  <2> QED BY <1>2, <2>1, <2>2, <2>3, <2>4, <2>5 DEF RefreshFits, Current, Refreshing
<1>9. ASSUME NEW u \in Tabs PROVE LiveFits(u)'
  <2>1. CASE Live(u)' = p
    <3>1. p.n = gen'[p.family]
      BY <1>1
    <3>2. \A v \in Tabs : app = "admin" /\ Live(v)' = p => v = t
      <4>1. \A v \in Tabs : Live(v) # None => Live(v) # p
        BY <1>4, LiveIs
      <4> QED BY <1>5, <1>7, <4>1
    <3> QED BY <1>2, <1>7, <2>1, <3>1, <3>2 DEF LiveFits, Current
  <2>2. CASE app = "admin" /\ u # t /\ Live(u)' = Live(u) /\ Live(u) # None
    <3>1. LiveFits(u) /\ Live(u) # p /\ gen'[Live(u).family] = gen[Live(u).family]
      BY <1>4, <2>2, LiveIs DEF RefreshesFit
    <3>2. \A v \in Tabs : Live(v)' = Live(u) => v = u
      BY <1>5, <2>2, <3>1 DEF LiveFits
    <3>3. \/ Live(u).n = gen'[Live(u).family]
          \/ \E v \in Tabs, i \in Kinds : task'[v][i].at = "refreshing" /\ task'[v][i].tok = Live(u)
      BY <1>6, <2>2, <3>1 DEF LiveFits, Current
    <3> QED BY <1>2, <2>2, <3>1, <3>2, <3>3 DEF LiveFits, Current, Refreshing
  <2>3. CASE Live(u)' = None
    BY <2>3 DEF LiveFits
  <2> QED BY <1>5, <2>1, <2>2, <2>3
<1>10. \A q \in orphans' : q.n = gen'[q.family]
  BY <1>2, <1>4, KnownPlaces DEF RefreshesFit, Current, Fits, TypeOK
<1> QED BY <1>2, <1>8, <1>9, <1>10, RefreshesPoint DEF RefreshesFit

LEMMA SlipStays == Effect /\ slip \in BOOLEAN /\ ~slip' => ~slip
<1>1. \A t \in Tabs, k \in Kinds :
        Elsewhere(t, k) \/ Starts(t, k) \/ Answers(t, k) => (slip => slip')
  BY DEF Elsewhere, Starts, Answers
<1>2. \A t \in Tabs, k \in Kinds :
        Resends(t, k) \/ Leaves(t, k) \/ Names(t, k) => (slip => slip')
  BY DEF Resends, Leaves, Names
<1>3. \A t \in Tabs : Moves(t) \/ Founds(t) \/ Restores(t) \/ Loads(t) => (slip => slip')
  BY DEF Moves, Founds, Restores, Loads, LoadsWith
<1>4. \A p \in orphans : Orphaned(p) => (slip => slip')
  BY DEF Orphaned
<1> QED BY <1>1, <1>2, <1>3, <1>4 DEF Effect

LEMMA RefreshesStep ==
  ASSUME Fits, TokensBorn, CodesFit, ~slip => RefreshesFit, Effect, ~slip'
  PROVE  RefreshesFit'
<1>1. RefreshesFit
  BY SlipStays DEF Fits, TypeOK
<1>2. ASSUME NEW t \in Tabs, NEW k \in Kinds, Elsewhere(t, k) \/ Names(t, k) PROVE RefreshesFit'
  BY <1>1, <1>2, QuietRefreshes
<1>3. ASSUME NEW t \in Tabs, NEW k \in Kinds, Starts(t, k) \/ Answers(t, k) \/ Leaves(t, k)
      PROVE  RefreshesFit'
  BY <1>1, <1>3, StartsRefreshes, AnswersRefreshes, LeavesRefreshes
<1>4. ASSUME NEW t \in Tabs, NEW k \in Kinds, Resends(t, k) PROVE RefreshesFit'
  <2> DEFINE a == task[t][k].ans
  <2>1. a \in Pair /\ task'[t][k].at # "refreshing"
    BY <1>4, ResendsTask
  <2>2. /\ OnlyTask(t, k) /\ Refreshing(t, k) /\ Holds(t, a)
        /\ UNCHANGED <<app, gen, dead, orphans>>
    BY <1>4 DEF Resends
  <2> QED BY <1>1, <2>1, <2>2, ReceivesRefreshes
<1>5. ASSUME NEW t \in Tabs, Restores(t) PROVE RefreshesFit'
  BY <1>1, <1>5, RestoresTask, ReceivesRefreshes, KindNames DEF Restores
<1>6. ASSUME NEW t \in Tabs, Moves(t) \/ Founds(t) PROVE RefreshesFit'
  BY <1>1, <1>6, QuietRefreshes, FoundsRefreshes
<1>7. ASSUME NEW t \in Tabs, Loads(t) PROVE RefreshesFit'
  BY <1>1, <1>7, LoadsRefreshes DEF Loads
<1>8. ASSUME NEW p \in orphans, Orphaned(p) PROVE RefreshesFit'
  BY <1>1, <1>8, OrphanedRefreshes
<1> QED BY <1>2, <1>3, <1>4, <1>5, <1>6, <1>7, <1>8 DEF Effect
-----------------------------------------------------------------------------
(* The inductive invariant.                                                 *)
LEMMA InitInvariant == Init => IInv
<1> SUFFICES ASSUME Init PROVE IInv
  OBVIOUS
<1>1. /\ app \in Apps /\ gen = [f \in Families |-> 0] /\ dead = {} /\ storage = None
      /\ orphans = {} /\ inputs = 0 /\ slip = FALSE /\ crossed = {}
      /\ task = [t \in Tabs |-> Quiet]
  BY DEF Init
<1>2. \A t \in Tabs : /\ tab[t] \in TabRecord
                      /\ tab[t].access = None /\ tab[t].refresh = None
                      /\ tab[t].user = None /\ tab[t].present = FALSE
  BY DEF Init, NoTab, TabRecord
<1>3. tab \in [Tabs -> TabRecord]
  BY <1>2 DEF Init
<1>4. \A t \in Tabs, k \in Kinds :
        /\ task[t][k] = Idle /\ task[t][k].at = "idle" /\ task[t][k].what = "none"
        /\ task[t][k].ans = None
  BY <1>1, IdleFields DEF Quiet
<1>5. task \in [Tabs -> [Kinds -> TaskRecord]]
  BY <1>1, IdleFields DEF Quiet
<1>6. TypeOK
  <2>1. inputs \in 0..MaxInputs
    BY <1>1, WebSessionAssumption
  <2>2. gen \in [Families -> Nat]
    BY <1>1
  <2> QED BY <1>1, <1>3, <1>5, <2>1, <2>2 DEF TypeOK
<1>7. TasksFit
  BY <1>4, IdleFits DEF TasksFit
<1>8. ConsoleFits
  BY <1>1, <1>4, KindNames DEF ConsoleFits
<1>9. TabsFit
  BY <1>2 DEF TabsFit, TabFits
<1>10. SessionsFit
  BY <1>2, <1>4, KindNames DEF SessionsFit, Coherent
<1>11. TokensBorn
  BY <1>1, <1>2, <1>4, NullAssumption DEF TokensBorn, Known, Refreshing
<1>12. CodesFit
  BY <1>4, KindNames DEF CodesFit, Promise, Promised
<1>13. RefreshesFit
  <2>1. \A t \in Tabs : Live(t) = None
    BY <1>1, <1>2 DEF Live
  <2> QED BY <1>1, <1>4, <2>1 DEF RefreshesFit, LiveFits, Refreshing
<1> QED BY <1>6, <1>7, <1>8, <1>9, <1>10, <1>11, <1>12, <1>13 DEF IInv

LEMMA NextInvariant == IInv /\ Next => IInv'
<1> SUFFICES ASSUME IInv, Next PROVE IInv'
  OBVIOUS
<1>1. /\ Fits /\ TabsFit /\ SessionsFit /\ TokensBorn /\ CodesFit
      /\ ~slip => RefreshesFit
  BY DEF IInv, Fits
<1>2. Effect /\ inputs' \in 0..MaxInputs
  BY <1>1, NextEffect
<1>3. TypeOK' /\ TasksFit' /\ ConsoleFits'
  BY <1>1, <1>2, FitsStep DEF Fits
<1>4. TabsFit' /\ SessionsFit'
  BY <1>1, <1>2, TabsStep, SessionsStep
<1>5. TokensBorn' /\ CodesFit'
  BY <1>1, <1>2, BornStep, CodesStep
<1>6. ~slip' => RefreshesFit'
  BY <1>1, <1>2, RefreshesStep
<1> QED BY <1>3, <1>4, <1>5, <1>6 DEF IInv

LEMMA StutterInvariant == IInv /\ UNCHANGED vars => IInv'
<1> SUFFICES ASSUME IInv, UNCHANGED vars PROVE IInv'
  OBVIOUS
<1> USE DEF vars
<1>1. TypeOK' /\ TasksFit' /\ ConsoleFits' /\ TabsFit'
  BY DEF IInv, TypeOK, TasksFit, ConsoleFits, TabsFit
<1>2. SessionsFit'
  BY DEF IInv, SessionsFit, Coherent, LoginEnding
<1>3. TokensBorn' /\ CodesFit'
  BY DEF IInv, TokensBorn, Known, Born, Refreshing, CodesFit, Promise
<1>4. ~slip' => RefreshesFit'
  <2> SUFFICES ASSUME ~slip' PROVE RefreshesFit'
    OBVIOUS
  <2>1. RefreshesFit
    BY DEF IInv
  <2> QED BY <2>1, SameRefreshes DEF Live, Refreshing
<1> QED BY <1>1, <1>2, <1>3, <1>4 DEF IInv

(* The inductive invariant holds along every execution.                     *)
THEOREM Invariance == Spec => []IInv
<1>1. IInv /\ [Next]_vars => IInv'
  BY NextInvariant, StutterInvariant
<1> QED BY InitInvariant, <1>1, PTL DEF Spec

(* TypeOK: every variable keeps its type, for any tabs, tasks and families. *)
THEOREM TypeCorrect == Spec => []TypeOK
<1>1. IInv => TypeOK
  BY DEF IInv
<1> QED BY Invariance, <1>1, PTL

(* PunishedForCause: the server ends a family only after a refresh that     *)
(* could spend a token twice, for any tabs, tasks and rotations.            *)
THEOREM NoUndeservedReuse == Spec => []PunishedForCause
<1>1. IInv => PunishedForCause
  BY DEF IInv, RefreshesFit, PunishedForCause
<1> QED BY Invariance, <1>1, PTL

(* StoredTokenIsUsable: while no token has been put at risk, the server      *)
(* accepts the one in localStorage, but for a login with GitHub.            *)
THEOREM StoredTokenRestores == Spec => []StoredTokenIsUsable
<1>1. IInv => StoredTokenIsUsable
  <2> SUFFICES ASSUME IInv, storage # None, ~slip, Hashed(storage.family)
               PROVE  \/ Accepted(storage)
                      \/ \E t \in Tabs, k \in Kinds : Refreshing(t, k) /\ task[t][k].tok = storage
    BY DEF StoredTokenIsUsable, Hashed
  <2>1. app = "account" /\ RefreshesFit
    BY AppIs DEF IInv, Fits, ConsoleFits
  <2>2. dead = {}
    BY DEF IInv, RefreshesFit, PunishedForCause
  <2> QED BY <2>1, <2>2, WebSessionAssumption DEF RefreshesFit, LiveFits, Live, Current, Accepted, Hashed
<1> QED BY Invariance, <1>1, PTL

(* SessionIsOne: the user a tab names is the one its tokens are of.         *)
THEOREM OneSession == Spec => []SessionIsOne
<1>1. IInv => SessionIsOne
  <2> SUFFICES ASSUME IInv, NEW t \in Tabs \ crossed, tab[t].user # None, ~Busy(t, "login")
               PROVE  tab[t].access # None /\ tab[t].access.family = tab[t].user
    BY DEF SessionIsOne
  <2>1. Coherent(tab[t], task[t]) /\ TaskFits("login", task[t]["login"])
    BY KindNames DEF IInv, SessionsFit, TasksFit
  <2>2. ~LoginEnding(task[t])
    BY <2>1 DEF Busy, TaskFits, LoginEnding
  <2> QED BY <2>1, <2>2 DEF Coherent
<1> QED BY Invariance, <1>1, PTL

(* SignedOutIsEmpty: signing out leaves nothing that comes back.            *)
THEOREM SignedOutForGood == Spec => []SignedOutIsEmpty
<1>1. IInv => SignedOutIsEmpty
  <2> SUFFICES ASSUME IInv, NEW t \in Tabs \ crossed, ~SignedIn(t)
               PROVE  tab[t].access = None /\ tab[t].refresh = None /\ tab[t].user = None
    BY DEF SignedOutIsEmpty
  <2>1. Coherent(tab[t], task[t]) /\ TabFits(tab[t], task[t]) /\ ConsoleFits /\ Fits
    BY DEF IInv, SessionsFit, TabsFit, Fits
  <2>2. CASE app = "account"
    BY <2>1, <2>2 DEF SignedIn, Coherent
  <2>3. CASE app = "admin"
    <3>1. tab[t].access = None /\ task[t]["restore"].what = "none"
      BY <2>1, <2>3 DEF SignedIn, ConsoleFits
    <3>2. tab[t].refresh = None
      BY <2>1, <3>1 DEF TabFits
    <3>3. ~LoginEnding(task[t])
      BY <2>1, <3>1, KindNames DEF Coherent, LoginEnding
    <3> QED BY <2>1, <3>1, <3>2, <3>3 DEF Coherent
  <2> QED BY <2>1, <2>2, <2>3, AppIs
<1> QED BY Invariance, <1>1, PTL

(* LoneTokenIsRestoring: the guards may look at the access token only.      *)
THEOREM LoneTokens == Spec => []LoneTokenIsRestoring
<1>1. IInv => LoneTokenIsRestoring
  BY DEF IInv, TabsFit, TabFits, LoneTokenIsRestoring
<1> QED BY Invariance, <1>1, PTL

(* ConsoleNeedsRole: nobody but an administrator stays signed in.           *)
THEOREM AdministratorsOnly == Spec => []ConsoleNeedsRole
<1>1. IInv => ConsoleNeedsRole
  <2> SUFFICES ASSUME IInv, app = "admin", NEW t \in Tabs \ crossed,
                      SignedIn(t), ~Busy(t, "login")
               PROVE  tab[t].user # None /\ tab[t].user \in Admins
    BY DEF ConsoleNeedsRole
  <2>1. Coherent(tab[t], task[t]) /\ TaskFits("login", task[t]["login"])
    BY KindNames DEF IInv, SessionsFit, TasksFit
  <2>2. ~LoginEnding(task[t])
    BY <2>1 DEF Busy, TaskFits, LoginEnding
  <2> QED BY <2>1, <2>2 DEF Coherent, SignedIn
<1> QED BY Invariance, <1>1, PTL

-----------------------------------------------------------------------------
(* What tasks have to do, and that they come to an end.                     *)
LEMMA ToDoFirst ==
  ASSUME NEW r
  PROVE  /\ ToDo(r)[1] \in Nat
         /\ Rests(r) => ToDo(r)[1] = 0
         /\ ~Rests(r) => /\ r.what = "cred" => ToDo(r)[1] = 3
                         /\ r.what \in Promised \cup {"restore"} => ToDo(r)[1] = 2
                         /\ r.what = "userinfo" => ToDo(r)[1] = 1
                         /\ r.what \notin Promised \cup {"cred", "restore", "userinfo"} =>
                              ToDo(r)[1] = 0
BY DEF ToDo, Rests, Promised

LEMMA ToDoSecond ==
  ASSUME NEW r
  PROVE  /\ Rests(r) => ToDo(r)[2] = 0
         /\ r.at = "resent" => ToDo(r)[2] = 1
         /\ r.at = "refreshing" /\ r.ans # None => ToDo(r)[2] = 2
         /\ r.at = "refreshing" /\ r.ans = None => ToDo(r)[2] = 3
         /\ r.at = "sent" => ToDo(r)[2] = 4
BY DEF ToDo, Rests

LEMMA SameStage ==
  ASSUME NEW r, NEW q, ~Rests(r), ~Rests(q), r.what = q.what
  PROVE  ToDo(r)[1] = ToDo(q)[1]
BY DEF ToDo, Rests

Nearer ==
  \A t \in Tabs, k \in Kinds :
    task'[t][k] \notin {task[t][k], Idle} => Less(ToDo(task'[t][k]), ToDo(task[t][k]))

LEMMA NearerPoint ==
  ASSUME NEW t \in Tabs, NEW k \in Kinds, OnlyTask(t, k),
         task'[t][k] \in {task[t][k], Idle} \/ Less(ToDo(task'[t][k]), ToDo(task[t][k]))
  PROVE  Nearer
BY DEF OnlyTask, Nearer

LEMMA StartsNearer ==
  ASSUME Fits, NEW t \in Tabs, NEW k \in Kinds, Starts(t, k)
  PROVE  Nearer
<1>1. /\ task[t][k].at = "sent" /\ task'[t][k].at = "refreshing"
      /\ task'[t][k].what = task[t][k].what /\ task'[t][k].ans = None
  BY StartsTask
<1>2. ToDo(task'[t][k])[1] = ToDo(task[t][k])[1]
  BY <1>1, SameStage DEF Rests
<1>3. ToDo(task'[t][k])[2] = 3 /\ ToDo(task[t][k])[2] = 4
  BY <1>1, ToDoSecond
<1>4. Less(ToDo(task'[t][k]), ToDo(task[t][k]))
  BY <1>2, <1>3 DEF Less
<1> QED BY <1>4, NearerPoint DEF Starts

LEMMA AnswersNearer ==
  ASSUME Fits, NEW t \in Tabs, NEW k \in Kinds, Answers(t, k)
  PROVE  Nearer
<1>1. /\ task[t][k].at = "refreshing" /\ task'[t][k].at = "refreshing"
      /\ task'[t][k].what = task[t][k].what /\ task[t][k].ans = None
      /\ task[t][k].tok \in Pair /\ task'[t][k].ans = RefreshAnswer(task[t][k].tok)
  BY AnswersTask
<1>2. task'[t][k].ans # None
  <2>1. \/ RefreshAnswer(task[t][k].tok) = Refused
        \/ RefreshAnswer(task[t][k].tok) \in Pair
    BY <1>1, RefreshAnswerIs, NextPair DEF Fits
  <2> QED BY <1>1, <2>1, NullAssumption, WebSessionAssumption
<1>3. ToDo(task'[t][k])[1] = ToDo(task[t][k])[1]
  BY <1>1, SameStage DEF Rests
<1>4. ToDo(task'[t][k])[2] = 2 /\ ToDo(task[t][k])[2] = 3
  BY <1>1, <1>2, ToDoSecond
<1>5. Less(ToDo(task'[t][k]), ToDo(task[t][k]))
  BY <1>3, <1>4 DEF Less
<1> QED BY <1>5, NearerPoint DEF Answers

LEMMA ResendsNearer ==
  ASSUME Fits, NEW t \in Tabs, NEW k \in Kinds, Resends(t, k)
  PROVE  Nearer
<1>1. /\ task[t][k].at = "refreshing" /\ task'[t][k].at = "resent"
      /\ task'[t][k].what = task[t][k].what /\ task[t][k].ans \in Pair
  BY ResendsTask
<1>2. ToDo(task'[t][k])[1] = ToDo(task[t][k])[1]
  BY <1>1, SameStage DEF Rests
<1>3. ToDo(task'[t][k])[2] = 1 /\ ToDo(task[t][k])[2] = 2
  BY <1>1, ToDoSecond, NullAssumption
<1>4. Less(ToDo(task'[t][k]), ToDo(task[t][k]))
  BY <1>2, <1>3 DEF Less
<1> QED BY <1>4, NearerPoint DEF Resends

LEMMA EndsNearer ==
  ASSUME NEW t \in Tabs, NEW k \in Kinds, Leaves(t, k) \/ Names(t, k)
  PROVE  Nearer
BY NearerPoint DEF Leaves, Names

LEMMA FoundsNearer ==
  ASSUME Fits, NEW t \in Tabs, Founds(t)
  PROVE  Nearer
<1> DEFINE r == task[t]["login"]
<1>1. r.what \in Promised /\ task'[t]["login"].what = "userinfo" /\ task'[t]["login"].at = "sent"
  BY FoundsTask
<1>2. ~Rests(r)
  BY <1>1, TaskFitsHere, KindNames DEF TaskFits, Rests, Promised
<1>3. ToDo(r)[1] = 2 /\ ToDo(task'[t]["login"])[1] = 1
  BY <1>1, <1>2, ToDoFirst DEF Rests
<1>4. Less(ToDo(task'[t]["login"]), ToDo(r))
  BY <1>3 DEF Less
<1> QED BY <1>4, NearerPoint, KindNames DEF Founds

LEMMA RestoresNearer ==
  ASSUME Fits, NEW t \in Tabs, Restores(t)
  PROVE  Nearer
<1> DEFINE r == task[t]["restore"]
<1>1. /\ r.what = "restore" /\ r.at = "refreshing"
      /\ task'[t]["restore"].what = "userinfo" /\ task'[t]["restore"].at = "sent"
  BY RestoresTask
<1>2. ToDo(r)[1] = 2 /\ ToDo(task'[t]["restore"])[1] = 1
  BY <1>1, ToDoFirst DEF Rests
<1>3. Less(ToDo(task'[t]["restore"]), ToDo(r))
  BY <1>2 DEF Less
<1> QED BY <1>3, NearerPoint, KindNames DEF Restores

LEMMA LoadNearer ==
  ASSUME Fits, NEW t \in Tabs, NEW page, Load(t, page, None, Idle)
  PROVE  Nearer
<1> DEFINE w == [Quiet EXCEPT !["restore"] = Idle, !["login"] = Idle]
<1>1. task' = [task EXCEPT ![t] = w]
  BY DEF Load
<1>2. \A k \in Kinds : w[k] = Idle
  BY DEF Quiet
<1> HIDE DEF w
<1>3. \A u \in Tabs : task'[u] = IF u = t THEN w ELSE task[u]
  BY <1>1 DEF Fits, TypeOK
<1> QED BY <1>2, <1>3 DEF Nearer

(* A request of the login page is answered.                                 *)
LEMMA LoginNearer ==
  ASSUME Fits, NEW t \in Tabs, NEW rec \in TaskRecord, Login(t, rec),
         \/ rec = Idle
         \/ Less(ToDo(rec), ToDo(task[t]["login"]))
  PROVE  Nearer
<1>1. OnlyTask(t, "login") /\ task'[t]["login"] = rec
  BY TaskPoint, KindNames DEF Login, Fits
<1> QED BY <1>1, NearerPoint, KindNames

LEMMA LoginAnsweredNearer ==
  ASSUME Fits, NEW t \in Tabs,
         AccountLoginAnswered(t) \/ AdminLoginAnswered(t) \/ AccountMfaAnswered(t)
  PROVE  Nearer
<1> DEFINE r == task[t]["login"]
<1>1. r.at \in {"sent", "resent"} /\ r.what \in {"cred", "mfa"}
  BY DEF AccountLoginAnswered, AdminLoginAnswered, AccountMfaAnswered, Answerable
<1>2. ~Rests(r) /\ ToDo(r)[1] \in Nat /\ ToDo(r)[2] \in {1, 4}
  BY <1>1, ToDoFirst, ToDoSecond DEF Rests
<1>3. CASE Login(t, Idle)
  BY <1>3, IdleFields, LoginNearer
<1>4. CASE Login(t, [Idle EXCEPT !.at = "asking"])
  <2> DEFINE rec == [Idle EXCEPT !.at = "asking"]
  <2>1. rec \in TaskRecord /\ Rests(rec) /\ Login(t, rec)
    BY <1>4, AskingFields DEF Rests
  <2> HIDE DEF rec
  <2>2. ToDo(rec)[1] = 0 /\ ToDo(rec)[2] = 0
    BY <2>1, ToDoFirst, ToDoSecond
  <2>3. Less(ToDo(rec), ToDo(r))
    BY <1>2, <2>2 DEF Less
  <2> QED BY <2>1, <2>3, LoginNearer
<1>5. CASE r.what = "cred" /\ \E f \in Fresh(Others) : Login(t, Sent("code", [family |-> f, n |-> 0]))
  <2>1. PICK f \in Fresh(Others) : Login(t, Sent("code", [family |-> f, n |-> 0]))
    BY <1>5
  <2> DEFINE rec == Sent("code", [family |-> f, n |-> 0])
  <2>2. rec \in TaskRecord /\ rec.at = "sent" /\ rec.what = "code"
    BY FreshUnpromised, PromiseFields DEF Promised
  <2>3. Login(t, rec)
    BY <2>1
  <2> HIDE DEF rec
  <2>4. ToDo(rec)[1] = 2 /\ ToDo(r)[1] = 3
    BY <1>2, <1>5, <2>2, ToDoFirst DEF Rests, Promised
  <2>5. Less(ToDo(rec), ToDo(r))
    BY <2>4 DEF Less
  <2> QED BY <2>2, <2>3, <2>5, LoginNearer
<1> QED BY <1>3, <1>4, <1>5
    DEF AccountLoginAnswered, AdminLoginAnswered, AccountMfaAnswered, Answerable

LEMMA ExchangeNearer ==
  ASSUME Fits, NEW t \in Tabs,
         AccountExchangeCode(t) \/ GitHubLoggedIn(t) \/ AdminExchangeCode(t)
  PROVE  Nearer
BY ExchangeEffect, IdleFields, LoginNearer, FoundsNearer

LEMMA RefreshedNearer ==
  ASSUME Fits, NEW t \in Tabs, NEW k \in Kinds, AccountRefreshed(t, k) \/ AdminRefreshed(t, k)
  PROVE  Nearer
<1>1. CASE AdminRefreshed(t, k)
  BY <1>1, AdminRefreshedEffect, ResendsNearer, EndsNearer
<1>2. CASE AccountRefreshed(t, k)
  BY <1>2, ResendEffect, ResendsNearer, LoadNearer DEF AccountRefreshed
<1> QED BY <1>1, <1>2

LEMMA PageNearer ==
  ASSUME Fits, NEW t \in Tabs, NEW k \in Kinds, PageCallAnswered(t, k) \/ AccountDeleted(t, k)
  PROVE  Nearer
<1>1. CASE PageCallAnswered(t, k)
  <2>1. OnlyTask(t, k) /\ task'[t][k] = Idle
    BY <1>1, IdleFields, TaskPoint DEF PageCallAnswered, Fits
  <2> QED BY <2>1, NearerPoint
<1>2. CASE AccountDeleted(t, k)
  BY <1>2, LoadNearer DEF AccountDeleted
<1> QED BY <1>1, <1>2

LEMMA ProgressNearer ==
  ASSUME Fits, NEW t \in Tabs, NEW k \in Kinds, Progress(t, k)
  PROVE  Nearer
<1>1. CASE ServerRefresh(t, k) \/ StartRefresh(t, k)
  BY <1>1, ServerRefreshEffect, StartRefreshEffect, AnswersNearer, StartsNearer
<1>2. CASE AccountRefreshed(t, k) \/ AdminRefreshed(t, k)
  BY <1>2, RefreshedNearer
<1>3. CASE PageCallAnswered(t, k) \/ AccountDeleted(t, k)
  BY <1>3, PageNearer
<1>4. CASE AccountFetchUser(t, k)
  BY <1>4, AccountFetchEffect, EndsNearer
<1>5. CASE AccountRestored(t)
  BY <1>5, AccountRestoredEffect, RestoresNearer, EndsNearer, KindNames
<1>6. CASE AccountLoginAnswered(t) \/ AccountMfaAnswered(t) \/ AdminLoginAnswered(t)
  BY <1>6, LoginAnsweredNearer
<1>7. CASE AccountExchangeCode(t) \/ GitHubLoggedIn(t) \/ AdminExchangeCode(t)
  BY <1>7, ExchangeNearer
<1>8. CASE AdminFetchUserInfo(t) \/ AccountLogoutAnswered(t)
  BY <1>8, AdminFetchEffect, LogoutAnsweredEffect, EndsNearer, KindNames
<1> QED BY <1>1, <1>2, <1>3, <1>4, <1>5, <1>6, <1>7, <1>8 DEF Progress

(* RetriesEnd: nothing the network answers keeps a task going for ever.     *)
THEOREM TasksEnd == Spec => RetriesEnd
<1> DEFINE Ends == inputs' = inputs => Nearer
<1>1. IInv /\ [Next]_vars => [Ends]_vars
  <2> SUFFICES ASSUME IInv, Next, inputs' = inputs PROVE Nearer
    OBVIOUS
  <2>1. Fits /\ inputs \in Nat
    BY WebSessionAssumption DEF IInv, Fits, TypeOK
  <2>2. CASE \E t \in Tabs, k \in Kinds : Progress(t, k)
    BY <2>1, <2>2, ProgressNearer
  <2>3. CASE \E p \in orphans : ServerRefreshOrphan(p)
    BY <2>3 DEF ServerRefreshOrphan, Nearer
  <2> QED BY <2>1, <2>2, <2>3 DEF Next
<1>2. [][Ends]_vars => RetriesEnd
  BY DEF RetriesEnd, Nearer
<1> QED BY Invariance, <1>1, <1>2, PTL DEF Spec
=============================================================================
