------------------------------ MODULE TokensPage ------------------------------
(***************************************************************************)
(* The console's TokensPage: live access tokens, filtered and a page at a  *)
(* time, revoked one by one, for a client or for a user, each time after a *)
(* dialog has asked for confirmation.                                      *)
(***************************************************************************)
EXTENDS WebPage

CONSTANTS
  Tokens,   \* records of an id (issued later: greater), a client and a user
  PerPage,  \* tokens on a page
  MaxPage   \* bound on the page number

ASSUME TokensPageAssumption ==
  /\ \A t \in Tokens : DOMAIN t = {"id", "client", "user"} /\ t.id \in Nat
  /\ \A s, t \in Tokens : s # t => s.id # t.id
  /\ {PerPage, MaxPage} \subseteq Nat \ {0}

Clients == {t.client : t \in Tokens}
Users == {t.user : t \in Tokens}

(* A target of a revocation.                                                *)
Targets == [by : {"token"}, who : {t.id : t \in Tokens}]
           \cup [by : {"client"}, who : Clients] \cup [by : {"user"}, who : Users]

(* listTokens: the filters that are set, newest first, PerPage at a time.   *)
Found(q, live) ==
  LET match == {t \in live : q.client \in {None, t.client} /\ q.user \in {None, t.user}}
      before(t) == Cardinality({s \in match : s.id > t.id})
  IN {t \in match : (q.nr - 1) * PerPage <= before(t) /\ before(t) < q.nr * PerPage}

Struck(target, live) ==
  {t \in live : CASE target.by = "token" -> t.id = target.who
                  [] target.by = "client" -> t.client = target.who
                  [] target.by = "user" -> t.user = target.who}

NoFilters == [client |-> None, user |-> None, nr |-> 1]

(* asked is the search whose answer is shown.                               *)
TokensMounted ==
  /\ ui = [loading |-> TRUE, busy |-> {}, open |-> {}, secret |-> None, shown |-> {},
           client |-> None, user |-> None, nr |-> 1, dialog |-> None, asked |-> NoFilters]
  /\ db \in [live : SUBSET Tokens]
  /\ calls = Sent({}, "fetchTokens", "search", NoFilters, "none")

(* The server.  A search counts first, for the footer, and then reads.  A   *)
(* token is revoked in one statement.                                       *)
RevokeOne(c) ==
  Reply(c, Struck(c.body, db.live) # {}, [db EXCEPT !.live = @ \ Struck(c.body, @)], None)

(* For a client or a user the access tokens are deleted, and then their     *)
(* refresh tokens, which no page shows: when that fails the answer is the   *)
(* same.                                                                    *)
RevokeAll(c) ==
  \/ /\ c.st = "sent"
     /\ \/ /\ c.body.who # None
           /\ db' = [db EXCEPT !.live = @ \ Struck(c.body, @)]
           /\ Answer(c, "half", None)
        \/ UNCHANGED db /\ Answer(c, "failed", None)
     /\ UNCHANGED <<page, ui, inputs, marks, others, meant>>
  \/ /\ c.st = "half"
     /\ \/ Answer(c, "ok", None) /\ UNCHANGED marks
        \/ Answer(c, "failed", None) /\ marks' = marks \cup {"lost"}
     /\ UNCHANGED <<page, ui, db, inputs, others, meant>>

ServeTokens ==
  \E c \in calls :
    \/ c.op = "search" /\ c.st = "sent" /\ Reply(c, TRUE, db, Found(c.body, db.live))
    \/ c.op = "revoke" /\ c.body.by = "token" /\ c.st = "sent" /\ RevokeOne(c)
    \/ c.op = "revoke" /\ c.body.by # "token" /\ RevokeAll(c)

OtherWithTokens ==
  \E t \in Tokens :
    Elsewhere([db EXCEPT !.live = IF t \in @ THEN @ \ {t} ELSE @ \cup {t}], others)

-----------------------------------------------------------------------------
(* The menu and the filters stay while loading, and everything stays while  *)
(* the dialog asks: it hides the page from the pointer, not from the        *)
(* keyboard.                                                                *)
TokensTemplate ==
  LET seen == IF ui.loading THEN {} ELSE ui.shown
  IN [rows |-> seen,
      clients |-> IF "menu" \in ui.open THEN {t.client : t \in ui.shown} ELSE {},
      previous |-> seen # {} /\ ui.nr > 1,
      next |-> seen # {} /\ Cardinality(seen) >= PerPage /\ ui.nr < MaxPage,
      confirm |-> ui.dialog # None]

(* A fetch with what the filters and the page number are by then.  When it  *)
(* ends a revocation, the dialog is closed, whichever it is by now.         *)
Search(cs, u, flag) ==
  Sent(cs, "fetchTokens", "search", [client |-> u.client, user |-> u.user, nr |-> u.nr], flag)

Ended(u, flag) == IF flag = "confirm" THEN [u EXCEPT !.dialog = None] ELSE u

FetchTokens ==
  /\ At("tokens")
  /\ \E c \in Answered("fetchTokens") :
       LET u == [Ended(ui, c.flag) EXCEPT !.loading = FALSE]
       IN Resume(calls \ {c}, IF c.st = "ok" THEN [u EXCEPT !.shown = c.res, !.asked = c.body] ELSE u)

Searching(u) == Click(Search(calls, u, "none"), [u EXCEPT !.loading = TRUE])

ApplyFilters == At("tokens") /\ Searching([ui EXCEPT !.nr = 1])

ClearFilters ==
  At("tokens") /\ Searching([ui EXCEPT !.client = None, !.user = None, !.nr = 1])

PreviousPage == At("tokens") /\ TokensTemplate.previous /\ Searching([ui EXCEPT !.nr = @ - 1])

NextPage == At("tokens") /\ TokensTemplate.next /\ Searching([ui EXCEPT !.nr = @ + 1])

TypeFilters ==
  /\ page = "tokens" /\ UNCHANGED others
  /\ \/ \E k \in (Clients \cup {None}) \ {ui.client} : Enter([ui EXCEPT !.client = k])
     \/ \E k \in (Users \cup {None}) \ {ui.user} : Enter([ui EXCEPT !.user = k])

ShowBulkMenu ==
  /\ page = "tokens"
  /\ Type([ui EXCEPT !.open = IF @ = {} THEN {"menu"} ELSE {}])

-----------------------------------------------------------------------------
ShowConfirm(u, target) == Type([u EXCEPT !.dialog = target])

(* What the confirmed function revokes: for a user, the one in the filter   *)
(* by then.                                                                 *)
Action(target) == IF target.by = "user" THEN [target EXCEPT !.who = ui.user] ELSE target

(* Confirm may be clicked again before the first answer.                    *)
ExecuteConfirm ==
  /\ At("tokens") /\ TokensTemplate.confirm
  /\ Click(Sent(calls, "revoke", "revoke", Action(ui.dialog), "confirm"), ui)

CancelConfirm == page = "tokens" /\ TokensTemplate.confirm /\ Type([ui EXCEPT !.dialog = None])

Revoked ==
  /\ At("tokens")
  /\ \E c \in Answered("revoke") :
       IF c.st = "ok" THEN Resume(Search(calls \ {c}, ui, "confirm"), [ui EXCEPT !.loading = TRUE])
       ELSE Resume(calls \ {c}, [ui EXCEPT !.dialog = None])

RevokeToken ==
  /\ page = "tokens"
  /\ \E t \in TokensTemplate.rows : ShowConfirm(ui, [by |-> "token", who |-> t.id])

RevokeByClient ==
  /\ page = "tokens"
  /\ \E k \in TokensTemplate.clients : ShowConfirm([ui EXCEPT !.open = {}], [by |-> "client", who |-> k])

RevokeByUser ==
  /\ page = "tokens" /\ ui.user # None
  /\ ShowConfirm(ui, [by |-> "user", who |-> ui.user])

TokensPageNext ==
  \/ page = "tokens" /\ (ServeTokens \/ OtherWithTokens)
  \/ FetchTokens \/ ApplyFilters \/ ClearFilters \/ PreviousPage \/ NextPage \/ TypeFilters
  \/ ShowBulkMenu \/ ExecuteConfirm \/ CancelConfirm \/ Revoked
  \/ RevokeToken \/ RevokeByClient \/ RevokeByUser
=============================================================================
