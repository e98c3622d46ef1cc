------------------------------- MODULE WebPage -------------------------------
(***************************************************************************)
(* What the pages of the two single-page applications have in common: a    *)
(* component holds what it shows, sends requests, and a function that      *)
(* awaits an answer goes on when it comes, in whatever order the answers   *)
(* come.  Between two awaits a function is one step.                       *)
(*                                                                         *)
(* One page of one tab is followed from the moment it is mounted; leaving  *)
(* it ends what is modelled.  The server it talks to may refuse a request, *)
(* fail, or do what was asked and lose the answer, and other people change *)
(* its data.  Renewing the access token is the business of WebSession.     *)
(***************************************************************************)
EXTENDS Naturals, FiniteSets

CONSTANTS
  Pages,     \* the pages looked at
  None,      \* null and undefined
  MaxCalls,  \* bound on the requests a page has under way
  MaxInputs, \* bound, for each page, on what its user enters and sends and on
             \* what others change meanwhile
  RoleNames  \* the roles there are

ASSUME WebPageAssumption ==
  /\ MaxCalls \in Nat /\ MaxCalls > 2
  /\ MaxInputs \in [Pages -> Nat]

VARIABLES
  page,    \* the page
  ui,      \* what its component holds
  db,      \* the server's data
  calls,   \* requests under way, and answers nobody has read yet
  inputs,  \* clicks and others' changes so far
  marks,   \* history: what may excuse a page that is not up to date
  others,  \* history: the fields somebody else has set, that this page's
           \* user has not edited since, and their values
  meant    \* history: what the user has asked for

vars == <<page, ui, db, calls, inputs, marks, others, meant>>

(* unread: a fetch failed.  lost: something was done, or half done, and the *)
(* page was told that it failed.  overlap: two answers the page shows in    *)
(* the same place were awaited together.  other: somebody else changed the  *)
(* data.  blind: a form was saved that was never filled from the server, or *)
(* whose stored value the page reads differently.  early: MFA was set up    *)
(* before the page had heard of an earlier step, or disabled while a code   *)
(* was still being checked.  misled: the server said that all was well, and *)
(* part of it was not.                                                      *)
Marks == {"unread", "lost", "overlap", "other", "blind", "early", "misled"}

(* loading hides the page's contents; busy are the flags that disable       *)
(* buttons, open the modals, sel the selected row, tab or stage, form a     *)
(* create form, draft an edit form, secret a secret shown once.             *)
NoForm == [name |-> None, val |-> None]

Fresh == [loading |-> TRUE, busy |-> {}, open |-> {}, sel |-> None, form |-> NoForm,
          draft |-> None, shown |-> None, secret |-> None]

-----------------------------------------------------------------------------
(* Function fn sends a request; flag is what it resets at the end.          *)
Sent(cs, fn, op, body, flag) ==
  cs \cup {[id |-> CHOOSE i \in 1..(MaxCalls + 1) : \A c \in cs : c.id # i,
            fn |-> fn, op |-> op, body |-> body, flag |-> flag, st |-> "sent", res |-> None]}

(* Where on the page the answer is shown.                                   *)
Shows(c) ==
  CASE c.op = "read" -> c.body
    [] c.op = "scopes" -> {"scopes"}
    [] c.op = "search" -> {"tokens"}
    [] c.op = "reset" \/ c.fn = "createClient" -> {"secret"}
    [] OTHER -> {}

Overlap(cs) == \E c, d \in cs : c # d /\ Shows(c) \cap Shows(d) # {}

Awaiting(cs) ==
  /\ calls' = cs
  /\ marks' = IF Overlap(cs) THEN marks \cup {"overlap"} ELSE marks

Answered(fn) == {c \in calls : c.fn = fn /\ c.st \in {"ok", "failed"}}

(* The user types, or opens and closes something: no request is sent.       *)
Type(u) == ui' = u /\ UNCHANGED <<page, db, calls, inputs, marks, others, meant>>

(* The functions of page p, which leave alone what is kept of the past.     *)
At(p) == page = p /\ UNCHANGED <<others, meant>>

(* The same, counted: it bears on what is sent.                             *)
Enter(u) ==
  /\ inputs < MaxInputs[page] /\ inputs' = inputs + 1
  /\ ui' = u
  /\ UNCHANGED <<page, db, calls, marks, meant>>

(* The user clicks: the page holds u and awaits cs.                         *)
Click(cs, u) ==
  /\ inputs < MaxInputs[page] /\ inputs' = inputs + 1
  /\ Cardinality(cs) <= MaxCalls
  /\ Awaiting(cs)
  /\ ui' = u
  /\ UNCHANGED <<page, db>>

(* A function goes on, and awaits cs.                                       *)
Resume(cs, u) ==
  /\ Awaiting(cs)
  /\ ui' = u
  /\ UNCHANGED <<page, db, inputs>>

Raise(flag) == [ui EXCEPT !.busy = @ \cup ({flag} \ {"none"})]

Drop(u, flag) == [u EXCEPT !.busy = @ \ {flag}]

(* A click that sends one request and raises its flag.                      *)
Start(flag, fn, op, body) == Click(Sent(calls, fn, op, body, flag), Raise(flag))

-----------------------------------------------------------------------------
(* The server answers call c: pre says whether it accepts, d is its data    *)
(* afterwards and r its answer.                                             *)
Answer(c, st, r) == calls' = (calls \ {c}) \cup {[c EXCEPT !.st = st, !.res = r]}

Reply(c, pre, d, r) ==
  /\ \/ /\ pre
        /\ db' = d
        /\ Answer(c, "ok", r)
        /\ UNCHANGED marks
     \/ /\ UNCHANGED db
        /\ Answer(c, "failed", None)
        /\ marks' = IF c.op \in {"read", "search"} THEN marks \cup {"unread"} ELSE marks
     \/ /\ pre /\ d # db
        /\ db' = d
        /\ Answer(c, "failed", None)
        /\ marks' = marks \cup {"lost"}
  /\ UNCHANGED <<page, ui, inputs, others, meant>>

(* assignUserRoles: the roles of a user are deleted in a statement of their *)
(* own, after which the server's data is d.  When none are asked for that   *)
(* is all; a request that is refused, or a DELETE that fails, changes       *)
(* nothing.  Mutant: nothing is deleted.                                    *)
RolesKept(c, d) ==
  /\ UNCHANGED <<page, ui, db, inputs, marks, others, meant>>
  /\ IF c.body.val = {} THEN Answer(c, "ok", None) ELSE Answer(c, "half", c.body.val)

RolesDeleted(c, d) ==
  /\ \/ /\ db' = d /\ UNCHANGED marks
        /\ IF c.body.val = {} THEN Answer(c, "ok", None) ELSE Answer(c, "half", c.body.val)
     \/ UNCHANGED <<db, marks>> /\ Answer(c, "failed", None)
     \/ db' = d /\ Answer(c, "failed", None) /\ marks' = marks \cup {"lost"}
  /\ UNCHANGED <<page, ui, inputs, others, meant>>

(* Then one INSERT for each role asked for, in any order: res are those     *)
(* left.  One that names no role inserts nothing, one the user holds cannot *)
(* be inserted again.  Only the last to end answers, for itself.  with is   *)
(* the server's data for each set of roles the user may have.               *)
RoleInserted(c, held, with) ==
  \E r \in c.res, fails \in BOOLEAN :
    /\ r \in held => fails
    /\ db' = with[IF fails THEN held ELSE held \cup ({r} \cap RoleNames)]
    /\ \/ /\ c.res # {r}
          /\ Answer(c, "half", c.res \ {r})
          /\ marks' = IF fails /\ r \in RoleNames THEN marks \cup {"misled"} ELSE marks
       \/ /\ c.res = {r} /\ ~fails
          /\ Answer(c, "ok", None)
          /\ UNCHANGED marks
       \/ /\ c.res = {r}
          /\ Answer(c, "failed", None)
          /\ marks' = marks \cup {"lost"}
    /\ UNCHANGED <<page, ui, inputs, others, meant>>

Sending(op) == {c \in calls : c.op = op /\ c.st = "sent"}

Halfway(op) == {c \in calls : c.op = op /\ c.st = "half"}

(* Somebody else changes the server's data to d.                            *)
Elsewhere(d, o) ==
  /\ inputs < MaxInputs[page] /\ inputs' = inputs + 1
  /\ db' = d
  /\ marks' = marks \cup {"other"}
  /\ others' = o
  /\ UNCHANGED <<page, ui, calls, meant>>

Settled == calls = {}
=============================================================================
