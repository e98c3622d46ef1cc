------------------------------ MODULE ListPages ------------------------------
(***************************************************************************)
(* The pages that show a table: the console's RolesPage, ScopesPage,       *)
(* UsersPage and ApplicationsPage, and AuthorizedAppsPage of the account   *)
(* pages.  A row has one value, the part of it that can be edited; of an   *)
(* application that is its type.  db.roles are the roles of each user,     *)
(* db.secret counts the secrets an application has had.                    *)
(***************************************************************************)
EXTENDS WebPage

CONSTANTS
  Rows,      \* names of rows
  Builtin,   \* the rows that cannot be deleted
  Vals,      \* values of rows and fields
  Typed      \* those a user types

ASSUME ListPagesAssumption == Builtin \subseteq Rows /\ Typed \subseteq Vals

RowVals(p) ==
  CASE p \in {"roles", "scopes"} -> Vals
    [] p = "applications" -> {"PUBLIC", "CONFIDENTIAL"}
    [] OTHER -> {"row"}

ListPageNames == {"roles", "scopes", "users", "applications", "authorized-apps"}

Kept(p) == IF p \in {"roles", "scopes"} THEN Builtin ELSE {}

FetchOf(p) ==
  CASE p = "roles" -> "fetchRoles" [] p = "scopes" -> "fetchScopes" [] p = "users" -> "fetchUsers"
    [] p = "applications" -> "fetchClients" [] p = "authorized-apps" -> "fetchApps"

ListMounted(p) ==
  /\ ui = [Fresh EXCEPT !.shown = [r \in Rows |-> None]]
  /\ db \in [data : [Rows -> RowVals(p) \cup {None}], secret : {[r \in Rows |-> 0]},
             roles : {[r \in Rows |-> {}]}]
  /\ \A r \in Kept(p) : db.data[r] # None
  /\ calls = Sent({}, FetchOf(p), "read", Rows, "none")

-----------------------------------------------------------------------------
(* The server.  A role or a scope is created in two statements: one looks   *)
(* for the name, and the INSERT refuses it again when it has come up since. *)
Create(c) ==
  LET r == c.body.name
      s == IF c.body.val = "PUBLIC" THEN db.secret[r] ELSE db.secret[r] + 1
  IN \/ /\ c.st = "sent" /\ page \in {"roles", "scopes"} /\ db.data[r] = None
        /\ Answer(c, "half", None)
        /\ UNCHANGED <<page, ui, db, inputs, marks, others, meant>>
     \/ Reply(c, (c.st = "half" \/ page \notin {"roles", "scopes"}) /\ db.data[r] = None,
              [db EXCEPT !.data[r] = c.body.val, !.secret[r] = s], [of |-> r, n |-> s])

ServeList ==
  \E c \in calls :
    \/ c.op = "create" /\ c.st \in {"sent", "half"} /\ Create(c)
    \/ /\ c.st = "sent"
       /\ \/ c.op = "read" /\ Reply(c, TRUE, db, db.data)
          \/ /\ c.op = "update"
             /\ Reply(c, db.data[c.body.name] # None,
                      [db EXCEPT !.data[c.body.name] = c.body.val], None)
          \/ /\ c.op = "remove"
             /\ Reply(c, db.data[c.body] # None, [db EXCEPT !.data[c.body] = None], None)
          \/ /\ c.op = "reset"
             /\ Reply(c, db.data[c.body] # None, [db EXCEPT !.secret[c.body] = @ + 1],
                      [of |-> c.body, n |-> db.secret[c.body] + 1])

ServeAssignInList ==
  \/ \E c \in Sending("assign") : RolesDeleted(c, [db EXCEPT !.roles[c.body.name] = {}])
  \/ \E c \in Halfway("assign") :
       LET r == c.body.name
       IN RoleInserted(c, db.roles[r], [held \in SUBSET RoleNames |-> [db EXCEPT !.roles[r] = held]])

OtherInList ==
  \E r \in Rows, v \in RowVals(page) \cup {None} :
    /\ v # db.data[r] /\ (v = None => r \notin Kept(page))
    /\ Elsewhere([db EXCEPT !.data[r] = v], others)

-----------------------------------------------------------------------------
(* fetch...: the rows are replaced, or kept when the fetch fails.  Mutant:   *)
(* they are replaced by whatever came.                                      *)
FetchedAnyway(fn) ==
  \E c \in Answered(fn) :
    Resume(calls \ {c}, [Drop(ui, c.flag) EXCEPT !.loading = FALSE, !.shown = c.res])

Fetched(fn) ==
  \E c \in Answered(fn) :
    Resume(calls \ {c}, [Drop(ui, c.flag) EXCEPT !.loading = FALSE,
                                                 !.shown = IF c.st = "ok" THEN c.res ELSE @])

(* Done: the page becomes u and the rows are fetched again, still under the *)
(* flag.  Failed: the flag is dropped.                                      *)
ThenFetch(fn, u) ==
  \E c \in Answered(fn) :
    IF c.st = "ok"
    THEN Resume(Sent(calls \ {c}, FetchOf(page), "read", Rows, c.flag), [u EXCEPT !.loading = TRUE])
    ELSE Resume(calls \ {c}, Drop(ui, c.flag))

(* The roles a user was told have been given.                               *)
Assigned(c, r) ==
  meant' = IF c.st = "ok" THEN [meant EXCEPT ![r] = c.body.val \cap RoleNames] ELSE meant

(* What a template offers.  A modal covers the page, but the keyboard still *)
(* reaches what it covers.                                                  *)
Listed == IF ui.loading THEN {} ELSE {r \in Rows : ui.shown[r] # None}

Free(modal, flag) == modal \in ui.open /\ flag \notin ui.busy

ModalTable ==
  [add |-> TRUE, edit |-> Listed, delete |-> Listed \ Builtin, reset |-> {},
   create |-> Free("create", "saving") /\ ui.form.name # None, save |-> Free("edit", "saving")]

(* The create and edit modals are opened, filled in and cancelled; what was *)
(* typed in the create form stays, what the edit form holds is set anew     *)
(* whenever it is opened.                                                   *)
OpenEdit(r, v) == Type([ui EXCEPT !.sel = r, !.draft = v, !.open = @ \cup {"edit"}])

Closed(m) == [ui EXCEPT !.open = @ \ {m}, !.sel = IF m = "edit" THEN None ELSE @,
                        !.draft = IF m = "edit" THEN None ELSE @]

Modals(template) ==
  \/ template.add /\ Type([ui EXCEPT !.open = @ \cup {"create"}])
  \/ /\ "create" \in ui.open
     /\ \E r \in Rows, v \in IF page = "applications" THEN RowVals(page) ELSE Typed :
          Type([ui EXCEPT !.form = [name |-> r, val |-> v]])
  \/ /\ "edit" \in ui.open
     /\ \E v \in IF page = "users" THEN SUBSET (RoleNames \cup {"unknown"}) ELSE Typed :
          Type([ui EXCEPT !.draft = v])
  \/ \E m \in ui.open \ {"secret"} : Type(Closed(m))

Edited == [name |-> ui.sel, val |-> ui.draft]

-----------------------------------------------------------------------------
(* RolesPage *)
RolesTemplate == ModalTable

FetchRoles == At("roles") /\ Fetched("fetchRoles")

CreateRole ==
  /\ At("roles")
  /\ \/ RolesTemplate.create /\ Start("saving", "createRole", "create", ui.form)
     \/ ThenFetch("createRole", [ui EXCEPT !.open = @ \ {"create"}, !.form = NoForm])

OpenEditRole == page = "roles" /\ \E r \in RolesTemplate.edit : OpenEdit(r, ui.shown[r])

UpdateRole ==
  /\ At("roles")
  /\ \/ RolesTemplate.save /\ Start("saving", "updateRole", "update", Edited)
     \/ ThenFetch("updateRole", Closed("edit"))

DeleteRole ==
  /\ At("roles")
  /\ \/ \E r \in RolesTemplate.delete : Start("none", "deleteRole", "remove", r)
     \/ ThenFetch("deleteRole", ui)

-----------------------------------------------------------------------------
(* ScopesPage *)
ScopesTemplate == ModalTable

FetchScopes == At("scopes") /\ Fetched("fetchScopes")

CreateScope ==
  /\ At("scopes")
  /\ \/ ScopesTemplate.create /\ Start("saving", "createScope", "create", ui.form)
     \/ ThenFetch("createScope", [ui EXCEPT !.open = @ \ {"create"}, !.form = NoForm])

OpenEditScope == page = "scopes" /\ \E r \in ScopesTemplate.edit : OpenEdit(r, ui.shown[r])

UpdateScope ==
  /\ At("scopes")
  /\ \/ ScopesTemplate.save /\ Start("saving", "updateScope", "update", Edited)
     \/ ThenFetch("updateScope", Closed("edit"))

DeleteScope ==
  /\ At("scopes")
  /\ \/ \E r \in ScopesTemplate.delete : Start("none", "deleteScope", "remove", r)
     \/ ThenFetch("deleteScope", ui)

-----------------------------------------------------------------------------
(* UsersPage *)
UsersTemplate == [add |-> FALSE, edit |-> Listed, save |-> Free("edit", "saving")]

FetchUsers == At("users") /\ Fetched("fetchUsers")

OpenRoleModal == page = "users" /\ \E r \in UsersTemplate.edit : OpenEdit(r, {})

AssignRoles ==
  /\ page = "users" /\ UNCHANGED others
  /\ \/ /\ UsersTemplate.save /\ ui.draft # {}
        /\ Start("saving", "assignRoles", "assign", Edited)
        /\ UNCHANGED meant
     \/ /\ ThenFetch("assignRoles", Closed("edit"))
        /\ \E c \in Answered("assignRoles") : Assigned(c, c.body.name)

-----------------------------------------------------------------------------
(* ApplicationsPage.  The modal that shows a secret does not say whose.     *)
ApplicationsTemplate ==
  [add |-> TRUE, delete |-> Listed, reset |-> {r \in Listed : ui.shown[r] = "CONFIDENTIAL"},
   create |-> Free("create", "creating") /\ ui.form.name # None,
   done |-> "secret" \in ui.open]

FetchClients == At("applications") /\ Fetched("fetchClients")

CreateClient ==
  /\ At("applications")
  /\ \/ ApplicationsTemplate.create /\ Start("creating", "createClient", "create", ui.form)
     \/ \E c \in Answered("createClient") :
          ThenFetch(c.fn, [ui EXCEPT !.secret = c.res, !.form = NoForm,
                                     !.open = (@ \ {"create"}) \cup {"secret"}])

DeleteClient ==
  /\ At("applications")
  /\ \/ \E r \in ApplicationsTemplate.delete : Start("none", "deleteClient", "remove", r)
     \/ ThenFetch("deleteClient", ui)

(* The answer to a reset is shown.                                          *)
ShowSecret ==
  \E c \in Answered("resetSecret") :
    Resume(calls \ {c}, IF c.st = "ok" THEN [ui EXCEPT !.secret = c.res, !.open = @ \cup {"secret"}]
                        ELSE ui)

CloseSecret == Type([ui EXCEPT !.secret = None, !.open = @ \ {"secret"}])

ResetSecret ==
  /\ At("applications")
  /\ \/ \E r \in ApplicationsTemplate.reset : Start("none", "resetSecret", "reset", r)
     \/ ShowSecret
     \/ ApplicationsTemplate.done /\ CloseSecret

-----------------------------------------------------------------------------
(* AuthorizedAppsPage *)
AuthorizedAppsTemplate == [revoke |-> Listed]

FetchApps == At("authorized-apps") /\ Fetched("fetchApps")

RevokeApp ==
  /\ At("authorized-apps")
  /\ \/ \E r \in AuthorizedAppsTemplate.revoke : Start("none", "revokeApp", "remove", r)
     \/ ThenFetch("revokeApp", ui)

-----------------------------------------------------------------------------
ListPagesNext ==
  /\ page \in ListPageNames
  /\ \/ ServeList \/ ServeAssignInList \/ OtherInList
     \/ page \in {"roles", "scopes"} /\ Modals(ModalTable)
     \/ page = "users" /\ Modals(UsersTemplate)
     \/ page = "applications" /\ Modals(ApplicationsTemplate)
     \/ FetchRoles \/ CreateRole \/ OpenEditRole \/ UpdateRole \/ DeleteRole
     \/ FetchScopes \/ CreateScope \/ OpenEditScope \/ UpdateScope \/ DeleteScope
     \/ FetchUsers \/ OpenRoleModal \/ AssignRoles
     \/ FetchClients \/ CreateClient \/ DeleteClient \/ ResetSecret
     \/ FetchApps \/ RevokeApp
=============================================================================
